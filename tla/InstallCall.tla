----------------------------- MODULE InstallCall -----------------------------
(***************************************************************************)
(* What FwupdCli.install promises to the flash that calls it, with the     *)
(* pipe, the threads and the timer left out: fwupdtool is started at most  *)
(* once, works on the device until it ends, and the call comes back once,  *)
(* with an outcome that fits the end.  Only an unforeseen exception may    *)
(* come back before the end.                                               *)
(***************************************************************************)

VARIABLES
    call,       \* whether install() was called, and how it came back
    tool,       \* fwupdtool, and how it ended
    device      \* the firmware on the device

vars == <<call, tool, device>>

TypeOK ==
    /\ call \in {"not_called", "running", "installed", "failed", "timed_out", "raised"}
    /\ tool \in {"none", "running", "succeeded", "failed", "killed"}
    /\ device \in {"untouched", "partial", "complete"}

Init ==
    /\ call = "not_called"
    /\ tool = "none"
    /\ device = "untouched"

(* fwupdtool is started; or started, and the call is given up at once.     *)
Launch ==
    /\ call = "not_called"
    /\ tool' = "running"
    /\ call' \in {"running", "raised"}
    /\ UNCHANGED device

(* It cannot be started.                                                   *)
NotLaunched ==
    /\ call = "not_called"
    /\ call' = "raised"
    /\ UNCHANGED <<tool, device>>

Write ==
    /\ tool = "running"
    /\ \/ device = "untouched" /\ device' = "partial"
       \/ device = "partial" /\ device' = "complete"
    /\ UNCHANGED <<call, tool>>

(* fwupdtool succeeds only with all of the firmware written.               *)
End ==
    /\ tool = "running"
    /\ tool' \in {"failed", "killed"} \cup IF device = "complete" THEN {"succeeded"} ELSE {}
    /\ UNCHANGED <<call, device>>

(* The time limit may be reported of a tool that ended by itself, but its  *)
(* kill is reported as nothing else.                                       *)
Return ==
    /\ call = "running"
    /\ \/ tool = "succeeded" /\ call' = "installed"
       \/ tool = "failed" /\ call' = "failed"
       \/ tool \in {"succeeded", "failed", "killed"} /\ call' = "timed_out"
    /\ UNCHANGED <<tool, device>>

(* An exception that says nothing of fwupdtool, which may go on.           *)
Raise ==
    /\ call = "running"
    /\ call' = "raised"
    /\ UNCHANGED <<tool, device>>

Next ==
    \/ Launch
    \/ NotLaunched
    \/ Write
    \/ End
    \/ Return
    \/ Raise

Safety == Init /\ [][Next]_vars
=============================================================================
