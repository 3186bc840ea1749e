-------------------------- MODULE FwupdtoolInstall --------------------------
(***************************************************************************)
(* FwupdCli.install: the worker thread that starts fwupdtool and reads its *)
(* stderr line by line, the watchdog thread that kills it when the time    *)
(* limit is reached, and fwupdtool itself.  In FwupdService all of this is *)
(* the time between CallStarts and CallEnds of the call "install".         *)
(*                                                                         *)
(* fwupdtool is external: it writes lines, writes the firmware, exits, or  *)
(* hangs at any point.                                                     *)
(***************************************************************************)
EXTENDS Integers, Sequences

CONSTANTS
    Faults,     \* what can go wrong around fwupdtool
    PipeSize,   \* lines that fit into the stderr pipe
    MaxLines,   \* bound: lines fwupdtool writes
    TailSize    \* _LOG_TAIL_LINES

(* "undecodable": a line that is not text in the locale's encoding.        *)
(* "no_thread": the system cannot start the watchdog's thread.             *)
(* "helper": a child of fwupdtool inherits its stderr and outlives it.     *)
ASSUME InstallAssumption ==
    /\ Faults \subseteq {"undecodable", "no_thread", "helper"}
    /\ PipeSize \in Nat \ {0}
    /\ MaxLines \in Nat
    /\ TailSize \in Nat

VARIABLES
    reader,     \* where the worker thread is in install()
    result,     \* what install() returned or raised
    process,    \* fwupdtool
    code,       \* how it ended
    firmware,   \* what it did to the device
    helper,     \* a child of it holds the other end of the pipe
    pipe,       \* the lines in the pipe
    emitted,    \* how many lines it wrote
    tail,       \* how many lines `tail` keeps
    watchdog,   \* the threading.Timer
    timed_out   \* the threading.Event

toolVars == <<process, code, firmware, helper>>
pipeVars == <<pipe, emitted, tail>>
timerVars == <<watchdog, timed_out>>
vars == <<reader, result, toolVars, pipeVars, timerVars>>

Lines == {"progress", "log"} \cup (Faults \cap {"undecodable"})

TypeOK ==
    /\ reader \in {"idle", "reading", "waiting", "stopping", "unwinding", "deciding", "done"}
    /\ result \in {"none", "ok", "not_found", "command_failed", "timeout", "exception"}
    /\ process \in {"none", "running", "exited"}
    /\ code \in {"none", "zero", "nonzero", "killed", "broken_pipe"}
    /\ firmware \in {"untouched", "partial", "complete"}
    /\ helper \in BOOLEAN
    /\ pipe \in Seq(Lines)
    /\ Len(pipe) <= PipeSize
    /\ emitted \in 0 .. MaxLines
    /\ tail \in 0 .. TailSize
    /\ watchdog \in {"off", "armed", "expired", "killing", "fired", "cancelled"}
    /\ timed_out \in BOOLEAN

Init ==
    /\ reader = "idle"
    /\ result = "none"
    /\ process = "none"
    /\ code = "none"
    /\ firmware = "untouched"
    /\ helper = FALSE
    /\ pipe = << >>
    /\ emitted = 0
    /\ tail = 0
    /\ watchdog = "off"
    /\ timed_out = FALSE

-----------------------------------------------------------------------------
(***************************************************************************)
(* The worker thread                                                       *)
(***************************************************************************)

(* install() is over.                                                      *)
Report(r) ==
    /\ reader' = "done"
    /\ result' = r

(* Popen fails: no such binary, or any other OSError.                      *)
PopenFails ==
    /\ reader = "idle"
    /\ \E r \in {"not_found", "exception"} : Report(r)
    /\ UNCHANGED <<toolVars, pipeVars, timerVars>>

(* Mutant: no watchdog is started.                                         *)
Popen_NoWatchdog ==
    /\ reader = "idle"
    /\ process' = "running"
    /\ reader' = "reading"
    /\ UNCHANGED <<result, code, firmware, helper, pipeVars, timerVars>>

(* Popen, then watchdog.start().                                           *)
Popen ==
    /\ reader = "idle"
    /\ process' = "running"
    /\ reader' = "reading"
    /\ watchdog' = "armed"
    /\ UNCHANGED <<result, code, firmware, helper, pipeVars, timed_out>>

(* watchdog.start() raises, before the `try` that would cancel it.         *)
WatchdogFails ==
    /\ reader = "idle"
    /\ "no_thread" \in Faults
    /\ process' = "running"
    /\ Report("exception")
    /\ UNCHANGED <<code, firmware, helper, pipeVars, timerVars>>

(* Mutant: `del tail[:-_LOG_TAIL_LINES]` is missing.                       *)
ReadLine_NoTrim ==
    /\ reader = "reading"
    /\ pipe # << >>
    /\ Head(pipe) # "undecodable"
    /\ pipe' = Tail(pipe)
    /\ tail' = IF Head(pipe) = "log" THEN tail + 1 ELSE tail
    /\ UNCHANGED <<reader, result, toolVars, emitted, timerVars>>

(* One line: progress, or log for the tail.                                *)
ReadLine ==
    /\ reader = "reading"
    /\ pipe # << >>
    /\ Head(pipe) # "undecodable"
    /\ pipe' = Tail(pipe)
    /\ tail' = IF Head(pipe) = "log" /\ tail < TailSize THEN tail + 1 ELSE tail
    /\ UNCHANGED <<reader, result, toolVars, emitted, timerVars>>

(* Decoding the next line raises in the middle of the loop.                *)
ReadRaises ==
    /\ reader = "reading"
    /\ pipe # << >>
    /\ Head(pipe) = "undecodable"
    /\ reader' = "unwinding"
    /\ UNCHANGED <<result, toolVars, pipeVars, timerVars>>

(* Mutant: the loop ends with the process and not with its output.         *)
ReadEnds_OnExit ==
    /\ reader = "reading"
    /\ process = "exited"
    /\ reader' = "waiting"
    /\ UNCHANGED <<result, toolVars, pipeVars, timerVars>>

(* The pipe is at its end when nobody holds the other side any more.       *)
ReadEnds ==
    /\ reader = "reading"
    /\ pipe = << >>
    /\ process = "exited"
    /\ ~helper
    /\ reader' = "waiting"
    /\ UNCHANGED <<result, toolVars, pipeVars, timerVars>>

(* code = proc.wait()                                                      *)
Wait ==
    /\ reader = "waiting"
    /\ process = "exited"
    /\ reader' = "stopping"
    /\ UNCHANGED <<result, toolVars, pipeVars, timerVars>>

(* watchdog.cancel() comes too late for a timer that has expired.          *)
Cancelled == IF watchdog = "armed" THEN "cancelled" ELSE watchdog

(* Mutant: an `except` in place of the `finally`.                          *)
StopWatchdog_OnRaiseOnly ==
    /\ \/ /\ reader = "stopping"
          /\ reader' = "deciding"
          /\ UNCHANGED <<result, watchdog>>
       \/ /\ reader = "unwinding"
          /\ watchdog' = Cancelled
          /\ Report("exception")
    /\ UNCHANGED <<toolVars, pipeVars, timed_out>>

(* The `finally`, after the loop or on the way out of it.                  *)
StopWatchdog ==
    /\ watchdog' = Cancelled
    /\ \/ /\ reader = "stopping"
          /\ reader' = "deciding"
          /\ UNCHANGED result
       \/ /\ reader = "unwinding"
          /\ Report("exception")
    /\ UNCHANGED <<toolVars, pipeVars, timed_out>>

(* Mutant: the exit code is looked at before the event.                    *)
Decide_CodeFirst ==
    /\ reader = "deciding"
    /\ Report(IF code = "zero" THEN "ok"
              ELSE IF code # "none" THEN "command_failed" ELSE "timeout")
    /\ UNCHANGED <<toolVars, pipeVars, timerVars>>

Decide ==
    /\ reader = "deciding"
    /\ Report(IF timed_out THEN "timeout"
              ELSE IF code = "zero" THEN "ok" ELSE "command_failed")
    /\ UNCHANGED <<toolVars, pipeVars, timerVars>>

Reader ==
    \/ Popen
    \/ PopenFails
    \/ WatchdogFails
    \/ ReadLine
    \/ ReadRaises
    \/ ReadEnds
    \/ Wait
    \/ StopWatchdog
    \/ Decide

-----------------------------------------------------------------------------
(***************************************************************************)
(* The watchdog thread, kill_on_timeout                                    *)
(***************************************************************************)

(* Mutant: the process is killed before the event is set.                  *)
Expire_KillsFirst ==
    /\ watchdog = "armed"
    /\ watchdog' = "expired"
    /\ process' = IF process = "running" THEN "exited" ELSE process
    /\ code' = IF process = "running" THEN "killed" ELSE code
    /\ UNCHANGED <<reader, result, firmware, helper, pipeVars, timed_out>>

(* The time limit is reached and the timer found itself not cancelled.     *)
Expire ==
    /\ watchdog = "armed"
    /\ watchdog' = "expired"
    /\ UNCHANGED <<reader, result, toolVars, pipeVars, timed_out>>

SetTimedOut ==
    /\ watchdog = "expired"
    /\ timed_out' = TRUE
    /\ watchdog' = "killing"
    /\ UNCHANGED <<reader, result, toolVars, pipeVars>>

(* proc.kill() does nothing to a process that has ended.                   *)
Kill ==
    /\ watchdog = "killing"
    /\ watchdog' = "fired"
    /\ process' = IF process = "running" THEN "exited" ELSE process
    /\ code' = IF process = "running" THEN "killed" ELSE code
    /\ UNCHANGED <<reader, result, firmware, helper, pipeVars, timed_out>>

Watchdog == Expire \/ SetTimedOut \/ Kill

-----------------------------------------------------------------------------
(***************************************************************************)
(* fwupdtool                                                               *)
(***************************************************************************)

(* It writes a line, and waits while the pipe is full.  With the reading   *)
(* side gone the write is lost or ends it.                                 *)
WriteLine ==
    /\ process = "running"
    /\ emitted < MaxLines
    /\ emitted' = emitted + 1
    /\ \/ /\ reader # "done"
          /\ Len(pipe) < PipeSize
          /\ \E line \in Lines : pipe' = Append(pipe, line)
          /\ UNCHANGED <<process, code>>
       \/ /\ reader = "done"
          /\ \/ process' = "exited" /\ code' = "broken_pipe"
             \/ UNCHANGED <<process, code>>
          /\ UNCHANGED pipe
    /\ UNCHANGED <<reader, result, firmware, helper, tail, timerVars>>

(* It works on the device.                                                 *)
Flash ==
    /\ process = "running"
    /\ \/ firmware = "untouched" /\ firmware' = "partial"
       \/ firmware = "partial" /\ firmware' = "complete"
    /\ UNCHANGED <<reader, result, process, code, helper, pipeVars, timerVars>>

(* It exits, with 0 only when the firmware is written.                     *)
Exit ==
    /\ process = "running"
    /\ process' = "exited"
    /\ code' \in {"nonzero"} \cup IF firmware = "complete" THEN {"zero"} ELSE {}
    /\ UNCHANGED <<reader, result, firmware, helper, pipeVars, timerVars>>

(* A child of it comes and goes on its own; nobody kills it.               *)
Helper ==
    /\ "helper" \in Faults
    /\ helper' = ~helper
    /\ helper \/ process = "running"
    /\ UNCHANGED <<reader, result, process, code, firmware, pipeVars, timerVars>>

Fwupdtool == WriteLine \/ Flash \/ Exit \/ Helper

-----------------------------------------------------------------------------

Next == Reader \/ Watchdog \/ Fwupdtool

Safety == Init /\ [][Next]_vars

(***************************************************************************)
(* The two threads run, and time passes, so the watchdog expires.  Nothing *)
(* makes fwupdtool or a child of it do anything.                           *)
(***************************************************************************)
Fairness == WF_vars(Reader) /\ WF_vars(Watchdog)

Spec == Safety /\ Fairness

-----------------------------------------------------------------------------
(***************************************************************************)
(* Properties                                                              *)
(***************************************************************************)

(* Success is reported only for a process that ended by itself with exit   *)
(* code 0, has written all of the firmware, and whose whole output was     *)
(* read, whatever the watchdog did meanwhile.                              *)
OkMeansComplete ==
    result = "ok" => code = "zero" /\ firmware = "complete" /\ pipe = << >>

(* An install the watchdog killed is never reported as fwupdtool's own     *)
(* failure: the event is set before the process dies, and looked at after. *)
KillIsReported == code = "killed" => result \notin {"ok", "command_failed"}

(* Whenever install() comes back with an outcome it names, fwupdtool has   *)
(* ended, so the lock can be released; and no timer is left ticking.       *)
NamedOutcomeMeansEnded ==
    result \in {"ok", "command_failed", "timeout"} => process = "exited" /\ watchdog # "armed"

(* install() promises its caller what InstallCall says: fwupdtool runs     *)
(* once, and the call comes back once, with an outcome that fits its end.  *)
Outcome == [none |-> IF reader = "idle" THEN "not_called" ELSE "running",
            ok |-> "installed",
            command_failed |-> "failed",
            timeout |-> "timed_out",
            not_found |-> "raised",
            exception |-> "raised"]

End == [none |-> process,
        zero |-> "succeeded",
        nonzero |-> "failed",
        broken_pipe |-> "failed",
        killed |-> "killed"]

Promise == INSTANCE InstallCall WITH
    call <- Outcome[result], tool <- End[code], device <- firmware

ImplementsInstallCall == Promise!Safety

(* install() comes back even when fwupdtool hangs at any point, unless a   *)
(* child of it keeps the pipe for ever.                                    *)
InstallReturns == reader # "idle" ~> (reader = "done" \/ []helper)

-----------------------------------------------------------------------------
(***************************************************************************)
(* The inductive invariant behind the proofs in FwupdtoolInstallProofs.    *)
(***************************************************************************)

(* An exit code exists from the end of the process on.                     *)
CodeOfExited ==
    /\ process = "exited" <=> code # "none"
    /\ code = "zero" => firmware = "complete"
    /\ code = "killed" => timed_out

(* The event is set before the process is killed.                          *)
EventBeforeKill == watchdog \in {"killing", "fired"} => timed_out

(* What the worker thread has learned at each place.                       *)
WorkerKnows ==
    /\ reader = "idle" => process = "none"
    /\ reader \in {"waiting", "stopping", "deciding"} => process = "exited" /\ pipe = << >>
    /\ reader = "deciding" => watchdog # "armed"
    /\ reader # "done" => result = "none"

IInv ==
    /\ TypeOK
    /\ CodeOfExited
    /\ EventBeforeKill
    /\ WorkerKnows
    /\ OkMeansComplete
    /\ KillIsReported
    /\ NamedOutcomeMeansEnded

-----------------------------------------------------------------------------
(***************************************************************************)
(* Four claims of comments and documents that do not hold.                 *)
(***************************************************************************)

(* README.md: "Killing a flash mid-write can leave partially written       *)
(* firmware, so a job runs to completion or fails on its own."             *)
WriteNeverKilled == ~(code = "killed" /\ firmware = "partial")

(* service.py: "Concurrent fwupdtool invocations against the same hardware *)
(* are unsafe; a single lock serializes them": the lock is released when   *)
(* install() is over, and then fwupdtool must be over as well.             *)
ProcessEndsFirst == reader = "done" => process # "running"

(* cli.py, FwupdTimeout: "fwupdtool exceeded the configured timeout."      *)
TimeoutMeansExceeded == result = "timeout" => code = "killed"

(* cli.py: "A watchdog that kills the process ends the loop by closing the *)
(* pipe."                                                                  *)
KillEndsLoop == watchdog = "fired" ~> reader # "reading"
=============================================================================
