------------------------------ MODULE FlashSlot ------------------------------
(***************************************************************************)
(* What the flashing half of fwupd-webui promises, with the HTTP routes,   *)
(* the hardware lock, the fwupdtool calls and the cache left out.          *)
(*                                                                         *)
(* There is one slot.  A request claims it while its flash is validated,   *)
(* and either withdraws or begins the flash.  A flash writes the device at *)
(* most once, is never cancelled, and its outcome stays readable until it  *)
(* is dismissed or the next flash begins.                                  *)
(***************************************************************************)
EXTENDS FiniteSets

CONSTANT Requests   \* the requests that may ask for a flash

VARIABLES
    claimants,      \* the requests whose flash is being validated
    outcome,        \* "none", "running", "succeeded" or "failed"
    write           \* how far the running flash got with the device

vars == <<claimants, outcome, write>>

TypeOK ==
    /\ claimants \subseteq Requests
    /\ outcome \in {"none", "running", "succeeded", "failed"}
    /\ write \in {"not_started", "in_progress", "ended"}

Init ==
    /\ claimants = {}
    /\ outcome = "none"
    /\ write = "not_started"

-----------------------------------------------------------------------------

(* A request reserves the slot, whether or not an old outcome is on show.  *)
Claim(r) ==
    /\ claimants = {}
    /\ outcome # "running"
    /\ claimants' = {r}
    /\ UNCHANGED <<outcome, write>>

(* Validation refused the request or could not be carried out.             *)
Withdraw ==
    /\ claimants # {}
    /\ claimants' = {}
    /\ UNCHANGED <<outcome, write>>

(* The claimed slot becomes a running flash.                               *)
Begin ==
    /\ claimants # {}
    /\ outcome # "running"
    /\ claimants' = {}
    /\ outcome' = "running"
    /\ write' = "not_started"

StartWrite ==
    /\ outcome = "running"
    /\ write = "not_started"
    /\ write' = "in_progress"
    /\ UNCHANGED <<claimants, outcome>>

EndWrite ==
    /\ write = "in_progress"
    /\ write' = "ended"
    /\ UNCHANGED <<claimants, outcome>>

(* A flash succeeds only after a write; it never ends during one.          *)
Finish ==
    /\ outcome = "running"
    /\ write # "in_progress"
    /\ outcome' \in {"failed"} \cup IF write = "ended" THEN {"succeeded"} ELSE {}
    /\ write' = "not_started"
    /\ UNCHANGED claimants

Dismiss ==
    /\ outcome \in {"succeeded", "failed"}
    /\ outcome' = "none"
    /\ UNCHANGED <<claimants, write>>

Next ==
    \/ \E r \in Requests : Claim(r)
    \/ Withdraw
    \/ Begin
    \/ StartWrite
    \/ EndWrite
    \/ Finish
    \/ Dismiss

Safety == Init /\ [][Next]_vars

(***************************************************************************)
(* Nobody holds a claim for ever, and a running flash gets to an outcome.  *)
(***************************************************************************)
Fairness ==
    /\ WF_vars(Withdraw \/ Begin)
    /\ WF_vars(EndWrite \/ Finish)

Spec == Safety /\ Fairness
==============================================================================
