---------------------------- MODULE ProgressPage ----------------------------
(***************************************************************************)
(* What the operators see of a flash: the pages GET /flash and GET         *)
(* /flash/progress, the fragment that polls once a second until the job is *)
(* finished, and POST /flash/dismiss, from several tabs at once, with      *)
(* answers that get lost, sessions that expire and a server that restarts. *)
(*                                                                         *)
(* A job is an object: GET /flash takes it from the slot, waits for an     *)
(* inventory, and renders it as it is by then.                             *)
(***************************************************************************)
EXTENDS Integers

CONSTANTS
    Tabs,           \* the browser tabs, each with a session of its own
    None,           \* Python's None: no job
    MaxJobs,        \* bound: flashes
    MaxRestarts     \* bound: restarts of the server

Jobs == 1 .. MaxJobs

ASSUME PageAssumption ==
    /\ MaxJobs \in Nat
    /\ MaxRestarts \in Nat
    /\ None \notin Jobs

VARIABLES
    status,     \* FlashJob.status of every job object, "unused" before begin
    job,        \* FlashManager.job
    sessions,   \* the tabs that are logged in
    page,       \* per tab: the job that GET /flash took and has not rendered
    answer,     \* per tab: a rendered answer on its way
    screen,     \* per tab: what it shows
    restarts    \* how often the server restarted

serverVars == <<status, job, restarts>>
vars == <<serverVars, sessions, page, answer, screen>>

-----------------------------------------------------------------------------
(***************************************************************************)
(* What a tab shows                                                        *)
(***************************************************************************)

Elsewhere == [shows |-> "elsewhere", of |-> None]
Starting  == [shows |-> "starting", of |-> None]

Finished(j) == j # None /\ status[j] \in {"succeeded", "failed"}

(* Mutant: only a success counts as finished.                              *)
Fragment_SuccessOnly(j) ==
    IF j = None THEN Starting
    ELSE [shows |-> IF status[j] = "succeeded" THEN "result" ELSE "progress", of |-> j]

(* _flash_progress.html.  Without a job nothing in it is finished either,  *)
(* and it reads "Starting".                                                *)
Fragment(j) ==
    IF j = None THEN Starting
    ELSE [shows |-> IF Finished(j) THEN "result" ELSE "progress", of |-> j]

Polls(t) == screen[t].shows \in {"starting", "progress"}

Waits(t) == page[t] # None \/ answer[t] # Elsewhere

active == job # None /\ ~Finished(job)

Init ==
    /\ status = [j \in Jobs |-> "unused"]
    /\ job = None
    /\ sessions = Tabs
    /\ page = [t \in Tabs |-> None]
    /\ answer = [t \in Tabs |-> Elsewhere]
    /\ screen = [t \in Tabs |-> Elsewhere]
    /\ restarts = 0

-----------------------------------------------------------------------------
(***************************************************************************)
(* The flash                                                               *)
(***************************************************************************)

(* FlashManager.begin; the tab that posted is sent to /flash like others.  *)
begin ==
    /\ ~active
    /\ \E j \in Jobs :
        /\ status[j] = "unused"
        /\ \A i \in Jobs : i < j => status[i] # "unused"
        /\ status' = [status EXCEPT ![j] = "running"]
        /\ job' = j
    /\ UNCHANGED <<restarts, sessions, page, answer, screen>>

run_ends ==
    /\ active
    /\ \E s \in {"succeeded", "failed"} : status' = [status EXCEPT ![job] = s]
    /\ UNCHANGED <<job, restarts, sessions, page, answer, screen>>

(* The jobs, the sessions and the answers under way live in the process.   *)
Restart ==
    /\ restarts < MaxRestarts
    /\ restarts' = restarts + 1
    /\ job' = None
    /\ sessions' = {}
    /\ page' = [t \in Tabs |-> None]
    /\ answer' = [t \in Tabs |-> Elsewhere]
    /\ UNCHANGED <<status, screen>>

-----------------------------------------------------------------------------
(***************************************************************************)
(* A tab                                                                   *)
(***************************************************************************)

(* GET /flash: without a job, back to the devices.                         *)
flash_page(t) ==
    /\ t \in sessions
    /\ screen[t] = Elsewhere
    /\ ~Waits(t)
    /\ job # None
    /\ page' = [page EXCEPT ![t] = job]
    /\ UNCHANGED <<serverVars, sessions, answer, screen>>

(* The inventory is there, and the page is rendered.                       *)
flash_page_rendered(t) ==
    /\ page[t] # None
    /\ answer' = [answer EXCEPT ![t] = Fragment(page[t])]
    /\ page' = [page EXCEPT ![t] = None]
    /\ UNCHANGED <<serverVars, sessions, screen>>

(* GET /flash/progress, every second.  Logged out, htmx goes to /login.    *)
flash_progress(t) ==
    /\ Polls(t)
    /\ ~Waits(t)
    /\ \/ /\ t \in sessions
          /\ answer' = [answer EXCEPT ![t] = Fragment(job)]
          /\ UNCHANGED screen
       \/ /\ t \notin sessions
          /\ screen' = [screen EXCEPT ![t] = Elsewhere]
          /\ UNCHANGED answer
    /\ UNCHANGED <<serverVars, sessions, page>>

(* The answer arrives.                                                     *)
Show(t) ==
    /\ answer[t] # Elsewhere
    /\ screen' = [screen EXCEPT ![t] = answer[t]]
    /\ answer' = [answer EXCEPT ![t] = Elsewhere]
    /\ UNCHANGED <<serverVars, sessions, page>>

(* The answer is lost.                                                     *)
Lose(t) ==
    /\ answer[t] # Elsewhere
    /\ answer' = [answer EXCEPT ![t] = Elsewhere]
    /\ UNCHANGED <<serverVars, sessions, page, screen>>

(* POST /flash/dismiss, the button below a result.  While another flash is *)
(* active it raises, which is a 500; logged out, it leads to /login.       *)
dismiss(t) ==
    /\ screen[t].shows = "result"
    /\ job' = IF t \in sessions /\ ~active THEN None ELSE job
    /\ screen' = [screen EXCEPT ![t] = Elsewhere]
    /\ UNCHANGED <<status, restarts, sessions, page, answer>>

(* The operator goes to another page, and drops what is under way.         *)
Leave(t) ==
    /\ screen[t] # Elsewhere
    /\ screen' = [screen EXCEPT ![t] = Elsewhere]
    /\ answer' = [answer EXCEPT ![t] = Elsewhere]
    /\ UNCHANGED <<serverVars, sessions, page>>

Expire(t) ==
    /\ t \in sessions
    /\ sessions' = sessions \ {t}
    /\ UNCHANGED <<serverVars, page, answer, screen>>

login(t) ==
    /\ t \notin sessions
    /\ screen[t] = Elsewhere
    /\ sessions' = sessions \cup {t}
    /\ UNCHANGED <<serverVars, page, answer, screen>>

-----------------------------------------------------------------------------

Server == run_ends \/ \E t \in Tabs : flash_page_rendered(t)

Next ==
    \/ begin
    \/ Server
    \/ Restart
    \/ \E t \in Tabs :
        \/ flash_page(t)
        \/ flash_progress(t)
        \/ Show(t)
        \/ Lose(t)
        \/ dismiss(t)
        \/ Leave(t)
        \/ Expire(t)
        \/ login(t)

(***************************************************************************)
(* A flash ends and a page is rendered (FwupdService!Spec), a polling tab  *)
(* polls, and not every answer of a tab is lost.  Nothing makes an         *)
(* operator do anything.                                                   *)
(***************************************************************************)
Fairness ==
    /\ WF_vars(run_ends)
    /\ \A t \in Tabs :
        /\ WF_vars(flash_page_rendered(t))
        /\ WF_vars(flash_progress(t))
        /\ SF_vars(Show(t))

Spec == Init /\ [][Next]_vars /\ Fairness

-----------------------------------------------------------------------------
(***************************************************************************)
(* Properties                                                              *)
(***************************************************************************)

(* No tab goes on forever about a flash that is over, whatever the other   *)
(* tabs and the server do: "Do not power off the machine" comes to an end. *)
ProgressMovesOn ==
    \A t \in Tabs : \A j \in Jobs :
        screen[t] = [shows |-> "progress", of |-> j]
            ~> screen[t] # [shows |-> "progress", of |-> j]

(* flash.py, of the end of a job: "the progress page stops polling at that *)
(* point".  Every tab that polls stops in the end.  It holds for a single  *)
(* tab; of two, one can dismiss the job before the other has seen it end,  *)
(* which then reads "Starting" for ever.                                   *)
PollingStops == \A t \in Tabs : Polls(t) ~> ~Polls(t)

(* flash.py: "A finished job is retained so the result stays readable      *)
(* after a reconnect": a tab that dismisses a job is one that showed it.   *)
DismissedWasShown ==
    [][\A t \in Tabs : dismiss(t) /\ job' # job => screen[t].of = job]_vars
=============================================================================
