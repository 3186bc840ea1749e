---------------------------- MODULE FwupdService ----------------------------
(***************************************************************************)
(* The concurrent core of fwupd-webui: the request handlers of             *)
(* web/routes.py, web/flash_routes.py and web/api_routes.py, the           *)
(* FwupdService they share, and the background task that runs a flash.     *)
(*                                                                         *)
(* Everything happens on one asyncio event loop.  A handler runs without   *)
(* interruption from one `await` to the next, so each action is one such   *)
(* stretch of code.  A call to fwupdtool is made by FwupdService._call: it *)
(* waits in the FIFO queue of an asyncio.Lock, runs in a thread, and the   *)
(* handler goes on in a later step.  The thread's life has two steps of    *)
(* its own, CallStarts and CallEnds.                                       *)
(*                                                                         *)
(* Data is reduced to what decides control: an inventory is the time it    *)
(* was asked for and the time the devices were read; whether a flash       *)
(* passes validation is a free choice here (FlashPolicy decides it); what  *)
(* happens inside `install` is in FwupdtoolInstall.                        *)
(***************************************************************************)
EXTENDS Integers, Sequences, FiniteSets

CONSTANTS
    Requests,       \* handler invocations that can be in progress together
    Runner,         \* the background task that executes _run_flash
    None,           \* Python's None: nobody, no snapshot, no job, no stamp
    CacheSeconds,   \* Config.api_cache_seconds, in clock ticks
    MaxClock        \* bound: the wall clock stops here

Tasks == Requests \cup {Runner}
Time  == 0 .. MaxClock

VARIABLES
    lock,           \* FwupdService._lock: its holder and the FIFO of waiters
    pc,             \* per task: the call it is waiting for or executing
    thread,         \* per task: its asyncio.to_thread call
    role,           \* per request: the handler it executes
    now,            \* per request: `now` in cached_inventory
    read,           \* per request: when the devices it lists were read
    seen,           \* per request: the job it picked up before its await
    cached,         \* FwupdService._cached
    flash_starting, \* FwupdService._flash_starting
    job,            \* FlashManager.job
    stamp,          \* the file .webui-last-refresh
    clock           \* FwupdService._clock()

requestVars == <<role, now, read, seen>>
storeVars   == <<cached, stamp>>
flashVars   == <<flash_starting, job>>
vars == <<lock, pc, thread, requestVars, storeVars, flashVars, clock>>

-----------------------------------------------------------------------------
(***************************************************************************)
(* Types                                                                   *)
(***************************************************************************)

(* The calls of inventory(), of _validate_and_begin and of refresh.        *)
InventoryCalls == {"get_devices", "version", "get_updates"}
StartCalls     == {"check_devices", "check_updates"}
RequestCalls   == InventoryCalls \cup StartCalls \cup {"refresh"}

(* What the background task does under the lock, in order.                 *)
FlashCalls == {"download", "install", "record"}

Calls == RequestCalls \cup FlashCalls

(* "page" is any handler that calls inventory() itself.  The others call   *)
(* cached_inventory(): "flash" from _validate_and_begin, "refused" for the *)
(* page that tells why a flash was refused.                                *)
CachingRoles == {"status", "flash_page", "flash", "refused"}
Roles == CachingRoles \cup {"none", "page"}

(* A call returns, raises FwupdError, or raises anything else (parsing the *)
(* device list can raise ValueError, for example).                         *)
Results == {"ok", "fwupd_error", "exception"}

Jobs == [status : {"running", "succeeded", "failed"},
         staged : {"unknown", "live", "staged"}]

Snapshots == [at : Time, read : Time]

Locks == [holder : Tasks \cup {None}, queue : Seq(Tasks)]

ASSUME ConstantsAssumption ==
    /\ Runner \notin Requests
    /\ None \notin Tasks \cup Time \cup Jobs \cup Snapshots
    /\ CacheSeconds \in Nat
    /\ MaxClock \in Nat

TypeOK ==
    /\ lock \in Locks
    /\ pc \in [Tasks -> Calls \cup {"idle", "created"}]
    /\ \A t \in Requests : pc[t] \in RequestCalls \cup {"idle"}
    /\ pc[Runner] \in FlashCalls \cup {"idle", "created"}
    /\ thread \in [Tasks -> Results \cup {"off", "running"}]
    /\ role \in [Requests -> Roles]
    /\ now \in [Requests -> Time]
    /\ read \in [Requests -> Time]
    /\ seen \in [Requests -> {"none", "current", "former"}]
    /\ cached \in Snapshots \cup {None}
    /\ flash_starting \in BOOLEAN
    /\ job \in Jobs \cup {None}
    /\ stamp \in Time \cup {None}
    /\ clock \in Time

(* The server starts listening after __main__ has tried a refresh, so the  *)
(* stamp may be missing or there.                                          *)
Init ==
    /\ lock = [holder |-> None, queue |-> << >>]
    /\ pc = [t \in Tasks |-> "idle"]
    /\ thread = [t \in Tasks |-> "off"]
    /\ role = [t \in Requests |-> "none"]
    /\ now = [t \in Requests |-> 0]
    /\ read = [t \in Requests |-> 0]
    /\ seen = [t \in Requests |-> "none"]
    /\ cached = None
    /\ flash_starting = FALSE
    /\ job = None
    /\ stamp \in {0, None}
    /\ clock = 0

-----------------------------------------------------------------------------
(***************************************************************************)
(* Helpers                                                                 *)
(***************************************************************************)

(* FlashManager.active                                                     *)
active == job # None /\ job.status = "running"

(* asyncio.Lock.  A task that finds the lock taken joins the queue, and so *)
(* does one that finds the queue occupied; release hands the lock to the   *)
(* head of the queue.  As the lock is only free while the queue is empty,  *)
(* looking at the holder is enough.                                        *)
Acquired(l, t) ==
    IF l.holder = None THEN [l EXCEPT !.holder = t]
                       ELSE [l EXCEPT !.queue = Append(@, t)]

(* Mutant: the last waiter comes first.                                    *)
Released_LastFirst ==
    LET n == Len(lock.queue) IN
    IF n = 0 THEN [holder |-> None, queue |-> << >>]
             ELSE [holder |-> lock.queue[n], queue |-> SubSeq(lock.queue, 1, n - 1)]

Released ==
    IF lock.queue = << >>
    THEN [holder |-> None, queue |-> << >>]
    ELSE [holder |-> Head(lock.queue), queue |-> Tail(lock.queue)]

(* Mutant: the handler keeps the status of the job instead of the job.     *)
JobInHand_Status == IF job = None THEN "none" ELSE job.status

(* The job object a handler picks up before it awaits.  The handler keeps  *)
(* the object even when the manager has moved on to another one.           *)
JobInHand == IF job = None THEN "none" ELSE "current"

JobReplaced == [t \in Requests |-> IF seen[t] = "current" THEN "former" ELSE seen[t]]

(* cached_inventory's two early answers: the cached copy, or the refusal   *)
(* to enumerate while a flash runs.                                        *)
ServedFromCache == cached # None /\ (active \/ clock - cached.at < CacheSeconds)
AnsweredAtOnce  == ServedFromCache \/ active

(* The lock was handed to task t, and the call it made in a thread is over. *)
Returned(t, call, results) ==
    /\ pc[t] = call
    /\ thread[t] \in results
    /\ thread' = [thread EXCEPT ![t] = "off"]

(* The request makes its next call; l is the lock as it finds it.          *)
Await(t, call, l) ==
    /\ pc' = [pc EXCEPT ![t] = call]
    /\ lock' = Acquired(l, t)

(* The handler returns or raises, and its local variables are gone.        *)
Forget(t) ==
    /\ role' = [role EXCEPT ![t] = "none"]
    /\ now' = [now EXCEPT ![t] = 0]
    /\ read' = [read EXCEPT ![t] = 0]

Answer(t) ==
    /\ pc' = [pc EXCEPT ![t] = "idle"]
    /\ Forget(t)
    /\ seen' = [seen EXCEPT ![t] = "none"]

(* cached_inventory cannot answer at once and calls inventory().           *)
Enumerate(t, r, l) ==
    /\ ~AnsweredAtOnce
    /\ Await(t, "get_devices", l)
    /\ role' = [role EXCEPT ![t] = r]
    /\ now' = [now EXCEPT ![t] = clock]
    /\ read' = [read EXCEPT ![t] = 0]

(* start_flash ends in an exception the route turns into the refused page, *)
(* which wants an inventory as well.                                       *)
Refused(t, l) ==
    /\ flash_starting' = FALSE
    /\ \/ /\ AnsweredAtOnce
          /\ lock' = l
          /\ Answer(t)
       \/ /\ Enumerate(t, "refused", l)
          /\ UNCHANGED seen
    /\ UNCHANGED <<job, storeVars, clock>>

(* FlashManager.begin, asyncio.create_task, and the `finally` of           *)
(* start_flash: one stretch of code.  begin's own check of `active` never  *)
(* fires, which is the invariant ClaimantFindsSlotFree.                    *)
Begin(t) ==
    /\ job' = [status |-> "running", staged |-> "unknown"]
    /\ flash_starting' = FALSE
    /\ pc' = [pc EXCEPT ![t] = "idle", ![Runner] = "created"]
    /\ seen' = JobReplaced
    /\ Forget(t)

-----------------------------------------------------------------------------
(***************************************************************************)
(* Requests arrive.  A handler that can answer without waiting leaves the  *)
(* state as it is and has no step here: every redirect to /flash while a   *)
(* flash is active, every answer served from the cached inventory, the     *)
(* progress fragment, and a dismiss that is refused.                       *)
(***************************************************************************)

(* Mutant: the pages do not look for an active flash.                      *)
index_DuringFlash(t) ==
    /\ pc[t] = "idle"
    /\ Await(t, "get_devices", lock)
    /\ role' = [role EXCEPT ![t] = "page"]
    /\ UNCHANGED <<thread, now, read, seen, storeVars, flashVars, clock>>

(* GET /, GET /devices/{id} and GET /devices/{id}/confirm.                 *)
index(t) ==
    /\ pc[t] = "idle"
    /\ ~active
    /\ Await(t, "get_devices", lock)
    /\ role' = [role EXCEPT ![t] = "page"]
    /\ UNCHANGED <<thread, now, read, seen, storeVars, flashVars, clock>>

(* POST /refresh.                                                          *)
refresh(t) ==
    /\ pc[t] = "idle"
    /\ ~active
    /\ Await(t, "refresh", lock)
    /\ role' = [role EXCEPT ![t] = "page"]
    /\ UNCHANGED <<thread, now, read, seen, storeVars, flashVars, clock>>

(* GET /api/status.                                                        *)
status(t) ==
    /\ pc[t] = "idle"
    /\ Enumerate(t, "status", lock)
    /\ seen' = [seen EXCEPT ![t] = JobInHand]
    /\ UNCHANGED <<thread, storeVars, flashVars, clock>>

(* GET /flash.                                                             *)
flash_page(t) ==
    /\ pc[t] = "idle"
    /\ job # None
    /\ Enumerate(t, "flash_page", lock)
    /\ seen' = [seen EXCEPT ![t] = JobInHand]
    /\ UNCHANGED <<thread, storeVars, flashVars, clock>>

(* Mutant: start_flash does not look at _flash_starting.                   *)
start_flash_DoubleClick(t) ==
    /\ pc[t] = "idle"
    /\ ~active
    /\ flash_starting' = TRUE
    /\ Await(t, "check_devices", lock)
    /\ role' = [role EXCEPT ![t] = "flash"]
    /\ UNCHANGED <<thread, now, read, seen, storeVars, job, clock>>

(* POST /flash, up to the first call of the validation.                    *)
start_flash(t) ==
    /\ pc[t] = "idle"
    /\ ~active
    /\ ~flash_starting
    /\ flash_starting' = TRUE
    /\ Await(t, "check_devices", lock)
    /\ role' = [role EXCEPT ![t] = "flash"]
    /\ UNCHANGED <<thread, now, read, seen, storeVars, job, clock>>

(* POST /flash while another request is validating: "already running".     *)
start_flash_busy(t) ==
    /\ pc[t] = "idle"
    /\ ~active
    /\ flash_starting
    /\ Enumerate(t, "refused", lock)
    /\ UNCHANGED <<thread, seen, storeVars, flashVars, clock>>

(* POST /flash/dismiss.                                                    *)
dismiss ==
    /\ job # None
    /\ ~active
    /\ job' = None
    /\ seen' = JobReplaced
    /\ UNCHANGED <<lock, pc, thread, role, now, read, storeVars, flash_starting, clock>>

-----------------------------------------------------------------------------
(***************************************************************************)
(* A call under the lock.                                                  *)
(***************************************************************************)

(* Mutant: _call does not take the lock.                                   *)
CallStarts_NoLock(t) ==
    /\ pc[t] \in Calls
    /\ thread[t] = "off"
    /\ thread' = [thread EXCEPT ![t] = "running"]
    /\ read' = IF pc[t] = "get_devices" /\ role[t] \in CachingRoles
               THEN [read EXCEPT ![t] = clock]
               ELSE read
    /\ UNCHANGED <<lock, pc, role, now, seen, storeVars, flashVars, clock>>

(* The task that was handed the lock submits the call, and its thread      *)
(* starts.                                                                 *)
CallStarts(t) ==
    /\ lock.holder = t
    /\ pc[t] \in Calls
    /\ thread[t] = "off"
    /\ thread' = [thread EXCEPT ![t] = "running"]
    /\ read' = IF pc[t] = "get_devices" /\ role[t] \in CachingRoles
               THEN [read EXCEPT ![t] = clock]
               ELSE read
    /\ UNCHANGED <<lock, pc, role, now, seen, storeVars, flashVars, clock>>

(* The thread ends; the event loop will resume the task later.             *)
CallEnds(t) ==
    /\ thread[t] = "running"
    /\ \E r \in Results : thread' = [thread EXCEPT ![t] = r]
    /\ UNCHANGED <<lock, pc, requestVars, storeVars, flashVars, clock>>

-----------------------------------------------------------------------------
(***************************************************************************)
(* A request goes on after a call.                                         *)
(***************************************************************************)

(* FwupdService.refresh swallows FwupdError; the route lists the devices   *)
(* either way.  Writing the stamp can fail before or after the file is     *)
(* emptied, which is only logged; Metadata follows the stamp further.      *)
RefreshReturned(t) ==
    /\ Returned(t, "refresh", {"ok", "fwupd_error"})
    /\ stamp' \in {stamp} \cup IF thread[t] = "ok" THEN {clock, None} ELSE {}
    /\ Await(t, "get_devices", Released)
    /\ UNCHANGED <<requestVars, cached, flashVars, clock>>

DevicesReturned(t) ==
    /\ Returned(t, "get_devices", {"ok"})
    /\ Await(t, "version", Released)
    /\ UNCHANGED <<requestVars, storeVars, flashVars, clock>>

VersionReturned(t) ==
    /\ Returned(t, "version", {"ok"})
    /\ Await(t, "get_updates", Released)
    /\ UNCHANGED <<requestVars, storeVars, flashVars, clock>>

(* Mutant: the snapshot is stamped when the inventory is complete.         *)
InventoryReturned_StampedLate(t) ==
    /\ Returned(t, "get_updates", {"ok", "fwupd_error"})
    /\ lock' = Released
    /\ cached' = IF role[t] \in CachingRoles
                 THEN [at |-> clock, read |-> read[t]]
                 ELSE cached
    /\ IF role[t] = "flash"
       THEN Begin(t)
       ELSE Answer(t) /\ UNCHANGED flashVars
    /\ UNCHANGED <<stamp, clock>>

(* Mutant: inventory() repeats get-updates until it succeeds.              *)
InventoryReturned_Retries(t) ==
    \/ /\ Returned(t, "get_updates", {"fwupd_error"})
       /\ Await(t, "get_updates", Released)
       /\ UNCHANGED <<requestVars, storeVars, flashVars, clock>>
    \/ /\ Returned(t, "get_updates", {"ok"})
       /\ lock' = Released
       /\ cached' = IF role[t] \in CachingRoles
                    THEN [at |-> now[t], read |-> read[t]]
                    ELSE cached
       /\ IF role[t] = "flash"
          THEN Begin(t)
          ELSE Answer(t) /\ UNCHANGED flashVars
       /\ UNCHANGED <<stamp, clock>>

(* The last call of inventory(): a FwupdError only costs the updates.  A   *)
(* handler that came through cached_inventory keeps the result.            *)
InventoryReturned(t) ==
    /\ Returned(t, "get_updates", {"ok", "fwupd_error"})
    /\ lock' = Released
    /\ cached' = IF role[t] \in CachingRoles
                 THEN [at |-> now[t], read |-> read[t]]
                 ELSE cached
    /\ IF role[t] = "flash"
       THEN Begin(t)
       ELSE Answer(t) /\ UNCHANGED flashVars
    /\ UNCHANGED <<stamp, clock>>

(* inventory() raises.  Every handler but the one starting a flash is      *)
(* over: with its error page, a placeholder, a 503 or a 500.               *)
InventoryFailed(t) ==
    /\ \/ Returned(t, "get_devices", {"fwupd_error", "exception"})
       \/ Returned(t, "version", {"fwupd_error", "exception"})
       \/ Returned(t, "get_updates", {"exception"})
    /\ role[t] # "flash"
    /\ lock' = Released
    /\ Answer(t)
    /\ UNCHANGED <<storeVars, flashVars, clock>>

(* The route lists devices after a refresh, unless that raised.            *)
RefreshFailed(t) ==
    /\ Returned(t, "refresh", {"exception"})
    /\ lock' = Released
    /\ Answer(t)
    /\ UNCHANGED <<storeVars, flashVars, clock>>

(* The device exists, may be flashed, its name was typed and exactly one   *)
(* of its releases was asked for.                                          *)
CheckDevicesPassed(t) ==
    /\ Returned(t, "check_devices", {"ok"})
    /\ Await(t, "check_updates", Released)
    /\ UNCHANGED <<requestVars, storeVars, flashVars, clock>>

(* Mutant: the flash begins without an inventory having been captured.     *)
CheckUpdatesPassed_NoSnapshot(t) ==
    /\ Returned(t, "check_updates", {"ok"})
    /\ lock' = Released
    /\ Begin(t)
    /\ UNCHANGED <<storeVars, clock>>

(* fwupd confirms the release, and it can be downloaded and verified.  The *)
(* flash begins at once or after an inventory.                             *)
CheckUpdatesPassed(t) ==
    /\ Returned(t, "check_updates", {"ok"})
    /\ \/ /\ AnsweredAtOnce
          /\ lock' = Released
          /\ Begin(t)
       \/ /\ Enumerate(t, "flash", Released)
          /\ UNCHANGED <<seen, flashVars>>
    /\ UNCHANGED <<storeVars, clock>>

(* A check said no, or a call of the validation raised FwupdError.         *)
FlashRefused(t) ==
    /\ \/ Returned(t, "check_devices", {"ok", "fwupd_error"})
       \/ Returned(t, "check_updates", {"ok", "fwupd_error"})
       \/ /\ role[t] = "flash"
          /\ \/ Returned(t, "get_devices", {"fwupd_error"})
             \/ Returned(t, "version", {"fwupd_error"})
    /\ Refused(t, Released)

(* Mutant: start_flash resets the flag for its own exceptions only.        *)
FlashRaised_FlagLeft(t) ==
    /\ \/ Returned(t, "check_devices", {"exception"})
       \/ Returned(t, "check_updates", {"exception"})
       \/ /\ role[t] = "flash"
          /\ \E call \in InventoryCalls : Returned(t, call, {"exception"})
    /\ lock' = Released
    /\ Answer(t)
    /\ UNCHANGED <<flash_starting, job, storeVars, clock>>

(* Any other exception leaves start_flash through its `finally` and the    *)
(* route with a 500.                                                       *)
FlashRaised(t) ==
    /\ \/ Returned(t, "check_devices", {"exception"})
       \/ Returned(t, "check_updates", {"exception"})
       \/ /\ role[t] = "flash"
          /\ \E call \in InventoryCalls : Returned(t, call, {"exception"})
    /\ flash_starting' = FALSE
    /\ lock' = Released
    /\ Answer(t)
    /\ UNCHANGED <<job, storeVars, clock>>

Resume(t) ==
    \/ RefreshReturned(t)
    \/ RefreshFailed(t)
    \/ DevicesReturned(t)
    \/ VersionReturned(t)
    \/ InventoryReturned(t)
    \/ InventoryFailed(t)
    \/ CheckDevicesPassed(t)
    \/ CheckUpdatesPassed(t)
    \/ FlashRefused(t)
    \/ FlashRaised(t)

-----------------------------------------------------------------------------
(***************************************************************************)
(* The background task, _run_flash.  It keeps the lock from the download   *)
(* to the end of _record_outcome.                                          *)
(***************************************************************************)

RunnerStarts ==
    /\ pc[Runner] = "created"
    /\ Await(Runner, "download", lock)
    /\ UNCHANGED <<thread, requestVars, storeVars, flashVars, clock>>

DownloadReturned ==
    /\ Returned(Runner, "download", {"ok"})
    /\ pc' = [pc EXCEPT ![Runner] = "install"]
    /\ UNCHANGED <<lock, requestVars, storeVars, flashVars, clock>>

(* Mutant: the job is marked succeeded before the outcome is recorded.     *)
InstallReturned_MarksSuccess ==
    /\ Returned(Runner, "install", {"ok"})
    /\ pc' = [pc EXCEPT ![Runner] = "record"]
    /\ job' = [job EXCEPT !.status = "succeeded"]
    /\ UNCHANGED <<lock, requestVars, storeVars, flash_starting, clock>>

(* Mutant: _record_outcome goes through _call and waits for the lock that  *)
(* the background task already holds.                                      *)
InstallReturned_Relocks ==
    /\ Returned(Runner, "install", {"ok"})
    /\ Await(Runner, "record", lock)
    /\ UNCHANGED <<requestVars, storeVars, flashVars, clock>>

InstallReturned ==
    /\ Returned(Runner, "install", {"ok"})
    /\ pc' = [pc EXCEPT ![Runner] = "record"]
    /\ UNCHANGED <<lock, requestVars, storeVars, flashVars, clock>>

(* Mutant: only a FwupdError marks the job failed.                         *)
FlashFailed_FwupdErrorOnly ==
    /\ \/ Returned(Runner, "download", {"fwupd_error", "exception"})
       \/ Returned(Runner, "install", {"fwupd_error", "exception"})
    /\ job' = IF thread[Runner] = "fwupd_error"
              THEN [job EXCEPT !.status = "failed"] ELSE job
    /\ pc' = [pc EXCEPT ![Runner] = "idle"]
    /\ lock' = Released
    /\ UNCHANGED <<requestVars, storeVars, flash_starting, clock>>

FlashFailed ==
    /\ \/ Returned(Runner, "download", {"fwupd_error", "exception"})
       \/ Returned(Runner, "install", {"fwupd_error", "exception"})
    /\ job' = [job EXCEPT !.status = "failed"]
    /\ pc' = [pc EXCEPT ![Runner] = "idle"]
    /\ lock' = Released
    /\ UNCHANGED <<requestVars, storeVars, flash_starting, clock>>

(* _record_outcome is best effort: when the devices could not be listed,   *)
(* or the device is gone, nothing is recorded.                             *)
FlashSucceeded ==
    /\ Returned(Runner, "record", Results)
    /\ \E s \in {"unknown"} \cup IF thread[Runner] = "ok" THEN {"live", "staged"} ELSE {} :
          job' = [status |-> "succeeded", staged |-> s]
    /\ pc' = [pc EXCEPT ![Runner] = "idle"]
    /\ lock' = Released
    /\ UNCHANGED <<requestVars, storeVars, flash_starting, clock>>

RunnerStep ==
    \/ RunnerStarts
    \/ DownloadReturned
    \/ InstallReturned
    \/ FlashFailed
    \/ FlashSucceeded

-----------------------------------------------------------------------------

(* The wall clock advances while anything is going on.                     *)
Tick ==
    /\ clock < MaxClock
    /\ clock' = clock + 1
    /\ UNCHANGED <<lock, pc, thread, requestVars, storeVars, flashVars>>

Arrive(t) ==
    \/ index(t)
    \/ refresh(t)
    \/ status(t)
    \/ flash_page(t)
    \/ start_flash(t)
    \/ start_flash_busy(t)

Next ==
    \/ \E t \in Requests : Arrive(t) \/ Resume(t)
    \/ dismiss
    \/ RunnerStep
    \/ \E t \in Tasks : CallStarts(t) \/ CallEnds(t)
    \/ Tick

Safety == Init /\ [][Next]_vars

(***************************************************************************)
(* Fairness: the event loop resumes every task that is ready, the executor *)
(* starts every submitted call, and every call ends.  A fwupdtool command  *)
(* has a timeout (cli.py) and so has the install (its watchdog).  The      *)
(* download ends unless the server feeds it less than a chunk for ever.    *)
(* Nothing makes a request arrive, the operator dismiss, or the clock of   *)
(* the model advance.                                                      *)
(***************************************************************************)
Fairness ==
    /\ \A t \in Requests : WF_vars(Resume(t))
    /\ WF_vars(RunnerStep)
    /\ \A t \in Tasks : WF_vars(CallStarts(t)) /\ WF_vars(CallEnds(t))

Spec == Safety /\ Fairness

-----------------------------------------------------------------------------
(***************************************************************************)
(* Properties                                                              *)
(***************************************************************************)

UsesHardware(t) == thread[t] = "running" /\ pc[t] # "download"

(* Rule 2 of FwupdService: no two calls of fwupdtool run at a time, be     *)
(* they made by handlers through _call, or by the background task, whose   *)
(* _record_outcome calls fwupdtool without taking the lock again.  That a  *)
(* process can outlive its call is the subject of FwupdtoolInstall.        *)
HardwareExclusive ==
    \A t, u \in Tasks : UsesHardware(t) /\ UsesHardware(u) => t = u

(* No lost wakeup and no self-deadlock on the lock: a task has a call to   *)
(* make exactly if it holds the lock or waits for it, it waits at one      *)
(* place of the queue only, and a free lock has nobody waiting.            *)
InLine(t) == lock.holder = t \/ \E i \in DOMAIN lock.queue : lock.queue[i] = t

NobodyForgotten ==
    /\ \A t \in Tasks : pc[t] \in Calls <=> InLine(t)
    /\ \A i, j \in DOMAIN lock.queue : lock.queue[i] = lock.queue[j] => i = j
    /\ \A i \in DOMAIN lock.queue : lock.queue[i] # lock.holder
    /\ lock.holder = None => lock.queue = << >>

(* The double click: while a request validates its flash, the flag is up,  *)
(* no flash is active and no other request validates, over all the awaits  *)
(* of the validation; so FlashManager.begin never finds the slot taken,    *)
(* and the flag never stays up behind a request that is gone.              *)
ClaimantFindsSlotFree ==
    /\ flash_starting <=> \E t \in Requests : role[t] = "flash"
    /\ \A t \in Requests : role[t] = "flash" => ~active
    /\ \A t, u \in Requests : role[t] = "flash" /\ role[u] = "flash" => t = u

(* While a flash is active there is a snapshot to serve, so the refusal of *)
(* cached_inventory ("no inventory has been captured yet") is unreachable. *)
ActiveHasSnapshot == active => cached # None

(* A job is active exactly as long as its background task exists: no       *)
(* failure leaves a job running that sends every page to /flash for ever.  *)
ActiveHasRunner == active <=> pc[Runner] # "idle"

(* The age the cache goes by is never less than the true age of its data:  *)
(* the devices were read at or after the time stamped on the snapshot.     *)
SnapshotNotOlderThanStamped == cached # None => cached.at <= cached.read

(* Handlers that fill the cache at the same time never replace a snapshot  *)
(* by an older one.                                                        *)
CacheMovesForward ==
    [][cached # None => cached'.at >= cached.at /\ cached'.read >= cached.read]_cached

(* The outcome of a flash does not change once the job is finished: the    *)
(* progress page has stopped polling and would not show the change.  It is *)
(* only dismissed or replaced by the next flash.                           *)
ResultIsFinal ==
    [][job # None /\ ~active => job' = None \/ job'.status = "running"]_job

(* A request that arrives while a flash is active is answered without      *)
(* waiting for the lock: nobody sits behind a write that takes minutes     *)
(* unless it was already waiting when the flash began.                     *)
ArrivalsNeverWaitForFlash ==
    [][active => \A t \in Requests : pc[t] = "idle" => pc'[t] = "idle"]_pc

(* Every request is answered in the end, however many others keep coming.  *)
RequestsAnswered == \A t \in Requests : pc[t] # "idle" ~> pc[t] = "idle"

(***************************************************************************)
(* What FlashSlot promises, with the claim read off the handlers and the   *)
(* write off the background task.                                          *)
(***************************************************************************)
Claimants == {t \in Requests : role[t] = "flash"}

Outcome == IF job = None THEN "none" ELSE job.status

Write ==
    CASE pc[Runner] = "install" /\ thread[Runner] = "running" -> "in_progress"
      [] pc[Runner] = "install" /\ thread[Runner] \in Results -> "ended"
      [] pc[Runner] = "record" -> "ended"
      [] OTHER -> "not_started"

Slot == INSTANCE FlashSlot WITH
    claimants <- Claimants,
    outcome   <- Outcome,
    write     <- Write

(* The flash routes, the service and its background task implement the     *)
(* single slot, its liveness included.                                     *)
ImplementsFlashSlot == Slot!Spec

-----------------------------------------------------------------------------
(***************************************************************************)
(* The inductive invariant behind the proofs in FwupdServiceProofs.        *)
(***************************************************************************)

(* A thread works, or has an answer ready, only for the task that holds    *)
(* the lock, and that task is waiting for it.                              *)
LockOwner ==
    \A t \in Tasks : thread[t] # "off" => lock.holder = t /\ pc[t] \in Calls

(* What a request is waiting for fits the handler it executes.             *)
RolesMatch ==
    \A t \in Requests :
        /\ pc[t] = "idle" <=> role[t] = "none"
        /\ pc[t] \in StartCalls => role[t] = "flash"
        /\ pc[t] = "refresh" => role[t] = "page"

(* A request has read the devices after it looked at the clock.            *)
HasRead(t) ==
    /\ role[t] \in CachingRoles
    /\ \/ pc[t] \in {"version", "get_updates"}
       \/ pc[t] = "get_devices" /\ thread[t] # "off"

TimesInOrder ==
    \A t \in Requests : now[t] <= clock /\ (HasRead(t) => now[t] <= read[t])

IInv ==
    /\ TypeOK
    /\ LockOwner
    /\ RolesMatch
    /\ ClaimantFindsSlotFree
    /\ ActiveHasRunner
    /\ ActiveHasSnapshot
    /\ TimesInOrder
    /\ SnapshotNotOlderThanStamped

(***************************************************************************)
(* The invariant behind CacheMovesForward: the requests that enumerate     *)
(* overtake nobody, so they finish in the order in which they looked at    *)
(* the clock and read the devices.                                         *)
(***************************************************************************)

(* A request whose inventory will be kept is on its way through the calls. *)
Enumerating(t) == role[t] \in CachingRoles /\ pc[t] \in InventoryCalls

(* Task t comes before task u in the line of a lock.                       *)
Before(l, t, u) ==
    \/ /\ l.holder = t
       /\ \E j \in DOMAIN l.queue : l.queue[j] = u
    \/ \E i, j \in DOMAIN l.queue : i < j /\ l.queue[i] = t /\ l.queue[j] = u

(* Request t has more calls behind it than u, or as many and comes first.  *)
Ahead(t, u) ==
    \/ pc[t] = "get_updates" /\ pc[u] # "get_updates"
    \/ pc[t] = "version" /\ pc[u] = "get_devices"
    \/ pc[t] = pc[u] /\ Before(lock, t, u)

NothingFromTheFuture ==
    /\ \A t \in Requests : read[t] <= clock
    /\ cached # None => cached.at <= clock /\ cached.read <= clock

CacheIsBehind ==
    cached # None => \A t \in Requests : Enumerating(t) =>
        /\ cached.at <= now[t]
        /\ HasRead(t) => cached.read <= read[t]

NobodyOvertakes ==
    \A t, u \in Requests : Enumerating(t) /\ Enumerating(u) /\ Ahead(t, u) =>
        /\ now[t] <= now[u]
        /\ HasRead(t) /\ HasRead(u) => read[t] <= read[u]

CacheInOrder == NothingFromTheFuture /\ CacheIsBehind /\ NobodyOvertakes

-----------------------------------------------------------------------------
(***************************************************************************)
(* Two claims of comments in the code that do not hold.                    *)
(***************************************************************************)

FlashHasLock == lock.holder = Runner

(* flash_routes.py: "no flash page may wait on the hardware lock to get    *)
(* one, or the page would hang until the flash ended".                     *)
FlashPagesNeverWaitForFlash ==
    FlashHasLock => \A t \in Requests : role[t] \in {"flash_page", "refused"} => ~InLine(t)

(* api_routes.py: "a monitor needs JSON and needs to see that a write is   *)
(* in flight": a complete answer given while a flash is active reports     *)
(* that flash, and not the job that was there when the request arrived.    *)
StatusReportsActiveFlash ==
    [][\A t \in Requests :
          role[t] = "status" /\ InventoryReturned(t) /\ active => seen[t] = "current"]_vars
=============================================================================
