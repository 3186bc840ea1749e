------------------------------ MODULE Metadata ------------------------------
(***************************************************************************)
(* How old the update metadata is said to be: the file .webui-last-refresh *)
(* that survives restarts, the refresh at startup and on POST /refresh,    *)
(* the snapshot of the devices and of the metadata's age that is kept for  *)
(* GET /api/status, and its answers, before, during and after a flash.     *)
(*                                                                         *)
(* At most one refresh is at work, because startup comes before the server *)
(* and the hardware lock orders the rest; that the lock does is shown in   *)
(* FwupdService.  The clock is that of the wall, and somebody may set it   *)
(* back.                                                                   *)
(***************************************************************************)
EXTENDS Integers

CONSTANTS
    None,               \* Python's None: no stamp, no snapshot
    RefreshInterval,    \* Config.refresh_interval_hours, in clock ticks
    CacheSeconds,       \* Config.api_cache_seconds, in clock ticks
    MaxClock,           \* bound: the clock stops here
    MaxBack             \* bound: how far it is set back, in all

Time == 0 .. MaxClock

ASSUME MetadataAssumption ==
    /\ RefreshInterval \in Nat
    /\ CacheSeconds \in Nat
    /\ MaxClock \in Nat
    /\ MaxBack \in Nat
    /\ None \notin Nat \cup [at : Nat, stale : BOOLEAN, error : BOOLEAN]

VARIABLES
    clock,      \* time.time
    back,       \* how far it was set back, in all
    phase,      \* the process: down, starting, serving, refreshing, writing
    stamp,      \* what _read_stamp makes of the file
    when,       \* the time _write_stamp is writing into it
    job,        \* the flash: none, waiting for the lock, writing, failed
    begun,      \* when it began, in time that passed, while it is active
    pending,    \* what a caller of cached_inventory holds while it lists
    cached,     \* FwupdService._cached
    fetched,    \* when fwupdtool last brought metadata, in time that passed
    attempt,    \* how the last refresh ended
    reported    \* the answer of GET /api/status, in the step that gives it

timeVars   == <<clock, back>>
storeVars  == <<stamp, when>>
flashVars  == <<job, begun>>
cacheVars  == <<pending, cached>>
factVars   == <<fetched, attempt>>
vars == <<timeVars, phase, storeVars, flashVars, cacheVars, factVars, reported>>

(* GET /flash and a refused POST /flash ask like GET /api/status.          *)
Callers == {"status", "start_flash"}

NobodyAsks == [k \in Callers |-> None]

Init ==
    /\ clock = 0
    /\ back = 0
    /\ phase = "down"
    /\ stamp = None
    /\ when = None
    /\ job = "none"
    /\ begun = None
    /\ pending = NobodyAsks
    /\ cached = None
    /\ fetched = None
    /\ attempt = "none"
    /\ reported = None

-----------------------------------------------------------------------------

(* FwupdService._status: no stamp, or too old a stamp.                     *)
Stale == stamp = None \/ clock - stamp > RefreshInterval

(* The time that has passed, whatever the clock says.                      *)
Elapsed == clock + back

(* FlashManager.active.  A job that succeeded or was dismissed is none.    *)
Active == job \in {"waiting", "writing"}

(* The event loop runs, and is not writing the stamp.                      *)
Listening == phase \in {"serving", "refreshing"}

(* A call of fwupdtool returns to the one who has the lock.                *)
LockIsFree == job # "writing"

NoAnswer == reported' = None

(* The payload of GET /api/status, with what was true when it was given.   *)
Report(inventory, failed) ==
    reported' = [state   |-> CASE failed -> "error"
                               [] ~failed /\ (inventory.stale \/ inventory.error) -> "degraded"
                               [] OTHER -> "ok",
                 age     |-> IF fetched = None THEN None ELSE Elapsed - fetched,
                 back    |-> back,
                 flash   |-> IF Active THEN Elapsed - begun ELSE 0,
                 attempt |-> attempt]

-----------------------------------------------------------------------------
(***************************************************************************)
(* The process                                                             *)
(***************************************************************************)

(* main(): refresh_if_stale, then the server.                              *)
Start ==
    /\ phase = "down"
    /\ phase' = IF Stale THEN "starting" ELSE "serving"
    /\ NoAnswer
    /\ UNCHANGED <<timeVars, storeVars, flashVars, cacheVars, factVars>>

(* The process ends at any point.  The file stays as it is.                *)
Crash ==
    /\ phase # "down"
    /\ phase' = "down"
    /\ when' = None
    /\ job' = "none"
    /\ begun' = None
    /\ pending' = NobodyAsks
    /\ cached' = None
    /\ NoAnswer
    /\ UNCHANGED <<timeVars, stamp, factVars>>

Tick ==
    /\ clock < MaxClock
    /\ clock' = clock + 1
    /\ NoAnswer
    /\ UNCHANGED <<back, phase, storeVars, flashVars, cacheVars, factVars>>

(* The clock is set to an earlier time, by hand or by NTP.                 *)
SetBack ==
    /\ \E step \in 1 .. clock :
        /\ back + step <= MaxBack
        /\ clock' = clock - step
        /\ back' = back + step
    /\ NoAnswer
    /\ UNCHANGED <<phase, storeVars, flashVars, cacheVars, factVars>>

-----------------------------------------------------------------------------
(***************************************************************************)
(* A refresh                                                               *)
(***************************************************************************)

(* POST /refresh, which a flash turns away.                                *)
refresh ==
    /\ phase = "serving"
    /\ ~Active
    /\ phase' = "refreshing"
    /\ NoAnswer
    /\ UNCHANGED <<timeVars, storeVars, flashVars, cacheVars, factVars>>

(* fwupdtool refresh is at work, at the start or for POST /refresh.        *)
Refreshing == phase = "starting" \/ (phase = "refreshing" /\ LockIsFree)

(* fwupdtool refresh returns, and _write_stamp opens the file, which       *)
(* empties it, unless that fails.                                          *)
Refreshed ==
    /\ Refreshing
    /\ fetched' = Elapsed
    /\ attempt' = "ok"
    /\ \/ phase' = "writing" /\ when' = clock /\ stamp' = None
       \/ phase' = "serving" /\ UNCHANGED storeVars
    /\ NoAnswer
    /\ UNCHANGED <<timeVars, flashVars, cacheVars>>

(* Mutant: the stamp is written whether or not the refresh worked.         *)
RefreshFails_Stamped ==
    /\ Refreshing
    /\ attempt' = "failed"
    /\ phase' = "writing" /\ when' = clock /\ stamp' = None
    /\ NoAnswer
    /\ UNCHANGED <<timeVars, flashVars, cacheVars, fetched>>

(* It raises: refresh returns the error, which neither main() nor the      *)
(* route looks at; or main() logs it, or the route answers with a 500.     *)
RefreshFails ==
    /\ Refreshing
    /\ attempt' = "failed"
    /\ phase' = "serving"
    /\ NoAnswer
    /\ UNCHANGED <<timeVars, storeVars, flashVars, cacheVars, fetched>>

(* The time is in the file, or the disk is full and the file stays empty.  *)
StampWritten ==
    /\ phase = "writing"
    /\ stamp' \in {when, None}
    /\ when' = None
    /\ phase' = "serving"
    /\ NoAnswer
    /\ UNCHANGED <<timeVars, flashVars, cacheVars, factVars>>

-----------------------------------------------------------------------------
(***************************************************************************)
(* cached_inventory, for GET /api/status and for a flash that is to begin, *)
(* each of them once at a time.  What keeps two listings in order is the   *)
(* lock, and the subject of FwupdService; here they may end in any order.  *)
(***************************************************************************)

CacheIsFresh == cached # None /\ clock - cached.at < CacheSeconds

(* Mutant: a job that failed long ago also keeps the snapshot from ageing. *)
CacheIsServed_AnyJob == cached # None /\ (job # "none" \/ CacheIsFresh)

(* During a flash the snapshot is served whatever its age.                 *)
CacheIsServed == cached # None /\ (Active \/ CacheIsFresh)

(* _validate_and_begin; a second flash was turned away before that.        *)
begin ==
    /\ job' = "waiting"
    /\ begun' = Elapsed
    /\ NoAnswer

(* What the caller does with the inventory.                                *)
Answer(k, inventory, failed) ==
    \/ k = "status" /\ Report(inventory, failed) /\ UNCHANGED flashVars
    \/ k = "start_flash" /\ begin

(* The caller may ask: it is not at it already, nor is a flash under way   *)
(* if it wants to begin one.                                               *)
MayAsk(k) ==
    /\ Listening
    /\ pending[k] = None
    /\ k = "start_flash" => ~Active

ServedFromCache(k) ==
    /\ MayAsk(k)
    /\ CacheIsServed
    /\ Answer(k, cached, job = "failed")
    /\ UNCHANGED <<timeVars, phase, storeVars, cacheVars, factVars>>

(* GET /api/status has picked up the job before.  During a flash, with     *)
(* nothing cached, it is answered with a 503 instead.                      *)
InventoryAsked(k) ==
    /\ MayAsk(k)
    /\ ~CacheIsServed /\ ~Active
    /\ pending' = [pending EXCEPT ![k] = [now |-> clock, failed |-> job = "failed"]]
    /\ NoAnswer
    /\ UNCHANGED <<timeVars, phase, storeVars, flashVars, cached, factVars>>

(* inventory() returns; the only error it reports is that of get-updates.  *)
InventoryListed(k) ==
    /\ Listening /\ LockIsFree
    /\ pending[k] # None
    /\ \E error \in BOOLEAN :
        cached' = [at |-> pending[k].now, stale |-> Stale, error |-> error]
    /\ Answer(k, cached', pending[k].failed)
    /\ pending' = [pending EXCEPT ![k] = None]
    /\ UNCHANGED <<timeVars, phase, storeVars, factVars>>

(* inventory() raises: a 503, or no flash.                                 *)
InventoryFails(k) ==
    /\ Listening /\ LockIsFree
    /\ pending[k] # None
    /\ pending' = [pending EXCEPT ![k] = None]
    /\ NoAnswer
    /\ UNCHANGED <<timeVars, phase, storeVars, flashVars, cached, factVars>>

-----------------------------------------------------------------------------
(***************************************************************************)
(* The flash                                                               *)
(***************************************************************************)

(* The lock is given to the background task.                               *)
FlashStarts ==
    /\ Listening
    /\ job = "waiting"
    /\ job' = "writing"
    /\ NoAnswer
    /\ UNCHANGED <<timeVars, phase, storeVars, begun, cacheVars, factVars>>

FlashEnds ==
    /\ Listening
    /\ job = "writing"
    /\ job' \in {"none", "failed"}
    /\ begun' = None
    /\ NoAnswer
    /\ UNCHANGED <<timeVars, phase, storeVars, cacheVars, factVars>>

dismiss ==
    /\ Listening
    /\ job = "failed"
    /\ job' = "none"
    /\ NoAnswer
    /\ UNCHANGED <<timeVars, phase, storeVars, begun, cacheVars, factVars>>

Next ==
    \/ Start
    \/ Crash
    \/ Tick
    \/ SetBack
    \/ refresh
    \/ Refreshed
    \/ RefreshFails
    \/ StampWritten
    \/ \E k \in Callers :
        \/ ServedFromCache(k)
        \/ InventoryAsked(k)
        \/ InventoryListed(k)
        \/ InventoryFails(k)
    \/ FlashStarts
    \/ FlashEnds
    \/ dismiss

Spec == Init /\ [][Next]_vars

-----------------------------------------------------------------------------
(***************************************************************************)
(* Properties                                                              *)
(***************************************************************************)

(* README.md: `degraded` when the metadata is stale.  So "ok" means that   *)
(* fwupdtool brought metadata less than RefreshInterval and a lifetime of  *)
(* the cache ago, whatever crashes and full disks did to the stamp.  Two   *)
(* things add to that, and nothing else does.  During a flash the snapshot *)
(* is served whatever its age, so the time since the flash began counts on *)
(* top.  A clock that is set back makes twice the difference: the age of   *)
(* the stamp and that of the snapshot can both be short by it.             *)
StatusOkMeansFresh ==
    reported # None /\ reported.state = "ok" =>
        /\ reported.age # None
        /\ reported.age <= RefreshInterval + CacheSeconds + 2 * reported.back + reported.flash

(***************************************************************************)
(* The inductive invariant behind the proof in MetadataProofs.             *)
(***************************************************************************)

Snapshots == [at : Time, stale : BOOLEAN, error : BOOLEAN]

Held == [now : Time, failed : BOOLEAN]

Reports == [state : {"ok", "degraded", "error"}, age : Int \cup {None}, back : Nat, flash : Int,
            attempt : {"none", "ok", "failed"}]

TypeOK ==
    /\ clock \in Time
    /\ back \in 0 .. MaxBack
    /\ phase \in {"down", "starting", "serving", "refreshing", "writing"}
    /\ stamp \in Time \cup {None}
    /\ when \in Time \cup {None}
    /\ job \in {"none", "waiting", "writing", "failed"}
    /\ begun \in Nat \cup {None}
    /\ pending \in [Callers -> Held \cup {None}]
    /\ cached \in Snapshots \cup {None}
    /\ fetched \in Nat \cup {None}
    /\ attempt \in {"none", "ok", "failed"}
    /\ reported \in Reports \cup {None}

(* A time is in the file, or on its way there, only after a refresh that   *)
(* worked, and is not later than that.                                     *)
Earned(t) == t # None => fetched # None /\ t <= fetched

(* Nothing that was looked at or happened lies in the future.              *)
Past(t) == t # None => t <= Elapsed

RequestsAreOld == \A k \in Callers : pending[k] # None => pending[k].now <= Elapsed

(* A snapshot that does not call its metadata stale was right when it was  *)
(* asked for, but for a clock that was set back while it was waited for.   *)
SnapshotIsTrue ==
    cached # None /\ ~cached.stale =>
        fetched # None /\ cached.at - fetched <= RefreshInterval + back

(* A flash has a snapshot to be served from, and that was good to serve    *)
(* when the flash began, or is a newer one.                                *)
FlashHasSnapshot ==
    Active =>
        /\ cached # None /\ begun # None /\ begun <= Elapsed
        /\ ~cached.stale =>
            /\ fetched # None
            /\ begun - fetched <= RefreshInterval + CacheSeconds + 2 * back

IInv ==
    /\ TypeOK
    /\ Earned(stamp)
    /\ Earned(when)
    /\ Past(fetched)
    /\ RequestsAreOld
    /\ SnapshotIsTrue
    /\ FlashHasSnapshot
    /\ StatusOkMeansFresh

-----------------------------------------------------------------------------
(***************************************************************************)
(* A claim of the README that does not hold.                               *)
(***************************************************************************)

(* README.md: `degraded` also on "a refresh failure", so a status listed   *)
(* after a refresh failed is not "ok".  The error is dropped on the way.   *)
RefreshFailureShows ==
    reported # None /\ reported.state = "ok" => reported.attempt # "failed"
=============================================================================
