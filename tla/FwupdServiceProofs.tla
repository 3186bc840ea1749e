------------------------- MODULE FwupdServiceProofs -------------------------
(***************************************************************************)
(* Proofs about FwupdService, for any set of handlers, any CacheSeconds    *)
(* and any bound on the clock.                                             *)
(***************************************************************************)
EXTENDS FwupdService, SequenceTheorems, TLAPS

-----------------------------------------------------------------------------
(***************************************************************************)
(* The lock                                                                *)
(***************************************************************************)

(* Releasing leads from a lock state to a lock state.                      *)
LEMMA ReleasedType == TypeOK => Released \in Locks
<1> SUFFICES ASSUME TypeOK PROVE Released \in Locks
  OBVIOUS
<1>1. lock.queue \in Seq(Tasks) /\ lock.holder \in Tasks \cup {None}
  BY DEF TypeOK, Locks
<1>2. CASE lock.queue = << >>
  BY <1>2 DEF Released, Locks
<1>3. CASE lock.queue # << >>
  <2>1. Head(lock.queue) \in Tasks /\ Tail(lock.queue) \in Seq(Tasks)
    BY <1>1, <1>3, HeadTailProperties
  <2> QED
    BY <1>3, <2>1 DEF Released, Locks
<1> QED
  BY <1>2, <1>3

(* Acquiring leads from a lock state to a lock state.                      *)
LEMMA AcquiredType ==
  ASSUME NEW l \in Locks, NEW t \in Tasks
  PROVE  Acquired(l, t) \in Locks
<1>1. l.queue \in Seq(Tasks) /\ Append(l.queue, t) \in Seq(Tasks)
  BY AppendProperties DEF Locks
<1> QED
  BY <1>1 DEF Acquired, Locks

(* Queueing up does not take the lock away from its holder.                *)
LEMMA AcquiredHolder ==
  ASSUME NEW l \in Locks, NEW t \in Tasks
  PROVE  l.holder # None => Acquired(l, t).holder = l.holder
BY DEF Acquired, Locks

-----------------------------------------------------------------------------
(***************************************************************************)
(* Type correctness                                                        *)
(***************************************************************************)

(* The initial state is well-typed.                                        *)
LEMMA TypeInit == Init => TypeOK
<1> SUFFICES ASSUME Init PROVE TypeOK
  OBVIOUS
<1>1. << >> \in Seq(Tasks)
  OBVIOUS
<1>2. 0 \in Time
  BY ConstantsAssumption DEF Time
<1> QED
  BY <1>1, <1>2 DEF Init, TypeOK, Locks, Tasks, Calls, RequestCalls, FlashCalls, Roles

(* The parts of TypeOK about the requests' own variables.                  *)
PcOK ==
    /\ pc \in [Tasks -> Calls \cup {"idle", "created"}]
    /\ \A t \in Requests : pc[t] \in RequestCalls \cup {"idle"}
    /\ pc[Runner] \in FlashCalls \cup {"idle", "created"}

LocalsOK ==
    /\ role \in [Requests -> Roles]
    /\ now \in [Requests -> Time]
    /\ read \in [Requests -> Time]

SeenOK == seen \in [Requests -> {"none", "current", "former"}]

(* Taking up the result of a call keeps the threads well-typed.            *)
LEMMA ReturnedType ==
  ASSUME TypeOK, NEW t \in Tasks, NEW c, NEW R, Returned(t, c, R)
  PROVE  thread' \in [Tasks -> Results \cup {"off", "running"}]
BY DEF Returned, TypeOK

(* A request that ends leaves well-typed variables behind.                 *)
LEMMA AnswerType ==
  ASSUME TypeOK, NEW t \in Requests, Answer(t)
  PROVE  PcOK' /\ LocalsOK' /\ SeenOK'
<1>1. t \in Tasks /\ t # Runner /\ 0 \in Time
  BY ConstantsAssumption DEF Tasks, Time
<1>2. PcOK'
  BY <1>1 DEF Answer, TypeOK, PcOK
<1>3. LocalsOK' /\ SeenOK'
  BY <1>1 DEF Answer, Forget, TypeOK, LocalsOK, SeenOK, Roles, CachingRoles
<1> QED
  BY <1>2, <1>3

(* So does one that goes on to enumerate the devices.                      *)
LEMMA EnumerateType ==
  ASSUME TypeOK, NEW t \in Requests, NEW r \in CachingRoles, NEW l \in Locks, Enumerate(t, r, l)
  PROVE  PcOK' /\ LocalsOK' /\ lock' \in Locks
<1>1. t \in Tasks /\ t # Runner /\ 0 \in Time
  BY ConstantsAssumption DEF Tasks, Time
<1>2. PcOK'
  BY <1>1 DEF Enumerate, Await, TypeOK, PcOK, Calls, RequestCalls, InventoryCalls
<1>3. LocalsOK'
  BY <1>1 DEF Enumerate, TypeOK, LocalsOK, Roles
<1>4. lock' \in Locks
  BY <1>1, AcquiredType DEF Enumerate, Await
<1> QED
  BY <1>2, <1>3, <1>4

(* So does one that begins a flash.                                        *)
LEMMA BeginType ==
  ASSUME TypeOK, NEW t \in Requests, Begin(t)
  PROVE  PcOK' /\ LocalsOK' /\ SeenOK' /\ job' \in Jobs /\ flash_starting' \in BOOLEAN
<1>1. t \in Tasks /\ Runner \in Tasks /\ t # Runner /\ 0 \in Time
  BY ConstantsAssumption DEF Tasks, Time
<1>2. PcOK'
  <2>1. pc' = [[pc EXCEPT ![t] = "idle"] EXCEPT ![Runner] = "created"]
    BY DEF Begin
  <2>2. pc \in [Tasks -> Calls \cup {"idle", "created"}]
    BY DEF TypeOK
  <2>3. pc' \in [Tasks -> Calls \cup {"idle", "created"}] /\ pc'[Runner] = "created"
    BY <1>1, <2>1, <2>2
  <2>4. \A u \in Requests : pc'[u] = IF u = t THEN "idle" ELSE pc[u]
    BY <1>1, <2>1, <2>2, ConstantsAssumption DEF Tasks
  <2> QED
    BY <2>3, <2>4 DEF PcOK, TypeOK
<1>3. LocalsOK' /\ SeenOK'
  BY <1>1 DEF Begin, Forget, JobReplaced, TypeOK, LocalsOK, SeenOK, Roles, CachingRoles
<1> QED
  BY <1>2, <1>3 DEF Begin, Jobs

(* Every step keeps the state well-typed.  That there is a job to fail     *)
(* when the background task fails is part of ActiveHasRunner.              *)
LEMMA TypeStep == TypeOK /\ ActiveHasRunner /\ [Next]_vars => TypeOK'
<1> SUFFICES ASSUME TypeOK, ActiveHasRunner, [Next]_vars PROVE TypeOK'
  OBVIOUS
<1>lock. Released \in Locks /\ \A l \in Locks, t \in Tasks : Acquired(l, t) \in Locks
  BY ReleasedType, AcquiredType
<1>req. \A t \in Requests : t \in Tasks /\ t # Runner
  BY ConstantsAssumption DEF Tasks
<1>run. Runner \in Tasks
  BY DEF Tasks
<1> USE <1>lock, <1>req, <1>run DEF TypeOK, Calls, RequestCalls, InventoryCalls, StartCalls,
      FlashCalls, Results, Roles, CachingRoles, storeVars, flashVars, requestVars
<1>1. ASSUME NEW t \in Requests, index(t) PROVE TypeOK'
  BY <1>1 DEF index, Await
<1>2. ASSUME NEW t \in Requests, refresh(t) PROVE TypeOK'
  BY <1>2 DEF refresh, Await
<1>3. ASSUME NEW t \in Requests, status(t) PROVE TypeOK'
  BY <1>3, ConstantsAssumption DEF status, Enumerate, Await, JobInHand, Time
<1>4. ASSUME NEW t \in Requests, flash_page(t) PROVE TypeOK'
  BY <1>4, ConstantsAssumption DEF flash_page, Enumerate, Await, JobInHand, Time
<1>5. ASSUME NEW t \in Requests, start_flash(t) PROVE TypeOK'
  BY <1>5 DEF start_flash, Await
<1>6. ASSUME NEW t \in Requests, start_flash_busy(t) PROVE TypeOK'
  BY <1>6, ConstantsAssumption DEF start_flash_busy, Enumerate, Await, Time
<1>7. ASSUME NEW t \in Requests, RefreshReturned(t) PROVE TypeOK'
  BY <1>7 DEF RefreshReturned, Returned, Await
<1>8. ASSUME NEW t \in Requests, RefreshFailed(t) PROVE TypeOK'
  BY <1>8, ConstantsAssumption DEF RefreshFailed, Returned, Answer, Forget, Time
<1>9. ASSUME NEW t \in Requests, DevicesReturned(t) PROVE TypeOK'
  BY <1>9 DEF DevicesReturned, Returned, Await
<1>10. ASSUME NEW t \in Requests, VersionReturned(t) PROVE TypeOK'
  BY <1>10 DEF VersionReturned, Returned, Await
<1>11. ASSUME NEW t \in Requests, InventoryReturned(t) PROVE TypeOK'
  <2>1. thread' \in [Tasks -> Results \cup {"off", "running"}] /\ lock' \in Locks
    BY <1>11, ReturnedType DEF InventoryReturned
  <2>2. cached' \in Snapshots \cup {None} /\ stamp' = stamp /\ clock' = clock
    BY <1>11 DEF InventoryReturned, Snapshots
  <2>3. CASE role[t] = "flash"
    BY <1>11, <2>1, <2>2, <2>3, BeginType DEF InventoryReturned, PcOK, LocalsOK, SeenOK
  <2>4. CASE role[t] # "flash"
    BY <1>11, <2>1, <2>2, <2>4, AnswerType DEF InventoryReturned, PcOK, LocalsOK, SeenOK
  <2> QED
    BY <2>3, <2>4
<1>12. ASSUME NEW t \in Requests, InventoryFailed(t) PROVE TypeOK'
  <2>1. thread' \in [Tasks -> Results \cup {"off", "running"}]
    BY <1>12, ReturnedType DEF InventoryFailed
  <2> QED
    BY <1>12, <2>1, AnswerType DEF InventoryFailed, PcOK, LocalsOK, SeenOK
<1>13. ASSUME NEW t \in Requests, CheckDevicesPassed(t) PROVE TypeOK'
  BY <1>13 DEF CheckDevicesPassed, Returned, Await
<1>14. ASSUME NEW t \in Requests, CheckUpdatesPassed(t) PROVE TypeOK'
  <2>1. thread' \in [Tasks -> Results \cup {"off", "running"}]
    BY <1>14, ReturnedType DEF CheckUpdatesPassed
  <2>2. CASE lock' = Released /\ Begin(t)
    BY <1>14, <2>1, <2>2, BeginType DEF CheckUpdatesPassed, PcOK, LocalsOK, SeenOK
  <2>3. CASE Enumerate(t, "flash", Released) /\ UNCHANGED <<seen, flashVars>>
    BY <1>14, <2>1, <2>3, EnumerateType DEF CheckUpdatesPassed, PcOK, LocalsOK
  <2> QED
    BY <1>14, <2>2, <2>3 DEF CheckUpdatesPassed
<1>15. ASSUME NEW t \in Requests, FlashRefused(t) PROVE TypeOK'
  <2>1. thread' \in [Tasks -> Results \cup {"off", "running"}]
    BY <1>15, ReturnedType DEF FlashRefused
  <2>2. Refused(t, Released)
    BY <1>15 DEF FlashRefused
  <2>3. CASE lock' = Released /\ Answer(t)
    BY <2>1, <2>2, <2>3, AnswerType DEF Refused, PcOK, LocalsOK, SeenOK
  <2>4. CASE Enumerate(t, "refused", Released) /\ UNCHANGED seen
    BY <2>1, <2>2, <2>4, EnumerateType DEF Refused, PcOK, LocalsOK
  <2> QED
    BY <2>2, <2>3, <2>4 DEF Refused
<1>16. ASSUME NEW t \in Requests, FlashRaised(t) PROVE TypeOK'
  <2>1. thread' \in [Tasks -> Results \cup {"off", "running"}]
    BY <1>16, ReturnedType DEF FlashRaised
  <2> QED
    BY <1>16, <2>1, AnswerType DEF FlashRaised, PcOK, LocalsOK, SeenOK
<1>17. CASE dismiss
  BY <1>17 DEF dismiss, JobReplaced
<1>18. CASE RunnerStarts
  BY <1>18 DEF RunnerStarts, Await
<1>19. CASE DownloadReturned
  BY <1>19 DEF DownloadReturned, Returned
<1>20. CASE InstallReturned
  BY <1>20 DEF InstallReturned, Returned
<1>21. CASE FlashFailed
  <2>1. pc[Runner] # "idle" /\ thread' \in [Tasks -> Results \cup {"off", "running"}]
    BY <1>21, ReturnedType DEF FlashFailed, Returned
  <2>2. job \in Jobs
    BY <2>1 DEF ActiveHasRunner, active
  <2> QED
    BY <1>21, <2>1, <2>2 DEF FlashFailed, Jobs
<1>22. CASE FlashSucceeded
  BY <1>22 DEF FlashSucceeded, Returned, Jobs
<1>23. ASSUME NEW t \in Tasks, CallStarts(t) PROVE TypeOK'
  BY <1>23, ConstantsAssumption DEF CallStarts
<1>24. ASSUME NEW t \in Tasks, CallEnds(t) PROVE TypeOK'
  BY <1>24 DEF CallEnds
<1>25. CASE Tick
  BY <1>25, ConstantsAssumption DEF Tick, Time
<1>26. CASE UNCHANGED vars
  BY <1>26 DEF vars
<1> QED
  BY <1>1, <1>2, <1>3, <1>4, <1>5, <1>6, <1>7, <1>8, <1>9, <1>10, <1>11, <1>12, <1>13,
     <1>14, <1>15, <1>16, <1>17, <1>18, <1>19, <1>20, <1>21, <1>22, <1>23, <1>24, <1>25, <1>26
  DEF Next, Arrive, Resume, RunnerStep

-----------------------------------------------------------------------------
(***************************************************************************)
(* The lock and the threads                                                *)
(***************************************************************************)

(* After a task has taken up its result no thread is busy: only the holder *)
(* of the lock had one.                                                    *)
LEMMA ReturnedLeavesNoThread ==
  ASSUME TypeOK, LockOwner, NEW t \in Tasks, NEW c, NEW R \in SUBSET Results, Returned(t, c, R)
  PROVE  \A u \in Tasks : thread'[u] = "off"
<1>1. thread[t] # "off"
  BY DEF Returned, Results
<1>2. \A u \in Tasks : u # t => thread[u] = "off"
  BY <1>1 DEF LockOwner
<1> QED
  BY <1>2 DEF Returned, TypeOK

(* A task with nothing to wait for that gets in line disturbs nobody.      *)
LEMMA AwaitKeepsLockOwner ==
  ASSUME TypeOK, LockOwner, NEW t \in Tasks, pc[t] \in {"idle", "created"},
         NEW call \in Calls, Await(t, call, lock), UNCHANGED thread
  PROVE  LockOwner'
<1> SUFFICES ASSUME NEW u \in Tasks, thread[u] # "off"
             PROVE  lock'.holder = u /\ pc'[u] \in Calls
  BY DEF LockOwner
<1>1. lock.holder = u /\ pc[u] \in Calls /\ u # None
  BY ConstantsAssumption DEF LockOwner
<1>2. lock'.holder = u
  BY <1>1, AcquiredHolder DEF Await, TypeOK
<1>3. u # t
  BY <1>1 DEF Calls, RequestCalls, InventoryCalls, StartCalls, FlashCalls
<1> QED
  BY <1>1, <1>2, <1>3 DEF Await, TypeOK

(* Threads belong to the holder of the lock, step by step.                 *)
LEMMA LockOwnerStep == TypeOK /\ LockOwner /\ [Next]_vars => LockOwner'
<1> SUFFICES ASSUME TypeOK, LockOwner, [Next]_vars PROVE LockOwner'
  OBVIOUS
<1>req. Requests \subseteq Tasks /\ Runner \in Tasks
  BY DEF Tasks
<1>1. ASSUME NEW t \in Requests, Arrive(t) PROVE LockOwner'
  <2>1. \E call \in RequestCalls : Await(t, call, lock)
    BY <1>1 DEF Arrive, index, refresh, status, flash_page, start_flash, start_flash_busy,
       Enumerate, RequestCalls, InventoryCalls, StartCalls
  <2>2. pc[t] = "idle" /\ UNCHANGED thread
    BY <1>1 DEF Arrive, index, refresh, status, flash_page, start_flash, start_flash_busy
  <2> QED
    BY <1>req, <2>1, <2>2, AwaitKeepsLockOwner DEF Calls
<1>2. ASSUME NEW t \in Requests, Resume(t) PROVE LockOwner'
  <2>1. \E c \in RequestCalls, R \in SUBSET Results : Returned(t, c, R)
    BY <1>2 DEF Resume, RefreshReturned, RefreshFailed, DevicesReturned, VersionReturned,
       InventoryReturned, InventoryFailed, CheckDevicesPassed, CheckUpdatesPassed,
       FlashRefused, FlashRaised, RequestCalls, InventoryCalls, StartCalls, Results
  <2> QED
    BY <1>req, <2>1, ReturnedLeavesNoThread DEF LockOwner
<1>3. CASE dismiss
  BY <1>3 DEF dismiss, LockOwner
<1>4. CASE RunnerStarts
  BY <1>4, <1>req, AwaitKeepsLockOwner DEF RunnerStarts, Calls, FlashCalls
<1>5. CASE DownloadReturned \/ InstallReturned \/ FlashFailed \/ FlashSucceeded
  <2>1. \E c \in FlashCalls, R \in SUBSET Results : Returned(Runner, c, R)
    BY <1>5 DEF DownloadReturned, InstallReturned, FlashFailed, FlashSucceeded, FlashCalls, Results
  <2> QED
    BY <1>req, <2>1, ReturnedLeavesNoThread DEF LockOwner
<1>6. ASSUME NEW t \in Tasks, CallStarts(t) PROVE LockOwner'
  BY <1>6 DEF CallStarts, LockOwner, TypeOK
<1>7. ASSUME NEW t \in Tasks, CallEnds(t) PROVE LockOwner'
  BY <1>7 DEF CallEnds, LockOwner, TypeOK
<1>8. CASE Tick \/ UNCHANGED vars
  BY <1>8 DEF Tick, vars, LockOwner
<1> QED
  BY <1>1, <1>2, <1>3, <1>4, <1>5, <1>6, <1>7, <1>8 DEF Next, RunnerStep

-----------------------------------------------------------------------------
(***************************************************************************)
(* Handlers and calls                                                      *)
(***************************************************************************)

(* A request that ends, and one that enumerates, keep calls and handlers   *)
(* matched.                                                                *)
LEMMA AnswerKeepsRoles ==
  ASSUME TypeOK, RolesMatch, NEW t \in Requests, Answer(t)
  PROVE  RolesMatch'
<1>1. t \in Tasks /\ Requests \subseteq Tasks
  BY DEF Tasks
<1> QED
  BY <1>1 DEF Answer, Forget, RolesMatch, TypeOK, StartCalls

(* A request that begins to list devices has a handler that lists them.    *)
LEMMA EnumerateKeepsRoles ==
  ASSUME TypeOK, RolesMatch, NEW t \in Requests, NEW r \in CachingRoles, NEW l,
         Enumerate(t, r, l)
  PROVE  RolesMatch'
<1>1. t \in Tasks /\ Requests \subseteq Tasks
  BY DEF Tasks
<1> QED
  BY <1>1 DEF Enumerate, Await, RolesMatch, TypeOK, StartCalls, CachingRoles

(* The request that begins the flash is over.                              *)
LEMMA BeginKeepsRoles ==
  ASSUME TypeOK, RolesMatch, NEW t \in Requests, Begin(t)
  PROVE  RolesMatch'
<1>1. t \in Tasks /\ Runner \in Tasks /\ Requests \subseteq Tasks /\ Runner \notin Requests
  BY ConstantsAssumption DEF Tasks
<1>2. \A u \in Requests : pc'[u] = IF u = t THEN "idle" ELSE pc[u]
  BY <1>1 DEF Begin, TypeOK
<1>3. \A u \in Requests : role'[u] = IF u = t THEN "none" ELSE role[u]
  BY DEF Begin, Forget, TypeOK
<1> QED
  BY <1>2, <1>3 DEF RolesMatch, StartCalls

(* RolesMatch is preserved: each action moves one request along its        *)
(* handler.                                                                *)
LEMMA RolesStep == TypeOK /\ RolesMatch /\ [Next]_vars => RolesMatch'
<1> SUFFICES ASSUME TypeOK, RolesMatch, [Next]_vars PROVE RolesMatch'
  OBVIOUS
<1>req. Requests \subseteq Tasks /\ Runner \in Tasks /\ Runner \notin Requests
  BY ConstantsAssumption DEF Tasks
<1>1. ASSUME NEW t \in Requests, index(t) \/ refresh(t) \/ start_flash(t) PROVE RolesMatch'
  BY <1>1, <1>req DEF index, refresh, start_flash, Await, RolesMatch, TypeOK, StartCalls
<1>2. ASSUME NEW t \in Requests, status(t) \/ flash_page(t) \/ start_flash_busy(t)
      PROVE  RolesMatch'
  BY <1>2, EnumerateKeepsRoles DEF status, flash_page, start_flash_busy, CachingRoles
<1>3. ASSUME NEW t \in Requests,
             \/ RefreshReturned(t) \/ DevicesReturned(t)
             \/ VersionReturned(t) \/ CheckDevicesPassed(t)
      PROVE  RolesMatch'
  BY <1>3, <1>req DEF RefreshReturned, DevicesReturned, VersionReturned, CheckDevicesPassed,
     Returned, Await, RolesMatch, TypeOK, StartCalls, requestVars
<1>4. ASSUME NEW t \in Requests, RefreshFailed(t) \/ InventoryFailed(t) \/ FlashRaised(t)
      PROVE  RolesMatch'
  BY <1>4, AnswerKeepsRoles DEF RefreshFailed, InventoryFailed, FlashRaised
<1>5. ASSUME NEW t \in Requests, InventoryReturned(t) PROVE RolesMatch'
  BY <1>5, AnswerKeepsRoles, BeginKeepsRoles DEF InventoryReturned
<1>6. ASSUME NEW t \in Requests, CheckUpdatesPassed(t) PROVE RolesMatch'
  BY <1>6, BeginKeepsRoles, EnumerateKeepsRoles DEF CheckUpdatesPassed, CachingRoles
<1>7. ASSUME NEW t \in Requests, FlashRefused(t) PROVE RolesMatch'
  BY <1>7, AnswerKeepsRoles, EnumerateKeepsRoles DEF FlashRefused, Refused, CachingRoles
<1>8. CASE RunnerStep
  BY <1>8, <1>req DEF RunnerStep, RunnerStarts, DownloadReturned, InstallReturned, FlashFailed,
     FlashSucceeded, Await, RolesMatch, TypeOK, requestVars
<1>9. CASE dismiss \/ (\E t \in Tasks : CallStarts(t) \/ CallEnds(t)) \/ Tick \/ UNCHANGED vars
  BY <1>9 DEF dismiss, CallStarts, CallEnds, Tick, vars, requestVars, RolesMatch
<1> QED
  BY <1>1, <1>2, <1>3, <1>4, <1>5, <1>6, <1>7, <1>8, <1>9 DEF Next, Arrive, Resume

-----------------------------------------------------------------------------
(***************************************************************************)
(* The claim on the slot                                                   *)
(***************************************************************************)

(* Nothing about the claim changes when the same request, if any, is       *)
(* validating, and no flash becomes active.                                *)
LEMMA SameClaim ==
  ASSUME ClaimantFindsSlotFree, flash_starting' = flash_starting, active' => active,
         \A t \in Requests : role'[t] = "flash" <=> role[t] = "flash"
  PROVE  ClaimantFindsSlotFree'
BY DEF ClaimantFindsSlotFree

(* The claim is gone with the one request that had it.                     *)
LEMMA ClaimGone ==
  ASSUME TypeOK, ClaimantFindsSlotFree, NEW t \in Requests, role[t] = "flash",
         NEW r \in Roles \ {"flash"},
         role' = [role EXCEPT ![t] = r], flash_starting' = FALSE
  PROVE  ClaimantFindsSlotFree'
<1>1. \A u \in Requests : role'[u] # "flash"
  BY DEF ClaimantFindsSlotFree, TypeOK
<1> QED
  BY <1>1 DEF ClaimantFindsSlotFree

(* ClaimantFindsSlotFree is preserved: only start_flash raises the flag,   *)
(* and every end of the validation lowers it in the same stretch of code.  *)
LEMMA ClaimStep ==
  TypeOK /\ RolesMatch /\ ActiveHasRunner /\ ClaimantFindsSlotFree /\ [Next]_vars
      => ClaimantFindsSlotFree'
<1> SUFFICES ASSUME TypeOK, RolesMatch, ActiveHasRunner, ClaimantFindsSlotFree, [Next]_vars
             PROVE  ClaimantFindsSlotFree'
  OBVIOUS
<1>1. ASSUME NEW t \in Requests,
             index(t) \/ refresh(t) \/ status(t) \/ flash_page(t) \/ start_flash_busy(t)
      PROVE  ClaimantFindsSlotFree'
  <2>1. \E r \in Roles \ {"flash"} : role' = [role EXCEPT ![t] = r]
    BY <1>1 DEF index, refresh, status, flash_page, start_flash_busy, Enumerate, Roles, CachingRoles
  <2>2. role[t] = "none"
    BY <1>1 DEF RolesMatch, index, refresh, status, flash_page, start_flash_busy
  <2>3. UNCHANGED flashVars
    BY <1>1 DEF index, refresh, status, flash_page, start_flash_busy
  <2> QED
    BY <2>1, <2>2, <2>3, SameClaim DEF TypeOK, flashVars, active
<1>2. ASSUME NEW t \in Requests, start_flash(t) PROVE ClaimantFindsSlotFree'
  BY <1>2 DEF start_flash, ClaimantFindsSlotFree, TypeOK, active
<1>3. ASSUME NEW t \in Requests,
             \/ RefreshReturned(t) \/ DevicesReturned(t)
             \/ VersionReturned(t) \/ CheckDevicesPassed(t)
      PROVE  ClaimantFindsSlotFree'
  BY <1>3, SameClaim DEF RefreshReturned, DevicesReturned, VersionReturned, CheckDevicesPassed,
     requestVars, flashVars, active
<1>4. ASSUME NEW t \in Requests, RefreshFailed(t) \/ InventoryFailed(t)
      PROVE  ClaimantFindsSlotFree'
  <2>1. role[t] # "flash"
    BY <1>4 DEF RefreshFailed, InventoryFailed, Returned, RolesMatch
  <2>2. role' = [role EXCEPT ![t] = "none"] /\ UNCHANGED flashVars
    BY <1>4 DEF RefreshFailed, InventoryFailed, Answer, Forget
  <2> QED
    BY <2>1, <2>2, SameClaim DEF TypeOK, flashVars, active
<1>5. ASSUME NEW t \in Requests, InventoryReturned(t) PROVE ClaimantFindsSlotFree'
  <2>1. role' = [role EXCEPT ![t] = "none"]
    BY <1>5 DEF InventoryReturned, Answer, Begin, Forget
  <2>2. CASE role[t] = "flash"
    BY <1>5, <2>1, <2>2, ClaimGone DEF InventoryReturned, Begin, Roles
  <2>3. CASE role[t] # "flash"
    BY <1>5, <2>1, <2>3, SameClaim DEF InventoryReturned, TypeOK, flashVars, active
  <2> QED
    BY <2>2, <2>3
<1>6. ASSUME NEW t \in Requests, CheckUpdatesPassed(t) PROVE ClaimantFindsSlotFree'
  <2>1. role[t] = "flash"
    BY <1>6 DEF CheckUpdatesPassed, Returned, RolesMatch, StartCalls
  <2>2. CASE Begin(t)
    BY <2>1, <2>2, ClaimGone DEF Begin, Forget, Roles
  <2>3. CASE Enumerate(t, "flash", Released) /\ UNCHANGED flashVars
    BY <2>1, <2>3, SameClaim DEF Enumerate, TypeOK, flashVars, active
  <2> QED
    BY <1>6, <2>2, <2>3 DEF CheckUpdatesPassed, flashVars
<1>7. ASSUME NEW t \in Requests, FlashRefused(t) \/ FlashRaised(t) PROVE ClaimantFindsSlotFree'
  <2>1. role[t] = "flash" /\ flash_starting' = FALSE
    BY <1>7 DEF FlashRefused, FlashRaised, Refused, Returned, RolesMatch, StartCalls
  <2>2. role' = [role EXCEPT ![t] = "none"] \/ role' = [role EXCEPT ![t] = "refused"]
    BY <1>7 DEF FlashRefused, FlashRaised, Refused, Answer, Forget, Enumerate
  <2> QED
    BY <2>1, <2>2, ClaimGone DEF Roles, CachingRoles
<1>8. CASE dismiss
  BY <1>8, SameClaim DEF dismiss, active
<1>9. CASE RunnerStep
  <2>1. UNCHANGED requestVars /\ flash_starting' = flash_starting
    BY <1>9 DEF RunnerStep, RunnerStarts, DownloadReturned, InstallReturned, FlashFailed,
       FlashSucceeded, flashVars
  <2>2. CASE RunnerStarts \/ DownloadReturned \/ InstallReturned
    BY <2>1, <2>2, SameClaim DEF RunnerStarts, DownloadReturned, InstallReturned, requestVars,
       flashVars, active
  <2>3. CASE FlashFailed \/ FlashSucceeded
    <3>1. pc[Runner] # "idle"
      BY <2>3 DEF FlashFailed, FlashSucceeded, Returned
    <3>2. active
      BY <3>1 DEF ActiveHasRunner
    <3> QED
      BY <2>1, <3>2, SameClaim DEF requestVars
  <2> QED
    BY <1>9, <2>2, <2>3 DEF RunnerStep
<1>10. CASE (\E t \in Tasks : CallStarts(t) \/ CallEnds(t)) \/ Tick \/ UNCHANGED vars
  BY <1>10, SameClaim DEF CallStarts, CallEnds, Tick, vars, requestVars, flashVars, active
<1> QED
  BY <1>1, <1>2, <1>3, <1>4, <1>5, <1>6, <1>7, <1>8, <1>9, <1>10 DEF Next, Arrive, Resume

-----------------------------------------------------------------------------
(***************************************************************************)
(* The active flash                                                        *)
(***************************************************************************)

(* Only two kinds of step change whether a flash is active or a background *)
(* task is there; all other steps of requests leave both alone.            *)
SameFlash == job' = job /\ pc'[Runner] = pc[Runner]

(* No step of a request touches the job or the background task, but the    *)
(* one that begins a flash.                                                *)
LEMMA RequestStepsKeepFlash ==
  ASSUME TypeOK, NEW t \in Requests, Arrive(t) \/ Resume(t), ~Begin(t)
  PROVE  SameFlash
<1>req. t \in Tasks /\ Runner \in Tasks /\ t # Runner
  BY ConstantsAssumption DEF Tasks
<1>1. CASE Arrive(t)
  BY <1>1, <1>req DEF Arrive, index, refresh, status, flash_page, start_flash, start_flash_busy,
     Enumerate, Await, flashVars, TypeOK, SameFlash
<1>2. CASE RefreshReturned(t) \/ DevicesReturned(t) \/ VersionReturned(t) \/ CheckDevicesPassed(t)
  BY <1>2, <1>req DEF RefreshReturned, DevicesReturned, VersionReturned, CheckDevicesPassed,
     Await, flashVars, TypeOK, SameFlash
<1>3. CASE RefreshFailed(t) \/ InventoryFailed(t) \/ FlashRaised(t)
  BY <1>3, <1>req DEF RefreshFailed, InventoryFailed, FlashRaised, Answer, flashVars, TypeOK,
     SameFlash
<1>4. CASE InventoryReturned(t) \/ CheckUpdatesPassed(t)
  BY <1>4, <1>req DEF InventoryReturned, CheckUpdatesPassed, Answer, Enumerate, Await, flashVars,
     TypeOK, SameFlash
<1>5. CASE FlashRefused(t)
  BY <1>5, <1>req DEF FlashRefused, Refused, Answer, Enumerate, Await, TypeOK, SameFlash
<1> QED
  BY <1>1, <1>2, <1>3, <1>4, <1>5 DEF Resume

(* The new job is active and has its background task.                      *)
LEMMA BeginMakesActive ==
  ASSUME TypeOK, NEW t \in Requests, Begin(t)
  PROVE  active' /\ pc'[Runner] = "created"
<1>1. job' \in Jobs /\ job'.status = "running"
  BY DEF Begin, Jobs
<1>2. Runner \in Tasks /\ t # Runner
  BY ConstantsAssumption DEF Tasks
<1> QED
  BY <1>1, <1>2, ConstantsAssumption DEF active, Begin, TypeOK

(* ActiveHasRunner is preserved: the job begins with its task and ends     *)
(* with it.                                                                *)
LEMMA ActiveHasRunnerStep == TypeOK /\ ActiveHasRunner /\ [Next]_vars => ActiveHasRunner'
<1> SUFFICES ASSUME TypeOK, ActiveHasRunner, [Next]_vars PROVE ActiveHasRunner'
  OBVIOUS
<1>run. Runner \in Tasks
  BY DEF Tasks
<1>1. ASSUME NEW t \in Requests, Arrive(t) \/ Resume(t) PROVE ActiveHasRunner'
  BY <1>1, RequestStepsKeepFlash, BeginMakesActive DEF SameFlash, ActiveHasRunner, active
<1>2. CASE dismiss
  BY <1>2 DEF dismiss, ActiveHasRunner, active
<1>3. CASE RunnerStarts \/ DownloadReturned \/ InstallReturned
  BY <1>3, <1>run DEF RunnerStarts, DownloadReturned, InstallReturned, Returned, Await, flashVars,
     TypeOK, ActiveHasRunner, active
<1>4. CASE FlashFailed \/ FlashSucceeded
  <2>1. pc[Runner] # "idle" /\ pc'[Runner] = "idle"
    BY <1>4, <1>run DEF FlashFailed, FlashSucceeded, Returned, TypeOK
  <2>2. job \in Jobs
    BY <2>1 DEF ActiveHasRunner, active, TypeOK
  <2>3. ~active'
    BY <1>4, <2>2 DEF FlashFailed, FlashSucceeded, active, Jobs
  <2> QED
    BY <2>1, <2>3 DEF ActiveHasRunner
<1>5. CASE (\E t \in Tasks : CallStarts(t) \/ CallEnds(t)) \/ Tick \/ UNCHANGED vars
  BY <1>5 DEF CallStarts, CallEnds, Tick, vars, flashVars, ActiveHasRunner, active
<1> QED
  BY <1>1, <1>2, <1>3, <1>4, <1>5 DEF Next, RunnerStep

(* The cache is never emptied.                                             *)
LEMMA CacheStays == TypeOK /\ cached # None /\ [Next]_vars => cached' # None
<1> SUFFICES ASSUME TypeOK, cached # None, [Next]_vars PROVE cached' # None
  OBVIOUS
<1>1. ASSUME NEW t \in Requests, InventoryReturned(t) PROVE cached' # None
  <2>1. now[t] \in Time /\ read[t] \in Time
    BY DEF TypeOK
  <2>2. cached' = cached \/ cached' \in Snapshots
    BY <1>1, <2>1 DEF InventoryReturned, Snapshots
  <2> QED
    BY <2>2, ConstantsAssumption
<1>2. ASSUME ~\E t \in Requests : InventoryReturned(t) PROVE cached' = cached
  BY <1>2 DEF Next, Arrive, index, refresh, status, flash_page, start_flash, start_flash_busy,
     Resume, RefreshReturned, RefreshFailed, DevicesReturned, VersionReturned, InventoryFailed,
     CheckDevicesPassed, CheckUpdatesPassed, FlashRefused, Refused, FlashRaised, dismiss, RunnerStep,
     RunnerStarts, DownloadReturned, InstallReturned, FlashFailed, FlashSucceeded, CallStarts,
     CallEnds, Tick, vars, storeVars
<1> QED
  BY <1>1, <1>2

(* A flash begins right after cached_inventory has answered.               *)
LEMMA ActiveHasSnapshotStep ==
  TypeOK /\ RolesMatch /\ ClaimantFindsSlotFree /\ ActiveHasRunner /\ ActiveHasSnapshot
      /\ [Next]_vars => ActiveHasSnapshot'
<1> SUFFICES ASSUME TypeOK, RolesMatch, ClaimantFindsSlotFree, ActiveHasRunner, ActiveHasSnapshot,
                    [Next]_vars
             PROVE  ActiveHasSnapshot'
  OBVIOUS
<1>1. CASE active
  BY <1>1, CacheStays DEF ActiveHasSnapshot
<1>2. CASE ~active
  <2>1. ASSUME NEW t \in Requests, Begin(t), Resume(t) PROVE cached' # None
    <3>1. CASE InventoryReturned(t)
      <4>1. now[t] \in Time /\ read[t] \in Time
        BY DEF TypeOK
      <4>2. role[t] = "flash"
        BY <3>1, <2>1, BeginMakesActive, <1>2 DEF InventoryReturned, flashVars, active
      <4>3. cached' \in Snapshots
        BY <3>1, <4>1, <4>2 DEF InventoryReturned, CachingRoles, Snapshots
      <4> QED
        BY <4>3, ConstantsAssumption
    <3>2. CASE CheckUpdatesPassed(t)
      <4>1. AnsweredAtOnce
        BY <3>2, <2>1, BeginMakesActive, <1>2 DEF CheckUpdatesPassed, flashVars, active
      <4>2. cached # None
        BY <4>1, <1>2 DEF AnsweredAtOnce, ServedFromCache
      <4> QED
        BY <4>2, CacheStays
    <3>3. CASE ~InventoryReturned(t) /\ ~CheckUpdatesPassed(t)
      <4>1. job' = job
        BY <2>1, <3>3 DEF Resume, RefreshReturned, RefreshFailed, DevicesReturned, VersionReturned,
           InventoryFailed, CheckDevicesPassed, FlashRefused, Refused, FlashRaised, flashVars
      <4> QED
        BY <4>1, <2>1, <1>2, BeginMakesActive DEF active
    <3> QED
      BY <3>1, <3>2, <3>3
  <2>2. ASSUME NEW t \in Requests, Arrive(t) PROVE ~active'
    BY <1>2, <2>2 DEF Arrive, index, refresh, status, flash_page, start_flash, start_flash_busy,
       flashVars, active
  <2>3. ASSUME NEW t \in Requests, Resume(t), ~Begin(t) PROVE ~active'
    BY <1>2, <2>3, RequestStepsKeepFlash DEF SameFlash, active
  <2>4. CASE RunnerStep
    <3>1. RunnerStep => pc[Runner] # "idle"
      BY DEF RunnerStep, RunnerStarts, DownloadReturned, InstallReturned, FlashFailed,
         FlashSucceeded, Returned
    <3> QED
      BY <1>2, <2>4, <3>1 DEF ActiveHasRunner
  <2>5. CASE dismiss \/ (\E t \in Tasks : CallStarts(t) \/ CallEnds(t)) \/ Tick \/ UNCHANGED vars
    BY <1>2, <2>5 DEF dismiss, CallStarts, CallEnds, Tick, vars, flashVars, active,
       ActiveHasSnapshot
  <2> QED
    BY <2>1, <2>2, <2>3, <2>4, <2>5 DEF Next, ActiveHasSnapshot
<1> QED
  BY <1>1, <1>2

-----------------------------------------------------------------------------
(***************************************************************************)
(* Times                                                                   *)
(***************************************************************************)

(* Times are integers, and the clock does not go backwards.                *)
LEMMA TimesAreIntegers ==
  TypeOK => /\ clock \in Int
            /\ \A t \in Requests : now[t] \in Int /\ read[t] \in Int
            /\ 0 <= clock
BY ConstantsAssumption DEF TypeOK, Time

(* A request keeps its times in order when it ends, and when it looks at   *)
(* the clock before it enumerates.                                         *)
LEMMA ForgetKeepsTimes ==
  ASSUME TypeOK, TimesInOrder, NEW t \in Requests, Forget(t), clock' = clock,
         \A u \in Requests : u # t => pc'[u] = pc[u] /\ thread'[u] = thread[u]
  PROVE  TimesInOrder'
BY TimesAreIntegers DEF Forget, TimesInOrder, HasRead, CachingRoles, TypeOK

(* A request that begins to list devices has read none.                    *)
LEMMA EnumerateKeepsTimes ==
  ASSUME TypeOK, TimesInOrder, NEW t \in Requests, NEW r, NEW l, Enumerate(t, r, l), clock' = clock,
         thread'[t] = "off", \A u \in Requests : u # t => thread'[u] = thread[u]
  PROVE  TimesInOrder'
<1>1. Requests \subseteq Tasks
  BY DEF Tasks
<1>2. \A u \in Requests : u # t => pc'[u] = pc[u] /\ role'[u] = role[u] /\ now'[u] = now[u]
                                /\ read'[u] = read[u]
  BY <1>1 DEF Enumerate, Await, TypeOK
<1>3. now'[t] = clock /\ pc'[t] = "get_devices"
  BY <1>1 DEF Enumerate, Await, TypeOK
<1> QED
  BY <1>2, <1>3, TimesAreIntegers DEF TimesInOrder, HasRead

(* TimesInOrder is preserved: the clock was looked at before the devices   *)
(* were read.                                                              *)
LEMMA TimesStep == TypeOK /\ LockOwner /\ RolesMatch /\ TimesInOrder /\ [Next]_vars => TimesInOrder'
<1> SUFFICES ASSUME TypeOK, LockOwner, RolesMatch, TimesInOrder, [Next]_vars PROVE TimesInOrder'
  OBVIOUS
<1>req. Requests \subseteq Tasks /\ Runner \in Tasks /\ Runner \notin Requests
  BY ConstantsAssumption DEF Tasks
<1>1. ASSUME NEW t \in Requests, index(t) \/ refresh(t) \/ start_flash(t) PROVE TimesInOrder'
  <2>1. role'[t] \in {"page", "flash"} /\ pc'[t] \in {"get_devices", "refresh", "check_devices"}
        /\ thread'[t] = "off" /\ UNCHANGED <<thread, now, read, clock>>
    BY <1>1, <1>req DEF index, refresh, start_flash, Await, TypeOK, LockOwner, Calls, RequestCalls,
       InventoryCalls, StartCalls, FlashCalls
  <2>2. \A u \in Requests : u # t => pc'[u] = pc[u] /\ role'[u] = role[u]
    BY <1>1, <1>req DEF index, refresh, start_flash, Await, TypeOK
  <2> QED
    BY <2>1, <2>2 DEF TimesInOrder, HasRead
<1>2. ASSUME NEW t \in Requests, status(t) \/ flash_page(t) \/ start_flash_busy(t)
      PROVE  TimesInOrder'
  <2>1. thread' = thread /\ thread[t] = "off" /\ clock' = clock
    BY <1>2, <1>req DEF status, flash_page, start_flash_busy, TypeOK, LockOwner, Calls, RequestCalls,
       InventoryCalls, StartCalls, FlashCalls
  <2> QED
    BY <1>2, <2>1, EnumerateKeepsTimes DEF status, flash_page, start_flash_busy
<1>3. ASSUME NEW t \in Requests, Resume(t) PROVE TimesInOrder'
  <2>1. clock' = clock /\ \A u \in Requests : u # t => pc'[u] = pc[u] /\ thread'[u] = thread[u]
    BY <1>3, <1>req DEF Resume, RefreshReturned, RefreshFailed, DevicesReturned, VersionReturned,
       InventoryReturned, InventoryFailed, CheckDevicesPassed, CheckUpdatesPassed, FlashRefused,
       FlashRaised, Refused, Returned, Await, Answer, Begin, Enumerate, TypeOK
  <2>2. thread'[t] = "off"
    BY <1>3, <1>req DEF Resume, RefreshReturned, RefreshFailed, DevicesReturned, VersionReturned,
       InventoryReturned, InventoryFailed, CheckDevicesPassed, CheckUpdatesPassed, FlashRefused,
       FlashRaised, Returned, TypeOK
  <2>3. CASE Forget(t)
    BY <2>1, <2>3, ForgetKeepsTimes
  <2>4. CASE \E r, l : Enumerate(t, r, l)
    BY <2>1, <2>2, <2>4, EnumerateKeepsTimes
  <2>5. CASE RefreshReturned(t) \/ CheckDevicesPassed(t)
    BY <1>req, <2>1, <2>2, <2>5 DEF RefreshReturned, CheckDevicesPassed, Await, requestVars,
       TimesInOrder, HasRead, TypeOK
  <2>6. CASE DevicesReturned(t) \/ VersionReturned(t)
    <3>1. HasRead(t)' => HasRead(t)
      BY <2>6 DEF DevicesReturned, VersionReturned, Returned, requestVars, HasRead
    <3>2. UNCHANGED requestVars
      BY <2>6 DEF DevicesReturned, VersionReturned
    <3> QED
      BY <2>1, <3>1, <3>2 DEF TimesInOrder, HasRead, requestVars
  <2> QED
    BY <1>3, <2>3, <2>4, <2>5, <2>6 DEF Resume, RefreshFailed, InventoryReturned, InventoryFailed,
       CheckUpdatesPassed, FlashRefused, Refused, FlashRaised, Answer, Begin
<1>4. CASE dismiss
  BY <1>4 DEF dismiss, TimesInOrder, HasRead
<1>5. CASE RunnerStep
  <2>1. clock' = clock /\ UNCHANGED requestVars
        /\ \A u \in Requests : pc'[u] = pc[u] /\ thread'[u] = thread[u]
    BY <1>5, <1>req DEF RunnerStep, RunnerStarts, DownloadReturned, InstallReturned, FlashFailed,
       FlashSucceeded, Returned, Await, TypeOK
  <2> QED
    BY <2>1 DEF TimesInOrder, HasRead, requestVars
<1>6. ASSUME NEW t \in Tasks, CallStarts(t) PROVE TimesInOrder'
  <2>1. UNCHANGED <<pc, role, now, clock>> /\ thread' = [thread EXCEPT ![t] = "running"]
    BY <1>6 DEF CallStarts
  <2>2. ASSUME NEW u \in Requests, HasRead(u)' PROVE now[u] <= read'[u]
    <3>1. CASE u = t /\ pc[u] = "get_devices"
      <4>1. read' = [read EXCEPT ![t] = clock]
        BY <1>6, <2>1, <2>2, <3>1 DEF CallStarts, HasRead
      <4> QED
        BY <3>1, <4>1 DEF TimesInOrder, TypeOK
    <3>2. CASE ~(u = t /\ pc[u] = "get_devices")
      <4>1. HasRead(u)
        BY <1>req, <2>1, <2>2, <3>2 DEF HasRead, TypeOK
      <4>2. read'[u] = read[u]
        BY <1>6, <3>2 DEF CallStarts, TypeOK
      <4> QED
        BY <4>1, <4>2 DEF TimesInOrder
    <3> QED
      BY <3>1, <3>2
  <2> QED
    BY <2>1, <2>2 DEF TimesInOrder
<1>7. ASSUME NEW t \in Tasks, CallEnds(t) PROVE TimesInOrder'
  BY <1>7, <1>req DEF CallEnds, requestVars, TimesInOrder, HasRead, TypeOK
<1>8. CASE Tick
  BY <1>8, TimesAreIntegers DEF Tick, requestVars, TimesInOrder, HasRead
<1>9. CASE UNCHANGED vars
  BY <1>9 DEF vars, requestVars, TimesInOrder, HasRead
<1> QED
  BY <1>1, <1>2, <1>3, <1>4, <1>5, <1>6, <1>7, <1>8, <1>9 DEF Next, Arrive

(* SnapshotNotOlderThanStamped is preserved: what is stored are the times  *)
(* of the request that stores it.                                          *)
LEMMA SnapshotStep ==
  TypeOK /\ TimesInOrder /\ SnapshotNotOlderThanStamped /\ [Next]_vars
      => SnapshotNotOlderThanStamped'
<1> SUFFICES ASSUME TypeOK, TimesInOrder, SnapshotNotOlderThanStamped, [Next]_vars
             PROVE  SnapshotNotOlderThanStamped'
  OBVIOUS
<1>1. ASSUME NEW t \in Requests, InventoryReturned(t) PROVE SnapshotNotOlderThanStamped'
  <2>1. CASE role[t] \in CachingRoles
    <3>1. HasRead(t)
      BY <1>1, <2>1 DEF InventoryReturned, Returned, HasRead
    <3>2. cached' = [at |-> now[t], read |-> read[t]]
      BY <1>1, <2>1 DEF InventoryReturned
    <3> QED
      BY <3>1, <3>2 DEF TimesInOrder, SnapshotNotOlderThanStamped
  <2>2. CASE role[t] \notin CachingRoles
    BY <1>1, <2>2 DEF InventoryReturned, SnapshotNotOlderThanStamped
  <2> QED
    BY <2>1, <2>2
<1>2. ASSUME ~\E t \in Requests : InventoryReturned(t) PROVE cached' = cached
  BY <1>2 DEF Next, Arrive, index, refresh, status, flash_page, start_flash, start_flash_busy,
     Resume, RefreshReturned, RefreshFailed, DevicesReturned, VersionReturned, InventoryFailed,
     CheckDevicesPassed, CheckUpdatesPassed, FlashRefused, Refused, FlashRaised, dismiss, RunnerStep,
     RunnerStarts, DownloadReturned, InstallReturned, FlashFailed, FlashSucceeded, CallStarts,
     CallEnds, Tick, vars, storeVars
<1> QED
  BY <1>1, <1>2 DEF SnapshotNotOlderThanStamped

-----------------------------------------------------------------------------
(***************************************************************************)
(* The line for the lock                                                   *)
(***************************************************************************)

Waits(l, t) == l.holder = t \/ \E i \in DOMAIN l.queue : l.queue[i] = t

Orderly(l) ==
    /\ \A i, j \in DOMAIN l.queue : l.queue[i] = l.queue[j] => i = j
    /\ \A i \in DOMAIN l.queue : l.queue[i] # l.holder
    /\ l.holder = None => l.queue = << >>

(* NobodyForgotten in terms of the line: an orderly line, with exactly the *)
(* tasks that have a call to make in it.                                   *)
LEMMA LineIsOrderly ==
  NobodyForgotten <=> Orderly(lock) /\ \A t \in Tasks : pc[t] \in Calls <=> Waits(lock, t)
BY DEF NobodyForgotten, Orderly, Waits, InLine

(* Acquiring adds one task to the line, at its end.                        *)
LEMMA AcquiredLine ==
  ASSUME NEW l \in Locks, Orderly(l), NEW t \in Tasks, ~Waits(l, t)
  PROVE  /\ Orderly(Acquired(l, t))
         /\ \A u \in Tasks : Waits(Acquired(l, t), u) <=> Waits(l, u) \/ u = t
<1>none. t # None /\ \A u \in Tasks : u # None
  BY ConstantsAssumption
<1>1. CASE l.holder = None
  <2>1. Acquired(l, t).holder = t /\ Acquired(l, t).queue = << >> /\ l.queue = << >>
    BY <1>1 DEF Acquired, Locks, Orderly
  <2> QED
    BY <1>1, <1>none, <2>1 DEF Orderly, Waits
<1>2. CASE l.holder # None
  <2> DEFINE q == l.queue
             q2 == Append(q, t)
  <2>1. q \in Seq(Tasks)
    BY DEF Locks
  <2>2. /\ Len(q) \in Nat /\ DOMAIN q = 1 .. Len(q)
        /\ DOMAIN q2 = 1 .. (Len(q) + 1)
        /\ \A i \in 1 .. Len(q) : q2[i] = q[i]
        /\ q2[Len(q) + 1] = t
    BY <2>1, AppendProperties, LenProperties
  <2>3. Acquired(l, t).holder = l.holder /\ Acquired(l, t).queue = q2
    BY <1>2 DEF Acquired, Locks
  <2>4. \A i \in DOMAIN q2 : i = Len(q) + 1 \/ i \in DOMAIN q
    BY <2>2
  <2> HIDE DEF q, q2
  <2>5. Orderly(Acquired(l, t))
    BY <1>2, <2>2, <2>3, <2>4 DEF Orderly, Waits, q
  <2>6. \A u \in Tasks : Waits(Acquired(l, t), u) <=> Waits(l, u) \/ u = t
    BY <2>2, <2>3, <2>4 DEF Waits, q
  <2> QED
    BY <2>5, <2>6
<1> QED
  BY <1>1, <1>2

(* Releasing takes the holder, and nobody else, out of the line.           *)
LEMMA ReleasedLine ==
  ASSUME TypeOK, Orderly(lock), NEW t \in Tasks, lock.holder = t
  PROVE  /\ Orderly(Released)
         /\ \A u \in Tasks : Waits(Released, u) <=> Waits(lock, u) /\ u # t
<1>none. t # None /\ \A u \in Tasks : u # None
  BY ConstantsAssumption
<1>1. CASE lock.queue = << >>
  BY <1>1, <1>none DEF Released, Orderly, Waits
<1>2. CASE lock.queue # << >>
  <2> DEFINE q == lock.queue
  <2>1. q \in Seq(Tasks)
    BY DEF Locks, TypeOK
  <2>2. /\ Len(q) \in Nat /\ Len(q) >= 1 /\ DOMAIN q = 1 .. Len(q)
        /\ DOMAIN Tail(q) = 1 .. (Len(q) - 1)
        /\ Head(q) = q[1]
        /\ \A i \in 1 .. (Len(q) - 1) : Tail(q)[i] = q[i + 1]
    BY <1>2, <2>1, HeadTailProperties, LenProperties, EmptySeq
  <2>3. Released.holder = Head(q) /\ Released.queue = Tail(q)
    BY <1>2 DEF Released
  <2>4. Head(q) \in Tasks
    BY <1>2, <2>1, HeadTailProperties
  <2> HIDE DEF q
  <2>5. Orderly(Released)
    <3>a. \A i, j \in 1 .. Len(q) : q[i] = q[j] => i = j
      BY <2>2 DEF Orderly, q
    <3>1. ASSUME NEW i \in DOMAIN Tail(q), NEW j \in DOMAIN Tail(q), Tail(q)[i] = Tail(q)[j]
          PROVE  i = j
      <4>1. i + 1 \in 1 .. Len(q) /\ j + 1 \in 1 .. Len(q) /\ q[i + 1] = q[j + 1]
        BY <2>2, <3>1
      <4>2. i + 1 = j + 1
        BY <3>a, <4>1
      <4> QED
        BY <2>2, <4>2
    <3>2. ASSUME NEW i \in DOMAIN Tail(q) PROVE Tail(q)[i] # Head(q)
      <4>1. i + 1 \in 1 .. Len(q) /\ i + 1 # 1 /\ 1 \in 1 .. Len(q)
        BY <2>2
      <4> QED
        BY <2>2, <3>a, <4>1
    <3> QED
      BY <1>none, <2>3, <2>4, <3>1, <3>2 DEF Orderly
  <2>6. ASSUME NEW u \in Tasks, Waits(Released, u) PROVE Waits(lock, u) /\ u # t
    BY <2>2, <2>3, <2>6 DEF Waits, Orderly, q
  <2>7. ASSUME NEW u \in Tasks, Waits(lock, u), u # t PROVE Waits(Released, u)
    <3>1. PICK i \in 1 .. Len(q) : q[i] = u
      BY <2>2, <2>7 DEF Waits, q
    <3>2. CASE i = 1
      BY <2>2, <2>3, <3>1, <3>2 DEF Waits
    <3>3. CASE i # 1
      <4>1. i - 1 \in 1 .. (Len(q) - 1) /\ Tail(q)[i - 1] = u
        BY <2>2, <3>1, <3>3
      <4> QED
        BY <2>2, <2>3, <4>1 DEF Waits
    <3> QED
      BY <3>2, <3>3
  <2> QED
    BY <2>5, <2>6, <2>7
<1> QED
  BY <1>1, <1>2

(* A task that had nothing to wait for joins the line.                     *)
LEMMA JoinLine ==
  ASSUME TypeOK, NobodyForgotten, NEW t \in Tasks, pc[t] \notin Calls,
         NEW call \in Calls, Await(t, call, lock)
  PROVE  NobodyForgotten'
<1>1. Orderly(lock) /\ ~Waits(lock, t) /\ lock \in Locks
  BY LineIsOrderly DEF TypeOK
<1>2. lock' = Acquired(lock, t) /\ \A u \in Tasks : pc'[u] = IF u = t THEN call ELSE pc[u]
  BY DEF Await, TypeOK
<1>3. Orderly(lock') /\ \A u \in Tasks : Waits(lock', u) <=> Waits(lock, u) \/ u = t
  BY <1>1, <1>2, AcquiredLine
<1>4. \A u \in Tasks : pc'[u] \in Calls <=> Waits(lock', u)
  BY <1>2, <1>3, LineIsOrderly
<1> QED
  BY <1>3, <1>4 DEF NobodyForgotten, Orderly, Waits, InLine

(* The holder leaves the line, and has nothing more to wait for.           *)
LEMMA LeaveLine ==
  ASSUME TypeOK, NobodyForgotten, NEW t \in Tasks, lock.holder = t,
         lock' = Released, pc'[t] \notin Calls,
         \A u \in Tasks : u # t => (pc'[u] \in Calls <=> pc[u] \in Calls)
  PROVE  NobodyForgotten'
<1>1. Orderly(lock') /\ \A u \in Tasks : Waits(lock', u) <=> Waits(lock, u) /\ u # t
  BY LineIsOrderly, ReleasedLine
<1>2. \A u \in Tasks : pc'[u] \in Calls <=> Waits(lock', u)
  BY <1>1, LineIsOrderly
<1> QED
  BY <1>1, <1>2 DEF NobodyForgotten, Orderly, Waits, InLine

(* The holder goes to the end of the line for its next call.               *)
LEMMA RejoinLine ==
  ASSUME TypeOK, NobodyForgotten, NEW t \in Tasks, lock.holder = t,
         NEW call \in Calls, Await(t, call, Released)
  PROVE  NobodyForgotten'
<1>1. Orderly(Released) /\ \A u \in Tasks : Waits(Released, u) <=> Waits(lock, u) /\ u # t
  BY LineIsOrderly, ReleasedLine
<1>2. lock' = Acquired(Released, t) /\ \A u \in Tasks : pc'[u] = IF u = t THEN call ELSE pc[u]
  BY DEF Await, TypeOK
<1>3. Orderly(lock') /\ \A u \in Tasks : Waits(lock', u) <=> Waits(Released, u) \/ u = t
  BY <1>1, <1>2, AcquiredLine, ReleasedType
<1>4. Waits(lock, t)
  BY DEF Waits
<1>5. \A u \in Tasks : pc'[u] \in Calls <=> Waits(lock', u)
  BY <1>1, <1>2, <1>3, <1>4, LineIsOrderly
<1> QED
  BY <1>3, <1>5 DEF NobodyForgotten, Orderly, Waits, InLine

(* NobodyForgotten is preserved: every action joins the line, leaves it,   *)
(* does both, or lets it be.                                               *)
LEMMA LineStep == IInv /\ NobodyForgotten /\ [Next]_vars => NobodyForgotten'
<1> SUFFICES ASSUME TypeOK, LockOwner, RolesMatch, ClaimantFindsSlotFree, ActiveHasRunner,
                    NobodyForgotten, [Next]_vars
             PROVE  NobodyForgotten'
  BY DEF IInv
<1>req. Requests \subseteq Tasks /\ Runner \in Tasks /\ Runner \notin Requests
  BY ConstantsAssumption DEF Tasks
<1>calls. "idle" \notin Calls /\ "created" \notin Calls /\ RequestCalls \subseteq Calls
          /\ FlashCalls \subseteq Calls
  BY DEF Calls, RequestCalls, InventoryCalls, StartCalls, FlashCalls
<1>1. ASSUME NEW t \in Requests, Arrive(t) PROVE NobodyForgotten'
  <2>1. pc[t] = "idle" /\ \E call \in RequestCalls : Await(t, call, lock)
    BY <1>1 DEF Arrive, index, refresh, status, flash_page, start_flash, start_flash_busy,
       Enumerate, RequestCalls, InventoryCalls, StartCalls
  <2> QED
    BY <1>req, <1>calls, <2>1, JoinLine
<1>2. ASSUME NEW t \in Requests, Resume(t) PROVE NobodyForgotten'
  <2>1. lock.holder = t
    BY <1>2, <1>req DEF Resume, RefreshReturned, RefreshFailed, DevicesReturned, VersionReturned,
       InventoryReturned, InventoryFailed, CheckDevicesPassed, CheckUpdatesPassed, FlashRefused,
       FlashRaised, Returned, LockOwner
  <2>2. \/ \E call \in RequestCalls : Await(t, call, Released)
        \/ lock' = Released /\ Answer(t)
        \/ role[t] = "flash" /\ lock' = Released /\ Begin(t)
    BY <1>2 DEF RolesMatch, Resume, RefreshReturned, RefreshFailed, DevicesReturned, VersionReturned,
       InventoryReturned, InventoryFailed, CheckDevicesPassed, CheckUpdatesPassed, FlashRefused,
       FlashRaised, Refused, Returned, Enumerate, RequestCalls, InventoryCalls, StartCalls
  <2>3. CASE \E call \in RequestCalls : Await(t, call, Released)
    BY <1>req, <1>calls, <2>1, <2>3, RejoinLine
  <2>4. CASE lock' = Released /\ Answer(t)
    BY <1>req, <1>calls, <2>1, <2>4, LeaveLine DEF Answer, TypeOK
  <2>5. CASE role[t] = "flash" /\ lock' = Released /\ Begin(t)
    <3>1. pc[Runner] \notin Calls
      BY <1>calls, <2>5 DEF ClaimantFindsSlotFree, ActiveHasRunner
    <3> QED
      BY <1>req, <1>calls, <2>1, <2>5, <3>1, LeaveLine DEF Begin, TypeOK
  <2> QED
    BY <2>2, <2>3, <2>4, <2>5
<1>3. CASE RunnerStarts
  BY <1>3, <1>req, <1>calls, JoinLine DEF RunnerStarts, FlashCalls
<1>4. CASE DownloadReturned \/ InstallReturned
  BY <1>4, <1>req DEF DownloadReturned, InstallReturned, Returned, NobodyForgotten, InLine, TypeOK,
     Calls, FlashCalls
<1>5. CASE FlashFailed \/ FlashSucceeded
  <2>1. lock.holder = Runner /\ lock' = Released /\ pc' = [pc EXCEPT ![Runner] = "idle"]
    BY <1>5, <1>req DEF FlashFailed, FlashSucceeded, Returned, LockOwner, Results
  <2> QED
    BY <1>req, <1>calls, <2>1, LeaveLine DEF TypeOK
<1>6. CASE dismiss \/ (\E t \in Tasks : CallStarts(t) \/ CallEnds(t)) \/ Tick \/ UNCHANGED vars
  BY <1>6 DEF dismiss, CallStarts, CallEnds, Tick, vars, NobodyForgotten, InLine
<1> QED
  BY <1>1, <1>2, <1>3, <1>4, <1>5, <1>6 DEF Next, RunnerStep

-----------------------------------------------------------------------------
(***************************************************************************)
(* The theorems                                                            *)
(***************************************************************************)

(* The inductive invariant holds at first.                                 *)
LEMMA IInvInit == Init => IInv
<1> SUFFICES ASSUME Init PROVE IInv
  OBVIOUS
<1>1. ~active /\ cached = None /\ clock = 0
  BY DEF Init, active
<1>2. TypeOK
  BY TypeInit
<1>3. LockOwner /\ RolesMatch /\ ClaimantFindsSlotFree
  BY <1>1 DEF Init, LockOwner, RolesMatch, ClaimantFindsSlotFree, StartCalls, Tasks
<1>4. ActiveHasRunner /\ ActiveHasSnapshot /\ SnapshotNotOlderThanStamped
  BY <1>1 DEF Init, ActiveHasRunner, ActiveHasSnapshot, SnapshotNotOlderThanStamped, Tasks
<1>5. TimesInOrder
  BY DEF Init, TimesInOrder, HasRead, CachingRoles
<1> QED
  BY <1>2, <1>3, <1>4, <1>5 DEF IInv

(* The inductive invariant is preserved by every step.                     *)
LEMMA IInvStep == IInv /\ [Next]_vars => IInv'
BY TypeStep, LockOwnerStep, RolesStep, ClaimStep, ActiveHasRunnerStep, ActiveHasSnapshotStep,
   TimesStep, SnapshotStep
DEF IInv

(* The inductive invariant of the specification.                           *)
THEOREM Invariance == Safety => []IInv
BY IInvInit, IInvStep, PTL DEF Safety

(* Every reachable state is well-typed.                                    *)
THEOREM TypeCorrect == Safety => []TypeOK
<1>1. IInv => TypeOK
  BY DEF IInv
<1> QED
  BY <1>1, Invariance, PTL

(* No two calls of fwupdtool ever run at the same time, for any number of  *)
(* handlers: FwupdService's second rule.                                   *)
THEOREM MutualExclusion == Safety => []HardwareExclusive
<1>1. IInv => HardwareExclusive
  BY DEF IInv, LockOwner, HardwareExclusive, UsesHardware
<1> QED
  BY <1>1, Invariance, PTL

(* At most one request validates a flash, only while none is active, and   *)
(* the flag _flash_starting says so exactly: a double click cannot start a *)
(* second flash, and FlashManager.begin cannot raise.                      *)
THEOREM SingleClaim == Safety => []ClaimantFindsSlotFree
<1>1. IInv => ClaimantFindsSlotFree
  BY DEF IInv
<1> QED
  BY <1>1, Invariance, PTL

(* While a flash is active cached_inventory always has a copy to serve.    *)
THEOREM SnapshotDuringFlash == Safety => []ActiveHasSnapshot
<1>1. IInv => ActiveHasSnapshot
  BY DEF IInv
<1> QED
  BY <1>1, Invariance, PTL

(* A job is active exactly as long as its background task is alive.        *)
THEOREM NoOrphanJob == Safety => []ActiveHasRunner
<1>1. IInv => ActiveHasRunner
  BY DEF IInv
<1> QED
  BY <1>1, Invariance, PTL

(* The cache never makes a snapshot look younger than it is.               *)
THEOREM HonestAge == Safety => []SnapshotNotOlderThanStamped
<1>1. IInv => SnapshotNotOlderThanStamped
  BY DEF IInv
<1> QED
  BY <1>1, Invariance, PTL

(* Every task with a call to make holds the lock or stands once in its     *)
(* line, and a free lock has no line.                                      *)
THEOREM NoLostWakeup == Safety => []NobodyForgotten
<1>1. Init => NobodyForgotten
  BY ConstantsAssumption DEF Init, NobodyForgotten, InLine, Calls, RequestCalls, InventoryCalls,
     StartCalls, FlashCalls, Tasks
<1> QED
  BY <1>1, LineStep, Invariance, PTL DEF Safety

(* A request that arrives during a flash is never made to wait for it.     *)
THEOREM NoWaitOnArrival == Safety => ArrivalsNeverWaitForFlash
<1>1. ASSUME IInv, [Next]_vars, active, NEW t \in Requests, pc[t] = "idle"
      PROVE  pc'[t] = "idle"
  <2>req. t \in Tasks /\ t # Runner
    BY ConstantsAssumption DEF Tasks
  <2>1. ~\E u \in Requests : Arrive(u)
    BY <1>1 DEF Arrive, index, refresh, status, flash_page, start_flash, start_flash_busy,
       Enumerate, AnsweredAtOnce
  <2>2. ASSUME NEW u \in Requests, Resume(u) PROVE pc'[t] = "idle"
    <3>1. u # t
      BY <1>1, <2>2 DEF Resume, RefreshReturned, RefreshFailed, DevicesReturned, VersionReturned,
         InventoryReturned, InventoryFailed, CheckDevicesPassed, CheckUpdatesPassed, FlashRefused,
         FlashRaised, Returned, InventoryCalls
    <3> QED
      BY <1>1, <2>2, <2>req, <3>1 DEF Resume, RefreshReturned, RefreshFailed, DevicesReturned,
         VersionReturned, InventoryReturned, InventoryFailed, CheckDevicesPassed, CheckUpdatesPassed,
         FlashRefused, FlashRaised, Refused, Await, Answer, Begin, Enumerate, IInv, TypeOK
  <2>3. CASE RunnerStep
    BY <1>1, <2>3, <2>req DEF RunnerStep, RunnerStarts, DownloadReturned, InstallReturned,
       FlashFailed, FlashSucceeded, Await, IInv, TypeOK
  <2>4. CASE dismiss \/ (\E u \in Tasks : CallStarts(u) \/ CallEnds(u)) \/ Tick \/ UNCHANGED vars
    BY <1>1, <2>4 DEF dismiss, CallStarts, CallEnds, Tick, vars
  <2> QED
    BY <1>1, <2>1, <2>2, <2>3, <2>4 DEF Next
<1>2. IInv /\ [Next]_vars
        => [active => \A t \in Requests : pc[t] = "idle" => pc'[t] = "idle"]_pc
  BY <1>1
<1> QED
  BY <1>2, Invariance, PTL DEF Safety, ArrivalsNeverWaitForFlash

-----------------------------------------------------------------------------
(***************************************************************************)
(* Refinement of FlashSlot                                                 *)
(***************************************************************************)

(* What the background task is doing decides how far the write got.        *)
SameWriter == pc'[Runner] = pc[Runner] /\ thread'[Runner] = thread[Runner]

(* A step that keeps claim, job and write is a stutter of the slot.        *)
LEMMA SlotStutters ==
  ASSUME Claimants' = Claimants, job' = job, Write' = Write
  PROVE  UNCHANGED Slot!vars
BY DEF Slot!vars, Outcome

(* The write changes only with the background task or its thread.          *)
LEMMA SameWriterSameWrite == SameWriter => Write' = Write
BY DEF SameWriter, Write

(* The claimants are one request exactly while the flag is up.             *)
LEMMA OneClaimant ==
  ASSUME ClaimantFindsSlotFree, NEW t \in Requests, role[t] = "flash"
  PROVE  Claimants = {t}
BY DEF ClaimantFindsSlotFree, Claimants

(* An active job is one whose outcome reads "running".                     *)
LEMMA ActiveIsRunning == active <=> Outcome = "running"
BY DEF active, Outcome

(* The service starts as the slot does.                                    *)
LEMMA SlotInit == Init => Slot!Init
<1> SUFFICES ASSUME Init PROVE Slot!Init
  OBVIOUS
<1>1. pc[Runner] = "idle" /\ job = None /\ \A t \in Requests : role[t] = "none"
  BY DEF Init, Tasks
<1> QED
  BY <1>1 DEF Slot!Init, Claimants, Outcome, Write

(* A request's own step leaves the background task's thread alone.         *)
LEMMA RequestStepsKeepWriter ==
  ASSUME TypeOK, NEW t \in Requests, Arrive(t) \/ Resume(t), ~Begin(t)
  PROVE  job' = job /\ Write' = Write
<1>1. SameFlash
  BY RequestStepsKeepFlash
<1>2. Runner \in Tasks /\ t # Runner
  BY ConstantsAssumption DEF Tasks
<1>3. thread'[Runner] = thread[Runner]
  BY <1>2 DEF Arrive, index, refresh, status, flash_page, start_flash, start_flash_busy,
     Resume, RefreshReturned, RefreshFailed, DevicesReturned, VersionReturned, InventoryReturned,
     InventoryFailed, CheckDevicesPassed, CheckUpdatesPassed, FlashRefused, FlashRaised, Returned,
     TypeOK
<1> QED
  BY <1>1, <1>3, SameWriterSameWrite DEF SameFlash, SameWriter

(* Every step of the service is a step of the slot or leaves it alone.     *)
LEMMA SlotStep == IInv /\ [Next]_vars => [Slot!Next]_Slot!vars
<1> SUFFICES ASSUME IInv, [Next]_vars PROVE [Slot!Next]_Slot!vars
  OBVIOUS
<1>inv. TypeOK /\ LockOwner /\ RolesMatch /\ ClaimantFindsSlotFree /\ ActiveHasRunner
  BY DEF IInv
<1>req. Requests \subseteq Tasks /\ Runner \in Tasks /\ Runner \notin Requests
  BY ConstantsAssumption DEF Tasks
<1>1. ASSUME NEW t \in Requests,
             index(t) \/ refresh(t) \/ status(t) \/ flash_page(t) \/ start_flash_busy(t)
      PROVE  UNCHANGED Slot!vars
  <2>1. \E r \in Roles \ {"flash"} : role' = [role EXCEPT ![t] = r]
    BY <1>1 DEF index, refresh, status, flash_page, start_flash_busy, Enumerate, Roles, CachingRoles
  <2>2. role[t] = "none"
    BY <1>1, <1>inv DEF RolesMatch, index, refresh, status, flash_page, start_flash_busy
  <2>3. Claimants' = Claimants
    BY <1>inv, <2>1, <2>2 DEF Claimants, TypeOK
  <2>4. job' = job /\ thread' = thread /\ pc'[Runner] = pc[Runner]
    BY <1>1, <1>inv, <1>req DEF index, refresh, status, flash_page, start_flash_busy, Enumerate,
       Await, flashVars, TypeOK
  <2> QED
    BY <2>3, <2>4, SameWriterSameWrite, SlotStutters DEF SameWriter
<1>2. ASSUME NEW t \in Requests, start_flash(t) PROVE Slot!Claim(t)
  <2>1. Claimants = {}
    BY <1>2, <1>inv DEF start_flash, ClaimantFindsSlotFree, Claimants
  <2>2. Claimants' = {t}
    BY <1>2, <1>inv, <2>1 DEF start_flash, Claimants, TypeOK
  <2>3. job' = job /\ thread' = thread /\ pc'[Runner] = pc[Runner]
    BY <1>2, <1>inv, <1>req DEF start_flash, Await, TypeOK
  <2>4. Write' = Write /\ Outcome' = Outcome
    BY <2>3, SameWriterSameWrite DEF SameWriter, Outcome
  <2>5. Outcome # "running"
    BY <1>2, ActiveIsRunning DEF start_flash
  <2> QED
    BY <2>1, <2>2, <2>4, <2>5 DEF Slot!Claim
<1>3. ASSUME NEW t \in Requests, Resume(t), role[t] # "flash" PROVE UNCHANGED Slot!vars
  <2>1. /\ \/ role' = role
           \/ \E r \in Roles \ {"flash"} : role' = [role EXCEPT ![t] = r]
        /\ job' = job /\ pc'[Runner] = pc[Runner]
    BY <1>3, <1>inv, <1>req DEF Resume, RefreshReturned, RefreshFailed, DevicesReturned,
       VersionReturned, InventoryReturned, InventoryFailed, CheckDevicesPassed, CheckUpdatesPassed,
       FlashRefused, FlashRaised, Returned, RolesMatch, StartCalls, Await, Answer, Forget, requestVars,
       flashVars, Roles, TypeOK
  <2>2. Claimants' = Claimants
    BY <1>3, <1>inv, <2>1 DEF Claimants, TypeOK
  <2>3. thread'[Runner] = thread[Runner]
    BY <1>3, <1>inv, <1>req DEF Resume, RefreshReturned, RefreshFailed, DevicesReturned,
       VersionReturned, InventoryReturned, InventoryFailed, CheckDevicesPassed, CheckUpdatesPassed,
       FlashRefused, FlashRaised, Returned, TypeOK
  <2> QED
    BY <2>1, <2>2, <2>3, SameWriterSameWrite, SlotStutters DEF SameWriter
<1>4. ASSUME NEW t \in Requests, Resume(t), role[t] = "flash", Begin(t) PROVE Slot!Begin
  <2>1. Claimants = {t} /\ ~active
    BY <1>4, <1>inv, OneClaimant DEF ClaimantFindsSlotFree
  <2>2. Claimants' = {}
    BY <1>4, <1>inv, <2>1 DEF Begin, Forget, Claimants, TypeOK
  <2>3. Outcome # "running" /\ Outcome' = "running"
    BY <1>4, <1>inv, <2>1, ActiveIsRunning, BeginMakesActive DEF Outcome, active
  <2>4. Write' = "not_started"
    BY <1>4, <1>inv, BeginMakesActive DEF Write
  <2> QED
    BY <2>1, <2>2, <2>3, <2>4 DEF Slot!Begin
<1>5. ASSUME NEW t \in Requests, role[t] = "flash", FlashRefused(t) \/ FlashRaised(t), ~Begin(t)
      PROVE  Slot!Withdraw
  <2>1. Claimants = {t}
    BY <1>5, <1>inv, OneClaimant
  <2>2. role' = [role EXCEPT ![t] = "none"] \/ role' = [role EXCEPT ![t] = "refused"]
    BY <1>5 DEF FlashRefused, FlashRaised, Refused, Answer, Forget, Enumerate
  <2>3. Claimants' = {}
    BY <1>inv, <2>1, <2>2 DEF Claimants, TypeOK
  <2>4. job' = job /\ Write' = Write
    BY <1>5, <1>inv, RequestStepsKeepWriter DEF Resume
  <2> QED
    BY <2>1, <2>3, <2>4 DEF Slot!Withdraw, Outcome
<1>6. ASSUME NEW t \in Requests, Resume(t), role[t] = "flash", ~Begin(t),
             ~FlashRefused(t), ~FlashRaised(t)
      PROVE  UNCHANGED Slot!vars
  <2>1. role' = role \/ role' = [role EXCEPT ![t] = "flash"]
    BY <1>6, <1>inv DEF Resume, RefreshReturned, RefreshFailed, DevicesReturned, VersionReturned,
       InventoryReturned, InventoryFailed, CheckDevicesPassed, CheckUpdatesPassed, Returned,
       RolesMatch, Enumerate, requestVars
  <2>2. Claimants' = Claimants
    BY <1>6, <1>inv, <2>1 DEF Claimants, TypeOK
  <2> QED
    BY <1>6, <1>inv, <2>2, RequestStepsKeepWriter, SlotStutters
<1>7. CASE dismiss
  <2>1. Claimants' = Claimants /\ Write' = Write
    BY <1>7, SameWriterSameWrite DEF dismiss, Claimants, SameWriter
  <2>2. Outcome \in {"succeeded", "failed"} /\ Outcome' = "none"
    BY <1>7, <1>inv DEF dismiss, Outcome, active, TypeOK, Jobs
  <2> QED
    BY <2>1, <2>2 DEF Slot!Dismiss, Slot!Next
<1>8. CASE RunnerStep
  <2>1. Claimants' = Claimants
    BY <1>8 DEF RunnerStep, RunnerStarts, DownloadReturned, InstallReturned, FlashFailed,
       FlashSucceeded, requestVars, Claimants
  <2>2. active /\ Outcome = "running" /\ job \in Jobs
    <3>1. pc[Runner] # "idle"
      BY <1>8 DEF RunnerStep, RunnerStarts, DownloadReturned, InstallReturned, FlashFailed,
         FlashSucceeded, Returned
    <3> QED
      BY <1>inv, <3>1, ActiveIsRunning DEF ActiveHasRunner, active, TypeOK
  <2>3. CASE RunnerStarts
    <3>1. Write' = "not_started" /\ Write = "not_started" /\ job' = job
      BY <1>inv, <1>req, <2>3 DEF RunnerStarts, Await, Write, TypeOK, flashVars
    <3> QED
      BY <2>1, <3>1, SlotStutters
  <2>4. CASE DownloadReturned
    <3>1. Write' = "not_started" /\ Write = "not_started" /\ job' = job
      BY <1>inv, <1>req, <2>4 DEF DownloadReturned, Returned, Write, TypeOK, flashVars, Results
    <3> QED
      BY <2>1, <3>1, SlotStutters
  <2>5. CASE InstallReturned
    <3>1. Write' = "ended" /\ Write = "ended" /\ job' = job
      BY <1>inv, <1>req, <2>5 DEF InstallReturned, Returned, Write, TypeOK, flashVars, Results
    <3> QED
      BY <2>1, <3>1, SlotStutters
  <2>6. CASE FlashFailed
    <3>1. Write # "in_progress" /\ Write' = "not_started"
      BY <1>inv, <1>req, <2>6 DEF FlashFailed, Returned, Write, TypeOK, Results
    <3>2. Outcome' = "failed"
      <4>1. job' \in Jobs /\ job'.status = "failed"
        BY <2>2, <2>6 DEF FlashFailed, Jobs
      <4> QED
        BY <4>1, ConstantsAssumption DEF Outcome
    <3> QED
      BY <2>1, <2>2, <3>1, <3>2 DEF Slot!Finish, Slot!Next
  <2>7. CASE FlashSucceeded
    <3>1. Write = "ended" /\ Write' = "not_started"
      BY <1>inv, <1>req, <2>7 DEF FlashSucceeded, Returned, Write, TypeOK
    <3>2. Outcome' = "succeeded"
      <4>1. job' \in Jobs /\ job'.status = "succeeded"
        BY <2>7 DEF FlashSucceeded, Jobs
      <4> QED
        BY <4>1, ConstantsAssumption DEF Outcome
    <3> QED
      BY <2>1, <2>2, <3>1, <3>2 DEF Slot!Finish, Slot!Next
  <2> QED
    BY <1>8, <2>3, <2>4, <2>5, <2>6, <2>7 DEF RunnerStep, Slot!Next
<1>9. ASSUME NEW t \in Tasks, CallStarts(t) \/ CallEnds(t) PROVE [Slot!Next]_Slot!vars
  <2>1. Claimants' = Claimants /\ job' = job /\ pc' = pc
    BY <1>9 DEF CallStarts, CallEnds, requestVars, flashVars, Claimants
  <2>2. CASE t # Runner \/ pc[t] # "install"
    <3>1. Write' = Write
      BY <1>9, <1>inv, <1>req, <2>1, <2>2 DEF CallStarts, CallEnds, Write, TypeOK, Results
    <3> QED
      BY <2>1, <3>1, SlotStutters
  <2>3. CASE t = Runner /\ pc[t] = "install" /\ CallStarts(t)
    <3>1. Write = "not_started" /\ Write' = "in_progress"
      BY <1>inv, <1>req, <2>1, <2>3 DEF CallStarts, Write, TypeOK, Results
    <3>2. Outcome = "running" /\ Outcome' = "running"
      BY <1>inv, <2>1, <2>3, ActiveIsRunning DEF ActiveHasRunner, Outcome
    <3> QED
      BY <2>1, <3>1, <3>2 DEF Slot!StartWrite, Slot!Next
  <2>4. CASE t = Runner /\ pc[t] = "install" /\ CallEnds(t)
    <3>1. Write = "in_progress" /\ Write' = "ended"
      BY <1>inv, <1>req, <2>1, <2>4 DEF CallEnds, Write, TypeOK, Results
    <3> QED
      BY <2>1, <3>1 DEF Slot!EndWrite, Slot!Next, Outcome
  <2> QED
    BY <1>9, <2>2, <2>3, <2>4
<1>10. CASE Tick \/ UNCHANGED vars
  BY <1>10, SameWriterSameWrite, SlotStutters DEF Tick, vars, requestVars, flashVars, Claimants,
     SameWriter
<1> QED
  <2>1. ASSUME NEW t \in Requests, Resume(t) PROVE [Slot!Next]_Slot!vars
    <3>1. FlashRefused(t) \/ FlashRaised(t) => job' = job
      BY DEF FlashRefused, Refused, FlashRaised
    <3>2. Begin(t) /\ role[t] = "flash" => job' # job
      BY <1>inv, BeginMakesActive DEF ClaimantFindsSlotFree, active
    <3>3. FlashRefused(t) \/ FlashRaised(t) => role[t] = "flash"
      BY <1>inv DEF FlashRefused, FlashRaised, Returned, RolesMatch, StartCalls
    <3> QED
      BY <2>1, <1>3, <1>4, <1>5, <1>6, <3>1, <3>2, <3>3 DEF Slot!Next
  <2> QED
    BY <1>1, <1>2, <1>7, <1>8, <1>9, <1>10, <2>1 DEF Next, Arrive, Slot!Next

(* The service implements the single slot: whatever the handlers and the   *)
(* background task do, as seen from the slot it is one of its steps.       *)
THEOREM ImplementsSlot == Safety => Slot!Safety
BY SlotInit, SlotStep, Invariance, PTL DEF Safety, Slot!Safety

(* The outcome on show is final: it is dismissed or replaced, not changed. *)
THEOREM FinalResult == Safety => ResultIsFinal
<1>1. ASSUME IInv, [Next]_vars, job # None, ~active
      PROVE  job' = job \/ job' = None \/ job'.status = "running"
  <2>1. ASSUME NEW t \in Requests, Arrive(t) \/ Resume(t)
        PROVE  job' = job \/ job'.status = "running"
    <3>1. CASE Begin(t)
      BY <3>1 DEF Begin
    <3>2. CASE ~Begin(t)
      BY <1>1, <2>1, <3>2, RequestStepsKeepFlash DEF SameFlash, IInv
    <3> QED
      BY <3>1, <3>2
  <2>2. ~RunnerStep
    BY <1>1 DEF IInv, ActiveHasRunner, RunnerStep, RunnerStarts, DownloadReturned, InstallReturned,
       FlashFailed, FlashSucceeded, Returned
  <2>3. CASE dismiss \/ (\E t \in Tasks : CallStarts(t) \/ CallEnds(t)) \/ Tick \/ UNCHANGED vars
    BY <2>3 DEF dismiss, CallStarts, CallEnds, Tick, vars, flashVars
  <2> QED
    BY <1>1, <2>1, <2>2, <2>3 DEF Next
<1>2. IInv /\ [Next]_vars
        => [job # None /\ ~active => job' = None \/ job'.status = "running"]_job
  BY <1>1
<1> QED
  BY <1>2, Invariance, PTL DEF Safety, ResultIsFinal

-----------------------------------------------------------------------------
(***************************************************************************)
(* The age of the cache.  The lock is first come, first served, and the    *)
(* three calls of an inventory are three turns of it; so a request that    *)
(* looked at the clock later is never the first to be done.                *)
(***************************************************************************)

(* Acquiring puts a task behind everybody and changes no other order.      *)
LEMMA AcquiredOrder ==
  ASSUME NEW l \in Locks, Orderly(l), NEW t \in Tasks, ~Waits(l, t),
         NEW u \in Tasks, NEW v \in Tasks, Before(Acquired(l, t), u, v)
  PROVE  u # t /\ (v = t \/ Before(l, u, v))
<1>none. u # None
  BY ConstantsAssumption
<1>1. CASE l.holder = None
  <2>1. Acquired(l, t).queue = << >>
    BY <1>1 DEF Acquired, Locks, Orderly
  <2> QED
    BY <2>1 DEF Before
<1>2. CASE l.holder # None
  <2> DEFINE q == l.queue
             q2 == Append(q, t)
  <2>1. q \in Seq(Tasks)
    BY DEF Locks
  <2>2. /\ Len(q) \in Nat /\ DOMAIN q = 1 .. Len(q)
        /\ DOMAIN q2 = 1 .. (Len(q) + 1)
        /\ \A i \in 1 .. Len(q) : q2[i] = q[i]
        /\ q2[Len(q) + 1] = t
    BY <2>1, AppendProperties, LenProperties
  <2>3. Acquired(l, t).holder = l.holder /\ Acquired(l, t).queue = q2
    BY <1>2 DEF Acquired, Locks
  <2>4. l.holder # t /\ \A i \in 1 .. Len(q) : q[i] # t
    BY <2>2 DEF Waits
  <2> HIDE DEF q, q2
  <2>5. CASE l.holder = u /\ \E j \in DOMAIN q2 : q2[j] = v
    <3>1. PICK j \in 1 .. (Len(q) + 1) : q2[j] = v
      BY <2>2, <2>5
    <3>2. CASE j = Len(q) + 1
      BY <2>2, <2>4, <2>5, <3>1, <3>2
    <3>3. CASE j # Len(q) + 1
      <4>1. j \in DOMAIN q /\ q[j] = v
        BY <2>2, <3>1, <3>3
      <4> QED
        BY <2>4, <2>5, <4>1 DEF Before, q
    <3> QED
      BY <3>2, <3>3
  <2>6. CASE \E i, j \in DOMAIN q2 : i < j /\ q2[i] = u /\ q2[j] = v
    <3>1. PICK i \in 1 .. (Len(q) + 1), j \in 1 .. (Len(q) + 1) : i < j /\ q2[i] = u /\ q2[j] = v
      BY <2>2, <2>6
    <3>2. i \in 1 .. Len(q) /\ q[i] = u /\ u # t
      BY <2>2, <2>4, <3>1
    <3>3. CASE j = Len(q) + 1
      BY <2>2, <3>1, <3>2, <3>3
    <3>4. CASE j # Len(q) + 1
      <4>1. j \in 1 .. Len(q) /\ q[j] = v
        BY <2>2, <3>1, <3>4
      <4> QED
        BY <2>2, <3>1, <3>2, <4>1 DEF Before, q
    <3> QED
      BY <3>3, <3>4
  <2> QED
    BY <2>3, <2>5, <2>6 DEF Before
<1> QED
  BY <1>1, <1>2

(* Releasing takes the first out and changes no order.                     *)
LEMMA ReleasedOrder ==
  ASSUME TypeOK, NEW u \in Tasks, NEW v \in Tasks, Before(Released, u, v)
  PROVE  Before(lock, u, v)
<1>1. CASE lock.queue = << >>
  BY <1>1 DEF Released, Before
<1>2. CASE lock.queue # << >>
  <2> DEFINE q == lock.queue
  <2>1. q \in Seq(Tasks)
    BY DEF Locks, TypeOK
  <2>2. /\ Len(q) \in Nat /\ Len(q) >= 1 /\ DOMAIN q = 1 .. Len(q)
        /\ DOMAIN Tail(q) = 1 .. (Len(q) - 1)
        /\ Head(q) = q[1]
        /\ \A i \in 1 .. (Len(q) - 1) : Tail(q)[i] = q[i + 1]
    BY <1>2, <2>1, HeadTailProperties, LenProperties, EmptySeq
  <2>3. Released.holder = Head(q) /\ Released.queue = Tail(q)
    BY <1>2 DEF Released
  <2> HIDE DEF q
  <2>4. CASE Head(q) = u /\ \E j \in DOMAIN Tail(q) : Tail(q)[j] = v
    <3>1. PICK j \in 1 .. (Len(q) - 1) : Tail(q)[j] = v
      BY <2>2, <2>4
    <3>2. 1 \in DOMAIN q /\ j + 1 \in DOMAIN q /\ 1 < j + 1 /\ q[1] = u /\ q[j + 1] = v
      BY <2>2, <2>4, <3>1
    <3> QED
      BY <3>2 DEF Before, q
  <2>5. CASE \E i, j \in DOMAIN Tail(q) : i < j /\ Tail(q)[i] = u /\ Tail(q)[j] = v
    <3>1. PICK i \in 1 .. (Len(q) - 1), j \in 1 .. (Len(q) - 1) :
            i < j /\ Tail(q)[i] = u /\ Tail(q)[j] = v
      BY <2>2, <2>5
    <3>2. i + 1 \in DOMAIN q /\ j + 1 \in DOMAIN q /\ i + 1 < j + 1 /\ q[i + 1] = u /\ q[j + 1] = v
      BY <2>2, <3>1
    <3> QED
      BY <3>2 DEF Before, q
  <2> QED
    BY <2>3, <2>4, <2>5 DEF Before
<1> QED
  BY <1>1, <1>2

(* What a step of task t does to the line: nobody else changes places, and *)
(* t is behind everybody.                                                  *)
LineKept(t) ==
    \A u, v \in Tasks : u # t /\ v # t /\ Before(lock', u, v) => Before(lock, u, v)

LastInLine(t) == \A u \in Tasks : ~Before(lock', t, u)

(* A task that joins the line is the last in it.                           *)
LEMMA JoinOrder ==
  ASSUME TypeOK, NobodyForgotten, NEW t \in Tasks, pc[t] \notin Calls, NEW call,
         Await(t, call, lock)
  PROVE  LineKept(t) /\ LastInLine(t)
<1>1. Orderly(lock) /\ ~Waits(lock, t) /\ lock \in Locks
  BY LineIsOrderly DEF TypeOK
<1> QED
  BY <1>1, AcquiredOrder DEF Await, LineKept, LastInLine

(* The holder leaves the order of the others as it is,                     *)
LEMMA LeaveOrder ==
  ASSUME TypeOK, NEW t \in Tasks, lock' = Released
  PROVE  LineKept(t)
BY ReleasedOrder DEF LineKept

(* also when it goes to the end of the line for its next call.             *)
LEMMA RejoinOrder ==
  ASSUME TypeOK, NobodyForgotten, NEW t \in Tasks, lock.holder = t, NEW call,
         Await(t, call, Released)
  PROVE  LineKept(t) /\ LastInLine(t)
<1>1. Orderly(Released) /\ ~Waits(Released, t) /\ Released \in Locks
  BY LineIsOrderly, ReleasedLine, ReleasedType
<1>2. \A u, v \in Tasks :
        Before(lock', u, v) => u # t /\ (v = t \/ Before(Released, u, v))
  BY <1>1, AcquiredOrder DEF Await
<1> QED
  BY <1>2, ReleasedOrder DEF LineKept, LastInLine

-----------------------------------------------------------------------------
(***************************************************************************)
(* What a step of one request does to the others                           *)
(***************************************************************************)

(* A request as the invariant sees it stays as it is.                      *)
Stays(u) ==
    /\ pc'[u] = pc[u]
    /\ role'[u] = role[u]
    /\ now'[u] = now[u]
    /\ read'[u] = read[u]
    /\ HasRead(u)' <=> HasRead(u)

OthersStay(t) == \A u \in Requests : u # t => Stays(u)

(* A pair of requests that stay is as much in order as it was.             *)
LEMMA PairStays ==
  ASSUME NobodyOvertakes, NEW u \in Requests, NEW v \in Requests, Stays(u), Stays(v),
         Before(lock', u, v) => Before(lock, u, v),
         (Enumerating(u) /\ Enumerating(v) /\ Ahead(u, v))'
  PROVE  now'[u] <= now'[v] /\ ((HasRead(u) /\ HasRead(v))' => read'[u] <= read'[v])
<1>1. Enumerating(u) /\ Enumerating(v) /\ Ahead(u, v)
  BY DEF Stays, Enumerating, Ahead
<1> QED
  BY <1>1 DEF Stays, NobodyOvertakes

(* It is as far from the cached snapshot as it was.                        *)
LEMMA StaysBehindCache ==
  ASSUME CacheIsBehind, cached' = cached, cached # None, NEW u \in Requests, Stays(u),
         Enumerating(u)'
  PROVE  cached.at <= now'[u] /\ (HasRead(u)' => cached.read <= read'[u])
BY DEF Stays, Enumerating, CacheIsBehind

(* A request that is done with its calls overtakes nobody.                 *)
LEMMA LeaverOvertakesNobody ==
  ASSUME NobodyOvertakes, NEW t \in Requests, OthersStay(t), LineKept(t), ~Enumerating(t)'
  PROVE  NobodyOvertakes'
<1> SUFFICES ASSUME NEW u \in Requests, NEW v \in Requests,
                    (Enumerating(u) /\ Enumerating(v) /\ Ahead(u, v))'
             PROVE  now'[u] <= now'[v] /\ ((HasRead(u) /\ HasRead(v))' => read'[u] <= read'[v])
  BY DEF NobodyOvertakes
<1>1. u # t /\ v # t
  OBVIOUS
<1>2. Before(lock', u, v) => Before(lock, u, v)
  BY <1>1 DEF LineKept, Tasks
<1> QED
  BY <1>1, <1>2, PairStays DEF OthersStay

(* The holder of the lock is ahead of those that have come as far as it.   *)
LEMMA HolderIsAhead ==
  ASSUME NobodyForgotten, NEW t \in Requests, lock.holder = t,
         NEW u \in Requests, u # t, Enumerating(u), pc[u] = pc[t]
  PROVE  Ahead(t, u)
<1>1. InLine(u) /\ lock.holder # u
  BY DEF NobodyForgotten, Enumerating, Calls, RequestCalls, Tasks
<1> QED
  BY <1>1 DEF InLine, Before, Ahead

(* The order is kept when the request that moves lists nothing afterwards. *)
LEMMA EndsInOrder ==
  ASSUME CacheInOrder, NEW t \in Requests, OthersStay(t), LineKept(t), ~Enumerating(t)',
         read'[t] <= clock, clock' = clock, cached' = cached
  PROVE  CacheInOrder'
<1>1. NothingFromTheFuture'
  BY DEF CacheInOrder, NothingFromTheFuture, OthersStay, Stays
<1>2. CacheIsBehind'
  BY StaysBehindCache DEF CacheInOrder, CacheIsBehind, OthersStay
<1> QED
  BY <1>1, <1>2, LeaverOvertakesNobody DEF CacheInOrder

(* It is kept when a request starts to list: it looks at the clock last    *)
(* and stands last.                                                        *)
LEMMA StartsInOrder ==
  ASSUME TypeOK, TimesInOrder, CacheInOrder, NEW t \in Requests, OthersStay(t), LineKept(t),
         LastInLine(t), pc'[t] = "get_devices", ~HasRead(t)', now'[t] = clock,
         read'[t] <= clock, clock' = clock, cached' = cached
  PROVE  CacheInOrder'
<1>1. NothingFromTheFuture'
  BY DEF CacheInOrder, NothingFromTheFuture, OthersStay, Stays
<1>2. CacheIsBehind'
  <2> SUFFICES ASSUME cached # None, NEW u \in Requests, Enumerating(u)'
               PROVE  cached.at <= now'[u] /\ (HasRead(u)' => cached.read <= read'[u])
    BY DEF CacheIsBehind
  <2>1. CASE u = t
    BY <2>1 DEF CacheInOrder, NothingFromTheFuture
  <2>2. CASE u # t
    BY <2>2, StaysBehindCache DEF CacheInOrder, OthersStay
  <2> QED
    BY <2>1, <2>2
<1>3. NobodyOvertakes'
  <2> SUFFICES ASSUME NEW u \in Requests, NEW v \in Requests,
                      (Enumerating(u) /\ Enumerating(v) /\ Ahead(u, v))'
               PROVE  now'[u] <= now'[v] /\ ((HasRead(u) /\ HasRead(v))' => read'[u] <= read'[v])
    BY DEF NobodyOvertakes
  <2>tasks. u \in Tasks /\ v \in Tasks
    BY DEF Tasks
  <2>1. u # t
    BY <2>tasks DEF Ahead, LastInLine
  <2>2. CASE v = t
    BY <2>1, <2>2 DEF OthersStay, Stays, TimesInOrder
  <2>3. CASE v # t
    <3>1. Before(lock', u, v) => Before(lock, u, v)
      BY <2>tasks, <2>1, <2>3 DEF LineKept
    <3> QED
      BY <2>1, <2>3, <3>1, PairStays DEF CacheInOrder, OthersStay
  <2> QED
    BY <2>2, <2>3
<1> QED
  BY <1>1, <1>2, <1>3 DEF CacheInOrder

(* It is kept when the holder of the lock goes on to its next call: it was *)
(* ahead of all that have come as far as the last one, and now is behind   *)
(* all that have come as far as the next.                                  *)
LEMMA AdvancesInOrder ==
  ASSUME TypeOK, NobodyForgotten, CacheInOrder, NEW t \in Requests, lock.holder = t,
         OthersStay(t), LineKept(t), LastInLine(t), HasRead(t), Enumerating(t),
         \/ pc[t] = "get_devices" /\ pc'[t] = "version"
         \/ pc[t] = "version" /\ pc'[t] = "get_updates",
         role'[t] = role[t], now'[t] = now[t], read'[t] = read[t],
         clock' = clock, cached' = cached
  PROVE  CacheInOrder'
<1>req. \A u \in Requests : u \in Tasks
  BY DEF Tasks
<1>1. NothingFromTheFuture'
  BY DEF CacheInOrder, NothingFromTheFuture, OthersStay, Stays
<1>2. CacheIsBehind'
  <2> SUFFICES ASSUME cached # None, NEW u \in Requests, Enumerating(u)'
               PROVE  cached.at <= now'[u] /\ (HasRead(u)' => cached.read <= read'[u])
    BY DEF CacheIsBehind
  <2>1. CASE u = t
    BY <2>1 DEF CacheInOrder, CacheIsBehind
  <2>2. CASE u # t
    BY <2>2, StaysBehindCache DEF CacheInOrder, OthersStay
  <2> QED
    BY <2>1, <2>2
<1>3. NobodyOvertakes'
  <2> SUFFICES ASSUME NEW u \in Requests, NEW v \in Requests,
                      (Enumerating(u) /\ Enumerating(v) /\ Ahead(u, v))'
               PROVE  now'[u] <= now'[v] /\ ((HasRead(u) /\ HasRead(v))' => read'[u] <= read'[v])
    BY DEF NobodyOvertakes
  <2>1. CASE u # t /\ v # t
    <3>1. Before(lock', u, v) => Before(lock, u, v)
      BY <1>req, <2>1 DEF LineKept
    <3> QED
      BY <2>1, <3>1, PairStays DEF CacheInOrder, OthersStay
  <2>2. CASE u = t
    <3>1. v # t
      BY <1>req, <2>2 DEF LastInLine, Ahead
    <3>2. Stays(v) /\ Enumerating(v)
      BY <3>1 DEF OthersStay, Stays, Enumerating
    <3>3. \/ pc[t] = "get_devices" /\ pc[v] = "get_devices"
          \/ pc[t] = "version" /\ pc[v] \in {"get_devices", "version"}
      BY <1>req, <2>2, <3>2 DEF Ahead, LastInLine, Stays, Enumerating, InventoryCalls
    <3>4. Ahead(t, v)
      BY HolderIsAhead, <3>1, <3>2, <3>3 DEF Ahead
    <3> QED
      BY <2>2, <3>2, <3>4 DEF CacheInOrder, NobodyOvertakes, Stays
  <2>3. CASE u # t /\ v = t
    <3>1. Stays(u) /\ Enumerating(u)
      BY <2>3 DEF OthersStay, Stays, Enumerating
    <3>2. Ahead(u, t)
      BY <2>3, <3>1 DEF Ahead, Stays
    <3> QED
      BY <2>3, <3>1, <3>2 DEF CacheInOrder, NobodyOvertakes, Stays
  <2> QED
    BY <2>1, <2>2, <2>3
<1> QED
  BY <1>1, <1>2, <1>3 DEF CacheInOrder

(* It is kept when a request reads the devices: no later than now, and     *)
(* nobody it is ahead of has read them.                                    *)
LEMMA ReadsInOrder ==
  ASSUME TypeOK, LockOwner, CacheInOrder, NEW t \in Requests, lock.holder = t, OthersStay(t),
         role[t] \in CachingRoles, pc[t] = "get_devices", read'[t] = clock,
         UNCHANGED <<lock, pc, role, now, clock, cached>>
  PROVE  CacheInOrder'
<1>req. \A u \in Requests : u \in Tasks
  BY DEF Tasks
<1>1. clock <= clock /\ \A u \in Requests : now[u] <= now[u]
  BY TimesAreIntegers
<1>2. Enumerating(t)
  BY DEF Enumerating, InventoryCalls
<1>3. NothingFromTheFuture'
  BY <1>1 DEF CacheInOrder, NothingFromTheFuture, OthersStay, Stays
<1>4. CacheIsBehind'
  <2> SUFFICES ASSUME cached # None, NEW u \in Requests, Enumerating(u)'
               PROVE  cached.at <= now[u] /\ (HasRead(u)' => cached.read <= read'[u])
    BY DEF CacheIsBehind
  <2>1. CASE u = t
    BY <1>2, <2>1 DEF CacheInOrder, CacheIsBehind, NothingFromTheFuture
  <2>2. CASE u # t
    BY <2>2, StaysBehindCache DEF CacheInOrder, OthersStay
  <2> QED
    BY <2>1, <2>2
<1>5. NobodyOvertakes'
  <2> SUFFICES ASSUME NEW u \in Requests, NEW v \in Requests,
                      (Enumerating(u) /\ Enumerating(v) /\ Ahead(u, v))'
               PROVE  now[u] <= now[v] /\ ((HasRead(u) /\ HasRead(v))' => read'[u] <= read'[v])
    BY DEF NobodyOvertakes
  <2>1. Enumerating(u) /\ Enumerating(v) /\ Ahead(u, v)
    BY DEF Enumerating, Ahead
  <2>2. now[u] <= now[v]
    BY <2>1 DEF CacheInOrder, NobodyOvertakes
  <2>3. CASE v = t
    BY <1>1, <2>2, <2>3 DEF CacheInOrder, NothingFromTheFuture, OthersStay, Stays
  <2>4. CASE u = t /\ v # t
    <3>1. pc[v] = "get_devices"
      BY <2>1, <2>4 DEF Ahead
    <3>2. thread[v] = "off"
      BY <1>req, <2>4 DEF LockOwner
    <3>3. ~HasRead(v)'
      BY <2>4, <3>1, <3>2 DEF OthersStay, Stays, HasRead
    <3> QED
      BY <2>2, <3>3
  <2>5. CASE u # t /\ v # t
    BY <2>1, <2>5 DEF OthersStay, Stays, CacheInOrder, NobodyOvertakes
  <2> QED
    BY <2>3, <2>4, <2>5
<1> QED
  BY <1>3, <1>4, <1>5 DEF CacheInOrder

(* It is kept when a request stores its inventory: it is ahead of all that *)
(* are still at it.                                                        *)
LEMMA StoresInOrder ==
  ASSUME TypeOK, TimesInOrder, NobodyForgotten, CacheInOrder, NEW t \in Requests, lock.holder = t,
         OthersStay(t), LineKept(t), ~Enumerating(t)', role[t] \in CachingRoles,
         pc[t] = "get_updates", cached' = [at |-> now[t], read |-> read[t]],
         read'[t] <= clock, clock' = clock
  PROVE  CacheInOrder'
<1>1. Enumerating(t) /\ HasRead(t)
  BY DEF Enumerating, HasRead, InventoryCalls
<1>2. NothingFromTheFuture'
  BY DEF CacheInOrder, NothingFromTheFuture, TimesInOrder, OthersStay, Stays
<1>3. CacheIsBehind'
  <2> SUFFICES ASSUME NEW u \in Requests, Enumerating(u)'
               PROVE  now[t] <= now'[u] /\ (HasRead(u)' => read[t] <= read'[u])
    BY DEF CacheIsBehind
  <2>1. u # t /\ Stays(u) /\ Enumerating(u)
    BY DEF OthersStay, Stays, Enumerating
  <2>2. Ahead(t, u)
    BY <2>1, HolderIsAhead DEF Ahead
  <2> QED
    BY <1>1, <2>1, <2>2 DEF CacheInOrder, NobodyOvertakes, Stays
<1> QED
  BY <1>2, <1>3, LeaverOvertakesNobody DEF CacheInOrder

(* It is kept when no request moves, whatever else happens.                *)
LEMMA StaysInOrder ==
  ASSUME TypeOK, CacheInOrder, \A u \in Requests : Stays(u),
         \A u, v \in Requests : Before(lock', u, v) => Before(lock, u, v),
         clock' \in {clock, clock + 1}, cached' = cached
  PROVE  CacheInOrder'
<1>1. NothingFromTheFuture'
  <2>1. cached # None => cached.at \in Int /\ cached.read \in Int
    BY ConstantsAssumption DEF TypeOK, Snapshots, Time
  <2> QED
    BY <2>1, TimesAreIntegers DEF CacheInOrder, NothingFromTheFuture, Stays
<1>2. CacheIsBehind'
  BY StaysBehindCache DEF CacheInOrder, CacheIsBehind
<1>3. NobodyOvertakes'
  BY PairStays DEF CacheInOrder, NobodyOvertakes
<1> QED
  BY <1>1, <1>2, <1>3 DEF CacheInOrder

-----------------------------------------------------------------------------
(***************************************************************************)
(* Every step keeps the order                                              *)
(***************************************************************************)

(* A request arrives: it starts to list, or does something else first.     *)
LEMMA ArriveInOrder ==
  ASSUME IInv, NobodyForgotten, CacheInOrder, NEW t \in Requests, Arrive(t)
  PROVE  CacheInOrder'
<1>req. t \in Tasks /\ \A u \in Requests : u \in Tasks
  BY DEF Tasks
<1>inv. TypeOK /\ LockOwner /\ TimesInOrder
  BY DEF IInv
<1>1. /\ pc[t] = "idle" /\ pc[t] \notin Calls /\ UNCHANGED <<thread, clock, cached>>
      /\ \E call : Await(t, call, lock)
  BY DEF Arrive, index, refresh, status, flash_page, start_flash, start_flash_busy, Enumerate,
     storeVars, Calls, RequestCalls, InventoryCalls, StartCalls, FlashCalls
<1>2. thread[t] = "off"
  BY <1>req, <1>inv, <1>1 DEF LockOwner
<1>3. LineKept(t) /\ LastInLine(t)
  BY <1>req, <1>inv, <1>1, JoinOrder
<1>4. OthersStay(t)
  BY <1>req, <1>inv DEF Arrive, index, refresh, status, flash_page, start_flash, start_flash_busy,
     Enumerate, Await, OthersStay, Stays, HasRead, TypeOK
<1>5. CASE index(t) \/ refresh(t) \/ start_flash(t)
  <2>1. ~Enumerating(t)'
    BY <1>req, <1>inv, <1>5 DEF index, refresh, start_flash, Await, Enumerating, CachingRoles,
       InventoryCalls, TypeOK
  <2>2. read' = read
    BY <1>5 DEF index, refresh, start_flash
  <2>3. read'[t] <= clock
    BY <2>2 DEF CacheInOrder, NothingFromTheFuture
  <2> QED
    BY <1>1, <1>3, <1>4, <2>1, <2>3, EndsInOrder
<1>6. CASE status(t) \/ flash_page(t) \/ start_flash_busy(t)
  <2>1. \E r : Enumerate(t, r, lock)
    BY <1>6 DEF status, flash_page, start_flash_busy
  <2>2. pc'[t] = "get_devices" /\ now'[t] = clock /\ read'[t] = 0
    BY <1>req, <1>inv, <2>1 DEF Enumerate, Await, TypeOK
  <2>3. ~HasRead(t)' /\ read'[t] <= clock
    BY <1>inv, <1>1, <1>2, <2>2, TimesAreIntegers DEF HasRead
  <2> QED
    BY <1>inv, <1>1, <1>3, <1>4, <2>2, <2>3, StartsInOrder
<1> QED
  BY <1>5, <1>6 DEF Arrive

(* A request goes on: with its next call, with its answer, or a flash.     *)
LEMMA ResumeInOrder ==
  ASSUME IInv, NobodyForgotten, CacheInOrder, NEW t \in Requests, Resume(t)
  PROVE  CacheInOrder'
<1>req. t \in Tasks /\ Runner \in Tasks /\ Runner \notin Requests /\ \A u \in Requests : u \in Tasks
  BY ConstantsAssumption DEF Tasks
<1>inv. TypeOK /\ LockOwner /\ RolesMatch /\ TimesInOrder
  BY DEF IInv
<1>1. lock.holder = t /\ clock' = clock
  BY <1>req, <1>inv DEF Resume, RefreshReturned, RefreshFailed, DevicesReturned, VersionReturned,
     InventoryReturned, InventoryFailed, CheckDevicesPassed, CheckUpdatesPassed, FlashRefused,
     FlashRaised, Refused, Returned, LockOwner
<1>2. thread'[t] = "off" /\ \A u \in Requests : u # t => thread'[u] = thread[u]
  BY <1>req, <1>inv DEF Resume, RefreshReturned, RefreshFailed, DevicesReturned, VersionReturned,
     InventoryReturned, InventoryFailed, CheckDevicesPassed, CheckUpdatesPassed, FlashRefused,
     FlashRaised, Returned, TypeOK
<1>3. \A u \in Requests : u # t => pc'[u] = pc[u]
  BY <1>req, <1>inv DEF Resume, RefreshReturned, RefreshFailed, DevicesReturned, VersionReturned,
     InventoryReturned, InventoryFailed, CheckDevicesPassed, CheckUpdatesPassed, FlashRefused,
     FlashRaised, Refused, Await, Answer, Begin, Enumerate, TypeOK
<1>4. \A u \in Requests : u # t => role'[u] = role[u] /\ now'[u] = now[u] /\ read'[u] = read[u]
  BY <1>inv DEF Resume, RefreshReturned, RefreshFailed, DevicesReturned, VersionReturned,
     InventoryReturned, InventoryFailed, CheckDevicesPassed, CheckUpdatesPassed, FlashRefused,
     FlashRaised, Refused, Answer, Begin, Forget, Enumerate, requestVars, TypeOK
<1>5. OthersStay(t)
  BY <1>2, <1>3, <1>4 DEF OthersStay, Stays, HasRead
<1>6. 0 <= clock
  BY <1>inv, TimesAreIntegers
<1>7. ASSUME lock' = Released, Forget(t), cached' = cached PROVE CacheInOrder'
  <2>1. ~Enumerating(t)' /\ read'[t] = 0
    BY <1>inv, <1>7 DEF Forget, Enumerating, CachingRoles, TypeOK
  <2> QED
    BY <1>req, <1>inv, <1>1, <1>5, <1>6, <1>7, <2>1, LeaveOrder, EndsInOrder
<1>8. ASSUME NEW r, Enumerate(t, r, Released), cached' = cached PROVE CacheInOrder'
  <2>1. pc'[t] = "get_devices" /\ now'[t] = clock /\ read'[t] = 0
    BY <1>req, <1>inv, <1>8 DEF Enumerate, Await, TypeOK
  <2>2. ~HasRead(t)'
    BY <1>2, <2>1 DEF HasRead
  <2>3. LineKept(t) /\ LastInLine(t)
    BY <1>req, <1>inv, <1>1, <1>8, RejoinOrder DEF Enumerate
  <2> QED
    BY <1>inv, <1>1, <1>5, <1>6, <1>8, <2>1, <2>2, <2>3, StartsInOrder
<1>9. CASE InventoryReturned(t)
  <2>1. lock' = Released /\ Forget(t) /\ pc[t] = "get_updates"
    BY <1>9 DEF InventoryReturned, Returned, Answer, Begin
  <2>2. CASE role[t] \in CachingRoles
    <3>1. ~Enumerating(t)' /\ read'[t] = 0
      BY <1>inv, <2>1 DEF Forget, Enumerating, CachingRoles, TypeOK
    <3>2. cached' = [at |-> now[t], read |-> read[t]]
      BY <1>9, <2>2 DEF InventoryReturned
    <3> QED
      BY <1>req, <1>inv, <1>1, <1>5, <1>6, <2>1, <2>2, <3>1, <3>2, LeaveOrder, StoresInOrder
  <2>3. CASE role[t] \notin CachingRoles
    BY <1>7, <1>9, <2>1, <2>3 DEF InventoryReturned
  <2> QED
    BY <2>2, <2>3
<1>10. CASE RefreshReturned(t) \/ CheckDevicesPassed(t)
  <2>1. ~Enumerating(t)'
    BY <1>req, <1>inv, <1>10 DEF RefreshReturned, CheckDevicesPassed, Returned, Await, requestVars,
       RolesMatch, Enumerating, CachingRoles, InventoryCalls, TypeOK
  <2>2. LineKept(t) /\ read' = read /\ cached' = cached
    BY <1>req, <1>inv, <1>1, <1>10, RejoinOrder DEF RefreshReturned, CheckDevicesPassed,
       requestVars, storeVars
  <2>3. read'[t] <= clock
    BY <2>2 DEF CacheInOrder, NothingFromTheFuture
  <2> QED
    BY <1>1, <1>5, <2>1, <2>2, <2>3, EndsInOrder
<1>11. CASE DevicesReturned(t) \/ VersionReturned(t)
  <2>1. LineKept(t) /\ LastInLine(t) /\ UNCHANGED requestVars /\ cached' = cached
    BY <1>req, <1>inv, <1>1, <1>11, RejoinOrder DEF DevicesReturned, VersionReturned, storeVars
  <2>2. \/ pc[t] = "get_devices" /\ pc'[t] = "version" /\ thread[t] = "ok"
        \/ pc[t] = "version" /\ pc'[t] = "get_updates"
    BY <1>req, <1>inv, <1>11 DEF DevicesReturned, VersionReturned, Returned, Await, TypeOK
  <2>3. CASE role[t] \in CachingRoles
    <3>1. HasRead(t) /\ Enumerating(t)
      BY <2>2, <2>3 DEF HasRead, Enumerating, InventoryCalls
    <3> QED
      BY <1>inv, <1>1, <1>5, <2>1, <2>2, <3>1, AdvancesInOrder DEF requestVars
  <2>4. CASE role[t] \notin CachingRoles
    <3>1. ~Enumerating(t)' /\ read'[t] <= clock
      BY <2>1, <2>4 DEF requestVars, Enumerating, CacheInOrder, NothingFromTheFuture
    <3> QED
      BY <1>1, <1>5, <2>1, <3>1, EndsInOrder
  <2> QED
    BY <2>3, <2>4
<1>12. CASE RefreshFailed(t) \/ InventoryFailed(t) \/ FlashRaised(t)
  BY <1>7, <1>12 DEF RefreshFailed, InventoryFailed, FlashRaised, Answer, storeVars
<1>13. CASE CheckUpdatesPassed(t)
  BY <1>7, <1>8, <1>13 DEF CheckUpdatesPassed, Begin, storeVars
<1>14. CASE FlashRefused(t)
  BY <1>7, <1>8, <1>14 DEF FlashRefused, Refused, Answer, storeVars
<1> QED
  BY <1>9, <1>10, <1>11, <1>12, <1>13, <1>14 DEF Resume

(* A call starts: the devices are read, or nothing is that matters here.   *)
LEMMA CallStartsInOrder ==
  ASSUME IInv, CacheInOrder, NEW t \in Tasks, CallStarts(t)
  PROVE  CacheInOrder'
<1>inv. TypeOK /\ LockOwner
  BY DEF IInv
<1>req. \A u \in Requests : u \in Tasks
  BY DEF Tasks
<1>1. /\ UNCHANGED <<lock, pc, role, now, clock, cached>>
      /\ thread' = [thread EXCEPT ![t] = "running"]
      /\ lock.holder = t
  BY DEF CallStarts, storeVars
<1>2. CASE pc[t] = "get_devices" /\ t \in Requests /\ role[t] \in CachingRoles
  <2>1. read' = [read EXCEPT ![t] = clock]
    BY <1>2 DEF CallStarts
  <2>2. OthersStay(t) /\ read'[t] = clock
    BY <1>req, <1>inv, <1>1, <1>2, <2>1 DEF OthersStay, Stays, HasRead, TypeOK
  <2> QED
    BY <1>inv, <1>1, <1>2, <2>2, ReadsInOrder
<1>3. CASE ~(pc[t] = "get_devices" /\ t \in Requests /\ role[t] \in CachingRoles)
  <2>1. pc[t] = "get_devices" => t \in Requests
    BY <1>inv DEF TypeOK, Tasks, FlashCalls
  <2>2. read' = read
    BY <1>3, <2>1 DEF CallStarts
  <2>3. \A u \in Requests : Stays(u)
    BY <1>req, <1>inv, <1>1, <1>3, <2>2 DEF Stays, HasRead, TypeOK
  <2> QED
    BY <1>inv, <1>1, <2>3, StaysInOrder
<1> QED
  BY <1>2, <1>3

(* CacheInOrder is preserved: the requests overtake nobody, and the rest   *)
(* is no business of theirs.                                               *)
LEMMA CacheInOrderStep ==
  IInv /\ NobodyForgotten /\ CacheInOrder /\ [Next]_vars => CacheInOrder'
<1> SUFFICES ASSUME IInv, NobodyForgotten, CacheInOrder, [Next]_vars PROVE CacheInOrder'
  OBVIOUS
<1>inv. TypeOK /\ LockOwner /\ ActiveHasRunner
  BY DEF IInv
<1>req. Runner \in Tasks /\ Runner \notin Requests /\ \A u \in Requests : u \in Tasks
  BY ConstantsAssumption DEF Tasks
<1>1. ASSUME NEW t \in Requests, Arrive(t) PROVE CacheInOrder'
  BY <1>1, ArriveInOrder
<1>2. ASSUME NEW t \in Requests, Resume(t) PROVE CacheInOrder'
  BY <1>2, ResumeInOrder
<1>3. CASE RunnerStep
  <2>1. /\ clock' = clock /\ cached' = cached /\ UNCHANGED requestVars
        /\ \A u \in Requests : pc'[u] = pc[u] /\ thread'[u] = thread[u]
    BY <1>3, <1>req, <1>inv DEF RunnerStep, RunnerStarts, DownloadReturned, InstallReturned,
       FlashFailed, FlashSucceeded, Returned, Await, storeVars, TypeOK
  <2>2. \A u \in Requests : Stays(u)
    BY <2>1 DEF Stays, HasRead, requestVars
  <2>3. \/ \E call : pc[Runner] = "created" /\ Await(Runner, call, lock)
        \/ lock' = lock
        \/ lock' = Released
    BY <1>3 DEF RunnerStep, RunnerStarts, DownloadReturned, InstallReturned, FlashFailed,
       FlashSucceeded
  <2>4. "created" \notin Calls
    BY DEF Calls, RequestCalls, InventoryCalls, StartCalls, FlashCalls
  <2>5. lock' = lock \/ LineKept(Runner)
    BY <1>req, <1>inv, <2>3, <2>4, JoinOrder, LeaveOrder
  <2>6. \A u, v \in Requests : Before(lock', u, v) => Before(lock, u, v)
    BY <1>req, <2>5 DEF LineKept
  <2> QED
    BY <1>inv, <2>1, <2>2, <2>6, StaysInOrder
<1>4. ASSUME NEW t \in Tasks, CallStarts(t) PROVE CacheInOrder'
  BY <1>4, CallStartsInOrder
<1>5. ASSUME NEW t \in Tasks, CallEnds(t) PROVE CacheInOrder'
  <2>1. UNCHANGED <<lock, pc, clock, cached>> /\ UNCHANGED requestVars
    BY <1>5 DEF CallEnds, storeVars
  <2>2. \A u \in Requests : thread'[u] = "off" <=> thread[u] = "off"
    BY <1>5, <1>req, <1>inv DEF CallEnds, Results, TypeOK
  <2>3. \A u \in Requests : Stays(u)
    BY <2>1, <2>2 DEF Stays, HasRead, requestVars
  <2> QED
    BY <1>inv, <2>1, <2>3, StaysInOrder
<1>6. CASE dismiss \/ Tick \/ UNCHANGED vars
  <2>1. /\ lock' = lock /\ cached' = cached /\ clock' \in {clock, clock + 1}
        /\ \A u \in Requests : Stays(u)
    BY <1>6 DEF dismiss, Tick, vars, requestVars, storeVars, Stays, HasRead
  <2> QED
    BY <1>inv, <2>1, StaysInOrder
<1> QED
  BY <1>1, <1>2, <1>3, <1>4, <1>5, <1>6 DEF Next

(* Nobody enumerates at first, and nothing is cached.                      *)
LEMMA CacheInOrderInit == Init => CacheInOrder
BY ConstantsAssumption DEF Init, CacheInOrder, NothingFromTheFuture, CacheIsBehind,
   NobodyOvertakes, Enumerating, CachingRoles

(* Handlers that fill the cache at the same time, however many, never      *)
(* replace a snapshot by one that was asked for or read earlier: the last  *)
(* to finish was the last to look.                                         *)
THEOREM CacheMonotone == Safety => CacheMovesForward
<1>1. ASSUME IInv, CacheInOrder, [Next]_vars, cached # None
      PROVE  cached' = cached \/ (cached'.at >= cached.at /\ cached'.read >= cached.read)
  <2>1. ASSUME NEW t \in Requests, InventoryReturned(t), role[t] \in CachingRoles
        PROVE  cached'.at >= cached.at /\ cached'.read >= cached.read
    <3>1. Enumerating(t) /\ HasRead(t)
      BY <2>1 DEF InventoryReturned, Returned, Enumerating, HasRead, InventoryCalls
    <3>2. cached' = [at |-> now[t], read |-> read[t]]
      BY <2>1 DEF InventoryReturned
    <3>3. cached.at <= now[t] /\ cached.read <= read[t]
      BY <1>1, <3>1 DEF CacheInOrder, CacheIsBehind
    <3> QED
      BY <3>2, <3>3
  <2>2. ASSUME ~\E t \in Requests : InventoryReturned(t) /\ role[t] \in CachingRoles
        PROVE  cached' = cached
    BY <1>1, <2>2 DEF Next, Arrive, index, refresh, status, flash_page, start_flash,
       start_flash_busy, Resume, RefreshReturned, RefreshFailed, DevicesReturned, VersionReturned,
       InventoryReturned, InventoryFailed, CheckDevicesPassed, CheckUpdatesPassed, FlashRefused,
       Refused, FlashRaised, dismiss, RunnerStep, RunnerStarts, DownloadReturned, InstallReturned,
       FlashFailed, FlashSucceeded, CallStarts, CallEnds, Tick, vars, storeVars
  <2> QED
    BY <2>1, <2>2
<1>2. IInv /\ CacheInOrder /\ [Next]_vars
        => [cached # None => cached'.at >= cached.at /\ cached'.read >= cached.read]_cached
  BY <1>1
<1> QED
  BY <1>2, CacheInOrderInit, CacheInOrderStep, NoLostWakeup, Invariance, PTL
  DEF Safety, CacheMovesForward
=============================================================================
