--------------------------- MODULE MetadataProofs ---------------------------
(***************************************************************************)
(* Old metadata is not called ok, whatever the interval and the lifetime   *)
(* of the cache, wherever crashes and full disks strike, and however long  *)
(* a flash takes.                                                          *)
(***************************************************************************)
EXTENDS Metadata, TLAPS

(* The arithmetic below is about integers.                                 *)
LEMMA TimesAreIntegers == Time \subseteq Nat /\ RefreshInterval \in Nat /\ CacheSeconds \in Nat
BY MetadataAssumption DEF Time

(* What the times are, in every well-typed state.                          *)
LEMMA Times ==
    ASSUME TypeOK
    PROVE  /\ clock \in Nat /\ back \in Nat /\ Elapsed \in Nat /\ clock <= Elapsed
           /\ Elapsed = clock + back
           /\ fetched # None => fetched \in Nat
           /\ stamp # None => stamp \in Nat
           /\ begun # None => begun \in Nat
           /\ cached # None => cached.at \in Nat /\ cached.stale \in BOOLEAN
           /\ \A k \in Callers : pending[k] # None =>
                pending[k].now \in Time /\ pending[k].now \in Nat /\ pending[k].failed \in BOOLEAN
<1>1. clock \in Nat /\ back \in Nat
  BY TimesAreIntegers, MetadataAssumption DEF TypeOK
<1>2. stamp # None => stamp \in Nat
  BY TimesAreIntegers DEF TypeOK
<1>3. cached # None => cached.at \in Nat /\ cached.stale \in BOOLEAN
  BY TimesAreIntegers DEF TypeOK, Snapshots
<1>4. ASSUME NEW k \in Callers, pending[k] # None
      PROVE  pending[k].now \in Time /\ pending[k].failed \in BOOLEAN
  BY <1>4 DEF TypeOK, Held
<1>5. (fetched # None => fetched \in Nat) /\ (begun # None => begun \in Nat)
  BY DEF TypeOK
<1>6. ASSUME NEW k \in Callers, pending[k] # None PROVE pending[k].now \in Nat
  BY <1>4, <1>6, TimesAreIntegers
<1>7. Elapsed \in Nat /\ clock <= Elapsed /\ Elapsed = clock + back
  BY <1>1 DEF Elapsed
<1> QED
  BY <1>1, <1>2, <1>3, <1>4, <1>5, <1>6, <1>7

(* The inductive invariant holds at first: nothing happened yet.           *)
LEMMA IInvInit == Init => IInv
<1> SUFFICES ASSUME Init PROVE IInv
  OBVIOUS
<1>1. 0 \in Time /\ 0 \in 0 .. MaxBack
  BY MetadataAssumption DEF Time
<1>2. pending \in [Callers -> Held \cup {None}] /\ \A k \in Callers : pending[k] = None
  BY DEF Init, NobodyAsks
<1>3. TypeOK
  BY <1>1, <1>2 DEF Init, TypeOK
<1>4. RequestsAreOld
  BY <1>2 DEF RequestsAreOld
<1> QED
  BY <1>3, <1>4 DEF Init, IInv, Earned, Past, SnapshotIsTrue, FlashHasSnapshot, Active,
     StatusOkMeansFresh

(* The clock is not set before its beginning, nor back too far.            *)
LEMMA SetBackTimes ==
    ASSUME clock \in Time, back \in 0 .. MaxBack, SetBack
    PROVE  clock' \in Time /\ back' \in 0 .. MaxBack
<1>1. PICK step \in 1 .. clock :
        back + step <= MaxBack /\ clock' = clock - step /\ back' = back + step
  BY DEF SetBack
<1>2. clock \in 0 .. MaxClock
  BY DEF Time
<1> QED
  BY <1>1, <1>2, MetadataAssumption DEF Time

(* An answer is well-typed, and so is the flash that begins instead.       *)
LEMMA AnswerTypes ==
    ASSUME TypeOK, Active => begun # None, NEW k \in Callers, NEW i \in Snapshots,
           NEW failed \in BOOLEAN, Answer(k, i, failed)
    PROVE  /\ job' \in {"none", "waiting", "writing", "failed"}
           /\ begun' \in Nat \cup {None}
           /\ reported' \in Reports \cup {None}
<1>0. back \in Nat /\ Elapsed \in Nat
  BY Times
<1>1. CASE Report(i, failed) /\ UNCHANGED flashVars
  <2>1. (IF fetched = None THEN None ELSE Elapsed - fetched) \in Int \cup {None}
    BY <1>0, Times
  <2>2. (IF Active THEN Elapsed - begun ELSE 0) \in Int
    BY <1>0, Times
  <2>3. (CASE failed -> "error"
           [] ~failed /\ (i.stale \/ i.error) -> "degraded"
           [] OTHER -> "ok") \in {"ok", "degraded", "error"}
    OBVIOUS
  <2>4. reported' \in Reports
    BY <1>0, <1>1, <2>1, <2>2, <2>3 DEF Report, Reports, TypeOK
  <2> QED
    BY <1>1, <2>4 DEF flashVars, TypeOK
<1>2. CASE begin
  BY <1>0, <1>2 DEF begin, NoAnswer
<1> QED
  BY <1>1, <1>2 DEF Answer

(* Every step keeps the variables well-typed.                              *)
LEMMA TypeStep == IInv /\ [Next]_vars => TypeOK'
<1> SUFFICES ASSUME IInv, [Next]_vars PROVE TypeOK'
  OBVIOUS
<1>t. TypeOK /\ (Active => begun # None)
  BY DEF IInv, FlashHasSnapshot
<1>0. Elapsed \in Nat
  BY <1>t, Times
<1> USE DEF timeVars, storeVars, flashVars, cacheVars, factVars
<1>1. CASE Start
  BY <1>t, <1>1 DEF TypeOK, Start, NoAnswer
<1>2. CASE Crash
  <2>1. pending' \in [Callers -> Held \cup {None}]
    BY <1>2 DEF Crash, NobodyAsks
  <2> QED
    BY <1>t, <1>2, <2>1 DEF TypeOK, Crash, NoAnswer
<1>3. CASE Tick
  BY <1>t, <1>3, MetadataAssumption DEF TypeOK, Tick, Time, NoAnswer
<1>4. CASE SetBack
  <2>1. clock' \in Time /\ back' \in 0 .. MaxBack
    BY <1>t, <1>4, SetBackTimes DEF TypeOK
  <2> QED
    BY <1>t, <1>4, <2>1 DEF TypeOK, SetBack, NoAnswer
<1>5. CASE refresh
  BY <1>t, <1>5 DEF TypeOK, refresh, NoAnswer
<1>6. CASE Refreshed
  BY <1>t, <1>0, <1>6 DEF TypeOK, Refreshed, NoAnswer
<1>7. CASE RefreshFails
  BY <1>t, <1>7 DEF TypeOK, RefreshFails, NoAnswer
<1>8. CASE StampWritten
  BY <1>t, <1>8 DEF TypeOK, StampWritten, NoAnswer
<1>9. ASSUME NEW k \in Callers, ServedFromCache(k) PROVE TypeOK'
  <2>1. cached \in Snapshots /\ (job = "failed") \in BOOLEAN /\ Answer(k, cached, job = "failed")
    BY <1>t, <1>9 DEF TypeOK, ServedFromCache, CacheIsServed
  <2>2. /\ job' \in {"none", "waiting", "writing", "failed"}
        /\ begun' \in Nat \cup {None}
        /\ reported' \in Reports \cup {None}
    BY <1>t, <2>1, AnswerTypes
  <2> QED
    BY <1>t, <1>9, <2>2 DEF TypeOK, ServedFromCache
<1>10. ASSUME NEW k \in Callers, InventoryAsked(k) PROVE TypeOK'
  <2>1. [now |-> clock, failed |-> job = "failed"] \in Held
    BY <1>t DEF TypeOK, Held
  <2>2. pending' \in [Callers -> Held \cup {None}]
    BY <1>t, <1>10, <2>1 DEF TypeOK, InventoryAsked
  <2> QED
    BY <1>t, <1>10, <2>2 DEF TypeOK, InventoryAsked, NoAnswer
<1>11. ASSUME NEW k \in Callers, InventoryListed(k) PROVE TypeOK'
  <2>1. pending[k].now \in Time /\ pending[k].failed \in BOOLEAN /\ Stale \in BOOLEAN
    BY <1>t, <1>11, Times DEF InventoryListed, Stale
  <2>2. cached' \in Snapshots
    BY <1>11, <2>1 DEF InventoryListed, Snapshots
  <2>3. /\ job' \in {"none", "waiting", "writing", "failed"}
        /\ begun' \in Nat \cup {None}
        /\ reported' \in Reports \cup {None}
    BY <1>t, <1>11, <2>1, <2>2, AnswerTypes DEF InventoryListed
  <2>4. pending' \in [Callers -> Held \cup {None}]
    BY <1>t, <1>11 DEF TypeOK, InventoryListed
  <2> QED
    BY <1>t, <1>11, <2>2, <2>3, <2>4 DEF TypeOK, InventoryListed
<1>12. ASSUME NEW k \in Callers, InventoryFails(k) PROVE TypeOK'
  <2>1. pending' \in [Callers -> Held \cup {None}]
    BY <1>t, <1>12 DEF TypeOK, InventoryFails
  <2> QED
    BY <1>t, <1>12, <2>1 DEF TypeOK, InventoryFails, NoAnswer
<1>13. CASE FlashStarts
  BY <1>t, <1>13 DEF TypeOK, FlashStarts, NoAnswer
<1>14. CASE FlashEnds
  BY <1>t, <1>14 DEF TypeOK, FlashEnds, NoAnswer
<1>15. CASE dismiss
  BY <1>t, <1>15 DEF TypeOK, dismiss, NoAnswer
<1>16. CASE UNCHANGED vars
  BY <1>t, <1>16 DEF TypeOK, vars
<1> QED
  BY <1>1, <1>2, <1>3, <1>4, <1>5, <1>6, <1>7, <1>8, <1>9, <1>10, <1>11, <1>12, <1>13, <1>14,
     <1>15, <1>16 DEF Next

-----------------------------------------------------------------------------

(* Time passes, and setting the clock back is not undone.                  *)
LEMMA TimePasses ==
    ASSUME TypeOK, [Next]_vars
    PROVE  back' \in Nat /\ back' >= back /\ Elapsed' \in Nat /\ Elapsed' >= Elapsed
<1>0. clock \in Nat /\ back \in Nat
  BY Times
<1>1. CASE Tick
  BY <1>0, <1>1 DEF Tick, Elapsed
<1>2. CASE SetBack
  BY <1>0, <1>2 DEF SetBack, Elapsed
<1>3. ASSUME ~Tick, ~SetBack PROVE UNCHANGED timeVars
  BY <1>3 DEF Next, Start, Crash, refresh, Refreshed, RefreshFails, StampWritten, ServedFromCache,
     InventoryAsked, InventoryListed, InventoryFails, FlashStarts, FlashEnds, dismiss, vars
<1> QED
  BY <1>0, <1>1, <1>2, <1>3 DEF timeVars, Elapsed

(* Metadata only gets newer.                                               *)
LEMMA FetchedGrows ==
    ASSUME IInv, [Next]_vars
    PROVE  fetched' = fetched \/ (Refreshed /\ fetched' = Elapsed)
BY DEF Next, Start, Crash, Tick, SetBack, refresh, Refreshed, RefreshFails, StampWritten,
   ServedFromCache, InventoryAsked, InventoryListed, InventoryFails, FlashStarts, FlashEnds, dismiss,
   factVars, vars

(* A later time, and more that is allowed.                                 *)
LEMMA Margin ==
    \A t, old, new, bound, more \in Nat :
        old <= new /\ bound <= more /\ t - old <= bound => t - new <= more
OBVIOUS

(* Metadata that is new enough stays so: it only gets newer, and what is   *)
(* allowed for a clock that is set back only grows.                        *)
LEMMA StaysNewEnough ==
    ASSUME IInv, [Next]_vars, fetched # None, NEW t \in Nat, NEW bound \in Nat,
           NEW more \in Nat, bound <= more, t - fetched <= bound
    PROVE  fetched' # None /\ t - fetched' <= more
<1>1. Elapsed \in Nat /\ fetched \in Nat /\ fetched <= Elapsed
  BY Times DEF IInv, Past
<1>2. fetched' \in Nat /\ fetched' >= fetched
  BY <1>1, FetchedGrows
<1>3. t - fetched' <= more
  BY <1>1, <1>2, Margin
<1> QED
  BY <1>2, <1>3, MetadataAssumption

(* A listing that does not call the metadata stale found a stamp of a      *)
(* refresh that worked.                                                    *)
LEMMA ListedIsTrue ==
    ASSUME IInv, ~Stale
    PROVE  fetched # None /\ Elapsed - fetched <= RefreshInterval + back
<1>1. stamp \in Nat /\ clock - stamp <= RefreshInterval
  BY Times, TimesAreIntegers DEF IInv, Stale
<1>2. fetched \in Nat /\ fetched # None /\ stamp <= fetched
  BY Times DEF IInv, Stale, Earned
<1> QED
  BY <1>1, <1>2, Times, TimesAreIntegers DEF IInv

(* A snapshot that is still good to serve is not much older than that.     *)
LEMMA FreshIsTrue ==
    ASSUME IInv, CacheIsFresh, ~cached.stale
    PROVE  fetched # None /\ Elapsed - fetched <= RefreshInterval + CacheSeconds + 2 * back
<1>1. fetched # None /\ cached.at - fetched <= RefreshInterval + back
  BY DEF IInv, SnapshotIsTrue, CacheIsFresh
<1>2. cached.at \in Nat /\ clock - cached.at < CacheSeconds
  BY Times DEF IInv, CacheIsFresh
<1> QED
  BY <1>1, <1>2, Times, TimesAreIntegers DEF IInv

(* The stamp and the clock tell the truth after every step.                *)
LEMMA FactsStep ==
  IInv /\ [Next]_vars => Earned(stamp)' /\ Earned(when)' /\ Past(fetched)' /\ RequestsAreOld'
<1> SUFFICES ASSUME IInv, [Next]_vars
             PROVE  Earned(stamp)' /\ Earned(when)' /\ Past(fetched)' /\ RequestsAreOld'
  OBVIOUS
<1>0. /\ clock \in Nat /\ Elapsed \in Nat /\ clock <= Elapsed
      /\ fetched # None => fetched \in Nat /\ fetched <= Elapsed
      /\ Elapsed' \in Nat /\ Elapsed' >= Elapsed
  BY Times, TimePasses DEF IInv, Past
<1>1. Earned(stamp)' /\ Earned(when)'
  <2>1. CASE Refreshed
    <3>1. fetched' = Elapsed /\ stamp' \in {stamp, None} /\ when' \in {when, clock}
      BY <2>1 DEF Refreshed, storeVars
    <3>2. \A t \in {stamp, when, clock} : t # None => t <= Elapsed
      <4>1. \A t \in {stamp, when} : t # None => t \in Nat
        BY TimesAreIntegers DEF IInv, TypeOK
      <4> QED
        BY <1>0, <4>1 DEF IInv, Earned
    <3> QED
      BY <1>0, <3>1, <3>2, MetadataAssumption DEF Earned
  <2>2. CASE ~Refreshed
    <3>1. fetched' = fetched /\ stamp' \in {stamp, when, None} /\ when' \in {when, None}
      BY <2>2 DEF Next, Start, Crash, Tick, SetBack, refresh, RefreshFails, StampWritten,
         ServedFromCache, InventoryAsked, InventoryListed, InventoryFails, FlashStarts, FlashEnds,
         dismiss, factVars, storeVars, vars
    <3> QED
      BY <3>1 DEF IInv, Earned
  <2> QED
    BY <2>1, <2>2
<1>2. Past(fetched)'
  <2>1. fetched' = fetched \/ fetched' = Elapsed
    BY FetchedGrows
  <2> QED
    BY <1>0, <2>1 DEF Past
<1>3. RequestsAreOld'
  <2> SUFFICES ASSUME NEW k \in Callers, pending'[k] # None PROVE pending'[k].now <= Elapsed'
    BY DEF RequestsAreOld
  <2>1. CASE pending'[k] = pending[k]
    <3>1. pending[k].now <= Elapsed /\ pending[k].now \in Nat
      BY <2>1, Times DEF IInv, RequestsAreOld
    <3> QED
      BY <1>0, <2>1, <3>1
  <2>2. CASE pending'[k] # pending[k]
    <3>1. PICK j \in Callers : pending' = [pending EXCEPT ![j] = [now |-> clock, failed |-> job = "failed"]]
                            \/ pending' = [pending EXCEPT ![j] = None]
                            \/ pending' = NobodyAsks
      BY <2>2 DEF Next, Start, Crash, Tick, SetBack, refresh, Refreshed, RefreshFails, StampWritten,
         ServedFromCache, InventoryAsked, InventoryListed, InventoryFails, FlashStarts, FlashEnds,
         dismiss, cacheVars, vars, Callers
    <3>2. pending \in [Callers -> Held \cup {None}]
      BY DEF IInv, TypeOK
    <3>3. pending'[k].now = clock
      BY <2>2, <3>1, <3>2 DEF NobodyAsks
    <3> QED
      BY <1>0, <3>3
  <2> QED
    BY <2>1, <2>2
<1> QED
  BY <1>1, <1>2, <1>3

(* The snapshot tells the truth after every step.                          *)
LEMMA SnapshotStep == IInv /\ [Next]_vars => SnapshotIsTrue'
<1> SUFFICES ASSUME IInv, [Next]_vars PROVE SnapshotIsTrue'
  OBVIOUS
<1>1. CASE cached' \in {cached, None}
  <2> SUFFICES ASSUME cached' # None, ~cached'.stale
               PROVE  fetched' # None /\ cached'.at - fetched' <= RefreshInterval + back'
    BY DEF SnapshotIsTrue
  <2>1. cached' = cached /\ cached.at \in Nat
    BY <1>1, Times DEF IInv
  <2>2. fetched # None /\ cached.at - fetched <= RefreshInterval + back
    BY <2>1 DEF IInv, SnapshotIsTrue
  <2>3. /\ RefreshInterval + back \in Nat /\ RefreshInterval + back' \in Nat
        /\ RefreshInterval + back <= RefreshInterval + back'
    BY Times, TimePasses, TimesAreIntegers DEF IInv
  <2> QED
    BY <2>1, <2>2, <2>3, StaysNewEnough
<1>2. CASE \E k \in Callers : InventoryListed(k)
  <2>1. PICK k \in Callers : InventoryListed(k)
    BY <1>2
  <2>2. PICK error \in BOOLEAN : cached' = [at |-> pending[k].now, stale |-> Stale, error |-> error]
    BY <2>1 DEF InventoryListed
  <2>3. pending[k].now \in Nat /\ pending[k].now <= Elapsed
    BY <2>1, Times DEF InventoryListed, IInv, RequestsAreOld
  <2>4. ASSUME ~Stale PROVE fetched # None /\ pending[k].now - fetched <= RefreshInterval + back
    <3>1. fetched # None /\ Elapsed - fetched <= RefreshInterval + back
      BY <2>4, ListedIsTrue
    <3> QED
      BY <2>3, <3>1, Times, TimesAreIntegers DEF IInv
  <2>5. fetched' = fetched /\ back' = back
    BY <2>1 DEF InventoryListed, timeVars, factVars
  <2> QED
    BY <2>2, <2>4, <2>5 DEF SnapshotIsTrue
<1>3. ASSUME \A k \in Callers : ~InventoryListed(k) PROVE cached' \in {cached, None}
  BY <1>3 DEF Next, Start, Crash, Tick, SetBack, refresh, Refreshed, RefreshFails, StampWritten,
     ServedFromCache, InventoryAsked, InventoryFails, FlashStarts, FlashEnds, dismiss, cacheVars, vars
<1> QED
  BY <1>1, <1>2, <1>3

(* A flash begins with a snapshot that was good to serve, and while it     *)
(* goes on a newer one may take its place.                                 *)
LEMMA FlashStep == IInv /\ [Next]_vars => FlashHasSnapshot'
<1> SUFFICES ASSUME IInv, [Next]_vars, Active'
             PROVE  (/\ cached # None /\ begun # None /\ begun <= Elapsed
                     /\ ~cached.stale =>
                         /\ fetched # None
                         /\ begun - fetched <= RefreshInterval + CacheSeconds + 2 * back)'
  BY DEF FlashHasSnapshot
<1>0. /\ Elapsed \in Nat /\ Elapsed # None /\ back \in Nat
      /\ Elapsed' \in Nat /\ Elapsed' >= Elapsed
      /\ RefreshInterval + CacheSeconds \in Nat
  BY Times, TimePasses, TimesAreIntegers, MetadataAssumption DEF IInv
<1>1. CASE \E k \in Callers : InventoryListed(k)
  <2>1. PICK k \in Callers : InventoryListed(k)
    BY <1>1
  <2>2. PICK error \in BOOLEAN : cached' = [at |-> pending[k].now, stale |-> Stale, error |-> error]
    BY <2>1 DEF InventoryListed
  <2>3. UNCHANGED <<timeVars, factVars>>
    BY <2>1 DEF InventoryListed
  <2>4. cached' # None
    <3>1. pending[k].now \in Nat /\ Stale \in BOOLEAN
      BY <2>1, Times DEF InventoryListed, IInv, Stale
    <3> QED
      BY <2>2, <3>1, MetadataAssumption
  <2>5. begun' \in Nat /\ begun' # None /\ begun' <= Elapsed
    <3>1. CASE UNCHANGED flashVars
      <4>1. Active
        BY <3>1 DEF flashVars, Active
      <4> QED
        BY <3>1, <4>1, Times DEF IInv, FlashHasSnapshot, flashVars
    <3>2. CASE begin
      BY <1>0, <3>2 DEF begin
    <3> QED
      BY <2>1, <3>1, <3>2 DEF InventoryListed, Answer
  <2>6. ASSUME ~Stale
        PROVE  fetched # None /\ begun' - fetched <= RefreshInterval + CacheSeconds + 2 * back
    <3>1. fetched # None /\ Elapsed - fetched <= RefreshInterval + back
      BY <2>6, ListedIsTrue
    <3> QED
      BY <1>0, <2>5, <3>1, Times, TimesAreIntegers DEF IInv
  <2> QED
    BY <1>0, <2>2, <2>3, <2>4, <2>5, <2>6 DEF timeVars, factVars, Elapsed
<1>2. CASE ServedFromCache("start_flash")
  <2>1. CacheIsFresh /\ begin
    BY <1>2 DEF ServedFromCache, MayAsk, CacheIsServed, Answer
  <2>2. UNCHANGED <<timeVars, cached, fetched>>
    BY <1>2 DEF ServedFromCache, cacheVars, factVars
  <2>3. ~cached.stale =>
          fetched # None /\ Elapsed - fetched <= RefreshInterval + CacheSeconds + 2 * back
    BY <2>1, FreshIsTrue
  <2> QED
    BY <1>0, <2>1, <2>2, <2>3 DEF begin, CacheIsFresh, timeVars, Elapsed
<1>3. CASE Active /\ UNCHANGED <<begun, cached>>
  <2>1. cached # None /\ begun # None /\ begun <= Elapsed /\ begun \in Nat
    BY <1>3, Times DEF IInv, FlashHasSnapshot
  <2>2. begun <= Elapsed'
    BY <1>0, <2>1
  <2>3. ASSUME ~cached.stale
        PROVE  fetched' # None /\ begun - fetched' <= RefreshInterval + CacheSeconds + 2 * back'
    <3>1. fetched # None /\ begun - fetched <= RefreshInterval + CacheSeconds + 2 * back
      BY <1>3, <2>3 DEF IInv, FlashHasSnapshot
    <3>2. /\ RefreshInterval + CacheSeconds + 2 * back \in Nat
          /\ RefreshInterval + CacheSeconds + 2 * back' \in Nat
          /\ RefreshInterval + CacheSeconds + 2 * back <= RefreshInterval + CacheSeconds + 2 * back'
      BY TimePasses, <1>0 DEF IInv
    <3> QED
      BY <2>1, <3>1, <3>2, StaysNewEnough
  <2> QED
    BY <1>3, <2>1, <2>2, <2>3
<1>4. ASSUME \A k \in Callers : ~InventoryListed(k), ~ServedFromCache("start_flash")
      PROVE  Active /\ UNCHANGED <<begun, cached>>
  <2>1. CASE UNCHANGED <<job, begun, cached>>
    BY <2>1 DEF Active
  <2>2. CASE FlashStarts
    BY <2>2 DEF FlashStarts, Active, cacheVars
  <2>3. CASE Crash \/ FlashEnds \/ dismiss
    BY <2>3 DEF Crash, FlashEnds, dismiss, Active
  <2>4. CASE ServedFromCache("status")
    BY <2>4, <2>1 DEF ServedFromCache, Answer, cacheVars, flashVars
  <2> QED
    BY <1>4, <2>1, <2>2, <2>3, <2>4 DEF Next, Start, Tick, SetBack, refresh, Refreshed,
       RefreshFails, StampWritten, InventoryAsked, InventoryFails, Callers, flashVars, cacheVars, vars
<1> QED
  BY <1>1, <1>2, <1>3, <1>4

(* What is reported was true: a snapshot is served while it is fresh, or   *)
(* to those who ask during a flash.                                        *)
LEMMA ReportStep == IInv /\ [Next]_vars => StatusOkMeansFresh'
<1> SUFFICES ASSUME IInv, [Next]_vars PROVE StatusOkMeansFresh'
  OBVIOUS
<1>0. /\ back \in Nat /\ Elapsed \in Nat
      /\ fetched # None => fetched \in Nat
      /\ begun # None => begun \in Nat
  BY Times DEF IInv
<1>1. CASE reported' \in {reported, None}
  BY <1>1 DEF IInv, StatusOkMeansFresh
<1>2. ASSUME NEW i \in Snapshots, NEW failed \in BOOLEAN, Report(i, failed), UNCHANGED timeVars,
             ~i.stale => /\ fetched # None
                         /\ Elapsed - fetched <= RefreshInterval + CacheSeconds + 2 * back
                                                    + (IF Active THEN Elapsed - begun ELSE 0)
      PROVE  StatusOkMeansFresh'
  <2> SUFFICES ASSUME reported'.state = "ok"
               PROVE  /\ reported'.age # None
                      /\ reported'.age <= RefreshInterval + CacheSeconds + 2 * reported'.back
                                            + reported'.flash
    BY DEF StatusOkMeansFresh
  <2>1. ~i.stale
    BY <1>2 DEF Report
  <2>2. reported'.age = Elapsed - fetched /\ reported'.back = back
        /\ reported'.flash = (IF Active THEN Elapsed - begun ELSE 0)
    BY <1>2, <2>1 DEF Report
  <2>3. reported'.age # None
    <3>1. fetched \in Nat /\ fetched <= Elapsed
      BY <1>0, <1>2, <2>1 DEF IInv, Past
    <3> QED
      BY <1>0, <2>2, <3>1, MetadataAssumption
  <2> QED
    BY <1>2, <2>1, <2>2, <2>3
<1>3. CASE ServedFromCache("status")
  <2>1. cached \in Snapshots /\ Report(cached, job = "failed") /\ UNCHANGED timeVars
    BY <1>3 DEF ServedFromCache, CacheIsServed, Answer, IInv, TypeOK
  <2>2. ASSUME ~cached.stale
        PROVE  /\ fetched # None
               /\ Elapsed - fetched <= RefreshInterval + CacheSeconds + 2 * back
                                          + (IF Active THEN Elapsed - begun ELSE 0)
    <3>1. CASE Active
      <4>1. /\ begun \in Nat /\ fetched \in Nat /\ fetched # None
            /\ begun - fetched <= RefreshInterval + CacheSeconds + 2 * back
        BY <1>0, <2>2, <3>1 DEF IInv, FlashHasSnapshot
      <4> QED
        BY <1>0, <3>1, <4>1, TimesAreIntegers
    <3>2. CASE ~Active
      BY <1>0, <1>3, <2>2, <3>2, FreshIsTrue, TimesAreIntegers DEF ServedFromCache, CacheIsServed
    <3> QED
      BY <3>1, <3>2
  <2> QED
    BY <1>2, <2>1, <2>2
<1>4. CASE InventoryListed("status")
  <2>1. PICK error \in BOOLEAN :
            cached' = [at |-> pending["status"].now, stale |-> Stale, error |-> error]
    BY <1>4 DEF InventoryListed
  <2>2. /\ Report(cached', pending["status"].failed) /\ UNCHANGED timeVars
        /\ pending["status"].now \in Time /\ pending["status"].failed \in BOOLEAN
    BY <1>4, Times DEF InventoryListed, Answer, Callers, IInv
  <2>3. cached' \in Snapshots /\ cached'.stale = Stale
    BY <2>1, <2>2 DEF Snapshots, Stale
  <2>4. ASSUME ~Stale
        PROVE  /\ fetched # None
               /\ Elapsed - fetched <= RefreshInterval + CacheSeconds + 2 * back
                                          + (IF Active THEN Elapsed - begun ELSE 0)
    <3>1. fetched # None /\ Elapsed - fetched <= RefreshInterval + back
      BY <2>4, ListedIsTrue
    <3>2. (IF Active THEN Elapsed - begun ELSE 0) \in Nat
      BY <1>0 DEF IInv, FlashHasSnapshot
    <3> QED
      BY <1>0, <3>1, <3>2, TimesAreIntegers
  <2> QED
    BY <1>2, <2>2, <2>3, <2>4
<1>5. ASSUME ~ServedFromCache("status"), ~InventoryListed("status")
      PROVE  reported' \in {reported, None}
  BY <1>5 DEF Next, Start, Crash, Tick, SetBack, refresh, Refreshed, RefreshFails, StampWritten,
     Callers, ServedFromCache, InventoryAsked, InventoryListed, InventoryFails, Answer, begin,
     FlashStarts, FlashEnds, dismiss, NoAnswer, vars
<1> QED
  BY <1>1, <1>3, <1>4, <1>5

(* The inductive invariant holds in every reachable state.                 *)
THEOREM Invariance == Spec => []IInv
<1>1. IInv /\ [Next]_vars => IInv'
  BY TypeStep, FactsStep, SnapshotStep, FlashStep, ReportStep DEF IInv
<1> QED
  BY IInvInit, <1>1, PTL DEF Spec

(* GET /api/status says "ok" only if fwupdtool brought metadata less than  *)
(* the refresh interval and one lifetime of the cache ago, with the time   *)
(* since the flash began on top if there is one, and twice what the clock  *)
(* was set back.                                                           *)
THEOREM OkMeansFresh == Spec => []StatusOkMeansFresh
<1>1. IInv => StatusOkMeansFresh
  BY DEF IInv
<1> QED
  BY Invariance, <1>1, PTL
=============================================================================
