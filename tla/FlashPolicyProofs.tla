------------------------- MODULE FlashPolicyProofs --------------------------
(***************************************************************************)
(* Theorems about FlashPolicy, for every set of releases, every list that  *)
(* fwupd may report, and any number of changes of it.                      *)
(***************************************************************************)
EXTENDS FlashPolicy, FoldProofs

-----------------------------------------------------------------------------
(***************************************************************************)
(* What the page shows                                                     *)
(***************************************************************************)

(* No two elements of the list have the same version and component.        *)
KeysDiffer(list) ==
    \A i, j \in DOMAIN list : _release_key(list[i]) = _release_key(list[j]) => i = j

(* _dedupe_releases keeps a release whose key it has not kept yet.         *)
LEMMA DedupeFold ==
  /\ _dedupe_releases(<< >>) = << >>
  /\ \A l \in Seq(Releases) : _dedupe_releases(l) \in Seq(Releases)
  /\ \A l \in Seq(Releases), r \in Releases :
        /\ _release_key(r) \in Keys(_dedupe_releases(l)) =>
              _dedupe_releases(Append(l, r)) = _dedupe_releases(l)
        /\ _release_key(r) \notin Keys(_dedupe_releases(l)) =>
              _dedupe_releases(Append(l, r)) = Append(_dedupe_releases(l), r)
<1> DEFINE A == Seq(Releases)
           step == [x \in A \X Releases |->
                      IF _release_key(x[2]) \in Keys(x[1]) THEN x[1] ELSE Append(x[1], x[2])]
<1>1. << >> \in A /\ IsStep(step, A, Releases)
  BY AppendProperties DEF IsStep
<1>2. ASSUME NEW l \in Seq(Releases) PROVE _dedupe_releases(l) = RecFold(step, << >>, l)
  <2> DEFINE Solution(h) ==
                h = [s \in SUBSET DOMAIN l |->
                        IF s = {} THEN << >>
                        ELSE IF _release_key(l[Max(s)]) \in Keys(h[s \ {Max(s)}])
                             THEN h[s \ {Max(s)}]
                             ELSE Append(h[s \ {Max(s)}], l[Max(s)])]
             fold == CHOOSE h : Solution(h)
  <2>1. \A s \in SUBSET DOMAIN l : s # {} => l[Max(s)] \in Releases
    BY PlaceElement
  <2>2. \E h : Solution(h)
    <3>1. PICK h \in [SUBSET DOMAIN l -> A] : Recursion(h, step, << >>, l)
      BY <1>1, RecursionExists
    <3>2. \A s \in SUBSET DOMAIN l :
            h[s] = IF s = {} THEN << >>
                   ELSE IF _release_key(l[Max(s)]) \in Keys(h[s \ {Max(s)}])
                        THEN h[s \ {Max(s)}]
                        ELSE Append(h[s \ {Max(s)}], l[Max(s)])
      BY <2>1, <3>1 DEF Recursion
    <3> QED
      BY <3>1, <3>2
  <2>3. _dedupe_releases(l) = fold[DOMAIN l]
    BY DEF _dedupe_releases, FoldLeft, MapThenFoldSet
  <2>4. Solution(fold)
    BY <2>2
  <2> HIDE DEF fold
  <2>5. Solves(fold, A, step, << >>, l)
    BY <2>1, <2>4 DEF Solves
  <2> HIDE DEF A, step
  <2> QED
    BY <1>1, <2>3, <2>5, SolutionIsRecFold
<1>3. << >> \in Seq(Releases) /\ \A l \in Seq(Releases), r \in Releases : Append(l, r) \in Seq(Releases)
  BY AppendProperties
<1>4. /\ RecFold(step, << >>, << >>) = << >>
      /\ \A l \in Seq(Releases) : RecFold(step, << >>, l) \in A
      /\ \A l \in Seq(Releases), r \in Releases :
            RecFold(step, << >>, Append(l, r)) = step[<<RecFold(step, << >>, l), r>>]
  <2> HIDE DEF A, step
  <2> QED
    BY <1>1, RecFoldFacts
<1>5. \A a \in A, r \in Releases :
        step[<<a, r>>] = IF _release_key(r) \in Keys(a) THEN a ELSE Append(a, r)
  OBVIOUS
<1>6. _dedupe_releases(<< >>) = << >>
  BY <1>2, <1>3, <1>4
<1>7. \A l \in Seq(Releases) : _dedupe_releases(l) \in Seq(Releases)
  BY <1>2, <1>4
<1> HIDE DEF step
<1>8. ASSUME NEW l \in Seq(Releases), NEW r \in Releases
      PROVE  _dedupe_releases(Append(l, r)) = step[<<_dedupe_releases(l), r>>]
  BY <1>2, <1>3, <1>4
<1> QED
  BY <1>5, <1>6, <1>7, <1>8

LEMMA KeysAppend ==
  ASSUME NEW l \in Seq(Releases), NEW r \in Releases
  PROVE  Keys(Append(l, r)) = Keys(l) \cup {_release_key(r)}
BY AppendElements DEF Keys

(* A list whose keys differ still does after a release with another key.   *)
LEMMA KeysDifferAppend ==
  ASSUME NEW l \in Seq(Releases), NEW r \in Releases
  PROVE  KeysDiffer(Append(l, r)) <=> KeysDiffer(l) /\ _release_key(r) \notin Keys(l)
<1> DEFINE n == Len(l)
           t == Append(l, r)
<1>1. /\ n \in Nat /\ DOMAIN l = 1 .. n /\ DOMAIN t = 1 .. n + 1
      /\ \A i \in 1 .. n : t[i] = l[i]
      /\ t[n + 1] = r
  BY AppendProperties, LenProperties
<1>2. Keys(l) = {_release_key(l[i]) : i \in 1 .. n}
  BY <1>1 DEF Keys, ToSet
<1> HIDE DEF n, t
<1>3. 1 .. n + 1 = (1 .. n) \cup {n + 1} /\ n + 1 \notin 1 .. n
  BY <1>1
<1>4. KeysDiffer(t) => KeysDiffer(l) /\ _release_key(r) \notin Keys(l)
  BY <1>1, <1>2, <1>3 DEF KeysDiffer
<1>5. KeysDiffer(l) /\ _release_key(r) \notin Keys(l) => KeysDiffer(t)
  BY <1>1, <1>2, <1>3 DEF KeysDiffer
<1> QED
  BY <1>4, <1>5 DEF t

(* It keeps releases of the list, each key once, and loses none.           *)
LEMMA DedupeKeys ==
  \A l \in Seq(Releases) :
     /\ Keys(_dedupe_releases(l)) = Keys(l)
     /\ ToSet(_dedupe_releases(l)) \subseteq ToSet(l)
     /\ KeysDiffer(_dedupe_releases(l))
<1> DEFINE P == {l \in Seq(Releases) :
                    /\ Keys(_dedupe_releases(l)) = Keys(l)
                    /\ ToSet(_dedupe_releases(l)) \subseteq ToSet(l)
                    /\ KeysDiffer(_dedupe_releases(l))}
<1>1. << >> \in P
  BY DedupeFold, EmptySeq DEF KeysDiffer
<1>2. ASSUME NEW l \in Seq(Releases), l \in P, NEW r \in Releases PROVE Append(l, r) \in P
  <2> DEFINE d == _dedupe_releases(l)
             t == Append(l, r)
  <2>1. d \in Seq(Releases) /\ t \in Seq(Releases)
    BY DedupeFold, AppendProperties
  <2>2. Keys(d) = Keys(l) /\ ToSet(d) \subseteq ToSet(l) /\ KeysDiffer(d)
    BY <1>2
  <2>3. Keys(t) = Keys(l) \cup {_release_key(r)} /\ ToSet(t) = ToSet(l) \cup {r}
    BY KeysAppend, AppendElements
  <2>4. /\ _release_key(r) \in Keys(d) => _dedupe_releases(t) = d
        /\ _release_key(r) \notin Keys(d) => _dedupe_releases(t) = Append(d, r)
    BY DedupeFold
  <2> HIDE DEF d, t
  <2>5. /\ Keys(Append(d, r)) = Keys(d) \cup {_release_key(r)}
        /\ ToSet(Append(d, r)) = ToSet(d) \cup {r}
        /\ _release_key(r) \notin Keys(d) => KeysDiffer(Append(d, r))
    BY <2>1, <2>2, KeysAppend, AppendElements, KeysDifferAppend
  <2>6. t \in P
    BY <2>1, <2>2, <2>3, <2>4, <2>5
  <2> QED
    BY <2>6 DEF t
<1> HIDE DEF P
<1>3. Seq(Releases) \subseteq P
  BY <1>1, <1>2, SeqInduct
<1> QED
  BY <1>3 DEF P

(* A filter leaves keys that differ different.                             *)
LEMMA KeptKeysDiffer ==
  ASSUME NEW S
  PROVE  \A l \in Seq(Releases) : KeysDiffer(l) => KeysDiffer(Kept(l, S))
<1>0. /\ Kept(<< >>, S) = << >>
      /\ \A l \in Seq(Releases) : Kept(l, S) \in Seq(Releases)
      /\ \A l \in Seq(Releases), r \in Releases :
            /\ r \in S => Kept(Append(l, r), S) = Append(Kept(l, S), r)
            /\ r \notin S => Kept(Append(l, r), S) = Kept(l, S)
  BY KeptFold, Zenon
<1> DEFINE P == {l \in Seq(Releases) : KeysDiffer(l) => KeysDiffer(Kept(l, S))}
<1>1. << >> \in P
  BY <1>0, EmptySeq
<1>2. ASSUME NEW l \in Seq(Releases), l \in P, NEW r \in Releases PROVE Append(l, r) \in P
  <2>1. Kept(l, S) \in Seq(Releases) /\ Append(l, r) \in Seq(Releases)
    BY <1>0, AppendProperties
  <2>2. ASSUME KeysDiffer(Append(l, r)) PROVE KeysDiffer(Kept(Append(l, r), S))
    <3>1. KeysDiffer(l) /\ _release_key(r) \notin Keys(l)
      BY <2>2, KeysDifferAppend
    <3>2. KeysDiffer(Kept(l, S))
      BY <1>2, <3>1
    <3>3. Keys(Kept(l, S)) \subseteq Keys(l)
      BY KeptElements DEF Keys
    <3>4. KeysDiffer(Append(Kept(l, S), r))
      BY <2>1, <3>1, <3>2, <3>3, KeysDifferAppend
    <3>5. /\ r \in S => Kept(Append(l, r), S) = Append(Kept(l, S), r)
          /\ r \notin S => Kept(Append(l, r), S) = Kept(l, S)
      BY <1>0
    <3> QED
      BY <3>2, <3>4, <3>5
  <2> QED
    BY <2>1, <2>2
<1> HIDE DEF P
<1>3. Seq(Releases) \subseteq P
  BY <1>1, <1>2, SeqInduct
<1> QED
  BY <1>3 DEF P

(* A list whose keys differ has as many keys as releases.                  *)
LEMMA KeysCounted ==
  \A l \in Seq(Releases) :
     KeysDiffer(l) => IsFiniteSet(Keys(l)) /\ Cardinality(Keys(l)) = Len(l)
<1> DEFINE P == {l \in Seq(Releases) :
                    KeysDiffer(l) => IsFiniteSet(Keys(l)) /\ Cardinality(Keys(l)) = Len(l)}
<1>1. << >> \in P
  <2>1. Keys(<< >>) = {} /\ << >> \in Seq(Releases) /\ Len(<< >>) = 0
    BY DEF Keys, ToSet
  <2> QED
    BY <2>1, FS_EmptySet
<1>2. ASSUME NEW l \in Seq(Releases), l \in P, NEW r \in Releases PROVE Append(l, r) \in P
  <2>1. Append(l, r) \in Seq(Releases) /\ Len(Append(l, r)) = Len(l) + 1
    BY AppendProperties
  <2>2. ASSUME KeysDiffer(Append(l, r))
        PROVE  /\ IsFiniteSet(Keys(Append(l, r)))
               /\ Cardinality(Keys(Append(l, r))) = Len(Append(l, r))
    <3>1. KeysDiffer(l) /\ _release_key(r) \notin Keys(l)
      BY <2>2, KeysDifferAppend
    <3>2. IsFiniteSet(Keys(l)) /\ Cardinality(Keys(l)) = Len(l)
      BY <1>2, <3>1
    <3>3. Keys(Append(l, r)) = Keys(l) \cup {_release_key(r)}
      BY KeysAppend
    <3> QED
      BY <2>1, <3>1, <3>2, <3>3, FS_AddElement
  <2> QED
    BY <2>1, <2>2
<1> HIDE DEF P
<1>3. Seq(Releases) \subseteq P
  BY <1>1, <1>2, SeqInduct
<1> QED
  BY <1>3 DEF P

LEMMA KeysConcat ==
  ASSUME NEW l \in Seq(Releases), NEW m \in Seq(Releases)
  PROVE  /\ Keys(l \o m) = Keys(l) \cup Keys(m)
         /\ KeysDiffer(l) /\ KeysDiffer(m) /\ Keys(l) \cap Keys(m) = {} => KeysDiffer(l \o m)
<1> DEFINE a == Len(l)
           b == Len(m)
           t == l \o m
<1>1. /\ a \in Nat /\ DOMAIN l = 1 .. a /\ b \in Nat /\ DOMAIN m = 1 .. b
      /\ DOMAIN t = 1 .. a + b
  BY ConcatProperties, LenProperties
<1>2. \A i \in 1 .. a + b : t[i] = IF i <= a THEN l[i] ELSE m[i - a]
  BY ConcatProperties
<1> HIDE DEF a, b, t
<1>3. /\ \A i \in 1 .. a : i \in 1 .. a + b /\ t[i] = l[i]
      /\ \A i \in 1 .. b : i + a \in 1 .. a + b /\ t[i + a] = m[i]
      /\ \A i \in 1 .. a + b : i \notin 1 .. a => i - a \in 1 .. b /\ t[i] = m[i - a]
  BY <1>1, <1>2
<1>4. /\ Keys(l) = {_release_key(l[i]) : i \in 1 .. a}
      /\ Keys(m) = {_release_key(m[i]) : i \in 1 .. b}
      /\ Keys(t) = {_release_key(t[i]) : i \in 1 .. a + b}
  BY <1>1 DEF Keys, ToSet
<1>5. Keys(t) = Keys(l) \cup Keys(m)
  <2>1. ASSUME NEW k \in Keys(t) PROVE k \in Keys(l) \cup Keys(m)
    BY <1>3, <1>4
  <2>2. ASSUME NEW k \in Keys(l) PROVE k \in Keys(t)
    BY <1>3, <1>4
  <2>3. ASSUME NEW k \in Keys(m) PROVE k \in Keys(t)
    BY <1>3, <1>4
  <2> QED
    BY <2>1, <2>2, <2>3
<1>6. ASSUME KeysDiffer(l), KeysDiffer(m), Keys(l) \cap Keys(m) = {},
             NEW i \in 1 .. a + b, NEW j \in 1 .. a + b, _release_key(t[i]) = _release_key(t[j])
      PROVE  i = j
  <2>1. CASE i \in 1 .. a /\ j \in 1 .. a
    BY <1>1, <1>3, <1>6, <2>1 DEF KeysDiffer
  <2>2. CASE i \notin 1 .. a /\ j \notin 1 .. a
    <3>1. i - a \in DOMAIN m /\ j - a \in DOMAIN m /\ t[i] = m[i - a] /\ t[j] = m[j - a]
      BY <1>1, <1>3, <2>2
    <3>2. _release_key(m[i - a]) = _release_key(m[j - a])
      BY <1>6, <3>1
    <3>3. i - a = j - a
      BY <1>6, <3>1, <3>2 DEF KeysDiffer
    <3> QED
      BY <1>1, <3>3
  <2>3. ASSUME NEW u \in 1 .. a, NEW v \in 1 .. a + b, v \notin 1 .. a
        PROVE  _release_key(t[u]) # _release_key(t[v])
    <3>1. _release_key(t[u]) \in Keys(l)
      BY <1>3, <1>4
    <3>2. _release_key(t[v]) \in Keys(m)
      BY <1>3, <1>4, <2>3
    <3> QED
      BY <1>6, <3>1, <3>2
  <2> QED
    BY <1>6, <2>1, <2>2, <2>3
<1> QED
  BY <1>1, <1>5, <1>6 DEF KeysDiffer, t

(* The view of a device shows each upgrade of either list once.            *)
LEMMA ViewShowsOnce ==
  ASSUME NEW releases \in Seq(Releases), NEW list \in Seq(Releases)
  PROVE  LET view  == View(releases, list)
             shown == view.available \o view.unconfirmed
         IN  /\ Keys(shown) = Keys(list)
                     \cup {_release_key(r) : r \in {u \in ToSet(releases) : u.upgrade}}
             /\ Cardinality(Keys(shown)) = Len(shown)
             /\ Keys(view.available) = Keys(list)
<1> DEFINE available   == _dedupe_releases(list)
           others      == {r \in Releases : r.upgrade /\ _release_key(r) \notin Keys(available)}
           unconfirmed == Kept(_dedupe_releases(releases), others)
           upgrades    == {_release_key(r) : r \in {u \in ToSet(releases) : u.upgrade}}
           shown       == available \o unconfirmed
<1>1. View(releases, list).available = available /\ View(releases, list).unconfirmed = unconfirmed
  BY DEF View
<1>2. /\ available \in Seq(Releases) /\ KeysDiffer(available) /\ Keys(available) = Keys(list)
      /\ _dedupe_releases(releases) \in Seq(Releases)
      /\ KeysDiffer(_dedupe_releases(releases))
      /\ Keys(_dedupe_releases(releases)) = Keys(releases)
      /\ ToSet(_dedupe_releases(releases)) \subseteq ToSet(releases)
  BY DedupeFold, DedupeKeys
<1>3. ToSet(releases) \subseteq Releases
  BY ElementOfSeq, LenProperties DEF ToSet
<1>4. unconfirmed \in Seq(Releases) /\ KeysDiffer(unconfirmed)
  <2> HIDE DEF others
  <2> QED
    BY <1>2, KeptFold, KeptKeysDiffer
<1>5. ToSet(unconfirmed) = ToSet(_dedupe_releases(releases)) \cap others
  <2> HIDE DEF others
  <2> QED
    BY <1>2, KeptElements
<1> HIDE DEF available, unconfirmed
<1>6. Keys(unconfirmed) = upgrades \ Keys(available)
  <2>1. ASSUME NEW k \in Keys(unconfirmed) PROVE k \in upgrades \ Keys(available)
    BY <1>2, <1>5 DEF Keys
  <2>2. ASSUME NEW k \in upgrades, k \notin Keys(available) PROVE k \in Keys(unconfirmed)
    <3>1. PICK u \in ToSet(releases) : u.upgrade /\ k = _release_key(u)
      BY <2>2
    <3>2. k \in Keys(_dedupe_releases(releases))
      BY <1>2, <3>1 DEF Keys
    <3>3. PICK r \in ToSet(_dedupe_releases(releases)) : k = _release_key(r)
      BY <3>2 DEF Keys
    <3>4. r \in Releases /\ u \in Releases /\ r.version = u.version
      BY <1>2, <1>3, <3>1, <3>3 DEF _release_key
    <3>5. r.upgrade
      BY <3>1, <3>4, PolicyAssumption
    <3> QED
      BY <1>5, <2>2, <3>3, <3>4, <3>5 DEF Keys
  <2> QED
    BY <2>1, <2>2
<1> HIDE DEF others, upgrades
<1>7. /\ Keys(shown) = Keys(available) \cup Keys(unconfirmed)
      /\ KeysDiffer(shown)
      /\ shown \in Seq(Releases)
  BY <1>2, <1>4, <1>6, KeysConcat, ConcatProperties
<1>8. Cardinality(Keys(shown)) = Len(shown)
  BY <1>7, KeysCounted
<1> QED
  BY <1>1, <1>2, <1>6, <1>7, <1>8 DEF upgrades

-----------------------------------------------------------------------------
(***************************************************************************)
(* The inductive invariant                                                 *)
(***************************************************************************)

Decided == {"checking", "flashed"}

(* A button that was pressed is what the form says.                        *)
FormIsButton ==
    button # None =>
        /\ stage \in {"posted", "ambiguous", "refused"} \cup Decided
        /\ form.version = button.version
        /\ form.component = button.component

(* The release that was picked is one of the device as it was read, and    *)
(* the form means no release of another component.                         *)
ReleaseIsMeant ==
    stage \in Decided =>
        /\ listed.present /\ Flashable(listed) /\ form.typed
        /\ release \in ToSet(listed.releases)
        /\ release.version = form.version
        /\ form.component \in {None, release.component}
        /\ form.component = None =>
            \A r \in ToSet(listed.releases) :
                r.version = form.version => r.component = release.component

(* What a request has read is what fwupd may report, and the page is made  *)
(* of the two answers of its own request.                                  *)
PageIsView ==
    /\ device \in Devices
    /\ updates \in Lists \cup {None}
    /\ stage \in {"listing", "page"} => listed \in Devices
    /\ stage = "page" =>
        /\ confirmed \in Seq(Releases)
        /\ page = View(listed.releases, confirmed)

(* What is flashed was confirmed and can be verified.                      *)
ReleaseIsConfirmed ==
    stage = "flashed" =>
        /\ confirmed # None /\ _release_key(release) \in Keys(confirmed)
        /\ release.has = Evidence

IInv == FormIsButton /\ ReleaseIsMeant /\ ReleaseIsConfirmed /\ PageIsView

(* The inductive invariant holds at first.                                 *)
LEMMA IInvInit == Init => IInv
BY DEF Init, IInv, FormIsButton, ReleaseIsMeant, ReleaseIsConfirmed, PageIsView, Decided

(* The release that CheckDevices picks.                                    *)
LEMMA Picked ==
    ASSUME CheckDevices, stage' = "checking"
    PROVE  ReleaseIsMeant'
<1> DEFINE meant == Meant(device, form)
<1>1. /\ Permitted /\ OneComponent(meant) /\ listed' = device
      /\ UNCHANGED <<enabled, form>>
  BY DEF CheckDevices, worldVars
<1>2. PICK i \in meant : release' = device.releases[i]
  BY DEF CheckDevices, First
<1>3. /\ i \in DOMAIN device.releases
      /\ device.releases[i].version = form.version
      /\ form.component \in {None, device.releases[i].component}
  BY <1>2 DEF Meant
<1>4. release' \in ToSet(device.releases)
  BY <1>2, <1>3 DEF ToSet
<1>5. ASSUME form.component = None, NEW r \in ToSet(device.releases), r.version = form.version
      PROVE  r.component = release'.component
  <2>1. PICK j \in DOMAIN device.releases : r = device.releases[j]
    BY <1>5 DEF ToSet
  <2>2. j \in meant
    BY <1>5, <2>1 DEF Meant
  <2> QED
    BY <1>1, <1>2, <2>1, <2>2 DEF OneComponent
<1> HIDE DEF meant
<1> QED
  BY <1>1, <1>2, <1>3, <1>4, <1>5 DEF ReleaseIsMeant, Permitted, Flashable

(* Whatever fwupd reports after a change is one of the lists it may.       *)
LEMMA PageIsViewStep == PageIsView /\ [Next]_vars => PageIsView'
<1> SUFFICES ASSUME PageIsView, [Next]_vars PROVE PageIsView'
  OBVIOUS
<1> USE DEF PageIsView, worldVars, requestVars
<1>1. CASE Changes
  <2>1. CASE \E list \in Lists : device' = [device EXCEPT !.releases = list]
    <3>1. device' \in Devices
      BY <2>1 DEF Devices
    <3> QED
      BY <1>1, <3>1 DEF Changes, Devices
  <2>2. CASE device' \in [present : BOOLEAN, plugin : {device.plugin}, updatable : BOOLEAN,
                          releases : {device.releases}]
    <3>1. device' \in Devices
      BY <2>2 DEF Devices
    <3> QED
      BY <1>1, <3>1 DEF Changes
  <2>3. CASE updates' \in Lists \cup {None} /\ UNCHANGED device
    BY <1>1, <2>3 DEF Changes
  <2> QED
    BY <1>1, <2>1, <2>2, <2>3 DEF Changes
<1>2. CASE ListDevices
  BY <1>2 DEF ListDevices
<1>3. CASE ListUpdates
  <2>1. confirmed' \in Seq(Releases)
    BY <1>3, PolicyAssumption DEF ListUpdates
  <2> QED
    BY <1>3, <2>1 DEF ListUpdates
<1>4. CASE PressButton
  BY <1>4 DEF PressButton
<1>5. CASE PostAnything
  BY <1>5 DEF PostAnything
<1>6. CASE CheckDevices
  <2>1. stage' \in {"checking", "ambiguous", "refused"}
    BY <1>6 DEF CheckDevices
  <2> QED
    BY <1>6, <2>1 DEF CheckDevices
<1>7. CASE CheckUpdates
  <2>1. stage' \in {"flashed", "refused"}
    BY <1>7 DEF CheckUpdates
  <2> QED
    BY <1>7, <2>1 DEF CheckUpdates
<1>8. CASE UNCHANGED vars
  BY <1>8 DEF vars
<1> QED
  BY <1>1, <1>2, <1>3, <1>4, <1>5, <1>6, <1>7, <1>8 DEF Next

(* Every step preserves it, and every change of what fwupd reports does.   *)
LEMMA IInvStep == IInv /\ [Next]_vars => IInv'
<1> SUFFICES ASSUME IInv, [Next]_vars PROVE IInv'
  OBVIOUS
<1>0. PageIsView'
  BY PageIsViewStep DEF IInv
<1> USE <1>0 DEF IInv, FormIsButton, ReleaseIsConfirmed, Decided, worldVars, requestVars
<1>1. CASE Changes
  BY <1>1 DEF Changes, ReleaseIsMeant, Flashable
<1>2. CASE ListDevices
  BY <1>2 DEF ListDevices, ReleaseIsMeant
<1>3. CASE ListUpdates
  BY <1>3 DEF ListUpdates, ReleaseIsMeant
<1>4. CASE PressButton
  <2>1. /\ stage' = "posted" /\ form'.version = button'.version
        /\ form'.component = button'.component
    BY <1>4 DEF PressButton
  <2> QED
    BY <2>1 DEF ReleaseIsMeant
<1>5. CASE PostAnything
  BY <1>5 DEF PostAnything, ReleaseIsMeant
<1>6. CASE CheckDevices
  <2>1. /\ stage = "posted" /\ stage' \in {"checking", "ambiguous", "refused"}
        /\ UNCHANGED <<button, form>>
    BY <1>6 DEF CheckDevices
  <2>2. ReleaseIsMeant'
    BY <1>6, <2>1, Picked DEF ReleaseIsMeant
  <2> QED
    BY <2>1, <2>2
<1>7. CASE CheckUpdates
  <2>1. /\ stage = "checking" /\ stage' \in {"flashed", "refused"}
        /\ confirmed' = updates
        /\ stage' = "flashed" => /\ updates # None
                                 /\ _release_key(release) \in Keys(updates)
                                 /\ release.has = Evidence
        /\ UNCHANGED <<enabled, listed, button, form, release>>
    BY <1>7 DEF CheckUpdates
  <2>2. ReleaseIsMeant'
    BY <2>1 DEF ReleaseIsMeant, Flashable
  <2>3. ReleaseIsConfirmed'
    BY <2>1 DEF _release_key
  <2> QED
    BY <2>1, <2>2, <2>3
<1>8. CASE UNCHANGED vars
  BY <1>8 DEF vars, ReleaseIsMeant, Flashable, _release_key
<1> QED
  BY <1>1, <1>2, <1>3, <1>4, <1>5, <1>6, <1>7, <1>8 DEF Next

(* The inductive invariant.                                                *)
THEOREM Invariance == Spec => []IInv
BY IInvInit, IInvStep, PTL DEF Spec

(* The page shows every upgrade once, with a button if it is confirmed.    *)
THEOREM UpgradesAreShownOnce == Spec => []ShownOnce
<1>1. IInv => ShownOnce
  <2> SUFFICES ASSUME PageIsView, stage = "page" PROVE ShownOnce
    BY DEF IInv, ShownOnce
  <2>1. /\ listed.releases \in Seq(Releases) /\ confirmed \in Seq(Releases)
        /\ page = View(listed.releases, confirmed)
    BY PolicyAssumption DEF PageIsView, Devices
  <2> QED
    BY <2>1, ViewShowsOnce DEF ShownOnce
<1> QED
  BY <1>1, Invariance, PTL

(* What is flashed was allowed, confirmed, and can be verified.            *)
THEOREM OnlyAllowedIsFlashed == Spec => []FlashedIsAllowed
<1>1. IInv => FlashedIsAllowed
  BY DEF IInv, ReleaseIsMeant, ReleaseIsConfirmed, FlashedIsAllowed, Flashable, Decided
<1> QED
  BY <1>1, Invariance, PTL

(* What is flashed is what the button said, and never one of two.          *)
THEOREM ChosenIsFlashed == Spec => []FlashedIsChosen
<1>1. IInv => FlashedIsChosen
  BY DEF IInv, FormIsButton, ReleaseIsMeant, FlashedIsChosen, Decided
<1> QED
  BY <1>1, Invariance, PTL
=============================================================================
