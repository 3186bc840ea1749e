---------------------------- MODULE AccessProofs ----------------------------
(***************************************************************************)
(* Theorems about PasswordFile and Access, for every set of passwords,     *)
(* settings, addresses and tokens and every limit, lock and session time.  *)
(***************************************************************************)
EXTENDS Access, FiniteSetTheorems, TLAPS

(***************************************************************************)
(* The password                                                            *)
(***************************************************************************)

NewPassword == {"removing", "creating", "writing", "logging"}

(* A start that has a new password on its way has none to keep.            *)
NothingToKeep ==
    step \in NewPassword => password \in drawn /\ settled = None

(* What a server has run with from the file is in the file.                *)
SettledIsSaved == settled # None => file = settled

LoadIInv ==
    /\ LoadTypeOK
    /\ NothingToKeep
    /\ SettledIsSaved
    /\ NeverWithoutPassword
    /\ PasswordCanBeFound
    /\ SavedPasswordStays

(* It holds before the first start.                                        *)
LEMMA LoadInitIInv == LoadInit => LoadIInv
BY DEF LoadInit, LoadIInv, LoadTypeOK, NothingToKeep, SettledIsSaved, NeverWithoutPassword,
    PasswordCanBeFound, SavedPasswordStays, NewPassword

(* Every step of a start preserves it.                                     *)
LEMMA LoadStep == LoadIInv /\ [LoadNext]_loadVars => LoadIInv'
<1> SUFFICES ASSUME LoadIInv, [LoadNext]_loadVars PROVE LoadIInv'
  OBVIOUS
<1> USE PasswordAssumption DEF LoadIInv, LoadTypeOK, NothingToKeep, SettledIsSaved,
    NeverWithoutPassword, PasswordCanBeFound, SavedPasswordStays, NewPassword
<1>1. CASE Launch
  BY <1>1 DEF Launch, Serve
<1>2. CASE UseSaved
  BY <1>2 DEF UseSaved, Serve
<1>3. CASE Draw
  BY <1>3 DEF Draw
<1>4. CASE Unlink
  BY <1>4 DEF Unlink
<1>5. CASE CreateFile
  BY <1>5 DEF CreateFile
<1>6. CASE WritePassword
  BY <1>6 DEF WritePassword
<1>7. CASE SavingFails
  BY <1>7 DEF SavingFails
<1>8. CASE LogPassword
  BY <1>8 DEF LogPassword, Serve
<1>9. CASE Exit
  BY <1>9 DEF Exit
<1>10. CASE UNCHANGED loadVars
  BY <1>10 DEF loadVars
<1> QED
  BY <1>1, <1>2, <1>3, <1>4, <1>5, <1>6, <1>7, <1>8, <1>9, <1>10 DEF LoadNext

(* What is proved of the start of a process holds with the login on top of *)
(* it: nothing that Access adds touches the password.                      *)
LEMMA AccessLoads == [Next]_vars => [LoadNext]_loadVars
<1> SUFFICES ASSUME [Next]_vars PROVE LoadNext \/ UNCHANGED loadVars
  OBVIOUS
<1>1. CASE Starting
  BY <1>1 DEF Starting
<1>2. CASE Gone
  BY <1>2 DEF Gone, LoadNext
<1>3. CASE Tick
  BY <1>3 DEF Tick
<1>4. ASSUME NEW c \in Clients, TooManyAttempts(c) PROVE UNCHANGED loadVars
  BY <1>4 DEF TooManyAttempts
<1>5. ASSUME NEW c \in Clients, WrongPassword(c) PROVE UNCHANGED loadVars
  BY <1>5 DEF WrongPassword
<1>6. ASSUME NEW c \in Clients, RightToken(c) PROVE UNCHANGED loadVars
  BY <1>6 DEF RightToken
<1>7. ASSUME NEW c \in Clients, NEW t \in Tokens, login(c, t) PROVE UNCHANGED loadVars
  BY <1>7 DEF login
<1>8. ASSUME NEW t \in Tokens, logout(t) PROVE UNCHANGED loadVars
  BY <1>8 DEF logout
<1>9. CASE UNCHANGED vars
  BY <1>9 DEF vars
<1> QED
  BY <1>1, <1>2, <1>3, <1>4, <1>5, <1>6, <1>7, <1>8, <1>9 DEF Next

(* Access is a refinement of PasswordFile.                                 *)
THEOREM StartsAsLoaded == Spec => LoadSpec
<1>1. Init => LoadInit
  BY DEF Init
<1> QED
  BY <1>1, AccessLoads, PTL DEF Spec, LoadSpec

(* The inductive invariant of the password and its file, while anything    *)
(* may be going on around them.                                            *)
THEOREM LoadInvariance == Spec => []LoadIInv
<1>1. LoadSpec => []LoadIInv
  BY LoadInitIInv, LoadStep, PTL DEF LoadSpec
<1> QED
  BY <1>1, StartsAsLoaded, PTL

(* No server runs without a password, whatever a crash left in the file.   *)
THEOREM AlwaysAPassword == Spec => []NeverWithoutPassword
<1>1. LoadIInv => NeverWithoutPassword
  BY DEF LoadIInv
<1> QED
  BY <1>1, LoadInvariance, PTL

(* A password that the server made up is in the log or in the file.        *)
THEOREM PasswordIsSomewhere == Spec => []PasswordCanBeFound
<1>1. LoadIInv => PasswordCanBeFound
  BY DEF LoadIInv
<1> QED
  BY <1>1, LoadInvariance, PTL

(* A saved password that was in use is the password of every later server. *)
THEOREM SavedIsKept == Spec => []SavedPasswordStays
<1>1. LoadIInv => SavedPasswordStays
  BY DEF LoadIInv
<1> QED
  BY <1>1, LoadInvariance, PTL

-----------------------------------------------------------------------------
(***************************************************************************)
(* Sessions and the throttle                                               *)
(***************************************************************************)

AccessTypes ==
    /\ clock \in Time
    /\ expiry \in [Tokens -> Nat \cup {None}]
    /\ granted \in [Tokens -> Time \cup {None}]
    /\ ended \subseteq Tokens
    /\ failures \in [Clients -> 0 .. MaxFailures - 1]
    /\ locked_until \in [Clients -> Nat \cup {None}]
    /\ wrong \in [Clients -> Seq(Time)]
    /\ refused \in [Clients -> Time \cup {None}]

(* The table has the end of a session exactly while it may be asked for.   *)
SessionEnds ==
    \A t \in Tokens :
        /\ expiry[t] # None =>
            /\ granted[t] # None /\ t \notin ended
            /\ expiry[t] = granted[t] + SessionSeconds
        /\ granted[t] # None /\ t \notin ended /\ clock < granted[t] + SessionSeconds =>
            expiry[t] # None
        /\ t \in ended => granted[t] # None

(* The wrong passwords that are remembered are in the order of the clock.  *)
Sorted(s) ==
    /\ \A i \in 1 .. Len(s) : s[i] \in Nat /\ s[i] <= clock
    /\ \A i, j \in 1 .. Len(s) : i < j => s[i] <= s[j]

InOrder == \A c \in Clients : Len(wrong[c]) \in 0 .. MaxFailures + 1 /\ Sorted(wrong[c])

(* They end with the ones that are counted; the one before those locked    *)
(* the address, and its lock is on or was waited for.                      *)
CountedSinceLock ==
    \A c \in Clients :
        /\ failures[c] <= Len(wrong[c])
        /\ failures[c] < Len(wrong[c]) =>
            LET last == Len(wrong[c]) - failures[c] IN
            IF failures[c] = 0
            THEN locked_until[c] = wrong[c][last] + LockoutSeconds
            ELSE wrong[c][last + 1] >= wrong[c][last] + LockoutSeconds

(* A lock was earned, and whoever was told to wait was told enough.        *)
LocksAreEarned ==
    \A c \in Clients :
        locked_until[c] # None =>
            /\ Len(wrong[c]) >= MaxFailures
            /\ locked_until[c] = wrong[c][Len(wrong[c])] + LockoutSeconds
            /\ refused[c] # None => locked_until[c] <= refused[c] + LockoutSeconds

IInv ==
    /\ AccessTypes
    /\ SessionEnds
    /\ InOrder
    /\ CountedSinceLock
    /\ LocksAreEarned
    /\ WrongPasswordsPerMinute

(* The inductive invariant of the login holds at first.                    *)
LEMMA IInvInit == Init => IInv
<1> SUFFICES ASSUME Init PROVE IInv
  OBVIOUS
<1> USE AccessAssumption DEF Init, Empty
<1>1. AccessTypes
  BY DEF AccessTypes, Time
<1>2. SessionEnds
  BY DEF SessionEnds
<1>3. InOrder /\ CountedSinceLock /\ LocksAreEarned /\ WrongPasswordsPerMinute
  BY DEF InOrder, Sorted, CountedSinceLock, LocksAreEarned, WrongPasswordsPerMinute
<1> QED
  BY <1>1, <1>2, <1>3 DEF IInv

(* What Noted keeps: the last MaxFailures times, and the present one.      *)
LEMMA NotedKeeps ==
    ASSUME NEW s \in Seq(Time), clock \in Time, Len(s) \in 0 .. MaxFailures + 1
    PROVE  /\ Noted(s) \in Seq(Time)
           /\ Len(s) <= MaxFailures =>
                /\ Len(Noted(s)) = Len(s) + 1
                /\ \A i \in 1 .. Len(s) : Noted(s)[i] = s[i]
           /\ Len(s) = MaxFailures + 1 =>
                /\ Len(Noted(s)) = Len(s)
                /\ \A i \in 1 .. Len(s) - 1 : Noted(s)[i] = s[i + 1]
           /\ Noted(s)[Len(Noted(s))] = clock
<1> DEFINE all == Append(s, clock)
<1>1. /\ all \in Seq(Time) /\ Len(all) = Len(s) + 1
      /\ \A i \in 1 .. Len(s) : all[i] = s[i]
      /\ all[Len(s) + 1] = clock
  OBVIOUS
<1>2. CASE Len(s) <= MaxFailures
  <2>1. Noted(s) = all
    BY <1>1, <1>2, AccessAssumption DEF Noted
  <2> QED
    BY <1>1, <1>2, <2>1, AccessAssumption
<1>3. CASE Len(s) = MaxFailures + 1
  <2>1. Noted(s) = Tail(all)
    BY <1>1, <1>3, AccessAssumption DEF Noted
  <2>2. Tail(all) \in Seq(Time) /\ Len(Tail(all)) = Len(s)
    BY <1>1, <1>3, AccessAssumption
  <2>3. \A i \in 1 .. Len(s) : Tail(all)[i] = all[i + 1]
    BY <1>1, <1>3, AccessAssumption
  <2> QED
    BY <1>1, <1>3, <2>1, <2>2, <2>3, AccessAssumption
<1>4. Len(s) <= MaxFailures \/ Len(s) = MaxFailures + 1
  BY AccessAssumption
<1> QED
  BY <1>2, <1>3, <1>4

(* One more wrong password of an address that is not locked.               *)
LEMMA OneMoreWrong ==
    ASSUME NEW s \in Seq(Time), clock \in Time, Len(s) \in 0 .. MaxFailures + 1, Sorted(s),
           NEW f \in 0 .. MaxFailures - 1, f <= Len(s),
           f < Len(s) => IF f = 0 THEN s[Len(s)] + LockoutSeconds <= clock
                         ELSE s[Len(s) - f + 1] >= s[Len(s) - f] + LockoutSeconds
    PROVE  /\ Noted(s) \in Seq(Time) /\ Len(Noted(s)) \in 0 .. MaxFailures + 1
           /\ Sorted(Noted(s))
           /\ Noted(s)[Len(Noted(s))] = clock
           /\ f + 1 <= Len(Noted(s))
           /\ f + 1 < Len(Noted(s)) =>
                Noted(s)[Len(Noted(s)) - f] >= Noted(s)[Len(Noted(s)) - f - 1] + LockoutSeconds
           /\ Len(Noted(s)) > MaxFailures =>
                Noted(s)[MaxFailures + 1] - Noted(s)[1] >= LockoutSeconds
<1> DEFINE n == Noted(s)
<1>1. clock \in Nat
  BY AccessAssumption DEF Time
<1>2. CASE Len(s) <= MaxFailures
  <2>1. /\ n \in Seq(Time) /\ Len(n) = Len(s) + 1
        /\ \A i \in 1 .. Len(s) : n[i] = s[i]
        /\ n[Len(s) + 1] = clock
    BY <1>2, NotedKeeps
  <2> HIDE DEF n
  <2>2. Sorted(n)
    <3>1. \A i \in 1 .. Len(n) : i \in 1 .. Len(s) \/ i = Len(s) + 1
      BY <2>1
    <3>2. \A i \in 1 .. Len(s) : n[i] = s[i] /\ s[i] \in Nat /\ s[i] <= clock
      BY <2>1 DEF Sorted
    <3>3. \A i \in 1 .. Len(n) : n[i] \in Nat /\ n[i] <= clock
      BY <1>1, <2>1, <3>1, <3>2
    <3>4. ASSUME NEW i \in 1 .. Len(n), NEW j \in 1 .. Len(n), i < j PROVE n[i] <= n[j]
      <4>1. i \in 1 .. Len(s)
        BY <2>1, <3>4
      <4>2. CASE j = Len(s) + 1
        BY <2>1, <3>3, <4>2
      <4>3. CASE j \in 1 .. Len(s)
        BY <3>2, <3>4, <4>1, <4>3 DEF Sorted
      <4> QED
        BY <3>1, <4>2, <4>3
    <3> QED
      BY <3>3, <3>4 DEF Sorted
  <2>3. f + 1 < Len(n) => n[Len(n) - f] >= n[Len(n) - f - 1] + LockoutSeconds
    <3> SUFFICES ASSUME f < Len(s) PROVE n[Len(s) + 1 - f] >= n[Len(s) - f] + LockoutSeconds
      BY <2>1
    <3>1. Len(s) - f \in 1 .. Len(s) /\ n[Len(s) - f] = s[Len(s) - f]
      BY <2>1
    <3>2. CASE f = 0
      BY <2>1, <3>1, <3>2
    <3>3. CASE f # 0
      <4>1. Len(s) + 1 - f \in 1 .. Len(s) /\ Len(s) + 1 - f = Len(s) - f + 1
        BY <3>1, <3>3
      <4>2. n[Len(s) + 1 - f] = s[Len(s) - f + 1]
        BY <2>1, <4>1
      <4> QED
        BY <3>1, <3>3, <4>1, <4>2
    <3> QED
      BY <3>2, <3>3
  <2>4. Len(n) > MaxFailures => n[MaxFailures + 1] - n[1] >= LockoutSeconds
    <3> SUFFICES ASSUME Len(s) = MaxFailures PROVE n[Len(s) + 1] - n[1] >= LockoutSeconds
      BY <1>2, <2>1, AccessAssumption
    <3> DEFINE p == Len(s) - f
    <3>1. p \in 1 .. Len(s) /\ n[p] = s[p] /\ n[1] = s[1]
      BY <2>1, AccessAssumption
    <3>2. s[1] <= s[p] /\ s[p] \in Nat /\ s[1] \in Nat
      BY <3>1 DEF Sorted
    <3>3. s[p] + LockoutSeconds <= clock
      <4>1. CASE f = 0
        BY <3>1, <4>1, AccessAssumption
      <4>2. CASE f # 0
        <5>1. p + 1 \in 1 .. Len(s) /\ s[p + 1] >= s[p] + LockoutSeconds
          BY <3>1, <4>2, AccessAssumption
        <5>2. s[p + 1] \in Nat /\ s[p + 1] <= clock
          BY <5>1 DEF Sorted
        <5> QED
          BY <1>1, <3>2, <5>1, <5>2, AccessAssumption
      <4> QED
        BY <4>1, <4>2
    <3> QED
      BY <1>1, <2>1, <3>1, <3>2, <3>3, AccessAssumption
  <2> QED
    BY <1>2, <2>1, <2>2, <2>3, <2>4, AccessAssumption DEF n
<1>3. CASE Len(s) = MaxFailures + 1
  <2>1. /\ n \in Seq(Time) /\ Len(n) = Len(s)
        /\ \A i \in 1 .. Len(s) - 1 : n[i] = s[i + 1]
        /\ n[Len(s)] = clock
    BY <1>3, NotedKeeps
  <2> HIDE DEF n
  <2>2. Sorted(n)
    <3>1. \A i \in 1 .. Len(s) - 1 :
            i + 1 \in 1 .. Len(s) /\ n[i] = s[i + 1] /\ s[i + 1] \in Nat /\ s[i + 1] <= clock
      BY <1>3, <2>1, AccessAssumption DEF Sorted
    <3>2. \A i \in 1 .. Len(n) : i \in 1 .. Len(s) - 1 \/ i = Len(s)
      BY <1>3, <2>1, AccessAssumption
    <3>3. \A i \in 1 .. Len(n) : n[i] \in Nat /\ n[i] <= clock
      BY <1>1, <2>1, <3>1, <3>2
    <3>4. ASSUME NEW i \in 1 .. Len(n), NEW j \in 1 .. Len(n), i < j PROVE n[i] <= n[j]
      <4>1. i \in 1 .. Len(s) - 1
        BY <2>1, <3>2, <3>4
      <4>2. CASE j = Len(s)
        BY <2>1, <3>1, <4>1, <4>2
      <4>3. CASE j \in 1 .. Len(s) - 1
        <5>1. i + 1 < j + 1
          BY <3>4
        <5>2. s[i + 1] <= s[j + 1]
          BY <3>1, <4>1, <4>3, <5>1 DEF Sorted
        <5> QED
          BY <3>1, <4>1, <4>3, <5>2
      <4> QED
        BY <3>2, <4>2, <4>3
    <3> QED
      BY <3>3, <3>4 DEF Sorted
  <2>3. f + 1 < Len(n) => n[Len(n) - f] >= n[Len(n) - f - 1] + LockoutSeconds
    <3>1. CASE f = 0
      BY <1>1, <1>3, <2>1, <3>1, AccessAssumption
    <3>2. CASE f # 0
      BY <1>1, <1>3, <2>1, <3>2, AccessAssumption
    <3> QED
      BY <3>1, <3>2
  <2>4. n[MaxFailures + 1] - n[1] >= LockoutSeconds
    <3> DEFINE p == Len(s) - f
    <3>1. p \in 2 .. Len(s) /\ n[1] = s[2]
      BY <1>3, <2>1, AccessAssumption
    <3>2. s[2] <= s[p] /\ s[p] \in Nat /\ s[2] \in Nat
      <4>1. 2 \in 1 .. Len(s) /\ p \in 1 .. Len(s)
        BY <1>3, <3>1, AccessAssumption
      <4> QED
        BY <3>1, <4>1 DEF Sorted
    <3>3. s[p] + LockoutSeconds <= clock
      <4>1. CASE f = 0
        BY <1>3, <3>1, <4>1, AccessAssumption
      <4>2. CASE f # 0
        <5>1. p + 1 \in 1 .. Len(s) /\ s[p + 1] >= s[p] + LockoutSeconds
          BY <1>3, <3>1, <4>2, AccessAssumption
        <5>2. s[p + 1] \in Nat /\ s[p + 1] <= clock
          BY <5>1 DEF Sorted
        <5> QED
          BY <1>1, <3>2, <5>1, <5>2, AccessAssumption
      <4> QED
        BY <4>1, <4>2
    <3> QED
      BY <1>1, <1>3, <2>1, <3>1, <3>2, <3>3, AccessAssumption
  <2> QED
    BY <1>3, <2>1, <2>2, <2>3, <2>4, AccessAssumption DEF n
<1> QED
  BY <1>2, <1>3, AccessAssumption
-----------------------------------------------------------------------------
(***************************************************************************)
(* The steps                                                               *)
(***************************************************************************)

(* What the throttle's tables and the clock know of each other.            *)
Throttle == InOrder /\ CountedSinceLock /\ LocksAreEarned /\ WrongPasswordsPerMinute

(* The table of sessions changes in login, logout and Gone only; time goes *)
(* by.                                                                     *)
LEMMA SessionStep == AccessTypes /\ SessionEnds /\ [Next]_vars => SessionEnds'
<1> SUFFICES ASSUME AccessTypes, SessionEnds, [Next]_vars PROVE SessionEnds'
  OBVIOUS
<1> USE AccessAssumption DEF AccessTypes, SessionEnds, Time
<1>0. CASE UNCHANGED <<clock, sessionVars>>
  BY <1>0 DEF sessionVars
<1>1. CASE Starting
  BY <1>0, <1>1 DEF Starting
<1>2. CASE Gone
  BY <1>2 DEF Gone, Empty
<1>3. CASE Tick
  BY <1>3 DEF Tick, sessionVars
<1>4. ASSUME NEW c \in Clients, TooManyAttempts(c) \/ WrongPassword(c) \/ RightToken(c)
      PROVE  SessionEnds'
  BY <1>0, <1>4 DEF TooManyAttempts, WrongPassword, RightToken
<1>5. ASSUME NEW c \in Clients, NEW t \in Tokens, login(c, t) PROVE SessionEnds'
  <2>1. /\ \A u \in Tokens : u # t => expiry'[u] = IF Live(u) THEN expiry[u] ELSE None
        /\ expiry'[t] = clock + SessionSeconds
    BY <1>5 DEF login, create
  <2>2. granted[t] = None /\ granted' = [granted EXCEPT ![t] = clock] /\ UNCHANGED <<clock, ended>>
    BY <1>5 DEF login
  <2>3. ASSUME NEW u \in Tokens, u # t
        PROVE  expiry'[u] # None => expiry'[u] = expiry[u]
    BY <2>1, <2>3
  <2>4. ASSUME NEW u \in Tokens, u # t, granted[u] # None, u \notin ended,
               clock < granted[u] + SessionSeconds
        PROVE  expiry'[u] # None
    BY <2>1, <2>4 DEF Live
  <2>5. t \notin ended /\ granted'[t] = clock /\ clock # None /\ expiry'[t] # None
    BY <2>1, <2>2
  <2> QED
    BY <2>1, <2>2, <2>3, <2>4, <2>5
<1>6. ASSUME NEW t \in Tokens, logout(t) PROVE SessionEnds'
  BY <1>6 DEF logout, Live
<1>7. CASE UNCHANGED vars
  BY <1>0, <1>7 DEF vars
<1> QED
  BY <1>1, <1>2, <1>3, <1>4, <1>5, <1>6, <1>7 DEF Next

(* An address that is not locked and gives a wrong password; the others    *)
(* keep what is known of them, or everything is forgotten.                 *)
LEMMA WrongStep ==
    ASSUME AccessTypes, Throttle, NEW c \in Clients, WrongPassword(c)
    PROVE  Throttle' /\ AccessTypes'
<1> USE AccessAssumption
<1> DEFINE before == IF Full THEN [x \in Clients |-> 0] ELSE failures
           locks  == IF Full THEN Empty(Clients) ELSE Unlocked(c)
           known  == IF Full THEN [x \in Clients |-> << >>] ELSE wrong
           s      == known[c]
           f      == before[c]
           out    == f + 1 >= MaxFailures
<1>1. /\ failures' = [before EXCEPT ![c] = Counted(@)]
      /\ locked_until' = [locks EXCEPT ![c] = IF out THEN clock + LockoutSeconds ELSE None]
      /\ wrong' = [known EXCEPT ![c] = Noted(@)]
      /\ refused' = [refused EXCEPT ![c] = None]
      /\ UNCHANGED <<clock, sessionVars>>
  BY DEF WrongPassword, record_failure
<1>2. /\ before \in [Clients -> 0 .. MaxFailures - 1]
      /\ locks \in [Clients -> Nat \cup {None}]
      /\ known \in [Clients -> Seq(Time)]
      /\ clock \in Time /\ clock \in Nat
  BY DEF AccessTypes, Unlocked, Empty, Time
<1>3. \A x \in Clients :
        \/ before[x] = 0 /\ known[x] = << >> /\ locks[x] = None
        \/ /\ ~Full /\ before[x] = failures[x] /\ known[x] = wrong[x]
           /\ x # c => locks[x] = locked_until[x]
  BY DEF Empty, Unlocked, AccessTypes
<1>4. /\ Len(s) \in 0 .. MaxFailures + 1 /\ Sorted(s) /\ f <= Len(s)
      /\ f < Len(s) => IF f = 0 THEN s[Len(s)] + LockoutSeconds <= clock
                       ELSE s[Len(s) - f + 1] >= s[Len(s) - f] + LockoutSeconds
  <2>1. CASE f = 0 /\ s = << >>
    BY <2>1 DEF Sorted
  <2>2. CASE f = failures[c] /\ s = wrong[c]
    <3>1. Len(s) \in 0 .. MaxFailures + 1 /\ Sorted(s) /\ f <= Len(s)
      BY <2>2 DEF Throttle, InOrder, CountedSinceLock
    <3>2. ASSUME f < Len(s), f = 0 PROVE s[Len(s)] + LockoutSeconds <= clock
      <4>1. locked_until[c] = wrong[c][Len(wrong[c])] + LockoutSeconds
        BY <2>2, <3>1, <3>2 DEF Throttle, CountedSinceLock
      <4>2. wrong[c][Len(wrong[c])] \in Nat
        BY <2>2, <3>1, <3>2 DEF Sorted
      <4>3. ~(locked_until[c] # None /\ locked_until[c] > clock)
        BY DEF WrongPassword, Blocked
      <4> QED
        BY <1>2, <2>2, <4>1, <4>2, <4>3
    <3>3. ASSUME f < Len(s), f # 0
          PROVE  s[Len(s) - f + 1] >= s[Len(s) - f] + LockoutSeconds
      BY <2>2, <3>3 DEF Throttle, CountedSinceLock
    <3> QED
      BY <3>1, <3>2, <3>3
  <2> QED
    BY <1>3, <2>1, <2>2
<1> DEFINE n == Noted(s)
<1>5. /\ n \in Seq(Time) /\ Len(n) \in 0 .. MaxFailures + 1
      /\ Sorted(n)
      /\ n[Len(n)] = clock
      /\ f + 1 <= Len(n)
      /\ f + 1 < Len(n) => n[Len(n) - f] >= n[Len(n) - f - 1] + LockoutSeconds
      /\ Len(n) > MaxFailures => n[MaxFailures + 1] - n[1] >= LockoutSeconds
  <2>1. s \in Seq(Time) /\ f \in 0 .. MaxFailures - 1
    BY <1>2
  <2> HIDE DEF s, f
  <2> QED
    BY <1>2, <1>4, <2>1, OneMoreWrong
<1>6. /\ wrong'[c] = n /\ refused'[c] = None
      /\ failures'[c] = (IF out THEN 0 ELSE f + 1)
      /\ locked_until'[c] = (IF out THEN clock + LockoutSeconds ELSE None)
  BY <1>1, <1>2 DEF Counted, AccessTypes
<1>7. \A x \in Clients : x # c =>
        /\ wrong'[x] = known[x] /\ failures'[x] = before[x] /\ locked_until'[x] = locks[x]
        /\ refused'[x] = refused[x]
  BY <1>1, <1>2 DEF AccessTypes
<1>8. f \in 0 .. MaxFailures - 1
  BY <1>2
<1> HIDE DEF n, f, s, before, locks, known
<1>9. AccessTypes'
  <2>1. Counted(f) \in 0 .. MaxFailures - 1
    BY <1>8 DEF Counted
  <2>2. failures' \in [Clients -> 0 .. MaxFailures - 1]
    BY <1>1, <1>2, <2>1 DEF f
  <2>3. wrong' \in [Clients -> Seq(Time)]
    BY <1>1, <1>2, <1>5 DEF n, s
  <2>4. locked_until' \in [Clients -> Nat \cup {None}]
    BY <1>1, <1>2
  <2> QED
    BY <1>1, <2>2, <2>3, <2>4 DEF AccessTypes, sessionVars
<1>10. ASSUME NEW x \in Clients, x # c
       PROVE  \/ wrong'[x] = << >> /\ failures'[x] = 0 /\ locked_until'[x] = None
              \/ /\ wrong'[x] = wrong[x] /\ failures'[x] = failures[x]
                 /\ locked_until'[x] = locked_until[x] /\ refused'[x] = refused[x]
  BY <1>3, <1>7, <1>10
<1>11. InOrder'
  <2> SUFFICES ASSUME NEW x \in Clients
               PROVE  Len(wrong'[x]) \in 0 .. MaxFailures + 1 /\ Sorted(wrong[x])'
    BY DEF InOrder
  <2>1. CASE x = c
    BY <1>1, <1>5, <1>6, <2>1 DEF Sorted
  <2>2. CASE x # c
    BY <1>1, <1>10, <2>2 DEF Throttle, InOrder, Sorted
  <2> QED
    BY <2>1, <2>2
<1>12. CountedSinceLock'
  <2> SUFFICES ASSUME NEW x \in Clients
               PROVE  /\ failures'[x] <= Len(wrong'[x])
                      /\ failures'[x] < Len(wrong'[x]) =>
                           IF failures'[x] = 0
                           THEN locked_until'[x] =
                                wrong'[x][Len(wrong'[x]) - failures'[x]] + LockoutSeconds
                           ELSE wrong'[x][Len(wrong'[x]) - failures'[x] + 1] >=
                                wrong'[x][Len(wrong'[x]) - failures'[x]] + LockoutSeconds
    BY DEF CountedSinceLock
  <2>1. CASE x = c /\ out
    BY <1>5, <1>6, <2>1
  <2>2. CASE x = c /\ ~out
    <3>1. failures'[x] = f + 1 /\ f + 1 # 0 /\ wrong'[x] = n
      BY <1>6, <1>8, <2>2
    <3>2. Len(n) - (f + 1) + 1 = Len(n) - f /\ Len(n) - (f + 1) = Len(n) - f - 1
      BY <1>5, <1>8
    <3>3. f + 1 <= Len(n)
      BY <1>5
    <3>4. f + 1 < Len(n) => n[Len(n) - (f + 1) + 1] >= n[Len(n) - (f + 1)] + LockoutSeconds
      BY <1>5, <3>2
    <3> QED
      BY <3>1, <3>3, <3>4
  <2>3. CASE x # c
    BY <1>10, <2>3 DEF Throttle, CountedSinceLock
  <2> QED
    BY <2>1, <2>2, <2>3
<1>13. LocksAreEarned'
  <2> SUFFICES ASSUME NEW x \in Clients, locked_until'[x] # None
               PROVE  /\ Len(wrong'[x]) >= MaxFailures
                      /\ locked_until'[x] = wrong'[x][Len(wrong'[x])] + LockoutSeconds
                      /\ refused'[x] # None =>
                           locked_until'[x] <= refused'[x] + LockoutSeconds
    BY DEF LocksAreEarned
  <2>1. CASE x = c
    BY <1>5, <1>6, <1>8, <2>1
  <2>2. CASE x # c
    BY <1>10, <2>2 DEF Throttle, LocksAreEarned
  <2> QED
    BY <2>1, <2>2
<1>14. WrongPasswordsPerMinute'
  <2> SUFFICES ASSUME NEW x \in Clients, Len(wrong'[x]) > MaxFailures
               PROVE  wrong'[x][MaxFailures + 1] - wrong'[x][1] >= LockoutSeconds
    BY DEF WrongPasswordsPerMinute
  <2>1. CASE x = c
    BY <1>5, <1>6, <2>1
  <2>2. CASE x # c
    BY <1>10, <2>2 DEF Throttle, WrongPasswordsPerMinute
  <2> QED
    BY <2>1, <2>2
<1> QED
  BY <1>9, <1>11, <1>12, <1>13, <1>14 DEF Throttle

(* Every step keeps the variables well-typed.                              *)
LEMMA TypeStep == AccessTypes /\ Throttle /\ [Next]_vars => AccessTypes'
<1> SUFFICES ASSUME AccessTypes, Throttle, [Next]_vars PROVE AccessTypes'
  OBVIOUS
<1> USE AccessAssumption DEF AccessTypes, Time, sessionVars, throttleVars
<1>1. CASE Starting
  BY <1>1 DEF Starting
<1>2. CASE Gone
  BY <1>2 DEF Gone, Empty
<1>3. CASE Tick
  BY <1>3 DEF Tick
<1>4. ASSUME NEW c \in Clients, TooManyAttempts(c) PROVE AccessTypes'
  BY <1>4 DEF TooManyAttempts
<1>5. ASSUME NEW c \in Clients, WrongPassword(c) PROVE AccessTypes'
  BY <1>5, WrongStep
<1>6. ASSUME NEW c \in Clients, RightToken(c) PROVE AccessTypes'
  BY <1>6 DEF RightToken, record_success, Unlocked
<1>7. ASSUME NEW c \in Clients, NEW t \in Tokens, login(c, t) PROVE AccessTypes'
  <2>1. expiry' \in [Tokens -> Nat \cup {None}] /\ granted' \in [Tokens -> Time \cup {None}]
    BY <1>7 DEF login, create
  <2>2. failures' \in [Clients -> 0 .. MaxFailures - 1] /\ wrong' \in [Clients -> Seq(Time)]
        /\ locked_until' \in [Clients -> Nat \cup {None}]
    BY <1>7 DEF login, record_success, Unlocked
  <2> QED
    BY <1>7, <2>1, <2>2 DEF login
<1>8. ASSUME NEW t \in Tokens, logout(t) PROVE AccessTypes'
  BY <1>8 DEF logout
<1>9. CASE UNCHANGED vars
  BY <1>9 DEF vars
<1> QED
  BY <1>1, <1>2, <1>3, <1>4, <1>5, <1>6, <1>7, <1>8, <1>9 DEF Next

(* A step that only lets an address go keeps what is known of the others.  *)
LEMMA ClearedStep ==
    ASSUME AccessTypes, Throttle, NEW c \in Clients, UNCHANGED <<clock, refused>>, record_success(c)
    PROVE  Throttle'
<1>1. /\ failures'[c] = 0 /\ locked_until'[c] = None /\ wrong'[c] = << >>
      /\ \A x \in Clients : x # c =>
            /\ failures'[x] = failures[x] /\ locked_until'[x] = locked_until[x]
            /\ wrong'[x] = wrong[x]
  BY DEF AccessTypes, record_success, Unlocked
<1>2. InOrder'
  <2> SUFFICES ASSUME NEW x \in Clients
               PROVE  Len(wrong'[x]) \in 0 .. MaxFailures + 1 /\ Sorted(wrong[x])'
    BY DEF InOrder
  <2>1. CASE x = c
    BY <1>1, <2>1, AccessAssumption DEF Sorted
  <2>2. CASE x # c
    BY <1>1, <2>2 DEF Throttle, InOrder, Sorted
  <2> QED
    BY <2>1, <2>2
<1>3. CountedSinceLock'
  <2> SUFFICES ASSUME NEW x \in Clients
               PROVE  /\ failures'[x] <= Len(wrong'[x])
                      /\ failures'[x] < Len(wrong'[x]) =>
                          LET last == Len(wrong'[x]) - failures'[x] IN
                          IF failures'[x] = 0
                          THEN locked_until'[x] = wrong'[x][last] + LockoutSeconds
                          ELSE wrong'[x][last + 1] >= wrong'[x][last] + LockoutSeconds
    BY DEF CountedSinceLock
  <2>1. CASE x = c
    BY <1>1, <2>1
  <2>2. CASE x # c
    BY <1>1, <2>2 DEF Throttle, CountedSinceLock
  <2> QED
    BY <2>1, <2>2
<1>4. LocksAreEarned'
  <2> SUFFICES ASSUME NEW x \in Clients, locked_until'[x] # None
               PROVE  /\ Len(wrong'[x]) >= MaxFailures
                      /\ locked_until'[x] = wrong'[x][Len(wrong'[x])] + LockoutSeconds
                      /\ refused'[x] # None => locked_until'[x] <= refused'[x] + LockoutSeconds
    BY DEF LocksAreEarned
  <2>1. x # c
    BY <1>1
  <2> QED
    BY <1>1, <2>1 DEF Throttle, LocksAreEarned
<1>5. WrongPasswordsPerMinute'
  BY <1>1, AccessAssumption DEF Throttle, WrongPasswordsPerMinute
<1> QED
  BY <1>2, <1>3, <1>4, <1>5 DEF Throttle

(* Every step keeps the counts, the locks and the remembered wrong         *)
(* passwords in line.                                                      *)
LEMMA ThrottleStep == AccessTypes /\ Throttle /\ [Next]_vars => Throttle'
<1> SUFFICES ASSUME AccessTypes, Throttle, [Next]_vars PROVE Throttle'
  OBVIOUS
<1>0. CASE UNCHANGED <<clock, throttleVars>>
  BY <1>0 DEF throttleVars, Throttle, InOrder, Sorted, CountedSinceLock, LocksAreEarned,
      WrongPasswordsPerMinute
<1>1. CASE Starting
  BY <1>0, <1>1 DEF Starting
<1>2. CASE Gone
  <2>1. \A c \in Clients : wrong'[c] = << >> /\ failures'[c] = 0 /\ locked_until'[c] = None
    BY <1>2 DEF Gone, Empty
  <2> QED
    BY <2>1, AccessAssumption DEF Throttle, InOrder, Sorted, CountedSinceLock, LocksAreEarned,
        WrongPasswordsPerMinute
<1>3. CASE Tick
  <2>1. clock \in Nat /\ clock' = clock + 1 /\ UNCHANGED throttleVars
    BY <1>3, AccessAssumption DEF Tick, AccessTypes, Time
  <2>2. InOrder'
    BY <2>1 DEF throttleVars, Throttle, InOrder, Sorted
  <2> QED
    BY <2>1, <2>2 DEF throttleVars, Throttle, CountedSinceLock, LocksAreEarned,
        WrongPasswordsPerMinute
<1>4. ASSUME NEW c \in Clients, TooManyAttempts(c) PROVE Throttle'
  <2>1. /\ UNCHANGED <<clock, failures, locked_until, wrong>>
        /\ refused' = [refused EXCEPT ![c] = IF @ = None THEN clock ELSE @]
    BY <1>4 DEF TooManyAttempts
  <2>2. InOrder' /\ CountedSinceLock' /\ WrongPasswordsPerMinute'
    BY <2>1 DEF Throttle, InOrder, Sorted, CountedSinceLock, WrongPasswordsPerMinute
  <2>3. LocksAreEarned'
    <3> SUFFICES ASSUME NEW x \in Clients, locked_until[x] # None, refused'[x] # None
                 PROVE  locked_until[x] <= refused'[x] + LockoutSeconds
      BY <2>1 DEF Throttle, LocksAreEarned
    <3>1. CASE refused'[x] = refused[x]
      BY <3>1 DEF Throttle, LocksAreEarned
    <3>2. CASE refused'[x] = clock
      <4>1. Len(wrong[x]) >= MaxFailures
            /\ locked_until[x] = wrong[x][Len(wrong[x])] + LockoutSeconds
        BY DEF Throttle, LocksAreEarned
      <4>2. wrong[x][Len(wrong[x])] \in Nat /\ wrong[x][Len(wrong[x])] <= clock
        BY <4>1, AccessAssumption DEF Throttle, InOrder, Sorted
      <4> QED
        BY <3>2, <4>1, <4>2, AccessAssumption DEF AccessTypes, Time
    <3> QED
      BY <2>1, <3>1, <3>2 DEF AccessTypes
  <2> QED
    BY <2>2, <2>3 DEF Throttle
<1>5. ASSUME NEW c \in Clients, WrongPassword(c) PROVE Throttle'
  BY <1>5, WrongStep
<1>6. ASSUME NEW c \in Clients, RightToken(c) PROVE Throttle'
  BY <1>6, ClearedStep DEF RightToken
<1>7. ASSUME NEW c \in Clients, NEW t \in Tokens, login(c, t) PROVE Throttle'
  BY <1>7, ClearedStep DEF login
<1>8. ASSUME NEW t \in Tokens, logout(t) PROVE Throttle'
  BY <1>0, <1>8 DEF logout
<1>9. CASE UNCHANGED vars
  BY <1>0, <1>9 DEF vars
<1> QED
  BY <1>1, <1>2, <1>3, <1>4, <1>5, <1>6, <1>7, <1>8, <1>9 DEF Next

(* Every step preserves the inductive invariant of the login.              *)
LEMMA IInvStep == IInv /\ [Next]_vars => IInv'
BY TypeStep, SessionStep, ThrottleStep DEF IInv, Throttle

(* The inductive invariant of sessions and throttle.                       *)
THEOREM Invariance == Spec => []IInv
BY IInvInit, IInvStep, PTL DEF Spec

(* Every reachable state is well-typed; a count never reaches the limit.   *)
THEOREM TypeCorrect == Spec => []TypeOK
<1>1. IInv /\ LoadIInv => TypeOK
  BY DEF IInv, LoadIInv, AccessTypes, TypeOK
<1> QED
  BY <1>1, Invariance, LoadInvariance, PTL

(* A login lasts exactly as long as it should.                             *)
THEOREM LoginLasts == Spec => []SessionIffGranted
<1>1. IInv => SessionIffGranted
  <2> SUFFICES ASSUME IInv, NEW t \in Tokens
               PROVE  Live(t) <=> /\ granted[t] # None /\ t \notin ended
                                  /\ clock < granted[t] + SessionSeconds
    BY DEF SessionIffGranted
  <2>1. clock \in Nat /\ (granted[t] # None => granted[t] \in Nat)
        /\ (expiry[t] # None => expiry[t] \in Nat)
    BY AccessAssumption DEF IInv, AccessTypes, Time
  <2> QED
    BY <2>1, AccessAssumption DEF IInv, SessionEnds, Live
<1> QED
  BY <1>1, Invariance, PTL

(* At most MAX_FAILURES wrong passwords are looked at per lockout time.    *)
THEOREM GuessesAreBounded == Spec => []WrongPasswordsPerMinute
<1>1. IInv => WrongPasswordsPerMinute
  BY DEF IInv
<1> QED
  BY <1>1, Invariance, PTL

(* Only an address's own wrong passwords in a row lock it.                 *)
THEOREM LockIsEarned == Spec => []LockoutIsEarned
<1>1. IInv => LockoutIsEarned
  BY DEF IInv, LocksAreEarned, LockoutIsEarned, Blocked
<1> QED
  BY <1>1, Invariance, PTL

(* Who waits for the time that the first 429 named is not refused again.   *)
THEOREM WaitingHelps == Spec => []RetryAfterIsEnough
<1>1. IInv => RetryAfterIsEnough
  <2> SUFFICES ASSUME IInv, NEW c \in Clients, refused[c] # None,
                      clock >= refused[c] + LockoutSeconds, Blocked(c)
               PROVE  FALSE
    BY DEF RetryAfterIsEnough
  <2>1. clock \in Nat /\ refused[c] \in Nat /\ locked_until[c] \in Nat
    BY AccessAssumption DEF IInv, AccessTypes, Time, Blocked
  <2>2. locked_until[c] <= refused[c] + LockoutSeconds /\ locked_until[c] > clock
    BY DEF IInv, LocksAreEarned, Blocked
  <2> QED
    BY <2>1, <2>2, AccessAssumption
<1> QED
  BY <1>1, Invariance, PTL
-----------------------------------------------------------------------------
(***************************************************************************)
(* The limit of the table of failures                                      *)
(***************************************************************************)

(* A set of addresses within another one and c has at most one more.       *)
LEMMA OneMoreAddress ==
  ASSUME NEW S \in SUBSET Clients, NEW T \in SUBSET Clients, NEW c \in Clients,
         T \subseteq S \cup {c}
  PROVE  /\ Cardinality(S) \in Nat /\ Cardinality(T) \in Nat
         /\ Cardinality(T) <= Cardinality(S) + 1
<1>1. IsFiniteSet(S) /\ IsFiniteSet(T) /\ Cardinality(S) \in Nat /\ Cardinality(T) \in Nat
  BY AccessAssumption, FS_Subset, FS_CardinalityType
<1>2. /\ IsFiniteSet(S \cup {c})
      /\ Cardinality(S \cup {c}) \in {Cardinality(S), Cardinality(S) + 1}
  BY <1>1, FS_AddElement
<1>3. Cardinality(T) <= Cardinality(S \cup {c})
  BY <1>2, FS_Subset
<1> QED
  BY <1>1, <1>2, <1>3

(* A set of addresses that grows by none keeps within the limit.           *)
LEMMA NoMoreAddresses ==
  ASSUME NEW S \in SUBSET Clients, NEW T \in SUBSET S, Cardinality(S) <= MaxTracked
  PROVE  Cardinality(T) <= MaxTracked
<1>1. /\ IsFiniteSet(S) /\ IsFiniteSet(T) /\ Cardinality(T) <= Cardinality(S)
      /\ Cardinality(S) \in Nat /\ Cardinality(T) \in Nat
  BY AccessAssumption, FS_Subset, FS_CardinalityType
<1> QED
  BY <1>1, AccessAssumption

(* The entries are within the limit after every step: a wrong password     *)
(* adds one at most, and none to a full table that it did not empty first. *)
LEMMA LimitStep ==
  AccessTypes /\ FailuresWithinLimit /\ [Next]_vars => FailuresWithinLimit'
<1> SUFFICES ASSUME AccessTypes, FailuresWithinLimit, [Next]_vars PROVE FailuresWithinLimit'
  OBVIOUS
<1>1. /\ failures \in [Clients -> 0 .. MaxFailures - 1]
      /\ Tracked \in SUBSET Clients /\ Tracked' \in SUBSET Clients
      /\ Tracked' = {x \in Clients : failures'[x] > 0}
  BY DEF AccessTypes, Tracked
<1>2. ASSUME \A x \in Clients : failures'[x] > 0 => failures[x] > 0
      PROVE  FailuresWithinLimit'
  <2>1. Tracked' \subseteq Tracked
    BY <1>1, <1>2 DEF Tracked
  <2> QED
    BY <1>1, <2>1, NoMoreAddresses DEF FailuresWithinLimit
<1>3. ASSUME NEW c \in Clients, WrongPassword(c) PROVE FailuresWithinLimit'
  <2>1. failures' = [(IF Full THEN [x \in Clients |-> 0] ELSE failures)
                        EXCEPT ![c] = Counted(@)]
    BY <1>3 DEF WrongPassword, record_failure
  <2>2. CASE Full
    <3>1. \A x \in Clients : x # c => failures'[x] = 0
      BY <2>1, <2>2
    <3>2. Tracked' \subseteq {} \cup {c}
      BY <1>1, <3>1
    <3>3. Cardinality(Tracked') \in Nat /\ Cardinality(Tracked') <= Cardinality({}) + 1
      BY <1>1, <3>2, OneMoreAddress
    <3>4. Cardinality({}) = 0
      BY FS_EmptySet
    <3> QED
      BY <3>3, <3>4, AccessAssumption DEF FailuresWithinLimit
  <2>3. CASE ~Full
    <3>1. \A x \in Clients : x # c => failures'[x] = failures[x]
      BY <1>1, <2>1, <2>3
    <3>2. Tracked' \subseteq Tracked \cup {c}
      BY <1>1, <3>1 DEF Tracked
    <3>3. /\ Cardinality(Tracked) \in Nat /\ Cardinality(Tracked') \in Nat
          /\ Cardinality(Tracked') <= Cardinality(Tracked) + 1
      BY <1>1, <3>2, OneMoreAddress
    <3>4. Cardinality(Tracked) < MaxTracked
      BY <2>3, <3>3, AccessAssumption DEF Full
    <3> QED
      BY <3>3, <3>4, AccessAssumption DEF FailuresWithinLimit
  <2> QED
    BY <2>2, <2>3
<1>4. CASE UNCHANGED failures
  BY <1>2, <1>4
<1>5. CASE Gone
  BY <1>2, <1>5 DEF Gone
<1>6. ASSUME NEW c \in Clients, record_success(c) PROVE FailuresWithinLimit'
  BY <1>1, <1>2, <1>6 DEF record_success
<1>7. \/ UNCHANGED failures
      \/ Gone
      \/ \E c \in Clients : WrongPassword(c) \/ record_success(c)
  BY DEF Next, vars, throttleVars, Starting, Tick, TooManyAttempts, RightToken, login, logout
<1> QED
  BY <1>3, <1>4, <1>5, <1>6, <1>7

(* The table of failures never has more entries than its limit, however    *)
(* many addresses try, and although the limit is looked at only before an  *)
(* entry is added.                                                         *)
THEOREM FailuresAreLimited == Spec => []FailuresWithinLimit
<1>1. Init => FailuresWithinLimit
  <2> SUFFICES ASSUME Init PROVE FailuresWithinLimit
    OBVIOUS
  <2>1. Tracked = {}
    BY DEF Init, Tracked
  <2> QED
    BY <2>1, FS_EmptySet, AccessAssumption DEF FailuresWithinLimit
<1>2. IInv => AccessTypes
  BY DEF IInv
<1> QED
  BY <1>1, <1>2, Invariance, LimitStep, PTL DEF Spec
=============================================================================
