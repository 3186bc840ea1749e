------------------------------- MODULE Access -------------------------------
(***************************************************************************)
(* The login of the running server: SessionStore, LoginThrottle, the       *)
(* middleware in front of every route, and the routes /login and /logout,  *)
(* over the password that PasswordFile settles on.  All of this is in      *)
(* memory and gone with the process.                                       *)
(*                                                                         *)
(* None of the handlers here awaits anything, so one action is the whole   *)
(* of one.  A request that is refused as cross-site, or that comes with    *)
(* neither a session nor a password, changes nothing and has no action.    *)
(***************************************************************************)
EXTENDS PasswordFile, Sequences, FiniteSets

CONSTANTS
    Clients,            \* addresses
    Tokens,             \* what secrets.token_urlsafe gives, each of them once
    MaxFailures,        \* MAX_FAILURES
    LockoutSeconds,     \* LOCKOUT_SECONDS, in clock ticks
    SessionSeconds,     \* SESSION_SECONDS, in clock ticks
    MaxTracked,         \* _MAX_TRACKED_CLIENTS
    MaxClock            \* bound: the clock stops here

ASSUME AccessAssumption ==
    /\ MaxFailures \in Nat \ {0}
    /\ LockoutSeconds \in Nat \ {0}
    /\ SessionSeconds \in Nat \ {0}
    /\ MaxTracked \in Nat \ {0}
    /\ MaxClock \in Nat
    /\ None \notin Int
    /\ IsFiniteSet(Clients)

VARIABLES
    clock,          \* time.monotonic
    expiry,         \* SessionStore._expiry, None for a token it does not hold
    failures,       \* LoginThrottle._failures, 0 for an address without an entry
    locked_until,   \* LoginThrottle._locked_until
    granted,        \* when a token was handed out
    ended,          \* the tokens of a log-out and of processes that are gone
    wrong,          \* the times of wrong passwords in a row, per address
    refused         \* when an address was told to wait, since its last wrong password

sessionVars == <<expiry, granted, ended>>
throttleVars == <<failures, locked_until, wrong, refused>>
vars == <<loadVars, clock, sessionVars, throttleVars>>

Time == 0 .. MaxClock

Empty(S) == [x \in S |-> None]

Init ==
    /\ LoadInit
    /\ clock = 0
    /\ expiry = Empty(Tokens)
    /\ granted = Empty(Tokens)
    /\ ended = {}
    /\ failures = [c \in Clients |-> 0]
    /\ locked_until = Empty(Clients)
    /\ wrong = [c \in Clients |-> << >>]
    /\ refused = Empty(Clients)

-----------------------------------------------------------------------------
(***************************************************************************)
(* LoginThrottle                                                           *)
(***************************************************************************)

(* The clock is not yet at the end of the lock.                            *)
Blocked(c) == locked_until[c] # None /\ locked_until[c] > clock

(* `blocked` forgets a lock that is over.                                  *)
Unlocked(c) == [locked_until EXCEPT ![c] = None]

Tracked == {c \in Clients : failures[c] > 0}

(* The last MaxFailures + 1 wrong passwords are enough to look at.         *)
Noted(times) ==
    LET all == Append(times, clock)
    IN  IF Len(all) > MaxFailures + 1 THEN Tail(all) ELSE all

Full == Cardinality(Tracked) >= MaxTracked

(* Mutant: the count goes on while the address is locked.                  *)
Counted_On(n) == n + 1

(* The count after a wrong password; the one that locks drops the entry.   *)
Counted(n) == IF n + 1 >= MaxFailures THEN 0 ELSE n + 1

(* record_failure.  A table that is full is emptied, and with it the       *)
(* memory of every address, the one at hand included.                      *)
record_failure(c) ==
    LET before   == IF Full THEN [x \in Clients |-> 0] ELSE failures
        locks    == IF Full THEN Empty(Clients) ELSE Unlocked(c)
        known    == IF Full THEN [x \in Clients |-> << >>] ELSE wrong
        lock_out == before[c] + 1 >= MaxFailures
    IN  /\ failures' = [before EXCEPT ![c] = Counted(@)]
        /\ locked_until' = [locks EXCEPT ![c] = IF lock_out THEN clock + LockoutSeconds ELSE None]
        /\ wrong' = [known EXCEPT ![c] = Noted(@)]

(* Mutant: wrong passwords of long ago still count after a right one.      *)
record_success_Remembers(c) ==
    /\ locked_until' = Unlocked(c)
    /\ wrong' = [wrong EXCEPT ![c] = << >>]
    /\ UNCHANGED failures

record_success(c) ==
    /\ failures' = [failures EXCEPT ![c] = 0]
    /\ locked_until' = Unlocked(c)
    /\ wrong' = [wrong EXCEPT ![c] = << >>]

-----------------------------------------------------------------------------
(***************************************************************************)
(* Requests with a password: POST /login, and GET /api/status with a       *)
(* Bearer token and no session                                             *)
(***************************************************************************)

Serving == step = "serving"

(* Mutant: every attempt begins a new wait.                                *)
TooManyAttempts_Extends(c) ==
    /\ Serving
    /\ Blocked(c)
    /\ refused' = [refused EXCEPT ![c] = IF @ = None THEN clock ELSE @]
    /\ locked_until' = [locked_until EXCEPT ![c] = clock + LockoutSeconds]
    /\ UNCHANGED <<loadVars, clock, sessionVars, failures, wrong>>

(* 429, "Wait a minute and try again".                                     *)
TooManyAttempts(c) ==
    /\ Serving
    /\ Blocked(c)
    /\ refused' = [refused EXCEPT ![c] = IF @ = None THEN clock ELSE @]
    /\ UNCHANGED <<loadVars, clock, sessionVars, failures, locked_until, wrong>>

(* Mutant: the password is looked at before the lock.                      *)
WrongPassword_WhileBlocked(c) ==
    /\ Serving
    /\ record_failure(c)
    /\ refused' = [refused EXCEPT ![c] = None]
    /\ UNCHANGED <<loadVars, clock, sessionVars>>

WrongPassword(c) ==
    /\ Serving
    /\ ~Blocked(c)
    /\ record_failure(c)
    /\ refused' = [refused EXCEPT ![c] = None]
    /\ UNCHANGED <<loadVars, clock, sessionVars>>

(* _bearer_response lets the request through.                              *)
RightToken(c) ==
    /\ Serving
    /\ ~Blocked(c)
    /\ record_success(c)
    /\ UNCHANGED <<loadVars, clock, sessionVars, refused>>

Live(t) == expiry[t] # None /\ expiry[t] > clock

(* Mutant: one session at a time.                                          *)
create_OnlyOne(t) == expiry' = [Empty(Tokens) EXCEPT ![t] = clock + SessionSeconds]

(* SessionStore.create; it drops the sessions that are over.               *)
create(t) ==
    LET kept == [u \in Tokens |-> IF Live(u) THEN expiry[u] ELSE None]
    IN  expiry' = [kept EXCEPT ![t] = clock + SessionSeconds]

login(c, t) ==
    /\ Serving
    /\ ~Blocked(c)
    /\ granted[t] = None
    /\ record_success(c)
    /\ create(t)
    /\ granted' = [granted EXCEPT ![t] = clock]
    /\ UNCHANGED <<loadVars, clock, ended, refused>>

(* The middleware lets nobody log out who is not logged in.                *)
logout(t) ==
    /\ Serving
    /\ Live(t)
    /\ expiry' = [expiry EXCEPT ![t] = None]
    /\ ended' = ended \cup {t}
    /\ UNCHANGED <<loadVars, clock, granted, throttleVars>>

-----------------------------------------------------------------------------

Tick ==
    /\ clock < MaxClock
    /\ clock' = clock + 1
    /\ UNCHANGED <<loadVars, sessionVars, throttleVars>>

(* A step of the start of the process, before there is anything to log in  *)
(* to.                                                                     *)
Starting ==
    /\ LoadNext
    /\ ~Exit
    /\ UNCHANGED <<clock, sessionVars, throttleVars>>

(* The process ends and takes SessionStore and LoginThrottle with it.      *)
Gone ==
    /\ Exit
    /\ expiry' = Empty(Tokens)
    /\ ended' = {t \in Tokens : granted[t] # None}
    /\ failures' = [c \in Clients |-> 0]
    /\ locked_until' = Empty(Clients)
    /\ wrong' = [c \in Clients |-> << >>]
    /\ refused' = Empty(Clients)
    /\ UNCHANGED <<clock, granted>>

Next ==
    \/ Starting
    \/ Gone
    \/ Tick
    \/ \E c \in Clients : TooManyAttempts(c) \/ WrongPassword(c) \/ RightToken(c)
    \/ \E c \in Clients, t \in Tokens : login(c, t)
    \/ \E t \in Tokens : logout(t)

Spec == Init /\ [][Next]_vars

-----------------------------------------------------------------------------
(***************************************************************************)
(* Properties                                                              *)
(***************************************************************************)

(* The types; a count never reaches MAX_FAILURES, whatever came between.   *)
TypeOK ==
    /\ LoadTypeOK
    /\ clock \in Time
    /\ expiry \in [Tokens -> Nat \cup {None}]
    /\ granted \in [Tokens -> Time \cup {None}]
    /\ ended \subseteq Tokens
    /\ failures \in [Clients -> 0 .. MaxFailures - 1]
    /\ locked_until \in [Clients -> Nat \cup {None}]
    /\ wrong \in [Clients -> Seq(Time)]
    /\ refused \in [Clients -> Time \cup {None}]

(* A login lasts SESSION_SECONDS, whoever else logs in, logs out or is     *)
(* refused meanwhile, and not longer than the process or the log-out.      *)
SessionIffGranted ==
    \A t \in Tokens :
        Live(t) <=> /\ granted[t] # None /\ t \notin ended
                    /\ clock < granted[t] + SessionSeconds

(* No address gets more than MAX_FAILURES wrong passwords looked at within *)
(* LOCKOUT_SECONDS, unless a right one came in between or the tables were  *)
(* emptied.                                                                *)
WrongPasswordsPerMinute ==
    \A c \in Clients :
        Len(wrong[c]) > MaxFailures => wrong[c][MaxFailures + 1] - wrong[c][1] >= LockoutSeconds

(* An address is locked for LOCKOUT_SECONDS after the last of MAX_FAILURES *)
(* wrong passwords in a row of its own, and never for those of others.     *)
LockoutIsEarned ==
    \A c \in Clients :
        Blocked(c) => /\ Len(wrong[c]) >= MaxFailures
                      /\ locked_until[c] = wrong[c][Len(wrong[c])] + LockoutSeconds

(* The Retry-After of a 429 is enough, also when the address kept asking   *)
(* meanwhile, or another client behind the same one did.                   *)
RetryAfterIsEnough ==
    \A c \in Clients :
        refused[c] # None /\ clock >= refused[c] + LockoutSeconds => ~Blocked(c)

(* The limit of the table of failures holds.                               *)
FailuresWithinLimit == Cardinality(Tracked) <= MaxTracked

(***************************************************************************)
(* A claim that does not hold.                                             *)
(***************************************************************************)

(* _MAX_TRACKED_CLIENTS is the limit of both tables; the one of the locks  *)
(* is emptied when the other one is full, and only then.                   *)
LocksWithinLimit == Cardinality({c \in Clients : locked_until[c] # None}) <= MaxTracked
=============================================================================
