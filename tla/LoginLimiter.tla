----------------------------- MODULE LoginLimiter -----------------------------
(***************************************************************************)
(* The limit on failed logins (internal/auth/limiter.go) and Authenticate, *)
(* which calls it (internal/auth/manager.go).  Allow, Failure and Success  *)
(* are critical sections of their own: between Allow and the other two the *)
(* password is compared, while time passes and other attempts go on.       *)
(*                                                                         *)
(* Time is a number of units; 0 is the zero time.Time.                     *)
(***************************************************************************)
EXTENDS Integers, Sequences, FiniteSets, FiniteSetsExt, Functions

CONSTANTS
    Keys,         \* client address and lower-case user name
    AdminKeys,    \* those with the administrator's name
    Attempts,     \* slots for concurrent login requests
    MaxFailures, Window, Lockout, MaxStates,
    MaxTime       \* bound: the clock stops there

ASSUME LimiterAssumption ==
    /\ Keys # {} /\ AdminKeys \subseteq Keys
    /\ {MaxFailures, Window, Lockout, MaxStates, MaxTime} \subseteq Nat \ {0}
    /\ Lockout <= Window

VARIABLES
    now,
    states,    \* the Go map: its domain is the set of keys that have an entry
    attempt,   \* attempt[a]: a login request
    counted    \* auxiliary, counted[k][t]: failures recorded at t since the last
               \* success, at most MaxFailures

limiterVars == <<states, attempt, counted>>

-----------------------------------------------------------------------------
Times     == 1..MaxTime
NoAttempt == [pc |-> "idle", key |-> CHOOSE k \in Keys : TRUE]
State     == [failures: UNION {[1..n -> Times] : n \in 0..(MaxFailures - 1)},
              lockedUntil: 0..(MaxTime + Lockout)]
Fresh     == [failures |-> <<>>, lockedUntil |-> 0]
NoneCounted == [t \in Times |-> 0]

\* recent: the values before the cutoff are dropped from the front.
recent(values, cutoff) ==
    LET first == Max({n \in 0..Len(values) : \A i \in 1..n : values[i] < cutoff})
    IN SubSeq(values, first + 1, Len(values))

Recent(k)  == recent(states[k].failures, now - Window)
Locked(k)  == k \in DOMAIN states /\ now < states[k].lockedUntil
Without(k) == Restrict(states, DOMAIN states \ {k})
With(map, k, s) == [j \in DOMAIN map \cup {k} |-> IF j = k THEN s ELSE map[j]]
Step(a, label)  == attempt' = [attempt EXCEPT ![a].pc = label]
Reply(a)        == attempt' = [attempt EXCEPT ![a] = NoAttempt]

LimiterInit ==
    /\ now = 1
    /\ states = [k \in {} |-> Fresh]
    /\ attempt = [a \in Attempts |-> NoAttempt]
    /\ counted = [k \in Keys |-> NoneCounted]

-----------------------------------------------------------------------------
\* Allow lets the attempt pass, and drops an entry that has run out.  A locked
\* key is refused (ErrRateLimited), which changes nothing.
Allow(a, k) ==
    /\ attempt[a] = NoAttempt
    /\ ~Locked(k)
    /\ states' = IF k \notin DOMAIN states THEN states
                 ELSE IF Recent(k) = <<>> THEN Without(k)
                 ELSE [states EXCEPT ![k].failures = Recent(k)]
    /\ attempt' = [attempt EXCEPT ![a] = [pc |-> "compare", key |-> k]]
    /\ UNCHANGED <<now, counted>>

\* prune: entries without a lock and without recent failures are dropped.
prune == [k \in {j \in DOMAIN states : Locked(j) \/ Recent(j) # <<>>} |->
             [states[k] EXCEPT !.failures = Recent(k)]]

\* Mutant: the lock comes one failure late.
AddFailureLate(s) ==
    LET failures == Append(recent(s.failures, now - Window), now)
    IN IF Len(failures) > MaxFailures
       THEN [failures |-> <<>>, lockedUntil |-> now + Lockout]
       ELSE [s EXCEPT !.failures = failures]

\* One more failure, which may be the one that locks.
AddFailure(s) ==
    LET failures == Append(recent(s.failures, now - Window), now)
    IN IF Len(failures) >= MaxFailures
       THEN [failures |-> <<>>, lockedUntil |-> now + Lockout]
       ELSE [s EXCEPT !.failures = failures]

\* Failures that no property asks for any more.
Forget == counted' = [k \in Keys |-> [t \in Times |->
                         IF t <= now' - Window - Lockout THEN 0 ELSE counted[k][t]]]

Count(k) == counted' = [counted EXCEPT ![k][now] = Min({@ + 1, MaxFailures})]

\* Mutant: the limit is not checked.
FailureUnbounded(a) ==
    /\ attempt[a].pc = "compare"
    /\ LET k == attempt[a].key
       IN /\ states' = IF k \in DOMAIN states THEN [states EXCEPT ![k] = AddFailure(states[k])]
                       ELSE With(prune, k, AddFailure(Fresh))
          /\ Count(k)
    /\ Reply(a)
    /\ UNCHANGED now

\* The name or the password was wrong.  A new key is not recorded while the
\* map is full.
Failure(a) ==
    /\ attempt[a].pc = "compare"
    /\ LET k == attempt[a].key
       IN \/ /\ k \in DOMAIN states
             /\ states' = [states EXCEPT ![k] = AddFailure(states[k])]
             /\ Count(k)
          \/ /\ k \notin DOMAIN states
             /\ Cardinality(DOMAIN prune) < MaxStates
             /\ states' = With(prune, k, AddFailure(Fresh))
             /\ Count(k)
          \/ /\ k \notin DOMAIN states
             /\ Cardinality(DOMAIN prune) >= MaxStates
             /\ states' = prune
             /\ UNCHANGED counted
    /\ Reply(a)
    /\ UNCHANGED now

\* Mutant: a success leaves the entry.
SuccessKeepsState(a) ==
    /\ attempt[a].pc = "compare"
    /\ attempt[a].key \in AdminKeys
    /\ counted' = [counted EXCEPT ![attempt[a].key] = NoneCounted]
    /\ Step(a, "granted")
    /\ UNCHANGED <<now, states>>

\* Both were right.
Success(a) ==
    /\ attempt[a].pc = "compare"
    /\ attempt[a].key \in AdminKeys
    /\ states' = Without(attempt[a].key)
    /\ counted' = [counted EXCEPT ![attempt[a].key] = NoneCounted]
    /\ Step(a, "granted")
    /\ UNCHANGED now

Authenticate(a) ==
    \/ \E k \in Keys : Allow(a, k)
    \/ Failure(a) \/ Success(a)

\* The limiter is in memory only: a restart forgets everything.
LimiterRestart ==
    /\ states' = [k \in {} |-> Fresh]
    /\ attempt' = [a \in Attempts |-> NoAttempt]
    /\ counted' = [k \in Keys |-> NoneCounted]

-----------------------------------------------------------------------------
(* Correctness properties *)

LimiterTypeOK ==
    /\ now \in Times
    /\ DOMAIN states \subseteq Keys
    /\ Cardinality(DOMAIN states) <= MaxStates
    /\ \A k \in DOMAIN states : states[k] \in State
    /\ attempt \in [Attempts -> [pc: {"idle", "compare", "granted"}, key: Keys]]
    /\ counted \in [Keys -> [Times -> 0..MaxFailures]]

\* The failures that count holds for the times t..n, and how many those of k since
\* t are.
Recorded(count, t, n) ==
    {f \in Times \X (1..MaxFailures) : t <= f[1] /\ f[1] <= n /\ f[2] <= count[f[1]]}
CountedSince(k, t) == Cardinality(Recorded(counted[k], t, now))

\* A key is refused for the whole lockout period after any maxFailures failures
\* recorded within it, also when some of them came from attempts that had passed
\* Allow together or were still being compared when the lock came.
LockoutHolds ==
    \A k \in Keys : CountedSince(k, now - Lockout + 1) >= MaxFailures => Locked(k)

\* A key is refused only for maxFailures failures within window and lockout since
\* its last successful login, never for those of another key or for ones that a
\* success has cleared.
LockEarned ==
    \A k \in Keys : Locked(k) => CountedSince(k, now - Window - Lockout + 1) >= MaxFailures
=============================================================================
