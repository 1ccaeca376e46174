---------------------------- MODULE SessionsProofs ----------------------------
(***************************************************************************)
(* The login limiter locks exactly the keys it should, and a protected     *)
(* operation needs the password in its own session.                        *)
(***************************************************************************)
EXTENDS Sessions, FiniteSetTheorems, TLAPS

-----------------------------------------------------------------------------
(* The inductive invariant of the limiter *)

\* The failures of a list that are not older than t.
Index(F, t) == {i \in DOMAIN F : t <= F[i]}

\* A list of failures is in the order in which they came.
Ordered(F, n) ==
    /\ \A i \in DOMAIN F : F[i] <= n
    /\ \A i, j \in DOMAIN F : i <= j => F[i] <= F[j]

\* A list has every failure since the last lock that a lockout may still have
\* to answer for.
NoneMissing(s, count, n) ==
    \A t \in Int : s.lockedUntil - Lockout < t /\ n - Lockout < t
        => Cardinality(Recorded(count, t, n)) <= Cardinality(Index(s.failures, t))

\* A list has only failures that were recorded.
NoneInvented(s, count, n) ==
    \A t \in Int : n - Window - Lockout < t
        => Cardinality(Index(s.failures, t)) <= Cardinality(Recorded(count, t, n))

\* The failures that led to the lock.
LockCause(s, count, n) ==
    n < s.lockedUntil =>
        MaxFailures <= Cardinality(Recorded(count, s.lockedUntil - Lockout - Window, n))

Entry(s, count, n) ==
    /\ s \in State
    /\ Ordered(s.failures, n)
    /\ NoneMissing(s, count, n)
    /\ NoneInvented(s, count, n)
    /\ LockCause(s, count, n)

\* A key without an entry has no failure that a lockout would have to answer for.
Forgotten(count, n) == Recorded(count, n - Lockout + 1, n) = {}

EntriesRight ==
    \A k \in Keys : IF k \in DOMAIN states THEN Entry(states[k], counted[k], now)
                                           ELSE Forgotten(counted[k], now)

NoneAhead == \A k \in Keys, t \in Times : now < t => counted[k][t] = 0

LimiterInv == /\ LimiterTypeOK /\ IsFiniteSet(DOMAIN states)
              /\ EntriesRight /\ NoneAhead

-----------------------------------------------------------------------------
(* The inductive invariant of the sessions *)

\* The logins are numbered as they come.
LoginsInOrder ==
    \E n \in 0..MaxLogins : \A i \in Logins : loginAt[i] # 0 <=> i <= n

TimesPast == \A i \in Logins : loginAt[i] <= now /\ verifiedAt[i] <= now

\* What a cookie says is what happened in its session, by the times of the logins
\* and those at which the password was given.
CookieTrue(c, login, verified) ==
    /\ c.created # 0 => c.login \in Logins /\ c.created = login[c.login]
    /\ c.reauth # 0 => c.created # 0 /\ c.created <= c.reauth /\ c.reauth <= verified[c.login]

CookiesTrue == /\ CookieTrue(jar, loginAt, verifiedAt)
               /\ \A r \in Calls : CookieTrue(call[r].cookie, loginAt, verifiedAt)

SessionInv == LoginsInOrder /\ TimesPast /\ CookiesTrue
SessionTypes == /\ jar \in Cookie
                /\ call \in [Calls -> [op: {"none", "reauthenticate", "logout", "protected"},
                                       pc: {"idle", "sent", "cookie", "done"}, cookie: Cookie]]
                /\ loginAt \in [Logins -> 0..MaxTime]
                /\ verifiedAt \in [Logins -> 0..MaxTime]

-----------------------------------------------------------------------------
(* Sets and sequences *)

\* A nonempty set of numbers up to n has the greatest element that Max picks.
LEMMA MaxOfSet ==
  ASSUME NEW n \in Nat, NEW S \in SUBSET (0..n), S # {}
  PROVE  Max(S) \in S /\ \A y \in S : y <= Max(S)
<1> DEFINE T == {m \in Nat : \A y \in S : y <= m}
<1>1. T \subseteq Nat /\ n \in T
  OBVIOUS
<1>2. PICK m \in T : \A k \in T : ~(<<k, m>> \in OpToRel(<, Nat))
  <2>1. T # {}
    BY <1>1
  <2> HIDE DEF T
  <2> QED
    BY <1>1, <2>1, NatLessThanWellFounded, WFMin
<1>3. m \in Nat /\ (\A y \in S : y <= m) /\ \A k \in T : ~(k < m)
  BY <1>2 DEF OpToRel
<1>4. m \in S
  <2>1. CASE m = 0
    <3>1. PICK y \in S : TRUE
      OBVIOUS
    <3>2. y \in 0..n /\ y <= 0
      BY <1>3, <2>1, <3>1
    <3>3. y = m
      BY <2>1, <3>2
    <3> QED
      BY <3>3
  <2>2. CASE m # 0 /\ m \notin S
    <3>1. m - 1 \in T
      BY <1>3, <2>2
    <3> QED
      BY <1>3, <3>1
  <2> QED
    BY <2>1, <2>2
<1>5. \E x \in S : \A y \in S : x >= y
  BY <1>3, <1>4
<1> QED
  BY <1>5 DEF Max

\* Min of two numbers.
LEMMA MinOfTwo ==
  ASSUME NEW a \in Nat, NEW b \in Nat
  PROVE  Min({a, b}) = IF a <= b THEN a ELSE b
<1>1. \E x \in {a, b} : \A y \in {a, b} : x =< y
  OBVIOUS
<1>2. Min({a, b}) \in {a, b} /\ \A y \in {a, b} : Min({a, b}) =< y
  BY <1>1 DEF Min
<1> QED
  BY <1>2

\* The numbers that the configuration gives.
LEMMA Limits ==
  /\ MaxFailures \in Nat /\ MaxFailures >= 1
  /\ Window \in Nat /\ Lockout \in Nat /\ Lockout >= 1 /\ Lockout <= Window
  /\ MaxStates \in Nat /\ MaxTime \in Nat /\ MaxTime >= 1
  BY LimiterAssumption

\* recent cuts off the front of a list: everything it drops is older than the
\* cutoff, and the first value it keeps is not.
LEMMA RecentCuts ==
  ASSUME NEW F \in Seq(Int), NEW c \in Int
  PROVE  \E first \in 0..Len(F) :
            /\ recent(F, c) = SubSeq(F, first + 1, Len(F))
            /\ recent(F, c) \in Seq(Int) /\ Len(recent(F, c)) = Len(F) - first
            /\ \A i \in 1..Len(recent(F, c)) : recent(F, c)[i] = F[i + first]
            /\ \A i \in 1..first : F[i] < c
            /\ first < Len(F) => c <= F[first + 1]
<1> DEFINE S == {n \in 0..Len(F) : \A i \in 1..n : F[i] < c}
           first == Max(S)
<1>1. S \in SUBSET (0..Len(F)) /\ 0 \in S /\ Len(F) \in Nat
  OBVIOUS
<1>2. first \in S /\ \A y \in S : y <= first
  BY <1>1, MaxOfSet
<1>3. recent(F, c) = SubSeq(F, first + 1, Len(F))
  BY DEF recent
<1> HIDE DEF first
<1>4. ASSUME first < Len(F) PROVE c <= F[first + 1]
  <2>1. first + 1 \notin S
    BY <1>1, <1>2
  <2>2. \E i \in 1..(first + 1) : ~(F[i] < c)
    BY <1>2, <1>4, <2>1
  <2>3. ~(F[first + 1] < c)
    BY <1>2, <2>2
  <2> QED
    BY <1>2, <1>4, <2>3
<1>5. /\ SubSeq(F, first + 1, Len(F)) \in Seq(Int)
      /\ Len(SubSeq(F, first + 1, Len(F))) = Len(F) - first
      /\ \A i \in 1..(Len(F) - first) : SubSeq(F, first + 1, Len(F))[i] = F[i + first]
  BY <1>2
<1> QED
  BY <1>2, <1>3, <1>4, <1>5

\* The failures of a shorter list: dropping from the front only drops, and keeps
\* all that are not older than the cutoff.
LEMMA RecentIndex ==
  ASSUME NEW F \in Seq(Int), NEW c \in Int, NEW t \in Int
  PROVE  /\ IsFiniteSet(Index(F, t)) /\ IsFiniteSet(Index(recent(F, c), t))
         /\ Cardinality(Index(recent(F, c), t)) <= Cardinality(Index(F, t))
         /\ c <= t => Cardinality(Index(recent(F, c), t)) = Cardinality(Index(F, t))
<1> DEFINE r == recent(F, c)
<1>1. PICK first \in 0..Len(F) :
        /\ r \in Seq(Int) /\ Len(r) = Len(F) - first
        /\ \A i \in 1..Len(r) : r[i] = F[i + first]
        /\ \A i \in 1..first : F[i] < c
  BY RecentCuts
<1> HIDE DEF r
<1> DEFINE S == Index(r, t)
           T == {i \in Index(F, t) : first < i}
           f == [i \in S |-> i + first]
<1>2. S = {i \in 1..Len(r) : t <= r[i]} /\ T = {i \in 1..Len(F) : t <= F[i] /\ first < i}
  BY <1>1 DEF Index
<1>3. f \in [S -> T]
  <2>1. ASSUME NEW i \in S PROVE i + first \in T
    <3>1. i \in 1..Len(r) /\ t <= r[i] /\ r[i] = F[i + first]
      BY <1>1, <1>2, <2>1
    <3>2. i + first \in 1..Len(F) /\ first < i + first
      BY <1>1, <3>1
    <3> QED
      BY <1>2, <3>1, <3>2
  <2> QED
    BY <2>1
<1>4. \A i, j \in S : f[i] = f[j] => i = j
  <2>1. \A i \in S : i \in Int /\ f[i] = i + first
    BY <1>2
  <2> HIDE DEF S, f
  <2> QED
    BY <2>1
<1>5. ASSUME NEW y \in T PROVE \E i \in S : f[i] = y
  <2>1. y - first \in 1..Len(r) /\ r[y - first] = F[y]
    BY <1>1, <1>2
  <2>2. y - first \in S
    BY <1>2, <2>1
  <2>3. f[y - first] = (y - first) + first /\ y \in Int
    BY <1>2, <2>2
  <2> HIDE DEF f, S
  <2> QED
    BY <2>2, <2>3
<1>6. f \in Bijection(S, T)
  BY <1>3, <1>4, <1>5 DEF Bijection, Injection, Surjection, IsInjective
<1>7. IsFiniteSet(Index(F, t)) /\ T \in SUBSET Index(F, t)
  <2>1. Index(F, t) \in SUBSET (1..Len(F)) /\ Len(F) \in Int
    BY DEF Index
  <2>2. IsFiniteSet(1..Len(F))
    BY <2>1, FS_Interval
  <2> QED
    BY <2>1, <2>2, FS_Subset
<1>8. IsFiniteSet(T) /\ Cardinality(T) <= Cardinality(Index(F, t))
  BY <1>7, FS_Subset
<1>9. IsFiniteSet(S) /\ Cardinality(S) = Cardinality(T)
  <2>1. f \in Injection(S, T)
    BY <1>6 DEF Bijection
  <2>2. f \in Surjection(S, T)
    BY <1>6 DEF Bijection
  <2> QED
    BY <1>8, <2>1, <2>2, FS_Injection
<1>10. ASSUME c <= t PROVE T = Index(F, t)
  <2>1. ASSUME NEW i \in Index(F, t), ~(first < i) PROVE FALSE
    <3>1. i \in 1..first /\ t <= F[i] /\ F[i] \in Int
      BY <2>1 DEF Index
    <3> QED
      BY <1>1, <1>10, <3>1
  <2> QED
    BY <2>1
<1> QED
  BY <1>7, <1>8, <1>9, <1>10 DEF r

\* What is left of an ordered list is ordered and not older than the cutoff.
LEMMA RecentOrdered ==
  ASSUME NEW F \in Seq(Int), NEW c \in Int, NEW n \in Int, Ordered(F, n)
  PROVE  /\ Ordered(recent(F, c), n)
         /\ \A i \in DOMAIN recent(F, c) : c <= recent(F, c)[i]
<1> DEFINE r == recent(F, c)
<1>1. PICK first \in 0..Len(F) :
        /\ r \in Seq(Int) /\ Len(r) = Len(F) - first
        /\ \A i \in 1..Len(r) : r[i] = F[i + first]
        /\ first < Len(F) => c <= F[first + 1]
  BY RecentCuts
<1> HIDE DEF r
<1>2. ASSUME NEW i \in 1..Len(r)
      PROVE  /\ i + first \in 1..Len(F) /\ first + 1 \in 1..Len(F) /\ first + 1 <= i + first
             /\ first < Len(F) /\ r[i] = F[i + first]
  <2>1. r[i] = F[i + first]
    BY <1>1
  <2> QED
    BY <1>1, <2>1
<1>3. /\ \A i \in 1..Len(F) : F[i] \in Int /\ F[i] <= n
      /\ \A i, j \in 1..Len(F) : i <= j => F[i] <= F[j]
  BY DEF Ordered
<1>4. ASSUME NEW i \in 1..Len(r) PROVE c <= r[i] /\ r[i] <= n
  <2>1. c <= F[first + 1] /\ first + 1 \in 1..Len(F) /\ i + first \in 1..Len(F)
    BY <1>1, <1>2
  <2>2. F[first + 1] <= F[i + first] /\ F[i + first] <= n
    BY <1>2, <1>3
  <2>3. F[first + 1] \in Int /\ F[i + first] \in Int
    BY <2>1, <1>3
  <2> QED
    BY <1>2, <2>1, <2>2, <2>3
<1>5. ASSUME NEW i \in 1..Len(r), NEW j \in 1..Len(r), i <= j PROVE r[i] <= r[j]
  <2>1. i + first \in 1..Len(F) /\ j + first \in 1..Len(F) /\ i + first <= j + first
    BY <1>2, <1>5
  <2>2. F[i + first] <= F[j + first]
    BY <2>1, <1>3
  <2> QED
    BY <1>2, <2>2
<1>6. DOMAIN r = 1..Len(r)
  BY <1>1
<1> QED
  BY <1>4, <1>5, <1>6 DEF Ordered, r

-----------------------------------------------------------------------------
(* Failures that are counted *)

\* The failures that count holds are a finite set.
LEMMA RecordedFinite ==
  ASSUME NEW count, NEW t, NEW n
  PROVE  /\ IsFiniteSet(Recorded(count, t, n))
         /\ Cardinality(Recorded(count, t, n)) \in Nat
<1>1. IsFiniteSet(Times) /\ IsFiniteSet(1..MaxFailures)
  BY Limits, FS_Interval DEF Times
<1>2. IsFiniteSet(Times \X (1..MaxFailures))
  BY <1>1, FS_Product
<1>3. Recorded(count, t, n) \in SUBSET (Times \X (1..MaxFailures))
  BY DEF Recorded
<1>4. IsFiniteSet(Recorded(count, t, n))
  BY <1>2, <1>3, FS_Subset
<1> QED
  BY <1>4, FS_CardinalityType

\* More failures in a larger interval count for more.
LEMMA RecordedMore ==
  ASSUME NEW count, NEW count2, NEW t, NEW t2, NEW n, NEW n2,
         Recorded(count, t, n) \subseteq Recorded(count2, t2, n2)
  PROVE  Cardinality(Recorded(count, t, n)) <= Cardinality(Recorded(count2, t2, n2))
  BY RecordedFinite, FS_Subset

-----------------------------------------------------------------------------
(* Entries of the map *)

Counts == [Times -> 0..MaxFailures]

\* An entry has a list of times, shorter than the limit that locks.
LEMMA StateList ==
  ASSUME NEW s \in State
  PROVE  /\ s.failures \in Seq(Times) /\ s.failures \in Seq(Int)
         /\ Len(s.failures) \in Nat /\ Len(s.failures) <= MaxFailures - 1
         /\ s.lockedUntil \in Nat /\ s.lockedUntil \in Int
<1>1. PICK m \in 0..(MaxFailures - 1) : s.failures \in [1..m -> Times]
  BY Limits DEF State
<1>2. m \in Nat /\ Times \subseteq Int
  BY Limits DEF Times
<1>3. s.failures \in Seq(Times) /\ Len(s.failures) = m
  BY <1>1, <1>2
<1>4. s.failures \in Seq(Int)
  <2>1. \A i \in 1..m : s.failures[i] \in Int
    BY <1>1, <1>2
  <2>2. s.failures \in [1..m -> Int]
    BY <1>1, <2>1
  <2> QED
    BY <1>2, <2>2
<1>5. s.lockedUntil \in 0..(MaxTime + Lockout)
  BY DEF State
<1> QED
  BY <1>1, <1>3, <1>4, <1>5, Limits

\* A list shorter than maxFailures with the end of a lock is a state.
LEMMA ListState ==
  ASSUME NEW F \in Seq(Times), Len(F) <= MaxFailures - 1, NEW l \in 0..(MaxTime + Lockout)
  PROVE  [failures |-> F, lockedUntil |-> l] \in State
<1>1. Len(F) \in 0..(MaxFailures - 1) /\ F \in [1..Len(F) -> Times]
  BY Limits
<1>2. F \in UNION {[1..m -> Times] : m \in 0..(MaxFailures - 1)}
  BY <1>1
<1> QED
  BY <1>2 DEF State

\* The empty list has no failures.
LEMMA NoIndex ==
  ASSUME NEW t
  PROVE  Index(<<>>, t) = {} /\ Cardinality(Index(<<>>, t)) = 0
<1>1. Index(<<>>, t) = {}
  BY DEF Index
<1> QED
  BY <1>1, FS_EmptySet

\* What recent drops was too old to matter.
LEMMA EntryRecent ==
  ASSUME NEW count \in Counts, NEW n \in Times, NEW s, Entry(s, count, n)
  PROVE  Entry([s EXCEPT !.failures = recent(s.failures, n - Window)], count, n)
<1> DEFINE F == s.failures
           r == recent(F, n - Window)
           u == [s EXCEPT !.failures = r]
<1>1. s \in State /\ F \in Seq(Int) /\ F \in Seq(Times) /\ Len(F) <= MaxFailures - 1
  BY StateList DEF Entry
<1>2. n \in Int /\ n - Window \in Int
  BY Limits DEF Times
<1>3. PICK first \in 0..Len(F) : /\ r \in Seq(Int) /\ Len(r) = Len(F) - first
                                 /\ \A i \in 1..Len(r) : r[i] = F[i + first]
  BY <1>1, <1>2, RecentCuts
<1>4. r \in Seq(Times) /\ Len(r) <= MaxFailures - 1
  <2> HIDE DEF r, F
  <2>1. Len(F) \in Nat /\ first \in Nat /\ first <= Len(F) /\ \A i \in 1..Len(F) : F[i] \in Times
    BY <1>1
  <2>2. \A i \in 1..Len(r) : r[i] \in Times
    BY <1>3, <2>1
  <2>3. r \in Seq(Times)
    BY <1>3, <2>2
  <2> QED
    BY <1>1, <1>3, <2>1, <2>3, Limits
<1>5. u = [failures |-> r, lockedUntil |-> s.lockedUntil] /\ s.lockedUntil \in 0..(MaxTime + Lockout)
  BY <1>1 DEF State
<1>6. u \in State
  BY <1>4, <1>5, ListState
<1>7. Ordered(r, n)
  BY <1>1, <1>2, RecentOrdered DEF Entry
<1>8. \A t \in Int : /\ Cardinality(Index(r, t)) \in Nat /\ Cardinality(Index(F, t)) \in Nat
                     /\ Cardinality(Index(r, t)) <= Cardinality(Index(F, t))
                     /\ n - Window <= t => Cardinality(Index(r, t)) = Cardinality(Index(F, t))
  BY <1>1, <1>2, RecentIndex, FS_CardinalityType
<1>9. NoneMissing(u, count, n)
  <2> SUFFICES ASSUME NEW t \in Int, s.lockedUntil - Lockout < t, n - Lockout < t
               PROVE  Cardinality(Recorded(count, t, n)) <= Cardinality(Index(r, t))
    BY <1>5 DEF NoneMissing
  <2>1. Cardinality(Recorded(count, t, n)) <= Cardinality(Index(F, t))
    BY DEF Entry, NoneMissing
  <2>2. n - Window <= t
    BY <1>2, Limits
  <2> QED
    BY <1>8, <2>1, <2>2
<1>10. NoneInvented(u, count, n)
  <2> SUFFICES ASSUME NEW t \in Int, n - Window - Lockout < t
               PROVE  Cardinality(Index(r, t)) <= Cardinality(Recorded(count, t, n))
    BY <1>5 DEF NoneInvented
  <2>1. Cardinality(Index(F, t)) <= Cardinality(Recorded(count, t, n))
    BY DEF Entry, NoneInvented
  <2>2. Cardinality(Recorded(count, t, n)) \in Nat
    BY RecordedFinite
  <2> QED
    BY <1>8, <2>1, <2>2
<1>11. LockCause(u, count, n)
  BY <1>5 DEF Entry, LockCause
<1> QED
  BY <1>5, <1>6, <1>7, <1>9, <1>10, <1>11 DEF Entry

\* An entry that has run out has nothing left to answer for.
LEMMA EntryRunOut ==
  ASSUME NEW count \in Counts, NEW n \in Times, NEW s, Entry(s, count, n),
         recent(s.failures, n - Window) = <<>>, ~(n < s.lockedUntil)
  PROVE  Forgotten(count, n)
<1> DEFINE u == [s EXCEPT !.failures = recent(s.failures, n - Window)]
           t == n - Lockout + 1
<1>1. Entry(u, count, n) /\ s \in State
  BY EntryRecent DEF Entry
<1>2. u.failures = <<>> /\ u.lockedUntil = s.lockedUntil
  BY <1>1 DEF State
<1>3. n \in Int /\ Lockout \in Int /\ s.lockedUntil \in Int
  BY <1>1, StateList, Limits DEF Times
<1>4. t \in Int /\ s.lockedUntil - Lockout < t /\ n - Lockout < t
  BY <1>3
<1>5. Cardinality(Recorded(count, t, n)) <= Cardinality(Index(<<>>, t))
  <2> HIDE DEF u, t
  <2> QED
    BY <1>1, <1>2, <1>4 DEF Entry, NoneMissing
<1>6. Cardinality(Recorded(count, t, n)) = 0
  BY <1>5, NoIndex, RecordedFinite
<1> QED
  BY <1>6, RecordedFinite, FS_EmptySet DEF Forgotten

\* A key whose failures are all forgotten starts with an empty entry.
LEMMA EntryFresh ==
  ASSUME NEW count \in Counts, NEW n \in Times, Forgotten(count, n)
  PROVE  Entry(Fresh, count, n)
<1>1. Fresh \in State
  <2>1. <<>> \in Seq(Times) /\ Len(<<>>) <= MaxFailures - 1 /\ 0 \in 0..(MaxTime + Lockout)
    BY Limits
  <2> QED
    BY <2>1, ListState DEF Fresh
<1>2. Ordered(Fresh.failures, n)
  BY DEF Fresh, Ordered
<1>3. n \in Int /\ 1 <= n /\ Lockout \in Int
  BY Limits DEF Times
<1>4. NoneMissing(Fresh, count, n)
  <2> SUFFICES ASSUME NEW t \in Int, n - Lockout < t
               PROVE  Cardinality(Recorded(count, t, n)) <= Cardinality(Index(<<>>, t))
    BY DEF NoneMissing, Fresh
  <2>1. Recorded(count, t, n) \subseteq Recorded(count, n - Lockout + 1, n)
    <3>1. ASSUME NEW f \in Times \X (1..MaxFailures), t <= f[1] PROVE n - Lockout + 1 <= f[1]
      <4>1. f[1] \in Int
        BY Limits DEF Times
      <4> QED
        BY <1>3, <3>1, <4>1
    <3> QED
      BY <3>1 DEF Recorded
  <2>2. Recorded(count, t, n) = {}
    BY <2>1 DEF Forgotten
  <2> QED
    BY <2>2, NoIndex, FS_EmptySet
<1>5. NoneInvented(Fresh, count, n)
  BY NoIndex, RecordedFinite DEF NoneInvented, Fresh
<1>6. LockCause(Fresh, count, n)
  BY <1>3 DEF LockCause, Fresh
<1> QED
  BY <1>1, <1>2, <1>4, <1>5, <1>6 DEF Entry

\* One more failure at n is counted once, unless the count is at its bound.
CountedOnce(count, count2, n, t) ==
    LET a == Cardinality(Recorded(count, t, n))
        b == Cardinality(Recorded(count2, t, n))
    IN /\ Recorded(count, t, n) \subseteq Recorded(count2, t, n)
       /\ a \in Nat /\ b \in Nat /\ b <= a + 1
       /\ t <= n => b = a + 1 \/ MaxFailures <= b
       /\ n < t => b = 0

\* Recording one more failure.
LEMMA RecordedOne ==
  ASSUME NEW count \in Counts, NEW n \in Times, NEW t \in Int, NEW count2,
         count2 = [count EXCEPT ![n] = Min({@ + 1, MaxFailures})]
  PROVE  count2 \in Counts /\ CountedOnce(count, count2, n, t)
<1> DEFINE m == count2[n]
           A == Recorded(count, t, n)
           B == Recorded(count2, t, n)
<1>1. Times \subseteq Int /\ n \in Int /\ MaxFailures \in Nat
  BY Limits DEF Times
<1>2. count[n] \in Nat /\ count[n] <= MaxFailures
  BY Limits DEF Counts
<1>3. m = IF count[n] + 1 <= MaxFailures THEN count[n] + 1 ELSE MaxFailures
  <2>1. m = Min({count[n] + 1, MaxFailures})
    BY DEF Counts
  <2> QED
    BY <1>1, <1>2, <2>1, MinOfTwo
<1>4. \A v \in Times : v # n => count2[v] = count[v]
  BY DEF Counts
<1>5. count2 \in Counts
  <2>1. m \in 0..MaxFailures
    BY <1>1, <1>2, <1>3
  <2> QED
    BY <2>1 DEF Counts
<1> HIDE DEF m
<1>6. A \subseteq B
  <2>1. ASSUME NEW f \in Times \X (1..MaxFailures), f[2] <= count[f[1]] PROVE f[2] <= count2[f[1]]
    <3>1. CASE f[1] = n
      BY <1>1, <1>2, <1>3, <2>1, <3>1 DEF m
    <3>2. CASE f[1] # n
      BY <1>4, <2>1, <3>2
    <3> QED
      BY <3>1, <3>2
  <2> QED
    BY <2>1 DEF Recorded
<1>7. B \subseteq A \cup {<<n, m>>}
  <2>1. ASSUME NEW f \in B, f \notin A PROVE f = <<n, m>>
    <3>1. /\ f \in Times \X (1..MaxFailures) /\ t <= f[1] /\ f[1] <= n
          /\ f[2] <= count2[f[1]] /\ ~(f[2] <= count[f[1]])
      BY <2>1 DEF Recorded
    <3>2. f[1] = n /\ f[2] \in 1..MaxFailures
      BY <1>4, <3>1
    <3>3. f[2] <= m /\ ~(f[2] <= count[n]) /\ f = <<f[1], f[2]>>
      BY <3>1, <3>2 DEF m
    <3>4. f[2] = m
      BY <1>1, <1>2, <1>3, <3>2, <3>3
    <3> QED
      BY <3>2, <3>3, <3>4
  <2> QED
    BY <2>1
<1>8. /\ IsFiniteSet(A) /\ Cardinality(A) \in Nat /\ IsFiniteSet(B) /\ Cardinality(B) \in Nat
  BY RecordedFinite
<1>9. Cardinality(B) <= Cardinality(A) + 1
  <2> HIDE DEF A, B
  <2>0. /\ IsFiniteSet(A \cup {<<n, m>>})
        /\ Cardinality(A \cup {<<n, m>>}) =
             IF <<n, m>> \in A THEN Cardinality(A) ELSE Cardinality(A) + 1
    BY <1>8, FS_AddElement
  <2>1. IsFiniteSet(A \cup {<<n, m>>}) /\ Cardinality(A \cup {<<n, m>>}) <= Cardinality(A) + 1
    BY <1>8, <2>0
  <2>2. Cardinality(B) <= Cardinality(A \cup {<<n, m>>}) /\ Cardinality(A \cup {<<n, m>>}) \in Nat
    BY <1>7, <2>1, FS_Subset, FS_CardinalityType
  <2> QED
    BY <1>8, <2>1, <2>2
<1>10. ASSUME t <= n, count[n] < MaxFailures PROVE Cardinality(B) = Cardinality(A) + 1
  <2>1. m = count[n] + 1 /\ m \in 1..MaxFailures
    BY <1>1, <1>2, <1>3, <1>10
  <2>2. <<n, m>> \in B
    BY <1>1, <1>10, <2>1 DEF Recorded, m
  <2>3. <<n, m>> \notin A
    BY <1>2, <2>1 DEF Recorded
  <2>4. B = A \cup {<<n, m>>}
    BY <1>6, <1>7, <2>2
  <2> HIDE DEF A, B
  <2> QED
    BY <1>8, <2>3, <2>4, FS_AddElement
<1>11. ASSUME t <= n, ~(count[n] < MaxFailures) PROVE MaxFailures <= Cardinality(B)
  <2>1. m = MaxFailures
    BY <1>1, <1>2, <1>3, <1>11
  <2> DEFINE f == [i \in 1..MaxFailures |-> <<n, i>>]
  <2>2. \A i \in 1..MaxFailures : <<n, i>> \in B
    BY <1>1, <1>11, <2>1 DEF Recorded, m
  <2>3. f \in Injection(1..MaxFailures, B)
    <3> HIDE DEF B
    <3>1. f \in [1..MaxFailures -> B]
      BY <2>2
    <3>2. \A i, j \in 1..MaxFailures : f[i] = f[j] => i = j
      OBVIOUS
    <3> QED
      BY <3>1, <3>2 DEF Injection, IsInjective
  <2>4. Cardinality(1..MaxFailures) <= Cardinality(B)
    <3> HIDE DEF B, f
    <3> QED
      BY <1>8, <2>3, FS_Injection
  <2>5. Cardinality(1..MaxFailures) = MaxFailures
    BY Limits, FS_Interval
  <2> QED
    BY <2>4, <2>5
<1>12. ASSUME n < t PROVE B = {}
  <2>1. ASSUME NEW f \in B PROVE FALSE
    <3>1. f[1] \in Int /\ t <= f[1] /\ f[1] <= n
      BY <1>1, <2>1 DEF Recorded
    <3> QED
      BY <1>1, <1>12, <3>1
  <2> QED
    BY <2>1
<1>13. n < t => Cardinality(B) = 0
  BY <1>12, FS_EmptySet
<1>14. t <= n => Cardinality(B) = Cardinality(A) + 1 \/ MaxFailures <= Cardinality(B)
  BY <1>10, <1>11
<1> HIDE DEF A, B
<1>15. A \subseteq B /\ Cardinality(A) \in Nat /\ Cardinality(B) \in Nat /\ Cardinality(B) <= Cardinality(A) + 1
  BY <1>6, <1>8, <1>9
<1> QED
  BY <1>5, <1>13, <1>14, <1>15 DEF A, B, CountedOnce

\* A failure at the end of a list is one more that is not older than any time
\* up to now.
LEMMA IndexAppend ==
  ASSUME NEW F \in Seq(Int), NEW n \in Int, NEW t \in Int, Ordered(F, n)
  PROVE  /\ Ordered(Append(F, n), n)
         /\ Cardinality(Index(Append(F, n), t)) \in Nat
         /\ Cardinality(Index(Append(F, n), t)) <= Len(F) + 1
         /\ t <= n => Cardinality(Index(Append(F, n), t)) = Cardinality(Index(F, t)) + 1
         /\ n < t => Cardinality(Index(Append(F, n), t)) = 0
         /\ t <= n /\ (\A i \in DOMAIN F : t <= F[i])
              => Cardinality(Index(Append(F, n), t)) = Len(F) + 1
<1> DEFINE G == Append(F, n)
           l == Len(F) + 1
           A == Index(F, t)
           B == Index(G, t)
<1>1. /\ Len(F) \in Nat /\ DOMAIN F = 1..Len(F) /\ DOMAIN G = 1..l /\ G[l] = n
      /\ \A i \in 1..Len(F) : G[i] = F[i] /\ F[i] \in Int
  OBVIOUS
<1> HIDE DEF G
<1>2. \A i \in 1..Len(F) : F[i] <= n
  BY <1>1 DEF Ordered
<1>3. \A i \in 1..l : i \in 1..Len(F) \/ i = l
  BY <1>1
<1>4. Ordered(G, n)
  <2>1. \A i \in 1..l : G[i] <= n
    BY <1>1, <1>2, <1>3
  <2>2. ASSUME NEW i \in 1..l, NEW j \in 1..l, i <= j PROVE G[i] <= G[j]
    <3>1. CASE j = l
      BY <1>1, <2>1, <3>1
    <3>2. CASE j # l
      <4>1. i \in 1..Len(F) /\ j \in 1..Len(F)
        BY <1>1, <2>2, <3>2
      <4> QED
        BY <1>1, <2>2, <4>1 DEF Ordered
    <3> QED
      BY <3>1, <3>2
  <2> QED
    BY <1>1, <2>1, <2>2 DEF Ordered
<1>5. IsFiniteSet(B) /\ Cardinality(B) \in Nat /\ Cardinality(B) <= l
  <2>1. B \in SUBSET (1..l)
    BY <1>1 DEF Index
  <2>2. IsFiniteSet(1..l) /\ Cardinality(1..l) = l
    BY <1>1, FS_Interval
  <2> QED
    BY <2>1, <2>2, FS_Subset, FS_CardinalityType
<1>6. IsFiniteSet(A)
  <2>1. A \in SUBSET (1..Len(F))
    BY <1>1 DEF Index
  <2>2. IsFiniteSet(1..Len(F))
    BY <1>1, FS_Interval
  <2> QED
    BY <2>1, <2>2, FS_Subset
<1>7. ASSUME t <= n PROVE Cardinality(B) = Cardinality(A) + 1
  <2>1. B = A \cup {l}
    BY <1>1, <1>3, <1>7 DEF Index
  <2>2. l \notin A
    BY <1>1 DEF Index
  <2> HIDE DEF A, B
  <2> QED
    BY <1>6, <2>1, <2>2, FS_AddElement
<1>8. ASSUME n < t PROVE Cardinality(B) = 0
  <2>1. ASSUME NEW i \in B PROVE FALSE
    <3>1. i \in 1..l /\ t <= G[i]
      BY <1>1, <2>1 DEF Index
    <3> QED
      BY <1>1, <1>2, <1>3, <1>8, <3>1
  <2>2. B = {}
    BY <2>1
  <2> QED
    BY <2>2, FS_EmptySet
<1>9. ASSUME t <= n, \A i \in DOMAIN F : t <= F[i] PROVE Cardinality(B) = l
  <2>1. B = 1..l
    BY <1>1, <1>3, <1>9 DEF Index
  <2> QED
    BY <1>1, <2>1, FS_Interval
<1> QED
  BY <1>4, <1>5, <1>7, <1>8, <1>9 DEF G

\* Failure keeps an entry right, and the lock it may set is earned.
LEMMA EntryFailed ==
  ASSUME NEW count \in Counts, now \in Times, NEW s, Entry(s, count, now), NEW count2,
         count2 = [count EXCEPT ![now] = Min({@ + 1, MaxFailures})]
  PROVE  Entry(AddFailure(s), count2, now)
<1> DEFINE u == [s EXCEPT !.failures = recent(s.failures, now - Window)]
           r == recent(s.failures, now - Window)
           G == Append(r, now)
<1>1. Entry(u, count, now) /\ s \in State
  BY EntryRecent DEF Entry
<1>2. /\ u = [failures |-> r, lockedUntil |-> s.lockedUntil] /\ u \in State
      /\ s.lockedUntil \in 0..(MaxTime + Lockout)
  BY <1>1 DEF State, Entry
<1>3. now \in Int /\ now - Window \in Int /\ now <= MaxTime
  BY Limits DEF Times
<1>4. /\ r \in Seq(Times) /\ r \in Seq(Int) /\ Len(r) \in Nat /\ Len(r) <= MaxFailures - 1
  <2>1. u.failures = r
    BY <1>2
  <2> QED
    BY <1>2, <2>1, StateList
<1>5. Ordered(r, now) /\ \A i \in DOMAIN r : now - Window <= r[i]
  <2>1. s.failures \in Seq(Int) /\ Ordered(s.failures, now)
    BY <1>1, StateList DEF Entry
  <2> QED
    BY <1>3, <2>1, RecentOrdered
<1> HIDE DEF u, r
<1>6. G \in Seq(Times) /\ Len(G) = Len(r) + 1
  BY <1>4
<1>7. \A t \in Int :
        /\ Cardinality(Index(G, t)) \in Nat /\ Cardinality(Index(G, t)) <= MaxFailures
        /\ t <= now => Cardinality(Index(G, t)) = Cardinality(Index(r, t)) + 1
        /\ now < t => Cardinality(Index(G, t)) = 0
  <2> TAKE t \in Int
  <2>1. Cardinality(Index(G, t)) \in Nat /\ Cardinality(Index(G, t)) <= Len(r) + 1
    BY <1>3, <1>4, <1>5, IndexAppend
  <2>2. Len(r) + 1 <= MaxFailures
    BY <1>4, Limits
  <2> QED
    BY <1>3, <1>4, <1>5, <2>1, <2>2, IndexAppend, Limits
<1>8. Ordered(G, now) /\ Cardinality(Index(G, now - Window)) = Len(r) + 1
  <2>1. now - Window <= now
    BY <1>3, Limits
  <2> QED
    BY <1>3, <1>4, <1>5, <2>1, IndexAppend
<1>9. \A t \in Int :
        /\ Recorded(count, t, now) \subseteq Recorded(count2, t, now)
        /\ Cardinality(Recorded(count2, t, now)) <= Cardinality(Recorded(count, t, now)) + 1
        /\ t <= now => \/ Cardinality(Recorded(count2, t, now)) = Cardinality(Recorded(count, t, now)) + 1
                       \/ MaxFailures <= Cardinality(Recorded(count2, t, now))
        /\ now < t => Cardinality(Recorded(count2, t, now)) = 0
  <2> TAKE t \in Int
  <2>1. CountedOnce(count, count2, now, t)
    BY RecordedOne
  <2> QED
    BY <2>1 DEF CountedOnce
<1>10. \A t \in Int : Cardinality(Recorded(count, t, now)) \in Nat /\ Cardinality(Recorded(count2, t, now)) \in Nat
  BY RecordedFinite
<1>11. \A t \in Int : Cardinality(Index(r, t)) \in Nat
  BY <1>4, <1>3, RecentIndex, FS_CardinalityType, <1>1, StateList DEF r
<1>12. \A t \in Int : now - Window - Lockout < t
          => Cardinality(Index(G, t)) <= Cardinality(Recorded(count2, t, now))
  <2> SUFFICES ASSUME NEW t \in Int, now - Window - Lockout < t
               PROVE  Cardinality(Index(G, t)) <= Cardinality(Recorded(count2, t, now))
    OBVIOUS
  <2>1. CASE t <= now
    <3>1. Cardinality(Index(r, t)) <= Cardinality(Recorded(count, t, now))
      BY <1>1, <1>2 DEF Entry, NoneInvented
    <3>2. CASE Cardinality(Recorded(count2, t, now)) = Cardinality(Recorded(count, t, now)) + 1
      BY <1>7, <1>10, <1>11, <2>1, <3>1, <3>2
    <3>3. CASE MaxFailures <= Cardinality(Recorded(count2, t, now))
      <4>1. /\ Cardinality(Index(G, t)) \in Nat /\ Cardinality(Index(G, t)) <= MaxFailures
            /\ Cardinality(Recorded(count2, t, now)) \in Nat
        BY <1>7, <1>10
      <4> QED
        BY <3>3, <4>1, Limits
    <3> QED
      BY <1>9, <2>1, <3>2, <3>3
  <2>2. CASE now < t
    <3>1. Cardinality(Index(G, t)) = 0 /\ Cardinality(Recorded(count2, t, now)) \in Nat
      BY <1>7, <1>10, <2>2
    <3> QED
      BY <3>1
  <2> QED
    BY <1>3, <2>1, <2>2
<1>13. CASE ~(Len(G) >= MaxFailures)
  <2> DEFINE v == [failures |-> G, lockedUntil |-> s.lockedUntil]
  <2>1. AddFailure(s) = v
    BY <1>1, <1>13 DEF AddFailure, State, r
  <2>2. v \in State
    <3>1. Len(G) <= MaxFailures - 1
      BY <1>4, <1>6, <1>13, Limits
    <3> QED
      BY <1>2, <1>6, <3>1, ListState
  <2>3. NoneMissing(v, count2, now)
    <3> SUFFICES ASSUME NEW t \in Int, s.lockedUntil - Lockout < t, now - Lockout < t
                 PROVE  Cardinality(Recorded(count2, t, now)) <= Cardinality(Index(G, t))
      BY DEF NoneMissing
    <3>1. Cardinality(Recorded(count, t, now)) <= Cardinality(Index(r, t))
      BY <1>1, <1>2 DEF Entry, NoneMissing
    <3>2. CASE t <= now
      <4>1. /\ Cardinality(Recorded(count2, t, now)) <= Cardinality(Recorded(count, t, now)) + 1
            /\ Cardinality(Recorded(count2, t, now)) \in Nat
            /\ Cardinality(Recorded(count, t, now)) \in Nat
        BY <1>9, <1>10
      <4>2. Cardinality(Index(G, t)) = Cardinality(Index(r, t)) + 1 /\ Cardinality(Index(r, t)) \in Nat
        BY <1>7, <1>11, <3>2
      <4> QED
        BY <3>1, <4>1, <4>2
    <3>3. CASE now < t
      <4>1. Cardinality(Recorded(count2, t, now)) = 0 /\ Cardinality(Index(G, t)) = 0
        BY <1>7, <1>9, <3>3
      <4> QED
        BY <4>1
    <3> QED
      BY <1>3, <3>2, <3>3
  <2>4. NoneInvented(v, count2, now)
    BY <1>12 DEF NoneInvented
  <2>5. LockCause(v, count2, now)
    <3> SUFFICES ASSUME now < s.lockedUntil
                 PROVE  MaxFailures <= Cardinality(Recorded(count2, s.lockedUntil - Lockout - Window, now))
      BY DEF LockCause
    <3> DEFINE t == s.lockedUntil - Lockout - Window
    <3>1. t \in Int
      BY <1>2, Limits
    <3>2. MaxFailures <= Cardinality(Recorded(count, t, now))
      BY <1>1, <1>2 DEF Entry, LockCause
    <3>3. Cardinality(Recorded(count, t, now)) <= Cardinality(Recorded(count2, t, now))
      BY <1>9, <3>1, RecordedMore
    <3> QED
      <4>1. /\ Cardinality(Recorded(count, t, now)) \in Nat
            /\ Cardinality(Recorded(count2, t, now)) \in Nat
        BY <1>10, <3>1
      <4> QED
        BY <3>2, <3>3, <4>1, Limits
  <2>6. Ordered(v.failures, now)
    BY <1>8
  <2> QED
    BY <2>1, <2>2, <2>3, <2>4, <2>5, <2>6 DEF Entry
<1>14. CASE Len(G) >= MaxFailures
  <2> DEFINE v == [failures |-> <<>>, lockedUntil |-> now + Lockout]
  <2>1. AddFailure(s) = v
    BY <1>1, <1>14 DEF AddFailure, State, r
  <2>2. v \in State
    <3>1. <<>> \in Seq(Times) /\ Len(<<>>) <= MaxFailures - 1 /\ now + Lockout \in 0..(MaxTime + Lockout)
      BY <1>3, Limits DEF Times
    <3> QED
      BY <3>1, ListState
  <2>3. NoneMissing(v, count2, now)
    <3>1. ASSUME NEW t \in Int, now < t
          PROVE  Cardinality(Recorded(count2, t, now)) <= Cardinality(Index(<<>>, t))
      <4>1. Cardinality(Recorded(count2, t, now)) = 0 /\ Cardinality(Index(<<>>, t)) = 0
        BY <1>9, <3>1, NoIndex
      <4> QED
        BY <4>1
    <3>2. v.failures = <<>>
      OBVIOUS
    <3>3. v.lockedUntil - Lockout = now
      BY <1>3, Limits
    <3> HIDE DEF v
    <3> QED
      BY <3>1, <3>2, <3>3 DEF NoneMissing
  <2>4. NoneInvented(v, count2, now)
    <3>1. \A t \in Int : Cardinality(Index(<<>>, t)) = 0 /\ Cardinality(Recorded(count2, t, now)) \in Nat
      BY <1>10, NoIndex
    <3>2. ASSUME NEW t \in Int PROVE Cardinality(Index(<<>>, t)) <= Cardinality(Recorded(count2, t, now))
      <4> DEFINE a == Cardinality(Index(<<>>, t))
                 b == Cardinality(Recorded(count2, t, now))
      <4>1. a = 0 /\ b \in Nat
        BY <3>1
      <4> HIDE DEF a, b
      <4>2. a <= b
        BY <4>1
      <4> QED
        BY <4>2 DEF a, b
    <3> QED
      BY <3>2 DEF NoneInvented
  <2>5. LockCause(v, count2, now)
    <3> DEFINE t == now - Window
    <3>1. now + Lockout - Lockout - Window = t /\ t \in Int /\ now - Window - Lockout < t
      BY <1>3, Limits
    <3>2. Cardinality(Index(G, t)) <= Cardinality(Recorded(count2, t, now))
      BY <1>12, <3>1
    <3>3. MaxFailures <= Cardinality(Index(G, t))
      BY <1>6, <1>8, <1>14
    <3>4. MaxFailures <= Cardinality(Recorded(count2, t, now))
      <4>1. Cardinality(Index(G, t)) \in Nat /\ Cardinality(Recorded(count2, t, now)) \in Nat
        BY <1>7, <1>10, <3>1
      <4> QED
        BY <3>2, <3>3, <4>1, Limits
    <3>5. v.lockedUntil - Lockout - Window = t
      BY <1>3, Limits
    <3> HIDE DEF v, t
    <3> QED
      BY <3>4, <3>5 DEF LockCause
  <2>6. Ordered(v.failures, now)
    BY DEF Ordered
  <2> QED
    BY <2>1, <2>2, <2>3, <2>4, <2>5, <2>6 DEF Entry
<1> QED
  BY <1>13, <1>14

\* When nothing was recorded there is nothing to answer for.
LEMMA NothingRecorded ==
  ASSUME NEW n \in Times
  PROVE  NoneCounted \in Counts /\ Forgotten(NoneCounted, n)
<1>1. NoneCounted \in Counts
  BY Limits DEF NoneCounted, Counts
<1>2. ASSUME NEW t, NEW f \in Recorded(NoneCounted, t, n) PROVE FALSE
  <2>1. f[1] \in Times /\ f[2] \in 1..MaxFailures /\ f[2] <= NoneCounted[f[1]]
    BY <1>2 DEF Recorded
  <2>2. NoneCounted[f[1]] = 0
    BY <2>1 DEF NoneCounted
  <2> QED
    BY <2>1, <2>2
<1> QED
  BY <1>1, <1>2 DEF Forgotten

\* Time passes: what counted holds for a longer time than a lock or a list needs
\* is forgotten, and nothing has been recorded for the new time yet.
TickedCount(count, n) == [t \in Times |-> IF t <= (n + 1) - Window - Lockout THEN 0 ELSE count[t]]

\* A tick forgets only failures that no lock and no list needs any more.
LEMMA RecordedTicks ==
  ASSUME NEW count \in Counts, NEW n \in Times, n + 1 \in Times, NEW t \in Int,
         \A v \in Times : n < v => count[v] = 0
  PROVE  /\ TickedCount(count, n) \in Counts
         /\ Recorded(TickedCount(count, n), t, n + 1) \subseteq Recorded(count, t, n)
         /\ (n + 1) - Window - Lockout < t
              => Recorded(count, t, n) \subseteq Recorded(TickedCount(count, n), t, n + 1)
<1> DEFINE count2 == TickedCount(count, n)
<1>1. Times \subseteq Int /\ n \in Int /\ Window \in Int /\ Lockout \in Int
  BY Limits DEF Times
<1>2. \A v \in Times : /\ count[v] \in 0..MaxFailures
                       /\ count2[v] = IF v <= (n + 1) - Window - Lockout THEN 0 ELSE count[v]
  BY DEF TickedCount, Counts
<1>3. count2 \in Counts
  BY <1>2, Limits DEF TickedCount, Counts
<1> HIDE DEF count2
<1>4. ASSUME NEW f \in Recorded(count2, t, n + 1) PROVE f \in Recorded(count, t, n)
  <2>1. /\ f \in Times \X (1..MaxFailures) /\ f[1] \in Times /\ f[2] \in 1..MaxFailures
        /\ t <= f[1] /\ f[1] <= n + 1 /\ f[2] <= count2[f[1]]
    BY <1>4 DEF Recorded
  <2>2. count2[f[1]] # 0
    BY <2>1
  <2>3. count2[f[1]] = count[f[1]] /\ count[f[1]] # 0
    BY <1>2, <2>1, <2>2
  <2>4. ~(n < f[1])
    BY <2>1, <2>3
  <2>5. f[1] <= n
    <3>1. f[1] \in Int
      BY <1>1, <2>1
    <3> QED
      BY <1>1, <2>4, <3>1
  <2> QED
    BY <2>1, <2>3, <2>5 DEF Recorded
<1>5. ASSUME (n + 1) - Window - Lockout < t, NEW f \in Recorded(count, t, n)
      PROVE  f \in Recorded(count2, t, n + 1)
  <2>1. /\ f \in Times \X (1..MaxFailures) /\ f[1] \in Times /\ t <= f[1] /\ f[1] <= n /\ f[2] <= count[f[1]]
    BY <1>5 DEF Recorded
  <2>2. ~(f[1] <= (n + 1) - Window - Lockout) /\ f[1] <= n + 1
    <3>1. f[1] \in Int
      BY <1>1, <2>1
    <3> QED
      BY <1>1, <1>5, <2>1, <3>1
  <2>3. count2[f[1]] = count[f[1]]
    BY <1>2, <2>1, <2>2
  <2> QED
    BY <2>1, <2>2, <2>3 DEF Recorded
<1> QED
  BY <1>3, <1>4, <1>5 DEF count2

\* Time keeps an entry right.
LEMMA EntryTicks ==
  ASSUME NEW count \in Counts, NEW n \in Times, n + 1 \in Times, NEW s, Entry(s, count, n),
         \A v \in Times : n < v => count[v] = 0
  PROVE  Entry(s, TickedCount(count, n), n + 1)
<1> DEFINE count2 == TickedCount(count, n)
<1>1. n \in Int /\ Window \in Int /\ Lockout \in Int /\ s.lockedUntil \in Int /\ s \in State
  BY Limits, StateList DEF Times, Entry
<1>2. Ordered(s.failures, n + 1)
  <2>1. \A i \in DOMAIN s.failures : s.failures[i] \in Int /\ s.failures[i] <= n
    BY <1>1, StateList DEF Entry, Ordered
  <2>2. \A i \in DOMAIN s.failures : s.failures[i] <= n + 1
    BY <1>1, <2>1
  <2> QED
    BY <2>2 DEF Entry, Ordered
<1>3. \A t \in Int : /\ Cardinality(Recorded(count2, t, n + 1)) \in Nat
                     /\ Cardinality(Recorded(count, t, n)) \in Nat
                     /\ Cardinality(Index(s.failures, t)) \in Nat
                     /\ Cardinality(Recorded(count2, t, n + 1)) <= Cardinality(Recorded(count, t, n))
                     /\ (n + 1) - Window - Lockout < t =>
                          Cardinality(Recorded(count, t, n)) <= Cardinality(Recorded(count2, t, n + 1))
  <2> TAKE t \in Int
  <2>1. /\ Recorded(count2, t, n + 1) \subseteq Recorded(count, t, n)
        /\ (n + 1) - Window - Lockout < t => Recorded(count, t, n) \subseteq Recorded(count2, t, n + 1)
    BY RecordedTicks
  <2> HIDE DEF count2
  <2>2. Cardinality(Recorded(count2, t, n + 1)) \in Nat /\ Cardinality(Recorded(count, t, n)) \in Nat
    BY RecordedFinite
  <2>3. Cardinality(Index(s.failures, t)) \in Nat
    BY <1>1, StateList, RecentIndex, FS_CardinalityType
  <2> QED
    BY <2>1, <2>2, <2>3, RecordedMore
<1> HIDE DEF count2
<1>4. NoneMissing(s, count2, n + 1)
  <2>1. ASSUME NEW t \in Int, s.lockedUntil - Lockout < t, (n + 1) - Lockout < t
        PROVE  Cardinality(Recorded(count2, t, n + 1)) <= Cardinality(Index(s.failures, t))
    <3>1. n - Lockout < t
      BY <1>1, <2>1
    <3>2. Cardinality(Recorded(count, t, n)) <= Cardinality(Index(s.failures, t))
      BY <2>1, <3>1 DEF Entry, NoneMissing
    <3> QED
      BY <1>3, <3>2
  <2> QED
    BY <2>1 DEF NoneMissing
<1>5. NoneInvented(s, count2, n + 1)
  <2>1. ASSUME NEW t \in Int, (n + 1) - Window - Lockout < t
        PROVE  Cardinality(Index(s.failures, t)) <= Cardinality(Recorded(count2, t, n + 1))
    <3>1. n - Window - Lockout < t
      BY <1>1, <2>1
    <3>2. Cardinality(Index(s.failures, t)) <= Cardinality(Recorded(count, t, n))
      BY <3>1 DEF Entry, NoneInvented
    <3> QED
      BY <1>3, <2>1, <3>2
  <2> QED
    BY <2>1 DEF NoneInvented
<1>6. LockCause(s, count2, n + 1)
  <2> SUFFICES ASSUME n + 1 < s.lockedUntil
               PROVE  MaxFailures <= Cardinality(Recorded(count2, s.lockedUntil - Lockout - Window, n + 1))
    BY DEF LockCause
  <2> DEFINE t == s.lockedUntil - Lockout - Window
  <2>1. t \in Int /\ n < s.lockedUntil /\ (n + 1) - Window - Lockout < t
    BY <1>1
  <2>2. MaxFailures <= Cardinality(Recorded(count, t, n))
    BY <2>1 DEF Entry, LockCause
  <2> HIDE DEF t
  <2>3. MaxFailures <= Cardinality(Recorded(count2, t, n + 1))
    BY <1>3, <2>1, <2>2, Limits
  <2> QED
    BY <2>3 DEF t
<1> QED
  BY <1>1, <1>2, <1>4, <1>5, <1>6 DEF Entry, count2

\* A key without an entry may stay without one when time passes.
LEMMA ForgottenTicks ==
  ASSUME NEW count \in Counts, NEW n \in Times, n + 1 \in Times, Forgotten(count, n),
         \A v \in Times : n < v => count[v] = 0
  PROVE  Forgotten(TickedCount(count, n), n + 1)
<1> DEFINE t == ((n + 1) - Lockout) + 1
<1>1. n \in Int /\ Lockout \in Int /\ t \in Int
  BY Limits DEF Times
<1>2. Recorded(TickedCount(count, n), t, n + 1) \subseteq Recorded(count, t, n)
  BY <1>1, RecordedTicks
<1>3. ASSUME NEW f \in Recorded(count, t, n) PROVE f \in Recorded(count, n - Lockout + 1, n)
  <2>1. f \in Times \X (1..MaxFailures) /\ f[1] \in Int /\ t <= f[1] /\ f[1] <= n /\ f[2] <= count[f[1]]
    BY <1>3, Limits DEF Recorded, Times
  <2>2. n - Lockout + 1 <= f[1]
    BY <1>1, <2>1
  <2> QED
    BY <2>1, <2>2 DEF Recorded
<1> QED
  BY <1>2, <1>3 DEF Forgotten

-----------------------------------------------------------------------------
(* What the calls of the limiter do *)

\* The part of the invariant about one key.
Right(s, k) == IF k \in DOMAIN s THEN Entry(s[k], counted[k], now) ELSE Forgotten(counted[k], now)

AttemptTypes == attempt \in [Attempts -> [pc: {"idle", "compare", "granted"}, key: Keys]]

\* The steps of an attempt keep the types of the attempts.
LEMMA AttemptStep ==
  ASSUME LimiterInv, NEW a \in Attempts
  PROVE  /\ NoAttempt \in [pc: {"idle", "compare", "granted"}, key: Keys]
         /\ Reply(a) => AttemptTypes'
         /\ \A l \in {"idle", "compare", "granted"} : Step(a, l) => AttemptTypes'
         /\ attempt[a].key \in Keys
<1>1. (CHOOSE k \in Keys : TRUE) \in Keys
  BY LimiterAssumption
<1>2. NoAttempt \in [pc: {"idle", "compare", "granted"}, key: Keys]
  BY <1>1 DEF NoAttempt
<1>3. AttemptTypes
  BY DEF LimiterInv, LimiterTypeOK, AttemptTypes
<1> HIDE DEF NoAttempt
<1> QED
  BY <1>2, <1>3 DEF AttemptTypes, Reply, Step

\* A step that changes none of the counts and leaves a map of the right entries.
LEMMA MapStep ==
  ASSUME LimiterInv, NEW m, states' = m, AttemptTypes', UNCHANGED now,
         DOMAIN m \subseteq Keys, IsFiniteSet(DOMAIN m), Cardinality(DOMAIN m) <= MaxStates,
         counted' \in [Keys -> Counts],
         \A k \in Keys, t \in Times : now < t => counted'[k][t] = 0,
         \A k \in Keys : IF k \in DOMAIN m THEN Entry(m[k], counted'[k], now)
                                           ELSE Forgotten(counted'[k], now)
  PROVE  LimiterInv'
<1>1. \A k \in DOMAIN m : m[k] \in State
  BY DEF Entry
<1>2. LimiterTypeOK'
  BY <1>1 DEF LimiterInv, LimiterTypeOK, AttemptTypes, Counts
<1>3. EntriesRight'
  BY DEF EntriesRight
<1>4. NoneAhead'
  BY DEF NoneAhead
<1> QED
  BY <1>2, <1>3, <1>4 DEF LimiterInv

\* What every step may use of the invariant of the limiter.
LEMMA LimiterFacts ==
  ASSUME LimiterInv
  PROVE  /\ now \in Times /\ now \in Int
         /\ DOMAIN states \subseteq Keys /\ IsFiniteSet(DOMAIN states)
         /\ Cardinality(DOMAIN states) <= MaxStates
         /\ counted \in [Keys -> Counts] /\ \A k \in Keys : counted[k] \in Counts
         /\ \A k \in Keys, t \in Times : now < t => counted[k][t] = 0
         /\ \A k \in Keys : Right(states, k)
  BY Limits DEF LimiterInv, LimiterTypeOK, Counts, NoneAhead, EntriesRight, Right, Times

\* A map with fewer keys is within the limit.
LEMMA FewerKeys ==
  ASSUME LimiterInv, NEW D, D \subseteq DOMAIN states
  PROVE  D \subseteq Keys /\ IsFiniteSet(D) /\ Cardinality(D) \in Nat /\ Cardinality(D) <= MaxStates
<1>1. IsFiniteSet(D) /\ Cardinality(D) <= Cardinality(DOMAIN states)
  BY LimiterFacts, FS_Subset
<1>2. Cardinality(D) \in Nat /\ Cardinality(DOMAIN states) \in Nat
  BY <1>1, LimiterFacts, FS_CardinalityType
<1> QED
  BY <1>1, <1>2, LimiterFacts, Limits

\* Allow drops an entry only when it has run out.
LEMMA AllowStep ==
  ASSUME LimiterInv, NEW a \in Attempts, NEW k \in Keys, Allow(a, k)
  PROVE  LimiterInv'
<1>1. AttemptTypes' /\ UNCHANGED <<now, counted>>
  BY DEF Allow, AttemptTypes, LimiterInv, LimiterTypeOK
<1>2. CASE k \notin DOMAIN states
  <2>1. states' = states
    BY <1>2 DEF Allow
  <2> QED
    BY <1>1, <2>1, MapStep, LimiterFacts DEF Right
<1>3. CASE k \in DOMAIN states /\ Recent(k) = <<>>
  <2> DEFINE m == [j \in DOMAIN states \ {k} |-> states[j]]
  <2>1. states' = m /\ DOMAIN m = DOMAIN states \ {k}
    BY <1>3 DEF Allow, Without, Restrict
  <2>2. Forgotten(counted[k], now)
    <3>1. Entry(states[k], counted[k], now)
      BY <1>3, LimiterFacts DEF Right
    <3> QED
      BY <1>3, <3>1, EntryRunOut, LimiterFacts DEF Allow, Locked, Recent
  <2>3. ASSUME NEW j \in Keys PROVE IF j \in DOMAIN m THEN Entry(m[j], counted[j], now)
                                                      ELSE Forgotten(counted[j], now)
    BY <2>1, <2>2, LimiterFacts DEF Right
  <2>4. DOMAIN m \subseteq DOMAIN states
    BY <2>1
  <2> HIDE DEF m
  <2> QED
    BY <1>1, <2>1, <2>3, <2>4, MapStep, LimiterFacts, FewerKeys
<1>4. CASE k \in DOMAIN states /\ Recent(k) # <<>>
  <2> DEFINE m == [states EXCEPT ![k].failures = Recent(k)]
  <2>1. states' = m
    BY <1>4 DEF Allow
  <2>2. DOMAIN m = DOMAIN states /\ m[k] = [states[k] EXCEPT !.failures = Recent(k)]
        /\ \A j \in DOMAIN states \ {k} : m[j] = states[j]
    BY <1>4
  <2>3. Entry(m[k], counted[k], now)
    <3>1. Entry(states[k], counted[k], now)
      BY <1>4, LimiterFacts DEF Right
    <3> QED
      BY <2>2, <3>1, EntryRecent, LimiterFacts DEF Recent
  <2> HIDE DEF m
  <2>4. ASSUME NEW j \in Keys PROVE IF j \in DOMAIN m THEN Entry(m[j], counted[j], now)
                                                      ELSE Forgotten(counted[j], now)
    BY <2>2, <2>3, LimiterFacts DEF Right
  <2> QED
    BY <1>1, <2>1, <2>2, <2>4, MapStep, LimiterFacts
<1> QED
  BY <1>2, <1>3, <1>4

\* prune drops and shortens only what has run out.
LEMMA PruneRight ==
  ASSUME LimiterInv
  PROVE  DOMAIN prune \subseteq DOMAIN states /\ \A k \in Keys : Right(prune, k)
<1>1. DOMAIN prune = {j \in DOMAIN states : Locked(j) \/ Recent(j) # <<>>}
      /\ \A k \in DOMAIN prune : prune[k] = [states[k] EXCEPT !.failures = Recent(k)]
  BY DEF prune
<1>2. ASSUME NEW k \in Keys PROVE Right(prune, k)
  <2>1. CASE k \notin DOMAIN states
    BY <1>1, <2>1, LimiterFacts DEF Right
  <2>2. CASE k \in DOMAIN prune
    <3>1. Entry(states[k], counted[k], now)
      BY <1>1, <2>2, LimiterFacts DEF Right
    <3>2. Entry(prune[k], counted[k], now)
      <4>1. prune[k] = [states[k] EXCEPT !.failures = recent(states[k].failures, now - Window)]
        BY <1>1, <2>2 DEF Recent
      <4>2. counted[k] \in Counts /\ now \in Times
        BY LimiterFacts
      <4> QED
        BY <3>1, <4>1, <4>2, EntryRecent
    <3> QED
      BY <2>2, <3>2 DEF Right
  <2>3. CASE k \in DOMAIN states /\ k \notin DOMAIN prune
    <3>1. Entry(states[k], counted[k], now)
      BY <2>3, LimiterFacts DEF Right
    <3>2. recent(states[k].failures, now - Window) = <<>> /\ ~(now < states[k].lockedUntil)
      BY <1>1, <2>3 DEF Locked, Recent
    <3>3. Forgotten(counted[k], now)
      BY <3>1, <3>2, EntryRunOut, LimiterFacts
    <3> QED
      BY <2>3, <3>3 DEF Right
  <2> QED
    BY <2>1, <2>2, <2>3
<1> QED
  BY <1>1, <1>2

\* A failure is counted for its key only.
LEMMA CountStep ==
  ASSUME LimiterInv, NEW k \in Keys, Count(k)
  PROVE  /\ counted' \in [Keys -> Counts]
         /\ counted'[k] = [counted[k] EXCEPT ![now] = Min({@ + 1, MaxFailures})]
         /\ \A j \in Keys \ {k} : counted'[j] = counted[j]
         /\ \A j \in Keys, t \in Times : now < t => counted'[j][t] = 0
<1> DEFINE new == [counted[k] EXCEPT ![now] = Min({@ + 1, MaxFailures})]
<1>1. counted' = [counted EXCEPT ![k] = new]
  BY LimiterFacts DEF Count
<1>2. counted \in [Keys -> Counts] /\ counted[k] \in Counts /\ now \in Times /\ now \in Int
  BY LimiterFacts
<1>3. new \in Counts
  BY <1>2, RecordedOne
<1>4. \A t \in Times : now < t => new[t] = 0
  <2> TAKE t \in Times
  <2>1. now < t => t # now
    BY <1>2
  <2>2. t # now => new[t] = counted[k][t]
    BY <1>2 DEF Counts
  <2> HIDE DEF new
  <2> QED
    BY <2>1, <2>2, LimiterFacts
<1> HIDE DEF new
<1>5. counted' \in [Keys -> Counts] /\ counted'[k] = new /\ \A j \in Keys \ {k} : counted'[j] = counted[j]
  BY <1>1, <1>2, <1>3
<1>6. \A j \in Keys, t \in Times : now < t => counted'[j][t] = 0
  <2> TAKE j \in Keys, t \in Times
  <2>1. CASE j = k
    BY <1>4, <1>5, <2>1
  <2>2. CASE j # k
    BY <1>5, <2>2, LimiterFacts
  <2> QED
    BY <2>1, <2>2
<1> QED
  BY <1>5, <1>6 DEF new

\* Failure adds the failure to the entry of its key, to a new one while the map
\* has room, or drops it.
LEMMA FailureStep ==
  ASSUME LimiterInv, NEW a \in Attempts, Failure(a)
  PROVE  LimiterInv'
<1> DEFINE k == attempt[a].key
<1>1. AttemptTypes' /\ UNCHANGED now /\ k \in Keys
  BY AttemptStep DEF Failure
<1>2. now \in Times /\ counted[k] \in Counts
  BY <1>1, LimiterFacts
<1> HIDE DEF k
<1>3. CASE k \in DOMAIN states /\ states' = [states EXCEPT ![k] = AddFailure(states[k])] /\ Count(k)
  <2> DEFINE m == [states EXCEPT ![k] = AddFailure(states[k])]
  <2>1. /\ DOMAIN m = DOMAIN states /\ m[k] = AddFailure(states[k])
        /\ \A j \in DOMAIN states \ {k} : m[j] = states[j]
    BY <1>3
  <2>2. Entry(m[k], counted'[k], now)
    <3>1. Entry(states[k], counted[k], now)
      BY <1>1, <1>3, LimiterFacts DEF Right
    <3>2. counted'[k] = [counted[k] EXCEPT ![now] = Min({@ + 1, MaxFailures})]
      BY <1>1, <1>3, CountStep
    <3> QED
      BY <1>2, <2>1, <3>1, <3>2, EntryFailed
  <2>3. states' = m
    BY <1>3
  <2> HIDE DEF m
  <2>4. ASSUME NEW j \in Keys PROVE IF j \in DOMAIN m THEN Entry(m[j], counted'[j], now)
                                                      ELSE Forgotten(counted'[j], now)
    <3>1. CASE j = k
      BY <1>3, <2>1, <2>2, <3>1
    <3>2. CASE j # k
      <4>1. counted'[j] = counted[j] /\ Right(states, j)
        BY <1>1, <1>3, <3>2, CountStep, LimiterFacts
      <4> QED
        BY <2>1, <3>2, <4>1 DEF Right
    <3> QED
      BY <3>1, <3>2
  <2> QED
    BY <1>1, <1>3, <2>1, <2>3, <2>4, MapStep, LimiterFacts, CountStep
<1>4. CASE /\ k \notin DOMAIN states /\ Cardinality(DOMAIN prune) < MaxStates
           /\ states' = With(prune, k, AddFailure(Fresh)) /\ Count(k)
  <2> DEFINE D == DOMAIN prune
             m == With(prune, k, AddFailure(Fresh))
  <2>1. D \subseteq DOMAIN states /\ \A j \in Keys : Right(prune, j)
    BY PruneRight
  <2>2. /\ DOMAIN m = D \cup {k} /\ m[k] = AddFailure(Fresh)
        /\ \A j \in D \ {k} : m[j] = prune[j]
    BY DEF With
  <2>3. Entry(m[k], counted'[k], now)
    <3>1. Forgotten(counted[k], now)
      BY <1>1, <1>4, LimiterFacts DEF Right
    <3>2. Entry(Fresh, counted[k], now)
      BY <1>2, <3>1, EntryFresh
    <3>3. counted'[k] = [counted[k] EXCEPT ![now] = Min({@ + 1, MaxFailures})]
      BY <1>1, <1>4, CountStep
    <3>4. Entry(AddFailure(Fresh), counted'[k], now)
      BY <1>2, <3>2, <3>3, EntryFailed
    <3> QED
      BY <2>2, <3>4
  <2>4. states' = m
    BY <1>4
  <2> HIDE DEF m, D
  <2>5. ASSUME NEW j \in Keys PROVE IF j \in DOMAIN m THEN Entry(m[j], counted'[j], now)
                                                      ELSE Forgotten(counted'[j], now)
    <3>1. CASE j = k
      BY <2>2, <2>3, <3>1
    <3>2. CASE j # k
      <4>1. counted'[j] = counted[j] /\ Right(prune, j)
        BY <1>1, <1>4, <2>1, <3>2, CountStep
      <4> QED
        BY <2>2, <3>2, <4>1 DEF Right, D
    <3> QED
      BY <3>1, <3>2
  <2>6. DOMAIN m \subseteq Keys /\ IsFiniteSet(DOMAIN m) /\ Cardinality(DOMAIN m) <= MaxStates
    <3>1. D \subseteq Keys /\ IsFiniteSet(D) /\ Cardinality(D) \in Nat /\ Cardinality(D) < MaxStates
      BY <1>4, <2>1, FewerKeys DEF D
    <3>2. /\ IsFiniteSet(D \cup {k})
          /\ Cardinality(D \cup {k}) = IF k \in D THEN Cardinality(D) ELSE Cardinality(D) + 1
      BY <3>1, FS_AddElement
    <3>3. Cardinality(D \cup {k}) <= MaxStates
      BY <3>1, <3>2, Limits
    <3> QED
      BY <1>1, <2>2, <3>1, <3>2, <3>3
  <2> QED
    BY <1>1, <1>4, <2>4, <2>5, <2>6, MapStep, CountStep
<1>5. CASE states' = prune /\ UNCHANGED counted
  <2>1. DOMAIN prune \subseteq DOMAIN states /\ \A j \in Keys : Right(prune, j)
    BY PruneRight
  <2> QED
    BY <1>1, <1>5, <2>1, MapStep, FewerKeys, LimiterFacts DEF Right
<1> QED
  BY <1>3, <1>4, <1>5 DEF Failure, k

\* Success forgets its key.
LEMMA SuccessStep ==
  ASSUME LimiterInv, NEW a \in Attempts, Success(a)
  PROVE  LimiterInv'
<1> DEFINE k == attempt[a].key
           m == [j \in DOMAIN states \ {k} |-> states[j]]
<1>1. AttemptTypes' /\ UNCHANGED now /\ k \in Keys
  BY AttemptStep DEF Success
<1>2. states' = m /\ counted' = [counted EXCEPT ![k] = NoneCounted]
  BY DEF Success, Without, Restrict
<1> HIDE DEF k
<1>3. DOMAIN m = DOMAIN states \ {k} /\ \A j \in DOMAIN m : m[j] = states[j]
  OBVIOUS
<1> HIDE DEF m
<1>4. NoneCounted \in Counts /\ Forgotten(NoneCounted, now)
  BY NothingRecorded, LimiterFacts
<1>5. /\ counted' \in [Keys -> Counts] /\ counted'[k] = NoneCounted
      /\ \A j \in Keys \ {k} : counted'[j] = counted[j]
  BY <1>1, <1>2, <1>4, LimiterFacts
<1>6. ASSUME NEW j \in Keys PROVE /\ IF j \in DOMAIN m THEN Entry(m[j], counted'[j], now)
                                                      ELSE Forgotten(counted'[j], now)
                                  /\ \A t \in Times : now < t => counted'[j][t] = 0
  <2>1. CASE j = k
    BY <1>3, <1>4, <1>5, <2>1 DEF NoneCounted
  <2>2. CASE j # k
    BY <1>3, <1>5, <2>2, LimiterFacts DEF Right
  <2> QED
    BY <2>1, <2>2
<1>7. DOMAIN m \subseteq DOMAIN states
  BY <1>3
<1> QED
  BY <1>1, <1>2, <1>5, <1>6, <1>7, MapStep, FewerKeys

\* At the start, nothing has failed yet.
LEMMA LimiterStart ==
  ASSUME LimiterInit
  PROVE  LimiterInv
<1>1. NoneCounted \in Counts /\ Forgotten(NoneCounted, now) /\ now \in Times
  BY NothingRecorded, Limits DEF LimiterInit, Times
<1>2. DOMAIN states = {} /\ counted = [k \in Keys |-> NoneCounted]
  BY DEF LimiterInit
<1>3. NoAttempt \in [pc: {"idle", "compare", "granted"}, key: Keys]
  <2>1. (CHOOSE k \in Keys : TRUE) \in Keys
    BY LimiterAssumption
  <2> QED
    BY <2>1 DEF NoAttempt
<1>4. LimiterTypeOK /\ IsFiniteSet(DOMAIN states)
  <2>1. IsFiniteSet(DOMAIN states) /\ Cardinality(DOMAIN states) <= MaxStates
    BY <1>2, FS_EmptySet, Limits
  <2>2. attempt \in [Attempts -> [pc: {"idle", "compare", "granted"}, key: Keys]]
    <3> HIDE DEF NoAttempt
    <3> QED
      BY <1>3 DEF LimiterInit
  <2> QED
    BY <1>1, <1>2, <2>1, <2>2 DEF LimiterTypeOK, Counts
<1>5. EntriesRight
  BY <1>1, <1>2 DEF EntriesRight
<1>6. NoneAhead
  BY <1>2 DEF NoneAhead, NoneCounted
<1> QED
  BY <1>4, <1>5, <1>6 DEF LimiterInv

\* A restart forgets everything.
LEMMA RestartStep ==
  ASSUME LimiterInv, LimiterRestart, UNCHANGED now
  PROVE  LimiterInv'
<1> DEFINE m == [k \in {} |-> Fresh]
<1>1. states' = m /\ counted' = [k \in Keys |-> NoneCounted]
  BY DEF LimiterRestart
<1>2. NoneCounted \in Counts /\ Forgotten(NoneCounted, now)
  BY NothingRecorded, LimiterFacts
<1>3. DOMAIN m = {}
  OBVIOUS
<1>4. AttemptTypes'
  <2>1. (CHOOSE k \in Keys : TRUE) \in Keys
    BY LimiterAssumption
  <2>2. NoAttempt \in [pc: {"idle", "compare", "granted"}, key: Keys]
    BY <2>1 DEF NoAttempt
  <2> HIDE DEF NoAttempt
  <2> QED
    BY <2>2 DEF LimiterRestart, AttemptTypes
<1>5. \A k \in Keys : counted'[k] = NoneCounted
  BY <1>1
<1>6. \A t \in Times : NoneCounted[t] = 0
  BY DEF NoneCounted
<1>7. counted' \in [Keys -> Counts]
  BY <1>1, <1>2
<1>8. DOMAIN m \subseteq DOMAIN states
  BY <1>3
<1> HIDE DEF m
<1> QED
  BY <1>1, <1>2, <1>3, <1>4, <1>5, <1>6, <1>7, <1>8, MapStep, FewerKeys

\* Time passes.
LEMMA TickStep ==
  ASSUME LimiterInv, now < MaxTime, now' = now + 1, Forget, UNCHANGED <<states, attempt>>
  PROVE  LimiterInv'
<1>1. now \in Times /\ now \in Int /\ now + 1 \in Times
  BY LimiterFacts, Limits DEF Times
<1>2. \A k \in Keys : counted'[k] = TickedCount(counted[k], now)
  BY DEF Forget, TickedCount
<1>3. ASSUME NEW k \in Keys
      PROVE  /\ counted[k] \in Counts
             /\ TickedCount(counted[k], now) \in Counts
             /\ \A v \in Times : now < v => counted[k][v] = 0
  <2>1. counted[k] \in Counts /\ \A v \in Times : now < v => counted[k][v] = 0
    BY LimiterFacts
  <2> QED
    BY <1>1, <2>1, RecordedTicks
<1>4. counted' \in [Keys -> Counts]
  <2>1. counted' = [k \in Keys |-> TickedCount(counted[k], now)]
    BY DEF Forget, TickedCount
  <2> QED
    BY <1>3, <2>1
<1>5. LimiterTypeOK'
  BY <1>1, <1>4 DEF LimiterInv, LimiterTypeOK, Counts
<1>6. ASSUME NEW k \in Keys
      PROVE  IF k \in DOMAIN states' THEN Entry(states'[k], counted'[k], now')
                                     ELSE Forgotten(counted'[k], now')
  <2>1. CASE k \in DOMAIN states
    <3>1. Entry(states[k], counted[k], now)
      BY <2>1, LimiterFacts DEF Right
    <3>2. Entry(states[k], TickedCount(counted[k], now), now + 1)
      BY <1>1, <1>3, <3>1, EntryTicks
    <3> QED
      BY <1>2, <2>1, <3>2
  <2>2. CASE k \notin DOMAIN states
    <3>1. Forgotten(counted[k], now)
      BY <2>2, LimiterFacts DEF Right
    <3>2. Forgotten(TickedCount(counted[k], now), now + 1)
      BY <1>1, <1>3, <3>1, ForgottenTicks
    <3> QED
      BY <1>2, <2>2, <3>2
  <2> QED
    BY <2>1, <2>2
<1>7. NoneAhead'
  <2> SUFFICES ASSUME NEW k \in Keys, NEW t \in Times, now + 1 < t PROVE counted'[k][t] = 0
    BY DEF NoneAhead
  <2>1. now < t /\ counted[k][t] = 0
    <3>1. now < t
      BY <1>1, Limits DEF Times
    <3> QED
      BY <1>3, <3>1
  <2> QED
    BY <1>2, <2>1 DEF TickedCount
<1> QED
  BY <1>5, <1>6, <1>7 DEF LimiterInv, EntriesRight

\* A step that changes no more than the attempts.
LEMMA ReplyStep ==
  ASSUME LimiterInv, AttemptTypes', UNCHANGED <<now, states, counted>>
  PROVE  LimiterInv'
  BY MapStep, LimiterFacts DEF Right

\* Every step of the sessions keeps the invariant of the limiter.
LEMMA LimiterStep ==
  ASSUME LimiterInv, [Next]_vars
  PROVE  LimiterInv'
<1>0. AttemptTypes
  BY DEF LimiterInv, LimiterTypeOK, AttemptTypes
<1>1. ASSUME NEW a \in Attempts, Login(a) PROVE LimiterInv'
  BY <1>1, AttemptStep, ReplyStep DEF Login
<1>2. ASSUME NEW a \in Attempts, Authenticate(a) PROVE LimiterInv'
  BY <1>2, AllowStep, FailureStep, SuccessStep DEF Authenticate
<1>3. ASSUME NEW r \in Calls, \/ \E op \in {"reauthenticate", "logout", "protected"} : Send(r, op)
                              \/ Reauthenticate(r) \/ Logout(r) \/ Protected(r) \/ Receive(r)
      PROVE LimiterInv'
  <2>1. UNCHANGED <<now, limiterVars>>
    BY <1>3 DEF Send, Reauthenticate, Logout, Protected, Receive
  <2> QED
    BY <1>0, <2>1, ReplyStep DEF limiterVars, AttemptTypes
<1>4. CASE Tick
  BY <1>4, TickStep DEF Tick
<1>5. CASE Restart
  BY <1>5, RestartStep DEF Restart
<1>6. CASE UNCHANGED vars
  BY <1>0, <1>6, ReplyStep DEF vars, limiterVars, AttemptTypes
<1> QED
  BY <1>1, <1>2, <1>3, <1>4, <1>5, <1>6 DEF Next

-----------------------------------------------------------------------------
(* What the invariant of the limiter says *)

\* The list of failures of a key that is not locked is too short to owe a lockout.
LEMMA LockoutFollows ==
  ASSUME LimiterInv
  PROVE  LockoutHolds
<1> SUFFICES ASSUME NEW k \in Keys, CountedSince(k, now - Lockout + 1) >= MaxFailures
             PROVE  Locked(k)
  BY DEF LockoutHolds
<1> DEFINE t == now - Lockout + 1
           card == Cardinality(Recorded(counted[k], t, now))
<1>1. card >= MaxFailures /\ card \in Nat /\ now \in Int /\ t \in Int /\ now - Lockout < t
  <2>1. now \in Int /\ t \in Int /\ now - Lockout < t
    BY LimiterFacts, Limits
  <2> QED
    BY <2>1, RecordedFinite DEF CountedSince
<1>2. card # 0
  BY <1>1, Limits
<1>3. k \in DOMAIN states
  <2>1. ASSUME k \notin DOMAIN states PROVE FALSE
    <3>1. Recorded(counted[k], t, now) = {}
      BY <2>1, LimiterFacts DEF Right, Forgotten
    <3> QED
      BY <1>2, <3>1, FS_EmptySet
  <2> QED
    BY <2>1
<1>4. Entry(states[k], counted[k], now)
  BY <1>3, LimiterFacts DEF Right
<1> DEFINE s == states[k]
<1>5. s \in State /\ s.lockedUntil \in Int /\ s.failures \in Seq(Int)
      /\ Len(s.failures) \in Nat /\ Len(s.failures) <= MaxFailures - 1
  BY <1>4, StateList DEF Entry
<1>6. Cardinality(Index(s.failures, t)) \in Nat /\ Cardinality(Index(s.failures, t)) <= Len(s.failures)
  <2>1. Index(s.failures, t) \in SUBSET (1..Len(s.failures))
    BY <1>5 DEF Index
  <2>2. IsFiniteSet(1..Len(s.failures)) /\ Cardinality(1..Len(s.failures)) = Len(s.failures)
    BY <1>5, FS_Interval
  <2> QED
    BY <1>5, <2>1, <2>2, FS_Subset, FS_CardinalityType
<1> HIDE DEF card, s
<1>7. ASSUME ~(now < s.lockedUntil) PROVE FALSE
  <2>1. s.lockedUntil - Lockout < t
    BY <1>1, <1>5, <1>7, Limits
  <2>2. card <= Cardinality(Index(s.failures, t))
    BY <1>1, <1>4, <2>1 DEF Entry, NoneMissing, card, s
  <2> QED
    BY <1>1, <1>5, <1>6, <2>2, Limits
<1> QED
  BY <1>3, <1>7 DEF Locked, s

\* The failures that led to a lock still count.
LEMMA CauseFollows ==
  ASSUME LimiterInv
  PROVE  LockEarned
<1> SUFFICES ASSUME NEW k \in Keys, Locked(k)
             PROVE  CountedSince(k, now - Window - Lockout + 1) >= MaxFailures
  BY DEF LockEarned
<1> DEFINE s == states[k]
           t == s.lockedUntil - Lockout - Window
           u == now - Window - Lockout + 1
<1>1. Entry(s, counted[k], now) /\ now < s.lockedUntil
  BY LimiterFacts DEF Right, Locked
<1>2. now \in Int /\ s.lockedUntil \in Int /\ Window \in Int /\ Lockout \in Int
  BY <1>1, LimiterFacts, Limits, StateList DEF Entry
<1>3. u \in Int /\ t \in Int /\ u <= t
  BY <1>1, <1>2
<1>4. MaxFailures <= Cardinality(Recorded(counted[k], t, now))
  BY <1>1 DEF Entry, LockCause
<1> HIDE DEF t, u
<1>5. Recorded(counted[k], t, now) \subseteq Recorded(counted[k], u, now)
  <2> SUFFICES ASSUME NEW f \in Recorded(counted[k], t, now) PROVE f \in Recorded(counted[k], u, now)
    OBVIOUS
  <2>1. f \in Times \X (1..MaxFailures) /\ f[1] \in Times /\ t <= f[1]
    BY DEF Recorded
  <2>2. f[1] \in Int /\ u <= f[1]
    BY <1>3, <2>1, Limits DEF Times
  <2> QED
    BY <2>2 DEF Recorded
<1>6. Cardinality(Recorded(counted[k], t, now)) <= Cardinality(Recorded(counted[k], u, now))
  BY <1>5, RecordedMore
<1> QED
  BY <1>4, <1>6, RecordedFinite, Limits DEF CountedSince, u

-----------------------------------------------------------------------------
(* What the steps do to the sessions *)

CallType == [op: {"none", "reauthenticate", "logout", "protected"},
             pc: {"idle", "sent", "cookie", "done"}, cookie: Cookie]

\* What every step may use of the invariants of the sessions.
LEMMA SessionFacts ==
  ASSUME LimiterInv, SessionTypes, SessionInv
  PROVE  /\ now \in Nat /\ now # 0 /\ now \in 0..MaxTime
         /\ SessionTTL \in Nat /\ ReauthTTL \in Nat /\ MaxLogins \in Nat
         /\ NoSession \in Cookie /\ NoCall \in CallType /\ call \in [Calls -> CallType]
         /\ CookieTrue(jar, loginAt, verifiedAt)
         /\ \A r \in Calls : /\ call[r] \in CallType /\ call[r].cookie \in Cookie
                             /\ CookieTrue(call[r].cookie, loginAt, verifiedAt)
         /\ CookieTrue(NoSession, loginAt, verifiedAt)
<1>1. now \in Nat /\ now # 0 /\ now \in 0..MaxTime /\ MaxTime \in Nat
  BY LimiterFacts, Limits DEF Times
<1>2. SessionTTL \in Nat /\ ReauthTTL \in Nat /\ MaxLogins \in Nat
  BY SessionsAssumption
<1>3. NoSession \in Cookie /\ CookieTrue(NoSession, loginAt, verifiedAt)
  BY <1>1, <1>2 DEF NoSession, Cookie, CookieTrue
<1>4. call \in [Calls -> CallType] /\ \A r \in Calls : call[r] \in CallType /\ call[r].cookie \in Cookie
  BY DEF SessionTypes, CallType
<1>5. NoCall \in CallType
  <2> HIDE DEF NoSession, Cookie
  <2> QED
    BY <1>3 DEF NoCall, CallType
<1> QED
  BY <1>1, <1>2, <1>3, <1>4, <1>5 DEF SessionInv, CookiesTrue

\* A cookie stays true while sessions begin and the password is given again.
LEMMA CookieStays ==
  ASSUME NEW c \in Cookie, NEW login, NEW login2,
         NEW verified \in [Logins -> 0..MaxTime], NEW verified2 \in [Logins -> 0..MaxTime],
         CookieTrue(c, login, verified),
         \A i \in Logins : login[i] # 0 => login2[i] = login[i],
         \A i \in Logins : verified[i] <= verified2[i]
  PROVE  CookieTrue(c, login2, verified2)
<1>1. c.created \in Nat /\ c.reauth \in Nat
  BY Limits DEF Cookie
<1>2. CASE c.created = 0
  BY <1>2 DEF CookieTrue
<1>3. CASE c.created # 0
  <2>1. c.login \in Logins /\ login2[c.login] = c.created
    BY <1>3 DEF CookieTrue
  <2>2. verified[c.login] \in Nat /\ verified2[c.login] \in Nat /\ verified[c.login] <= verified2[c.login]
    BY <2>1, Limits
  <2>3. c.reauth # 0 => c.created <= c.reauth /\ c.reauth <= verified[c.login]
    BY DEF CookieTrue
  <2> QED
    BY <1>1, <1>3, <2>1, <2>2, <2>3 DEF CookieTrue
<1> QED
  BY <1>2, <1>3

\* An answer to one request: its cookie is the only one that changes.
LEMMA AnswerStep ==
  ASSUME LimiterInv, SessionTypes, SessionInv, NEW r \in Calls, NEW x \in CallType,
         call' = [call EXCEPT ![r] = x],
         verifiedAt' \in [Logins -> 0..MaxTime],
         \A i \in Logins : verifiedAt[i] <= verifiedAt'[i] /\ verifiedAt'[i] <= now,
         CookieTrue(x.cookie, loginAt, verifiedAt'),
         UNCHANGED <<now, jar, loginAt>>
  PROVE  SessionTypes' /\ SessionInv'
<1>1. call' \in [Calls -> CallType] /\ \A q \in Calls : call'[q] = IF q = r THEN x ELSE call[q]
  BY SessionFacts
<1>2. SessionTypes'
  BY <1>1 DEF SessionTypes, CallType
<1>3. jar \in Cookie /\ verifiedAt \in [Logins -> 0..MaxTime]
  BY DEF SessionTypes
<1>4. CookieTrue(jar, loginAt, verifiedAt')
  BY <1>3, SessionFacts, CookieStays
<1>5. ASSUME NEW q \in Calls PROVE CookieTrue(call'[q].cookie, loginAt, verifiedAt')
  <2>1. CookieTrue(call[q].cookie, loginAt, verifiedAt')
    BY <1>3, SessionFacts, CookieStays
  <2> QED
    BY <1>1, <2>1
<1>6. CookiesTrue'
  BY <1>4, <1>5 DEF CookiesTrue
<1>7. LoginsInOrder' /\ TimesPast'
  BY DEF SessionInv, LoginsInOrder, TimesPast
<1> QED
  BY <1>2, <1>6, <1>7 DEF SessionInv

\* The next login is the first that has not been.
LEMMA NextFree ==
  ASSUME SessionTypes, SessionInv
  PROVE  /\ NextLogin \in Nat /\ NextLogin # 0
         /\ \A i \in Logins : loginAt[i] # 0 <=> i <= NextLogin - 1
<1>1. PICK n \in 0..MaxLogins : \A i \in Logins : loginAt[i] # 0 <=> i <= n
  BY DEF SessionInv, LoginsInOrder
<1>2. {i \in Logins : loginAt[i] # 0} = 1..n /\ n \in Nat
  BY <1>1, SessionsAssumption DEF Logins
<1>3. Cardinality(1..n) = n
  BY <1>2, FS_Interval
<1>4. NextLogin = n + 1
  BY <1>2, <1>3 DEF NextLogin
<1> QED
  BY <1>1, <1>2, <1>4

\* A login begins a session that no cookie has been of.
LEMMA LoginStep ==
  ASSUME LimiterInv, SessionTypes, SessionInv, NEW a \in Attempts, Login(a)
  PROVE  SessionTypes' /\ SessionInv'
<1> DEFINE n == NextLogin
<1>1. UNCHANGED <<now, call, verifiedAt>>
  BY DEF Login
<1>2. CASE UNCHANGED <<jar, loginAt>>
  BY <1>1, <1>2 DEF SessionTypes, SessionInv, LoginsInOrder, TimesPast, CookiesTrue
<1>3. CASE n \in Logins /\ jar' = NewSession /\ loginAt' = [loginAt EXCEPT ![n] = now]
  <2>1. n \in Nat /\ n # 0 /\ n <= MaxLogins /\ \A i \in Logins : loginAt[i] # 0 <=> i <= n - 1
    BY <1>3, NextFree, SessionsAssumption DEF Logins
  <2> HIDE DEF n
  <2>2. jar \in Cookie /\ loginAt \in [Logins -> 0..MaxTime] /\ verifiedAt \in [Logins -> 0..MaxTime]
    BY DEF SessionTypes
  <2>3. loginAt' \in [Logins -> 0..MaxTime] /\ \A i \in Logins : loginAt'[i] = IF i = n THEN now ELSE loginAt[i]
    BY <1>3, <2>2, SessionFacts
  <2>4. loginAt[n] = 0
    <3>1. ~(n <= n - 1)
      BY <2>1
    <3> QED
      BY <1>3, <2>1, <3>1
  <2>5. jar' = [login |-> n, created |-> now, reauth |-> 0]
    BY <1>3, <2>2 DEF NewSession, Cookie, n
  <2>6. jar' \in Cookie /\ CookieTrue(jar', loginAt', verifiedAt)
    <3>1. jar'.login = n /\ jar'.created = now /\ jar'.reauth = 0 /\ loginAt'[n] = now
      BY <1>3, <2>3, <2>5 DEF n
    <3>2. n \in 0..MaxLogins /\ 0 \in 0..MaxTime
      BY <2>1, Limits, SessionsAssumption
    <3>3. jar' \in Cookie
      BY <2>5, <3>2, SessionFacts DEF Cookie
    <3>4. n \in Logins
      BY <1>3 DEF n
    <3> QED
      BY <3>1, <3>3, <3>4 DEF CookieTrue
  <2>7. ASSUME NEW q \in Calls PROVE CookieTrue(call[q].cookie, loginAt', verifiedAt)
    <3>1. \A i \in Logins : loginAt[i] # 0 => loginAt'[i] = loginAt[i]
      BY <2>3, <2>4
    <3>2. \A i \in Logins : verifiedAt[i] <= verifiedAt[i]
      BY <2>2, Limits
    <3> QED
      BY <2>2, <3>1, <3>2, SessionFacts, CookieStays
  <2>8. SessionTypes'
    BY <1>1, <2>3, <2>6 DEF SessionTypes
  <2>9. LoginsInOrder'
    <3>1. \A i \in Logins : loginAt'[i] # 0 <=> i <= n
      <4> TAKE i \in Logins
      <4>1. i \in Nat /\ (i <= n <=> i = n \/ i <= n - 1)
        BY <2>1, SessionsAssumption DEF Logins
      <4> QED
        BY <2>1, <2>3, <4>1, SessionFacts
    <3>2. n \in 0..MaxLogins
      BY <2>1, SessionsAssumption
    <3> QED
      BY <3>1, <3>2 DEF LoginsInOrder
  <2>10. TimesPast'
    <3>1. \A i \in Logins : loginAt[i] <= now /\ verifiedAt[i] <= now
      BY DEF SessionInv, TimesPast
    <3> QED
      BY <1>1, <2>3, <3>1, SessionFacts DEF TimesPast
  <2>11. CookiesTrue'
    BY <1>1, <2>6, <2>7 DEF CookiesTrue
  <2> QED
    BY <2>8, <2>9, <2>10, <2>11 DEF SessionInv
<1> QED
  BY <1>2, <1>3 DEF Login, n

\* The times at which the password was given stay as they are.
LEMMA SamePasswords ==
  ASSUME SessionTypes, SessionInv, UNCHANGED verifiedAt
  PROVE  /\ verifiedAt' \in [Logins -> 0..MaxTime]
         /\ \A i \in Logins : verifiedAt[i] <= verifiedAt'[i] /\ verifiedAt'[i] <= now
<1>1. \A i \in Logins : verifiedAt[i] \in Nat /\ verifiedAt[i] <= now
  BY Limits DEF SessionTypes, SessionInv, TimesPast
<1> QED
  BY <1>1 DEF SessionTypes

\* Requests and answers other than the one to the password.
LEMMA RequestStep ==
  ASSUME LimiterInv, SessionTypes, SessionInv, NEW r \in Calls,
         \/ \E op \in {"reauthenticate", "logout", "protected"} : Send(r, op)
         \/ Logout(r) \/ Protected(r)
  PROVE  SessionTypes' /\ SessionInv'
<1>1. UNCHANGED <<now, jar, loginAt, verifiedAt>> /\ jar \in Cookie
  BY DEF Send, Logout, Protected, SessionTypes
<1> DEFINE good(x) == x \in CallType /\ CookieTrue(x.cookie, loginAt, verifiedAt)
                      /\ call' = [call EXCEPT ![r] = x]
<1>2. ASSUME NEW op \in {"reauthenticate", "logout", "protected"}, Send(r, op) PROVE \E x : good(x)
  <2> DEFINE x == [op |-> op, pc |-> "sent", cookie |-> jar]
  <2>1. x \in CallType /\ x.cookie = jar
    BY <1>1 DEF CallType
  <2>2. call' = [call EXCEPT ![r] = x]
    BY <1>2 DEF Send
  <2> HIDE DEF x
  <2>3. good(x)
    BY <2>1, <2>2, SessionFacts
  <2> QED
    BY <2>3
<1>3. call[r] \in CallType
  BY SessionFacts
<1>4. ASSUME NEW c \in Cookie, NEW l \in {"cookie", "done"}
      PROVE  /\ [call[r] EXCEPT !.pc = l, !.cookie = c] \in CallType
             /\ [call[r] EXCEPT !.pc = l, !.cookie = c].cookie = c
  BY <1>3 DEF CallType
<1>5. Done(r) => \E x : good(x)
  <2> DEFINE x == [call[r] EXCEPT !.pc = "done", !.cookie = NoSession]
  <2>1. x \in CallType /\ x.cookie = NoSession
    BY <1>4, SessionFacts
  <2>2. Done(r) => call' = [call EXCEPT ![r] = x]
    BY SessionFacts DEF Done
  <2> HIDE DEF x
  <2> QED
    BY <2>1, <2>2, SessionFacts
<1>6. SetCookie(r, NoSession) => \E x : good(x)
  <2> DEFINE x == [call[r] EXCEPT !.pc = "cookie", !.cookie = NoSession]
  <2>1. x \in CallType /\ x.cookie = NoSession
    BY <1>4, SessionFacts
  <2>2. SetCookie(r, NoSession) => call' = [call EXCEPT ![r] = x]
    BY SessionFacts DEF SetCookie
  <2> HIDE DEF x
  <2> QED
    BY <2>1, <2>2, SessionFacts
<1>7. Error(r) => \E x : good(x)
  <2>1. NoCall.cookie = NoSession
    BY DEF NoCall
  <2>2. Error(r) => good(NoCall)
    BY <2>1, SessionFacts DEF Error
  <2> QED
    BY <2>2
<1>8. \E x : good(x)
  BY <1>2, <1>5, <1>6, <1>7 DEF Logout, Protected
<1> QED
  BY <1>1, <1>8, AnswerStep, SamePasswords

\* The password is given again: only the time of the check is new.
LEMMA ReauthenticateStep ==
  ASSUME LimiterInv, SessionTypes, SessionInv, NEW r \in Calls, Reauthenticate(r)
  PROVE  SessionTypes' /\ SessionInv'
<1> DEFINE c == call[r].cookie
           d == [c EXCEPT !.reauth = now]
<1>1. UNCHANGED <<now, jar, loginAt>> /\ c \in Cookie /\ CookieTrue(c, loginAt, verifiedAt)
  BY SessionFacts DEF Reauthenticate
<1>2. CASE Error(r) /\ UNCHANGED verifiedAt
  <2>1. NoCall.cookie = NoSession
    BY DEF NoCall
  <2>2. CookieTrue(NoCall.cookie, loginAt, verifiedAt')
    BY <1>2, <2>1, SessionFacts
  <2> QED
    BY <1>1, <1>2, <2>2, SessionFacts, AnswerStep, SamePasswords DEF Error
<1>3. CASE /\ CurrentUser(c) /\ SetCookie(r, d)
           /\ verifiedAt' = [verifiedAt EXCEPT ![c.login] = now]
  <2> DEFINE x == [call[r] EXCEPT !.pc = "cookie", !.cookie = d]
  <2>1. c.created # 0 /\ c.login \in Logins /\ c.created = loginAt[c.login]
    BY <1>1, <1>3 DEF CurrentUser, CookieTrue
  <2>2. d \in Cookie /\ d.login = c.login /\ d.created = c.created /\ d.reauth = now
    BY <1>1, SessionFacts DEF Cookie
  <2>3. x \in CallType /\ x.cookie = d
    BY <2>2, SessionFacts DEF CallType
  <2>4. call' = [call EXCEPT ![r] = x]
    BY <1>3, SessionFacts DEF SetCookie
  <2> HIDE DEF c, d, x
  <2>5. /\ \A i \in Logins : verifiedAt[i] \in Nat /\ verifiedAt[i] <= now /\ loginAt[i] <= now
        /\ verifiedAt \in [Logins -> 0..MaxTime]
    BY Limits DEF SessionTypes, SessionInv, TimesPast
  <2>6. /\ verifiedAt' \in [Logins -> 0..MaxTime]
        /\ \A i \in Logins : verifiedAt'[i] = IF i = c.login THEN now ELSE verifiedAt[i]
    BY <1>3, <2>5, SessionFacts
  <2>7. \A i \in Logins : verifiedAt[i] <= verifiedAt'[i] /\ verifiedAt'[i] <= now
    BY <2>5, <2>6, SessionFacts
  <2>8. CookieTrue(d, loginAt, verifiedAt')
    BY <2>1, <2>2, <2>5, <2>6, SessionFacts DEF CookieTrue
  <2> QED
    BY <1>1, <2>3, <2>4, <2>6, <2>7, <2>8, AnswerStep
<1> QED
  BY <1>2, <1>3 DEF Reauthenticate

\* The browser keeps the cookie of an answer.
LEMMA ReceiveStep ==
  ASSUME LimiterInv, SessionTypes, SessionInv, NEW r \in Calls, Receive(r)
  PROVE  SessionTypes' /\ SessionInv'
<1>1. /\ UNCHANGED <<now, loginAt, verifiedAt>> /\ call' = [call EXCEPT ![r] = NoCall]
      /\ jar' \in {jar, call[r].cookie}
  BY DEF Receive
<1>2. jar' \in Cookie /\ CookieTrue(jar', loginAt, verifiedAt)
  BY <1>1, SessionFacts DEF SessionTypes
<1>3. call' \in [Calls -> CallType] /\ \A q \in Calls : call'[q] = IF q = r THEN NoCall ELSE call[q]
  BY <1>1, SessionFacts
<1>4. SessionTypes'
  BY <1>1, <1>2, <1>3 DEF SessionTypes, CallType
<1>5. NoCall.cookie = NoSession
  BY DEF NoCall
<1>6. CookiesTrue'
  BY <1>1, <1>2, <1>3, <1>5, SessionFacts DEF CookiesTrue
<1>7. LoginsInOrder' /\ TimesPast'
  BY <1>1 DEF SessionInv, LoginsInOrder, TimesPast
<1> QED
  BY <1>4, <1>6, <1>7 DEF SessionInv

\* Time passes, the process starts again, or nothing happens to the sessions.
LEMMA QuietStep ==
  ASSUME LimiterInv, SessionTypes, SessionInv, now' \in {now, now + 1}, UNCHANGED <<jar, loginAt, verifiedAt>>,
         call' = call \/ call' = [r \in Calls |-> NoCall]
  PROVE  SessionTypes' /\ SessionInv'
<1>1. call' \in [Calls -> CallType] /\ \A r \in Calls : CookieTrue(call'[r].cookie, loginAt, verifiedAt)
  <2>1. NoCall.cookie = NoSession
    BY DEF NoCall
  <2> QED
    BY <2>1, SessionFacts
<1>2. SessionTypes'
  BY <1>1 DEF SessionTypes, CallType
<1>3. CookiesTrue' /\ LoginsInOrder'
  BY <1>1, SessionFacts DEF CookiesTrue, LoginsInOrder, SessionInv
<1>4. TimesPast'
  <2>1. \A i \in Logins : /\ loginAt[i] \in Nat /\ verifiedAt[i] \in Nat
                          /\ loginAt[i] <= now /\ verifiedAt[i] <= now
    BY Limits DEF SessionTypes, SessionInv, TimesPast
  <2> QED
    BY <2>1, SessionFacts DEF TimesPast
<1> QED
  BY <1>2, <1>3, <1>4 DEF SessionInv

\* Before the first request all invariants hold.
LEMMA SessionStart ==
  ASSUME Init
  PROVE  LimiterInv /\ SessionTypes /\ SessionInv
<1>1. LimiterInv
  BY LimiterStart DEF Init
<1>2. /\ jar = NoSession /\ call = [r \in Calls |-> NoCall] /\ now = 1
      /\ loginAt = [i \in Logins |-> 0] /\ verifiedAt = [i \in Logins |-> 0]
  BY DEF Init, LimiterInit
<1>3. NoSession \in Cookie /\ CookieTrue(NoSession, loginAt, verifiedAt)
  BY SessionsAssumption, Limits DEF NoSession, Cookie, CookieTrue
<1>4. NoCall \in CallType /\ NoCall.cookie = NoSession
  <2> HIDE DEF NoSession, Cookie
  <2> QED
    BY <1>3 DEF NoCall, CallType
<1>5. SessionTypes
  BY <1>2, <1>3, <1>4, Limits DEF SessionTypes, CallType
<1>6. CookiesTrue /\ TimesPast
  BY <1>2, <1>3, <1>4 DEF CookiesTrue, TimesPast
<1>7. LoginsInOrder
  <2>1. 0 \in 0..MaxLogins /\ \A i \in Logins : loginAt[i] # 0 <=> i <= 0
    BY <1>2, SessionsAssumption DEF Logins
  <2> QED
    BY <2>1 DEF LoginsInOrder
<1> QED
  BY <1>1, <1>5, <1>6, <1>7 DEF SessionInv

\* Every step of the limiter, of a browser and of a handler keeps them.
LEMMA SessionStep ==
  ASSUME LimiterInv, SessionTypes, SessionInv, [Next]_vars
  PROVE  LimiterInv' /\ SessionTypes' /\ SessionInv'
<1>1. ASSUME NEW a \in Attempts, Authenticate(a) /\ UNCHANGED sessionVars
      PROVE  now' = now
  BY <1>1 DEF Authenticate, Allow, Failure, Success
<1>2. ASSUME NEW a \in Attempts, Authenticate(a) /\ UNCHANGED sessionVars
      PROVE  SessionTypes' /\ SessionInv'
  BY <1>1, <1>2, QuietStep DEF sessionVars
<1>3. ASSUME Tick PROVE SessionTypes' /\ SessionInv'
  BY <1>3, QuietStep DEF Tick, sessionVars
<1>4. ASSUME Restart PROVE SessionTypes' /\ SessionInv'
  BY <1>4, QuietStep DEF Restart
<1>5. ASSUME UNCHANGED vars PROVE SessionTypes' /\ SessionInv'
  BY <1>5, QuietStep DEF vars, sessionVars
<1>6. SessionTypes' /\ SessionInv'
  BY <1>2, <1>3, <1>4, <1>5, LoginStep, RequestStep, ReauthenticateStep, ReceiveStep DEF Next
<1> QED
  BY <1>6, LimiterStep

-----------------------------------------------------------------------------
(* Theorems *)

\* The inductive invariant of the limiter, the cookies and the calls.
LEMMA Invariance == Spec => [](LimiterInv /\ SessionTypes /\ SessionInv)
<1>1. Init => LimiterInv /\ SessionTypes /\ SessionInv
  BY SessionStart
<1>2. LimiterInv /\ SessionTypes /\ SessionInv /\ [Next]_vars => (LimiterInv /\ SessionTypes /\ SessionInv)'
  BY SessionStep
<1> QED
  BY <1>1, <1>2, PTL DEF Spec

\* The state keeps its types: the map of the limiter stays within maxStates, through
\* prune and the refusal to record a new key, and every list is shorter than maxFailures.
THEOREM TypesKept == Spec => []TypeOK
<1>1. LimiterInv /\ SessionTypes /\ SessionInv => TypeOK
  BY DEF LimiterInv, SessionTypes, TypeOK
<1> QED
  BY <1>1, Invariance, PTL

\* Any maxFailures failures within a lockout period keep the key refused for that
\* period, although Allow and Failure are two critical sections with the comparison of
\* the password between them and Allow and prune drop entries.
THEOREM LockoutAlways == Spec => []LockoutHolds
<1>1. LimiterInv /\ SessionTypes /\ SessionInv => LockoutHolds
  BY LockoutFollows
<1> QED
  BY <1>1, Invariance, PTL

\* Allow refuses a key only for maxFailures failures of that key since its last
\* Success, none of them older than window and lockout together.
THEOREM LockAlwaysEarned == Spec => []LockEarned
<1>1. LimiterInv /\ SessionTypes /\ SessionInv => LockEarned
  BY CauseFollows
<1> QED
  BY <1>1, Invariance, PTL

\* A request is answered with success only by a handler that found a current user.
LEMMA Answered ==
  ASSUME LimiterInv, SessionTypes, SessionInv, [Next]_vars, NEW r \in Calls,
         call[r].pc = "sent", call'[r].pc \in {"cookie", "done"}
  PROVE  /\ CurrentUser(call[r].cookie)
         /\ call'[r].pc = "done" => Reauthenticated(call[r].cookie)
<1> DEFINE c == call[r].cookie
<1>1. call \in [Calls -> CallType] /\ NoCall.pc = "idle"
  BY SessionFacts DEF NoCall
<1>2. call' # call
  BY <1>1
<1>3. ASSUME NEW q \in Calls, q # r, NEW x, call' = [call EXCEPT ![q] = x] PROVE FALSE
  BY <1>1, <1>3
<1>4. ASSUME NEW q \in Calls, NEW op, Send(q, op) PROVE FALSE
  BY <1>1, <1>3, <1>4 DEF Send
<1>5. ASSUME NEW q \in Calls, Receive(q) PROVE FALSE
  BY <1>1, <1>3, <1>5 DEF Receive
<1>6. ASSUME NEW q \in Calls, Error(q) PROVE FALSE
  BY <1>1, <1>3, <1>6 DEF Error
<1>7. ASSUME NEW q \in Calls, NEW d, SetCookie(q, d) PROVE q = r /\ call'[r].pc = "cookie"
  <2>1. call' = [call EXCEPT ![q] = [call[q] EXCEPT !.pc = "cookie", !.cookie = d]]
    BY <1>1, <1>7 DEF SetCookie
  <2>2. q = r
    BY <1>3, <2>1
  <2> QED
    BY <1>1, <2>1, <2>2 DEF CallType
<1>8. ASSUME NEW q \in Calls, Done(q) PROVE q = r
  <2>1. call' = [call EXCEPT ![q] = [call[q] EXCEPT !.pc = "done", !.cookie = NoSession]]
    BY <1>1, <1>8 DEF Done
  <2> QED
    BY <1>3, <2>1
<1>9. ASSUME NEW q \in Calls, Reauthenticate(q) PROVE CurrentUser(c) /\ call'[r].pc # "done"
  BY <1>6, <1>7, <1>9 DEF Reauthenticate
<1>10. ASSUME NEW q \in Calls, Logout(q) PROVE CurrentUser(c) /\ call'[r].pc # "done"
  BY <1>6, <1>7, <1>10 DEF Logout
<1>11. ASSUME NEW q \in Calls, Protected(q) PROVE Reauthenticated(c)
  BY <1>6, <1>8, <1>11 DEF Protected
<1>12. CASE Restart
  BY <1>1, <1>12 DEF Restart
<1>13. \E q \in Calls : Reauthenticate(q) \/ Logout(q) \/ Protected(q)
  <2>1. ~Tick /\ ~(UNCHANGED vars) /\ ~(UNCHANGED sessionVars)
    BY <1>2 DEF Tick, vars, sessionVars
  <2>2. ASSUME NEW a \in Attempts PROVE ~Login(a)
    BY <1>2 DEF Login
  <2> QED
    BY <1>1, <1>4, <1>5, <1>12, <2>1, <2>2 DEF Next, Restart
<1>14. Reauthenticated(c) => CurrentUser(c)
  BY DEF Reauthenticated
<1> QED
  BY <1>9, <1>10, <1>11, <1>13, <1>14

\* A protected handler goes on only after reauthRequired found the password given at
\* most reauthTTL ago, and it was given in the session of the request: no cookie of an
\* earlier session and no late answer counts for it.
THEOREM PasswordAlwaysInSession == Spec => PasswordInSession
<1>1. ASSUME LimiterInv, SessionTypes, SessionInv, [Next]_vars, NEW r \in Calls,
             call[r].pc = "sent", call'[r].pc = "done"
      PROVE  LET t == verifiedAt[call[r].cookie.login]
             IN t # 0 /\ now - t <= ReauthTTL /\ t >= loginAt[call[r].cookie.login]
  <2> DEFINE c == call[r].cookie
             t == verifiedAt[c.login]
  <2>1. Reauthenticated(c) /\ CookieTrue(c, loginAt, verifiedAt) /\ c \in Cookie
    BY <1>1, Answered, SessionFacts
  <2>2. c.created # 0 /\ c.reauth # 0 /\ now - c.reauth <= ReauthTTL
    BY <2>1 DEF Reauthenticated, CurrentUser
  <2>3. c.login \in Logins /\ c.created = loginAt[c.login] /\ c.created <= c.reauth /\ c.reauth <= t
    BY <2>1, <2>2 DEF CookieTrue
  <2>4. c.created \in Nat /\ c.reauth \in Nat /\ t \in Nat /\ now \in Nat /\ ReauthTTL \in Nat
    <3>1. c.created \in Nat /\ c.reauth \in Nat
      BY <2>1, Limits DEF Cookie
    <3>2. t \in Nat
      BY <1>1, <2>3, Limits DEF SessionTypes
    <3> QED
      BY <1>1, <3>1, <3>2, SessionFacts
  <2> HIDE DEF c, t
  <2>5. t # 0 /\ now - t <= ReauthTTL /\ t >= loginAt[c.login]
    BY <2>2, <2>3, <2>4
  <2> QED
    BY <2>5 DEF c, t
<1>2. LimiterInv /\ SessionTypes /\ SessionInv /\ [Next]_vars
      => [\A r \in Calls :
            call[r].pc = "sent" /\ call'[r].pc = "done"
            => LET t == verifiedAt[call[r].cookie.login]
               IN t # 0 /\ now - t <= ReauthTTL /\ t >= loginAt[call[r].cookie.login]]_vars
  BY <1>1
<1> QED
  BY <1>2, Invariance, PTL DEF Spec, PasswordInSession

\* requireAuth serves no request later than sessionTTL after the login, for
\* Reauthenticate writes reauth_at and leaves created_at alone.
THEOREM SessionsEnd == Spec => SessionEnds
<1>1. ASSUME LimiterInv, SessionTypes, SessionInv, [Next]_vars, NEW r \in Calls,
             call[r].pc = "sent", call'[r].pc \in {"cookie", "done"}
      PROVE  now <= loginAt[call[r].cookie.login] + SessionTTL
  <2>1. CurrentUser(call[r].cookie) /\ CookieTrue(call[r].cookie, loginAt, verifiedAt)
    BY <1>1, Answered, SessionFacts
  <2> QED
    BY <2>1 DEF CurrentUser, CookieTrue
<1>2. LimiterInv /\ SessionTypes /\ SessionInv /\ [Next]_vars
      => [\A r \in Calls :
            call[r].pc = "sent" /\ call'[r].pc \in {"cookie", "done"}
            => now <= loginAt[call[r].cookie.login] + SessionTTL]_vars
  BY <1>1
<1> QED
  BY <1>2, Invariance, PTL DEF Spec, SessionEnds
=============================================================================
