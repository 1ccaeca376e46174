-------------------------- MODULE RenewalScanProofs --------------------------
(***************************************************************************)
(* Theorems about RenewalScan, for any set of certificates, concurrency    *)
(* and number of retries: the semaphore holds, the engine runs only for    *)
(* what is shown as renewing, and no failure is lost.                      *)
(***************************************************************************)
EXTENDS RenewalScan, FiniteSetTheorems, TLAPS

\* The retry loop: an attempt reaches the engine at most once, and a goroutine
\* only sleeps when an attempt is left.
AttemptsCount ==
    \A c \in CertIds :
        /\ worker[c].pc = "queue" => worker[c].calls = 0 /\ worker[c].attempt = 0
        /\ worker[c].pc \in {"get", "lock", "setBusy", "createJob"} => worker[c].calls <= worker[c].attempt
        /\ worker[c].pc \in {"engine", "decide", "sleep"} => worker[c].calls <= worker[c].attempt + 1
        /\ worker[c].pc = "sleep" => worker[c].attempt < RetryCount

\* The semaphore is never over its capacity, which includes the goroutines that
\* wait for a retry.
SlotsBounded == IsFiniteSet(Holders) /\ Cardinality(Holders) <= MaxConcurrency

\* Between two scans no goroutine is left.
NoneLeft == scan = "idle" => \A c \in CertIds : worker[c].pc \in {"none", "done"}

\* The calls between TryLock and Unlock.
Locked == {"setBusy", "createJob", "engine"}

\* A mutex the scan took belongs to the goroutine that is between TryLock and Unlock.
LockOwned == \A c \in CertIds : mutex[c] = "scan" <=> worker[c].pc \in Locked

\* From SetCertificateStatus on the row is renewing, unless it was gone before; the
\* foreign key of CreateJob finds that out.
BusyShown ==
    \A c \in CertIds :
        /\ worker[c].pc = "createJob" => row[c].status \in {"renewing", "gone"}
        /\ worker[c].pc = "engine" => row[c].status = "renewing"

\* FailuresReported while the scan is still running.
FailuresRecorded ==
    ~ctxDone =>
        \A c \in CertIds : worker[c].pc = "done" =>
            worker[c].err \in {"none", "running"} \/ c \in errs

ScanInv ==
    TypeOK /\ AttemptsCount /\ SlotsBounded /\ NoneLeft /\ LockOwned /\ BusyShown /\ FailuresRecorded

-----------------------------------------------------------------------------
(* What a step does to the goroutines *)

\* The goroutine of c gets to label l; its counters and its error stay.
Moved(c, l) ==
    /\ worker' \in [CertIds -> Worker]
    /\ worker'[c].pc = l
    /\ worker'[c].attempt = worker[c].attempt /\ worker'[c].calls = worker[c].calls
    /\ worker'[c].err = worker[c].err
    /\ \A d \in CertIds \ {c} : worker'[d] = worker[d]

\* The goroutine of c is done.
Left(c) ==
    /\ worker' \in [CertIds -> Worker]
    /\ worker'[c].pc = "done" /\ worker'[c].err = worker[c].err
    /\ \A d \in CertIds \ {c} : worker'[d] = worker[d]

\* An attempt of the goroutine of c has ended.
Ended(c) ==
    /\ worker' \in [CertIds -> Worker]
    /\ worker'[c].pc = "decide"
    /\ worker'[c].attempt = worker[c].attempt /\ worker'[c].calls = worker[c].calls
    /\ \A d \in CertIds \ {c} : worker'[d] = worker[d]

\* Going on to the next call keeps the counters.
LEMMA GotoMoves ==
    ASSUME worker \in [CertIds -> Worker], NEW c \in CertIds, NEW l \in {"get", "setBusy", "createJob", "sleep"}, Goto(c, l)
    PROVE  Moved(c, l)
<1> DEFINE r == [worker[c] EXCEPT !.pc = l]
<1>1. /\ r \in Worker /\ r.pc = l /\ r.attempt = worker[c].attempt
      /\ r.calls = worker[c].calls /\ r.err = worker[c].err
  BY DEF Worker
<1>2. worker' = [worker EXCEPT ![c] = r]
  BY DEF Goto, Become
<1> HIDE DEF r
<1> QED BY <1>1, <1>2 DEF Moved

\* A goroutine that leaves keeps its error.
LEMMA LeaveLeaves ==
    ASSUME worker \in [CertIds -> Worker], NEW c \in CertIds, Leave(c)
    PROVE  Left(c)
<1> DEFINE r == [worker[c] EXCEPT !.pc = "done", !.attempt = 0]
<1>0. 0 \in 0..RetryCount
  BY ConstantsAssumption
<1>1. r \in Worker /\ r.pc = "done" /\ r.err = worker[c].err
  BY <1>0 DEF Worker
<1>2. worker' = [worker EXCEPT ![c] = r]
  BY DEF Leave, Become
<1> HIDE DEF r
<1> QED BY <1>1, <1>2 DEF Left

\* An attempt that ends goes to the decision whether to retry.
LEMMA EndsEnds ==
    ASSUME worker \in [CertIds -> Worker], NEW c \in CertIds,
           NEW e \in {"none", "running", "state", "db", "engine", "canceled"}, Ends(c, e)
    PROVE  Ended(c)
<1> DEFINE r == [worker[c] EXCEPT !.pc = "decide", !.err = e, !.seen = "gone"]
<1>1. r \in Worker /\ r.pc = "decide" /\ r.attempt = worker[c].attempt /\ r.calls = worker[c].calls
  BY DEF Worker, Statuses
<1>2. worker' = [worker EXCEPT ![c] = r]
  BY DEF Ends, Become
<1> HIDE DEF r
<1> QED BY <1>1, <1>2 DEF Ended

\* The status of a row may be written.
LEMMA RowType ==
    ASSUME row \in [CertIds -> [status: Statuses, due: BOOLEAN]], NEW c \in CertIds,
           NEW s \in Statuses, NEW due \in BOOLEAN
    PROVE  /\ [row EXCEPT ![c].status = s] \in [CertIds -> [status: Statuses, due: BOOLEAN]]
           /\ [row EXCEPT ![c].due = due] \in [CertIds -> [status: Statuses, due: BOOLEAN]]
           /\ [row EXCEPT ![c].status = s, ![c].due = due]
                \in [CertIds -> [status: Statuses, due: BOOLEAN]]
           /\ row[c].due \in BOOLEAN
<1> DEFINE Row == [status: Statuses, due: BOOLEAN]
<1>1. /\ [row[c] EXCEPT !.status = s] \in Row /\ [row[c] EXCEPT !.due = due] \in Row
      /\ [[row[c] EXCEPT !.status = s] EXCEPT !.due = due] \in Row
      /\ row[c].due \in BOOLEAN
  OBVIOUS
<1> HIDE DEF Row
<1>2. ASSUME NEW r \in Row PROVE [row EXCEPT ![c] = r] \in [CertIds -> Row]
  BY <1>2 DEF Row
<1> QED BY <1>1, <1>2 DEF Row

\* The semaphore after a step of the goroutine of c: unless c acquires, nobody
\* gets a slot.
LEMMA SlotsKept ==
    ASSUME SlotsBounded, Holders' \subseteq Holders
    PROVE  SlotsBounded'
<1>1. IsFiniteSet(Holders') /\ Cardinality(Holders') <= Cardinality(Holders)
  BY FS_Subset DEF SlotsBounded
<1>2. Cardinality(Holders') \in Nat /\ Cardinality(Holders) \in Nat
  BY <1>1, FS_CardinalityType DEF SlotsBounded
<1> QED BY <1>1, <1>2, ConstantsAssumption DEF SlotsBounded

-----------------------------------------------------------------------------
(* The steps of the scan *)

\* A scan that begins has no goroutine from before and forgets the errors.
LEMMA BeginKeeps == ASSUME ScanInv, Begin PROVE ScanInv'
<1> USE DEF ScanInv
<1>1. \A c \in CertIds : worker'[c] = NoWorker \/ worker'[c] = [NoWorker EXCEPT !.pc = "queue"]
  BY DEF Begin
<1>2. NoWorker \in Worker /\ [NoWorker EXCEPT !.pc = "queue"] \in Worker
  BY ConstantsAssumption DEF NoWorker, Worker, Statuses
<1>3. worker' \in [CertIds -> Worker]
  BY <1>2 DEF Begin
<1>4. \A c \in CertIds : /\ worker'[c].pc \in {"none", "queue"}
                         /\ worker'[c].calls = 0 /\ worker'[c].attempt = 0
  BY <1>1 DEF NoWorker
<1>5. TypeOK'
  BY <1>3 DEF TypeOK, Begin
<1>6. AttemptsCount' /\ NoneLeft' /\ FailuresRecorded'
  BY <1>4 DEF AttemptsCount, NoneLeft, FailuresRecorded, Begin
<1>7. Holders' = {}
  BY <1>4 DEF Holders
<1>8. SlotsBounded'
  BY <1>7, FS_EmptySet, ConstantsAssumption DEF SlotsBounded
<1>9. LockOwned' /\ BusyShown'
  BY <1>4 DEF LockOwned, Locked, BusyShown, NoneLeft, Begin
<1> QED BY <1>5, <1>6, <1>8, <1>9

\* A slot is only taken while one is free.
LEMMA AcquireKeeps == ASSUME ScanInv, NEW c \in CertIds, Acquire(c) PROVE ScanInv'
<1> USE DEF ScanInv
<1>0. worker \in [CertIds -> Worker] /\ worker[c].pc = "queue" /\ UNCHANGED <<row, mutex, ctxDone, scan, errs>>
  BY DEF TypeOK, Acquire
<1>1. CASE Cardinality(Holders) < MaxConcurrency /\ Moved(c, "get")
  <2>1. Holders' = Holders \cup {c} /\ c \notin Holders
    BY <1>0, <1>1 DEF Holders, Moved
  <2>2. IsFiniteSet(Holders') /\ Cardinality(Holders') = Cardinality(Holders) + 1
    BY <2>1, FS_AddElement DEF SlotsBounded
  <2>3. SlotsBounded'
    BY <1>1, <2>2, FS_CardinalityType, ConstantsAssumption DEF SlotsBounded
  <2>4. TypeOK'
    BY <1>0, <1>1 DEF TypeOK, Moved
  <2>4a. AttemptsCount'
    BY <1>0, <1>1 DEF AttemptsCount, Moved
  <2>5. NoneLeft' /\ LockOwned' /\ BusyShown' /\ FailuresRecorded'
    BY <1>0, <1>1 DEF NoneLeft, LockOwned, Locked, BusyShown, FailuresRecorded, Moved
  <2> QED BY <2>3, <2>4, <2>4a, <2>5
<1>2. CASE ctxDone /\ Left(c)
  <2>1. SlotsBounded'
    <3>1. Holders' \subseteq Holders
      BY <1>2 DEF Holders, Left
    <3> QED BY <3>1, SlotsKept
  <2>2. TypeOK' /\ AttemptsCount'
    BY <1>0, <1>2 DEF TypeOK, AttemptsCount, Left
  <2>3. NoneLeft' /\ LockOwned' /\ BusyShown' /\ FailuresRecorded'
    BY <1>0, <1>2 DEF NoneLeft, LockOwned, Locked, BusyShown, FailuresRecorded, Left
  <2> QED BY <2>1, <2>2, <2>3
<1> QED BY <1>0, <1>1, <1>2, GotoMoves, LeaveLeaves DEF Acquire

\* A goroutine that holds a slot and moves on, ends an attempt or leaves when
\* the context is cancelled, without touching the mutex.
LEMMA WorkKeeps ==
    ASSUME ScanInv, NEW c \in CertIds, c \in Holders, worker[c].pc \notin Locked,
           UNCHANGED <<row, mutex, ctxDone, scan, errs>>,
           \/ Ended(c) /\ worker[c].pc \in {"get", "lock"}
           \/ Left(c) /\ ctxDone
    PROVE  ScanInv'
<1> USE DEF ScanInv
<1>0. worker \in [CertIds -> Worker]
  BY DEF TypeOK
<1>0a. worker[c].attempt \in Nat /\ worker[c].calls \in Nat
  BY <1>0, ConstantsAssumption DEF Worker
<1>0b. scan = "running"
  BY DEF NoneLeft, Holders, TypeOK
<1>1. TypeOK'
  BY DEF TypeOK, Ended, Left
<1>2. AttemptsCount'
  BY <1>0a DEF AttemptsCount, Ended, Left
<1>3. SlotsBounded'
  <2>1. Holders' \subseteq Holders
    BY DEF Holders, Ended, Left
  <2> QED BY <2>1, SlotsKept
<1>4. NoneLeft' /\ LockOwned' /\ BusyShown' /\ FailuresRecorded'
  BY <1>0b DEF NoneLeft, LockOwned, Locked, BusyShown, FailuresRecorded, Ended, Left
<1> QED BY <1>1, <1>2, <1>3, <1>4

\* Reading the row.
LEMMA GetKeeps == ASSUME ScanInv, NEW c \in CertIds, Get(c) PROVE ScanInv'
<1> USE DEF ScanInv
<1>0. /\ worker \in [CertIds -> Worker] /\ worker[c].pc = "get" /\ c \in Holders
      /\ row[c].status \in Statuses /\ UNCHANGED <<row, mutex, ctxDone, scan, errs>>
  BY DEF TypeOK, Get, Holders
<1>1. CASE Become(c, [worker[c] EXCEPT !.pc = "lock", !.seen = row[c].status])
  <2> DEFINE r == [worker[c] EXCEPT !.pc = "lock", !.seen = row[c].status]
  <2>1. /\ r \in Worker /\ r.pc = "lock" /\ r.attempt = worker[c].attempt
        /\ r.calls = worker[c].calls /\ r.err = worker[c].err
    BY <1>0 DEF Worker
  <2>2. worker' = [worker EXCEPT ![c] = r]
    BY <1>1 DEF Become
  <2> HIDE DEF r
  <2>3. Moved(c, "lock")
    BY <1>0, <2>1, <2>2 DEF Moved
  <2>4. SlotsBounded'
    <3>1. Holders' \subseteq Holders
      BY <1>0, <2>3 DEF Holders, Moved
    <3> QED BY <3>1, SlotsKept
  <2>5. TypeOK' /\ AttemptsCount'
    BY <1>0, <2>3 DEF TypeOK, AttemptsCount, Moved
  <2>6. NoneLeft' /\ LockOwned' /\ BusyShown' /\ FailuresRecorded'
    BY <1>0, <2>3 DEF NoneLeft, LockOwned, Locked, BusyShown, FailuresRecorded, Moved
  <2> QED BY <2>4, <2>5, <2>6
<1>2. CASE Ends(c, "state") \/ Fails(c)
  BY <1>0, <1>2, EndsEnds, WorkKeeps DEF Fails, Locked
<1> QED BY <1>1, <1>2 DEF Get

\* An attempt that ends with its mutex: whatever it leaves in its own row.
LEMMA UnlockKeeps ==
    ASSUME ScanInv, NEW c \in CertIds, worker[c].pc \in Locked, Ended(c), Unlock(c),
           row' \in [CertIds -> [status: Statuses, due: BOOLEAN]],
           \A d \in CertIds \ {c} : row'[d] = row[d],
           UNCHANGED <<ctxDone, scan, errs>>
    PROVE  ScanInv'
<1> USE DEF ScanInv
<1>0. /\ worker \in [CertIds -> Worker] /\ mutex \in [CertIds -> {"free", "scan", "admin"}]
      /\ worker[c].attempt \in Nat /\ worker[c].calls \in Nat /\ c \in Holders
  BY ConstantsAssumption DEF TypeOK, Worker, Locked, Holders
<1>0a. scan = "running"
  BY <1>0 DEF NoneLeft, Holders, TypeOK
<1>1. TypeOK'
  BY <1>0 DEF TypeOK, Ended, Unlock
<1>2. AttemptsCount'
  BY <1>0 DEF AttemptsCount, Ended, Locked
<1>3. SlotsBounded'
  <2>1. Holders' \subseteq Holders
    BY <1>0 DEF Holders, Ended
  <2> QED BY <2>1, SlotsKept
<1>4. LockOwned'
  BY <1>0 DEF LockOwned, Locked, Ended, Unlock
<1>5. NoneLeft' /\ BusyShown' /\ FailuresRecorded'
  BY <1>0a DEF NoneLeft, BusyShown, FailuresRecorded, Ended
<1> QED BY <1>1, <1>2, <1>3, <1>4, <1>5

\* What an UPDATE of a row leaves.
LEMMA WrittenType ==
    ASSUME row \in [CertIds -> [status: Statuses, due: BOOLEAN]], NEW c \in CertIds,
           NEW s \in Statuses, NEW due \in BOOLEAN
    PROVE  /\ Written(c, s, due) \in [CertIds -> [status: Statuses, due: BOOLEAN]]
           /\ \A d \in CertIds \ {c} : Written(c, s, due)[d] = row[d]
           /\ Written(c, s, due)[c].status \in {s, "gone"}
           /\ row[c].due \in BOOLEAN
<1>1. CASE row[c].status = "gone"
  BY <1>1, RowType DEF Written
<1>2. CASE row[c].status # "gone"
  <2>1. Written(c, s, due) = [row EXCEPT ![c].status = s, ![c].due = due]
    BY <1>2 DEF Written
  <2>2. [row EXCEPT ![c].status = s, ![c].due = due] \in [CertIds -> [status: Statuses, due: BOOLEAN]]
    BY RowType, Zenon
  <2>3. row[c].due \in BOOLEAN
    BY RowType, Zenon
  <2> QED BY <2>1, <2>2, <2>3
<1> QED BY <1>1, <1>2

\* TryLock and the status check.
LEMMA LockKeeps == ASSUME ScanInv, NEW c \in CertIds, Lock(c) PROVE ScanInv'
<1> USE DEF ScanInv
<1>0. /\ worker \in [CertIds -> Worker] /\ worker[c].pc = "lock" /\ c \in Holders
      /\ mutex \in [CertIds -> {"free", "scan", "admin"}]
      /\ UNCHANGED <<row, ctxDone, scan, errs>>
  BY DEF TypeOK, Lock, Holders
<1>1. CASE UNCHANGED mutex /\ (Ends(c, "running") \/ Ends(c, "state"))
  BY <1>0, <1>1, EndsEnds, WorkKeeps DEF Locked
<1>2. CASE /\ mutex[c] = "free" /\ mutex' = [mutex EXCEPT ![c] = "scan"]
           /\ Moved(c, "setBusy")
  <2>1. TypeOK' /\ AttemptsCount'
    BY <1>0, <1>2 DEF TypeOK, AttemptsCount, Moved
  <2>2. SlotsBounded'
    <3>1. Holders' \subseteq Holders
      BY <1>0, <1>2 DEF Holders, Moved
    <3> QED BY <3>1, SlotsKept
  <2>3. NoneLeft' /\ LockOwned' /\ BusyShown' /\ FailuresRecorded'
    BY <1>0, <1>2 DEF NoneLeft, LockOwned, Locked, BusyShown, FailuresRecorded, Moved
  <2> QED BY <2>1, <2>2, <2>3
<1> QED BY <1>0, <1>1, <1>2, GotoMoves DEF Lock

\* The status becomes renewing.
LEMMA SetBusyKeeps == ASSUME ScanInv, NEW c \in CertIds, SetBusy(c) PROVE ScanInv'
<1> USE DEF ScanInv
<1>0. /\ worker \in [CertIds -> Worker] /\ worker[c].pc = "setBusy" /\ c \in Holders
      /\ row \in [CertIds -> [status: Statuses, due: BOOLEAN]]
      /\ UNCHANGED <<ctxDone, scan, errs>>
  BY DEF TypeOK, SetBusy, Holders
<1>1. CASE Fails(c) /\ Unlock(c) /\ UNCHANGED row
  BY <1>0, <1>1, EndsEnds, UnlockKeeps DEF Fails, Locked
<1>2. CASE Moved(c, "createJob") /\ row' = Written(c, "renewing", row[c].due) /\ UNCHANGED mutex
  <2>1. /\ row' \in [CertIds -> [status: Statuses, due: BOOLEAN]]
        /\ \A d \in CertIds \ {c} : row'[d] = row[d]
        /\ row'[c].status \in {"renewing", "gone"}
    <3>1. row[c].due \in BOOLEAN /\ "renewing" \in Statuses
      BY <1>0, RowType DEF Statuses
    <3>2. \A s \in {"renewing"}, due \in {row[c].due} :
            /\ Written(c, s, due) \in [CertIds -> [status: Statuses, due: BOOLEAN]]
            /\ \A d \in CertIds \ {c} : Written(c, s, due)[d] = row[d]
            /\ Written(c, s, due)[c].status \in {s, "gone"}
      <4> TAKE s \in {"renewing"}, due \in {row[c].due}
      <4>1. s \in Statuses /\ due \in BOOLEAN
        BY <3>1
      <4> QED BY <1>0, <4>1, WrittenType
    <3> QED BY <1>2, <3>2
  <2>2. TypeOK' /\ AttemptsCount'
    BY <1>0, <1>2, <2>1 DEF TypeOK, AttemptsCount, Moved
  <2>3. SlotsBounded'
    <3>1. Holders' \subseteq Holders
      BY <1>0, <1>2 DEF Holders, Moved
    <3> QED BY <3>1, SlotsKept
  <2>4. NoneLeft' /\ FailuresRecorded'
    BY <1>0, <1>2 DEF NoneLeft, FailuresRecorded, Moved
  <2>5. LockOwned'
    BY <1>0, <1>2 DEF LockOwned, Locked, Moved
  <2>6. BusyShown'
    BY <1>2, <2>1 DEF BusyShown, Moved
  <2> QED BY <2>2, <2>3, <2>4, <2>5, <2>6
<1> QED BY <1>0, <1>1, <1>2, GotoMoves DEF SetBusy

\* The job is only created for a row that is there, and the engine starts.
LEMMA CreateJobKeeps == ASSUME ScanInv, NEW c \in CertIds, CreateJob(c) PROVE ScanInv'
<1> USE DEF ScanInv
<1>0. /\ worker \in [CertIds -> Worker] /\ worker[c].pc = "createJob" /\ c \in Holders
      /\ row \in [CertIds -> [status: Statuses, due: BOOLEAN]]
      /\ UNCHANGED <<row, ctxDone, scan, errs>>
  BY DEF TypeOK, CreateJob, Holders
<1>1. CASE Unlock(c) /\ (Fails(c) \/ Ends(c, "db"))
  BY <1>0, <1>1, EndsEnds, UnlockKeeps DEF Fails, Locked
<1>2. CASE /\ row[c].status # "gone" /\ UNCHANGED mutex
           /\ Become(c, [worker[c] EXCEPT !.pc = "engine", !.calls = @ + 1])
  <2> DEFINE r == [worker[c] EXCEPT !.pc = "engine", !.calls = @ + 1]
  <2>0. /\ worker[c].calls \in Nat /\ worker[c].attempt \in 0..RetryCount
        /\ worker[c].calls <= worker[c].attempt /\ row[c].status = "renewing"
    BY <1>0, <1>2 DEF AttemptsCount, Worker, BusyShown
  <2>0a. worker[c].calls + 1 \in 0..(RetryCount + 1)
    BY <2>0, ConstantsAssumption
  <2>1. /\ r \in Worker /\ r.pc = "engine" /\ r.attempt = worker[c].attempt
        /\ r.calls = worker[c].calls + 1
    BY <1>0, <2>0a DEF Worker
  <2>2. worker' = [worker EXCEPT ![c] = r]
    BY <1>2 DEF Become
  <2> HIDE DEF r
  <2>3. /\ worker' \in [CertIds -> Worker] /\ worker'[c] = r
        /\ \A d \in CertIds \ {c} : worker'[d] = worker[d]
    BY <1>0, <2>1, <2>2
  <2>4. TypeOK'
    BY <1>0, <1>2, <2>3 DEF TypeOK
  <2>5. AttemptsCount'
    BY <2>0, <2>1, <2>3, ConstantsAssumption DEF AttemptsCount
  <2>6. SlotsBounded'
    <3>1. Holders' \subseteq Holders
      BY <1>0, <2>3 DEF Holders
    <3> QED BY <3>1, SlotsKept
  <2>7. NoneLeft' /\ LockOwned' /\ BusyShown' /\ FailuresRecorded'
    BY <1>0, <1>2, <2>0, <2>1, <2>3 DEF NoneLeft, LockOwned, Locked, BusyShown, FailuresRecorded
  <2> QED BY <2>4, <2>5, <2>6, <2>7
<1> QED BY <1>0, <1>1, <1>2 DEF CreateJob

\* The engine returns and the mutex is released on every path.
LEMMA EngineKeeps == ASSUME ScanInv, NEW c \in CertIds, Engine(c) PROVE ScanInv'
<1> USE DEF ScanInv
<1>0. /\ worker \in [CertIds -> Worker] /\ worker[c].pc \in Locked
      /\ row \in [CertIds -> [status: Statuses, due: BOOLEAN]]
      /\ Unlock(c) /\ UNCHANGED <<ctxDone, scan, errs>>
  BY DEF TypeOK, Engine, Locked
<1>1. Ended(c)
  BY <1>0, EndsEnds DEF Engine, Fails
<1>2. /\ row' \in [CertIds -> [status: Statuses, due: BOOLEAN]]
      /\ \A d \in CertIds \ {c} : row'[d] = row[d]
  <2>1. "active" \in Statuses /\ "failed" \in Statuses /\ row[c].due \in BOOLEAN
    BY <1>0, RowType DEF Statuses
  <2>2. \/ UNCHANGED row
        \/ row' = Written(c, "active", FALSE)
        \/ row' = Written(c, "failed", row[c].due)
    BY DEF Engine
  <2>3. \A s \in {"active", "failed"}, due \in {FALSE, row[c].due} :
          /\ Written(c, s, due) \in [CertIds -> [status: Statuses, due: BOOLEAN]]
          /\ \A d \in CertIds \ {c} : Written(c, s, due)[d] = row[d]
    <3> TAKE s \in {"active", "failed"}, due \in {FALSE, row[c].due}
    <3>1. s \in Statuses /\ due \in BOOLEAN
      BY <2>1
    <3> QED BY <1>0, <3>1, WrittenType
  <2> QED BY <1>0, <2>2, <2>3
<1> QED BY <1>0, <1>1, <1>2, UnlockKeeps

\* A goroutine that gives up has recorded its error.
LEMMA DecideKeeps == ASSUME ScanInv, NEW c \in CertIds, Decide(c) PROVE ScanInv'
<1> USE DEF ScanInv
<1>0. /\ worker \in [CertIds -> Worker] /\ worker[c].pc = "decide" /\ c \in Holders
      /\ UNCHANGED <<row, mutex, ctxDone, scan>>
      /\ worker[c].attempt \in Nat /\ worker[c].calls \in Nat
  BY ConstantsAssumption DEF TypeOK, Decide, Holders, Worker
<1>0a. scan = "running"
  BY <1>0 DEF NoneLeft, TypeOK
<1>1. CASE worker[c].attempt < RetryCount /\ Moved(c, "sleep") /\ UNCHANGED errs
  <2>1. TypeOK' /\ AttemptsCount'
    BY <1>0, <1>1 DEF TypeOK, AttemptsCount, Moved
  <2>2. SlotsBounded'
    <3>1. Holders' \subseteq Holders
      BY <1>0, <1>1 DEF Holders, Moved
    <3> QED BY <3>1, SlotsKept
  <2>3. NoneLeft' /\ LockOwned' /\ BusyShown' /\ FailuresRecorded'
    BY <1>0, <1>0a, <1>1 DEF NoneLeft, LockOwned, Locked, BusyShown, FailuresRecorded, Moved
  <2> QED BY <2>1, <2>2, <2>3
<1>2. CASE /\ Left(c)
           /\ errs' = IF worker[c].err \in {"none", "running"} THEN errs ELSE errs \cup {c}
  <2>1. TypeOK' /\ AttemptsCount'
    BY <1>0, <1>2 DEF TypeOK, AttemptsCount, Left
  <2>2. SlotsBounded'
    <3>1. Holders' \subseteq Holders
      BY <1>0, <1>2 DEF Holders, Left
    <3> QED BY <3>1, SlotsKept
  <2>3. NoneLeft' /\ LockOwned' /\ BusyShown' /\ FailuresRecorded'
    BY <1>0, <1>0a, <1>2 DEF NoneLeft, LockOwned, Locked, BusyShown, FailuresRecorded, Left
  <2> QED BY <2>1, <2>2, <2>3
<1> QED BY <1>0, <1>1, <1>2, GotoMoves, LeaveLeaves DEF Decide

\* The retry timer begins the next attempt.
LEMMA SleepKeeps == ASSUME ScanInv, NEW c \in CertIds, Sleep(c) PROVE ScanInv'
<1> USE DEF ScanInv
<1>0. /\ worker \in [CertIds -> Worker] /\ worker[c].pc = "sleep" /\ c \in Holders
      /\ UNCHANGED <<row, mutex, ctxDone, scan, errs>>
  BY DEF TypeOK, Sleep, Holders
<1>1. CASE Become(c, [worker[c] EXCEPT !.pc = "get", !.attempt = @ + 1])
  <2> DEFINE r == [worker[c] EXCEPT !.pc = "get", !.attempt = @ + 1]
  <2>0. /\ worker[c].calls \in Nat /\ worker[c].attempt \in 0..RetryCount
        /\ worker[c].attempt < RetryCount /\ worker[c].calls <= worker[c].attempt + 1
    BY <1>0 DEF AttemptsCount, Worker
  <2>0a. worker[c].attempt + 1 \in 0..RetryCount
    BY <2>0, ConstantsAssumption
  <2>1. /\ r \in Worker /\ r.pc = "get" /\ r.attempt = worker[c].attempt + 1
        /\ r.calls = worker[c].calls
    BY <1>0, <2>0a DEF Worker
  <2>2. worker' = [worker EXCEPT ![c] = r]
    BY <1>1 DEF Become
  <2> HIDE DEF r
  <2>3. /\ worker' \in [CertIds -> Worker] /\ worker'[c] = r
        /\ \A d \in CertIds \ {c} : worker'[d] = worker[d]
    BY <1>0, <2>1, <2>2
  <2>4. TypeOK' /\ AttemptsCount'
    BY <1>0, <2>0, <2>1, <2>3 DEF TypeOK, AttemptsCount
  <2>5. SlotsBounded'
    <3>1. Holders' \subseteq Holders
      BY <1>0, <2>3 DEF Holders
    <3> QED BY <3>1, SlotsKept
  <2>6. NoneLeft' /\ LockOwned' /\ BusyShown' /\ FailuresRecorded'
    BY <1>0, <2>1, <2>3 DEF NoneLeft, LockOwned, Locked, BusyShown, FailuresRecorded
  <2> QED BY <2>4, <2>5, <2>6
<1>2. CASE ctxDone /\ Leave(c)
  BY <1>0, <1>2, LeaveLeaves, WorkKeeps DEF Locked
<1> QED BY <1>1, <1>2 DEF Sleep

\* What administrators and time do to the rows does not reach the goroutines,
\* and the mutex of a goroutine is not free to them.
LEMMA OthersKeep ==
    ASSUME ScanInv, NEW c \in CertIds,
           \/ AdminLock(c) \/ AdminDone(c) \/ Age(c)
           \/ \E s \in {"revoked", "gone"} : AdminEnd(c, s)
           \/ \E due \in BOOLEAN : AdminSet(c, due)
    PROVE  ScanInv'
<1> USE DEF ScanInv
<1> DEFINE Row == [status: Statuses, due: BOOLEAN]
<1>0. /\ row \in [CertIds -> Row] /\ mutex \in [CertIds -> {"free", "scan", "admin"}]
      /\ UNCHANGED <<ctxDone, scan, worker, errs>>
  BY DEF TypeOK, AdminLock, AdminDone, Age, AdminEnd, AdminSet
<1>1. row' \in [CertIds -> Row]
  <2>1. {"issuing", "active", "failed", "revoked", "gone"} \subseteq Statuses
    BY DEF Statuses
  <2>2. /\ \A s \in {"issuing", "failed", "revoked"} : [row EXCEPT ![c].status = s] \in [CertIds -> Row]
        /\ \A due \in BOOLEAN : [row EXCEPT ![c].due = due] \in [CertIds -> Row]
        /\ [row EXCEPT ![c].status = "active", ![c].due = FALSE] \in [CertIds -> Row]
    BY <1>0, <2>1, RowType
  <2>3. [row EXCEPT ![c] = [status |-> "gone", due |-> FALSE]] \in [CertIds -> Row]
    BY <1>0, <2>1
  <2>4. CASE AdminLock(c)
    BY <2>2, <2>4 DEF AdminLock
  <2>5. CASE AdminDone(c)
    BY <2>2, <2>5 DEF AdminDone
  <2>6. CASE Age(c)
    BY <2>2, <2>6 DEF Age
  <2>7. CASE \E s \in {"revoked", "gone"} : AdminEnd(c, s)
    <3>1. \/ row' = [row EXCEPT ![c].status = "revoked"]
          \/ row' = [row EXCEPT ![c] = [status |-> "gone", due |-> FALSE]]
      BY <2>7 DEF AdminEnd
    <3> QED BY <2>2, <2>3, <3>1
  <2>8. CASE \E due \in BOOLEAN : AdminSet(c, due)
    BY <2>2, <2>8 DEF AdminSet
  <2> QED BY <2>4, <2>5, <2>6, <2>7, <2>8
<1>2. /\ mutex' \in [CertIds -> {"free", "scan", "admin"}]
      /\ \A d \in CertIds : mutex'[d] = "scan" <=> mutex[d] = "scan"
  BY <1>0 DEF AdminLock, AdminDone, Age, AdminEnd, AdminSet
<1>3. TypeOK' /\ AttemptsCount'
  BY <1>0, <1>1, <1>2 DEF TypeOK, AttemptsCount
<1>4. SlotsBounded' /\ NoneLeft' /\ LockOwned' /\ FailuresRecorded'
  BY <1>0, <1>2 DEF SlotsBounded, Holders, NoneLeft, LockOwned, FailuresRecorded
<1>5. BusyShown'
  <2>1. \A d \in CertIds \ {c} : row'[d] = row[d]
    BY <1>0 DEF AdminLock, AdminDone, Age, AdminEnd, AdminSet
  <2>2. worker[c].pc \in {"createJob", "engine"} => row'[c].status = row[c].status
    <3>1. worker[c].pc \in {"createJob", "engine"} => mutex[c] = "scan"
      BY DEF LockOwned, Locked
    <3>2. CASE AdminLock(c) \/ AdminDone(c) \/ \E s \in {"revoked", "gone"} : AdminEnd(c, s)
      BY <3>1, <3>2 DEF AdminLock, AdminDone, AdminEnd
    <3>3. CASE Age(c) \/ \E due \in BOOLEAN : AdminSet(c, due)
      BY <1>0, <3>3 DEF Age, AdminSet
    <3> QED BY <3>2, <3>3
  <2> QED BY <1>0, <2>1, <2>2 DEF BusyShown
<1> QED BY <1>3, <1>4, <1>5

\* The scan returns, or the context is cancelled.
LEMMA EndKeeps == ASSUME ScanInv, End \/ Cancel \/ UNCHANGED vars PROVE ScanInv'
<1> USE DEF ScanInv
<1>1. UNCHANGED <<row, mutex, worker, errs>> /\ (ctxDone => ctxDone')
  BY DEF End, Cancel, vars
<1>2. TypeOK' /\ AttemptsCount'
  BY <1>1 DEF TypeOK, AttemptsCount, End, Cancel, vars
<1>3. SlotsBounded' /\ LockOwned' /\ BusyShown' /\ FailuresRecorded'
  BY <1>1 DEF SlotsBounded, Holders, LockOwned, BusyShown, FailuresRecorded
<1>4. NoneLeft'
  BY <1>1 DEF NoneLeft, End, Cancel, vars
<1> QED BY <1>2, <1>3, <1>4

-----------------------------------------------------------------------------
(* The theorems *)

\* The inductive invariant of a scan.
THEOREM ScanInvariant == Spec => []ScanInv
<1>1. Init => ScanInv
  <2> SUFFICES ASSUME Init PROVE ScanInv
    OBVIOUS
  <2>1. NoWorker \in Worker /\ NoWorker.pc = "none"
    BY ConstantsAssumption DEF NoWorker, Worker, Statuses
  <2>2. worker \in [CertIds -> Worker] /\ \A c \in CertIds : worker[c].pc = "none"
    BY <2>1 DEF Init
  <2>3. TypeOK
    <3>1. [status |-> "active", due |-> FALSE] \in [status: Statuses, due: BOOLEAN]
      BY DEF Statuses
    <3> QED BY <2>2, <3>1 DEF Init, TypeOK
  <2>4. Holders = {}
    BY <2>2 DEF Holders
  <2>5. SlotsBounded
    BY <2>4, FS_EmptySet, ConstantsAssumption DEF SlotsBounded
  <2>6. AttemptsCount /\ NoneLeft /\ FailuresRecorded
    BY <2>2 DEF AttemptsCount, NoneLeft, FailuresRecorded
  <2>7. LockOwned /\ BusyShown
    BY <2>2 DEF Init, LockOwned, Locked, BusyShown
  <2> QED BY <2>3, <2>5, <2>6, <2>7 DEF ScanInv
<1>2. ScanInv /\ [Next]_vars => ScanInv'
  BY BeginKeeps, AcquireKeeps, GetKeeps, LockKeeps, SetBusyKeeps, CreateJobKeeps, EngineKeeps, DecideKeeps, SleepKeeps,
     OthersKeep, EndKeeps DEF Next, Work
<1> QED BY <1>1, <1>2, PTL DEF Spec

\* The state keeps its types; in particular no goroutine tries more than
\* RetryCount + 1 times and no attempt reaches the engine twice.
THEOREM ScanTypes == Spec => []TypeOK
BY ScanInvariant, PTL DEF ScanInv

\* Never more than MaxConcurrency engines run for a scan.
THEOREM EnginesBounded == Spec => []ConcurrencyBounded
<1>1. ScanInv => ConcurrencyBounded
  <2> SUFFICES ASSUME ScanInv PROVE ConcurrencyBounded
    OBVIOUS
  <2> DEFINE E == {c \in CertIds : worker[c].pc = "engine"}
  <2>1. E \subseteq Holders
    BY DEF Holders
  <2>2. /\ IsFiniteSet(E) /\ Cardinality(E) <= Cardinality(Holders)
        /\ IsFiniteSet(Holders) /\ Cardinality(Holders) <= MaxConcurrency
    BY <2>1, FS_Subset DEF ScanInv, SlotsBounded
  <2>3. Cardinality(E) \in Nat /\ Cardinality(Holders) \in Nat
    BY <2>2, FS_CardinalityType
  <2> QED BY <2>2, <2>3, ConstantsAssumption DEF ConcurrencyBounded
<1> QED BY <1>1, ScanInvariant, PTL

\* The engine of a goroutine only runs for a certificate that is there and shown as
\* renewing, whatever administrators did since the scan listed it and its goroutine
\* read it.
THEOREM RenewalsShown == Spec => []RenewsWhatIsShown
<1>1. ScanInv => RenewsWhatIsShown
  BY DEF ScanInv, BusyShown, RenewsWhatIsShown
<1> QED BY <1>1, ScanInvariant, PTL

\* A scan that returns without having been cancelled reports every certificate
\* that it attempted and that is neither renewed nor busy elsewhere.
THEOREM NoFailureLost == Spec => []FailuresReported
<1>1. ScanInv => FailuresReported
  BY DEF ScanInv, FailuresRecorded, FailuresReported
<1> QED BY <1>1, ScanInvariant, PTL
=============================================================================
