----------------------------- MODULE RenewalScan -----------------------------
(***************************************************************************)
(* RunRenewalScan (internal/certificate/service.go): one goroutine for     *)
(* every certificate that was due when the scan listed them, at most       *)
(* MaxConcurrency of them past the semaphore, each trying to renew up to   *)
(* RetryCount more times.  Administrators issue, revoke, delete and        *)
(* configure the same certificates meanwhile.                              *)
(*                                                                         *)
(* A renewal is reduced to the calls that decide its outcome: reading the  *)
(* row, TryLock with the status check, SetCertificateStatus, CreateJob,    *)
(* and the engine with what it leaves in the row.  CertificateService      *)
(* models it call by call.                                                 *)
(***************************************************************************)
EXTENDS Integers, FiniteSets

CONSTANTS
    CertIds,
    MaxConcurrency,  \* of the policy the scan runs under
    RetryCount,      \* of the policy the scan runs under
    StatementsFail   \* whether a statement may fail (SQLITE_BUSY, full disk)

ASSUME ConstantsAssumption ==
    MaxConcurrency \in 1..16 /\ RetryCount \in 0..10 /\ StatementsFail \in BOOLEAN

VARIABLES
    row,      \* row[c]: the columns a scan depends on
    mutex,    \* mutex[c]: who holds the certificate's mutex
    ctxDone,  \* the scheduler's context is cancelled
    scan,     \* "idle" or "running"
    worker,   \* worker[c]: the goroutine of the scan for c
    errs      \* certificates whose error the scan has recorded

vars == <<row, mutex, ctxDone, scan, worker, errs>>

-----------------------------------------------------------------------------
\* The statuses some statement writes; "gone": the row was deleted.
Statuses == {"issuing", "active", "renewing", "failed", "revoked", "gone"}

renewAllowed(s)       == s \in {"active", "expiring", "expired"}
manualIssueAllowed(s) == s \in {"pending", "failed", "active", "expiring", "expired"}
revokeAllowed(s)      == s \in {"active", "expiring"}

\* due: AutoRenewEnabled is set and NotAfter lies inside the renewal window,
\* which RenewalDays of the row or of the policy gives.
dueForRenewal(c) ==
    /\ row[c].due
    /\ row[c].status \notin {"disabled", "revoked", "gone"}

\* A goroutine of the scan: attempt is its loop variable,
\* calls counts the attempts that reached the engine, seen is the status read
\* before TryLock, err the error of the latest attempt.
Worker == [pc: {"none", "queue", "get", "lock", "setBusy", "createJob", "engine",
                "decide", "sleep", "done"},
           attempt: 0..RetryCount, seen: Statuses,
           err: {"none", "running", "state", "db", "engine", "canceled"},
           calls: 0..(RetryCount + 1)]
NoWorker == [pc |-> "none", attempt |-> 0, seen |-> "gone", err |-> "none", calls |-> 0]

\* Mutant: the slot of a goroutine that is done is not given back.
HoldersLeak == {c \in CertIds : worker[c].pc \notin {"none", "queue"}}

\* The goroutines that hold a slot of the semaphore.
Holders == {c \in CertIds : worker[c].pc \in {"get", "lock", "setBusy", "createJob", "engine",
                                               "decide", "sleep"}}

Become(c, w)    == worker' = [worker EXCEPT ![c] = w]
Goto(c, label)  == Become(c, [worker[c] EXCEPT !.pc = label])
\* The goroutine is done; its loop variable is gone.
Leave(c)        == Become(c, [worker[c] EXCEPT !.pc = "done", !.attempt = 0])
\* An attempt ends; what it read is forgotten.
Ends(c, reason) == Become(c, [worker[c] EXCEPT !.pc = "decide", !.err = reason, !.seen = "gone"])

Init ==
    /\ row = [c \in CertIds |-> [status |-> "active", due |-> FALSE]]
    /\ mutex = [c \in CertIds |-> "free"]
    /\ ctxDone = FALSE /\ scan = "idle"
    /\ worker = [c \in CertIds |-> NoWorker]
    /\ errs = {}

-----------------------------------------------------------------------------
(* The scan *)

\* List, which fails under a cancelled context, and one goroutine for every
\* certificate that is due.
Begin ==
    /\ scan = "idle" /\ ~ctxDone
    /\ scan' = "running"
    /\ errs' = {}
    /\ worker' = [c \in CertIds |-> IF dueForRenewal(c) THEN [NoWorker EXCEPT !.pc = "queue"]
                                                       ELSE NoWorker]
    /\ UNCHANGED <<row, mutex, ctxDone>>

\* Mutant: the semaphore is as large as the number of certificates.
AcquireAnyway(c) ==
    /\ worker[c].pc = "queue"
    /\ Goto(c, "get")
    /\ UNCHANGED <<row, mutex, ctxDone, scan, errs>>

\* A slot of the semaphore, or the context is done.
Acquire(c) ==
    /\ worker[c].pc = "queue"
    /\ \/ Cardinality(Holders) < MaxConcurrency /\ Goto(c, "get")
       \/ ctxDone /\ Leave(c)
    /\ UNCHANGED <<row, mutex, ctxDone, scan, errs>>

\* A statement fails, always under a cancelled context; the attempt ends with its error.
Fails(c) ==
    \/ ctxDone /\ Ends(c, "canceled")
    \/ StatementsFail /\ Ends(c, "db")

\* issueExisting reads the row; a deleted row is an error.
Get(c) ==
    /\ worker[c].pc = "get"
    /\ \/ /\ row[c].status # "gone" /\ ~ctxDone
          /\ Become(c, [worker[c] EXCEPT !.pc = "lock", !.seen = row[c].status])
       \/ row[c].status = "gone" /\ Ends(c, "state")
       \/ Fails(c)
    /\ UNCHANGED <<row, mutex, ctxDone, scan, errs>>

\* TryLock and, on the status that was read before it, renewAllowed.
Lock(c) ==
    /\ worker[c].pc = "lock"
    /\ \/ mutex[c] # "free" /\ Ends(c, "running") /\ UNCHANGED mutex
       \/ /\ mutex[c] = "free" /\ ~renewAllowed(worker[c].seen)
          /\ Ends(c, "state") /\ UNCHANGED mutex
       \/ /\ mutex[c] = "free" /\ renewAllowed(worker[c].seen)
          /\ mutex' = [mutex EXCEPT ![c] = "scan"]
          /\ Goto(c, "setBusy")
    /\ UNCHANGED <<row, ctxDone, scan, errs>>

\* The deferred Unlock, after an error.
Unlock(c) == mutex' = [mutex EXCEPT ![c] = "free"]

\* An UPDATE of the row, which has no effect when it is gone.
Written(c, s, due) == IF row[c].status = "gone" THEN row
                      ELSE [row EXCEPT ![c].status = s, ![c].due = due]

\* SetCertificateStatus(renewing)
SetBusy(c) ==
    /\ worker[c].pc = "setBusy"
    /\ \/ /\ ~ctxDone
          /\ row' = Written(c, "renewing", row[c].due)
          /\ Goto(c, "createJob") /\ UNCHANGED mutex
       \/ Fails(c) /\ Unlock(c) /\ UNCHANGED row
    /\ UNCHANGED <<ctxDone, scan, errs>>

\* Mutant: the foreign key of job_runs is not enforced.
CreateJobWithoutRow(c) ==
    /\ worker[c].pc = "createJob"
    /\ \/ /\ ~ctxDone
          /\ Become(c, [worker[c] EXCEPT !.pc = "engine", !.calls = @ + 1])
          /\ UNCHANGED mutex
       \/ Fails(c) /\ Unlock(c)
    /\ UNCHANGED <<row, ctxDone, scan, errs>>

\* CreateJob; its foreign key needs the row.  When it fails the status stays renewing.
CreateJob(c) ==
    /\ worker[c].pc = "createJob"
    /\ \/ /\ row[c].status # "gone" /\ ~ctxDone
          /\ Become(c, [worker[c] EXCEPT !.pc = "engine", !.calls = @ + 1])
          /\ UNCHANGED mutex
       \/ row[c].status = "gone" /\ ~ctxDone /\ Ends(c, "db") /\ Unlock(c)
       \/ Fails(c) /\ Unlock(c)
    /\ UNCHANGED <<row, ctxDone, scan, errs>>

\* The engine and the publisher return: the row becomes active or failed, and
\* stays renewing when the statement that would write it fails.
Engine(c) ==
    /\ worker[c].pc = "engine"
    /\ Unlock(c)
    /\ \/ ~ctxDone /\ row' = Written(c, "active", FALSE) /\ Ends(c, "none")
       \/ ~ctxDone /\ row' = Written(c, "failed", row[c].due) /\ Ends(c, "engine")
       \/ UNCHANGED row /\ Fails(c)
       \/ UNCHANGED row /\ (ctxDone \/ StatementsFail) /\ Ends(c, "engine")
    /\ UNCHANGED <<ctxDone, scan, errs>>

\* An error after which the attempt is repeated: any but ErrOperationRunning and
\* context.Canceled.
Retried(e) == e \in {"state", "db", "engine"}

\* Mutant: the errors are not recorded.
DecideQuietly(c) ==
    /\ worker[c].pc = "decide"
    /\ IF Retried(worker[c].err) /\ worker[c].attempt < RetryCount
       THEN Goto(c, "sleep")
       ELSE Leave(c)
    /\ UNCHANGED <<row, mutex, ctxDone, scan, errs>>

\* Stop on success, ErrOperationRunning and context.Canceled; otherwise retry
\* while attempts are left.  Errors other than ErrOperationRunning are recorded.
Decide(c) ==
    /\ worker[c].pc = "decide"
    /\ IF Retried(worker[c].err) /\ worker[c].attempt < RetryCount
       THEN Goto(c, "sleep") /\ UNCHANGED errs
       ELSE /\ Leave(c)
            /\ errs' = IF worker[c].err \in {"none", "running"} THEN errs ELSE errs \cup {c}
    /\ UNCHANGED <<row, mutex, ctxDone, scan>>

\* The retry timer, or the context is done; the slot is kept while waiting.
Sleep(c) ==
    /\ worker[c].pc = "sleep"
    /\ \/ Become(c, [worker[c] EXCEPT !.pc = "get", !.attempt = @ + 1])
       \/ ctxDone /\ Leave(c)
    /\ UNCHANGED <<row, mutex, ctxDone, scan, errs>>

\* wait.Wait() and errors.Join
End ==
    /\ scan = "running"
    /\ \A c \in CertIds : worker[c].pc \in {"none", "done"}
    /\ scan' = "idle"
    /\ UNCHANGED <<row, mutex, ctxDone, worker, errs>>

-----------------------------------------------------------------------------
(* Everything else that happens to the certificates *)

\* Issue by an administrator: takes the mutex if the status allows it.
AdminLock(c) ==
    /\ mutex[c] = "free" /\ manualIssueAllowed(row[c].status)
    /\ mutex' = [mutex EXCEPT ![c] = "admin"]
    /\ row' = [row EXCEPT ![c].status = "issuing"]
    /\ UNCHANGED <<ctxDone, scan, worker, errs>>

AdminDone(c) ==
    /\ mutex[c] = "admin"
    /\ mutex' = [mutex EXCEPT ![c] = "free"]
    /\ row' \in {[row EXCEPT ![c].status = "active", ![c].due = FALSE],
                 [row EXCEPT ![c].status = "failed"]}
    /\ UNCHANGED <<ctxDone, scan, worker, errs>>

\* Revoke and Delete.
AdminEnd(c, s) ==
    /\ mutex[c] = "free"
    /\ \/ /\ s = "revoked" /\ revokeAllowed(row[c].status)
          /\ row' = [row EXCEPT ![c].status = s]
       \/ /\ s = "gone" /\ row[c].status # "gone"
          /\ row' = [row EXCEPT ![c] = [status |-> s, due |-> FALSE]]
    /\ UNCHANGED <<mutex, ctxDone, scan, worker, errs>>

\* Update: the renewal options of a certificate decide whether it is due; the
\* mutex is not taken.
AdminSet(c, due) ==
    /\ row[c].status # "gone" /\ row[c].due # due
    /\ row' = [row EXCEPT ![c].due = due]
    /\ UNCHANGED <<mutex, ctxDone, scan, worker, errs>>

\* Time passes and the certificate enters its renewal window.
Age(c) ==
    /\ ~row[c].due /\ row[c].status # "gone"
    /\ row' = [row EXCEPT ![c].due = TRUE]
    /\ UNCHANGED <<mutex, ctxDone, scan, worker, errs>>

Cancel ==
    /\ ~ctxDone /\ ctxDone' = TRUE
    /\ UNCHANGED <<row, mutex, scan, worker, errs>>

-----------------------------------------------------------------------------
Work(c) ==
    \/ Acquire(c) \/ Get(c) \/ Lock(c) \/ SetBusy(c) \/ CreateJob(c) \/ Engine(c)
    \/ Decide(c) \/ Sleep(c)

Next ==
    \/ Begin \/ End \/ Cancel
    \/ \E c \in CertIds :
        \/ Work(c)
        \/ AdminLock(c) \/ AdminDone(c) \/ Age(c)
        \/ \E s \in {"revoked", "gone"} : AdminEnd(c, s)
        \/ \E due \in BOOLEAN : AdminSet(c, due)

Spec == Init /\ [][Next]_vars

\* Goroutines run on: engines end by their command timeout, timers fire, and a
\* slot that stays free goes to a waiting goroutine.  A goroutine takes a slot
\* once per scan, so a slot cannot be snatched away for ever.
Fairness == WF_vars(End) /\ \A c \in CertIds : WF_vars(Work(c))
FairSpec == Spec /\ Fairness

-----------------------------------------------------------------------------
(* Correctness properties *)

\* The state keeps its types, and no goroutine tries more than RetryCount + 1
\* times.
TypeOK ==
    /\ row \in [CertIds -> [status: Statuses, due: BOOLEAN]]
    /\ mutex \in [CertIds -> {"free", "scan", "admin"}]
    /\ ctxDone \in BOOLEAN /\ scan \in {"idle", "running"}
    /\ worker \in [CertIds -> Worker]
    /\ errs \subseteq CertIds

\* Never more than MaxConcurrency engines run for a scan, whatever the retries,
\* conflicts and cancellations.
ConcurrencyBounded ==
    Cardinality({c \in CertIds : worker[c].pc = "engine"}) <= MaxConcurrency

\* However old the list of the scan and the status its goroutine read, the engine only
\* runs for a certificate that is there and shown as renewing: what administrators did
\* since then, up to deleting it, is stopped by Get, by the mutex or by the foreign key
\* of CreateJob, and nothing they may do changes the status before the engine returns.
RenewsWhatIsShown ==
    \A c \in CertIds : worker[c].pc = "engine" => row[c].status = "renewing"

\* When a scan returns without having been cancelled, every certificate it
\* attempted is renewed, was busy elsewhere, or is among the errors it returns.
FailuresReported ==
    scan = "idle" /\ ~ctxDone =>
        \A c \in CertIds : worker[c].pc = "done" =>
            worker[c].err \in {"none", "running"} \/ c \in errs

\* Every scan ends, so the scheduler's runMu is released.
ScanReturns == scan = "running" ~> scan = "idle"

-----------------------------------------------------------------------------
(* What the documents promise and the code does not keep *)

\* README 10: a renewal that failed is tried again RetryCount times.  The first
\* failure makes the status failed, which renewAllowed refuses.
RetriesReachEngine ==
    \A c \in CertIds :
        /\ scan = "idle" /\ ~ctxDone /\ row[c].status = "failed"
        /\ worker[c].pc = "done" /\ worker[c].calls > 0 /\ worker[c].err # "none"
        => worker[c].calls = RetryCount + 1
=============================================================================
