-------------------------- MODULE CertificateService --------------------------
(***************************************************************************)
(* The certificate service of CertMate (internal/certificate/service.go)   *)
(* over its SQLite tables (internal/store/sqlite/store.go), the published  *)
(* directories (internal/certificate/files/publisher.go) and the map of    *)
(* per-certificate mutexes.                                                *)
(*                                                                         *)
(* Every HTTP request, and every renewal a scan starts, is one request     *)
(* slot that runs a handler.  Each call a handler makes (to the database,  *)
(* an engine, the publisher or a mutex) is one step, so the steps of two   *)
(* handlers interleave exactly at those calls.  A step whose call fails    *)
(* follows the handler's error path.                                       *)
(*                                                                         *)
(* A run number identifies a handler execution.  A handler creates at most *)
(* one job and issues at most one certificate, so the run number also      *)
(* stands for the job's id and for the serial number issued in that run.   *)
(***************************************************************************)
EXTENDS Integers, FiniteSets

CONSTANTS
    CertIds,   \* the certificate ids newID() may return; none is used twice
    NoCert,    \* SQL NULL in a certificate_id column
    Dirs,      \* output directories below the certificate root
    DirOf,     \* the output directory asked for when a certificate is created
    Requests,  \* slots for concurrently running handlers
    AutoRenewChoices,  \* the values administrators send for auto_renew_enabled
    MaxOps,    \* bound: handler executions in one behaviour
    Faults     \* the kinds of failure the environment may inject

\* "db": a statement fails (request context cancelled, SQLITE_BUSY, full disk);
\* "engine": acme.sh or OpenSSL fails; "io": the publisher fails;
\* "restore": moving the old directory back after a failed publish fails too;
\* "crash": the process is killed and started again.
FaultKinds == {"db", "engine", "io", "restore", "crash"}

ASSUME ConstantsAssumption ==
    /\ NoCert \notin CertIds
    /\ DirOf \in [CertIds -> Dirs]
    /\ AutoRenewChoices \subseteq BOOLEAN
    /\ MaxOps \in Nat
    /\ Faults \subseteq FaultKinds

VARIABLES
    life,     \* life[c]: no row yet, a row in table certificates, or deleted
    row,      \* row[c]: the columns of that row
    jobs,     \* table job_runs, by run number
    audit,    \* table audit_events
    disk,     \* disk[d]: serial of the files published in d, Absent or Partial
    backups,  \* serials of the directories copied below /data/backups
    lockGen,  \* lockGen[c]: which mutex Service.locks holds for c
    locked,   \* the mutexes that are locked, as <<certificate, generation>>
    ops,      \* run numbers handed out so far
    op        \* op[p]: the handler running in slot p

db    == <<life, row, jobs, audit>>
fs    == <<disk, backups>>
locks == <<lockGen, locked>>
vars  == <<life, row, jobs, audit, disk, backups, lockGen, locked, ops, op>>

-----------------------------------------------------------------------------
(* Values *)

Statuses == {"pending", "issuing", "active", "expiring", "expired",
             "renewing", "failed", "disabled", "revoked"}
Busy     == {"issuing", "renewing"}
Modes    == {"acme", "self_signed"}
Kinds    == {"create", "issue", "renew", "force_renew", "revoke", "delete", "update"}
Runs     == 1..MaxOps

Absent  == 0
Partial == -1

Row   == [status: Statuses, mode: Modes, serial: 0..MaxOps, autoRenew: BOOLEAN]
Job   == [status: {"none", "running", "succeeded", "failed", "interrupted"},
          type: Kinds \cup {"none"}, cert: CertIds \cup {NoCert}]
Event == [cert: CertIds \cup {NoCert}, type: Kinds, result: {"succeeded", "failed"}]

NoJob == [status |-> "none", type |-> "none", cert |-> NoCert]

\* The calls a handler waits at, named for the call that comes next.
LockFree == {"idle", "get", "load", "tryLock"}
Labels   == LockFree \cup
            {"check", "setBusy", "createJob", "markNoJob", "engine", "publish", "moveAside",
             "swap", "markDone", "revokeCA", "setRevoked", "finishFailed", "markFailed",
             "auditFailed", "finishDone", "auditDone", "updateSettings",
             "backup", "deleteRow", "removeFirst", "removeRest", "forgetLock"}

Handler(label, k, c, files, run, seen) ==
    [pc |-> label, kind |-> k, cert |-> c, files |-> files, run |-> run, seen |-> seen,
     gen |-> 0, issued |-> FALSE, stash |-> Absent]

Idle == Handler("idle", "none", NoCert, FALSE, 0, "pending")

Op == [pc: Labels, kind: Kinds \cup {"none"}, cert: CertIds \cup {NoCert},
       files: BOOLEAN,     \* Delete was asked to delete the files
       run: 0..MaxOps,
       seen: Statuses,     \* value.Status, as Get returned it before the lock
       gen: Nat,           \* the mutex LoadOrStore returned
       issued: BOOLEAN,    \* the engine has returned a certificate
       stash: {Partial} \cup (0..MaxOps)]  \* what was moved aside while publishing

Exists(c)   == life[c] = "live"
Locks(k)    == k \in {"issue", "renew", "force_renew", "revoke", "delete"}
MutexOf(p)  == <<op[p].cert, op[p].gen>>
DirOfOp(p)  == DirOf[op[p].cert]
May(fault)  == fault \in Faults

revokeAllowed(s)      == s \in {"active", "expiring"}
renewAllowed(s)       == s \in {"active", "expiring", "expired"}
manualIssueAllowed(s) == s \in {"pending", "failed", "active", "expiring", "expired"}

-----------------------------------------------------------------------------
(* Initial state: an empty database, an empty certificate root *)

Init ==
    /\ life = [c \in CertIds |-> "unborn"]
    /\ row = [c \in CertIds |-> [status |-> "pending", mode |-> "self_signed",
                                 serial |-> 0, autoRenew |-> FALSE]]
    /\ jobs = [r \in Runs |-> NoJob]
    /\ audit = {}
    /\ disk = [d \in Dirs |-> Absent]
    /\ backups = {}
    /\ lockGen = [c \in CertIds |-> 0]
    /\ locked = {}
    /\ ops = 0
    /\ op = [p \in Requests |-> Idle]

-----------------------------------------------------------------------------
(* Building blocks of the handlers *)

Goto(p, label) == op' = [op EXCEPT ![p].pc = label]

\* Return without having locked the mutex.
Return(p) == op' = [op EXCEPT ![p] = Idle]

\* Return through the deferred lock.Unlock(); Create and Update hold no mutex.
Unlock(p) == IF Locks(op[p].kind) THEN locked \ {MutexOf(p)} ELSE locked
Finish(p) == Return(p) /\ locked' = Unlock(p)

\* UPDATE certificates ... WHERE id = ?: no row, no effect, no error.
UpdateRow(c, new) == IF Exists(c) THEN [row EXCEPT ![c] = new] ELSE row
SetStatus(c, s)   == UpdateRow(c, [row[c] EXCEPT !.status = s])

\* INSERT INTO audit_events: the foreign key rejects an event whose
\* certificate is gone, and every handler ignores the error.
CreateAuditEvent(p, result) ==
    \/ /\ Exists(op[p].cert)
       /\ audit' = audit \cup {[cert |-> op[p].cert, type |-> op[p].kind, result |-> result]}
    \/ /\ ~Exists(op[p].cert) \/ May("db")
       /\ UNCHANGED audit

\* UPDATE job_runs ... WHERE id = ?; every handler ignores the error.
FinishJob(p, status) ==
    \/ jobs' = [jobs EXCEPT ![op[p].run].status = status]
    \/ May("db") /\ UNCHANGED jobs

\* A handler starts in a free slot with the next run number.
Start(p, label, k, c, files) ==
    /\ op[p].pc = "idle"
    /\ ops < MaxOps
    /\ ops' = ops + 1
    /\ op' = [op EXCEPT ![p] = Handler(label, k, c, files, ops + 1, row[c].status)]

-----------------------------------------------------------------------------
(* The handlers' first calls *)

\* CreateSelfSigned and CreateACME: once the request is validated, the row is
\* inserted with status issuing.  A directory another row uses violates the
\* UNIQUE constraint and the request fails without a trace.  No mutex is taken.
Create(p, c, m, auto) ==
    /\ life[c] = "unborn"
    /\ \A b \in CertIds : Exists(b) => DirOf[b] # DirOf[c]
    /\ op[p].pc = "idle"
    /\ ops < MaxOps
    /\ ops' = ops + 1
    /\ op' = [op EXCEPT ![p] = Handler("createJob", "create", c, FALSE, ops + 1, "issuing")]
    /\ life' = [life EXCEPT ![c] = "live"]
    /\ row' = [row EXCEPT ![c] = [status |-> "issuing", mode |-> m,
                                  serial |-> 0, autoRenew |-> auto]]
    /\ UNCHANGED <<jobs, audit, fs, locks>>

\* Renew(force): issueExisting reads the row before it asks for the mutex.
Renew(p, c, force) ==
    /\ Exists(c)
    /\ Start(p, "load", IF force THEN "force_renew" ELSE "renew", c, FALSE)
    /\ UNCHANGED <<db, fs, locks>>

\* Issue checks the status it reads, then issueExisting reads the row again.
Issue(p, c) ==
    /\ Exists(c)
    /\ manualIssueAllowed(row[c].status)
    /\ Start(p, "get", "issue", c, FALSE)
    /\ UNCHANGED <<db, fs, locks>>

\* Revoke decides on the row it reads before it asks for the mutex.
Revoke(p, c) ==
    /\ Exists(c)
    /\ row[c].mode = "acme"
    /\ revokeAllowed(row[c].status)
    /\ Start(p, "load", "revoke", c, FALSE)
    /\ UNCHANGED <<db, fs, locks>>

Delete(p, c, deleteFiles) ==
    /\ Exists(c)
    /\ Start(p, "load", "delete", c, deleteFiles)
    /\ UNCHANGED <<db, fs, locks>>

Update(p, c) ==
    /\ Exists(c)
    /\ Start(p, "updateSettings", "update", c, FALSE)
    /\ UNCHANGED <<db, fs, locks>>

-----------------------------------------------------------------------------
(* Taking the mutex *)

\* issueExisting: s.Get
Get(p) ==
    /\ op[p].pc = "get"
    /\ \/ /\ Exists(op[p].cert)
          /\ op' = [op EXCEPT ![p] = [@ EXCEPT !.pc = "load", !.seen = row[op[p].cert].status]]
       \/ /\ ~Exists(op[p].cert) \/ May("db")
          /\ Return(p)
    /\ UNCHANGED <<db, fs, locks, ops>>

\* Mutant: every handler stores a mutex of its own.
StoreFreshLock(p) ==
    /\ op[p].pc = "load"
    /\ lockGen' = [lockGen EXCEPT ![op[p].cert] = @ + 1]
    /\ op' = [op EXCEPT ![p].pc = "tryLock", ![p].gen = lockGen'[op[p].cert]]
    /\ UNCHANGED <<db, fs, locked, ops>>

\* s.locks.LoadOrStore(id, &sync.Mutex{})
LoadOrStore(p) ==
    /\ op[p].pc = "load"
    /\ op' = [op EXCEPT ![p] = [@ EXCEPT !.pc = "tryLock", !.gen = lockGen[op[p].cert]]]
    /\ UNCHANGED <<db, fs, locks, ops>>

AfterLock(p) ==
    CASE op[p].kind = "revoke" -> "createJob"
      [] op[p].kind = "delete" -> IF op[p].files THEN "backup" ELSE "deleteRow"
      [] OTHER -> "check"

\* lock.TryLock(); when it fails the handler returns ErrOperationRunning.
TryLock(p) ==
    /\ op[p].pc = "tryLock"
    /\ \/ /\ MutexOf(p) \notin locked
          /\ locked' = locked \cup {MutexOf(p)}
          /\ Goto(p, AfterLock(p))
       \/ /\ MutexOf(p) \in locked
          /\ Return(p)
          /\ UNCHANGED locked
    /\ UNCHANGED <<db, fs, lockGen, ops>>

\* Mutant: the rejection returns without the deferred Unlock.
CheckKeepsLock(p) ==
    /\ op[p].pc = "check"
    /\ LET allowed == IF op[p].kind = "issue" THEN manualIssueAllowed(op[p].seen)
                                              ELSE renewAllowed(op[p].seen)
       IN IF allowed THEN Goto(p, "setBusy") ELSE Return(p)
    /\ UNCHANGED <<db, fs, locks, ops>>

\* issueExisting decides on the status read before the mutex was taken.
Check(p) ==
    /\ op[p].pc = "check"
    /\ LET allowed == IF op[p].kind = "issue" THEN manualIssueAllowed(op[p].seen)
                                              ELSE renewAllowed(op[p].seen)
       IN IF allowed THEN Goto(p, "setBusy") /\ UNCHANGED locked ELSE Finish(p)
    /\ UNCHANGED <<db, fs, lockGen, ops>>

-----------------------------------------------------------------------------
(* Issuing: create, issue, renew and force renew *)

\* Mutant: the status is left alone until the certificate is issued.
SkipBusy(p) ==
    /\ op[p].pc = "setBusy"
    /\ Goto(p, "createJob")
    /\ UNCHANGED <<db, fs, locks, ops>>

\* SetCertificateStatus(issuing | renewing)
SetBusy(p) ==
    /\ op[p].pc = "setBusy"
    /\ \/ /\ row' = SetStatus(op[p].cert, IF op[p].kind = "issue" THEN "issuing" ELSE "renewing")
          /\ Goto(p, "createJob")
          /\ UNCHANGED locked
       \/ /\ May("db")
          /\ Finish(p)
          /\ UNCHANGED row
    /\ UNCHANGED <<life, jobs, audit, fs, lockGen, ops>>

\* CreateJob; its foreign key needs the certificate's row.  When it fails,
\* create and issue mark the certificate failed, renew and revoke just return.
CreateJob(p) ==
    /\ op[p].pc = "createJob"
    /\ \/ /\ Exists(op[p].cert)
          /\ jobs' = [jobs EXCEPT ![op[p].run] =
                        [status |-> "running", type |-> op[p].kind, cert |-> op[p].cert]]
          /\ Goto(p, IF op[p].kind = "revoke" THEN "revokeCA" ELSE "engine")
          /\ UNCHANGED locked
       \/ /\ ~Exists(op[p].cert) \/ May("db")
          /\ IF op[p].kind \in {"create", "issue"}
             THEN Goto(p, "markNoJob") /\ UNCHANGED locked
             ELSE Finish(p)
          /\ UNCHANGED jobs
    /\ UNCHANGED <<life, row, audit, fs, lockGen, ops>>

\* MarkCertificateFailed after CreateJob failed; its error is ignored.
MarkNoJob(p) ==
    /\ op[p].pc = "markNoJob"
    /\ \/ row' = SetStatus(op[p].cert, "failed")
       \/ May("db") /\ UNCHANGED row
    /\ Finish(p)
    /\ UNCHANGED <<life, jobs, audit, fs, lockGen, ops>>

\* Resolving the DNS credential and running acme.sh or OpenSSL.
Engine(p) ==
    /\ op[p].pc = "engine"
    /\ \/ op' = [op EXCEPT ![p] = [@ EXCEPT !.pc = "publish", !.issued = TRUE]]
       \/ May("engine") /\ Goto(p, "finishFailed")
    /\ UNCHANGED <<db, fs, locks, ops>>

\* Publisher.Publish: the files are staged, and a directory that is already
\* there is copied to the backups.  One that misses files cannot be copied.
Publish(p) ==
    /\ op[p].pc = "publish"
    /\ LET d == DirOfOp(p)
       IN \/ /\ disk[d] = Absent
             /\ Goto(p, "swap")
             /\ UNCHANGED backups
          \/ /\ disk[d] \notin {Absent, Partial}
             /\ backups' = backups \cup {disk[d]}
             /\ Goto(p, "moveAside")
          \/ /\ disk[d] = Partial \/ May("io")
             /\ Goto(p, "finishFailed")
             /\ UNCHANGED backups
    /\ UNCHANGED <<db, disk, locks, ops>>

\* Publisher.Publish: the directory found there is renamed out of the way,
\* whatever it has become since it was copied.
MoveAside(p) ==
    /\ op[p].pc = "moveAside"
    /\ LET d == DirOfOp(p)
       IN \/ /\ disk[d] # Absent
             /\ op' = [op EXCEPT ![p] = [@ EXCEPT !.pc = "swap", !.stash = disk[d]]]
             /\ disk' = [disk EXCEPT ![d] = Absent]
          \/ /\ disk[d] = Absent \/ May("io")
             /\ Goto(p, "finishFailed")
             /\ UNCHANGED disk
    /\ UNCHANGED <<db, backups, locks, ops>>

\* Mutant: the old directory is not put back when the rename fails.
SwapWithoutRestore(p) ==
    /\ op[p].pc = "swap"
    /\ LET d == DirOfOp(p)
       IN \/ /\ disk[d] = Absent
             /\ disk' = [disk EXCEPT ![d] = op[p].run]
             /\ Goto(p, "markDone")
          \/ /\ disk[d] # Absent \/ May("io")
             /\ UNCHANGED disk
             /\ Goto(p, "finishFailed")
    /\ UNCHANGED <<db, backups, locks, ops>>

\* Publisher.Publish: the staged directory is renamed to the target, which
\* fails when somebody else published there; on failure the old directory is
\* renamed back.
Swap(p) ==
    /\ op[p].pc = "swap"
    /\ LET d == DirOfOp(p)
       IN \/ /\ disk[d] = Absent
             /\ disk' = [disk EXCEPT ![d] = op[p].run]
             /\ Goto(p, "markDone")
          \/ /\ disk[d] # Absent \/ May("io")
             /\ \/ /\ disk[d] = Absent
                   /\ disk' = [disk EXCEPT ![d] = op[p].stash]
                \/ /\ disk[d] # Absent \/ May("restore")
                   /\ UNCHANGED disk
             /\ Goto(p, "finishFailed")
    /\ UNCHANGED <<db, backups, locks, ops>>

\* Mutants: a failure after publishing is reported as a failed job; the row
\* gets a status the schema does not know; the whole row is saved, with the
\* settings some earlier read had found.
MarkDoneOrFail(p) ==
    /\ op[p].pc = "markDone"
    /\ LET c == op[p].cert
       IN \/ /\ row' = UpdateRow(c, [row[c] EXCEPT !.status = "active", !.serial = op[p].run])
             /\ Goto(p, "finishDone")
          \/ /\ May("db")
             /\ Goto(p, "finishFailed")
             /\ UNCHANGED row
    /\ UNCHANGED <<life, jobs, audit, fs, locks, ops>>

MarkIssued(p) ==
    /\ op[p].pc = "markDone"
    /\ row' = SetStatus(op[p].cert, "issued")
    /\ Goto(p, "finishDone")
    /\ UNCHANGED <<life, jobs, audit, fs, locks, ops>>

MarkWholeRow(p) ==
    /\ op[p].pc = "markDone"
    /\ \E auto \in AutoRenewChoices :
          row' = UpdateRow(op[p].cert, [row[op[p].cert] EXCEPT
                                          !.status = "active", !.serial = op[p].run,
                                          !.autoRenew = auto])
    /\ Goto(p, "finishDone")
    /\ UNCHANGED <<life, jobs, audit, fs, locks, ops>>

\* MarkCertificateIssued or MarkCertificateRenewed
MarkDone(p) ==
    /\ op[p].pc = "markDone"
    /\ LET c == op[p].cert
       IN \/ /\ row' = UpdateRow(c, [row[c] EXCEPT !.status = "active", !.serial = op[p].run])
             /\ Goto(p, "finishDone")
             /\ UNCHANGED locked
          \/ /\ May("db")
             /\ Finish(p)
             /\ UNCHANGED row
    /\ UNCHANGED <<life, jobs, audit, fs, lockGen, ops>>

-----------------------------------------------------------------------------
(* Revoking *)

\* acmesh.CLI.Revoke
RevokeCA(p) ==
    /\ op[p].pc = "revokeCA"
    /\ \/ Goto(p, "setRevoked")
       \/ May("engine") /\ Goto(p, "finishFailed")
    /\ UNCHANGED <<db, fs, locks, ops>>

\* SetCertificateStatus(revoked); on failure the job is not finished.
SetRevoked(p) ==
    /\ op[p].pc = "setRevoked"
    /\ \/ /\ row' = SetStatus(op[p].cert, "revoked")
          /\ Goto(p, "finishDone")
          /\ UNCHANGED locked
       \/ /\ May("db")
          /\ Finish(p)
          /\ UNCHANGED row
    /\ UNCHANGED <<life, jobs, audit, fs, lockGen, ops>>

-----------------------------------------------------------------------------
(* The end of a handler: failRenewal and its variants, and success *)

\* Mutant: the failed job is never closed.
LeaveJobRunning(p) ==
    /\ op[p].pc = "finishFailed"
    /\ Goto(p, IF op[p].kind = "revoke" THEN "auditFailed" ELSE "markFailed")
    /\ UNCHANGED <<db, fs, locks, ops>>

FinishFailed(p) ==
    /\ op[p].pc = "finishFailed"
    /\ FinishJob(p, "failed")
    /\ Goto(p, IF op[p].kind = "revoke" THEN "auditFailed" ELSE "markFailed")
    /\ UNCHANGED <<life, row, audit, fs, locks, ops>>

\* Mutant: a failed publish leaves the certificate's status alone.
MarkEngineFailureOnly(p) ==
    /\ op[p].pc = "markFailed"
    /\ row' = IF op[p].issued THEN row ELSE SetStatus(op[p].cert, "failed")
    /\ Goto(p, "auditFailed")
    /\ UNCHANGED <<life, jobs, audit, fs, locks, ops>>

\* MarkCertificateFailed; its error is ignored.  A create whose publishing
\* failed returns without an audit event.
MarkFailed(p) ==
    /\ op[p].pc = "markFailed"
    /\ \/ row' = SetStatus(op[p].cert, "failed")
       \/ May("db") /\ UNCHANGED row
    /\ IF op[p].kind = "create" /\ op[p].issued
       THEN Finish(p)
       ELSE Goto(p, "auditFailed") /\ UNCHANGED locked
    /\ UNCHANGED <<life, jobs, audit, fs, lockGen, ops>>

AuditFailed(p) ==
    /\ op[p].pc = "auditFailed"
    /\ CreateAuditEvent(p, "failed")
    /\ Finish(p)
    /\ UNCHANGED <<life, row, jobs, fs, lockGen, ops>>

FinishDone(p) ==
    /\ op[p].pc = "finishDone"
    /\ FinishJob(p, "succeeded")
    /\ Goto(p, "auditDone")
    /\ UNCHANGED <<life, row, audit, fs, locks, ops>>

AuditDone(p) ==
    /\ op[p].pc = "auditDone"
    /\ CreateAuditEvent(p, "succeeded")
    /\ Finish(p)
    /\ UNCHANGED <<life, row, jobs, fs, lockGen, ops>>

\* UpdateCertificateSettings touches the settings columns only.
UpdateSettings(p) ==
    /\ op[p].pc = "updateSettings"
    /\ LET c == op[p].cert
       IN \/ /\ Exists(c)
             /\ \E auto \in AutoRenewChoices : row' = [row EXCEPT ![c].autoRenew = auto]
             /\ Goto(p, "auditDone")
          \/ /\ ~Exists(c) \/ May("db")
             /\ Return(p)
             /\ UNCHANGED row
    /\ UNCHANGED <<life, jobs, audit, fs, locks, ops>>

-----------------------------------------------------------------------------
(* Deleting *)

\* Publisher.Backup; a missing directory needs no backup.
Backup(p) ==
    /\ op[p].pc = "backup"
    /\ LET d == DirOfOp(p)
       IN \/ /\ disk[d] # Partial
             /\ backups' = backups \cup ({disk[d]} \ {Absent})
             /\ Goto(p, "deleteRow")
          \/ /\ disk[d] = Partial \/ (disk[d] # Absent /\ May("io"))
             /\ Goto(p, "auditFailed")
             /\ UNCHANGED backups
    /\ UNCHANGED <<db, disk, locks, ops>>

\* Mutant: ON DELETE CASCADE.
DeleteRowAndJobs(p) ==
    /\ op[p].pc = "deleteRow"
    /\ LET c == op[p].cert
       IN /\ Exists(c)
          /\ life' = [life EXCEPT ![c] = "deleted"]
          /\ jobs' = [r \in Runs |-> IF jobs[r].cert = c THEN NoJob ELSE jobs[r]]
          /\ audit' = {e \in audit : e.cert # c}
          /\ Goto(p, IF op[p].files THEN "removeFirst" ELSE "forgetLock")
    /\ UNCHANGED <<row, fs, locks, ops>>

\* DeleteCertificateWithAudit: one transaction inserts the event and deletes
\* the row; ON DELETE SET NULL clears the references of jobs and events.
DeleteRow(p) ==
    /\ op[p].pc = "deleteRow"
    /\ LET c == op[p].cert
           unlink(r) == IF r.cert = c THEN [r EXCEPT !.cert = NoCert] ELSE r
       IN \/ /\ Exists(c)
             /\ life' = [life EXCEPT ![c] = "deleted"]
             /\ jobs' = [r \in Runs |-> unlink(jobs[r])]
             /\ audit' = {unlink(e) : e \in audit} \cup
                         {[cert |-> NoCert, type |-> "delete", result |-> "succeeded"]}
             /\ Goto(p, IF op[p].files THEN "removeFirst" ELSE "forgetLock")
             /\ UNCHANGED locked
          \/ /\ ~Exists(c) \/ May("db")
             /\ Finish(p)
             /\ UNCHANGED <<life, jobs, audit>>
    /\ UNCHANGED <<row, fs, lockGen, ops>>

\* Publisher.Remove: os.RemoveAll unlinks the files one by one ...
RemoveFirst(p) ==
    /\ op[p].pc = "removeFirst"
    /\ LET d == DirOfOp(p)
       IN \/ /\ disk[d] = Absent
             /\ Goto(p, "forgetLock")
             /\ UNCHANGED <<disk, locked>>
          \/ /\ disk[d] # Absent
             /\ disk' = [disk EXCEPT ![d] = Partial]
             /\ Goto(p, "removeRest")
             /\ UNCHANGED locked
          \/ /\ May("io")
             /\ Finish(p)
             /\ UNCHANGED disk
    /\ UNCHANGED <<db, backups, lockGen, ops>>

\* ... and then the directory, unless somebody published there meanwhile.
RemoveRest(p) ==
    /\ op[p].pc = "removeRest"
    /\ \/ /\ disk[DirOfOp(p)] \in {Absent, Partial}
          /\ disk' = [disk EXCEPT ![DirOfOp(p)] = Absent]
          /\ Goto(p, "forgetLock")
          /\ UNCHANGED locked
       \/ /\ disk[DirOfOp(p)] \notin {Absent, Partial} \/ May("io")
          /\ Finish(p)
          /\ UNCHANGED disk
    /\ UNCHANGED <<db, backups, lockGen, ops>>

\* s.locks.Delete(id), then the deferred Unlock: a handler that asks for the
\* mutex from now on gets a fresh one.
ForgetLock(p) ==
    /\ op[p].pc = "forgetLock"
    /\ lockGen' = [lockGen EXCEPT ![op[p].cert] = @ + 1]
    /\ Finish(p)
    /\ UNCHANGED <<db, fs, ops>>

-----------------------------------------------------------------------------
\* Mutant: MarkInterruptedJobs is not called.
RestartOnly ==
    /\ May("crash")
    /\ op' = [p \in Requests |-> Idle]
    /\ lockGen' = [c \in CertIds |-> 0]
    /\ locked' = {}
    /\ UNCHANGED <<db, fs, ops>>

\* The process dies and starts again: handlers and mutexes are gone, and
\* MarkInterruptedJobs runs before the server listens.
Restart ==
    /\ May("crash")
    /\ op' = [p \in Requests |-> Idle]
    /\ lockGen' = [c \in CertIds |-> 0]
    /\ locked' = {}
    /\ jobs' = [r \in Runs |-> IF jobs[r].status = "running"
                               THEN [jobs[r] EXCEPT !.status = "interrupted"]
                               ELSE jobs[r]]
    /\ UNCHANGED <<life, row, audit, fs, ops>>

Begin(p) ==
    \E c \in CertIds :
        \/ \E m \in Modes, auto \in AutoRenewChoices : Create(p, c, m, auto)
        \/ \E force \in BOOLEAN : Renew(p, c, force)
        \/ Issue(p, c)
        \/ Revoke(p, c)
        \/ \E deleteFiles \in BOOLEAN : Delete(p, c, deleteFiles)
        \/ Update(p, c)

Step(p) ==
    \/ Get(p) \/ LoadOrStore(p) \/ TryLock(p) \/ Check(p)
    \/ SetBusy(p) \/ CreateJob(p) \/ MarkNoJob(p) \/ Engine(p)
    \/ Publish(p) \/ MoveAside(p) \/ Swap(p) \/ MarkDone(p)
    \/ RevokeCA(p) \/ SetRevoked(p)
    \/ FinishFailed(p) \/ MarkFailed(p) \/ AuditFailed(p)
    \/ FinishDone(p) \/ AuditDone(p) \/ UpdateSettings(p)
    \/ Backup(p) \/ DeleteRow(p) \/ RemoveFirst(p) \/ RemoveRest(p) \/ ForgetLock(p)

Next == (\E p \in Requests : Begin(p) \/ Step(p)) \/ Restart

Spec == Init /\ [][Next]_vars

\* A handler that was started runs on: every call it makes returns (statements
\* have the busy timeout, engines their command timeout).  Nothing obliges a
\* user to start another one, or the process to crash.
Fairness == \A p \in Requests : WF_vars(Step(p))
FairSpec == Spec /\ Fairness

-----------------------------------------------------------------------------
(* Correctness properties *)

Issues(k)   == k \in {"create", "issue", "renew", "force_renew"}

\* p is between a successful lock.TryLock() and the deferred lock.Unlock().
InLock(p)   == Locks(op[p].kind) /\ op[p].pc \notin LockFree

\* p owns the busy status of its certificate: a create from the INSERT on, the
\* others from SetCertificateStatus on, all of them until the final UPDATE.
OwnsBusy(p) == op[p].pc \in {"createJob", "markNoJob", "engine", "publish", "moveAside",
                             "swap", "markDone", "finishFailed", "markFailed"}
               /\ Issues(op[p].kind)

\* The state keeps its types (schema of migrations/00001_initial.sql).
TypeOK ==
    /\ life \in [CertIds -> {"unborn", "live", "deleted"}]
    /\ row \in [CertIds -> Row]
    /\ jobs \in [Runs -> Job]
    /\ audit \subseteq Event
    /\ disk \in [Dirs -> {Partial} \cup (0..MaxOps)]
    /\ backups \subseteq Runs
    /\ lockGen \in [CertIds -> Nat]
    /\ locked \subseteq CertIds \X Nat
    /\ ops \in 0..MaxOps
    /\ op \in [Requests -> Op]

\* At most one of Issue, Renew, Revoke and Delete is past TryLock on a
\* certificate that still has its row.  Delete drops the mutex from the map
\* while late handlers may still hold the old one or create a new one: that may
\* only let two of them in once the row is gone.
LockExclusive ==
    \A p, q \in Requests :
        InLock(p) /\ InLock(q) /\ op[p].cert = op[q].cert
            => p = q \/ life[op[p].cert] = "deleted"

\* No exit of a handler, whichever call failed, leaves the mutex locked: the
\* certificate would answer ErrOperationRunning until the next restart.
LockHeldByHandler ==
    \A m \in locked : \E p \in Requests : InLock(p) /\ MutexOf(p) = m

DirsDistinct == \A b, c \in CertIds : DirOf[b] = DirOf[c] => b = c

\* When no two certificates ever ask for the same directory, a certificate
\* listed as active has exactly the serial number of its row published,
\* whatever failed, crashed or was interrupted before.
ActiveMatchesDisk ==
    DirsDistinct =>
        \A c \in CertIds :
            Exists(c) /\ row[c].status = "active" => disk[DirOf[c]] = row[c].serial

\* A job recorded as failed has changed neither the published files nor the
\* certificate's row, and no backup holds what it produced.
FailedJobPublishedNothing ==
    \A r \in Runs : jobs[r].status = "failed" =>
        /\ \A d \in Dirs : disk[d] # r
        /\ \A c \in CertIds : row[c].serial # r
        /\ r \notin backups

\* README 17: deleting a certificate keeps its jobs and its audit events, and
\* a job that has ended keeps its result across restarts.
HistoryKept ==
    [][/\ \A r \in Runs : jobs[r] # NoJob =>
            /\ jobs'[r].type = jobs[r].type
            /\ jobs[r].status # "running" => jobs'[r].status = jobs[r].status
       /\ \A e \in audit : \E f \in audit' : f.type = e.type /\ f.result = e.result]_vars

\* Update takes no mutex and runs beside an issue or a renewal of the same
\* certificate: neither undoes what the other wrote, so that only Update changes
\* the settings and it changes nothing else.
SettingsKept ==
    [][\A c \in CertIds : Exists(c) =>
         LET updates == \E p \in Requests : op[p].pc = "updateSettings" /\ op[p].cert = c
                                               /\ op'[p].pc = "auditDone"
         IN IF updates THEN row'[c] = [row[c] EXCEPT !.autoRenew = row'[c].autoRenew]
                       ELSE row'[c].autoRenew = row[c].autoRenew]_vars

\* A certificate that no handler is issuing and that was issued before has the
\* files of its row published: a failed renewal keeps the previous files.  Needs
\* a database that does not fail and a restore that succeeds.
SettledMatchesDisk ==
    DirsDistinct =>
        \A c \in CertIds :
            Exists(c) /\ row[c].status \notin Busy /\ row[c].serial # 0
                => disk[DirOf[c]] = row[c].serial

\* A job is only listed as running while its handler runs, also after a
\* restart; a database failure may break this until the next restart.
RunningJobHasOwner ==
    \A r \in Runs : jobs[r].status = "running" =>
        \E p \in Requests : op[p].pc # "idle" /\ op[p].run = r

\* A handler that has made its certificate issuing or renewing does not return,
\* on any path, before the status is final or the row is gone: no operation but
\* Delete accepts a certificate that is left busy.  Needs a database that does
\* not fail; a crash leaves the status as it is.
BusySettled ==
    [][Restart \/ \A p \in Requests :
         LET c == op[p].cert
         IN OwnsBusy(p) /\ ~OwnsBusy(p)' => ~(life'[c] = "live" /\ row'[c].status \in Busy)]_vars

\* Every job ends.
JobsEnd == \A r \in Runs : (jobs[r].status = "running") ~> (jobs[r].status # "running")

-----------------------------------------------------------------------------
(* The life of a certificate, without calls, jobs, files and mutexes *)

\* A run issues a certificate while it owns the busy status of its row.
issuing == [c \in CertIds |->
              {op[p].run : p \in {q \in Requests : OwnsBusy(q) /\ op[q].cert = c /\ Exists(c)}}]

Lifecycle == INSTANCE CertificateLifecycle WITH Lossy <- May("db")

\* The service implements CertificateLifecycle: however its calls interleave and
\* fail, no row changes in any other way.
ImplementsLifecycle == Lifecycle!Spec

-----------------------------------------------------------------------------
(* What the documents promise and the code does not keep *)

\* README 7: issuing again is refused for a revoked certificate.  The status
\* is read before TryLock and not again after it.
RevokedNotReissued ==
    [][\A c \in CertIds : Exists(c) /\ row[c].status = "revoked"
                                => row'[c].status # "issuing"]_vars

\* README 17: files are deleted only after they were copied to the backups.
\* Create takes no mutex, so it may publish between Delete's Backup and Remove.
BackupBeforeRemove ==
    [][\A d \in Dirs : disk[d] \in Runs /\ disk'[d] = Partial => disk[d] \in backups]_vars
=============================================================================
