---------------------- MODULE CertificateServiceProofs ----------------------
(***************************************************************************)
(* Proofs about CertificateService, for any sets of certificates, request  *)
(* slots and directories, any number of handler executions and any faults. *)
(*                                                                         *)
(* This module has what a step does to the handlers' local state, one      *)
(* lemma per action, type correctness, and the mutexes: they exclude each  *)
(* other on every certificate that still has its row, and no handler leaks *)
(* one.  CertificateRecordProofs builds on it.                             *)
(***************************************************************************)
EXTENDS CertificateService, TLAPS

-----------------------------------------------------------------------------
(* The control invariant *)

\* Which handlers wait at which calls.
KindOK(o) ==
    /\ o.pc = "get" => o.kind = "issue"
    /\ o.pc \in {"load", "tryLock"} => Locks(o.kind)
    /\ o.pc \in {"check", "setBusy"} => o.kind \in {"issue", "renew", "force_renew"}
    /\ o.pc \in {"createJob", "finishFailed"} => Issues(o.kind) \/ o.kind = "revoke"
    /\ o.pc \in {"markNoJob", "engine", "publish", "moveAside", "swap", "markDone",
                 "markFailed"}
         => Issues(o.kind)
    /\ o.pc \in {"revokeCA", "setRevoked"} => o.kind = "revoke"
    /\ o.pc = "updateSettings" => o.kind = "update"
    /\ o.pc \in {"backup", "deleteRow", "removeFirst", "removeRest", "forgetLock"}
         => o.kind = "delete"
    /\ o.pc = "idle" => o.kind = "none" /\ o.cert = NoCert
    /\ o.pc # "idle" => o.kind \in Kinds /\ o.cert \in CertIds

KindInv == \A p \in Requests : KindOK(op[p])

-----------------------------------------------------------------------------
(* What a step does to the handlers *)

\* p moves on to a call of S and keeps the rest of its local state, except that
\* it may have moved the directory of its certificate aside.
Moved(p, S) ==
    /\ op' \in [Requests -> Op]
    /\ op'[p].pc \in S
    /\ op'[p].kind = op[p].kind /\ op'[p].cert = op[p].cert
    /\ op'[p].run = op[p].run /\ op'[p].gen = op[p].gen /\ op'[p].seen = op[p].seen
    /\ op'[p].stash \in {op[p].stash, disk[DirOfOp(p)]}
    /\ \A q \in Requests \ {p} : op'[q] = op[q]

\* p returns.
Ended(p) ==
    /\ op' \in [Requests -> Op]
    /\ op'[p] = Idle
    /\ \A q \in Requests \ {p} : op'[q] = op[q]

\* A running handler has a certificate and an operation.
LEMMA HandlerCert ==
  ASSUME KindInv, NEW p \in Requests, op[p].pc # "idle"
  PROVE  op[p].cert \in CertIds /\ op[p].kind \in Kinds
  BY DEF KindInv, KindOK

\* Going on to the next call changes nothing else of any handler.
LEMMA GotoMoves ==
  ASSUME op \in [Requests -> Op], NEW p \in Requests, NEW l \in Labels, Goto(p, l)
  PROVE  Moved(p, {l})
  BY DEF Goto, Moved, Op

\* A handler that returns leaves a free slot and the others alone.
LEMMA ReturnEnds ==
  ASSUME op \in [Requests -> Op], NEW p \in Requests, Return(p)
  PROVE  Ended(p)
  BY ConstantsAssumption DEF Return, Ended, Op, Idle, Handler, Labels, LockFree, Kinds, Statuses, Absent

\* p starts handler k on certificate c with call l.
Started(p, l, k, c) ==
    /\ op' \in [Requests -> Op]
    /\ op'[p].pc = l /\ op'[p].kind = k /\ op'[p].cert = c
    /\ op'[p].gen = 0 /\ op'[p].seen = row[c].status
    /\ op'[p].run = ops + 1 /\ op'[p].stash = Absent
    /\ \A q \in Requests \ {p} : op'[q] = op[q]

\* A handler starts in a free slot within the bound on executions.
LEMMA StartStarts ==
  ASSUME TypeOK, NEW p \in Requests, NEW l \in Labels, NEW k \in Kinds, NEW c \in CertIds,
         NEW f \in BOOLEAN, Start(p, l, k, c, f)
  PROVE  Started(p, l, k, c) /\ ops' = ops + 1 /\ ops' \in 0..MaxOps
<1> DEFINE r == Handler(l, k, c, f, ops + 1, row[c].status)
<1>1. row[c].status \in Statuses /\ ops + 1 \in 0..MaxOps
  BY ConstantsAssumption DEF TypeOK, Row, Start
<1>2. /\ r \in Op
      /\ r.pc = l /\ r.kind = k /\ r.cert = c /\ r.gen = 0 /\ r.seen = row[c].status
      /\ r.run = ops + 1 /\ r.stash = Absent
  BY <1>1, ConstantsAssumption DEF Op, Handler, Absent
<1>3. op' = [op EXCEPT ![p] = r] /\ ops' = ops + 1
  BY DEF Start
<1> HIDE DEF r
<1> QED
  BY <1>1, <1>2, <1>3 DEF Started, TypeOK

\* TryLock locks a free mutex or returns ErrOperationRunning.
LEMMA TryLockMoves ==
  ASSUME TypeOK, NEW p \in Requests, TryLock(p)
  PROVE  /\ op[p].pc = "tryLock"
         /\ \/ MutexOf(p) \notin locked /\ locked' = locked \cup {MutexOf(p)} /\ Moved(p, {AfterLock(p)})
            \/ Ended(p) /\ UNCHANGED locked
  BY GotoMoves, ReturnEnds DEF TryLock, TypeOK, AfterLock, Moved, Labels, LockFree, Finish

\* A refused status unlocks and returns.
LEMMA CheckMoves ==
  ASSUME TypeOK, NEW p \in Requests, Check(p)
  PROVE  /\ op[p].pc = "check"
         /\ \/ Moved(p, {"setBusy"}) /\ UNCHANGED locked
            \/ Ended(p) /\ locked' = Unlock(p)
  BY GotoMoves, ReturnEnds DEF Check, TypeOK, Moved, Labels, LockFree, Finish

\* A failed SetCertificateStatus unlocks and returns.
LEMMA SetBusyMoves ==
  ASSUME TypeOK, NEW p \in Requests, SetBusy(p)
  PROVE  /\ op[p].pc = "setBusy"
         /\ \/ Moved(p, {"createJob"}) /\ UNCHANGED locked
            \/ Ended(p) /\ locked' = Unlock(p)
  BY GotoMoves, ReturnEnds DEF SetBusy, TypeOK, Moved, Labels, LockFree, Finish

\* Without a job, create and issue go on to MarkCertificateFailed, the others
\* return.
LEMMA CreateJobMoves ==
  ASSUME TypeOK, NEW p \in Requests, CreateJob(p)
  PROVE  /\ op[p].pc = "createJob"
         /\ \/ Moved(p, {IF op[p].kind = "revoke" THEN "revokeCA" ELSE "engine"}) /\ UNCHANGED locked
            \/ op[p].kind \in {"create", "issue"} /\ Moved(p, {"markNoJob"}) /\ UNCHANGED locked
            \/ Ended(p) /\ locked' = Unlock(p)
  BY GotoMoves, ReturnEnds DEF CreateJob, TypeOK, Moved, Labels, LockFree, Finish

\* After MarkCertificateFailed the handler without a job returns.
LEMMA MarkNoJobMoves ==
  ASSUME TypeOK, NEW p \in Requests, MarkNoJob(p)
  PROVE  /\ op[p].pc = "markNoJob"
         /\ Ended(p) /\ locked' = Unlock(p)
  BY ReturnEnds DEF MarkNoJob, TypeOK, Finish

\* The engine returns a certificate to publish, or an error.
LEMMA EngineMoves ==
  ASSUME TypeOK, NEW p \in Requests, Engine(p)
  PROVE  /\ op[p].pc = "engine"
         /\ Moved(p, {"publish", "finishFailed"})
<1> DEFINE r == [op[p] EXCEPT !.pc = "publish", !.issued = TRUE]
<1>1. ASSUME op' = [op EXCEPT ![p] = r] PROVE Moved(p, {"publish"})
  <2>0. op[p] \in Op /\ "publish" \in Labels
    BY DEF TypeOK, Labels
  <2>1. r \in Op /\ r.pc = "publish" /\ r.kind = op[p].kind /\ r.cert = op[p].cert
        /\ r.run = op[p].run /\ r.gen = op[p].gen /\ r.seen = op[p].seen
        /\ r.stash = op[p].stash
    BY <2>0 DEF Op
  <2> HIDE DEF r
  <2> QED
    BY <1>1, <2>1 DEF TypeOK, Moved
<1>2. ASSUME Goto(p, "finishFailed") PROVE Moved(p, {"finishFailed"})
  BY <1>2, GotoMoves DEF TypeOK, Labels
<1> QED
  BY <1>1, <1>2 DEF Engine, Moved

\* Staging and the backup end in a rename or in failRenewal.
LEMMA PublishMoves ==
  ASSUME TypeOK, NEW p \in Requests, Publish(p)
  PROVE  /\ op[p].pc = "publish"
         /\ Moved(p, {"moveAside", "swap", "finishFailed"})
  BY GotoMoves DEF Publish, TypeOK, Moved, Labels, LockFree

\* Renaming the old directory away succeeds, or ends in failRenewal.
LEMMA MoveAsideMoves ==
  ASSUME TypeOK, KindInv, NEW p \in Requests, MoveAside(p)
  PROVE  /\ op[p].pc = "moveAside"
         /\ Moved(p, {"swap", "finishFailed"})
<1> DEFINE old == disk[DirOfOp(p)]
           r == [op[p] EXCEPT !.pc = "swap", !.stash = old]
<1>1. DirOfOp(p) \in Dirs
  BY ConstantsAssumption, HandlerCert DEF MoveAside, DirOfOp
<1>2. old \in {Partial} \cup (0..MaxOps)
  BY <1>1 DEF TypeOK
<1>3. ASSUME op' = [op EXCEPT ![p] = r] PROVE Moved(p, {"swap"})
  <2>0. op[p] \in Op /\ "swap" \in Labels
    BY DEF TypeOK, Labels
  <2> HIDE DEF old
  <2>1. r \in Op /\ r.pc = "swap" /\ r.kind = op[p].kind /\ r.cert = op[p].cert
        /\ r.run = op[p].run /\ r.gen = op[p].gen /\ r.seen = op[p].seen
        /\ r.stash = old
    BY <1>2, <2>0 DEF Op
  <2> USE DEF old
  <2> HIDE DEF r
  <2> QED
    BY <1>3, <2>1 DEF TypeOK, Moved
<1>4. ASSUME Goto(p, "finishFailed") PROVE Moved(p, {"finishFailed"})
  BY <1>4, GotoMoves DEF TypeOK, Labels
<1> QED
  BY <1>3, <1>4 DEF MoveAside, Moved

\* Renaming the new directory into place succeeds, or ends in failRenewal.
LEMMA SwapMoves ==
  ASSUME TypeOK, NEW p \in Requests, Swap(p)
  PROVE  /\ op[p].pc = "swap"
         /\ Moved(p, {"markDone", "finishFailed"})
  BY GotoMoves DEF Swap, TypeOK, Moved, Labels, LockFree

\* MarkCertificateIssued or MarkCertificateRenewed; a failure returns.
LEMMA MarkDoneMoves ==
  ASSUME TypeOK, NEW p \in Requests, MarkDone(p)
  PROVE  /\ op[p].pc = "markDone"
         /\ \/ Moved(p, {"finishDone"}) /\ UNCHANGED locked
            \/ Ended(p) /\ locked' = Unlock(p)
  BY GotoMoves, ReturnEnds DEF MarkDone, TypeOK, Moved, Labels, LockFree, Finish

\* acme.sh revokes, or the handler goes on to its error path.
LEMMA RevokeCAMoves ==
  ASSUME TypeOK, NEW p \in Requests, RevokeCA(p)
  PROVE  /\ op[p].pc = "revokeCA"
         /\ Moved(p, {"setRevoked", "finishFailed"})
  BY GotoMoves DEF RevokeCA, TypeOK, Moved, Labels, LockFree

\* Writing the status revoked; a failure returns.
LEMMA SetRevokedMoves ==
  ASSUME TypeOK, NEW p \in Requests, SetRevoked(p)
  PROVE  /\ op[p].pc = "setRevoked"
         /\ \/ Moved(p, {"finishDone"}) /\ UNCHANGED locked
            \/ Ended(p) /\ locked' = Unlock(p)
  BY GotoMoves, ReturnEnds DEF SetRevoked, TypeOK, Moved, Labels, LockFree, Finish

\* A failed job is closed; only revoke leaves the status as it is.
LEMMA FinishFailedMoves ==
  ASSUME TypeOK, NEW p \in Requests, FinishFailed(p)
  PROVE  /\ op[p].pc = "finishFailed"
         /\ Moved(p, {IF op[p].kind = "revoke" THEN "auditFailed" ELSE "markFailed"})
  BY GotoMoves DEF FinishFailed, TypeOK, Moved, Labels, LockFree

\* MarkCertificateFailed, then the audit event, or the end of a create.
LEMMA MarkFailedMoves ==
  ASSUME TypeOK, NEW p \in Requests, MarkFailed(p)
  PROVE  /\ op[p].pc = "markFailed"
         /\ \/ Moved(p, {"auditFailed"}) /\ UNCHANGED locked
            \/ Ended(p) /\ locked' = Unlock(p)
  BY GotoMoves, ReturnEnds DEF MarkFailed, TypeOK, Moved, Labels, LockFree, Finish

\* The audit event of a failure is the last call.
LEMMA AuditFailedMoves ==
  ASSUME TypeOK, NEW p \in Requests, AuditFailed(p)
  PROVE  /\ op[p].pc = "auditFailed"
         /\ Ended(p) /\ locked' = Unlock(p)
  BY ReturnEnds DEF AuditFailed, TypeOK, Finish

\* A successful job is closed before its audit event.
LEMMA FinishDoneMoves ==
  ASSUME TypeOK, NEW p \in Requests, FinishDone(p)
  PROVE  /\ op[p].pc = "finishDone"
         /\ Moved(p, {"auditDone"})
  BY GotoMoves DEF FinishDone, TypeOK, Moved, Labels, LockFree

\* The audit event of a success is the last call.
LEMMA AuditDoneMoves ==
  ASSUME TypeOK, NEW p \in Requests, AuditDone(p)
  PROVE  /\ op[p].pc = "auditDone"
         /\ Ended(p) /\ locked' = Unlock(p)
  BY ReturnEnds DEF AuditDone, TypeOK, Finish

\* Update writes its audit event, or returns the error.
LEMMA UpdateSettingsMoves ==
  ASSUME TypeOK, NEW p \in Requests, UpdateSettings(p)
  PROVE  /\ op[p].pc = "updateSettings"
         /\ \/ Moved(p, {"auditDone"})
            \/ Ended(p)
  BY GotoMoves, ReturnEnds DEF UpdateSettings, TypeOK, Moved, Labels, LockFree, Finish

\* Only a complete backup lets Delete go on to the row.
LEMMA BackupMoves ==
  ASSUME TypeOK, NEW p \in Requests, Backup(p)
  PROVE  /\ op[p].pc = "backup"
         /\ Moved(p, {"deleteRow", "auditFailed"})
  BY GotoMoves DEF Backup, TypeOK, Moved, Labels, LockFree

\* The row is deleted in one transaction, or Delete returns.
LEMMA DeleteRowMoves ==
  ASSUME TypeOK, NEW p \in Requests, DeleteRow(p)
  PROVE  /\ op[p].pc = "deleteRow"
         /\ \/ Moved(p, {"removeFirst", "forgetLock"}) /\ UNCHANGED locked
            \/ Ended(p) /\ locked' = Unlock(p)
  BY GotoMoves, ReturnEnds DEF DeleteRow, TypeOK, Moved, Labels, LockFree, Finish

\* RemoveAll starts, finds nothing, or fails.
LEMMA RemoveFirstMoves ==
  ASSUME TypeOK, NEW p \in Requests, RemoveFirst(p)
  PROVE  /\ op[p].pc = "removeFirst"
         /\ \/ Moved(p, {"removeRest", "forgetLock"}) /\ UNCHANGED locked
            \/ Ended(p) /\ locked' = Unlock(p)
  BY GotoMoves, ReturnEnds DEF RemoveFirst, TypeOK, Moved, Labels, LockFree, Finish

\* RemoveAll ends, or fails.
LEMMA RemoveRestMoves ==
  ASSUME TypeOK, NEW p \in Requests, RemoveRest(p)
  PROVE  /\ op[p].pc = "removeRest"
         /\ \/ Moved(p, {"forgetLock"}) /\ UNCHANGED locked
            \/ Ended(p) /\ locked' = Unlock(p)
  BY GotoMoves, ReturnEnds DEF RemoveRest, TypeOK, Moved, Labels, LockFree, Finish

\* locks.Delete comes just before the deferred Unlock.
LEMMA ForgetLockMoves ==
  ASSUME TypeOK, NEW p \in Requests, ForgetLock(p)
  PROVE  /\ op[p].pc = "forgetLock"
         /\ Ended(p) /\ locked' = Unlock(p)
  BY ReturnEnds DEF ForgetLock, TypeOK, Finish

\* Get remembers the status it read, or returns not found.
LEMMA GetMoves ==
  ASSUME TypeOK, KindInv, NEW p \in Requests, Get(p)
  PROVE  \/ /\ op[p].pc = "get"
            /\ op' \in [Requests -> Op]
            /\ op'[p].pc = "load" /\ op'[p].kind = op[p].kind /\ op'[p].cert = op[p].cert
            /\ op'[p].gen = op[p].gen /\ op'[p].seen = row[op[p].cert].status
            /\ op'[p].run = op[p].run /\ op'[p].stash = op[p].stash
            /\ \A q \in Requests \ {p} : op'[q] = op[q]
         \/ Ended(p)
<1>1. PICK s \in Statuses : s = row[op[p].cert].status
  BY HandlerCert DEF TypeOK, Row, Get
<1> DEFINE r == [op[p] EXCEPT !.pc = "load", !.seen = s]
<1>2. /\ r \in Op
      /\ r.pc = "load" /\ r.kind = op[p].kind /\ r.cert = op[p].cert
      /\ r.gen = op[p].gen /\ r.seen = s
      /\ r.run = op[p].run /\ r.stash = op[p].stash
  <2>1. "load" \in Labels /\ op[p] \in Op
    BY DEF Labels, LockFree, TypeOK
  <2> QED
    BY <2>1 DEF Op
<1>3. op' = [op EXCEPT ![p] = r] \/ Return(p)
  BY <1>1 DEF Get
<1>4. op[p].pc = "get"
  BY DEF Get
<1> HIDE DEF r
<1> QED
  BY <1>1, <1>2, <1>3, <1>4, ReturnEnds DEF TypeOK

\* LoadOrStore remembers the mutex the map held at that moment.
LEMMA LoadMoves ==
  ASSUME TypeOK, KindInv, NEW p \in Requests, LoadOrStore(p)
  PROVE  /\ op[p].pc = "load"
         /\ op' \in [Requests -> Op]
         /\ op'[p].pc = "tryLock" /\ op'[p].kind = op[p].kind /\ op'[p].cert = op[p].cert
         /\ op'[p].gen = lockGen[op[p].cert] /\ op'[p].seen = op[p].seen
         /\ op'[p].run = op[p].run /\ op'[p].stash = op[p].stash
         /\ \A q \in Requests \ {p} : op'[q] = op[q]
<1>1. PICK g \in Nat : g = lockGen[op[p].cert]
  BY HandlerCert DEF TypeOK, LoadOrStore
<1> DEFINE r == [op[p] EXCEPT !.pc = "tryLock", !.gen = g]
<1>2. /\ r \in Op
      /\ r.pc = "tryLock" /\ r.kind = op[p].kind /\ r.cert = op[p].cert
      /\ r.gen = g /\ r.seen = op[p].seen
      /\ r.run = op[p].run /\ r.stash = op[p].stash
  <2>1. "tryLock" \in Labels /\ op[p] \in Op
    BY DEF Labels, LockFree, TypeOK
  <2> QED
    BY <2>1 DEF Op
<1>3. op' = [op EXCEPT ![p] = r] /\ op[p].pc = "load"
  BY <1>1 DEF LoadOrStore
<1> HIDE DEF r
<1> QED
  BY <1>1, <1>2, <1>3 DEF TypeOK

\* A create starts on a certificate of its own, without a mutex.
LEMMA CreateMoves ==
  ASSUME TypeOK, NEW p \in Requests, NEW c \in CertIds, NEW m \in Modes,
            NEW auto \in AutoRenewChoices, Create(p, c, m, auto)
  PROVE  /\ op' \in [Requests -> Op] /\ ops' = ops + 1 /\ ops' \in 0..MaxOps
         /\ op'[p].pc = "createJob" /\ op'[p].kind = "create" /\ op'[p].cert = c
         /\ op'[p].gen = 0 /\ op'[p].run = ops + 1 /\ op'[p].stash = Absent
         /\ \A q \in Requests \ {p} : op'[q] = op[q]
<1> DEFINE r == Handler("createJob", "create", c, FALSE, ops + 1, "issuing")
<1>1. ops + 1 \in 0..MaxOps
  BY ConstantsAssumption DEF TypeOK, Create
<1>2. /\ r \in Op /\ r.pc = "createJob" /\ r.kind = "create" /\ r.cert = c /\ r.gen = 0
      /\ r.run = ops + 1 /\ r.stash = Absent
  BY <1>1, ConstantsAssumption DEF Op, Handler, Absent, Labels, Kinds, Statuses
<1>3. op' = [op EXCEPT ![p] = r] /\ ops' = ops + 1
  BY DEF Create
<1> HIDE DEF r
<1> QED
  BY <1>1, <1>2, <1>3 DEF TypeOK

-----------------------------------------------------------------------------
(* Every step keeps the types *)

\* KindInv is preserved when it holds of the one handler that moved.
LEMMA KindStep ==
  ASSUME KindInv, NEW p \in Requests, KindOK(op'[p]), \A q \in Requests \ {p} : op'[q] = op[q]
  PROVE  KindInv'
  BY DEF KindInv, KindOK

\* A free slot satisfies the control invariant.
LEMMA IdleOK == KindOK(Idle)
  BY DEF KindOK, Idle, Handler, Locks, Issues

\* Writing a status keeps the type of the certificates table.
LEMMA SetStatusType ==
  ASSUME TypeOK, NEW c \in CertIds, NEW s \in Statuses
  PROVE  SetStatus(c, s) \in [CertIds -> Row]
  BY DEF TypeOK, SetStatus, UpdateRow, Row

\* FinishJob keeps the type of the job_runs table.
LEMMA FinishJobType ==
  ASSUME TypeOK, NEW p \in Requests, NEW s \in {"succeeded", "failed"}, FinishJob(p, s)
  PROVE  jobs' \in [Runs -> Job]
  BY DEF TypeOK, FinishJob, Job

\* CreateAuditEvent keeps the type of the audit_events table.
LEMMA AuditType ==
  ASSUME TypeOK, KindInv, NEW p \in Requests, op[p].pc # "idle",
         NEW s \in {"succeeded", "failed"}, CreateAuditEvent(p, s)
  PROVE  audit' \subseteq Event
<1>1. audit' = audit \/ audit' = audit \cup {[cert |-> op[p].cert, type |-> op[p].kind, result |-> s]}
  BY DEF CreateAuditEvent
<1>2. [cert |-> op[p].cert, type |-> op[p].kind, result |-> s] \in Event
  BY HandlerCert DEF Event
<1> QED
  BY <1>1, <1>2 DEF TypeOK

\* Unlocking keeps the type of the set of locked mutexes.
LEMMA UnlockType ==
  ASSUME TypeOK, NEW p \in Requests
  PROVE  Unlock(p) \subseteq CertIds \X Nat
  BY DEF TypeOK, Unlock

\* A free slot has the type of a handler.
LEMMA IdleType == Idle \in Op
  BY ConstantsAssumption DEF Op, Idle, Handler, Labels, LockFree, Kinds, Statuses, Absent

\* The empty database and the idle service satisfy the invariant.
LEMMA TypeInit == Init => TypeOK /\ KindInv
<1> SUFFICES ASSUME Init PROVE TypeOK /\ KindInv
  OBVIOUS
<1>1. row \in [CertIds -> Row] /\ jobs \in [Runs -> Job]
  BY ConstantsAssumption DEF Init, Row, Job, NoJob, Statuses, Modes
<1>2. op \in [Requests -> Op]
  BY IdleType DEF Init
<1>3. KindInv
  BY IdleOK DEF Init, KindInv
<1> QED
  BY <1>1, <1>2, <1>3, ConstantsAssumption DEF Init, TypeOK, Absent

\* Renew begins with LoadOrStore, after it has read the row.
LEMMA RenewStarts ==
  ASSUME TypeOK, NEW p \in Requests, NEW c \in CertIds, NEW force \in BOOLEAN, Renew(p, c, force)
  PROVE  Started(p, "load", IF force THEN "force_renew" ELSE "renew", c) /\ ops' \in 0..MaxOps
  BY StartStarts DEF Renew, Labels, LockFree, Kinds

\* Issue begins with the second Get.
LEMMA IssueStarts ==
  ASSUME TypeOK, NEW p \in Requests, NEW c \in CertIds, Issue(p, c)
  PROVE  Started(p, "get", "issue", c) /\ ops' \in 0..MaxOps
  BY StartStarts DEF Issue, Labels, LockFree, Kinds

\* Revoke begins with LoadOrStore, after it has read the row.
LEMMA RevokeStarts ==
  ASSUME TypeOK, NEW p \in Requests, NEW c \in CertIds, Revoke(p, c)
  PROVE  Started(p, "load", "revoke", c) /\ ops' \in 0..MaxOps
  BY StartStarts DEF Revoke, Labels, LockFree, Kinds

\* Delete begins with LoadOrStore, after it has read the row.
LEMMA DeleteStarts ==
  ASSUME TypeOK, NEW p \in Requests, NEW c \in CertIds, NEW deleteFiles \in BOOLEAN, Delete(p, c, deleteFiles)
  PROVE  Started(p, "load", "delete", c) /\ ops' \in 0..MaxOps
  BY StartStarts DEF Delete, Labels, LockFree, Kinds

\* Update begins with its UPDATE statement.
LEMMA UpdateStarts ==
  ASSUME TypeOK, NEW p \in Requests, NEW c \in CertIds, Update(p, c)
  PROVE  Started(p, "updateSettings", "update", c) /\ ops' \in 0..MaxOps
  BY StartStarts DEF Update, Labels, LockFree, Kinds

\* Every step keeps the types and the control invariant.
LEMMA TypeStep == TypeOK /\ KindInv /\ [Next]_vars => TypeOK' /\ KindInv'
<1> SUFFICES ASSUME TypeOK, KindInv, [Next]_vars PROVE TypeOK' /\ KindInv'
  OBVIOUS
<1> USE ConstantsAssumption
<1>1. ASSUME NEW p \in Requests, NEW c \in CertIds, NEW m \in Modes,
            NEW auto \in AutoRenewChoices, Create(p, c, m, auto)
      PROVE  TypeOK' /\ KindInv'
  <2>1. [status |-> "issuing", mode |-> m, serial |-> 0, autoRenew |-> auto] \in Row
    BY DEF Row, Statuses
  <2>2. row' \in [CertIds -> Row] /\ life' \in [CertIds -> {"unborn", "live", "deleted"}]
    BY <1>1, <2>1 DEF Create, TypeOK
  <2>3. TypeOK'
    BY <1>1, <2>2, CreateMoves DEF Create, TypeOK, fs, locks
  <2>4. KindInv'
    BY <1>1, CreateMoves, KindStep DEF KindOK, Issues, Kinds
  <2> QED
    BY <2>3, <2>4
<1>2. ASSUME NEW p \in Requests, NEW c \in CertIds, NEW force \in BOOLEAN, Renew(p, c, force)
      PROVE  TypeOK' /\ KindInv'
  <2>1. TypeOK'
    BY <1>2, RenewStarts DEF Renew, Started, TypeOK, db, fs, locks
  <2>2. KindInv'
    BY <1>2, RenewStarts, KindStep DEF Started, KindOK, Locks, Issues, Kinds
  <2> QED
    BY <2>1, <2>2
<1>3. ASSUME NEW p \in Requests, NEW c \in CertIds, Issue(p, c)
      PROVE  TypeOK' /\ KindInv'
  <2>1. TypeOK'
    BY <1>3, IssueStarts DEF Issue, Started, TypeOK, db, fs, locks
  <2>2. KindInv'
    BY <1>3, IssueStarts, KindStep DEF Started, KindOK, Locks, Issues, Kinds
  <2> QED
    BY <2>1, <2>2
<1>4. ASSUME NEW p \in Requests, NEW c \in CertIds, Revoke(p, c)
      PROVE  TypeOK' /\ KindInv'
  <2>1. TypeOK'
    BY <1>4, RevokeStarts DEF Revoke, Started, TypeOK, db, fs, locks
  <2>2. KindInv'
    BY <1>4, RevokeStarts, KindStep DEF Started, KindOK, Locks, Issues, Kinds
  <2> QED
    BY <2>1, <2>2
<1>5. ASSUME NEW p \in Requests, NEW c \in CertIds, NEW deleteFiles \in BOOLEAN, Delete(p, c, deleteFiles)
      PROVE  TypeOK' /\ KindInv'
  <2>1. TypeOK'
    BY <1>5, DeleteStarts DEF Delete, Started, TypeOK, db, fs, locks
  <2>2. KindInv'
    BY <1>5, DeleteStarts, KindStep DEF Started, KindOK, Locks, Issues, Kinds
  <2> QED
    BY <2>1, <2>2
<1>6. ASSUME NEW p \in Requests, NEW c \in CertIds, Update(p, c)
      PROVE  TypeOK' /\ KindInv'
  <2>1. TypeOK'
    BY <1>6, UpdateStarts DEF Update, Started, TypeOK, db, fs, locks
  <2>2. KindInv'
    BY <1>6, UpdateStarts, KindStep DEF Started, KindOK, Locks, Issues, Kinds
  <2> QED
    BY <2>1, <2>2
<1>7. ASSUME NEW p \in Requests, Get(p) PROVE TypeOK' /\ KindInv'
  <2>1. TypeOK'
    BY <1>7, GetMoves DEF Get, Ended, TypeOK, db, fs, locks
  <2>2. KindInv'
    BY <1>7, GetMoves, KindStep, IdleOK DEF KindInv, KindOK, Ended, Locks, Issues
  <2> QED
    BY <2>1, <2>2
<1>8. ASSUME NEW p \in Requests, LoadOrStore(p) PROVE TypeOK' /\ KindInv'
  <2>1. TypeOK'
    BY <1>8, LoadMoves DEF LoadOrStore, TypeOK, db, fs, locks
  <2>2. KindInv'
    BY <1>8, LoadMoves, KindStep DEF KindInv, KindOK, Locks, Issues
  <2> QED
    BY <2>1, <2>2
<1>9. ASSUME NEW p \in Requests, TryLock(p) PROVE TypeOK' /\ KindInv'
  <2>1. MutexOf(p) \in CertIds \X Nat
    BY <1>9, HandlerCert DEF TryLock, MutexOf, TypeOK, Op
  <2>2. locked' \subseteq CertIds \X Nat
    BY <1>9, <2>1 DEF TryLock, TypeOK
  <2>3. TypeOK'
    BY <1>9, TryLockMoves, <2>2 DEF TryLock, Moved, Ended, TypeOK, db, fs, locks
  <2>4. KindInv'
    BY <1>9, TryLockMoves, KindStep, IdleOK DEF KindInv, KindOK, Moved, Ended, AfterLock, Locks, Issues
  <2> QED
    BY <2>3, <2>4
<1>10. ASSUME NEW p \in Requests, Check(p) PROVE TypeOK' /\ KindInv'
  <2>1. locked' \subseteq CertIds \X Nat
    BY <1>10, UnlockType DEF Check, Finish, TypeOK
  <2>2. TypeOK'
    BY <1>10, CheckMoves, <2>1 DEF Check, Moved, Ended, TypeOK, db, fs, locks
  <2>3. KindInv'
    BY <1>10, CheckMoves, KindStep, IdleOK DEF KindInv, KindOK, Moved, Ended, Locks, Issues
  <2> QED
    BY <2>2, <2>3
<1>11. ASSUME NEW p \in Requests, SetBusy(p) PROVE TypeOK' /\ KindInv'
  <2>1. op[p].cert \in CertIds
    BY <1>11, HandlerCert DEF SetBusy
  <2>2. row' = row \/ row' = SetStatus(op[p].cert, IF op[p].kind = "issue" THEN "issuing" ELSE "renewing")
    BY <1>11 DEF SetBusy
  <2>3. row' \in [CertIds -> Row]
    BY <1>11, <2>1, <2>2, SetStatusType DEF Statuses, TypeOK
  <2>4. locked' \subseteq CertIds \X Nat
    BY <1>11, UnlockType DEF SetBusy, Finish, TypeOK
  <2>5. TypeOK'
    BY <1>11, SetBusyMoves, <2>2, <2>3, <2>4 DEF SetBusy, Moved, Ended, TypeOK, db, fs, locks
  <2>6. KindInv'
    BY <1>11, SetBusyMoves, KindStep, IdleOK DEF KindInv, KindOK, Moved, Ended, Locks, Issues
  <2> QED
    BY <2>5, <2>6
<1>12. ASSUME NEW p \in Requests, CreateJob(p) PROVE TypeOK' /\ KindInv'
  <2>1. jobs' = jobs \/ jobs' = [jobs EXCEPT ![op[p].run] =
              [status |-> "running", type |-> op[p].kind, cert |-> op[p].cert]]
    BY <1>12 DEF CreateJob
  <2>2. [status |-> "running", type |-> op[p].kind, cert |-> op[p].cert] \in Job
    BY <1>12, HandlerCert DEF CreateJob, Job
  <2>3. jobs' \in [Runs -> Job]
    BY <1>12, <2>1, <2>2 DEF TypeOK
  <2>4. locked' \subseteq CertIds \X Nat
    BY <1>12, UnlockType DEF CreateJob, Finish, TypeOK
  <2>5. TypeOK'
    BY <1>12, CreateJobMoves, <2>1, <2>3, <2>4 DEF CreateJob, Moved, Ended, TypeOK, db, fs, locks
  <2>6. KindInv'
    BY <1>12, CreateJobMoves, KindStep, IdleOK DEF KindInv, KindOK, Moved, Ended, Locks, Issues
  <2> QED
    BY <2>5, <2>6
<1>13. ASSUME NEW p \in Requests, MarkNoJob(p) PROVE TypeOK' /\ KindInv'
  <2>1. op[p].cert \in CertIds
    BY <1>13, HandlerCert DEF MarkNoJob
  <2>2. row' = row \/ row' = SetStatus(op[p].cert, "failed")
    BY <1>13 DEF MarkNoJob
  <2>3. row' \in [CertIds -> Row]
    BY <1>13, <2>1, <2>2, SetStatusType DEF Statuses, TypeOK
  <2>4. locked' \subseteq CertIds \X Nat
    BY <1>13, UnlockType DEF MarkNoJob, Finish, TypeOK
  <2>5. TypeOK'
    BY <1>13, MarkNoJobMoves, <2>2, <2>3, <2>4 DEF MarkNoJob, Ended, TypeOK, db, fs, locks
  <2>6. KindInv'
    BY <1>13, MarkNoJobMoves, KindStep, IdleOK DEF KindInv, KindOK, Ended, Locks, Issues
  <2> QED
    BY <2>5, <2>6
<1>14. ASSUME NEW p \in Requests, Engine(p) PROVE TypeOK' /\ KindInv'
  <2>1. TypeOK'
    BY <1>14, EngineMoves DEF Engine, Moved, TypeOK, db, fs, locks
  <2>2. KindInv'
    BY <1>14, EngineMoves, KindStep DEF KindInv, KindOK, Moved, Locks, Issues
  <2> QED
    BY <2>1, <2>2
<1>15. ASSUME NEW p \in Requests, Publish(p) PROVE TypeOK' /\ KindInv'
  <2>1. DirOfOp(p) \in Dirs
    BY <1>15, HandlerCert DEF Publish, DirOfOp
  <2>2. disk[DirOfOp(p)] \notin {Absent, Partial} => disk[DirOfOp(p)] \in Runs
    BY <1>15, <2>1 DEF TypeOK, Absent, Partial, Runs
  <2>3. backups' \subseteq Runs
    BY <1>15, <2>2 DEF Publish, TypeOK
  <2>4. TypeOK'
    BY <1>15, PublishMoves, <2>3 DEF Publish, Moved, TypeOK, db, locks
  <2>5. KindInv'
    BY <1>15, PublishMoves, KindStep DEF KindInv, KindOK, Moved, Locks, Issues
  <2> QED
    BY <2>4, <2>5
<1>16. ASSUME NEW p \in Requests, Swap(p) PROVE TypeOK' /\ KindInv'
  <2>1. DirOfOp(p) \in Dirs
    BY <1>16, HandlerCert DEF Swap, DirOfOp
  <2>2. op[p].run \in 0..MaxOps /\ op[p].stash \in {Partial} \cup (0..MaxOps)
    BY <1>16 DEF TypeOK, Op
  <2>3. disk' \in [Dirs -> {Partial} \cup (0..MaxOps)]
    BY <1>16, <2>1, <2>2 DEF Swap, TypeOK, Absent, Partial
  <2>4. TypeOK'
    BY <1>16, SwapMoves, <2>3 DEF Swap, Moved, TypeOK, db, fs, locks
  <2>5. KindInv'
    BY <1>16, SwapMoves, KindStep DEF KindInv, KindOK, Moved, Locks, Issues
  <2> QED
    BY <2>4, <2>5
<1>17. ASSUME NEW p \in Requests, MarkDone(p) PROVE TypeOK' /\ KindInv'
  <2>1. op[p].run \in 0..MaxOps /\ op[p].cert \in CertIds
    BY <1>17, HandlerCert DEF MarkDone, TypeOK, Op
  <2>2. [row[op[p].cert] EXCEPT !.status = "active", !.serial = op[p].run] \in Row
    <3>1. row[op[p].cert] \in Row
      BY <2>1 DEF TypeOK
    <3>2. \A r \in Row, k \in 0..MaxOps : [r EXCEPT !.status = "active", !.serial = k] \in Row
      BY DEF Row, Statuses
    <3> QED
      BY <2>1, <3>1, <3>2
  <2>3. row' \in [CertIds -> Row]
    BY <1>17, <2>1, <2>2 DEF MarkDone, TypeOK, UpdateRow
  <2>4. locked' \subseteq CertIds \X Nat
    BY <1>17, UnlockType DEF MarkDone, Finish, TypeOK
  <2>5. TypeOK'
    BY <1>17, MarkDoneMoves, <2>3, <2>4 DEF MarkDone, Moved, Ended, TypeOK, db, fs, locks
  <2>6. KindInv'
    BY <1>17, MarkDoneMoves, KindStep, IdleOK DEF KindInv, KindOK, Moved, Ended, Locks, Issues
  <2> QED
    BY <2>5, <2>6
<1>18. ASSUME NEW p \in Requests, RevokeCA(p) PROVE TypeOK' /\ KindInv'
  <2>1. TypeOK'
    BY <1>18, RevokeCAMoves DEF RevokeCA, Moved, TypeOK, db, fs, locks
  <2>2. KindInv'
    BY <1>18, RevokeCAMoves, KindStep DEF KindInv, KindOK, Moved, Locks, Issues
  <2> QED
    BY <2>1, <2>2
<1>19. ASSUME NEW p \in Requests, SetRevoked(p) PROVE TypeOK' /\ KindInv'
  <2>1. op[p].cert \in CertIds
    BY <1>19, HandlerCert DEF SetRevoked
  <2>2. row' = row \/ row' = SetStatus(op[p].cert, "revoked")
    BY <1>19 DEF SetRevoked
  <2>3. row' \in [CertIds -> Row]
    BY <1>19, <2>1, <2>2, SetStatusType DEF Statuses, TypeOK
  <2>4. locked' \subseteq CertIds \X Nat
    BY <1>19, UnlockType DEF SetRevoked, Finish, TypeOK
  <2>5. TypeOK'
    BY <1>19, SetRevokedMoves, <2>2, <2>3, <2>4 DEF SetRevoked, Moved, Ended, TypeOK, db, fs, locks
  <2>6. KindInv'
    BY <1>19, SetRevokedMoves, KindStep, IdleOK DEF KindInv, KindOK, Moved, Ended, Locks, Issues
  <2> QED
    BY <2>5, <2>6
<1>20. ASSUME NEW p \in Requests, FinishFailed(p) PROVE TypeOK' /\ KindInv'
  <2>1. jobs' \in [Runs -> Job]
    BY <1>20, FinishJobType DEF FinishFailed
  <2>2. TypeOK'
    BY <1>20, FinishFailedMoves, <2>1 DEF FinishFailed, Moved, TypeOK, db, fs, locks
  <2>3. KindInv'
    BY <1>20, FinishFailedMoves, KindStep DEF KindInv, KindOK, Moved, Locks, Issues
  <2> QED
    BY <2>2, <2>3
<1>21. ASSUME NEW p \in Requests, MarkFailed(p) PROVE TypeOK' /\ KindInv'
  <2>1. op[p].cert \in CertIds
    BY <1>21, HandlerCert DEF MarkFailed
  <2>2. row' = row \/ row' = SetStatus(op[p].cert, "failed")
    BY <1>21 DEF MarkFailed
  <2>3. row' \in [CertIds -> Row]
    BY <1>21, <2>1, <2>2, SetStatusType DEF Statuses, TypeOK
  <2>4. locked' \subseteq CertIds \X Nat
    BY <1>21, UnlockType DEF MarkFailed, Finish, TypeOK
  <2>5. TypeOK'
    BY <1>21, MarkFailedMoves, <2>2, <2>3, <2>4 DEF MarkFailed, Moved, Ended, TypeOK, db, fs, locks
  <2>6. KindInv'
    BY <1>21, MarkFailedMoves, KindStep, IdleOK DEF KindInv, KindOK, Moved, Ended, Locks, Issues
  <2> QED
    BY <2>5, <2>6
<1>22. ASSUME NEW p \in Requests, AuditFailed(p) PROVE TypeOK' /\ KindInv'
  <2>1. audit' \subseteq Event
    BY <1>22, AuditType DEF AuditFailed
  <2>2. locked' \subseteq CertIds \X Nat
    BY <1>22, UnlockType DEF AuditFailed, Finish, TypeOK
  <2>3. TypeOK'
    BY <1>22, AuditFailedMoves, <2>1, <2>2 DEF AuditFailed, Ended, TypeOK, db, fs, locks
  <2>4. KindInv'
    BY <1>22, AuditFailedMoves, KindStep, IdleOK DEF KindInv, KindOK, Ended, Locks, Issues
  <2> QED
    BY <2>3, <2>4
<1>23. ASSUME NEW p \in Requests, FinishDone(p) PROVE TypeOK' /\ KindInv'
  <2>1. jobs' \in [Runs -> Job]
    BY <1>23, FinishJobType DEF FinishDone
  <2>2. TypeOK'
    BY <1>23, FinishDoneMoves, <2>1 DEF FinishDone, Moved, TypeOK, db, fs, locks
  <2>3. KindInv'
    BY <1>23, FinishDoneMoves, KindStep DEF KindInv, KindOK, Moved, Locks, Issues
  <2> QED
    BY <2>2, <2>3
<1>24. ASSUME NEW p \in Requests, AuditDone(p) PROVE TypeOK' /\ KindInv'
  <2>1. audit' \subseteq Event
    BY <1>24, AuditType DEF AuditDone
  <2>2. locked' \subseteq CertIds \X Nat
    BY <1>24, UnlockType DEF AuditDone, Finish, TypeOK
  <2>3. TypeOK'
    BY <1>24, AuditDoneMoves, <2>1, <2>2 DEF AuditDone, Ended, TypeOK, db, fs, locks
  <2>4. KindInv'
    BY <1>24, AuditDoneMoves, KindStep, IdleOK DEF KindInv, KindOK, Ended, Locks, Issues
  <2> QED
    BY <2>3, <2>4
<1>25. ASSUME NEW p \in Requests, UpdateSettings(p) PROVE TypeOK' /\ KindInv'
  <2>1. op[p].cert \in CertIds
    BY <1>25, HandlerCert DEF UpdateSettings
  <2>2. \A r \in Row, auto \in BOOLEAN : [r EXCEPT !.autoRenew = auto] \in Row
    BY <1>25 DEF Row
  <2>3. row' = row \/ \E r \in Row : row' = [row EXCEPT ![op[p].cert] = r]
    BY <1>25, <2>1, <2>2 DEF UpdateSettings, TypeOK
  <2>4. row' \in [CertIds -> Row]
    BY <1>25, <2>1, <2>2, <2>3 DEF TypeOK
  <2>5. TypeOK'
    BY <1>25, UpdateSettingsMoves, <2>3, <2>4 DEF UpdateSettings, Moved, Ended, TypeOK, db, fs, locks
  <2>6. KindInv'
    BY <1>25, UpdateSettingsMoves, KindStep, IdleOK DEF KindInv, KindOK, Moved, Ended, Locks, Issues
  <2> QED
    BY <2>5, <2>6
<1>26. ASSUME NEW p \in Requests, Backup(p) PROVE TypeOK' /\ KindInv'
  <2>1. DirOfOp(p) \in Dirs
    BY <1>26, HandlerCert DEF Backup, DirOfOp
  <2>2. disk[DirOfOp(p)] /= Partial => {disk[DirOfOp(p)]} \ {Absent} \subseteq Runs
    BY <1>26, <2>1 DEF TypeOK, Absent, Partial, Runs
  <2>3. backups' \subseteq Runs
    BY <1>26, <2>1, <2>2 DEF Backup, TypeOK
  <2>4. TypeOK'
    BY <1>26, BackupMoves, <2>3 DEF Backup, Moved, TypeOK, db, fs, locks
  <2>5. KindInv'
    BY <1>26, BackupMoves, KindStep DEF KindInv, KindOK, Moved, Locks, Issues
  <2> QED
    BY <2>4, <2>5
<1>27. ASSUME NEW p \in Requests, DeleteRow(p) PROVE TypeOK' /\ KindInv'
  <2>1. life' \in [CertIds -> {"unborn", "live", "deleted"}]
    BY <1>27 DEF DeleteRow, TypeOK
  <2>2. \A j \in Job : [j EXCEPT !.cert = NoCert] \in Job
    BY <1>27 DEF Job
  <2>3. jobs' \in [Runs -> Job]
    BY <1>27, <2>2 DEF DeleteRow, TypeOK
  <2>4. audit' \subseteq Event
    BY <1>27 DEF DeleteRow, TypeOK, Event, Kinds
  <2>5. locked' \subseteq CertIds \X Nat
    BY <1>27, UnlockType DEF DeleteRow, Finish, TypeOK
  <2>6. TypeOK'
    BY <1>27, DeleteRowMoves, <2>1, <2>3, <2>4, <2>5 DEF DeleteRow, Moved, Ended, TypeOK, db, fs, locks
  <2>7. KindInv'
    BY <1>27, DeleteRowMoves, KindStep, IdleOK DEF KindInv, KindOK, Moved, Ended, Locks, Issues
  <2> QED
    BY <2>6, <2>7
<1>28. ASSUME NEW p \in Requests, RemoveFirst(p) PROVE TypeOK' /\ KindInv'
  <2>1. disk' \in [Dirs -> {Partial} \cup (0..MaxOps)]
    BY <1>28 DEF RemoveFirst, TypeOK
  <2>2. locked' \subseteq CertIds \X Nat
    BY <1>28, UnlockType DEF RemoveFirst, Finish, TypeOK
  <2>3. TypeOK'
    BY <1>28, RemoveFirstMoves, <2>1, <2>2 DEF RemoveFirst, Moved, Ended, TypeOK, db, fs, locks
  <2>4. KindInv'
    BY <1>28, RemoveFirstMoves, KindStep, IdleOK DEF KindInv, KindOK, Moved, Ended, Locks, Issues
  <2> QED
    BY <2>3, <2>4
<1>29. ASSUME NEW p \in Requests, RemoveRest(p) PROVE TypeOK' /\ KindInv'
  <2>1. disk' \in [Dirs -> {Partial} \cup (0..MaxOps)]
    BY <1>29 DEF RemoveRest, TypeOK, Absent
  <2>2. locked' \subseteq CertIds \X Nat
    BY <1>29, UnlockType DEF RemoveRest, Finish, TypeOK
  <2>3. TypeOK'
    BY <1>29, RemoveRestMoves, <2>1, <2>2 DEF RemoveRest, Moved, Ended, TypeOK, db, fs, locks
  <2>4. KindInv'
    BY <1>29, RemoveRestMoves, KindStep, IdleOK DEF KindInv, KindOK, Moved, Ended, Locks, Issues
  <2> QED
    BY <2>3, <2>4
<1>30. ASSUME NEW p \in Requests, ForgetLock(p) PROVE TypeOK' /\ KindInv'
  <2>1. op[p].cert \in CertIds
    BY <1>30, HandlerCert DEF ForgetLock
  <2>2. lockGen' \in [CertIds -> Nat]
    BY <1>30, <2>1 DEF ForgetLock, TypeOK
  <2>3. locked' \subseteq CertIds \X Nat
    BY <1>30, UnlockType DEF ForgetLock, Finish, TypeOK
  <2>4. TypeOK'
    BY <1>30, ForgetLockMoves, <2>2, <2>3 DEF ForgetLock, Ended, TypeOK, db, fs, locks
  <2>5. KindInv'
    BY <1>30, ForgetLockMoves, KindStep, IdleOK DEF KindInv, KindOK, Ended, Locks, Issues
  <2> QED
    BY <2>4, <2>5
<1>31. CASE Restart
  <2>1. op' \in [Requests -> Op] /\ KindInv'
    BY <1>31, IdleType, IdleOK DEF Restart, KindInv
  <2>2. jobs' \in [Runs -> Job]
    BY <1>31 DEF Restart, TypeOK, Job
  <2> QED
    BY <1>31, <2>1, <2>2 DEF Restart, TypeOK, fs
<1>32. CASE UNCHANGED vars
  BY <1>32 DEF vars, TypeOK, KindInv
<1>33. ASSUME NEW p \in Requests, MoveAside(p) PROVE TypeOK' /\ KindInv'
  <2>1. DirOfOp(p) \in Dirs
    BY <1>33, HandlerCert DEF MoveAside, DirOfOp
  <2>2. disk' \in [Dirs -> {Partial} \cup (0..MaxOps)]
    BY <1>33, <2>1 DEF MoveAside, TypeOK, Absent, Partial
  <2>3. TypeOK'
    BY <1>33, MoveAsideMoves, <2>2 DEF MoveAside, Moved, TypeOK, db, locks
  <2>4. KindInv'
    BY <1>33, MoveAsideMoves, KindStep DEF KindInv, KindOK, Moved, Locks, Issues
  <2> QED
    BY <2>3, <2>4
<1> QED
  BY <1>1, <1>2, <1>3, <1>4, <1>5, <1>6, <1>7, <1>8, <1>9, <1>10, <1>11, <1>12,
     <1>13, <1>14, <1>15, <1>16, <1>17, <1>18, <1>19, <1>20, <1>21, <1>22, <1>23, <1>24,
     <1>25, <1>26, <1>27, <1>28, <1>29, <1>30, <1>31, <1>32, <1>33
     DEF Next, Begin, Step

-----------------------------------------------------------------------------
(* The types *)

\* Type correctness: every handler of service.go, on every path through it,
\* keeps the schema of the tables and waits only at calls of its own kind.
THEOREM TypeCorrect == Spec => [](TypeOK /\ KindInv)
<1>1. Init => TypeOK /\ KindInv
  BY TypeInit
<1>2. TypeOK /\ KindInv /\ [Next]_vars => (TypeOK /\ KindInv)'
  BY TypeStep
<1> QED
  BY <1>1, <1>2, PTL DEF Spec

-----------------------------------------------------------------------------
(* The invariant of the mutexes *)

\* Who is past TryLock holds the mutex it loaded.
HoldsMutex == \A p \in Requests : InLock(p) => MutexOf(p) \in locked

\* Nobody else is past TryLock on the same mutex.
HoldsAlone ==
    \A p, q \in Requests : InLock(p) /\ InLock(q) /\ MutexOf(p) = MutexOf(q) => p = q

\* A handler never has a mutex newer than the one in the map, and the map only
\* gets a new one after the row was deleted: the second mutex that breaks
\* exclusion cannot exist before that.
NewMutexOnlyAfterDelete ==
    /\ \A p \in Requests : op[p].cert \in CertIds => op[p].gen <= lockGen[op[p].cert]
    /\ \A c \in CertIds : lockGen[c] # 0 => life[c] = "deleted"
    /\ \A p \in Requests : op[p].pc \in {"removeFirst", "removeRest", "forgetLock"}
                             => life[op[p].cert] = "deleted"

LockInv == HoldsMutex /\ HoldsAlone /\ LockHeldByHandler /\ NewMutexOnlyAfterDelete

\* The mutexes p has locked.
Held(p) == IF InLock(p) THEN {MutexOf(p)} ELSE {}

-----------------------------------------------------------------------------
(* Kinds of steps *)

\* A step inside or outside the lock that leaves the mutexes alone.
LEMMA LockMove ==
  ASSUME TypeOK, KindInv, LockInv, NEW p \in Requests, NEW S, Moved(p, S),
         op[p].pc \in LockFree <=> op'[p].pc \in LockFree,
         op'[p].pc \in {"removeFirst", "removeRest", "forgetLock"}
           => life'[op[p].cert] = "deleted",
         \A c \in CertIds : life[c] = "deleted" => life'[c] = "deleted",
         UNCHANGED locks
  PROVE  LockInv'
<1>1. /\ InLock(p)' <=> InLock(p)
      /\ MutexOf(p)' = MutexOf(p)
      /\ op'[p].cert = op[p].cert /\ op'[p].gen = op[p].gen
  BY DEF Moved, InLock, MutexOf
<1>2. \A q \in Requests \ {p} : op'[q] = op[q]
  BY DEF Moved
<1>3. HoldsMutex'
  BY <1>1, <1>2 DEF LockInv, HoldsMutex, InLock, MutexOf, locks
<1>4. HoldsAlone'
  BY <1>1, <1>2 DEF LockInv, HoldsAlone, InLock, MutexOf
<1>5. LockHeldByHandler'
  BY <1>1, <1>2 DEF LockInv, LockHeldByHandler, InLock, MutexOf, locks
<1>6. NewMutexOnlyAfterDelete'
  BY <1>1, <1>2, HandlerCert DEF LockInv, NewMutexOnlyAfterDelete, locks, KindInv, KindOK
<1> QED
  BY <1>3, <1>4, <1>5, <1>6 DEF LockInv

\* A handler returns and unlocks what it holds.
LEMMA LockEnd ==
  ASSUME TypeOK, KindInv, LockInv, NEW p \in Requests, Ended(p),
         locked' = locked \ Held(p),
         \A c \in CertIds : lockGen'[c] = lockGen[c] \/ (lockGen'[c] = lockGen[c] + 1 /\ life[c] = "deleted"),
         UNCHANGED life
  PROVE  LockInv'
<1>1. ~InLock(p)' /\ op'[p].cert \notin CertIds /\ op'[p].pc = "idle"
  BY ConstantsAssumption DEF Ended, Idle, Handler, InLock, LockFree
<1>2. \A q \in Requests \ {p} : op'[q] = op[q]
  BY DEF Ended
<1>3. HoldsMutex'
  BY <1>1, <1>2 DEF LockInv, HoldsMutex, HoldsAlone, InLock, MutexOf, Held
<1>4. HoldsAlone'
  BY <1>1, <1>2 DEF LockInv, HoldsAlone, InLock, MutexOf
<1>5. LockHeldByHandler'
  BY <1>1, <1>2 DEF LockInv, LockHeldByHandler, InLock, MutexOf, Held
<1>6. NewMutexOnlyAfterDelete'
  <2>1. \A q \in Requests : op'[q].cert \in CertIds => op'[q].gen <= lockGen'[op'[q].cert]
    BY <1>1, <1>2 DEF LockInv, NewMutexOnlyAfterDelete, TypeOK, Op
  <2>2. \A q \in Requests : op'[q].pc \in {"removeFirst", "removeRest", "forgetLock"}
                             => life'[op'[q].cert] = "deleted"
    BY <1>1, <1>2 DEF LockInv, NewMutexOnlyAfterDelete
  <2> QED
    BY <2>1, <2>2 DEF LockInv, NewMutexOnlyAfterDelete
<1> QED
  BY <1>3, <1>4, <1>5, <1>6 DEF LockInv

\* A handler starts, or goes on, outside the lock.
LEMMA LockOutside ==
  ASSUME TypeOK, KindInv, LockInv, NEW p \in Requests, ~InLock(p), ~InLock(p)',
         op'[p].pc \notin {"removeFirst", "removeRest", "forgetLock"},
         op'[p].cert \in CertIds => op'[p].gen <= lockGen[op'[p].cert],
         \A q \in Requests \ {p} : op'[q] = op[q],
         \A c \in CertIds : life[c] = "deleted" => life'[c] = "deleted",
         UNCHANGED locks
  PROVE  LockInv'
<1>1. HoldsMutex'
  BY DEF LockInv, HoldsMutex, InLock, MutexOf, locks
<1>2. HoldsAlone'
  BY DEF LockInv, HoldsAlone, InLock, MutexOf
<1>3. LockHeldByHandler'
  BY DEF LockInv, LockHeldByHandler, InLock, MutexOf, locks
<1>4. NewMutexOnlyAfterDelete'
  BY HandlerCert DEF LockInv, NewMutexOnlyAfterDelete, locks, KindInv, KindOK
<1> QED
  BY <1>1, <1>2, <1>3, <1>4 DEF LockInv
\* A step of a handler past TryLock: it goes on, or returns and unlocks.
LEMMA LockInside ==
  ASSUME TypeOK, KindInv, LockInv, NEW p \in Requests, NEW S,
         op[p].pc \notin LockFree,
         S \cap LockFree = {},
         \/ S \cap {"removeFirst", "removeRest", "forgetLock"} = {}
         \/ op[p].pc \in {"removeFirst", "removeRest", "forgetLock"},
         \/ Moved(p, S) /\ UNCHANGED locked
         \/ Ended(p) /\ locked' = Unlock(p),
         UNCHANGED <<life, lockGen>>
  PROVE  LockInv'
<1>1. CASE Moved(p, S) /\ UNCHANGED locked
  <2>1. op'[p].pc \in S
    BY <1>1 DEF Moved
  <2>2. op'[p].pc \in {"removeFirst", "removeRest", "forgetLock"} => life'[op[p].cert] = "deleted"
    BY <2>1 DEF LockInv, NewMutexOnlyAfterDelete
  <2>3. op'[p].pc \notin LockFree
    BY <2>1
  <2> QED
    BY <1>1, <2>2, <2>3, LockMove DEF locks
<1>2. CASE Ended(p) /\ locked' = Unlock(p)
  <2>1. locked' = locked \ Held(p)
    BY <1>2 DEF Unlock, Held, InLock
  <2> QED
    BY <1>2, <2>1, LockEnd
<1> QED
  BY <1>1, <1>2

\* Every step of the service keeps the lock invariant.
LEMMA LockStep == TypeOK /\ KindInv /\ LockInv /\ [Next]_vars => LockInv'
<1> SUFFICES ASSUME TypeOK, KindInv, LockInv, [Next]_vars PROVE LockInv'
  OBVIOUS
<1> USE ConstantsAssumption
<1>1. ASSUME NEW p \in Requests, NEW c \in CertIds, NEW m \in Modes,
            NEW auto \in AutoRenewChoices, Create(p, c, m, auto) PROVE LockInv'
  <2>1. op[p].pc = "idle" /\ op'[p].pc = "createJob" /\ op'[p].kind = "create" /\ op'[p].gen = 0
    BY <1>1, CreateMoves DEF Create
  <2>2. ~InLock(p) /\ ~InLock(p)'
    BY <2>1 DEF InLock, LockFree, Locks
  <2>3. op'[p].gen <= lockGen[op'[p].cert] /\ \A q \in Requests \ {p} : op'[q] = op[q]
    BY <1>1, <2>1, CreateMoves DEF TypeOK
  <2>4. \A b \in CertIds : life[b] = "deleted" => life'[b] = "deleted"
    BY <1>1 DEF Create, TypeOK
  <2> QED
    BY <1>1, <2>1, <2>2, <2>3, <2>4, LockOutside DEF Create, locks
<1>2. ASSUME NEW p \in Requests, NEW c \in CertIds, NEW force \in BOOLEAN, Renew(p, c, force) PROVE LockInv'
  <2>1. op[p].pc = "idle" /\ op'[p].pc = "load" /\ op'[p].gen = 0 /\ op'[p].cert = c
    BY <1>2, RenewStarts DEF Renew, Start, Started
  <2>2. ~InLock(p) /\ ~InLock(p)'
    BY <2>1 DEF InLock, LockFree
  <2>3. lockGen[c] >= 0
    BY DEF TypeOK
  <2>4. \A q \in Requests \ {p} : op'[q] = op[q]
    BY <1>2, RenewStarts DEF Started
  <2> QED
    BY <1>2, <2>1, <2>2, <2>3, <2>4, LockOutside DEF Renew, db, locks
<1>3. ASSUME NEW p \in Requests, NEW c \in CertIds, Issue(p, c) PROVE LockInv'
  <2>1. op[p].pc = "idle" /\ op'[p].pc = "get" /\ op'[p].gen = 0 /\ op'[p].cert = c
    BY <1>3, IssueStarts DEF Issue, Start, Started
  <2>2. ~InLock(p) /\ ~InLock(p)'
    BY <2>1 DEF InLock, LockFree
  <2>3. lockGen[c] >= 0
    BY DEF TypeOK
  <2>4. \A q \in Requests \ {p} : op'[q] = op[q]
    BY <1>3, IssueStarts DEF Started
  <2> QED
    BY <1>3, <2>1, <2>2, <2>3, <2>4, LockOutside DEF Issue, db, locks
<1>4. ASSUME NEW p \in Requests, NEW c \in CertIds, Revoke(p, c) PROVE LockInv'
  <2>1. op[p].pc = "idle" /\ op'[p].pc = "load" /\ op'[p].gen = 0 /\ op'[p].cert = c
    BY <1>4, RevokeStarts DEF Revoke, Start, Started
  <2>2. ~InLock(p) /\ ~InLock(p)'
    BY <2>1 DEF InLock, LockFree
  <2>3. lockGen[c] >= 0
    BY DEF TypeOK
  <2>4. \A q \in Requests \ {p} : op'[q] = op[q]
    BY <1>4, RevokeStarts DEF Started
  <2> QED
    BY <1>4, <2>1, <2>2, <2>3, <2>4, LockOutside DEF Revoke, db, locks
<1>5. ASSUME NEW p \in Requests, NEW c \in CertIds, NEW deleteFiles \in BOOLEAN, Delete(p, c, deleteFiles) PROVE LockInv'
  <2>1. op[p].pc = "idle" /\ op'[p].pc = "load" /\ op'[p].gen = 0 /\ op'[p].cert = c
    BY <1>5, DeleteStarts DEF Delete, Start, Started
  <2>2. ~InLock(p) /\ ~InLock(p)'
    BY <2>1 DEF InLock, LockFree
  <2>3. lockGen[c] >= 0
    BY DEF TypeOK
  <2>4. \A q \in Requests \ {p} : op'[q] = op[q]
    BY <1>5, DeleteStarts DEF Started
  <2> QED
    BY <1>5, <2>1, <2>2, <2>3, <2>4, LockOutside DEF Delete, db, locks
<1>6. ASSUME NEW p \in Requests, NEW c \in CertIds, Update(p, c) PROVE LockInv'
  <2>1. op[p].pc = "idle" /\ op'[p].pc = "updateSettings" /\ op'[p].gen = 0 /\ op'[p].cert = c /\ op'[p].kind = "update"
    BY <1>6, UpdateStarts DEF Update, Start, Started
  <2>2. ~InLock(p) /\ ~InLock(p)'
    BY <2>1 DEF InLock, LockFree, Locks
  <2>3. lockGen[c] >= 0
    BY DEF TypeOK
  <2>4. \A q \in Requests \ {p} : op'[q] = op[q]
    BY <1>6, UpdateStarts DEF Started
  <2> QED
    BY <1>6, <2>1, <2>2, <2>3, <2>4, LockOutside DEF Update, db, locks
<1>7. ASSUME NEW p \in Requests, Get(p) PROVE LockInv'
  <2>1. CASE Ended(p)
    <3>1. locked' = locked \ Held(p)
      BY <1>7 DEF Get, locks, Held, InLock, LockFree
    <3> QED
      BY <1>7, <2>1, <3>1, LockEnd DEF Get, db, locks
  <2>2. CASE ~Ended(p)
    <3>1. op[p].pc = "get" /\ op'[p].pc = "load" /\ op'[p].cert = op[p].cert /\ op'[p].gen = op[p].gen
          /\ \A q \in Requests \ {p} : op'[q] = op[q]
      BY <1>7, <2>2, GetMoves
    <3>2. ~InLock(p) /\ ~InLock(p)'
      BY <3>1 DEF InLock, LockFree
    <3>3. op'[p].cert \in CertIds => op'[p].gen <= lockGen[op'[p].cert]
      BY <3>1 DEF LockInv, NewMutexOnlyAfterDelete
    <3> QED
      BY <1>7, <3>1, <3>2, <3>3, LockOutside DEF Get, db, locks
  <2> QED
    BY <2>1, <2>2
<1>8. ASSUME NEW p \in Requests, LoadOrStore(p) PROVE LockInv'
  <2>1. op[p].pc = "load" /\ op'[p].pc = "tryLock" /\ op'[p].cert = op[p].cert /\ op'[p].gen = lockGen[op[p].cert]
        /\ \A q \in Requests \ {p} : op'[q] = op[q]
    BY <1>8, LoadMoves
  <2>2. ~InLock(p) /\ ~InLock(p)'
    BY <2>1 DEF InLock, LockFree
  <2>3. op[p].cert \in CertIds => op'[p].gen <= lockGen[op'[p].cert]
    BY <2>1 DEF TypeOK
  <2> QED
    BY <1>8, <2>1, <2>2, <2>3, LockOutside DEF LoadOrStore, db, locks
<1>9. ASSUME NEW p \in Requests, TryLock(p) PROVE LockInv'
  <2>1. op[p].pc = "tryLock" /\ UNCHANGED <<life, lockGen>> /\ Locks(op[p].kind)
    BY <1>9 DEF TryLock, db, KindInv, KindOK
  <2>2. CASE Ended(p) /\ UNCHANGED locked
    <3>1. locked' = locked \ Held(p)
      BY <2>1, <2>2 DEF Held, InLock, LockFree
    <3> QED
      BY <2>1, <2>2, <3>1, LockEnd
  <2>3. CASE MutexOf(p) \notin locked /\ locked' = locked \cup {MutexOf(p)} /\ Moved(p, {AfterLock(p)})
    <3>1. \A q \in Requests \ {p} : op'[q] = op[q]
      BY <2>3 DEF Moved
    <3>2. ~InLock(p) /\ InLock(p)' /\ MutexOf(p)' = MutexOf(p)
      BY <2>1, <2>3 DEF Moved, InLock, MutexOf, LockFree, AfterLock
    <3>3. op'[p].pc \notin {"removeFirst", "removeRest", "forgetLock"} /\ op'[p].cert = op[p].cert /\ op'[p].gen = op[p].gen
      BY <2>3 DEF Moved, AfterLock
    <3>4. HoldsMutex'
      BY <2>3, <3>1, <3>2 DEF LockInv, HoldsMutex, InLock, MutexOf
    <3>5. HoldsAlone'
      BY <2>3, <3>1, <3>2 DEF LockInv, HoldsMutex, HoldsAlone, InLock, MutexOf
    <3>6. LockHeldByHandler'
      BY <2>3, <3>1, <3>2 DEF LockInv, LockHeldByHandler, InLock, MutexOf
    <3>7. NewMutexOnlyAfterDelete'
      BY <2>1, <3>1, <3>3 DEF LockInv, NewMutexOnlyAfterDelete
    <3> QED
      BY <3>4, <3>5, <3>6, <3>7 DEF LockInv
  <2> QED
    BY <1>9, <2>2, <2>3, TryLockMoves
<1>10. ASSUME NEW p \in Requests, Check(p) PROVE LockInv'
  <2>1. \/ Moved(p, {"setBusy"}) /\ UNCHANGED locked
        \/ Ended(p) /\ locked' = Unlock(p)
    BY <1>10, CheckMoves
  <2>2. op[p].pc = "check" /\ UNCHANGED <<life, lockGen>>
    BY <1>10 DEF Check, db, locks
  <2>3. op[p].pc \notin LockFree /\ {"setBusy"} \cap LockFree = {}
    BY <2>2 DEF LockFree
  <2> QED
    BY <2>1, <2>2, <2>3, LockInside
<1>11. ASSUME NEW p \in Requests, SetBusy(p) PROVE LockInv'
  <2>1. \/ Moved(p, {"createJob"}) /\ UNCHANGED locked
        \/ Ended(p) /\ locked' = Unlock(p)
    BY <1>11, SetBusyMoves
  <2>2. op[p].pc = "setBusy" /\ UNCHANGED <<life, lockGen>>
    BY <1>11 DEF SetBusy, db, locks
  <2>3. op[p].pc \notin LockFree /\ {"createJob"} \cap LockFree = {}
    BY <2>2 DEF LockFree
  <2> QED
    BY <2>1, <2>2, <2>3, LockInside
<1>12. ASSUME NEW p \in Requests, CreateJob(p) PROVE LockInv'
  <2>1. \/ Moved(p, {"revokeCA", "engine", "markNoJob"}) /\ UNCHANGED locked
        \/ Ended(p) /\ locked' = Unlock(p)
    BY <1>12, CreateJobMoves DEF Moved
  <2>2. op[p].pc = "createJob" /\ UNCHANGED <<life, lockGen>>
    BY <1>12 DEF CreateJob, db, locks
  <2>3. op[p].pc \notin LockFree /\ {"revokeCA", "engine", "markNoJob"} \cap LockFree = {}
    BY <2>2 DEF LockFree
  <2> QED
    BY <2>1, <2>2, <2>3, LockInside
<1>13. ASSUME NEW p \in Requests, MarkNoJob(p) PROVE LockInv'
  <2>1. Ended(p) /\ locked' = Unlock(p)
    BY <1>13, MarkNoJobMoves
  <2>2. op[p].pc = "markNoJob" /\ UNCHANGED <<life, lockGen>>
    BY <1>13 DEF MarkNoJob, db, locks
  <2>3. op[p].pc \notin LockFree /\ {} \cap LockFree = {}
    BY <2>2 DEF LockFree
  <2> QED
    BY <2>1, <2>2, <2>3, LockInside
<1>14. ASSUME NEW p \in Requests, Engine(p) PROVE LockInv'
  <2>1. Moved(p, {"publish", "finishFailed"}) /\ UNCHANGED locked
    BY <1>14, EngineMoves DEF Engine, locks
  <2>2. op[p].pc = "engine" /\ UNCHANGED <<life, lockGen>>
    BY <1>14 DEF Engine, db, locks
  <2>3. op[p].pc \notin LockFree /\ {"publish", "finishFailed"} \cap LockFree = {}
    BY <2>2 DEF LockFree
  <2> QED
    BY <2>1, <2>2, <2>3, LockInside
<1>15. ASSUME NEW p \in Requests, Publish(p) PROVE LockInv'
  <2>1. Moved(p, {"moveAside", "swap", "finishFailed"}) /\ UNCHANGED locked
    BY <1>15, PublishMoves DEF Publish, locks
  <2>2. op[p].pc = "publish" /\ UNCHANGED <<life, lockGen>>
    BY <1>15 DEF Publish, db, locks
  <2>3. op[p].pc \notin LockFree /\ {"moveAside", "swap", "finishFailed"} \cap LockFree = {}
    BY <2>2 DEF LockFree
  <2> QED
    BY <2>1, <2>2, <2>3, LockInside
<1>16. ASSUME NEW p \in Requests, Swap(p) PROVE LockInv'
  <2>1. Moved(p, {"markDone", "finishFailed"}) /\ UNCHANGED locked
    BY <1>16, SwapMoves DEF Swap, locks
  <2>2. op[p].pc = "swap" /\ UNCHANGED <<life, lockGen>>
    BY <1>16 DEF Swap, db, locks
  <2>3. op[p].pc \notin LockFree /\ {"markDone", "finishFailed"} \cap LockFree = {}
    BY <2>2 DEF LockFree
  <2> QED
    BY <2>1, <2>2, <2>3, LockInside
<1>17. ASSUME NEW p \in Requests, MarkDone(p) PROVE LockInv'
  <2>1. \/ Moved(p, {"finishDone"}) /\ UNCHANGED locked
        \/ Ended(p) /\ locked' = Unlock(p)
    BY <1>17, MarkDoneMoves
  <2>2. op[p].pc = "markDone" /\ UNCHANGED <<life, lockGen>>
    BY <1>17 DEF MarkDone, db, locks
  <2>3. op[p].pc \notin LockFree /\ {"finishDone"} \cap LockFree = {}
    BY <2>2 DEF LockFree
  <2> QED
    BY <2>1, <2>2, <2>3, LockInside
<1>18. ASSUME NEW p \in Requests, RevokeCA(p) PROVE LockInv'
  <2>1. Moved(p, {"setRevoked", "finishFailed"}) /\ UNCHANGED locked
    BY <1>18, RevokeCAMoves DEF RevokeCA, locks
  <2>2. op[p].pc = "revokeCA" /\ UNCHANGED <<life, lockGen>>
    BY <1>18 DEF RevokeCA, db, locks
  <2>3. op[p].pc \notin LockFree /\ {"setRevoked", "finishFailed"} \cap LockFree = {}
    BY <2>2 DEF LockFree
  <2> QED
    BY <2>1, <2>2, <2>3, LockInside
<1>19. ASSUME NEW p \in Requests, SetRevoked(p) PROVE LockInv'
  <2>1. \/ Moved(p, {"finishDone"}) /\ UNCHANGED locked
        \/ Ended(p) /\ locked' = Unlock(p)
    BY <1>19, SetRevokedMoves
  <2>2. op[p].pc = "setRevoked" /\ UNCHANGED <<life, lockGen>>
    BY <1>19 DEF SetRevoked, db, locks
  <2>3. op[p].pc \notin LockFree /\ {"finishDone"} \cap LockFree = {}
    BY <2>2 DEF LockFree
  <2> QED
    BY <2>1, <2>2, <2>3, LockInside
<1>20. ASSUME NEW p \in Requests, FinishFailed(p) PROVE LockInv'
  <2>1. Moved(p, {"auditFailed", "markFailed"}) /\ UNCHANGED locked
    BY <1>20, FinishFailedMoves DEF FinishFailed, locks, Moved
  <2>2. op[p].pc = "finishFailed" /\ UNCHANGED <<life, lockGen>>
    BY <1>20 DEF FinishFailed, db, locks
  <2>3. op[p].pc \notin LockFree /\ {"auditFailed", "markFailed"} \cap LockFree = {}
    BY <2>2 DEF LockFree
  <2> QED
    BY <2>1, <2>2, <2>3, LockInside
<1>21. ASSUME NEW p \in Requests, MarkFailed(p) PROVE LockInv'
  <2>1. \/ Moved(p, {"auditFailed"}) /\ UNCHANGED locked
        \/ Ended(p) /\ locked' = Unlock(p)
    BY <1>21, MarkFailedMoves
  <2>2. op[p].pc = "markFailed" /\ UNCHANGED <<life, lockGen>>
    BY <1>21 DEF MarkFailed, db, locks
  <2>3. op[p].pc \notin LockFree /\ {"auditFailed"} \cap LockFree = {}
    BY <2>2 DEF LockFree
  <2> QED
    BY <2>1, <2>2, <2>3, LockInside
<1>22. ASSUME NEW p \in Requests, AuditFailed(p) PROVE LockInv'
  <2>1. Ended(p) /\ locked' = Unlock(p)
    BY <1>22, AuditFailedMoves
  <2>2. op[p].pc = "auditFailed" /\ UNCHANGED <<life, lockGen>>
    BY <1>22 DEF AuditFailed, db, locks
  <2>3. op[p].pc \notin LockFree /\ {} \cap LockFree = {}
    BY <2>2 DEF LockFree
  <2> QED
    BY <2>1, <2>2, <2>3, LockInside
<1>23. ASSUME NEW p \in Requests, FinishDone(p) PROVE LockInv'
  <2>1. Moved(p, {"auditDone"}) /\ UNCHANGED locked
    BY <1>23, FinishDoneMoves DEF FinishDone, locks
  <2>2. op[p].pc = "finishDone" /\ UNCHANGED <<life, lockGen>>
    BY <1>23 DEF FinishDone, db, locks
  <2>3. op[p].pc \notin LockFree /\ {"auditDone"} \cap LockFree = {}
    BY <2>2 DEF LockFree
  <2> QED
    BY <2>1, <2>2, <2>3, LockInside
<1>24. ASSUME NEW p \in Requests, AuditDone(p) PROVE LockInv'
  <2>1. Ended(p) /\ locked' = Unlock(p)
    BY <1>24, AuditDoneMoves
  <2>2. op[p].pc = "auditDone" /\ UNCHANGED <<life, lockGen>>
    BY <1>24 DEF AuditDone, db, locks
  <2>3. op[p].pc \notin LockFree /\ {} \cap LockFree = {}
    BY <2>2 DEF LockFree
  <2> QED
    BY <2>1, <2>2, <2>3, LockInside
<1>25. ASSUME NEW p \in Requests, Backup(p) PROVE LockInv'
  <2>1. Moved(p, {"deleteRow", "auditFailed"}) /\ UNCHANGED locked
    BY <1>25, BackupMoves DEF Backup, locks
  <2>2. op[p].pc = "backup" /\ UNCHANGED <<life, lockGen>>
    BY <1>25 DEF Backup, db, locks
  <2>3. op[p].pc \notin LockFree /\ {"deleteRow", "auditFailed"} \cap LockFree = {}
    BY <2>2 DEF LockFree
  <2> QED
    BY <2>1, <2>2, <2>3, LockInside
<1>26. ASSUME NEW p \in Requests, RemoveFirst(p) PROVE LockInv'
  <2>1. \/ Moved(p, {"removeRest", "forgetLock"}) /\ UNCHANGED locked
        \/ Ended(p) /\ locked' = Unlock(p)
    BY <1>26, RemoveFirstMoves
  <2>2. op[p].pc = "removeFirst" /\ UNCHANGED <<life, lockGen>>
    BY <1>26 DEF RemoveFirst, db, locks
  <2>3. op[p].pc \notin LockFree /\ {"removeRest", "forgetLock"} \cap LockFree = {}
    BY <2>2 DEF LockFree
  <2> QED
    BY <2>1, <2>2, <2>3, LockInside
<1>27. ASSUME NEW p \in Requests, RemoveRest(p) PROVE LockInv'
  <2>1. \/ Moved(p, {"forgetLock"}) /\ UNCHANGED locked
        \/ Ended(p) /\ locked' = Unlock(p)
    BY <1>27, RemoveRestMoves
  <2>2. op[p].pc = "removeRest" /\ UNCHANGED <<life, lockGen>>
    BY <1>27 DEF RemoveRest, db, locks
  <2>3. op[p].pc \notin LockFree /\ {"forgetLock"} \cap LockFree = {}
    BY <2>2 DEF LockFree
  <2> QED
    BY <2>1, <2>2, <2>3, LockInside
<1>28. ASSUME NEW p \in Requests, UpdateSettings(p) PROVE LockInv'
  <2>1. op[p].pc = "updateSettings" /\ op[p].kind = "update" /\ UNCHANGED <<life, lockGen, locked>>
    BY <1>28 DEF UpdateSettings, locks, KindInv, KindOK
  <2>2. Unlock(p) = locked
    BY <2>1 DEF Unlock, Locks
  <2>3. \/ Moved(p, {"auditDone"}) /\ UNCHANGED locked
        \/ Ended(p) /\ locked' = Unlock(p)
    BY <1>28, <2>1, <2>2, UpdateSettingsMoves
  <2>4. op[p].pc \notin LockFree /\ {"auditDone"} \cap LockFree = {}
    BY <2>1 DEF LockFree
  <2> QED
    BY <2>1, <2>3, <2>4, LockInside
<1>29. ASSUME NEW p \in Requests, DeleteRow(p) PROVE LockInv'
  <2>1. op[p].pc = "deleteRow" /\ op[p].cert \in CertIds /\ UNCHANGED lockGen
    BY <1>29, HandlerCert DEF DeleteRow
  <2>2. CASE Moved(p, {"removeFirst", "forgetLock"}) /\ UNCHANGED locked
    <3>1. op'[p].pc \in {"removeFirst", "forgetLock"}
      BY <2>2 DEF Moved
    <3>2. op'[p] /= Idle
      BY <3>1 DEF Idle, Handler
    <3>3. life' = [life EXCEPT ![op[p].cert] = "deleted"]
      BY <1>29, <3>2 DEF DeleteRow, Finish, Return, TypeOK
    <3>4. life'[op[p].cert] = "deleted" /\ \A c \in CertIds : life[c] = "deleted" => life'[c] = "deleted"
      BY <2>1, <3>3 DEF TypeOK
    <3> QED
      BY <2>1, <2>2, <3>1, <3>4, LockMove DEF locks, LockFree
  <2>3. CASE Ended(p) /\ locked' = Unlock(p)
    <3>1. op'[p].pc = "idle"
      BY <2>3 DEF Ended, Idle, Handler
    <3>2. UNCHANGED life
      BY <1>29, <3>1 DEF DeleteRow, Goto, TypeOK, Op
    <3>3. locked' = locked \ Held(p)
      BY <2>1, <2>3 DEF Unlock, Held, InLock, LockFree
    <3> QED
      BY <2>1, <2>3, <3>2, <3>3, LockEnd
  <2> QED
    BY <1>29, <2>2, <2>3, DeleteRowMoves
<1>30. ASSUME NEW p \in Requests, ForgetLock(p) PROVE LockInv'
  <2>1. op[p].pc = "forgetLock" /\ op[p].cert \in CertIds /\ UNCHANGED life
    BY <1>30, HandlerCert DEF ForgetLock, db
  <2>2. life[op[p].cert] = "deleted"
    BY <2>1 DEF LockInv, NewMutexOnlyAfterDelete
  <2>3. \A c \in CertIds : lockGen'[c] = lockGen[c] \/ (lockGen'[c] = lockGen[c] + 1 /\ life[c] = "deleted")
    BY <1>30, <2>1, <2>2 DEF ForgetLock, TypeOK
  <2>4. Ended(p) /\ locked' = locked \ Held(p)
    BY <1>30, <2>1, ForgetLockMoves DEF Unlock, Held, InLock, LockFree
  <2> QED
    BY <2>1, <2>3, <2>4, LockEnd
<1>31. CASE Restart
  <2>1. \A p \in Requests : op'[p].pc = "idle" /\ op'[p].cert = NoCert
    BY <1>31 DEF Restart, Idle, Handler
  <2>2. \A p \in Requests : ~InLock(p)'
    BY <2>1 DEF InLock, LockFree
  <2>3. locked' = {} /\ \A c \in CertIds : lockGen'[c] = 0
    BY <1>31 DEF Restart
  <2>4. HoldsMutex' /\ HoldsAlone'
    BY <2>2 DEF HoldsMutex, HoldsAlone
  <2>5. LockHeldByHandler' /\ NewMutexOnlyAfterDelete'
    BY <2>1, <2>3 DEF LockHeldByHandler, NewMutexOnlyAfterDelete
  <2> QED
    BY <2>4, <2>5 DEF LockInv
<1>32. CASE UNCHANGED vars
  BY <1>32 DEF vars, LockInv, HoldsMutex, HoldsAlone, LockHeldByHandler, NewMutexOnlyAfterDelete, InLock, MutexOf
<1>33. ASSUME NEW p \in Requests, MoveAside(p) PROVE LockInv'
  <2>1. Moved(p, {"swap", "finishFailed"}) /\ UNCHANGED locked
    BY <1>33, MoveAsideMoves DEF MoveAside, locks
  <2>2. op[p].pc = "moveAside" /\ UNCHANGED <<life, lockGen>>
    BY <1>33 DEF MoveAside, db, locks
  <2>3. op[p].pc \notin LockFree /\ {"swap", "finishFailed"} \cap LockFree = {}
    BY <2>2 DEF LockFree
  <2> QED
    BY <2>1, <2>2, <2>3, LockInside
<1> QED
  BY <1>1, <1>2, <1>3, <1>4, <1>5, <1>6, <1>7, <1>8, <1>9, <1>10, <1>11, <1>12,
     <1>13, <1>14, <1>15, <1>16, <1>17, <1>18, <1>19, <1>20, <1>21, <1>22, <1>23, <1>24,
     <1>25, <1>26, <1>27, <1>28, <1>29, <1>30, <1>31, <1>32, <1>33
     DEF Next, Begin, Step

\* No mutex is locked and no handler runs when the service starts.
LEMMA LockInit == Init => LockInv
<1> SUFFICES ASSUME Init PROVE LockInv
  OBVIOUS
<1>1. \A p \in Requests : op[p].pc = "idle" /\ op[p].cert = NoCert
  BY DEF Init, Idle, Handler
<1>2. \A p \in Requests : ~InLock(p)
  BY <1>1 DEF InLock, LockFree
<1> QED
  BY <1>1, <1>2, ConstantsAssumption
  DEF Init, LockInv, HoldsMutex, HoldsAlone, LockHeldByHandler, NewMutexOnlyAfterDelete

\* Two handlers past TryLock on the same certificate have different mutexes, so
\* one of them has a mutex stored after the row was deleted.
LEMMA LockInvImplies == TypeOK /\ KindInv /\ LockInv => LockExclusive
<1> SUFFICES ASSUME TypeOK, KindInv, LockInv, NEW p \in Requests, NEW q \in Requests,
                    InLock(p), InLock(q), op[p].cert = op[q].cert, p # q
             PROVE  life[op[p].cert] = "deleted"
  BY DEF LockExclusive
<1>1. op[p].cert \in CertIds /\ op[p].gen \in Nat /\ op[q].gen \in Nat /\ lockGen[op[p].cert] \in Nat
  BY HandlerCert DEF TypeOK, Op, InLock, LockFree
<1>2. op[p].gen # op[q].gen
  BY DEF LockInv, HoldsAlone, MutexOf
<1>3. op[p].gen <= lockGen[op[p].cert] /\ op[q].gen <= lockGen[op[p].cert]
  BY <1>1 DEF LockInv, NewMutexOnlyAfterDelete
<1>4. lockGen[op[p].cert] # 0
  BY <1>1, <1>2, <1>3
<1> QED
  BY <1>1, <1>4 DEF LockInv, NewMutexOnlyAfterDelete

-----------------------------------------------------------------------------
(* The mutexes of Service.locks *)

\* Issue, Renew, Revoke and Delete are kept apart on every certificate that has
\* its row, whatever fails and however often the process restarts, although
\* Delete takes the mutex out of the map while others may wait for it.
THEOREM LocksCorrect == Spec => [](LockExclusive /\ LockHeldByHandler)
<1> DEFINE Inv == TypeOK /\ KindInv /\ LockInv
<1>1. Init => Inv
  BY TypeInit, LockInit
<1>2. Inv /\ [Next]_vars => Inv'
  BY TypeStep, LockStep
<1>3. Inv => LockExclusive /\ LockHeldByHandler
  BY LockInvImplies DEF LockInv
<1> QED
  BY <1>1, <1>2, <1>3, PTL DEF Spec

\* No exit of a handler leaves a mutex locked: every early return and every
\* error path of service.go runs the deferred Unlock.
THEOREM MutexReleased == Spec => []LockHeldByHandler
  BY LocksCorrect, PTL
=============================================================================
