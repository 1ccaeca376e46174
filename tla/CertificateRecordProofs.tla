----------------------- MODULE CertificateRecordProofs ------------------------
(***************************************************************************)
(* The records tell the truth.  The table job_runs: a failed job has left  *)
(* nothing behind, the result of a job is final, and without database      *)
(* failures a running job has a handler and a busy certificate is settled  *)
(* before its handler returns.  The table certificates: a certificate      *)
(* listed as active, and one that nobody is issuing, has the certificate   *)
(* of its row on disk, and the rows implement CertificateLifecycle.        *)
(***************************************************************************)
EXTENDS CertificateServiceProofs

-----------------------------------------------------------------------------
(* The job invariant *)

\* The calls before CreateJob has succeeded, those between CreateJob and the
\* call that finishes the job, and those after the files were published.
BeforeJob == {"get", "load", "tryLock", "check", "setBusy", "createJob", "markNoJob"}
InJob     == {"engine", "publish", "moveAside", "swap", "markDone", "revokeCA", "setRevoked",
              "finishFailed", "finishDone"}
Published == {"markDone", "finishDone", "auditDone"}

\* Something on disk, in the database or moved aside carries serial number r.
Trace(r) ==
    \/ \E d \in Dirs : disk[d] = r
    \/ \E c \in CertIds : row[c].serial = r
    \/ r \in backups
    \/ \E p \in Requests : op[p].stash = r

\* Every running handler has a run number of its own, handed out before.
RunsHandedOut == \A p \in Requests : op[p].pc # "idle" => op[p].run \in 1..ops
RunsDistinct ==
    \A p, q \in Requests :
        op[p].pc # "idle" /\ op[q].pc # "idle" /\ op[p].run = op[q].run => p = q

\* A run number that was not handed out is nowhere.
RunsFresh == \A r \in Runs : r > ops => jobs[r] = NoJob /\ ~Trace(r)

\* The job of a handler is there from CreateJob to FinishJob.
JobOfHandler ==
    \A p \in Requests :
        /\ op[p].pc \in BeforeJob => jobs[op[p].run] = NoJob
        /\ op[p].pc \in InJob => jobs[op[p].run].status = "running"

\* What a handler has issued appears nowhere before it is renamed into place.
UnpublishedNowhere ==
    \A p \in Requests : op[p].pc \notin Published \cup {"idle"} => ~Trace(op[p].run)

FailedNowhere == \A r \in Runs : jobs[r].status = "failed" => ~Trace(r)

JobInv == /\ RunsHandedOut /\ RunsDistinct /\ RunsFresh
          /\ JobOfHandler /\ UnpublishedNowhere /\ FailedNowhere

\* Without database failures a running job has a handler that will finish it.
RunningOwned ==
    \A r \in Runs : jobs[r].status = "running" =>
        \E p \in Requests : op[p].pc \in InJob /\ op[p].run = r

-----------------------------------------------------------------------------
(* What a step does to the run numbers, the jobs and the traces *)

\* p starts with the next run number; nothing is issued or published.
Begun(p) ==
    /\ op[p].pc = "idle" /\ op'[p].pc \in {"createJob", "get", "load", "updateSettings"}
    /\ ops' = ops + 1 /\ ops' \in 0..MaxOps /\ op'[p].run = ops + 1 /\ op'[p].stash = Absent
    /\ \A q \in Requests \ {p} : op'[q] = op[q]
    /\ UNCHANGED <<jobs, disk, backups>>
    /\ \A c \in CertIds : row'[c].serial \in {row[c].serial, 0}

\* p returns, or goes on in the order: before the job, in it, published.
Advanced(p) ==
    /\ op[p].pc # "idle" /\ UNCHANGED ops
    /\ \A q \in Requests \ {p} : op'[q] = op[q]
    /\ \/ op'[p] = Idle
       \/ /\ op'[p].pc # "idle" /\ op'[p].run = op[p].run
          /\ op'[p].stash \in {op[p].stash, disk[DirOfOp(p)]}
          /\ op'[p].pc \in BeforeJob => op[p].pc \in BeforeJob
          /\ op'[p].pc \in InJob => op[p].pc \in InJob \cup {"createJob"}
          /\ op[p].pc \in Published => op'[p].pc \in Published

\* p creates its job, finishes it, unlinks jobs from a deleted certificate or
\* leaves the table alone.
JobsWritten(p) ==
    \/ /\ UNCHANGED jobs
       /\ op'[p].pc \in InJob => op[p].pc \in InJob \ {"finishFailed", "finishDone"}
    \/ /\ op[p].pc = "createJob" /\ op'[p].pc \in InJob
       /\ jobs' = [jobs EXCEPT ![op[p].run] =
                     [status |-> "running", type |-> op[p].kind, cert |-> op[p].cert]]
    \/ /\ op[p].pc = "finishFailed" /\ op'[p].pc \notin InJob
       /\ jobs' = [jobs EXCEPT ![op[p].run].status = "failed"]
    \/ /\ op[p].pc = "finishDone" /\ op'[p].pc \notin InJob
       /\ jobs' = [jobs EXCEPT ![op[p].run].status = "succeeded"]
    \/ /\ op[p].pc = "deleteRow" /\ op'[p].pc \notin InJob
       /\ \A r \in Runs : /\ jobs'[r].status = jobs[r].status /\ jobs'[r].type = jobs[r].type
                          /\ jobs[r] = NoJob => jobs'[r] = NoJob

\* Serial numbers are only copied around, except that p publishes its own when
\* it renames the staged directory and when it updates the row.
TracesLeft(p) ==
    /\ \A d \in Dirs : \/ disk'[d] \in {disk[d], Absent, Partial, op[p].stash}
                       \/ disk'[d] = op[p].run /\ op[p].pc = "swap" /\ op'[p].pc = "markDone"
    /\ \A c \in CertIds : \/ row'[c].serial = row[c].serial
                          \/ row'[c].serial = op[p].run /\ op[p].pc = "markDone"
                             /\ op'[p].pc = "finishDone"
    /\ backups' \subseteq backups \cup {disk[d] : d \in Dirs}

\* Every operation starts with a fresh run number.
LEMMA BeginBegins ==
  ASSUME TypeOK, NEW p \in Requests, Begin(p)
  PROVE  Begun(p)
<1>1. ASSUME NEW c \in CertIds, NEW m \in Modes, NEW auto \in AutoRenewChoices, Create(p, c, m, auto)
      PROVE  Begun(p)
  <2>1. \A b \in CertIds : row'[b].serial \in {row[b].serial, 0}
    BY <1>1 DEF Create, TypeOK
  <2>2. op[p].pc = "idle" /\ UNCHANGED <<jobs, disk, backups>>
    BY <1>1 DEF Create, fs
  <2> QED
    BY <1>1, <2>1, <2>2, CreateMoves DEF Begun
<1>2. ASSUME NEW c \in CertIds, NEW k \in Kinds, NEW l \in {"get", "load", "updateSettings"},
             NEW f \in BOOLEAN, Start(p, l, k, c, f), UNCHANGED <<db, fs, locks>>
      PROVE  Begun(p)
  <2>1. l \in Labels
    BY DEF Labels, LockFree
  <2> QED
    BY <1>2, <2>1, StartStarts DEF Started, Start, Begun, db, fs
<1>3. ASSUME NEW c \in CertIds, NEW force \in BOOLEAN, Renew(p, c, force) PROVE Begun(p)
  BY <1>2, <1>3 DEF Renew, Kinds
<1>4. ASSUME NEW c \in CertIds, Issue(p, c) PROVE Begun(p)
  BY <1>2, <1>4 DEF Issue, Kinds
<1>5. ASSUME NEW c \in CertIds, Revoke(p, c) PROVE Begun(p)
  BY <1>2, <1>5 DEF Revoke, Kinds
<1>6. ASSUME NEW c \in CertIds, NEW f \in BOOLEAN, Delete(p, c, f) PROVE Begun(p)
  BY <1>2, <1>6 DEF Delete, Kinds
<1>7. ASSUME NEW c \in CertIds, Update(p, c) PROVE Begun(p)
  BY <1>2, <1>7 DEF Update, Kinds
<1> QED
  BY <1>1, <1>3, <1>4, <1>5, <1>6, <1>7 DEF Begin

\* Every call of a handler moves it on in the order of its program.
LEMMA StepAdvances ==
  ASSUME TypeOK, KindInv, NEW p \in Requests, Step(p)
  PROVE  Advanced(p)
<1>1. CASE Get(p)
  BY <1>1, GetMoves DEF Get, Moved, Ended, Advanced, BeforeJob, InJob, Published
<1>2. CASE LoadOrStore(p)
  BY <1>2, LoadMoves DEF LoadOrStore, Moved, Ended, Advanced, BeforeJob, InJob, Published
<1>3. CASE TryLock(p)
  BY <1>3, TryLockMoves DEF TryLock, AfterLock, Moved, Ended, Advanced, BeforeJob, InJob, Published
<1>4. CASE Check(p)
  BY <1>4, CheckMoves DEF Check, Moved, Ended, Advanced, BeforeJob, InJob, Published
<1>5. CASE SetBusy(p)
  BY <1>5, SetBusyMoves DEF SetBusy, Moved, Ended, Advanced, BeforeJob, InJob, Published
<1>6. CASE CreateJob(p)
  BY <1>6, CreateJobMoves DEF CreateJob, Moved, Ended, Advanced, BeforeJob, InJob, Published
<1>7. CASE MarkNoJob(p)
  BY <1>7, MarkNoJobMoves DEF MarkNoJob, Moved, Ended, Advanced, BeforeJob, InJob, Published
<1>8. CASE Engine(p)
  BY <1>8, EngineMoves DEF Engine, Moved, Ended, Advanced, BeforeJob, InJob, Published
<1>9. CASE Publish(p)
  BY <1>9, PublishMoves DEF Publish, Moved, Ended, Advanced, BeforeJob, InJob, Published
<1>10. CASE MoveAside(p)
  BY <1>10, MoveAsideMoves DEF MoveAside, Moved, Ended, Advanced, BeforeJob, InJob, Published
<1>11. CASE Swap(p)
  BY <1>11, SwapMoves DEF Swap, Moved, Ended, Advanced, BeforeJob, InJob, Published
<1>12. CASE MarkDone(p)
  BY <1>12, MarkDoneMoves DEF MarkDone, Moved, Ended, Advanced, BeforeJob, InJob, Published
<1>13. CASE RevokeCA(p)
  BY <1>13, RevokeCAMoves DEF RevokeCA, Moved, Ended, Advanced, BeforeJob, InJob, Published
<1>14. CASE SetRevoked(p)
  BY <1>14, SetRevokedMoves DEF SetRevoked, Moved, Ended, Advanced, BeforeJob, InJob, Published
<1>15. CASE FinishFailed(p)
  BY <1>15, FinishFailedMoves DEF FinishFailed, Moved, Ended, Advanced, BeforeJob, InJob, Published
<1>16. CASE MarkFailed(p)
  BY <1>16, MarkFailedMoves DEF MarkFailed, Moved, Ended, Advanced, BeforeJob, InJob, Published
<1>17. CASE AuditFailed(p)
  BY <1>17, AuditFailedMoves DEF AuditFailed, Moved, Ended, Advanced, BeforeJob, InJob, Published
<1>18. CASE FinishDone(p)
  BY <1>18, FinishDoneMoves DEF FinishDone, Moved, Ended, Advanced, BeforeJob, InJob, Published
<1>19. CASE AuditDone(p)
  BY <1>19, AuditDoneMoves DEF AuditDone, Moved, Ended, Advanced, BeforeJob, InJob, Published
<1>20. CASE UpdateSettings(p)
    BY <1>20, UpdateSettingsMoves DEF UpdateSettings, Moved, Ended, Advanced, BeforeJob, InJob,
     Published
<1>21. CASE Backup(p)
  BY <1>21, BackupMoves DEF Backup, Moved, Ended, Advanced, BeforeJob, InJob, Published
<1>22. CASE DeleteRow(p)
  BY <1>22, DeleteRowMoves DEF DeleteRow, Moved, Ended, Advanced, BeforeJob, InJob, Published
<1>23. CASE RemoveFirst(p)
  BY <1>23, RemoveFirstMoves DEF RemoveFirst, Moved, Ended, Advanced, BeforeJob, InJob, Published
<1>24. CASE RemoveRest(p)
  BY <1>24, RemoveRestMoves DEF RemoveRest, Moved, Ended, Advanced, BeforeJob, InJob, Published
<1>25. CASE ForgetLock(p)
  BY <1>25, ForgetLockMoves DEF ForgetLock, Moved, Ended, Advanced, BeforeJob, InJob, Published
<1> QED
    BY <1>1, <1>2, <1>3, <1>4, <1>5, <1>6, <1>7, <1>8, <1>9, <1>10, <1>11, <1>12, <1>13, <1>14,
     <1>15, <1>16, <1>17, <1>18, <1>19, <1>20, <1>21, <1>22, <1>23, <1>24, <1>25 DEF Step

\* Only CreateJob, FinishJob and the foreign key of a deleted row write job_runs.
LEMMA StepWritesJobs ==
  ASSUME TypeOK, KindInv, NEW p \in Requests, Step(p)
  PROVE  JobsWritten(p)
<1>1. CASE Get(p)
  <2>1. op'[p].pc \notin InJob
    BY <1>1, GetMoves DEF Moved, Ended, Idle, Handler, InJob
  <2> QED
    BY <1>1, <2>1 DEF Get, JobsWritten, db
<1>2. CASE LoadOrStore(p)
  BY <1>2, LoadMoves DEF LoadOrStore, db, Moved, Ended, Idle, Handler, JobsWritten, InJob
<1>3. CASE TryLock(p)
  <2>1. op'[p].pc \notin InJob
    BY <1>3, TryLockMoves DEF Moved, Ended, Idle, Handler, InJob, AfterLock
  <2> QED
    BY <1>3, <2>1 DEF TryLock, JobsWritten, db
<1>4. CASE Check(p)
  BY <1>4, CheckMoves DEF Check, db, Moved, Ended, Idle, Handler, JobsWritten, InJob
<1>5. CASE SetBusy(p)
  BY <1>5, SetBusyMoves DEF SetBusy, db, Moved, Ended, Idle, Handler, JobsWritten, InJob
<1>6. CASE CreateJob(p)
  <2>1. op[p].pc = "createJob" /\ \A l \in Labels : Goto(p, l) => op'[p].pc = l
    BY <1>6, GotoMoves DEF CreateJob, TypeOK, Moved
  <2>2. Finish(p) => op'[p].pc = "idle"
    BY ReturnEnds DEF Finish, TypeOK, Ended, Idle, Handler
  <2>3. \/ /\ UNCHANGED jobs
           /\ Finish(p) \/ Goto(p, "markNoJob")
        \/ /\ jobs' = [jobs EXCEPT ![op[p].run] =
                         [status |-> "running", type |-> op[p].kind, cert |-> op[p].cert]]
           /\ Goto(p, "revokeCA") \/ Goto(p, "engine")
    BY <1>6 DEF CreateJob
  <2>4. "markNoJob" \in Labels /\ "revokeCA" \in Labels /\ "engine" \in Labels
    BY DEF Labels
  <2> QED
    BY <2>1, <2>2, <2>3, <2>4 DEF JobsWritten, InJob
<1>7. CASE MarkNoJob(p)
  <2>1. op'[p].pc \notin InJob
    BY <1>7, MarkNoJobMoves DEF Moved, Ended, Idle, Handler, InJob
  <2> QED
    BY <1>7, <2>1 DEF MarkNoJob, JobsWritten, db
<1>8. CASE Engine(p)
  BY <1>8, EngineMoves DEF Engine, db, Moved, Ended, Idle, Handler, JobsWritten, InJob
<1>9. CASE Publish(p)
  BY <1>9, PublishMoves DEF Publish, db, Moved, Ended, Idle, Handler, JobsWritten, InJob
<1>10. CASE MoveAside(p)
  BY <1>10, MoveAsideMoves DEF MoveAside, db, Moved, Ended, Idle, Handler, JobsWritten, InJob
<1>11. CASE Swap(p)
  BY <1>11, SwapMoves DEF Swap, db, Moved, Ended, Idle, Handler, JobsWritten, InJob
<1>12. CASE MarkDone(p)
  BY <1>12, MarkDoneMoves DEF MarkDone, db, Moved, Ended, Idle, Handler, JobsWritten, InJob
<1>13. CASE RevokeCA(p)
  BY <1>13, RevokeCAMoves DEF RevokeCA, db, Moved, Ended, Idle, Handler, JobsWritten, InJob
<1>14. CASE SetRevoked(p)
  BY <1>14, SetRevokedMoves DEF SetRevoked, db, Moved, Ended, Idle, Handler, JobsWritten, InJob
<1>15. CASE FinishFailed(p)
  BY <1>15, FinishFailedMoves DEF FinishFailed, FinishJob, Moved, JobsWritten, InJob
<1>16. CASE MarkFailed(p)
  BY <1>16, MarkFailedMoves DEF MarkFailed, db, Moved, Ended, Idle, Handler, JobsWritten, InJob
<1>17. CASE AuditFailed(p)
  <2>1. op'[p].pc \notin InJob
    BY <1>17, AuditFailedMoves DEF Moved, Ended, Idle, Handler, InJob
  <2> QED
    BY <1>17, <2>1 DEF AuditFailed, JobsWritten, db
<1>18. CASE FinishDone(p)
  BY <1>18, FinishDoneMoves DEF FinishDone, FinishJob, Moved, JobsWritten, InJob
<1>19. CASE AuditDone(p)
  <2>1. op'[p].pc \notin InJob
    BY <1>19, AuditDoneMoves DEF Moved, Ended, Idle, Handler, InJob
  <2> QED
    BY <1>19, <2>1 DEF AuditDone, JobsWritten, db
<1>20. CASE UpdateSettings(p)
  <2>1. op'[p].pc \notin InJob
    BY <1>20, UpdateSettingsMoves DEF Moved, Ended, Idle, Handler, InJob
  <2> QED
    BY <1>20, <2>1 DEF UpdateSettings, JobsWritten, db
<1>21. CASE Backup(p)
  BY <1>21, BackupMoves DEF Backup, db, Moved, Ended, Idle, Handler, JobsWritten, InJob
<1>22. CASE DeleteRow(p)
  <2>1. op'[p].pc \notin InJob /\ op[p].pc = "deleteRow"
    BY <1>22, DeleteRowMoves DEF Moved, Ended, Idle, Handler, InJob
  <2>2. op[p].cert \in CertIds
    BY <2>1, HandlerCert
  <2>3. ASSUME ~UNCHANGED jobs, NEW r \in Runs
        PROVE  /\ jobs'[r].status = jobs[r].status /\ jobs'[r].type = jobs[r].type
               /\ jobs[r] = NoJob => jobs'[r] = NoJob
    <3>1. jobs[r] \in Job
      BY DEF TypeOK
      <3>2. jobs'[r] = jobs[r] \/ (jobs[r].cert = op[p].cert /\ jobs'[r] = [jobs[r] EXCEPT
     !.cert = NoCert])
      BY <1>22, <2>3 DEF DeleteRow
    <3> QED
      BY <2>2, <3>1, <3>2, ConstantsAssumption DEF Job, NoJob
  <2> QED
    BY <2>1, <2>3 DEF JobsWritten
<1>23. CASE RemoveFirst(p)
  BY <1>23, RemoveFirstMoves DEF RemoveFirst, db, Moved, Ended, Idle, Handler, JobsWritten, InJob
<1>24. CASE RemoveRest(p)
  BY <1>24, RemoveRestMoves DEF RemoveRest, db, Moved, Ended, Idle, Handler, JobsWritten, InJob
<1>25. CASE ForgetLock(p)
  <2>1. op'[p].pc \notin InJob
    BY <1>25, ForgetLockMoves DEF Moved, Ended, Idle, Handler, InJob
  <2> QED
    BY <1>25, <2>1 DEF ForgetLock, JobsWritten, db
<1> QED
    BY <1>1, <1>2, <1>3, <1>4, <1>5, <1>6, <1>7, <1>8, <1>9, <1>10, <1>11, <1>12, <1>13, <1>14,
     <1>15, <1>16, <1>17, <1>18, <1>19, <1>20, <1>21, <1>22, <1>23, <1>24, <1>25 DEF Step

\* Writing a status keeps the serial numbers.
LEMMA SetStatusSerial ==
  ASSUME TypeOK, NEW c \in CertIds, NEW s \in Statuses
  PROVE  \A b \in CertIds : SetStatus(c, s)[b].serial = row[b].serial
  BY DEF TypeOK, SetStatus, UpdateRow, Row

\* UpdateCertificateSettings writes one column of one row, or nothing.
LEMMA SettingsWritten ==
  ASSUME TypeOK, KindInv, NEW p \in Requests, UpdateSettings(p)
  PROVE  /\ op[p].pc = "updateSettings" /\ op[p].cert \in CertIds
         /\ \A c \in CertIds :
              /\ row'[c].serial = row[c].serial
              /\ row'[c] = [row[c] EXCEPT !.autoRenew = row'[c].autoRenew]
              /\ c # op[p].cert => row'[c] = row[c]
<1>1. op[p].pc = "updateSettings" /\ op[p].cert \in CertIds /\ row \in [CertIds -> Row]
  BY HandlerCert DEF UpdateSettings, TypeOK
<1>2. \A c \in CertIds, auto \in BOOLEAN :
        LET r == [row[c] EXCEPT !.autoRenew = auto]
        IN r.serial = row[c].serial /\ r.autoRenew = auto
  BY <1>1 DEF Row
<1>3. \A c \in CertIds : row[c] = [row[c] EXCEPT !.autoRenew = row[c].autoRenew]
  BY <1>1 DEF Row
<1>4. \/ row' = row
      \/ \E auto \in BOOLEAN :
           row' = [row EXCEPT ![op[p].cert] = [row[op[p].cert] EXCEPT !.autoRenew = auto]]
  BY ConstantsAssumption DEF UpdateSettings
<1>5. CASE row' = row
  BY <1>1, <1>3, <1>5
<1>6. ASSUME NEW auto \in BOOLEAN, NEW r, r = [row[op[p].cert] EXCEPT !.autoRenew = auto],
             row' = [row EXCEPT ![op[p].cert] = r]
      PROVE  \A c \in CertIds :
               /\ row'[c].serial = row[c].serial
               /\ row'[c] = [row[c] EXCEPT !.autoRenew = row'[c].autoRenew]
               /\ c # op[p].cert => row'[c] = row[c]
  <2>1. r.serial = row[op[p].cert].serial /\ r.autoRenew = auto
    BY <1>1, <1>2, <1>6
  <2>2. row'[op[p].cert] = r /\ \A c \in CertIds : c # op[p].cert => row'[c] = row[c]
    BY <1>1, <1>6
  <2> QED
    BY <1>3, <1>6, <2>1, <2>2
<1> QED
  BY <1>1, <1>4, <1>5, <1>6

\* A serial number spreads only from where it is, or from the handler that
\* publishes it.
LEMMA StepLeavesTraces ==
  ASSUME TypeOK, KindInv, NEW p \in Requests, Step(p)
  PROVE  TracesLeft(p)
<1>1. CASE Get(p)
  BY <1>1 DEF Get, TracesLeft, db, fs
<1>2. CASE LoadOrStore(p)
  BY <1>2 DEF LoadOrStore, TracesLeft, db, fs
<1>3. CASE TryLock(p)
  BY <1>3 DEF TryLock, TracesLeft, db, fs
<1>4. CASE Check(p)
  BY <1>4 DEF Check, TracesLeft, db, fs
<1>5. CASE SetBusy(p)
  <2>1. \A c \in CertIds : row'[c].serial = row[c].serial
    BY <1>5, HandlerCert, SetStatusSerial DEF SetBusy, Statuses
  <2> QED
    BY <1>5, <2>1 DEF SetBusy, TracesLeft, fs
<1>6. CASE CreateJob(p)
  BY <1>6 DEF CreateJob, TracesLeft, db, fs
<1>7. CASE MarkNoJob(p)
  <2>1. \A c \in CertIds : row'[c].serial = row[c].serial
    BY <1>7, HandlerCert, SetStatusSerial DEF MarkNoJob, Statuses
  <2> QED
    BY <1>7, <2>1 DEF MarkNoJob, TracesLeft, fs
<1>8. CASE Engine(p)
  BY <1>8 DEF Engine, TracesLeft, db, fs
<1>9. CASE Publish(p)
  <2>1. DirOfOp(p) \in Dirs
    BY <1>9, HandlerCert, ConstantsAssumption DEF Publish, DirOfOp
  <2> QED
    BY <1>9, <2>1 DEF Publish, TracesLeft, db
<1>10. CASE MoveAside(p)
  BY <1>10 DEF MoveAside, TracesLeft, TypeOK, db
<1>11. CASE Swap(p)
  <2>1. \A l \in Labels : Goto(p, l) => op'[p].pc = l
    BY GotoMoves DEF TypeOK, Moved
  <2>2. Goto(p, "markDone") => op'[p].pc = "markDone"
    BY <2>1 DEF Labels
  <2> QED
    BY <1>11, <2>2 DEF Swap, TracesLeft, TypeOK, db
<1>12. CASE MarkDone(p)
  <2> DEFINE r == [row[op[p].cert] EXCEPT !.status = "active", !.serial = op[p].run]
  <2>1. op[p].pc = "markDone" /\ op[p].cert \in CertIds
    BY <1>12, HandlerCert DEF MarkDone
  <2>2. r.serial = op[p].run
    BY <2>1 DEF TypeOK, Row
  <2>3. \/ row' = row
        \/ row' = [row EXCEPT ![op[p].cert] = r] /\ Goto(p, "finishDone")
    BY <1>12 DEF MarkDone, UpdateRow
  <2>4. Goto(p, "finishDone") => op'[p].pc = "finishDone"
    BY GotoMoves DEF TypeOK, Labels, Moved
  <2> HIDE DEF r
  <2>5. row \in [CertIds -> Row]
    BY DEF TypeOK
  <2>6. \A c \in CertIds : \/ row'[c].serial = row[c].serial
                           \/ row'[c].serial = op[p].run /\ op'[p].pc = "finishDone"
    BY <2>1, <2>2, <2>3, <2>4, <2>5
  <2> QED
    BY <1>12, <2>1, <2>6 DEF MarkDone, TracesLeft, fs
<1>13. CASE RevokeCA(p)
  BY <1>13 DEF RevokeCA, TracesLeft, db, fs
<1>14. CASE SetRevoked(p)
  <2>1. \A c \in CertIds : row'[c].serial = row[c].serial
    BY <1>14, HandlerCert, SetStatusSerial DEF SetRevoked, Statuses
  <2> QED
    BY <1>14, <2>1 DEF SetRevoked, TracesLeft, fs
<1>15. CASE FinishFailed(p)
  BY <1>15 DEF FinishFailed, TracesLeft, db, fs
<1>16. CASE MarkFailed(p)
  <2>1. \A c \in CertIds : row'[c].serial = row[c].serial
    BY <1>16, HandlerCert, SetStatusSerial DEF MarkFailed, Statuses
  <2> QED
    BY <1>16, <2>1 DEF MarkFailed, TracesLeft, fs
<1>17. CASE AuditFailed(p)
  BY <1>17 DEF AuditFailed, TracesLeft, db, fs
<1>18. CASE FinishDone(p)
  BY <1>18 DEF FinishDone, TracesLeft, db, fs
<1>19. CASE AuditDone(p)
  BY <1>19 DEF AuditDone, TracesLeft, db, fs
<1>20. CASE UpdateSettings(p)
  <2>1. \A c \in CertIds : row'[c].serial = row[c].serial
    BY <1>20, SettingsWritten
  <2> QED
    BY <1>20, <2>1 DEF UpdateSettings, TracesLeft, fs
<1>21. CASE Backup(p)
  <2>1. DirOfOp(p) \in Dirs
    BY <1>21, HandlerCert, ConstantsAssumption DEF Backup, DirOfOp
  <2> QED
    BY <1>21, <2>1 DEF Backup, TracesLeft, db
<1>22. CASE DeleteRow(p)
  BY <1>22 DEF DeleteRow, TracesLeft, db, fs
<1>23. CASE RemoveFirst(p)
  BY <1>23 DEF RemoveFirst, TracesLeft, TypeOK, db
<1>24. CASE RemoveRest(p)
  BY <1>24 DEF RemoveRest, TracesLeft, TypeOK, db
<1>25. CASE ForgetLock(p)
  BY <1>25 DEF ForgetLock, TracesLeft, db, fs
<1> QED
    BY <1>1, <1>2, <1>3, <1>4, <1>5, <1>6, <1>7, <1>8, <1>9, <1>10, <1>11, <1>12, <1>13, <1>14,
     <1>15, <1>16, <1>17, <1>18, <1>19, <1>20, <1>21, <1>22, <1>23, <1>24, <1>25 DEF Step

-----------------------------------------------------------------------------
(* Every step keeps the invariant *)

\* A serial number that appears somewhere was there before, or its own handler
\* has just published it.
LEMMA TraceStep ==
  ASSUME TypeOK, KindInv, NEW p \in Requests, Advanced(p), TracesLeft(p),
         NEW r \in Runs, Trace(r)'
  PROVE  Trace(r) \/ (r = op[p].run /\ op[p].pc \in {"swap", "markDone"} /\ op'[p].pc \in Published)
<1>1. r # Absent /\ r # Partial
  BY ConstantsAssumption DEF Runs, Absent, Partial
<1>2. CASE \E d \in Dirs : disk'[d] = r
  BY <1>1, <1>2 DEF TracesLeft, Trace, Published
<1>3. CASE \E c \in CertIds : row'[c].serial = r
  BY <1>3 DEF TracesLeft, Trace, Published
<1>4. CASE r \in backups'
  BY <1>4 DEF TracesLeft, Trace
<1>5. ASSUME NEW q \in Requests, op'[q].stash = r PROVE Trace(r)
  <2>1. DirOfOp(p) \in Dirs
    BY HandlerCert, ConstantsAssumption DEF Advanced, DirOfOp
  <2> QED
    BY <1>1, <1>5, <2>1 DEF Advanced, Trace, Idle, Handler
<1> QED
  BY <1>2, <1>3, <1>4, <1>5 DEF Trace

\* A handler that starts leaves no trace.
LEMMA TraceBegin ==
  ASSUME TypeOK, NEW p \in Requests, Begun(p), NEW r \in Runs, Trace(r)'
  PROVE  Trace(r)
<1>1. r # Absent /\ r # 0
  BY ConstantsAssumption DEF Runs, Absent
<1> QED
  BY <1>1 DEF Begun, Trace

\* A fresh run number collides with no other.
LEMMA JobBegin ==
  ASSUME TypeOK, JobInv, NEW p \in Requests, Begun(p)
  PROVE  JobInv'
<1> USE ConstantsAssumption
<1>1. ops \in Nat /\ ops + 1 \in Runs /\ ops + 1 > ops
  BY DEF TypeOK, Begun, Runs
<1>2. RunsHandedOut'
  BY <1>1 DEF JobInv, RunsHandedOut, Begun
<1>3. RunsDistinct'
  <2>1. \A q \in Requests \ {p} : op'[q].pc # "idle" => op'[q].run # ops + 1
    BY <1>1 DEF JobInv, RunsHandedOut, Begun
  <2> QED
    BY <2>1 DEF JobInv, RunsDistinct, Begun
<1>4. RunsFresh'
  BY <1>1, TraceBegin DEF JobInv, RunsFresh, Begun, Runs
<1>5. JobOfHandler'
  BY <1>1 DEF JobInv, RunsFresh, JobOfHandler, Begun, InJob
<1>6. UnpublishedNowhere'
  <2> SUFFICES ASSUME NEW q \in Requests, op'[q].pc \notin Published \cup {"idle"}, Trace(op[q].run)'
               PROVE  FALSE
    BY DEF UnpublishedNowhere
  <2>1. op'[q].run \in Runs /\ (q = p => op'[q].run = ops + 1)
    BY <1>1, <1>2 DEF RunsHandedOut, Begun, Runs
  <2>2. Trace(op'[q].run)
    BY <2>1, TraceBegin DEF Trace
  <2> QED
    BY <1>1, <2>1, <2>2 DEF JobInv, RunsFresh, UnpublishedNowhere, Begun
<1>7. FailedNowhere'
  BY TraceBegin DEF JobInv, FailedNowhere, Begun
<1> QED
  BY <1>2, <1>3, <1>4, <1>5, <1>6, <1>7 DEF JobInv

\* A call of a handler keeps the invariant: it writes only its own job, and it
\* publishes only while that job is running.
LEMMA JobCall ==
  ASSUME TypeOK, KindInv, JobInv, NEW p \in Requests, Advanced(p), JobsWritten(p), TracesLeft(p)
  PROVE  JobInv'
<1> USE ConstantsAssumption
<1>1. op[p].pc # "idle" /\ op[p].run \in 1..ops /\ op[p].run \in Runs /\ ops' = ops /\ ops \in 0..MaxOps
  BY DEF TypeOK, JobInv, RunsHandedOut, Advanced, Runs
<1>2. \A q \in Requests : op'[q].pc # "idle" => op[q].pc # "idle" /\ op'[q].run = op[q].run
  BY DEF Advanced, Idle, Handler
<1>3. \A q \in Requests \ {p} : op'[q] = op[q] /\ (op[q].pc # "idle" => op[q].run # op[p].run)
  BY <1>1 DEF JobInv, RunsDistinct, Advanced
<1>4. RunsHandedOut' /\ RunsDistinct'
  BY <1>1, <1>2 DEF JobInv, RunsHandedOut, RunsDistinct
<1>5. \A r \in Runs : r # op[p].run =>
        /\ jobs'[r].status = jobs[r].status
        /\ jobs[r] = NoJob => jobs'[r] = NoJob
  BY DEF JobsWritten, TypeOK
<1>6. \A r \in Runs : r # op[p].run /\ Trace(r)' => Trace(r)
  BY TraceStep
<1>7. RunsFresh'
  BY <1>1, <1>5, <1>6 DEF JobInv, RunsFresh, Runs
<1>8. JobOfHandler'
  <2> SUFFICES ASSUME NEW q \in Requests
               PROVE  /\ op'[q].pc \in BeforeJob => jobs'[op'[q].run] = NoJob
                      /\ op'[q].pc \in InJob => jobs'[op'[q].run].status = "running"
    BY DEF JobOfHandler
  <2>1. CASE q # p
    <3>1. op[q].pc # "idle" => op[q].run \in Runs /\ op[q].run # op[p].run
      BY <1>1, <1>3, <2>1 DEF JobInv, RunsHandedOut, Runs
    <3> QED
      BY <1>3, <1>5, <2>1, <3>1 DEF JobInv, JobOfHandler, BeforeJob, InJob
  <2>2. CASE q = p /\ op'[p].pc \in BeforeJob
    <3>1. op[p].pc \in BeforeJob /\ op'[p].run = op[p].run /\ op'[p].pc \notin InJob
      BY <1>2, <2>2 DEF Advanced, BeforeJob, InJob, Idle, Handler
    <3>2. jobs' = jobs
      BY <3>1 DEF JobsWritten, BeforeJob
    <3> QED
      BY <2>2, <3>1, <3>2 DEF JobInv, JobOfHandler
  <2>3. CASE q = p /\ op'[p].pc \in InJob
    <3>1. op'[p].run = op[p].run /\ op'[p].pc \notin BeforeJob
      BY <1>2, <2>3 DEF InJob, BeforeJob
    <3>2. jobs'[op[p].run].status = "running"
      BY <1>1, <2>3 DEF JobsWritten, JobInv, JobOfHandler, TypeOK, InJob
    <3> QED
      BY <2>3, <3>1, <3>2
  <2> QED
    BY <2>1, <2>2, <2>3
<1>9. UnpublishedNowhere'
  <2> SUFFICES ASSUME NEW q \in Requests, op'[q].pc \notin Published \cup {"idle"}, Trace(op[q].run)'
               PROVE  FALSE
    BY DEF UnpublishedNowhere
  <2>1. op[q].pc # "idle" /\ op'[q].run = op[q].run /\ op[q].run \in Runs
    BY <1>1, <1>2 DEF JobInv, RunsHandedOut, Runs
  <2>2. op[q].pc \notin Published
    BY <2>1 DEF Advanced, Idle, Handler
  <2>3. Trace(op[q].run)
    <3>1. ASSUME NEW r \in Runs, Trace(r)', r = op[q].run PROVE Trace(r)
      BY <1>3, <2>1, <3>1, TraceStep
    <3> QED
      BY <2>1, <3>1 DEF Trace
  <2> QED
    BY <2>1, <2>2, <2>3 DEF JobInv, UnpublishedNowhere
<1>10. FailedNowhere'
  <2> SUFFICES ASSUME NEW r \in Runs, jobs'[r].status = "failed", Trace(r)'
               PROVE  FALSE
    BY DEF FailedNowhere
  <2>1. CASE r # op[p].run
    BY <1>5, <1>6, <2>1 DEF JobInv, FailedNowhere
  <2>2. CASE r = op[p].run /\ op[p].pc \in InJob
    <3>1. jobs[r].status = "running"
      BY <2>2 DEF JobInv, JobOfHandler
    <3>2. op[p].pc = "finishFailed"
      BY <1>1, <2>2, <3>1 DEF JobsWritten, TypeOK, InJob, Job
    <3>3. ~Trace(r)
      BY <1>1, <2>2, <3>2 DEF JobInv, UnpublishedNowhere, Published
    <3> QED
      BY <3>2, <3>3, TraceStep
  <2>3. CASE r = op[p].run /\ op[p].pc \notin InJob
    <3>1. jobs[r].status = "failed"
      BY <1>1, <2>3 DEF JobsWritten, TypeOK, InJob
    <3>2. Trace(r)
      BY <2>3, TraceStep DEF InJob
    <3> QED
      BY <3>1, <3>2 DEF JobInv, FailedNowhere
  <2> QED
    BY <2>1, <2>2, <2>3
<1> QED
  BY <1>4, <1>7, <1>8, <1>9, <1>10 DEF JobInv

\* A restart interrupts the running jobs and keeps every other result.
LEMMA JobRestart ==
  ASSUME TypeOK, JobInv, Restart
  PROVE  JobInv'
<1>1. \A p \in Requests : op'[p].pc = "idle" /\ op'[p].stash = Absent
  BY DEF Restart, Idle, Handler
<1>2. \A r \in Runs : Trace(r)' => Trace(r)
  <2>1. \A r \in Runs : r # Absent
    BY ConstantsAssumption DEF Runs, Absent
  <2> QED
    BY <1>1, <2>1 DEF Restart, Trace, fs
<1>3. \A r \in Runs : /\ jobs'[r].status = "failed" => jobs[r].status = "failed"
                      /\ jobs[r] = NoJob => jobs'[r] = NoJob
  <2> SUFFICES ASSUME NEW r \in Runs
               PROVE  /\ jobs'[r].status = "failed" => jobs[r].status = "failed"
                      /\ jobs[r] = NoJob => jobs'[r] = NoJob
    OBVIOUS
  <2> DEFINE j == [jobs[r] EXCEPT !.status = "interrupted"]
  <2>1. j.status = "interrupted" /\ NoJob.status # "running"
    BY DEF TypeOK, Job, NoJob
  <2>2. jobs'[r] = jobs[r] \/ (jobs[r].status = "running" /\ jobs'[r] = j)
    BY DEF Restart
  <2> HIDE DEF j
  <2> QED
    BY <2>1, <2>2
<1>4. ops' = ops
  BY DEF Restart
<1> QED
  BY <1>1, <1>2, <1>3, <1>4 DEF JobInv, RunsHandedOut, RunsDistinct, RunsFresh, JobOfHandler,
     UnpublishedNowhere, FailedNowhere, BeforeJob, InJob

\* Every step, crash and restart included, keeps the job invariant.
LEMMA JobStep == TypeOK /\ KindInv /\ JobInv /\ [Next]_vars => JobInv'
<1> SUFFICES ASSUME TypeOK, KindInv, JobInv, [Next]_vars PROVE JobInv'
  OBVIOUS
<1>1. ASSUME NEW p \in Requests, Begin(p) PROVE JobInv'
  BY <1>1, BeginBegins, JobBegin
<1>2. ASSUME NEW p \in Requests, Step(p) PROVE JobInv'
  BY <1>2, StepAdvances, StepWritesJobs, StepLeavesTraces, JobCall
<1>3. CASE Restart
  BY <1>3, JobRestart
<1>4. CASE UNCHANGED vars
  <2>1. \A r : Trace(r)' <=> Trace(r)
    BY <1>4 DEF vars, Trace
  <2> QED
    BY <1>4, <2>1 DEF vars, JobInv, RunsHandedOut, RunsDistinct, RunsFresh, JobOfHandler,
       UnpublishedNowhere, FailedNowhere
<1> QED
  BY <1>1, <1>2, <1>3, <1>4 DEF Next

\* No job and no serial number exists before the first operation.
LEMMA JobInit == Init => JobInv
<1> SUFFICES ASSUME Init PROVE JobInv
  OBVIOUS
<1>1. \A p \in Requests : op[p].pc = "idle" /\ op[p].stash = 0
  BY DEF Init, Idle, Handler, Absent
<1>2. \A r \in Runs : r # 0 /\ jobs[r] = NoJob
  BY ConstantsAssumption DEF Init, Runs
<1>3. \A r \in Runs : ~Trace(r)
  BY <1>1, <1>2 DEF Init, Trace, Absent
<1>4. NoJob.status = "none"
  BY DEF NoJob
<1> QED
  BY <1>1, <1>2, <1>3, <1>4 DEF JobInv, RunsHandedOut, RunsDistinct, RunsFresh, JobOfHandler,
     UnpublishedNowhere, FailedNowhere, BeforeJob, InJob

-----------------------------------------------------------------------------
(* What a failed job leaves behind *)

\* failRenewal and its variants are only reached before anything was renamed
\* into place: the serial number of a failed job is on no disk, in no row and in
\* no backup, also when a concurrent operation or a crash came in between.
THEOREM FailureLeavesNothing == Spec => []FailedJobPublishedNothing
<1>1. Init => TypeOK /\ KindInv /\ JobInv
  BY TypeInit, JobInit
<1>2. TypeOK /\ KindInv /\ JobInv /\ [Next]_vars => (TypeOK /\ KindInv /\ JobInv)'
  BY TypeStep, JobStep
<1>3. JobInv => FailedJobPublishedNothing
  BY DEF JobInv, FailedNowhere, Trace, FailedJobPublishedNothing
<1> QED
  BY <1>1, <1>2, <1>3, PTL DEF Spec

-----------------------------------------------------------------------------
(* The history of a certificate *)

\* A step keeps type and result of every finished job.
LEMMA JobsKept ==
  ASSUME TypeOK, KindInv, JobInv, Next, NEW r \in Runs, jobs[r] # NoJob
  PROVE  /\ jobs'[r].type = jobs[r].type
         /\ jobs[r].status # "running" => jobs'[r].status = jobs[r].status
<1>1. ASSUME NEW p \in Requests, Begin(p) PROVE jobs'[r] = jobs[r]
  BY <1>1, BeginBegins DEF Begun
<1>2. ASSUME NEW p \in Requests, Step(p)
      PROVE  /\ jobs'[r].type = jobs[r].type
             /\ jobs[r].status # "running" => jobs'[r].status = jobs[r].status
  <2>1. JobsWritten(p) /\ Advanced(p)
    BY <1>2, StepWritesJobs, StepAdvances
  <2>2. op[p].pc = "createJob" => jobs[op[p].run] = NoJob
    BY DEF JobInv, JobOfHandler, BeforeJob
  <2>3. op[p].pc \in {"finishFailed", "finishDone"} => jobs[op[p].run].status = "running"
    BY DEF JobInv, JobOfHandler, InJob
  <2> QED
    BY <2>1, <2>2, <2>3 DEF JobsWritten, TypeOK, Job
<1>3. CASE Restart
  BY <1>3 DEF Restart, TypeOK, Job
<1> QED
  BY <1>1, <1>2, <1>3 DEF Next

\* A step keeps type and result of every audit event.
LEMMA EventsKept ==
  ASSUME TypeOK, KindInv, Next, NEW e \in audit
  PROVE  \E f \in audit' : f.type = e.type /\ f.result = e.result
<1>1. ASSUME NEW p \in Requests, Begin(p) PROVE audit' = audit
  BY <1>1 DEF Begin, Create, Renew, Issue, Revoke, Delete, Update, db
<1>2. ASSUME NEW p \in Requests, DeleteRow(p)
      PROVE  \E f \in audit' : f.type = e.type /\ f.result = e.result
  <2> DEFINE u == [e EXCEPT !.cert = NoCert]
  <2>1. e \in Event /\ u.type = e.type /\ u.result = e.result
    BY DEF TypeOK, Event
  <2>2. e \in audit' \/ u \in audit'
    BY <1>2 DEF DeleteRow
  <2> HIDE DEF u
  <2> QED
    BY <2>1, <2>2
<1>3. ASSUME NEW p \in Requests, AuditFailed(p) \/ AuditDone(p) PROVE audit \subseteq audit'
  BY <1>3 DEF AuditFailed, AuditDone, CreateAuditEvent
<1>4. ASSUME NEW p \in Requests, Step(p), ~DeleteRow(p), ~AuditFailed(p), ~AuditDone(p)
      PROVE  audit' = audit
  BY <1>4 DEF Step, Get, LoadOrStore, TryLock, Check, SetBusy, CreateJob, MarkNoJob, Engine, Publish,
     MoveAside, Swap, MarkDone, RevokeCA, SetRevoked, FinishFailed, MarkFailed, FinishDone,
     UpdateSettings, Backup, RemoveFirst, RemoveRest, ForgetLock, db
<1>5. CASE Restart
  BY <1>5 DEF Restart
<1> QED
  BY <1>1, <1>2, <1>3, <1>4, <1>5 DEF Next

\* Deleting a certificate keeps its jobs and its events, a finished job keeps
\* its result, and no operation reuses the job of another one: every step keeps
\* the history, for any number of operations, failures and restarts.
THEOREM HistoryIsKept == Spec => HistoryKept
<1> DEFINE Kept ==
      /\ \A r \in Runs : jobs[r] # NoJob =>
            /\ jobs'[r].type = jobs[r].type
            /\ jobs[r].status # "running" => jobs'[r].status = jobs[r].status
      /\ \A e \in audit : \E f \in audit' : f.type = e.type /\ f.result = e.result
<1>1. Init => TypeOK /\ KindInv /\ JobInv
  BY TypeInit, JobInit
<1>2. TypeOK /\ KindInv /\ JobInv /\ [Next]_vars => (TypeOK /\ KindInv /\ JobInv)'
  BY TypeStep, JobStep
<1>3. TypeOK /\ KindInv /\ JobInv /\ [Next]_vars => [Kept]_vars
  BY JobsKept, EventsKept
<1> QED
  BY <1>1, <1>2, <1>3, PTL DEF Spec, HistoryKept

-----------------------------------------------------------------------------
(* Running jobs *)

\* Without database failures a handler leaves its job only by finishing it.
LEMMA JobLeft ==
  ASSUME TypeOK, KindInv, "db" \notin Faults, NEW p \in Requests, Step(p),
         op[p].pc \in InJob, op'[p].pc \notin InJob, op[p].run \in Runs
  PROVE  jobs'[op[p].run].status # "running"
<1>1. CASE FinishFailed(p) \/ FinishDone(p)
  BY <1>1 DEF FinishFailed, FinishDone, FinishJob, May, TypeOK, Job
<1>2. CASE MarkDone(p) \/ SetRevoked(p)
  <2>1. Goto(p, "finishDone")
    BY <1>2 DEF MarkDone, SetRevoked, May
  <2> QED
    BY <2>1, GotoMoves DEF Moved, TypeOK, Labels, InJob
<1>3. CASE Engine(p) \/ Publish(p) \/ MoveAside(p) \/ Swap(p) \/ RevokeCA(p)
  BY <1>3, EngineMoves, PublishMoves, MoveAsideMoves, SwapMoves, RevokeCAMoves DEF Moved, InJob
<1> QED
  BY <1>1, <1>2, <1>3 DEF InJob, Step, Get, LoadOrStore, TryLock, Check, SetBusy, CreateJob, MarkNoJob,
     MarkFailed, AuditFailed, AuditDone, UpdateSettings, Backup, DeleteRow, RemoveFirst, RemoveRest,
     ForgetLock

\* Without database failures every step keeps a handler for each running job.
LEMMA OwnerStep ==
  ASSUME TypeOK, KindInv, JobInv, RunningOwned, "db" \notin Faults, [Next]_vars
  PROVE  RunningOwned'
<1> SUFFICES ASSUME NEW r \in Runs, jobs'[r].status = "running"
             PROVE  \E q \in Requests : op'[q].pc \in InJob /\ op'[q].run = r
  BY DEF RunningOwned
<1>1. ASSUME NEW p \in Requests, Begin(p) PROVE \E q \in Requests : op'[q].pc \in InJob /\ op'[q].run = r
  <2>1. Begun(p)
    BY <1>1, BeginBegins
  <2>2. PICK q \in Requests : op[q].pc \in InJob /\ op[q].run = r
    BY <2>1 DEF RunningOwned, Begun
  <2> QED
    BY <2>1, <2>2 DEF Begun, InJob
<1>2. ASSUME NEW p \in Requests, Step(p) PROVE \E q \in Requests : op'[q].pc \in InJob /\ op'[q].run = r
  <2>1. Advanced(p) /\ JobsWritten(p)
    BY <1>2, StepAdvances, StepWritesJobs
  <2>2. CASE jobs[r].status = "running"
    <3>1. PICK q \in Requests : op[q].pc \in InJob /\ op[q].run = r
      BY <2>2 DEF RunningOwned
    <3>2. CASE q # p
      BY <2>1, <3>1, <3>2 DEF Advanced
    <3>3. CASE q = p
      <4>1. op'[p].pc \in InJob
        BY <1>2, <3>1, <3>3, JobLeft
      <4> QED
        BY <2>1, <3>1, <3>3, <4>1 DEF Advanced, Idle, Handler, InJob
    <3> QED
      BY <3>2, <3>3
  <2>3. CASE jobs[r].status # "running"
    <3>1. op[p].pc = "createJob" /\ op'[p].pc \in InJob /\ r = op[p].run
      BY <2>1, <2>3 DEF JobsWritten, TypeOK, Job
    <3> QED
      BY <2>1, <3>1 DEF Advanced, Idle, Handler, InJob
  <2> QED
    BY <2>2, <2>3
<1>3. CASE Restart
  BY <1>3 DEF Restart, TypeOK, Job
<1>4. CASE UNCHANGED vars
  BY <1>4 DEF vars, RunningOwned
<1> QED
  BY <1>1, <1>2, <1>3, <1>4 DEF Next

\* As long as the database does not fail, a job is listed as running only while
\* its handler runs: every path through a handler finishes the job, and
\* MarkInterruptedJobs closes the ones a crash has left.
THEOREM RunningJobsOwned == ("db" \notin Faults) => (Spec => []RunningJobHasOwner)
<1> SUFFICES ASSUME "db" \notin Faults PROVE Spec => []RunningJobHasOwner
  OBVIOUS
<1> DEFINE I == TypeOK /\ KindInv /\ JobInv /\ RunningOwned
<1>1. Init => I
  <2>1. Init => RunningOwned
    BY DEF Init, RunningOwned, NoJob
  <2> QED
    BY <2>1, TypeInit, JobInit
<1>2. I /\ [Next]_vars => I'
  BY TypeStep, JobStep, OwnerStep
<1>3. I => RunningJobHasOwner
  BY DEF RunningOwned, RunningJobHasOwner, InJob
<1> QED
  BY <1>1, <1>2, <1>3, PTL DEF Spec

-----------------------------------------------------------------------------
(* The row of a certificate *)

\* Writing a status keeps the settings.
LEMMA SetStatusSettings ==
  ASSUME TypeOK, NEW c \in CertIds, NEW s \in Statuses
  PROVE  \A b \in CertIds : SetStatus(c, s)[b].autoRenew = row[b].autoRenew
  BY DEF TypeOK, SetStatus, UpdateRow, Row

\* Every step but UpdateCertificateSettings keeps the settings of the rows.
LEMMA OthersKeepSettings ==
  ASSUME TypeOK, KindInv, Next, NEW c \in CertIds, Exists(c),
         \A p \in Requests : ~UpdateSettings(p)
  PROVE  row'[c].autoRenew = row[c].autoRenew
<1>1. ASSUME NEW p \in Requests, Begin(p) PROVE row'[c] = row[c]
  BY <1>1 DEF Begin, Create, Renew, Issue, Revoke, Delete, Update, db, Exists, TypeOK
<1>2. ASSUME NEW p \in Requests, MarkDone(p) PROVE row'[c].autoRenew = row[c].autoRenew
  <2> DEFINE r == [row[op[p].cert] EXCEPT !.status = "active", !.serial = op[p].run]
  <2>1. op[p].cert \in CertIds /\ row \in [CertIds -> Row]
    BY <1>2, HandlerCert DEF MarkDone, TypeOK
  <2>2. r.autoRenew = row[op[p].cert].autoRenew
    BY <2>1 DEF Row
  <2>3. row' = row \/ row' = [row EXCEPT ![op[p].cert] = r]
    BY <1>2 DEF MarkDone, UpdateRow
  <2> HIDE DEF r
  <2> QED
    BY <2>1, <2>2, <2>3
<1>3. ASSUME NEW p \in Requests, SetBusy(p) \/ MarkNoJob(p) \/ SetRevoked(p) \/ MarkFailed(p)
      PROVE  row'[c].autoRenew = row[c].autoRenew
  <2>1. op[p].cert \in CertIds
    BY <1>3, HandlerCert DEF SetBusy, MarkNoJob, SetRevoked, MarkFailed
  <2>2. row' = row \/ \E s \in Statuses : row' = SetStatus(op[p].cert, s)
    BY <1>3 DEF SetBusy, MarkNoJob, SetRevoked, MarkFailed, Statuses
  <2> QED
    BY <2>1, <2>2, SetStatusSettings
<1>4. ASSUME NEW p \in Requests, Step(p), ~MarkDone(p), ~SetBusy(p), ~MarkNoJob(p), ~SetRevoked(p),
             ~MarkFailed(p)
      PROVE  row' = row
  BY <1>4 DEF Step, Get, LoadOrStore, TryLock, Check, CreateJob, Engine, Publish, MoveAside, Swap,
     RevokeCA, FinishFailed, AuditFailed, FinishDone, AuditDone, Backup, DeleteRow, RemoveFirst,
     RemoveRest, ForgetLock, db
<1>5. CASE Restart
  BY <1>5 DEF Restart
<1> QED
  BY <1>1, <1>2, <1>3, <1>4, <1>5 DEF Next

\* Only the handler that makes the step moves from UpdateCertificateSettings on.
LEMMA OnlyUpdateUpdates ==
  ASSUME TypeOK, KindInv, Next, NEW p \in Requests,
         op[p].pc = "updateSettings", op'[p].pc = "auditDone"
  PROVE  UpdateSettings(p)
<1>1. ASSUME NEW q \in Requests, Begin(q) PROVE FALSE
  BY <1>1, BeginBegins DEF Begun
<1>2. ASSUME NEW q \in Requests, Step(q) PROVE q = p
  BY <1>2, StepAdvances DEF Advanced
<1>3. ~Restart
  BY DEF Restart, Idle, Handler
<1>4. Step(p)
  BY <1>1, <1>2, <1>3 DEF Next
<1> QED
  BY <1>4 DEF Step, Get, LoadOrStore, TryLock, Check, SetBusy, CreateJob, MarkNoJob, Engine, Publish,
     MoveAside, Swap, MarkDone, RevokeCA, SetRevoked, FinishFailed, MarkFailed, AuditFailed,
     FinishDone, AuditDone, Backup, DeleteRow, RemoveFirst, RemoveRest, ForgetLock

\* Update and the issuing handlers write different columns of the row, so that
\* neither undoes what the other wrote although Update takes no mutex.
THEOREM SettingsAreKept == Spec => SettingsKept
<1> DEFINE Kept ==
      \A c \in CertIds : Exists(c) =>
         LET updates == \E p \in Requests : op[p].pc = "updateSettings" /\ op[p].cert = c
                                               /\ op'[p].pc = "auditDone"
         IN IF updates THEN row'[c] = [row[c] EXCEPT !.autoRenew = row'[c].autoRenew]
                       ELSE row'[c].autoRenew = row[c].autoRenew
<1>1. Init => TypeOK /\ KindInv
  BY TypeInit
<1>2. TypeOK /\ KindInv /\ [Next]_vars => (TypeOK /\ KindInv)'
  BY TypeStep
<1>3. TypeOK /\ KindInv /\ [Next]_vars => [Kept]_vars
  <2> SUFFICES ASSUME TypeOK, KindInv, Next, NEW c \in CertIds, Exists(c)
               PROVE  IF \E p \in Requests : op[p].pc = "updateSettings" /\ op[p].cert = c
                                               /\ op'[p].pc = "auditDone"
                      THEN row'[c] = [row[c] EXCEPT !.autoRenew = row'[c].autoRenew]
                      ELSE row'[c].autoRenew = row[c].autoRenew
    OBVIOUS
  <2>1. CASE \A p \in Requests : ~UpdateSettings(p)
    BY <2>1, OnlyUpdateUpdates, OthersKeepSettings
  <2>2. ASSUME NEW p \in Requests, UpdateSettings(p)
        PROVE  /\ row'[c] = [row[c] EXCEPT !.autoRenew = row'[c].autoRenew]
               /\ row'[c] = row[c] \/ (op[p].pc = "updateSettings" /\ op[p].cert = c
                                       /\ op'[p].pc = "auditDone")
    <3>1. row' = row \/ Goto(p, "auditDone")
      BY <2>2 DEF UpdateSettings
    <3>2. Goto(p, "auditDone") => op'[p].pc = "auditDone"
      BY GotoMoves DEF Moved, TypeOK, Labels
    <3> QED
      BY <2>2, <3>1, <3>2, SettingsWritten
  <2> QED
    BY <2>1, <2>2
<1> QED
  BY <1>1, <1>2, <1>3, PTL DEF Spec, SettingsKept

\* Without database failures a handler that owns the busy status of its
\* certificate gives it up by writing another one, or because the row is gone.
LEMMA OwnerSettles ==
  ASSUME TypeOK, KindInv, "db" \notin Faults, NEW p \in Requests, Step(p),
         OwnsBusy(p), ~OwnsBusy(p)'
  PROVE  ~(life'[op[p].cert] = "live" /\ row'[op[p].cert].status \in Busy)
<1> DEFINE c == op[p].cert
<1>1. c \in CertIds /\ row \in [CertIds -> Row]
  BY HandlerCert DEF OwnsBusy, TypeOK
<1>2. Issues(op[p].kind)
  BY DEF OwnsBusy
<1>3. CASE CreateJob(p)
  <2>1. \A l \in Labels : Goto(p, l) => op'[p].pc = l /\ op'[p].kind = op[p].kind
    BY GotoMoves DEF Moved, TypeOK
  <2>2. "engine" \in Labels /\ "markNoJob" \in Labels
    BY DEF Labels
  <2>3. op[p].kind # "revoke"
    BY <1>2 DEF Issues
  <2>4. ~Goto(p, "engine") /\ ~Goto(p, "markNoJob")
    BY <1>2, <2>1, <2>2 DEF OwnsBusy
  <2> QED
    BY <1>3, <2>3, <2>4 DEF CreateJob, May, Exists
<1>4. CASE MarkNoJob(p) \/ MarkFailed(p)
  <2>1. row' = SetStatus(c, "failed") /\ life' = life
    BY <1>4 DEF MarkNoJob, MarkFailed, May
  <2> DEFINE r == [row[c] EXCEPT !.status = "failed"]
  <2>2. r.status = "failed"
    BY <1>1 DEF Row
  <2>3. Exists(c) => row' = [row EXCEPT ![c] = r]
    BY <2>1 DEF SetStatus, UpdateRow
  <2> HIDE DEF r
  <2> QED
    BY <1>1, <2>1, <2>2, <2>3 DEF Exists, Busy
<1>5. CASE MarkDone(p)
  <2> DEFINE r == [row[c] EXCEPT !.status = "active", !.serial = op[p].run]
  <2>1. r.status = "active"
    BY <1>1 DEF Row
  <2>2. (Exists(c) => row' = [row EXCEPT ![c] = r]) /\ life' = life
    BY <1>5 DEF MarkDone, UpdateRow, May
  <2> HIDE DEF r
  <2> QED
    BY <1>1, <2>1, <2>2 DEF Exists, Busy
<1>6. CASE Engine(p) \/ Publish(p) \/ MoveAside(p) \/ Swap(p)
  BY <1>2, <1>6, EngineMoves, PublishMoves, MoveAsideMoves, SwapMoves DEF Moved, OwnsBusy
<1>7. CASE FinishFailed(p)
  <2>1. Moved(p, {"markFailed"})
    BY <1>2, <1>7, FinishFailedMoves DEF Moved, Issues
  <2> QED
    BY <1>2, <2>1 DEF Moved, OwnsBusy
<1> QED
  BY <1>3, <1>4, <1>5, <1>6, <1>7 DEF OwnsBusy, Step, Get, LoadOrStore, TryLock, Check, SetBusy,
     RevokeCA, SetRevoked, AuditFailed, FinishDone, AuditDone, UpdateSettings, Backup, DeleteRow,
     RemoveFirst, RemoveRest, ForgetLock

\* As long as the database does not fail, no path through a handler but a crash
\* leaves a certificate issuing or renewing with nobody to settle it.
THEOREM BusyIsSettled == ("db" \notin Faults) => (Spec => BusySettled)
<1> SUFFICES ASSUME "db" \notin Faults PROVE Spec => BusySettled
  OBVIOUS
<1> DEFINE Settled ==
      Restart \/ \A p \in Requests :
         LET c == op[p].cert
         IN OwnsBusy(p) /\ ~OwnsBusy(p)' => ~(life'[c] = "live" /\ row'[c].status \in Busy)
<1>1. Init => TypeOK /\ KindInv
  BY TypeInit
<1>2. TypeOK /\ KindInv /\ [Next]_vars => (TypeOK /\ KindInv)'
  BY TypeStep
<1>3. TypeOK /\ KindInv /\ [Next]_vars => [Settled]_vars
  <2> SUFFICES ASSUME TypeOK, KindInv, Next, ~Restart, NEW p \in Requests, OwnsBusy(p), ~OwnsBusy(p)'
               PROVE  ~(life'[op[p].cert] = "live" /\ row'[op[p].cert].status \in Busy)
    OBVIOUS
  <2>1. op'[p] # op[p] /\ op[p].pc # "idle"
    BY DEF OwnsBusy
  <2>2. ASSUME NEW q \in Requests, Begin(q) PROVE FALSE
    BY <2>1, <2>2, BeginBegins DEF Begun
  <2>3. ASSUME NEW q \in Requests, Step(q) PROVE q = p
    BY <2>1, <2>3, StepAdvances DEF Advanced
  <2> QED
    BY <2>2, <2>3, OwnerSettles DEF Next
<1> QED
  BY <1>1, <1>2, <1>3, PTL DEF Spec, BusySettled

-----------------------------------------------------------------------------
(* Rows and the disk *)

\* p runs Create and has not yet written the outcome to the row.
Creating(p) == op[p].kind = "create" /\ OwnsBusy(p)

\* p issues a certificate and has not met a failure.
Writing(p) == OwnsBusy(p) /\ op[p].pc \notin {"finishFailed", "markFailed"}

\* The next call of q changes the status of its certificate or its directory.
Meddles(q) == op[q].pc \in {"setBusy", "markNoJob", "moveAside", "swap", "markDone",
                            "setRevoked", "markFailed"}

\* A handler that will not touch a certificate that is being created: a renewal
\* that has read the status issuing will be rejected.
Harmless(q) ==
    \/ op[q].kind \in {"delete", "update"}
    \/ /\ op[q].kind \in {"renew", "force_renew"}
       /\ op[q].pc \in {"load", "tryLock", "check"}
       /\ op[q].seen = "issuing"

HandlersKnowRows == \A p \in Requests : op[p].pc # "idle" => life[op[p].cert] # "unborn"

\* Create takes no mutex; what protects it is the status it inserted.
CreatingIsIssuing ==
    \A p \in Requests : Creating(p) /\ Exists(op[p].cert) => row[op[p].cert].status = "issuing"

CreatingIsAlone ==
    \A p, q \in Requests :
        Creating(p) /\ Exists(op[p].cert) /\ q # p /\ op[q].cert = op[p].cert => Harmless(q)

WritingIsBusy ==
    \A p \in Requests : Writing(p) /\ Exists(op[p].cert) => row[op[p].cert].status \in Busy

PublishedIsThere ==
    DirsDistinct => \A p \in Requests :
        op[p].pc = "markDone" /\ Exists(op[p].cert) => disk[DirOf[op[p].cert]] = op[p].run

DiskInv == /\ HandlersKnowRows /\ CreatingIsIssuing /\ CreatingIsAlone
           /\ WritingIsBusy /\ PublishedIsThere /\ ActiveMatchesDisk

Inv == TypeOK /\ KindInv /\ LockInv /\ DiskInv

-----------------------------------------------------------------------------
(* Only one handler at a time issues, revokes or publishes a certificate *)

\* While a handler owns the busy status of a certificate, no other handler is
\* at a call that writes its status or its directory: the mutex keeps the
\* locking ones apart, and a create is alone until its row exists.
LEMMA IssuerIsAlone ==
  ASSUME Inv, NEW p \in Requests, NEW q \in Requests, p # q,
         op[p].cert = op[q].cert, Exists(op[p].cert), OwnsBusy(p), Meddles(q)
  PROVE  FALSE
<1>1. op[p].pc \notin LockFree /\ op[q].pc \notin LockFree
  BY DEF OwnsBusy, Meddles, LockFree
<1>2. KindOK(op[p]) /\ KindOK(op[q])
  BY DEF Inv, KindInv
<1>3. CASE op[p].kind = "create"
  <2>1. Harmless(q)
    BY <1>3 DEF Inv, DiskInv, CreatingIsAlone, Creating
  <2> QED
    BY <1>2, <2>1 DEF Harmless, Meddles, KindOK, Issues
<1>4. CASE op[p].kind # "create" /\ op[q].kind = "create"
  <2>1. Creating(q)
    BY <1>2, <1>4 DEF Creating, OwnsBusy, Meddles, KindOK, Issues
  <2>2. Harmless(p)
    BY <2>1 DEF Inv, DiskInv, CreatingIsAlone
  <2> QED
    BY <2>2 DEF Harmless, OwnsBusy, Issues
<1>5. CASE op[p].kind # "create" /\ op[q].kind # "create"
  <2>1. InLock(p) /\ InLock(q)
    BY <1>1, <1>2, <1>5 DEF InLock, Locks, OwnsBusy, Issues, Meddles, KindOK
  <2> QED
    BY <2>1, LockInvImplies DEF Inv, LockExclusive, Exists
<1> QED
  BY <1>3, <1>4, <1>5

-----------------------------------------------------------------------------
(* Kinds of steps *)

\* The rows keep status and serial number, the directories their contents, and
\* p does not become a writer.
LEMMA DataKept ==
  ASSUME Inv, NEW p \in Requests,
         \A q \in Requests \ {p} : op'[q] = op[q],
         op'[p].cert = op[p].cert \/ op'[p].cert \notin CertIds,
         op'[p].pc = "idle" \/ (op[p].pc # "idle" /\ op'[p].cert = op[p].cert),
         Creating(p)' => Creating(p),
         Writing(p)' => Writing(p),
         op'[p].pc # "markDone",
         Harmless(p) /\ op'[p].cert \in CertIds => Harmless(p)',
         \A c \in CertIds : row'[c].status = row[c].status /\ row'[c].serial = row[c].serial,
         UNCHANGED <<life, disk>>
  PROVE  DiskInv'
<1>1. HandlersKnowRows'
  BY DEF Inv, DiskInv, HandlersKnowRows
<1>2. CreatingIsIssuing'
  BY HandlerCert DEF Inv, DiskInv, CreatingIsIssuing, Creating, OwnsBusy, Exists
<1>3. CreatingIsAlone'
  <2> SUFFICES ASSUME NEW a \in Requests, NEW b \in Requests, Creating(a)', Exists(op[a].cert)',
                      b # a, op'[b].cert = op'[a].cert
               PROVE  Harmless(b)'
    BY DEF CreatingIsAlone
  <2>1. Creating(a) /\ op'[a].cert = op[a].cert /\ op[a].cert \in CertIds /\ Exists(op[a].cert)
    <3>1. op'[a].pc # "idle"
      BY DEF Creating, OwnsBusy
    <3>2. Creating(a) /\ op'[a].cert = op[a].cert
      BY <3>1 DEF Creating, OwnsBusy
    <3>3. op[a].pc # "idle"
      BY <3>2 DEF Creating, OwnsBusy
    <3> QED
      BY <3>2, <3>3, HandlerCert DEF Inv, Exists
  <2>2. op[b].cert = op[a].cert
    BY <2>1
  <2>3. Harmless(b)
    BY <2>1, <2>2 DEF Inv, DiskInv, CreatingIsAlone
  <2>4. CASE b = p
    BY <2>1, <2>3, <2>4
  <2>5. CASE b # p
    BY <2>3, <2>5 DEF Harmless
  <2> QED
    BY <2>4, <2>5
<1>4. WritingIsBusy'
  <2> SUFFICES ASSUME NEW a \in Requests, Writing(a)', Exists(op[a].cert)'
               PROVE  row'[op'[a].cert].status \in Busy
    BY DEF WritingIsBusy
  <2>1. op'[a].pc # "idle" /\ Writing(a) /\ op'[a].cert = op[a].cert
    BY DEF Writing, OwnsBusy
  <2>2. op[a].cert \in CertIds
    BY <2>1, HandlerCert DEF Inv, Writing, OwnsBusy
  <2> QED
    BY <2>1, <2>2 DEF Inv, DiskInv, WritingIsBusy, Exists
<1>5. PublishedIsThere'
  BY DEF Inv, DiskInv, PublishedIsThere, Exists
<1>6. ActiveMatchesDisk'
  BY DEF Inv, DiskInv, ActiveMatchesDisk, Exists
<1> QED
  BY <1>1, <1>2, <1>3, <1>4, <1>5, <1>6 DEF DiskInv

\* p writes the status of its certificate, which nobody else is issuing.
LEMMA StatusWritten ==
  ASSUME Inv, NEW p \in Requests, op[p].pc # "idle",
         \A q \in Requests \ {p} : op'[q] = op[q],
         op'[p].cert = op[p].cert \/ (op'[p].pc = "idle" /\ op'[p].cert \notin CertIds),
         \A q \in Requests \ {p} : op[q].cert = op[p].cert /\ Exists(op[p].cert) => ~OwnsBusy(q),
         \A c \in CertIds : c # op[p].cert \/ ~Exists(c) => row'[c] = row[c],
         ~Creating(p)',
         Writing(p)' => row'[op[p].cert].status \in Busy \/ ~Exists(op[p].cert),
         op'[p].pc # "markDone",
         Exists(op[p].cert) /\ row'[op[p].cert].status = "active" /\ DirsDistinct
           => disk[DirOf[op[p].cert]] = row'[op[p].cert].serial,
         UNCHANGED <<life, disk>>
  PROVE  DiskInv'
<1>0. op[p].cert \in CertIds
  BY HandlerCert DEF Inv
<1>1. HandlersKnowRows'
  BY DEF Inv, DiskInv, HandlersKnowRows
<1>2. \A a \in Requests : Writing(a)' => op'[a].cert \in CertIds
  BY <1>0, HandlerCert DEF Writing, OwnsBusy, Inv
<1>3. \A a \in Requests : Creating(a)' => a # p /\ Creating(a) /\ op[a].cert \in CertIds
  BY HandlerCert DEF Creating, OwnsBusy, Inv
<1>4. CreatingIsIssuing'
  <2> SUFFICES ASSUME NEW a \in Requests, Creating(a)', Exists(op[a].cert)'
               PROVE  row'[op'[a].cert].status = "issuing"
    BY DEF CreatingIsIssuing
  <2>1. a # p /\ Creating(a) /\ op[a].cert \in CertIds /\ op'[a] = op[a] /\ Exists(op[a].cert)
    BY <1>3 DEF Exists
  <2>2. op[a].cert # op[p].cert
    BY <2>1 DEF Creating
  <2> QED
    BY <2>1, <2>2 DEF Inv, DiskInv, CreatingIsIssuing
<1>5. CreatingIsAlone'
  <2> SUFFICES ASSUME NEW a \in Requests, NEW b \in Requests, Creating(a)', Exists(op[a].cert)',
                      b # a, op'[b].cert = op'[a].cert
               PROVE  Harmless(b)'
    BY DEF CreatingIsAlone
  <2>1. a # p /\ Creating(a) /\ op[a].cert \in CertIds /\ op'[a] = op[a] /\ Exists(op[a].cert)
    BY <1>3 DEF Exists
  <2>2. op[a].cert # op[p].cert
    BY <2>1 DEF Creating
  <2>3. b # p /\ op'[b] = op[b]
    BY <1>0, <2>1, <2>2
  <2> QED
    BY <2>1, <2>3 DEF Inv, DiskInv, CreatingIsAlone, Harmless
<1>6. WritingIsBusy'
  <2> SUFFICES ASSUME NEW a \in Requests, Writing(a)', Exists(op[a].cert)'
               PROVE  row'[op'[a].cert].status \in Busy
    BY DEF WritingIsBusy
  <2>1. CASE a = p
    BY <1>2, <2>1 DEF Exists, Writing, OwnsBusy
  <2>2. CASE a # p
    <3>1. Writing(a) /\ op'[a] = op[a] /\ Exists(op[a].cert) /\ op[a].cert \in CertIds
      BY <1>2, <2>2 DEF Writing, OwnsBusy, Exists
    <3>2. op[a].cert # op[p].cert
      BY <2>2, <3>1 DEF Writing
    <3> QED
      BY <3>1, <3>2 DEF Inv, DiskInv, WritingIsBusy
  <2> QED
    BY <2>1, <2>2
<1>7. PublishedIsThere'
  BY DEF Inv, DiskInv, PublishedIsThere, Exists
<1>8. ActiveMatchesDisk'
  BY <1>0 DEF Inv, DiskInv, ActiveMatchesDisk, Exists
<1> QED
  BY <1>1, <1>4, <1>5, <1>6, <1>7, <1>8 DEF DiskInv

\* p changes the directory of its certificate, which is either gone or busy and
\* issued by nobody else.
LEMMA DirectoryWritten ==
  ASSUME Inv, NEW p \in Requests, op[p].pc # "idle",
         \A q \in Requests \ {p} : op'[q] = op[q],
         op'[p].cert = op[p].cert \/ (op'[p].pc = "idle" /\ op'[p].cert \notin CertIds),
         \/ ~Exists(op[p].cert)
         \/ /\ row[op[p].cert].status \in Busy
            /\ \A q \in Requests \ {p} : op[q].cert = op[p].cert => ~OwnsBusy(q),
         \A d \in Dirs : d # DirOf[op[p].cert] => disk'[d] = disk[d],
         Creating(p)' => Creating(p),
         Writing(p)' => Writing(p),
         op'[p].pc = "markDone" => disk'[DirOf[op[p].cert]] = op'[p].run,
         UNCHANGED <<life, row>>
  PROVE  DiskInv'
<1>0. op[p].cert \in CertIds
  BY HandlerCert DEF Inv
<1>1. HandlersKnowRows'
  BY DEF Inv, DiskInv, HandlersKnowRows
<1>2. \A a \in Requests : op'[a].pc # "idle" => op'[a].cert = op[a].cert
  BY <1>0
<1>3. CreatingIsIssuing'
  BY <1>2 DEF Inv, DiskInv, CreatingIsIssuing, Creating, OwnsBusy, Exists
<1>4. CreatingIsAlone'
  <2> SUFFICES ASSUME NEW a \in Requests, NEW b \in Requests, Creating(a)', Exists(op[a].cert)',
                      b # a, op'[b].cert = op'[a].cert
               PROVE  Harmless(b)'
    BY DEF CreatingIsAlone
  <2>1. Creating(a) /\ op'[a].cert = op[a].cert /\ Exists(op[a].cert)
    BY <1>2 DEF Creating, OwnsBusy, Exists
  <2>2. op[a].cert \in CertIds
    BY <2>1, HandlerCert DEF Creating, OwnsBusy, Inv
  <2>3. b # p
    <3>1. SUFFICES ASSUME b = p PROVE FALSE
      OBVIOUS
    <3>2. op[p].cert = op[a].cert
      BY <2>1, <2>2, <3>1
    <3>3. ~OwnsBusy(a)
      BY <2>1, <3>1, <3>2
    <3> QED
      BY <2>1, <3>3 DEF Creating
  <2> QED
    BY <2>1, <2>3 DEF Inv, DiskInv, CreatingIsAlone, Harmless
<1>5. WritingIsBusy'
  BY <1>2 DEF Inv, DiskInv, WritingIsBusy, Writing, OwnsBusy, Exists
<1>6. PublishedIsThere'
  <2> SUFFICES ASSUME DirsDistinct, NEW a \in Requests, op'[a].pc = "markDone", Exists(op[a].cert)'
               PROVE  disk'[DirOf[op'[a].cert]] = op'[a].run
    BY DEF PublishedIsThere
  <2>1. CASE a = p
    BY <1>2, <2>1
  <2>2. CASE a # p
    <3>1. op[a].pc = "markDone" /\ op'[a] = op[a] /\ Exists(op[a].cert)
      BY <2>2 DEF Exists
    <3>2. op[a].cert \in CertIds
      BY <3>1, HandlerCert DEF Inv
    <3>3. OwnsBusy(a)
      BY <3>1 DEF Inv, KindInv, KindOK, OwnsBusy
    <3>4. op[a].cert # op[p].cert
      BY <2>2, <3>1, <3>3
    <3>5. DirOf[op[a].cert] # DirOf[op[p].cert] /\ DirOf[op[a].cert] \in Dirs
      BY <1>0, <3>2, <3>4, ConstantsAssumption DEF DirsDistinct
    <3> QED
      BY <3>1, <3>5 DEF Inv, DiskInv, PublishedIsThere
  <2> QED
    BY <2>1, <2>2
<1>7. ActiveMatchesDisk'
  <2> SUFFICES ASSUME DirsDistinct, NEW c \in CertIds, Exists(c)', row'[c].status = "active"
               PROVE  disk'[DirOf[c]] = row'[c].serial
    BY DEF ActiveMatchesDisk
  <2>1. Exists(c) /\ row[c].status = "active"
    BY DEF Exists
  <2>2. c # op[p].cert
    BY <2>1 DEF Busy
  <2>3. DirOf[c] # DirOf[op[p].cert] /\ DirOf[c] \in Dirs
    BY <1>0, <2>2, ConstantsAssumption DEF DirsDistinct
  <2> QED
    BY <2>1, <2>3 DEF Inv, DiskInv, ActiveMatchesDisk
<1> QED
  BY <1>1, <1>3, <1>4, <1>5, <1>6, <1>7 DEF DiskInv

\* A handler starts on a certificate that has a row.
LEMMA DataStarted ==
  ASSUME Inv, NEW p \in Requests, NEW c \in CertIds, op[p].pc = "idle", Exists(c),
         \A q \in Requests \ {p} : op'[q] = op[q],
         op'[p].cert = c,
         op'[p].pc \in {"get", "load", "updateSettings"},
         row[c].status = "issuing" => Harmless(p)',
         UNCHANGED <<life, row, disk>>
  PROVE  DiskInv'
<1>1. ~Creating(p)' /\ ~Writing(p)'
  BY DEF Creating, Writing, OwnsBusy
<1>2. HandlersKnowRows'
  BY DEF Inv, DiskInv, HandlersKnowRows, Exists
<1>3. CreatingIsIssuing'
  BY <1>1 DEF Inv, DiskInv, CreatingIsIssuing, Creating, OwnsBusy, Exists
<1>4. CreatingIsAlone'
  <2> SUFFICES ASSUME NEW a \in Requests, NEW b \in Requests, Creating(a)', Exists(op[a].cert)',
                      b # a, op'[b].cert = op'[a].cert
               PROVE  Harmless(b)'
    BY DEF CreatingIsAlone
  <2>1. a # p /\ Creating(a) /\ op'[a] = op[a] /\ Exists(op[a].cert)
    BY <1>1 DEF Creating, OwnsBusy, Exists
  <2>2. CASE b = p
    <3>1. row[c].status = "issuing"
      BY <2>1, <2>2 DEF Inv, DiskInv, CreatingIsIssuing
    <3> QED
      BY <2>2, <3>1
  <2>3. CASE b # p
    BY <2>1, <2>3 DEF Inv, DiskInv, CreatingIsAlone, Harmless
  <2> QED
    BY <2>2, <2>3
<1>5. WritingIsBusy'
  BY <1>1 DEF Inv, DiskInv, WritingIsBusy, Writing, OwnsBusy, Exists
<1>6. PublishedIsThere'
  BY DEF Inv, DiskInv, PublishedIsThere, Exists
<1>7. ActiveMatchesDisk'
  BY DEF Inv, DiskInv, ActiveMatchesDisk, Exists
<1> QED
  BY <1>2, <1>3, <1>4, <1>5, <1>6, <1>7 DEF DiskInv

\* p returns and nothing else changes but jobs, events, backups and mutexes.
LEMMA DataEnded ==
  ASSUME Inv, NEW p \in Requests, Ended(p),
         \A c \in CertIds : row'[c].status = row[c].status /\ row'[c].serial = row[c].serial,
         UNCHANGED <<life, disk>>
  PROVE  DiskInv'
<1>1. op'[p].pc = "idle" /\ op'[p].cert \notin CertIds
  BY ConstantsAssumption DEF Ended, Idle, Handler
<1>2. ~Creating(p)' /\ ~Writing(p)'
  BY <1>1 DEF Creating, Writing, OwnsBusy
<1> QED
  BY <1>1, <1>2, DataKept DEF Ended

\* p goes on and nothing else changes but jobs, events, backups and mutexes.
LEMMA DataMoved ==
  ASSUME Inv, NEW p \in Requests, NEW S, Moved(p, S), op[p].pc # "idle",
         Writing(p)' => Writing(p),
         Creating(p)' => Creating(p),
         Harmless(p) => Harmless(p)',
         op'[p].pc # "markDone",
         \A c \in CertIds : row'[c].status = row[c].status /\ row'[c].serial = row[c].serial,
         UNCHANGED <<life, disk>>
  PROVE  DiskInv'
  BY DataKept DEF Moved

-----------------------------------------------------------------------------
(* Every step keeps the invariant *)

\* Every step, crash and restart included, keeps the disk invariant.
LEMMA DiskStep == Inv /\ [Next]_vars => DiskInv'
<1> SUFFICES ASSUME Inv, [Next]_vars PROVE DiskInv'
  OBVIOUS
<1> USE ConstantsAssumption
<1>0. TypeOK /\ KindInv /\ LockInv
  BY DEF Inv
<1>1. ASSUME NEW p \in Requests, NEW c \in CertIds, NEW m \in Modes,
            NEW auto \in AutoRenewChoices, Create(p, c, m, auto) PROVE DiskInv'
  <2>1. /\ op'[p].pc = "createJob" /\ op'[p].kind = "create" /\ op'[p].cert = c
        /\ \A q \in Requests \ {p} : op'[q] = op[q]
    BY <1>0, <1>1, CreateMoves
  <2>2. /\ \A b \in CertIds \ {c} : life'[b] = life[b] /\ row'[b] = row[b]
        /\ life[c] = "unborn" /\ life'[c] = "live" /\ row'[c].status = "issuing" /\ disk' = disk
    BY <1>0, <1>1 DEF Create, TypeOK, fs
  <2>3. \A q \in Requests : op[q].cert # c
    BY <1>0, <2>2, HandlerCert DEF Inv, DiskInv, HandlersKnowRows, KindInv, KindOK
  <2>4. \A q \in Requests : op[q].pc # "idle" => op[q].cert \in CertIds \ {c}
    BY <1>0, <2>3, HandlerCert
  <2>5. HandlersKnowRows'
    BY <2>1, <2>2, <2>4 DEF Inv, DiskInv, HandlersKnowRows
  <2>6. CreatingIsIssuing'
    BY <2>1, <2>2, <2>4 DEF Inv, DiskInv, CreatingIsIssuing, Creating, OwnsBusy, Exists
  <2>7. CreatingIsAlone'
    BY <2>1, <2>2, <2>3, <2>4 DEF Inv, DiskInv, CreatingIsAlone, Creating, OwnsBusy, Harmless, Exists
  <2>8. WritingIsBusy'
    BY <2>1, <2>2, <2>4 DEF Inv, DiskInv, WritingIsBusy, Writing, OwnsBusy, Exists, Busy
  <2>9. PublishedIsThere' /\ ActiveMatchesDisk'
    BY <2>1, <2>2, <2>4 DEF Inv, DiskInv, PublishedIsThere, ActiveMatchesDisk, Exists
  <2> QED
    BY <2>5, <2>6, <2>7, <2>8, <2>9 DEF DiskInv
<1>2. ASSUME NEW p \in Requests, NEW c \in CertIds, NEW force \in BOOLEAN, Renew(p, c, force) PROVE DiskInv'
  <2>1. op[p].pc = "idle" /\ Exists(c) /\ UNCHANGED <<life, row, disk>>
    BY <1>2 DEF Renew, Start, db, fs
  <2>2. /\ op'[p].cert = c /\ op'[p].pc \in {"get", "load", "updateSettings"}
        /\ \A q \in Requests \ {p} : op'[q] = op[q]
    BY <1>0, <1>2, RenewStarts DEF Started
  <2>3. row[c].status = "issuing" => Harmless(p)'
    BY <1>0, <1>2, RenewStarts DEF Harmless, Started
  <2> QED
    BY <2>1, <2>2, <2>3, DataStarted
<1>3. ASSUME NEW p \in Requests, NEW c \in CertIds, Issue(p, c) PROVE DiskInv'
  <2>1. op[p].pc = "idle" /\ Exists(c) /\ UNCHANGED <<life, row, disk>>
    BY <1>3 DEF Issue, Start, db, fs
  <2>2. /\ op'[p].cert = c /\ op'[p].pc \in {"get", "load", "updateSettings"}
        /\ \A q \in Requests \ {p} : op'[q] = op[q]
    BY <1>0, <1>3, IssueStarts DEF Started
  <2>3. row[c].status # "issuing"
    BY <1>3 DEF Issue, manualIssueAllowed
  <2> QED
    BY <2>1, <2>2, <2>3, DataStarted
<1>4. ASSUME NEW p \in Requests, NEW c \in CertIds, Revoke(p, c) PROVE DiskInv'
  <2>1. op[p].pc = "idle" /\ Exists(c) /\ UNCHANGED <<life, row, disk>>
    BY <1>4 DEF Revoke, Start, db, fs
  <2>2. /\ op'[p].cert = c /\ op'[p].pc \in {"get", "load", "updateSettings"}
        /\ \A q \in Requests \ {p} : op'[q] = op[q]
    BY <1>0, <1>4, RevokeStarts DEF Started
  <2>3. row[c].status # "issuing"
    BY <1>4 DEF Revoke, revokeAllowed
  <2> QED
    BY <2>1, <2>2, <2>3, DataStarted
<1>5. ASSUME NEW p \in Requests, NEW c \in CertIds, NEW deleteFiles \in BOOLEAN, Delete(p, c, deleteFiles) PROVE DiskInv'
  <2>1. op[p].pc = "idle" /\ Exists(c) /\ UNCHANGED <<life, row, disk>>
    BY <1>5 DEF Delete, Start, db, fs
  <2>2. /\ op'[p].cert = c /\ op'[p].pc \in {"get", "load", "updateSettings"}
        /\ \A q \in Requests \ {p} : op'[q] = op[q]
    BY <1>0, <1>5, DeleteStarts DEF Started
  <2>3. Harmless(p)'
    BY <1>0, <1>5, DeleteStarts DEF Harmless, Started
  <2> QED
    BY <2>1, <2>2, <2>3, DataStarted
<1>6. ASSUME NEW p \in Requests, NEW c \in CertIds, Update(p, c) PROVE DiskInv'
  <2>1. op[p].pc = "idle" /\ Exists(c) /\ UNCHANGED <<life, row, disk>>
    BY <1>6 DEF Update, Start, db, fs
  <2>2. /\ op'[p].cert = c /\ op'[p].pc \in {"get", "load", "updateSettings"}
        /\ \A q \in Requests \ {p} : op'[q] = op[q]
    BY <1>0, <1>6, UpdateStarts DEF Started
  <2>3. Harmless(p)'
    BY <1>0, <1>6, UpdateStarts DEF Harmless, Started
  <2> QED
    BY <2>1, <2>2, <2>3, DataStarted
<1>7. ASSUME NEW p \in Requests, Get(p) PROVE DiskInv'
  <2>1. UNCHANGED <<life, row, disk>>
    BY <1>7 DEF Get, db, fs
  <2>2. CASE Ended(p)
    BY <2>1, <2>2, DataEnded
  <2>3. CASE ~Ended(p)
    <3>1. /\ op[p].pc = "get" /\ op'[p].pc = "load" /\ op'[p].cert = op[p].cert
          /\ op'[p].kind = op[p].kind
          /\ \A q \in Requests \ {p} : op'[q] = op[q]
      BY <1>0, <1>7, <2>3, GetMoves
    <3>2. ~Creating(p)' /\ ~Writing(p)'
      BY <3>1 DEF Creating, Writing, OwnsBusy
    <3>3. ~Harmless(p)
      BY <1>0, <3>1 DEF Harmless, KindInv, KindOK
    <3> QED
      BY <2>1, <3>1, <3>2, <3>3, DataKept
  <2> QED
    BY <2>2, <2>3
<1>8. ASSUME NEW p \in Requests, LoadOrStore(p) PROVE DiskInv'
  <2>1. UNCHANGED <<life, row, disk>>
    BY <1>8 DEF LoadOrStore, db, fs
  <2>2. /\ op[p].pc = "load" /\ op'[p].pc = "tryLock" /\ op'[p].cert = op[p].cert
        /\ op'[p].kind = op[p].kind /\ op'[p].seen = op[p].seen
        /\ \A q \in Requests \ {p} : op'[q] = op[q]
    BY <1>0, <1>8, LoadMoves
  <2>3. ~Creating(p)' /\ ~Writing(p)' /\ (Harmless(p) => Harmless(p)')
    BY <2>2 DEF Creating, Writing, OwnsBusy, Harmless
  <2> QED
    BY <2>1, <2>2, <2>3, DataKept
<1>9. ASSUME NEW p \in Requests, TryLock(p) PROVE DiskInv'
  <2>1. op[p].pc = "tryLock" /\ UNCHANGED <<life, row, disk>>
    BY <1>9 DEF TryLock, db, fs
  <2>2. CASE Ended(p)
    BY <2>1, <2>2, DataEnded
  <2>3. CASE Moved(p, {AfterLock(p)})
    <3>1. ~Creating(p)' /\ ~Writing(p)' /\ (Harmless(p) => Harmless(p)') /\ op'[p].pc # "markDone"
      BY <1>0, <2>1, <2>3 DEF Moved, AfterLock, Creating, Writing, OwnsBusy, Issues, Harmless,
         KindInv, KindOK, Locks
    <3> QED
      BY <2>1, <2>3, <3>1, DataMoved
  <2> QED
    BY <1>0, <1>9, <2>2, <2>3, TryLockMoves
<1>10. ASSUME NEW p \in Requests, Check(p) PROVE DiskInv'
  <2>1. op[p].pc = "check" /\ UNCHANGED <<life, row, disk>>
    BY <1>10 DEF Check, db, fs
  <2>2. CASE Ended(p)
    BY <2>1, <2>2, DataEnded
  <2>3. CASE Moved(p, {"setBusy"})
    <3>1. op'[p].pc = "setBusy"
      BY <2>3 DEF Moved
    <3>2. op'[p] # Idle
      BY <3>1 DEF Idle, Handler
    <3>3. op[p].seen # "issuing"
      BY <1>0, <1>10, <3>2 DEF Check, Finish, Return, renewAllowed, manualIssueAllowed, TypeOK
    <3>4. ~Creating(p)' /\ ~Writing(p)' /\ ~Harmless(p)
      BY <1>0, <2>1, <3>1, <3>3 DEF Creating, Writing, OwnsBusy, Harmless, KindInv, KindOK
    <3> QED
      BY <2>1, <2>3, <3>1, <3>4, DataMoved
  <2> QED
    BY <1>0, <1>10, <2>2, <2>3, CheckMoves
<1>11. ASSUME NEW p \in Requests, SetBusy(p) PROVE DiskInv'
  <2>1. /\ op[p].pc = "setBusy" /\ op[p].cert \in CertIds /\ UNCHANGED <<life, disk>>
        /\ KindOK(op[p])
    BY <1>0, <1>11, HandlerCert DEF SetBusy, fs, KindInv
  <2>2. \A q \in Requests \ {p} : op[q].cert = op[p].cert /\ Exists(op[p].cert) => ~OwnsBusy(q)
    BY <2>1, IssuerIsAlone DEF Meddles
  <2>3. CASE Ended(p)
    <3>1. op'[p].pc = "idle"
      BY <2>3 DEF Ended, Idle, Handler
    <3>2. row' = row
      BY <1>0, <1>11, <3>1 DEF SetBusy, Goto, TypeOK, Op
    <3> QED
      BY <2>1, <2>3, <3>2, DataEnded
  <2>4. CASE Moved(p, {"createJob"})
    <3>1. op'[p].pc = "createJob" /\ op'[p].kind = op[p].kind
      BY <2>4 DEF Moved
    <3>2. op'[p] # Idle
      BY <3>1 DEF Idle, Handler
    <3>3. PICK s \in Busy : row' = SetStatus(op[p].cert, s)
      BY <1>0, <1>11, <3>2 DEF SetBusy, Finish, Return, TypeOK, Busy
    <3>4. \A c \in CertIds : c # op[p].cert \/ ~Exists(c) => row'[c] = row[c]
      BY <3>3 DEF SetStatus, UpdateRow
    <3>5. Exists(op[p].cert) => row'[op[p].cert].status \in Busy
      BY <1>0, <2>1, <3>3 DEF SetStatus, UpdateRow, TypeOK, Row
    <3>6. "active" \notin Busy /\ ~Creating(p)'
      BY <2>1, <3>1 DEF Busy, Creating, KindOK
    <3> QED
      BY <2>1, <2>2, <2>4, <3>1, <3>4, <3>5, <3>6, StatusWritten DEF Moved
  <2> QED
    BY <1>0, <1>11, <2>3, <2>4, SetBusyMoves
<1>12. ASSUME NEW p \in Requests, MarkNoJob(p) PROVE DiskInv'
  <2>1. /\ op[p].pc = "markNoJob" /\ op[p].cert \in CertIds /\ UNCHANGED <<life, disk>>
        /\ row' = row \/ row' = SetStatus(op[p].cert, "failed")
    BY <1>0, <1>12, HandlerCert DEF MarkNoJob, fs
  <2>2. \A q \in Requests \ {p} : op[q].cert = op[p].cert /\ Exists(op[p].cert) => ~OwnsBusy(q)
    BY <2>1, IssuerIsAlone DEF Meddles
  <2>3. \A c \in CertIds : c # op[p].cert \/ ~Exists(c) => row'[c] = row[c]
    BY <1>0, <2>1 DEF SetStatus, UpdateRow, TypeOK
  <2>4. /\ \A q \in Requests \ {p} : op'[q] = op[q]
        /\ op'[p].cert = op[p].cert \/ (op'[p].pc = "idle" /\ op'[p].cert \notin CertIds)
        /\ ~Creating(p)' /\ ~Writing(p)' /\ op'[p].pc # "markDone"
    BY <1>0, <1>12, MarkNoJobMoves DEF Ended, Idle, Handler, Creating, Writing, OwnsBusy
  <2>5. Exists(op[p].cert) /\ row'[op[p].cert].status = "active" /\ DirsDistinct
          => disk[DirOf[op[p].cert]] = row'[op[p].cert].serial
    <3>1. row'[op[p].cert] = row[op[p].cert] \/ row'[op[p].cert].status = "failed" \/ ~Exists(op[p].cert)
      BY <1>0, <2>1 DEF SetStatus, UpdateRow, TypeOK, Row
    <3> QED
      BY <2>1, <3>1 DEF Inv, DiskInv, ActiveMatchesDisk
  <2> QED
    BY <2>1, <2>2, <2>3, <2>4, <2>5, StatusWritten
<1>13. ASSUME NEW p \in Requests, MarkFailed(p) PROVE DiskInv'
  <2>1. /\ op[p].pc = "markFailed" /\ op[p].cert \in CertIds /\ UNCHANGED <<life, disk>>
        /\ row' = row \/ row' = SetStatus(op[p].cert, "failed")
    BY <1>0, <1>13, HandlerCert DEF MarkFailed, fs
  <2>2. \A q \in Requests \ {p} : op[q].cert = op[p].cert /\ Exists(op[p].cert) => ~OwnsBusy(q)
    BY <2>1, IssuerIsAlone DEF Meddles
  <2>3. \A c \in CertIds : c # op[p].cert \/ ~Exists(c) => row'[c] = row[c]
    BY <1>0, <2>1 DEF SetStatus, UpdateRow, TypeOK
  <2>4. /\ \A q \in Requests \ {p} : op'[q] = op[q]
        /\ op'[p].cert = op[p].cert \/ (op'[p].pc = "idle" /\ op'[p].cert \notin CertIds)
        /\ ~Creating(p)' /\ ~Writing(p)' /\ op'[p].pc # "markDone"
    BY <1>0, <1>13, MarkFailedMoves DEF Moved, Ended, Idle, Handler, Creating, Writing, OwnsBusy
  <2>5. Exists(op[p].cert) /\ row'[op[p].cert].status = "active" /\ DirsDistinct
          => disk[DirOf[op[p].cert]] = row'[op[p].cert].serial
    <3>1. row'[op[p].cert] = row[op[p].cert] \/ row'[op[p].cert].status = "failed" \/ ~Exists(op[p].cert)
      BY <1>0, <2>1 DEF SetStatus, UpdateRow, TypeOK, Row
    <3> QED
      BY <2>1, <3>1 DEF Inv, DiskInv, ActiveMatchesDisk
  <2> QED
    BY <2>1, <2>2, <2>3, <2>4, <2>5, StatusWritten
<1>14. ASSUME NEW p \in Requests, SetRevoked(p) PROVE DiskInv'
  <2>1. /\ op[p].pc = "setRevoked" /\ op[p].cert \in CertIds /\ UNCHANGED <<life, disk>>
        /\ row' = row \/ row' = SetStatus(op[p].cert, "revoked")
    BY <1>0, <1>14, HandlerCert DEF SetRevoked, fs
  <2>2. \A q \in Requests \ {p} : op[q].cert = op[p].cert /\ Exists(op[p].cert) => ~OwnsBusy(q)
    BY <2>1, IssuerIsAlone DEF Meddles
  <2>3. \A c \in CertIds : c # op[p].cert \/ ~Exists(c) => row'[c] = row[c]
    BY <1>0, <2>1 DEF SetStatus, UpdateRow, TypeOK
  <2>4. /\ \A q \in Requests \ {p} : op'[q] = op[q]
        /\ op'[p].cert = op[p].cert \/ (op'[p].pc = "idle" /\ op'[p].cert \notin CertIds)
        /\ ~Creating(p)' /\ ~Writing(p)' /\ op'[p].pc # "markDone"
    BY <1>0, <1>14, SetRevokedMoves DEF Moved, Ended, Idle, Handler, Creating, Writing, OwnsBusy
  <2>5. Exists(op[p].cert) /\ row'[op[p].cert].status = "active" /\ DirsDistinct
          => disk[DirOf[op[p].cert]] = row'[op[p].cert].serial
    <3>1. row'[op[p].cert] = row[op[p].cert] \/ row'[op[p].cert].status = "revoked" \/ ~Exists(op[p].cert)
      BY <1>0, <2>1 DEF SetStatus, UpdateRow, TypeOK, Row
    <3> QED
      BY <2>1, <3>1 DEF Inv, DiskInv, ActiveMatchesDisk
  <2> QED
    BY <2>1, <2>2, <2>3, <2>4, <2>5, StatusWritten
<1>15. ASSUME NEW p \in Requests, MarkDone(p) PROVE DiskInv'
  <2> DEFINE done == [row[op[p].cert] EXCEPT !.status = "active", !.serial = op[p].run]
  <2>1. /\ op[p].pc = "markDone" /\ op[p].cert \in CertIds /\ UNCHANGED <<life, disk>>
        /\ row' = row \/ row' = UpdateRow(op[p].cert, done)
    BY <1>0, <1>15, HandlerCert DEF MarkDone, fs
  <2>2. \A q \in Requests \ {p} : op[q].cert = op[p].cert /\ Exists(op[p].cert) => ~OwnsBusy(q)
    BY <2>1, IssuerIsAlone DEF Meddles
  <2>3. \A c \in CertIds : c # op[p].cert \/ ~Exists(c) => row'[c] = row[c]
    BY <1>0, <2>1 DEF UpdateRow, TypeOK
  <2>4. /\ \A q \in Requests \ {p} : op'[q] = op[q]
        /\ op'[p].cert = op[p].cert \/ (op'[p].pc = "idle" /\ op'[p].cert \notin CertIds)
        /\ ~Creating(p)' /\ ~Writing(p)' /\ op'[p].pc # "markDone"
    BY <1>0, <1>15, MarkDoneMoves DEF Moved, Ended, Idle, Handler, Creating, Writing, OwnsBusy
  <2>5. Exists(op[p].cert) /\ row'[op[p].cert].status = "active" /\ DirsDistinct
          => disk[DirOf[op[p].cert]] = row'[op[p].cert].serial
    <3>1. CASE row' = row
      BY <2>1, <3>1 DEF Inv, DiskInv, ActiveMatchesDisk
    <3>2. CASE row' = UpdateRow(op[p].cert, done)
      <4>1. Exists(op[p].cert) => row'[op[p].cert].serial = op[p].run
        BY <1>0, <2>1, <3>2 DEF UpdateRow, TypeOK, Row
      <4> QED
        BY <2>1, <4>1 DEF Inv, DiskInv, PublishedIsThere
    <3> QED
      BY <2>1, <3>1, <3>2
  <2> QED
    BY <2>1, <2>2, <2>3, <2>4, <2>5, StatusWritten
<1>16. ASSUME NEW p \in Requests, CreateJob(p) PROVE DiskInv'
  <2>1. /\ op[p].pc = "createJob" /\ UNCHANGED <<life, disk>>
        /\ \A c \in CertIds : row'[c].status = row[c].status /\ row'[c].serial = row[c].serial
    BY <1>0, <1>16 DEF CreateJob, db, fs
  <2>2. CASE Ended(p)
    BY <2>1, <2>2, DataEnded
  <2>3. CASE Moved(p, {"revokeCA", "engine", "markNoJob"})
    <3>1. /\ Writing(p)' => Writing(p)
          /\ Creating(p)' => Creating(p)
          /\ Harmless(p) => Harmless(p)'
          /\ op'[p].pc # "markDone"
      BY <1>0, <2>1, <2>3 DEF Moved, Creating, Writing, OwnsBusy, Issues, Harmless, KindInv, KindOK
    <3> QED
      BY <2>1, <2>3, <3>1, DataMoved
  <2> QED
    BY <1>0, <1>16, <2>2, <2>3, CreateJobMoves DEF Moved
<1>17. ASSUME NEW p \in Requests, Engine(p) PROVE DiskInv'
  <2>1. /\ op[p].pc = "engine" /\ UNCHANGED <<life, disk>>
        /\ \A c \in CertIds : row'[c].status = row[c].status /\ row'[c].serial = row[c].serial
    BY <1>0, <1>17 DEF Engine, db, fs
  <2>2. CASE Moved(p, {"publish", "finishFailed"})
    <3>1. /\ Writing(p)' => Writing(p)
          /\ Creating(p)' => Creating(p)
          /\ Harmless(p) => Harmless(p)'
          /\ op'[p].pc # "markDone"
      BY <1>0, <2>1, <2>2 DEF Moved, Creating, Writing, OwnsBusy, Issues, Harmless, KindInv, KindOK
    <3> QED
      BY <2>1, <2>2, <3>1, DataMoved
  <2> QED
    BY <1>0, <1>17, <2>2, EngineMoves
<1>18. ASSUME NEW p \in Requests, RevokeCA(p) PROVE DiskInv'
  <2>1. /\ op[p].pc = "revokeCA" /\ UNCHANGED <<life, disk>>
        /\ \A c \in CertIds : row'[c].status = row[c].status /\ row'[c].serial = row[c].serial
    BY <1>0, <1>18 DEF RevokeCA, db, fs
  <2>2. CASE Moved(p, {"setRevoked", "finishFailed"})
    <3>1. /\ Writing(p)' => Writing(p)
          /\ Creating(p)' => Creating(p)
          /\ Harmless(p) => Harmless(p)'
          /\ op'[p].pc # "markDone"
      BY <1>0, <2>1, <2>2 DEF Moved, Creating, Writing, OwnsBusy, Issues, Harmless, KindInv, KindOK
    <3> QED
      BY <2>1, <2>2, <3>1, DataMoved
  <2> QED
    BY <1>0, <1>18, <2>2, RevokeCAMoves
<1>19. ASSUME NEW p \in Requests, FinishFailed(p) PROVE DiskInv'
  <2>1. /\ op[p].pc = "finishFailed" /\ UNCHANGED <<life, disk>>
        /\ \A c \in CertIds : row'[c].status = row[c].status /\ row'[c].serial = row[c].serial
    BY <1>0, <1>19 DEF FinishFailed, db, fs
  <2>2. CASE Moved(p, {"auditFailed", "markFailed"})
    <3>1. /\ Writing(p)' => Writing(p)
          /\ Creating(p)' => Creating(p)
          /\ Harmless(p) => Harmless(p)'
          /\ op'[p].pc # "markDone"
      BY <1>0, <2>1, <2>2 DEF Moved, Creating, Writing, OwnsBusy, Issues, Harmless, KindInv, KindOK
    <3> QED
      BY <2>1, <2>2, <3>1, DataMoved
  <2> QED
    BY <1>0, <1>19, <2>2, FinishFailedMoves DEF Moved
<1>20. ASSUME NEW p \in Requests, AuditFailed(p) PROVE DiskInv'
  <2>1. /\ op[p].pc = "auditFailed" /\ UNCHANGED <<life, disk>>
        /\ \A c \in CertIds : row'[c].status = row[c].status /\ row'[c].serial = row[c].serial
    BY <1>0, <1>20 DEF AuditFailed, db, fs
  <2>2. CASE Ended(p)
    BY <2>1, <2>2, DataEnded
  <2> QED
    BY <1>0, <1>20, <2>2, AuditFailedMoves
<1>21. ASSUME NEW p \in Requests, FinishDone(p) PROVE DiskInv'
  <2>1. /\ op[p].pc = "finishDone" /\ UNCHANGED <<life, disk>>
        /\ \A c \in CertIds : row'[c].status = row[c].status /\ row'[c].serial = row[c].serial
    BY <1>0, <1>21 DEF FinishDone, db, fs
  <2>2. CASE Moved(p, {"auditDone"})
    <3>1. /\ Writing(p)' => Writing(p)
          /\ Creating(p)' => Creating(p)
          /\ Harmless(p) => Harmless(p)'
          /\ op'[p].pc # "markDone"
      BY <1>0, <2>1, <2>2 DEF Moved, Creating, Writing, OwnsBusy, Issues, Harmless, KindInv, KindOK
    <3> QED
      BY <2>1, <2>2, <3>1, DataMoved
  <2> QED
    BY <1>0, <1>21, <2>2, FinishDoneMoves
<1>22. ASSUME NEW p \in Requests, AuditDone(p) PROVE DiskInv'
  <2>1. /\ op[p].pc = "auditDone" /\ UNCHANGED <<life, disk>>
        /\ \A c \in CertIds : row'[c].status = row[c].status /\ row'[c].serial = row[c].serial
    BY <1>0, <1>22 DEF AuditDone, db, fs
  <2>2. CASE Ended(p)
    BY <2>1, <2>2, DataEnded
  <2> QED
    BY <1>0, <1>22, <2>2, AuditDoneMoves
<1>23. ASSUME NEW p \in Requests, UpdateSettings(p) PROVE DiskInv'
  <2>1. op[p].pc = "updateSettings" /\ op[p].cert \in CertIds /\ UNCHANGED <<life, disk>>
    BY <1>0, <1>23, HandlerCert DEF UpdateSettings, fs
  <2>2. \A auto \in BOOLEAN : /\ [row[op[p].cert] EXCEPT !.autoRenew = auto].status = row[op[p].cert].status
                              /\ [row[op[p].cert] EXCEPT !.autoRenew = auto].serial = row[op[p].cert].serial
    BY <1>0, <2>1 DEF TypeOK, Row
  <2>3. row' = row \/ \E r : /\ row' = [row EXCEPT ![op[p].cert] = r]
                            /\ r.status = row[op[p].cert].status /\ r.serial = row[op[p].cert].serial
    BY <1>23, <2>2 DEF UpdateSettings
  <2>4. \A c \in CertIds : row'[c].status = row[c].status /\ row'[c].serial = row[c].serial
    BY <1>0, <2>1, <2>3 DEF TypeOK
  <2>5. CASE Ended(p)
    BY <2>1, <2>4, <2>5, DataEnded
  <2>6. CASE Moved(p, {"auditDone"})
    <3>1. ~Writing(p)' /\ ~Creating(p)' /\ op'[p].pc # "markDone" /\ (Harmless(p) => Harmless(p)')
      BY <2>1, <2>6 DEF Moved, Creating, Writing, OwnsBusy, Harmless
    <3> QED
      BY <2>1, <2>4, <2>6, <3>1, DataMoved
  <2> QED
    BY <1>0, <1>23, <2>5, <2>6, UpdateSettingsMoves
<1>24. ASSUME NEW p \in Requests, Backup(p) PROVE DiskInv'
  <2>1. /\ op[p].pc = "backup" /\ UNCHANGED <<life, disk>>
        /\ \A c \in CertIds : row'[c].status = row[c].status /\ row'[c].serial = row[c].serial
    BY <1>0, <1>24 DEF Backup, db, fs
  <2>2. CASE Moved(p, {"deleteRow", "auditFailed"})
    <3>1. /\ Writing(p)' => Writing(p)
          /\ Creating(p)' => Creating(p)
          /\ Harmless(p) => Harmless(p)'
          /\ op'[p].pc # "markDone"
      BY <1>0, <2>1, <2>2 DEF Moved, Creating, Writing, OwnsBusy, Issues, Harmless, KindInv, KindOK
    <3> QED
      BY <2>1, <2>2, <3>1, DataMoved
  <2> QED
    BY <1>0, <1>24, <2>2, BackupMoves
<1>25. ASSUME NEW p \in Requests, ForgetLock(p) PROVE DiskInv'
  <2>1. /\ op[p].pc = "forgetLock" /\ UNCHANGED <<life, disk>>
        /\ \A c \in CertIds : row'[c].status = row[c].status /\ row'[c].serial = row[c].serial
    BY <1>0, <1>25 DEF ForgetLock, db, fs
  <2>2. CASE Ended(p)
    BY <2>1, <2>2, DataEnded
  <2> QED
    BY <1>0, <1>25, <2>2, ForgetLockMoves
<1>26. ASSUME NEW p \in Requests, Publish(p) PROVE DiskInv'
  <2>1. /\ op[p].pc = "publish" /\ UNCHANGED <<life, disk>>
        /\ \A c \in CertIds : row'[c].status = row[c].status /\ row'[c].serial = row[c].serial
    BY <1>0, <1>26 DEF Publish, db, fs
  <2>2. CASE Moved(p, {"moveAside", "swap", "finishFailed"})
    <3>1. /\ Writing(p)' => Writing(p)
          /\ Creating(p)' => Creating(p)
          /\ Harmless(p) => Harmless(p)'
          /\ op'[p].pc # "markDone"
      BY <1>0, <2>1, <2>2 DEF Moved, Creating, Writing, OwnsBusy, Issues, Harmless, KindInv, KindOK
    <3> QED
      BY <2>1, <2>2, <3>1, DataMoved
  <2> QED
    BY <1>0, <1>26, <2>2, PublishMoves
<1>27. ASSUME NEW p \in Requests, Swap(p) PROVE DiskInv'
  <2>1. op[p].pc = "swap" /\ op[p].cert \in CertIds /\ KindOK(op[p]) /\ UNCHANGED <<life, row>>
    BY <1>0, <1>27, HandlerCert DEF Swap, db, KindInv
  <2>2. Moved(p, {"markDone", "finishFailed"})
    BY <1>0, <1>27, SwapMoves
  <2>3. \A d \in Dirs : d # DirOf[op[p].cert] => disk'[d] = disk[d]
    BY <1>0, <1>27 DEF Swap, DirOfOp, TypeOK
  <2>4. Writing(p)
    BY <2>1 DEF Writing, OwnsBusy, KindOK
  <2>5. \/ ~Exists(op[p].cert)
        \/ /\ row[op[p].cert].status \in Busy
           /\ \A q \in Requests \ {p} : op[q].cert = op[p].cert => ~OwnsBusy(q)
    BY <2>1, <2>4, IssuerIsAlone DEF Inv, DiskInv, WritingIsBusy, Meddles
  <2>6. Creating(p)' => Creating(p)
    BY <2>2, <2>4 DEF Moved, Creating, Writing, OwnsBusy
  <2>7. op'[p].pc = "markDone" => disk'[DirOf[op[p].cert]] = op'[p].run
    <3>1. DirOf[op[p].cert] \in Dirs
      BY <2>1
    <3>2. op'[p].pc = "markDone" => disk' = [disk EXCEPT ![DirOfOp(p)] = op[p].run]
      BY <1>0, <1>27 DEF Swap, Goto, TypeOK, Op
    <3> QED
      BY <1>0, <2>2, <3>1, <3>2 DEF Moved, DirOfOp, TypeOK
  <2> QED
    BY <2>1, <2>2, <2>3, <2>4, <2>5, <2>6, <2>7, DirectoryWritten DEF Moved
<1>28. ASSUME NEW p \in Requests, RemoveFirst(p) PROVE DiskInv'
  <2>1. op[p].pc = "removeFirst" /\ op[p].cert \in CertIds /\ UNCHANGED <<life, row>>
    BY <1>0, <1>28, HandlerCert DEF RemoveFirst, db
  <2>2. ~Exists(op[p].cert)
    BY <1>0, <2>1 DEF LockInv, NewMutexOnlyAfterDelete, Exists
  <2>3. \A d \in Dirs : d # DirOf[op[p].cert] => disk'[d] = disk[d]
    BY <1>0, <1>28 DEF RemoveFirst, DirOfOp, TypeOK
  <2>4. /\ \A q \in Requests \ {p} : op'[q] = op[q]
        /\ op'[p].cert = op[p].cert \/ (op'[p].pc = "idle" /\ op'[p].cert \notin CertIds)
        /\ ~Creating(p)' /\ ~Writing(p)' /\ op'[p].pc # "markDone"
    BY <1>0, <1>28, RemoveFirstMoves DEF Moved, Ended, Idle, Handler, Creating, Writing, OwnsBusy
  <2> QED
    BY <2>1, <2>2, <2>3, <2>4, DirectoryWritten
<1>29. ASSUME NEW p \in Requests, RemoveRest(p) PROVE DiskInv'
  <2>1. op[p].pc = "removeRest" /\ op[p].cert \in CertIds /\ UNCHANGED <<life, row>>
    BY <1>0, <1>29, HandlerCert DEF RemoveRest, db
  <2>2. ~Exists(op[p].cert)
    BY <1>0, <2>1 DEF LockInv, NewMutexOnlyAfterDelete, Exists
  <2>3. \A d \in Dirs : d # DirOf[op[p].cert] => disk'[d] = disk[d]
    BY <1>0, <1>29 DEF RemoveRest, DirOfOp, TypeOK
  <2>4. /\ \A q \in Requests \ {p} : op'[q] = op[q]
        /\ op'[p].cert = op[p].cert \/ (op'[p].pc = "idle" /\ op'[p].cert \notin CertIds)
        /\ ~Creating(p)' /\ ~Writing(p)' /\ op'[p].pc # "markDone"
    BY <1>0, <1>29, RemoveRestMoves DEF Moved, Ended, Idle, Handler, Creating, Writing, OwnsBusy
  <2> QED
    BY <2>1, <2>2, <2>3, <2>4, DirectoryWritten
<1>30. ASSUME NEW p \in Requests, DeleteRow(p) PROVE DiskInv'
  <2>1. op[p].pc = "deleteRow" /\ op[p].cert \in CertIds /\ op[p].kind = "delete" /\ UNCHANGED <<row, disk>>
    BY <1>0, <1>30, HandlerCert DEF DeleteRow, fs, KindInv, KindOK
  <2>2. \A c \in CertIds : life'[c] = life[c] \/ life'[c] = "deleted"
    BY <1>0, <1>30 DEF DeleteRow, TypeOK
  <2>3. /\ \A q \in Requests \ {p} : op'[q] = op[q]
        /\ op'[p].pc = "idle" \/ (op'[p].cert = op[p].cert /\ op'[p].kind = op[p].kind)
        /\ op'[p].cert = op[p].cert \/ op'[p].cert \notin CertIds
        /\ op'[p].cert \in CertIds => op'[p].pc # "idle"
        /\ ~Creating(p)' /\ ~Writing(p)' /\ op'[p].pc # "markDone"
    BY <1>0, <1>30, DeleteRowMoves DEF Moved, Ended, Idle, Handler, Creating, Writing, OwnsBusy
  <2>4. \A q \in Requests : op[q].pc # "idle" => op[q].cert \in CertIds
    BY <1>0, HandlerCert
  <2>5. HandlersKnowRows'
    BY <2>1, <2>2, <2>3, <2>4 DEF Inv, DiskInv, HandlersKnowRows
  <2>6. CreatingIsIssuing'
    BY <2>1, <2>2, <2>3, <2>4 DEF Inv, DiskInv, CreatingIsIssuing, Creating, OwnsBusy, Exists
  <2>7. CreatingIsAlone'
    <3> SUFFICES ASSUME NEW a \in Requests, NEW b \in Requests, Creating(a)', Exists(op[a].cert)',
                        b # a, op'[b].cert = op'[a].cert
                 PROVE  Harmless(b)'
      BY DEF CreatingIsAlone
    <3>1. a # p /\ Creating(a) /\ op'[a] = op[a]
      BY <2>3 DEF Creating, OwnsBusy
    <3>2. op[a].cert \in CertIds
      BY <2>4, <3>1 DEF Creating, OwnsBusy
    <3>3. Exists(op[a].cert)
      BY <2>2, <3>1, <3>2 DEF Exists
    <3>4. op[b].cert = op[a].cert /\ (b = p => op'[b].cert \in CertIds)
      BY <2>3, <3>1, <3>2
    <3>5. Harmless(b)
      BY <3>1, <3>3, <3>4 DEF Inv, DiskInv, CreatingIsAlone
    <3>6. CASE b = p
      <4>1. op'[p].pc # "idle"
        BY <2>3, <3>4, <3>6
      <4> QED
        BY <2>1, <2>3, <3>6, <4>1 DEF Harmless
    <3>7. CASE b # p
      BY <2>3, <3>5, <3>7 DEF Harmless
    <3> QED
      BY <3>6, <3>7
  <2>8. WritingIsBusy'
    BY <2>1, <2>2, <2>3, <2>4 DEF Inv, DiskInv, WritingIsBusy, Writing, OwnsBusy, Exists
  <2>9. PublishedIsThere' /\ ActiveMatchesDisk'
    BY <2>1, <2>2, <2>3, <2>4 DEF Inv, DiskInv, PublishedIsThere, ActiveMatchesDisk, Exists
  <2> QED
    BY <2>5, <2>6, <2>7, <2>8, <2>9 DEF DiskInv
<1>31. CASE Restart
  <2>1. (\A p \in Requests : op'[p].pc = "idle") /\ UNCHANGED <<life, row, disk>>
    BY <1>31 DEF Restart, Idle, Handler, fs
  <2> QED
    BY <2>1 DEF Inv, DiskInv, HandlersKnowRows, CreatingIsIssuing, CreatingIsAlone, WritingIsBusy,
       PublishedIsThere, ActiveMatchesDisk, Creating, Writing, OwnsBusy, Exists
<1>32. CASE UNCHANGED vars
  BY <1>32 DEF vars, Inv, DiskInv, HandlersKnowRows, CreatingIsIssuing, CreatingIsAlone, WritingIsBusy,
     PublishedIsThere, ActiveMatchesDisk, Creating, Writing, OwnsBusy, Harmless, Exists
<1>33. ASSUME NEW p \in Requests, MoveAside(p) PROVE DiskInv'
  <2>1. op[p].pc = "moveAside" /\ op[p].cert \in CertIds /\ KindOK(op[p]) /\ UNCHANGED <<life, row>>
    BY <1>0, <1>33, HandlerCert DEF MoveAside, db, KindInv
  <2>2. Moved(p, {"swap", "finishFailed"})
    BY <1>0, <1>33, MoveAsideMoves
  <2>3. \A d \in Dirs : d # DirOf[op[p].cert] => disk'[d] = disk[d]
    BY <1>0, <1>33 DEF MoveAside, DirOfOp, TypeOK
  <2>4. Writing(p)
    BY <2>1 DEF Writing, OwnsBusy, KindOK
  <2>5. \/ ~Exists(op[p].cert)
        \/ /\ row[op[p].cert].status \in Busy
           /\ \A q \in Requests \ {p} : op[q].cert = op[p].cert => ~OwnsBusy(q)
    BY <2>1, <2>4, IssuerIsAlone DEF Inv, DiskInv, WritingIsBusy, Meddles
  <2>6. Creating(p)' => Creating(p)
    BY <2>2, <2>4 DEF Moved, Creating, Writing, OwnsBusy
  <2>7. op'[p].pc = "markDone" => disk'[DirOf[op[p].cert]] = op'[p].run
    BY <2>2 DEF Moved
  <2> QED
    BY <2>1, <2>2, <2>3, <2>4, <2>5, <2>6, <2>7, DirectoryWritten DEF Moved
<1> QED
  BY <1>1, <1>2, <1>3, <1>4, <1>5, <1>6, <1>7, <1>8, <1>9, <1>10, <1>11, <1>12,
     <1>13, <1>14, <1>15, <1>16, <1>17, <1>18, <1>19, <1>20, <1>21, <1>22, <1>23, <1>24,
     <1>25, <1>26, <1>27, <1>28, <1>29, <1>30, <1>31, <1>32, <1>33
     DEF Next, Begin, Step

\* Without certificates the disk invariant holds.
LEMMA DiskInit == Init => DiskInv
<1> SUFFICES ASSUME Init PROVE DiskInv
  OBVIOUS
<1>1. (\A p \in Requests : op[p].pc = "idle") /\ (\A c \in CertIds : life[c] = "unborn")
  BY DEF Init, Idle, Handler
<1> QED
  BY <1>1 DEF DiskInv, HandlersKnowRows, CreatingIsIssuing, CreatingIsAlone, WritingIsBusy,
     PublishedIsThere, ActiveMatchesDisk, Creating, Writing, OwnsBusy, Exists

-----------------------------------------------------------------------------
(* What is published *)

\* With one directory per certificate, a certificate listed as active has the
\* serial number of its row published, after any failures and restarts.
THEOREM ActiveIsPublished == Spec => []ActiveMatchesDisk
<1>1. Init => Inv
  BY TypeInit, LockInit, DiskInit DEF Inv
<1>2. Inv /\ [Next]_vars => Inv'
  BY TypeStep, LockStep, DiskStep DEF Inv
<1>3. Inv => ActiveMatchesDisk
  BY DEF Inv, DiskInv
<1> QED
  BY <1>1, <1>2, <1>3, PTL DEF Spec

-----------------------------------------------------------------------------
(* A certificate that nobody is issuing has its files published, as long   *)
(* as the database does not fail and a directory moved aside can be moved  *)
(* back.                                                                   *)

\* What was issued before, if anything, is published.
Good(c) == row[c].serial # 0 => disk[DirOf[c]] = row[c].serial

\* A handler that issues leaves the published files alone until it renames the
\* directory, and between its two renames it holds them itself.
Prepared(p) ==
    /\ op[p].pc \notin {"swap", "markDone"} => Good(op[p].cert)
    /\ op[p].pc = "swap" =>
         /\ disk[DirOf[op[p].cert]] = Absent
         /\ row[op[p].cert].serial # 0 => op[p].stash = row[op[p].cert].serial

\* A handler that will not write the status of a certificate a crash has left
\* issuing or renewing: it has read that status and will be rejected.
Stale(q) ==
    \/ op[q].kind \in {"delete", "update"}
    \/ op[q].pc = "get"
    \/ /\ op[q].kind \in {"issue", "renew", "force_renew"}
       /\ op[q].pc \in {"load", "tryLock", "check"}
       /\ op[q].seen \in Busy

Settle(c) ==
    Exists(c) =>
        /\ row[c].status \notin Busy => Good(c)
        /\ \A p \in Requests : op[p].cert = c /\ OwnsBusy(p) => Prepared(p)
        /\ row[c].status \in Busy =>
             \/ \E p \in Requests : op[p].cert = c /\ OwnsBusy(p)
             \/ \A q \in Requests : op[q].cert = c => Stale(q)

SettleInv == \A c \in CertIds : Settle(c)

\* A step that touches neither the row nor the directory of c, made by a handler
\* that does not issue c.
LEMMA SettleKept ==
  ASSUME NEW p \in Requests, NEW c \in CertIds, Settle(c),
         \A q \in Requests \ {p} : op'[q] = op[q],
         life'[c] = life[c], row'[c].status = row[c].status, row'[c].serial = row[c].serial,
         disk'[DirOf[c]] = disk[DirOf[c]],
         op[p].cert = c => ~OwnsBusy(p),
         op'[p].cert = c => ~OwnsBusy(p)',
         op'[p].cert = c /\ row[c].status \in Busy /\ (op[p].cert = c => Stale(p)) => Stale(p)'
  PROVE  Settle(c)'
<1> SUFFICES ASSUME Exists(c)' PROVE /\ row'[c].status \notin Busy => Good(c)'
                                     /\ \A q \in Requests : op'[q].cert = c /\ OwnsBusy(q)' => Prepared(q)'
                                     /\ row'[c].status \in Busy =>
                                          \/ \E q \in Requests : op'[q].cert = c /\ OwnsBusy(q)'
                                          \/ \A q \in Requests : op'[q].cert = c => Stale(q)'
  BY DEF Settle
<1>1. Exists(c)
  BY DEF Exists
<1>2. row'[c].status \notin Busy => Good(c)'
  BY <1>1 DEF Settle, Good
<1>3. ASSUME NEW q \in Requests, op'[q].cert = c, OwnsBusy(q)' PROVE Prepared(q)'
  <2>1. q # p /\ op'[q] = op[q] /\ OwnsBusy(q)
    BY <1>3 DEF OwnsBusy
  <2>2. Prepared(q)
    BY <1>1, <1>3, <2>1 DEF Settle
  <2> QED
    BY <1>3, <2>1, <2>2 DEF Prepared, Good
<1>4. ASSUME row'[c].status \in Busy, NEW q \in Requests, op[q].cert = c, OwnsBusy(q)
      PROVE  op'[q].cert = c /\ OwnsBusy(q)'
  BY <1>4 DEF OwnsBusy
<1>5. ASSUME row'[c].status \in Busy, \A q \in Requests : op[q].cert = c => Stale(q),
             NEW q \in Requests, op'[q].cert = c
      PROVE  Stale(q)'
  BY <1>5 DEF Stale
<1> QED
  BY <1>1, <1>2, <1>3, <1>4, <1>5 DEF Settle

\* The handler that issues c moves on.
LEMMA SettleOwned ==
  ASSUME NEW p \in Requests, NEW c \in CertIds, Settle(c), op'[p].cert = c, OwnsBusy(p)', Prepared(p)',
         \A q \in Requests \ {p} : op'[q] = op[q],
         \/ /\ life'[c] = life[c] /\ row'[c].status = row[c].status
            /\ row'[c].serial = row[c].serial /\ disk'[DirOf[c]] = disk[DirOf[c]]
         \/ /\ row'[c].status \in Busy
            /\ \A q \in Requests \ {p} : op[q].cert = c => ~OwnsBusy(q)
  PROVE  Settle(c)'
<1> SUFFICES ASSUME Exists(c)' PROVE /\ row'[c].status \notin Busy => Good(c)'
                                     /\ \A q \in Requests : op'[q].cert = c /\ OwnsBusy(q)' => Prepared(q)'
  BY DEF Settle
<1>1. row'[c].status \notin Busy => Good(c)'
  BY DEF Settle, Good, Exists
<1>2. ASSUME NEW q \in Requests, op'[q].cert = c, OwnsBusy(q)' PROVE Prepared(q)'
  <2>1. CASE q = p
    BY <2>1
  <2>2. CASE q # p
    <3>1. op'[q] = op[q] /\ OwnsBusy(q)
      BY <1>2, <2>2 DEF OwnsBusy
    <3>2. Exists(c) /\ Prepared(q) /\ row'[c].serial = row[c].serial /\ disk'[DirOf[c]] = disk[DirOf[c]]
      BY <1>2, <2>2, <3>1 DEF Settle, Exists
    <3> QED
      BY <1>2, <3>1, <3>2 DEF Prepared, Good
  <2> QED
    BY <2>1, <2>2
<1> QED
  BY <1>1, <1>2

\* The handler that issued c, or revoked it, writes a final status.
LEMMA SettleDone ==
  ASSUME NEW p \in Requests, NEW c \in CertIds,
         \A q \in Requests \ {p} : op'[q] = op[q],
         \A q \in Requests \ {p} : op[q].cert = c /\ Exists(c)' => ~OwnsBusy(q),
         op'[p].cert = c => ~OwnsBusy(p)',
         Exists(c)' => row'[c].status \notin Busy /\ Good(c)'
  PROVE  Settle(c)'
<1>1. ASSUME Exists(c)', NEW q \in Requests, op'[q].cert = c PROVE ~OwnsBusy(q)'
  BY <1>1 DEF OwnsBusy
<1> QED
  BY <1>1 DEF Settle

\* MarkCertificateFailed and SetCertificateStatus write one column of one row.
LEMMA StatusSet ==
  ASSUME TypeOK, NEW c \in CertIds, NEW s \in Statuses, row' = SetStatus(c, s)
  PROVE  /\ \A b \in CertIds \ {c} : row'[b] = row[b]
         /\ row'[c].serial = row[c].serial
         /\ Exists(c) => row'[c].status = s
<1> DEFINE r == [row[c] EXCEPT !.status = s]
<1>1. row \in [CertIds -> Row] /\ r.status = s /\ r.serial = row[c].serial
  BY DEF TypeOK, Row
<1>2. row' = IF Exists(c) THEN [row EXCEPT ![c] = r] ELSE row
  BY DEF SetStatus, UpdateRow
<1> HIDE DEF r
<1> QED
  BY <1>1, <1>2

\* MarkCertificateIssued and MarkCertificateRenewed record the new serial number.
LEMMA DoneMarked ==
  ASSUME TypeOK, KindInv, NEW p \in Requests, MarkDone(p)
  PROVE  /\ \A b \in CertIds \ {op[p].cert} : row'[b] = row[b]
         /\ "db" \notin Faults /\ Exists(op[p].cert) =>
              row'[op[p].cert].status = "active" /\ row'[op[p].cert].serial = op[p].run
<1> DEFINE c == op[p].cert
           r == [row[c] EXCEPT !.status = "active", !.serial = op[p].run]
<1>1. row \in [CertIds -> Row] /\ c \in CertIds
  BY HandlerCert DEF TypeOK, MarkDone
<1>2. r.status = "active" /\ r.serial = op[p].run
  BY <1>1 DEF Row
<1>3. row' = row \/ row' = [row EXCEPT ![c] = r]
  BY DEF MarkDone, UpdateRow
<1>4. "db" \notin Faults /\ Exists(c) => row' = [row EXCEPT ![c] = r]
  BY DEF MarkDone, UpdateRow, May
<1> HIDE DEF r
<1> QED
  BY <1>1, <1>2, <1>3, <1>4

\* Update writes the settings only.
LEMMA SettingsSet ==
  ASSUME TypeOK, KindInv, NEW p \in Requests, UpdateSettings(p)
  PROVE  /\ \A b \in CertIds \ {op[p].cert} : row'[b] = row[b]
         /\ row'[op[p].cert].status = row[op[p].cert].status
         /\ row'[op[p].cert].serial = row[op[p].cert].serial
<1> DEFINE c == op[p].cert
<1>1. row \in [CertIds -> Row] /\ c \in CertIds
  BY HandlerCert DEF TypeOK, UpdateSettings
<1>2. \A auto \in BOOLEAN :
                LET r == [row[c] EXCEPT !.autoRenew = auto]
                IN r.status = row[c].status /\ r.serial = row[c].serial
  BY <1>1 DEF Row
<1>3. row' = row \/ \E r : /\ row' = [row EXCEPT ![c] = r]
                           /\ r.status = row[c].status /\ r.serial = row[c].serial
  BY <1>2, ConstantsAssumption DEF UpdateSettings
<1> QED
  BY <1>1, <1>3

\* A handler touches the row and the directory of its own certificate only.
Elsewhere(p) ==
    /\ \A c \in CertIds \ {op[p].cert} : life'[c] = life[c] /\ row'[c] = row[c]
    /\ \A d \in Dirs \ {DirOf[op[p].cert]} : disk'[d] = disk[d]
    /\ \A q \in Requests \ {p} : op'[q] = op[q]
    /\ op'[p].cert = op[p].cert \/ op'[p].cert = NoCert

\* No call of a handler touches the row or the directory of another certificate.
LEMMA StepElsewhere ==
  ASSUME TypeOK, KindInv, NEW p \in Requests, Step(p)
  PROVE  Elsewhere(p)
<1>1. CASE Get(p)
  <2>1. /\ \A q \in Requests \ {p} : op'[q] = op[q]
        /\ op'[p].cert = op[p].cert \/ op'[p].cert = NoCert
    BY <1>1, GetMoves DEF Ended, Idle, Handler
  <2> QED
    BY <1>1, <2>1 DEF Get, Elsewhere, db, fs
<1>2. CASE LoadOrStore(p)
  BY <1>2, LoadMoves DEF LoadOrStore, Elsewhere, Moved, Ended, Idle, Handler, db, fs
<1>3. CASE TryLock(p)
  BY <1>3, TryLockMoves DEF TryLock, Elsewhere, Moved, Ended, Idle, Handler, db, fs
<1>4. CASE Check(p)
  BY <1>4, CheckMoves DEF Check, Elsewhere, Moved, Ended, Idle, Handler, db, fs
<1>5. CASE SetBusy(p)
  <2>1. \A c \in CertIds \ {op[p].cert} : row'[c] = row[c]
    BY <1>5, HandlerCert, StatusSet DEF SetBusy, Statuses
  <2> QED
    BY <1>5, <2>1, SetBusyMoves DEF SetBusy, Elsewhere, Moved, Ended, Idle, Handler, fs
<1>6. CASE CreateJob(p)
  BY <1>6, CreateJobMoves DEF CreateJob, Elsewhere, Moved, Ended, Idle, Handler, db, fs
<1>7. CASE MarkNoJob(p)
  <2>1. \A c \in CertIds \ {op[p].cert} : row'[c] = row[c]
    BY <1>7, HandlerCert, StatusSet DEF MarkNoJob, Statuses
  <2> QED
    BY <1>7, <2>1, MarkNoJobMoves DEF MarkNoJob, Elsewhere, Moved, Ended, Idle, Handler, fs
<1>8. CASE Engine(p)
  BY <1>8, EngineMoves DEF Engine, Elsewhere, Moved, Ended, Idle, Handler, db, fs
<1>9. CASE Publish(p)
  BY <1>9, PublishMoves DEF Publish, Elsewhere, Moved, Ended, Idle, Handler, db, fs
<1>10. CASE MoveAside(p)
  BY <1>10, MoveAsideMoves DEF MoveAside, Elsewhere, Moved, Ended, Idle, Handler, db, TypeOK, DirOfOp
<1>11. CASE Swap(p)
  BY <1>11, SwapMoves DEF Swap, Elsewhere, Moved, Ended, Idle, Handler, db, TypeOK, DirOfOp
<1>12. CASE MarkDone(p)
  <2>1. \A c \in CertIds \ {op[p].cert} : row'[c] = row[c]
    BY <1>12, DoneMarked
  <2>2. /\ \A q \in Requests \ {p} : op'[q] = op[q]
        /\ op'[p].cert = op[p].cert \/ op'[p].cert = NoCert
    BY <1>12, MarkDoneMoves DEF Moved, Ended, Idle, Handler
  <2> QED
    BY <1>12, <2>1, <2>2 DEF MarkDone, Elsewhere, fs
<1>13. CASE RevokeCA(p)
  BY <1>13, RevokeCAMoves DEF RevokeCA, Elsewhere, Moved, Ended, Idle, Handler, db, fs
<1>14. CASE SetRevoked(p)
  <2>1. \A c \in CertIds \ {op[p].cert} : row'[c] = row[c]
    BY <1>14, HandlerCert, StatusSet DEF SetRevoked, Statuses
  <2> QED
    BY <1>14, <2>1, SetRevokedMoves DEF SetRevoked, Elsewhere, Moved, Ended, Idle, Handler, fs
<1>15. CASE FinishFailed(p)
  BY <1>15, FinishFailedMoves DEF FinishFailed, Elsewhere, Moved, Ended, Idle, Handler, db, fs
<1>16. CASE MarkFailed(p)
  <2>1. \A c \in CertIds \ {op[p].cert} : row'[c] = row[c]
    BY <1>16, HandlerCert, StatusSet DEF MarkFailed, Statuses
  <2> QED
    BY <1>16, <2>1, MarkFailedMoves DEF MarkFailed, Elsewhere, Moved, Ended, Idle, Handler, fs
<1>17. CASE AuditFailed(p)
  BY <1>17, AuditFailedMoves DEF AuditFailed, Elsewhere, Moved, Ended, Idle, Handler, db, fs
<1>18. CASE FinishDone(p)
  BY <1>18, FinishDoneMoves DEF FinishDone, Elsewhere, Moved, Ended, Idle, Handler, db, fs
<1>19. CASE AuditDone(p)
  BY <1>19, AuditDoneMoves DEF AuditDone, Elsewhere, Moved, Ended, Idle, Handler, db, fs
<1>20. CASE UpdateSettings(p)
  <2>1. \A c \in CertIds \ {op[p].cert} : row'[c] = row[c]
    BY <1>20, SettingsSet
  <2>2. /\ \A q \in Requests \ {p} : op'[q] = op[q]
        /\ op'[p].cert = op[p].cert \/ op'[p].cert = NoCert
    BY <1>20, UpdateSettingsMoves DEF Moved, Ended, Idle, Handler
  <2> QED
    BY <1>20, <2>1, <2>2 DEF UpdateSettings, Elsewhere, fs
<1>21. CASE Backup(p)
  BY <1>21, BackupMoves DEF Backup, Elsewhere, Moved, Ended, Idle, Handler, db, fs
<1>22. CASE DeleteRow(p)
  <2>1. \A c \in CertIds \ {op[p].cert} : life'[c] = life[c]
    BY <1>22 DEF DeleteRow, TypeOK
  <2>2. /\ \A q \in Requests \ {p} : op'[q] = op[q]
        /\ op'[p].cert = op[p].cert \/ op'[p].cert = NoCert
    BY <1>22, DeleteRowMoves DEF Moved, Ended, Idle, Handler
  <2>3. \A c \in CertIds \ {op[p].cert} : row'[c] = row[c]
    BY <1>22 DEF DeleteRow, TypeOK
  <2>4. disk' = disk
    BY <1>22 DEF DeleteRow, fs
  <2> QED
    BY <2>1, <2>2, <2>3, <2>4 DEF Elsewhere
<1>23. CASE RemoveFirst(p)
  BY <1>23, RemoveFirstMoves DEF RemoveFirst, Elsewhere, Moved, Ended, Idle, Handler, db, TypeOK, DirOfOp
<1>24. CASE RemoveRest(p)
  BY <1>24, RemoveRestMoves DEF RemoveRest, Elsewhere, Moved, Ended, Idle, Handler, db, TypeOK, DirOfOp
<1>25. CASE ForgetLock(p)
  <2>1. /\ \A q \in Requests \ {p} : op'[q] = op[q]
        /\ op'[p].cert = op[p].cert \/ op'[p].cert = NoCert
    BY <1>25, ForgetLockMoves DEF Ended, Idle, Handler
  <2> QED
    BY <1>25, <2>1 DEF ForgetLock, Elsewhere, db, fs
<1> QED
  BY <1>1, <1>2, <1>3, <1>4, <1>5, <1>6, <1>7, <1>8, <1>9, <1>10, <1>11, <1>12, <1>13,
     <1>14, <1>15, <1>16, <1>17, <1>18, <1>19, <1>20, <1>21, <1>22, <1>23, <1>24, <1>25
     DEF Step

\* The handler that is about to write a certificate's status finds it settled:
\* nobody else is issuing it and no crash has left it busy.
LEMMA FoundSettled ==
  ASSUME Inv, NEW p \in Requests, NEW c \in CertIds, c = op[p].cert, Settle(c), Exists(c),
         op[p].pc \in {"setBusy", "setRevoked"}
  PROVE  Good(c) /\ \A q \in Requests \ {p} : op[q].cert = c => ~OwnsBusy(q)
<1>1. Meddles(p) /\ KindOK(op[p]) /\ ~OwnsBusy(p)
  BY DEF Meddles, Inv, KindInv, OwnsBusy
<1>2. \A q \in Requests \ {p} : op[q].cert = c => ~OwnsBusy(q)
  BY <1>1, IssuerIsAlone
<1>3. ~Stale(p)
  BY <1>1 DEF Stale, KindOK
<1>4. row[c].status \notin Busy
  BY <1>1, <1>2, <1>3 DEF Settle
<1> QED
  BY <1>2, <1>4 DEF Settle

\* While p issues c, a call of p that writes finds no other handler issuing c.
LEMMA WriterAlone ==
  ASSUME Inv, NEW p \in Requests, NEW c \in CertIds, c = op[p].cert, Exists(c), Meddles(p)
  PROVE  \A q \in Requests \ {p} : op[q].cert = c => ~OwnsBusy(q)
  BY IssuerIsAlone

\* A handler that neither issues c before nor after its call, and changes
\* neither its row nor its directory, keeps c settled.
LEMMA SettlePassive ==
  ASSUME Inv, NEW p \in Requests, NEW c \in CertIds, c = op[p].cert, Settle(c), Elsewhere(p),
         UNCHANGED <<life, disk>>,
         row'[c].status = row[c].status, row'[c].serial = row[c].serial,
         ~OwnsBusy(p), ~OwnsBusy(p)',
         op'[p].cert = c /\ row[c].status \in Busy /\ Stale(p) => Stale(p)'
  PROVE  Settle(c)'
  BY SettleKept DEF Elsewhere

\* Every call of a handler, its failures included, keeps its certificate settled.
LEMMA SettleCall ==
  ASSUME Inv, DirsDistinct, "db" \notin Faults, "restore" \notin Faults,
         NEW p \in Requests, Step(p), NEW c \in CertIds, c = op[p].cert, Settle(c)
  PROVE  Settle(c)'
<1>0. /\ TypeOK /\ KindInv /\ LockInv /\ DiskInv /\ Elsewhere(p)
      /\ KindOK(op[p]) /\ DirOf[c] \in Dirs /\ NoCert \notin CertIds
  BY StepElsewhere, ConstantsAssumption DEF Inv, KindInv
<1> USE <1>0
<1>1. CASE Get(p)
  <2>1. UNCHANGED <<life, row, disk>> /\ ~OwnsBusy(p)
    BY <1>1 DEF Get, db, fs, OwnsBusy
  <2>2. \/ op'[p].cert = NoCert /\ op'[p].pc = "idle"
        \/ /\ op'[p].pc = "load" /\ op'[p].kind = "issue"
           /\ op'[p].seen = row[c].status
    BY <1>1, GetMoves DEF Ended, Idle, Handler, KindOK
  <2> QED
    BY <2>1, <2>2, SettlePassive DEF OwnsBusy, Stale
<1>2. CASE LoadOrStore(p)
  <2>1. UNCHANGED <<life, row, disk>> /\ ~OwnsBusy(p)
    BY <1>2 DEF LoadOrStore, db, fs, OwnsBusy
  <2> QED
    BY <1>2, <2>1, LoadMoves, SettlePassive DEF OwnsBusy, Stale
<1>3. CASE TryLock(p)
  <2>1. UNCHANGED <<life, row, disk>> /\ ~OwnsBusy(p) /\ op[p].pc = "tryLock"
    BY <1>3 DEF TryLock, db, fs, OwnsBusy
  <2>2. (op'[p].cert = NoCert /\ op'[p].pc = "idle") \/ Moved(p, {AfterLock(p)})
    BY <1>3, TryLockMoves DEF Ended, Idle, Handler
  <2>3. ~OwnsBusy(p)'
    BY <2>2 DEF Moved, AfterLock, OwnsBusy, Issues
  <2>4. op'[p].cert = c /\ Stale(p) => Stale(p)'
    BY <2>1, <2>2 DEF Moved, AfterLock, Stale
  <2> QED
    BY <2>1, <2>3, <2>4, SettlePassive
<1>4. CASE Check(p)
  <2>1. UNCHANGED <<life, row, disk>> /\ ~OwnsBusy(p) /\ op[p].pc = "check"
    BY <1>4 DEF Check, db, fs, OwnsBusy
  <2>2. (op'[p].cert = NoCert /\ op'[p].pc = "idle") \/ Moved(p, {"setBusy"})
    BY <1>4, CheckMoves DEF Ended, Idle, Handler
  <2>3. ~OwnsBusy(p)'
    BY <2>2 DEF Moved, OwnsBusy
  <2>4. Stale(p) => op'[p].cert = NoCert
    <3>1. Stale(p) => op[p].seen \in Busy
      BY <2>1 DEF Stale, KindOK
    <3>2. op[p].seen \in Busy => Return(p)
      BY <1>4 DEF Check, Finish, Busy, manualIssueAllowed, renewAllowed
    <3> QED
      BY <3>1, <3>2, ReturnEnds DEF TypeOK, Ended, Idle, Handler
  <2> QED
    BY <2>1, <2>3, <2>4, SettlePassive
<1>5. CASE SetBusy(p)
  <2>1. op[p].pc = "setBusy" /\ UNCHANGED <<life, disk>>
    BY <1>5 DEF SetBusy, fs
  <2>2. Moved(p, {"createJob"}) /\ \E s \in Busy : row' = SetStatus(c, s)
    BY <1>5, GotoMoves DEF SetBusy, May, TypeOK, Labels, Busy
  <2>3. row'[c].serial = row[c].serial /\ (Exists(c) => row'[c].status \in Busy)
    BY <2>2, StatusSet DEF Busy, Statuses
  <2>4. OwnsBusy(p)' /\ op'[p].cert = c
    BY <2>1, <2>2 DEF Moved, OwnsBusy, KindOK, Issues
  <2>5. CASE Exists(c)
    <3>1. Good(c) /\ \A q \in Requests \ {p} : op[q].cert = c => ~OwnsBusy(q)
      BY <2>1, <2>5, FoundSettled
    <3>2. Prepared(p)'
      BY <2>1, <2>2, <2>3, <2>4, <3>1 DEF Prepared, Good, Moved
    <3> QED
      BY <2>3, <2>4, <2>5, <3>1, <3>2, SettleOwned DEF Elsewhere
  <2>6. CASE ~Exists(c)
    BY <2>1, <2>6 DEF Settle, Exists
  <2> QED
    BY <2>5, <2>6
<1>6. CASE CreateJob(p)
  <2>1. op[p].pc = "createJob" /\ UNCHANGED <<life, row, disk>>
    BY <1>6 DEF CreateJob, fs
  <2>2. CASE ~Exists(c)
    BY <2>1, <2>2 DEF Settle, Exists
  <2>3. CASE Exists(c)
    <3>1. Moved(p, {IF op[p].kind = "revoke" THEN "revokeCA" ELSE "engine"})
      BY <1>6, <2>3, GotoMoves DEF CreateJob, May, TypeOK, Labels
    <3>2. CASE op[p].kind = "revoke"
      <4>1. ~OwnsBusy(p) /\ ~OwnsBusy(p)' /\ ~Stale(p)
        BY <2>1, <3>1, <3>2 DEF Moved, OwnsBusy, Issues, Stale
      <4> QED
        BY <2>1, <4>1, SettlePassive
    <3>3. CASE op[p].kind # "revoke"
      <4>1. OwnsBusy(p) /\ OwnsBusy(p)' /\ op'[p].cert = c /\ op'[p].pc = "engine"
        BY <2>1, <3>1, <3>3 DEF Moved, OwnsBusy, KindOK
      <4>2. Prepared(p)'
        BY <2>1, <2>3, <4>1 DEF Settle, Prepared, Good
      <4> QED
        BY <2>1, <4>1, <4>2, SettleOwned DEF Elsewhere
    <3> QED
      BY <3>2, <3>3
  <2> QED
    BY <2>2, <2>3
<1>7. CASE Engine(p) \/ Publish(p)
  <2>1. /\ op[p].pc \in {"engine", "publish"} /\ UNCHANGED <<life, row, disk>>
        /\ Moved(p, {"publish", "moveAside", "swap", "finishFailed"})
    BY <1>7, EngineMoves, PublishMoves DEF Engine, Publish, db, fs, Moved
  <2>2. OwnsBusy(p) /\ OwnsBusy(p)' /\ op'[p].cert = c
    BY <2>1 DEF Moved, OwnsBusy, KindOK
  <2>3. CASE ~Exists(c)
    BY <2>1, <2>3 DEF Settle, Exists
  <2>4. CASE Exists(c)
    <3>1. Good(c)
      BY <2>1, <2>2, <2>4 DEF Settle, Prepared
    <3>2. op'[p].pc = "swap" => disk[DirOf[c]] = Absent
      <4>1. \A l \in Labels : Goto(p, l) => op'[p].pc = l
        BY GotoMoves DEF Moved, TypeOK
      <4>2. Engine(p) => op'[p].pc # "swap"
        BY EngineMoves DEF Moved
      <4>3. "moveAside" \in Labels /\ "finishFailed" \in Labels
        BY DEF Labels
      <4> QED
        BY <1>7, <4>1, <4>2, <4>3 DEF Publish, DirOfOp
    <3>3. Prepared(p)'
      BY <2>1, <2>2, <3>1, <3>2 DEF Prepared, Good, Moved, Absent
    <3> QED
      BY <2>1, <2>2, <3>3, SettleOwned DEF Elsewhere
  <2> QED
    BY <2>3, <2>4
<1>8. CASE MoveAside(p)
  <2>1. /\ op[p].pc = "moveAside" /\ UNCHANGED <<life, row>>
        /\ Moved(p, {"swap", "finishFailed"})
    BY <1>8, MoveAsideMoves DEF MoveAside, db
  <2>2. OwnsBusy(p) /\ OwnsBusy(p)' /\ op'[p].cert = c /\ Meddles(p) /\ Writing(p)
    BY <2>1 DEF Moved, OwnsBusy, KindOK, Meddles, Writing
  <2>3. CASE ~Exists(c)
    BY <2>1, <2>3 DEF Settle, Exists
  <2>4. CASE Exists(c)
    <3>1. Good(c)
      BY <2>1, <2>2, <2>4 DEF Settle, Prepared
    <3>2. row'[c].status \in Busy
      BY <2>1, <2>2, <2>4 DEF DiskInv, WritingIsBusy
    <3>3. \/ op'[p].pc = "swap" /\ disk'[DirOf[c]] = Absent /\ op'[p].stash = disk[DirOf[c]]
          \/ op'[p].pc = "finishFailed" /\ disk' = disk
      <4> DEFINE r == [op[p] EXCEPT !.pc = "swap", !.stash = disk[DirOf[c]]]
      <4>1. r.pc = "swap" /\ r.stash = disk[DirOf[c]]
        BY DEF TypeOK, Op
      <4>2. \/ op' = [op EXCEPT ![p] = r] /\ disk' = [disk EXCEPT ![DirOf[c]] = Absent]
            \/ Goto(p, "finishFailed") /\ disk' = disk
        BY <1>8 DEF MoveAside, DirOfOp
      <4>3. Goto(p, "finishFailed") => op'[p].pc = "finishFailed"
        BY GotoMoves DEF Moved, TypeOK, Labels
      <4> HIDE DEF r
      <4> QED
        BY <4>1, <4>2, <4>3 DEF TypeOK
    <3>4. Prepared(p)'
      BY <2>1, <2>2, <3>1, <3>3 DEF Prepared, Good
    <3> QED
      BY <2>2, <2>4, <3>2, <3>4, WriterAlone, SettleOwned DEF Elsewhere
  <2> QED
    BY <2>3, <2>4
<1>9. CASE Swap(p)
  <2>1. /\ op[p].pc = "swap" /\ UNCHANGED <<life, row>>
        /\ Moved(p, {"markDone", "finishFailed"})
    BY <1>9, SwapMoves DEF Swap, db
  <2>2. OwnsBusy(p) /\ OwnsBusy(p)' /\ op'[p].cert = c /\ Meddles(p) /\ Writing(p)
    BY <2>1 DEF Moved, OwnsBusy, KindOK, Meddles, Writing
  <2>3. CASE ~Exists(c)
    BY <2>1, <2>3 DEF Settle, Exists
  <2>4. CASE Exists(c)
    <3>1. disk[DirOf[c]] = Absent /\ (row[c].serial # 0 => op[p].stash = row[c].serial)
      BY <2>1, <2>2, <2>4 DEF Settle, Prepared
    <3>2. row'[c].status \in Busy
      BY <2>1, <2>2, <2>4 DEF DiskInv, WritingIsBusy
    <3>3. op'[p].pc # "markDone" => disk' = [disk EXCEPT ![DirOf[c]] = op[p].stash]
      <4>1. Goto(p, "markDone") => op'[p].pc = "markDone"
        BY GotoMoves DEF Moved, TypeOK, Labels
      <4> QED
        BY <1>9, <3>1, <4>1 DEF Swap, DirOfOp, May
    <3>4. Prepared(p)'
      BY <2>1, <2>2, <3>1, <3>3 DEF Prepared, Good, Moved, TypeOK
    <3> QED
      BY <2>2, <2>4, <3>2, <3>4, WriterAlone, SettleOwned DEF Elsewhere
  <2> QED
    BY <2>3, <2>4
<1>10. CASE MarkDone(p)
  <2>1. op[p].pc = "markDone" /\ UNCHANGED <<life, disk>> /\ Meddles(p)
    BY <1>10 DEF MarkDone, fs, Meddles
  <2>2. op'[p].pc \in {"finishDone", "idle"}
    BY <1>10, MarkDoneMoves DEF Moved, Ended, Idle, Handler
  <2>3. Exists(c) => row'[c].status \notin Busy /\ Good(c)'
    BY <1>10, <2>1, DoneMarked DEF DiskInv, PublishedIsThere, Good, Busy
  <2> QED
    BY <2>1, <2>2, <2>3, WriterAlone, SettleDone DEF Elsewhere, Exists, OwnsBusy
<1>11. CASE MarkNoJob(p) \/ MarkFailed(p)
  <2>1. /\ op[p].pc \in {"markNoJob", "markFailed"} /\ UNCHANGED <<life, disk>>
        /\ Meddles(p) /\ OwnsBusy(p)
    BY <1>11 DEF MarkNoJob, MarkFailed, fs, Meddles, OwnsBusy, KindOK
  <2>2. op'[p].pc \in {"auditFailed", "idle"}
    BY <1>11, MarkNoJobMoves, MarkFailedMoves DEF Moved, Ended, Idle, Handler
  <2>3. row' = SetStatus(c, "failed")
    BY <1>11 DEF MarkNoJob, MarkFailed, May
  <2>4. row'[c].serial = row[c].serial /\ (Exists(c) => row'[c].status = "failed")
    BY <2>3, StatusSet DEF Statuses
  <2>5. Exists(c) => Good(c)
    BY <2>1 DEF Settle, Prepared
  <2>6. Exists(c) => row'[c].status \notin Busy /\ Good(c)'
    BY <2>1, <2>4, <2>5 DEF Good, Busy
  <2> QED
    BY <2>1, <2>2, <2>6, WriterAlone, SettleDone DEF Elsewhere, Exists, OwnsBusy
<1>12. CASE SetRevoked(p)
  <2>1. op[p].pc = "setRevoked" /\ UNCHANGED <<life, disk>>
    BY <1>12 DEF SetRevoked, fs
  <2>2. op'[p].pc \in {"finishDone", "idle"}
    BY <1>12, SetRevokedMoves DEF Moved, Ended, Idle, Handler
  <2>3. row' = SetStatus(c, "revoked")
    BY <1>12 DEF SetRevoked, May
  <2>4. row'[c].serial = row[c].serial /\ (Exists(c) => row'[c].status = "revoked")
    BY <2>3, StatusSet DEF Statuses
  <2>5. Exists(c) => row'[c].status \notin Busy /\ Good(c)'
    BY <2>1, <2>4, FoundSettled DEF Good, Busy
  <2> QED
    BY <2>1, <2>2, <2>5, FoundSettled, SettleDone DEF Elsewhere, Exists, OwnsBusy
<1>13. CASE FinishFailed(p)
  <2>1. /\ op[p].pc = "finishFailed" /\ UNCHANGED <<life, row, disk>>
        /\ Moved(p, {IF op[p].kind = "revoke" THEN "auditFailed" ELSE "markFailed"})
    BY <1>13, FinishFailedMoves DEF FinishFailed, fs
  <2>2. CASE op[p].kind = "revoke"
    <3>1. ~OwnsBusy(p) /\ ~OwnsBusy(p)' /\ ~Stale(p)
      BY <2>1, <2>2 DEF Moved, OwnsBusy, Issues, Stale
    <3> QED
      BY <2>1, <3>1, SettlePassive
  <2>3. CASE op[p].kind # "revoke"
    <3>1. OwnsBusy(p) /\ OwnsBusy(p)' /\ op'[p].cert = c /\ op'[p].pc = "markFailed"
      BY <2>1, <2>3 DEF Moved, OwnsBusy, KindOK
    <3>2. Exists(c) => Prepared(p)'
      BY <2>1, <3>1 DEF Settle, Prepared, Good
    <3>3. ~Exists(c) => Settle(c)'
      BY <2>1 DEF Settle, Exists
    <3> QED
      BY <2>1, <3>1, <3>2, <3>3, SettleOwned DEF Elsewhere
  <2> QED
    BY <2>2, <2>3
<1>14. CASE RevokeCA(p) \/ AuditFailed(p) \/ FinishDone(p) \/ AuditDone(p) \/ Backup(p)
  <2>1. /\ op[p].pc \in {"revokeCA", "auditFailed", "finishDone", "auditDone", "backup"}
        /\ UNCHANGED <<life, row, disk>>
    BY <1>14 DEF RevokeCA, AuditFailed, FinishDone, AuditDone, Backup, db, fs
  <2>2. \/ op'[p].pc = "idle" /\ op'[p].cert = NoCert
        \/ Moved(p, {"setRevoked", "auditDone", "deleteRow", "auditFailed"})
        \/ op[p].kind = "revoke" /\ Moved(p, {"finishFailed"})
    BY <1>14, RevokeCAMoves, AuditFailedMoves, FinishDoneMoves, AuditDoneMoves, BackupMoves
       DEF Moved, Ended, Idle, Handler, KindOK
  <2>3. ~OwnsBusy(p) /\ ~OwnsBusy(p)'
    BY <2>1, <2>2 DEF Moved, OwnsBusy, Issues
  <2>4. op'[p].cert = c /\ Stale(p) => Stale(p)'
    BY <2>1, <2>2 DEF Moved, Stale
  <2> QED
    BY <2>1, <2>3, <2>4, SettlePassive
<1>15. CASE UpdateSettings(p)
  <2>1. op[p].pc = "updateSettings" /\ op[p].kind = "update" /\ UNCHANGED <<life, disk>>
    BY <1>15 DEF UpdateSettings, fs, KindOK
  <2>2. \/ op'[p].pc = "idle" /\ op'[p].cert = NoCert
        \/ Moved(p, {"auditDone"})
    BY <1>15, UpdateSettingsMoves DEF Ended, Idle, Handler
  <2>3. ~OwnsBusy(p) /\ ~OwnsBusy(p)' /\ (op'[p].cert = c => Stale(p)')
    BY <2>1, <2>2 DEF Moved, OwnsBusy, Stale
  <2> QED
    BY <1>15, <2>1, <2>3, SettingsSet, SettlePassive
<1>16. CASE DeleteRow(p)
  <2>1. life'[c] # "live"
    BY <1>16 DEF DeleteRow, May, Exists, TypeOK
  <2> QED
    BY <2>1 DEF Settle, Exists
<1>17. CASE RemoveFirst(p) \/ RemoveRest(p) \/ ForgetLock(p)
  <2>1. UNCHANGED life /\ op[p].pc \in {"removeFirst", "removeRest", "forgetLock"}
    BY <1>17 DEF RemoveFirst, RemoveRest, ForgetLock, db
  <2>2. life[c] = "deleted"
    BY <2>1 DEF LockInv, NewMutexOnlyAfterDelete
  <2> QED
    BY <2>1, <2>2 DEF Settle, Exists
<1> QED
  BY <1>1, <1>2, <1>3, <1>4, <1>5, <1>6, <1>7, <1>8, <1>9, <1>10, <1>11, <1>12, <1>13, <1>14, <1>15,
     <1>16, <1>17
     DEF Step

\* A handler that starts on a certificate left busy will be rejected, and one
\* that creates a certificate has nothing to preserve.
LEMMA SettleBegin ==
  ASSUME Inv, NEW p \in Requests, Begin(p), NEW c \in CertIds, Settle(c)
  PROVE  Settle(c)'
<1>0. TypeOK /\ KindInv /\ NoCert \notin CertIds
  BY ConstantsAssumption DEF Inv
<1>1. op[p].pc = "idle" /\ op[p].cert = NoCert
  BY <1>0 DEF Begin, Create, Renew, Issue, Revoke, Delete, Update, Start, KindInv, KindOK
<1>2. ASSUME NEW b \in CertIds, NEW m \in Modes, NEW auto \in AutoRenewChoices, Create(p, b, m, auto)
      PROVE  Settle(c)'
  <2>1. /\ \A q \in Requests \ {p} : op'[q] = op[q]
        /\ op'[p].cert = b /\ op'[p].pc = "createJob" /\ op'[p].kind = "create"
        /\ life[b] = "unborn" /\ UNCHANGED disk
    <3>1. life[b] = "unborn" /\ UNCHANGED disk
      BY <1>2 DEF Create, fs
    <3> QED
      BY <1>0, <1>2, <3>1, CreateMoves
  <2>2. CASE c = b
    <3>1. \A q \in Requests \ {p} : op[q].cert = c => ~OwnsBusy(q)
      BY <2>1, <2>2 DEF Inv, DiskInv, HandlersKnowRows, OwnsBusy
    <3>2. row'[c].status = "issuing" /\ row'[c].serial = 0
      BY <1>0, <1>2, <2>2 DEF Create, TypeOK
    <3>3. Prepared(p)' /\ OwnsBusy(p)'
      BY <2>1, <2>2, <3>2 DEF Prepared, Good, OwnsBusy, Issues
    <3> QED
      BY <2>1, <2>2, <3>1, <3>2, <3>3, SettleOwned DEF Busy
  <2>3. CASE c # b
    <3>1. life'[c] = life[c] /\ row'[c] = row[c]
      BY <1>0, <1>2, <2>3 DEF Create, TypeOK
    <3> QED
      BY <1>0, <1>1, <2>1, <2>3, <3>1, SettleKept
  <2> QED
    BY <2>2, <2>3
<1>3. ASSUME NEW b \in CertIds, NEW k \in Kinds, NEW l \in {"get", "load", "updateSettings"},
             NEW f \in BOOLEAN, Start(p, l, k, b, f), UNCHANGED <<db, fs>>,
             row[b].status \in Busy =>
               k \in {"delete", "update"} \/ (k \in {"renew", "force_renew"} /\ l = "load")
      PROVE  Settle(c)'
  <2>1. l \in Labels
    BY DEF Labels, LockFree
  <2>2. /\ \A q \in Requests \ {p} : op'[q] = op[q]
        /\ op'[p].cert = b /\ op'[p].pc = l /\ op'[p].kind = k /\ op'[p].seen = row[b].status
    BY <1>0, <1>3, <2>1, StartStarts DEF Started
  <2>3. ~OwnsBusy(p)' /\ (row[b].status \in Busy => Stale(p)')
    BY <1>3, <2>2 DEF OwnsBusy, Stale
  <2>4. UNCHANGED <<life, row, disk>>
    BY <1>3 DEF db, fs
  <2> QED
    BY <1>0, <1>1, <2>2, <2>3, <2>4, SettleKept
<1>4. ASSUME NEW b \in CertIds, NEW force \in BOOLEAN, Renew(p, b, force) PROVE Settle(c)'
  BY <1>3, <1>4 DEF Renew, Kinds
<1>5. ASSUME NEW b \in CertIds, Issue(p, b) PROVE Settle(c)'
  BY <1>3, <1>5 DEF Issue, Kinds, manualIssueAllowed, Busy
<1>6. ASSUME NEW b \in CertIds, Revoke(p, b) PROVE Settle(c)'
  BY <1>3, <1>6 DEF Revoke, Kinds, revokeAllowed, Busy
<1>7. ASSUME NEW b \in CertIds, NEW f \in BOOLEAN, Delete(p, b, f) PROVE Settle(c)'
  BY <1>3, <1>7 DEF Delete, Kinds
<1>8. ASSUME NEW b \in CertIds, Update(p, b) PROVE Settle(c)'
  BY <1>3, <1>8 DEF Update, Kinds
<1> QED
  BY <1>2, <1>4, <1>5, <1>6, <1>7, <1>8 DEF Begin

\* Every step keeps every certificate settled.
LEMMA SettleStep ==
  ASSUME Inv, DirsDistinct, "db" \notin Faults, "restore" \notin Faults, SettleInv, [Next]_vars
  PROVE  SettleInv'
<1> SUFFICES ASSUME NEW c \in CertIds PROVE Settle(c)'
  BY DEF SettleInv
<1>0. Settle(c)
  BY DEF SettleInv
<1>1. ASSUME NEW p \in Requests, Begin(p) PROVE Settle(c)'
  BY <1>0, <1>1, SettleBegin
<1>2. ASSUME NEW p \in Requests, Step(p) PROVE Settle(c)'
  <2>1. CASE c = op[p].cert
    BY <1>0, <1>2, <2>1, SettleCall
  <2>2. CASE c # op[p].cert
    <3>1. Elsewhere(p) /\ op[p].cert \in CertIds
      <4>1. op[p].pc # "idle"
        BY <1>2 DEF Step, Get, LoadOrStore, TryLock, Check, SetBusy, CreateJob, MarkNoJob, Engine,
           Publish, MoveAside, Swap, MarkDone, RevokeCA, SetRevoked, FinishFailed, MarkFailed,
           AuditFailed, FinishDone, AuditDone, UpdateSettings, Backup, DeleteRow, RemoveFirst,
           RemoveRest, ForgetLock
      <4> QED
        BY <1>2, <4>1, StepElsewhere, HandlerCert DEF Inv
    <3>2. DirOf[c] \in Dirs /\ DirOf[c] # DirOf[op[p].cert] /\ NoCert # c
      BY <2>2, <3>1, ConstantsAssumption DEF DirsDistinct
    <3> QED
      BY <1>0, <2>2, <3>1, <3>2, SettleKept DEF Elsewhere
  <2> QED
    BY <2>1, <2>2
<1>3. CASE Restart
  <2>1. /\ \A q \in Requests : op'[q].pc = "idle" /\ op'[q].cert = NoCert
        /\ UNCHANGED <<life, row, disk>>
    BY <1>3 DEF Restart, Idle, Handler, fs
  <2>2. \A q \in Requests : op'[q].cert # c
    BY <2>1, ConstantsAssumption
  <2> QED
    BY <1>0, <2>1, <2>2 DEF Settle, Good, Exists
<1>4. CASE UNCHANGED vars
  BY <1>0, <1>4 DEF vars, Settle, Good, Exists, Prepared, Stale, OwnsBusy
<1> QED
  BY <1>1, <1>2, <1>3, <1>4 DEF Next

\* With one directory per certificate, a database that does not fail and a
\* restore that succeeds, a certificate that nobody is issuing has the files of
\* its row published: whatever the engine, the publisher or a crash did to a
\* renewal, the previous files are back when the renewal is reported.
THEOREM SettledIsPublished ==
    ("db" \notin Faults /\ "restore" \notin Faults) => (Spec => []SettledMatchesDisk)
<1> SUFFICES ASSUME "db" \notin Faults, "restore" \notin Faults PROVE Spec => []SettledMatchesDisk
  OBVIOUS
<1>1. Init => Inv
  BY TypeInit, LockInit, DiskInit DEF Inv
<1>2. Inv /\ [Next]_vars => Inv'
  BY TypeStep, LockStep, DiskStep DEF Inv
<1>3. CASE DirsDistinct
  <2>1. Init => SettleInv
    BY DEF Init, SettleInv, Settle, Exists
  <2>2. Inv /\ SettleInv /\ [Next]_vars => SettleInv'
    BY <1>3, SettleStep
  <2>3. SettleInv => SettledMatchesDisk
    BY DEF SettleInv, Settle, Good, SettledMatchesDisk
  <2> QED
    BY <1>1, <1>2, <2>1, <2>2, <2>3, PTL DEF Spec
<1>4. CASE ~DirsDistinct
  <2>1. SettledMatchesDisk
    BY <1>4 DEF SettledMatchesDisk
  <2> QED
    BY <2>1, PTL
<1> QED
  BY <1>3, <1>4

-----------------------------------------------------------------------------
(* The life of a certificate *)

Once == {"active", "expiring", "expired"}

\* Who shows as issued was issued, and who has read so may rely on it although the
\* status may be another one by now: no step clears a serial number.
OnceIssued == \A c \in CertIds : row[c].status \in Once => row[c].serial # 0
SeenIssued ==
    \A p \in Requests : op[p].pc # "idle" /\ op[p].seen \in Once => row[op[p].cert].serial # 0
RenewalSeen ==
    \A p \in Requests : op[p].pc = "setBusy" /\ op[p].kind # "issue" => op[p].seen \in Once
RevocationSeen ==
    \A p \in Requests : op[p].kind = "revoke" =>
        op[p].seen \in Once /\ row[op[p].cert].mode = "acme"
CreatingUnissued ==
    \A p \in Requests : Creating(p) /\ Exists(op[p].cert) => row[op[p].cert].serial = 0

LifeInv == OnceIssued /\ SeenIssued /\ RenewalSeen /\ RevocationSeen /\ CreatingUnissued

\* What a call of p does to the rows, and to the busy status p may own: nothing,
\* or p becomes the owner, or records an outcome and is the owner no more, or it
\* revokes, changes the settings, or deletes.
Passes(p) == UNCHANGED <<life, row>> /\ (OwnsBusy(p)' <=> OwnsBusy(p))
Takes(p) ==
    /\ op[p].pc = "setBusy" /\ OwnsBusy(p)' /\ UNCHANGED life
    /\ row' = SetStatus(op[p].cert, IF op[p].kind = "issue" THEN "issuing" ELSE "renewing")
Records(p) ==
    /\ OwnsBusy(p) /\ ~OwnsBusy(p)' /\ UNCHANGED life
    /\ \/ row' = UpdateRow(op[p].cert, [row[op[p].cert] EXCEPT !.status = "active", !.serial = op[p].run])
       \/ row' = SetStatus(op[p].cert, "failed")
       \/ UNCHANGED row /\ (Exists(op[p].cert) => May("db"))
Revokes(p) ==
    /\ op[p].pc = "setRevoked" /\ ~OwnsBusy(p)' /\ UNCHANGED life
    /\ row' = SetStatus(op[p].cert, "revoked")
Adjusts(p) ==
    /\ op[p].pc = "updateSettings" /\ ~OwnsBusy(p)' /\ UNCHANGED life /\ Exists(op[p].cert)
    /\ \E auto \in BOOLEAN : row' = [row EXCEPT ![op[p].cert].autoRenew = auto]
Removes(p) ==
    /\ op[p].pc = "deleteRow" /\ ~OwnsBusy(p)' /\ UNCHANGED row /\ Exists(op[p].cert)
    /\ life' = [life EXCEPT ![op[p].cert] = "deleted"]

Effect(p) == Passes(p) \/ Takes(p) \/ Records(p) \/ Revokes(p) \/ Adjusts(p) \/ Removes(p)

\* Where a handler that goes on, and one that returns, is found.
LEMMA GoesTo ==
  ASSUME TypeOK, NEW p \in Requests, NEW l \in Labels, Goto(p, l)
  PROVE  op'[p].pc = l /\ op'[p].kind = op[p].kind
  BY GotoMoves DEF TypeOK, Moved

\* A handler that returns leaves a free slot, which owns nothing.
LEMMA GoesHome ==
  ASSUME TypeOK, NEW p \in Requests, Return(p)
  PROVE  op'[p] = Idle /\ ~OwnsBusy(p)'
<1>1. op'[p] = Idle
  BY ReturnEnds DEF TypeOK, Ended
<1> QED
  BY <1>1 DEF OwnsBusy, Idle, Handler

\* Every call, whether it succeeds or fails, has one of these effects.
LEMMA StepEffect ==
  ASSUME TypeOK, KindInv, NEW p \in Requests, Step(p)
  PROVE  Effect(p)
<1>0. KindOK(op[p])
  BY DEF KindInv
<1>1. CASE Get(p)
  <2>1. op[p].pc = "get" /\ UNCHANGED <<life, row>>
    BY <1>1 DEF Get, db
  <2>2. op'[p].pc = "load" \/ op'[p].pc = "idle"
    BY <1>1, GetMoves DEF Ended, Idle, Handler
  <2> QED
    BY <2>1, <2>2 DEF Effect, Passes, OwnsBusy
<1>2. CASE LoadOrStore(p)
  BY <1>0, <1>2, LoadMoves DEF LoadOrStore, Effect, Passes, Moved, Ended, Idle, Handler, OwnsBusy, Issues, KindOK, db
<1>3. CASE TryLock(p)
  BY <1>0, <1>3, TryLockMoves DEF TryLock, Effect, Passes, Moved, Ended, Idle, Handler, OwnsBusy, Issues, KindOK, db, AfterLock
<1>4. CASE Check(p)
  BY <1>0, <1>4, CheckMoves DEF Check, Effect, Passes, Moved, Ended, Idle, Handler, OwnsBusy, Issues, KindOK, db
<1>5. CASE SetBusy(p)
  <2>1. op[p].pc = "setBusy" /\ Issues(op[p].kind) /\ UNCHANGED life
    BY <1>0, <1>5 DEF SetBusy, KindOK, Issues
  <2>2. CASE /\ row' = SetStatus(op[p].cert, IF op[p].kind = "issue" THEN "issuing" ELSE "renewing")
             /\ Goto(p, "createJob")
    BY <2>1, <2>2, GoesTo DEF Labels, OwnsBusy, Effect, Takes
  <2>3. CASE Return(p) /\ UNCHANGED row
    BY <2>1, <2>3, GoesHome DEF OwnsBusy, Effect, Passes
  <2> QED
    BY <1>5, <2>2, <2>3 DEF SetBusy, Finish
<1>6. CASE CreateJob(p)
  <2>1. op[p].pc = "createJob" /\ UNCHANGED <<life, row>>
    BY <1>6 DEF CreateJob
  <2>2. CASE Goto(p, IF op[p].kind = "revoke" THEN "revokeCA" ELSE "engine")
    <3>1. op'[p].pc = (IF op[p].kind = "revoke" THEN "revokeCA" ELSE "engine") /\ op'[p].kind = op[p].kind
      BY <2>2, GoesTo DEF Labels
    <3> QED
      BY <1>0, <2>1, <3>1 DEF KindOK, OwnsBusy, Issues, Effect, Passes
  <2>3. CASE op[p].kind \in {"create", "issue"} /\ Goto(p, "markNoJob")
    BY <2>1, <2>3, GoesTo DEF Labels, OwnsBusy, Effect, Passes
  <2>4. CASE /\ op[p].kind \notin {"create", "issue"} /\ Return(p)
             /\ ~Exists(op[p].cert) \/ May("db")
    <3>1. ~OwnsBusy(p)'
      BY <2>4, GoesHome
    <3> QED
      BY <2>1, <2>4, <3>1 DEF Effect, Passes, Records
  <2> QED
    BY <1>6, <2>2, <2>3, <2>4 DEF CreateJob, Finish
<1>7. CASE MarkNoJob(p)
  BY <1>0, <1>7, MarkNoJobMoves DEF MarkNoJob, Effect, Passes, Records, Moved, Ended, Idle, Handler, OwnsBusy, Issues, KindOK, db
<1>8. CASE Engine(p)
  BY <1>0, <1>8, EngineMoves DEF Engine, Effect, Passes, Moved, Ended, Idle, Handler, OwnsBusy, Issues, KindOK, db
<1>9. CASE Publish(p)
  BY <1>0, <1>9, PublishMoves DEF Publish, Effect, Passes, Moved, Ended, Idle, Handler, OwnsBusy, Issues, KindOK, db
<1>10. CASE MoveAside(p)
  BY <1>0, <1>10, MoveAsideMoves DEF MoveAside, Effect, Passes, Moved, Ended, Idle, Handler, OwnsBusy, Issues, KindOK, db
<1>11. CASE Swap(p)
  BY <1>0, <1>11, SwapMoves DEF Swap, Effect, Passes, Moved, Ended, Idle, Handler, OwnsBusy, Issues, KindOK, db
<1>12. CASE MarkDone(p)
  <2>1. op[p].pc = "markDone" /\ OwnsBusy(p) /\ UNCHANGED life
    BY <1>0, <1>12 DEF MarkDone, KindOK, OwnsBusy
  <2>2. CASE /\ row' = UpdateRow(op[p].cert, [row[op[p].cert] EXCEPT !.status = "active", !.serial = op[p].run])
             /\ Goto(p, "finishDone")
    <3>1. ~OwnsBusy(p)'
      BY <2>2, GoesTo DEF Labels, OwnsBusy
    <3> QED
      BY <2>1, <2>2, <3>1 DEF Effect, Records
  <2>3. CASE May("db") /\ Return(p) /\ UNCHANGED row
    <3>1. ~OwnsBusy(p)'
      BY <2>3, GoesHome
    <3> QED
      BY <2>1, <2>3, <3>1 DEF Effect, Records
  <2> QED
    BY <1>12, <2>2, <2>3 DEF MarkDone, Finish
<1>13. CASE RevokeCA(p)
  BY <1>0, <1>13, RevokeCAMoves DEF RevokeCA, Effect, Passes, Moved, Ended, Idle, Handler, OwnsBusy, Issues, KindOK, db
<1>14. CASE SetRevoked(p)
  BY <1>0, <1>14, SetRevokedMoves DEF SetRevoked, Effect, Passes, Revokes, Moved, Ended, Idle, Handler, OwnsBusy, Issues, KindOK, db
<1>15. CASE FinishFailed(p)
  BY <1>0, <1>15, FinishFailedMoves DEF FinishFailed, Effect, Passes, Moved, Ended, Idle, Handler, OwnsBusy, Issues, KindOK, db
<1>16. CASE MarkFailed(p)
  BY <1>0, <1>16, MarkFailedMoves DEF MarkFailed, Effect, Passes, Records, Moved, Ended, Idle, Handler, OwnsBusy, Issues, KindOK, db
<1>17. CASE AuditFailed(p)
  BY <1>0, <1>17, AuditFailedMoves DEF AuditFailed, Effect, Passes, Moved, Ended, Idle, Handler, OwnsBusy, Issues, KindOK, db
<1>18. CASE FinishDone(p)
  BY <1>0, <1>18, FinishDoneMoves DEF FinishDone, Effect, Passes, Moved, Ended, Idle, Handler, OwnsBusy, Issues, KindOK, db
<1>19. CASE AuditDone(p)
  BY <1>0, <1>19, AuditDoneMoves DEF AuditDone, Effect, Passes, Moved, Ended, Idle, Handler, OwnsBusy, Issues, KindOK, db
<1>20. CASE UpdateSettings(p)
  <2>1. op[p].pc = "updateSettings" /\ ~OwnsBusy(p) /\ UNCHANGED life
    BY <1>20 DEF UpdateSettings, OwnsBusy
  <2>2. CASE /\ Exists(op[p].cert) /\ Goto(p, "auditDone")
             /\ \E auto \in AutoRenewChoices : row' = [row EXCEPT ![op[p].cert].autoRenew = auto]
    <3>1. ~OwnsBusy(p)'
      BY <2>2, GoesTo DEF Labels, OwnsBusy
    <3> QED
      BY <2>1, <2>2, <3>1, ConstantsAssumption DEF Effect, Adjusts
  <2>3. CASE Return(p) /\ UNCHANGED row
    BY <2>1, <2>3, GoesHome DEF Effect, Passes
  <2> QED
    BY <1>20, <2>2, <2>3 DEF UpdateSettings
<1>21. CASE Backup(p)
  BY <1>0, <1>21, BackupMoves DEF Backup, Effect, Passes, Moved, Ended, Idle, Handler, OwnsBusy, Issues, KindOK, db
<1>22. CASE DeleteRow(p)
  <2>1. op[p].pc = "deleteRow" /\ ~OwnsBusy(p) /\ UNCHANGED row
    BY <1>22 DEF DeleteRow, OwnsBusy
  <2>2. CASE /\ Exists(op[p].cert) /\ life' = [life EXCEPT ![op[p].cert] = "deleted"]
             /\ Goto(p, IF op[p].files THEN "removeFirst" ELSE "forgetLock")
    <3>1. op'[p].pc \in {"removeFirst", "forgetLock"}
      BY <2>2, GoesTo DEF Labels
    <3> QED
      BY <2>1, <2>2, <3>1 DEF OwnsBusy, Effect, Removes
  <2>3. CASE Return(p) /\ UNCHANGED life
    BY <2>1, <2>3, GoesHome DEF Effect, Passes
  <2> QED
    BY <1>22, <2>2, <2>3 DEF DeleteRow, Finish
<1>23. CASE RemoveFirst(p)
  BY <1>0, <1>23, RemoveFirstMoves DEF RemoveFirst, Effect, Passes, Moved, Ended, Idle, Handler, OwnsBusy, Issues, KindOK, db
<1>24. CASE RemoveRest(p)
  BY <1>0, <1>24, RemoveRestMoves DEF RemoveRest, Effect, Passes, Moved, Ended, Idle, Handler, OwnsBusy, Issues, KindOK, db
<1>25. CASE ForgetLock(p)
  BY <1>25, GoesHome DEF ForgetLock, Finish, db, OwnsBusy, Effect, Passes
<1> QED
  BY <1>1, <1>2, <1>3, <1>4, <1>5, <1>6, <1>7, <1>8, <1>9, <1>10, <1>11, <1>12, <1>13,
     <1>14, <1>15, <1>16, <1>17, <1>18, <1>19, <1>20, <1>21, <1>22, <1>23, <1>24, <1>25 DEF Step

\* A handler keeps its certificate and what it has read of it; only Get reads
\* again, and Check goes on only with a status that allows to.
Sees(p) ==
    \/ op'[p] = Idle
    \/ /\ op'[p].kind = op[p].kind /\ op'[p].cert = op[p].cert /\ op'[p].run = op[p].run
       /\ \/ op'[p].seen = op[p].seen
          \/ op'[p].seen = row[op[p].cert].status /\ op[p].kind = "issue"
       /\ op'[p].pc = "setBusy" /\ op[p].kind # "issue" => op'[p].seen \in Once

\* Who goes on keeps what it has read.
LEMMA MovedSees ==
  ASSUME NEW p, NEW S, Moved(p, S), "setBusy" \notin S
  PROVE  Sees(p)
<1>1. op'[p].pc # "setBusy"
  BY DEF Moved
<1> QED
  BY <1>1 DEF Moved, Sees

\* Who returns forgets what it has read.
LEMMA EndedSees ==
  ASSUME NEW p, Ended(p)
  PROVE  Sees(p)
  BY DEF Ended, Sees

\* No call but Get changes what a handler has read.
LEMMA StepSees ==
  ASSUME TypeOK, KindInv, NEW p \in Requests, Step(p)
  PROVE  Sees(p)
<1>0. KindOK(op[p])
  BY DEF KindInv
<1>1. CASE Get(p)
  BY <1>0, <1>1, GetMoves DEF Get, Sees, Moved, Ended, TypeOK, Op, Return, KindOK
<1>2. CASE LoadOrStore(p)
  <2>1. op'[p].pc # "setBusy"
    BY <1>2, LoadMoves
  <2> QED
    BY <1>2, <2>1, LoadMoves DEF Sees
<1>3. CASE TryLock(p)
  BY <1>3, TryLockMoves, MovedSees, EndedSees DEF AfterLock
<1>4. CASE Check(p)
  <2>1. op[p].kind \in {"issue", "renew", "force_renew"}
    BY <1>0, <1>4 DEF Check, KindOK
  <2>2. CASE op[p].kind = "issue" \/ renewAllowed(op[p].seen)
    <3>1. op[p].kind # "issue" => op[p].seen \in Once
      BY <2>2 DEF renewAllowed, Once
    <3>2. Moved(p, {"setBusy"}) => Sees(p)
      BY <3>1 DEF Moved, Sees
    <3> QED
      BY <1>4, <3>2, CheckMoves, EndedSees
  <2>3. CASE op[p].kind # "issue" /\ ~renewAllowed(op[p].seen)
    BY <1>4, <2>3, ReturnEnds, EndedSees DEF Check, Finish, TypeOK
  <2> QED
    BY <2>2, <2>3
<1>5. CASE SetBusy(p)
  BY <1>5, SetBusyMoves, MovedSees, EndedSees
<1>6. CASE CreateJob(p)
  BY <1>6, CreateJobMoves, MovedSees, EndedSees
<1>7. CASE MarkNoJob(p)
  BY <1>7, MarkNoJobMoves, EndedSees
<1>8. CASE Engine(p)
  BY <1>8, EngineMoves, MovedSees
<1>9. CASE Publish(p)
  BY <1>9, PublishMoves, MovedSees
<1>10. CASE MoveAside(p)
  BY <1>10, MoveAsideMoves, MovedSees
<1>11. CASE Swap(p)
  BY <1>11, SwapMoves, MovedSees
<1>12. CASE MarkDone(p)
  BY <1>12, MarkDoneMoves, MovedSees, EndedSees
<1>13. CASE RevokeCA(p)
  BY <1>13, RevokeCAMoves, MovedSees
<1>14. CASE SetRevoked(p)
  BY <1>14, SetRevokedMoves, MovedSees, EndedSees
<1>15. CASE FinishFailed(p)
  BY <1>15, FinishFailedMoves, MovedSees
<1>16. CASE MarkFailed(p)
  BY <1>16, MarkFailedMoves, MovedSees, EndedSees
<1>17. CASE AuditFailed(p)
  BY <1>17, AuditFailedMoves, EndedSees
<1>18. CASE FinishDone(p)
  BY <1>18, FinishDoneMoves, MovedSees
<1>19. CASE AuditDone(p)
  BY <1>19, AuditDoneMoves, EndedSees
<1>20. CASE UpdateSettings(p)
  BY <1>20, UpdateSettingsMoves, MovedSees, EndedSees
<1>21. CASE Backup(p)
  BY <1>21, BackupMoves, MovedSees
<1>22. CASE DeleteRow(p)
  BY <1>22, DeleteRowMoves, MovedSees, EndedSees
<1>23. CASE RemoveFirst(p)
  BY <1>23, RemoveFirstMoves, MovedSees, EndedSees
<1>24. CASE RemoveRest(p)
  BY <1>24, RemoveRestMoves, MovedSees, EndedSees
<1>25. CASE ForgetLock(p)
  BY <1>25, ForgetLockMoves, EndedSees
<1> QED
  BY <1>1, <1>2, <1>3, <1>4, <1>5, <1>6, <1>7, <1>8, <1>9, <1>10, <1>11, <1>12, <1>13,
     <1>14, <1>15, <1>16, <1>17, <1>18, <1>19, <1>20, <1>21, <1>22, <1>23, <1>24, <1>25 DEF Step

\* What a call may do to any one row.
LEMMA StatusOnly ==
  ASSUME TypeOK, NEW b \in CertIds, NEW c \in CertIds, NEW s
  PROVE  /\ SetStatus(b, s)[c].mode = row[c].mode
         /\ SetStatus(b, s)[c].serial = row[c].serial
         /\ SetStatus(b, s)[c].autoRenew = row[c].autoRenew
         /\ SetStatus(b, s)[c].status \in {row[c].status, s}
  BY DEF TypeOK, SetStatus, UpdateRow, Row

\* No call brings a row back, changes its mode or clears its serial number, and only
\* the final UPDATE of the owner sets one.
LEMMA RowEffect ==
  ASSUME TypeOK, NEW p \in Requests, op[p].cert \in CertIds, op[p].run # 0, Effect(p),
         NEW c \in CertIds
  PROVE  /\ Exists(c)' => Exists(c)
         /\ row'[c].mode = row[c].mode
         /\ row[c].serial # 0 => row'[c].serial # 0
         /\ row'[c].status \in Once => row[c].status \in Once \/ row'[c].serial # 0
         /\ row'[c].serial = row[c].serial \/ (Records(p) /\ c = op[p].cert)
<1>0. row[c] \in Row /\ row \in [CertIds -> Row] /\ life \in [CertIds -> {"unborn", "live", "deleted"}]
  BY DEF TypeOK
<1>1. CASE Passes(p)
  BY <1>1 DEF Passes, Exists
<1>2. CASE Takes(p)
  BY <1>2, StatusOnly DEF Takes, Exists, Once
<1>3. CASE Records(p)
  <2>1. ASSUME row' = UpdateRow(op[p].cert, [row[op[p].cert] EXCEPT !.status = "active", !.serial = op[p].run])
        PROVE  /\ row'[c].mode = row[c].mode
               /\ row'[c] = row[c] \/ (row'[c].serial = op[p].run /\ c = op[p].cert)
    BY <1>0, <2>1 DEF UpdateRow, Row
  <2>2. ASSUME row' = SetStatus(op[p].cert, "failed")
        PROVE  /\ row'[c].mode = row[c].mode /\ row'[c].serial = row[c].serial
               /\ row'[c].status \in {row[c].status, "failed"}
    BY <2>2, StatusOnly
  <2> QED
    BY <1>3, <2>1, <2>2 DEF Records, Exists, Once
<1>4. CASE Revokes(p)
  BY <1>4, StatusOnly DEF Revokes, Exists, Once
<1>5. CASE Adjusts(p)
  <2>1. /\ row'[c].mode = row[c].mode /\ row'[c].serial = row[c].serial
        /\ row'[c].status = row[c].status
    BY <1>0, <1>5 DEF Adjusts, Row
  <2> QED
    BY <1>5, <2>1 DEF Adjusts, Exists
<1>6. CASE Removes(p)
  BY <1>0, <1>6 DEF Removes, Exists
<1> QED
  BY <1>1, <1>2, <1>3, <1>4, <1>5, <1>6 DEF Effect

\* Two handlers never own the busy status of one row.
LEMMA OwnersApart ==
  ASSUME Inv, NEW p \in Requests, NEW q \in Requests, op[p].cert = op[q].cert,
         Exists(op[p].cert), OwnsBusy(p), OwnsBusy(q)
  PROVE  p = q
<1> SUFFICES ASSUME p # q PROVE FALSE
  OBVIOUS
<1>1. CASE op[p].kind = "create"
  <2>1. Harmless(q)
    BY <1>1 DEF Inv, DiskInv, CreatingIsAlone, Creating
  <2> QED
    BY <2>1 DEF Harmless, OwnsBusy, Issues
<1>2. CASE op[q].kind = "create"
  <2>1. Harmless(p)
    BY <1>2 DEF Inv, DiskInv, CreatingIsAlone, Creating
  <2> QED
    BY <2>1 DEF Harmless, OwnsBusy, Issues
<1>3. CASE op[p].kind # "create" /\ op[q].kind # "create"
  <2>1. InLock(p) /\ InLock(q)
    BY <1>3 DEF InLock, Locks, LockFree, OwnsBusy, Issues
  <2> QED
    BY <2>1, LockInvImplies DEF Inv, LockExclusive, Exists
<1> QED
  BY <1>1, <1>2, <1>3

\* Nothing was issued and nobody has read anything before the first operation.
LEMMA LifeInit == Init => LifeInv
<1> SUFFICES ASSUME Init PROVE LifeInv
  OBVIOUS
<1>1. \A p \in Requests : op[p].pc = "idle" /\ op[p].kind = "none"
  BY DEF Init, Idle, Handler
<1>2. \A c \in CertIds : row[c].status \notin Once
  BY DEF Init, Once
<1> QED
  BY <1>1, <1>2 DEF LifeInv, OnceIssued, SeenIssued, RenewalSeen, RevocationSeen, CreatingUnissued, Creating

\* A handler that starts has read the row it is about, which has been issued when
\* it is to be revoked.
LEMMA LifeBegin ==
  ASSUME Inv, LifeInv, NEW p \in Requests, Begin(p)
  PROVE  LifeInv'
<1>0. /\ TypeOK /\ OnceIssued /\ SeenIssued /\ RenewalSeen /\ RevocationSeen /\ CreatingUnissued
      /\ \A q \in Requests : KindOK(op[q])
  BY DEF Inv, LifeInv, KindInv
<1>1. ASSUME NEW b \in CertIds, NEW m \in Modes, NEW auto \in AutoRenewChoices, Create(p, b, m, auto)
      PROVE  LifeInv'
  <2>1. /\ op'[p].seen = "issuing" /\ op'[p].kind = "create" /\ op'[p].cert = b
        /\ op'[p].pc = "createJob"
        /\ \A q \in Requests \ {p} : op'[q] = op[q]
    BY <1>0, <1>1 DEF Create, TypeOK, Handler
  <2>2. /\ row'[b].status = "issuing" /\ row'[b].serial = 0
        /\ \A c \in CertIds \ {b} : row'[c] = row[c] /\ life'[c] = life[c]
    BY <1>0, <1>1 DEF Create, TypeOK
  <2>3. \A q \in Requests \ {p} : op[q].pc # "idle" => op[q].cert \in CertIds \ {b}
    BY <1>0, <1>1 DEF Create, Inv, DiskInv, HandlersKnowRows, KindOK
  <2>4. OnceIssued'
    BY <1>0, <2>2 DEF OnceIssued, Once
  <2>5. SeenIssued'
    BY <1>0, <2>1, <2>2, <2>3 DEF SeenIssued, Once
  <2>6. RenewalSeen'
    BY <1>0, <2>1 DEF RenewalSeen
  <2>7. RevocationSeen'
    BY <1>0, <2>1, <2>2, <2>3 DEF RevocationSeen, KindOK
  <2>8. CreatingUnissued'
    BY <1>0, <2>1, <2>2, <2>3 DEF CreatingUnissued, Creating, OwnsBusy, Exists
  <2> QED
    BY <2>4, <2>5, <2>6, <2>7, <2>8 DEF LifeInv
<1>2. ASSUME NEW b \in CertIds, NEW k \in Kinds, NEW l \in {"get", "load", "updateSettings"},
             NEW f \in BOOLEAN, Start(p, l, k, b, f), UNCHANGED <<db, fs, locks>>,
             k = "revoke" => row[b].status \in Once /\ row[b].mode = "acme"
      PROVE  LifeInv'
  <2>1. l \in Labels
    BY DEF Labels, LockFree
  <2>2. /\ op'[p].seen = row[b].status /\ op'[p].kind = k /\ op'[p].cert = b /\ op'[p].pc = l
        /\ \A q \in Requests \ {p} : op'[q] = op[q]
    BY <1>0, <1>2, <2>1, StartStarts DEF Started
  <2>3. UNCHANGED <<life, row>>
    BY <1>2 DEF db
  <2>4. OnceIssued'
    BY <1>0, <2>3 DEF OnceIssued
  <2>5. SeenIssued'
    BY <1>0, <2>2, <2>3 DEF SeenIssued, OnceIssued
  <2>6. RenewalSeen'
    BY <1>0, <2>2 DEF RenewalSeen
  <2>7. RevocationSeen'
    BY <1>0, <1>2, <2>2, <2>3 DEF RevocationSeen
  <2>8. CreatingUnissued'
    BY <1>0, <2>2, <2>3 DEF CreatingUnissued, Creating, OwnsBusy, Exists
  <2> QED
    BY <2>4, <2>5, <2>6, <2>7, <2>8 DEF LifeInv
<1>3. ASSUME NEW b \in CertIds, NEW force \in BOOLEAN, Renew(p, b, force) PROVE LifeInv'
  BY <1>2, <1>3 DEF Renew, Kinds
<1>4. ASSUME NEW b \in CertIds, Issue(p, b) PROVE LifeInv'
  BY <1>2, <1>4 DEF Issue, Kinds
<1>5. ASSUME NEW b \in CertIds, Revoke(p, b) PROVE LifeInv'
  BY <1>2, <1>5 DEF Revoke, Kinds, revokeAllowed, Once
<1>6. ASSUME NEW b \in CertIds, NEW f \in BOOLEAN, Delete(p, b, f) PROVE LifeInv'
  BY <1>2, <1>6 DEF Delete, Kinds
<1>7. ASSUME NEW b \in CertIds, Update(p, b) PROVE LifeInv'
  BY <1>2, <1>7 DEF Update, Kinds
<1> QED
  BY <1>1, <1>3, <1>4, <1>5, <1>6, <1>7 DEF Begin

\* A running handler has its certificate and a run number of its own.
LEMMA Runner ==
  ASSUME Inv, JobInv, NEW p \in Requests, Step(p)
  PROVE  /\ op[p].pc # "idle" /\ op[p].cert \in CertIds /\ op[p].run \in 1..ops
         /\ op[p].run # 0 /\ op[p].run \in Runs
         /\ \A q \in Requests \ {p} : op'[q] = op[q]
<1>1. op[p].pc # "idle" /\ \A q \in Requests \ {p} : op'[q] = op[q]
  BY StepAdvances DEF Inv, Advanced
<1>2. op[p].cert \in CertIds /\ op[p].run \in 1..ops
  BY <1>1, HandlerCert DEF Inv, JobInv, RunsHandedOut
<1>3. ops \in 0..MaxOps /\ MaxOps \in Nat
  BY ConstantsAssumption DEF Inv, TypeOK
<1> QED
  BY <1>1, <1>2, <1>3 DEF Runs

\* No call of a handler makes a status, or what somebody has read, promise a
\* certificate that was never issued.
LEMMA LifeCall ==
  ASSUME Inv, JobInv, LifeInv, NEW p \in Requests, Step(p)
  PROVE  LifeInv'
<1>0. /\ TypeOK /\ OnceIssued /\ SeenIssued /\ RenewalSeen /\ RevocationSeen /\ CreatingUnissued
      /\ \A q \in Requests : KindOK(op[q])
  BY DEF Inv, LifeInv, KindInv
<1>1. /\ op[p].pc # "idle" /\ op[p].cert \in CertIds /\ op[p].run # 0
      /\ \A q \in Requests \ {p} : op'[q] = op[q]
  BY Runner
<1>2. Effect(p) /\ Sees(p)
  BY StepEffect, StepSees DEF Inv
<1>3. \A c \in CertIds :
         /\ Exists(c)' => Exists(c)
         /\ row'[c].mode = row[c].mode
         /\ row[c].serial # 0 => row'[c].serial # 0
         /\ row'[c].status \in Once => row[c].status \in Once \/ row'[c].serial # 0
         /\ row'[c].serial = row[c].serial \/ (Records(p) /\ c = op[p].cert)
  BY <1>0, <1>1, <1>2, RowEffect
<1>4. \A q \in Requests \ {p} : op[q].pc # "idle" => op[q].cert \in CertIds
  BY <1>0 DEF KindOK
<1>5. op'[p].pc # "idle" => /\ op'[p].kind = op[p].kind /\ op'[p].cert = op[p].cert
                            /\ \/ op'[p].seen = op[p].seen
                               \/ op'[p].seen = row[op[p].cert].status /\ op[p].kind = "issue"
                            /\ op'[p].pc = "setBusy" /\ op[p].kind # "issue" => op'[p].seen \in Once
  BY <1>2 DEF Sees, Idle, Handler
<1>6. op'[p].pc = "idle" => op'[p].kind = "none"
  <2>1. KindInv'
    BY TypeStep DEF Inv, Next
  <2> QED
    BY <2>1 DEF KindInv, KindOK
<1>7. OnceIssued'
  BY <1>0, <1>3 DEF OnceIssued
<1>8. SeenIssued'
  <2> SUFFICES ASSUME NEW q \in Requests, op'[q].pc # "idle", op'[q].seen \in Once
               PROVE  row'[op'[q].cert].serial # 0
    BY DEF SeenIssued
  <2>1. CASE q = p
    <3>1. row[op[p].cert].serial # 0
      BY <1>0, <1>1, <1>5, <2>1 DEF SeenIssued, OnceIssued
    <3> QED
      BY <1>1, <1>3, <1>5, <2>1, <3>1
  <2>2. CASE q # p
    BY <1>0, <1>1, <1>3, <1>4, <2>2 DEF SeenIssued
  <2> QED
    BY <2>1, <2>2
<1>9. RenewalSeen'
  <2> SUFFICES ASSUME NEW q \in Requests, op'[q].pc = "setBusy", op'[q].kind # "issue"
               PROVE  op'[q].seen \in Once
    BY DEF RenewalSeen
  <2> QED
    BY <1>0, <1>1, <1>5 DEF RenewalSeen
<1>10. RevocationSeen'
  <2> SUFFICES ASSUME NEW q \in Requests, op'[q].kind = "revoke"
               PROVE  op'[q].seen \in Once /\ row'[op'[q].cert].mode = "acme"
    BY DEF RevocationSeen
  <2>1. CASE q = p
    BY <1>0, <1>1, <1>3, <1>5, <1>6, <2>1 DEF RevocationSeen
  <2>2. CASE q # p
    BY <1>0, <1>1, <1>3, <1>4, <2>2 DEF RevocationSeen, KindOK
  <2> QED
    BY <2>1, <2>2
<1>11. CreatingUnissued'
  <2> SUFFICES ASSUME NEW q \in Requests, Creating(q)', Exists(op[q].cert)'
               PROVE  row'[op'[q].cert].serial = 0
    BY DEF CreatingUnissued
  <2>1. CASE q = p
    <3>1. OwnsBusy(p)' /\ op'[p].kind = "create" /\ op'[p].pc # "idle"
      BY <2>1 DEF Creating, OwnsBusy
    <3>2. op[p].kind = "create" /\ op'[p].cert = op[p].cert
      BY <1>5, <3>1
    <3>3. Passes(p)
      BY <1>0, <1>2, <3>1, <3>2 DEF Effect, Takes, Records, Revokes, Adjusts, Removes, KindOK
    <3> QED
      BY <1>0, <2>1, <3>1, <3>2, <3>3 DEF Passes, CreatingUnissued, Creating, Exists
  <2>2. CASE q # p
    <3>1. op'[q] = op[q] /\ Creating(q) /\ op[q].cert \in CertIds
      BY <1>1, <1>4, <2>2 DEF Creating, OwnsBusy
    <3>2. Exists(op[q].cert)
      BY <1>3, <3>1 DEF Exists
    <3>3. ~(Records(p) /\ op[q].cert = op[p].cert)
      BY <2>2, <3>1, <3>2, OwnersApart DEF Records, Creating
    <3> QED
      BY <1>0, <1>3, <3>1, <3>2, <3>3 DEF CreatingUnissued
  <2> QED
    BY <2>1, <2>2
<1> QED
  BY <1>7, <1>8, <1>9, <1>10, <1>11 DEF LifeInv

\* Every step of the service keeps this invariant.
LEMMA LifeStep == Inv /\ JobInv /\ LifeInv /\ [Next]_vars => LifeInv'
<1> SUFFICES ASSUME Inv, JobInv, LifeInv, [Next]_vars PROVE LifeInv'
  OBVIOUS
<1>1. ASSUME NEW p \in Requests, Begin(p) PROVE LifeInv'
  BY <1>1, LifeBegin
<1>2. ASSUME NEW p \in Requests, Step(p) PROVE LifeInv'
  BY <1>2, LifeCall
<1>3. CASE Restart
  <2>1. \A q \in Requests : op'[q].pc = "idle" /\ op'[q].kind = "none"
    BY <1>3 DEF Restart, Idle, Handler
  <2>2. UNCHANGED row
    BY <1>3 DEF Restart
  <2> QED
    BY <2>1, <2>2 DEF LifeInv, OnceIssued, SeenIssued, RenewalSeen, RevocationSeen,
       CreatingUnissued, Creating
<1>4. CASE UNCHANGED vars
  BY <1>4 DEF vars, LifeInv, OnceIssued, SeenIssued, RenewalSeen, RevocationSeen,
     CreatingUnissued, Creating, OwnsBusy, Exists
<1> QED
  BY <1>1, <1>2, <1>3, <1>4 DEF Next

-----------------------------------------------------------------------------
(* Who issues a certificate, as CertificateLifecycle sees it *)

IssuesFor(q, c) == q \in Requests /\ OwnsBusy(q) /\ op[q].cert = c /\ Exists(c)

\* What it means to be among the issuing executions, before and after a step.
LEMMA IssuingMeans ==
  ASSUME NEW c \in CertIds, NEW r
  PROVE  /\ r \in issuing[c] <=> \E q \in Requests : IssuesFor(q, c) /\ op[q].run = r
         /\ r \in issuing'[c] <=> \E q \in Requests : IssuesFor(q, c)' /\ op'[q].run = r
  BY DEF issuing, IssuesFor, OwnsBusy, Exists, Issues

\* The refinement mapping is a function on the certificates.
LEMMA IssuingIsFunction ==
  /\ issuing = [c \in CertIds |-> issuing[c]]
  /\ issuing' = [c \in CertIds |-> issuing'[c]]
  BY DEF issuing

\* A change of the issuing executions of one certificate, as the abstract actions
\* state it.
LEMMA IssuersSet ==
  ASSUME NEW c \in CertIds, NEW rs, issuing'[c] = rs,
         \A b \in CertIds \ {c} : issuing'[b] = issuing[b]
  PROVE  Lifecycle!Issuers(c, rs)
  BY IssuingIsFunction DEF Lifecycle!Issuers

\* A call changes who issues the handler's own certificate at most.
LEMMA IssuersElsewhere ==
  ASSUME Inv, JobInv, NEW p \in Requests, Step(p)
  PROVE  \A b \in CertIds \ {op[p].cert} : issuing'[b] = issuing[b]
<1> SUFFICES ASSUME NEW b \in CertIds, b # op[p].cert PROVE issuing'[b] = issuing[b]
  OBVIOUS
<1>1. /\ Elsewhere(p) /\ b # NoCert
  BY StepElsewhere, ConstantsAssumption DEF Inv
<1>2. /\ life'[b] = life[b] /\ op'[p].cert # b
      /\ \A q \in Requests \ {p} : op'[q] = op[q]
  BY <1>1 DEF Elsewhere
<1>3. \A q \in Requests : (IssuesFor(q, b)' <=> IssuesFor(q, b)) /\ (q # p => op'[q] = op[q])
                          /\ ~IssuesFor(p, b)
  BY <1>2 DEF IssuesFor, OwnsBusy, Exists
<1>4. \A r : r \in issuing'[b] <=> r \in issuing[b]
  BY <1>3, IssuingMeans
<1> QED
  BY <1>4

\* Nobody issues a certificate whose row is gone.
LEMMA NobodyIssues ==
  ASSUME NEW c \in CertIds
  PROVE  (~Exists(c) => issuing[c] = {}) /\ (~Exists(c)' => issuing'[c] = {})
  BY IssuingMeans DEF IssuesFor

\* A call that leaves the row in the table and its owner alone.
LEMMA IssuersSame ==
  ASSUME Inv, JobInv, NEW p \in Requests, Step(p), UNCHANGED life, OwnsBusy(p)' <=> OwnsBusy(p)
  PROVE  UNCHANGED issuing
<1>1. op[p].cert \in CertIds /\ \A q \in Requests \ {p} : op'[q] = op[q]
  BY Runner
<1>2. PICK c \in CertIds : c = op[p].cert
  BY <1>1
<1>3. OwnsBusy(p)' => op'[p].cert = op[p].cert /\ op'[p].run = op[p].run
  BY StepSees DEF Inv, Sees, OwnsBusy, Idle, Handler
<1>4. \A q \in Requests : IssuesFor(q, c)' <=> IssuesFor(q, c)
  <2> SUFFICES ASSUME NEW q \in Requests PROVE IssuesFor(q, c)' <=> IssuesFor(q, c)
    OBVIOUS
  <2>1. CASE q = p
    BY <1>2, <1>3, <2>1 DEF IssuesFor, Exists
  <2>2. CASE q # p
    BY <1>1, <2>2 DEF IssuesFor, OwnsBusy, Exists
  <2> QED
    BY <2>1, <2>2
<1>5. \A q \in Requests : IssuesFor(q, c)' => op'[q].run = op[q].run
  BY <1>1, <1>3 DEF IssuesFor
<1>6. \A r : r \in issuing'[c] <=> r \in issuing[c]
  BY <1>4, <1>5, IssuingMeans
<1>7. issuing'[c] = issuing[c]
  BY <1>6
<1> QED
  BY <1>2, <1>7, IssuersElsewhere, IssuingIsFunction

\* The owner of a row is the only one who issues it.
LEMMA OwnerIssues ==
  ASSUME Inv, NEW p \in Requests, op[p].cert \in CertIds, Exists(op[p].cert), OwnsBusy(p)
  PROVE  issuing[op[p].cert] = {op[p].run}
<1>1. \A q \in Requests : IssuesFor(q, op[p].cert) <=> q = p
  BY OwnersApart DEF IssuesFor
<1>2. \A r : r \in issuing[op[p].cert] <=> r = op[p].run
  BY <1>1, IssuingMeans
<1> QED
  BY <1>2

\* Who is about to write a status as a locking handler finds the row quiet.
LEMMA WriterFindsQuiet ==
  ASSUME Inv, NEW p \in Requests, op[p].cert \in CertIds, Exists(op[p].cert),
         op[p].pc \in {"setBusy", "setRevoked"}
  PROVE  Lifecycle!Quiet(op[p].cert)
<1>1. Meddles(p) /\ ~OwnsBusy(p)
  BY DEF Meddles, OwnsBusy
<1>2. \A q \in Requests : ~IssuesFor(q, op[p].cert)
  BY <1>1, IssuerIsAlone DEF IssuesFor
<1>3. issuing[op[p].cert] = {}
  BY <1>2, IssuingMeans
<1> QED
  BY <1>3 DEF Lifecycle!Quiet, Lifecycle!Live, Exists

\* A status written to a row that is there changes the status only.
LEMMA StatusMeans ==
  ASSUME NEW c \in CertIds, NEW s, row' = SetStatus(c, s), Exists(c)
  PROVE  Lifecycle!Status(c, s)
  BY DEF SetStatus, UpdateRow, Lifecycle!Status

\* A number that was handed out to a handler that has not issued yet, or to
\* nobody, is not in use.
LEMMA RunUnused ==
  ASSUME Inv, JobInv, NEW r \in Runs, ~Trace(r),
         \A q \in Requests : OwnsBusy(q) => op[q].run # r
  PROVE  Lifecycle!Unused(r)
<1>1. \A c \in CertIds : r \notin issuing[c]
  BY IssuingMeans DEF IssuesFor
<1>2. \A c \in CertIds : row[c].serial # r
  BY DEF Trace
<1> QED
  BY <1>1, <1>2 DEF Lifecycle!Unused

-----------------------------------------------------------------------------
(* Every step of the service is one of CertificateLifecycle, or none *)

\* SetCertificateStatus(issuing | renewing) is the abstract Issue or Renew: the row is
\* quiet, the run number unused, and what is renewed was issued before.
LEMMA TakesMeans ==
  ASSUME Inv, JobInv, LifeInv, NEW p \in Requests, Step(p), Takes(p)
  PROVE  Lifecycle!Next \/ UNCHANGED Lifecycle!records
<1>1. /\ op[p].pc = "setBusy" /\ ~OwnsBusy(p) /\ op[p].cert \in CertIds /\ op[p].run \in Runs
      /\ UNCHANGED life /\ OwnsBusy(p)'
      /\ row' = SetStatus(op[p].cert, IF op[p].kind = "issue" THEN "issuing" ELSE "renewing")
  BY Runner DEF Takes, OwnsBusy
<1>2. PICK c \in CertIds : c = op[p].cert
  BY <1>1
<1>3. PICK r \in Runs : r = op[p].run
  BY <1>1
<1>4. CASE Exists(c)
  <2>1. Lifecycle!Quiet(c)
    BY <1>1, <1>2, <1>4, WriterFindsQuiet
  <2>2. Lifecycle!Unused(r)
    <3>1. ~Trace(r)
      BY <1>1, <1>3 DEF JobInv, UnpublishedNowhere, Published
    <3>2. \A q \in Requests : OwnsBusy(q) => op[q].run # r
      <4> SUFFICES ASSUME NEW q \in Requests, OwnsBusy(q), op[q].run = r PROVE FALSE
        OBVIOUS
      <4>1. op[q].pc # "idle" /\ op[p].pc # "idle"
        BY <1>1 DEF OwnsBusy
      <4> QED
        BY <1>1, <1>3, <4>1 DEF JobInv, RunsDistinct
    <3> QED
      BY <3>1, <3>2, RunUnused
  <2>3. issuing'[c] = {r}
    <3>1. op'[p].cert = c /\ op'[p].run = r
      BY <1>1, <1>2, <1>3, StepSees DEF Inv, Sees, OwnsBusy, Idle, Handler
    <3>2. \A q \in Requests : IssuesFor(q, c)' <=> q = p
      <4> SUFFICES ASSUME NEW q \in Requests PROVE IssuesFor(q, c)' <=> q = p
        OBVIOUS
      <4>1. CASE q = p
        BY <1>1, <1>4, <3>1, <4>1 DEF IssuesFor, Exists
      <4>2. CASE q # p
        <5>1. op'[q] = op[q] /\ Meddles(p)
          BY <1>1, <4>2, Runner DEF Meddles
        <5>2. ~(OwnsBusy(q) /\ op[q].cert = c)
          BY <1>2, <1>4, <4>2, <5>1, IssuerIsAlone
        <5> QED
          BY <4>2, <5>1, <5>2 DEF IssuesFor, OwnsBusy
      <4> QED
        BY <4>1, <4>2
    <3>3. \A s : s \in issuing'[c] <=> s = r
      BY <3>1, <3>2, IssuingMeans
    <3> QED
      BY <3>3
  <2>4. Lifecycle!Issuers(c, {r})
    BY <1>2, <2>3, IssuersElsewhere, IssuersSet
  <2>5. CASE op[p].kind = "issue"
    <3>1. Lifecycle!Status(c, "issuing")
      BY <1>1, <1>2, <1>4, <2>5, StatusMeans
    <3>2. Lifecycle!Issue(c, r)
      BY <1>1, <2>1, <2>2, <2>4, <3>1 DEF Lifecycle!Issue
    <3> QED
      BY <3>2 DEF Lifecycle!Next
  <2>6. CASE op[p].kind # "issue"
    <3>1. Lifecycle!Status(c, "renewing")
      BY <1>1, <1>2, <1>4, <2>6, StatusMeans
    <3>2. row[c].serial # 0
      BY <1>1, <1>2, <2>6 DEF LifeInv, RenewalSeen, SeenIssued
    <3>3. Lifecycle!Renew(c, r)
      BY <1>1, <2>1, <2>2, <2>4, <3>1, <3>2 DEF Lifecycle!Renew
    <3> QED
      BY <3>3 DEF Lifecycle!Next
  <2> QED
    BY <2>5, <2>6
<1>5. CASE ~Exists(c)
  <2>1. UNCHANGED row
    BY <1>1, <1>2, <1>5 DEF SetStatus, UpdateRow
  <2>2. issuing'[c] = issuing[c]
    BY <1>1, <1>5, NobodyIssues DEF Exists
  <2>3. UNCHANGED issuing
    BY <1>2, <2>2, IssuersElsewhere, IssuingIsFunction
  <2> QED
    BY <1>1, <2>1, <2>3 DEF Lifecycle!records
<1> QED
  BY <1>4, <1>5

\* The final UPDATE of the owner is Succeed or Fail, a failed statement LoseOutcome.
LEMMA RecordsMeans ==
  ASSUME Inv, JobInv, NEW p \in Requests, Step(p), Records(p)
  PROVE  Lifecycle!Next \/ UNCHANGED Lifecycle!records
<1>1. op[p].cert \in CertIds /\ OwnsBusy(p) /\ ~OwnsBusy(p)' /\ UNCHANGED life
  BY Runner DEF Records
<1>2. PICK c \in CertIds : c = op[p].cert
  BY <1>1
<1>3. CASE Exists(c)
  <2>1. issuing[c] = {op[p].run} /\ Lifecycle!Live(c)
    BY <1>1, <1>2, <1>3, OwnerIssues DEF Lifecycle!Live, Exists
  <2>2. issuing'[c] = {}
    <3>1. \A q \in Requests : ~IssuesFor(q, c)'
      <4> SUFFICES ASSUME NEW q \in Requests, IssuesFor(q, c)' PROVE FALSE
        OBVIOUS
      <4>1. q # p
        BY <1>1 DEF IssuesFor
      <4>2. IssuesFor(q, c)
        BY <1>3, <4>1, Runner DEF IssuesFor, OwnsBusy, Exists
      <4> QED
        BY <1>1, <1>2, <4>1, <4>2, OwnersApart DEF IssuesFor
    <3> QED
      BY <3>1, IssuingMeans
  <2>3. Lifecycle!Issuers(c, {})
    BY <1>2, <2>2, IssuersElsewhere, IssuersSet
  <2>4. CASE row' = UpdateRow(c, [row[c] EXCEPT !.status = "active", !.serial = op[p].run])
    <3>1. row' = [row EXCEPT ![c].status = "active", ![c].serial = op[p].run]
      BY <1>3, <2>4 DEF UpdateRow, Inv, TypeOK, Row
    <3>2. Lifecycle!Succeed(c)
      BY <1>1, <2>1, <2>3, <3>1 DEF Lifecycle!Succeed
    <3> QED
      BY <3>2 DEF Lifecycle!Next
  <2>5. CASE row' = SetStatus(c, "failed")
    <3>1. Lifecycle!Fail(c)
      BY <1>1, <1>3, <2>1, <2>3, <2>5, StatusMeans DEF Lifecycle!Fail
    <3> QED
      BY <3>1 DEF Lifecycle!Next
  <2>6. CASE UNCHANGED row /\ May("db")
    <3>1. Lifecycle!LoseOutcome(c)
      BY <1>1, <2>1, <2>3, <2>6 DEF Lifecycle!LoseOutcome
    <3> QED
      BY <3>1 DEF Lifecycle!Next
  <2> QED
    BY <1>2, <1>3, <2>4, <2>5, <2>6 DEF Records
<1>4. CASE ~Exists(c)
  <2>1. UNCHANGED row
    BY <1>2, <1>4 DEF Records, SetStatus, UpdateRow
  <2>2. issuing'[c] = issuing[c]
    BY <1>1, <1>4, NobodyIssues DEF Exists
  <2>3. UNCHANGED issuing
    BY <1>2, <2>2, IssuersElsewhere, IssuingIsFunction
  <2> QED
    BY <1>1, <2>1, <2>3 DEF Lifecycle!records
<1> QED
  BY <1>3, <1>4

\* SetCertificateStatus(revoked) finds a quiet row that acme.sh has issued.
LEMMA RevokesMeans ==
  ASSUME Inv, JobInv, LifeInv, NEW p \in Requests, Step(p), Revokes(p)
  PROVE  Lifecycle!Next \/ UNCHANGED Lifecycle!records
<1>1. /\ op[p].pc = "setRevoked" /\ op[p].cert \in CertIds /\ op[p].kind = "revoke"
      /\ UNCHANGED life /\ ~OwnsBusy(p) /\ ~OwnsBusy(p)'
      /\ row' = SetStatus(op[p].cert, "revoked")
  BY Runner DEF Revokes, OwnsBusy, Inv, KindInv, KindOK
<1>2. UNCHANGED issuing
  BY <1>1, IssuersSame
<1>3. PICK c \in CertIds : c = op[p].cert
  BY <1>1
<1>4. CASE Exists(c)
  <2>1. Lifecycle!Quiet(c)
    BY <1>1, <1>3, <1>4, WriterFindsQuiet
  <2>2. row[c].mode = "acme" /\ row[c].serial # 0
    BY <1>1, <1>3 DEF LifeInv, RevocationSeen, SeenIssued
  <2>3. Lifecycle!Revoke(c)
    BY <1>1, <1>2, <1>3, <1>4, <2>1, <2>2, StatusMeans DEF Lifecycle!Revoke
  <2> QED
    BY <2>3 DEF Lifecycle!Next
<1>5. CASE ~Exists(c)
  BY <1>1, <1>2, <1>3, <1>5 DEF SetStatus, UpdateRow, Lifecycle!records
<1> QED
  BY <1>4, <1>5

\* UpdateCertificateSettings may come at any time, and changes the settings only.
LEMMA AdjustsMeans ==
  ASSUME Inv, JobInv, NEW p \in Requests, Step(p), Adjusts(p)
  PROVE  Lifecycle!Next
<1>1. /\ op[p].cert \in CertIds /\ Exists(op[p].cert) /\ UNCHANGED life
      /\ ~OwnsBusy(p) /\ ~OwnsBusy(p)'
      /\ \E auto \in BOOLEAN : row' = [row EXCEPT ![op[p].cert].autoRenew = auto]
  BY Runner DEF Adjusts, OwnsBusy
<1>2. UNCHANGED issuing
  BY <1>1, IssuersSame
<1>3. Lifecycle!Settings(op[p].cert)
  BY <1>1, <1>2 DEF Lifecycle!Settings, Lifecycle!Live, Exists
<1> QED
  BY <1>1, <1>3 DEF Lifecycle!Next

\* Delete holds the mutex, so that only a create can be issuing: nothing was
\* issued yet under that row.
LEMMA RemovesMeans ==
  ASSUME Inv, JobInv, LifeInv, NEW p \in Requests, Step(p), Removes(p)
  PROVE  Lifecycle!Next
<1>1. /\ op[p].cert \in CertIds /\ Exists(op[p].cert) /\ UNCHANGED row
      /\ op[p].pc = "deleteRow" /\ op[p].kind = "delete"
      /\ life' = [life EXCEPT ![op[p].cert] = "deleted"]
  BY Runner DEF Removes, Inv, KindInv, KindOK
<1>2. PICK c \in CertIds : c = op[p].cert
  BY <1>1
<1>3. issuing[c] # {} => row[c].serial = 0
  <2> SUFFICES ASSUME NEW q \in Requests, IssuesFor(q, c) PROVE row[c].serial = 0
    BY IssuingMeans
  <2>1. op[q].kind = "create"
    <3> SUFFICES ASSUME op[q].kind # "create" PROVE FALSE
      OBVIOUS
    <3>1. InLock(p) /\ InLock(q) /\ op[q].cert = op[p].cert /\ p # q
      BY <1>1, <1>2 DEF IssuesFor, InLock, Locks, LockFree, OwnsBusy, Issues
    <3> QED
      BY <1>1, <3>1, LockInvImplies DEF Inv, LockExclusive, Exists
  <2> QED
    BY <2>1 DEF IssuesFor, LifeInv, CreatingUnissued, Creating
<1>4. ~Exists(c)'
  BY <1>1, <1>2 DEF Exists, Inv, TypeOK
<1>5. Lifecycle!Issuers(c, {})
  BY <1>2, <1>4, NobodyIssues, IssuersElsewhere, IssuersSet
<1>6. Lifecycle!Delete(c)
  BY <1>1, <1>2, <1>3, <1>5 DEF Lifecycle!Delete, Lifecycle!Live, Exists
<1> QED
  BY <1>6 DEF Lifecycle!Next

\* Every call of a handler is an abstract step, or changes nothing the abstract
\* specification sees.
LEMMA CallMeans ==
  ASSUME Inv, JobInv, LifeInv, NEW p \in Requests, Step(p)
  PROVE  [Lifecycle!Next]_(Lifecycle!records)
<1>1. CASE Passes(p)
  <2>1. UNCHANGED issuing
    BY <1>1, IssuersSame DEF Passes
  <2> QED
    BY <1>1, <2>1 DEF Passes, Lifecycle!records
<1> QED
  BY <1>1, StepEffect, TakesMeans, RecordsMeans, RevokesMeans, AdjustsMeans, RemovesMeans
  DEF Effect, Inv

\* A create begins the life of a certificate; other handlers begin unseen.
LEMMA BeginMeans ==
  ASSUME Inv, JobInv, NEW p \in Requests, Begin(p)
  PROVE  [Lifecycle!Next]_(Lifecycle!records)
<1>0. /\ op[p].pc = "idle" /\ ops + 1 \in Runs /\ op'[p].run = ops + 1
      /\ \A q \in Requests \ {p} : op'[q] = op[q]
  BY BeginBegins, ConstantsAssumption DEF Inv, TypeOK, Begun, Runs
<1>1. ASSUME NEW c \in CertIds, NEW m \in Modes, NEW auto \in AutoRenewChoices, Create(p, c, m, auto)
      PROVE  Lifecycle!Next
  <2>1. /\ op'[p].pc = "createJob" /\ op'[p].kind = "create" /\ op'[p].cert = c
    BY <1>1, CreateMoves DEF Inv
  <2>2. /\ life[c] = "unborn" /\ life' = [life EXCEPT ![c] = "live"]
        /\ row' = [row EXCEPT ![c] = [status |-> "issuing", mode |-> m, serial |-> 0, autoRenew |-> auto]]
    BY <1>1 DEF Create
  <2>3. life'[c] = "live" /\ \A b \in CertIds \ {c} : life'[b] = life[b]
    BY <2>2 DEF Inv, TypeOK
  <2>4. PICK r \in Runs : r = ops + 1
    BY <1>0
  <2>5. Lifecycle!Unused(r)
    <3>1. ops \in Nat /\ r > ops
      BY <2>4 DEF Inv, TypeOK
    <3>2. \A q \in Requests : OwnsBusy(q) => op[q].run # r
      BY <3>1 DEF JobInv, RunsHandedOut, OwnsBusy
    <3>3. ~Trace(r)
      BY <3>1 DEF JobInv, RunsFresh
    <3> QED
      BY <3>2, <3>3, RunUnused
  <2>6. issuing'[c] = {r}
    <3>1. \A q \in Requests \ {p} : ~IssuesFor(q, c)'
      BY <1>0, <2>2 DEF IssuesFor, OwnsBusy, Inv, DiskInv, HandlersKnowRows
    <3>2. IssuesFor(p, c)'
      BY <2>1, <2>3 DEF IssuesFor, OwnsBusy, Issues, Exists
    <3>3. \A s : s \in issuing'[c] <=> s = r
      BY <1>0, <2>4, <3>1, <3>2, IssuingMeans
    <3> QED
      BY <3>3
  <2>7. \A b \in CertIds \ {c} : issuing'[b] = issuing[b]
    <3> SUFFICES ASSUME NEW b \in CertIds, b # c PROVE issuing'[b] = issuing[b]
      OBVIOUS
    <3>1. \A q \in Requests \ {p} : IssuesFor(q, b)' <=> IssuesFor(q, b)
      BY <1>0, <2>3 DEF IssuesFor, OwnsBusy, Exists
    <3>2. ~IssuesFor(p, b)' /\ ~IssuesFor(p, b)
      BY <1>0, <2>1 DEF IssuesFor, OwnsBusy
    <3>3. \A s : s \in issuing'[b] <=> s \in issuing[b]
      BY <1>0, <3>1, <3>2, IssuingMeans
    <3> QED
      BY <3>3
  <2>8. Lifecycle!Issuers(c, {r})
    BY <2>6, <2>7, IssuersSet
  <2>9. auto \in BOOLEAN
    BY ConstantsAssumption
  <2>10. Lifecycle!Create(c, r)
    BY <2>2, <2>5, <2>8, <2>9 DEF Lifecycle!Create
  <2> QED
    BY <2>10 DEF Lifecycle!Next
<1>2. ASSUME NEW b \in CertIds, NEW k \in Kinds, NEW l \in {"get", "load", "updateSettings"},
             NEW f \in BOOLEAN, Start(p, l, k, b, f), UNCHANGED <<db, fs, locks>>
      PROVE  UNCHANGED Lifecycle!records
  <2>1. op'[p].pc = l
    BY <1>2, StartStarts DEF Started, Labels, LockFree, Inv
  <2>2. ~OwnsBusy(p) /\ ~OwnsBusy(p)' /\ UNCHANGED <<life, row>>
    BY <1>0, <1>2, <2>1 DEF OwnsBusy, db
  <2>3. \A b2 \in CertIds, q \in Requests : (IssuesFor(q, b2)' <=> IssuesFor(q, b2))
                                        /\ (IssuesFor(q, b2) => op'[q] = op[q])
    BY <1>0, <2>2 DEF IssuesFor, OwnsBusy, Exists
  <2>4. \A b2 \in CertIds : \A s : s \in issuing'[b2] <=> s \in issuing[b2]
    BY <2>3, IssuingMeans
  <2>5. \A b2 \in CertIds : issuing'[b2] = issuing[b2]
    BY <2>4
  <2> QED
    BY <2>2, <2>5, IssuingIsFunction DEF Lifecycle!records
<1>3. ASSUME NEW b \in CertIds, NEW force \in BOOLEAN, Renew(p, b, force) PROVE UNCHANGED Lifecycle!records
  BY <1>2, <1>3 DEF Renew, Kinds
<1>4. ASSUME NEW b \in CertIds, Issue(p, b) PROVE UNCHANGED Lifecycle!records
  BY <1>2, <1>4 DEF Issue, Kinds
<1>5. ASSUME NEW b \in CertIds, Revoke(p, b) PROVE UNCHANGED Lifecycle!records
  BY <1>2, <1>5 DEF Revoke, Kinds
<1>6. ASSUME NEW b \in CertIds, NEW f \in BOOLEAN, Delete(p, b, f) PROVE UNCHANGED Lifecycle!records
  BY <1>2, <1>6 DEF Delete, Kinds
<1>7. ASSUME NEW b \in CertIds, Update(p, b) PROVE UNCHANGED Lifecycle!records
  BY <1>2, <1>7 DEF Update, Kinds
<1> QED
  BY <1>1, <1>3, <1>4, <1>5, <1>6, <1>7 DEF Begin

\* However the calls of creates, issues, renewals, revocations, updates and
\* deletions interleave, fail or are cut off by a crash, the rows of table
\* certificates change as CertificateLifecycle allows: Service.locks and the busy
\* status together leave one execution at a time in charge of a row.
THEOREM LifecycleRefined == Spec => ImplementsLifecycle
<1>1. Init => Inv /\ JobInv /\ LifeInv
  BY TypeInit, LockInit, DiskInit, JobInit, LifeInit DEF Inv
<1>2. Inv /\ JobInv /\ LifeInv /\ [Next]_vars => (Inv /\ JobInv /\ LifeInv)'
  BY TypeStep, LockStep, DiskStep, JobStep, LifeStep DEF Inv
<1>3. Init => Lifecycle!Init
  <2> SUFFICES ASSUME Init PROVE Lifecycle!Init
    OBVIOUS
  <2>1. \A q \in Requests : ~OwnsBusy(q)
    BY DEF Init, Idle, Handler, OwnsBusy
  <2>2. \A c \in CertIds : issuing[c] = {}
    BY <2>1, IssuingMeans DEF IssuesFor
  <2>3. issuing = [c \in CertIds |-> {}]
    BY <2>2, IssuingIsFunction
  <2> QED
    BY <2>3 DEF Init, Lifecycle!Init, Lifecycle!Unborn
<1>4. Inv /\ JobInv /\ LifeInv /\ [Next]_vars => [Lifecycle!Next]_(Lifecycle!records)
  <2> SUFFICES ASSUME Inv, JobInv, LifeInv, [Next]_vars
               PROVE  [Lifecycle!Next]_(Lifecycle!records)
    OBVIOUS
  <2>1. ASSUME NEW p \in Requests, Begin(p) PROVE [Lifecycle!Next]_(Lifecycle!records)
    BY <2>1, BeginMeans
  <2>2. ASSUME NEW p \in Requests, Step(p) PROVE [Lifecycle!Next]_(Lifecycle!records)
    BY <2>2, CallMeans
  <2>3. CASE Restart
    <3>1. \A q \in Requests : ~OwnsBusy(q)'
      BY <2>3 DEF Restart, Idle, Handler, OwnsBusy
    <3>2. \A c \in CertIds : issuing'[c] = {}
      BY <3>1, IssuingMeans DEF IssuesFor
    <3>3. issuing' = [c \in CertIds |-> {}]
      BY <3>2, IssuingIsFunction
    <3>4. Lifecycle!Crash
      BY <2>3, <3>3 DEF Restart, Lifecycle!Crash
    <3> QED
      BY <3>4 DEF Lifecycle!Next
  <2>4. CASE UNCHANGED vars
    <3>1. UNCHANGED issuing
      BY <2>4 DEF vars, issuing, OwnsBusy, Exists
    <3> QED
      BY <2>4, <3>1 DEF vars, Lifecycle!records
  <2> QED
    BY <2>1, <2>2, <2>3, <2>4 DEF Next
<1> QED
  BY <1>1, <1>2, <1>3, <1>4, PTL DEF Spec, ImplementsLifecycle, Lifecycle!Spec
=============================================================================
