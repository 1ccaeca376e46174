------------------------------ MODULE Publisher ------------------------------
(***************************************************************************)
(* One output directory below the certificate root, at the granularity of  *)
(* the file system calls of internal/certificate/files/publisher.go:       *)
(* Publish (a renewal or an issue), Backup and Remove (a delete with       *)
(* files), and the archive download of internal/httpapi/certificates.go,   *)
(* which reads the files one at a time without any lock.  The files are    *)
(* written, copied and unlinked in the order a range over the map          *)
(* allowedFiles happens to give.                                           *)
(*                                                                         *)
(* A directory is a function from file names to the version each file      *)
(* comes from.  Stage, previous and backup directories have unique names   *)
(* and only their owner touches them.                                      *)
(***************************************************************************)
EXTENDS Integers, FiniteSets

CONSTANTS
    Files,     \* allowedFiles
    Versions,  \* payloads; each is published at most once
    Missing,   \* in place of a version: the file is not there
    NoDir,     \* the directory is not there
    Workers,   \* handlers that publish or delete
    Readers,   \* archive downloads
    Faults     \* "io": a file system call fails; "restore": the rename back
               \* fails as well; "crash": the process is killed

ASSUME ConstantsAssumption ==
    /\ Files # {}
    /\ Missing \notin Versions /\ NoDir \notin [Files -> Versions \cup {Missing}]
    /\ Faults \subseteq {"io", "restore", "crash"}

VARIABLES
    target,   \* <root>/<safeName>
    stage,    \* stage[w]: <root>/.<safeName>.stage-*
    prev,     \* prev[w]: <root>/.<safeName>.previous-*
    copy,     \* copy[w]: the backup directory being filled
    backups,  \* the finished backup directories
    litter,   \* directories nobody owns any more
    used,     \* versions that Publish was called with
    last,     \* the version renamed into place most recently
    job,      \* job[w]: the call worker w is at
    read      \* read[r]: the archive download r

vars == <<target, stage, prev, copy, backups, litter, used, last, job, read>>

-----------------------------------------------------------------------------
EmptyDir  == [f \in Files |-> Missing]
Whole(v)  == [f \in Files |-> v]
Dir       == [Files -> Versions \cup {Missing}]
IsWhole(d) == \E v \in Versions : d = Whole(v)

\* A call of Publish or of Delete: the version it writes, the files still to be
\* done, whether Lstat found a directory, what was in place, and how it ended.
Job == [pc: {"idle", "stage", "copy", "moveAside", "rename", "restore", "dropPrev", "remove"},
        op: {"none", "publish", "delete"}, version: Versions \cup {Missing},
        todo: SUBSET Files, had: BOOLEAN, before: Dir \cup {NoDir}, failed: BOOLEAN]
Idle   == [pc |-> "idle", op |-> "none", version |-> Missing, todo |-> {},
           had |-> FALSE, before |-> NoDir, failed |-> FALSE]
NoRead == [todo |-> {}, got |-> EmptyDir, done |-> FALSE]

May(fault) == fault \in Faults
Goto(w, label) == job' = [job EXCEPT ![w].pc = label]

\* The call returns; what it was doing stays visible until the next one.
Return(w, failed) ==
    job' = [job EXCEPT ![w] = [@ EXCEPT !.pc = "idle", !.todo = {}, !.failed = failed]]

\* Publish returns an error: the deferred function removes the stage directory.
Abandon(w) == Return(w, TRUE) /\ stage' = [stage EXCEPT ![w] = NoDir]

Init ==
    /\ target = NoDir
    /\ stage = [w \in Workers |-> NoDir]
    /\ prev = [w \in Workers |-> NoDir]
    /\ copy = [w \in Workers |-> NoDir]
    /\ backups = {} /\ litter = {}
    /\ used = {} /\ last = Missing
    /\ job = [w \in Workers |-> Idle]
    /\ read = [r \in Readers |-> NoRead]

-----------------------------------------------------------------------------
(* Publish *)

\* MkdirTemp of the stage directory.
Publish(w, v) ==
    /\ job[w].pc = "idle"
    /\ v \notin used
    /\ used' = used \cup {v}
    /\ stage' = [stage EXCEPT ![w] = EmptyDir]
    /\ job' = [job EXCEPT ![w] = [Idle EXCEPT !.pc = "stage", !.op = "publish", !.version = v,
                                              !.todo = Files, !.before = target]]
    /\ UNCHANGED <<target, prev, copy, backups, litter, last, read>>

\* Mutant: the files are written straight into the target directory.
WriteInPlace(w, f) ==
    /\ job[w].pc = "stage" /\ f \in job[w].todo
    /\ \/ /\ target # NoDir
          /\ target' = [target EXCEPT ![f] = job[w].version]
       \/ target = NoDir /\ UNCHANGED target
    /\ stage' = [stage EXCEPT ![w][f] = job[w].version]
    /\ job' = [job EXCEPT ![w].todo = @ \ {f}]
    /\ UNCHANGED <<prev, copy, backups, litter, used, last, read>>

WriteFile(w, f) ==
    /\ job[w].pc = "stage" /\ f \in job[w].todo
    /\ \/ /\ stage' = [stage EXCEPT ![w][f] = job[w].version]
          /\ job' = [job EXCEPT ![w].todo = @ \ {f}]
       \/ May("io") /\ Abandon(w)
    /\ UNCHANGED <<target, prev, copy, backups, litter, used, last, read>>

\* Mutant: the previous directory is moved away without a backup.
LstatNoBackup(w) ==
    /\ job[w].pc = "stage" /\ job[w].todo = {}
    /\ Goto(w, IF target = NoDir THEN "rename" ELSE "moveAside")
    /\ UNCHANGED <<target, stage, prev, copy, backups, litter, used, last, read>>

\* os.Lstat(target) decides whether there is something to back up; then
\* copyManagedDirectory makes the backup directory.
Lstat(w) ==
    /\ job[w].pc = "stage" /\ job[w].todo = {}
    /\ \/ /\ target = NoDir
          /\ Goto(w, "rename")
          /\ UNCHANGED <<copy, stage>>
       \/ /\ target # NoDir
          /\ copy' = [copy EXCEPT ![w] = EmptyDir]
          /\ job' = [job EXCEPT ![w] = [@ EXCEPT !.pc = "copy", !.todo = Files, !.had = TRUE]]
          /\ UNCHANGED stage
       \/ May("io") /\ Abandon(w) /\ UNCHANGED copy
    /\ UNCHANGED <<target, prev, backups, litter, used, last, read>>

\* Mutant: a file that is not there is skipped.
CopySkipsMissing(w, f) ==
    /\ job[w].pc = "copy" /\ f \in job[w].todo
    /\ copy' = IF target # NoDir THEN [copy EXCEPT ![w][f] = target[f]] ELSE copy
    /\ job' = [job EXCEPT ![w].todo = @ \ {f}]
    /\ UNCHANGED <<target, stage, prev, backups, litter, used, last, read>>

\* copyManagedDirectory, one file.  A file that is not there is an error, and
\* the incomplete backup is removed.
CopyFile(w, f) ==
    /\ job[w].pc = "copy" /\ f \in job[w].todo
    /\ LET there == target # NoDir /\ target[f] # Missing
       IN \/ /\ there
             /\ copy' = [copy EXCEPT ![w][f] = target[f]]
             /\ job' = [job EXCEPT ![w].todo = @ \ {f}]
             /\ UNCHANGED stage
          \/ /\ ~there \/ May("io")
             /\ copy' = [copy EXCEPT ![w] = NoDir]
             /\ Abandon(w)
    /\ UNCHANGED <<target, prev, backups, litter, used, last, read>>

\* The backup is complete; Publish goes on, Backup returns to Delete.
CopyDone(w) ==
    /\ job[w].pc = "copy" /\ job[w].todo = {}
    /\ backups' = backups \cup {copy[w]}
    /\ copy' = [copy EXCEPT ![w] = NoDir]
    /\ Goto(w, IF job[w].op = "publish" THEN "moveAside" ELSE "remove")
    /\ UNCHANGED <<target, stage, prev, litter, used, last, read>>

\* os.Rename(target, swapBackup)
MoveAside(w) ==
    /\ job[w].pc = "moveAside"
    /\ \/ /\ target # NoDir
          /\ prev' = [prev EXCEPT ![w] = target]
          /\ target' = NoDir
          /\ Goto(w, "rename")
          /\ UNCHANGED stage
       \/ /\ target = NoDir \/ May("io")
          /\ Abandon(w)
          /\ UNCHANGED <<target, prev>>
    /\ UNCHANGED <<copy, backups, litter, used, last, read>>

\* os.Rename(stage, target): fails when somebody else has put a directory there.
Rename(w) ==
    /\ job[w].pc = "rename"
    /\ \/ /\ target = NoDir
          /\ target' = stage[w]
          /\ stage' = [stage EXCEPT ![w] = NoDir]
          /\ last' = job[w].version
          /\ IF job[w].had THEN Goto(w, "dropPrev") ELSE Return(w, FALSE)
       \/ /\ target # NoDir \/ May("io")
          /\ IF job[w].had THEN Goto(w, "restore") /\ UNCHANGED stage ELSE Abandon(w)
          /\ UNCHANGED <<target, last>>
    /\ UNCHANGED <<prev, copy, backups, litter, used, read>>

\* os.Rename(swapBackup, target); its error is ignored.
Restore(w) ==
    /\ job[w].pc = "restore"
    /\ \/ /\ target = NoDir
          /\ target' = prev[w]
          /\ UNCHANGED litter
       \/ /\ target # NoDir \/ May("restore")
          /\ litter' = litter \cup {prev[w]}
          /\ UNCHANGED target
    /\ prev' = [prev EXCEPT ![w] = NoDir]
    /\ Abandon(w)
    /\ UNCHANGED <<copy, backups, used, last, read>>

\* The previous directory is removed; an error is ignored.
DropPrev(w) ==
    /\ job[w].pc = "dropPrev"
    /\ \/ UNCHANGED litter
       \/ May("io") /\ litter' = litter \cup {prev[w]}
    /\ prev' = [prev EXCEPT ![w] = NoDir]
    /\ Return(w, FALSE)
    /\ UNCHANGED <<target, stage, copy, backups, used, last, read>>

-----------------------------------------------------------------------------
(* Delete with files: Backup, then Remove *)

\* Mutant: the backup is skipped.
DeleteNoBackup(w) ==
    /\ job[w].pc = "idle"
    /\ target # NoDir
    /\ job' = [job EXCEPT ![w] = [Idle EXCEPT !.pc = "remove", !.op = "delete", !.before = target]]
    /\ UNCHANGED <<target, stage, prev, copy, backups, litter, used, last, read>>

\* Backup: Lstat; without a directory there is nothing to copy.
Delete(w) ==
    /\ job[w].pc = "idle"
    /\ LET call(label, todo) == [Idle EXCEPT !.pc = label, !.op = "delete", !.todo = todo,
                                             !.before = target]
       IN \/ /\ target = NoDir
             /\ job' = [job EXCEPT ![w] = call("remove", {})]
             /\ UNCHANGED copy
          \/ /\ target # NoDir
             /\ job' = [job EXCEPT ![w] = call("copy", Files)]
             /\ copy' = [copy EXCEPT ![w] = EmptyDir]
    /\ UNCHANGED <<target, stage, prev, backups, litter, used, last, read>>

\* Remove: os.RemoveAll unlinks the files one by one ...
RemoveFile(w, f) ==
    /\ job[w].pc = "remove"
    /\ target # NoDir /\ target[f] # Missing
    /\ \/ target' = [target EXCEPT ![f] = Missing] /\ UNCHANGED job
       \/ May("io") /\ Return(w, TRUE) /\ UNCHANGED target
    /\ UNCHANGED <<stage, prev, copy, backups, litter, used, last, read>>

\* ... and then the directory, if it is there.
RemoveDirectory(w) ==
    /\ job[w].pc = "remove"
    /\ target \in {NoDir, EmptyDir}
    /\ \/ target' = NoDir /\ Return(w, FALSE)
       \/ May("io") /\ Return(w, TRUE) /\ UNCHANGED target
    /\ UNCHANGED <<stage, prev, copy, backups, litter, used, last, read>>

-----------------------------------------------------------------------------
(* downloadCertificateArchive *)

Archive(r) ==
    /\ read[r].todo = {}
    /\ read' = [read EXCEPT ![r] = [NoRead EXCEPT !.todo = Files]]
    /\ UNCHANGED <<target, stage, prev, copy, backups, litter, used, last, job>>

\* Read: a file that cannot be read ends the download with 404.
ReadFile(r, f) ==
    /\ f \in read[r].todo
    /\ \/ /\ target # NoDir /\ target[f] # Missing
          /\ read' = [read EXCEPT ![r] = [todo |-> @.todo \ {f},
                                          got |-> [@.got EXCEPT ![f] = target[f]],
                                          done |-> @.todo = {f}]]
       \/ /\ \/ target = NoDir
             \/ target # NoDir /\ (target[f] = Missing \/ May("io"))
          /\ read' = [read EXCEPT ![r] = NoRead]
    /\ UNCHANGED <<target, stage, prev, copy, backups, litter, used, last, job>>

-----------------------------------------------------------------------------
\* The process is killed: what the workers had made stays on the disk, and
\* nothing looks for it when the application starts again.
Crash ==
    /\ May("crash")
    /\ litter' = (litter \cup UNION {{stage[w], prev[w], copy[w]} : w \in Workers}) \ {NoDir}
    /\ stage' = [w \in Workers |-> NoDir]
    /\ prev' = [w \in Workers |-> NoDir]
    /\ copy' = [w \in Workers |-> NoDir]
    /\ job' = [w \in Workers |-> Idle]
    /\ read' = [r \in Readers |-> NoRead]
    /\ UNCHANGED <<target, backups, used, last>>

Step(w) ==
    \/ \E f \in Files : WriteFile(w, f) \/ CopyFile(w, f) \/ RemoveFile(w, f)
    \/ Lstat(w) \/ CopyDone(w) \/ MoveAside(w) \/ Rename(w) \/ Restore(w) \/ DropPrev(w)
    \/ RemoveDirectory(w)

Next ==
    \/ \E w \in Workers : Step(w) \/ Delete(w) \/ \E v \in Versions : Publish(w, v)
    \/ \E r \in Readers : Archive(r) \/ \E f \in Files : ReadFile(r, f)
    \/ Crash

Spec == Init /\ [][Next]_vars

-----------------------------------------------------------------------------
(* Correctness properties *)

\* The directories and calls keep their types.
TypeOK ==
    /\ target \in Dir \cup {NoDir}
    /\ stage \in [Workers -> Dir \cup {NoDir}]
    /\ prev \in [Workers -> Dir \cup {NoDir}] /\ copy \in [Workers -> Dir \cup {NoDir}]
    /\ backups \subseteq Dir /\ litter \subseteq Dir
    /\ used \subseteq Versions /\ last \in Versions \cup {Missing}
    /\ job \in [Workers -> Job]
    /\ read \in [Readers -> [todo: SUBSET Files, got: Dir, done: BOOLEAN]]

\* Wherever a crash or a failed call interrupts Publish or Delete, the version
\* published last is still complete somewhere: in place, moved aside, or in the
\* backups.
PublishedSurvives ==
    last # Missing =>
        Whole(last) \in {target} \cup {prev[w] : w \in Workers} \cup litter \cup backups

\* Every finished backup is a complete copy of one version.
BackupsWhole == \A d \in backups : IsWhole(d)

\* A Publish that reports an error has left in place what it found there.  Only
\* when the rename back failed as well is the directory missing, and then it
\* is in the backups.
FailedPublishKeepsTarget ==
    \A w \in Workers :
        job[w].pc = "idle" /\ job[w].op = "publish" /\ job[w].failed
            => \/ target = job[w].before
               \/ target = NoDir /\ job[w].before \in backups

\* What the directory shows to those who mount it.
Shown == IF target = NoDir THEN "nothing"
         ELSE IF IsWhole(target) THEN CHOOSE v \in Versions : target = Whole(v)
         ELSE "broken"

Directory ==
    INSTANCE PublishedDirectory
        WITH shown <- Shown, Nothing <- "nothing", Broken <- "broken",
             kept <- {v \in Versions : Whole(v) \in backups}

\* One handler at a time, the publisher implements PublishedDirectory: no call,
\* failure or crash shows a mixture of two versions or loses one.
ImplementsDirectory == Directory!Spec

-----------------------------------------------------------------------------
(* What the documents promise and the code does not keep *)

\* README 7: whoever reads the files sees all of one version.  An archive
\* that is read while a renewal replaces the files mixes two of them, and the
\* private key does not match the certificate.
ArchiveWhole == \A r \in Readers : read[r].done => IsWhole(read[r].got)
=============================================================================
