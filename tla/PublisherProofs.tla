--------------------------- MODULE PublisherProofs ---------------------------
(***************************************************************************)
(* Theorems about Publisher, for any files, versions, readers and faults.  *)
(* They hold while the handlers of a certificate run one at a time: the    *)
(* hypothesis Exclusive, which LockExclusive of CertificateService gives   *)
(* for all handlers with a mutex.  Create has none and may meet a Delete   *)
(* (BackupBeforeRemove there).                                             *)
(***************************************************************************)
EXTENDS Publisher, TLAPS

\* No two handlers are between their first and their last file system call.
Exclusive ==
    \A w, u \in Workers : job[w].pc # "idle" /\ job[u].pc # "idle" => w = u

\* There is one slot for handlers, which they use one after the other.
OneSlot == \A w, u \in Workers : w = u

\* What is left of version v while its directory is removed: it is in the
\* backups by then.
Remains(d, v) == Whole(v) \in backups /\ \A f \in Files : d[f] \in {v, Missing}

\* The directory shows one version, or misses files of a version that has been
\* backed up.
TargetSound ==
    target # NoDir => \E v \in Versions : target = Whole(v) \/ Remains(target, v)

\* The version published last is in place or in the backups.
LastKept == last # Missing => target = Whole(last) \/ Whole(last) \in backups

\* What a handler knows at each of its calls.
StageKnows(w) ==
    /\ job[w].op = "publish" /\ job[w].version \in Versions
    /\ job[w].before = target /\ ~job[w].had
    /\ stage[w] \in Dir /\ \A f \in Files \ job[w].todo : stage[w][f] = job[w].version

CopyKnows(w) ==
    /\ job[w].op \in {"publish", "delete"}
    /\ target # NoDir /\ copy[w] \in Dir
    /\ \A f \in Files \ job[w].todo : copy[w][f] = target[f] /\ target[f] # Missing
    /\ job[w].op = "publish" =>
          /\ job[w].had /\ job[w].before = target
          /\ job[w].version \in Versions /\ stage[w] = Whole(job[w].version)

MoveAsideKnows(w) ==
    /\ job[w].op = "publish" /\ job[w].had /\ job[w].before = target
    /\ target \in backups
    /\ job[w].version \in Versions /\ stage[w] = Whole(job[w].version)

RenameKnows(w) ==
    /\ job[w].op = "publish" /\ target = NoDir
    /\ job[w].version \in Versions /\ stage[w] = Whole(job[w].version)
    /\ IF job[w].had THEN prev[w] = job[w].before /\ job[w].before \in backups
                     ELSE job[w].before = NoDir

RestoreKnows(w) ==
    /\ job[w].op = "publish" /\ target = NoDir
    /\ prev[w] = job[w].before /\ job[w].before \in backups

RemoveKnows(w) ==
    /\ job[w].op = "delete"
    /\ target # NoDir => \E v \in Versions : Remains(target, v)

CallKnows(w) ==
    /\ job[w].pc = "stage" => StageKnows(w)
    /\ job[w].pc = "copy" => CopyKnows(w)
    /\ job[w].pc = "moveAside" => MoveAsideKnows(w)
    /\ job[w].pc = "rename" => RenameKnows(w)
    /\ job[w].pc = "restore" => RestoreKnows(w)
    /\ job[w].pc = "dropPrev" => prev[w] \in Dir
    /\ job[w].pc = "remove" => RemoveKnows(w)

PublisherInv ==
    TypeOK /\ BackupsWhole /\ TargetSound /\ LastKept /\ \A w \in Workers : CallKnows(w)
-----------------------------------------------------------------------------
(* Directories *)

\* The empty directory and the complete ones are directories.
LEMMA DirFacts ==
    /\ EmptyDir \in Dir /\ NoDir \notin Dir
    /\ \A v \in Versions : Whole(v) \in Dir /\ \A f \in Files : Whole(v)[f] = v
    /\ \A f \in Files : EmptyDir[f] = Missing
BY ConstantsAssumption DEF EmptyDir, Dir, Whole

\* A complete directory is complete for one version.
LEMMA OneVersion ==
    ASSUME NEW u \in Versions, NEW v \in Versions, Whole(u) = Whole(v)
    PROVE  u = v
<1>1. PICK f \in Files : TRUE
  BY ConstantsAssumption
<1> QED BY <1>1, DirFacts

\* A directory of remains without a missing file is complete.
LEMMA NothingMissing ==
    ASSUME NEW d \in Dir, NEW v \in Versions, \A f \in Files : d[f] \in {v, Missing},
           \A f \in Files : d[f] # Missing
    PROVE  d = Whole(v)
BY DEF Dir, Whole

\* A file is written into a directory.
LEMMA FileSet ==
    ASSUME NEW d \in Dir, NEW f \in Files, NEW v \in Versions \cup {Missing}
    PROVE  /\ [d EXCEPT ![f] = v] \in Dir /\ [d EXCEPT ![f] = v][f] = v
           /\ \A g \in Files \ {f} : [d EXCEPT ![f] = v][g] = d[g]
BY DEF Dir

-----------------------------------------------------------------------------
(* What a step does to the handlers *)

\* The handler w is now at r, the others are where they were.
JobSet(w, r) ==
    /\ job' \in [Workers -> Job] /\ job'[w] = r
    /\ \A u \in Workers \ {w} : job'[u] = job[u]

\* A handler's record is replaced.
LEMMA JobReplaced ==
    ASSUME job \in [Workers -> Job], NEW w \in Workers, NEW r \in Job, job' = [job EXCEPT ![w] = r]
    PROVE  JobSet(w, r)
BY DEF JobSet

\* w goes on to its next call.
At(w, l) ==
    /\ job' \in [Workers -> Job] /\ job'[w].pc = l
    /\ job'[w].op = job[w].op /\ job'[w].version = job[w].version
    /\ job'[w].had = job[w].had /\ job'[w].before = job[w].before
    /\ \A u \in Workers \ {w} : job'[u] = job[u]

\* w has done one more file.
Did(w, f) ==
    /\ job' \in [Workers -> Job] /\ job'[w].pc = job[w].pc
    /\ job'[w].op = job[w].op /\ job'[w].version = job[w].version
    /\ job'[w].had = job[w].had /\ job'[w].before = job[w].before
    /\ job'[w].todo = job[w].todo \ {f}
    /\ \A u \in Workers \ {w} : job'[u] = job[u]

\* w returns.
Returned(w, failed) ==
    /\ job' \in [Workers -> Job] /\ job'[w].pc = "idle" /\ job'[w].failed = failed
    /\ job'[w].op = job[w].op /\ job'[w].before = job[w].before
    /\ \A u \in Workers \ {w} : job'[u] = job[u]

\* Goto changes the call only.
LEMMA GotoMoves ==
    ASSUME job \in [Workers -> Job], NEW w \in Workers,
           NEW l \in {"moveAside", "rename", "restore", "dropPrev", "remove"}, Goto(w, l)
    PROVE  At(w, l)
<1> DEFINE r == [job[w] EXCEPT !.pc = l]
<1>1. /\ r \in Job /\ r.pc = l /\ r.op = job[w].op /\ r.version = job[w].version
      /\ r.had = job[w].had /\ r.before = job[w].before
  BY DEF Job
<1>2. job' = [job EXCEPT ![w] = r]
  BY DEF Goto
<1> HIDE DEF r
<1> QED BY <1>1, <1>2, JobReplaced DEF At, JobSet

\* A file less to do.
LEMMA TodoShrinks ==
    ASSUME job \in [Workers -> Job], NEW w \in Workers, NEW f \in Files,
           job' = [job EXCEPT ![w].todo = @ \ {f}]
    PROVE  Did(w, f)
<1> DEFINE r == [job[w] EXCEPT !.todo = @ \ {f}]
<1>1. /\ r \in Job /\ r.pc = job[w].pc /\ r.op = job[w].op /\ r.version = job[w].version
      /\ r.had = job[w].had /\ r.before = job[w].before /\ r.todo = job[w].todo \ {f}
  BY DEF Job
<1>2. job' = [job EXCEPT ![w] = r]
  OBVIOUS
<1> HIDE DEF r
<1> QED BY <1>1, <1>2, JobReplaced DEF Did, JobSet

\* A call that returns keeps what it was about.
LEMMA ReturnReturns ==
    ASSUME job \in [Workers -> Job], NEW w \in Workers, NEW failed \in BOOLEAN, Return(w, failed)
    PROVE  Returned(w, failed)
<1> DEFINE r == [job[w] EXCEPT !.pc = "idle", !.todo = {}, !.failed = failed]
<1>1. /\ r \in Job /\ r.pc = "idle" /\ r.failed = failed
      /\ r.op = job[w].op /\ r.before = job[w].before
  <2>1. job[w] \in Job
    OBVIOUS
  <2> QED BY <2>1 DEF Job
<1>2. job' = [job EXCEPT ![w] = r]
  BY DEF Return
<1> HIDE DEF r
<1> QED BY <1>1, <1>2, JobReplaced DEF Returned, JobSet

\* A failed call removes its stage directory.
LEMMA AbandonReturns ==
    ASSUME TypeOK, NEW w \in Workers, Abandon(w)
    PROVE  Returned(w, TRUE) /\ stage' \in [Workers -> Dir \cup {NoDir}]
BY ReturnReturns DEF Abandon, TypeOK

-----------------------------------------------------------------------------
(* The invariant *)

\* While w is at work the other handlers are not, so that what they know is
\* not at stake.
LEMMA OthersIdle ==
    ASSUME Exclusive, NEW w \in Workers, job[w].pc # "idle",
           \A u \in Workers \ {w} : job'[u] = job[u]
    PROVE  \A u \in Workers \ {w} : CallKnows(u)'
BY DEF Exclusive, CallKnows

\* The same for a handler that starts.
LEMMA OthersStayIdle ==
    ASSUME Exclusive', NEW w \in Workers, job'[w].pc # "idle"
    PROVE  \A u \in Workers \ {w} : CallKnows(u)'
BY DEF Exclusive, CallKnows

\* Nothing happens to the directory and to the backups.
LEMMA DiskKept ==
    ASSUME BackupsWhole, TargetSound, LastKept, UNCHANGED <<target, backups, last>>
    PROVE  BackupsWhole' /\ TargetSound' /\ LastKept'
BY DEF BackupsWhole, TargetSound, LastKept, Remains

\* A handler that fails has left the directory alone.
LEMMA AbandonKeeps ==
    ASSUME PublisherInv, Exclusive, NEW w \in Workers, job[w].pc # "idle",
           Abandon(w), UNCHANGED <<target, backups, last, prev, litter, used, read>>,
           copy' \in [Workers -> Dir \cup {NoDir}]
    PROVE  PublisherInv'
<1> USE DEF PublisherInv
<1>1. Returned(w, TRUE) /\ stage' \in [Workers -> Dir \cup {NoDir}]
  BY AbandonReturns
<1>2. BackupsWhole' /\ TargetSound' /\ LastKept'
  BY DiskKept
<1>3. \A u \in Workers : CallKnows(u)'
  BY <1>1, OthersIdle DEF Returned, CallKnows
<1>4. TypeOK'
  BY <1>1 DEF TypeOK, Returned
<1> QED BY <1>2, <1>3, <1>4

\* Publish starts by making a stage directory.
LEMMA PublishKeeps ==
    ASSUME PublisherInv, Exclusive', NEW w \in Workers, NEW v \in Versions, Publish(w, v)
    PROVE  PublisherInv'
<1> USE DEF PublisherInv
<1> DEFINE r == [Idle EXCEPT !.pc = "stage", !.op = "publish", !.version = v,
                             !.todo = Files, !.before = target]
<1>1. /\ r \in Job /\ r.pc = "stage" /\ r.op = "publish" /\ r.version = v
      /\ r.todo = Files /\ r.before = target /\ ~r.had
  BY DEF TypeOK, Idle, Job
<1>2. job' = [job EXCEPT ![w] = r] /\ UNCHANGED <<target, prev, copy, backups, litter, last, read>>
  BY DEF Publish
<1> HIDE DEF r
<1>3. JobSet(w, r)
  BY <1>1, <1>2, JobReplaced DEF TypeOK
<1>4. stage' \in [Workers -> Dir \cup {NoDir}] /\ stage'[w] \in Dir
  BY DirFacts DEF Publish, TypeOK
<1>5. TypeOK'
  BY <1>2, <1>3, <1>4 DEF TypeOK, Publish, JobSet
<1>6. BackupsWhole' /\ TargetSound' /\ LastKept'
  BY <1>2, DiskKept
<1>7. CallKnows(w)'
  BY <1>1, <1>2, <1>3, <1>4 DEF CallKnows, StageKnows, JobSet
<1>8. \A u \in Workers \ {w} : CallKnows(u)'
  BY <1>1, <1>3, OthersStayIdle DEF JobSet
<1> QED BY <1>5, <1>6, <1>7, <1>8

\* A file is written to the stage directory.
LEMMA WriteFileKeeps ==
    ASSUME PublisherInv, Exclusive, NEW w \in Workers, NEW f \in Files, WriteFile(w, f)
    PROVE  PublisherInv'
<1> USE DEF PublisherInv
<1>1. /\ job[w].pc = "stage" /\ StageKnows(w)
      /\ UNCHANGED <<target, prev, copy, backups, litter, used, last, read>>
  BY DEF WriteFile, CallKnows
<1>2. CASE /\ stage' = [stage EXCEPT ![w][f] = job[w].version]
           /\ job' = [job EXCEPT ![w].todo = @ \ {f}]
  <2>1. Did(w, f)
    BY <1>2, TodoShrinks DEF TypeOK
  <2>2. /\ stage' \in [Workers -> Dir \cup {NoDir}] /\ stage'[w] \in Dir
        /\ stage'[w][f] = job[w].version
        /\ \A g \in Files \ {f} : stage'[w][g] = stage[w][g]
    <3>1. stage \in [Workers -> Dir \cup {NoDir}] /\ stage[w] \in Dir /\ job[w].version \in Versions
      BY <1>1 DEF StageKnows, TypeOK
    <3> DEFINE d == [stage[w] EXCEPT ![f] = job[w].version]
    <3>2. stage' = [stage EXCEPT ![w] = d]
      BY <1>2
    <3>3. d \in Dir /\ d[f] = job[w].version /\ \A g \in Files \ {f} : d[g] = stage[w][g]
      BY <3>1, FileSet
    <3> HIDE DEF d
    <3> QED BY <3>1, <3>2, <3>3
  <2>3. TypeOK'
    BY <1>1, <2>1, <2>2 DEF TypeOK, Did
  <2>4. BackupsWhole' /\ TargetSound' /\ LastKept'
    BY <1>1, DiskKept
  <2>5. CallKnows(w)'
    BY <1>1, <2>1, <2>2 DEF CallKnows, StageKnows, Did
  <2>6. \A u \in Workers \ {w} : CallKnows(u)'
    BY <1>1, <2>1, OthersIdle DEF Did
  <2> QED BY <2>3, <2>4, <2>5, <2>6
<1>3. CASE Abandon(w)
  BY <1>1, <1>3, AbandonKeeps DEF TypeOK
<1> QED BY <1>2, <1>3 DEF WriteFile

\* Lstat finds nothing, or begins a backup.
LEMMA LstatKeeps ==
    ASSUME PublisherInv, Exclusive, NEW w \in Workers, Lstat(w)
    PROVE  PublisherInv'
<1> USE DEF PublisherInv
<1>1. /\ job[w].pc = "stage" /\ StageKnows(w) /\ job[w].todo = {}
      /\ UNCHANGED <<target, prev, backups, litter, used, last, read>>
  BY DEF Lstat, CallKnows
<1>2. stage[w] = Whole(job[w].version)
  BY <1>1 DEF StageKnows, Dir, Whole
<1>3. BackupsWhole' /\ TargetSound' /\ LastKept'
  BY <1>1, DiskKept
<1>4. CASE target = NoDir /\ Goto(w, "rename") /\ UNCHANGED <<copy, stage>> /\ ~job[w].had
  <2>1. At(w, "rename")
    BY <1>4, GotoMoves DEF TypeOK
  <2>2. CallKnows(w)'
    BY <1>1, <1>2, <1>4, <2>1 DEF CallKnows, RenameKnows, StageKnows, At
  <2>3. \A u \in Workers \ {w} : CallKnows(u)'
    BY <1>1, <2>1, OthersIdle DEF At
  <2>4. TypeOK'
    BY <1>1, <1>4, <2>1 DEF TypeOK, At
  <2> QED BY <1>3, <2>2, <2>3, <2>4
<1>5. CASE /\ target # NoDir
           /\ copy' = [copy EXCEPT ![w] = EmptyDir]
           /\ job' = [job EXCEPT ![w] = [@ EXCEPT !.pc = "copy", !.todo = Files, !.had = TRUE]]
           /\ UNCHANGED stage
  <2> DEFINE r == [job[w] EXCEPT !.pc = "copy", !.todo = Files, !.had = TRUE]
  <2>1. /\ r \in Job /\ r.pc = "copy" /\ r.op = job[w].op /\ r.version = job[w].version
        /\ r.todo = Files /\ r.had = TRUE /\ r.before = job[w].before
    <3>1. job[w] \in Job
      BY DEF TypeOK
    <3> QED BY <3>1 DEF Job
  <2>2. job' = [job EXCEPT ![w] = r]
    BY <1>5
  <2> HIDE DEF r
  <2>3. JobSet(w, r)
    BY <2>1, <2>2, JobReplaced DEF TypeOK
  <2>4. copy' \in [Workers -> Dir \cup {NoDir}] /\ copy'[w] \in Dir
    BY <1>5, DirFacts DEF TypeOK
  <2>5. CallKnows(w)'
    BY <1>1, <1>2, <1>5, <2>1, <2>3, <2>4 DEF CallKnows, CopyKnows, StageKnows, JobSet
  <2>6. \A u \in Workers \ {w} : CallKnows(u)'
    BY <1>1, <2>3, OthersIdle DEF JobSet
  <2>7. TypeOK'
    BY <1>1, <1>5, <2>3, <2>4 DEF TypeOK, JobSet
  <2> QED BY <1>3, <2>5, <2>6, <2>7
<1>6. CASE Abandon(w) /\ UNCHANGED copy
  BY <1>1, <1>6, AbandonKeeps DEF TypeOK
<1> QED BY <1>1, <1>4, <1>5, <1>6 DEF Lstat, StageKnows
\* A file is copied to the backup; one that is not there ends the call.
LEMMA CopyFileKeeps ==
    ASSUME PublisherInv, Exclusive, NEW w \in Workers, NEW f \in Files, CopyFile(w, f)
    PROVE  PublisherInv'
<1> USE DEF PublisherInv
<1>1. /\ job[w].pc = "copy" /\ CopyKnows(w)
      /\ UNCHANGED <<target, prev, backups, litter, used, last, read>>
  BY DEF CopyFile, CallKnows
<1>2. CASE /\ target # NoDir /\ target[f] # Missing
           /\ copy' = [copy EXCEPT ![w][f] = target[f]]
           /\ job' = [job EXCEPT ![w].todo = @ \ {f}]
           /\ UNCHANGED stage
  <2>1. Did(w, f)
    BY <1>2, TodoShrinks DEF TypeOK
  <2>2. /\ copy' \in [Workers -> Dir \cup {NoDir}] /\ copy'[w] \in Dir
        /\ copy'[w][f] = target[f]
        /\ \A g \in Files \ {f} : copy'[w][g] = copy[w][g]
    <3>1. /\ copy \in [Workers -> Dir \cup {NoDir}] /\ copy[w] \in Dir
          /\ target[f] \in Versions \cup {Missing}
      BY <1>1, <1>2 DEF CopyKnows, TypeOK, Dir
    <3> DEFINE d == [copy[w] EXCEPT ![f] = target[f]]
    <3>2. copy' = [copy EXCEPT ![w] = d]
      BY <1>2
    <3>3. d \in Dir /\ d[f] = target[f] /\ \A g \in Files \ {f} : d[g] = copy[w][g]
      BY <3>1, FileSet
    <3> HIDE DEF d
    <3> QED BY <3>1, <3>2, <3>3
  <2>3. TypeOK'
    BY <1>1, <1>2, <2>1, <2>2 DEF TypeOK, Did
  <2>4. BackupsWhole' /\ TargetSound' /\ LastKept'
    BY <1>1, DiskKept
  <2>5. CallKnows(w)'
    BY <1>1, <1>2, <2>1, <2>2 DEF CallKnows, CopyKnows, Did
  <2>6. \A u \in Workers \ {w} : CallKnows(u)'
    BY <1>1, <2>1, OthersIdle DEF Did
  <2> QED BY <2>3, <2>4, <2>5, <2>6
<1>3. CASE copy' = [copy EXCEPT ![w] = NoDir] /\ Abandon(w)
  <2>1. copy' \in [Workers -> Dir \cup {NoDir}]
    BY <1>3 DEF TypeOK
  <2> QED BY <1>1, <1>3, <2>1, AbandonKeeps
<1> QED BY <1>2, <1>3 DEF CopyFile

\* When all files have been copied, the backup is what is in place, and that is
\* one complete version: a directory that misses files cannot be copied.
LEMMA CopyIsWhole ==
    ASSUME PublisherInv, NEW w \in Workers, job[w].pc = "copy", job[w].todo = {}
    PROVE  \E v \in Versions : copy[w] = Whole(v) /\ target = Whole(v)
<1> USE DEF PublisherInv
<1>1. CopyKnows(w) /\ target \in Dir
  BY DEF CallKnows, CopyKnows, TypeOK
<1>2. copy[w] = target /\ \A f \in Files : target[f] # Missing
  BY <1>1 DEF CopyKnows, Dir
<1>3. PICK v \in Versions : target = Whole(v) \/ Remains(target, v)
  BY <1>1 DEF TargetSound, CopyKnows
<1>4. target = Whole(v)
  BY <1>1, <1>2, <1>3, NothingMissing DEF Remains
<1> QED BY <1>2, <1>4

\* The backup is finished.
LEMMA CopyDoneKeeps ==
    ASSUME PublisherInv, Exclusive, NEW w \in Workers, CopyDone(w)
    PROVE  PublisherInv'
<1> USE DEF PublisherInv
<1>1. /\ job[w].pc = "copy" /\ CopyKnows(w) /\ job[w].todo = {}
      /\ backups' = backups \cup {copy[w]} /\ copy' = [copy EXCEPT ![w] = NoDir]
      /\ Goto(w, IF job[w].op = "publish" THEN "moveAside" ELSE "remove")
      /\ UNCHANGED <<target, stage, prev, litter, used, last, read>>
  BY DEF CopyDone, CallKnows
<1>2. PICK v \in Versions : copy[w] = Whole(v) /\ target = Whole(v)
  BY <1>1, CopyIsWhole
<1>3. At(w, IF job[w].op = "publish" THEN "moveAside" ELSE "remove")
  BY <1>1, GotoMoves DEF TypeOK
<1>4. BackupsWhole'
  BY <1>1, <1>2 DEF BackupsWhole, IsWhole
<1>5. TargetSound' /\ LastKept'
  BY <1>1 DEF TargetSound, LastKept, Remains
<1>6. TypeOK'
  <2>1. copy' \in [Workers -> Dir \cup {NoDir}] /\ backups' \subseteq Dir
    BY <1>1, <1>2, DirFacts DEF TypeOK
  <2> QED BY <1>1, <1>3, <2>1 DEF TypeOK, At
<1>7. CallKnows(w)'
  <2>1. CASE job[w].op = "publish"
    BY <1>1, <1>2, <1>3, <2>1 DEF CallKnows, MoveAsideKnows, CopyKnows, At
  <2>2. CASE job[w].op = "delete"
    <3>1. Remains(target, v)'
      BY <1>1, <1>2, DirFacts DEF Remains
    <3> QED BY <1>1, <1>3, <2>2, <3>1 DEF CallKnows, RemoveKnows, At
  <2> QED BY <1>1, <2>1, <2>2 DEF CopyKnows
<1>8. \A u \in Workers \ {w} : CallKnows(u)'
  BY <1>1, <1>3, OthersIdle DEF At
<1> QED BY <1>4, <1>5, <1>6, <1>7, <1>8

\* The old directory is moved aside: it is in the backups by then.
LEMMA MoveAsideKeeps ==
    ASSUME PublisherInv, Exclusive, NEW w \in Workers, MoveAside(w)
    PROVE  PublisherInv'
<1> USE DEF PublisherInv
<1>1. /\ job[w].pc = "moveAside" /\ MoveAsideKnows(w)
      /\ UNCHANGED <<copy, backups, litter, used, last, read>>
  BY DEF MoveAside, CallKnows
<1>2. CASE /\ target # NoDir
           /\ prev' = [prev EXCEPT ![w] = target] /\ target' = NoDir
           /\ Goto(w, "rename") /\ UNCHANGED stage
  <2>1. At(w, "rename")
    BY <1>2, GotoMoves DEF TypeOK
  <2>2. prev' \in [Workers -> Dir \cup {NoDir}] /\ prev'[w] = target
    BY <1>2 DEF TypeOK
  <2>3. BackupsWhole' /\ TargetSound' /\ LastKept'
    BY <1>1, <1>2 DEF BackupsWhole, TargetSound, LastKept, MoveAsideKnows
  <2>4. TypeOK'
    BY <1>1, <1>2, <2>1, <2>2 DEF TypeOK, At
  <2>5. CallKnows(w)'
    BY <1>1, <1>2, <2>1, <2>2 DEF CallKnows, RenameKnows, MoveAsideKnows, At
  <2>6. \A u \in Workers \ {w} : CallKnows(u)'
    BY <1>1, <2>1, OthersIdle DEF At
  <2> QED BY <2>3, <2>4, <2>5, <2>6
<1>3. CASE Abandon(w) /\ UNCHANGED <<target, prev>>
  BY <1>1, <1>3, AbandonKeeps DEF TypeOK
<1> QED BY <1>2, <1>3 DEF MoveAside

\* The stage directory is renamed into place, or the old one is to come back.
LEMMA RenameKeeps ==
    ASSUME PublisherInv, Exclusive, NEW w \in Workers, Rename(w)
    PROVE  PublisherInv'
<1> USE DEF PublisherInv
<1>1. /\ job[w].pc = "rename" /\ RenameKnows(w)
      /\ UNCHANGED <<prev, copy, backups, litter, used, read>>
  BY DEF Rename, CallKnows
<1>2. CASE /\ target' = stage[w] /\ stage' = [stage EXCEPT ![w] = NoDir]
           /\ last' = job[w].version
           /\ IF job[w].had THEN Goto(w, "dropPrev") ELSE Return(w, FALSE)
  <2>1. IF job[w].had THEN At(w, "dropPrev") ELSE Returned(w, FALSE)
    BY <1>2, GotoMoves, ReturnReturns DEF TypeOK
  <2>2. target' = Whole(last') /\ last' \in Versions /\ target' \in Dir
    BY <1>1, <1>2, DirFacts DEF RenameKnows
  <2>3. BackupsWhole' /\ TargetSound' /\ LastKept'
    BY <1>1, <2>2 DEF BackupsWhole, TargetSound, LastKept
  <2>4. TypeOK'
    <3>1. job' \in [Workers -> Job] /\ stage' \in [Workers -> Dir \cup {NoDir}]
      BY <1>2, <2>1 DEF At, Returned, TypeOK
    <3> QED BY <1>1, <2>2, <3>1 DEF TypeOK
  <2>5. CallKnows(w)'
    BY <1>1, <2>1 DEF CallKnows, RenameKnows, TypeOK, At, Returned
  <2>6. \A u \in Workers \ {w} : CallKnows(u)'
    BY <1>1, <2>1, OthersIdle DEF At, Returned
  <2> QED BY <2>3, <2>4, <2>5, <2>6
<1>3. CASE job[w].had /\ Goto(w, "restore") /\ UNCHANGED <<stage, target, last>>
  <2>1. At(w, "restore")
    BY <1>3, GotoMoves DEF TypeOK
  <2>2. BackupsWhole' /\ TargetSound' /\ LastKept'
    BY <1>1, <1>3, DiskKept
  <2>3. TypeOK'
    BY <1>1, <1>3, <2>1 DEF TypeOK, At
  <2>4. CallKnows(w)'
    BY <1>1, <1>3, <2>1 DEF CallKnows, RenameKnows, RestoreKnows, At
  <2>5. \A u \in Workers \ {w} : CallKnows(u)'
    BY <1>1, <2>1, OthersIdle DEF At
  <2> QED BY <2>2, <2>3, <2>4, <2>5
<1>4. CASE Abandon(w) /\ UNCHANGED <<target, last>>
  BY <1>1, <1>4, AbandonKeeps DEF TypeOK
<1> QED BY <1>2, <1>3, <1>4 DEF Rename

\* The old directory is renamed back, or stays where it is.
LEMMA RestoreKeeps ==
    ASSUME PublisherInv, Exclusive, NEW w \in Workers, Restore(w)
    PROVE  PublisherInv'
<1> USE DEF PublisherInv
<1>1. /\ job[w].pc = "restore" /\ RestoreKnows(w)
      /\ prev' = [prev EXCEPT ![w] = NoDir] /\ Abandon(w)
      /\ UNCHANGED <<copy, backups, used, last, read>>
  BY DEF Restore, CallKnows
<1>2. Returned(w, TRUE) /\ stage' \in [Workers -> Dir \cup {NoDir}]
  BY <1>1, AbandonReturns
<1>3. PICK v \in Versions : prev[w] = Whole(v)
  BY <1>1 DEF RestoreKnows, BackupsWhole, IsWhole
<1>4. prev[w] \in Dir
  BY <1>3, DirFacts
<1>5. \/ target' = prev[w] /\ UNCHANGED litter
      \/ target' = target /\ litter' = litter \cup {prev[w]}
  BY DEF Restore
<1>6. BackupsWhole' /\ LastKept'
  BY <1>1, DirFacts DEF BackupsWhole, LastKept, RestoreKnows, TypeOK
<1>7. TargetSound'
  BY <1>1, <1>3, <1>5 DEF TargetSound, RestoreKnows
<1>8. TypeOK'
  <2>1. /\ target' \in Dir \cup {NoDir} /\ litter' \subseteq Dir
        /\ prev' \in [Workers -> Dir \cup {NoDir}]
    BY <1>1, <1>4, <1>5 DEF TypeOK
  <2> QED BY <1>1, <1>2, <2>1 DEF TypeOK, Returned
<1>9. \A u \in Workers : CallKnows(u)'
  BY <1>1, <1>2, OthersIdle DEF Returned, CallKnows
<1> QED BY <1>6, <1>7, <1>8, <1>9

\* The directory that was moved aside is removed, or left behind.
LEMMA DropPrevKeeps ==
    ASSUME PublisherInv, Exclusive, NEW w \in Workers, DropPrev(w)
    PROVE  PublisherInv'
<1> USE DEF PublisherInv
<1>1. /\ job[w].pc = "dropPrev" /\ prev[w] \in Dir
      /\ prev' = [prev EXCEPT ![w] = NoDir]
      /\ litter' = litter \/ litter' = litter \cup {prev[w]}
      /\ UNCHANGED <<target, stage, copy, backups, used, last, read>>
  BY DEF DropPrev, CallKnows
<1>2. Returned(w, FALSE)
  BY ReturnReturns DEF DropPrev, TypeOK
<1>3. BackupsWhole' /\ TargetSound' /\ LastKept'
  BY <1>1, DiskKept
<1>4. TypeOK'
  <2>1. prev' \in [Workers -> Dir \cup {NoDir}] /\ litter' \subseteq Dir
    BY <1>1 DEF TypeOK
  <2> QED BY <1>1, <1>2, <2>1 DEF TypeOK, Returned
<1>5. \A u \in Workers : CallKnows(u)'
  BY <1>1, <1>2, OthersIdle DEF Returned, CallKnows
<1> QED BY <1>3, <1>4, <1>5

\* Delete begins with a backup of what is there.
LEMMA DeleteKeeps ==
    ASSUME PublisherInv, Exclusive', NEW w \in Workers, Delete(w)
    PROVE  PublisherInv'
<1> USE DEF PublisherInv
<1> DEFINE call(label, todo) == [Idle EXCEPT !.pc = label, !.op = "delete", !.todo = todo,
                                             !.before = target]
<1>1. \A l \in {"remove", "copy"}, S \in SUBSET Files :
         /\ call(l, S) \in Job /\ call(l, S).pc = l /\ call(l, S).op = "delete"
         /\ call(l, S).todo = S
  BY DEF TypeOK, Idle, Job
<1>2. UNCHANGED <<target, stage, prev, backups, litter, used, last, read>>
  BY DEF Delete
<1>3. \/ target = NoDir /\ job' = [job EXCEPT ![w] = call("remove", {})] /\ UNCHANGED copy
      \/ /\ target # NoDir /\ job' = [job EXCEPT ![w] = call("copy", Files)]
         /\ copy' = [copy EXCEPT ![w] = EmptyDir]
  BY DEF Delete
<1> HIDE DEF call
<1>4. BackupsWhole' /\ TargetSound' /\ LastKept'
  BY <1>2, DiskKept
<1>5. CASE target = NoDir /\ job' = [job EXCEPT ![w] = call("remove", {})] /\ UNCHANGED copy
  <2>1. JobSet(w, call("remove", {}))
    BY <1>1, <1>5, JobReplaced DEF TypeOK
  <2>2. TypeOK'
    BY <1>2, <1>5, <2>1 DEF TypeOK, JobSet
  <2>3. CallKnows(w)'
    BY <1>1, <1>2, <1>5, <2>1 DEF CallKnows, RemoveKnows, JobSet
  <2>4. \A u \in Workers \ {w} : CallKnows(u)'
    BY <1>1, <2>1, OthersStayIdle DEF JobSet
  <2> QED BY <1>4, <2>2, <2>3, <2>4
<1>6. CASE /\ target # NoDir /\ job' = [job EXCEPT ![w] = call("copy", Files)]
           /\ copy' = [copy EXCEPT ![w] = EmptyDir]
  <2>1. JobSet(w, call("copy", Files))
    BY <1>1, <1>6, JobReplaced DEF TypeOK
  <2>2. copy' \in [Workers -> Dir \cup {NoDir}] /\ copy'[w] \in Dir
    BY <1>6, DirFacts DEF TypeOK
  <2>3. TypeOK'
    BY <1>2, <2>1, <2>2 DEF TypeOK, JobSet
  <2>4. CallKnows(w)'
    BY <1>1, <1>2, <1>6, <2>1, <2>2 DEF CallKnows, CopyKnows, JobSet
  <2>5. \A u \in Workers \ {w} : CallKnows(u)'
    BY <1>1, <2>1, OthersStayIdle DEF JobSet
  <2> QED BY <1>4, <2>3, <2>4, <2>5
<1> QED BY <1>3, <1>5, <1>6
\* A file is unlinked: its version is in the backups by then.
LEMMA RemoveFileKeeps ==
    ASSUME PublisherInv, Exclusive, NEW w \in Workers, NEW f \in Files, RemoveFile(w, f)
    PROVE  PublisherInv'
<1> USE DEF PublisherInv
<1>1. /\ job[w].pc = "remove" /\ RemoveKnows(w) /\ target \in Dir
      /\ target[f] # Missing
      /\ UNCHANGED <<stage, prev, copy, backups, litter, used, last, read>>
  BY DEF RemoveFile, CallKnows, TypeOK
<1>2. PICK v \in Versions : Remains(target, v)
  BY <1>1, DirFacts DEF RemoveKnows
<1>3. CASE target' = [target EXCEPT ![f] = Missing] /\ UNCHANGED job
  <2>1. target' \in Dir /\ \A g \in Files : target'[g] \in {v, Missing}
    BY <1>1, <1>2, <1>3 DEF Remains, Dir
  <2>2. Remains(target, v)'
    BY <1>1, <1>2, <2>1 DEF Remains
  <2>3. BackupsWhole' /\ TargetSound'
    BY <1>1, <2>2 DEF BackupsWhole, TargetSound
  <2>4. LastKept'
    <3>1. ASSUME last # Missing, target = Whole(last) PROVE last = v
      BY <1>1, <1>2, <3>1, DirFacts DEF Remains, TypeOK
    <3> QED BY <1>1, <1>2, <3>1 DEF LastKept, Remains
  <2>5. TypeOK'
    BY <1>1, <1>3, <2>1 DEF TypeOK
  <2>6. CallKnows(w)'
    BY <1>1, <1>3, <2>2 DEF CallKnows, RemoveKnows
  <2>7. \A u \in Workers \ {w} : CallKnows(u)'
    BY <1>1, <1>3, OthersIdle
  <2> QED BY <2>3, <2>4, <2>5, <2>6, <2>7
<1>4. CASE Return(w, TRUE) /\ UNCHANGED target
  <2>1. Returned(w, TRUE)
    BY <1>4, ReturnReturns DEF TypeOK
  <2>2. BackupsWhole' /\ TargetSound' /\ LastKept'
    BY <1>1, <1>4, DiskKept
  <2>3. TypeOK'
    BY <1>1, <1>4, <2>1 DEF TypeOK, Returned
  <2>4. \A u \in Workers : CallKnows(u)'
    BY <1>1, <2>1, OthersIdle DEF Returned, CallKnows
  <2> QED BY <2>2, <2>3, <2>4
<1> QED BY <1>3, <1>4 DEF RemoveFile

\* The emptied directory goes.
LEMMA RemoveDirectoryKeeps ==
    ASSUME PublisherInv, Exclusive, NEW w \in Workers, RemoveDirectory(w)
    PROVE  PublisherInv'
<1> USE DEF PublisherInv
<1>1. /\ job[w].pc = "remove" /\ target \in {NoDir, EmptyDir}
      /\ target' = NoDir \/ target' = target
      /\ Return(w, FALSE) \/ Return(w, TRUE)
      /\ UNCHANGED <<stage, prev, copy, backups, litter, used, last, read>>
  BY DEF RemoveDirectory
<1>2. Returned(w, FALSE) \/ Returned(w, TRUE)
  BY <1>1, ReturnReturns DEF TypeOK
<1>3. last # Missing => target # Whole(last)
  <2>1. PICK f \in Files : TRUE
    BY ConstantsAssumption
  <2> QED BY <1>1, <2>1, DirFacts DEF TypeOK
<1>4. BackupsWhole' /\ LastKept'
  BY <1>1, <1>3 DEF BackupsWhole, LastKept
<1>5. TargetSound'
  BY <1>1 DEF TargetSound, Remains
<1>6. TypeOK'
  BY <1>1, <1>2 DEF TypeOK, Returned
<1>7. \A u \in Workers : CallKnows(u)'
  BY <1>1, <1>2, OthersIdle DEF Returned, CallKnows
<1> QED BY <1>4, <1>5, <1>6, <1>7

\* Readers change nothing but their own state.
LEMMA ReadersKeep ==
    ASSUME PublisherInv, NEW r \in Readers, Archive(r) \/ \E f \in Files : ReadFile(r, f)
    PROVE  PublisherInv'
<1> USE DEF PublisherInv
<1> DEFINE Read == [todo: SUBSET Files, got: Dir, done: BOOLEAN]
<1>1. UNCHANGED <<target, stage, prev, copy, backups, litter, used, last, job>>
  BY DEF Archive, ReadFile
<1>2. NoRead \in Read /\ [NoRead EXCEPT !.todo = Files] \in Read
  BY DirFacts DEF NoRead
<1>3. read \in [Readers -> Read]
  BY DEF TypeOK
<1>4. ASSUME NEW f \in Files, target # NoDir
      PROVE  [todo |-> read[r].todo \ {f}, got |-> [read[r].got EXCEPT ![f] = target[f]],
              done |-> read[r].todo = {f}] \in Read
  <2>1. target[f] \in Versions \cup {Missing} /\ read[r].got \in Dir /\ read[r].todo \in SUBSET Files
    BY <1>3, <1>4 DEF TypeOK, Dir
  <2>2. [read[r].got EXCEPT ![f] = target[f]] \in Dir
    BY <2>1, FileSet
  <2> QED BY <2>1, <2>2
<1>5. \E x \in Read : read' = [read EXCEPT ![r] = x]
  <2>1. CASE Archive(r)
    BY <1>2, <2>1 DEF Archive
  <2>2. ASSUME NEW f \in Files, ReadFile(r, f) PROVE \E x \in Read : read' = [read EXCEPT ![r] = x]
    BY <1>2, <1>4, <2>2 DEF ReadFile
  <2> QED BY <2>1, <2>2
<1> HIDE DEF Read
<1>6. read' \in [Readers -> Read]
  BY <1>3, <1>5
<1>7. TypeOK'
  BY <1>1, <1>6 DEF TypeOK, Read
<1>8. BackupsWhole' /\ TargetSound' /\ LastKept'
  BY <1>1, DiskKept
<1>9. \A u \in Workers : CallKnows(u)'
  BY <1>1 DEF CallKnows, StageKnows, CopyKnows, MoveAsideKnows, RenameKnows, RestoreKnows,
              RemoveKnows, Remains
<1> QED BY <1>7, <1>8, <1>9

\* A crash leaves the directory and the backups as they are.
LEMMA CrashKeeps ==
    ASSUME PublisherInv, Crash
    PROVE  PublisherInv'
<1> USE DEF PublisherInv
<1>1. UNCHANGED <<target, backups, used, last>>
  BY DEF Crash
<1>2. Idle \in Job /\ Idle.pc = "idle" /\ NoRead \in [todo: SUBSET Files, got: Dir, done: BOOLEAN]
  BY DirFacts DEF Idle, Job, NoRead
<1>3. litter' \subseteq Dir
  BY DEF Crash, TypeOK
<1>4. /\ job' \in [Workers -> Job] /\ \A w \in Workers : job'[w].pc = "idle"
      /\ read' \in [Readers -> [todo: SUBSET Files, got: Dir, done: BOOLEAN]]
  BY <1>2 DEF Crash
<1>5. TypeOK'
  BY <1>1, <1>3, <1>4 DEF TypeOK, Crash
<1>6. BackupsWhole' /\ TargetSound' /\ LastKept'
  BY <1>1, DiskKept
<1>7. \A u \in Workers : CallKnows(u)'
  BY <1>4 DEF CallKnows
<1> QED BY <1>5, <1>6, <1>7

\* The invariant holds at first ...
LEMMA InvInit == Init => PublisherInv
<1> SUFFICES ASSUME Init PROVE PublisherInv
  OBVIOUS
<1>1. Idle \in Job /\ Idle.pc = "idle" /\ NoRead \in [todo: SUBSET Files, got: Dir, done: BOOLEAN]
  BY DirFacts DEF Idle, Job, NoRead
<1>2. /\ job \in [Workers -> Job] /\ \A w \in Workers : job[w].pc = "idle"
      /\ read \in [Readers -> [todo: SUBSET Files, got: Dir, done: BOOLEAN]]
  BY <1>1 DEF Init
<1>3. TypeOK
  BY <1>2 DEF Init, TypeOK
<1>4. BackupsWhole /\ TargetSound /\ LastKept
  BY DEF Init, BackupsWhole, TargetSound, LastKept
<1>5. \A w \in Workers : CallKnows(w)
  BY <1>2 DEF CallKnows
<1> QED BY <1>3, <1>4, <1>5 DEF PublisherInv

\* ... and every step keeps it.
LEMMA InvStep ==
    ASSUME PublisherInv, Exclusive, Exclusive', [Next]_vars
    PROVE  PublisherInv'
<1>1. ASSUME NEW w \in Workers, Step(w) PROVE PublisherInv'
  BY <1>1, WriteFileKeeps, CopyFileKeeps, RemoveFileKeeps, LstatKeeps, CopyDoneKeeps,
     MoveAsideKeeps, RenameKeeps, RestoreKeeps, DropPrevKeeps, RemoveDirectoryKeeps DEF Step
<1>2. CASE UNCHANGED vars
  BY <1>2
  DEF vars, PublisherInv, TypeOK, BackupsWhole, TargetSound, LastKept, CallKnows, StageKnows,
      CopyKnows, MoveAsideKnows, RenameKnows, RestoreKnows, RemoveKnows, Remains
<1> QED BY <1>1, <1>2, DeleteKeeps, PublishKeeps, ReadersKeep, CrashKeeps DEF Next

-----------------------------------------------------------------------------
(* The theorems *)

\* The inductive invariant of the publisher.
THEOREM PublisherInvariant == Spec /\ []Exclusive => []PublisherInv
<1>1. PublisherInv /\ Exclusive /\ Exclusive' /\ [Next]_vars => PublisherInv'
  BY InvStep
<1> QED BY <1>1, InvInit, PTL DEF Spec

\* Wherever a crash or a failed call interrupts Publish or Delete, the version
\* published last is complete in place or in the backups.
THEOREM LastVersionSurvives == Spec /\ []Exclusive => []PublishedSurvives
<1>1. PublisherInv => PublishedSurvives
  BY DEF PublisherInv, LastKept, PublishedSurvives
<1> QED BY <1>1, PublisherInvariant, PTL

\* Every finished backup is a complete copy of one version.
THEOREM BackupsAreWhole == Spec /\ []Exclusive => []BackupsWhole
BY PublisherInvariant, PTL DEF PublisherInv
\* With one slot for handlers they exclude each other.
LEMMA OneSlotExclusive == OneSlot => Exclusive
BY DEF OneSlot, Exclusive

\* A call that ends with an error has left the directory as it found it; then
\* the directory only changes once the slot is used again.
LEMMA FailedStep ==
    ASSUME OneSlot, PublisherInv, FailedPublishKeepsTarget, [Next]_vars
    PROVE  FailedPublishKeepsTarget'
<1> SUFFICES ASSUME NEW w \in Workers, job'[w].pc = "idle", job'[w].op = "publish", job'[w].failed
             PROVE  \/ target' = job'[w].before
                    \/ target' = NoDir /\ job'[w].before \in backups'
  BY DEF FailedPublishKeepsTarget
<1> DEFINE Kept == \/ target' = job'[w].before
                   \/ target' = NoDir /\ job'[w].before \in backups'
<1>0. job \in [Workers -> Job] /\ CallKnows(w)
  BY DEF PublisherInv, TypeOK
<1>1. CASE UNCHANGED <<job, target, backups>>
  BY <1>1 DEF FailedPublishKeepsTarget
<1>2. ASSUME Abandon(w), UNCHANGED <<target, backups>>, job[w].pc \in {"stage", "copy", "moveAside", "rename"},
             job[w].pc = "rename" => ~job[w].had
      PROVE  Kept
  <2>1. job'[w].op = job[w].op /\ job'[w].before = job[w].before
    BY <1>0, <1>2, ReturnReturns DEF Abandon, Returned
  <2>2. job[w].before = target
    BY <1>0, <1>2, <2>1 DEF CallKnows, StageKnows, CopyKnows, MoveAsideKnows, RenameKnows
  <2> QED BY <1>2, <2>1, <2>2
<1>3. ASSUME NEW f \in Files, WriteFile(w, f) PROVE Kept
  <2>1. CASE job' = [job EXCEPT ![w].todo = @ \ {f}]
    BY <1>0, <1>3, <2>1, TodoShrinks DEF Did, WriteFile
  <2>2. CASE Abandon(w)
    BY <1>2, <1>3, <2>2 DEF WriteFile
  <2> QED BY <1>3, <2>1, <2>2 DEF WriteFile
<1>4. ASSUME NEW f \in Files, CopyFile(w, f) PROVE Kept
  <2>1. CASE job' = [job EXCEPT ![w].todo = @ \ {f}]
    BY <1>0, <1>4, <2>1, TodoShrinks DEF Did, CopyFile
  <2>2. CASE Abandon(w)
    BY <1>2, <1>4, <2>2 DEF CopyFile
  <2> QED BY <1>4, <2>1, <2>2 DEF CopyFile
<1>5. ASSUME Lstat(w) PROVE Kept
  <2>1. CASE Goto(w, "rename")
    BY <1>0, <2>1, GotoMoves DEF At
  <2>2. CASE job' = [job EXCEPT ![w] = [@ EXCEPT !.pc = "copy", !.todo = Files, !.had = TRUE]]
    <3> DEFINE r == [job[w] EXCEPT !.pc = "copy", !.todo = Files, !.had = TRUE]
    <3>1. r.pc = "copy"
      BY <1>0 DEF Job
    <3>2. job' = [job EXCEPT ![w] = r]
      BY <2>2
    <3> HIDE DEF r
    <3> QED BY <1>0, <3>1, <3>2
  <2>3. CASE Abandon(w)
    BY <1>2, <1>5, <2>3 DEF Lstat
  <2> QED BY <1>5, <2>1, <2>2, <2>3 DEF Lstat
<1>6. ASSUME CopyDone(w) PROVE Kept
  BY <1>0, <1>6, GotoMoves DEF CopyDone, At
<1>7. ASSUME MoveAside(w) PROVE Kept
  <2>1. CASE Goto(w, "rename")
    BY <1>0, <2>1, GotoMoves DEF At
  <2>2. CASE Abandon(w) /\ UNCHANGED <<target, prev>>
    BY <1>2, <1>7, <2>2 DEF MoveAside
  <2> QED BY <1>7, <2>1, <2>2 DEF MoveAside
<1>8. ASSUME Rename(w) PROVE Kept
  <2>1. CASE Goto(w, "dropPrev") \/ Goto(w, "restore")
    BY <1>0, <2>1, GotoMoves DEF At
  <2>2. CASE Return(w, FALSE)
    BY <1>0, <2>2, ReturnReturns DEF Returned
  <2>3. CASE Abandon(w) /\ UNCHANGED target /\ ~job[w].had
    BY <1>2, <1>8, <2>3 DEF Rename
  <2> QED BY <1>8, <2>1, <2>2, <2>3 DEF Rename
<1>9. ASSUME Restore(w) PROVE Kept
  <2>1. job'[w].before = job[w].before
    BY <1>0, <1>9, ReturnReturns DEF Restore, Abandon, Returned
  <2>2. RestoreKnows(w)
    BY <1>0, <1>9 DEF Restore, CallKnows
  <2> QED BY <1>9, <2>1, <2>2 DEF Restore, RestoreKnows
<1>10. ASSUME DropPrev(w) PROVE Kept
  BY <1>0, <1>10, ReturnReturns DEF DropPrev, Returned
<1>11. ASSUME RemoveDirectory(w) \/ \E f \in Files : RemoveFile(w, f) PROVE Kept
  <2>1. job[w].pc = "remove" /\ job[w].op = "delete"
    BY <1>0, <1>11 DEF RemoveFile, RemoveDirectory, CallKnows, RemoveKnows
  <2>2. job' = job \/ Returned(w, FALSE) \/ Returned(w, TRUE)
    BY <1>0, <1>11, ReturnReturns DEF RemoveFile, RemoveDirectory
  <2> QED BY <2>1, <2>2 DEF Returned
<1>12. ASSUME NEW v \in Versions, Publish(w, v) PROVE Kept
  BY <1>0, <1>12 DEF Publish, Idle
<1>13. ASSUME Delete(w) PROVE Kept
  BY <1>0, <1>13 DEF Delete, Idle
<1>14. ASSUME Crash PROVE Kept
  BY <1>14 DEF Crash, Idle
<1>15. ASSUME NEW u \in Workers, Step(u) \/ Delete(u) \/ \E v \in Versions : Publish(u, v)
       PROVE  Kept
  <2>1. u = w
    BY DEF OneSlot
  <2> QED BY <1>3, <1>4, <1>5, <1>6, <1>7, <1>8, <1>9, <1>10, <1>11, <1>12, <1>13, <1>15, <2>1
          DEF Step
<1> QED BY <1>1, <1>14, <1>15 DEF Next, vars, Archive, ReadFile

\* A Publish that reports an error has left in place what it found, or, when the
\* rename back failed too, has left nothing there and a copy in the backups.
THEOREM FailureKeepsTarget == OneSlot => (Spec => []FailedPublishKeepsTarget)
<1> SUFFICES ASSUME OneSlot PROVE Spec => []FailedPublishKeepsTarget
  OBVIOUS
<1>1. Init => FailedPublishKeepsTarget
  BY DEF Init, Idle, FailedPublishKeepsTarget
<1>2. PublisherInv /\ FailedPublishKeepsTarget /\ [Next]_vars => FailedPublishKeepsTarget'
  BY FailedStep
<1>3. Exclusive
  BY OneSlotExclusive
<1> QED BY <1>1, <1>2, <1>3, PublisherInvariant, PTL DEF Spec

-----------------------------------------------------------------------------
(* The refinement *)

\* What the refinement mapping makes of a directory.
ShownAs(d) == IF d = NoDir THEN "nothing"
              ELSE IF IsWhole(d) THEN CHOOSE v \in Versions : d = Whole(v)
              ELSE "broken"
KeptVersions == {v \in Versions : Whole(v) \in backups}

\* A complete directory shows its version, one that misses a file is broken.
LEMMA ShownIs ==
    /\ ShownAs(NoDir) = "nothing"
    /\ \A v \in Versions : ShownAs(Whole(v)) = v
    /\ \A d \in Dir : (\E f \in Files : d[f] = Missing) => ShownAs(d) = "broken"
<1>1. ASSUME NEW v \in Versions PROVE ShownAs(Whole(v)) = v
  <2>1. Whole(v) # NoDir /\ IsWhole(Whole(v))
    BY DirFacts DEF IsWhole
  <2>2. \A u \in Versions : Whole(v) = Whole(u) => u = v
    BY OneVersion
  <2>3. (CHOOSE u \in Versions : Whole(v) = Whole(u)) = v
    BY <2>2
  <2> QED BY <2>1, <2>3 DEF ShownAs
<1>2. ASSUME NEW d \in Dir, NEW f \in Files, d[f] = Missing PROVE ShownAs(d) = "broken"
  <2>1. d # NoDir /\ ~IsWhole(d)
    BY <1>2, DirFacts, ConstantsAssumption DEF IsWhole
  <2> QED BY <2>1 DEF ShownAs
<1> QED BY <1>1, <1>2 DEF ShownAs

\* The mapping in terms of these, before and after a step.
LEMMA ShownBoth == Shown = ShownAs(target) /\ Shown' = ShownAs(target')
BY DEF Shown, ShownAs, IsWhole, Whole

\* Every step of the publisher is a step of PublishedDirectory or shows nothing
\* new.
LEMMA RefinementStep ==
    ASSUME PublisherInv, Exclusive, [Next]_vars
    PROVE  [Directory!Next]_<<Shown, KeptVersions>>
<1> USE DEF PublisherInv
<1>1. ASSUME UNCHANGED <<target, backups>> PROVE UNCHANGED <<Shown, KeptVersions>>
  BY <1>1, ShownBoth DEF KeptVersions, Whole
<1>1a. ASSUME UNCHANGED backups PROVE UNCHANGED KeptVersions
  BY <1>1a DEF KeptVersions, Whole
<1>2. ASSUME NEW w \in Workers, CopyDone(w) PROVE Directory!Keep
  <2>1. PICK v \in Versions : copy[w] = Whole(v) /\ target = Whole(v)
    BY <1>2, CopyIsWhole DEF CopyDone
  <2>2. UNCHANGED target /\ backups' = backups \cup {Whole(v)}
    BY <1>2, <2>1 DEF CopyDone
  <2>3. Shown = v /\ Shown' = v
    BY <2>1, <2>2, ShownIs, ShownBoth
  <2>4. KeptVersions' = KeptVersions \cup {v}
    <3>1. \A u \in Versions : Whole(u) = Whole(v) => u = v
      BY OneVersion
    <3> QED BY <2>2, <3>1 DEF KeptVersions, Whole
  <2> QED BY <2>3, <2>4 DEF Directory!Keep, KeptVersions
<1>3. ASSUME NEW w \in Workers, MoveAside(w)
      PROVE  Directory!Withdraw \/ UNCHANGED <<Shown, KeptVersions>>
  <2>1. CASE target' = NoDir /\ UNCHANGED backups
    <3>1. PICK v \in Versions : target = Whole(v) /\ Whole(v) \in backups
      BY <1>3 DEF MoveAside, CallKnows, MoveAsideKnows, BackupsWhole, IsWhole
    <3>2. Shown = v /\ Shown' = "nothing" /\ v \in KeptVersions
      BY <2>1, <3>1, ShownIs, ShownBoth DEF KeptVersions
    <3> QED BY <1>1a, <2>1, <3>2 DEF Directory!Withdraw, KeptVersions
  <2> QED BY <1>1, <1>3, <2>1 DEF MoveAside
<1>4. ASSUME NEW w \in Workers, Rename(w)
      PROVE  (\E v \in Versions : Directory!Show(v)) \/ UNCHANGED <<Shown, KeptVersions>>
  <2>1. CASE target' = stage[w] /\ UNCHANGED backups
    <3>1. target = NoDir /\ job[w].version \in Versions /\ target' = Whole(job[w].version)
      BY <1>4, <2>1 DEF Rename, CallKnows, RenameKnows
    <3>2. Shown = "nothing" /\ Shown' = job[w].version
      BY <3>1, ShownIs, ShownBoth
    <3> QED BY <1>1a, <2>1, <3>1, <3>2 DEF Directory!Show, KeptVersions
  <2> QED BY <1>1, <1>4, <2>1 DEF Rename
<1>5. ASSUME NEW w \in Workers, Restore(w)
      PROVE  (\E v \in Versions : Directory!Show(v)) \/ UNCHANGED <<Shown, KeptVersions>>
  <2>1. CASE target' = prev[w] /\ UNCHANGED backups
    <3>1. target = NoDir /\ \E v \in Versions : prev[w] = Whole(v)
      BY <1>5 DEF Restore, CallKnows, RestoreKnows, BackupsWhole, IsWhole
    <3>2. PICK v \in Versions : target' = Whole(v)
      BY <2>1, <3>1
    <3>3. Shown = "nothing" /\ Shown' = v
      BY <3>1, <3>2, ShownIs, ShownBoth
    <3> QED BY <1>1a, <2>1, <3>3 DEF Directory!Show, KeptVersions
  <2> QED BY <1>1, <1>5, <2>1 DEF Restore
<1>6. ASSUME NEW w \in Workers, NEW f \in Files, RemoveFile(w, f)
      PROVE  Directory!StartRemoval \/ UNCHANGED <<Shown, KeptVersions>>
  <2>1. CASE target' = [target EXCEPT ![f] = Missing] /\ UNCHANGED backups
    <3>1. target \in Dir /\ target # NoDir
      BY <1>6 DEF RemoveFile, TypeOK
    <3>2. PICK v \in Versions : Remains(target, v)
      BY <1>6, <3>1 DEF RemoveFile, CallKnows, RemoveKnows
    <3>3. target' \in Dir /\ target'[f] = Missing
      BY <2>1, <3>1 DEF Dir
    <3>4. Shown' = "broken"
      BY <3>3, ShownIs, ShownBoth
    <3>5. CASE \E g \in Files : target[g] = Missing
      <4>1. Shown = "broken"
        BY <3>1, <3>5, ShownIs, ShownBoth
      <4> QED BY <1>1a, <2>1, <3>4, <4>1
    <3>6. CASE \A g \in Files : target[g] # Missing
      <4>1. target = Whole(v)
        BY <3>1, <3>2, <3>6, NothingMissing DEF Remains
      <4>2. Shown = v /\ v \in KeptVersions
        BY <3>2, <4>1, ShownIs, ShownBoth DEF Remains, KeptVersions
      <4> QED BY <1>1a, <2>1, <3>4, <4>2 DEF Directory!StartRemoval, KeptVersions
    <3> QED BY <3>5, <3>6
  <2> QED BY <1>1, <1>6, <2>1 DEF RemoveFile
<1>7. ASSUME NEW w \in Workers, RemoveDirectory(w)
      PROVE  Directory!FinishRemoval \/ UNCHANGED <<Shown, KeptVersions>>
  <2>1. CASE target = EmptyDir /\ target' = NoDir /\ UNCHANGED backups
    <3>1. Shown = "broken" /\ Shown' = "nothing"
      BY <2>1, ShownIs, ShownBoth, DirFacts, ConstantsAssumption
    <3> QED BY <1>1a, <2>1, <3>1 DEF Directory!FinishRemoval, KeptVersions
  <2> QED BY <1>1, <1>7, <2>1 DEF RemoveDirectory
<1>8. ASSUME NEW w \in Workers, Step(w)
      PROVE  [Directory!Next]_<<Shown, KeptVersions>>
  <2>1. CASE UNCHANGED <<target, backups>>
    BY <1>1, <2>1
  <2> QED BY <1>2, <1>3, <1>4, <1>5, <1>6, <1>7, <1>8, <2>1
          DEF Step, WriteFile, CopyFile, Lstat, DropPrev, Directory!Next
<1> QED BY <1>1, <1>8 DEF Next, vars, Delete, Publish, Archive, ReadFile, Crash

\* One handler at a time, the publisher implements PublishedDirectory: no call,
\* failure or crash shows a mixture of two versions or loses one.
THEOREM PublisherRefines == Spec /\ []Exclusive => ImplementsDirectory
<1>1. Init => Directory!ShowNothing
  <2> SUFFICES ASSUME Init PROVE Directory!ShowNothing
    OBVIOUS
  <2>1. Shown = "nothing" /\ KeptVersions = {}
    BY DEF Init, Shown, KeptVersions
  <2> QED BY <2>1 DEF Directory!ShowNothing, KeptVersions
<1>2. PublisherInv /\ Exclusive /\ [Next]_vars => [Directory!Next]_<<Shown, KeptVersions>>
  BY RefinementStep
<1> QED BY <1>1, <1>2, PublisherInvariant, PTL
        DEF Spec, ImplementsDirectory, Directory!Spec, KeptVersions
=============================================================================
