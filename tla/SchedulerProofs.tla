--------------------------- MODULE SchedulerProofs ---------------------------
(***************************************************************************)
(* Theorems about Scheduler, for any number of policies, requests, scans   *)
(* and cron instances: scans exclude each other, the schedule is never     *)
(* interrupted, concurrent Updates leave no second schedule behind, and a  *)
(* Stop that reports success has waited.                                   *)
(***************************************************************************)
EXTENDS Scheduler, FiniteSetTheorems, TLAPS

\* Instances are numbered in the order in which they are built.
BuiltInOrder == \E n \in 0..MaxCrons : Built = 1..n

\* Who is responsible for a cron instance: an Update that built it and has not
\* made it current yet, or one that has replaced it and not stopped it yet.
NewOf(a) == put[a].pc \in {"store", "start", "swap"}
OldOf(a) == put[a].pc = "stop"

\* An Update's new instance was built for its policy and is started only by
\* it; its old one is still started.
UpdatesOwn ==
    \A a \in Admins :
        /\ NewOf(a) =>
              /\ put[a].inst \in Instances /\ put[a].policy \in Valid
              /\ crons[put[a].inst].policy = put[a].policy
              /\ crons[put[a].inst].state = IF put[a].pc = "swap" THEN "started" ELSE "built"
        /\ OldOf(a) => put[a].old \in Instances /\ crons[put[a].old].state = "started"

\* No instance is in the hands of two Updates.
UpdatesApart ==
    \A a, b \in Admins : a # b =>
        /\ NewOf(a) /\ NewOf(b) => put[a].inst # put[b].inst
        /\ OldOf(a) /\ OldOf(b) => put[a].old # put[b].old

NewIsNotOld == \A a, b \in Admins : NewOf(a) /\ OldOf(b) => put[a].inst # put[b].old

\* The current instance is started and no Update has it.
CurrentOwn ==
    current # 0 =>
        /\ crons[current].state = "started" /\ crons[current].policy = policy
        /\ \A a \in Admins : (NewOf(a) => put[a].inst # current)
                             /\ (OldOf(a) => put[a].old # current)

\* The instance that Stop took is Stop's alone, and stays stopped.
HaltedOwn ==
    halted # 0 =>
        /\ halted # current
        /\ \A a \in Admins : (NewOf(a) => put[a].inst # halted)
                             /\ (OldOf(a) => put[a].old # halted)
        /\ phase = "halting" => crons[halted].state = "started"
        /\ phase # "halting" => crons[halted].state = "stopped"

\* Every instance that may fire is in somebody's hands.
StartedOwned ==
    \A i \in Started :
        \/ i = current
        \/ \E a \in Admins : put[a].pc = "swap" /\ put[a].inst = i
        \/ \E a \in Admins : put[a].pc = "stop" /\ put[a].old = i
        \/ phase = "halting" /\ i = halted
        \/ phase = "assigning" /\ i = 1

\* Start runs alone.
StartAlone ==
    /\ phase \in {"loading", "starting", "assigning", "exited"} =>
          current = 0 /\ halted = 0 /\ \A a \in Admins : put[a].pc = "idle"
    /\ phase = "loading" => Built = {}
    /\ phase = "starting" => crons[1].state = "built"
    /\ phase = "assigning" => crons[1].state = "started"
    /\ phase \in {"serving", "draining"} => current # 0 /\ halted = 0
    /\ phase = "halting" => halted # 0
    /\ phase = "waiting" => halted # 0

ScheduleInv ==
    /\ BuiltInOrder /\ UpdatesOwn /\ UpdatesApart /\ NewIsNotOld
    /\ CurrentOwn /\ HaltedOwn /\ StartedOwned /\ StartAlone

\* active counts the scan that is running.
ActiveCounts == active = IF \E s \in Scans : scan[s].pc = "run" THEN 1 ELSE 0
-----------------------------------------------------------------------------
(* What a step does to the records *)

\* Instance i changes its state, nothing else happens to any instance.
CronSet(i, st) ==
    /\ crons' \in [Instances -> Cron]
    /\ \A j \in Instances : /\ crons'[j].policy = crons[j].policy
                             /\ crons'[j].state = IF j = i THEN st ELSE crons[j].state

\* Instance i is built for policy p.
CronBuilt(i, p) ==
    /\ crons' \in [Instances -> Cron]
    /\ crons'[i].policy = p /\ crons'[i].state = "built"
    /\ \A j \in Instances \ {i} : crons'[j] = crons[j]

\* Request a gets to label l with old as the instance it is to stop.
PutMoved(a, l, old) ==
    /\ put' \in [Admins -> Put]
    /\ put'[a].pc = l /\ put'[a].old = old
    /\ put'[a].policy = put[a].policy /\ put'[a].inst = put[a].inst
    /\ \A b \in Admins \ {a} : put'[b] = put[b]

\* Request a is answered.
PutEnded(a) ==
    /\ put' \in [Admins -> Put]
    /\ put'[a].pc = "idle"
    /\ \A b \in Admins \ {a} : put'[b] = put[b]

\* Scan s gets to label l.
ScanMoved(s, l) ==
    /\ scan' \in [Scans -> Scan]
    /\ scan'[s].pc = l
    /\ l # "idle" => scan'[s].by = scan[s].by
    /\ \A t \in Scans \ {s} : scan'[t] = scan[t]

\* SetCron changes one state.
LEMMA SetCronSets ==
    ASSUME crons \in [Instances -> Cron], NEW i \in 0..MaxCrons,
           NEW st \in {"started", "stopped"}, SetCron(i, st)
    PROVE  CronSet(i, st)
<1> DEFINE r == [crons[i] EXCEPT !.state = st]
<1>1. ASSUME i \in Instances
      PROVE  r \in Cron /\ r.policy = crons[i].policy /\ r.state = st
  BY <1>1 DEF Cron
<1>2. crons' = [crons EXCEPT ![i] = r]
  BY DEF SetCron
<1> HIDE DEF r
<1> QED BY <1>1, <1>2 DEF CronSet

\* build makes an instance and leaves the others alone.
LEMMA BuildBuilds ==
    ASSUME crons \in [Instances -> Cron], NEW i \in Instances, NEW p \in Valid,
           crons' = [crons EXCEPT ![i] = [policy |-> p, state |-> "built"]]
    PROVE  CronBuilt(i, p)
BY DEF CronBuilt, Cron

\* A request that is answered leaves the other requests alone.
LEMMA NoPutEnds ==
    ASSUME put \in [Admins -> Put], NEW a \in Admins, put' = [put EXCEPT ![a] = NoPut]
    PROVE  PutEnded(a)
<1>1. NoPut \in Put /\ NoPut.pc = "idle"
  BY ConstantsAssumption DEF NoPut, Put
<1> QED BY <1>1 DEF PutEnded

\* A request that goes on keeps its policy and its instances.
LEMMA GotoMoves ==
    ASSUME put \in [Admins -> Put], NEW a \in Admins, NEW l \in {"start", "swap"},
           put' = [put EXCEPT ![a].pc = l]
    PROVE  PutMoved(a, l, put[a].old)
<1> DEFINE r == [put[a] EXCEPT !.pc = l]
<1>1. /\ r \in Put /\ r.pc = l /\ r.old = put[a].old
      /\ r.policy = put[a].policy /\ r.inst = put[a].inst
  BY DEF Put
<1>2. put' = [put EXCEPT ![a] = r]
  OBVIOUS
<1> HIDE DEF r
<1> QED BY <1>1, <1>2 DEF PutMoved

\* UpdateSwap takes over the instance that was current.
LEMMA SwapMoves ==
    ASSUME TypeOK, NEW a \in Admins, UpdateSwap(a)
    PROVE  \/ current = 0 /\ PutEnded(a)
           \/ current # 0 /\ PutMoved(a, "stop", current)
<1>0. put \in [Admins -> Put] /\ current \in 0..MaxCrons
  BY DEF TypeOK
<1> DEFINE r == [put[a] EXCEPT !.pc = "stop", !.old = current]
<1>1. /\ r \in Put /\ r.pc = "stop" /\ r.old = current
      /\ r.policy = put[a].policy /\ r.inst = put[a].inst
  BY <1>0 DEF Put
<1>2. put' = [put EXCEPT ![a] = IF current = 0 THEN NoPut ELSE r]
  BY DEF UpdateSwap
<1> HIDE DEF r
<1>3. CASE current = 0
  BY <1>0, <1>2, <1>3, NoPutEnds
<1>4. CASE current # 0
  BY <1>0, <1>1, <1>2, <1>4 DEF PutMoved
<1> QED BY <1>3, <1>4

\* A scan that enters or leaves its runner is still the same instance's job.
LEMMA ScanMoves ==
    ASSUME TypeOK, NEW s \in Scans
    PROVE  /\ ScanEnter(s) => ScanMoved(s, "run")
           /\ ScanLeave(s) => ScanMoved(s, "unlock")
           /\ ScanUnlock(s) => ScanMoved(s, "idle")
<1>0. scan \in [Scans -> Scan] /\ policy \in Valid \cup {NoPolicy}
  BY DEF TypeOK
<1>1. ASSUME ScanEnter(s) PROVE ScanMoved(s, "run")
  <2> DEFINE r == [scan[s] EXCEPT !.pc = "run", !.policy = policy]
  <2>1. r \in Scan /\ r.pc = "run" /\ r.by = scan[s].by
    BY <1>0 DEF Scan
  <2>2. scan' = [scan EXCEPT ![s] = r]
    BY <1>1 DEF ScanEnter
  <2> HIDE DEF r
  <2> QED BY <1>0, <2>1, <2>2 DEF ScanMoved
<1>2. ASSUME ScanLeave(s) PROVE ScanMoved(s, "unlock")
  <2> DEFINE r == [scan[s] EXCEPT !.pc = "unlock"]
  <2>1. r \in Scan /\ r.pc = "unlock" /\ r.by = scan[s].by
    BY <1>0 DEF Scan
  <2>2. scan' = [scan EXCEPT ![s] = r]
    BY <1>2 DEF ScanLeave
  <2> HIDE DEF r
  <2> QED BY <1>0, <2>1, <2>2 DEF ScanMoved
<1>3. ASSUME ScanUnlock(s) PROVE ScanMoved(s, "idle")
  <2>1. NoScan \in Scan /\ NoScan.pc = "idle"
    BY ConstantsAssumption DEF NoScan, Scan
  <2> QED BY <1>0, <1>3, <2>1 DEF ScanMoved, ScanUnlock
<1> QED BY <1>1, <1>2, <1>3

\* Locking runMu begins one scan.
LEMMA ExecuteBegins ==
    ASSUME scan \in [Scans -> Scan], NEW s \in Scans, NEW i \in 0..MaxCrons, Execute(s, i)
    PROVE  /\ scan[s].pc = "idle" /\ runMu'
           /\ scan' \in [Scans -> Scan]
           /\ scan'[s].pc = "enter" /\ scan'[s].by = i
           /\ \A t \in Scans \ {s} : scan'[t] = scan[t]
<1> DEFINE r == [pc |-> "enter", by |-> i, policy |-> NoPolicy]
<1>1. r \in Scan /\ r.pc = "enter" /\ r.by = i
  BY DEF Scan
<1>2. scan' = [scan EXCEPT ![s] = r]
  BY DEF Execute
<1> HIDE DEF r
<1> QED BY <1>1, <1>2 DEF Execute

-----------------------------------------------------------------------------
(* Types, and the scans *)

\* The next instance that is built has a number of its own: the ones before it
\* are 1, 2 and so on.
LEMMA NextCronFresh ==
    ASSUME BuiltInOrder
    PROVE  /\ NextCron \in 1..(MaxCrons + 1)
           /\ Built = 1..(NextCron - 1)
<1>1. PICK n \in 0..MaxCrons : Built = 1..n
  BY DEF BuiltInOrder
<1>2. n \in Nat
  BY ConstantsAssumption, <1>1
<1>3. Cardinality(1..n) = n
  BY <1>2, FS_Interval
<1>4. NextCron = n + 1
  BY <1>1, <1>3 DEF NextCron
<1> QED BY <1>1, <1>2, <1>4, ConstantsAssumption

\* The first state is well-typed.
LEMMA TypeInit == Init => TypeOK
<1>1. NotBuilt \in Cron /\ NoScan \in Scan /\ NoPut \in Put
  BY ConstantsAssumption DEF NotBuilt, NoScan, NoPut, Cron, Scan, Put
<1> HIDE DEF NotBuilt, NoScan, NoPut
<1>2. 0 \in 0..MaxCrons /\ 0 \in 0..MaxFired /\ Installed \in Valid
  BY ConstantsAssumption
<1> SUFFICES ASSUME Init PROVE TypeOK
  OBVIOUS
<1>3. crons \in [Instances -> Cron] /\ scan \in [Scans -> Scan] /\ put \in [Admins -> Put]
  BY <1>1 DEF Init
<1>4. fired \in [Instances -> 0..MaxFired]
  BY <1>2 DEF Init
<1> QED
  BY <1>2, <1>3, <1>4 DEF Init, TypeOK, Phases

\* Every action keeps the types.  UpdateStore needs UpdatesOwn, for the policy it
\* saves, and ScanLeave ActiveCounts: the scan that leaves has been counted.
LEMMA TypeStep ==
    ASSUME TypeOK, BuiltInOrder, UpdatesOwn, ActiveCounts, [Next]_vars
    PROVE  TypeOK'
<1> USE ConstantsAssumption DEF TypeOK, Phases, Instances, app
<1>0. NextCron \in Nat
  BY NextCronFresh
<1>0a. \A a \in Admins : /\ put[a].inst \in 0..MaxCrons /\ put[a].old \in 0..MaxCrons
                          /\ put[a].policy \in Valid \cup {NoPolicy}
  BY DEF Put
<1>1. CASE StartLoad
  <2>1. ASSUME NextCron \in Instances, stored \in Valid,
               crons' = [crons EXCEPT ![NextCron] = [policy |-> stored, state |-> "built"]]
        PROVE  crons' \in [Instances -> Cron]
    BY <2>1, BuildBuilds DEF CronBuilt
  <2>2. crons' \in [Instances -> Cron]
    BY <1>1, <2>1 DEF StartLoad
  <2> QED BY <1>1, <2>2 DEF StartLoad
<1>2. CASE StartCron
  <2>1. CronSet(1, "started")
    BY <1>2, SetCronSets DEF StartCron
  <2> QED BY <1>2, <2>1 DEF StartCron, CronSet
<1>3. CASE StartAssign
  BY <1>3 DEF StartAssign, Cron
<1>4. CASE StopTake
  BY <1>4 DEF StopTake
<1>5. CASE StopHalt
  <2>1. CronSet(halted, "stopped")
    BY <1>5, SetCronSets DEF StopHalt
  <2> QED BY <1>5, <2>1 DEF StopHalt, CronSet
<1>6. CASE StopWait
  BY <1>6 DEF StopWait
<1>7. CASE Shutdown
  BY <1>7 DEF Shutdown
<1>8. ASSUME NEW a \in Admins, NEW p \in Policies, Update(a, p)
      PROVE  TypeOK'
  <2> DEFINE r == [pc |-> "store", policy |-> p, inst |-> NextCron, old |-> 0]
  <2>1. CronBuilt(NextCron, p)
    BY <1>8, BuildBuilds DEF Update
  <2>2. r \in Put
    BY <1>8 DEF Update, Put
  <2>3. put' = [put EXCEPT ![a] = r]
    BY <1>8 DEF Update
  <2> HIDE DEF r
  <2> QED BY <1>8, <2>1, <2>2, <2>3 DEF Update, CronBuilt
<1>9. ASSUME NEW a \in Admins, UpdateStore(a)
      PROVE  TypeOK'
  <2>1. CASE stored' = put[a].policy /\ put' = [put EXCEPT ![a].pc = "start"]
    <3>1. put' \in [Admins -> Put]
      BY <2>1, GotoMoves DEF PutMoved
    <3>2. stored' \in Valid
      BY <1>9, <2>1 DEF UpdateStore, UpdatesOwn, NewOf
    <3> QED BY <1>9, <3>1, <3>2 DEF UpdateStore
  <2>2. CASE put' = [put EXCEPT ![a] = NoPut] /\ UNCHANGED stored
    BY <1>9, <2>2, NoPutEnds DEF UpdateStore, PutEnded
  <2> QED BY <1>9, <2>1, <2>2 DEF UpdateStore
<1>10. ASSUME NEW a \in Admins, UpdateStart(a)
       PROVE  TypeOK'
  <2>1. CronSet(put[a].inst, "started") /\ PutMoved(a, "swap", put[a].old)
    BY <1>0a, <1>10, SetCronSets, GotoMoves DEF UpdateStart
  <2> QED BY <1>10, <2>1 DEF UpdateStart, CronSet, PutMoved
<1>11. ASSUME NEW a \in Admins, UpdateSwap(a)
       PROVE  TypeOK'
  <2>1. put' \in [Admins -> Put]
    BY <1>11, SwapMoves DEF PutEnded, PutMoved
  <2> QED BY <1>0a, <1>11, <2>1 DEF UpdateSwap
<1>12. ASSUME NEW a \in Admins, UpdateStop(a)
       PROVE  TypeOK'
  <2>1. CronSet(put[a].old, "stopped") /\ PutEnded(a)
    BY <1>0a, <1>12, SetCronSets, NoPutEnds DEF UpdateStop
  <2> QED BY <1>12, <2>1 DEF UpdateStop, CronSet, PutEnded
<1>13. ASSUME NEW i \in Instances, Fire(i)
       PROVE  TypeOK'
  BY <1>13 DEF Fire
<1>14. ASSUME NEW i \in Instances, RunJob(i)
       PROVE  TypeOK'
  <2>1. fired[i] \in 0..MaxFired /\ fired[i] > 0 /\ fired' = [fired EXCEPT ![i] = fired[i] - 1]
    BY <1>14 DEF RunJob
  <2>2. fired' \in [Instances -> 0..MaxFired]
    BY <2>1
  <2>3. CASE \E s \in Scans : Execute(s, i)
    <3>1. PICK s \in Scans : Execute(s, i)
      BY <2>3
    <3>2. i \in 0..MaxCrons
      OBVIOUS
    <3>3. scan' \in [Scans -> Scan] /\ runMu' = TRUE
      BY <3>1, <3>2, ExecuteBegins DEF Execute
    <3> QED BY <1>14, <2>2, <3>3 DEF RunJob
  <2>4. CASE UNCHANGED <<runMu, scan>>
    BY <1>14, <2>2, <2>4 DEF RunJob
  <2> QED BY <1>14, <2>3, <2>4 DEF RunJob
<1>15. ASSUME NEW s \in Scans, RunNow(s)
       PROVE  TypeOK'
  <2>0. 0 \in 0..MaxCrons
    OBVIOUS
  <2>1. scan' \in [Scans -> Scan] /\ runMu' = TRUE
    BY <1>15, <2>0, ExecuteBegins DEF RunNow, Execute
  <2> QED BY <1>15, <2>1 DEF RunNow
<1>16. ASSUME NEW s \in Scans, ScanEnter(s)
       PROVE  TypeOK'
  <2>1. scan' \in [Scans -> Scan]
    BY <1>16, ScanMoves DEF ScanMoved
  <2> QED BY <1>16, <2>1 DEF ScanEnter
<1>17. ASSUME NEW s \in Scans, ScanLeave(s)
       PROVE  TypeOK'
  <2>1. active' \in Nat
    BY <1>17 DEF ScanLeave, ActiveCounts
  <2> QED BY <1>17, <2>1, ScanMoves DEF ScanLeave, ScanMoved
<1>18. ASSUME NEW s \in Scans, ScanUnlock(s)
       PROVE  TypeOK'
  BY <1>18, ScanMoves DEF ScanUnlock, ScanMoved
<1>19. CASE UNCHANGED vars
  BY <1>19 DEF vars
<1> QED BY <1>1, <1>2, <1>3, <1>4, <1>5, <1>6, <1>7, <1>8, <1>9, <1>10, <1>11, <1>12, <1>13,
           <1>14, <1>15, <1>16, <1>17, <1>18, <1>19 DEF Next, Controller

\* No step lets a second scan in, and active follows the one there is.
LEMMA ScanStep ==
    ASSUME TypeOK, ScansExclusive, ActiveCounts, [Next]_vars
    PROVE  ScansExclusive' /\ ActiveCounts'
<1> USE DEF ScansExclusive, ActiveCounts, Scanning
<1>0. scan \in [Scans -> Scan] /\ active \in Nat /\ runMu \in BOOLEAN
  BY DEF TypeOK
<1>1. ASSUME NEW s \in Scans, NEW i \in 0..MaxCrons, Execute(s, i), ~runMu, UNCHANGED active
      PROVE  ScansExclusive' /\ ActiveCounts'
  BY <1>0, <1>1, ExecuteBegins
<1>2. ASSUME NEW i \in Instances, RunJob(i)
      PROVE  ScansExclusive' /\ ActiveCounts'
  <2>1. i \in 0..MaxCrons
    BY ConstantsAssumption DEF Instances
  <2> QED BY <1>1, <1>2, <2>1 DEF RunJob
<1>3. ASSUME NEW s \in Scans, RunNow(s)
      PROVE  ScansExclusive' /\ ActiveCounts'
  BY <1>1, <1>3, ConstantsAssumption DEF RunNow
<1>4. ASSUME NEW s \in Scans, ScanEnter(s)
      PROVE  ScansExclusive' /\ ActiveCounts'
  <2>1. ScanMoved(s, "run") /\ scan[s].pc = "enter" /\ active' = active + 1 /\ UNCHANGED runMu
    BY <1>4, ScanMoves DEF ScanEnter
  <2> QED BY <1>0, <2>1 DEF ScanMoved
<1>5. ASSUME NEW s \in Scans, ScanLeave(s)
      PROVE  ScansExclusive' /\ ActiveCounts'
  <2>1. ScanMoved(s, "unlock") /\ scan[s].pc = "run" /\ active' = active - 1 /\ UNCHANGED runMu
    BY <1>5, ScanMoves DEF ScanLeave
  <2> QED BY <1>0, <2>1 DEF ScanMoved
<1>6. ASSUME NEW s \in Scans, ScanUnlock(s)
      PROVE  ScansExclusive' /\ ActiveCounts'
  <2>1. ScanMoved(s, "idle") /\ scan[s].pc = "unlock" /\ runMu' = FALSE /\ UNCHANGED active
    BY <1>6, ScanMoves DEF ScanUnlock
  <2> QED BY <1>0, <2>1 DEF ScanMoved
<1>7. CASE UNCHANGED <<scan, runMu, active>>
  BY <1>7
<1> QED
  BY <1>2, <1>3, <1>4, <1>5, <1>6, <1>7
  DEF Next, Controller, vars, app, StartLoad, StartCron, StartAssign, StopTake, StopHalt, StopWait,
      Shutdown, Update, UpdateStore, UpdateStart, UpdateSwap, UpdateStop, Fire
-----------------------------------------------------------------------------
(* The cron instances *)

\* Starting or stopping an instance that exists builds none.
LEMMA SetKeepsBuilt ==
    ASSUME NEW i \in Instances, NEW st \in {"started", "stopped"},
           CronSet(i, st), crons[i].state # "none", BuiltInOrder
    PROVE  BuiltInOrder'
<1>1. Built' = Built
  BY DEF CronSet, Built
<1> QED BY <1>1 DEF BuiltInOrder

\* A new instance continues the numbering.
LEMMA BuildKeepsOrder ==
    ASSUME NEW p, NextCron \in Instances, CronBuilt(NextCron, p), BuiltInOrder
    PROVE  BuiltInOrder' /\ crons[NextCron].state = "none"
<1>1. /\ NextCron \in 1..MaxCrons /\ Built = 1..(NextCron - 1)
  BY NextCronFresh DEF Instances
<1> DEFINE n == NextCron
<1>2. Built' = Built \cup {n}
  BY DEF CronBuilt, Built
<1>3. n \in 1..MaxCrons /\ Built = 1..(n - 1)
  BY <1>1
<1> HIDE DEF n
<1>4. Built' = 1..n /\ n \in 0..MaxCrons /\ n \notin Built
  BY <1>2, <1>3, ConstantsAssumption
<1> QED BY <1>4 DEF BuiltInOrder, Built, n

\* An action that leaves the instances, the requests and Start and Stop alone
\* keeps the invariant.
LEMMA ScheduleKept ==
    ASSUME ScheduleInv, UNCHANGED <<phase, halted, policy, current, crons, put>>
    PROVE  ScheduleInv'
BY DEF ScheduleInv, BuiltInOrder, Built, UpdatesOwn, UpdatesApart, NewIsNotOld, CurrentOwn,
       HaltedOwn, StartedOwned, Started, StartAlone, NewOf, OldOf

\* Start keeps the invariant: it runs before there is any request.
LEMMA StartKeeps ==
    ASSUME TypeOK, ScheduleInv, StartLoad \/ StartCron \/ StartAssign
    PROVE  ScheduleInv'
<1> USE DEF ScheduleInv
<1>0. crons \in [Instances -> Cron] /\ 1 \in Instances /\ 1 \in 0..MaxCrons
  BY ConstantsAssumption DEF TypeOK, Instances
<1>1. CASE StartLoad /\ phase' = "exited" /\ UNCHANGED crons
  BY <1>1 DEF StartLoad, BuiltInOrder, Built, UpdatesOwn, UpdatesApart, NewIsNotOld, CurrentOwn,
       HaltedOwn, StartedOwned, Started, StartAlone, NewOf, OldOf
<1>2. CASE StartLoad /\ phase' = "starting"
  <2>1. Built = {}
    BY <1>2 DEF StartLoad, StartAlone
  <2>2. NextCron = 1
    BY <2>1, FS_EmptySet DEF NextCron
  <2>3. CronBuilt(1, stored)
    BY <1>0, <1>2, <2>2, BuildBuilds DEF StartLoad
  <2>4. BuiltInOrder'
    BY <1>0, <2>2, <2>3, BuildKeepsOrder
  <2>5. UpdatesOwn' /\ UpdatesApart' /\ NewIsNotOld' /\ CurrentOwn' /\ HaltedOwn'
    BY <1>2 DEF StartLoad, StartAlone, UpdatesOwn, UpdatesApart, NewIsNotOld, CurrentOwn,
                HaltedOwn, NewOf, OldOf
  <2>6. StartedOwned'
    BY <1>0, <1>2, <2>1, <2>3 DEF StartedOwned, Started, Built, CronBuilt
  <2>7. StartAlone'
    BY <1>2, <2>3 DEF StartAlone, StartLoad, CronBuilt
  <2> QED BY <2>4, <2>5, <2>6, <2>7
<1>3. CASE StartCron
  <2>1. CronSet(1, "started") /\ crons[1].state = "built"
    BY <1>0, <1>3, SetCronSets DEF StartCron, StartAlone
  <2>2. BuiltInOrder'
    BY <1>0, <2>1, SetKeepsBuilt
  <2>3. UpdatesOwn' /\ UpdatesApart' /\ NewIsNotOld' /\ CurrentOwn' /\ HaltedOwn'
    BY <1>3 DEF StartCron, StartAlone, UpdatesOwn, UpdatesApart, NewIsNotOld, CurrentOwn,
                HaltedOwn, NewOf, OldOf
  <2>4. StartedOwned'
    BY <1>3, <2>1 DEF StartCron, StartAlone, StartedOwned, Started, CronSet
  <2>5. StartAlone'
    BY <1>0, <1>3, <2>1 DEF StartCron, StartAlone, CronSet
  <2> QED BY <2>2, <2>3, <2>4, <2>5
<1>4. CASE StartAssign
  <2>1. /\ current' = 1 /\ policy' = crons[1].policy /\ phase' = "serving"
        /\ crons[1].state = "started" /\ halted = 0
        /\ \A a \in Admins : put[a].pc = "idle"
        /\ UNCHANGED <<crons, put, halted>>
    BY <1>4 DEF StartAssign, StartAlone
  <2>2. BuiltInOrder' /\ StartAlone' /\ CurrentOwn' /\ HaltedOwn'
    BY <2>1 DEF BuiltInOrder, Built, StartAlone, CurrentOwn, HaltedOwn, NewOf, OldOf
  <2>3. UpdatesOwn' /\ UpdatesApart' /\ NewIsNotOld'
    BY <2>1 DEF UpdatesOwn, UpdatesApart, NewIsNotOld, NewOf, OldOf
  <2>4. StartedOwned'
    BY <1>4, <2>1, ConstantsAssumption
    DEF StartAssign, StartedOwned, Started, StartAlone, Instances
  <2> QED BY <2>2, <2>3, <2>4
<1> QED BY <1>1, <1>2, <1>3, <1>4 DEF StartLoad

\* Update builds an instance that nobody else has.
LEMMA BuildKeeps ==
    ASSUME TypeOK, ScheduleInv, NEW a \in Admins, NEW p \in Policies, Update(a, p)
    PROVE  ScheduleInv'
<1> USE DEF ScheduleInv
<1> DEFINE n == NextCron
<1>0. crons \in [Instances -> Cron] /\ n \in Instances /\ p \in Valid
  BY DEF Update, TypeOK
<1>1. CronBuilt(n, p)
  BY <1>0, BuildBuilds DEF Update
<1>2. BuiltInOrder' /\ crons[n].state = "none"
  BY <1>0, <1>1, BuildKeepsOrder
<1>3. /\ put'[a].pc = "store" /\ put'[a].inst = n /\ put'[a].policy = p
      /\ \A b \in Admins \ {a} : put'[b] = put[b]
      /\ phase = "serving" /\ put[a].pc = "idle"
      /\ UNCHANGED <<phase, halted, policy, current>>
  BY DEF Update, TypeOK, app
<1>4. current \in 1..MaxCrons /\ halted = 0
  BY <1>3, ConstantsAssumption DEF StartAlone, TypeOK
<1> HIDE DEF n
<1>5. UpdatesOwn'
  BY <1>0, <1>1, <1>2, <1>3 DEF UpdatesOwn, NewOf, OldOf, CronBuilt
<1>6. UpdatesApart' /\ NewIsNotOld'
  BY <1>0, <1>2, <1>3 DEF UpdatesApart, NewIsNotOld, UpdatesOwn, NewOf, OldOf
<1>7. CurrentOwn' /\ HaltedOwn'
  BY <1>0, <1>1, <1>2, <1>3, <1>4 DEF CurrentOwn, HaltedOwn, NewOf, OldOf, CronBuilt, Instances
<1>8. StartedOwned'
  BY <1>1, <1>3, <1>4 DEF StartedOwned, Started, CronBuilt
<1>9. StartAlone'
  BY <1>3, <1>4 DEF StartAlone
<1> QED BY <1>2, <1>5, <1>6, <1>7, <1>8, <1>9

\* Saving the policy, or giving up when that fails.
LEMMA StoreKeeps ==
    ASSUME TypeOK, ScheduleInv, NEW a \in Admins, UpdateStore(a)
    PROVE  ScheduleInv'
<1> USE DEF ScheduleInv
<1>1. put \in [Admins -> Put] /\ put[a].pc = "store" /\ UNCHANGED <<phase, halted, policy, current, crons>>
  BY DEF UpdateStore, TypeOK, app
<1>2. PutMoved(a, "start", put[a].old) \/ PutEnded(a)
  BY <1>1, GotoMoves, NoPutEnds DEF UpdateStore
<1>3. BuiltInOrder' /\ UpdatesOwn'
  BY <1>1, <1>2 DEF BuiltInOrder, Built, UpdatesOwn, NewOf, OldOf, PutMoved, PutEnded
<1>4. UpdatesApart' /\ NewIsNotOld'
  BY <1>1, <1>2 DEF UpdatesApart, NewIsNotOld, NewOf, OldOf, PutMoved, PutEnded
<1>5. CurrentOwn' /\ HaltedOwn'
  BY <1>1, <1>2 DEF CurrentOwn, HaltedOwn, NewOf, OldOf, PutMoved, PutEnded
<1>6. StartedOwned' /\ StartAlone'
  BY <1>1, <1>2 DEF StartedOwned, Started, StartAlone, Built, PutMoved, PutEnded
<1> QED BY <1>3, <1>4, <1>5, <1>6

\* An Update starts the instance that it built.
LEMMA UpdateStartKeeps ==
    ASSUME TypeOK, ScheduleInv, NEW a \in Admins, UpdateStart(a)
    PROVE  ScheduleInv'
<1> USE DEF ScheduleInv
<1> DEFINE n == put[a].inst
<1>1. /\ put \in [Admins -> Put] /\ crons \in [Instances -> Cron] /\ put[a].pc = "start"
      /\ n \in Instances /\ n \in 0..MaxCrons /\ crons[n].state = "built"
      /\ UNCHANGED <<phase, halted, policy, current>>
  BY DEF UpdateStart, TypeOK, app, UpdatesOwn, NewOf, Instances
<1>2. PutMoved(a, "swap", put[a].old) /\ CronSet(n, "started")
  BY <1>1, GotoMoves, SetCronSets DEF UpdateStart
<1>2a. put'[a].inst = n
  BY <1>2 DEF PutMoved
<1> HIDE DEF n
<1>3. BuiltInOrder'
  BY <1>1, <1>2, SetKeepsBuilt
<1>4. UpdatesOwn'
  BY <1>1, <1>2, <1>2a DEF UpdatesOwn, UpdatesApart, NewIsNotOld, NewOf, OldOf, PutMoved, CronSet, n
<1>5. UpdatesApart' /\ NewIsNotOld'
  BY <1>1, <1>2 DEF UpdatesApart, NewIsNotOld, NewOf, OldOf, PutMoved
<1>6. CurrentOwn' /\ HaltedOwn'
  <2>1. n # current /\ (halted # 0 => n # halted)
    BY <1>1, ConstantsAssumption DEF CurrentOwn, HaltedOwn, NewOf, Instances, n
  <2>2. current \in Instances \cup {0} /\ halted \in Instances \cup {0}
    BY ConstantsAssumption DEF TypeOK, Instances
  <2> QED BY <1>1, <1>2, <2>1, <2>2 DEF CurrentOwn, HaltedOwn, NewOf, OldOf, PutMoved, CronSet
<1>7. StartedOwned'
  BY <1>1, <1>2, <1>2a DEF StartedOwned, Started, PutMoved, CronSet
<1>8. StartAlone'
  BY <1>1, <1>2 DEF StartAlone, PutMoved
<1> QED BY <1>3, <1>4, <1>5, <1>6, <1>7, <1>8

\* Under Controller.mu the new instance becomes current, and the request takes
\* over the one it replaced.
LEMMA SwapKeeps ==
    ASSUME TypeOK, ScheduleInv, NEW a \in Admins, UpdateSwap(a)
    PROVE  ScheduleInv'
<1> USE DEF ScheduleInv
<1>1. /\ put \in [Admins -> Put] /\ put[a].pc = "swap"
      /\ put[a].inst \in Instances /\ crons[put[a].inst].state = "started"
      /\ crons[put[a].inst].policy = put[a].policy
      /\ current' = put[a].inst /\ policy' = put[a].policy
      /\ UNCHANGED <<phase, halted, crons>>
  BY DEF UpdateSwap, TypeOK, app, UpdatesOwn, NewOf
<1>2. \/ current = 0 /\ PutEnded(a)
      \/ current \in Instances /\ PutMoved(a, "stop", current)
  BY SwapMoves, ConstantsAssumption DEF TypeOK, Instances
<1>2a. put[a].inst # 0
  BY <1>1, ConstantsAssumption DEF Instances
<1>3. BuiltInOrder' /\ UpdatesOwn'
  BY <1>1, <1>2, ConstantsAssumption
  DEF BuiltInOrder, Built, UpdatesOwn, CurrentOwn, NewOf, OldOf, PutMoved, PutEnded, Instances
<1>4. UpdatesApart' /\ NewIsNotOld'
  BY <1>1, <1>2, ConstantsAssumption
  DEF UpdatesApart, NewIsNotOld, CurrentOwn, NewOf, OldOf, PutMoved, PutEnded, Instances
<1>5. CurrentOwn'
  BY <1>1, <1>2, ConstantsAssumption
  DEF CurrentOwn, UpdatesApart, NewIsNotOld, NewOf, OldOf, PutMoved, PutEnded, Instances
<1>6. HaltedOwn'
  BY <1>1, <1>2 DEF HaltedOwn, NewOf, OldOf, PutMoved, PutEnded
<1>7. StartedOwned'
  BY <1>1, <1>2, ConstantsAssumption
  DEF StartedOwned, Started, PutMoved, PutEnded, Instances
<1>8. StartAlone'
  BY <1>1, <1>2, <1>2a DEF StartAlone, Built, PutMoved, PutEnded
<1> QED BY <1>3, <1>4, <1>5, <1>6, <1>7, <1>8

\* An Update stops the instance that it replaced, which nobody else has.
LEMMA UpdateStopKeeps ==
    ASSUME TypeOK, ScheduleInv, NEW a \in Admins, UpdateStop(a)
    PROVE  ScheduleInv'
<1> USE DEF ScheduleInv
<1> DEFINE n == put[a].old
<1>1. /\ put \in [Admins -> Put] /\ crons \in [Instances -> Cron] /\ put[a].pc = "stop"
      /\ n \in Instances /\ n \in 0..MaxCrons /\ crons[n].state = "started"
      /\ UNCHANGED <<phase, halted, policy, current>>
  BY DEF UpdateStop, TypeOK, app, UpdatesOwn, OldOf, Instances
<1>2. PutEnded(a) /\ CronSet(n, "stopped")
  BY <1>1, NoPutEnds, SetCronSets DEF UpdateStop
<1> HIDE DEF n
<1>3. BuiltInOrder'
  BY <1>1, <1>2, SetKeepsBuilt
<1>4. UpdatesOwn'
  BY <1>1, <1>2 DEF UpdatesOwn, UpdatesApart, NewIsNotOld, NewOf, OldOf, PutEnded, CronSet, n
<1>5. UpdatesApart' /\ NewIsNotOld'
  BY <1>1, <1>2 DEF UpdatesApart, NewIsNotOld, NewOf, OldOf, PutEnded
<1>6. CurrentOwn' /\ HaltedOwn'
  <2>1. n # current /\ (halted # 0 => n # halted)
    BY <1>1, ConstantsAssumption DEF CurrentOwn, HaltedOwn, OldOf, Instances, n
  <2>2. current \in Instances \cup {0} /\ halted \in Instances \cup {0}
    BY ConstantsAssumption DEF TypeOK, Instances
  <2> QED BY <1>1, <1>2, <2>1, <2>2 DEF CurrentOwn, HaltedOwn, NewOf, OldOf, PutEnded, CronSet
<1>7. StartedOwned'
  BY <1>1, <1>2 DEF StartedOwned, Started, PutEnded, CronSet, n
<1>8. StartAlone'
  BY <1>1, <1>2 DEF StartAlone, PutEnded
<1> QED BY <1>3, <1>4, <1>5, <1>6, <1>7, <1>8

\* Shutdown and Stop keep the invariant: Stop takes the current instance for
\* itself, and an Update that comes later finds none.
LEMMA StopKeeps ==
    ASSUME TypeOK, ScheduleInv, Shutdown \/ StopTake \/ StopHalt \/ StopWait
    PROVE  ScheduleInv'
<1> USE DEF ScheduleInv
<1>1. CASE Shutdown
  BY <1>1 DEF Shutdown, BuiltInOrder, Built, UpdatesOwn, UpdatesApart, NewIsNotOld, CurrentOwn,
       HaltedOwn, StartedOwned, Started, StartAlone, NewOf, OldOf
<1>2. CASE StopTake
  <2>1. /\ phase = "draining" /\ phase' = "halting" /\ current \in Instances
        /\ halted' = current /\ current' = 0 /\ halted = 0 /\ UNCHANGED <<crons, put, policy>>
    BY <1>2, ConstantsAssumption DEF StopTake, StartAlone, TypeOK, Instances
  <2>2. BuiltInOrder' /\ UpdatesOwn' /\ UpdatesApart' /\ NewIsNotOld'
    BY <2>1 DEF BuiltInOrder, Built, UpdatesOwn, UpdatesApart, NewIsNotOld, NewOf, OldOf
  <2>3. CurrentOwn' /\ HaltedOwn' /\ StartAlone'
    BY <2>1, ConstantsAssumption DEF CurrentOwn, HaltedOwn, StartAlone, NewOf, OldOf, Instances
  <2>4. StartedOwned'
    BY <2>1 DEF StartedOwned, Started
  <2> QED BY <2>2, <2>3, <2>4
<1>3. CASE StopHalt
  <2> DEFINE n == halted
  <2>1. /\ phase = "halting" /\ phase' = "waiting" /\ n \in Instances /\ n # 0 /\ n # current
        /\ crons[n].state = "started" /\ halted' = n
        /\ UNCHANGED <<current, put, policy>>
    BY <1>3, ConstantsAssumption DEF StopHalt, StartAlone, HaltedOwn, TypeOK, Instances
  <2>2. CronSet(n, "stopped")
    BY <1>3, SetCronSets DEF StopHalt, TypeOK
  <2>3. \A a \in Admins : (NewOf(a) => put[a].inst # n) /\ (OldOf(a) => put[a].old # n)
    BY <2>1 DEF HaltedOwn
  <2>3a. \A i \in Started : i = halted \/ i = current
                 \/ (\E a \in Admins : put[a].pc = "swap" /\ put[a].inst = i)
                 \/ (\E a \in Admins : put[a].pc = "stop" /\ put[a].old = i)
    BY <2>1 DEF StartedOwned
  <2>3b. current \in Instances \cup {0} /\ crons \in [Instances -> Cron]
    BY ConstantsAssumption DEF TypeOK, Instances
  <2> HIDE DEF n
  <2>4. BuiltInOrder'
    BY <2>1, <2>2, SetKeepsBuilt
  <2>5. UpdatesOwn' /\ UpdatesApart' /\ NewIsNotOld'
    BY <2>1, <2>2, <2>3 DEF UpdatesOwn, UpdatesApart, NewIsNotOld, NewOf, OldOf, CronSet
  <2>6. CurrentOwn' /\ HaltedOwn' /\ StartAlone'
    BY <2>1, <2>2, <2>3, <2>3b DEF CurrentOwn, HaltedOwn, StartAlone, NewOf, OldOf, CronSet
  <2>7. StartedOwned'
    BY <2>1, <2>2, <2>3a DEF StartedOwned, Started, CronSet, n
  <2> QED BY <2>4, <2>5, <2>6, <2>7
<1>4. CASE StopWait
  BY <1>4 DEF StopWait, BuiltInOrder, Built, UpdatesOwn, UpdatesApart, NewIsNotOld, CurrentOwn,
       HaltedOwn, StartedOwned, Started, StartAlone, NewOf, OldOf
<1> QED BY <1>1, <1>2, <1>3, <1>4
\* Every step keeps the invariant about the cron instances.
LEMMA ScheduleStep ==
    ASSUME TypeOK, ScheduleInv, [Next]_vars
    PROVE  ScheduleInv'
<1>1. CASE UNCHANGED <<phase, halted, policy, current, crons, put>>
  BY <1>1, ScheduleKept
<1> QED
  BY <1>1, StartKeeps, StopKeeps, BuildKeeps, StoreKeeps, UpdateStartKeeps, SwapKeeps,
     UpdateStopKeeps
  DEF Next, Controller, vars, app, Fire, RunJob, RunNow, ScanEnter, ScanLeave, ScanUnlock

\* It holds when the process starts.
LEMMA ScheduleInit == Init => ScheduleInv
<1> SUFFICES ASSUME Init PROVE ScheduleInv
  OBVIOUS
<1>1. \A i \in Instances : crons[i].state = "none"
  BY DEF Init, NotBuilt
<1>2. Built = {} /\ Started = {}
  BY <1>1 DEF Built, Started
<1>3. BuiltInOrder
  <2>1. 1..0 = {} /\ 0 \in 0..MaxCrons
    BY ConstantsAssumption
  <2> QED BY <1>2, <2>1 DEF BuiltInOrder
<1>4. \A a \in Admins : put[a].pc = "idle"
  BY DEF Init, NoPut
<1>5. phase = "loading" /\ current = 0 /\ halted = 0
  BY DEF Init
<1>6. UpdatesOwn /\ UpdatesApart /\ NewIsNotOld
  BY <1>4 DEF UpdatesOwn, UpdatesApart, NewIsNotOld, NewOf, OldOf
<1>7. CurrentOwn /\ HaltedOwn /\ StartedOwned /\ StartAlone
  BY <1>2, <1>4, <1>5 DEF CurrentOwn, HaltedOwn, StartedOwned, StartAlone
<1> QED BY <1>3, <1>6, <1>7 DEF ScheduleInv

\* Once Stop has found its instance without jobs, none can appear: the instance
\* is stopped, so it does not fire, and no goroutine of it is left.
LEMMA StopStep ==
    ASSUME TypeOK, ScheduleInv, StopWaitsForItsJobs, [Next]_vars
    PROVE  StopWaitsForItsJobs'
<1> SUFFICES ASSUME phase' = "closed", halted' # 0
             PROVE  /\ fired'[halted'] = 0
                    /\ \A s \in Scans : scan'[s].pc # "idle" => scan'[s].by # halted'
  BY DEF StopWaitsForItsJobs, JobsOf, Scanning
<1> USE DEF JobsOf, Scanning
<1>1. CASE StopWait
  BY <1>1 DEF StopWait
<1>2. CASE ~StopWait
  <2>1. phase = "closed" /\ halted' = halted
    <3>1. CASE StopTake
      BY <3>1 DEF StopTake
    <3> QED
      BY <1>2, <3>1
      DEF Next, Controller, vars, app, StartLoad, StartCron, StartAssign, StopHalt, Shutdown,
          Update, UpdateStore, UpdateStart, UpdateSwap, UpdateStop, Fire, RunJob, RunNow,
          ScanEnter, ScanLeave, ScanUnlock
  <2>2. /\ halted \in Instances /\ halted # 0 /\ crons[halted].state = "stopped"
        /\ fired[halted] = 0 /\ \A s \in Scans : scan[s].pc # "idle" => scan[s].by # halted
    BY <2>1, ConstantsAssumption
    DEF ScheduleInv, HaltedOwn, StopWaitsForItsJobs, TypeOK, Instances
  <2>3. scan \in [Scans -> Scan] /\ fired \in [Instances -> 0..MaxFired]
    BY DEF TypeOK
  <2>4. ASSUME NEW i \in Instances, Fire(i)
        PROVE  fired'[halted] = 0 /\ UNCHANGED scan
    BY <2>2, <2>3, <2>4 DEF Fire
  <2>5. ASSUME NEW i \in Instances, RunJob(i)
        PROVE  /\ fired'[halted] = 0
               /\ \A s \in Scans : scan'[s].pc # "idle" => scan'[s].by # halted
    <3>1. fired[i] > 0 /\ i # halted /\ fired'[halted] = 0 /\ i \in 0..MaxCrons
      BY <2>2, <2>3, <2>5, ConstantsAssumption DEF RunJob, Instances
    <3>2. CASE \E s \in Scans : Execute(s, i)
      BY <2>2, <2>3, <3>1, <3>2, ExecuteBegins
    <3>3. CASE UNCHANGED scan
      BY <2>2, <3>1, <3>3
    <3> QED BY <2>5, <3>1, <3>2, <3>3 DEF RunJob
  <2>6. ASSUME NEW s \in Scans, ScanEnter(s) \/ ScanLeave(s) \/ ScanUnlock(s)
        PROVE  /\ fired'[halted] = 0
               /\ \A t \in Scans : scan'[t].pc # "idle" => scan'[t].by # halted
    <3>1. scan[s].pc # "idle" /\ UNCHANGED fired
      BY <2>6 DEF ScanEnter, ScanLeave, ScanUnlock
    <3>2. ScanMoved(s, "run") \/ ScanMoved(s, "unlock") \/ ScanMoved(s, "idle")
      BY <2>6, ScanMoves
    <3> QED BY <2>2, <3>1, <3>2 DEF ScanMoved
  <2>7. CASE UNCHANGED <<fired, scan>>
    BY <2>1, <2>2, <2>7
  <2>8. fired'[halted] = 0 /\ \A s \in Scans : scan'[s].pc # "idle" => scan'[s].by # halted
    BY <1>2, <2>1, <2>2, <2>4, <2>5, <2>6, <2>7
    DEF Next, Controller, vars, app, StartLoad, StartCron, StartAssign, StopTake, StopHalt,
        Shutdown, Update, UpdateStore, UpdateStart, UpdateSwap, UpdateStop, RunNow
  <2> QED BY <2>1, <2>8
<1> QED BY <1>1, <1>2

-----------------------------------------------------------------------------
(* The theorems *)

SchedulerInv ==
    TypeOK /\ ScansExclusive /\ ActiveCounts /\ ScheduleInv /\ StopWaitsForItsJobs

\* The inductive invariant of the scheduler.
THEOREM SchedulerInvariant == Spec => []SchedulerInv
<1>1. Init => SchedulerInv
  <2>1. Init => ScansExclusive /\ ActiveCounts /\ StopWaitsForItsJobs
    BY DEF Init, NoScan, ScansExclusive, ActiveCounts, StopWaitsForItsJobs, Scanning
  <2> QED BY <2>1, TypeInit, ScheduleInit DEF SchedulerInv
<1>2. SchedulerInv /\ [Next]_vars => SchedulerInv'
  BY TypeStep, ScanStep, ScheduleStep, StopStep DEF SchedulerInv, ScheduleInv
<1> QED BY <1>1, <1>2, PTL DEF Spec

\* The state keeps its types, and only policies that Validate accepts are saved,
\* held in memory or given a cron instance.
THEOREM SchedulerTypes == Spec => []TypeOK
BY SchedulerInvariant, PTL DEF SchedulerInv

\* TryLock of runMu keeps scans apart, for any number of cron instances, late
\* job goroutines and RunNow requests.
THEOREM ScansApart == Spec => []ScansExclusive
BY SchedulerInvariant, PTL DEF SchedulerInv

\* Between Start and Stop the current instance is started, whatever Updates run
\* and fail.
THEOREM ScheduleUninterrupted == Spec => []ScheduleNeverStops
<1>1. SchedulerInv => ScheduleNeverStops
  BY ConstantsAssumption
  DEF SchedulerInv, ScheduleInv, TypeOK, StartAlone, CurrentOwn, ScheduleNeverStops, Started,
      Instances
<1> QED BY <1>1, SchedulerInvariant, PTL

\* Concurrent Updates leave no second schedule behind: UpdateSwap hands every
\* instance to exactly one request to stop.
THEOREM NoScheduleLeftBehind == Spec => []NoOrphanSchedule
<1>1. SchedulerInv => NoOrphanSchedule
  <2> SUFFICES ASSUME SchedulerInv, phase \in {"serving", "draining"}, Updating = {}
               PROVE  Started = {current} /\ crons[current].policy = policy
    BY DEF NoOrphanSchedule
  <2>1. current \in Instances /\ crons[current].state = "started" /\ crons[current].policy = policy
    BY ConstantsAssumption
    DEF SchedulerInv, ScheduleInv, TypeOK, StartAlone, CurrentOwn, Instances
  <2>2. \A i \in Started : i = current
    BY DEF SchedulerInv, ScheduleInv, StartedOwned, Updating
  <2> QED BY <2>1, <2>2 DEF Started
<1> QED BY <1>1, SchedulerInvariant, PTL

\* When Stop reports success, no job of the instance it stopped is left, and
\* none begins later.
THEOREM StopHasWaited == Spec => []StopWaitsForItsJobs
BY SchedulerInvariant, PTL DEF SchedulerInv
===============================================================================
