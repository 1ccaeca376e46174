------------------------------ MODULE Scheduler ------------------------------
(***************************************************************************)
(* The renewal scheduler (internal/scheduler/controller.go) with the       *)
(* start-up and shutdown of the application around it                      *)
(* (internal/app/app.go).                                                  *)
(*                                                                         *)
(* A policy is saved in the table renewal_policies and held in memory by   *)
(* the Controller together with a cron instance built for it.  Update      *)
(* builds a second instance, saves, starts it, makes it current and stops  *)
(* the first one; only making it current happens under Controller.mu, so   *)
(* the steps of two Updates, of Start, of Stop and of the scans interleave *)
(* between them.                                                           *)
(***************************************************************************)
EXTENDS Integers, FiniteSets

CONSTANTS
    Policies,   \* policies an administrator may send
    Valid,      \* those Validate accepts
    Enabled,    \* those with Enabled set: only they get a cron entry
    Installed,  \* the policy the first migration inserts
    NoPolicy,   \* the zero Policy of a new Controller (MaxConcurrency 0)
    Admins,     \* slots for concurrent PUT requests
    Scans,      \* slots for running executeLocked
    MaxCrons,   \* bound: cron instances built in one behaviour
    MaxFired,   \* bound: job goroutines of one instance not yet past TryLock
    Drains      \* server.Shutdown waits for all requests before Stop is called

ASSUME ConstantsAssumption ==
    /\ Valid \subseteq Policies /\ Enabled \subseteq Policies
    /\ Installed \in Valid
    /\ NoPolicy \notin Policies
    /\ MaxCrons \in Nat \ {0} /\ MaxFired \in Nat
    /\ Drains \in BOOLEAN

VARIABLES
    phase,    \* where app.New and App.Run are
    ctxDone,  \* Controller.ctx is cancelled
    stored,   \* the row of renewal_policies
    policy,   \* Controller.policy
    current,  \* Controller.cron, 0 for nil
    crons,    \* the cron instances built so far, by number
    fired,    \* fired[i]: goroutines cron instance i launched, before TryLock
    runMu,    \* Controller.runMu is locked
    active,   \* Controller.active
    scan,     \* scan[s]: an execution of executeLocked
    put,      \* put[a]: the Update of request a
    halted    \* the cron instance Stop took, 0 for none

app   == <<phase, ctxDone, halted>>
vars  == <<phase, ctxDone, stored, policy, current, crons, fired, runMu, active,
           scan, put, halted>>

-----------------------------------------------------------------------------
Instances == 1..MaxCrons
Phases    == {"loading", "starting", "assigning", "serving", "draining",
              "halting", "waiting", "closed", "timedOut", "exited"}

\* What is kept of a cron instance, a scan and an Update.
Cron == [policy: Valid \cup {NoPolicy}, state: {"none", "built", "started", "stopped"}]
Scan == [pc: {"idle", "enter", "run", "unlock"}, by: 0..MaxCrons,
         policy: Valid \cup {NoPolicy}]
Put  == [pc: {"idle", "store", "start", "swap", "stop"}, policy: Valid \cup {NoPolicy},
         inst: 0..MaxCrons, old: 0..MaxCrons]

NotBuilt == [policy |-> NoPolicy, state |-> "none"]
NoScan   == [pc |-> "idle", by |-> 0, policy |-> NoPolicy]
NoPut    == [pc |-> "idle", policy |-> NoPolicy, inst |-> 0, old |-> 0]

Built     == {i \in Instances : crons[i].state # "none"}
Started   == {i \in Instances : crons[i].state = "started"}
NextCron  == Cardinality(Built) + 1
Updating  == {a \in Admins : put[a].pc # "idle"}
Scanning  == {s \in Scans : scan[s].pc # "idle"}
JobsOf(i) == {s \in Scanning : scan[s].by = i}

SetCron(i, state) == crons' = [crons EXCEPT ![i].state = state]

Init ==
    /\ phase = "loading" /\ ctxDone = FALSE
    /\ stored = Installed
    /\ policy = NoPolicy /\ current = 0
    /\ crons = [i \in Instances |-> NotBuilt]
    /\ fired = [i \in Instances |-> 0]
    /\ runMu = FALSE /\ active = 0
    /\ scan = [s \in Scans |-> NoScan]
    /\ put = [a \in Admins |-> NoPut]
    /\ halted = 0

-----------------------------------------------------------------------------
(* Start: called by app.New, before there is a server *)

\* RenewalPolicy and build; when either fails app.New gives up.
StartLoad ==
    /\ phase = "loading"
    /\ \/ /\ stored \in Valid
          /\ crons' = [crons EXCEPT ![NextCron] = [policy |-> stored, state |-> "built"]]
          /\ phase' = "starting"
       \/ phase' = "exited" /\ UNCHANGED crons
    /\ UNCHANGED <<ctxDone, halted, stored, policy, current, fired, runMu, active, scan, put>>

StartCron ==
    /\ phase = "starting"
    /\ SetCron(1, "started")
    /\ phase' = "assigning"
    /\ UNCHANGED <<ctxDone, halted, stored, policy, current, fired, runMu, active, scan, put>>

StartAssign ==
    /\ phase = "assigning"
    /\ current' = 1 /\ policy' = crons[1].policy
    /\ phase' = "serving"
    /\ UNCHANGED <<ctxDone, halted, stored, crons, fired, runMu, active, scan, put>>

-----------------------------------------------------------------------------
(* Update: PUT of the renewal policy *)

\* build: Validate refuses the request, or a new instance is made.
Update(a, p) ==
    /\ phase = "serving" /\ put[a].pc = "idle"
    /\ p \in Valid
    /\ NextCron \in Instances
    /\ crons' = [crons EXCEPT ![NextCron] = [policy |-> p, state |-> "built"]]
    /\ put' = [put EXCEPT ![a] = [pc |-> "store", policy |-> p, inst |-> NextCron, old |-> 0]]
    /\ UNCHANGED <<app, stored, policy, current, fired, runMu, active, scan>>

\* UpdateRenewalPolicy; when it fails the new instance is dropped.
UpdateStore(a) ==
    /\ put[a].pc = "store"
    /\ \/ /\ stored' = put[a].policy
          /\ put' = [put EXCEPT ![a].pc = "start"]
       \/ /\ put' = [put EXCEPT ![a] = NoPut]
          /\ UNCHANGED stored
    /\ UNCHANGED <<app, policy, current, crons, fired, runMu, active, scan>>

\* Mutant: the instance is only started after it has become current.
StartLater(a) ==
    /\ put[a].pc = "start"
    /\ put' = [put EXCEPT ![a].pc = "swap"]
    /\ UNCHANGED <<app, stored, policy, current, crons, fired, runMu, active, scan>>

UpdateStart(a) ==
    /\ put[a].pc = "start"
    /\ SetCron(put[a].inst, "started")
    /\ put' = [put EXCEPT ![a].pc = "swap"]
    /\ UNCHANGED <<app, stored, policy, current, fired, runMu, active, scan>>

\* Mutant: old is the instance that was current when the request was built,
\* not the one found under the lock.
SwapStaleOld(a) ==
    /\ put[a].pc = "swap"
    /\ LET prior == {i \in Instances : i < put[a].inst}
       IN put' = [put EXCEPT ![a].pc = "stop",
                             ![a].old = CHOOSE i \in prior : \A j \in prior : j <= i]
    /\ current' = put[a].inst /\ policy' = put[a].policy
    /\ UNCHANGED <<app, stored, crons, fired, runMu, active, scan>>

\* Under Controller.mu: the new instance becomes current, the old one is kept
\* to be stopped.  After Stop there is no old one.
UpdateSwap(a) ==
    /\ put[a].pc = "swap"
    /\ put' = [put EXCEPT ![a] = IF current = 0 THEN NoPut
                                 ELSE [@ EXCEPT !.pc = "stop", !.old = current]]
    /\ current' = put[a].inst /\ policy' = put[a].policy
    /\ UNCHANGED <<app, stored, crons, fired, runMu, active, scan>>

UpdateStop(a) ==
    /\ put[a].pc = "stop"
    /\ SetCron(put[a].old, "stopped")
    /\ put' = [put EXCEPT ![a] = NoPut]
    /\ UNCHANGED <<app, stored, policy, current, fired, runMu, active, scan>>

-----------------------------------------------------------------------------
(* Scans *)

\* The cron instance (external) launches a goroutine for its entry.
Fire(i) ==
    /\ crons[i].state = "started" /\ crons[i].policy \in Enabled
    /\ fired[i] < MaxFired
    /\ fired' = [fired EXCEPT ![i] = @ + 1]
    /\ UNCHANGED <<app, stored, policy, current, crons, runMu, active, scan, put>>

\* runMu was just locked: executeLocked begins, for instance i or a RunNow (0).
Execute(s, i) ==
    /\ scan[s].pc = "idle"
    /\ runMu' = TRUE
    /\ scan' = [scan EXCEPT ![s] = [pc |-> "enter", by |-> i, policy |-> NoPolicy]]

\* The cron entry's function: TryLock, or skip this run.
RunJob(i) ==
    /\ fired[i] > 0
    /\ fired' = [fired EXCEPT ![i] = @ - 1]
    /\ \/ ~runMu /\ \E s \in Scans : Execute(s, i)
       \/ runMu /\ UNCHANGED <<runMu, scan>>
    /\ UNCHANGED <<app, stored, policy, current, crons, active, put>>

\* Mutant: RunNow does not ask for runMu.
RunNowUnlocked(s) ==
    /\ phase = "serving"
    /\ Execute(s, 0)
    /\ UNCHANGED <<app, stored, policy, current, crons, fired, active, put>>

\* RunNow: TryLock and go executeLocked(), or answer SCHEDULE_RUN_ACTIVE.
RunNow(s) ==
    /\ phase = "serving"
    /\ ~runMu
    /\ Execute(s, 0)
    /\ UNCHANGED <<app, stored, policy, current, crons, fired, active, put>>

\* executeLocked: the policy is copied when the scan begins.
ScanEnter(s) ==
    /\ scan[s].pc = "enter"
    /\ active' = active + 1
    /\ scan' = [scan EXCEPT ![s].pc = "run", ![s].policy = policy]
    /\ UNCHANGED <<app, stored, policy, current, crons, fired, runMu, put>>

\* The runner (RunRenewalScan) returns.  lastRun and lastError, which it sets
\* and only Status reads, are left out.
ScanLeave(s) ==
    /\ scan[s].pc = "run"
    /\ active' = active - 1
    /\ scan' = [scan EXCEPT ![s].pc = "unlock"]
    /\ UNCHANGED <<app, stored, policy, current, crons, fired, runMu, put>>

\* Mutant: only the cron entry unlocks; the goroutine of RunNow does not.
UnlockByEntry(s) ==
    /\ scan[s].pc = "unlock"
    /\ runMu' = (scan[s].by = 0)
    /\ scan' = [scan EXCEPT ![s] = NoScan]
    /\ UNCHANGED <<app, stored, policy, current, crons, fired, active, put>>

\* The deferred runMu.Unlock().
ScanUnlock(s) ==
    /\ scan[s].pc = "unlock"
    /\ runMu' = FALSE
    /\ scan' = [scan EXCEPT ![s] = NoScan]
    /\ UNCHANGED <<app, stored, policy, current, crons, fired, active, put>>

-----------------------------------------------------------------------------
(* Shutdown: App.Run and Stop *)

\* The process is told to stop, which cancels the parent of Controller.ctx, or
\* ListenAndServe fails.  No request starts from now on.
Shutdown ==
    /\ phase = "serving"
    /\ phase' = "draining"
    /\ ctxDone' \in BOOLEAN
    /\ UNCHANGED <<halted, stored, policy, current, crons, fired, runMu, active, scan, put>>

\* Stop: cancel, and take the current instance under Controller.mu.  The
\* requests have ended when the server drained in time; otherwise they go on.
StopTake ==
    /\ phase = "draining"
    /\ Drains => Updating = {}
    /\ ctxDone' = TRUE
    /\ halted' = current /\ current' = 0
    /\ phase' = IF current = 0 THEN "closed" ELSE "halting"
    /\ UNCHANGED <<stored, policy, crons, fired, runMu, active, scan, put>>

StopHalt ==
    /\ phase = "halting"
    /\ SetCron(halted, "stopped")
    /\ phase' = "waiting"
    /\ UNCHANGED <<ctxDone, halted, stored, policy, current, fired, runMu, active, scan, put>>

\* Mutant: Stop returns without waiting for stopCtx.
StopAtOnce ==
    /\ phase = "waiting"
    /\ phase' \in {"closed", "timedOut"}
    /\ UNCHANGED <<ctxDone, halted, stored, policy, current, crons, fired, runMu, active, scan, put>>

\* Stop returns once the instance's jobs have, or after ten seconds; then the
\* database is closed.
StopWait ==
    /\ phase = "waiting"
    /\ \/ /\ fired[halted] = 0 /\ JobsOf(halted) = {}
          /\ phase' = "closed"
       \/ phase' = "timedOut"
    /\ UNCHANGED <<ctxDone, halted, stored, policy, current, crons, fired, runMu, active, scan, put>>

-----------------------------------------------------------------------------
Controller ==
    \/ StartLoad \/ StartCron \/ StartAssign
    \/ StopTake \/ StopHalt \/ StopWait
    \/ \E a \in Admins : UpdateStore(a) \/ UpdateStart(a) \/ UpdateSwap(a) \/ UpdateStop(a)
    \/ \E i \in Instances : RunJob(i)
    \/ \E s \in Scans : ScanEnter(s) \/ ScanUnlock(s)

Next ==
    \/ Controller
    \/ Shutdown
    \/ \E a \in Admins, p \in Policies : Update(a, p)
    \/ \E i \in Instances : Fire(i)
    \/ \E s \in Scans : RunNow(s) \/ ScanLeave(s)

Spec == Init /\ [][Next]_vars

\* RunRenewalScan makes a channel of MaxConcurrency slots its semaphore: for
\* the zero policy every renewal waits until the context is cancelled.
RunnerReturns(s) == ScanLeave(s) /\ (scan[s].policy # NoPolicy \/ ctxDone)

\* Goroutines run on, and a scan that can get a slot ends: every renewal is
\* bounded by its command timeouts.  Nobody has to send a request, a cron entry
\* need not fire and the process need not be stopped.
Fairness ==
    /\ WF_vars(StartLoad) /\ WF_vars(StartCron) /\ WF_vars(StartAssign)
    /\ WF_vars(StopTake) /\ WF_vars(StopHalt) /\ WF_vars(StopWait)
    /\ \A a \in Admins : WF_vars(UpdateStore(a) \/ UpdateStart(a) \/ UpdateSwap(a) \/ UpdateStop(a))
    /\ \A i \in Instances : WF_vars(RunJob(i))
    /\ \A s \in Scans : WF_vars(ScanEnter(s) \/ ScanUnlock(s)) /\ WF_vars(RunnerReturns(s))
FairSpec == Spec /\ Fairness

-----------------------------------------------------------------------------
(* Correctness properties *)

\* The state keeps its types; only policies Validate accepts are ever saved,
\* held in memory or given a cron instance.
TypeOK ==
    /\ phase \in Phases /\ ctxDone \in BOOLEAN
    /\ stored \in Valid
    /\ policy \in Valid \cup {NoPolicy}
    /\ current \in 0..MaxCrons /\ halted \in 0..MaxCrons
    /\ crons \in [Instances -> Cron]
    /\ fired \in [Instances -> 0..MaxFired]
    /\ runMu \in BOOLEAN /\ active \in Nat
    /\ scan \in [Scans -> Scan] /\ put \in [Admins -> Put]

\* Scans never overlap, however many cron instances, late job goroutines and
\* RunNow requests there are, and runMu is locked exactly while one runs.
ScansExclusive ==
    /\ \A s, t \in Scanning : s = t
    /\ runMu <=> Scanning # {}

\* README 10: the new schedule is started before the old one is stopped and a
\* failed save leaves the old one at work, so that at no moment between Start
\* and Stop is the application without a started schedule.
ScheduleNeverStops == phase = "serving" => current # 0 /\ current \in Started

\* When no Update is under way, the current instance is the only one that may
\* still fire, and it was built for the policy the API shows: concurrent
\* Updates never leave a second schedule behind.
NoOrphanSchedule ==
    phase \in {"serving", "draining"} /\ Updating = {} =>
        Started = {current} /\ crons[current].policy = policy

\* When Stop reports success, no job of the instance it stopped is left.
StopWaitsForItsJobs ==
    phase = "closed" /\ halted # 0 => fired[halted] = 0 /\ JobsOf(halted) = {}

\* A scan under a policy with a positive MaxConcurrency ends and lets the next
\* one in.
ScanEnds ==
    \A s \in Scans : (scan[s].pc = "run" /\ scan[s].policy # NoPolicy) ~> ~runMu

-----------------------------------------------------------------------------
(* What the documents promise and the code does not keep *)

\* docs/deployment.md: a saved policy takes effect without a restart.  Two
\* concurrent Updates may save in one order and become current in the other.
SavedIsInEffect == phase = "serving" /\ Updating = {} => policy = stored
=============================================================================
