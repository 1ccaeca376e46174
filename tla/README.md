# CertMate in TLA+

CertMate (this repository) issues, renews and revokes TLS certificates, publishes them as files
that other services mount, and keeps its records in SQLite. This directory models the parts of it
where requests, background scans, failures and restarts meet, checks them with TLC on small
instances, and proves all of the invariants and action properties that TLC checks, and two
refinements of abstract specifications, with TLAPS for every instance.

## 1. The system

| Part | Source | State it keeps | Operations |
|---|---|---|---|
| Certificate service | `internal/certificate/service.go` | one mutex per certificate id in `Service.locks` | Create, Issue, Renew, force renew, Revoke, Delete, Update, RunRenewalScan |
| Store | `internal/store/sqlite/store.go`, `migrations/` | tables `certificates`, `job_runs`, `audit_events`, `renewal_policies`, `dns_credentials` | one statement or transaction per call |
| Publisher | `internal/certificate/files/publisher.go` | directories below the certificate root and `/data/backups` | Publish, Backup, Remove, Read |
| Scheduler | `internal/scheduler/controller.go` | current cron instance, policy, `runMu`, last result | Start, Update, RunNow, Stop, the cron entry |
| Application | `internal/app/app.go` | life cycle | start-up with recovery, Run, shutdown |
| Engines | `internal/certificate/acmesh`, `selfsigned` | the acme.sh home directory | Issue, Renew, Revoke: external commands with a timeout |
| Authentication | `internal/auth` | login limiter, sessions in cookies | login, logout, re-authentication |
| DNS credentials | `internal/credential` | table `dns_credentials` | Create, Update, Rename, Delete, Resolve |
| HTTP API | `internal/httpapi` | none | decode, call a service, encode |
| Web interface | `web/src/` | query cache, CSRF token, route, the state of the page that is mounted | sign in and out, create, operate on certificates, files and keys, credentials, renewal policy |
| Scripts | `scripts/`, `cmd/setup-helper` | none at run time | deployment |

How they interact. Every HTTP request runs in a goroutine of its own and calls the certificate
service directly. The scheduler's cron instance starts scans in further goroutines, and a scan
starts one goroutine per due certificate; these call `Renew` like a request does. All of them share
the database, the directories and the mutexes. There is no transaction around a handler: it is a
sequence of calls, each of which may fail, and its context may be cancelled between any two.

What is hard here, and what makes each part correct:

* *Certificate service.* Handlers interleave between any two calls; the status is read before the
  mutex is taken; Create takes no mutex at all; Delete takes the mutex out of the map. Correct
  means: handlers of one certificate exclude each other, no mutex leaks, what the row says matches
  what is on disk, jobs end and history is kept, also after failures and restarts.
* *Publisher.* Several file system calls make one publication, any may fail, the process may die
  between them. Correct means: the published version is never lost and never mixed with another.
* *Scheduler.* Updates, entries of old and new cron instances, RunNow and Stop run concurrently.
  Correct means: one scan at a time, always exactly one schedule at work, and a clean stop.
* *Renewal scan.* A semaphore, retries, cancellation and a snapshot of the certificates that goes
  stale. Correct means: the limit holds, the scan ends, failures are reported and retried.
* *ACME engine and DNS credentials.* A certificate is issued by two acme.sh commands over a home
  directory that all certificates share and that is keyed by domain; a command may have succeeded
  at the CA although it failed here; credentials change and go at any time. Correct means: a
  certificate shows what was issued for it, a revocation revokes what is shown, references to
  credentials stay valid.
* *Authentication.* The limiter's critical sections interleave with password comparisons, windows
  and locks end at exact instants, and sessions live in cookies of which copies travel with
  requests and answers. Correct means: locks hold and are earned, protected operations need the
  password in the same session, sessions end.
* *Web interface.* Everything it does is a request whose answer comes later: after the page that
  asked is gone, after another answer, after the dialog was opened again for something else. The
  query cache and the cookie are two records of one session; the form repeats the service's rules in
  another language; one dialog serves many credentials. Correct means: pages are shown to a browser
  with a session and to no other, what is shown belongs to its title, passwords go with their
  dialogs, keys do not stay on the screen, and what would be sent is what is shown.

The hazards this leads to are listed with their source lines in `PROJECT.json` (`hazards`).

## 2. Modules

| Module | Models | Checked by |
|---|---|---|
| `CertificateService` | the handlers of the service over tables, directories and mutexes, one action per call | `MCCertificateService`, `MCCertificateStarts`, `Certs*.cfg` |
| `CertificateLifecycle` | abstract: what an administrator may rely on about the rows of table `certificates` | refined by `CertificateService` |
| `CertificateServiceProofs` | theorems about the service: types and mutexes | TLAPS |
| `CertificateRecordProofs` | jobs, history and settings, rows and disk, the refinement; builds on the module before | TLAPS |
| `Publisher` | one directory at the granularity of file system calls, and the archive download | `MCPublisher`, `Publisher*.cfg` |
| `PublisherProofs` | theorems about `Publisher`, and the refinement | TLAPS |
| `PublishedDirectory` | abstract: what a service that mounts the directory may rely on | refined by `Publisher` |
| `Scheduler` | the controller with start-up and shutdown around it | `MCScheduler`, `Scheduler*.cfg` |
| `RenewalScan` | `RunRenewalScan` beside administrators | `MCRenewalScan`, `Scan*.cfg` |
| `SchedulerProofs`, `RenewalScanProofs` | theorems about the two | TLAPS |
| `Credentials` | the table `dns_credentials` and the column that refers to it | through `AcmeEngine` |
| `AcmeEngine` | the acme.sh commands over their shared home directory, on top of `Credentials` | `MCAcmeEngine`, `AcmeSafety.cfg` |
| `AcmeEngineProofs` | theorems about the two | TLAPS |
| `LoginLimiter` | Allow, Failure and Success with the comparison between them | through `Sessions` |
| `Sessions` | login, re-authentication and logout over a cookie, on top of `LoginLimiter` | `MCSessions`, `SessionsSafety.cfg` |
| `SessionsProofs` | theorems about the two | TLAPS |
| `WebApp` | the shell of the web interface: queries `meta` and `current-user`, redirects, sign-in, sign-out, CSRF token | through `WebInterface` |
| `Domains` | the rules on names, of `validation.ts` and of `validation.go` | through `CreatePage` |
| `CreatePage` | the form of a new certificate over its schema, beside the checks of service and engine | through `WebInterface` |
| `CertificateFiles`, `CertificatePage` | the tab of the files, and the page of a certificate around it | through `WebInterface` |
| `CredentialsPage`, `PolicyPage` | the dialogs of DNS credentials; the editor of the renewal policy | through `WebInterface` |
| `WebInterface` | the composition: the shell and the page that its route mounts | `MCWebInterface`, `Web*.cfg` |
| `WebInterfaceProofs` | theorems about the shell and all pages | TLAPS |

The modules overlap where one level needs what another details: `CertificateService` treats a
directory as one value in three steps (backup, move aside, swap), `Publisher` splits these into
files; `Scheduler` treats a scan as a step that returns, `RenewalScan` opens it up; `RenewalScan`
reduces a renewal to reading the row, TryLock with the check, SetCertificateStatus, CreateJob, and the
engine with its outcome, `CertificateService` has every call. `AcmeEngine` reduces the handlers in the same way and opens up
the engine, which the others treat as a call that succeeds or fails.

### CertificateService and CertificateLifecycle

`Requests` is a set of slots; `op[p]` is the handler in slot `p`: `pc` names the call it makes next
and the other fields are the Go function's local variables that matter (`seen` is `value.Status` as
`Get` returned it, `gen` the mutex `LoadOrStore` returned, `stash` the directory moved aside). The
tables are `life`/`row` (certificates), `jobs` and `audit`; `disk` and `backups` are the file
system; `lockGen` and `locked` are `Service.locks` (a new generation stands for a fresh mutex after
`locks.Delete`). A handler execution has a number, which also stands for the id of the job and the
serial number of the certificate it creates, since it creates at most one of each.

`Create`, `Renew`, `Issue`, `Revoke`, `Delete` and `Update` are the first calls of the handlers;
`Get`, `LoadOrStore`, `TryLock`, `Check`, `SetBusy`, `CreateJob`, `Engine`, `Publish`, `MoveAside`,
`Swap`, `MarkDone`, `FinishDone`, `AuditDone`, and the failure and revocation and deletion paths are
one call each. Failures come from `Faults`: a failing statement (`db`), a failing engine
(`engine`), a failing file system call (`io`), a failing rename back (`restore`), and a killed
process (`crash`, the action `Restart`, which includes `MarkInterruptedJobs`). Errors the code
ignores (`_ =`) are ignored by the actions.

Left out: the validation at the beginning of Create and Update, which changes nothing when it
fails; the check of the names in `issueExistingCertificate` (service.go:328), which has no effect
either and refuses nothing that Create accepted; the contents of rows that no operation here depends on; statuses `pending`, `expiring`,
`expired` and `disabled` are in the type but no statement of the code writes them.

`CertificateLifecycle` keeps only the rows and who issues each certificate: no calls, jobs, files or
mutexes. Its actions are a new certificate, the start of an issue or renewal, its success, its
failure, its outcome that could not be recorded (`LoseOutcome`, only where statements may fail), a
revocation, a change of the settings, a deletion and a crash. The refinement mapping takes the
tables as they are and `issuing[c]`, the executions that are between the statement that made the row
busy and the final UPDATE (`OwnsBusy`). What it says is in its guards: an issue, a renewal or a
revocation needs a row that nobody issues (`Quiet`); only what was issued is renewed or revoked, and only
an ACME certificate is revoked; a success sets the serial number of the one execution in charge; a
deletion may meet a create, but no renewal.

### Publisher and PublishedDirectory

A directory maps each file to the version it comes from or to `Missing`. `Publish` stages the
files (`WriteFile`), looks for an old directory (`Lstat`), copies it (`CopyFile`, `CopyDone`), moves
it aside (`MoveAside`) and renames the new one into place (`Rename`, `Restore`, `DropPrev`);
`Delete` is Backup followed by Remove. `Crash` leaves what was being made as litter: the code never
looks for stage or previous directories again. `os.Rename` onto an existing directory fails, as it
does in Go. The `.renewed` marker and the permission and symlink checks are left out.

`PublishedDirectory` has two variables, what the directory shows and which versions are in the
backups. The refinement mapping (`Directory` in `Publisher`) reads them off `target` and `backups`.

### Scheduler

`phase` follows `app.New` and `App.Run`. A cron instance (robfig/cron, external) is built, started
and stopped; a started one with an enabled policy may launch goroutines (`Fire`) that then race for
`runMu` (`RunJob`) with `RunNow`. `Update` is cut at its calls: build, save, start, swap under the
lock, stop. `lastRun` and `lastError`, which only Status shows, are left out. Policies are model values; `Validate` and the cron expression are abstracted to the set
`Valid`. `Drains` says whether `server.Shutdown` waited for all requests. `Stop` cancels and takes
the instance in one action: nothing between the two can tell them apart.

### RenewalScan

`worker[c]` is the goroutine of the running scan for certificate `c`. Administrators issue, revoke,
delete and configure certificates at any time, and time makes them due; `due` stands for
`AutoRenewEnabled` together with a `NotAfter` inside the window, so both Update and time change it. The context may be
cancelled at any time; statements under it then fail. With `StatementsFail` they may also fail on
their own. A row that is deleted after `Get` lets SetCertificateStatus update nothing and CreateJob
fail on its foreign key; when CreateJob fails for another reason the row stays `renewing`.

### Credentials and AcmeEngine

`cred[k]` is a row of `dns_credentials`, `ref[c]` the column `dns_credential_id`; `Rename` is a read
and a write in separate actions, everything else one statement. `AcmeEngine` extends it:
`home[x]` is what acme.sh has filed under a primary domain and kind of key (`Slot`), `issuedFor`
and `revoked` are the CA's side. `Get` reads a row without the mutex, so that `seen[c]` may be out
of date when `Begin` or `Revoke` starts; one such late request per certificate is modelled. A
handler then goes through `Resolve`, `Insert` (Create only), `Command` (`--issue` or `--renew`),
`Install` (`--install-cert`) and `Publish`, or to `Fail`. A command that fails or is killed may have
changed the home directory and the CA all the same. acme.sh and the CA are external; jobs, audit events and files are left to
`CertificateService`.

### LoginLimiter and Sessions

`states` is the limiter's Go map, with its keys as domain. `Allow`, `Failure` and `Success` are one
action each, as each holds the limiter's mutex throughout; an attempt waits in between. A refused
attempt changes nothing and is no action. `counted` is an auxiliary record of the failures, which
forgets those no property asks for. `Sessions` has one browser: `jar` is its cookie, `call[r]` a
request with the copy of the cookie it was sent with, later the answer. The number of the login in
a cookie is auxiliary. `Restart` empties the limiter and ends all requests; cookies outlive it.

### WebApp and WebInterface

One browser tab. `user` is the query `current-user` as TanStack Query keeps it: its data, its error
and the answer that is under way, which was decided by the cookie when the request was sent
(`session`). `Mount` fetches again unless a fetch is under way; `setQueryData` does not cancel one;
the `onSuccess` of a mutation runs although its component is gone. These facts about the library are
external. `LoginRoute` and `AuthenticatedArea` are the redirects of the two components, which take
effect before the next answer is handled. `csrfToken` is the module variable of `api.ts`, which
outlives its cookie (`stale`). `home` stands for the dashboard, the lists and the other pages that
only read.

`WebInterface` composes the shell with the pages. A page's state begins anew when its route is left
(`Unmount`). The mutations that create and delete a certificate outlive their page and navigate when
they succeed; when a create succeeds while the page of another certificate is mounted, React Router
changes its id without mounting it anew (`Retarget`): queries change, dialogs and passwords stay.
Which certificate an id names is not distinguished.

A request that the server refuses (no session, no good token) leaves only a message and is not kept
as pending; one that it accepts may still fail.

### Domains and CreatePage

A name is a sequence of labels and whether it was typed in capitals. `FindRedundantACMEDomain` and
`WildcardCoversDomain` are the form's rules, `Normalizes`, `ValidateACMEDomains` and `ServiceCovers`
the service's; spaces, lengths and characters are left out. The form keeps the fields that a check
looks at: kind, names, days, method, and of each other text who takes it: the form, the server, both or
neither (`Texts`), since the two have rules of their own, such as an `@` against `mail.ParseAddress`. On the server's
side `AcceptsACME` and `AcceptsSelfSigned` are the checks of the service before its first effect, and
`EngineAccepts` those of `issueArguments`, which run after the row and the job exist; `KnownDifference` lists
the requests in which form and server differ. The constraints of the tables (a directory
that is taken, a credential that is gone under HTTP-01) are no checks of a request and left out. `Issues` is the schema with
zod's rule that `superRefine` does not run while a field has not even its type, which is the case
for a number that was cleared (`NaN`).

### CertificateFiles and CertificatePage

`files` is the query that page and tab share, `viewer` the component's state with the requests under
way, `certificate` the page with its tab, dialog, passwords and operation. `CloseDialog` is the close
function of the code, called by the user and by late answers alike. A forced renewal is two
requests, of which the first re-authenticates. The other tabs only read, but for the settings, whose
update is one of the `Operations`; what is typed there is left out, as are the tick to delete the
files too, the clipboard and the audit of a copy.

### CredentialsPage and PolicyPage

`credentials.values` records for which credential, provider and source the values in the dialog were
entered. In `PolicyPage` a cron expression is one of the presets, a daily one with its numbers and
whether one is written with a leading zero, or another; `PresetFor`, `DailyTimeFor` and
`CronForDailyTime` are the conversions of the code, with the regular expression that accepts a
leading zero in the hour but not in the minute, and `Number('')`, which is 0.

## 3. Runs

All bounds are in the `.cfg` files. `CHECK_DEADLOCK FALSE` is set for all but the web interface because the behaviours
are bounded: when the executions, versions or cron instances are used up, nothing is left to do.

| Run | Shows |
|---|---|
| `certs_faults` | Three handlers on one certificate, from two starts (`StartsSpec`): `LockExclusive`, `LockHeldByHandler`, `ActiveMatchesDisk`, `FailedJobPublishedNothing`, `HistoryKept`. From the empty system there are all faults, and the create is one of the three executions. From a certificate that run 1 has issued there are three more: a second mutex that is held beside another holder needs a delete and two late handlers, one with the old mutex and one with a new one, which the run reaches. There file system calls do not fail and the process does not crash: the former would end a handler as a failing engine does, the latter frees all mutexes. |
| `certs_restart` | A working database, failing engines and files, crashes: a failed renewal keeps the previous files (`SettledMatchesDisk`), no job is listed as running without a handler, every job ends, the rows change only as `CertificateLifecycle` allows (`ImplementsLifecycle`; a renewal does not undo a settings change, for instance), no handler returns before its certificate has a final status (`BusySettled`). |
| `scheduler_safety` | Two updates, cron entries, RunNow, a shutdown that may not drain: `ScansExclusive`, `ScheduleNeverStops`, `NoOrphanSchedule`, `StopWaitsForItsJobs`, and `ScanEnds`. Three instances are the installed one and one for each of two concurrent requests. |
| `publisher_crash` | `PublishedSurvives`, `BackupsWhole`, `FailedPublishKeepsTarget` and the refinement of `PublishedDirectory`, with all faults and a concurrent reader; three versions, so that a version is replaced, lost track of and replaced again. |
| `scan_safety` | `ConcurrencyBounded`, `RenewsWhatIsShown`, `FailuresReported` and `ScanReturns` for two certificates that compete for one slot, with one retry and failing statements. |
| `acme_safety` | An ECC and an RSA certificate for one domain, three certificates issued by the CA (so that one is replaced and another filed without a record), a credential that is created, renamed and deleted meanwhile: `ReferencesExist`, `OwnDomains`, `RevokesWhatIsShown`. |
| `sessions_safety` | Two attempts under two keys with room for one, two failures lock; two logins and one request of the browser under way, so that the answer to a request of the first session may arrive in the second: `LockoutHolds`, `LockEarned`, `PasswordInSession`, `SessionEnds`. Four units of time let every window, lock and session run out. |
| `web_pages` | All pages in one tab. The session and the cache agree once nothing is under way (`SettledAgrees`), also after answers in the wrong order; who has a session does not stay on the login page (`SignInShown`); `ContentMatchesTitle` and `KeyHiddenInTime` for files and keys; `PasswordsNeedDialog`; `ValuesMatchForm` for credentials; `PresetMatchesCron` for the policy. From a second start, a tab that is signed in and fills in the form only: `FormAgreesWithService`, that the form takes exactly the requests that service and engine take, outside `KnownDifference`. Without any one of the differences the bounds reach (all but the number of names) it does not hold. |

The bounds of the form in `web_pages`: a wildcard, a name below it in capitals and one two levels below,
with up to one SAN, which is what a redundant pair and its opposite need; days on both sides of each limit
(90, 365, 3650 and the validity), 1 and a cleared field; the texts of the address and the credential,
which stand for those of the other fields (of which the CA may also be taken by the server alone). Beside the other pages the
form is a small one (`SmallForm`). The bounds of the pages: one public file and the key, two
requests under way in the tab of the files; two statuses, so that buttons come and go; two
credentials of different providers and sources; two hours and two minutes, among them the preset's
and the default time. Bounds in the guards: a page is at work while the shell waits for nothing and
has read its user without error (`On`); the sign-out is pressed on the first page; one create, one
delete and one operation of a certificate's page are under way at a time, and none of the page
together with the tab of the files. Within these, every answer comes at any time, fails or never comes.

`AutoRenewChoices` limits what Create and Update may set: only `certs_restart`, which checks
`ImplementsLifecycle`, needs both values.

Symmetry is used for request slots (`certs_faults`, `sessions_safety`) and for versions, files and workers
(`publisher_crash`): no property of these runs is a liveness property.

Four runs end in a violation: what a document or a test of the repository says is not what the code does.

| Run | Behaviour |
|---|---|
| `certs_revoked` | A re-issue reads `active`, a revocation finishes, the re-issue takes the mutex and issues the revoked certificate again: the status is not read again under the mutex. |
| `certs_delete` | Delete with files backs up nothing, Create publishes, Delete removes the files: Create holds no mutex. Two certificates may use the directory one after the other. |
| `scheduler_saved` | Two updates save in one order and become current in the other: the saved policy is not in effect. |
| `scan_retry` | A failed renewal sets `failed`, which `renewAllowed` refuses: the retries never reach the engine, also when no statement fails. |

Two more disagreements are behaviours of the models whose properties no run lists, as they do not
hold. `RedundantStopsAtDomains` (`CreatePage`): when a number is cleared for a self-signed
certificate and the kind is then changed to ACME, a name that a wildcard covers passes the step of
the domains, as the schema's cross-field checks do not run while any number is cleared; the
submission then fails on a field that is not shown (as it does for a number left out of range). `Features.test.tsx` says such names are refused
on that step. `ArchiveWhole` (`Publisher`): an archive that is read
while a renewal replaces the directory has files of two versions.

### Fairness

`CertificateService!FairSpec`: each handler that has started goes on. Statements return within the
busy timeout, engines within the command timeout, file system calls return. No request has to be
made and no crash has to happen.
`Scheduler!FairSpec`: goroutines run on; the runner returns if its policy gives the semaphore a slot
or the context is cancelled. No request, cron entry or shutdown is forced.
`RenewalScan!FairSpec`: each goroutine of the scan goes on, which includes its timers. A goroutine
takes a slot once per scan, so weak fairness suffices for the semaphore.
`WebInterface!Spec`: the answers to `meta`, `current-user`, login and sign-out arrive or fail, as
`fetch` settles; redirects are rendered; the timer of a shown key fires. No user owes anything, and
the answers to the pages' other requests may never come.

## 4. Proofs

Every theorem holds for all values of the constants; the only assumptions are the `ASSUME`s of the
modules, which say that the constants have their types and which TLC evaluates in every run, and the
hypotheses named below. Each invariant was made inductive first: TLC checked the strengthening on
the bounds of the run before it was proved. A proof module defines what a step does to the handler,
goroutine or page that takes it (`...Moves`, `...Step`, one lemma per action), and then shows that
each part of the invariant is kept by steps of that kind.

### Certificate service

* `TypeCorrect` (`CertificateServiceProofs`): `Spec => [](TypeOK /\ KindInv)`. `KindInv` says which
  kind of handler may wait at which call; every later proof needs it to know, for instance, that a
  handler at `markDone` issues.
* `LocksCorrect` and `MutexReleased`: `LockExclusive` is not inductive, as two handlers may hold
  different mutexes for one id. `LockInv` adds that who is past TryLock holds the mutex it loaded
  (`HoldsMutex`), alone (`HoldsAlone`), and that a second mutex can exist only after the row was
  deleted (`NewMutexOnlyAfterDelete`), which is why the race around `locks.Delete` is harmless.
* `FailureLeavesNothing` and `HistoryIsKept` (`CertificateRecordProofs`, as all that follow). A failed job's serial number
  is on no disk, row or backup because it was nowhere before the rename (`UnpublishedNowhere`), a
  handler fails its job only before that, and no serial number is used twice (`RunsDistinct`,
  `RunsFresh`). `JobOfHandler` ties a job to the calls between CreateJob and FinishJob.
* `SettingsAreKept`: an action property (`SettingsKept`) that no run lists, as
  `ImplementsLifecycle` says more; every UPDATE is followed to the columns it writes.
* `RunningJobsOwned` and `BusyIsSettled`, for `"db" \notin Faults`: when FinishJob or the UPDATE of
  the status fails, the code leaves a running job or a busy certificate behind.
* `ActiveIsPublished`. `DiskInv` adds why nobody disturbs a handler between
  publishing and writing the row: locking handlers are kept apart by `LockInv`, and Create, which
  has no mutex, by the status it inserted (`CreatingIsIssuing`, `CreatingIsAlone`: every other
  handler on the certificate has read `issuing` and will be rejected, or is a delete or an update).
  `WritingIsBusy` and `PublishedIsThere` carry the serial number from the rename to the row.
* `SettledIsPublished`, for `"db"` and `"restore"` not in `Faults`, as the property's comment says.
  `SettleInv` follows the directory through a renewal: the previous files are in place until they
  are moved aside, and then in the handler's stash, from which a failure brings them back
  (`Prepared`). A busy row has a handler that issues, or was left by a crash; then whoever is still
  on the certificate has read the busy status and will be rejected (`Stale`).
* `LifecycleRefined`, without hypotheses: every call is mapped to a step of `CertificateLifecycle` or a
  stutter. `StepEffect` first reduces the 25 actions to six effects on rows and owners (`Passes`,
  `Takes`, `Records`, `Revokes`, `Adjusts`, `Removes`), and one lemma maps each (`TakesMeans` and its
  companions). That a row is quiet when somebody takes it, and that its owner is alone
  (`OwnersApart`), come from `LockInv` and `DiskInv`; that the number of an issue is unused, from the
  run numbers of `JobInv`. The handlers decide on a status they read before the mutex, so that the
  guards on the serial number need `LifeInv`: whoever has read a status that only an issued
  certificate shows may rely on its serial number, although the status may have changed since, for
  no statement clears a serial number or changes a mode (`SeenIssued`, `RenewalSeen`,
  `RevocationSeen`, `OnceIssued`); and a deletion meets only a create whose row has no serial number
  (`CreatingUnissued`). The status itself may have changed to `revoked`, which is the run `certs_revoked`:
  `CertificateLifecycle` lets a revoked certificate be issued again.

### Scheduler and renewal scan

* `ScansApart`, `ScheduleUninterrupted`, `NoScheduleLeftBehind`, `StopHasWaited` (`SchedulerProofs`),
  for any number of policies, requests and cron instances. The invariant is about ownership: an
  instance that is started is the current one, or in the hands of exactly one Update, which built or
  replaced it, or of Stop (`StartedOwned`, `UpdatesOwn`, `UpdatesApart`, `NewIsNotOld`,
  `CurrentOwn`, `HaltedOwn`). `BuiltInOrder` makes the next instance a new one, `StartAlone`
  keeps Start apart from the requests. `ScansExclusive` is inductive beside the types;
  `StopWaitsForItsJobs` needs that the instance taken by Stop stays stopped.
* `EnginesBounded`, `RenewalsShown`, `NoFailureLost` (`RenewalScanProofs`). What is bounded
  inductively is the number of slots taken (`SlotsBounded`, with the cardinality theorems), which
  includes goroutines that sleep before a retry; `AttemptsCount` bounds the retry loop;
  `FailuresRecorded` is the report while the scan still runs. `RenewsWhatIsShown` needs that a mutex the
  scan took belongs to a goroutine between TryLock and Unlock (`LockOwned`), so that nobody else changes
  the status there, and that before CreateJob the row may still be gone (`BusyShown`).

### Publisher

`PublisherInv` says what a handler knows at each of its calls (`StageKnows` and its companions) and that
the directory shows one version, or what is left of one that was backed up (`TargetSound`); the
version published last is in place or in the backups (`LastKept`, stronger than `PublishedSurvives`).
`LastVersionSurvives`, `BackupsAreWhole` and `PublisherRefines` have the hypothesis
`[]Exclusive`: handlers of a directory run one at a time. That is `LockExclusive` of the certificate service for
all handlers with a mutex; where Create meets Delete the code does not ensure it, as the run
`certs_delete` shows. The run has one slot, for which `Exclusive` always holds (`OneSlotExclusive`).
`FailureKeepsTarget` has the hypothesis `OneSlot`, since it compares the directory with what a call that
has ended had found there, and a later handler may change it.
`PublisherRefines` maps every step to a step of `PublishedDirectory` or a stutter, under the
mapping `Directory` of `Publisher`: a backup that is complete is `Keep`, the two renames are `Withdraw`
and `Show`, the rename back is `Show`, the first file removed and the directory removed are
`StartRemoval` and `FinishRemoval`; all other calls, failures and crashes show nothing new.

### ACME engine and credentials

`AcmeInv` (`AcmeEngineProofs`) has three parts. `ReferencesExist` is kept by Insert because the
foreign key is checked by the same statement, and by RenameWrite because what it writes back is a
live row (`RenameLive`). The CA's serial numbers are given out without a gap (`Contiguous`), so that the next
one was never used: a command cannot change whose domains an earlier certificate was issued for.
And for each certificate (`Good`): a handler that issues finds the row busy or deleted (`BusyRow`),
so that what is filed changes only while no active record shows something else; whoever installs
or revokes finds something filed (`Filed`); and for a certificate that is alone under its domain and
kind of key, what is filed, shown and about to be shown was issued for it, and an active record shows
what is filed (`Own`). `NoDeadReference`, `DomainsAreOwn` and the action property `RevocationIsShown` follow.

### Login limiter and sessions

`SessionsProofs`, for any keys, any number of attempts and requests, and any lengths of window,
lockout and sessions; `Keys` is not empty, since a request always has a key.

* `LockoutAlways` and `LockAlwaysEarned`. `counted` records failures by time, and `Recorded` is a set
  with one element per failure, so that the proof compares cardinalities. For each key with an entry
  (`Entry`): its list is in the order of time (`Ordered`), has every failure since the last lock that a
  lockout may have to answer for (`NoneMissing`), has no other (`NoneInvented`), and a lock that lasts has
  enough failures behind it (`LockCause`). A key that Allow or prune has dropped has nothing to
  answer for any more (`Forgotten`), which is what makes dropping it harmless; `NoneAhead` says that no
  failure is in the future.
* `TypesKept`: with the limit on the number of keys, through prune and the refusal of a new key.
* `PasswordAlwaysInSession` and `SessionsEnd`, action properties. Copies of cookies travel with requests
  and answers in any order; `CookiesTrue` says of each copy that its times are those of its own login
  and of a password given in that session, `LoginsInOrder` that a new login has a number of its own.

### Web interface

`WebInv` (`WebInterfaceProofs`) is the conjunction of one invariant per page and one of the shell.
The pages' invariants are inductive with their types (`ViewerTrue`, `PasswordsCleared`,
`ValuesBelong`, `EditorTrue`); `EditorTrue` needs arithmetic on times only where a cleared field
counts as 0. `FormIsFaithful` is a theorem about the operators of `Domains` and `CreatePage`, for all names
and days and any number of SANs. That the two rules on wildcards agree (`RedundantSame`, `CoversSame`) and that
the limits on days coincide is proved; that a text is taken by both or by neither is a hypothesis of the
property, and what is shown is that both look at it under the same kind and method (`TextsAgree`). The attempt
to prove it found one of the differences: the form refuses a public certificate in whose form a wrong validity
was left before its kind was chosen.
`ShellAgrees` is the hard one. `ReadAgrees` is the property without waiting for what is under way,
but only while no redirect is due; a late answer to `current-user` may break it after a login or a
sign-out. `LateAnswer` says that an answer which is no longer true can only be the one that a
redirect will follow, which asks again; `AtLogin` is the side of the login page after that
redirect, `LeavesLogin` and `NothingSent` say what cannot be under way then.

### Only model-checked

Liveness (`JobsEnd`, `ScanEnds`, `ScanReturns`, `SignInShown`, `KeyHiddenInTime`): liveness under fairness and
ENABLED are beyond this prover. The four violations are counterexamples and need no proof.

## 5. Not modelled

Listed with reasons in `PROJECT.json` (`components`): the registry of DNS
providers and the encryption of credentials, configuration, routing and read-only queries, the
certificate parser, system information, the deployment scripts, and the pages of the web interface
that only read (dashboard, lists, jobs, audit, system information).

Some behaviours are in the models without a property, as no document says more than the code does:
a Rename that writes back the values an Update has just replaced; the answer to a
re-authentication that restores the cookie after a logout; in the web interface, a CSRF token that is
kept after its cookie has expired, a late create that changes the certificate under an open dialog,
a failed operation after which the page goes on showing the old status, and a policy editor that is
filled from the cache and not again by the answer. `OwnDomains` and `RevokesWhatIsShown`
speak about certificates that are alone under their primary domain and kind of key (`Alone`): two
RSA certificates for one domain share a place in the acme.sh home, and one can then publish what
was issued for the other.

## 6. Plan

Done, in this order: `CertificateService` with its proofs, `Scheduler`, `Publisher` with
`PublishedDirectory`, `RenewalScan`, `Credentials` with `AcmeEngine`, `LoginLimiter` with `Sessions`, the web
interface (`WebApp`, `Domains`, the pages and `WebInterface`), and `CertificateLifecycle`.

Proved, in this order: types, mutexes and published files of `CertificateService`, `Scheduler`,
`RenewalScan`, `Publisher` with its refinement, jobs, history and settings of `CertificateService`,
`WebInterface`, `AcmeEngine`, `Sessions` with `LoginLimiter`, and that `CertificateService` implements
`CertificateLifecycle`.

What would come next: the registry of DNS providers with the validation of their fields, and an
abstract specification of a session that `Sessions` implements.
