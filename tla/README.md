# A TLA+ model of Xalgorix

Xalgorix plans vulnerability assessments, runs external scanners against the targets of a plan and
reports what they found. A web server accepts scans, queues them, runs each in a session of its own
and keeps a record of every tool run on disk, so that a scan survives a pause, a crash or a restart.
Some assessments contain *approved writes*: state-changing requests which the operator allowed once
and which must never be repeated.

The models are about what has to hold across concurrency and failure. Every definition is
translated from the Go source under `src/internal`; `PROJECT.json` names its lines, lists the
components with what is left out of each, and lists the hazards of the code at the lines where they
bite.

## Parts of the system

| Part | State | What is hard | What makes it right |
| --- | --- | --- | --- |
| Write journal (`scanner/write_journal.go`, `storage/atomic.go`) and the API write adapter | a file of entries per assessment, a file lock, a copy in memory | two processes on one directory; crash and power loss between rename, directory sync and request; failed I/O | an approval is sent at most once; what was sent is durable; a resume needs settled writes |
| Scan queue, handlers, signals, restart (`web/orchestrator.go`, `queue_state.go`, `server.go`) | instance map, status and stop reason of each instance, one queue file per instance ID, wake-up channel, launching marks | handlers between any two steps, locks that do not exclude each other, crashes between saves | no target is lost, no scan runs twice, the ceiling holds, a stop is final, every run ends |
| Assessment executor, scan record, per-tool stop (`scanner/assessment_jobs.go`, `web/deterministic_scan.go`) | outcomes, inventory, the current attempt, the record | crash between the end of a tool and its verdict; stop requests in flight; leftovers of a session | only what was accepted counts as completed; prerequisites first; truncated output is not used |
| Retention (`web/retention.go`, start-up clean-up) | directories, records, ages | decisions on a snapshot while sessions write | only what was idle for the whole window goes |
| Planner and discovery revisions (`scanner/planner.go`, `discovery_revision.go`) | previews, approvals, revision files | the plan is built twice, the world changes in between | what starts is what was seen and approved |
| ZAP daemon service (`scanner/zap.go`) | lease, quarantine, daemon-global settings | lost answers, failed undo | nothing of one job is left for the next |
| Authentication (`web/assessment_auth.go`) | verified lines, sessions, a shared refresher | concurrent jobs, expiry, a login that ends another session | proven lines of the own identity, bounded logins |
| Form fuzzing and its gateway (`scanner/wapiti_post.go`, `recording_gateway.go`) | admitted and unanswered requests, the journal entry | requests in flight while the clean-up starts | the limit holds, nothing follows the clean-up |
| Server Action campaigns, boundary probes (`scanner/nextjs_*.go`) | the controlled resource, the cache, the journal | late requests of other attempts | a finding is true, a case is sent once |
| Scheduler (`web/scheduler.go`, `schedules.go`) | schedules in memory and on disk | crash between launch and save, stale snapshots | a one-time scan once per arming |
| Legacy pipeline, wildcard queue, OpenVAS (`scanner/pipeline.go`, `web/deterministic_scan.go`, `scanner/openvas.go`) | worker pool, host index, a task in gvmd | cancellation, resume, lost answers | each pair ends once, hosts are not skipped, no task is left unnoticed |
| Endpoint inventory (`scanner/attack_surface.go`) | endpoints, coverage, snapshot | merges of several sources over sessions and jobs | only what is confined is dispatched, coverage is earned |
| Record store (`storage`, credential vault) | a file and a Postgres row per record | two copies, faults, restarts with another store | what was written is served, what was deleted is gone |
| Scope and host guard (`assessment/scope.go`, `scanner/scopeguard.go`) | none | three matchers that must agree | no request outside the approved scope |
| Leases and scan ceiling (`resources/resources.go`) | counters, last reading | decisions on stale readings | limits hold |

A request to `/api/scan` starts a goroutine `runMultiScan`, which registers an instance, waits for a
slot and runs one session per target. A session loads the scan record and, for a typed assessment,
calls `RunAssessmentJobs`, whose events update the record and whose results replace it. The
executor hands approved writes to an adapter, which works through the write journal. Handlers act on
a run through its instance (status, context) and through its queue file; a restart knows nothing but
the queue files, the records and the journals.

## Modules

| Module | Models |
| --- | --- |
| `WriteJournal`, `ApprovedWrites` | the journal and the `apiwrites` adapter; what an observer at the target may see, implemented by the former |
| `ScanQueue` | `runMultiScan`, queue files, handlers, signals, restarts, auto-resume |
| `AssessmentJobs` | `RunAssessmentJobs` for one web target, the record, stop requests |
| `ScanData` | saved data over days: sessions, restarts, the sweep and the start-up clean-up |
| `DiscoveryRevisions` | preview, approval, revision file, gate of the start |
| `Planner` | `PlanAssessment`, the draft, preview and start |
| `ZapService` | runs on a shared ZAP daemon |
| `Scheduler`, `ScanPipeline`, `WildcardScan`, `Greenbone` | as their names say |
| `ScanProgress` | what the three of them that work through something promise together |
| `FormFuzz` | a fuzz campaign behind its gateway |
| `NextjsActions`, `NextjsBoundaries` | Server Action campaigns; cache, redirect and proxy probes |
| `ActiveTests` | what the tools that send approved writes promise together |
| `AuthSession` | verification of credentials and renewal of sessions |
| `EndpointInventory`, `RecordStore`, `Scope`, `HostResources` | the services of the table above |
| `MCWriteJournal`, `MCScanQueue`, `MCAssessmentJobs` | values of constants |
| `MCAssessment`, `MCComponents`, `MCServices` | disjoint sums of components, see below |
| `*Proofs` | theorems, see below |

A definition whose comment begins with "Mutant" or "Fault" is a broken variant of the definition
after it. No specification uses one; they show that a property notices the error.

**Sums.** Components that share no state are checked together as a disjoint sum: the first state
chooses one of them (`part`), only that one moves, and the others keep an initial state of which
nothing is asked. The state graph of the sum is the union of those of its parts. A component with
proofs is extended by the sum, so that the invariant TLC checks is the one the theorem names:
`AssessmentJobs`, `DiscoveryRevisions`, `Planner` and `ZapService` in `MCAssessment`; all of
`MCComponents`; all of `MCServices` but `Scope`, which is an instance. Where several are extended, their operators have
names of their own (`ZapInit`, `AuthNext`, `ScheduleTypeOK`).

### WriteJournal

An attempt is one execution of the assessment that reaches the write adapter. `visible` and `durable`
are the two images of each journal file: `Rename` (`storage.WriteAtomic`) changes the first, `Sync` (the
directory syncs at the end of `commitLocked`) the second, and `PowerLoss` falls back to either. `pc` is
the position in `RunAssessmentJobs` and in `apiWritesRunner.Run`; while it names a journal call, `io`
says how far the call has come. All journal calls share `refreshWithDiskLock`, `Rename`, `Sync` and
their failures, as the code does. `Gate` is the check of `UnresolvedWrites` at the start of a resume,
which reads the file without the lock. `sends` and `cleanups` are history: what reached the target.
`Expanded` tells the unified workflow, whose journal lies in the directory of the assessment, from the
older one, whose journal lies in the fresh directory of each attempt. `Prior` are attempt directories
with journals of earlier versions, which the unified workflow imports. Approvals are taken in any
order, and the checks of an approval are one refusal.

### ScanQueue

A run is one `runMultiScan` goroutine with its `ScanInstance`; a scan is what the user asked for, which
several runs serve one after the other, possibly under new instance IDs. Each atomic section of
`runMultiScan` is an action: registration, the first save, the admission loop (status check, slot check
under `instancesMu`, the status change, parking, waking), and for each target the status check, the
save, the new context, the session, the second status check and the second save; then the deferred exit
with its clean-up of the queue file, the pause mark in two steps and the wake-up of the next waiter.
`instancesMu` is held from the slot check to the status change, whereas a stop of one instance holds
only the lock of the instance. Handlers are atomic where all they do is under one lock; stop-all,
SIGTERM and resume are split in two, since a run can move between their halves.

A *setting* is a record chosen by the first state: the runs and IDs in use, which IDs are typed
assessments, targets per scan, the ceiling, the commands that may be given, and the number of crashes.
New runs and IDs are taken in a fixed order. `done`, `wish` and `late` are history: the targets
scanned, what the user last asked of a scan, sessions a stop came too early to cancel.
Left out: a failed save of a queue file, the resume of an instance without a queue file, starting and
restarting an instance (a new scan under a new ID), broadcasts and metrics.

### AssessmentJobs

A session is one call of `RunAssessmentJobs`; `plan` is chosen at the start and never changes. A plan has
jobs of three kinds (authentication, crawl, tool), dependencies that come first, selected jobs and jobs
with a named identity. `record` holds the latest run of each job and, under `Discovery`, of the crawl,
which is not the run of the crawl job: they have different scopes. `artifact` is the attempt whose
output lies in the crawl directory, `snapshot` the attempt the saved inventory was parsed from,
`surface` the one in memory. `appendOutcome` is part of the action that produces the outcome, with its
merge, save and possible checkpoint failure. A tool ends (`ToolEnds`) and is judged (`Judge`) in two
steps: between them a stop request, a pause or a crash may fall. The crawl writes its own entry when it ends,
and the executor judges it later, with or without authentication; `dismissed` and `died` are history:
the crawls whose verdict was not acceptance, and those whose session died before the verdict. `StopLookup` and `StopCancel` are the
two steps of the per-tool stop. `Return` replaces the record by the results; `Crash` leaves it as the
events built it. One web target and the unified workflow only; browser, API and ZAP discovery, the
contents of inventory and manifest, budget shares and the Next.js reconciliation are left out.

### The other components

What each keeps and leaves out is said at its head and in `PROJECT.json`. In short: `ScanData` lets the
sweep act on a snapshot of the active instances and decide record by record; `Scheduler` splits every
handler into look-up, change and save; `ScanPipeline` has the pool with its two gates and the walk over
host and scanner pairs; `FormFuzz` has the fuzzer, each request as a goroutine of the gateway, the
drain and the clean-up; `AuthSession` has a refresher for each identity, with its lock and budget; `ZapService` has the stack of
deferred calls; `Greenbone` repeats a call whose connection was lost, and gvmd may have served it;
`NextjsActions` and `NextjsBoundaries` let two attempts overlap over one journal and let requests arrive
late; `DiscoveryRevisions` and `Planner` let the world change between two reads; `EndpointInventory`
takes a free result from each source, and leaves open the order in which a dispatch takes endpoints up to
its limits, which in the code is that of a list; `RecordStore` lets each store fail at each step and names in `causes` what may excuse a stale copy; `Scope`
takes a path as it is written, since the gate cleans it and the tools do not; it and `HostResources` are functions compared with reference definitions over enumerated inputs, the latter
on readings that are out of date. Calls of the journal, which `WriteJournal` models in detail, are one
step that succeeds or fails elsewhere.

## Runs

Twelve runs, six of which pass. Deadlock is not checked, because each system may come to rest: all
attempts over, nothing queued, the plan worked off.

| Run | Instance | Shows |
| --- | --- | --- |
| `journal` | two overlapping attempts, two writes, one journal of an earlier version; fairness | `AtMostOnce`, `SentIsDurable`, `CleanupFollowsWrite`, `JournalIsHonest`, `ResumeNeedsSettledWrites`; the inductive `IInv`; refinement of `ApprovedWrites`; every attempt that begins ends |
| `queue_host` | four settings: `Crashing`, `Restarting`, `Signalled`, `Controlled` | `TypeOK`, `AdmissionCap`, `ScanIsAccounted`, `AtMostOneLateSession`, `NoOverlapOfQueues`, `QueuedKeepsFile` |
| `queue_stop` | two scans, one slot, stop-all; fairness | `StopIsTerminal`, `StopSticks`, `EveryRunEnds` |
| `assessment` | job executor, revisions, ZAP daemon, planner | `TypesOK`, `CompletedIsAccepted`, `PrerequisitesCompleted`, `CancelledForAReason`, `KilledCrawlDiscarded`, `ApprovalIsBinding`, `StartsClean`, `PlanIsHonoured` |
| `components` | scheduler, pipeline, fuzzing, wildcard queue, authentication, OpenVAS, Server Actions, boundary probes | `Types`, `ScheduleIsHonoured`, `FuzzIsAccounted`, `ProgressIsTracked`, `CredentialsAreEarned`, `ReportIsTrue`, `NothingHalts`, `SentInTurn` |
| `services` | saved data, inventory, record store, scope and guard, host resources | `Types`, `SweepNeedsIdle`, `DispatchIsHonest`, `RecordsAreKept`, `ScopeIsHonoured`, `LeasesAreHonoured`, `RefusalIsKept` |
| `journal_legacy_replay` | two attempts outside the unified workflow | violation of `AtMostOnce` |
| `queue_signal_loses_target` | one scan of two targets, SIGTERM | violation of `ScanKept` |
| `queue_stop_race` | one scan, stop of an instance | violation of `StopSticks` |
| `jobs_truncated_crawl` | the plan of a crawl and a tool | violation of `TruncatedNeverUsed` |
| `wildcard_resume` | two targets, interrupted runs | violation of `EveryTargetIsDiscovered` |
| `coverage_unearned` | two jobs of one scanner | violation of `CoverageIsEarned` |

Some properties join several of a component, so that each is one question: `ScanIsAccounted` is
`ScanKept` and `FinishedMeansDone`; `FuzzIsAccounted` is `ApprovalIsBounded` and `SettledIsComplete`;
`ScheduleIsHonoured` is `MarkIsDeserved` and `OncePerArming`; `PlanIsHonoured` is `PlanIsExecutable`
and `StartIsApproved`; `ProgressIsTracked` is `ResultsAreFinal` of the pipeline, `IndexIsEarned` of the
wildcard queue and `TaskIsTracked` of OpenVAS; `ReportIsTrue` is `FindingIsProven`, `BoundaryIsBroken` and
`ResetIsComplete`; `SentInTurn` is `NothingAfterCleanup`, `SentOnceOnReady` and `FilledOnceWhenCold`;
`DispatchIsHonest` is `DispatchIsConfined` and `EarnedUnlessTakenOver`; `RecordsAreKept` is `CopiesAgree`,
`FileIsComplete`, `ServedIsCurrent`, `RevisionNamesContent` and `DeletionIsFinal`, each with the causes that
excuse it, none of which can be left out. `NothingHalts` is `DueIsServed` of
the scheduler and `NeverStuck`, the safety form of the pool's progress: some step of a pipeline
session is always possible before its end.

### What the violations show

*A write outside the unified workflow is replayed.* The older workflow opens the journal in the
directory of the new attempt and looks for unresolved writes in the directory of the assessment, so a
resume finds neither the intent nor a reason to stop.

*SIGTERM can lose a target.* The signal handler cancels the session's context and changes the status
later. A run that gets in between sees an ended session and the status "running", saves the next
index and, after the last target, finishes and removes its queue file.

*A stop can be overwritten.* The admission loop tests and changes the status under `instancesMu`; the
stop of an instance changes it under the lock of the instance. A stop between the two is lost.

*The output of an interrupted crawl can be used.* With a crawl job in the plan the run of the crawl is
reported under the scope of the job. When a paused session returns, its results replace the record, and
the entry under the discovery scope that would tell the next session not to trust the output is gone.
`KilledCrawlDiscarded` states what does hold: this is the only way in.

*A resumed wildcard queue uses the wrong host list.* The list of the target it was interrupted at is
handed to all later targets, whose own hosts are never discovered.

*Coverage is credited to the wrong run.* A job marks endpoints as dispatched and fails before its
scanner starts; the next job of that scanner credits them to its own completed run.
`EarnedUnlessTakenOver` states what does hold.

### Properties the code does not keep

These are stated in the modules next to the weaker property that a passing run checks and, but for the
scope, a theorem proves. As an INVARIANT of the same instance TLC refutes each of them within a minute (the
scope's, an instance, as `part = "scope" => AppScope!NoToolRequestsExcluded`).

| Refuted | What happens | What holds |
| --- | --- | --- |
| `AssessmentJobs!DismissedNeverReused` | The crawler writes its entry as completed when it returns, the executor's verdict comes after the job was examined (`assessment_jobs.go:280-302`). A user stops the crawl, the process dies before the verdict, and the next session reuses the entry, although of an attempt that was "interrupted, cancelled or failed" the code says that it "can neither seed the inventory nor stand in for a completed crawl" (`assessment_jobs.go:245`). | `CompletedIsAccepted`: what is completed was accepted, or is a whole crawl without credentials once a session has died |
| `AuthSession!TargetWithinRenewals` | `maxSessionRenewals` "bounds how many fresh form logins one target may get per scan" (`assessment_auth.go:20`), but each identity has a refresher with its own counter (`assessment_auth_contexts.go:38-50`), so two form identities get twice as many. | `CredentialsAreEarned`: each identity stays within the limit |
| `Scope!NoToolRequestsExcluded` | The gate cleans the path of `https://a` to the root and finds it excluded by `/*`; the expressions of Katana (`katana.go:253`) and ZAP (`zap.go:150`) want a slash and admit it, although exclusions are "routes no tool may request" (`assessment/types.go:298`). | `TranslationsAgree`: every other plain path is fenced |
| `RecordStore!DeletedCredentialIsGone` | `dualBlobs.Delete` ignores that the file cannot be removed (`record_store.go:216`); with the row gone the deletion succeeds, and the next reader falls back to the file, which is meant to be "a complete, always-current copy" (`record_store.go:185`). | `DeletionIsFinal`: no copy is left unless the removal itself left it, or writers overlapped |
| `RecordStore!EveryReplaceCounts` | Two requests replace a credential at once, read the same revision and are both answered with success (`vault.go:211-219`), although "every Replace increments it" (`vault.go:37`). | `RevisionNamesContent`: without an overlap, and a process that writes over an older row, a revision has one content |

### Behaviour without a run

The models show more that no document of the repository denies, or that a property excludes by name.

- Queue: two resume requests for one paused instance launch it twice; resuming one scan by instance and
  by queue may drop a running instance from the map and exceed the ceiling; the late clean-up of an
  earlier run deletes the launching mark of the run that resumed it (`server.go:838`); a SIGTERM within
  the first seconds after a start marks as stopped what the delayed auto-resume then starts again; a
  panic inside a session counts as its end.
- Saved data: `initDataDir` removes old top-level directories although retention 0 is documented as
  "nothing is ever deleted automatically"; a pending resumed scan may be swept; the guard against
  deleting a live directory uses `scanDir` before it is set.
- Scheduler: saving a one-time schedule with a future date does not date it anew (`schedules.go:219`).
- Planner: a custom selection of amass plans it without subdomain discovery; sslyze as the TLS
  provider of a URL target leaves no TLS job; the TLS job of an HTTP-only target is dropped after
  coverage was computed; jobs of an identity do not depend on the crawl of the default context.
- Revisions: `handleScan` starts a revised assessment whatever the status of its parent.
- Journaled probes: after one journaled cache probe a resumed attempt refuses all of them; a
  cancellation after the fill skips the reset; a campaign attempt that stops between two campaigns is
  never continued.
- OpenVAS: when the answer of `start_task` is lost and the retry refused, nothing stops the task.
- Inventory: a readable replay turns any state that a failed read replaced into in-scope; an unresolved
  OpenAPI operation demotes a crawled endpoint; a default-context job overwrites coverage of a named
  one; an archived candidate stays refused when it is seen live later.
- Records: deleting a scan leaves its Postgres row; the file may be removed although the answer is 404; an unreachable Postgres serves
  what the files hold.
- Scope: exclusions with characters that URLs escape are matched unescaped by Katana and ZAP; a name
  with several addresses is judged at its first local one.
- Resources: the "below minimum" refusal of heavy tools can never fire; a ceiling from live memory counts
  running scans twice.
- ZAP: an untyped run only logs rate and rules it could not put back (`NothingIsReplayed` is false).

### Bounds

Two attempts are enough for every pair of steps of two processes and for a resume after a death, two
writes for one that is settled while another is open. A journal that an earlier version left may hold
any entries. For the queue, one slot and up to four runs give waiting, hand-over and resume under
a new ID; two targets give a first, a next and a last one; two crashes give the recovery and a crash
during it. For the jobs, two jobs give a prerequisite and its dependent, and two sessions one that is
interrupted and one that resumes. Saved data live for two days with a window of one. Revisions have
two approvals and one change of the planner's world, the planner three drafts, one edit and one change of
the host. Fuzzing has three requests for a limit of two and two attempts; campaigns two overlapping
attempts at two campaigns of two cases; boundary probes one of each kind and an origin that changes its
mind twice. Two identities, one with a form and a header and one with a form, and three jobs have two renewals each. The inventory sees two
sessions, eight identities of endpoints and two jobs; records three writes, one fault and three
processes; resources three hosts, four readings and three callers. The bounds on counters are `MaxCrashes`
(a field of the settings), `MaxSessions`, `MaxLost`, `MaxDays`, `MaxTime`, `MaxWorld`, `MaxStarts`,
`MaxRequests`, `MaxRuns`, `MaxExpiries`, `MaxAttempts`, `MaxApprovals`, `MaxEdits`, `MaxChanges`,
`MaxFlips`, `MaxWrites`, `MaxFaults`, `MaxInventories` and `MaxScans`.

### Fairness

`WriteJournal!FairSpec` assumes that a process which is alive takes its next step: the operating system
schedules it, and the calls it makes return or fail (requests and the budget have deadlines). Nothing is
assumed of beginnings and failures.

`ScanQueue!FairSpec` assumes the same of each run: goroutines are scheduled, and sessions end because
every tool has a timeout. Strong fairness of `CheckSlot` says that a run that finds a free slot again and
again is let in at last: a refused run asks again every few seconds, and a refusal with a free slot
comes from memory or disk pressure that the machine does not have for ever. In `components` the
scheduler's goroutine is weakly fair. Handlers, signals and crashes are never fair.

## Proofs

Theorems hold for every value of the constants that satisfies the assumptions; TLC evaluates each
assumption in a run. 43 theorems are listed in `PROJECT.json`, in eight modules.

| Module | Theorem | Says |
| --- | --- | --- |
| `WriteJournalProofs` | `TypeCorrect` | `Spec => []TypeOK`, in both workflows |
| | `Inductive` | `Spec => []IInv` in the unified workflow |
| | `NeverReplayed` | an approved write reaches the target at most once |
| | `SentSurvivesPowerLoss` | what reached the target is in the durable image |
| | `JournalNeverOverstates` | entries past "intent" are backed by the network |
| | `ResumeGate` | the resume gate needs settled writes, an action property |
| | `CleanupNeedsWrite` | no clean-up without a delivered write |
| | `ImplementsPromise` | `WriteJournal` implements `ApprovedWrites` |
| `ScanQueueProofs` | `QueueTypeOK` | types, and what each control point says of a run's fields |
| | `QueueLateSession` | a stop or pause misses at most one session of a run |
| | `QueueRegisteredCap` | registered running instances stay within the ceiling |
| | `QueueAdmissionCap` | all running runs do, in settings that are `Exclusive` |
| | `QueueStopSticks` | a stopped or deleted instance never runs again, without the stop of an instance |
| | `QueueIdentity` | a file, and what is loaded from it, keeps the scan of its ID |
| | `QueueProgress` | no file and no run is ahead of what was scanned |
| | `QueueAccounted` | no scan that is to run loses its queue, and finished means scanned |
| | `QueueNoOverlap` | where runs end by themselves, no scan is executed by two of them |
| | `QueueStopIsTerminal` | a stopped scan's file is removed by the run that wrote it, in settings where `ExitsClear` |
| `ScanQueueWaitingProofs` | `QueueWaitingKept` | a waiting scan keeps its file, in settings that are `Settled` |
| `AssessmentJobsProofs` | `TypeCorrect`, `CompletedWasAccepted`, `PrerequisitesHold`, `CancelledHasAReason`, `KilledCrawlIsDiscarded` | the invariants of the executor |
| `AssessmentPartsProofs` | `ApprovalsBind` | a stored or started revision is what a client approved |
| | `NothingIsLeftBehind` | no typed job leaves anything for the next |
| | `EveryLineIsEarned` | lines are proven and of the own identity; the logins of each identity are bounded |
| | `PlanHolds` | each plan can be gone through once; what is started was shown and allowed |
| `ActiveTestsProofs` | `FuzzConsistent` | adapter, gateway and journal agree |
| | `FuzzAccounted` | all attempts together stay within the approval; settled means complete |
| | `FuzzCleanupIsLast` | no POST follows the clean-up of its campaign, an action property |
| | `CampaignHolds` | attempts, journal and the controlled resource of a campaign agree |
| | `FillHolds` | probes, journal and the shared cache agree |
| | `ReportHolds` | a finding names a broken boundary, a settled entry a complete reset |
| | `SentInTurnHolds` | nothing is sent late or twice, an action property |
| `ServicesProofs` | `SweptWasIdle` | a sweep removes only what was idle for the whole window |
| | `LeasesHold` | leases and scans stay within the limits of the host, on readings of any age |
| | `RecordsHold` | what was answered with success is in the files and served, and what was deleted is in no copy, unless a cause named for each intervened |
| | `DispatchIsHonestHolds` | what is dispatched is confined; credit is earned, taken over or left behind |
| | `RefusalsStay` | a refusal stays unless a replay is kept, an action property |
| `ScansProofs` | `SchedulesAreHonoured` | a mark for review is deserved; a one-time schedule runs once per arming |
| | `QueueHolds`, `TrackingHolds`, `PipelineHolds` | the inductive invariants of the three below |
| | `ProgressHolds` | a saved index is earned, no Greenbone task runs unnoticed, no scanner runs twice |

**Assumptions.** `None`, `Missing`, `Absent` and the like are not elements of the sets they stand beside; `Plans` are well formed
(dependencies come first); `ScanQueueAssumption` makes runs and IDs finite and settings well typed;
`FormFuzzAssumption` makes requests finite and limits natural numbers; `CaseAssumption` and
`ProbeAssumption` say that there is a case and a probe; `AuthAssumption` gives every job an identity of the
target; `QueueAssumption` gives every target a list of hosts that begins with its root;
`PipelineAssumption` says that neither hosts nor scanners are named twice, as `dedupHosts`
(`recon.go`) sees to; `HostAssumption` gives a host a core and makes the callers finite; `InventoryAssumption` says what a
source can report of an identity, and that limits are positive; `PlannerAssumption`
gives every target a kind and says that the operator begins with drafts; `SelectionAssumption` says that dropping the repetitions of a list loses
nothing, a fact about a fold which needs induction over data. All theorems about `WriteJournal` but
the type theorem need `Expanded`: without it `AtMostOnce` is false, as a run shows.

**The journal.** `AtMostOnce` is not inductive: whether a step may send depends on who recorded the
intent. `IInv` says that an operation past its intent has an *owner*, the one attempt whose control point
lies after its own `RecordIntent` (`Owns`). `OwnerInv` ties the owner's control point to the entry in the
file, to the durable image and to what the network saw. For every operation, both images of
the file are honest about the network. `LockInv` makes the reload matter: an attempt inside a
journal call holds the lock and its entries are those of the file, so two attempts cannot both find
an operation absent. `ImportInv` says that nothing journaled disappears, and that whoever is past
opening has imported the earlier journals.

**The queue.** `TypeInv` carries `PlaceInv`: what a run's control point says of its fields. `CapInv` counts
registered instances and holds everywhere. That an unregistered run does not run as well needs
ownership: `AllOwnerInv` says, for three kinds of settings, that a run that waits or works is the
instance registered under its ID, through the launching marks, the gate of `handleQueueResume` and the
new IDs that resumes give. `GrantInv` says that no stop falls between the slot check and the grant.
`IdentityInv` ties a file, and a run that was resumed from it, to one scan; `ProgressInv` says that neither
is ahead of `done`. That no scan is lost (`KeepInv`) is a rank argument: as long as a scan is to
run, some live run or file carries it, and whenever a step removes one carrier a carrier of higher
rank exists or takes over; `KeepsOn` is the lemma about one step, `ClearOldKeeps` and `ResumeKeeps` are
its two hard cases, the file of an earlier ID that is cleared after a save under the new one, and a
pause that becomes a resume. `OwnScanInv` and `ClearInv` serve the overlap and the stop.
`ScanQueueWaitingProofs` adds layers for a waiting run: what its status says (`StatusInv`), that no other
run of the ID can remove its file (`RivalInv`, `SuccessorInv`), what a shutdown leaves
(`AfterShutdownInv`), and that the file is held (`HeldInv`).

**Settings as hypotheses.** Five of the queue's properties are false of some commands, so the theorem or
the property names the settings it is about. TLC finds a violation in the settings just outside:

- `AdmissionCap` needs `Exclusive`: a queue resume together with a pause or a panic, or a pause, a resume
  and a crash, let one scan run twice, of which the map knows one.
- `ScanIsAccounted` needs `Undisturbed`: a SIGTERM, stop-all or a panic in a session cancels a session
  without a mark; and a clear after a stop and a queue resume removes the file of the resumed run.
- `NoOverlapOfQueues` needs `RunsToTheEnd`: with any stop or pause, a session that is about to end may
  overlap the run that was resumed.
- `QueuedKeepsFile` needs `Settled`: for example a SIGTERM with a panic in a session, or a pause, a resume
  and a crash, remove the file of a waiting run.
- `StopIsTerminal` needs `ExitsClear`: a crash, panic, restart, pause or SIGTERM may keep a run from its
  clean-up after the stop, so that the scan is resumed at the next start.
- `StopSticks` needs that no single instance is stopped; with it the property is false, as
  `queue_stop_race` shows.

**The executor.** `RunsInv` says of every outcome and entry of the record, whoever wrote it, that it is
`Justified`: completed means accepted, cancelled means asked for or aborted. It needs `AttemptInv` (what
cancels the attempt under way was meant for it), `RawInv` (how a tool ended, between its end and its
verdict) and, for the crawl, `DiscoveryJustified` and `InventoryInv`, since the crawler writes its entry
before the verdict: `PreparedInv`, `WindowInv`, `NeedInv` and `VerdictInv` follow the crawl from its end to the
verdict, and say that only the death of the session keeps the verdict from its entry. `DependencyInv` and `OutcomesInv` say that nothing happens to the prerequisites of
a job between their check and its outcome. The theorems assume that `None` is no run.

**Fuzzing.** `FuzzInv` has the order of entry and gateway (`EntryInv`): the entry is written before it is
armed, and an attempt that finds one refuses, so a gateway is armed once over all attempts.
`AdmissionInv` says that nothing is on its way once the clean-up has started, and `BudgetInv` that what
was sent and what is pending were admitted within the limit. `AnswerInv` says that only what is on its
way is unanswered, unless the evidence is uncertain, and `MarkInv` that a mark follows a clean-up that
worked.

**Saved data.** `SweepNeedsIdle` is about what the sweep reads first and uses last. `LiveInv` ties a session
that is alive to today, to an instance that is active unless a stop has been asked for, and to the
record; `IdleInv` says that the record of any other scan ends no earlier than its session did, but for
an end that was not saved and a crash before the next start. So what `SweepInv` says of the snapshot of a
scan, that its day is within the window or its instance was active (`Kept`), holds when the sweep begins,
and survives everything but a new session, after which the sweep is judged by nothing of that scan.

**Schedules.** `ScheduleInv` says of every copy of a schedule, in memory, in its file, in the snapshot of a
review or a handler, that its fingerprint is no newer than the plans and its mark deserved
(`Deserved`); and of every fingerprint that was read before the lock was released that it is no newer
either (`LoopInv`, `RequestInv`). Since plans only move on, a late save or a late mark is then as true as an
early one. `ArmedInv` says that an armed one-time schedule has not been launched.

**Campaigns and probes.** Attempts at one job overlap over one journal, and requests arrive late. What
keeps a finding true is that one attempt is ahead of all others (`LeadInv`): the entry of the case it
works on is its own, the others have yet to reach it, and nothing that an earlier attempt sent is on
its way beside it. `FillInv` does the same for a cache probe, whose entry has one owner; a late fill
meets no attempt that still relies on the cache being cold.

**Leases.** A decision rests on a reading of any age, so nothing ties it to the present load. But the
slots of every reading are bounded by the cores, which do not change, and counters are read and changed
under the lock: `CountsAreExact` ties them to the callers' leases, `LeasesAreBounded` is about the bound.

**Records.** `CopiesInv` says that while nothing went wrong the file is ahead of the row only within an
operation. The other parts hold whatever goes wrong, but for the causes they name. `FileInv`: without an
overlap the write under way is newer than all that were answered, and the file has it before the answer.
`RevisionsInv`: whichever copy of a credential a reader finds has every revision that was acknowledged,
unless a process without Postgres changed a record whose row stayed behind ("outdated"). `MirrorInv` is
the same of the row of another record, whose failures are only logged. `DeletedInv`: a removal comes to the
row when the file is gone, and the first step of a write takes the record from the deleted ones. The
excuses are the gaps of the code, of which the table above shows two.

**The inventory.** Every source only adds (`Grown`): marks and replays stay, and a refusal stays unless there
is a replay. So one lemma about a merge, a seal and a reading of the replays each, composed nine times,
gives what a session starts with; `Guarded` and `Withheld` say that a redacted URL is refused until its
replay is read, in the snapshot and in the session. A job changes nothing but marks of its scanner
(`SameButMarks`). `Credited` is about marks in the session and in the snapshot, from which a later
session takes them: a dispatched one belongs to the job under way, and lies in the manifest of its
attempt once there is one, or its scanner lapsed; a completed one has a reason. That an archive alone
refuses nothing that was seen live needs the same lemmas with the identities that were refused before
as an exception (`NoCandidates`, `LiveIsFound`).

**Scans in progress.** `QueueInv`: the queue file, the Resume fields of a request and the counter of a
run count only hosts a session of which has returned (`Earned`), so whichever of them the next run starts
from, it skips nothing. `TrackingInv`: a task that runs in gvmd is the one the run is about to stop, or one
whose start was never answered. `PipeInv` has three parts: types; what has run is terminal in every
record, and its host is in every list of hosts that a later session may take over (`HistoryInv`); and a
session hands a task out once, where slots and pairs correspond by division with remainder (`SlotsInv`).

**The plan.** Two arguments, which do not touch each other. The order of a plan depends on the ladder of
stages alone: the recursive walk of `assignStages` (`Upstream`) has a solution, since ranks decrease
(`WalkExists`), so it can be unfolded; what it meets is earlier (`UpstreamIsEarlier`), and stopping at a
stage with jobs misses nothing, as the rest comes before what was met (`UpstreamIsEnough`). With
unique job IDs that makes any set of jobs executable once it is put in order (`OrderedIsExecutable`).
The jobs are followed through the planner: what begins as the registry, the workflow, a preparation,
a fuzz approval or an approval wants it is `Sound` and unique by scanner, target and approval, and has
a decision; services and identities multiply jobs without making two alike (`MultipliedUnique`).
`PlannerInv` then only says that a preview is a plan of *some* host, and a started plan the
plan of *this* host; that both are equal is what the fingerprint gives.

**The others.** `ZapService` proves that what a typed job owes the daemon is on its stack of deferred calls
while it holds the lease, or the daemon is quarantined. `AuthSession` proves that a login was paid for when it
was decided, under the lock of the refresher. `DiscoveryRevisions` proves that each file and the
approval in progress was earned by a confirmation.

**Only model-checked.** Liveness (`AttemptsEnd`, `EveryRunEnds`, `DueIsServed`) and `NeverStuck`, which uses
ENABLED, are outside the prover's reach. `ScopeIsHonoured` is about folds over lists, which
need induction over data. The types of the sums, which include that part and the types of the planner,
stay with TLC as well.

## Plan

1. An abstract queue, a set of scans each executed to its end, implemented by `ScanQueue` where
   `Undisturbed` holds.

## Not modelled

Adapters of external scanners, parsers, Next.js source analysis, API discovery, the browser, reports,
operator sessions, notifications and the WebSocket hub, metrics, uploads, settings and the command line
are pure functions, single maps behind a lock, or input and output. Of the modelled parts, deletions on
request and wildcard children are left out of the saved data, and tool leases have no caller in the
program but the capacity it displays. `PROJECT.json` lists every part with its files.
