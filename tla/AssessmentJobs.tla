--------------------------- MODULE AssessmentJobs ---------------------------
(***************************************************************************)
(* The executor of a typed assessment for one web target under the unified *)
(* workflow: RunAssessmentJobs (internal/scanner/assessment_jobs.go), the  *)
(* scan record that its events update, and the per-tool stop request.      *)
(*                                                                         *)
(* A session is one call of RunAssessmentJobs. It goes through the jobs of *)
(* the accepted plan in order; the crawl is an attempt of its own, made    *)
(* when a job first needs the inventory. A session that was paused or that *)
(* died is resumed by the next one from the record and the crawl output.   *)
(***************************************************************************)
EXTENDS Naturals, FiniteSets

CONSTANTS
  N,            \* jobs of a plan
  Plans,        \* the accepted plans under consideration
  MaxSessions,  \* sessions of the assessment
  MaxLost,      \* attempts whose evidence is changed on disk
  None

Job == 1..N

\* The record's entry for the crawl; it belongs to no job of the plan.
Discovery == 0
Key == Job \cup {Discovery}

\* kind: what the executor does for a job. deps: Dependencies. selected: the
\* jobs in state selected. identity: the jobs with a named identity.
\* auth: application credentials are bound to the target.
Plan == [kind : [Job -> {"auth", "crawl", "tool"}], deps : [Job -> SUBSET Job],
         selected : SUBSET Job, identity : SUBSET Job, auth : BOOLEAN]

\* Dependencies come first, and so does the crawl of a plan that has one.
WellFormed(p) ==
  /\ \A k \in Job : \A d \in p.deps[k] : d < k
  /\ \A c \in Job : p.kind[c] = "crawl" =>
       \A k \in Job : p.kind[k] = "crawl" => k = c
  /\ \A c \in Job : p.kind[c] = "crawl" =>
       \A k \in p.identity : p.kind[k] = "tool" => c < k

ASSUME AssessmentJobsAssumption ==
  /\ N \in Nat \ {0}
  /\ Plans \subseteq Plan
  /\ \A p \in Plans : WellFormed(p)
  /\ MaxSessions \in Nat
  /\ MaxLost \in Nat
  /\ None \notin Nat

\* Attempts are numbered; 0 stands for a run without an attempt, an inventory
\* without crawl output, or no crawl output at all.
Attempt == Nat

Terminal == {"completed", "failed", "cancelled", "skipped"}
Run == [status : Terminal \cup {"running"}, attempt : Attempt]
NotRun(s) == [status |-> s, attempt |-> 0]

VARIABLES
  plan,       \* the accepted plan
  sessions,   \* sessions so far
  attempts,   \* attempt IDs handed out
  record,     \* ScannerRuns of the scan record
  artifact,   \* the attempt whose crawl output is on disk
  snapshot,   \* the attempt the saved inventory was parsed from
  lost,       \* attempts whose artifacts no longer match their checksum
  pc,         \* where the session is
  job,        \* the job it is at
  cancelled,  \* the context of the session
  attempt,    \* the current attempt
  stopped,    \* the context of the current attempt was cancelled
  raw,        \* the run the current attempt returned
  completed,  \* the terminal runs of earlier sessions
  outcome,    \* jobOutcomes and the results of the jobs
  extra,      \* a crawl in the results of a plan without a crawl job
  pre,        \* preCrawlRuns: what the crawl job reports
  prepared,   \* preparedSurfaces
  surface,    \* the attempt the inventory was parsed from
  checkpointErr, \* the workflow manifest could not be saved
  stopRequest,   \* the attempt a stop request found running
  whole,      \* history: crawls that wrote their whole output
  judged,     \* history: attempts accepted as completed
  dismissed,  \* history: crawls that the executor did not accept
  asked,      \* history: attempts the user asked to stop
  aborted,    \* history: attempts under way when the session was cancelled
  returned,   \* history: a session has returned
  died        \* history: a session has died

disk == <<record, artifact, snapshot>>
session == <<job, cancelled, completed>>
inventory == <<extra, pre, prepared, surface>>
current == <<attempt, stopped, raw>>
outcomes == <<outcome, checkpointErr>>
history == <<whole, judged, dismissed, asked, aborted, returned, died>>
env == <<plan, sessions, lost, stopRequest>>

vars == <<env, attempts, disk, pc, session, inventory, current, outcomes, history>>

TypeOK ==
  /\ plan \in Plans
  /\ sessions \in 0..MaxSessions
  /\ attempts \in Nat
  /\ record \in [Key -> Run \cup {None}]
  /\ artifact \in Attempt
  /\ snapshot \in Attempt \cup {None}
  /\ lost \subseteq 1..attempts
  /\ pc \in {"idle", "job", "crawl", "crawled", "crawlJob", "ready", "tool",
             "judge", "settle", "over"}
  /\ job \in 1..(N + 1)
  /\ cancelled \in BOOLEAN
  /\ attempt \in 0..attempts
  /\ stopped \in BOOLEAN
  /\ raw \in Terminal \cup {"none"}
  /\ completed \in [Job -> Run \cup {None}]
  /\ outcome \in [Job -> Run \cup {None}]
  /\ extra \in Run \cup {None}
  /\ pre \in Run \cup {None}
  /\ prepared \in BOOLEAN
  /\ surface \in Attempt \cup {None}
  /\ checkpointErr \in BOOLEAN
  /\ stopRequest \in Attempt
  /\ whole \subseteq 1..attempts
  /\ judged \subseteq 1..attempts
  /\ dismissed \subseteq 1..attempts
  /\ asked \subseteq 1..attempts
  /\ aborted \subseteq 1..attempts
  /\ returned \in BOOLEAN
  /\ died \in BOOLEAN

NoRuns == [k \in Job |-> None]

Init ==
  /\ plan \in Plans
  /\ sessions = 0
  /\ attempts = 0
  /\ record = [k \in Key |-> None]
  /\ artifact = 0
  /\ snapshot = None
  /\ lost = {}
  /\ pc = "idle"
  /\ job = 1
  /\ cancelled = FALSE
  /\ attempt = 0
  /\ stopped = FALSE
  /\ raw = "none"
  /\ completed = NoRuns
  /\ outcome = NoRuns
  /\ extra = None
  /\ pre = None
  /\ prepared = FALSE
  /\ surface = None
  /\ checkpointErr = FALSE
  /\ stopRequest = 0
  /\ whole = {}
  /\ judged = {}
  /\ dismissed = {}
  /\ asked = {}
  /\ aborted = {}
  /\ returned = FALSE
  /\ died = FALSE
-----------------------------------------------------------------------------
(* The outcome of a job. *)

\* Emit: upsertScannerRun replaces the entry, and the record is saved.
Emit(k, run) == record' = [record EXCEPT ![k] = run]

\* Mutant: a job whose checkpoint failed gets a status that no reader knows.
AppendOutcomeUnsaved(run) ==
  /\ surface' = IF surface = None THEN 0 ELSE surface
  /\ snapshot' = surface'
  /\ \/ /\ outcome' = [outcome EXCEPT ![job] = run]
        /\ UNCHANGED checkpointErr
     \/ /\ outcome' = [outcome EXCEPT ![job] = [run EXCEPT !.status = "unsaved"]]
        /\ checkpointErr' = TRUE
  /\ job' = job + 1
  /\ pc' = "job"

\* appendOutcome: an inventory exists from the first outcome on and is saved
\* with each one; a manifest that cannot be saved fails the job.
AppendOutcome(run) ==
  /\ surface' = IF surface = None THEN 0 ELSE surface
  /\ snapshot' = surface'
  /\ \/ /\ outcome' = [outcome EXCEPT ![job] = run]
        /\ UNCHANGED checkpointErr
     \/ /\ outcome' = [outcome EXCEPT ![job] = [run EXCEPT !.status = "failed"]]
        /\ checkpointErr' = TRUE
  /\ job' = job + 1
  /\ pc' = "job"

At(label) == pc = label /\ job \in Job

\* Mutant: a prerequisite that ended in any way will do.
DependenciesTerminal == \A d \in plan.deps[job] : outcome[d] # None

\* failedAssessmentDependency
DependenciesMet ==
  \A d \in plan.deps[job] : outcome[d] # None /\ outcome[d].status = "completed"

Kind == plan.kind[job]

\* The loop goes on to authentication and execution.
Admissible == ~checkpointErr /\ DependenciesMet

\* plannedJobNotRun and failedPlannedJob: recorded, and an outcome as well.
Refuse(s) ==
  /\ Emit(job, NotRun(s))
  /\ AppendOutcome(NotRun(s))
  /\ UNCHANGED <<env, attempts, artifact, cancelled, completed, extra,
                 pre, prepared, current, history>>

RefuseJob ==
  /\ At("job")
  /\ ~Admissible \/ (Kind # "auth" /\ job \notin plan.selected)
  /\ Refuse("skipped")

\* The identity of the job or the session of the target cannot be verified.
AuthenticationFails ==
  /\ At("job")
  /\ Admissible
  /\ \/ job \in plan.identity
     \/ plan.auth /\ Kind = "tool" /\ job \in plan.selected
  /\ Refuse("skipped")

\* An auth job reports without an event; one with an identity got past
\* refreshIdentity.
AuthJob ==
  /\ At("job")
  /\ Admissible
  /\ Kind = "auth"
  /\ \E s \in {"completed", "failed"} :
       /\ job \in plan.identity => s = "completed"
       /\ AppendOutcome(NotRun(s))
  /\ UNCHANGED <<env, attempts, record, artifact, cancelled, completed,
                 extra, pre, prepared, current, history>>

-----------------------------------------------------------------------------
(* prepareSurface: the inventory of the target. *)

Explicit == \E k \in Job : plan.kind[k] = "crawl"

NeedsSurface ==
  /\ At("job")
  /\ Admissible
  /\ job \in plan.selected
  /\ \/ Kind = "crawl"
     \/ Kind = "tool" /\ job \in plan.identity /\ ~prepared

\* Mutant: leftover output is always trusted.
CrawlEvidenceAlwaysReusable == TRUE

\* crawlEvidenceReusable, with VerifyChecksum of the recorded crawl.
CrawlEvidenceReusable ==
  \/ record[Discovery] = None
  \/ /\ record[Discovery].status = "completed"
     /\ record[Discovery].attempt = artifact
     /\ artifact \notin lost

\* What is left of the crawl output once untrusted output was removed.
Leftover == IF CrawlEvidenceReusable THEN artifact ELSE 0

\* A saved inventory that matches the output, or output to parse again. An
\* authenticated inventory is never built from output alone.
Found == Leftover # 0 /\ (plan.auth => snapshot = Leftover)

\* The job that asked for the inventory goes on.
Resume == pc' = IF Kind = "crawl" THEN "crawlJob" ELSE "ready"

Report(run) ==
  IF Explicit THEN pre' = run /\ UNCHANGED extra ELSE extra' = run /\ UNCHANGED pre

Inventory(a) == surface' = a /\ snapshot' = a /\ prepared' = TRUE

ReuseCrawl ==
  /\ NeedsSurface
  /\ Found
  /\ Inventory(Leftover)
  /\ IF record[Discovery] # None /\ record[Discovery].status \in Terminal
     THEN Report(record[Discovery])
     ELSE UNCHANGED <<pre, extra>>
  /\ Resume
  /\ UNCHANGED <<env, attempts, record, artifact, session, current, outcomes, history>>

\* Nothing can be parsed from what is there.
NotFound == ~Found \/ (~plan.auth /\ Leftover \notin whole)

\* No crawler, or no verified session for an authenticated crawl.
SeedOnly ==
  /\ NeedsSurface
  /\ NotFound
  /\ artifact' = Leftover
  /\ Inventory(0)
  /\ Resume
  /\ UNCHANGED <<env, attempts, record, session, extra, pre, current, outcomes, history>>

\* The crawl is registered as an attempt; a cancelled session cancels it at once.
StartCrawl ==
  /\ NeedsSurface
  /\ NotFound
  /\ attempts' = attempts + 1
  /\ attempt' = attempts'
  /\ stopped' = FALSE
  /\ raw' = "none"
  /\ artifact' = attempts'
  /\ Emit(Discovery, [status |-> "running", attempt |-> attempts'])
  /\ aborted' = IF cancelled THEN aborted \cup {attempts'} ELSE aborted
  /\ pc' = "crawl"
  /\ UNCHANGED <<env, snapshot, session, inventory, outcomes, whole, judged,
                 dismissed, asked, returned, died>>

\* What a tool may report: the context it was given decides what else it can be.
Reports ==
  {"completed", "failed"} \cup (IF stopped \/ cancelled THEN {"cancelled"} ELSE {})

\* executeSpec reports the crawl's end to the record by itself, before the
\* executor's verdict on it.
CrawlEnds ==
  /\ pc = "crawl"
  /\ \E s \in Reports :
       /\ raw' = s
       /\ Emit(Discovery, [status |-> s, attempt |-> attempt])
       /\ whole' = IF s = "completed" THEN whole \cup {attempt} ELSE whole
  /\ pc' = "crawled"
  /\ UNCHANGED <<env, attempts, artifact, snapshot, session, inventory, attempt,
                 stopped, outcomes, judged, dismissed, asked, aborted, returned, died>>

\* The executor's own verdict: a user stop, and an authentication that expired
\* meanwhile, overrule the tool. Only a completed crawl is parsed.
CrawlJudged ==
  /\ pc = "crawled"
  /\ \E s \in (IF stopped /\ ~cancelled THEN {"cancelled"}
               ELSE {raw} \cup (IF plan.auth /\ raw = "completed"
                                THEN {"failed"} ELSE {})) :
       /\ Report([status |-> s, attempt |-> attempt])
       /\ Inventory(IF s = "completed" THEN attempt ELSE 0)
       /\ judged' = IF s = "completed" THEN judged \cup {attempt} ELSE judged
       /\ dismissed' = IF s = "completed" THEN dismissed ELSE dismissed \cup {attempt}
  /\ raw' = "none"
  /\ Resume
  /\ UNCHANGED <<env, attempts, record, artifact, session, attempt, stopped, outcomes,
                 whole, asked, aborted, returned, died>>

\* The crawl job reports the crawl under its own scope, without an event.
CrawlJob ==
  /\ At("crawlJob")
  /\ IF pre # None
     THEN AppendOutcome(pre) /\ UNCHANGED record
     ELSE AppendOutcome(NotRun("skipped")) /\ Emit(job, NotRun("skipped"))
  /\ UNCHANGED <<env, attempts, artifact, cancelled, completed, extra,
                 pre, prepared, current, history>>

-----------------------------------------------------------------------------
(* The tools. *)

Proceed ==
  /\ At("job")
  /\ Admissible
  /\ Kind = "tool"
  /\ job \in plan.selected
  /\ job \in plan.identity => prepared
  /\ pc' = "ready"
  /\ UNCHANGED <<env, attempts, disk, session, inventory, current, outcomes, history>>

\* Only a completed run whose artifacts still match stands for the job.
Reusable ==
  /\ completed[job] # None
  /\ completed[job].status = "completed"
  /\ completed[job].attempt \notin lost

Reuse ==
  /\ At("ready")
  /\ Reusable
  /\ AppendOutcome(completed[job])
  /\ UNCHANGED <<env, attempts, record, artifact, cancelled, completed,
                 extra, pre, prepared, current, history>>

\* A credential, a checkout, an adapter, the time budget, a directory, the input
\* manifest or the gateway is missing.
Unprepared ==
  /\ At("ready")
  /\ ~Reusable
  /\ \E s \in {"skipped", "failed"} : Refuse(s)

CancelledBeforeStart ==
  /\ At("ready")
  /\ ~Reusable
  /\ cancelled
  /\ Refuse("cancelled")

\* Mutant: the context of the previous attempt is used again.
StartToolSameContext ==
  /\ At("ready")
  /\ ~Reusable
  /\ ~cancelled
  /\ attempts' = attempts + 1
  /\ attempt' = attempts'
  /\ raw' = "none"
  /\ Emit(job, [status |-> "running", attempt |-> attempts'])
  /\ pc' = "tool"
  /\ UNCHANGED <<env, artifact, snapshot, session, inventory, stopped, outcomes, history>>

\* The attempt gets an ID and a context of its own.
StartTool ==
  /\ At("ready")
  /\ ~Reusable
  /\ ~cancelled
  /\ attempts' = attempts + 1
  /\ attempt' = attempts'
  /\ stopped' = FALSE
  /\ raw' = "none"
  /\ Emit(job, [status |-> "running", attempt |-> attempts'])
  /\ pc' = "tool"
  /\ UNCHANGED <<env, artifact, snapshot, session, inventory, outcomes, history>>

\* Mutant: the adapter's own final event reaches the record.
ToolEndsRecorded ==
  /\ At("tool")
  /\ \E s \in Reports :
       raw' = s /\ Emit(job, [status |-> s, attempt |-> attempt])
  /\ pc' = "judge"
  /\ UNCHANGED <<env, attempts, artifact, snapshot, session, inventory, attempt,
                 stopped, outcomes, history>>

\* runAttempt returns or recovers from a panic; runEmit drops the final event.
ToolEnds ==
  /\ At("tool")
  /\ \E s \in Reports : raw' = s
  /\ pc' = "judge"
  /\ UNCHANGED <<env, attempts, disk, session, inventory, attempt, stopped,
                 outcomes, history>>

\* A user stop overrules the tool; the deadline of the attempt, the gateway's
\* evidence and the session of an authenticated tool may refute it.
Verdicts == IF stopped /\ ~cancelled THEN {"cancelled"} ELSE {raw, "failed"}

Judge ==
  /\ At("judge")
  /\ \E s \in Verdicts :
       /\ raw' = s
       /\ Emit(job, [status |-> s, attempt |-> attempt])
       /\ judged' = IF s = "completed" THEN judged \cup {attempt} ELSE judged
  /\ pc' = "settle"
  /\ UNCHANGED <<env, attempts, artifact, snapshot, session, inventory, attempt,
                 stopped, outcomes, whole, dismissed, asked, aborted, returned, died>>

Settle ==
  /\ At("settle")
  /\ AppendOutcome([status |-> raw, attempt |-> attempt])
  /\ raw' = "none"
  /\ UNCHANGED <<env, attempts, record, artifact, cancelled, completed, extra,
                 pre, prepared, attempt, stopped, history>>

-----------------------------------------------------------------------------
(* Sessions. *)

Fresh ==
  /\ job' = 1
  /\ cancelled' = FALSE
  /\ attempt' = 0
  /\ stopped' = FALSE
  /\ raw' = "none"
  /\ outcome' = NoRuns
  /\ extra' = None
  /\ pre' = None
  /\ prepared' = FALSE
  /\ surface' = None
  /\ checkpointErr' = FALSE

\* A first or a resumed session, from the terminal runs in the record.
Begin ==
  /\ pc = "idle"
  /\ sessions < MaxSessions
  /\ sessions' = sessions + 1
  /\ completed' = [k \in Job |->
                     IF record[k] # None /\ record[k].status \in Terminal
                     THEN record[k] ELSE None]
  /\ Fresh
  /\ pc' = "job"
  /\ UNCHANGED <<plan, lost, stopRequest, attempts, disk, history>>

\* The write journal or the configuration refuses the resume: every job fails,
\* and these runs replace the record.
BeginRefused ==
  /\ pc = "idle"
  /\ sessions < MaxSessions
  /\ sessions' = sessions + 1
  /\ record' = [k \in Key |-> IF k = Discovery THEN None ELSE NotRun("failed")]
  /\ returned' = TRUE
  /\ pc' = "over"
  /\ UNCHANGED <<plan, lost, stopRequest, attempts, artifact, snapshot, session,
                 inventory, current, outcomes, whole, judged, dismissed, asked, aborted, died>>

\* The results replace the record. The last save of the manifest may fail.
Return ==
  /\ pc = "job"
  /\ job = N + 1
  /\ \E last \in {outcome[N], [outcome[N] EXCEPT !.status = "failed"]} :
       record' = [k \in Key |-> IF k = Discovery THEN extra
                                ELSE IF k = N THEN last ELSE outcome[k]]
  /\ returned' = TRUE
  /\ pc' = IF cancelled THEN "idle" ELSE "over"
  /\ UNCHANGED <<env, attempts, artifact, snapshot, session, inventory, current,
                 outcomes, whole, judged, dismissed, asked, aborted, died>>

Active == pc \notin {"idle", "over"}

\* The context of the current attempt is registered until its verdict.
Underway == pc \in {"crawl", "crawled", "tool", "judge"}

\* A pause or a shutdown cancels the session's context.
Pause ==
  /\ Active
  /\ ~cancelled
  /\ cancelled' = TRUE
  /\ aborted' = IF Underway THEN aborted \cup {attempt} ELSE aborted
  /\ UNCHANGED <<env, attempts, disk, pc, job, completed, inventory,
                 current, outcomes, whole, judged, dismissed, asked, returned, died>>

\* The process dies: the record, the crawl output and the inventory remain, for
\* the session after it.
Crash ==
  /\ Active
  /\ sessions < MaxSessions
  /\ pc' = "idle"
  /\ Fresh
  /\ completed' = NoRuns
  /\ stopRequest' = 0
  /\ died' = TRUE
  /\ UNCHANGED <<plan, sessions, lost, attempts, disk, whole, judged, dismissed, asked,
                 aborted, returned>>

\* handleStopScannerRun finds a running attempt in the record, perhaps one of a
\* process that died, and then looks for its cancel function.
StopLookup ==
  /\ Active
  /\ stopRequest = 0
  /\ \E k \in Key :
       /\ record[k] # None
       /\ record[k].status = "running"
       /\ record[k].attempt \notin asked
       /\ stopRequest' = record[k].attempt
       /\ asked' = asked \cup {record[k].attempt}
  /\ UNCHANGED <<plan, sessions, lost, attempts, disk, pc, session, inventory,
                 current, outcomes, whole, judged, dismissed, aborted, returned, died>>

StopCancel ==
  /\ stopRequest # 0
  /\ stopped' = (stopped \/ (Underway /\ attempt = stopRequest))
  /\ stopRequest' = 0
  /\ UNCHANGED <<plan, sessions, lost, attempts, disk, pc, session, inventory,
                 attempt, raw, outcomes, history>>

\* Artifacts of an attempt are changed or removed on disk. Only the next session
\* reads them again.
EvidenceLost ==
  /\ pc = "idle"
  /\ sessions < MaxSessions
  /\ Cardinality(lost) < MaxLost
  /\ \E a \in (1..attempts) \ lost : lost' = lost \cup {a}
  /\ UNCHANGED <<plan, sessions, stopRequest, attempts, disk, pc, session, inventory,
                 current, outcomes, history>>

Step ==
  \/ RefuseJob \/ AuthenticationFails \/ AuthJob
  \/ ReuseCrawl \/ SeedOnly \/ StartCrawl \/ CrawlEnds \/ CrawlJudged \/ CrawlJob
  \/ Proceed \/ Reuse \/ Unprepared \/ CancelledBeforeStart
  \/ StartTool \/ ToolEnds \/ Judge \/ Settle
  \/ Return

Environment ==
  \/ Begin \/ BeginRefused \/ Pause \/ Crash
  \/ StopLookup \/ StopCancel \/ EvidenceLost

Next == Step \/ Environment

Spec == Init /\ [][Next]_vars

-----------------------------------------------------------------------------
(* Properties. *)

\* What the record may hold as completed: what the executor accepted, and, once a
\* session has died, a crawl without credentials that wrote its whole output. Such
\* a crawl is in the record as completed before the executor's verdict on it.
Trusted == IF died /\ ~plan.auth THEN judged \cup whole ELSE judged

Accepted(run) == run.attempt \in Trusted \cup {0}

\* A run of a job is recorded as completed only if the executor itself accepted
\* the attempt: no crash between the end of a tool and the verdict on it makes
\* the next session reuse an attempt that was stopped, expired or refuted. The
\* one exception is a whole crawl without credentials whose session died.
CompletedIsAccepted ==
  \A k \in Job :
    /\ record[k] # None /\ record[k].status = "completed" => Accepted(record[k])
    /\ outcome[k] # None /\ outcome[k].status = "completed" => Accepted(outcome[k])

\* Not kept by the code: a crawl that the executor did not accept, because the
\* user stopped it or its session expired, never stands in for a completed crawl
\* in a later session. The crawler calls it completed before the verdict, and the
\* process may die in between.
DismissedNeverReused ==
  \A k \in Job :
    outcome[k] # None /\ outcome[k].status = "completed" => outcome[k].attempt \notin dismissed

\* A tool is started only when each of its prerequisites completed, in this
\* session or in an earlier one whose evidence was reused.
PrerequisitesCompleted ==
  pc \in {"tool", "judge"} =>
    \A d \in plan.deps[job] :
      outcome[d] # None /\ outcome[d].status = "completed" /\ Accepted(outcome[d])

\* An attempt ends as cancelled only for a reason: the user asked to stop this
\* very attempt, or the session was cancelled while it was under way. A request
\* that arrives late never hits a later attempt.
CancelledForAReason ==
  \A k \in Key :
    record[k] # None /\ record[k].status = "cancelled" /\ record[k].attempt # 0 =>
      record[k].attempt \in asked \cup aborted

Truncated(a) == a \notin whole \cup {0, None}

\* The output of a crawl that was killed does not become the inventory as long as no session has
\* returned: whatever crashes, the entry of the crawl is in the record when its output is there.
\* The results of a session that returns replace the record, and perhaps that entry.
KilledCrawlDiscarded == Truncated(surface) => returned

\* The output of an interrupted crawl never becomes the inventory.
TruncatedNeverUsed == ~Truncated(surface)

=============================================================================
