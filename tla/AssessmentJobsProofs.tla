------------------------ MODULE AssessmentJobsProofs ------------------------
(* Proofs about AssessmentJobs for any plans, sessions and losses. *)
EXTENDS AssessmentJobs, TLAPS

\* An outcome that is completed was accepted, and one that is cancelled has a reason.
Justified(run, accepted, reasons) ==
  /\ run.status = "completed" => run.attempt \in accepted \cup {0}
  /\ run.status = "cancelled" => run.attempt \in reasons \cup {0}

Reasons == asked \cup aborted

\* The entry of the crawl is written before the verdict on it.
DiscoveryJustified ==
  record[Discovery] # None => Justified(record[Discovery], judged \cup whole, Reasons)

RunsInv ==
  /\ \A k \in Job : record[k] # None => Justified(record[k], Trusted, Reasons)
  /\ \A k \in Job : outcome[k] # None => Justified(outcome[k], Trusted, Reasons)
  /\ \A k \in Job : completed[k] # None => Justified(completed[k], Trusted, Reasons)
  /\ pre # None => Justified(pre, Trusted, Reasons)
  /\ extra # None => Justified(extra, Trusted, Reasons)
  /\ DiscoveryJustified

\* What the executor keeps has ended.
EndedInv ==
  /\ \A k \in Job : outcome[k] # None => outcome[k].status # "running"
  /\ pre # None => pre.status # "running"
  /\ extra # None => extra.status # "running"

\* An inventory of an authenticated target comes from an accepted crawl only.
InventoryInv ==
  plan.auth => surface \in judged \cup {0, None} /\ snapshot \in judged \cup {0, None}

\* An attempt under way is a real one; what stops it is meant for it.
AttemptInv ==
  /\ Underway => attempt # 0
  /\ Underway /\ cancelled => attempt \in aborted
  /\ stopped => attempt \in asked
  /\ stopRequest \in asked \cup {0}
  /\ \A k \in Key : record[k] # None /\ record[k].status = "running" =>
        record[k].attempt \in 1 .. attempts

Judging == pc \in {"crawled", "judge", "settle"}

RawInv ==
  /\ Judging => raw \in Terminal
  /\ Judging /\ raw = "cancelled" => attempt \in Reasons
  /\ pc = "settle" /\ raw = "completed" => attempt \in judged

\* Between the check of the prerequisites and the outcome of the job nothing happens to them.
DependencyInv ==
  pc \in {"crawl", "crawled", "crawlJob", "ready", "tool", "judge", "settle"} =>
    job \in Job /\ DependenciesMet

OutcomesInv == \A k \in Job : k < job => outcome[k] # None

IInv ==
  /\ TypeOK /\ RunsInv /\ EndedInv /\ InventoryInv /\ AttemptInv /\ RawInv /\ DependencyInv
  /\ OutcomesInv

\* Once the inventory is prepared, the job that asked for it is over or about to report it.
PreparedInv ==
  prepared => \A c \in Job : plan.kind[c] = "crawl" => c < job \/ (c = job /\ pc = "crawlJob")

\* As long as no session has died, a crawl without credentials that the record calls completed
\* without a verdict is one of this session, and this session does not need the crawl again.
WindowInv ==
  ~ died /\ ~ plan.auth /\ record[Discovery] # None /\ record[Discovery].status = "completed" =>
    \/ record[Discovery].attempt \in judged \cup {0}
    \/ pc = "crawled" /\ record[Discovery].attempt = attempt
    \/ prepared /\ Active

\* A crawl is under way for the crawl job or for a tool with a named identity.
NeedInv ==
  pc \in {"crawl", "crawled"} => Kind = "crawl" \/ (Kind = "tool" /\ job \in plan.identity)

VerdictInv == PreparedInv /\ WindowInv /\ NeedInv

-----------------------------------------------------------------------------
\* What a reader may rely on when more attempts are accepted, asked to stop or aborted.
LEMMA StillJustified ==
  ASSUME NEW run, NEW A, NEW B, NEW R, NEW S,
         Justified(run, A, R), A \subseteq B, R \subseteq S
  PROVE  Justified(run, B, S)
BY DEF Justified

\* Once more attempts are accepted or whole, or a session died, more may be held as completed.
LEMMA TrustedGrows ==
  ASSUME plan' = plan, judged \subseteq judged', whole \subseteq whole', died => died'
  PROVE  Trusted \subseteq Trusted' /\ judged \cup whole \subseteq judged' \cup whole'
BY DEF Trusted

\* A run is never None, and a job is never the crawl's own entry.
LEMMA JobFacts ==
  /\ N \in Nat \ {0} /\ Job \subseteq Key /\ Discovery \in Key /\ Discovery \notin Job
  /\ Key = Job \cup {Discovery} /\ None \notin Nat
BY AssessmentJobsAssumption DEF Job, Key, Discovery

\* Before the first session the invariant holds.
LEMMA InitHolds == Init => IInv
<1> SUFFICES ASSUME Init PROVE IInv
  OBVIOUS
<1>1. TypeOK
  <2> USE JobFacts, AssessmentJobsAssumption DEF Init, NoRuns, Attempt, Terminal
  <2>1. /\ record \in [Key -> Run \cup {None}] /\ completed \in [Job -> Run \cup {None}]
        /\ outcome \in [Job -> Run \cup {None}]
    OBVIOUS
  <2>2. /\ plan \in Plans /\ sessions \in 0..MaxSessions /\ job \in 1..(N + 1)
        /\ attempt \in 0..attempts /\ lost \subseteq 1..attempts
        /\ raw \in Terminal \cup {"none"}
    OBVIOUS
  <2> QED
    BY <2>1, <2>2 DEF TypeOK
<1>2. RunsInv /\ EndedInv /\ InventoryInv
  BY JobFacts DEF Init, RunsInv, EndedInv, DiscoveryJustified, InventoryInv, NoRuns
<1>3. AttemptInv /\ RawInv /\ DependencyInv /\ OutcomesInv
  BY JobFacts DEF Init, AttemptInv, Underway, RawInv, Judging, DependencyInv, OutcomesInv, Job
<1> QED
  BY <1>1, <1>2, <1>3 DEF IInv

\* The outcome of a job: a failed checkpoint turns it into a failure, and the loop goes on.
LEMMA AppendStep ==
  ASSUME None \notin Run, IInv, job \in Job,
         NEW run \in Run, run.status # "running", Justified(run, Trusted, Reasons),
         AppendOutcome(run),
         record' \in {record, [record EXCEPT ![job] = run]},
         raw' \in Terminal \cup {"none"},
         UNCHANGED <<env, attempts, artifact, cancelled, completed, extra, pre, prepared,
                     attempt, stopped, history>>
  PROVE  IInv'
<1> USE JobFacts
<1>1. PICK s \in Run : /\ outcome' = [outcome EXCEPT ![job] = s]
                       /\ Justified(s, Trusted, Reasons) /\ s # None
                       /\ s.status # "running"
                       /\ checkpointErr' \in BOOLEAN
  <2>1. [run EXCEPT !.status = "failed"] \in Run
        /\ Justified([run EXCEPT !.status = "failed"], Trusted, Reasons)
    BY DEF Run, Justified, Terminal
  <2>2. checkpointErr \in BOOLEAN
    BY DEF IInv, TypeOK
  <2> QED
    BY <2>1, <2>2, [run EXCEPT !.status = "failed"].status = "failed" DEF AppendOutcome, Run
<1>2. surface' \in {0, surface} /\ snapshot' = surface' /\ job' = job + 1 /\ pc' = "job"
  BY DEF AppendOutcome
<1>3. record' \in [Key -> Run \cup {None}]
      /\ \A k \in Key : record'[k] = record[k] \/ (k = job /\ record'[k] = run)
  BY DEF IInv, TypeOK
<1>4. outcome' \in [Job -> Run \cup {None}]
      /\ \A k \in Job : outcome'[k] = IF k = job THEN s ELSE outcome[k]
  BY <1>1 DEF IInv, TypeOK
<1>5. TypeOK'
  BY <1>1, <1>2, <1>3, <1>4 DEF IInv, TypeOK, Attempt, env, history, Job
<1>6. RunsInv'
  <2>1. record'[Discovery] = record[Discovery]
    BY <1>3
  <2>2. DiscoveryJustified'
    BY <2>1 DEF IInv, RunsInv, DiscoveryJustified, Reasons, Trusted, env, history
  <2> QED
    BY <1>1, <1>3, <1>4, <2>2 DEF IInv, RunsInv, Reasons, Trusted, env, history
<1>11. EndedInv'
  BY <1>1, <1>4 DEF IInv, EndedInv
<1>7. InventoryInv'
  BY <1>2 DEF IInv, InventoryInv, env, history
<1>8. AttemptInv'
  BY <1>2, <1>3 DEF IInv, AttemptInv, Underway, env, history
<1>9. RawInv' /\ DependencyInv'
  BY <1>2 DEF RawInv, Judging, DependencyInv
<1>10. OutcomesInv'
  BY <1>1, <1>2, <1>4 DEF IInv, OutcomesInv, Job
<1> QED
  BY <1>5, <1>6, <1>7, <1>8, <1>9, <1>10, <1>11 DEF IInv

\* Everything that gives a job an outcome without running its tool.
LEMMA RefuseStep ==
  ASSUME None \notin Run, IInv, job \in Job, NEW s \in Terminal \ {"completed"}, Refuse(s)
  PROVE  IInv'
<1>1. NotRun(s) \in Run /\ NotRun(s).status = s /\ NotRun(s).attempt = 0
  BY DEF NotRun, Run, Attempt
<1>2. Justified(NotRun(s), Trusted, Reasons) /\ NotRun(s).status # "running"
  BY <1>1 DEF Justified, Terminal
<1>3. raw' \in Terminal \cup {"none"}
  BY DEF Refuse, current, IInv, TypeOK
<1> QED
  BY <1>1, <1>2, <1>3, AppendStep DEF Refuse, Emit, current

\* Refusals, authentication, reports of crawl jobs and reused results append an outcome.
LEMMA OutcomeSteps ==
  ASSUME None \notin Run, IInv,
         \/ RefuseJob \/ AuthenticationFails \/ AuthJob \/ CrawlJob \/ Reuse
         \/ Unprepared \/ CancelledBeforeStart \/ Settle
  PROVE  IInv'
<1>1. raw \in Terminal \cup {"none"}
  BY DEF IInv, TypeOK
<1>2. CASE RefuseJob \/ AuthenticationFails
  BY <1>2, RefuseStep DEF RefuseJob, AuthenticationFails, At, Terminal
<1>3. CASE AuthJob
  <2>1. PICK s \in {"completed", "failed"} : AppendOutcome(NotRun(s))
    BY <1>3 DEF AuthJob
  <2>2. NotRun(s) \in Run /\ NotRun(s).status # "running" /\ Justified(NotRun(s), Trusted, Reasons)
    BY DEF NotRun, Run, Attempt, Terminal, Justified
  <2> QED
    BY <1>1, <1>3, <2>1, <2>2, AppendStep DEF AuthJob, At, current
<1>4. CASE CrawlJob
  <2>1. CASE pre # None
    <3>1. pre \in Run /\ Justified(pre, Trusted, Reasons) /\ pre.status # "running"
      BY <2>1 DEF IInv, TypeOK, RunsInv, EndedInv
    <3> QED
      BY <1>1, <1>4, <2>1, <3>1, AppendStep DEF CrawlJob, At, current
  <2>2. CASE pre = None
    <3>1. NotRun("skipped") \in Run /\ NotRun("skipped").status # "running"
          /\ Justified(NotRun("skipped"), Trusted, Reasons)
      BY DEF NotRun, Run, Attempt, Terminal, Justified
    <3> QED
      BY <1>1, <1>4, <2>2, <3>1, AppendStep DEF CrawlJob, At, Emit, current
  <2> QED
    BY <2>1, <2>2
<1>5. CASE Reuse
  <2>1. completed[job] \in Run /\ completed[job].status # "running"
        /\ Justified(completed[job], Trusted, Reasons)
    BY <1>5 DEF Reuse, Reusable, At, IInv, TypeOK, RunsInv
  <2> QED
    BY <1>1, <1>5, <2>1, AppendStep DEF Reuse, At, current
<1>6. CASE Unprepared \/ CancelledBeforeStart
  BY <1>6, RefuseStep DEF Unprepared, CancelledBeforeStart, At, Terminal
<1>7. CASE Settle
  <2>1. raw \in Terminal /\ attempt \in Nat
    BY <1>7 DEF Settle, At, IInv, RawInv, Judging, TypeOK
  <2>2. /\ [status |-> raw, attempt |-> attempt] \in Run
        /\ [status |-> raw, attempt |-> attempt].status # "running"
        /\ Justified([status |-> raw, attempt |-> attempt], Trusted, Reasons)
    BY <1>7, <2>1 DEF Settle, At, IInv, RawInv, Judging, Run, Attempt, Terminal, Justified, Trusted
  <2> QED
    BY <1>7, <2>2, AppendStep DEF Settle, At
<1> QED
  BY <1>2, <1>3, <1>4, <1>5, <1>6, <1>7

-----------------------------------------------------------------------------
(* The inventory.                                                           *)

\* The job that needs the inventory has its prerequisites, and keeps them.
LEMMA NeedFacts ==
  ASSUME IInv, NeedsSurface
  PROVE  job \in Job /\ DependenciesMet /\ pc = "job" /\ plan.auth \in BOOLEAN
<1>1. plan \in Plan
  BY AssessmentJobsAssumption DEF IInv, TypeOK
<1> QED
  BY <1>1 DEF NeedsSurface, At, Admissible, Plan

\* The inventory is prepared once in a session.
LEMMA PreparedOnce == ASSUME IInv, VerdictInv, NeedsSurface PROVE ~ prepared
<1>1. job \in Job /\ pc = "job" /\ (plan.kind[job] = "crawl" \/ ~ prepared)
  BY NeedFacts DEF NeedsSurface, Kind
<1> QED
  BY <1>1, JobFacts DEF VerdictInv, PreparedInv, Job

\* An earlier crawl gives the inventory.
LEMMA ReuseCrawlStep == ASSUME IInv, VerdictInv, ReuseCrawl PROVE IInv'
<1> USE JobFacts
<1>1. job \in Job /\ DependenciesMet /\ pc = "job" /\ plan.auth \in BOOLEAN
  BY NeedFacts DEF ReuseCrawl
<1>2. /\ Leftover = artifact /\ artifact # 0 /\ artifact \in Nat
      /\ surface' = artifact /\ snapshot' = artifact /\ prepared' = TRUE
      /\ pc' \in {"crawlJob", "ready"}
      /\ plan.auth => snapshot = artifact
      /\ CrawlEvidenceReusable
  BY DEF ReuseCrawl, Found, Inventory, Resume, Leftover, IInv, TypeOK, Attempt
<1>3. plan.auth => artifact \in judged
  BY <1>2 DEF IInv, InventoryInv
<1>4. /\ pre' \in {pre, record[Discovery]} /\ extra' \in {extra, record[Discovery]}
      /\ (pre' # pre \/ extra' # extra) =>
            record[Discovery] # None /\ record[Discovery].status \in Terminal
  BY DEF ReuseCrawl, Report
<1>7. ~ prepared
  BY <1>1, PreparedOnce DEF ReuseCrawl
<1>5. record[Discovery] # None =>
         /\ record[Discovery] \in Run
         /\ record[Discovery].attempt = artifact
         /\ Justified(record[Discovery], Trusted, Reasons)
  <2> SUFFICES ASSUME record[Discovery] # None
               PROVE  /\ record[Discovery] \in Run
                      /\ record[Discovery].attempt = artifact
                      /\ Justified(record[Discovery], Trusted, Reasons)
    OBVIOUS
  <2>1. record[Discovery] \in Run /\ record[Discovery].attempt = artifact
        /\ record[Discovery].status = "completed"
    BY <1>2 DEF IInv, TypeOK, CrawlEvidenceReusable
  <2>2. record[Discovery].attempt \in judged \cup whole \cup {0}
    BY <2>1 DEF IInv, RunsInv, DiscoveryJustified, Justified
  <2>3. ~ died /\ ~ plan.auth => record[Discovery].attempt \in judged \cup {0}
    BY <1>1, <1>7, <2>1 DEF VerdictInv, WindowInv
  <2> QED
    BY <1>1, <1>3, <2>1, <2>2, <2>3 DEF Justified, Trusted
<1>6. TypeOK'
  BY <1>2, <1>4, <1>5 DEF ReuseCrawl, IInv, TypeOK, Attempt, env, session, current, outcomes, history
<1>8. RunsInv' /\ EndedInv'
  BY <1>4, <1>5 DEF ReuseCrawl, IInv, RunsInv, EndedInv, DiscoveryJustified, Reasons, Trusted, Terminal,
     env, session, current, outcomes, history
<1>9. InventoryInv'
  BY <1>2, <1>3 DEF ReuseCrawl, InventoryInv, env, history
<1>10. AttemptInv' /\ RawInv'
  BY <1>2 DEF ReuseCrawl, IInv, AttemptInv, RawInv, Underway, Judging, env, session, current,
     history
<1>11. DependencyInv' /\ OutcomesInv'
  BY <1>1, <1>2 DEF ReuseCrawl, IInv, DependencyInv, OutcomesInv, DependenciesMet, env, session,
     outcomes
<1> QED
  BY <1>6, <1>8, <1>9, <1>10, <1>11 DEF IInv

\* Without a crawl the inventory is the seed.
LEMMA SeedOnlyStep == ASSUME IInv, SeedOnly PROVE IInv'
<1> USE JobFacts
<1>1. job \in Job /\ DependenciesMet /\ pc = "job" /\ plan.auth \in BOOLEAN
  BY NeedFacts DEF SeedOnly
<1>2. /\ artifact' \in {0, artifact} /\ surface' = 0 /\ snapshot' = 0 /\ prepared' = TRUE
      /\ pc' \in {"crawlJob", "ready"}
  BY DEF SeedOnly, Leftover, Inventory, Resume
<1>3. TypeOK'
  BY <1>2 DEF SeedOnly, IInv, TypeOK, Attempt, env, session, current, outcomes, history
<1>4. RunsInv' /\ EndedInv' /\ InventoryInv'
  BY <1>2 DEF SeedOnly, IInv, RunsInv, EndedInv, InventoryInv, DiscoveryJustified, Reasons, Trusted,
     env, session, current, outcomes, history
<1>5. AttemptInv' /\ RawInv'
  BY <1>2 DEF SeedOnly, IInv, AttemptInv, RawInv, Underway, Judging, env, session, current,
     history
<1>6. DependencyInv' /\ OutcomesInv'
  BY <1>1, <1>2 DEF SeedOnly, IInv, DependencyInv, OutcomesInv, DependenciesMet, env, session,
     outcomes
<1> QED
  BY <1>3, <1>4, <1>5, <1>6 DEF IInv

\* A new attempt has a new number, so nothing that was asked of an older one applies to it.
LEMMA StartCrawlStep == ASSUME IInv, StartCrawl PROVE IInv'
<1> USE JobFacts
<1> DEFINE a == attempts + 1
           run == [status |-> "running", attempt |-> a]
<1>1. job \in Job /\ DependenciesMet /\ pc = "job" /\ plan.auth \in BOOLEAN
  BY NeedFacts DEF StartCrawl
<1>2. /\ attempts \in Nat /\ a \in 1 .. attempts' /\ attempts' = a /\ attempt' = a
      /\ artifact' = a /\ record' = [record EXCEPT ![Discovery] = run]
      /\ stopped' = FALSE /\ raw' = "none" /\ pc' = "crawl"
      /\ aborted' = IF cancelled THEN aborted \cup {a} ELSE aborted
  BY DEF StartCrawl, Emit, IInv, TypeOK
<1>3. run \in Run
  BY <1>2 DEF Run, Attempt
<1>4. record' \in [Key -> Run \cup {None}] /\ record'[Discovery] = run
      /\ \A k \in Job : record'[k] = record[k]
  BY <1>2, <1>3 DEF IInv, TypeOK
<1>5. TypeOK'
  <2>1. /\ lost' \subseteq 1 .. attempts' /\ whole' \subseteq 1 .. attempts'
        /\ judged' \subseteq 1 .. attempts' /\ asked' \subseteq 1 .. attempts'
        /\ aborted' \subseteq 1 .. attempts' /\ dismissed' \subseteq 1 .. attempts'
    <3>1. 1 .. attempts \subseteq 1 .. attempts' /\ a \in 1 .. attempts'
      BY <1>2
    <3> HIDE DEF a
    <3> QED
      BY <1>2, <3>1 DEF StartCrawl, IInv, TypeOK, env
  <2>2. /\ attempts' \in Nat /\ artifact' \in Attempt /\ attempt' \in 0 .. attempts'
        /\ raw' \in Terminal \cup {"none"}
    BY <1>2 DEF Attempt
  <2> QED
    BY <1>2, <1>4, <2>1, <2>2 DEF StartCrawl, IInv, TypeOK, env, session, inventory, outcomes
<1>6. Reasons \subseteq Reasons' /\ Trusted' = Trusted
  BY <1>2 DEF StartCrawl, Reasons, Trusted, env
<1>7. RunsInv' /\ EndedInv'
  <2>1. DiscoveryJustified'
    BY <1>4 DEF DiscoveryJustified, Justified
  <2>2. EndedInv'
    BY DEF StartCrawl, IInv, EndedInv, inventory, outcomes
  <2>3. RunsInv'
    BY <1>4, <1>6, <2>1, StillJustified
    DEF StartCrawl, IInv, RunsInv, session, inventory, outcomes
  <2> QED
    BY <2>2, <2>3
<1>8. InventoryInv'
  BY DEF StartCrawl, IInv, InventoryInv, env, inventory
<1>9. AttemptInv' /\ RawInv'
  BY <1>2, <1>4 DEF StartCrawl, IInv, TypeOK, AttemptInv, RawInv, Underway, Judging, Terminal,
     env, session
<1>10. DependencyInv' /\ OutcomesInv'
  BY <1>1 DEF StartCrawl, IInv, DependencyInv, OutcomesInv, DependenciesMet, env, session,
     outcomes
<1> QED
  BY <1>5, <1>7, <1>8, <1>9, <1>10 DEF IInv

\* A report of a cancellation has a reason: the attempt's context or the session's.
LEMMA ReportFacts ==
  ASSUME IInv, Underway, NEW s \in Reports
  PROVE  s \in Terminal /\ (s = "cancelled" => attempt \in Reasons)
BY DEF Reports, IInv, AttemptInv, Reasons, Terminal

\* The crawl ends in the record.
LEMMA CrawlEndsStep == ASSUME IInv, CrawlEnds PROVE IInv'
<1> USE JobFacts
<1>1. PICK s \in Reports :
         /\ raw' = s /\ record' = [record EXCEPT ![Discovery] = [status |-> s, attempt |-> attempt]]
         /\ whole' = IF s = "completed" THEN whole \cup {attempt} ELSE whole
  BY DEF CrawlEnds, Emit
<1>2. /\ pc = "crawl" /\ pc' = "crawled" /\ Underway /\ attempt' = attempt /\ attempts' = attempts
      /\ attempt \in 1 .. attempts /\ plan' = plan
  BY DEF CrawlEnds, Underway, IInv, TypeOK, AttemptInv, env
<1>3. s \in Terminal /\ (s = "cancelled" => attempt \in Reasons)
  BY <1>2, ReportFacts
<1>4. [status |-> s, attempt |-> attempt] \in Run
  BY <1>2, <1>3 DEF Run, Attempt
<1>5. record' \in [Key -> Run \cup {None}]
      /\ record'[Discovery] = [status |-> s, attempt |-> attempt]
      /\ \A k \in Job : record'[k] = record[k]
  BY <1>1, <1>4 DEF IInv, TypeOK
<1>6. Reasons' = Reasons /\ judged' = judged /\ Trusted \subseteq Trusted'
  BY <1>1, <1>2, TrustedGrows DEF CrawlEnds, Reasons
<1>7. TypeOK'
  <2>1. judged' \subseteq 1 .. attempts /\ whole' \subseteq 1 .. attempts
    BY <1>1, <1>2, <1>6 DEF IInv, TypeOK
  <2> QED
    BY <1>1, <1>2, <1>3, <1>5, <2>1
    DEF CrawlEnds, IInv, TypeOK, env, session, inventory, outcomes
<1>8. RunsInv' /\ EndedInv'
  <2>1. DiscoveryJustified'
    BY <1>1, <1>2, <1>3, <1>5, <1>6 DEF DiscoveryJustified, Justified
  <2>2. EndedInv'
    BY DEF CrawlEnds, IInv, EndedInv, inventory, outcomes
  <2>3. RunsInv'
    BY <1>5, <1>6, <2>1, StillJustified
    DEF CrawlEnds, IInv, RunsInv, session, inventory, outcomes
  <2> QED
    BY <2>2, <2>3
<1>9. InventoryInv'
  BY <1>6 DEF CrawlEnds, IInv, InventoryInv, env, inventory
<1>10. AttemptInv'
  BY <1>1, <1>2, <1>3, <1>5 DEF CrawlEnds, IInv, AttemptInv, Underway, Terminal, env, session
<1>11. RawInv'
  BY <1>1, <1>2, <1>3, <1>6 DEF RawInv, Judging
<1>12. DependencyInv' /\ OutcomesInv'
  BY <1>2 DEF CrawlEnds, IInv, DependencyInv, OutcomesInv, DependenciesMet, env, session, outcomes
<1> QED
  BY <1>7, <1>8, <1>9, <1>10, <1>11, <1>12 DEF IInv

\* The verdict on the crawl: only an accepted one becomes the inventory.
LEMMA CrawlJudgedStep == ASSUME None \notin Run, IInv, CrawlJudged PROVE IInv'
<1> USE JobFacts
<1>1. PICK s \in Terminal :
         /\ s = "cancelled" => attempt \in Reasons
         /\ Report([status |-> s, attempt |-> attempt])
         /\ Inventory(IF s = "completed" THEN attempt ELSE 0)
         /\ judged' = IF s = "completed" THEN judged \cup {attempt} ELSE judged
  <2>1. raw \in Terminal /\ (raw = "cancelled" => attempt \in Reasons)
    BY DEF CrawlJudged, IInv, RawInv, Judging
  <2>2. stopped => attempt \in Reasons
    BY DEF IInv, AttemptInv, Reasons
  <2> QED
    BY <2>1, <2>2 DEF CrawlJudged, Terminal
<1>2. /\ pc = "crawled" /\ pc' \in {"crawlJob", "ready"} /\ attempt' = attempt
      /\ attempts' = attempts /\ attempt \in 1 .. attempts /\ plan' = plan
  BY DEF CrawlJudged, Resume, Underway, IInv, TypeOK, AttemptInv, env
<1> DEFINE run == [status |-> s, attempt |-> attempt]
<1>3. run \in Run /\ run.status # "running" /\ Justified(run, Trusted', Reasons)
  BY <1>1, <1>2 DEF CrawlJudged, Run, Attempt, Terminal, Justified, Trusted
<1>4. /\ pre' \in {pre, run} /\ extra' \in {extra, run}
  BY <1>1 DEF Report
<1>5. /\ Reasons' = Reasons /\ Trusted \subseteq Trusted'
      /\ judged \cup whole \subseteq judged' \cup whole'
  BY <1>1, <1>2, TrustedGrows DEF CrawlJudged, Reasons
<1>6. surface' \in {0, attempt} /\ snapshot' = surface' /\ prepared' = TRUE
      /\ (surface' = attempt => surface' \in judged' \cup {0})
  BY <1>1 DEF Inventory
<1>7. TypeOK'
  <2>1. /\ judged' \subseteq 1 .. attempts /\ dismissed' \subseteq 1 .. attempts
        /\ raw' = "none" /\ surface' \in Attempt
    BY <1>1, <1>2, <1>6 DEF CrawlJudged, IInv, TypeOK, Attempt
  <2>2. pre' \in Run \cup {None} /\ extra' \in Run \cup {None}
    BY <1>3, <1>4 DEF IInv, TypeOK
  <2> QED
    BY <1>2, <1>6, <2>1, <2>2 DEF CrawlJudged, IInv, TypeOK, env, session, outcomes
<1>8. RunsInv' /\ EndedInv'
  <2>1. DiscoveryJustified'
    BY <1>2, <1>5, StillJustified DEF CrawlJudged, IInv, RunsInv, DiscoveryJustified
  <2>2. EndedInv'
    BY <1>3, <1>4 DEF CrawlJudged, IInv, EndedInv, outcomes
  <2>3. /\ pre' # None => Justified(pre', Trusted', Reasons)
        /\ extra' # None => Justified(extra', Trusted', Reasons)
    BY <1>3, <1>4, <1>5, StillJustified DEF IInv, RunsInv
  <2>4. RunsInv'
    BY <1>5, <2>1, <2>3, StillJustified DEF CrawlJudged, IInv, RunsInv, session, outcomes
  <2> QED
    BY <2>2, <2>4
<1>9. InventoryInv'
  BY <1>6 DEF InventoryInv
<1>10. AttemptInv' /\ RawInv'
  BY <1>2 DEF CrawlJudged, IInv, AttemptInv, RawInv, Judging, Underway, env, session
<1>11. DependencyInv' /\ OutcomesInv'
  BY <1>2 DEF CrawlJudged, IInv, DependencyInv, OutcomesInv, DependenciesMet, env, session,
     outcomes
<1> QED
  BY <1>7, <1>8, <1>9, <1>10, <1>11 DEF IInv

-----------------------------------------------------------------------------
(* The tools.                                                               *)

\* A job that was admitted goes on to its start.
LEMMA ProceedStep == ASSUME IInv, Proceed PROVE IInv'
<1>1. job \in Job /\ DependenciesMet /\ pc = "job" /\ pc' = "ready"
  BY DEF Proceed, At, Admissible
<1>2. TypeOK'
  BY <1>1 DEF Proceed, IInv, TypeOK, env, disk, session, inventory, current, outcomes, history
<1>3. RunsInv' /\ EndedInv' /\ InventoryInv'
  BY DEF Proceed, IInv, RunsInv, EndedInv, DiscoveryJustified, InventoryInv, Reasons, Trusted,
     env, disk, session, inventory, outcomes, history
<1>4. AttemptInv' /\ RawInv'
  BY <1>1 DEF Proceed, IInv, AttemptInv, RawInv, Underway, Judging, env, disk, session, current,
     history
<1>5. DependencyInv' /\ OutcomesInv'
  BY <1>1 DEF Proceed, IInv, DependencyInv, OutcomesInv, DependenciesMet, env, session, outcomes
<1> QED
  BY <1>2, <1>3, <1>4, <1>5 DEF IInv

\* A tool starts as a fresh attempt.
LEMMA StartToolStep == ASSUME IInv, StartTool PROVE IInv'
<1> USE JobFacts
<1> DEFINE a == attempts + 1
           run == [status |-> "running", attempt |-> a]
<1>1. job \in Job /\ DependenciesMet /\ pc = "ready" /\ ~ cancelled
  BY DEF StartTool, At, IInv, DependencyInv
<1>2. /\ attempts \in Nat /\ a \in 1 .. attempts' /\ attempts' = a /\ attempt' = a
      /\ record' = [record EXCEPT ![job] = run]
      /\ stopped' = FALSE /\ raw' = "none" /\ pc' = "tool"
  BY DEF StartTool, Emit, IInv, TypeOK
<1>3. run \in Run /\ Justified(run, Trusted, Reasons)
  BY <1>2 DEF Run, Attempt, Justified
<1>4. record' \in [Key -> Run \cup {None}]
      /\ \A k \in Key : record'[k] = IF k = job THEN run ELSE record[k]
  BY <1>1, <1>2, <1>3 DEF IInv, TypeOK
<1>5. TypeOK'
  <2>1. /\ lost' \subseteq 1 .. attempts' /\ whole' \subseteq 1 .. attempts'
        /\ judged' \subseteq 1 .. attempts' /\ asked' \subseteq 1 .. attempts'
        /\ aborted' \subseteq 1 .. attempts' /\ dismissed' \subseteq 1 .. attempts'
    <3>1. 1 .. attempts \subseteq 1 .. attempts'
      BY <1>2
    <3> HIDE DEF a
    <3> QED
      BY <1>2, <3>1 DEF StartTool, IInv, TypeOK, env, history
  <2>2. /\ attempts' \in Nat /\ attempt' \in 0 .. attempts' /\ raw' \in Terminal \cup {"none"}
    BY <1>2
  <2> QED
    BY <1>2, <1>4, <2>1, <2>2
    DEF StartTool, IInv, TypeOK, env, session, inventory, outcomes, history
<1>6. RunsInv' /\ EndedInv' /\ InventoryInv'
  <2>1. DiscoveryJustified'
    BY <1>1, <1>4 DEF StartTool, IInv, RunsInv, DiscoveryJustified, Reasons, Trusted, env, history
  <2>2. RunsInv'
    BY <1>3, <1>4, <2>1 DEF StartTool, IInv, RunsInv, Reasons, Trusted, env, session,
       inventory, outcomes, history
  <2> QED
    BY <2>2 DEF StartTool, IInv, EndedInv, InventoryInv, env, inventory, outcomes, history
<1>7. AttemptInv' /\ RawInv'
  <2>1. \A k \in Key : record'[k] # None /\ record'[k].status = "running" =>
          record'[k].attempt \in 1 .. attempts'
    BY <1>2, <1>4 DEF IInv, AttemptInv
  <2> QED
    BY <1>1, <1>2, <2>1 DEF StartTool, IInv, AttemptInv, RawInv, Underway, Judging, env,
       session, history
<1>8. DependencyInv' /\ OutcomesInv'
  BY <1>1 DEF StartTool, IInv, DependencyInv, OutcomesInv, DependenciesMet, env, session, outcomes
<1> QED
  BY <1>5, <1>6, <1>7, <1>8 DEF IInv

\* A tool ends in the record.
LEMMA ToolEndsStep == ASSUME IInv, ToolEnds PROVE IInv'
<1>1. PICK s \in Reports : raw' = s
  BY DEF ToolEnds
<1>2. pc = "tool" /\ pc' = "judge" /\ Underway /\ job \in Job
  BY DEF ToolEnds, At, Underway
<1>3. s \in Terminal /\ (s = "cancelled" => attempt \in Reasons)
  BY <1>2, ReportFacts
<1>4. TypeOK'
  BY <1>1, <1>2, <1>3
  DEF ToolEnds, IInv, TypeOK, env, disk, session, inventory, outcomes, history
<1>5. RunsInv' /\ EndedInv' /\ InventoryInv'
  BY DEF ToolEnds, IInv, RunsInv, EndedInv, DiscoveryJustified, InventoryInv, Reasons, Trusted,
     env, disk, session, inventory, outcomes, history
<1>6. AttemptInv'
  BY <1>2 DEF ToolEnds, IInv, AttemptInv, Underway, env, disk, session, history
<1>7. RawInv'
  BY <1>1, <1>2, <1>3 DEF ToolEnds, RawInv, Judging, Reasons, history
<1>8. DependencyInv' /\ OutcomesInv'
  BY <1>2 DEF ToolEnds, IInv, DependencyInv, OutcomesInv, DependenciesMet, env, session, outcomes
<1> QED
  BY <1>4, <1>5, <1>6, <1>7, <1>8 DEF IInv

\* The verdict is recorded together with what it is based on.
LEMMA JudgeStep == ASSUME IInv, Judge PROVE IInv'
<1> USE JobFacts
<1>1. PICK s \in Verdicts :
         /\ raw' = s /\ record' = [record EXCEPT ![job] = [status |-> s, attempt |-> attempt]]
         /\ judged' = IF s = "completed" THEN judged \cup {attempt} ELSE judged
  BY DEF Judge, Emit
<1>2. /\ pc = "judge" /\ pc' = "settle" /\ job \in Job /\ attempt \in 1 .. attempts
      /\ attempt' = attempt /\ attempts' = attempts
  BY DEF Judge, At, Underway, IInv, TypeOK, AttemptInv
<1>3. s \in Terminal /\ (s = "cancelled" => attempt \in Reasons)
  <2>1. raw \in Terminal /\ (raw = "cancelled" => attempt \in Reasons)
    BY <1>2 DEF IInv, RawInv, Judging
  <2>2. stopped => attempt \in Reasons
    BY DEF IInv, AttemptInv, Reasons
  <2> QED
    BY <2>1, <2>2 DEF Verdicts, Terminal
<1> DEFINE run == [status |-> s, attempt |-> attempt]
<1>4. run \in Run /\ run.status # "running" /\ Justified(run, Trusted', Reasons)
  BY <1>1, <1>2, <1>3 DEF Judge, Run, Attempt, Terminal, Justified, Trusted, env
<1>5. record' \in [Key -> Run \cup {None}]
      /\ \A k \in Key : record'[k] = IF k = job THEN run ELSE record[k]
  BY <1>1, <1>2, <1>4 DEF IInv, TypeOK
<1>6. /\ Reasons' = Reasons /\ Trusted \subseteq Trusted'
      /\ judged \cup whole \subseteq judged' \cup whole'
  BY <1>1, TrustedGrows DEF Judge, Reasons, env
<1>7. TypeOK'
  <2>1. judged' \subseteq 1 .. attempts
    BY <1>1, <1>2 DEF IInv, TypeOK
  <2> QED
    BY <1>1, <1>2, <1>3, <1>5, <2>1
    DEF Judge, IInv, TypeOK, env, session, inventory, outcomes
<1>8. RunsInv' /\ EndedInv' /\ InventoryInv'
  <2>1. DiscoveryJustified'
    <3>1. record'[Discovery] = record[Discovery]
      BY <1>2, <1>5
    <3> QED
      BY <1>6, <3>1, StillJustified DEF Judge, IInv, RunsInv, DiscoveryJustified, env
  <2>2. \A k \in Job : record'[k] # None => Justified(record'[k], Trusted', Reasons)
    BY <1>4, <1>5, <1>6, StillJustified DEF IInv, RunsInv
  <2>3. RunsInv'
    BY <1>6, <2>1, <2>2, StillJustified DEF Judge, IInv, RunsInv, session, inventory, outcomes
  <2> QED
    BY <1>6, <2>3 DEF Judge, IInv, EndedInv, InventoryInv, env, inventory, outcomes
<1>9. AttemptInv'
  BY <1>2, <1>4, <1>5 DEF Judge, IInv, AttemptInv, Underway, env, session
<1>10. RawInv'
  BY <1>1, <1>2, <1>3, <1>6 DEF RawInv, Judging
<1>11. DependencyInv' /\ OutcomesInv'
  BY <1>2 DEF Judge, IInv, DependencyInv, OutcomesInv, DependenciesMet, env, session, outcomes
<1> QED
  BY <1>7, <1>8, <1>9, <1>10, <1>11 DEF IInv

-----------------------------------------------------------------------------
(* Sessions and the environment.                                            *)

\* A new session knows the terminal runs of the record, or nothing.
LEMMA FreshStep ==
  ASSUME IInv, Fresh, pc' \in {"job", "idle"}, sessions' \in 0 .. MaxSessions,
         completed' \in [Job -> Run \cup {None}],
         \A k \in Job : completed'[k] # None => completed'[k] = record[k],
         stopRequest' \in {0, stopRequest},
         died' \in {died, TRUE},
         UNCHANGED <<plan, lost, attempts, disk, whole, judged, dismissed, asked, aborted, returned>>
  PROVE  IInv'
<1> USE JobFacts
<1>1. outcome' \in [Job -> Run \cup {None}] /\ \A k \in Job : outcome'[k] = None
  BY DEF Fresh, NoRuns
<1>2. /\ job' = 1 /\ cancelled' = FALSE /\ attempt' = 0 /\ stopped' = FALSE /\ raw' = "none"
      /\ extra' = None /\ pre' = None /\ prepared' = FALSE /\ surface' = None
      /\ checkpointErr' = FALSE
  BY DEF Fresh
<1>3. Trusted \subseteq Trusted'
  BY TrustedGrows DEF IInv, TypeOK
<1>4. TypeOK'
  <2>1. job' \in 1 .. (N + 1) /\ attempt' \in 0 .. attempts' /\ stopRequest' \in Attempt
    BY <1>2 DEF IInv, TypeOK, Attempt
  <2> QED
    BY <1>1, <1>2, <2>1 DEF IInv, TypeOK, disk
<1>5. RunsInv' /\ EndedInv' /\ InventoryInv'
  <2>1. DiscoveryJustified'
    BY DEF IInv, RunsInv, DiscoveryJustified, Reasons, Trusted, disk
  <2>2. \A k \in Job : completed'[k] # None => Justified(completed'[k], Trusted, Reasons)
    BY DEF IInv, RunsInv
  <2> QED
    BY <1>1, <1>2, <1>3, <2>1, <2>2, StillJustified
    DEF IInv, RunsInv, EndedInv, InventoryInv, Reasons, Trusted, disk
<1>6. AttemptInv' /\ RawInv'
  BY <1>2 DEF IInv, AttemptInv, RawInv, Underway, Judging, disk
<1>7. DependencyInv' /\ OutcomesInv'
  BY <1>2 DEF DependencyInv, OutcomesInv, Job
<1> QED
  BY <1>4, <1>5, <1>6, <1>7 DEF IInv

\* A session begins with nothing settled; a crash keeps the record and the files only.
LEMMA BeginAndCrashSteps == ASSUME IInv, Begin \/ Crash PROVE IInv'
<1> USE JobFacts, AssessmentJobsAssumption
<1>1. CASE Begin
  <2>1. sessions' \in 0 .. MaxSessions
    BY <1>1 DEF Begin, IInv, TypeOK
  <2>2. completed' \in [Job -> Run \cup {None}]
        /\ \A k \in Job : completed'[k] # None => completed'[k] = record[k]
    BY <1>1 DEF Begin, IInv, TypeOK
  <2> QED
    BY <1>1, <2>1, <2>2, FreshStep DEF Begin, history
<1>2. CASE Crash
  <2>1. sessions' \in 0 .. MaxSessions
    BY <1>2 DEF Crash, IInv, TypeOK
  <2> QED
    BY <1>2, <2>1, FreshStep DEF Crash, NoRuns, IInv, TypeOK
<1> QED
  BY <1>1, <1>2

\* A session that is refused settles every job at once.
LEMMA BeginRefusedStep == ASSUME IInv, BeginRefused PROVE IInv'
<1> USE JobFacts, AssessmentJobsAssumption
<1>1. NotRun("failed") \in Run /\ NotRun("failed").status = "failed"
  BY DEF NotRun, Run, Attempt, Terminal
<1>2. record' \in [Key -> Run \cup {None}] /\ record'[Discovery] = None
      /\ \A k \in Job : record'[k] = NotRun("failed")
  BY <1>1 DEF BeginRefused
<1>3. sessions' \in 0 .. MaxSessions /\ pc = "idle" /\ pc' = "over"
  BY DEF BeginRefused, IInv, TypeOK
<1>4. TypeOK'
  BY <1>2, <1>3 DEF BeginRefused, IInv, TypeOK, session, inventory, current, outcomes
<1>5. RunsInv' /\ EndedInv' /\ InventoryInv'
  BY <1>1, <1>2 DEF BeginRefused, IInv, RunsInv, EndedInv, InventoryInv, DiscoveryJustified,
     Justified, Reasons, Trusted, session, inventory, outcomes
<1>6. AttemptInv' /\ RawInv'
  BY <1>1, <1>2, <1>3 DEF BeginRefused, IInv, AttemptInv, RawInv, Underway, Judging, session, current
<1>7. DependencyInv' /\ OutcomesInv'
  BY <1>3 DEF BeginRefused, IInv, DependencyInv, OutcomesInv, session, outcomes
<1> QED
  BY <1>4, <1>5, <1>6, <1>7 DEF IInv

\* The results replace the record.
LEMMA ReturnStep == ASSUME None \notin Run, IInv, Return PROVE IInv'
<1> USE JobFacts
<1>1. PICK last \in {outcome[N], [outcome[N] EXCEPT !.status = "failed"]} :
         record' = [k \in Key |-> IF k = Discovery THEN extra
                                  ELSE IF k = N THEN last ELSE outcome[k]]
  BY DEF Return
<1>2. N \in Job /\ N < job /\ pc = "job" /\ pc' \in {"idle", "over"}
  BY DEF Return, Job
<1>3. outcome[N] \in Run /\ Justified(outcome[N], Trusted, Reasons)
      /\ outcome[N].status # "running"
  BY <1>2 DEF IInv, TypeOK, RunsInv, EndedInv, OutcomesInv
<1>4. last \in Run /\ Justified(last, Trusted, Reasons) /\ last.status # "running"
  BY <1>3 DEF Run, Justified, Terminal
<1>5. record' \in [Key -> Run \cup {None}] /\ record'[Discovery] = extra
      /\ \A k \in Job : record'[k] = IF k = N THEN last ELSE outcome[k]
  BY <1>1, <1>4 DEF IInv, TypeOK
<1>6. TypeOK'
  BY <1>2, <1>5 DEF Return, IInv, TypeOK, env, session, inventory, current, outcomes
<1>7. RunsInv' /\ EndedInv' /\ InventoryInv'
  <2>1. DiscoveryJustified'
    BY <1>5 DEF Return, IInv, RunsInv, DiscoveryJustified, Justified, Reasons, Trusted, env
  <2> QED
    BY <1>4, <1>5, <2>1 DEF Return, IInv, RunsInv, EndedInv, InventoryInv, Reasons, Trusted, env, session,
       inventory, outcomes
<1>8. AttemptInv'
  <2>1. \A k \in Key : record'[k] # None => record'[k].status # "running"
    BY <1>4, <1>5 DEF IInv, EndedInv
  <2> QED
    BY <1>2, <2>1 DEF Return, IInv, AttemptInv, Underway, env, session, current
<1>9. RawInv' /\ DependencyInv' /\ OutcomesInv'
  BY <1>2 DEF Return, IInv, RawInv, Judging, DependencyInv, OutcomesInv, session, outcomes
<1> QED
  BY <1>6, <1>7, <1>8, <1>9 DEF IInv

\* A pause cancels the context of the session.
LEMMA PauseStep == ASSUME IInv, Pause PROVE IInv'
<1> USE JobFacts
<1>1. Underway => attempt \in 1 .. attempts
  BY DEF IInv, TypeOK, AttemptInv
<1>2. Reasons \subseteq Reasons' /\ Trusted' = Trusted
  BY DEF Pause, Reasons, Trusted, env
<1>3. TypeOK'
  <2>1. aborted' \subseteq 1 .. attempts
    BY <1>1 DEF Pause, IInv, TypeOK
  <2> QED
    BY <2>1 DEF Pause, IInv, TypeOK, env, disk, inventory, current, outcomes
<1>4. RunsInv' /\ EndedInv' /\ InventoryInv'
  <2>1. DiscoveryJustified'
    BY <1>2, StillJustified DEF Pause, IInv, RunsInv, DiscoveryJustified, env, disk
  <2>2. RunsInv'
    BY <1>2, <2>1, StillJustified DEF Pause, IInv, RunsInv, disk, inventory, outcomes
  <2> QED
    BY <2>2 DEF Pause, IInv, EndedInv, InventoryInv, env, disk, inventory, outcomes
<1>5. AttemptInv'
  BY DEF Pause, IInv, AttemptInv, Underway, env, disk, current
<1>6. RawInv'
  BY <1>2 DEF Pause, IInv, RawInv, Judging, current
<1>7. DependencyInv' /\ OutcomesInv'
  BY DEF Pause, IInv, DependencyInv, OutcomesInv, DependenciesMet, env, outcomes
<1> QED
  BY <1>3, <1>4, <1>5, <1>6, <1>7 DEF IInv

\* A stop request finds a run in the record.
LEMMA StopLookupStep == ASSUME IInv, StopLookup PROVE IInv'
<1> USE JobFacts
<1>1. stopRequest' \in 1 .. attempts /\ asked' = asked \cup {stopRequest'}
  BY DEF StopLookup, IInv, AttemptInv
<1>2. Reasons \subseteq Reasons' /\ Trusted' = Trusted
  BY <1>1 DEF StopLookup, Reasons, Trusted
<1>3. TypeOK'
  <2>1. asked' \subseteq 1 .. attempts /\ stopRequest' \in Attempt
    BY <1>1 DEF IInv, TypeOK, Attempt
  <2> QED
    BY <2>1 DEF StopLookup, IInv, TypeOK, disk, session, inventory, current, outcomes
<1>4. RunsInv' /\ EndedInv' /\ InventoryInv'
  <2>1. DiscoveryJustified'
    BY <1>2, StillJustified DEF StopLookup, IInv, RunsInv, DiscoveryJustified, disk
  <2>2. RunsInv'
    BY <1>2, <2>1, StillJustified
    DEF StopLookup, IInv, RunsInv, disk, session, inventory, outcomes
  <2> QED
    BY <2>2 DEF StopLookup, IInv, EndedInv, InventoryInv, disk, inventory, outcomes
<1>5. AttemptInv'
  BY <1>1 DEF StopLookup, IInv, AttemptInv, Underway, disk, session, current
<1>6. RawInv'
  BY <1>2 DEF StopLookup, IInv, RawInv, Judging, current
<1>7. DependencyInv' /\ OutcomesInv'
  BY DEF StopLookup, IInv, DependencyInv, OutcomesInv, DependenciesMet, session, outcomes
<1> QED
  BY <1>3, <1>4, <1>5, <1>6, <1>7 DEF IInv

\* A stop request cancels the attempt it finds, if one is registered.
LEMMA StopCancelStep == ASSUME IInv, StopCancel PROVE IInv'
<1>1. TypeOK'
  BY DEF StopCancel, IInv, TypeOK, Attempt, disk, session, inventory, outcomes, history, Underway
<1>2. RunsInv' /\ EndedInv' /\ InventoryInv'
  BY DEF StopCancel, IInv, RunsInv, EndedInv, DiscoveryJustified, InventoryInv, Reasons, Trusted, disk,
     session, inventory, outcomes, history
<1>3. AttemptInv'
  BY DEF StopCancel, IInv, AttemptInv, Underway, disk, session, history
<1>4. RawInv' /\ DependencyInv' /\ OutcomesInv'
  BY DEF StopCancel, IInv, RawInv, Judging, Reasons, DependencyInv, OutcomesInv, DependenciesMet,
     session, outcomes, history
<1> QED
  BY <1>1, <1>2, <1>3, <1>4 DEF IInv

\* Evidence on disk changes between sessions.
LEMMA EvidenceLostStep == ASSUME IInv, EvidenceLost PROVE IInv'
<1>1. TypeOK'
  <2>1. lost' \subseteq 1 .. attempts
    BY DEF EvidenceLost, IInv, TypeOK
  <2> QED
    BY <2>1 DEF EvidenceLost, IInv, TypeOK, disk, session, inventory, current, outcomes, history
<1>2. RunsInv' /\ EndedInv' /\ InventoryInv'
  BY DEF EvidenceLost, IInv, RunsInv, EndedInv, DiscoveryJustified, InventoryInv, Reasons, Trusted, disk,
     session, inventory, outcomes, history
<1>3. AttemptInv' /\ RawInv'
  BY DEF EvidenceLost, IInv, AttemptInv, RawInv, Judging, Underway, Reasons, disk, session,
     current, history
<1>4. DependencyInv' /\ OutcomesInv'
  BY DEF EvidenceLost, IInv, DependencyInv, OutcomesInv, DependenciesMet, session, outcomes
<1> QED
  BY <1>1, <1>2, <1>3, <1>4 DEF IInv

\* Stuttering keeps the invariant.
LEMMA StutterStep == ASSUME IInv, UNCHANGED vars PROVE IInv'
<1> USE DEF vars, env, disk, session, inventory, current, outcomes, history
<1>1. TypeOK'
  BY DEF IInv, TypeOK
<1>2. RunsInv' /\ EndedInv' /\ InventoryInv'
  BY DEF IInv, RunsInv, EndedInv, DiscoveryJustified, InventoryInv, Reasons, Trusted
<1>3. AttemptInv' /\ RawInv'
  BY DEF IInv, AttemptInv, RawInv, Judging, Underway, Reasons
<1>4. DependencyInv' /\ OutcomesInv'
  BY DEF IInv, DependencyInv, OutcomesInv, DependenciesMet
<1> QED
  BY <1>1, <1>2, <1>3, <1>4 DEF IInv

-----------------------------------------------------------------------------
(* The verdict on the crawl.                                                *)

\* The crawl is asked for once: by the crawl job itself, or by a job behind it.
LEMMA PreparedStep == ASSUME IInv, VerdictInv, [Next]_vars PROVE PreparedInv'
<1> USE JobFacts
<1> SUFFICES ASSUME prepared', NEW c \in Job, plan'.kind[c] = "crawl"
             PROVE  c < job' \/ (c = job' /\ pc' = "crawlJob")
  BY DEF PreparedInv
<1>1. plan' = plan /\ job \in 1 .. (N + 1) /\ WellFormed(plan)
  BY AssessmentJobsAssumption
  DEF IInv, TypeOK, Next, Step, Environment, vars, env, RefuseJob, AuthenticationFails, Refuse,
      AuthJob, ReuseCrawl, SeedOnly, StartCrawl, CrawlEnds, CrawlJudged, CrawlJob, Proceed, Reuse,
      Unprepared, CancelledBeforeStart, StartTool, ToolEnds, Judge, Settle, Return, Begin,
      BeginRefused, Pause, Crash, StopLookup, StopCancel, EvidenceLost
<1>2. prepared => c < job \/ (c = job /\ pc = "crawlJob")
  BY <1>1 DEF VerdictInv, PreparedInv
<1>3. CASE RefuseJob \/ AuthenticationFails \/ AuthJob \/ CrawlJob \/ Reuse \/ Unprepared
           \/ CancelledBeforeStart \/ Settle
  <2>1. prepared' = prepared /\ job' = job + 1
    BY <1>3 DEF RefuseJob, AuthenticationFails, Refuse, AuthJob, CrawlJob, Reuse, Unprepared,
       CancelledBeforeStart, Settle, AppendOutcome
  <2> QED
    BY <1>1, <1>2, <2>1 DEF Job
<1>4. CASE ReuseCrawl \/ SeedOnly
  <2>1. /\ job \in Job /\ job' = job
        /\ pc' = IF Kind = "crawl" THEN "crawlJob" ELSE "ready"
        /\ (Kind = "crawl" \/ (Kind = "tool" /\ job \in plan.identity))
    BY <1>4, NeedFacts DEF ReuseCrawl, SeedOnly, NeedsSurface, Resume, session
  <2> QED
    BY <1>1, <2>1 DEF WellFormed, Kind, Job
<1>5. CASE CrawlJudged
  <2>1. job' = job /\ pc' = IF Kind = "crawl" THEN "crawlJob" ELSE "ready"
    BY <1>5 DEF CrawlJudged, Resume, session
  <2>2. job \in Job /\ (Kind = "crawl" \/ (Kind = "tool" /\ job \in plan.identity))
    BY <1>5 DEF CrawlJudged, IInv, VerdictInv, NeedInv, DependencyInv
  <2> QED
    BY <1>1, <2>1, <2>2 DEF WellFormed, Kind, Job
<1>6. CASE StartCrawl \/ Begin \/ Crash
  <2>1. CASE StartCrawl
    BY <2>1, PreparedOnce DEF StartCrawl, inventory
  <2> QED
    BY <1>6, <2>1 DEF Begin, Crash, Fresh
<1>7. CASE Proceed \/ StartTool \/ ToolEnds \/ Judge \/ CrawlEnds \/ Return \/ BeginRefused
           \/ Pause \/ StopLookup \/ StopCancel \/ EvidenceLost \/ UNCHANGED vars
  <2>1. prepared' = prepared /\ job' = job /\ (pc = "crawlJob" => pc' = pc)
    BY <1>7 DEF Proceed, StartTool, ToolEnds, Judge, CrawlEnds, Return, BeginRefused, Pause,
       StopLookup, StopCancel, EvidenceLost, At, vars, session, inventory
  <2> QED
    BY <1>2, <2>1
<1> QED
  BY <1>3, <1>4, <1>5, <1>6, <1>7 DEF Next, Step, Environment

\* The crawl is for the job that asked for it.
LEMMA NeedStep == ASSUME IInv, VerdictInv, [Next]_vars PROVE NeedInv'
<1> SUFFICES ASSUME pc' \in {"crawl", "crawled"}
             PROVE  (Kind = "crawl" \/ (Kind = "tool" /\ job \in plan.identity))'
  BY DEF NeedInv
<1>1. \/ StartCrawl
      \/ /\ pc \in {"crawl", "crawled"} /\ pc' \in {"crawl", "crawled"}
         /\ UNCHANGED <<plan, job>>
  BY DEF Next, Step, Environment, vars, env, session, RefuseJob, AuthenticationFails, Refuse,
     AuthJob, ReuseCrawl, SeedOnly, CrawlEnds, CrawlJudged, CrawlJob, Proceed, Reuse, Resume,
     AppendOutcome, Unprepared, CancelledBeforeStart, StartTool, ToolEnds, Judge, Settle, Return,
     Begin, BeginRefused, Pause, Crash, StopLookup, StopCancel, EvidenceLost
<1>2. CASE StartCrawl
  BY <1>2 DEF StartCrawl, NeedsSurface, Kind, env, session
<1> QED
  BY <1>1, <1>2 DEF VerdictInv, NeedInv, Kind

\* What the session takes from the record was accepted, unless a session has died.
LEMMA WindowStep == ASSUME None \notin Run, IInv, VerdictInv, [Next]_vars PROVE WindowInv'
<1> USE JobFacts
<1>1. CASE RefuseJob \/ AuthenticationFails \/ AuthJob \/ CrawlJob \/ Reuse \/ Unprepared
           \/ CancelledBeforeStart \/ Settle
  <2>1. /\ job \in Job /\ prepared' = prepared /\ pc' = "job" /\ Active /\ pc # "crawled"
        /\ UNCHANGED <<died, plan, judged>>
        /\ \/ record' = record
           \/ \E run : record' = [record EXCEPT ![job] = run]
    BY <1>1 DEF RefuseJob, AuthenticationFails, Refuse, AuthJob, CrawlJob, Reuse, Unprepared,
       CancelledBeforeStart, Settle, AppendOutcome, Emit, At, env, history, Active
  <2>2. record'[Discovery] = record[Discovery]
    BY <2>1 DEF IInv, TypeOK
  <2> QED
    BY <2>1, <2>2 DEF VerdictInv, WindowInv, Active
<1>2. CASE ReuseCrawl \/ SeedOnly
  BY <1>2 DEF ReuseCrawl, SeedOnly, Inventory, Resume, WindowInv, Active
<1>3. CASE CrawlJudged
  BY <1>3 DEF CrawlJudged, Inventory, Resume, WindowInv, Active
<1>4. CASE StartCrawl
  <2>1. [status |-> "running", attempt |-> attempts'] \in Run
    BY <1>4 DEF StartCrawl, Run, Attempt, IInv, TypeOK
  <2>2. record'[Discovery].status = "running"
    BY <1>4, <2>1 DEF StartCrawl, Emit, IInv, TypeOK
  <2> QED
    BY <2>2 DEF WindowInv
<1>5. CASE CrawlEnds
  <2>1. record'[Discovery].attempt = attempt
    BY <1>5 DEF CrawlEnds, Emit, IInv, TypeOK
  <2> QED
    BY <1>5, <2>1 DEF CrawlEnds, WindowInv
<1>6. CASE StartTool \/ Judge
  <2>1. /\ job \in Job /\ prepared' = prepared /\ Active /\ Active' /\ pc # "crawled"
        /\ UNCHANGED <<died, plan>> /\ judged \subseteq judged'
        /\ \E run : record' = [record EXCEPT ![job] = run]
    BY <1>6 DEF StartTool, Judge, At, Emit, inventory, env, history, Active
  <2>2. record'[Discovery] = record[Discovery]
    BY <2>1 DEF IInv, TypeOK
  <2> QED
    BY <2>1, <2>2 DEF VerdictInv, WindowInv
<1>7. CASE Return \/ BeginRefused
  <2>1. record'[Discovery] \in {None, extra} /\ died' = died /\ plan' = plan /\ judged' = judged
    BY <1>7 DEF Return, BeginRefused, env
  <2>2. extra # None => Justified(extra, Trusted, Reasons)
    BY DEF IInv, RunsInv
  <2> QED
    BY <2>1, <2>2 DEF WindowInv, Justified, Trusted
<1>8. CASE Begin
  BY <1>8 DEF Begin, VerdictInv, WindowInv, Active, disk, history
<1>9. CASE Crash
  BY <1>9 DEF Crash, WindowInv
<1>10. CASE Proceed \/ ToolEnds \/ Pause \/ StopLookup \/ StopCancel \/ EvidenceLost \/ UNCHANGED vars
  <2>1. /\ UNCHANGED <<record, died, plan, judged, prepared, attempt>>
        /\ (pc = "crawled" => pc' = pc) /\ (Active => Active')
    BY <1>10 DEF Proceed, ToolEnds, Pause, StopLookup, StopCancel, EvidenceLost, At, Active, vars,
       env, disk, inventory, current, history
  <2> QED
    BY <2>1 DEF VerdictInv, WindowInv
<1> QED
  BY <1>1, <1>2, <1>3, <1>4, <1>5, <1>6, <1>7, <1>8, <1>9, <1>10 DEF Next, Step, Environment

-----------------------------------------------------------------------------
\* The invariant that carries the theorems: RunAssessmentJobs accepts, cancels and skips only
\* with a reason, and keeps what it keeps in order.
LEMMA Inductive == ASSUME None \notin Run PROVE Spec => [](IInv /\ VerdictInv)
<1>1. Init => VerdictInv
  BY JobFacts DEF Init, VerdictInv, PreparedInv, WindowInv, NeedInv
<1>2. IInv /\ VerdictInv /\ [Next]_vars => (IInv /\ VerdictInv)'
  <2> SUFFICES ASSUME IInv, VerdictInv, [Next]_vars PROVE IInv' /\ VerdictInv'
    OBVIOUS
  <2>1. CASE Step
    BY <2>1, OutcomeSteps, ReuseCrawlStep, SeedOnlyStep, StartCrawlStep, CrawlEndsStep,
       CrawlJudgedStep, ProceedStep, StartToolStep, ToolEndsStep, JudgeStep, ReturnStep,
       PreparedStep, WindowStep, NeedStep DEF Step, VerdictInv
  <2>2. CASE Environment
    BY <2>2, BeginAndCrashSteps, BeginRefusedStep, PauseStep, StopLookupStep, StopCancelStep,
       EvidenceLostStep, PreparedStep, WindowStep, NeedStep DEF Environment, VerdictInv
  <2>3. CASE UNCHANGED vars
    BY <2>3, StutterStep, PreparedStep, WindowStep, NeedStep DEF VerdictInv
  <2> QED
    BY <2>1, <2>2, <2>3 DEF Next
<1> QED
  BY InitHolds, <1>1, <1>2, PTL DEF Spec

-----------------------------------------------------------------------------
(* The output of a crawl.                                                   *)

\* Until a session returns, crawl output on disk has its entry in the record, and a completed
\* entry stands for whole output.
CrawlInv ==
  /\ record[Discovery] = None => artifact = 0
  /\ record[Discovery] # None /\ record[Discovery].status = "completed" =>
        record[Discovery].attempt \in whole
  /\ surface \in whole \cup {0, None}
  /\ pc = "crawled" /\ raw = "completed" => attempt \in whole

\* The inventory comes from output that the record vouches for.
LEMMA CrawlStep ==
  ASSUME None \notin Run, IInv, ~ returned => CrawlInv, [Next]_vars
  PROVE  ~ returned' => CrawlInv'
<1> USE JobFacts
<1> SUFFICES ASSUME ~ returned' PROVE CrawlInv'
  OBVIOUS
<1>1. CASE Return \/ BeginRefused
  BY <1>1 DEF Return, BeginRefused
<1> SUFFICES ASSUME ~ Return, ~ BeginRefused, CrawlInv PROVE CrawlInv'
  <2>1. ASSUME ~ Return, ~ BeginRefused PROVE returned' = returned
    BY <2>1 DEF Next, Step, Environment, vars, history, RefuseJob, AuthenticationFails, Refuse, AuthJob,
       ReuseCrawl, SeedOnly, StartCrawl, CrawlEnds, CrawlJudged, CrawlJob, Proceed, Reuse,
       Unprepared, CancelledBeforeStart, StartTool, ToolEnds, Judge, Settle, Begin, Pause,
       Crash, StopLookup, StopCancel, EvidenceLost
  <2> QED
    BY <1>1, <2>1
<1>2. CASE RefuseJob \/ AuthenticationFails \/ AuthJob \/ CrawlJob \/ Reuse \/ Unprepared
           \/ CancelledBeforeStart \/ Settle
  <2>1. /\ job \in Job /\ surface' \in {0, surface} /\ pc' = "job"
        /\ artifact' = artifact /\ whole' = whole
        /\ \/ record' = record
           \/ \E run : record' = [record EXCEPT ![job] = run]
    BY <1>2 DEF RefuseJob, AuthenticationFails, Refuse, AuthJob, CrawlJob, Reuse, Unprepared,
       CancelledBeforeStart, Settle, AppendOutcome, Emit, At, history
  <2>2. record'[Discovery] = record[Discovery]
    BY <2>1 DEF IInv, TypeOK
  <2> QED
    BY <2>1, <2>2 DEF CrawlInv
<1>3. CASE ReuseCrawl
  <2>1. /\ surface' = Leftover /\ Leftover # 0 /\ pc' # "crawled"
        /\ UNCHANGED <<record, artifact, whole>>
    BY <1>3 DEF ReuseCrawl, Found, Inventory, Resume, history
  <2>2. artifact = Leftover /\ CrawlEvidenceReusable
    BY <2>1 DEF Leftover
  <2>3. artifact \in whole
    BY <2>1, <2>2 DEF CrawlEvidenceReusable, CrawlInv
  <2> QED
    BY <2>1, <2>2, <2>3 DEF CrawlInv
<1>4. CASE SeedOnly
  <2>1. artifact' \in {0, artifact} /\ surface' = 0 /\ pc' # "crawled"
        /\ UNCHANGED <<record, whole>>
    BY <1>4 DEF SeedOnly, Leftover, Inventory, Resume, history
  <2> QED
    BY <2>1 DEF CrawlInv
<1>5. CASE StartCrawl
  <2>1. /\ record'[Discovery] # None /\ record'[Discovery].status = "running"
        /\ pc' = "crawl" /\ UNCHANGED <<surface, whole>>
    <3>1. [status |-> "running", attempt |-> attempts'] \in Run
      BY <1>5 DEF StartCrawl, Run, Attempt, IInv, TypeOK
    <3> QED
      BY <1>5, <3>1 DEF StartCrawl, Emit, IInv, TypeOK, inventory
  <2> QED
    BY <2>1 DEF CrawlInv
<1>6. CASE CrawlEnds
  <2>1. PICK s \in Reports :
           /\ raw' = s
           /\ record' = [record EXCEPT ![Discovery] = [status |-> s, attempt |-> attempt]]
           /\ whole' = IF s = "completed" THEN whole \cup {attempt} ELSE whole
    BY <1>6 DEF CrawlEnds, Emit
  <2>2. [status |-> s, attempt |-> attempt] \in Run
    BY DEF Reports, Run, Terminal, Attempt, IInv, TypeOK
  <2>3. record'[Discovery] = [status |-> s, attempt |-> attempt] /\ record'[Discovery] # None
    BY <2>1, <2>2 DEF IInv, TypeOK
  <2> QED
    BY <1>6, <2>1, <2>3 DEF CrawlEnds, CrawlInv, inventory
<1>7. CASE CrawlJudged
  <2>1. PICK s : /\ s = "completed" => raw = "completed"
                 /\ Inventory(IF s = "completed" THEN attempt ELSE 0)
    BY <1>7 DEF CrawlJudged
  <2>2. surface' \in whole \cup {0}
    BY <1>7, <2>1 DEF CrawlJudged, CrawlInv, Inventory
  <2> QED
    BY <1>7, <2>2 DEF CrawlJudged, CrawlInv, Resume
<1>8. CASE StartTool \/ Judge
  <2>1. /\ job \in Job /\ pc' # "crawled" /\ UNCHANGED <<artifact, surface, whole>>
        /\ \E run : record' = [record EXCEPT ![job] = run]
    BY <1>8 DEF StartTool, Judge, At, Emit, inventory, history
  <2>2. record'[Discovery] = record[Discovery]
    BY <2>1 DEF IInv, TypeOK
  <2> QED
    BY <2>1, <2>2 DEF CrawlInv
<1>9. CASE Begin \/ Crash
  BY <1>9 DEF Begin, Crash, Fresh, CrawlInv, disk, history
<1>10. CASE Proceed \/ ToolEnds \/ Pause \/ StopLookup \/ StopCancel \/ EvidenceLost \/ UNCHANGED vars
  BY <1>10 DEF Proceed, ToolEnds, Pause, StopLookup, StopCancel, EvidenceLost, CrawlInv, vars,
     disk, inventory, current, history
<1> QED
  BY <1>2, <1>3, <1>4, <1>5, <1>6, <1>7, <1>8, <1>9, <1>10 DEF Next, Step, Environment

\* Crashes alone never turn the output of a killed crawl into an inventory: as long as no session
\* has returned, RunAssessmentJobs finds the crawl's entry and discards what it does not cover.
THEOREM KilledCrawlIsDiscarded == ASSUME None \notin Run PROVE Spec => []KilledCrawlDiscarded
<1>1. Init => (~ returned => CrawlInv)
  BY JobFacts DEF Init, CrawlInv
<1>2. (~ returned => CrawlInv) => KilledCrawlDiscarded
  BY DEF CrawlInv, KilledCrawlDiscarded, Truncated
<1>3. None \notin Run
  OBVIOUS
<1>4. IInv /\ (~ returned => CrawlInv) /\ [Next]_vars => (~ returned => CrawlInv)'
  BY <1>3, CrawlStep
<1> QED
  BY Inductive, <1>1, <1>2, <1>4, PTL DEF Spec

\* Every reachable state of the executor, the record and the disk is well typed.
THEOREM TypeCorrect == ASSUME None \notin Run PROVE Spec => []TypeOK
<1>1. IInv => TypeOK
  BY DEF IInv
<1> QED
  BY Inductive, <1>1, PTL

\* For any plan, session, crash and loss of evidence, a run that the record or the executor
\* keeps as completed was accepted by the executor's own verdict. A crawl is in the record as
\* completed before that verdict, so after the death of a session a whole crawl without
\* credentials may count without one; a tool, a crawl with credentials and any run before the
\* first death may not.
THEOREM CompletedWasAccepted == ASSUME None \notin Run PROVE Spec => []CompletedIsAccepted
<1>1. IInv => CompletedIsAccepted
  BY DEF IInv, RunsInv, CompletedIsAccepted, Accepted, Justified
<1> QED
  BY Inductive, <1>1, PTL

\* A tool runs only after each of its prerequisites completed and was accepted.
THEOREM PrerequisitesHold == ASSUME None \notin Run PROVE Spec => []PrerequisitesCompleted
<1>1. IInv => PrerequisitesCompleted
  <2> SUFFICES ASSUME IInv, pc \in {"tool", "judge"}, NEW d \in plan.deps[job]
               PROVE  outcome[d] # None /\ outcome[d].status = "completed"
                      /\ Accepted(outcome[d])
    BY DEF PrerequisitesCompleted
  <2>1. plan \in Plan /\ job \in Job
    BY AssessmentJobsAssumption DEF IInv, TypeOK, DependencyInv
  <2>2. d \in Job
    BY <2>1 DEF Plan
  <2>3. outcome[d] # None /\ outcome[d].status = "completed"
    BY DEF IInv, DependencyInv, DependenciesMet
  <2> QED
    BY <2>2, <2>3 DEF IInv, RunsInv, Accepted, Justified
<1> QED
  BY Inductive, <1>1, PTL

\* An attempt is recorded as cancelled only if the user asked to stop it, or the session was
\* cancelled while it was under way; a late stop request hits no other attempt.
THEOREM CancelledHasAReason == ASSUME None \notin Run PROVE Spec => []CancelledForAReason
<1>1. IInv => CancelledForAReason
  BY JobFacts DEF IInv, RunsInv, DiscoveryJustified, CancelledForAReason, Justified, Reasons, Trusted
<1> QED
  BY Inductive, <1>1, PTL
=============================================================================
