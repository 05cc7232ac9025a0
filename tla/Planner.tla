------------------------------ MODULE Planner ------------------------------
(***************************************************************************)
(* The plan of a typed assessment: PlanAssessment                          *)
(* (internal/scanner/planner.go) with the registry, the stage ladder, the  *)
(* preparation of approved destinations, form-fuzz jobs, TLS services and  *)
(* named identities; the validation of the configuration; and the preview  *)
(* and start handlers that build the plan twice.                           *)
(*                                                                         *)
(* An operator edits a draft, looks at its plan and starts it, while tools *)
(* come and go on the host and credentials are rotated.  Reasons, coverage *)
(* lines and the order of decisions are left out, and so are scanners that *)
(* differ from a modelled one in name only.                                *)
(***************************************************************************)
EXTENDS Naturals, Sequences

CONSTANTS
  Target,     \* target IDs
  TargetKind, \* of a target: "url", "domain" or "host"
  Services,   \* the HTTPS origins in the scope of a target
  Discovered, \* targets whose ID begins with "discovered-"
  Drafts,     \* what the operator begins with
  MaxEdits,   \* edits of the draft
  MaxChanges, \* changes of the host: its tools, their versions, the credentials
  NoPlan

Type == {"network", "web", "api"}
Web == {"web", "api"}

-----------------------------------------------------------------------------
(* The registry and the stage ladder. *)

Entry(types, kinds, needs, default) ==
  [types |-> types, kinds |-> kinds, needs |-> needs, default |-> default]

RegistryID == {"subfinder", "amass", "dnsx", "httpx", "nmap", "nuclei", "apichecks",
  "nextjs-assets", "testssl", "sslyze", "dalfox", "wapiti"}

ScannerRegistry ==
  [s \in RegistryID |->
     CASE s = "subfinder" -> Entry(Type, {"domain"}, "network", "conditional")
       [] s = "amass"     -> Entry(Web, {"domain"}, "network", "optional")
       [] s = "dnsx"      -> Entry(Web, {"domain", "host"}, "network", "automatic")
       [] s = "httpx"     -> Entry(Web, {"domain", "url", "host"}, "web", "automatic")
       [] s = "nmap"      -> Entry({"network"}, {"domain", "host"}, "network", "automatic")
       [] s \in {"nuclei", "apichecks"} ->
            Entry(Web, {"url", "domain", "host"}, "web", "automatic")
       [] s = "nextjs-assets" -> Entry(Web, {"url", "domain", "host"}, "web", "optional")
       [] s = "testssl"   ->
            Entry({"web", "network"}, {"url", "domain", "host"}, "network", "automatic")
       [] s = "sslyze"    -> Entry(Web, {"url", "domain", "host"}, "network", "optional")
       [] s = "dalfox"    -> Entry(Web, {"url"}, "web", "optional")
       [] s = "wapiti"    -> Entry({"web"}, {"url"}, "web", "optional")]

\* Jobs of the workflow and of approvals.
WorkflowScanner == {"auth", "katana", "apiwrites", "nextjs-actions", "nextjs-boundaries"}
Scanner == RegistryID \cup WorkflowScanner

webWorkflowScanner(s) == s # "nmap"
identityRoutedScanner(s) == s \in {"auth", "nuclei", "wapiti", "dalfox"}

stageOrder ==
  <<"scope", "discovery", "dns", "reachability", "auth", "crawl", "inventory",
    "passive", "templates", "tls", "dast", "validation", "write", "results">>

Ladder == {stageOrder[i] : i \in DOMAIN stageOrder}
stageRank(stage) == CHOOSE i \in DOMAIN stageOrder : stageOrder[i] = stage

stagePrerequisites ==
  [stage \in Ladder |->
     CASE stage = "scope" -> {}
       [] stage = "discovery" -> {"scope"}
       [] stage = "dns" -> {"discovery"}
       [] stage = "reachability" -> {"dns"}
       [] stage \in {"auth", "tls"} -> {"reachability"}
       [] stage = "crawl" -> {"auth"}
       [] stage = "inventory" -> {"crawl"}
       [] stage \in {"passive", "templates", "dast", "validation"} -> {"inventory"}
       [] stage = "write" -> {"validation"}
       [] stage = "results" ->
            {"passive", "templates", "tls", "dast", "validation", "write"}]

stageForScanner(s) ==
  CASE s \in {"subfinder", "amass"} -> "discovery"
    [] s = "dnsx" -> "dns"
    [] s \in {"httpx", "nmap"} -> "reachability"
    [] s = "auth" -> "auth"
    [] s = "katana" -> "crawl"
    [] s = "nuclei" -> "templates"
    [] s \in {"testssl", "sslyze"} -> "tls"
    [] s \in {"dalfox", "apichecks"} -> "validation"
    [] s \in {"apiwrites", "nextjs-actions", "nextjs-boundaries"} -> "write"
    [] s = "nextjs-assets" -> "passive"
    [] OTHER -> "dast"

\* What a walk from a stage to the stages it consumes meets, which goes on from each stage that
\* is not closed.
Upstream(own, closed, stage) ==
  LET visit[rank \in DOMAIN stageOrder] ==
        UNION {own[p] \cup (IF p \in closed THEN {} ELSE visit[stageRank(p)]) :
                 p \in stagePrerequisites[stageOrder[rank]]}
  IN visit[stageRank(stage)]

-----------------------------------------------------------------------------
(* The configuration. Identity 0 is the unnamed one, and a fuzz approval is *)
(* a target with a name of its own.                                         *)

Draft == [
  targets : SUBSET Target, types : SUBSET Type,
  mode : {"black", "gray"}, testEnv : BOOLEAN,
  unified : BOOLEAN, revised : BOOLEAN, deep : BOOLEAN,
  names : [Target -> SUBSET (0..2)],
  writes : SUBSET Target, fuzz : SUBSET (Target \X (STRING \ {"-"})),
  actions : SUBSET Target, boundaries : SUBSET Target,
  custom : BOOLEAN, variants : SUBSET RegistryID,
  subdomain : BOOLEAN, providers : SUBSET {"subfinder", "amass"},
  tls : {"none", "testssl", "sslyze"}]

ASSUME PlannerAssumption ==
  /\ TargetKind \in [Target -> {"url", "domain", "host"}]
  /\ Drafts \subseteq Draft
  /\ MaxEdits \in Nat /\ MaxChanges \in Nat

\* Validate: what blocks a plan.
UnknownAccess(d) ==
  \E t \in Target : d.names[t] # {} /\ (t \notin d.targets \/ TargetKind[t] # "url")

\* A write is bound to an API definition, and so to a URL target.
WriteRefused(d) ==
  LET targets == d.writes \cup {f[1] : f \in d.fuzz} IN
  \/ targets # {} /\ (~ d.testEnv \/ d.mode = "black" \/ "api" \notin d.types)
  \/ \E t \in targets : t \notin d.targets \/ TargetKind[t] # "url"
  \/ d.fuzz # {} /\ ~ d.unified

CampaignRefused(d) ==
  LET targets == d.actions \cup d.boundaries IN
  \/ targets # {} /\ (~ d.testEnv \/ d.mode = "black" \/ ~ d.unified
                      \/ d.types \cap Web = {})
  \/ \E t \in targets : t \notin d.targets \/ TargetKind[t] # "url"
  \/ \E t \in d.actions : d.names[t] \subseteq {0}

ModeRefused(d) ==
  d.mode = "black" /\ (d.testEnv \/ \E t \in Target : d.names[t] # {})

SelectionRefused(d) ==
  \/ d.providers # {} /\ ~ d.subdomain
  \/ d.providers # {} /\ \A t \in d.targets : TargetKind[t] # "domain"
  \/ d.custom /\ d.variants = {}

Blocked(d) ==
  \/ d.types = {} \/ d.targets = {}
  \/ UnknownAccess(d) \/ WriteRefused(d) \/ CampaignRefused(d)
  \/ ModeRefused(d) \/ SelectionRefused(d)

-----------------------------------------------------------------------------
(* Decisions. *)

Planned == {"selected", "conditional"}

\* DeriveCapabilities: a host proves no web service.
Capabilities(t) ==
  CASE TargetKind[t] = "url" -> {"web"}
    [] TargetKind[t] = "domain" -> {"network", "web"}
    [] TargetKind[t] = "host" -> {"network"}

\* The web of a domain is declared only. testssl needs no network of a URL.
eligibility(available, s, t) ==
  LET def == ScannerRegistry[s] IN
  IF s \notin available THEN "unavailable"
  ELSE IF def.needs \notin Capabilities(t) /\ ~ (s = "testssl" /\ TargetKind[t] = "url")
       THEN "not_applicable"
  ELSE IF def.default = "optional" THEN "optional"
  ELSE IF def.needs = "web" /\ TargetKind[t] = "domain" THEN "conditional"
  ELSE "selected"

\* providerSelections
Chosen(d) == d.providers \cup ({d.tls} \ {"none"})
Replaced(d) ==
  (IF d.providers = {} THEN {} ELSE {"subfinder", "amass"} \ d.providers)
  \cup (IF d.tls = "none" THEN {} ELSE {"testssl", "sslyze"} \ {d.tls})

\* The operator asked for an optional scanner.
Asked(d, s) ==
  \/ s = "nextjs-assets" /\ d.deep /\ ~ d.custom
  \/ d.custom /\ s \in d.variants /\ (s = "subfinder" => d.subdomain)
  \/ s \in Chosen(d)

\* The selection keeps the scanner.
Kept(d, s) ==
  \/ s \in Chosen(d)
  \/ IF d.custom THEN s \in d.variants
     ELSE ScannerRegistry[s].default # "optional" \/ (s = "nextjs-assets" /\ d.deep)

DecisionState(d, available, s, t) ==
  LET eligible == eligibility(available, s, t)
      offered == IF s = "subfinder" /\ eligible # "unavailable"
                 THEN IF d.subdomain THEN "conditional" ELSE "optional"
                 ELSE eligible
      state == IF offered = "optional" /\ Asked(d, s) THEN "selected" ELSE offered
  IN CASE s \in Replaced(d) /\ state \in Planned \cup {"optional"} -> "skipped"
       [] state \in Planned /\ ~ Kept(d, s) -> "skipped"
       [] OTHER -> state

\* A scanner is decided on for each of its targets and requested types.
Considered(d, s, t, type) ==
  /\ t \in d.targets /\ TargetKind[t] \in ScannerRegistry[s].kinds
  /\ type \in d.types \cap ScannerRegistry[s].types
  /\ ~ (s = "apichecks" /\ type = "web" /\ ~ d.deep /\ s \notin d.variants)

RegistryDecisions(d, available) ==
  {[scanner |-> a[1], target |-> a[2], types |-> {a[3]},
    state |-> DecisionState(d, available, a[1], a[2])] :
     a \in {a \in RegistryID \X Target \X Type : Considered(d, a[1], a[2], a[3])}}

-----------------------------------------------------------------------------
(* Jobs. A job is identified by what its ID is made of: scanner, target,    *)
(* the service or approval it is for, and the identity it runs with.        *)

PlanJob(s, t, part, types, state) ==
  [scanner |-> s, target |-> t, part |-> part, context |-> 0, types |-> types,
   state |-> state, deps |-> {}]

ID(job) == <<job.scanner, job.target, job.part, job.context>>
FuzzApprovalID(job) == job.scanner = "wapiti" /\ job.part # "-"
StageOf(job) == IF FuzzApprovalID(job) THEN "write" ELSE stageForScanner(job.scanner)

StateOf(available, s) == IF s \in available THEN "selected" ELSE "unavailable"

\* appendPlanJob: one job of a scanner and target, whatever types ask for it.
RegistryJobs(decisions) ==
  {LET same == {e \in decisions : e.scanner = d.scanner /\ e.target = d.target
                                  /\ e.state \in Planned}
   IN PlanJob(d.scanner, d.target, "-", UNION {e.types : e \in same},
              IF \E e \in same : e.state = "selected" THEN "selected" ELSE "conditional") :
     d \in {d \in decisions : d.state \in Planned}}

WorkflowTargets(d) == IF d.types \cap Web = {} THEN {} ELSE d.targets

CrawlDecisions(d, available) ==
  {[scanner |-> "katana", target |-> t, types |-> {}, state |-> StateOf(available, "katana")] :
     t \in WorkflowTargets(d)}

WorkflowJobs(d, available) ==
  {PlanJob("auth", t, "-", {}, "selected") : t \in {t \in WorkflowTargets(d) : d.names[t] # {}}}
  \cup {PlanJob("katana", t, "-", {}, StateOf(available, "katana")) : t \in WorkflowTargets(d)}

\* ensureApprovedDiscoveryPreparation: approved destinations are resolved and probed, whatever
\* the selection says.
Preparations(d) ==
  IF ~ d.unified \/ ~ d.revised THEN {}
  ELSE {a \in {"dnsx", "httpx"} \X (d.targets \cap Discovered) :
          /\ a[1] = "dnsx" => TargetKind[a[2]] = "host"
          /\ a[1] = "httpx" => d.types \cap Web # {}
          /\ TargetKind[a[2]] \in {"url", "host"}}

PreparationType(d) ==
  IF "web" \in d.types THEN "web" ELSE IF "api" \in d.types THEN "api" ELSE "network"

PreparedDecisions(d, available, decisions) ==
  LET prepared == Preparations(d)
      Of(e) == <<e.scanner, e.target>>
  IN {IF Of(e) \in prepared THEN [e EXCEPT !.state = StateOf(available, e.scanner)] ELSE e :
        e \in decisions}
     \cup {[scanner |-> a[1], target |-> a[2], types |-> {PreparationType(d)},
            state |-> StateOf(available, a[1])] :
             a \in {a \in prepared : \A e \in decisions : Of(e) # a}}

PreparedJobs(d, available, jobs) ==
  jobs \cup {PlanJob(a[1], a[2], "-", {PreparationType(d)}, StateOf(available, a[1])) :
               a \in {a \in Preparations(d) :
                        \A j \in jobs : <<j.scanner, j.target>> # a}}

\* appendFuzzJobs
FuzzJobs(d, available) ==
  {PlanJob("wapiti", f[1], f[2], {"api"}, StateOf(available, "wapiti")) : f \in d.fuzz}

Approvals(d) ==
  {<<"apiwrites", t>> : t \in d.writes} \cup {<<"nextjs-actions", t>> : t \in d.actions}
  \cup {<<"nextjs-boundaries", t>> : t \in d.boundaries}

ApprovalDecisions(d, available) ==
  {[scanner |-> a[1], target |-> a[2],
    types |-> IF a[1] = "apiwrites" THEN {"api"} ELSE Web,
    state |-> StateOf(available, a[1])] : a \in Approvals(d)}

ApprovalJobs(d, available) ==
  {PlanJob(a[1], a[2], "-", IF a[1] = "apiwrites" THEN {"api"} ELSE {"web"},
           StateOf(available, a[1])) : a \in Approvals(d)}

\* expandTLSServiceJobs: one job for each HTTPS service; none is a job that is skipped.
expandTLSServiceJobs(d, jobs) ==
  UNION {IF j.scanner \notin {"testssl", "sslyze"} \/ d.types \cap Web = {} THEN {j}
         ELSE IF Services[j.target] = {} THEN {[j EXCEPT !.state = "skipped"]}
         ELSE {[j EXCEPT !.part = service] : service \in Services[j.target]} : j \in jobs}

\* expandIdentityJobs: the first identity of a target is that of its ordinary jobs.
FurtherIdentities(d, t) ==
  {n \in d.names[t] : \E first \in d.names[t] : first < n}

expandIdentityJobs(d, jobs) ==
  jobs \cup
  IF ~ d.unified THEN {}
  ELSE UNION {{[j EXCEPT !.context = n] : n \in FurtherIdentities(d, j.target)} :
                j \in {j \in jobs : identityRoutedScanner(j.scanner) /\ ~ FuzzApprovalID(j)}}

\* Mutant: an empty stage is not looked through, so what comes before it is not waited for.
DependenciesNextStageOnly(jobs, job) ==
  {ID(j) : j \in {j \in jobs : /\ webWorkflowScanner(j.scanner)
                               /\ j.target = job.target /\ j.context = job.context
                               /\ StageOf(j) \in stagePrerequisites[StageOf(job)]}}

\* assignStages: prerequisites are the jobs of the target and identity in the stages a stage
\* consumes; a stage without such jobs is looked through.
Dependencies(jobs, job) ==
  LET peers == {j \in jobs : /\ webWorkflowScanner(j.scanner)
                             /\ j.target = job.target /\ j.context = job.context}
      own == [stage \in Ladder |-> {j \in peers : StageOf(j) = stage}]
      closed == {stage \in Ladder : own[stage] # {}}
  IN IF webWorkflowScanner(job.scanner)
     THEN {ID(j) : j \in Upstream(own, closed, StageOf(job))} ELSE {}

assignStages(jobs) == {[j EXCEPT !.deps = Dependencies(jobs, j)] : j \in jobs}

PlanAssessment(d, available) ==
  LET registry == RegistryDecisions(d, available)
      first == registry \cup CrawlDecisions(d, available)
      prepared == PreparedJobs(d, available, RegistryJobs(registry) \cup WorkflowJobs(d, available))
      jobs == prepared \cup FuzzJobs(d, available) \cup ApprovalJobs(d, available)
  IN IF Blocked(d) THEN [errors |-> TRUE, decisions |-> {}, jobs |-> {}]
     ELSE [errors |-> FALSE,
           decisions |-> PreparedDecisions(d, available, first) \cup ApprovalDecisions(d, available),
           jobs |-> assignStages(expandIdentityJobs(d, expandTLSServiceJobs(d, jobs)))]

-----------------------------------------------------------------------------
(* The draft, its preview and its start. *)

VARIABLES
  draft,     \* what the operator has on the screen
  edits,     \* edits of it
  available, \* tools of the host
  version,   \* of the tools and the credentials
  changes,   \* of the host
  preview,   \* the last preview
  accepted   \* the plan that was started

plannerVars == <<draft, edits, available, version, changes, preview, accepted>>

\* Mutant: the digest leaves out the jobs and decisions the plan came to.
planFingerprintOfInput(d, plan, ver) == <<d, ver>>

\* planFingerprint: a digest, which stands for what is digested.
planFingerprint(d, plan, ver) == <<d, plan.decisions, plan.jobs, ver>>

PlanOf(d, tools, ver) ==
  LET plan == PlanAssessment(d, tools)
  IN [draft |-> d, plan |-> plan, fingerprint |-> planFingerprint(d, plan, ver)]

PlannerTypeOK ==
  /\ draft \in Draft
  /\ edits \in 0..MaxEdits
  /\ available \subseteq Scanner
  /\ version \in 0..changes
  /\ changes \in 0..MaxChanges
  /\ \A p \in {preview, accepted} : p # NoPlan =>
       /\ p.draft \in Draft
       /\ \A e \in p.plan.decisions : e.scanner \in Scanner /\ e.target \in p.draft.targets
       /\ \A j \in p.plan.jobs :
            j.scanner \in Scanner /\ j.target \in p.draft.targets /\ j.context \in 0..2

PlannerStartsFrom(drafts, tools) ==
  /\ draft \in drafts
  /\ edits = 0
  /\ available = tools
  /\ version = 0
  /\ changes = 0
  /\ preview = NoPlan
  /\ accepted = NoPlan

PlannerInit == PlannerStartsFrom(Drafts, Scanner)

\* The operator changes one thing; the page drops the preview.
Edit(d) ==
  /\ accepted = NoPlan
  /\ edits < MaxEdits
  /\ draft' = d
  /\ edits' = edits + 1
  /\ preview' = NoPlan
  /\ UNCHANGED <<available, version, changes, accepted>>

EditScope == \E x \in Target :
  Edit([draft EXCEPT !.targets = IF x \in @ THEN @ \ {x} ELSE @ \cup {x}])

EditTypes == \E x \in Type :
  Edit([draft EXCEPT !.types = IF x \in @ THEN @ \ {x} ELSE @ \cup {x}])

EditPolicy ==
  \/ Edit([draft EXCEPT !.mode = IF @ = "black" THEN "gray" ELSE "black"])
  \/ Edit([draft EXCEPT !.testEnv = ~ @])
  \/ Edit([draft EXCEPT !.unified = ~ @])
  \/ Edit([draft EXCEPT !.deep = ~ @])

EditAccess == \E t \in Target, n \in 0..2 :
  TargetKind[t] = "url" /\ Edit([draft EXCEPT !.names[t] = IF n \in @ THEN @ \ {n} ELSE @ \cup {n}])

EditApprovals ==
  \/ draft.writes # {} /\ Edit([draft EXCEPT !.writes = {}])
  \/ draft.fuzz # {} /\ Edit([draft EXCEPT !.fuzz = {}])
  \/ draft.actions # {} /\ Edit([draft EXCEPT !.actions = {}])
  \/ draft.boundaries # {} /\ Edit([draft EXCEPT !.boundaries = {}])

EditSelection ==
  \/ Edit([draft EXCEPT !.custom = ~ @])
  \/ \E p \in {"none", "testssl", "sslyze"} : Edit([draft EXCEPT !.tls = p])
  \/ Edit([draft EXCEPT !.subdomain = ~ @])
  \/ \E p \in {{}, {"amass"}, {"subfinder", "amass"}} : Edit([draft EXCEPT !.providers = p])

\* A tool disappears, with or without a new version of another one.
HostChanges ==
  /\ accepted = NoPlan
  /\ changes < MaxChanges
  /\ changes' = changes + 1
  /\ \/ /\ \E s \in available \ {"auth", "apiwrites"} : available' = available \ {s}
        /\ UNCHANGED version
     \/ version' = version + 1 /\ UNCHANGED available
  /\ UNCHANGED <<draft, edits, preview, accepted>>

\* handleAssessmentPlan
PreviewPlan ==
  /\ accepted = NoPlan
  /\ preview' = PlanOf(draft, available, version)
  /\ UNCHANGED <<draft, edits, available, version, changes, accepted>>

\* handleScan: the plan is built again and must be the one that was shown.
Runnable(plan) == {j \in plan.jobs : j.state \in Planned}

StartPlan ==
  LET now == PlanOf(draft, available, version) IN
  /\ accepted = NoPlan
  /\ preview # NoPlan
  /\ ~ now.plan.errors
  /\ now.fingerprint = preview.fingerprint
  /\ Runnable(now.plan) # {}
  /\ accepted' = now
  /\ UNCHANGED <<draft, edits, available, version, changes, preview>>

PlannerNext ==
  \/ EditScope \/ EditTypes \/ EditPolicy \/ EditAccess \/ EditApprovals \/ EditSelection
  \/ HostChanges \/ PreviewPlan \/ StartPlan

PlannerSpec == PlannerInit /\ [][PlannerNext]_plannerVars

-----------------------------------------------------------------------------
\* The stages that come before another one on the ladder of prerequisites.
Earlier(stage) == Upstream([p \in Ladder |-> {p}], {}, stage)

\* The order of a plan lets the executor go through it once: job IDs are unique, a dependency is
\* a job of the plan for the same target and identity, in an earlier stage (planner.go: "Every
\* dependency points at a strictly earlier stage"), and whatever stages are empty, a job
\* waits for each job of its target and identity whose outputs its stage builds on, through
\* its dependencies if not itself.  A target is crawled by one job at most.
Executable(jobs) ==
  /\ \A j, k \in jobs : ID(j) = ID(k) => j = k
  /\ \A j \in jobs : \A id \in j.deps : \E k \in jobs :
       /\ ID(k) = id /\ k.target = j.target /\ k.context = j.context
       /\ stageRank(StageOf(k)) < stageRank(StageOf(j))
  /\ \A j, k \in {j \in jobs : webWorkflowScanner(j.scanner)} :
       k.target = j.target /\ k.context = j.context /\ StageOf(k) \in Earlier(StageOf(j)) =>
         \/ ID(k) \in j.deps
         \/ \E via \in jobs : ID(via) \in j.deps /\ StageOf(k) \in Earlier(StageOf(via))
  /\ \A j, k \in jobs : j.scanner = "katana" /\ k.scanner = "katana" /\ j.target = k.target => j = k

PlanIsExecutable == preview # NoPlan => Executable(preview.plan.jobs)

\* What runs is what the operator saw and allowed.  The accepted plan is the one of the preview,
\* although the server built it anew on a host that may have changed; each of its jobs is for a
\* target of the scope, with a tool that is there, an identity bound to the target and a
\* decision that says so; a job that may change the target's state has its approval, in a test
\* environment; an alternative that was replaced does not run, and Subfinder only with the
\* permission to enumerate.
StartIsApproved ==
  accepted # NoPlan =>
    LET d == accepted.draft IN
    /\ accepted.plan = preview.plan
    /\ \A j \in Runnable(accepted.plan) :
         /\ j.target \in d.targets /\ j.scanner \in available
         /\ j.context # 0 => j.context \in d.names[j.target]
         /\ StageOf(j) = "write" =>
              /\ d.testEnv /\ d.mode # "black"
              /\ <<j.scanner, j.target>> \in Approvals(d) \/ <<j.target, j.part>> \in d.fuzz
         /\ j.scanner \notin Replaced(d)
         /\ j.scanner = "subfinder" => d.subdomain
         /\ j.scanner = "auth" \/ FuzzApprovalID(j)
            \/ \E e \in accepted.plan.decisions :
                 e.scanner = j.scanner /\ e.target = j.target /\ e.state \in Planned
    /\ \A e \in accepted.plan.decisions : e.state \in Planned =>
         \E j \in accepted.plan.jobs : j.scanner = e.scanner /\ j.target = e.target

\* The executor can go through a plan once, and what is started is what the operator saw and
\* allowed.
PlanIsHonoured == PlanIsExecutable /\ StartIsApproved
=============================================================================
