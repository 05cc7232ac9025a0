--------------------------- MODULE MCAssessment ---------------------------
(***************************************************************************)
(* What a typed assessment consists of, checked as a disjoint sum: its job *)
(* executor, the approved revisions of its scope, the ZAP daemon its jobs  *)
(* share, and the plan from the draft to its start.  The first state       *)
(* chooses one of them, only that one moves, and of the others nothing is  *)
(* asked.  The modules are extended, so that the proofs are about the same *)
(* invariants.                                                             *)
(***************************************************************************)
EXTENDS MCAssessmentJobs, DiscoveryRevisions, ZapService, Planner

VARIABLE part

\* One list names a candidate twice, one names both.
Selections == {<<"x">>, <<"x", "x">>, <<"y", "x">>}

\* Two URLs, one of them without TLS, a domain and a discovered host.
PlanTargets == {"site", "plain", "dom", "discovered-host"}
PlanKinds ==
    "site" :> "url" @@ "plain" :> "url" @@ "dom" :> "domain" @@ "discovered-host" :> "host"
PlanServices ==
    "site" :> {"https://a", "https://a:8443"} @@ "plain" :> {} @@ "dom" :> {"https://d"}
    @@ "discovered-host" :> {"https://h"}

\* Everything is approved for a URL with a further identity.
Approving ==
    [targets |-> {"site", "dom"}, types |-> {"web", "api"}, mode |-> "gray", testEnv |-> TRUE,
     unified |-> TRUE, revised |-> FALSE, deep |-> FALSE,
     names |-> [t \in PlanTargets |-> IF t = "site" THEN {0, 1} ELSE {}],
     writes |-> {"site"}, fuzz |-> {<<"site", "f1">>, <<"site", "f2">>},
     actions |-> {"site"}, boundaries |-> {"site"},
     custom |-> FALSE, variants |-> {"nuclei", "dalfox", "testssl"},
     subdomain |-> TRUE, providers |-> {}, tls |-> "none"]

\* A revision with a discovered host and a scanner selection of its own.
Revised ==
    [Approving EXCEPT !.targets = {"plain", "discovered-host"}, !.types = {"web"},
        !.mode = "black", !.testEnv = FALSE, !.revised = TRUE,
        !.names = [t \in PlanTargets |-> {}], !.writes = {}, !.fuzz = {}, !.actions = {},
        !.boundaries = {}, !.custom = TRUE, !.subdomain = FALSE]

\* Every type, with providers chosen for discovery and TLS.
Providing ==
    [Revised EXCEPT !.targets = {"dom", "site"}, !.types = {"network", "web", "api"},
        !.revised = FALSE, !.unified = FALSE, !.deep = TRUE, !.custom = FALSE,
        !.subdomain = TRUE, !.providers = {"amass"}, !.tls = "sslyze"]

PlanDrafts == {Approving, Revised, Providing}

-----------------------------------------------------------------------------
InitSum ==
    /\ part \in {"jobs", "revisions", "zap", "planner"}
    /\ Init /\ RevisionsInit /\ ZapInit
    /\ part # "jobs" => plan = IdentityPlan
    /\ IF part = "planner" THEN PlannerInit ELSE PlannerStartsFrom({NoPlan}, {})

JobsMove ==
    /\ part = "jobs" /\ Next
    /\ UNCHANGED <<part, revisionVars, zapVars, plannerVars>>

RevisionsMove ==
    /\ part = "revisions" /\ RevisionsNext
    /\ UNCHANGED <<part, vars, zapVars, plannerVars>>

ZapMoves ==
    /\ part = "zap" /\ ZapNext
    /\ UNCHANGED <<part, vars, revisionVars, plannerVars>>

PlannerMoves ==
    /\ part = "planner" /\ PlannerNext
    /\ UNCHANGED <<part, vars, revisionVars, zapVars>>

NextSum == JobsMove \/ RevisionsMove \/ ZapMoves \/ PlannerMoves

SpecSum == InitSum /\ [][NextSum]_<<part, vars, revisionVars, zapVars, plannerVars>>

-----------------------------------------------------------------------------
\* Every component stays well typed (the TypeOK of each module).
TypesOK ==
    /\ TypeOK
    /\ part = "revisions" => RevisionsTypeOK
    /\ part = "zap" => ZapTypeOK
    /\ part = "planner" => PlannerTypeOK
=============================================================================
