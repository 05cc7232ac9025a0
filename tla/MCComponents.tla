--------------------------- MODULE MCComponents ---------------------------
(***************************************************************************)
(* The components that share no state with each other, checked as a        *)
(* disjoint sum: the first state chooses one of them, only that one moves, *)
(* and the others keep their initial state.  Their modules are extended,   *)
(* so that the invariants are those the proofs are about.                  *)
(***************************************************************************)
EXTENDS ActiveTests, AuthSession, Scheduler, ScanProgress, TLC

CONSTANTS j1, j2, j3

VARIABLE part

\* Two hosts, a heavy, a light and a deselected scanner, one pair that does not apply.
TwoHosts == <<"a", "b">>
ThreeRunners == <<"zap", "nuclei", "trivy">>
OneUnsuited == {<<"b", "nuclei">>}

\* Two targets, and so many runs that each can be interrupted.
TwoTargets == <<<<"a", "b", "c">>, <<"x", "y">>>>

\* Two identities that log in, one of them with a header as well; a job without identity takes
\* the first, and shares its refresher with another.
TwoIdentities == <<"a", "b">>
ThreeBindings == <<[identity |-> "a", kind |-> "form"], [identity |-> "b", kind |-> "form"],
                   [identity |-> "a", kind |-> "header"]>>
ThreeJobs == (j1 :> None) @@ (j2 :> "a") @@ (j3 :> "b")

componentVars ==
    <<part, scheduleVars, pipelineVars, fuzzVars, wildcardVars, authVars, gvmVars,
      actionVars, boundaryVars>>

-----------------------------------------------------------------------------
InitSum ==
    /\ part \in {"scheduler", "pipeline", "fuzz", "wildcard", "auth", "greenbone", "actions",
               "boundaries"}
    /\ IF part = "scheduler" THEN ScheduleInit ELSE StartFrom([s \in Schedule |-> Absent])
    /\ PipelineInit /\ Init /\ WildcardInit /\ AuthInit
    /\ GreenboneInit
    /\ IF part = "actions" THEN ActionsInit ELSE ActionsStartFrom({}, "ready")
    /\ IF part = "boundaries" THEN BoundariesInit ELSE BoundariesStartFrom({}, {})

SchedulerMoves ==
    /\ part = "scheduler" /\ ScheduleNext
    /\ UNCHANGED <<part, pipelineVars, fuzzVars, wildcardVars, authVars, gvmVars,
                   actionVars, boundaryVars>>

PipelineMoves ==
    /\ part = "pipeline" /\ PipelineNext
    /\ UNCHANGED <<part, scheduleVars, fuzzVars, wildcardVars, authVars, gvmVars,
                   actionVars, boundaryVars>>

FuzzMoves ==
    /\ part = "fuzz" /\ Next
    /\ UNCHANGED <<part, scheduleVars, pipelineVars, wildcardVars, authVars,
                   gvmVars, actionVars, boundaryVars>>

WildcardMoves ==
    /\ part = "wildcard" /\ WildcardNext
    /\ UNCHANGED <<part, scheduleVars, pipelineVars, fuzzVars, authVars, gvmVars,
                   actionVars, boundaryVars>>

AuthMoves ==
    /\ part = "auth" /\ AuthNext
    /\ UNCHANGED <<part, scheduleVars, pipelineVars, fuzzVars, wildcardVars,
                   gvmVars, actionVars, boundaryVars>>

GreenboneMoves ==
    /\ part = "greenbone" /\ GreenboneNext
    /\ UNCHANGED <<part, scheduleVars, pipelineVars, fuzzVars, wildcardVars, authVars,
                   actionVars, boundaryVars>>

ActionsMoves ==
    /\ part = "actions" /\ ActionsNext
    /\ UNCHANGED <<part, scheduleVars, pipelineVars, fuzzVars, wildcardVars, authVars,
                   gvmVars, boundaryVars>>

BoundariesMoves ==
    /\ part = "boundaries" /\ BoundariesNext
    /\ UNCHANGED <<part, scheduleVars, pipelineVars, fuzzVars, wildcardVars, authVars,
                   gvmVars, actionVars>>

NextSum == SchedulerMoves \/ PipelineMoves \/ FuzzMoves \/ WildcardMoves \/ AuthMoves
           \/ GreenboneMoves \/ ActionsMoves \/ BoundariesMoves

\* The scheduler's goroutine runs, as in ScheduleFairness; nothing else is assumed.
Fairness == WF_componentVars(
    /\ part = "scheduler" /\ Scheduling
    /\ UNCHANGED <<part, pipelineVars, fuzzVars, wildcardVars, authVars, gvmVars,
                   actionVars, boundaryVars>>)

SpecSum == InitSum /\ [][NextSum]_componentVars /\ Fairness

-----------------------------------------------------------------------------
\* Every component stays well typed (the TypeOK of each module).
Types ==
    /\ part = "scheduler" => ScheduleTypeOK
    /\ part = "pipeline" => PipelineTypeOK
    /\ part = "fuzz" => TypeOK
    /\ part = "wildcard" => WildcardTypeOK
    /\ part = "auth" => AuthTypeOK
    /\ part = "greenbone" => GreenboneTypeOK
    /\ part = "actions" => ActionsTypeOK
    /\ part = "boundaries" => BoundariesTypeOK

\* Nothing comes to a halt: a slot of a schedule that is due is served, and a session of the
\* pipeline that has begun can always go on (Scheduler!DueIsServed, ScanPipeline!NeverStuck).
NothingHalts == DueIsServed /\ [](part = "pipeline" => NeverStuck)
=============================================================================
