--------------------------- MODULE NextjsActions ---------------------------
(***************************************************************************)
(* Server Action campaigns: nextjsActionsRunner (scanner/nextjs_actions.go)*)
(* over the write journal of the assessment.                               *)
(*                                                                         *)
(* A campaign is a baseline case, which its owner may perform, followed by *)
(* cases that must be denied; every case is one POST that may change a     *)
(* controlled resource of the target, framed by checks of the resource and *)
(* by a cleanup. The campaigns of an assessment form one sequence of       *)
(* cases. An attempt is an execution of the job; attempts may overlap and  *)
(* die, and all of them use one journal, whose calls WriteJournal models   *)
(* in detail: here each is one step that succeeds or fails.                *)
(***************************************************************************)
EXTENDS Naturals

CONSTANTS LastCase,   \* the cases are 1 .. LastCase, in the order of their execution
          Baseline,   \* the first case of every campaign; case 1 is one
          Runner      \* attempts at the job

\* There is a case, and the baselines are cases.
ASSUME CaseAssumption == LastCase \in Nat \ {0} /\ Baseline \subseteq 1 .. LastCase

Case == 1 .. LastCase

\* campaign.approval.Cases[0] of the campaign of case k.
BaselineOf(k) == CHOOSE b \in Baseline : b <= k /\ \A d \in Baseline : d <= k => d <= b

VARIABLES writes,      \* the journal's entry of every case
          runner,      \* per attempt: control point, case, and its local variables
          findings,    \* cases in findings.jsonl, of all attempts
          accepted,    \* what the target's access control lets through; never changes
          resource,    \* the controlled resource: "ready" or "changed"
          inFlight,    \* actions whose connection was given up
          sent         \* history: how often a case was handed to the network

actionVars == <<writes, runner, findings, accepted, resource, inFlight, sent>>

targetVars == <<accepted, resource, inFlight, sent>>

NewRunner == [pc |-> "idle", case |-> 1, observed |-> "unknown", clean |-> FALSE,
              baseline |-> FALSE]

ActionsStartFrom(access, state) ==
    /\ writes = [k \in Case |-> "absent"]
    /\ runner = [r \in Runner |-> NewRunner]
    /\ findings = {}
    /\ accepted = access /\ resource = state
    /\ inFlight = {}
    /\ sent = [k \in Case |-> 0]

ActionsInit ==
    \E access \in SUBSET Case, state \in {"ready", "changed"} : ActionsStartFrom(access, state)

Proceed(r, label) == runner' = [runner EXCEPT ![r].pc = label]

\* The case an attempt is at.
CaseOf(r) == runner[r].case

-----------------------------------------------------------------------------
(* Before the first case *)

\* RunAssessmentJobs refuses every write while one is unresolved.
BeginCampaigns(r) ==
    /\ runner[r].pc = "idle"
    /\ Proceed(r, IF \E k \in Case : writes[k] \in {"intent", "sent"} THEN "over" ELSE "load")
    /\ UNCHANGED <<writes, findings, targetVars>>

\* "Any prior case intent refuses the whole replay before a new baseline runs."
LoadCampaigns(r) ==
    /\ runner[r].pc = "load"
    /\ Proceed(r, IF \E k \in Case : writes[k] # "absent" THEN "over" ELSE "ready")
    /\ UNCHANGED <<writes, findings, targetVars>>

-----------------------------------------------------------------------------
(* One case *)

\* Mutant: the state of the resource is not asked for before the action.
StateIsUnchecked(r) == runner[r].clean \in BOOLEAN
StateIsReady(r) == resource = "ready"

\* The resource is ready and the acting identity is still logged in.
CheckReady(r) ==
    /\ runner[r].pc = "ready" /\ StateIsReady(r)
    /\ Proceed(r, "intent")
    /\ UNCHANGED <<writes, findings, targetVars>>

\* A call of the journal moves the entry on only from the state before. One that fails may have
\* moved it all the same, when the directory could not be synced.
CaseCall(r, from, to, next) ==
    /\ \/ /\ writes[CaseOf(r)] = from
          /\ writes' = [writes EXCEPT ![CaseOf(r)] = to]
          /\ runner' = [runner EXCEPT ![r] = next]
       \/ /\ \/ UNCHANGED writes
             \/ writes[CaseOf(r)] = from /\ writes' = [writes EXCEPT ![CaseOf(r)] = to]
          /\ Proceed(r, "over")
    /\ UNCHANGED <<findings, targetVars>>

RecordCaseIntent(r) ==
    /\ runner[r].pc = "intent"
    /\ CaseCall(r, "absent", "intent", [runner[r] EXCEPT !.pc = "action"])

\* What an action that arrives does to the resource.
Effect(k) == IF k \in accepted THEN "changed" ELSE resource

HandsCaseOver(r) == sent' = [sent EXCEPT ![CaseOf(r)] = @ + 1]

SendAction(r) ==
    /\ runner[r].pc = "action"
    /\ HandsCaseOver(r)
    /\ resource' = Effect(CaseOf(r))
    /\ Proceed(r, "sent")
    /\ UNCHANGED <<writes, findings, accepted, inFlight>>

\* No answer: the runner stops without a cleanup. The action may still arrive.
ActionLost(r) ==
    /\ runner[r].pc = "action"
    /\ HandsCaseOver(r)
    /\ inFlight' = inFlight \cup {CaseOf(r)}
    /\ Proceed(r, "over")
    /\ UNCHANGED <<writes, findings, accepted, resource>>

ArriveAction(k) ==
    /\ k \in inFlight
    /\ resource' = Effect(k)
    /\ inFlight' = inFlight \ {k}
    /\ UNCHANGED <<writes, runner, findings, accepted, sent>>

MarkCaseSent(r) ==
    /\ runner[r].pc = "sent"
    /\ CaseCall(r, "intent", "sent", [runner[r] EXCEPT !.pc = "observe"])

Reading == IF resource = "changed" THEN "allow" ELSE "deny"

\* The answer could not be read, the state not be verified, or the acting session has ended; then
\* nothing was observed. The cleanup follows in any case.
Observe(r) ==
    /\ runner[r].pc = "observe"
    /\ \E seen \in {Reading, "unknown"} :
         runner' = [runner EXCEPT ![r].observed = seen, ![r].pc = "cleanup"]
    /\ UNCHANGED <<writes, findings, targetVars>>

\* The cleanup may fail, be refused, or answer 2xx without resetting anything.
SendCaseCleanup(r) ==
    /\ runner[r].pc = "cleanup"
    /\ resource' \in {"ready", resource}
    /\ \E ok \in BOOLEAN :
         runner' = [runner EXCEPT ![r].clean = ok, ![r].pc = IF ok THEN "reset" ELSE "mark"]
    /\ UNCHANGED <<writes, findings, accepted, inFlight, sent>>

CheckResource(r) ==
    /\ runner[r].pc = "reset"
    /\ \E ok \in {FALSE, resource = "ready"} :
         runner' = [runner EXCEPT ![r].clean = ok, ![r].pc = "mark"]
    /\ UNCHANGED <<writes, findings, targetVars>>

\* journal.MarkCleanup: a call that fails makes the cleanup a failed one.
MarkCaseCleanup(r) ==
    /\ runner[r].pc = "mark"
    /\ LET outcome == IF runner[r].clean THEN "cleanup_done" ELSE "cleanup_failed"
           marked  == [writes EXCEPT ![CaseOf(r)] = outcome]
       IN \/ writes' = marked /\ Proceed(r, "judge")
          \/ /\ writes' \in {writes, marked}
             /\ runner' = [runner EXCEPT ![r].clean = FALSE, ![r].pc = "judge"]
    /\ UNCHANGED <<findings, targetVars>>

\* Mutant: the baseline counts as confirmed when its cleanup is.
BaselineConfirmedMutant(r) == IF CaseOf(r) \in Baseline THEN runner[r].clean ELSE runner[r].baseline
BaselineConfirmed(r) ==
    IF CaseOf(r) \in Baseline THEN runner[r].observed = "allow" /\ runner[r].clean
                              ELSE runner[r].baseline

IsFinding(r) ==
    BaselineConfirmed(r) /\ CaseOf(r) \notin Baseline /\ runner[r].observed = "allow"

\* The next case is taken only after a proven baseline, a verified cleanup and an observation.
GoesOn(r) == BaselineConfirmed(r) /\ runner[r].clean /\ runner[r].observed # "unknown"

JudgeCase(r) ==
    /\ runner[r].pc = "judge"
    /\ findings' = findings \cup (IF IsFinding(r) THEN {CaseOf(r)} ELSE {})
    /\ runner' = [runner EXCEPT ![r] =
         IF GoesOn(r) /\ CaseOf(r) < LastCase
         THEN [NewRunner EXCEPT !.pc = "ready", !.case = CaseOf(r) + 1,
                                !.baseline = BaselineConfirmed(r)]
         ELSE [@ EXCEPT !.pc = "over"]]
    /\ UNCHANGED <<writes, targetVars>>

\* The process dies, or a check, a budget, a credential or an evidence file fails where that
\* ends the run.
StopCampaigns(r) ==
    /\ runner[r].pc \notin {"idle", "over"}
    /\ Proceed(r, "over")
    /\ UNCHANGED <<writes, findings, targetVars>>

RunnerStep(r) ==
    \/ BeginCampaigns(r) \/ LoadCampaigns(r) \/ CheckReady(r) \/ RecordCaseIntent(r)
    \/ SendAction(r) \/ ActionLost(r) \/ MarkCaseSent(r) \/ Observe(r) \/ SendCaseCleanup(r)
    \/ CheckResource(r) \/ MarkCaseCleanup(r) \/ JudgeCase(r) \/ StopCampaigns(r)

ActionsNext == \/ \E r \in Runner : RunnerStep(r)
               \/ \E k \in Case : ArriveAction(k)

ActionsSpec == ActionsInit /\ [][ActionsNext]_actionVars

-----------------------------------------------------------------------------
ActionsTypeOK ==
    /\ writes \in [Case -> {"absent", "intent", "sent", "cleanup_done", "cleanup_failed"}]
    /\ runner \in [Runner -> [pc : {"idle", "load", "ready", "intent", "action", "sent", "observe",
                                    "cleanup", "reset", "mark", "judge", "over"},
                              case : Case, observed : {"allow", "deny", "unknown"},
                              clean : BOOLEAN, baseline : BOOLEAN]]
    /\ findings \subseteq Case /\ accepted \subseteq Case /\ inFlight \subseteq Case
    /\ resource \in {"ready", "changed"}
    /\ sent \in [Case -> Nat]

\* A finding is true and earned: the target let a case through that it had to deny, and before
\* that the same campaign's baseline changed the resource and was cleaned up
\* (nextjs_actions.go:361).
FindingIsProven == \A k \in findings :
    /\ {k, BaselineOf(k)} \subseteq accepted /\ k \notin Baseline
    /\ writes[BaselineOf(k)] = "cleanup_done"

\* A case is sent once, whichever attempts overlap, and only on a resource that nothing sent
\* before has left changed.
SentOnceOnReady ==
    [][\A k \in Case : sent'[k] # sent[k] => sent[k] = 0 /\ resource = "ready"]_actionVars
=============================================================================
