------------------------- MODULE DiscoveryRevisions -------------------------
(***************************************************************************)
(* Destinations that a scan discovers and an operator approves:            *)
(* scanner/discovery_revision.go, the handler in web/discovery_revision.go *)
(* and the gate in handleScan (web/server.go) that starts the revised      *)
(* assessment.                                                             *)
(*                                                                         *)
(* The candidates come from the record of the parent scan, which later     *)
(* sessions replace. A client reads a preview of them, posts a selection   *)
(* with the fingerprint of the preview, and later asks for the start of a  *)
(* plan; the only thing that links the two requests is a revision file in  *)
(* the directory of the parent. Fingerprints are modelled by what they     *)
(* digest. The handler holds a mutex of its own process and nothing else:  *)
(* sessions, restarts and deletions go on between its steps.               *)
(***************************************************************************)
EXTENDS Naturals, Sequences, SequencesExt

CONSTANTS Candidate,      \* what scanners can discover outside the scope
          MaxWorld,       \* bound: changes of what the planner looks at
          Selection,      \* lists of candidates that clients select, none empty
          MaxApprovals    \* bound: different approvals of the parent

Preview == SUBSET Candidate

VARIABLES status,      \* of the parent: running, stopped (also when finished), deleted, or
                       \* halted: deleted under a session that has not ended
          found,       \* candidates in the parent's record
          planner,     \* tool versions, availability and credential revisions
          shown,       \* previews that clients were shown, and may post
          approving,   \* the POST that holds discoveryRevisionMu, after its checks
          revisions,   \* files in revisions/ of the parent
          answered,    \* history: revisions that clients were answered with
          confirmed,   \* history: previews and selections that clients confirmed
          started      \* history: the plan of the revised assessment started last, if any

revisionVars ==
    <<status, found, planner, shown, approving, revisions, answered, confirmed, started>>

AssessmentPlan == [targets : Seq(Candidate), preview : Preview, writes : BOOLEAN,
                   planner : 0 .. MaxWorld]

\* What SaveDiscoveryRevision keeps for a plan; AcceptedAt is left out.
Revision == [plan : AssessmentPlan, selected : Selection]

NoRevision == <<>>

RevisionsInit ==
    /\ status = "running"
    /\ found = {}
    /\ planner = 0
    /\ shown = {}
    /\ approving = NoRevision
    /\ revisions = {}
    /\ answered = {}
    /\ confirmed = {}
    /\ started = {}

-----------------------------------------------------------------------------
(* The parent scan and the process *)

\* There is a record for findScanByID to return.
HasRecord == status \in {"running", "stopped"}

\* A session saves its results, in place of those that earlier ones left. The save of a
\* halted one works only if a job has made the directory anew.
ParentSaves ==
    /\ status \in {"running", "halted"}
    /\ \E results \in SUBSET Candidate :
           \/ found' = results /\ status' \in {"stopped", status} \ {"halted"}
           \/ status = "halted" /\ status' = "deleted" /\ UNCHANGED found
    /\ UNCHANGED <<planner, shown, approving, revisions, answered, confirmed, started>>

\* A resume; the record keeps what the last session found until the next save.
ParentResumes ==
    /\ status = "stopped"
    /\ status' = "running"
    /\ UNCHANGED <<found, planner, shown, approving, revisions, answered, confirmed, started>>

\* The scan is deleted with its directory, and the approvals in it.
ParentDeleted ==
    /\ HasRecord
    /\ status' = IF status = "running" THEN "halted" ELSE "deleted"
    /\ revisions' = {} /\ answered' = {}
    /\ UNCHANGED <<found, planner, shown, approving, confirmed, started>>

\* A tool is updated, or a credential replaced.
WorldChanges ==
    /\ planner < MaxWorld
    /\ planner' = planner + 1
    /\ UNCHANGED <<status, found, shown, approving, revisions, answered, confirmed, started>>

\* The server dies and starts again; a request in progress is gone.
Restart ==
    /\ approving' = NoRevision
    /\ status' = CASE status = "running" -> "stopped"
                   [] status = "halted" -> "deleted"
                   [] OTHER -> status
    /\ UNCHANGED <<found, planner, shown, revisions, answered, confirmed, started>>

-----------------------------------------------------------------------------
(* GET and POST of /api/scans/{id}/discovery *)

\* The preview of what is in the record now, if there is anything to approve.
GetPreview ==
    /\ approving = NoRevision /\ HasRecord /\ found # {}
    /\ shown' = shown \cup {found}
    /\ UNCHANGED <<status, found, planner, approving, revisions, answered, confirmed, started>>

\* A configuration gets each selected candidate once, in the order of the selection.
Destinations(selected) ==
    FoldLeft(LAMBDA targets, c : IF Contains(targets, c) THEN targets ELSE Append(targets, c),
             <<>>, selected)

\* Nothing is lost when the repetitions of a list are dropped.
ASSUME SelectionAssumption == \A s \in Selection : ToSet(Destinations(s)) = ToSet(s)

\* ApproveDiscoveryConfig and buildAssessmentPlan. The approvals of API writes and of form
\* fuzzing are not copied (those of Next.js checks are, and the plan shows them).
RevisedPlan(preview, selected) ==
    [targets |-> Destinations(selected), preview |-> preview, writes |-> FALSE,
     planner |-> planner]

\* Mutant of PreviewIsCurrent: the identifiers are taken whatever preview they are from.
PreviewIsUnchecked(posted) == TRUE

\* The fingerprint a client posts is that of the preview the handler computes.
PreviewIsCurrent(posted) == posted = found

\* The checks of POST. The record is read once, the plan built from it.
Post(posted, selected) ==
    /\ approving = NoRevision
    /\ status = "stopped"
    /\ PreviewIsCurrent(posted)
    /\ ToSet(selected) \subseteq found
    /\ approving' = [plan |-> RevisedPlan(found, selected), selected |-> selected]
    /\ confirmed' = confirmed \cup {[preview |-> posted, selected |-> selected]}
    /\ Cardinality(confirmed') <= MaxApprovals
    /\ UNCHANGED <<status, found, planner, shown, revisions, answered, started>>

\* The file of a plan, which os.Link creates but never replaces.
RevisionOf(plan) == {r \in revisions : r.plan = plan}

\* The handler is done, and answers with the revision only if all went well.
Reply(ok) ==
    /\ answered' = IF ok THEN answered \cup {approving} ELSE answered
    /\ approving' = NoRevision

\* SaveDiscoveryRevision of a plan with no file yet. It may fail before the link, or
\* after it, when the directory cannot be synced.
SaveNew ==
    /\ approving # NoRevision /\ RevisionOf(approving.plan) = {}
    /\ \/ \E ok \in BOOLEAN : revisions' = revisions \cup {approving} /\ Reply(ok)
       \/ UNCHANGED revisions /\ Reply(FALSE)
    /\ UNCHANGED <<status, found, planner, shown, confirmed, started>>

\* The file exists: the same approval again is answered as the first was, any other is
\* refused.
SaveAgain ==
    /\ approving # NoRevision /\ RevisionOf(approving.plan) # {}
    /\ Reply(approving \in revisions)
    /\ UNCHANGED <<status, found, planner, shown, revisions, confirmed, started>>

-----------------------------------------------------------------------------
(* POST of /api/scan with a parent *)

\* LoadDiscoveryRevision, for the fingerprint of the plan.
HasRevision(plan) == RevisionOf(plan) # {}

\* A client asks for any configuration it likes, and names the plan that is built from
\* it now; the start needs the file of exactly this plan.
Start(plan) ==
    /\ HasRecord
    /\ plan.planner = planner
    /\ HasRevision(plan)
    /\ started' = {plan}
    /\ UNCHANGED <<status, found, planner, shown, approving, revisions, answered, confirmed>>

\* Plans a client may name: what it holds or can derive from it by an edit.
Named ==
    {[targets |-> t, preview |-> p, writes |-> w, planner |-> planner] :
         t \in {Destinations(s) : s \in Selection}, p \in Preview, w \in BOOLEAN}

RevisionsNext ==
    \/ ParentSaves \/ ParentResumes \/ ParentDeleted \/ WorldChanges \/ Restart
    \/ GetPreview
    \/ \E posted \in shown, selected \in Selection : Post(posted, selected)
    \/ SaveNew \/ SaveAgain
    \/ \E plan \in Named : Start(plan)

RevisionsSpec == RevisionsInit /\ [][RevisionsNext]_revisionVars

-----------------------------------------------------------------------------
RevisionsTypeOK ==
    /\ status \in {"running", "stopped", "halted", "deleted"}
    /\ found \in Preview
    /\ planner \in 0 .. MaxWorld
    /\ shown \subseteq Preview
    /\ approving = NoRevision \/ approving \in Revision
    /\ revisions \subseteq Revision
    /\ answered \subseteq Revision
    /\ confirmed \subseteq [preview : Preview, selected : Selection]
    /\ started \subseteq AssessmentPlan

\* A revised assessment has the destinations that some client selected from a preview it
\* was shown, and no consent to write, whatever the parent, the other clients and the
\* server did between the preview, the approval and the start.
StartedAsApproved ==
    \A plan \in started :
        /\ ~plan.writes
        /\ \E c \in confirmed :
               /\ plan.preview = c.preview
               /\ ToSet(plan.targets) = ToSet(c.selected)
               /\ ToSet(c.selected) \subseteq c.preview

\* An approval that was answered stays on disk as it was answered, until the parent is
\* deleted: no later approval replaces it.
AnswerIsKept ==
    answered \subseteq revisions

ApprovalIsBinding == StartedAsApproved /\ AnswerIsKept

=============================================================================
