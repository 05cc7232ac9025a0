------------------------------- MODULE FormFuzz -------------------------------
(***************************************************************************)
(* A campaign of approved form fuzzing: runWapitiPost                      *)
(* (scanner/wapiti_post.go) behind its recording gateway                   *)
(* (scanner/recording_gateway.go), with the entry of the campaign in the   *)
(* write journal and the resources it created cleaned up at the end.       *)
(*                                                                         *)
(* The fuzzer is a process that sends POST requests to the gateway, which  *)
(* serves each in a goroutine of its own: it admits the request, waits for *)
(* the budget, sends it and records the answer.  The adapter waits for the *)
(* fuzzer, closes the admission, drains what was admitted and cleans up.   *)
(* The next attempt finds only the journal.                                *)
(***************************************************************************)
EXTENDS Integers, FiniteSets

CONSTANTS Request,      \* POST requests of the fuzzer, served by one goroutine each
          RequestLimit, \* FuzzApproval.RequestLimit
          MaxAttempts   \* bound of the attempts of the job

ASSUME FormFuzzAssumption ==
    IsFiniteSet(Request) /\ RequestLimit \in Nat /\ MaxAttempts \in Nat

VARIABLES attempt,  \* number, position in runWapitiPost, context, error of the cleanup
          gateway,  \* armed, closing, and the counters of RecordingGateway
          conn,   \* the goroutine that serves each request
          entry,    \* the state of the campaign in the write journal
          target    \* history: what left for the target: POSTs, unanswered ones, cleanup

fuzzVars == <<attempt, gateway, conn, entry, target>>

Fresh == [armed |-> FALSE, closing |-> FALSE, requests |-> 0, observed |-> 0, uncertain |-> FALSE]

At(pc) == attempt.pc = pc
Goes(pc) == attempt' = [attempt EXCEPT !.pc = pc]
Serve(r, pc) == conn' = [conn EXCEPT ![r] = pc]

\* Served by ServeHTTP and not yet done; counted by formFuzzInFlight from the admission on.
Serving == {r \in Request : conn[r] \in {"arrived", "admitted", "requested", "sent"}}
InFlight == {r \in Request : conn[r] \in {"admitted", "requested", "sent"}}

Init ==
    /\ attempt = [n |-> 0, pc |-> "idle", ctx |-> "live", err |-> FALSE]
    /\ gateway = Fresh
    /\ conn = [r \in Request |-> "none"]
    /\ entry = "none"
    /\ target = [posts |-> 0, unanswered |-> 0, cleanup |-> "none"]

-----------------------------------------------------------------------------
(* The executor around the adapter.                                         *)

\* UnresolvedWrites: a resume needs settled entries.
Resumable == entry \in {"none", "cleaned"}

\* A gateway and a context of its own for the attempt; a first session has no journal.
Begin ==
    /\ At("idle") /\ attempt.n < MaxAttempts
    /\ attempt' = [n |-> attempt.n + 1, pc |-> IF Resumable THEN "intent" ELSE "idle",
                   ctx |-> "live", err |-> FALSE]
    /\ gateway' = Fresh
    /\ conn' = [r \in Request |-> "none"]
    /\ UNCHANGED <<entry, target>>

\* Stop, pause or timeout of the job: the fuzzer is killed, what it asked for is cancelled.
Stop ==
    /\ ~ At("idle") /\ attempt.ctx = "live"
    /\ attempt' = [attempt EXCEPT !.ctx = "cancelled"]
    /\ UNCHANGED <<gateway, conn, entry, target>>

Crash ==
    /\ ~ At("idle")
    /\ Goes("idle")
    /\ conn' = [r \in Request |-> "none"]
    /\ UNCHANGED <<gateway, entry, target>>

-----------------------------------------------------------------------------
(* runWapitiPost.                                                           *)

\* Mutant: an entry of an earlier attempt is taken over.
RefusedMutant == FALSE
Refused == entry # "none"

\* A failed RecordIntent may have written the entry all the same.
RecordIntent ==
    /\ At("intent")
    /\ \/ Refused /\ Goes("close") /\ UNCHANGED entry
       \/ ~ Refused /\ entry' = "intent" /\ Goes("arm")
       \/ ~ Refused /\ entry' \in {"none", "intent"} /\ Goes("close")
    /\ UNCHANGED <<gateway, conn, target>>

ArmFormFuzz ==
    /\ At("arm")
    /\ gateway' = [gateway EXCEPT !.armed = TRUE]
    /\ Goes("fuzz")
    /\ UNCHANGED <<conn, entry, target>>

\* The fuzzer ends by itself or is killed; requests it sent may still be served.
FuzzerEnds ==
    /\ At("fuzz")
    /\ Goes("disarm")
    /\ UNCHANGED <<gateway, conn, entry, target>>

\* Mutant: the drain waits, but leaves the admission open.
DisarmedMutant == gateway
Disarmed == [gateway EXCEPT !.armed = FALSE]

Disarm ==
    /\ At("disarm")
    /\ gateway' = Disarmed
    /\ Goes("drain")
    /\ UNCHANGED <<conn, entry, target>>

Drained == InFlight = {}

\* drainFormFuzz returns when nothing is in flight, or by its deadline.
Drain ==
    /\ At("drain")
    /\ \/ Drained /\ Goes("cleanup")
       \/ ~ Drained /\ attempt' = [attempt EXCEPT !.pc = "close", !.err = TRUE]
    /\ UNCHANGED <<gateway, conn, entry, target>>

\* The session is verified again, the fixture read, the budget asked; then the DELETE is sent,
\* in a context that a stop does not reach.
CleanupRefused ==
    /\ At("cleanup")
    /\ attempt' = [attempt EXCEPT !.pc = "judge", !.err = TRUE]
    /\ UNCHANGED <<gateway, conn, entry, target>>

SendCleanup ==
    /\ At("cleanup")
    /\ Goes("answer")
    /\ target' = [target EXCEPT !.cleanup = "sent"]
    /\ UNCHANGED <<gateway, conn, entry>>

CleanupAnswered ==
    /\ At("answer")
    /\ \/ /\ target' = [target EXCEPT !.cleanup = "done"]
          /\ Goes("judge")
       \/ /\ attempt' = [attempt EXCEPT !.pc = "judge", !.err = TRUE]
          /\ UNCHANGED target
    /\ UNCHANGED <<gateway, conn, entry>>

\* Mutant: a failed request leaves the evidence complete.
UncertainMutant == FALSE
Uncertain == gateway.uncertain

\* The entry is settled only with a clean-up that worked and answers for every request.
Judge ==
    /\ At("judge")
    /\ IF attempt.err \/ Uncertain
       THEN attempt' = [attempt EXCEPT !.pc = "close", !.err = TRUE]
       ELSE Goes("markSent")
    /\ UNCHANGED <<gateway, conn, entry, target>>

\* A failed call of the journal may have written the entry all the same.
Mark(pc, from, state, next) ==
    /\ At(pc) /\ entry = from
    /\ \/ entry' = state /\ Goes(next)
       \/ entry' \in {from, state} /\ attempt' = [attempt EXCEPT !.pc = "close", !.err = TRUE]
    /\ UNCHANGED <<gateway, conn, target>>

MarkSent == Mark("markSent", "intent", "sent", "markCleanup")
MarkCleanup == Mark("markCleanup", "sent", "cleaned", "close")

\* Close: no request is accepted any more, those in progress are cancelled and waited for.
Close ==
    /\ At("close")
    /\ gateway' = [gateway EXCEPT !.closing = TRUE]
    /\ attempt' = [attempt EXCEPT !.pc = "closing", !.ctx = "cancelled"]
    /\ UNCHANGED <<conn, entry, target>>

Closed ==
    /\ At("closing") /\ Serving = {}
    /\ Goes("idle")
    /\ UNCHANGED <<gateway, conn, entry, target>>

-----------------------------------------------------------------------------
(* ServeHTTP and forward, for the POSTs of the fuzzer.                      *)

Live == attempt.pc # "idle"

\* ServeHTTP: the fuzzer is alive, or was when it connected.
Arrive(r) ==
    /\ attempt.pc \in {"fuzz", "disarm", "drain"} /\ conn[r] = "none" /\ ~ gateway.closing
    /\ Serve(r, "arrived")
    /\ UNCHANGED <<attempt, gateway, entry, target>>

\* admitFormFuzzDecision, under the lock of the gateway.
Admitted(r) == gateway.armed /\ gateway.requests < RequestLimit

\* Destination, content type and fields of the POST may also be others than the approved ones.
Admit(r) ==
    /\ conn[r] = "arrived"
    /\ \/ /\ Admitted(r)
          /\ gateway' = [gateway EXCEPT !.requests = @ + 1]
          /\ Serve(r, "admitted")
       \/ Serve(r, "done") /\ UNCHANGED gateway
    /\ UNCHANGED <<attempt, entry, target>>

\* The budget grants the request, or it is blocked: by the budget, the request limit of the
\* gateway or a failed record.
Forward(r) ==
    /\ conn[r] = "admitted"
    /\ \/ attempt.ctx = "live" /\ Serve(r, "requested")
       \/ Serve(r, "done")
    /\ UNCHANGED <<attempt, gateway, entry, target>>

Send(r) ==
    /\ conn[r] = "requested"
    /\ target' = [target EXCEPT !.posts = @ + 1, !.unanswered = @ + 1]
    /\ Serve(r, "sent")
    /\ UNCHANGED <<attempt, gateway, entry>>

Observed(r) ==
    /\ conn[r] = "sent"
    /\ gateway' = [gateway EXCEPT !.observed = @ + 1]
    /\ target' = [target EXCEPT !.unanswered = @ - 1]
    /\ Serve(r, "done")
    /\ UNCHANGED <<attempt, entry>>

\* No answer: the request did not get out, or whether it arrived is unknown.
Failed(r) ==
    /\ conn[r] \in {"requested", "sent"}
    /\ gateway' = [gateway EXCEPT !.uncertain = TRUE]
    /\ Serve(r, "done")
    /\ UNCHANGED <<attempt, entry, target>>

-----------------------------------------------------------------------------
Adapter == \/ RecordIntent \/ ArmFormFuzz \/ FuzzerEnds \/ Disarm \/ Drain
           \/ CleanupRefused \/ SendCleanup \/ CleanupAnswered \/ Judge
           \/ MarkSent \/ MarkCleanup \/ Close \/ Closed

Gateway == \E r \in Request :
              Live /\ (Admit(r) \/ Forward(r) \/ Send(r) \/ Observed(r) \/ Failed(r))

Next == Begin \/ Stop \/ Crash \/ Adapter \/ Gateway \/ \E r \in Request : Live /\ Arrive(r)

Spec == Init /\ [][Next]_fuzzVars

-----------------------------------------------------------------------------
TypeOK ==
    /\ attempt \in [n : 0 .. MaxAttempts, ctx : {"live", "cancelled"}, err : BOOLEAN,
                    pc : {"idle", "intent", "arm", "fuzz", "disarm", "drain", "cleanup", "answer",
                          "judge", "markSent", "markCleanup", "close", "closing"}]
    /\ gateway \in [armed : BOOLEAN, closing : BOOLEAN, requests : Nat, observed : Nat,
                    uncertain : BOOLEAN]
    /\ conn \in [Request -> {"none", "arrived", "admitted", "requested", "sent", "done"}]
    /\ entry \in {"none", "intent", "sent", "cleaned"}
    /\ target \in [posts : Nat, unanswered : Nat, cleanup : {"none", "sent", "done"}]

\* An approval is good for RequestLimit POSTs, however many attempts the job has: the counter of
\* the gateway starts at zero with each (runWapitiPost: "A new process cannot replay consent,
\* reset its budget, or guess whether writes ran").
ApprovalIsBounded == target.posts <= RequestLimit

\* Once the clean-up has left for the target, no POST of the campaign follows it: what it would
\* create nobody removes.
NothingAfterCleanup == [][target.cleanup # "none" => target'.posts = target.posts]_fuzzVars

\* An entry settled in the journal means that the clean-up worked and that every POST that left
\* was answered before: only then a later attempt may go on.
SettledIsComplete == entry = "cleaned" => target.cleanup = "done" /\ target.unanswered = 0

\* The approval is accounted for, over all attempts and by what the journal says of them.
FuzzIsAccounted == ApprovalIsBounded /\ SettledIsComplete
=============================================================================
