------------------------- MODULE ActiveTestsProofs -------------------------
(***************************************************************************)
(* Proofs about the tools that send approved writes: FormFuzz, for any     *)
(* number of requests and attempts and any request limit; NextjsActions,   *)
(* for any cases, campaigns and attempts; and NextjsBoundaries, for any    *)
(* probes and attempts and however often the origin changes its mind.      *)
(***************************************************************************)
EXTENDS ActiveTests, FiniteSetTheorems, TLAPS

-----------------------------------------------------------------------------
(* FormFuzz *)

\* The requests that f puts in one of the places P.
Having(P, f) == {q \in Request : f[q] \in P}

\* Counted by the gateway, and not yet at the target.
Pending == Having({"admitted", "requested"}, conn)

\* At the target, and not yet answered.
Out == Having({"sent"}, conn)

\* Before the fuzzer of this attempt could send anything.
Untouched ==
    /\ target.posts = 0 /\ target.unanswered = 0 /\ target.cleanup = "none"
    /\ gateway.requests = 0 /\ ~ gateway.armed /\ ~ gateway.uncertain
    /\ InFlight = {}

\* An entry is written before the gateway is armed, by the one attempt that found none.
EntryInv ==
    /\ entry = "none" => Untouched /\ attempt.pc \in {"idle", "intent", "close", "closing"}
    /\ attempt.pc = "arm" => Untouched
    /\ attempt.pc \in {"arm", "fuzz", "disarm", "drain", "cleanup", "answer", "judge", "markSent"} =>
         entry = "intent"
    /\ attempt.pc = "markCleanup" => entry = "sent"

\* Whether something is still to be admitted or sent.
AdmissionInv ==
    /\ gateway.armed => attempt.pc \in {"fuzz", "disarm", "idle"}
    /\ attempt.pc = "idle" => InFlight = {}
    /\ attempt.pc \in {"cleanup", "answer", "judge", "markSent", "markCleanup"} => InFlight = {}
    /\ target.cleanup # "none" =>
         InFlight = {} /\ attempt.pc \notin {"arm", "fuzz", "disarm", "drain"}

\* What the gateway admitted covers what was sent and what may be.
BudgetInv ==
    /\ gateway.requests <= RequestLimit
    /\ target.posts + Cardinality(Pending) <= RequestLimit
    /\ gateway.armed => target.posts + Cardinality(Pending) <= gateway.requests

\* Where the evidence is complete, only what is on its way is unanswered.
AnswerInv ==
    /\ Cardinality(Out) <= target.unanswered
    /\ attempt.pc \in {"fuzz", "disarm", "drain", "cleanup", "answer", "judge"} /\ ~ gateway.uncertain =>
         target.unanswered = Cardinality(Out)

\* What is marked in the journal was cleaned up, with every request answered.
MarkInv ==
    /\ attempt.pc = "judge" /\ ~ attempt.err => target.cleanup = "done"
    /\ attempt.pc \in {"markSent", "markCleanup"} \/ entry \in {"sent", "cleaned"} =>
         target.cleanup = "done" /\ target.unanswered = 0

FuzzInv == TypeOK /\ EntryInv /\ AdmissionInv /\ BudgetInv /\ AnswerInv /\ MarkInv

-----------------------------------------------------------------------------
(* Counting the requests of a kind. *)

LEMMA Served ==
    ASSUME NEW P, NEW f, NEW g, NEW r \in Request, \A q \in Request \ {r} : g[q] = f[q]
    PROVE  /\ f[r] \in P /\ g[r] \notin P =>
                Cardinality(Having(P, g)) = Cardinality(Having(P, f)) - 1
           /\ f[r] \notin P /\ g[r] \in P =>
                Cardinality(Having(P, g)) = Cardinality(Having(P, f)) + 1
           /\ (f[r] \in P <=> g[r] \in P) => Having(P, g) = Having(P, f)
<1> DEFINE F == Having(P, f)
           G == Having(P, g)
<1>1. IsFiniteSet(F) /\ IsFiniteSet(G)
  BY FS_Subset, FormFuzzAssumption DEF Having
<1>2. CASE f[r] \in P /\ g[r] \notin P
  <2>1. G = F \ {r} /\ r \in F
    BY <1>2 DEF Having
  <2> QED
    BY <1>1, <1>2, <2>1, FS_RemoveElement
<1>3. CASE f[r] \notin P /\ g[r] \in P
  <2>1. G = F \cup {r} /\ r \notin F
    BY <1>3 DEF Having
  <2> QED
    BY <1>1, <1>3, <2>1, FS_AddElement
<1>4. CASE f[r] \in P <=> g[r] \in P
  <2>1. G = F
    BY <1>4 DEF Having
  <2> QED
    BY <1>4, <2>1
<1> QED
  BY <1>2, <1>3, <1>4

LEMMA CountsAreNat ==
    /\ Cardinality(Pending) \in Nat
    /\ Cardinality(Out) \in Nat
    /\ InFlight = {} => Cardinality(Pending) = 0 /\ Cardinality(Out) = 0
<1>1. IsFiniteSet(Pending) /\ IsFiniteSet(Out)
  BY FS_Subset, FormFuzzAssumption DEF Pending, Out, Having
<1>2. InFlight = {} => Pending = {} /\ Out = {}
  BY DEF InFlight, Pending, Out, Having
<1> QED
  BY <1>1, <1>2, FS_CardinalityType, FS_EmptySet

-----------------------------------------------------------------------------
(* The steps. *)

\* The adapter moves on, with or without an error.
LEMMA Moved ==
    ASSUME TypeOK, NEW l
    PROVE  /\ [attempt EXCEPT !.pc = l].pc = l
           /\ [attempt EXCEPT !.pc = l].err = attempt.err
           /\ [attempt EXCEPT !.pc = l, !.err = TRUE].pc = l
           /\ [attempt EXCEPT !.pc = l, !.err = TRUE].err
BY DEF TypeOK

LEMMA AdapterTypes ==
    ASSUME TypeOK, Adapter
    PROVE  TypeOK'
<1> USE DEF TypeOK, At, Goes
<1>1. CASE RecordIntent
  BY <1>1 DEF RecordIntent, Refused
<1>2. CASE ArmFormFuzz
  BY <1>2 DEF ArmFormFuzz
<1>3. CASE FuzzerEnds
  BY <1>3 DEF FuzzerEnds
<1>4. CASE Disarm
  BY <1>4 DEF Disarm, Disarmed
<1>5. CASE Drain
  BY <1>5 DEF Drain, Drained
<1>6. CASE CleanupRefused
  BY <1>6 DEF CleanupRefused
<1>7. CASE SendCleanup
  BY <1>7 DEF SendCleanup
<1>8. CASE CleanupAnswered
  BY <1>8 DEF CleanupAnswered
<1>9. CASE Judge
  <2>1. attempt' = [attempt EXCEPT !.pc = "close", !.err = TRUE] \/ attempt' = [attempt EXCEPT !.pc = "markSent"]
    BY <1>9 DEF Judge
  <2>2. UNCHANGED <<gateway, conn, entry, target>>
    BY <1>9 DEF Judge
  <2> QED
    BY <2>1, <2>2
<1>10. CASE MarkSent
  BY <1>10 DEF MarkSent, Mark
<1>11. CASE MarkCleanup
  BY <1>11 DEF MarkCleanup, Mark
<1>12. CASE Close
  BY <1>12 DEF Close
<1>13. CASE Closed
  BY <1>13 DEF Closed
<1> QED
  BY <1>1, <1>2, <1>3, <1>4, <1>5, <1>6, <1>7, <1>8, <1>9, <1>10, <1>11, <1>12, <1>13 DEF Adapter

LEMMA AdapterKeeps ==
    ASSUME FuzzInv, Adapter
    PROVE  FuzzInv'
<1>1. conn' = conn /\ Pending' = Pending /\ Out' = Out /\ InFlight' = InFlight
  BY DEF Adapter, RecordIntent, ArmFormFuzz, FuzzerEnds, Disarm, Drain, CleanupRefused,
         SendCleanup, CleanupAnswered, Judge, MarkSent, MarkCleanup, Mark, Close, Closed,
         Pending, Out, InFlight
<1>2. Closed => InFlight = {}
  BY DEF Closed, Serving, InFlight
<1>t. TypeOK'
  BY AdapterTypes DEF FuzzInv
<1> USE <1>1 DEF FuzzInv, EntryInv, Untouched, AdmissionInv, MarkInv
<1>3. CASE RecordIntent
  <2>1. /\ gateway' = gateway
        /\ target' = target
        /\ attempt'.err = attempt.err
        /\ attempt.pc = "intent"
        /\ \/ entry # "none" /\ entry' = entry /\ attempt'.pc = "close"
           \/ entry = "none" /\ entry' = "intent" /\ attempt'.pc = "arm"
           \/ entry = "none" /\ entry' \in {"none", "intent"} /\ attempt'.pc = "close"
    BY <1>3 DEF RecordIntent, Refused, At, Goes, TypeOK
  <2>2. EntryInv' /\ AdmissionInv'
    BY <2>1
  <2>3. BudgetInv' /\ AnswerInv'
    BY <2>1, CountsAreNat, FormFuzzAssumption DEF BudgetInv, AnswerInv, TypeOK
  <2>4. MarkInv'
    BY <2>1, CountsAreNat DEF AnswerInv
  <2> QED
    BY <1>t, <2>2, <2>3, <2>4
<1>4. CASE ArmFormFuzz
  <2>1. /\ target' = target
        /\ entry' = entry
        /\ attempt'.err = attempt.err
        /\ attempt.pc = "arm" /\ attempt'.pc = "fuzz"
        /\ gateway'.armed /\ gateway'.requests = gateway.requests
        /\ gateway'.uncertain = gateway.uncertain
    BY <1>4 DEF ArmFormFuzz, At, Goes, TypeOK
  <2>2. EntryInv' /\ AdmissionInv'
    BY <2>1
  <2>3. BudgetInv' /\ AnswerInv'
    BY <2>1, CountsAreNat, FormFuzzAssumption DEF BudgetInv, AnswerInv, TypeOK
  <2>4. MarkInv'
    BY <2>1, CountsAreNat DEF AnswerInv
  <2> QED
    BY <1>t, <2>2, <2>3, <2>4
<1>5. CASE FuzzerEnds
  <2>1. /\ gateway' = gateway
        /\ target' = target
        /\ entry' = entry
        /\ attempt'.err = attempt.err
        /\ attempt.pc = "fuzz" /\ attempt'.pc = "disarm"
    BY <1>5 DEF FuzzerEnds, At, Goes, TypeOK
  <2>2. EntryInv' /\ AdmissionInv'
    BY <2>1
  <2>3. BudgetInv' /\ AnswerInv'
    BY <2>1, CountsAreNat, FormFuzzAssumption DEF BudgetInv, AnswerInv, TypeOK
  <2>4. MarkInv'
    BY <2>1, CountsAreNat DEF AnswerInv
  <2> QED
    BY <1>t, <2>2, <2>3, <2>4
<1>6. CASE Disarm
  <2>1. /\ target' = target
        /\ entry' = entry
        /\ attempt'.err = attempt.err
        /\ attempt.pc = "disarm" /\ attempt'.pc = "drain"
        /\ ~ gateway'.armed /\ gateway'.requests = gateway.requests
        /\ gateway'.uncertain = gateway.uncertain
    BY <1>6 DEF Disarm, Disarmed, At, Goes, TypeOK
  <2>2. EntryInv' /\ AdmissionInv'
    BY <2>1
  <2>3. BudgetInv' /\ AnswerInv'
    BY <2>1, CountsAreNat, FormFuzzAssumption DEF BudgetInv, AnswerInv, TypeOK
  <2>4. MarkInv'
    BY <2>1, CountsAreNat DEF AnswerInv
  <2> QED
    BY <1>t, <2>2, <2>3, <2>4
<1>7. CASE Drain
  <2>1. /\ gateway' = gateway
        /\ target' = target
        /\ entry' = entry
        /\ attempt.pc = "drain"
        /\ \/ InFlight = {} /\ attempt'.pc = "cleanup"
           \/ attempt'.pc = "close"
    BY <1>7, Moved DEF Drain, Drained, At, Goes
  <2>2. EntryInv' /\ AdmissionInv'
    BY <2>1
  <2>3. BudgetInv' /\ AnswerInv'
    BY <2>1, CountsAreNat, FormFuzzAssumption DEF BudgetInv, AnswerInv, TypeOK
  <2>4. MarkInv'
    BY <2>1, CountsAreNat DEF AnswerInv
  <2> QED
    BY <1>t, <2>2, <2>3, <2>4
<1>8. CASE CleanupRefused
  <2>1. /\ gateway' = gateway
        /\ target' = target
        /\ entry' = entry
        /\ attempt.pc = "cleanup" /\ attempt'.pc = "judge" /\ attempt'.err
    BY <1>8 DEF CleanupRefused, At, Goes, TypeOK
  <2>2. EntryInv' /\ AdmissionInv'
    BY <2>1
  <2>3. BudgetInv' /\ AnswerInv'
    BY <2>1, CountsAreNat, FormFuzzAssumption DEF BudgetInv, AnswerInv, TypeOK
  <2>4. MarkInv'
    BY <2>1, CountsAreNat DEF AnswerInv
  <2> QED
    BY <1>t, <2>2, <2>3, <2>4
<1>9. CASE SendCleanup
  <2>1. /\ gateway' = gateway
        /\ entry' = entry
        /\ attempt'.err = attempt.err
        /\ attempt.pc = "cleanup" /\ attempt'.pc = "answer"
        /\ target'.posts = target.posts /\ target'.unanswered = target.unanswered
        /\ target'.cleanup = "sent"
    BY <1>9 DEF SendCleanup, At, Goes, TypeOK
  <2>2. EntryInv' /\ AdmissionInv'
    BY <2>1
  <2>3. BudgetInv' /\ AnswerInv'
    BY <2>1, CountsAreNat, FormFuzzAssumption DEF BudgetInv, AnswerInv, TypeOK
  <2>4. MarkInv'
    BY <2>1, CountsAreNat DEF AnswerInv
  <2> QED
    BY <1>t, <2>2, <2>3, <2>4
<1>10. CASE CleanupAnswered
  <2>1. /\ gateway' = gateway
        /\ entry' = entry
        /\ attempt.pc = "answer" /\ attempt'.pc = "judge"
        /\ target'.posts = target.posts /\ target'.unanswered = target.unanswered
        /\ \/ target'.cleanup = "done"
           \/ target'.cleanup = target.cleanup /\ attempt'.err
    <3>1. /\ UNCHANGED <<gateway, entry>> /\ attempt.pc = "answer"
          /\ target \in [posts : Nat, unanswered : Nat, cleanup : {"none", "sent", "done"}]
          /\ \/ target' = [target EXCEPT !.cleanup = "done"] /\ attempt' = [attempt EXCEPT !.pc = "judge"]
             \/ target' = target /\ attempt' = [attempt EXCEPT !.pc = "judge", !.err = TRUE]
      BY <1>10 DEF CleanupAnswered, At, Goes, TypeOK
    <3>2. CASE /\ target' = [target EXCEPT !.cleanup = "done"]
               /\ attempt' = [attempt EXCEPT !.pc = "judge"]
      <4>1. target' = [posts |-> target.posts, unanswered |-> target.unanswered, cleanup |-> "done"]
        BY <3>1, <3>2
      <4> QED
        BY <3>1, <3>2, <4>1, Moved
    <3>3. CASE target' = target /\ attempt' = [attempt EXCEPT !.pc = "judge", !.err = TRUE]
      BY <3>1, <3>3, Moved
    <3> QED
      BY <3>1, <3>2, <3>3
  <2>2. EntryInv' /\ AdmissionInv'
    BY <2>1
  <2>3. BudgetInv' /\ AnswerInv'
    BY <2>1, CountsAreNat, FormFuzzAssumption DEF BudgetInv, AnswerInv, TypeOK
  <2>4. MarkInv'
    BY <2>1, CountsAreNat DEF AnswerInv
  <2> QED
    BY <1>t, <2>2, <2>3, <2>4
<1>11. CASE Judge
  <2>1. /\ gateway' = gateway
        /\ target' = target
        /\ entry' = entry
        /\ attempt.pc = "judge"
        /\ \/ attempt'.pc = "close"
           \/ ~ attempt.err /\ ~ gateway.uncertain /\ attempt'.pc = "markSent"
    <3>1. /\ UNCHANGED <<gateway, entry, target>> /\ attempt.pc = "judge"
          /\ \/ attempt' = [attempt EXCEPT !.pc = "close", !.err = TRUE]
             \/ ~ attempt.err /\ ~ gateway.uncertain /\ attempt' = [attempt EXCEPT !.pc = "markSent"]
      BY <1>11 DEF Judge, Uncertain, At, Goes
    <3> QED
      BY <3>1, Moved
  <2>2. EntryInv' /\ AdmissionInv'
    BY <2>1
  <2>3. BudgetInv' /\ AnswerInv'
    BY <2>1, CountsAreNat, FormFuzzAssumption DEF BudgetInv, AnswerInv, TypeOK
  <2>4. MarkInv'
    BY <2>1, CountsAreNat DEF AnswerInv
  <2> QED
    BY <1>t, <2>2, <2>3, <2>4
<1>12. CASE MarkSent
  <2>1. /\ gateway' = gateway
        /\ target' = target
        /\ attempt.pc = "markSent" /\ entry = "intent"
        /\ \/ entry' = "sent" /\ attempt'.pc = "markCleanup"
           \/ entry' \in {"intent", "sent"} /\ attempt'.pc = "close"
    BY <1>12 DEF MarkSent, Mark, At, Goes, TypeOK
  <2>2. EntryInv' /\ AdmissionInv'
    BY <2>1
  <2>3. BudgetInv' /\ AnswerInv'
    BY <2>1, CountsAreNat, FormFuzzAssumption DEF BudgetInv, AnswerInv, TypeOK
  <2>4. MarkInv'
    BY <2>1, CountsAreNat DEF AnswerInv
  <2> QED
    BY <1>t, <2>2, <2>3, <2>4
<1>13. CASE MarkCleanup
  <2>1. /\ gateway' = gateway
        /\ target' = target
        /\ attempt.pc = "markCleanup" /\ entry = "sent"
        /\ entry' \in {"sent", "cleaned"} /\ attempt'.pc = "close"
    BY <1>13 DEF MarkCleanup, Mark, At, Goes, TypeOK
  <2>2. EntryInv' /\ AdmissionInv'
    BY <2>1
  <2>3. BudgetInv' /\ AnswerInv'
    BY <2>1, CountsAreNat, FormFuzzAssumption DEF BudgetInv, AnswerInv, TypeOK
  <2>4. MarkInv'
    BY <2>1, CountsAreNat DEF AnswerInv
  <2> QED
    BY <1>t, <2>2, <2>3, <2>4
<1>14. CASE Close
  <2>1. /\ target' = target
        /\ entry' = entry
        /\ attempt'.err = attempt.err
        /\ attempt.pc = "close" /\ attempt'.pc = "closing"
        /\ gateway'.armed = gateway.armed /\ gateway'.requests = gateway.requests
        /\ gateway'.uncertain = gateway.uncertain
    BY <1>14 DEF Close, At, Goes, TypeOK
  <2>2. EntryInv' /\ AdmissionInv'
    BY <2>1
  <2>3. BudgetInv' /\ AnswerInv'
    BY <2>1, CountsAreNat, FormFuzzAssumption DEF BudgetInv, AnswerInv, TypeOK
  <2>4. MarkInv'
    BY <2>1, CountsAreNat DEF AnswerInv
  <2> QED
    BY <1>t, <2>2, <2>3, <2>4
<1>15. CASE Closed
  <2>1. /\ gateway' = gateway
        /\ target' = target
        /\ entry' = entry
        /\ attempt'.err = attempt.err
        /\ attempt.pc = "closing" /\ attempt'.pc = "idle" /\ InFlight = {}
    BY <1>15, <1>2 DEF Closed, At, Goes, TypeOK
  <2>2. EntryInv' /\ AdmissionInv'
    BY <2>1
  <2>3. BudgetInv' /\ AnswerInv'
    BY <2>1, CountsAreNat, FormFuzzAssumption DEF BudgetInv, AnswerInv, TypeOK
  <2>4. MarkInv'
    BY <2>1, CountsAreNat DEF AnswerInv
  <2> QED
    BY <1>t, <2>2, <2>3, <2>4
<1> QED
  BY <1>3, <1>4, <1>5, <1>6, <1>7, <1>8, <1>9, <1>10, <1>11, <1>12, <1>13, <1>14, <1>15 DEF Adapter

\* Where a request is when it is counted in Pending, Out and InFlight.
LEMMA Counts ==
    ASSUME NEW r \in Request, \A q \in Request \ {r} : conn'[q] = conn[q]
    PROVE  /\ conn[r] \in {"admitted", "requested"} /\ conn'[r] \notin {"admitted", "requested"} =>
                Cardinality(Pending') = Cardinality(Pending) - 1
           /\ conn[r] \notin {"admitted", "requested"} /\ conn'[r] \in {"admitted", "requested"} =>
                Cardinality(Pending') = Cardinality(Pending) + 1
           /\ (conn[r] \in {"admitted", "requested"} <=> conn'[r] \in {"admitted", "requested"}) =>
                Pending' = Pending
           /\ conn[r] = "sent" /\ conn'[r] # "sent" => Cardinality(Out') = Cardinality(Out) - 1
           /\ conn[r] # "sent" /\ conn'[r] = "sent" => Cardinality(Out') = Cardinality(Out) + 1
           /\ (conn[r] = "sent" <=> conn'[r] = "sent") => Out' = Out
           /\ Cardinality(Pending') \in Nat /\ Cardinality(Out') \in Nat
           /\ InFlight = {} /\ conn'[r] \notin {"admitted", "requested", "sent"} => InFlight' = {}
<1>1. /\ conn[r] \in {"admitted", "requested"} /\ conn'[r] \notin {"admitted", "requested"} =>
           Cardinality(Pending') = Cardinality(Pending) - 1
      /\ conn[r] \notin {"admitted", "requested"} /\ conn'[r] \in {"admitted", "requested"} =>
           Cardinality(Pending') = Cardinality(Pending) + 1
      /\ (conn[r] \in {"admitted", "requested"} <=> conn'[r] \in {"admitted", "requested"}) =>
           Pending' = Pending
  BY Served DEF Pending
<1>2. /\ conn[r] \in {"sent"} /\ conn'[r] \notin {"sent"} =>
           Cardinality(Out') = Cardinality(Out) - 1
      /\ conn[r] \notin {"sent"} /\ conn'[r] \in {"sent"} =>
           Cardinality(Out') = Cardinality(Out) + 1
      /\ (conn[r] \in {"sent"} <=> conn'[r] \in {"sent"}) => Out' = Out
  BY Served DEF Out
<1>3. IsFiniteSet(Pending') /\ IsFiniteSet(Out')
  BY FS_Subset, FormFuzzAssumption DEF Pending, Out, Having
<1>4. Cardinality(Pending') \in Nat /\ Cardinality(Out') \in Nat
  BY <1>3, FS_CardinalityType
<1>5. InFlight = {} /\ conn'[r] \notin {"admitted", "requested", "sent"} => InFlight' = {}
  BY DEF InFlight
<1> QED
  BY <1>1, <1>2, <1>4, <1>5

\* The goroutine that serves a request leaves the adapter and the journal alone.
LEMMA GatewayKeeps ==
    ASSUME FuzzInv, Live, NEW r \in Request,
           Admit(r) \/ Forward(r) \/ Send(r) \/ Observed(r) \/ Failed(r) \/ Arrive(r)
    PROVE  FuzzInv'
<1>1. \A q \in Request \ {r} : conn'[q] = conn[q]
  BY DEF Admit, Forward, Send, Observed, Failed, Arrive, Serve, FuzzInv, TypeOK
<1>2. /\ Cardinality(Pending) \in Nat /\ Cardinality(Out) \in Nat
      /\ InFlight = {} => Cardinality(Pending) = 0 /\ Cardinality(Out) = 0
      /\ conn[r] \in {"admitted", "requested", "sent"} => InFlight # {}
      /\ conn[r] = "sent" => Cardinality(Out) # 0
  <2>1. conn[r] = "sent" => Cardinality(Out) # 0
    <3>1. IsFiniteSet(Out)
      BY FS_Subset, FormFuzzAssumption DEF Out, Having
    <3>2. conn[r] = "sent" => Out # {}
      BY DEF Out, Having
    <3> QED
      BY <3>1, <3>2, FS_EmptySet
  <2> QED
    BY <2>1, CountsAreNat DEF InFlight
<1> USE <1>2, FormFuzzAssumption
    DEF FuzzInv, TypeOK, EntryInv, Untouched, AdmissionInv, BudgetInv, AnswerInv, MarkInv, Live,
        Serve
<1>3. CASE Admit(r)
  <2>1. /\ attempt' = attempt /\ entry' = entry /\ target' = target
        /\ conn[r] = "arrived"
        /\ \/ /\ gateway.armed /\ gateway.requests < RequestLimit /\ conn'[r] = "admitted"
              /\ gateway'.armed = gateway.armed /\ gateway'.requests = gateway.requests + 1
              /\ gateway'.uncertain = gateway.uncertain
           \/ gateway' = gateway /\ conn'[r] = "done"
    BY <1>3 DEF Admit, Admitted
  <2>2. TypeOK'
    BY <1>3 DEF Admit, Admitted
  <2>3. EntryInv' /\ AdmissionInv'
    BY <1>1, <2>1, Counts
  <2>4. BudgetInv'
    BY <1>1, <2>1, Counts
  <2>5. AnswerInv' /\ MarkInv'
    BY <1>1, <2>1, Counts
  <2> QED
    BY <2>2, <2>3, <2>4, <2>5
<1>4. CASE Forward(r)
  <2>1. /\ attempt' = attempt /\ entry' = entry /\ target' = target /\ gateway' = gateway
        /\ conn[r] = "admitted" /\ conn'[r] \in {"requested", "done"}
    BY <1>4 DEF Forward
  <2>2. TypeOK'
    BY <1>4 DEF Forward
  <2>3. EntryInv' /\ AdmissionInv'
    BY <1>1, <2>1, Counts
  <2>4. BudgetInv'
    BY <1>1, <2>1, Counts
  <2>5. AnswerInv' /\ MarkInv'
    BY <1>1, <2>1, Counts
  <2> QED
    BY <2>2, <2>3, <2>4, <2>5
<1>5. CASE Send(r)
  <2>1. /\ attempt' = attempt /\ entry' = entry /\ gateway' = gateway
        /\ conn[r] = "requested" /\ conn'[r] = "sent"
        /\ target'.posts = target.posts + 1 /\ target'.unanswered = target.unanswered + 1
        /\ target'.cleanup = target.cleanup
    BY <1>5 DEF Send
  <2>2. TypeOK'
    <3>1. target' = [posts |-> target.posts + 1, unanswered |-> target.unanswered + 1,
                     cleanup |-> target.cleanup]
      BY <1>5 DEF Send
    <3>2. conn' = [conn EXCEPT ![r] = "sent"] /\ UNCHANGED <<attempt, gateway, entry>>
      BY <1>5 DEF Send
    <3> QED
      BY <3>1, <3>2
  <2>3. EntryInv' /\ AdmissionInv'
    BY <1>1, <2>1, Counts
  <2>4. BudgetInv'
    BY <1>1, <2>1, Counts
  <2>5. AnswerInv' /\ MarkInv'
    BY <1>1, <2>1, Counts
  <2> QED
    BY <2>2, <2>3, <2>4, <2>5
<1>6. CASE Observed(r)
  <2>1. /\ attempt' = attempt /\ entry' = entry
        /\ conn[r] = "sent" /\ conn'[r] = "done"
        /\ target'.posts = target.posts /\ target'.unanswered = target.unanswered - 1
        /\ target'.cleanup = target.cleanup
        /\ gateway'.armed = gateway.armed /\ gateway'.requests = gateway.requests
        /\ gateway'.uncertain = gateway.uncertain
    BY <1>6 DEF Observed
  <2>6. target.unanswered - 1 \in Nat
    BY <2>1
  <2>2. TypeOK'
    BY <1>6, <2>6 DEF Observed
  <2>3. EntryInv' /\ AdmissionInv'
    BY <1>1, <2>1, Counts
  <2>4. BudgetInv'
    BY <1>1, <2>1, Counts
  <2>5. AnswerInv' /\ MarkInv'
    BY <1>1, <2>1, Counts
  <2> QED
    BY <2>2, <2>3, <2>4, <2>5
<1>7. CASE Failed(r)
  <2>1. /\ attempt' = attempt /\ entry' = entry /\ target' = target
        /\ conn[r] \in {"requested", "sent"} /\ conn'[r] = "done"
        /\ gateway'.armed = gateway.armed /\ gateway'.requests = gateway.requests
        /\ gateway'.uncertain
    BY <1>7 DEF Failed
  <2>2. TypeOK'
    BY <1>7 DEF Failed
  <2>3. EntryInv' /\ AdmissionInv'
    BY <1>1, <2>1, Counts
  <2>4. BudgetInv'
    BY <1>1, <2>1, Counts
  <2>5. AnswerInv' /\ MarkInv'
    BY <1>1, <2>1, Counts
  <2> QED
    BY <2>2, <2>3, <2>4, <2>5
<1>8. CASE Arrive(r)
  <2>1. /\ attempt' = attempt /\ entry' = entry /\ target' = target /\ gateway' = gateway
        /\ conn[r] = "none" /\ conn'[r] = "arrived"
    BY <1>8 DEF Arrive
  <2>2. TypeOK'
    BY <1>8 DEF Arrive
  <2>3. EntryInv' /\ AdmissionInv'
    BY <1>1, <2>1, Counts
  <2>4. BudgetInv'
    BY <1>1, <2>1, Counts
  <2>5. AnswerInv' /\ MarkInv'
    BY <1>1, <2>1, Counts
  <2> QED
    BY <2>2, <2>3, <2>4, <2>5
<1> QED
  BY <1>3, <1>4, <1>5, <1>6, <1>7, <1>8

LEMMA BeginKeeps ==
    ASSUME FuzzInv, Begin
    PROVE  FuzzInv'
<1> USE FormFuzzAssumption DEF FuzzInv
<1>1. /\ attempt.pc = "idle"
      /\ attempt' = [n |-> attempt.n + 1, pc |-> IF Resumable THEN "intent" ELSE "idle",
                     ctx |-> "live", err |-> FALSE]
      /\ gateway' = [armed |-> FALSE, closing |-> FALSE, requests |-> 0, observed |-> 0,
                     uncertain |-> FALSE]
      /\ conn' = [r \in Request |-> "none"] /\ entry' = entry /\ target' = target
      /\ attempt.n < MaxAttempts
  BY DEF Begin, At, Fresh
<1>2. attempt'.pc \in {"intent", "idle"} /\ ~ gateway'.armed /\ gateway'.requests = 0
      /\ ~ gateway'.uncertain /\ InFlight' = {} /\ Out' = {} /\ Pending' = {}
  BY <1>1 DEF InFlight, Out, Pending, Having
<1>3. TypeOK'
  <2>1. attempt.n + 1 \in 0 .. MaxAttempts
    BY <1>1 DEF TypeOK
  <2> QED
    BY <1>1, <2>1 DEF TypeOK
<1>4. EntryInv' /\ AdmissionInv'
  BY <1>1, <1>2 DEF EntryInv, AdmissionInv, Untouched
<1>5. BudgetInv' /\ AnswerInv'
  <2>1. Cardinality(Pending') = 0 /\ Cardinality(Out') = 0
    BY <1>2, FS_EmptySet
  <2> QED
    BY <1>1, <1>2, <2>1, CountsAreNat DEF BudgetInv, AnswerInv, TypeOK
<1>6. MarkInv'
  BY <1>1, <1>2 DEF MarkInv
<1> QED
  BY <1>3, <1>4, <1>5, <1>6

LEMMA StopKeeps ==
    ASSUME FuzzInv, Stop
    PROVE  FuzzInv'
<1> USE DEF FuzzInv
<1>1. /\ attempt'.pc = attempt.pc /\ attempt'.err = attempt.err
      /\ UNCHANGED <<gateway, conn, entry, target>> /\ TypeOK'
  BY DEF Stop, TypeOK
<1>2. Pending' = Pending /\ Out' = Out /\ InFlight' = InFlight
  BY <1>1 DEF Pending, Out, InFlight, Having
<1> QED
  BY <1>1, <1>2 DEF EntryInv, AdmissionInv, BudgetInv, AnswerInv, MarkInv, Untouched

LEMMA CrashKeeps ==
    ASSUME FuzzInv, Crash
    PROVE  FuzzInv'
<1> USE FormFuzzAssumption DEF FuzzInv
<1>1. /\ attempt'.pc = "idle" /\ attempt'.err = attempt.err /\ TypeOK'
      /\ conn' = [r \in Request |-> "none"] /\ UNCHANGED <<gateway, entry, target>>
  BY DEF Crash, Goes, TypeOK
<1>2. InFlight' = {} /\ Out' = {} /\ Pending' = {}
  BY <1>1 DEF InFlight, Out, Pending, Having
<1>3. EntryInv' /\ AdmissionInv' /\ MarkInv'
  BY <1>1, <1>2 DEF EntryInv, AdmissionInv, MarkInv, Untouched
<1>4. BudgetInv' /\ AnswerInv'
  <2>1. Cardinality(Pending') = 0 /\ Cardinality(Out') = 0
    BY <1>2, FS_EmptySet
  <2> QED
    BY <1>1, <2>1, CountsAreNat DEF BudgetInv, AnswerInv, TypeOK
<1> QED
  BY <1>3, <1>4, <1>1

LEMMA InitFuzz ==
    ASSUME Init
    PROVE  FuzzInv
<1> USE FormFuzzAssumption
<1>1. TypeOK /\ InFlight = {} /\ Pending = {} /\ Out = {}
  BY DEF Init, Fresh, TypeOK, InFlight, Pending, Out, Having
<1>2. Cardinality(Pending) = 0 /\ Cardinality(Out) = 0
  BY <1>1, FS_EmptySet
<1> QED
  BY <1>1, <1>2 DEF Init, Fresh, FuzzInv, EntryInv, AdmissionInv, BudgetInv, AnswerInv, MarkInv,
                    Untouched

-----------------------------------------------------------------------------
\* The adapter, the gateway and the journal agree on what was admitted, sent, answered and
\* cleaned up, through stops, crashes and new attempts (runWapitiPost, RecordingGateway): the
\* entry of the journal is written before the gateway is armed, so that a gateway is armed once.
THEOREM FuzzConsistent == Spec => []FuzzInv
<1>1. FuzzInv /\ [Next]_fuzzVars => FuzzInv'
  <2> SUFFICES ASSUME FuzzInv, [Next]_fuzzVars PROVE FuzzInv'
    OBVIOUS
  <2>1. CASE Next
    BY <2>1, BeginKeeps, StopKeeps, CrashKeeps, AdapterKeeps, GatewayKeeps DEF Next, Gateway
  <2>2. CASE UNCHANGED fuzzVars
    BY <2>2 DEF fuzzVars, FuzzInv, TypeOK, EntryInv, AdmissionInv, BudgetInv, AnswerInv, MarkInv,
                Untouched, Pending, Out, InFlight, Having
  <2> QED
    BY <2>1, <2>2
<1> QED
  BY <1>1, InitFuzz, PTL DEF Spec

\* All attempts of a job together send no more POSTs than the operator approved, and a settled
\* entry means that the clean-up worked and that every POST was answered (admitFormFuzzDecision,
\* drainFormFuzz and the judgement at the end of runWapitiPost): see FuzzIsAccounted.
THEOREM FuzzAccounted == Spec => []FuzzIsAccounted
<1>1. FuzzInv => FuzzIsAccounted
  BY CountsAreNat, FormFuzzAssumption
     DEF FuzzInv, TypeOK, BudgetInv, MarkInv, FuzzIsAccounted, ApprovalIsBounded, SettledIsComplete
<1> QED
  BY <1>1, FuzzConsistent, PTL

\* Once the clean-up has left for the target no POST of the campaign follows it
\* (drainFormFuzz closes the admission and waits for what was admitted): see NothingAfterCleanup.
THEOREM FuzzCleanupIsLast == Spec => NothingAfterCleanup
<1>1. FuzzInv /\ [Next]_fuzzVars =>
        [target.cleanup # "none" => target'.posts = target.posts]_fuzzVars
  <2> SUFFICES ASSUME FuzzInv, Next, target.cleanup # "none"
               PROVE  target'.posts = target.posts
    BY DEF fuzzVars
  <2>1. \A r \in Request : conn[r] # "requested"
    BY DEF FuzzInv, AdmissionInv, InFlight
  <2>2. target \in [posts : Nat, unanswered : Nat, cleanup : {"none", "sent", "done"}]
    BY DEF FuzzInv, TypeOK
  <2>3. CASE Begin \/ Stop \/ Crash
    BY <2>3 DEF Begin, Stop, Crash
  <2>4. CASE Adapter
    BY <2>2, <2>4 DEF Adapter, RecordIntent, ArmFormFuzz, FuzzerEnds, Disarm, Drain, CleanupRefused,
                SendCleanup, CleanupAnswered, Judge, MarkSent, MarkCleanup, Mark, Close, Closed
  <2>5. CASE Gateway
    BY <2>1, <2>2, <2>5 DEF Gateway, Admit, Forward, Send, Observed, Failed
  <2>6. CASE \E r \in Request : Live /\ Arrive(r)
    BY <2>6 DEF Arrive
  <2> QED
    BY <2>3, <2>4, <2>5, <2>6 DEF Next
<1> QED
  BY <1>1, FuzzConsistent, PTL DEF Spec, NothingAfterCleanup

-----------------------------------------------------------------------------
(* NextjsActions *)

\* The state of an attempt at the campaigns.
Attempt ==
    [pc : {"idle", "load", "ready", "intent", "action", "sent", "observe", "cleanup", "reset",
           "mark", "judge", "over"},
     case : Case, observed : {"allow", "deny", "unknown"}, clean : BOOLEAN, baseline : BOOLEAN]

\* Where an attempt owns the entry of its case, and where it is ahead of every other attempt: it
\* owns an entry, or has settled one.
Owning == {"action", "sent", "observe", "cleanup", "reset", "mark", "judge"}
Ahead(r) ==
    \/ runner[r].pc \in Owning
    \/ runner[r].pc \in {"ready", "intent"} /\ CaseOf(r) > 1

\* One attempt is ahead, from the first entry on, and nothing is on its way beside it.
LeadInv ==
    /\ \A r, s \in Runner : Ahead(r) /\ Ahead(s) => r = s
    /\ writes[1] = "absent" => inFlight = {} /\ \A r \in Runner : ~Ahead(r)
    /\ \A r \in Runner : Ahead(r) => inFlight = {}

IsBaselineOf(b, k) == b \in Baseline /\ b <= k /\ \A d \in Baseline : d <= k => d <= b

\* What an attempt may rely on at each point: the state of its entry and of the resource, and
\* that its baseline was seen to change the resource and was cleaned up.
CaseInv(r) ==
    /\ runner[r].pc \in {"idle", "load"} => CaseOf(r) = 1
    /\ CaseOf(r) = 1 => ~runner[r].baseline
    /\ runner[r].pc = "intent" /\ writes[CaseOf(r)] = "absent" => resource = "ready"
    /\ runner[r].pc = "action" => resource = "ready" /\ sent[CaseOf(r)] = 0
    /\ runner[r].pc \in {"action", "sent"} => writes[CaseOf(r)] = "intent"
    /\ runner[r].pc \in {"observe", "cleanup", "reset", "mark"} => writes[CaseOf(r)] = "sent"
    /\ runner[r].pc = "judge" /\ runner[r].clean => writes[CaseOf(r)] = "cleanup_done"
    /\ runner[r].pc \in {"sent", "observe"} /\ resource = "changed" => CaseOf(r) \in accepted
    /\ runner[r].observed = "allow" => CaseOf(r) \in accepted
    /\ runner[r].pc # "over" /\ runner[r].baseline /\ CaseOf(r) \notin Baseline =>
         \E b \in Baseline :
            IsBaselineOf(b, CaseOf(r)) /\ b \in accepted /\ writes[b] = "cleanup_done"

CampaignInv ==
    /\ ActionsTypeOK /\ LeadInv /\ FindingIsProven
    /\ \A r \in Runner : CaseInv(r)
    /\ \A k \in Case : writes[k] = "absent" => sent[k] = 0

-----------------------------------------------------------------------------
\* The last baseline before a case is the one of its campaign.
LEMMA BaselineIsTheLast ==
    ASSUME NEW b, NEW k \in Case, IsBaselineOf(b, k)
    PROVE  BaselineOf(k) = b
<1>1. Baseline \subseteq Nat
  BY CaseAssumption
<1>2. \A c \in Baseline : c <= k /\ (\A d \in Baseline : d <= k => d <= c) => c = b
  BY <1>1 DEF IsBaselineOf, Case
<1> QED
  BY <1>2 DEF IsBaselineOf, BaselineOf

\* The fields of an attempt after each kind of update.
LEMMA Proceeding ==
    ASSUME ActionsTypeOK, NEW r \in Runner, NEW label, Proceed(r, label)
    PROVE  /\ runner'[r].pc = label /\ CaseOf(r)' = CaseOf(r)
           /\ runner'[r].observed = runner[r].observed /\ runner'[r].clean = runner[r].clean
           /\ runner'[r].baseline = runner[r].baseline
           /\ \A s \in Runner : s # r => runner'[s] = runner[s]
BY DEF ActionsTypeOK, Proceed, CaseOf

\* Every step of the campaigns keeps the types.
LEMMA ActionsTypeStep ==
    ASSUME ActionsTypeOK, [ActionsNext]_actionVars
    PROVE  ActionsTypeOK'
<1> USE DEF Attempt
<1>0. runner \in [Runner -> Attempt]
  BY DEF ActionsTypeOK
<1>1. ASSUME NEW r \in Runner, NEW label \in {"idle", "load", "ready", "intent", "action", "sent",
             "observe", "cleanup", "reset", "mark", "judge", "over"}, Proceed(r, label)
      PROVE  runner' \in [Runner -> Attempt]
  BY <1>0, <1>1 DEF Proceed
<1>2. ASSUME NEW r \in Runner, RunnerStep(r)  PROVE runner' \in [Runner -> Attempt]
  <2>1. CASE BeginCampaigns(r)
    BY <1>1, <2>1 DEF BeginCampaigns
  <2>2. CASE LoadCampaigns(r)
    BY <1>1, <2>2 DEF LoadCampaigns
  <2>3. CASE CheckReady(r)
    BY <1>1, <2>3 DEF CheckReady
  <2>4. CASE RecordCaseIntent(r)
    BY <1>0, <1>1, <2>4 DEF RecordCaseIntent, CaseCall
  <2>5. CASE SendAction(r) \/ ActionLost(r) \/ StopCampaigns(r)
    BY <1>1, <2>5 DEF SendAction, ActionLost, StopCampaigns
  <2>6. CASE MarkCaseSent(r)
    BY <1>0, <1>1, <2>6 DEF MarkCaseSent, CaseCall
  <2>7. CASE Observe(r)
    BY <1>0, <2>7 DEF Observe, Reading
  <2>8. CASE SendCaseCleanup(r)
    BY <1>0, <2>8 DEF SendCaseCleanup
  <2>9. CASE CheckResource(r)
    BY <1>0, <2>9 DEF CheckResource
  <2>10. CASE MarkCaseCleanup(r)
    BY <1>0, <1>1, <2>10 DEF MarkCaseCleanup
  <2>11. CASE JudgeCase(r)
    <3>1. CaseOf(r) \in Case /\ (CaseOf(r) < LastCase => CaseOf(r) + 1 \in Case)
      BY <1>0, CaseAssumption DEF CaseOf, Case
    <3>2. BaselineConfirmed(r) \in BOOLEAN
      BY <1>0 DEF BaselineConfirmed
    <3> QED
      BY <1>0, <2>11, <3>1, <3>2 DEF JudgeCase, NewRunner
  <2> QED
    BY <1>2, <2>1, <2>2, <2>3, <2>4, <2>5, <2>6, <2>7, <2>8, <2>9, <2>10, <2>11 DEF RunnerStep
<1>3. ASSUME NEW r \in Runner, RunnerStep(r)
      PROVE  writes' \in [Case -> {"absent", "intent", "sent", "cleanup_done", "cleanup_failed"}]
  BY <1>3 DEF RunnerStep, BeginCampaigns, LoadCampaigns, CheckReady, RecordCaseIntent, SendAction,
              ActionLost, StopCampaigns, MarkCaseSent, CaseCall, Observe, SendCaseCleanup,
              CheckResource, MarkCaseCleanup, JudgeCase, ActionsTypeOK
<1>4. ASSUME NEW r \in Runner, RunnerStep(r)
      PROVE  /\ findings' \subseteq Case /\ accepted' \subseteq Case /\ inFlight' \subseteq Case
             /\ resource' \in {"ready", "changed"} /\ sent' \in [Case -> Nat]
  <2>1. CaseOf(r) \in Case
    BY <1>0 DEF CaseOf
  <2> QED
    BY <1>4, <2>1
       DEF RunnerStep, BeginCampaigns, LoadCampaigns, CheckReady, RecordCaseIntent, SendAction,
              ActionLost, StopCampaigns, MarkCaseSent, CaseCall, Observe, SendCaseCleanup,
              CheckResource, MarkCaseCleanup, JudgeCase, ActionsTypeOK, HandsCaseOver, Effect,
              targetVars
<1>5. ASSUME NEW k \in Case, ArriveAction(k)  PROVE ActionsTypeOK'
  BY <1>5 DEF ArriveAction, ActionsTypeOK, Effect
<1>6. CASE UNCHANGED actionVars
  BY <1>6 DEF actionVars, ActionsTypeOK
<1>7. ASSUME NEW r \in Runner, RunnerStep(r)  PROVE ActionsTypeOK'
  BY <1>2, <1>3, <1>4, <1>7 DEF ActionsTypeOK
<1> QED
  BY <1>5, <1>6, <1>7 DEF ActionsNext

-----------------------------------------------------------------------------
\* What a step of an attempt leaves alone: the other attempts, and every entry that is settled.
LEMMA StepOfOne ==
    ASSUME CampaignInv, NEW r \in Runner, RunnerStep(r)
    PROVE  /\ accepted' = accepted
           /\ \A s \in Runner : s # r => runner'[s] = runner[s]
           /\ \A k \in Case : writes[k] # "absent" => writes'[k] # "absent"
           /\ \A k \in Case : writes[k] = "cleanup_done" => writes'[k] = "cleanup_done"
<1> USE DEF CampaignInv
<1>1. accepted' = accepted /\ \A s \in Runner : s # r => runner'[s] = runner[s]
  BY DEF RunnerStep, BeginCampaigns, LoadCampaigns, CheckReady, RecordCaseIntent, SendAction,
         ActionLost, StopCampaigns, MarkCaseSent, CaseCall, Observe, SendCaseCleanup,
         CheckResource, MarkCaseCleanup, JudgeCase, ActionsTypeOK, targetVars, Proceed
<1>2. runner[r].pc = "mark" => writes[CaseOf(r)] = "sent"
  BY DEF CaseInv
<1>3. \A k \in Case : writes[k] # "absent" => writes'[k] # "absent"
  BY DEF RunnerStep, BeginCampaigns, LoadCampaigns, CheckReady, RecordCaseIntent, SendAction,
         ActionLost, StopCampaigns, MarkCaseSent, CaseCall, Observe, SendCaseCleanup,
         CheckResource, MarkCaseCleanup, JudgeCase, ActionsTypeOK
<1>4. \A k \in Case : writes[k] = "cleanup_done" => writes'[k] = "cleanup_done"
  BY <1>2 DEF RunnerStep, BeginCampaigns, LoadCampaigns, CheckReady, RecordCaseIntent, SendAction,
         ActionLost, StopCampaigns, MarkCaseSent, CaseCall, Observe, SendCaseCleanup,
         CheckResource, MarkCaseCleanup, JudgeCase, ActionsTypeOK
<1> QED
  BY <1>1, <1>3, <1>4

\* An attempt that is not ahead changes no more than the entry of the first case, and gets ahead
\* only by that.
LEMMA StepBehind ==
    ASSUME CampaignInv, NEW r \in Runner, RunnerStep(r), ~Ahead(r)
    PROVE  /\ UNCHANGED <<findings, resource, inFlight, sent>>
           /\ \/ writes' = writes /\ ~Ahead(r)'
              \/ /\ runner[r].pc = "intent" /\ writes[1] = "absent" /\ CaseOf(r) = 1
                 /\ writes' = [writes EXCEPT ![1] = "intent"]
<1> USE DEF CampaignInv, Ahead, Owning
<1>1. runner[r].pc \in {"idle", "load", "ready", "intent", "over"}
  BY DEF ActionsTypeOK
<1>2. runner[r].pc # "over"
  BY DEF RunnerStep, BeginCampaigns, LoadCampaigns, CheckReady, RecordCaseIntent, SendAction,
         ActionLost, StopCampaigns, MarkCaseSent, Observe, SendCaseCleanup,
         CheckResource, MarkCaseCleanup, JudgeCase
<1>3. CaseOf(r) = 1
  <2>1. CaseOf(r) \in Nat /\ CaseOf(r) >= 1
    BY CaseAssumption DEF ActionsTypeOK, CaseOf, Case
  <2> QED
    BY <1>1, <1>2, <2>1 DEF CaseInv
<1>4. ASSUME NEW label \in {"load", "ready", "intent", "over"}, Proceed(r, label)
      PROVE  ~Ahead(r)'
  BY <1>3, <1>4, Proceeding
<1>5. CASE BeginCampaigns(r) \/ LoadCampaigns(r) \/ CheckReady(r) \/ StopCampaigns(r)
  BY <1>4, <1>5 DEF BeginCampaigns, LoadCampaigns, CheckReady, StopCampaigns, targetVars
<1>6. CASE RecordCaseIntent(r)
  BY <1>3, <1>4, <1>6 DEF RecordCaseIntent, CaseCall, targetVars
<1> QED
  BY <1>1, <1>2, <1>5, <1>6 DEF RunnerStep, SendAction, ActionLost, MarkCaseSent, Observe,
       SendCaseCleanup, CheckResource, MarkCaseCleanup, JudgeCase

\* A step of an attempt leaves at most one attempt ahead.
LEMMA LeadStep ==
    ASSUME CampaignInv, NEW r \in Runner, RunnerStep(r)
    PROVE  LeadInv'
<1>1. LeadInv /\ 1 \in Case
  BY CaseAssumption DEF CampaignInv, Case
<1>2. \A s \in Runner : s # r => (Ahead(s)' <=> Ahead(s))
  BY StepOfOne DEF Ahead, CaseOf
<1>3. writes'[1] = "absent" => writes[1] = "absent"
  BY <1>1, StepOfOne
<1>4. CASE ~Ahead(r)
  <2>1. inFlight' = inFlight
    BY <1>4, StepBehind
  <2>2. ~Ahead(r)' \/ (writes[1] = "absent" /\ writes'[1] # "absent")
    BY <1>1, <1>4, StepBehind DEF CampaignInv, ActionsTypeOK
  <2> QED
    BY <1>1, <1>2, <1>3, <1>4, <2>1, <2>2 DEF LeadInv
<1>5. CASE Ahead(r)
  <2>1. inFlight = {} /\ writes[1] # "absent" /\ \A s \in Runner : s # r => ~Ahead(s)
    BY <1>1, <1>5 DEF LeadInv
  <2>2. inFlight' = {} \/ ~Ahead(r)'
    <3>1. CASE ActionLost(r)
      <4>1. runner'[r].pc = "over"
        BY <3>1, Proceeding DEF ActionLost, CampaignInv
      <4> QED
        BY <4>1 DEF Ahead, Owning
    <3>2. CASE ~ActionLost(r)
      BY <2>1, <3>2 DEF RunnerStep, BeginCampaigns, LoadCampaigns, CheckReady, RecordCaseIntent,
         SendAction, StopCampaigns, MarkCaseSent, CaseCall, Observe, SendCaseCleanup,
         CheckResource, MarkCaseCleanup, JudgeCase, targetVars
    <3> QED
      BY <3>1, <3>2
  <2> QED
    BY <1>1, <1>2, <1>3, <2>1, <2>2 DEF LeadInv
<1> QED
  BY <1>4, <1>5

\* An attempt takes nothing away that another one may rely on.
LEMMA OthersKeep ==
    ASSUME CampaignInv, NEW r \in Runner, RunnerStep(r), NEW s \in Runner, s # r
    PROVE  CaseInv(s)'
<1>1. /\ CaseInv(s) /\ runner'[s] = runner[s] /\ CaseOf(s)' = CaseOf(s) /\ accepted' = accepted
      /\ CaseOf(s) \in Case
      /\ \A k \in Case : writes[k] # "absent" => writes'[k] # "absent"
      /\ \A k \in Case : writes[k] = "cleanup_done" => writes'[k] = "cleanup_done"
  BY StepOfOne DEF CampaignInv, CaseOf, ActionsTypeOK
<1>2. /\ runner[s].pc \in {"idle", "load"} => CaseOf(s) = 1
      /\ CaseOf(s) = 1 => ~runner[s].baseline
      /\ runner[s].observed = "allow" => CaseOf(s) \in accepted
      /\ runner[s].pc # "over" /\ runner[s].baseline /\ CaseOf(s) \notin Baseline =>
           \E b \in Baseline :
              IsBaselineOf(b, CaseOf(s)) /\ b \in accepted /\ writes'[b] = "cleanup_done"
  BY <1>1, CaseAssumption DEF CaseInv, Case
<1>3. CASE Ahead(s)
  <2>1. ~Ahead(r) /\ writes[1] # "absent"
    BY <1>3 DEF CampaignInv, LeadInv
  <2>2. UNCHANGED <<resource, sent, writes>>
    BY <2>1, StepBehind
  <2> QED
    BY <1>1, <1>2, <2>2 DEF CaseInv
<1>4. CASE ~Ahead(s)
  <2>1. runner[s].pc \in {"idle", "load", "ready", "intent", "over"}
    BY <1>4 DEF Ahead, Owning, CampaignInv, ActionsTypeOK
  <2>2. runner[s].pc = "intent" => CaseOf(s) = 1
    BY <1>1, <1>4, CaseAssumption DEF Ahead, Case
  <2>3. runner[s].pc = "intent" /\ writes'[1] = "absent" => resource' = "ready"
    <3>1. CASE Ahead(r)
      <4>1. writes[1] # "absent" /\ 1 \in Case
        BY <3>1, CaseAssumption DEF CampaignInv, LeadInv, Case
      <4> QED
        BY <1>1, <4>1
    <3>2. CASE ~Ahead(r)
      <4>1. resource' = resource /\ 1 \in Case
        BY <3>2, StepBehind, CaseAssumption DEF Case
      <4> QED
        BY <1>1, <2>2, <4>1 DEF CaseInv
    <3> QED
      BY <3>1, <3>2
  <2> QED
    BY <1>1, <1>2, <2>1, <2>2, <2>3 DEF CaseInv
<1> QED
  BY <1>3, <1>4

\* The acting attempt keeps what it may rely on, action by action.
LEMMA OwnStep ==
    ASSUME CampaignInv, NEW r \in Runner, RunnerStep(r)
    PROVE  CaseInv(r)'
<1> USE DEF CampaignInv
<1>1. /\ CaseInv(r) /\ CaseOf(r) \in Case /\ CaseOf(r) \in Nat /\ 1 \in Case /\ accepted' = accepted
      /\ \A k \in Case : writes[k] = "cleanup_done" => writes'[k] = "cleanup_done"
      /\ runner[r].baseline \in BOOLEAN /\ runner[r].clean \in BOOLEAN
      /\ writes \in [Case -> {"absent", "intent", "sent", "cleanup_done", "cleanup_failed"}]
  BY StepOfOne, CaseAssumption DEF CaseOf, ActionsTypeOK, Case
<1>2. ASSUME runner'[r].pc # "ready", CaseOf(r)' = CaseOf(r), runner[r].pc # "over",
             runner'[r].baseline = runner[r].baseline,
             runner'[r].pc \notin {"idle", "load"} \/ runner[r].pc \in {"idle", "load"},
             runner'[r].pc = "intent" /\ writes'[CaseOf(r)] = "absent" => resource' = "ready",
             runner'[r].pc = "action" => resource' = "ready" /\ sent'[CaseOf(r)] = 0,
             runner'[r].pc \in {"action", "sent"} => writes'[CaseOf(r)] = "intent",
             runner'[r].pc \in {"observe", "cleanup", "reset", "mark"} =>
                writes'[CaseOf(r)] = "sent",
             runner'[r].pc = "judge" /\ runner'[r].clean => writes'[CaseOf(r)] = "cleanup_done",
             runner'[r].pc \in {"sent", "observe"} /\ resource' = "changed" =>
                CaseOf(r) \in accepted,
             runner'[r].observed = "allow" => CaseOf(r) \in accepted
      PROVE  CaseInv(r)'
  <2>1. runner[r].baseline /\ CaseOf(r) \notin Baseline =>
           \E b \in Baseline :
              IsBaselineOf(b, CaseOf(r)) /\ b \in accepted /\ writes'[b] = "cleanup_done"
    BY <1>1, <1>2, CaseAssumption DEF CaseInv, Case
  <2> QED
    BY <1>1, <1>2, <2>1 DEF CaseInv
<1>3. ASSUME NEW label \in {"load", "over"}, Proceed(r, label), runner[r].pc # "over",
             label = "load" => runner[r].pc = "idle"
      PROVE  CaseInv(r)'
  <2>1. /\ runner'[r].pc = label /\ CaseOf(r)' = CaseOf(r)
        /\ runner'[r].observed = runner[r].observed /\ runner'[r].baseline = runner[r].baseline
    BY <1>3, Proceeding
  <2>2. runner[r].observed = "allow" => CaseOf(r) \in accepted
    BY <1>1 DEF CaseInv
  <2> QED
    BY <1>2, <1>3, <2>1, <2>2
<1>11. CASE BeginCampaigns(r)
  BY <1>3, <1>11 DEF BeginCampaigns
<1>12. CASE LoadCampaigns(r)
  <2>1. CASE Proceed(r, "over")
    BY <1>3, <1>12, <2>1 DEF LoadCampaigns
  <2>2. CASE Proceed(r, "ready")
    <3>1. /\ runner'[r].pc = "ready" /\ CaseOf(r)' = CaseOf(r)
          /\ runner'[r].observed = runner[r].observed /\ runner'[r].baseline = runner[r].baseline
      BY <2>2, Proceeding
    <3>2. CaseOf(r) = 1
      BY <1>1, <1>12 DEF CaseInv, LoadCampaigns
    <3> QED
      BY <1>1, <3>1, <3>2 DEF CaseInv
  <2> QED
    BY <1>12, <2>1, <2>2 DEF LoadCampaigns
<1>13. CASE CheckReady(r)
  <2>1. /\ runner'[r].pc = "intent" /\ CaseOf(r)' = CaseOf(r)
        /\ runner'[r].observed = runner[r].observed /\ runner'[r].baseline = runner[r].baseline
    BY <1>13, Proceeding DEF CheckReady
  <2>2. resource' = "ready"
    BY <1>13 DEF CheckReady, StateIsReady, targetVars
  <2> QED
    BY <1>1, <1>2, <1>13, <2>1, <2>2 DEF CaseInv, CheckReady
<1>14. CASE RecordCaseIntent(r)
  <2>1. CASE Proceed(r, "over")
    BY <1>3, <1>14, <2>1 DEF RecordCaseIntent
  <2>2. CASE /\ writes[CaseOf(r)] = "absent"
             /\ writes' = [writes EXCEPT ![CaseOf(r)] = "intent"]
             /\ runner' = [runner EXCEPT ![r] = [runner[r] EXCEPT !.pc = "action"]]
    <3>1. /\ runner'[r].pc = "action" /\ CaseOf(r)' = CaseOf(r)
          /\ runner'[r].observed = runner[r].observed /\ runner'[r].baseline = runner[r].baseline
      BY <2>2 DEF CaseOf, ActionsTypeOK
    <3>2. resource' = "ready" /\ sent'[CaseOf(r)] = 0 /\ writes'[CaseOf(r)] = "intent"
      BY <1>1, <1>14, <2>2 DEF RecordCaseIntent, CaseCall, targetVars, CaseInv
    <3> QED
      BY <1>1, <1>2, <1>14, <3>1, <3>2 DEF CaseInv, RecordCaseIntent
  <2> QED
    BY <1>14, <2>1, <2>2 DEF RecordCaseIntent, CaseCall
<1>15. CASE SendAction(r)
  <2>1. /\ runner'[r].pc = "sent" /\ CaseOf(r)' = CaseOf(r)
        /\ runner'[r].observed = runner[r].observed /\ runner'[r].baseline = runner[r].baseline
    BY <1>15, Proceeding DEF SendAction
  <2>2. resource' = "changed" => CaseOf(r) \in accepted
    BY <1>1, <1>15 DEF SendAction, Effect, CaseInv
  <2>3. writes'[CaseOf(r)] = "intent"
    BY <1>1, <1>15 DEF SendAction, CaseInv
  <2> QED
    BY <1>1, <1>2, <1>15, <2>1, <2>2, <2>3 DEF CaseInv, SendAction
<1>16. CASE ActionLost(r) \/ StopCampaigns(r)
  BY <1>3, <1>16 DEF ActionLost, StopCampaigns
<1>17. CASE MarkCaseSent(r)
  <2>1. CASE Proceed(r, "over")
    BY <1>3, <1>17, <2>1 DEF MarkCaseSent
  <2>2. CASE /\ writes' = [writes EXCEPT ![CaseOf(r)] = "sent"]
             /\ runner' = [runner EXCEPT ![r] = [runner[r] EXCEPT !.pc = "observe"]]
    <3>1. /\ runner'[r].pc = "observe" /\ CaseOf(r)' = CaseOf(r)
          /\ runner'[r].observed = runner[r].observed /\ runner'[r].baseline = runner[r].baseline
      BY <2>2 DEF CaseOf, ActionsTypeOK
    <3>2. /\ resource' = "changed" => CaseOf(r) \in accepted
          /\ writes'[CaseOf(r)] = "sent"
      BY <1>1, <1>17, <2>2 DEF MarkCaseSent, CaseCall, targetVars, CaseInv
    <3> QED
      BY <1>1, <1>2, <1>17, <3>1, <3>2 DEF CaseInv, MarkCaseSent
  <2> QED
    BY <1>17, <2>1, <2>2 DEF MarkCaseSent, CaseCall
<1>18. CASE Observe(r)
  <2>1. PICK seen \in {Reading, "unknown"} :
            runner' = [runner EXCEPT ![r].observed = seen, ![r].pc = "cleanup"]
    BY <1>18 DEF Observe
  <2>2. /\ runner'[r].pc = "cleanup" /\ CaseOf(r)' = CaseOf(r)
        /\ runner'[r].observed = seen /\ runner'[r].baseline = runner[r].baseline
    BY <2>1 DEF CaseOf, ActionsTypeOK
  <2>3. seen = "allow" => CaseOf(r) \in accepted
    BY <1>1, <1>18 DEF Observe, Reading, CaseInv
  <2>4. writes'[CaseOf(r)] = "sent"
    BY <1>1, <1>18 DEF Observe, CaseInv
  <2> QED
    BY <1>2, <1>18, <2>2, <2>3, <2>4 DEF Observe
<1>19. CASE SendCaseCleanup(r) \/ CheckResource(r)
  <2>1. PICK ok \in BOOLEAN, label \in {"reset", "mark"} :
            runner' = [runner EXCEPT ![r].clean = ok, ![r].pc = label]
    <3>1. CASE SendCaseCleanup(r)
      BY <3>1 DEF SendCaseCleanup
    <3>2. CASE CheckResource(r)
      <4>1. PICK ok \in {FALSE, resource = "ready"} :
                runner' = [runner EXCEPT ![r].clean = ok, ![r].pc = "mark"]
        BY <3>2 DEF CheckResource
      <4>2. ok \in BOOLEAN
        OBVIOUS
      <4> QED
        BY <4>1, <4>2
    <3> QED
      BY <1>19, <3>1, <3>2
  <2>2. /\ runner'[r].pc = label /\ CaseOf(r)' = CaseOf(r)
        /\ runner'[r].observed = runner[r].observed /\ runner'[r].baseline = runner[r].baseline
    BY <2>1 DEF CaseOf, ActionsTypeOK
  <2>3. writes'[CaseOf(r)] = "sent" /\ runner[r].pc # "over"
    BY <1>1, <1>19 DEF SendCaseCleanup, CheckResource, CaseInv
  <2>4. runner[r].observed = "allow" => CaseOf(r) \in accepted
    BY <1>1 DEF CaseInv
  <2> QED
    BY <1>2, <2>2, <2>3, <2>4
<1>20. CASE MarkCaseCleanup(r)
  <2>1. runner[r].observed = "allow" => CaseOf(r) \in accepted
    BY <1>1 DEF CaseInv
  <2>2. CASE /\ writes' = [writes EXCEPT ![CaseOf(r)] =
                               IF runner[r].clean THEN "cleanup_done" ELSE "cleanup_failed"]
             /\ Proceed(r, "judge")
    <3>1. /\ runner'[r].pc = "judge" /\ CaseOf(r)' = CaseOf(r)
          /\ runner'[r].observed = runner[r].observed /\ runner'[r].baseline = runner[r].baseline
          /\ runner'[r].clean = runner[r].clean
      BY <2>2, Proceeding
    <3>2. runner[r].clean => writes'[CaseOf(r)] = "cleanup_done"
      BY <1>1, <2>2
    <3> QED
      BY <1>2, <1>20, <2>1, <3>1, <3>2 DEF MarkCaseCleanup
  <2>3. CASE runner' = [runner EXCEPT ![r].clean = FALSE, ![r].pc = "judge"]
    <3>1. /\ runner'[r].pc = "judge" /\ CaseOf(r)' = CaseOf(r) /\ ~runner'[r].clean
          /\ runner'[r].observed = runner[r].observed /\ runner'[r].baseline = runner[r].baseline
      BY <2>3 DEF CaseOf, ActionsTypeOK
    <3> QED
      BY <1>2, <1>20, <2>1, <3>1 DEF MarkCaseCleanup
  <2> QED
    BY <1>20, <2>2, <2>3 DEF MarkCaseCleanup
<1>21. CASE JudgeCase(r)
  <2>1. CASE ~(GoesOn(r) /\ CaseOf(r) < LastCase)
    <3>1. runner' = [runner EXCEPT ![r] = [@ EXCEPT !.pc = "over"]]
      BY <1>21, <2>1 DEF JudgeCase
    <3>2. /\ runner'[r].pc = "over" /\ CaseOf(r)' = CaseOf(r)
          /\ runner'[r].observed = runner[r].observed /\ runner'[r].baseline = runner[r].baseline
      BY <3>1 DEF CaseOf, ActionsTypeOK
    <3>3. runner[r].observed = "allow" => CaseOf(r) \in accepted
      BY <1>1 DEF CaseInv
    <3> QED
      BY <1>2, <1>21, <3>2, <3>3 DEF JudgeCase
  <2>2. CASE GoesOn(r) /\ CaseOf(r) < LastCase
    <3> DEFINE next == CaseOf(r) + 1
    <3>1. runner' = [runner EXCEPT ![r] =
              [NewRunner EXCEPT !.pc = "ready", !.case = CaseOf(r) + 1,
                                !.baseline = BaselineConfirmed(r)]]
      BY <1>21, <2>2 DEF JudgeCase
    <3>2. /\ runner'[r].pc = "ready" /\ CaseOf(r)' = next /\ runner'[r].observed = "unknown"
          /\ runner'[r].baseline = BaselineConfirmed(r)
      BY <3>1 DEF CaseOf, ActionsTypeOK, NewRunner
    <3>3. next # 1 /\ next \in Nat
      BY <1>1, CaseAssumption DEF Case
    <3>4. ASSUME next \notin Baseline
          PROVE  \E b \in Baseline :
                    IsBaselineOf(b, next) /\ b \in accepted /\ writes'[b] = "cleanup_done"
      <4>1. runner[r].pc = "judge" /\ runner[r].clean /\ writes' = writes
        BY <1>21, <2>2 DEF JudgeCase, GoesOn
      <4>2. \A d \in Baseline : d \in Nat /\ (d <= next => d <= CaseOf(r))
        BY <1>1, <3>4, CaseAssumption DEF Case
      <4>3. CASE CaseOf(r) \in Baseline
        <5>1. runner[r].observed = "allow"
          BY <2>2, <4>3 DEF GoesOn, BaselineConfirmed
        <5>2. CaseOf(r) \in accepted /\ writes[CaseOf(r)] = "cleanup_done"
          BY <1>1, <4>1, <5>1 DEF CaseInv
        <5>3. IsBaselineOf(CaseOf(r), next)
          BY <1>1, <4>2, <4>3 DEF IsBaselineOf
        <5> QED
          BY <4>1, <4>3, <5>2, <5>3
      <4>4. CASE CaseOf(r) \notin Baseline
        <5>1. runner[r].baseline
          BY <2>2, <4>4 DEF GoesOn, BaselineConfirmed
        <5>2. PICK b \in Baseline : /\ IsBaselineOf(b, CaseOf(r)) /\ b \in accepted
                                    /\ writes[b] = "cleanup_done"
          BY <1>1, <4>1, <4>4, <5>1 DEF CaseInv
        <5>3. IsBaselineOf(b, next)
          BY <1>1, <4>2, <5>2 DEF IsBaselineOf
        <5> QED
          BY <4>1, <5>2, <5>3
      <4> QED
        BY <4>3, <4>4
    <3> HIDE DEF next
    <3> QED
      BY <1>1, <3>2, <3>3, <3>4 DEF CaseInv
  <2> QED
    BY <2>1, <2>2
<1> QED
  BY <1>11, <1>12, <1>13, <1>14, <1>15, <1>16, <1>17, <1>18, <1>19, <1>20, <1>21 DEF RunnerStep

-----------------------------------------------------------------------------
\* What a step of an attempt does to the findings: those that were proven stay so, and a new one
\* is a case that was let through after its baseline.
LEMMA FindingStep ==
    ASSUME CampaignInv, NEW r \in Runner, RunnerStep(r)
    PROVE  FindingIsProven'
<1>1. /\ accepted' = accepted /\ CaseInv(r) /\ CaseOf(r) \in Case
      /\ \A k \in Case : writes[k] = "cleanup_done" => writes'[k] = "cleanup_done"
  BY StepOfOne DEF CampaignInv, ActionsTypeOK, CaseOf
<1>2. Baseline \subseteq Case /\ findings \subseteq Case
  BY CaseAssumption DEF Case, CampaignInv, ActionsTypeOK
<1>3. ASSUME NEW k \in findings, BaselineOf(k) \in Case
      PROVE  /\ {k, BaselineOf(k)} \subseteq accepted' /\ k \notin Baseline
             /\ writes'[BaselineOf(k)] = "cleanup_done"
  BY <1>1, <1>3 DEF CampaignInv, FindingIsProven
<1>4. accepted \subseteq Case
  BY DEF CampaignInv, ActionsTypeOK
<1>5. \A k \in findings : BaselineOf(k) \in Case
  BY <1>4 DEF CampaignInv, FindingIsProven
<1>6. ASSUME NEW k \in findings', k \notin findings
      PROVE  /\ {k, BaselineOf(k)} \subseteq accepted /\ k \notin Baseline
             /\ writes'[BaselineOf(k)] = "cleanup_done"
  <2>1. JudgeCase(r)
    BY <1>6 DEF RunnerStep, BeginCampaigns, LoadCampaigns, CheckReady, RecordCaseIntent,
         SendAction, ActionLost, StopCampaigns, MarkCaseSent, CaseCall, Observe, SendCaseCleanup,
         CheckResource, MarkCaseCleanup
  <2>2. k = CaseOf(r) /\ IsFinding(r) /\ runner[r].pc = "judge"
    BY <1>6, <2>1 DEF JudgeCase
  <2>3. k \notin Baseline /\ runner[r].observed = "allow" /\ runner[r].baseline
    BY <2>2 DEF IsFinding, BaselineConfirmed
  <2>4. PICK b \in Baseline : IsBaselineOf(b, k) /\ b \in accepted /\ writes[b] = "cleanup_done"
    BY <1>1, <2>2, <2>3 DEF CaseInv
  <2>5. BaselineOf(k) = b
    BY <1>1, <2>2, <2>4, BaselineIsTheLast
  <2>6. k \in accepted
    BY <1>1, <2>2, <2>3 DEF CaseInv
  <2> QED
    BY <1>1, <1>2, <2>3, <2>4, <2>5, <2>6
<1> QED
  BY <1>1, <1>3, <1>5, <1>6 DEF FindingIsProven, BaselineOf

\* A case is handed to the network by the attempt that owns its entry, for the first time, and on
\* a resource that is ready.
LEMMA SendStep ==
    ASSUME CampaignInv, NEW r \in Runner, RunnerStep(r), NEW k \in Case, sent'[k] # sent[k]
    PROVE  sent[k] = 0 /\ resource = "ready" /\ k = CaseOf(r) /\ writes'[k] # "absent"
<1>1. SendAction(r) \/ ActionLost(r)
  BY DEF RunnerStep, BeginCampaigns, LoadCampaigns, CheckReady, RecordCaseIntent, StopCampaigns,
         MarkCaseSent, CaseCall, Observe, SendCaseCleanup, CheckResource, MarkCaseCleanup,
         JudgeCase, targetVars
<1>2. k = CaseOf(r) /\ runner[r].pc = "action" /\ writes' = writes
  BY <1>1 DEF SendAction, ActionLost, HandsCaseOver, CampaignInv, ActionsTypeOK
<1> QED
  BY <1>2 DEF CampaignInv, CaseInv

\* An action that arrives late finds no attempt ahead, and an attempt that waits for the first
\* entry has to find it there.
LEMMA ArriveStep ==
    ASSUME CampaignInv, NEW k \in Case, ArriveAction(k)
    PROVE  CampaignInv'
<1>1. /\ UNCHANGED <<writes, runner, findings, accepted, sent>> /\ k \in inFlight
      /\ inFlight' \subseteq inFlight
  BY DEF ArriveAction
<1>2. ActionsTypeOK'
  BY ActionsTypeStep DEF CampaignInv, ActionsNext
<1>3. writes[1] # "absent" /\ \A r \in Runner : ~Ahead(r)
  BY <1>1 DEF CampaignInv, LeadInv
<1>4. LeadInv'
  BY <1>1, <1>3 DEF LeadInv, Ahead, CaseOf
<1>5. FindingIsProven'
  BY <1>1 DEF CampaignInv, FindingIsProven, BaselineOf
<1>6. ASSUME NEW r \in Runner  PROVE CaseInv(r)'
  <2>1. CaseInv(r) /\ runner[r].pc \notin Owning /\ ~(runner[r].pc = "intent" /\ CaseOf(r) > 1)
    BY <1>3 DEF CampaignInv, Ahead
  <2>2. CaseOf(r) \in Nat /\ CaseOf(r) >= 1 /\ CaseOf(r)' = CaseOf(r)
    BY <1>1, CaseAssumption DEF CampaignInv, ActionsTypeOK, CaseOf, Case
  <2>3. runner[r].pc = "intent" => writes[CaseOf(r)] # "absent"
    BY <1>3, <2>1, <2>2
  <2> QED
    BY <1>1, <2>1, <2>2, <2>3 DEF CaseInv, Owning
<1> QED
  BY <1>1, <1>2, <1>4, <1>5, <1>6 DEF CampaignInv

\* Every step of the campaigns keeps the invariant.
LEMMA CampaignStep ==
    ASSUME CampaignInv, [ActionsNext]_actionVars
    PROVE  CampaignInv'
<1>1. ActionsTypeOK'
  BY ActionsTypeStep DEF CampaignInv
<1>2. ASSUME NEW r \in Runner, RunnerStep(r)  PROVE CampaignInv'
  <2>1. \A s \in Runner : CaseInv(s)'
    BY <1>2, OwnStep, OthersKeep
  <2>2. ASSUME NEW k \in Case, writes'[k] = "absent"  PROVE sent'[k] = 0
    BY <1>2, <2>2, SendStep, StepOfOne DEF CampaignInv
  <2> QED
    BY <1>1, <1>2, <2>1, <2>2, LeadStep, FindingStep DEF CampaignInv
<1>3. CASE UNCHANGED actionVars
  BY <1>1, <1>3 DEF actionVars, CampaignInv, LeadInv, FindingIsProven, BaselineOf, CaseInv, Ahead,
                    CaseOf
<1> QED
  BY <1>2, <1>3, ArriveStep DEF ActionsNext

\* It holds in the beginning.
LEMMA CampaignStart == ActionsInit => CampaignInv
<1> SUFFICES ASSUME ActionsInit PROVE CampaignInv
  OBVIOUS
<1>1. PICK access \in SUBSET Case, state \in {"ready", "changed"} : ActionsStartFrom(access, state)
  BY DEF ActionsInit
<1>2. 1 \in Case
  BY CaseAssumption DEF Case
<1>3. \A r \in Runner : runner[r] = NewRunner /\ CaseOf(r) = 1
  BY <1>1 DEF ActionsStartFrom, NewRunner, CaseOf
<1>4. ActionsTypeOK
  BY <1>1, <1>2 DEF ActionsTypeOK, ActionsStartFrom, NewRunner
<1>5. LeadInv
  BY <1>1, <1>3 DEF LeadInv, Ahead, Owning, NewRunner, ActionsStartFrom
<1>6. FindingIsProven /\ \A k \in Case : sent[k] = 0
  BY <1>1 DEF FindingIsProven, ActionsStartFrom
<1>7. \A r \in Runner : CaseInv(r)
  BY <1>3 DEF CaseInv, NewRunner
<1> QED
  BY <1>4, <1>5, <1>6, <1>7 DEF CampaignInv

\* One attempt is ahead, from the first entry on; what it may rely on holds, and a finding is proven
\* (nextjsActionsRunner.Run over the journal): see CampaignInv.
THEOREM CampaignHolds == ActionsSpec => []CampaignInv
BY CampaignStart, CampaignStep, PTL DEF ActionsSpec

\* A case is sent once and on a resource that is ready.
LEMMA CasesInTurn == ActionsSpec => SentOnceOnReady
<1>1. ASSUME CampaignInv, [ActionsNext]_actionVars
      PROVE  [\A k \in Case : sent'[k] # sent[k] => sent[k] = 0 /\ resource = "ready"]_actionVars
  <2>1. ASSUME NEW k \in Case, sent'[k] # sent[k], ~UNCHANGED actionVars
        PROVE  sent[k] = 0 /\ resource = "ready"
    <3>1. PICK r \in Runner : RunnerStep(r)
      BY <1>1, <2>1 DEF ActionsNext, ArriveAction
    <3> QED
      BY <1>1, <2>1, <3>1, SendStep
  <2> QED
    BY <2>1
<1> QED
  BY <1>1, CampaignHolds, PTL DEF ActionsSpec, SentOnceOnReady

-----------------------------------------------------------------------------
(* NextjsBoundaries *)

\* The state of an attempt at the probes.
ProbePoint ==
    {"idle", "load", "cold", "bypass", "intent", "fill", "sent", "warm", "rebypass", "reset",
     "after", "mark", "control", "redirect", "before", "probe", "watch", "judge", "over"}
ProbeAttempt ==
    [pc : ProbePoint, probe : Probe, leak : {"unknown", "matched", "mismatch"}, hit : BOOLEAN,
     confirmed : BOOLEAN, clean : BOOLEAN]

\* Where an attempt owns the entry of its cache probe.
Filling == {"fill", "sent", "warm", "rebypass", "reset", "after", "mark"}

\* What an attempt may rely on at each point: the state of its entry and of the cache, and that a
\* disclosure it has seen is the doing of a broken boundary.
ProbeInv(r) ==
    /\ prober[r].pc \in Filling \cup {"cold", "bypass", "intent"} => ProbeOf(r) \in CacheProbe
    /\ prober[r].pc \in {"control", "redirect", "before", "probe", "watch"} =>
         ProbeOf(r) \notin CacheProbe
    /\ prober[r].pc \in {"fill", "sent"} => probeWrites[ProbeOf(r)] = "intent"
    /\ prober[r].pc \in Filling \ {"fill", "sent"} => probeWrites[ProbeOf(r)] = "sent"
    /\ prober[r].pc \in Filling => ProbeOf(r) \notin lateFills
    /\ prober[r].pc = "fill" => fills[ProbeOf(r)] = 0 /\ ProbeOf(r) \notin cached
    /\ prober[r].pc = "mark" /\ prober[r].clean => ProbeOf(r) \notin cached
    /\ flips = 0 /\ prober[r].pc \in {"intent"} \cup Filling => ProbeOf(r) \notin lenient
    /\ prober[r].confirmed => prober[r].hit
    /\ prober[r].hit => ProbeOf(r) \in faulty
    /\ prober[r].leak = "mismatch" /\ (ProbeOf(r) \notin CacheProbe \/ flips = 0) =>
         ProbeOf(r) \in faulty
    /\ prober[r].pc \in {"idle", "load"} => ProbeOf(r) = 1
    /\ prober[r].pc \notin {"rebypass", "reset", "after", "mark", "judge", "over"} =>
         ~prober[r].hit /\ ~prober[r].confirmed
    /\ prober[r].pc = "rebypass" => ~prober[r].confirmed

\* An entry tells what may be in the cache, and what may still arrive there.
CacheEntryInv(k) ==
    /\ probeWrites[k] = "absent" => fills[k] = 0 /\ k \notin cached /\ k \notin lateFills
    /\ probeWrites[k] = "cleanup_done" => k \notin cached
    /\ k \in lateFills => probeWrites[k] = "intent"

\* At most one attempt owns the entry of a probe, and only a broken boundary gives anything away.
FillInv ==
    /\ BoundariesTypeOK /\ BoundaryIsBroken
    /\ cached \subseteq faulty
    /\ \A f \in fetches : f[2] \in faulty
    /\ \A r, s \in Prober :
         prober[r].pc \in Filling /\ prober[s].pc \in Filling /\ ProbeOf(r) = ProbeOf(s) => r = s
    /\ \A r \in Prober : ProbeInv(r)
    /\ \A k \in CacheProbe : CacheEntryInv(k)

-----------------------------------------------------------------------------
\* The fields of an attempt after each kind of update.
LEMMA Going ==
    ASSUME BoundariesTypeOK, NEW r \in Prober, NEW label, Goto(r, label)
    PROVE  /\ prober'[r].pc = label /\ ProbeOf(r)' = ProbeOf(r)
           /\ prober'[r].leak = prober[r].leak /\ prober'[r].hit = prober[r].hit
           /\ prober'[r].confirmed = prober[r].confirmed /\ prober'[r].clean = prober[r].clean
BY DEF BoundariesTypeOK, Goto, ProbeOf

\* The same when an outcome is settled.
LEMMA Settling ==
    ASSUME BoundariesTypeOK, NEW r \in Prober, NEW leak, Settle(r, leak)
    PROVE  /\ prober'[r].pc = "judge" /\ ProbeOf(r)' = ProbeOf(r)
           /\ prober'[r].leak = leak /\ prober'[r].hit = prober[r].hit
           /\ prober'[r].confirmed = prober[r].confirmed /\ prober'[r].clean = prober[r].clean
BY DEF BoundariesTypeOK, Settle, ProbeOf

\* The same when the outcome of a reset is noted.
LEMMA Noting ==
    ASSUME BoundariesTypeOK, NEW r \in Prober, NEW ok, NEW label,
           prober' = [prober EXCEPT ![r].clean = ok, ![r].pc = label]
    PROVE  /\ prober'[r].pc = label /\ ProbeOf(r)' = ProbeOf(r)
           /\ prober'[r].leak = prober[r].leak /\ prober'[r].hit = prober[r].hit
           /\ prober'[r].confirmed = prober[r].confirmed /\ prober'[r].clean = ok
BY DEF BoundariesTypeOK, ProbeOf

\* An attempt stays one when fields of it are given values of their types.
LEMMA Updating ==
    ASSUME NEW a \in ProbeAttempt, NEW pc \in ProbePoint,
           NEW leak \in {"unknown", "matched", "mismatch"},
           NEW hit \in BOOLEAN, NEW confirmed \in BOOLEAN, NEW clean \in BOOLEAN
    PROVE  /\ [a EXCEPT !.pc = pc] \in ProbeAttempt
           /\ [a EXCEPT !.leak = leak, !.pc = pc] \in ProbeAttempt
           /\ [a EXCEPT !.leak = leak, !.hit = hit, !.pc = pc] \in ProbeAttempt
           /\ [a EXCEPT !.confirmed = confirmed, !.pc = pc] \in ProbeAttempt
           /\ [a EXCEPT !.clean = clean, !.pc = pc] \in ProbeAttempt
<1>1. [a EXCEPT !.pc = pc] \in ProbeAttempt
  BY DEF ProbeAttempt
<1>2. [a EXCEPT !.leak = leak, !.pc = pc] \in ProbeAttempt
  BY DEF ProbeAttempt
<1>3. [a EXCEPT !.leak = leak, !.hit = hit, !.pc = pc] \in ProbeAttempt
  BY DEF ProbeAttempt
<1>4. [a EXCEPT !.confirmed = confirmed, !.pc = pc] \in ProbeAttempt
  BY DEF ProbeAttempt
<1>5. [a EXCEPT !.clean = clean, !.pc = pc] \in ProbeAttempt
  BY DEF ProbeAttempt
<1> QED
  BY <1>1, <1>2, <1>3, <1>4, <1>5

\* What each step of an attempt makes of its own state.
LEMMA OwnChange ==
    ASSUME BoundariesTypeOK, NEW r \in Prober, ProberStep(r)
    PROVE  \E next \in ProbeAttempt : prober' = [prober EXCEPT ![r] = next]
<1>0. prober \in [Prober -> ProbeAttempt] /\ prober[r] \in ProbeAttempt
  BY DEF BoundariesTypeOK, ProbeAttempt, ProbePoint
<1>1. ASSUME NEW label \in ProbePoint, Goto(r, label)
      PROVE  \E next \in ProbeAttempt : prober' = [prober EXCEPT ![r] = next]
  <2> DEFINE next == [prober[r] EXCEPT !.pc = label]
  <2>1. prober' = [prober EXCEPT ![r] = next]
    BY <1>1 DEF Goto
  <2>2. next \in ProbeAttempt
    BY <1>0, <1>1, Updating DEF ProbePoint
  <2> QED
    BY <2>1, <2>2
<1>2. ASSUME NEW leak \in {"unknown", "matched", "mismatch"}, Settle(r, leak)
      PROVE  \E next \in ProbeAttempt : prober' = [prober EXCEPT ![r] = next]
  <2> DEFINE next == [prober[r] EXCEPT !.leak = leak, !.pc = "judge"]
  <2>1. prober' = [prober EXCEPT ![r] = next]
    BY <1>2 DEF Settle
  <2>2. next \in ProbeAttempt
    BY <1>0, <1>2, Updating DEF ProbePoint
  <2> QED
    BY <2>1, <2>2
<1>3. \A k : Entry(k) \in {"cold", "before", "control"}
  BY DEF Entry
<1>4. CASE BeginProbes(r)
  BY <1>1, <1>4 DEF BeginProbes, ProbePoint
<1>5. CASE LoadProbes(r)
  BY <1>1, <1>3, <1>5 DEF LoadProbes, ProbePoint
<1>6. CASE Cold(r) \/ Bypass(r) \/ RedirectControl(r) \/ EventsBefore(r) \/ EventsAfter(r)
  BY <1>1, <1>2, <1>6 DEF Cold, Bypass, RedirectControl, EventsBefore, EventsAfter, ProbePoint
<1>7. CASE RecordFillIntent(r) \/ MarkFillSent(r)
  BY <1>1, <1>7 DEF RecordFillIntent, MarkFillSent, FillCall, ProbePoint
<1>8. CASE SendFill(r) \/ FillLost(r) \/ StopProbes(r) \/ SendProbe(r)
  BY <1>1, <1>8 DEF SendFill, FillLost, StopProbes, SendProbe, ProbePoint
<1>9. CASE RedirectProbe(r)
  BY <1>2, <1>9 DEF RedirectProbe
<1>10. CASE Warm(r)
  <2>1. PICK leak \in {IF Private(ProbeOf(r)) THEN "mismatch" ELSE "matched", "unknown"} :
          prober' = [prober EXCEPT ![r].leak = leak, ![r].hit = FromCache(ProbeOf(r)),
                                   ![r].pc = "rebypass"]
    BY <1>10 DEF Warm
  <2> DEFINE next == [prober[r] EXCEPT !.leak = leak, !.hit = FromCache(ProbeOf(r)),
                                       !.pc = "rebypass"]
  <2>2. FromCache(ProbeOf(r)) \in BOOLEAN /\ leak \in {"unknown", "matched", "mismatch"}
    BY DEF FromCache
  <2>3. prober' = [prober EXCEPT ![r] = next]
    BY <2>1
  <2>4. next \in ProbeAttempt
    BY <1>0, <2>2, Updating DEF ProbePoint
  <2> QED
    BY <2>3, <2>4
<1>11. CASE Rebypass(r)
  <2>1. PICK confirmed \in {FALSE, Attributable(r)} :
          prober' = [prober EXCEPT ![r].confirmed = confirmed, ![r].pc = "reset"]
    BY <1>11 DEF Rebypass
  <2> DEFINE next == [prober[r] EXCEPT !.confirmed = confirmed, !.pc = "reset"]
  <2>2. confirmed \in BOOLEAN
    BY DEF Attributable
  <2>3. prober' = [prober EXCEPT ![r] = next]
    BY <2>1
  <2>4. next \in ProbeAttempt
    BY <1>0, <2>2, Updating DEF ProbePoint
  <2> QED
    BY <2>3, <2>4
<1>12. CASE SendReset(r) \/ CheckReset(r)
  <2>1. PICK ok \in BOOLEAN, label \in ProbePoint :
          prober' = [prober EXCEPT ![r].clean = ok, ![r].pc = label]
    <3>1. CASE SendReset(r)
      BY <3>1 DEF SendReset, ProbePoint
    <3>2. CASE CheckReset(r)
      <4>1. PICK ok \in {FALSE, IsReset(r)} :
              prober' = [prober EXCEPT ![r].clean = ok, ![r].pc = "mark"]
        BY <3>2 DEF CheckReset
      <4>2. ok \in BOOLEAN /\ "mark" \in ProbePoint
        BY DEF IsReset, ProbePoint
      <4> QED
        BY <4>1, <4>2
    <3> QED
      BY <1>12, <3>1, <3>2
  <2> DEFINE next == [prober[r] EXCEPT !.clean = ok, !.pc = label]
  <2>2. prober' = [prober EXCEPT ![r] = next]
    BY <2>1
  <2>3. next \in ProbeAttempt
    BY <1>0, Updating
  <2> QED
    BY <2>2, <2>3
<1>13. CASE MarkReset(r)
  <2>1. CASE Goto(r, "judge")
    BY <1>1, <2>1 DEF ProbePoint
  <2>2. CASE prober' = [prober EXCEPT ![r].clean = FALSE, ![r].pc = "judge"]
    <3> DEFINE next == [prober[r] EXCEPT !.clean = FALSE, !.pc = "judge"]
    <3>1. prober' = [prober EXCEPT ![r] = next]
      BY <2>2
    <3>2. next \in ProbeAttempt
      BY <1>0, Updating DEF ProbePoint
    <3> QED
      BY <3>1, <3>2
  <2> QED
    BY <1>13, <2>1, <2>2 DEF MarkReset
<1>14. CASE JudgeProbe(r)
  <2>1. ProbeOf(r) \in Probe /\ (ProbeOf(r) < LastProbe => ProbeOf(r) + 1 \in Probe)
    BY <1>0, ProbeAssumption DEF ProbeOf, Probe, ProbeAttempt
  <2> DEFINE on == [NewProber EXCEPT !.pc = Entry(ProbeOf(r) + 1), !.probe = ProbeOf(r) + 1]
             off == [prober[r] EXCEPT !.pc = "over"]
  <2>2. off \in ProbeAttempt
    BY <1>0, Updating DEF ProbePoint
  <2>3. ProbeOf(r) < LastProbe => on \in ProbeAttempt
    BY <1>3, <2>1 DEF NewProber, ProbeAttempt, ProbePoint
  <2>4. \/ ProbeOf(r) < LastProbe /\ prober' = [prober EXCEPT ![r] = on]
        \/ prober' = [prober EXCEPT ![r] = off]
    BY <1>14 DEF JudgeProbe
  <2> QED
    BY <2>2, <2>3, <2>4
<1> QED
  BY <1>4, <1>5, <1>6, <1>7, <1>8, <1>9, <1>10, <1>11, <1>12, <1>13, <1>14 DEF ProberStep

\* Every step of the probes keeps the types.
LEMMA BoundariesTypeStep ==
    ASSUME FillInv, [BoundariesNext]_boundaryVars
    PROVE  BoundariesTypeOK'
<1> USE DEF FillInv
<1>0. prober \in [Prober -> ProbeAttempt]
  BY DEF BoundariesTypeOK, ProbeAttempt, ProbePoint
<1>1. ASSUME NEW r \in Prober, ProberStep(r)  PROVE prober' \in [Prober -> ProbeAttempt]
  BY <1>0, <1>1, OwnChange
<1>2. ASSUME NEW r \in Prober  PROVE ProbeOf(r) \in Probe /\ prober[r].confirmed \in BOOLEAN
  BY <1>0 DEF ProbeOf, ProbeAttempt
<1>3. ASSUME NEW r \in Prober, ProberStep(r)
      PROVE  /\ probeWrites' \in
                  [CacheProbe -> {"absent", "intent", "sent", "cleanup_done", "cleanup_failed"}]
             /\ fills' \in [CacheProbe -> Nat]
  BY <1>3 DEF ProberStep, BeginProbes, LoadProbes, Cold, Bypass, RecordFillIntent, SendFill,
       FillLost, MarkFillSent, Warm, Rebypass, SendReset, CheckReset, MarkReset, RedirectControl,
       RedirectProbe, EventsBefore, SendProbe, EventsAfter, JudgeProbe, StopProbes, FillCall,
       HandsFillOver, probeVars, BoundariesTypeOK
<1>4. ASSUME NEW r \in Prober, ProberStep(r)
      PROVE  probeFindings' \subseteq [probe : Probe, confirmed : BOOLEAN]
  <2>1. [probe |-> ProbeOf(r), confirmed |-> prober[r].confirmed]
           \in [probe : Probe, confirmed : BOOLEAN]
    BY <1>2
  <2> QED
    BY <1>4, <2>1 DEF ProberStep, BeginProbes, LoadProbes, Cold, Bypass, RecordFillIntent, SendFill,
       FillLost, MarkFillSent, Warm, Rebypass, SendReset, CheckReset, MarkReset, RedirectControl,
       RedirectProbe, EventsBefore, SendProbe, EventsAfter, JudgeProbe, StopProbes, FillCall,
       BoundariesTypeOK
<1>5. ASSUME NEW r \in Prober, ProberStep(r)
      PROVE  UNCHANGED <<faulty, lenient, flips>>
  BY <1>5 DEF ProberStep, BeginProbes, LoadProbes, Cold, Bypass, RecordFillIntent, SendFill,
       FillLost, MarkFillSent, Warm, Rebypass, SendReset, CheckReset, MarkReset, RedirectControl,
       RedirectProbe, EventsBefore, SendProbe, EventsAfter, JudgeProbe, StopProbes, FillCall,
       probeVars
<1>6. ASSUME NEW r \in Prober, ProberStep(r)
      PROVE  /\ cached' \subseteq CacheProbe /\ lateFills' \subseteq CacheProbe
             /\ fetches' \subseteq Prober \X Probe
  <2>1. prober[r].pc = "fill" => ProbeOf(r) \in CacheProbe
    BY DEF ProbeInv, Filling
  <2>2. <<r, ProbeOf(r)>> \in Prober \X Probe
    BY <1>2
  <2> QED
    BY <1>6, <2>1, <2>2
       DEF ProberStep, BeginProbes, LoadProbes, Cold, Bypass, RecordFillIntent, SendFill,
       FillLost, MarkFillSent, Warm, Rebypass, SendReset, CheckReset, MarkReset, RedirectControl,
       RedirectProbe, EventsBefore, SendProbe, EventsAfter, JudgeProbe, StopProbes, FillCall,
       probeVars, Fills, BoundariesTypeOK, Is
<1>7. ASSUME NEW r \in Prober, ProberStep(r)  PROVE BoundariesTypeOK'
  BY <1>1, <1>3, <1>4, <1>5, <1>6, <1>7 DEF BoundariesTypeOK, ProbeAttempt, ProbePoint
<1>8. ASSUME NEW k \in CacheProbe, ArriveFill(k)  PROVE BoundariesTypeOK'
  BY <1>8 DEF ArriveFill, Fills, BoundariesTypeOK
<1>9. ASSUME NEW k \in CacheProbe, Flip(k)  PROVE BoundariesTypeOK'
  <2>1. flips' \in 0 .. MaxFlips
    BY <1>9, ProbeAssumption DEF Flip, BoundariesTypeOK
  <2> QED
    BY <1>9, <2>1 DEF Flip, BoundariesTypeOK
<1>10. CASE UNCHANGED boundaryVars
  BY <1>10 DEF boundaryVars, BoundariesTypeOK
<1> QED
  BY <1>7, <1>8, <1>9, <1>10 DEF BoundariesNext

-----------------------------------------------------------------------------
\* What a step of an attempt leaves alone: the target's boundaries, the other attempts and the
\* entries, fills and cache of the other probes.
LEMMA ProbeOfOne ==
    ASSUME FillInv, NEW r \in Prober, ProberStep(r)
    PROVE  /\ UNCHANGED <<faulty, lenient, flips>>
           /\ \A s \in Prober : s # r => prober'[s] = prober[s]
           /\ \A k \in CacheProbe : k # ProbeOf(r) =>
                /\ probeWrites'[k] = probeWrites[k] /\ fills'[k] = fills[k]
                /\ k \in cached' <=> k \in cached
                /\ k \in lateFills' <=> k \in lateFills
<1>1. UNCHANGED <<faulty, lenient, flips>>
  BY DEF ProberStep, BeginProbes, LoadProbes, Cold, Bypass, RecordFillIntent, SendFill,
       FillLost, MarkFillSent, Warm, Rebypass, SendReset, CheckReset, MarkReset, RedirectControl,
       RedirectProbe, EventsBefore, SendProbe, EventsAfter, JudgeProbe, StopProbes, FillCall,
       probeVars
<1>2. \A s \in Prober : s # r => prober'[s] = prober[s]
  BY OwnChange DEF FillInv, BoundariesTypeOK
<1>3. ASSUME NEW k \in CacheProbe, k # ProbeOf(r)
      PROVE  probeWrites'[k] = probeWrites[k] /\ fills'[k] = fills[k]
  BY <1>3 DEF ProberStep, BeginProbes, LoadProbes, Cold, Bypass, RecordFillIntent, SendFill,
       FillLost, MarkFillSent, Warm, Rebypass, SendReset, CheckReset, MarkReset, RedirectControl,
       RedirectProbe, EventsBefore, SendProbe, EventsAfter, JudgeProbe, StopProbes, FillCall,
       HandsFillOver, probeVars, FillInv, BoundariesTypeOK
<1>4. ASSUME NEW k \in CacheProbe, k # ProbeOf(r)
      PROVE  (k \in cached' <=> k \in cached) /\ (k \in lateFills' <=> k \in lateFills)
  BY <1>4 DEF ProberStep, BeginProbes, LoadProbes, Cold, Bypass, RecordFillIntent, SendFill,
       FillLost, MarkFillSent, Warm, Rebypass, SendReset, CheckReset, MarkReset, RedirectControl,
       RedirectProbe, EventsBefore, SendProbe, EventsAfter, JudgeProbe, StopProbes, FillCall,
       Fills, probeVars
<1> QED
  BY <1>1, <1>2, <1>3, <1>4

\* An attempt that owns no entry changes none but the absent one of its probe, and comes to own
\* an entry in no other way.
LEMMA Owns ==
    ASSUME FillInv, NEW r \in Prober, ProberStep(r), prober[r].pc \notin Filling
    PROVE  /\ UNCHANGED <<fills, cached, lateFills>>
           /\ \/ probeWrites' = probeWrites /\ prober'[r].pc \notin Filling
              \/ /\ ProbeOf(r) \in CacheProbe /\ probeWrites[ProbeOf(r)] = "absent"
                 /\ probeWrites' = [probeWrites EXCEPT ![ProbeOf(r)] = "intent"]
                 /\ ProbeOf(r)' = ProbeOf(r)
<1> USE DEF FillInv, Filling
<1>1. UNCHANGED <<fills, cached, lateFills>>
  BY DEF ProberStep, BeginProbes, LoadProbes, Cold, Bypass, RecordFillIntent, SendFill,
       FillLost, MarkFillSent, Warm, Rebypass, SendReset, CheckReset, MarkReset, RedirectControl,
       RedirectProbe, EventsBefore, SendProbe, EventsAfter, JudgeProbe, StopProbes, FillCall,
       probeVars, Is
<1>2. CASE RecordFillIntent(r)
  <2>1. ProbeOf(r) \in CacheProbe
    BY <1>2 DEF RecordFillIntent, Is, ProbeInv
  <2>2. Goto(r, "fill") \/ Goto(r, "over")
    BY <1>2 DEF RecordFillIntent, FillCall
  <2>3. ProbeOf(r)' = ProbeOf(r) /\ (Goto(r, "over") => prober'[r].pc = "over")
    BY <2>2, Going
  <2> QED
    BY <1>1, <1>2, <2>1, <2>3 DEF RecordFillIntent, FillCall
<1>3. CASE ~RecordFillIntent(r)
  <2>1. probeWrites' = probeWrites
    BY <1>3 DEF ProberStep, BeginProbes, LoadProbes, Cold, Bypass, SendFill,
       FillLost, MarkFillSent, Warm, Rebypass, SendReset, CheckReset, MarkReset, RedirectControl,
       RedirectProbe, EventsBefore, SendProbe, EventsAfter, JudgeProbe, StopProbes, Is
  <2>2. ASSUME NEW label \in {"load", "over", "cold", "bypass", "intent", "control", "redirect",
                              "before", "probe", "watch"}, Goto(r, label)
        PROVE  prober'[r].pc \notin Filling
    BY <2>2, Going
  <2>3. ASSUME NEW leak, Settle(r, leak)  PROVE prober'[r].pc \notin Filling
    BY <2>3, Settling
  <2>4. \A k : Entry(k) \in {"cold", "before", "control"}
    BY DEF Entry
  <2>5. ASSUME JudgeProbe(r)  PROVE prober'[r].pc \notin Filling
    <3> DEFINE on == [NewProber EXCEPT !.pc = Entry(ProbeOf(r) + 1), !.probe = ProbeOf(r) + 1]
               off == [prober[r] EXCEPT !.pc = "over"]
    <3>1. on.pc \notin Filling
      BY <2>4 DEF NewProber
    <3>2. off.pc \notin Filling
      BY DEF BoundariesTypeOK
    <3>3. prober'[r] = on \/ prober'[r] = off
      BY <2>5 DEF JudgeProbe, BoundariesTypeOK
    <3> HIDE DEF on, off
    <3> QED
      BY <3>1, <3>2, <3>3
  <2>6. ASSUME BeginProbes(r) \/ LoadProbes(r)  PROVE prober'[r].pc \notin Filling
    BY <2>2, <2>4, <2>6 DEF BeginProbes, LoadProbes
  <2>7. ASSUME \/ Cold(r) \/ Bypass(r) \/ RedirectControl(r) \/ RedirectProbe(r)
               \/ EventsBefore(r) \/ SendProbe(r) \/ EventsAfter(r) \/ StopProbes(r)
        PROVE  prober'[r].pc \notin Filling
    BY <2>2, <2>3, <2>7 DEF Cold, Bypass, RedirectControl, RedirectProbe, EventsBefore, SendProbe,
       EventsAfter, StopProbes, Is
  <2>8. prober'[r].pc \notin Filling
    BY <1>3, <2>5, <2>6, <2>7 DEF ProberStep, SendFill, FillLost, MarkFillSent, Warm, Rebypass,
       SendReset, CheckReset, MarkReset, Is
  <2> QED
    BY <1>1, <2>1, <2>8
<1> QED
  BY <1>2, <1>3

\* An attempt that owns an entry stays with its probe while it does.
LEMMA OwnsOn ==
    ASSUME FillInv, NEW r \in Prober, ProberStep(r), prober[r].pc \in Filling
    PROVE  ProbeOf(r)' = ProbeOf(r)
<1> USE DEF FillInv
<1>1. ~JudgeProbe(r)
  BY DEF JudgeProbe, Is, Filling
<1>2. ASSUME NEW label, Goto(r, label)  PROVE ProbeOf(r)' = ProbeOf(r)
  BY <1>2, Going
<1>3. CASE Warm(r) \/ Rebypass(r)
  BY <1>3 DEF Warm, Rebypass, BoundariesTypeOK, ProbeOf
<1>4. CASE SendReset(r) \/ CheckReset(r) \/ MarkReset(r)
  BY <1>2, <1>4, Noting DEF SendReset, CheckReset, MarkReset
<1> QED
  BY <1>1, <1>2, <1>3, <1>4 DEF ProberStep, BeginProbes, LoadProbes, Cold, Bypass, RecordFillIntent,
       SendFill, FillLost, MarkFillSent, RedirectControl, RedirectProbe, EventsBefore, SendProbe,
       EventsAfter, StopProbes, FillCall, Is, Filling

\* No two attempts come to own the entry of one probe.
LEMMA OwnersStayApart ==
    ASSUME FillInv, NEW r \in Prober, ProberStep(r),
           NEW s \in Prober, s # r, prober'[r].pc \in Filling, prober'[s].pc \in Filling
    PROVE  ProbeOf(r)' # ProbeOf(s)'
<1>1. prober'[s] = prober[s] /\ ProbeOf(s)' = ProbeOf(s)
  BY ProbeOfOne DEF ProbeOf
<1>2. probeWrites[ProbeOf(s)] \in {"intent", "sent"}
  BY <1>1 DEF FillInv, ProbeInv
<1>3. CASE prober[r].pc \in Filling
  BY <1>1, <1>3, OwnsOn DEF FillInv
<1>4. CASE prober[r].pc \notin Filling
  BY <1>1, <1>2, <1>4, Owns
<1> QED
  BY <1>3, <1>4

\* An attempt takes nothing away that another one may rely on.
LEMMA OtherProbesKeep ==
    ASSUME FillInv, NEW r \in Prober, ProberStep(r), NEW s \in Prober, s # r
    PROVE  ProbeInv(s)'
<1>1. /\ UNCHANGED <<faulty, lenient, flips>> /\ prober'[s] = prober[s]
      /\ ProbeOf(s)' = ProbeOf(s) /\ ProbeInv(s)
  BY ProbeOfOne DEF ProbeOf, FillInv
<1>2. CASE prober[s].pc \in Filling
  <2>1. ProbeOf(s) \in CacheProbe /\ probeWrites[ProbeOf(s)] \in {"intent", "sent"}
    BY <1>1, <1>2 DEF ProbeInv, Filling
  <2>2. CASE ProbeOf(s) # ProbeOf(r)
    BY <1>1, <2>1, <2>2, ProbeOfOne DEF ProbeInv
  <2>3. CASE ProbeOf(s) = ProbeOf(r)
    <3>1. prober[r].pc \notin Filling
      BY <1>2, <2>3 DEF FillInv
    <3>2. UNCHANGED <<fills, cached, lateFills, probeWrites>>
      BY <2>1, <2>3, <3>1, Owns
    <3> QED
      BY <1>1, <3>2 DEF ProbeInv
  <2> QED
    BY <2>2, <2>3
<1>3. CASE prober[s].pc \notin Filling
  BY <1>1, <1>3 DEF ProbeInv, Filling
<1> QED
  BY <1>2, <1>3

\* The acting attempt keeps what it may rely on, action by action.
LEMMA OwnProbeStep ==
    ASSUME FillInv, NEW r \in Prober, ProberStep(r)
    PROVE  ProbeInv(r)'
<1> USE DEF FillInv
<1>1. /\ ProbeInv(r) /\ ProbeOf(r) \in Probe /\ UNCHANGED <<faulty, lenient, flips>>
      /\ prober[r].hit \in BOOLEAN /\ prober[r].confirmed \in BOOLEAN /\ prober[r].clean \in BOOLEAN
  BY ProbeOfOne DEF BoundariesTypeOK, ProbeOf
<1>2. ASSUME prober'[r].pc \notin Filling \cup {"cold", "bypass", "intent", "control", "redirect",
                                               "before", "probe", "watch"},
             prober'[r].pc \in {"judge", "over"} \/ prober[r].pc = "idle",
             ProbeOf(r)' = ProbeOf(r), prober'[r].hit = prober[r].hit,
             prober'[r].leak = prober[r].leak, prober'[r].confirmed = prober[r].confirmed
      PROVE  ProbeInv(r)'
  BY <1>1, <1>2 DEF ProbeInv, Filling
<1>3. ASSUME NEW label \in {"over", "load", "judge"}, Goto(r, label),
             label = "load" => prober[r].pc = "idle"
      PROVE  ProbeInv(r)'
  BY <1>2, <1>3, Going DEF Filling
<1>4. ASSUME NEW leak, Settle(r, leak),
             leak = "mismatch" /\ (ProbeOf(r) \notin CacheProbe \/ flips = 0) =>
               ProbeOf(r) \in faulty
      PROVE  ProbeInv(r)'
  <2>1. /\ prober'[r].pc = "judge" /\ ProbeOf(r)' = ProbeOf(r)
        /\ prober'[r].leak = leak /\ prober'[r].hit = prober[r].hit
        /\ prober'[r].confirmed = prober[r].confirmed
    BY <1>4, Settling
  <2> QED
    BY <1>1, <1>4, <2>1 DEF ProbeInv, Filling
<1>5. \A k : Entry(k) \in {"cold", "control", "before"} /\ (Entry(k) = "cold" <=> k \in CacheProbe)
  BY DEF Entry
<1>10. CASE BeginProbes(r)
  BY <1>3, <1>10 DEF BeginProbes, Is
<1>11. CASE LoadProbes(r)
  <2>1. CASE Goto(r, "over")
    BY <1>3, <2>1
  <2>2. CASE Goto(r, Entry(1))
    <3>1. ProbeOf(r) = 1 /\ ~prober[r].hit /\ ~prober[r].confirmed
      BY <1>1, <1>11 DEF LoadProbes, Is, ProbeInv
    <3>2. /\ prober'[r].pc = Entry(1) /\ ProbeOf(r)' = ProbeOf(r)
          /\ prober'[r].leak = prober[r].leak /\ prober'[r].hit = prober[r].hit
          /\ prober'[r].confirmed = prober[r].confirmed
      BY <2>2, Going
    <3> QED
      BY <1>1, <1>5, <3>1, <3>2 DEF ProbeInv, Filling
  <2> QED
    BY <1>11, <2>1, <2>2 DEF LoadProbes
<1>12. CASE Cold(r)
  <2>1. CASE Goto(r, "bypass")
    BY <1>1, <1>12, <2>1, Going DEF Cold, Is, ProbeInv, Filling
  <2> QED
    BY <1>4, <1>12, <2>1 DEF Cold
<1>13. CASE Bypass(r)
  <2>1. CASE Goto(r, "intent") /\ ProbeOf(r) \notin lenient
    BY <1>1, <1>13, <2>1, Going DEF Bypass, Is, ProbeInv, Filling
  <2> QED
    BY <1>4, <1>13, <2>1 DEF Bypass
<1>14. CASE RecordFillIntent(r)
  <2>1. CASE /\ Goto(r, "fill") /\ probeWrites[ProbeOf(r)] = "absent"
             /\ probeWrites' = [probeWrites EXCEPT ![ProbeOf(r)] = "intent"]
    <3>1. /\ ProbeOf(r) \in CacheProbe /\ (flips = 0 => ProbeOf(r) \notin lenient)
          /\ ~prober[r].hit /\ ~prober[r].confirmed
      BY <1>1, <1>14 DEF RecordFillIntent, Is, ProbeInv
    <3>2. fills[ProbeOf(r)] = 0 /\ ProbeOf(r) \notin cached /\ ProbeOf(r) \notin lateFills
      BY <2>1, <3>1 DEF CacheEntryInv
    <3>3. UNCHANGED probeVars
      BY <1>14 DEF RecordFillIntent, FillCall
    <3>4. probeWrites'[ProbeOf(r)] = "intent"
      BY <2>1, <3>1 DEF BoundariesTypeOK
    <3>5. /\ prober'[r].pc = "fill" /\ ProbeOf(r)' = ProbeOf(r)
          /\ prober'[r].leak = prober[r].leak /\ prober'[r].hit = prober[r].hit
          /\ prober'[r].confirmed = prober[r].confirmed
      BY <2>1, Going
    <3> QED
      BY <1>1, <3>1, <3>2, <3>3, <3>4, <3>5 DEF ProbeInv, Filling, probeVars
  <2> QED
    BY <1>3, <1>14, <2>1 DEF RecordFillIntent, FillCall
<1>15. CASE SendFill(r)
  <2>1. /\ prober'[r].pc = "sent" /\ ProbeOf(r)' = ProbeOf(r)
        /\ prober'[r].leak = prober[r].leak /\ prober'[r].hit = prober[r].hit
        /\ prober'[r].confirmed = prober[r].confirmed
    BY <1>15, Going DEF SendFill
  <2> QED
    BY <1>1, <1>15, <2>1 DEF SendFill, Is, ProbeInv, Filling
<1>16. CASE FillLost(r) \/ StopProbes(r)
  BY <1>3, <1>16 DEF FillLost, StopProbes
<1>17. CASE MarkFillSent(r)
  <2>1. CASE /\ Goto(r, "warm") \/ Goto(r, "reset")
             /\ probeWrites' = [probeWrites EXCEPT ![ProbeOf(r)] = "sent"]
    <3>1. /\ ProbeOf(r) \in CacheProbe /\ (flips = 0 => ProbeOf(r) \notin lenient)
          /\ ProbeOf(r) \notin lateFills /\ ~prober[r].hit /\ ~prober[r].confirmed
      BY <1>1, <1>17 DEF MarkFillSent, Is, ProbeInv, Filling
    <3>2. probeWrites'[ProbeOf(r)] = "sent" /\ UNCHANGED probeVars
      BY <1>17, <2>1, <3>1 DEF MarkFillSent, FillCall, BoundariesTypeOK
    <3>3. /\ prober'[r].pc \in {"warm", "reset"} /\ ProbeOf(r)' = ProbeOf(r)
          /\ prober'[r].leak = prober[r].leak /\ prober'[r].hit = prober[r].hit
          /\ prober'[r].confirmed = prober[r].confirmed
      BY <2>1, Going
    <3> QED
      BY <1>1, <3>1, <3>2, <3>3 DEF ProbeInv, Filling, probeVars
  <2> QED
    BY <1>3, <1>17, <2>1 DEF MarkFillSent, FillCall
<1>18. CASE Warm(r)
  <2>1. PICK leak \in {IF Private(ProbeOf(r)) THEN "mismatch" ELSE "matched", "unknown"} :
          prober' = [prober EXCEPT ![r].leak = leak, ![r].hit = FromCache(ProbeOf(r)),
                                   ![r].pc = "rebypass"]
    BY <1>18 DEF Warm
  <2>2. /\ prober'[r].pc = "rebypass" /\ ProbeOf(r)' = ProbeOf(r)
        /\ prober'[r].leak = leak /\ prober'[r].hit = FromCache(ProbeOf(r))
        /\ prober'[r].confirmed = prober[r].confirmed
    BY <2>1 DEF BoundariesTypeOK, ProbeOf
  <2>3. UNCHANGED <<probeWrites, probeVars>> /\ prober[r].pc = "warm"
    BY <1>18 DEF Warm, Is
  <2>4. ~prober[r].confirmed
    BY <1>1, <2>3 DEF ProbeInv
  <2>5. leak = "mismatch" => ProbeOf(r) \in cached \/ ProbeOf(r) \in lenient
    BY DEF Private, FromCache
  <2>6. FromCache(ProbeOf(r)) => ProbeOf(r) \in faulty
    BY DEF FromCache
  <2> QED
    BY <1>1, <2>2, <2>3, <2>4, <2>5, <2>6 DEF ProbeInv, Filling, probeVars
<1>19. CASE Rebypass(r)
  <2>1. PICK confirmed \in {FALSE, Attributable(r)} :
          prober' = [prober EXCEPT ![r].confirmed = confirmed, ![r].pc = "reset"]
    BY <1>19 DEF Rebypass
  <2>2. /\ prober'[r].pc = "reset" /\ ProbeOf(r)' = ProbeOf(r)
        /\ prober'[r].leak = prober[r].leak /\ prober'[r].hit = prober[r].hit
        /\ prober'[r].confirmed = confirmed
    BY <2>1 DEF BoundariesTypeOK, ProbeOf
  <2>3. UNCHANGED <<probeWrites, probeVars>> /\ prober[r].pc = "rebypass"
    BY <1>19 DEF Rebypass, Is
  <2>4. confirmed => prober[r].hit
    BY DEF Attributable
  <2> QED
    BY <1>1, <2>2, <2>3, <2>4 DEF ProbeInv, Filling, probeVars
<1>20. CASE SendReset(r)
  <2>1. PICK ok \in BOOLEAN :
          prober' = [prober EXCEPT ![r].clean = ok, ![r].pc = IF ok THEN "after" ELSE "mark"]
    BY <1>20 DEF SendReset
  <2> DEFINE label == IF ok THEN "after" ELSE "mark"
  <2>2. /\ prober'[r].pc = label /\ ProbeOf(r)' = ProbeOf(r)
        /\ prober'[r].leak = prober[r].leak /\ prober'[r].hit = prober[r].hit
        /\ prober'[r].confirmed = prober[r].confirmed /\ prober'[r].clean = ok
    <3>1. prober' = [prober EXCEPT ![r].clean = ok, ![r].pc = label]
      BY <2>1
    <3> HIDE DEF label
    <3> QED
      BY <3>1, Noting
  <2>3. UNCHANGED <<probeWrites, lateFills, fills>> /\ prober[r].pc = "reset"
    BY <1>20 DEF SendReset, Is
  <2> QED
    BY <1>1, <2>2, <2>3 DEF ProbeInv, Filling
<1>21. CASE CheckReset(r)
  <2>1. PICK ok \in {FALSE, IsReset(r)} :
          prober' = [prober EXCEPT ![r].clean = ok, ![r].pc = "mark"]
    BY <1>21 DEF CheckReset
  <2>2. /\ prober'[r].pc = "mark" /\ ProbeOf(r)' = ProbeOf(r)
        /\ prober'[r].leak = prober[r].leak /\ prober'[r].hit = prober[r].hit
        /\ prober'[r].confirmed = prober[r].confirmed /\ prober'[r].clean = ok
    BY <2>1, Noting
  <2>3. ok => ProbeOf(r) \notin cached
    BY DEF IsReset, Private, FromCache
  <2>4. UNCHANGED <<probeWrites, probeVars>> /\ prober[r].pc = "after"
    BY <1>21 DEF CheckReset, Is
  <2> QED
    BY <1>1, <2>2, <2>3, <2>4 DEF ProbeInv, Filling, probeVars
<1>22. CASE MarkReset(r)
  BY <1>2, <1>3, <1>22, Noting DEF MarkReset, Filling
<1>23. CASE RedirectControl(r) \/ EventsBefore(r) \/ SendProbe(r)
  <2>1. ASSUME NEW label \in {"redirect", "probe", "watch"}, Goto(r, label),
               prober[r].pc \in {"control", "before", "probe"}
        PROVE  ProbeInv(r)'
    <3>1. /\ prober'[r].pc = label /\ ProbeOf(r)' = ProbeOf(r)
          /\ prober'[r].leak = prober[r].leak /\ prober'[r].hit = prober[r].hit
          /\ prober'[r].confirmed = prober[r].confirmed
      BY <2>1, Going
    <3> QED
      BY <1>1, <2>1, <3>1 DEF ProbeInv, Filling
  <2> QED
    BY <1>4, <1>23, <2>1 DEF RedirectControl, EventsBefore, SendProbe, Is
<1>24. CASE RedirectProbe(r) \/ EventsAfter(r)
  BY <1>4, <1>24 DEF RedirectProbe, EventsAfter
<1>25. CASE JudgeProbe(r)
  <2> DEFINE k == ProbeOf(r) + 1
             on == [NewProber EXCEPT !.pc = Entry(k), !.probe = k]
             off == [prober[r] EXCEPT !.pc = "over"]
  <2>1. \/ ProbeOf(r) < LastProbe /\ prober' = [prober EXCEPT ![r] = on]
        \/ prober' = [prober EXCEPT ![r] = off]
    BY <1>25 DEF JudgeProbe
  <2>2. CASE prober' = [prober EXCEPT ![r] = on]
    <3>1. /\ prober'[r].pc = Entry(k) /\ ProbeOf(r)' = k /\ prober'[r].leak = "unknown"
          /\ ~prober'[r].hit /\ ~prober'[r].confirmed
      BY <2>2 DEF BoundariesTypeOK, ProbeOf, NewProber
    <3> HIDE DEF k
    <3> QED
      BY <1>5, <3>1 DEF ProbeInv, Filling
  <2>3. CASE prober' = [prober EXCEPT ![r] = off]
    BY <1>2, <2>3 DEF BoundariesTypeOK, ProbeOf, Filling
  <2> QED
    BY <2>1, <2>2, <2>3
<1> QED
  BY <1>10, <1>11, <1>12, <1>13, <1>14, <1>15, <1>16, <1>17, <1>18, <1>19, <1>20, <1>21, <1>22,
     <1>23, <1>24, <1>25 DEF ProberStep

\* An entry tells the truth after every step of an attempt.
LEMMA EntryStep ==
    ASSUME FillInv, NEW r \in Prober, ProberStep(r), NEW k \in CacheProbe
    PROVE  CacheEntryInv(k)'
<1>1. CacheEntryInv(k)
  BY DEF FillInv
<1>2. CASE k # ProbeOf(r)
  BY <1>1, <1>2, ProbeOfOne DEF CacheEntryInv
<1>3. CASE k = ProbeOf(r) /\ prober[r].pc \notin Filling
  <2>1. UNCHANGED <<fills, cached, lateFills>>
    BY <1>3, Owns
  <2>2. probeWrites'[k] = probeWrites[k] \/ (probeWrites[k] = "absent" /\ probeWrites'[k] = "intent")
    BY <1>3, Owns DEF FillInv, BoundariesTypeOK
  <2> QED
    BY <1>1, <2>1, <2>2 DEF CacheEntryInv
<1>4. CASE k = ProbeOf(r) /\ prober[r].pc \in Filling
  <2>1. ProbeInv(r) /\ probeWrites[k] \in {"intent", "sent"} /\ k \notin lateFills
    BY <1>4 DEF FillInv, ProbeInv, Filling
  <2>2. CASE SendFill(r)
    BY <1>1, <1>4, <2>1, <2>2 DEF SendFill, CacheEntryInv, Fills
  <2>3. CASE FillLost(r)
    <3>1. probeWrites[k] = "intent" /\ probeWrites' = probeWrites /\ cached' = cached
      BY <1>4, <2>1, <2>3 DEF FillLost, Is, ProbeInv
    <3> QED
      BY <3>1 DEF CacheEntryInv
  <2>4. CASE MarkFillSent(r)
    <3>1. probeWrites'[k] \in {"intent", "sent"} /\ lateFills' = lateFills
      BY <1>4, <2>1, <2>4 DEF MarkFillSent, FillCall, probeVars, FillInv, BoundariesTypeOK
    <3> QED
      BY <2>1, <3>1 DEF CacheEntryInv
  <2>5. CASE MarkReset(r)
    <3>1. /\ probeWrites'[k] \in {"sent", "cleanup_done", "cleanup_failed"}
          /\ probeWrites'[k] = "cleanup_done" => prober[r].clean
          /\ UNCHANGED <<lateFills, cached>> /\ prober[r].pc = "mark"
      <4>1. probeWrites[k] = "sent"
        BY <1>4, <2>1, <2>5 DEF MarkReset, Is, ProbeInv, Filling
      <4> QED
        BY <1>4, <2>5, <4>1 DEF MarkReset, Is, probeVars, FillInv, BoundariesTypeOK
    <3> QED
      BY <1>4, <2>1, <3>1 DEF CacheEntryInv, ProbeInv
  <2>6. CASE ~(SendFill(r) \/ FillLost(r) \/ MarkFillSent(r) \/ MarkReset(r))
    <3>1. probeWrites' = probeWrites /\ lateFills' = lateFills
      BY <1>4, <2>6 DEF ProberStep, BeginProbes, LoadProbes, Cold, Bypass, RecordFillIntent, Warm,
       Rebypass, SendReset, CheckReset, RedirectControl, RedirectProbe, EventsBefore, SendProbe,
       EventsAfter, JudgeProbe, StopProbes, probeVars, Is, Filling
    <3> QED
      BY <2>1, <3>1 DEF CacheEntryInv
  <2> QED
    BY <2>2, <2>3, <2>4, <2>5, <2>6
<1> QED
  BY <1>2, <1>3, <1>4

\* Only a broken boundary gives anything away, and a finding names one.
LEMMA DisclosureStep ==
    ASSUME FillInv, NEW r \in Prober, ProberStep(r)
    PROVE  cached' \subseteq faulty' /\ (\A f \in fetches' : f[2] \in faulty') /\ BoundaryIsBroken'
<1>1. UNCHANGED <<faulty, flips>> /\ ProbeInv(r)
  BY ProbeOfOne DEF FillInv
<1>2. cached' \subseteq faulty
  BY DEF ProberStep, BeginProbes, LoadProbes, Cold, Bypass, RecordFillIntent, SendFill,
       FillLost, MarkFillSent, Warm, Rebypass, SendReset, CheckReset, MarkReset, RedirectControl,
       RedirectProbe, EventsBefore, SendProbe, EventsAfter, JudgeProbe, StopProbes, FillCall,
       Fills, probeVars, FillInv
<1>3. \A f \in fetches' : f[2] \in faulty
  BY DEF ProberStep, BeginProbes, LoadProbes, Cold, Bypass, RecordFillIntent, SendFill,
       FillLost, MarkFillSent, Warm, Rebypass, SendReset, CheckReset, MarkReset, RedirectControl,
       RedirectProbe, EventsBefore, SendProbe, EventsAfter, JudgeProbe, StopProbes, FillCall,
       probeVars, FillInv
<1>4. CASE ~JudgeProbe(r)
  <2>1. probeFindings' = probeFindings
    BY <1>4 DEF ProberStep, BeginProbes, LoadProbes, Cold, Bypass, RecordFillIntent, SendFill,
       FillLost, MarkFillSent, Warm, Rebypass, SendReset, CheckReset, MarkReset, RedirectControl,
       RedirectProbe, EventsBefore, SendProbe, EventsAfter, StopProbes, FillCall
  <2> QED
    BY <1>1, <1>2, <1>3, <2>1 DEF BoundaryIsBroken, FillInv
<1>5. CASE JudgeProbe(r)
  <2>1. ASSUME NEW f \in probeFindings',
               f.confirmed \/ f.probe \notin CacheProbe \/ flips = 0
        PROVE  f.probe \in faulty
    <3>1. CASE f \in probeFindings
      BY <2>1, <3>1 DEF FillInv, BoundaryIsBroken
    <3>2. CASE f \notin probeFindings
      <4>1. /\ prober[r].leak = "mismatch"
            /\ f = [probe |-> ProbeOf(r), confirmed |-> prober[r].confirmed]
        BY <1>5, <2>1, <3>2 DEF JudgeProbe
      <4>2. f.probe = ProbeOf(r) /\ f.confirmed = prober[r].confirmed
        BY <4>1
      <4> QED
        BY <1>1, <2>1, <4>1, <4>2 DEF ProbeInv
    <3> QED
      BY <3>1, <3>2
  <2> QED
    BY <1>1, <1>2, <1>3, <2>1 DEF BoundaryIsBroken
<1> QED
  BY <1>4, <1>5

\* A fill that arrives late meets no attempt that owns its entry.
LEMMA ArriveFillStep ==
    ASSUME FillInv, NEW k \in CacheProbe, ArriveFill(k)
    PROVE  FillInv'
<1>1. /\ UNCHANGED <<probeWrites, prober, probeFindings, faulty, lenient, flips, fetches, fills>>
      /\ k \in lateFills /\ lateFills' = lateFills \ {k}
      /\ cached' \subseteq cached \cup {k} /\ (k \in cached' => k \in cached \/ k \in faulty)
  BY DEF ArriveFill, Fills
<1>2. BoundariesTypeOK'
  BY BoundariesTypeStep DEF BoundariesNext
<1>3. probeWrites[k] = "intent"
  BY <1>1 DEF FillInv, CacheEntryInv
<1>4. cached' \subseteq faulty
  BY <1>1 DEF FillInv
<1>5. ASSUME NEW r \in Prober  PROVE ProbeInv(r)'
  <2>1. ProbeInv(r) /\ ProbeOf(r)' = ProbeOf(r)
    BY <1>1 DEF FillInv, ProbeOf
  <2>2. prober[r].pc \in Filling => ProbeOf(r) # k
    BY <1>1, <2>1 DEF ProbeInv
  <2> QED
    BY <1>1, <2>1, <2>2 DEF ProbeInv, Filling
<1>6. ASSUME NEW c \in CacheProbe  PROVE CacheEntryInv(c)'
  BY <1>1, <1>3 DEF CacheEntryInv, FillInv
<1> QED
  BY <1>1, <1>2, <1>4, <1>5, <1>6 DEF FillInv, BoundaryIsBroken, ProbeOf

\* After the origin has changed its mind, less is claimed.
LEMMA FlipStep ==
    ASSUME FillInv, NEW k \in CacheProbe, Flip(k)
    PROVE  FillInv'
<1>1. UNCHANGED <<probeWrites, prober, probeFindings, faulty, cached, lateFills, fetches, fills>>
  BY DEF Flip
<1>2. BoundariesTypeOK'
  BY BoundariesTypeStep DEF BoundariesNext
<1>3. flips' # 0
  BY DEF Flip, FillInv, BoundariesTypeOK
<1>4. BoundaryIsBroken'
  BY <1>1, <1>3 DEF BoundaryIsBroken, FillInv
<1>5. ASSUME NEW r \in Prober  PROVE ProbeInv(r)'
  <2>1. ProbeInv(r) /\ ProbeOf(r)' = ProbeOf(r)
    BY <1>1 DEF FillInv, ProbeOf
  <2> QED
    BY <1>1, <1>3, <2>1 DEF ProbeInv
<1>6. ASSUME NEW c \in CacheProbe  PROVE CacheEntryInv(c)'
  BY <1>1 DEF CacheEntryInv, FillInv
<1> QED
  BY <1>1, <1>2, <1>4, <1>5, <1>6 DEF FillInv, ProbeOf

\* Every step of the probes keeps the invariant.
LEMMA FillStep ==
    ASSUME FillInv, [BoundariesNext]_boundaryVars
    PROVE  FillInv'
<1>1. BoundariesTypeOK'
  BY BoundariesTypeStep
<1>2. ASSUME NEW r \in Prober, ProberStep(r)  PROVE FillInv'
  <2>1. ASSUME NEW a \in Prober, NEW b \in Prober, a # b,
               prober'[a].pc \in Filling, prober'[b].pc \in Filling
        PROVE  ProbeOf(a)' # ProbeOf(b)'
    <3>1. CASE a = r \/ b = r
      BY <1>2, <2>1, <3>1, OwnersStayApart
    <3>2. CASE a # r /\ b # r
      <4>1. prober'[a] = prober[a] /\ prober'[b] = prober[b]
        BY <1>2, <3>2, ProbeOfOne
      <4> QED
        BY <2>1, <4>1 DEF FillInv, ProbeOf
    <3> QED
      BY <3>1, <3>2
  <2>2. \A s \in Prober : ProbeInv(s)'
    BY <1>2, OwnProbeStep, OtherProbesKeep
  <2>3. \A k \in CacheProbe : CacheEntryInv(k)'
    BY <1>2, EntryStep
  <2> QED
    BY <1>1, <1>2, <2>1, <2>2, <2>3, DisclosureStep DEF FillInv
<1>3. CASE UNCHANGED boundaryVars
  BY <1>1, <1>3 DEF boundaryVars, FillInv, BoundaryIsBroken, ProbeInv, CacheEntryInv, ProbeOf
<1> QED
  BY <1>2, <1>3, ArriveFillStep, FlipStep DEF BoundariesNext

\* It holds in the beginning.
LEMMA FillStart == BoundariesInit => FillInv
<1> SUFFICES ASSUME BoundariesInit PROVE FillInv
  OBVIOUS
<1>1. PICK broken \in SUBSET Probe, origin \in SUBSET CacheProbe :
        BoundariesStartFrom(broken, origin)
  BY DEF BoundariesInit
<1>2. \A r \in Prober : prober[r] = NewProber /\ ProbeOf(r) = 1
  BY <1>1 DEF BoundariesStartFrom, NewProber, ProbeOf
<1>3. BoundariesTypeOK
  <2>1. 1 \in Probe /\ 0 \in 0 .. MaxFlips
    BY ProbeAssumption DEF Probe
  <2>2. NewProber \in ProbeAttempt
    BY <2>1 DEF NewProber, ProbeAttempt, ProbePoint
  <2>3. prober \in [Prober -> ProbeAttempt]
    BY <1>1, <2>2 DEF BoundariesStartFrom
  <2> QED
    BY <1>1, <2>1, <2>3 DEF BoundariesTypeOK, BoundariesStartFrom, ProbeAttempt, ProbePoint
<1>4. \A r \in Prober : ProbeInv(r) /\ prober[r].pc \notin Filling
  BY <1>2 DEF ProbeInv, NewProber, Filling
<1>5. \A k \in CacheProbe : CacheEntryInv(k)
  BY <1>1 DEF CacheEntryInv, BoundariesStartFrom
<1>6. cached = {} /\ fetches = {} /\ probeFindings = {}
  BY <1>1 DEF BoundariesStartFrom
<1> QED
  BY <1>3, <1>4, <1>5, <1>6 DEF FillInv, BoundaryIsBroken

\* One attempt owns the entry of a probe; what it may rely on holds, and a finding names a broken
\* boundary (runCacheBoundary over the journal): see FillInv.
THEOREM FillHolds == BoundariesSpec => []FillInv
BY FillStart, FillStep, PTL DEF BoundariesSpec

\* The owner's answer is requested once and never on top of one that a cache may still hold.
LEMMA FillsInTurn == BoundariesSpec => FilledOnceWhenCold
<1>1. ASSUME FillInv, [BoundariesNext]_boundaryVars
      PROVE  [\A k \in CacheProbe :
                fills'[k] # fills[k] => fills[k] = 0 /\ k \notin cached]_boundaryVars
  <2>1. ASSUME NEW k \in CacheProbe, fills'[k] # fills[k], ~UNCHANGED boundaryVars
        PROVE  fills[k] = 0 /\ k \notin cached
    <3>1. PICK r \in Prober : ProberStep(r)
      BY <1>1, <2>1 DEF BoundariesNext, ArriveFill, Flip
    <3>2. k = ProbeOf(r)
      BY <1>1, <2>1, <3>1, ProbeOfOne
    <3>3. prober[r].pc = "fill"
      BY <2>1, <3>1 DEF ProberStep, BeginProbes, LoadProbes, Cold, Bypass, RecordFillIntent,
       SendFill, FillLost, MarkFillSent, Warm, Rebypass, SendReset, CheckReset, MarkReset,
       RedirectControl, RedirectProbe, EventsBefore, SendProbe, EventsAfter, JudgeProbe,
       StopProbes, FillCall, probeVars, Is
    <3> QED
      BY <1>1, <3>2, <3>3 DEF FillInv, ProbeInv
  <2> QED
    BY <2>1
<1> QED
  BY <1>1, FillHolds, PTL DEF BoundariesSpec, FilledOnceWhenCold

-----------------------------------------------------------------------------
(* All three *)

\* However attempts overlap, die and lose their requests, a finding names a case that was let
\* through after its campaign's baseline, or a boundary that is broken, and an entry of a cache
\* probe that is settled has left nothing in the cache: see ReportIsTrue.
THEOREM ReportHolds == ActionsSpec /\ BoundariesSpec => []ReportIsTrue
<1>1. CampaignInv => FindingIsProven
  BY DEF CampaignInv
<1>2. FillInv => BoundaryIsBroken /\ ResetIsComplete
  BY DEF FillInv, CacheEntryInv, ResetIsComplete
<1> QED
  BY <1>1, <1>2, CampaignHolds, FillHolds, PTL DEF ReportIsTrue

\* No POST follows the clean-up of its fuzz campaign, and a case or a fill is sent once, on a
\* resource that is ready and a cache that is cold: see SentInTurn.
THEOREM SentInTurnHolds == Spec /\ ActionsSpec /\ BoundariesSpec => SentInTurn
BY FuzzCleanupIsLast, CasesInTurn, FillsInTurn DEF SentInTurn
=============================================================================
