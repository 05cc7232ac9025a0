--------------------------- MODULE ApprovedWrites ---------------------------
(***************************************************************************)
(* What the write adapter promises about an assessment's approved writes,  *)
(* as a tester who watches the target sees it: each approval is sent at    *)
(* most once, never if an earlier version already journaled it, and its    *)
(* cleanup request follows the write at most once.                         *)
(***************************************************************************)
EXTENDS Naturals

CONSTANT Operation

VARIABLES
  consumed,  \* approvals an earlier version journaled
  sends,     \* write requests that reached the target
  cleanups   \* cleanup requests that reached the target

Init ==
  /\ consumed \in SUBSET Operation
  /\ sends = [k \in Operation |-> 0]
  /\ cleanups = [k \in Operation |-> 0]

Send(k) ==
  /\ k \notin consumed
  /\ sends[k] = 0
  /\ sends' = [sends EXCEPT ![k] = 1]
  /\ UNCHANGED <<consumed, cleanups>>

Cleanup(k) ==
  /\ sends[k] = 1
  /\ cleanups[k] = 0
  /\ cleanups' = [cleanups EXCEPT ![k] = 1]
  /\ UNCHANGED <<consumed, sends>>

Next == \E k \in Operation : Send(k) \/ Cleanup(k)

Spec == Init /\ [][Next]_<<consumed, sends, cleanups>>

=============================================================================
