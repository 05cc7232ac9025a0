---------------------------- MODULE WriteJournal ----------------------------
(***************************************************************************)
(* The write journal (internal/scanner/write_journal.go) and its main user, *)
(* the adapter that sends the approved API writes of an assessment          *)
(* (internal/scanner/apichecks_writes.go).                                  *)
(*                                                                         *)
(* An attempt is one execution of RunAssessmentJobs that reaches the       *)
(* apiwrites job: the first run of the assessment, or a later resume of    *)
(* it. Attempts may overlap (two processes on the same scan directory),    *)
(* crash, or lose power between any two steps. The journal file has two    *)
(* images: what a reader sees, and what is certain to survive power loss.  *)
(***************************************************************************)
EXTENDS Naturals

CONSTANTS
  Operation,  \* operation keys (scope:method:path) of the approved writes
  Attempt,    \* executions of the assessment
  Prior,      \* attempt directories of earlier versions, possibly journaled
  Root,       \* the assessment's own directory
  None,       \* no operation, no lock holder
  Expanded    \* TRUE for a unified-v1 plan with the workflow enabled

ASSUME WriteJournalAssumption ==
  /\ None \notin Operation \cup Attempt
  /\ Root \notin Attempt \cup Prior
  /\ Attempt \cap Prior = {}
  /\ Expanded \in BOOLEAN

Dir == {Root} \cup Attempt \cup Prior

\* WriteState, and "absent" for an operation without an entry.
WriteState == {"absent", "intent", "sent", "cleanup_done", "cleanup_failed"}

NoEntries == [k \in Operation |-> "absent"]

\* Fault: a sent write counts as settled before its cleanup.
UnresolvedForgetsSent(state) == state = "intent"

\* An approved write always declares a cleanup request, so a sent entry has
\* no known outcome before its cleanup is recorded.
Unresolved(state) == state \in {"intent", "sent"}

JournalCall ==
  {"recover", "open", "intent", "sent", "cleanup_done", "cleanup_failed"}

Pc == JournalCall \cup
  {"idle", "gate", "next", "wait", "send", "waitCleanup", "sendCleanup",
   "over", "crashed"}

VARIABLES
  visible,    \* journal file of every directory as a reader sees it
  durable,    \* the same file as it survives a power loss
  lock,       \* holder of every directory's journal lock
  entries,    \* an attempt's WriteJournal.entries
  pc,         \* an attempt's control point
  io,         \* how far the journal call of an attempt has come
  todo,       \* approvals an attempt has not looked at
  current,    \* the approval an attempt works on
  sends,      \* history: write requests that reached the target
  cleanups    \* history: cleanup requests that reached the target

vars == <<visible, durable, lock, entries, pc, io, todo, current, sends,
          cleanups>>

disk == <<visible, durable>>
network == <<sends, cleanups>>

TypeOK ==
  /\ visible \in [Dir -> [Operation -> WriteState]]
  /\ durable \in [Dir -> [Operation -> WriteState]]
  /\ lock \in [Dir -> Attempt \cup {None}]
  /\ entries \in [Attempt -> [Operation -> WriteState]]
  /\ pc \in [Attempt -> Pc]
  /\ io \in [Attempt -> {"unlocked", "locked", "renamed"}]
  /\ todo \in [Attempt -> SUBSET Operation]
  /\ current \in [Attempt -> Operation \cup {None}]
  /\ sends \in [Operation -> Nat]
  /\ cleanups \in [Operation -> Nat]

\* The journal an attempt works with: the assessment-wide one, or, outside the
\* expanded workflow, one in the directory of this very attempt.
JournalDir(a) == IF Expanded THEN Root ELSE a

Init ==
  /\ visible \in {f \in [Dir -> [Operation -> WriteState]] :
                    \A d \in {Root} \cup Attempt : f[d] = NoEntries}
  /\ durable = visible
  /\ lock = [d \in Dir |-> None]
  /\ entries = [a \in Attempt |-> NoEntries]
  /\ pc = [a \in Attempt |-> "idle"]
  /\ io = [a \in Attempt |-> "unlocked"]
  /\ todo = [a \in Attempt |-> Operation]
  /\ current = [a \in Attempt |-> None]
  /\ sends = [k \in Operation |-> 0]
  /\ cleanups = [k \in Operation |-> 0]

-----------------------------------------------------------------------------
(* The journal: every call locks the file, reloads it, commits and unlocks. *)

\* Where the caller continues after a journal call.
Continue(call, ok) ==
  CASE call = "recover" -> IF ok THEN "gate" ELSE "over"
    [] call = "open" -> IF ok THEN "next" ELSE "over"
    [] call = "intent" -> IF ok THEN "wait" ELSE "next"
    [] call = "sent" -> IF ok THEN "waitCleanup" ELSE "next"
    [] OTHER -> "next"

\* Fault: the error paths keep the journal lock.
ReturnLeaksLock(a, ok) ==
  /\ pc' = [pc EXCEPT ![a] = Continue(pc[a], ok)]
  /\ io' = [io EXCEPT ![a] = "unlocked"]
  /\ lock' = IF ok THEN [lock EXCEPT ![JournalDir(a)] = None] ELSE lock
  /\ UNCHANGED <<todo, current, network>>

Return(a, ok) ==
  /\ pc' = [pc EXCEPT ![a] = Continue(pc[a], ok)]
  /\ io' = [io EXCEPT ![a] = "unlocked"]
  /\ lock' = [lock EXCEPT ![JournalDir(a)] = None]
  /\ UNCHANGED <<todo, current, network>>

InJournalCall(a) == pc[a] \in JournalCall

\* Fault: the entries are those of the last call, not of the file.
RefreshWithoutReload(a) ==
  /\ InJournalCall(a)
  /\ io[a] = "unlocked"
  /\ lock[JournalDir(a)] = None
  /\ lock' = [lock EXCEPT ![JournalDir(a)] = a]
  /\ io' = [io EXCEPT ![a] = "locked"]
  /\ UNCHANGED <<disk, entries, pc, todo, current, network>>

\* The lock is exclusive between processes; the file is reloaded under it.
refreshWithDiskLock(a) ==
  /\ InJournalCall(a)
  /\ io[a] = "unlocked"
  /\ lock[JournalDir(a)] = None
  /\ lock' = [lock EXCEPT ![JournalDir(a)] = a]
  /\ entries' = [entries EXCEPT ![a] = visible[JournalDir(a)]]
  /\ io' = [io EXCEPT ![a] = "locked"]
  /\ UNCHANGED <<disk, pc, todo, current, network>>

\* The directory or lock file cannot be opened, or the journal is corrupt.
RefreshFails(a) ==
  /\ InJournalCall(a)
  /\ io[a] = "unlocked"
  /\ pc' = [pc EXCEPT ![a] = Continue(pc[a], FALSE)]
  /\ UNCHANGED <<disk, lock, entries, io, todo, current, network>>

\* Fault: per-attempt journals of earlier versions are ignored.
ImportsNothing(found) == found

\* The entries of the prior per-attempt journals, without new outcomes.
Imported(found) ==
  [k \in Operation |->
     LET saved == {d \in Attempt \cup Prior : visible[d][k] # "absent"}
     IN IF found[k] = "absent" /\ saved # {}
        THEN visible[CHOOSE d \in saved : TRUE][k]
        ELSE found[k]]

\* Fault: an intent may be recorded a second time.
AcceptsReplay(a) ==
  CASE pc[a] = "sent" -> entries[a][current[a]] = "intent"
    [] pc[a] \in {"cleanup_done", "cleanup_failed"} ->
         entries[a][current[a]] = "sent"
    [] OTHER -> TRUE

\* RecordIntent accepts an operation once; a transition needs its predecessor.
Accepts(a) ==
  CASE pc[a] = "intent" -> entries[a][current[a]] = "absent"
    [] pc[a] = "sent" -> entries[a][current[a]] = "intent"
    [] pc[a] \in {"cleanup_done", "cleanup_failed"} ->
         entries[a][current[a]] = "sent"
    [] OTHER -> TRUE

NextEntries(a) ==
  IF pc[a] \in {"recover", "open"}
  THEN Imported(entries[a])
  ELSE [entries[a] EXCEPT ![current[a]] = pc[a]]

\* storage.WriteAtomic: readers see the new file, power loss may undo it.
Rename(a) ==
  /\ InJournalCall(a)
  /\ io[a] = "locked"
  /\ Accepts(a)
  /\ NextEntries(a) # entries[a]
  /\ visible' = [visible EXCEPT ![JournalDir(a)] = NextEntries(a)]
  /\ io' = [io EXCEPT ![a] = "renamed"]
  /\ UNCHANGED <<durable, lock, entries, pc, todo, current, network>>

\* Nothing to import: no commit.
NothingToImport(a) ==
  /\ InJournalCall(a)
  /\ io[a] = "locked"
  /\ pc[a] \in {"recover", "open"}
  /\ NextEntries(a) = entries[a]
  /\ Return(a, TRUE)
  /\ UNCHANGED <<disk, entries>>

\* The operation is already journaled, or its entry is not where it should be.
Refuse(a) ==
  /\ InJournalCall(a)
  /\ io[a] = "locked"
  /\ ~Accepts(a)
  /\ Return(a, FALSE)
  /\ UNCHANGED <<disk, entries>>

\* Writing the new file failed before the rename.
CommitFails(a) ==
  /\ InJournalCall(a)
  /\ io[a] = "locked"
  /\ Return(a, FALSE)
  /\ UNCHANGED <<disk, entries>>

\* Fault: the directories are not synced after the rename.
SyncSkipped(a) ==
  /\ InJournalCall(a)
  /\ io[a] = "renamed"
  /\ entries' = [entries EXCEPT ![a] = visible[JournalDir(a)]]
  /\ Return(a, TRUE)
  /\ UNCHANGED disk

\* Both directories are synced; only now the entries are adopted.
Sync(a) ==
  /\ InJournalCall(a)
  /\ io[a] = "renamed"
  /\ durable' = [durable EXCEPT ![JournalDir(a)] = visible[JournalDir(a)]]
  /\ entries' = [entries EXCEPT ![a] = visible[JournalDir(a)]]
  /\ Return(a, TRUE)
  /\ UNCHANGED visible

\* A directory sync fails: the file is already replaced, the caller is told no.
SyncFails(a) ==
  /\ InJournalCall(a)
  /\ io[a] = "renamed"
  /\ Return(a, FALSE)
  /\ UNCHANGED <<disk, entries>>

-----------------------------------------------------------------------------
(* RunAssessmentJobs up to the write adapter, and the adapter itself. *)

Goto(a, label) == pc' = [pc EXCEPT ![a] = label]

Begin(a) ==
  /\ pc[a] = "idle"
  /\ Goto(a, IF Expanded THEN "recover" ELSE "gate")
  /\ UNCHANGED <<disk, lock, entries, io, todo, current, network>>

\* UnresolvedWrites of the assessment's directory, read without the lock. Outside
\* the expanded workflow the journal is then loaded, without the lock, from the
\* fresh directory of the attempt, where there is none: entries stay empty.
Gate(a) ==
  /\ pc[a] = "gate"
  /\ Goto(a, IF \E k \in Operation : Unresolved(visible[Root][k]) THEN "over"
             ELSE IF Expanded THEN "open" ELSE "next")
  /\ UNCHANGED <<disk, lock, entries, io, todo, current, network>>

\* One approval: refused by the binding, method, scope, exclusion and fixture
\* checks, or on its way to the journal.
TakeApproval(a, k) ==
  /\ pc[a] = "next"
  /\ k \in todo[a]
  /\ todo' = [todo EXCEPT ![a] = @ \ {k}]
  /\ \/ /\ UNCHANGED <<pc, current>>
     \/ /\ current' = [current EXCEPT ![a] = k]
        /\ Goto(a, "intent")
  /\ UNCHANGED <<disk, lock, entries, io, network>>

\* Every approval is handled, or the journal could not be loaded or the evidence
\* file not be created.
Finish(a) ==
  /\ pc[a] = "next"
  /\ todo[a] \in {{}, Operation}
  /\ Goto(a, "over")
  /\ UNCHANGED <<disk, lock, entries, io, todo, current, network>>

\* Budget.Wait fails when the budget or the context ends: before the write
\* the intent stays unresolved, after it the cleanup is recorded as failed.
BudgetWait(a) ==
  /\ \/ pc[a] = "wait" /\ (Goto(a, "send") \/ Goto(a, "next"))
     \/ pc[a] = "waitCleanup"
        /\ (Goto(a, "sendCleanup") \/ Goto(a, "cleanup_failed"))
  /\ UNCHANGED <<disk, lock, entries, io, todo, current, network>>

\* Fault: a request that failed is recorded as answered.
SendWriteIgnoresError(a) ==
  /\ pc[a] = "send"
  /\ sends' \in {sends, [sends EXCEPT ![current[a]] = @ + 1]}
  /\ Goto(a, "sent")
  /\ UNCHANGED <<disk, lock, entries, io, todo, current, cleanups>>

\* The request reaches the target or not; without an answer the outcome is
\* unknown and the intent is left as it is.
SendWrite(a) ==
  /\ pc[a] = "send"
  /\ \/ /\ sends' = [sends EXCEPT ![current[a]] = @ + 1]
        /\ (Goto(a, "sent") \/ Goto(a, "next"))
     \/ /\ Goto(a, "next")
        /\ UNCHANGED sends
  /\ UNCHANGED <<disk, lock, entries, io, todo, current, cleanups>>

\* Fault: the cleanup is recorded as done whatever became of the request.
SendCleanupIgnoresError(a) ==
  /\ pc[a] = "sendCleanup"
  /\ cleanups' \in {cleanups, [cleanups EXCEPT ![current[a]] = @ + 1]}
  /\ Goto(a, "cleanup_done")
  /\ UNCHANGED <<disk, lock, entries, io, todo, current, sends>>

SendCleanup(a) ==
  /\ pc[a] = "sendCleanup"
  /\ \/ /\ cleanups' = [cleanups EXCEPT ![current[a]] = @ + 1]
        /\ (Goto(a, "cleanup_done") \/ Goto(a, "cleanup_failed"))
     \/ /\ Goto(a, "cleanup_failed")
        /\ UNCHANGED cleanups
  /\ UNCHANGED <<disk, lock, entries, io, todo, current, sends>>

-----------------------------------------------------------------------------
(* Failures of the environment. *)

Live(a) == pc[a] \notin {"idle", "over", "crashed"}

\* The process dies; the operating system releases its lock.
Crash(a) ==
  /\ Live(a)
  /\ Goto(a, "crashed")
  /\ io' = [io EXCEPT ![a] = "unlocked"]
  /\ lock' = [d \in Dir |-> IF lock[d] = a THEN None ELSE lock[d]]
  /\ UNCHANGED <<disk, entries, todo, current, network>>

\* Every process dies and each journal is its synced or its latest image.
PowerLoss ==
  /\ \E a \in Attempt : Live(a)
  /\ \E undone \in SUBSET {d \in Dir : durable[d] # visible[d]} :
       visible' = [d \in Dir |-> IF d \in undone THEN durable[d] ELSE visible[d]]
  /\ durable' = visible'
  /\ pc' = [a \in Attempt |-> IF Live(a) THEN "crashed" ELSE pc[a]]
  /\ io' = [a \in Attempt |-> "unlocked"]
  /\ lock' = [d \in Dir |-> None]
  /\ UNCHANGED <<entries, todo, current, network>>

\* The steps an attempt takes by itself, and the errors it may meet.
Step(a) ==
  \/ Gate(a)
  \/ refreshWithDiskLock(a) \/ Rename(a) \/ NothingToImport(a) \/ Refuse(a)
  \/ Sync(a)
  \/ \E k \in Operation : TakeApproval(a, k)
  \/ Finish(a) \/ BudgetWait(a) \/ SendWrite(a) \/ SendCleanup(a)

Fails(a) == RefreshFails(a) \/ CommitFails(a) \/ SyncFails(a)

Next ==
  \/ \E a \in Attempt : Begin(a) \/ Step(a) \/ Fails(a) \/ Crash(a)
  \/ PowerLoss

Spec == Init /\ [][Next]_vars

\* Once begun, a process keeps running: the operating system schedules it.
\* Nothing is assumed about when an attempt begins or what fails.
FairSpec == Spec /\ \A a \in Attempt : WF_vars(Step(a))

-----------------------------------------------------------------------------
(* Properties. *)

\* Operations an earlier version left in a per-attempt journal.
JournaledBefore == {k \in Operation : \E d \in Prior : visible[d][k] # "absent"}

\* No approval is ever sent twice, whatever crashes, and none that an earlier
\* version already journaled is sent again ("is never replayed",
\* apichecks_writes.go:23).
AtMostOnce ==
  \A k \in Operation :
    sends[k] + (IF k \in JournaledBefore THEN 1 ELSE 0) <= 1

\* A write that reached the target is in the journal even after a power loss
\* (commitLocked syncs the directories before the request is sent).
SentIsDurable ==
  \A k \in Operation : sends[k] > 0 => durable[Root][k] # "absent"

\* The cleanup request follows its write, and at most once.
CleanupFollowsWrite == \A k \in Operation : cleanups[k] <= sends[k]

\* The journal never claims more than happened: an entry past "intent" means
\* the target got the write, "cleanup_done" that it got the cleanup.
JournalIsHonest ==
  \A k \in Operation \ JournaledBefore :
    /\ visible[Root][k] \in {"sent", "cleanup_done", "cleanup_failed"}
         => sends[k] = 1
    /\ visible[Root][k] = "cleanup_done" => cleanups[k] = 1

\* An attempt gets past the resume gate only when every write that reached the
\* target has a recorded cleanup outcome ("an uncertain write outcome blocks
\* reruns", docs/web-api-workflow.md:52).
ResumeNeedsSettledWrites ==
  [][\A a \in Attempt : pc[a] = "gate" /\ pc'[a] = "open" =>
       \A k \in Operation :
         sends[k] > 0 => visible[Root][k] \in {"cleanup_done", "cleanup_failed"}]_vars

Promise == INSTANCE ApprovedWrites WITH consumed <- JournaledBefore

\* The journal-guarded adapter implements the abstract specification of the
\* approved writes: no replay, no cleanup without a write.
ImplementsApprovedWrites == Promise!Spec

\* Every attempt that starts comes to an end: no journal error path keeps the
\* lock, and a dead process does not hold it either.
AttemptsEnd ==
  \A a \in Attempt : Live(a) ~> pc[a] \in {"over", "crashed"}

-----------------------------------------------------------------------------
(* The inductive invariant behind AtMostOnce in the expanded workflow. *)

\* Control points after the adapter opened the journal.
PastOpen(a) ==
  pc[a] \in {"next", "intent", "wait", "send", "sent", "waitCleanup",
            "sendCleanup", "cleanup_done", "cleanup_failed"}

\* Attempt a recorded the intent of k and has not given it up.
Owns(a, k) ==
  /\ current[a] = k
  /\ \/ pc[a] = "intent" /\ io[a] = "renamed"
     \/ PastOpen(a) /\ pc[a] \notin {"next", "intent"}

LockInv ==
  \A a \in Attempt :
    /\ io[a] # "unlocked" => lock[Root] = a /\ pc[a] \in JournalCall
    /\ io[a] = "locked" => entries[a] = visible[Root]
    /\ PastOpen(a) /\ pc[a] # "next" => current[a] \in Operation

\* Nothing that was journaled disappears, and old journals are read first.
ImportInv ==
  /\ \A d \in Prior \cup Attempt : durable[d] = visible[d]
  /\ \A d \in Attempt : visible[d] = NoEntries
  /\ \A k \in Operation :
       durable[Root][k] # "absent" => visible[Root][k] # "absent"
  /\ \A a \in Attempt :
       PastOpen(a) \/ (pc[a] \in {"recover", "open"} /\ io[a] = "renamed")
         => \A k \in JournaledBefore : visible[Root][k] # "absent"

\* What a state of the journal file says about the network.
Honest(file, k) ==
  /\ file[k] \in {"sent", "cleanup_done", "cleanup_failed"} => sends[k] = 1
  /\ file[k] = "cleanup_done" => cleanups[k] = 1

\* The entry of an operation whose owner is at control point p.
OwnedEntry(p, renamed) ==
  IF p \in {"wait", "send"} \/ (p = "sent" /\ ~renamed) THEN "intent"
  ELSE IF p \in {"intent", "sent"} THEN p
  ELSE IF renamed /\ p \in {"cleanup_done", "cleanup_failed"} THEN p
  ELSE "sent"

OwnerInv ==
  \A a \in Attempt, k \in Operation :
    Owns(a, k) =>
      /\ k \notin JournaledBefore
      /\ \A b \in Attempt : Owns(b, k) => b = a
      /\ visible[Root][k] = OwnedEntry(pc[a], io[a] = "renamed")
      /\ pc[a] # "intent" => durable[Root][k] # "absent"
      /\ pc[a] \in {"intent", "wait", "send"} => sends[k] = 0
      /\ pc[a] \notin {"intent", "wait", "send"} => sends[k] = 1
      /\ pc[a] \notin {"cleanup_done", "cleanup_failed"} => cleanups[k] = 0
      /\ pc[a] = "cleanup_done" => cleanups[k] = 1

\* An owner is alone, its entry says where it stands, and both images of the
\* journal are honest (AtMostOnce follows from it for the expanded workflow).
IInv ==
  /\ TypeOK
  /\ LockInv
  /\ ImportInv
  /\ OwnerInv
  /\ SentIsDurable
  /\ AtMostOnce
  /\ CleanupFollowsWrite
  /\ \A k \in Operation \ JournaledBefore :
       Honest(visible[Root], k) /\ Honest(durable[Root], k)

=============================================================================
