------------------------- MODULE WriteJournalProofs -------------------------
(* Proofs about WriteJournal for any operations, attempts and journals. *)
EXTENDS WriteJournal, TLAPS

\* A finished journal call leads to a control point of the adapter.
LEMMA ContinueType ==
  ASSUME NEW call \in JournalCall, NEW ok \in BOOLEAN
  PROVE  Continue(call, ok) \in Pc
BY DEF Continue, JournalCall, Pc

\* An import changes no entry it found and yields entries again.
LEMMA ImportedType ==
  ASSUME TypeOK, NEW found \in [Operation -> WriteState]
  PROVE  Imported(found) \in [Operation -> WriteState]
<1> SUFFICES ASSUME NEW k \in Operation
             PROVE  Imported(found)[k] \in WriteState
  BY DEF Imported
<1> DEFINE saved == {d \in Attempt \cup Prior : visible[d][k] # "absent"}
<1>1. CASE found[k] = "absent" /\ saved # {}
  <2> DEFINE d == CHOOSE d \in saved : TRUE
  <2>1. d \in saved
    BY <1>1
  <2>2. d \in Dir
    BY <2>1 DEF Dir
  <2>3. visible[d][k] \in WriteState
    BY <2>2 DEF TypeOK
  <2> QED
    BY <1>1, <2>3 DEF Imported
<1>2. CASE ~(found[k] = "absent" /\ saved # {})
  BY <1>2 DEF Imported
<1> QED
  BY <1>1, <1>2

\* Wherever an attempt keeps its journal, it is one of the directories.
LEMMA JournalDirType ==
  ASSUME NEW a \in Attempt
  PROVE  JournalDir(a) \in Dir
BY DEF JournalDir, Dir

\* What a journal call would commit is a set of entries again.
LEMMA NextEntriesType ==
  ASSUME TypeOK, NEW a \in Attempt, pc[a] \in JournalCall
  PROVE  NextEntries(a) \in [Operation -> WriteState]
<1>1. entries[a] \in [Operation -> WriteState]
  BY DEF TypeOK
<1>2. CASE pc[a] \in {"recover", "open"}
  BY <1>1, <1>2, ImportedType DEF NextEntries
<1>3. CASE pc[a] \notin {"recover", "open"}
  <2>1. pc[a] \in WriteState
    BY <1>3 DEF JournalCall, WriteState
  <2> QED
    BY <1>1, <1>3, <2>1 DEF NextEntries
<1> QED
  BY <1>2, <1>3

\* Type correctness of the journal, for every choice of the constants.
THEOREM TypeCorrect == Spec => []TypeOK
<1>1. Init => TypeOK
  BY DEF Init, TypeOK, NoEntries, WriteState, Pc, Dir, JournalCall
<1>2. TypeOK /\ [Next]_vars => TypeOK'
  <2> SUFFICES ASSUME TypeOK, [Next]_vars
               PROVE  TypeOK'
    OBVIOUS
  <2>1. CASE UNCHANGED vars
    BY <2>1 DEF TypeOK, vars
  <2>2. ASSUME NEW a \in Attempt, Begin(a) \/ Gate(a) \/ Finish(a) \/ BudgetWait(a)
        PROVE  TypeOK'
    BY <2>2 DEF TypeOK, Begin, Gate, Finish, BudgetWait, Goto, Pc, JournalCall, disk, network
  <2>3. ASSUME NEW a \in Attempt, refreshWithDiskLock(a)
        PROVE  TypeOK'
    BY <2>3, JournalDirType DEF TypeOK, refreshWithDiskLock, disk, network
  <2>4. ASSUME NEW a \in Attempt, RefreshFails(a)
        PROVE  TypeOK'
    BY <2>4, ContinueType DEF TypeOK, RefreshFails, InJournalCall, disk, network
  <2>5. ASSUME NEW a \in Attempt, Rename(a)
        PROVE  TypeOK'
    <3>1. NextEntries(a) \in [Operation -> WriteState]
      BY <2>5, NextEntriesType DEF Rename, InJournalCall
    <3> QED
      BY <2>5, <3>1, JournalDirType DEF TypeOK, Rename, network
  <2>6. ASSUME NEW a \in Attempt, NothingToImport(a) \/ Refuse(a) \/ CommitFails(a) \/ SyncFails(a)
        PROVE  TypeOK'
    <3>1. pc[a] \in JournalCall /\ \E ok \in BOOLEAN : Return(a, ok)
      BY <2>6 DEF NothingToImport, Refuse, CommitFails, SyncFails, InJournalCall
    <3> QED
      BY <2>6, <3>1, ContinueType, JournalDirType
      DEF TypeOK, NothingToImport, Refuse, CommitFails, SyncFails, Return, disk, network
  <2>7. ASSUME NEW a \in Attempt, Sync(a)
        PROVE  TypeOK'
    BY <2>7, ContinueType, JournalDirType DEF TypeOK, Sync, InJournalCall, Return, network
  <2>8. ASSUME NEW a \in Attempt, NEW k \in Operation, TakeApproval(a, k)
        PROVE  TypeOK'
    BY ZenonT(30), <2>8 DEF TypeOK, TakeApproval, Goto, Pc, JournalCall, disk, network
  <2>9. ASSUME NEW a \in Attempt, SendWrite(a) \/ SendCleanup(a)
         PROVE  TypeOK'
    <3>1. sends' \in [Operation -> Nat] /\ cleanups' \in [Operation -> Nat]
      BY SMTT(20), <2>9 DEF TypeOK, SendWrite, SendCleanup
    <3>2. pc' \in [Attempt -> Pc]
      BY <2>9 DEF TypeOK, SendWrite, SendCleanup, Goto, Pc, JournalCall
    <3> QED
      BY <2>9, <3>1, <3>2 DEF TypeOK, SendWrite, SendCleanup, disk
  <2>10. ASSUME NEW a \in Attempt, Crash(a)
         PROVE  TypeOK'
    BY <2>10 DEF TypeOK, Crash, Goto, Pc, disk, network
  <2>11. CASE PowerLoss
    BY <2>11 DEF TypeOK, PowerLoss, Pc, Dir, network
  <2> QED
    BY <2>1, <2>2, <2>3, <2>4, <2>5, <2>6, <2>7, <2>8, <2>9, <2>10, <2>11
    DEF Next, Step, Fails
<1> QED
  BY <1>1, <1>2, PTL DEF Spec

-----------------------------------------------------------------------------
(* Safety in the expanded workflow: one lemma per kind of step. *)

\* Steps that touch neither the journal file nor the network keep the part of
\* the invariant that is only about those.
LEMMA SameDiskAndNetwork ==
  ASSUME IInv, TypeOK', UNCHANGED <<disk, network>>, LockInv', OwnerInv',
         \A a \in Attempt :
           (PastOpen(a) \/ (pc[a] \in {"recover", "open"} /\ io[a] = "renamed"))'
             => \A k \in JournaledBefore : visible[Root][k] # "absent"
  PROVE  IInv'
<1>1. JournaledBefore' = JournaledBefore
  BY DEF JournaledBefore, disk
<1>2. ImportInv'
  BY <1>1 DEF IInv, ImportInv, disk
<1>3. (SentIsDurable /\ AtMostOnce /\ CleanupFollowsWrite)'
  BY <1>1 DEF IInv, SentIsDurable, AtMostOnce, CleanupFollowsWrite, disk, network
<1>4. (\A k \in Operation \ JournaledBefore :
         Honest(visible[Root], k) /\ Honest(durable[Root], k))'
  BY <1>1 DEF IInv, Honest, disk, network
<1> QED
  BY <1>2, <1>3, <1>4 DEF IInv

\* A step of attempt a after which a owns nothing leaves the owners as they are.
LEMMA OwnersStay ==
  ASSUME IInv, TypeOK', UNCHANGED <<disk, network>>, NEW a \in Attempt,
         \A k \in Operation : ~Owns(a, k)',
         \A b \in Attempt \ {a} :
           pc'[b] = pc[b] /\ io'[b] = io[b] /\ current'[b] = current[b]
  PROVE  OwnerInv'
<1> SUFFICES ASSUME NEW b \in Attempt, NEW k \in Operation, Owns(b, k)'
             PROVE  OwnerInv!(b, k)!2'
  BY DEF OwnerInv
<1>1. \A c \in Attempt : Owns(c, k)' => c # a /\ Owns(c, k)
  BY DEF Owns, PastOpen
<1>2. b # a /\ Owns(b, k)
  BY <1>1
<1>3. OwnerInv!(b, k)!2
  BY <1>2 DEF IInv, OwnerInv
<1>4. JournaledBefore' = JournaledBefore
  BY DEF JournaledBefore, disk
<1> QED
  BY <1>1, <1>2, <1>3, <1>4 DEF disk, network

\* The budget decides whether an owner goes on; the entry stays what it was.
LEMMA BudgetStep ==
  ASSUME IInv, TypeOK', NEW a \in Attempt, BudgetWait(a)
  PROVE  IInv'
<1>1. LockInv'
  BY DEF IInv, TypeOK, LockInv, BudgetWait, Goto, PastOpen, JournalCall, disk
<1>2. OwnerInv'
  <2> SUFFICES ASSUME NEW b \in Attempt, NEW k \in Operation, Owns(b, k)'
               PROVE  OwnerInv!(b, k)!2'
    BY DEF OwnerInv
  <2>1. \A c \in Attempt : Owns(c, k)' => Owns(c, k)
    BY DEF IInv, TypeOK, LockInv, BudgetWait, Goto, Owns, PastOpen, JournalCall
  <2>2. CASE b = a
    <3>1. Owns(a, k) /\ OwnerInv!(a, k)!2
      BY <2>1, <2>2 DEF IInv, OwnerInv
    <3>2. \/ pc[a] = "wait" /\ pc'[a] \in {"send", "next"}
          \/ pc[a] = "waitCleanup" /\ pc'[a] \in {"sendCleanup", "cleanup_failed"}
      BY DEF IInv, TypeOK, BudgetWait, Goto
    <3>3. UNCHANGED <<visible, durable, io, current, sends, cleanups>>
      BY DEF BudgetWait, disk, network
    <3>4. io[a] = "unlocked"
      BY <3>2 DEF IInv, LockInv, JournalCall
    <3>5. pc'[a] # "next"
      BY <2>2, <3>3, <3>4 DEF Owns
    <3> QED
      BY <2>1, <2>2, <3>1, <3>2, <3>3, <3>4, <3>5 DEF OwnedEntry, JournaledBefore
  <2>3. CASE b # a
    BY <2>1, <2>3 DEF IInv, TypeOK, OwnerInv, BudgetWait, Goto,
       JournaledBefore, disk, network
  <2> QED
    BY <2>2, <2>3
<1>3. \A b \in Attempt :
        (PastOpen(b) \/ (pc[b] \in {"recover", "open"} /\ io[b] = "renamed"))'
          => \A k \in JournaledBefore : visible[Root][k] # "absent"
  BY DEF IInv, TypeOK, ImportInv, BudgetWait, Goto, PastOpen
<1> QED
  BY <1>1, <1>2, <1>3, SameDiskAndNetwork DEF BudgetWait

\* Steps of the runner between two approvals: attempt a owns nothing.
LEMMA ControlStep ==
  ASSUME Expanded, IInv, TypeOK', NEW a \in Attempt,
         Begin(a) \/ Gate(a) \/ Finish(a) \/ (\E k \in Operation : TakeApproval(a, k))
  PROVE  IInv'
<1> USE DEF Begin, Gate, Finish, TakeApproval, Goto
<1>1. UNCHANGED <<disk, network, io, lock, entries>> /\ io[a] = "unlocked"
  BY DEF IInv, TypeOK, LockInv, JournalCall, disk, network
<1>2. pc'[a] \in {"recover", "gate", "open", "over", "next", "intent"}
  BY DEF IInv, TypeOK
<1>2a. \A b \in Attempt \ {a} : pc'[b] = pc[b] /\ current'[b] = current[b]
  BY DEF IInv, TypeOK
<1>2b. PastOpen(a)' => PastOpen(a)
  BY DEF IInv, TypeOK, PastOpen
<1>3. LockInv'
  BY SMTT(20), <1>1, <1>2, <1>2a DEF IInv, TypeOK, LockInv, PastOpen, JournalCall, disk
<1>4. OwnerInv'
  <2>1. \A k \in Operation : ~Owns(a, k)'
    BY <1>1, <1>2 DEF Owns, PastOpen
  <2> QED
    BY <1>1, <1>2a, <2>1, OwnersStay
<1>5. \A b \in Attempt :
        (PastOpen(b) \/ (pc[b] \in {"recover", "open"} /\ io[b] = "renamed"))'
          => \A k \in JournaledBefore : visible[Root][k] # "absent"
  BY <1>1, <1>2a, <1>2b DEF IInv, ImportInv, PastOpen
<1> QED
  BY <1>1, <1>3, <1>4, <1>5, SameDiskAndNetwork

\* Taking the lock reloads the file, so the entries are current.
LEMMA LockStep ==
  ASSUME Expanded, IInv, TypeOK', NEW a \in Attempt, refreshWithDiskLock(a)
  PROVE  IInv'
<1>0. JournalDir(a) = Root /\ Root \in Dir
  BY DEF JournalDir, Dir
<1>1. LockInv'
  BY <1>0, WriteJournalAssumption
  DEF IInv, TypeOK, LockInv, refreshWithDiskLock, InJournalCall, PastOpen, disk
<1>2. OwnerInv'
  BY SMTT(20) DEF IInv, TypeOK, OwnerInv, refreshWithDiskLock, InJournalCall, Owns, PastOpen, OwnedEntry,
    JournaledBefore, disk, network
<1>3. \A b \in Attempt :
        (PastOpen(b) \/ (pc[b] \in {"recover", "open"} /\ io[b] = "renamed"))'
          => \A k \in JournaledBefore : visible[Root][k] # "absent"
  BY DEF IInv, TypeOK, ImportInv, refreshWithDiskLock, PastOpen
<1> QED
  BY <1>1, <1>2, <1>3, SameDiskAndNetwork DEF refreshWithDiskLock

\* Failed journal calls and crashes: the attempt owns nothing any more.
LEMMA GiveUpStep ==
  ASSUME Expanded, IInv, TypeOK', NEW a \in Attempt,
         RefreshFails(a) \/ Refuse(a) \/ CommitFails(a) \/ SyncFails(a) \/ Crash(a)
  PROVE  IInv'
<1> USE DEF RefreshFails, Refuse, CommitFails, SyncFails, Crash, Return, Goto, InJournalCall
<1>1. UNCHANGED <<disk, network, entries, current>>
  BY DEF disk, network
<1>2. pc'[a] \in {"over", "next", "crashed"} /\ (pc'[a] = "next" => PastOpen(a))
  <2>1. \/ pc'[a] = "crashed"
        \/ pc[a] \in JournalCall /\ pc'[a] = Continue(pc[a], FALSE)
    BY DEF IInv, TypeOK
  <2> QED
    BY <2>1 DEF Continue, JournalCall, PastOpen
<1>2a. \A b \in Attempt \ {a} : pc'[b] = pc[b] /\ io'[b] = io[b]
  BY DEF IInv, TypeOK
<1>2b. io'[a] = "unlocked"
  BY DEF IInv, TypeOK
<1>2c. \A b \in Attempt \ {a} : lock[Root] = b => (lock'[Root] = b \/ io[b] = "unlocked")
  <2>1. JournalDir(a) = Root /\ Root \in Dir
    BY DEF JournalDir, Dir
  <2>2. CASE RefreshFails(a) \/ Crash(a)
    BY <2>1, <2>2 DEF IInv, TypeOK
  <2>3. CASE Refuse(a) \/ CommitFails(a) \/ SyncFails(a)
    BY <2>3 DEF IInv, LockInv
  <2> QED
    BY <2>2, <2>3
<1>3. LockInv'
  BY <1>1, <1>2, <1>2a, <1>2b, <1>2c DEF IInv, LockInv, PastOpen, disk
<1>4. OwnerInv'
  <2>1. \A k \in Operation : ~Owns(a, k)'
    BY <1>2 DEF Owns, PastOpen
  <2> QED
    BY <1>1, <1>2a, <2>1, OwnersStay
<1>5. \A b \in Attempt :
        (PastOpen(b) \/ (pc[b] \in {"recover", "open"} /\ io[b] = "renamed"))'
          => \A k \in JournaledBefore : visible[Root][k] # "absent"
  BY <1>2, <1>2a, <1>2b DEF IInv, ImportInv, PastOpen
<1> QED
  BY <1>1, <1>3, <1>4, <1>5, SameDiskAndNetwork

\* What an import yields: entries it found stay, journaled operations appear.
LEMMA ImportedFacts ==
  ASSUME NEW found, NEW k \in Operation
  PROVE  /\ found[k] # "absent" => Imported(found)[k] = found[k]
         /\ k \in JournaledBefore => Imported(found)[k] # "absent"
         /\ Imported(found)[k] # found[k] => 
              \E d \in Attempt \cup Prior : visible[d][k] # "absent"
<1> DEFINE saved == {d \in Attempt \cup Prior : visible[d][k] # "absent"}
<1>1. Imported(found)[k] = IF found[k] = "absent" /\ saved # {}
                           THEN visible[CHOOSE d \in saved : TRUE][k] ELSE found[k]
  BY DEF Imported
<1>2. saved # {} => (CHOOSE d \in saved : TRUE) \in saved
  OBVIOUS
<1>3. k \in JournaledBefore => saved # {}
  BY DEF JournaledBefore
<1> QED
  BY <1>1, <1>2, <1>3

\* Opening a journal that already holds every prior entry.
LEMMA NothingToImportStep ==
  ASSUME Expanded, IInv, TypeOK', NEW a \in Attempt, NothingToImport(a)
  PROVE  IInv'
<1> USE DEF NothingToImport, Return, InJournalCall
<1>1. UNCHANGED <<disk, network, entries, current>>
  BY DEF disk, network
<1>2. pc'[a] \in {"gate", "next"} /\ io'[a] = "unlocked"
  BY DEF IInv, TypeOK, Continue
<1>3. \A b \in Attempt \ {a} : pc'[b] = pc[b] /\ io'[b] = io[b] /\ current'[b] = current[b]
  BY DEF IInv, TypeOK
<1>4. \A b \in Attempt \ {a} : io[b] = "unlocked"
  BY DEF IInv, LockInv
<1>5. LockInv'
  BY ZenonT(30), <1>1, <1>2, <1>3, <1>4 DEF IInv, LockInv, PastOpen
<1>6. OwnerInv'
  <2>1. \A k \in Operation : ~Owns(a, k)'
    BY <1>2 DEF Owns, PastOpen
  <2> QED
    BY <1>1, <1>3, <2>1, OwnersStay
<1>7. \A k \in JournaledBefore : visible[Root][k] # "absent"
  <2>1. entries[a] = visible[Root] /\ NextEntries(a) = Imported(entries[a])
    BY DEF IInv, LockInv, NextEntries
  <2> QED
    BY <2>1, ImportedFacts DEF JournaledBefore
<1> QED
  BY <1>1, <1>5, <1>6, <1>7, SameDiskAndNetwork

\* Only the owner of a sent write sends the cleanup, once.
LEMMA CleanupStep ==
  ASSUME IInv, TypeOK', NEW a \in Attempt, SendCleanup(a)
  PROVE  IInv'
<1> DEFINE k == current[a]
<1>1. k \in Operation /\ Owns(a, k) /\ pc[a] = "sendCleanup" /\ io[a] = "unlocked"
  BY DEF IInv, LockInv, PastOpen, Owns, SendCleanup, TypeOK, JournalCall
<1>2. /\ k \notin JournaledBefore /\ sends[k] = 1 /\ cleanups[k] = 0
      /\ visible[Root][k] = "sent" /\ durable[Root][k] # "absent"
      /\ \A b \in Attempt : Owns(b, k) => b = a
  BY <1>1 DEF IInv, OwnerInv, OwnedEntry
<1>3. cleanups' = [cleanups EXCEPT ![k] = 1] \/ UNCHANGED cleanups
  BY <1>2 DEF SendCleanup
<1>4. \/ pc' = [pc EXCEPT ![a] = "cleanup_done"] /\ cleanups' = [cleanups EXCEPT ![k] = 1]
      \/ pc' = [pc EXCEPT ![a] = "cleanup_failed"]
  BY <1>2 DEF SendCleanup, Goto
<1>5. UNCHANGED <<visible, durable, lock, entries, io, todo, current, sends>>
  BY DEF SendCleanup, disk
<1>6. JournaledBefore' = JournaledBefore
  BY <1>5 DEF JournaledBefore
<1> HIDE DEF k
<1>7. LockInv'
  BY <1>1, <1>4, <1>5 DEF IInv, TypeOK, LockInv, PastOpen, JournalCall
<1>8. ImportInv'
  BY <1>1, <1>4, <1>5, <1>6 DEF IInv, TypeOK, ImportInv, PastOpen
<1>9. OwnerInv'
  <2> SUFFICES ASSUME NEW b \in Attempt, NEW j \in Operation, Owns(b, j)'
               PROVE  OwnerInv!(b, j)!2'
    BY DEF OwnerInv
  <2>1. \A c \in Attempt : Owns(c, j)' => Owns(c, j)
    BY <1>1, <1>4, <1>5 DEF IInv, TypeOK, Owns, PastOpen
  <2>2. CASE b = a
    <3>1. /\ j = k /\ pc'[a] \in {"cleanup_done", "cleanup_failed"}
          /\ pc'[a] = "cleanup_done" => cleanups'[k] = 1
      BY <1>1, <1>3, <1>4, <1>5, <2>2 DEF IInv, TypeOK, Owns, PastOpen, k
    <3> QED
      BY <1>1, <1>2, <1>5, <1>6, <2>1, <2>2, <3>1 DEF OwnedEntry
  <2>3. CASE b # a
    <3>1. j # k /\ Owns(b, j)
      BY <1>2, <2>1, <2>3
    <3>2. pc'[b] = pc[b] /\ cleanups'[j] = cleanups[j]
      BY <1>3, <1>4, <2>3, <3>1 DEF IInv, TypeOK
    <3>3. OwnerInv!(b, j)!2
      BY <3>1 DEF IInv, OwnerInv
    <3> QED
      BY <1>5, <1>6, <2>1, <3>2, <3>3
  <2> QED
    BY <2>2, <2>3
<1>10. (SentIsDurable /\ AtMostOnce)'
  BY <1>5, <1>6 DEF IInv, SentIsDurable, AtMostOnce
<1>11. CleanupFollowsWrite'
  <2> SUFFICES ASSUME NEW j \in Operation PROVE cleanups'[j] <= sends'[j]
    BY DEF CleanupFollowsWrite
  <2>1. cleanups[j] <= sends[j] /\ sends'[j] = sends[j]
    BY <1>5 DEF IInv, CleanupFollowsWrite
  <2>2. cleanups'[j] = cleanups[j] \/ (j = k /\ cleanups'[j] = 1)
    BY <1>3 DEF IInv, TypeOK
  <2> QED
    BY <1>2, <2>1, <2>2
<1>12. (\A j \in Operation \ JournaledBefore :
         Honest(visible[Root], j) /\ Honest(durable[Root], j))'
  <2> SUFFICES ASSUME NEW j \in Operation, j \notin JournaledBefore
               PROVE Honest(visible[Root], j)' /\ Honest(durable[Root], j)'
    BY <1>6
  <2>1. CASE j = k
    BY <1>2, <1>3, <1>5, <2>1 DEF IInv, TypeOK, Honest
  <2>2. CASE j # k
    BY <1>3, <1>5, <2>2 DEF IInv, TypeOK, Honest
  <2> QED
    BY <2>1, <2>2
<1> QED
  BY <1>7, <1>8, <1>9, <1>10, <1>11, <1>12 DEF IInv

\* A power loss undoes at most unsynced renames, none of which was sent.
LEMMA PowerLossStep ==
  ASSUME IInv, TypeOK', PowerLoss
  PROVE  IInv'
<1>1. \A a \in Attempt : pc'[a] \in {"idle", "over", "crashed"} /\ io'[a] = "unlocked"
  BY DEF IInv, TypeOK, PowerLoss, Live
<1>2. /\ durable' = visible' /\ UNCHANGED <<entries, current, sends, cleanups>>
      /\ \A d \in Dir : visible'[d] = visible[d] \/ visible'[d] = durable[d]
  BY DEF PowerLoss, network, TypeOK
<1>3. Root \in Dir /\ \A d \in Prior \cup Attempt : d \in Dir
  BY DEF Dir
<1>4. JournaledBefore' = JournaledBefore
  BY <1>2, <1>3 DEF IInv, ImportInv, JournaledBefore
<1>5. LockInv'
  BY <1>1 DEF LockInv, PastOpen
<1>6. ImportInv'
  BY <1>1, <1>2, <1>3 DEF IInv, ImportInv, PastOpen, NoEntries
<1>7. OwnerInv'
  BY <1>1 DEF OwnerInv, Owns, PastOpen
<1>8. (SentIsDurable /\ AtMostOnce /\ CleanupFollowsWrite)'
  BY <1>2, <1>3, <1>4 DEF IInv, ImportInv, SentIsDurable, AtMostOnce, CleanupFollowsWrite
<1>9. (\A j \in Operation \ JournaledBefore :
         Honest(visible[Root], j) /\ Honest(durable[Root], j))'
  BY <1>2, <1>3, <1>4 DEF IInv, Honest
<1> QED
  BY <1>5, <1>6, <1>7, <1>8, <1>9 DEF IInv

\* Only the owner of an unsent intent sends the write.
LEMMA SendStep ==
  ASSUME IInv, TypeOK', NEW a \in Attempt, SendWrite(a)
  PROVE  IInv'
<1> DEFINE k == current[a]
<1>1. /\ k \in Operation /\ Owns(a, k) /\ pc[a] = "send" /\ io[a] = "unlocked"
  BY DEF IInv, LockInv, PastOpen, Owns, SendWrite, TypeOK, JournalCall
<1>2. /\ k \notin JournaledBefore /\ sends[k] = 0 /\ cleanups[k] = 0
      /\ visible[Root][k] = "intent" /\ durable[Root][k] # "absent"
      /\ \A b \in Attempt : Owns(b, k) => b = a
  BY <1>1 DEF IInv, OwnerInv, OwnedEntry
<1>3. sends' = [sends EXCEPT ![k] = 1] \/ UNCHANGED sends
  BY <1>2 DEF SendWrite
<1>4. \/ pc' = [pc EXCEPT ![a] = "sent"] /\ sends' = [sends EXCEPT ![k] = 1]
      \/ pc' = [pc EXCEPT ![a] = "next"]
  BY <1>2 DEF SendWrite, Goto
<1>5. UNCHANGED <<visible, durable, lock, entries, io, todo, current, cleanups>>
  BY DEF SendWrite, disk
<1>6. JournaledBefore' = JournaledBefore
  BY <1>5 DEF JournaledBefore
<1> HIDE DEF k
<1>7. (LockInv /\ ImportInv)'
  <2>1. LockInv'
    BY <1>1, <1>4, <1>5 DEF IInv, TypeOK, LockInv, PastOpen, JournalCall
  <2>2. ImportInv'
    BY <1>1, <1>4, <1>5, <1>6 DEF IInv, TypeOK, ImportInv, PastOpen
  <2> QED
    BY <2>1, <2>2
<1>8. OwnerInv'
  <2> SUFFICES ASSUME NEW b \in Attempt, NEW j \in Operation, Owns(b, j)'
               PROVE  OwnerInv!(b, j)!2'
    BY DEF OwnerInv
  <2>1. \A c \in Attempt : Owns(c, j)' => Owns(c, j)
    BY <1>1, <1>4, <1>5 DEF IInv, TypeOK, Owns, PastOpen
  <2>2. CASE b = a
    <3>1. j = k /\ pc'[a] = "sent" /\ sends'[k] = 1
      BY <1>1, <1>3, <1>4, <1>5, <2>2 DEF IInv, TypeOK, Owns, PastOpen, k
    <3> QED
      BY <1>1, <1>2, <1>5, <1>6, <2>1, <2>2, <3>1 DEF OwnedEntry
  <2>3. CASE b # a
    <3>1. j # k /\ Owns(b, j)
      BY <1>2, <2>1, <2>3
    <3>2. pc'[b] = pc[b] /\ sends'[j] = sends[j]
      BY <1>3, <1>4, <2>3, <3>1 DEF IInv, TypeOK
    <3>3. OwnerInv!(b, j)!2
      BY <3>1 DEF IInv, OwnerInv
    <3> QED
      BY <1>5, <1>6, <2>1, <3>2, <3>3
  <2> QED
    BY <2>2, <2>3
<1>9. (SentIsDurable /\ AtMostOnce /\ CleanupFollowsWrite)'
  <2> SUFFICES ASSUME NEW j \in Operation
               PROVE /\ sends'[j] > 0 => durable'[Root][j] # "absent"
                     /\ sends'[j] + (IF j \in JournaledBefore THEN 1 ELSE 0) <= 1
                     /\ cleanups'[j] <= sends'[j]
    BY <1>6 DEF SentIsDurable, AtMostOnce, CleanupFollowsWrite
  <2>1. CASE j = k
    BY <1>2, <1>3, <1>5, <2>1 DEF IInv, TypeOK
  <2>2. CASE j # k
    BY <1>3, <1>5, <2>2 DEF IInv, TypeOK, SentIsDurable, AtMostOnce, CleanupFollowsWrite
  <2> QED
    BY <2>1, <2>2
<1>10. \A j \in Operation \ JournaledBefore' :
         Honest(visible[Root], j)' /\ Honest(durable[Root], j)'
  <2> SUFFICES ASSUME NEW j \in Operation, j \notin JournaledBefore
               PROVE Honest(visible[Root], j)' /\ Honest(durable[Root], j)'
    BY <1>6
  <2>1. CASE j = k
    BY <1>2, <1>3, <1>5, <2>1 DEF IInv, TypeOK, Honest
  <2>2. CASE j # k
    BY <1>3, <1>5, <2>2 DEF IInv, TypeOK, Honest
  <2> QED
    BY <2>1, <2>2
<1> QED
  BY <1>7, <1>8, <1>9, <1>10 DEF IInv

\* The only step that changes the visible file: an import, a new intent of
\* an operation nobody owns, or a transition made by its owner.
LEMMA RenameStep ==
  ASSUME Expanded, IInv, TypeOK', NEW a \in Attempt, Rename(a)
  PROVE  IInv'
<1> USE DEF Rename, InJournalCall
<1>1. /\ JournalDir(a) = Root /\ Root \in Dir
      /\ entries[a] = visible[Root] /\ lock[Root] = a
      /\ \A b \in Attempt \ {a} : io[b] = "unlocked"
  BY DEF IInv, LockInv, JournalDir, Dir
<1>2. /\ visible'[Root] = NextEntries(a)
      /\ \A d \in Dir \ {Root} : visible'[d] = visible[d]
  BY <1>1 DEF IInv, TypeOK
<1>3. UNCHANGED <<durable, lock, entries, pc, current, sends, cleanups>>
  BY DEF network
<1>4. io'[a] = "renamed" /\ \A b \in Attempt \ {a} : io'[b] = io[b]
  BY DEF IInv, TypeOK
<1>5. JournaledBefore' = JournaledBefore
  BY <1>2, WriteJournalAssumption DEF JournaledBefore, Dir
<1>6. \A k \in Operation : visible[Root][k] # "absent" => visible'[Root][k] # "absent"
  <2> SUFFICES ASSUME NEW k \in Operation, visible[Root][k] # "absent"
               PROVE  visible'[Root][k] # "absent"
    OBVIOUS
  <2>1. CASE pc[a] \in {"recover", "open"}
    BY <1>1, <1>2, <2>1, ImportedFacts DEF NextEntries
  <2>2. CASE pc[a] \notin {"recover", "open"}
    BY <1>1, <1>2, <2>2 DEF NextEntries, IInv, TypeOK, JournalCall
  <2> QED
    BY <2>1, <2>2
<1>7. LockInv'
  BY <1>1, <1>3, <1>4 DEF IInv, LockInv, PastOpen
<1>8. ImportInv'
  <2>1. \A d \in Prior \cup Attempt : d \in Dir \ {Root}
    BY WriteJournalAssumption DEF Dir
  <2>2. /\ \A d \in Prior \cup Attempt : durable'[d] = visible'[d]
        /\ \A d \in Attempt : visible'[d] = NoEntries
    BY <1>2, <1>3, <2>1 DEF IInv, ImportInv
  <2>3. \A k \in Operation : durable'[Root][k] # "absent" => visible'[Root][k] # "absent"
    BY <1>3, <1>6 DEF IInv, ImportInv
  <2>4. ASSUME NEW b \in Attempt, PastOpen(b)' \/ (pc'[b] \in {"recover", "open"} /\ io'[b] = "renamed")
        PROVE  \A k \in JournaledBefore : visible'[Root][k] # "absent"
    <3>1. CASE pc[a] \in {"recover", "open"}
      BY <1>2, <3>1, ImportedFacts DEF NextEntries, JournaledBefore
    <3>2. CASE pc[a] \notin {"recover", "open"}
      <4>1. PastOpen(b)
        BY <1>1, <1>3, <1>4, <2>4, <3>2 DEF PastOpen
      <4> QED
        BY <4>1, <1>6 DEF IInv, ImportInv, JournaledBefore
    <3> QED
      BY <3>1, <3>2
  <2> QED
    BY <1>5, <2>2, <2>3, <2>4 DEF ImportInv, NoEntries
<1>9. CASE pc[a] \in {"recover", "open"}
  <2>1. \A k \in Operation : visible[Root][k] # "absent" \/ k \notin JournaledBefore
          => visible'[Root][k] = visible[Root][k]
    <3> SUFFICES ASSUME NEW k \in Operation, visible[Root][k] # "absent" \/ k \notin JournaledBefore
                 PROVE  visible'[Root][k] = visible[Root][k]
      OBVIOUS
    <3>1. visible'[Root] = Imported(visible[Root])
      BY <1>1, <1>2, <1>9 DEF NextEntries
    <3>2. k \notin JournaledBefore => \A d \in Attempt \cup Prior : visible[d][k] = "absent"
      BY DEF IInv, ImportInv, NoEntries, JournaledBefore
    <3> QED
      BY <3>1, <3>2, ImportedFacts
  <2>2. OwnerInv'
    <3> SUFFICES ASSUME NEW b \in Attempt, NEW k \in Operation, Owns(b, k)'
                 PROVE  OwnerInv!(b, k)!2'
      BY DEF OwnerInv
    <3>1. \A c \in Attempt : Owns(c, k)' => c # a /\ Owns(c, k)
      BY <1>3, <1>4, <1>9 DEF Owns, PastOpen
    <3>2. OwnerInv!(b, k)!2
      BY <3>1 DEF IInv, OwnerInv
    <3> QED
      BY <1>3, <1>4, <1>5, <2>1, <3>1, <3>2
  <2>3. (SentIsDurable /\ AtMostOnce /\ CleanupFollowsWrite)'
    BY <1>3, <1>5 DEF IInv, SentIsDurable, AtMostOnce, CleanupFollowsWrite
  <2>4. (\A k \in Operation \ JournaledBefore :
           Honest(visible[Root], k) /\ Honest(durable[Root], k))'
    BY <1>3, <1>5, <2>1 DEF IInv, Honest
  <2> QED
    BY <1>7, <1>8, <2>2, <2>3, <2>4 DEF IInv
<1>10. CASE pc[a] \notin {"recover", "open"}
  <2> DEFINE k == current[a]
  <2>1. k \in Operation
    BY <1>10 DEF IInv, LockInv, PastOpen, JournalCall
  <2>2. visible'[Root] = [visible[Root] EXCEPT ![k] = pc[a]]
    BY <1>1, <1>2, <1>10 DEF NextEntries
  <2>2a. visible'[Root][k] = pc[a]
    BY <2>1, <2>2, <1>1 DEF IInv, TypeOK
  <2>3. /\ k \notin JournaledBefore
        /\ \A b \in Attempt : Owns(b, k) => b = a
        /\ pc[a] = "intent" => sends[k] = 0 /\ cleanups[k] = 0
        /\ pc[a] # "intent" => sends[k] = 1 /\ durable[Root][k] # "absent"
        /\ pc[a] = "sent" => cleanups[k] = 0
        /\ pc[a] = "cleanup_done" => cleanups[k] = 1
    <3>1. CASE pc[a] = "intent"
      <4>1. visible[Root][k] = "absent"
        BY <1>1, <3>1 DEF Accepts
      <4>2. durable[Root][k] = "absent"
        BY <2>1, <4>1 DEF IInv, ImportInv
      <4>3. sends[k] = 0
        BY <2>1, <4>2 DEF IInv, SentIsDurable, TypeOK
      <4>4. cleanups[k] = 0
        BY <2>1, <4>3 DEF IInv, CleanupFollowsWrite, TypeOK
      <4>5. k \notin JournaledBefore
        BY <4>1, <3>1 DEF IInv, ImportInv, PastOpen
      <4>6. \A b \in Attempt : ~Owns(b, k)
        BY <2>1, <4>1 DEF IInv, OwnerInv, OwnedEntry, Owns, PastOpen
      <4> QED
        BY <3>1, <4>3, <4>4, <4>5, <4>6
    <3>2. CASE pc[a] # "intent"
      <4>1. Owns(a, k)
        BY <1>10, <3>2 DEF Owns, PastOpen, JournalCall
      <4> QED
        BY <1>10, <2>1, <3>2, <4>1 DEF IInv, OwnerInv, JournalCall
    <3> QED
      BY <3>1, <3>2
  <2> HIDE DEF k
  <2>4. OwnerInv'
    <3> SUFFICES ASSUME NEW b \in Attempt, NEW j \in Operation, Owns(b, j)'
                 PROVE  OwnerInv!(b, j)!2'
      BY DEF OwnerInv
    <3>1. \A c \in Attempt : Owns(c, j)' => Owns(c, j) \/ (c = a /\ j = k)
      BY <1>3, <1>4 DEF Owns, PastOpen, k
    <3>2. CASE b = a
      <4>1. j = k
        BY <1>3, <3>2 DEF Owns, k
      <4>2. pc[a] \in {"intent", "sent", "cleanup_done", "cleanup_failed"}
        BY <1>10 DEF JournalCall
      <4> QED
        BY <1>3, <1>4, <1>5, <2>2a, <2>3, <3>1, <3>2, <4>1, <4>2 DEF OwnedEntry
    <3>3. CASE b # a
      <4>1. j # k /\ Owns(b, j)
        BY <2>3, <3>1, <3>3
      <4>2. visible'[Root][j] = visible[Root][j]
        BY <2>2, <4>1 DEF IInv, TypeOK, Dir
      <4>3. OwnerInv!(b, j)!2
        BY <4>1 DEF IInv, OwnerInv
      <4> QED
        BY <1>3, <1>4, <1>5, <3>1, <3>3, <4>1, <4>2, <4>3
    <3> QED
      BY <3>2, <3>3
  <2>5. (SentIsDurable /\ AtMostOnce /\ CleanupFollowsWrite)'
    BY <1>3, <1>5 DEF IInv, SentIsDurable, AtMostOnce, CleanupFollowsWrite
  <2>6. (\A j \in Operation \ JournaledBefore :
           Honest(visible[Root], j) /\ Honest(durable[Root], j))'
    <3> SUFFICES ASSUME NEW j \in Operation, j \notin JournaledBefore
                 PROVE Honest(visible[Root], j)' /\ Honest(durable[Root], j)'
      BY <1>5
    <3>1. CASE j = k
      BY <1>3, <2>2a, <2>3, <3>1 DEF IInv, Honest
    <3>2. CASE j # k
      <4>1. visible'[Root][j] = visible[Root][j]
        BY <2>2, <3>2 DEF IInv, TypeOK, Dir
      <4> QED
        BY <1>3, <4>1 DEF IInv, Honest
    <3> QED
      BY <3>1, <3>2
  <2> QED
    BY <1>7, <1>8, <2>4, <2>5, <2>6 DEF IInv
<1> QED
  BY <1>9, <1>10

\* After the directory syncs the file survives, and the caller goes on.
LEMMA SyncStep ==
  ASSUME Expanded, IInv, TypeOK', NEW a \in Attempt, Sync(a)
  PROVE  IInv'
<1> USE DEF Sync, Return, InJournalCall
<1>1. /\ JournalDir(a) = Root /\ Root \in Dir /\ io[a] = "renamed"
      /\ \A b \in Attempt \ {a} : io[b] = "unlocked"
  BY DEF IInv, LockInv, JournalDir, Dir
<1>2. /\ durable'[Root] = visible[Root]
      /\ \A d \in Dir \ {Root} : durable'[d] = durable[d]
  BY <1>1 DEF IInv, TypeOK
<1>3. UNCHANGED <<visible, current, sends, cleanups>>
  BY DEF network
<1>4. io'[a] = "unlocked" /\ pc'[a] = Continue(pc[a], TRUE)
  BY DEF IInv, TypeOK
<1>5. \A b \in Attempt \ {a} : pc'[b] = pc[b] /\ io'[b] = io[b]
  BY DEF IInv, TypeOK
<1>6. JournaledBefore' = JournaledBefore
  BY <1>3 DEF JournaledBefore
<1>7. LockInv'
  BY <1>1, <1>3, <1>4, <1>5 DEF IInv, LockInv, PastOpen, Continue, JournalCall
<1>8. ImportInv'
  <2>1. \A d \in Prior \cup Attempt : d \in Dir \ {Root}
    BY WriteJournalAssumption DEF Dir
  <2>2. PastOpen(a)' => PastOpen(a) \/ pc[a] \in {"recover", "open"}
    BY DEF PastOpen, JournalCall
  <2>3. \A d \in Prior \cup Attempt : durable'[d] = visible'[d]
    BY <1>2, <1>3, <2>1 DEF IInv, ImportInv
  <2>4. ASSUME NEW b \in Attempt,
               PastOpen(b)' \/ (pc'[b] \in {"recover", "open"} /\ io'[b] = "renamed")
        PROVE  \A k \in JournaledBefore : visible[Root][k] # "absent"
    <3>1. PastOpen(b) \/ (pc[b] \in {"recover", "open"} /\ io[b] = "renamed")
      BY <1>1, <1>4, <1>5, <2>2, <2>4 DEF PastOpen
    <3> QED
      BY <3>1 DEF IInv, ImportInv
  <2> QED
    BY <1>2, <1>3, <1>6, <2>3, <2>4 DEF IInv, ImportInv, NoEntries
<1>9. OwnerInv'
  <2> SUFFICES ASSUME NEW b \in Attempt, NEW j \in Operation, Owns(b, j)'
               PROVE  OwnerInv!(b, j)!2'
    BY DEF OwnerInv
  <2>1. \A c \in Attempt : Owns(c, j)' => Owns(c, j)
    BY <1>1, <1>3, <1>4, <1>5 DEF Owns, PastOpen, Continue, JournalCall
  <2>2. OwnerInv!(b, j)!2 /\ visible[Root][j] # "absent"
    <3>1. OwnerInv!(b, j)!2
      BY <2>1 DEF IInv, OwnerInv
    <3>2. pc[b] \in Pc /\ (pc[b] = "intent" \/ (PastOpen(b) /\ pc[b] # "next"))
      BY <2>1 DEF IInv, TypeOK, Owns
    <3>3. OwnedEntry(pc[b], io[b] = "renamed") # "absent"
      BY <3>2 DEF OwnedEntry, PastOpen
    <3> QED
      BY <3>1, <3>3
  <2>3. CASE b = a
    <3>1. \/ pc[a] = "intent" /\ pc'[a] = "wait"
          \/ pc[a] = "sent" /\ pc'[a] = "waitCleanup"
      BY <1>3, <1>4, <2>3 DEF Owns, PastOpen, Continue, JournalCall
    <3> QED
      BY <1>1, <1>2, <1>3, <1>4, <1>6, <2>1, <2>2, <2>3, <3>1 DEF OwnedEntry
  <2>4. CASE b # a
    BY <1>2, <1>3, <1>5, <1>6, <2>1, <2>2, <2>4
  <2> QED
    BY <2>3, <2>4
<1>10. (SentIsDurable /\ AtMostOnce /\ CleanupFollowsWrite)'
  BY <1>2, <1>3, <1>6 DEF IInv, ImportInv, SentIsDurable, AtMostOnce, CleanupFollowsWrite
<1>11. (\A j \in Operation \ JournaledBefore :
         Honest(visible[Root], j) /\ Honest(durable[Root], j))'
  BY <1>2, <1>3, <1>6 DEF IInv, Honest
<1> QED
  BY <1>7, <1>8, <1>9, <1>10, <1>11 DEF IInv

-----------------------------------------------------------------------------
(* The theorems. *)

\* In the expanded workflow IInv holds in every reachable state.
THEOREM Inductive == ASSUME Expanded PROVE Spec => []IInv
<1>1. Init => IInv
  <2> SUFFICES ASSUME Init
               PROVE  IInv
    OBVIOUS
  <2>1. TypeOK
    BY DEF Init, TypeOK, NoEntries, WriteState, Pc, Dir, JournalCall
  <2>2. LockInv /\ OwnerInv /\ SentIsDurable /\ CleanupFollowsWrite
    BY DEF Init, LockInv, OwnerInv, SentIsDurable, CleanupFollowsWrite, Owns, PastOpen
  <2>3. ImportInv
    BY DEF Init, ImportInv, PastOpen
  <2>4. AtMostOnce
    <3> SUFFICES ASSUME NEW k \in Operation
                 PROVE  sends[k] + (IF k \in JournaledBefore THEN 1 ELSE 0) <= 1
      BY DEF AtMostOnce
    <3>1. sends[k] = 0
      BY DEF Init
    <3> QED
      BY <3>1
  <2>5. visible[Root] = NoEntries /\ durable[Root] = NoEntries
    BY DEF Init
  <2>6. \A k \in Operation : Honest(visible[Root], k) /\ Honest(durable[Root], k)
    BY <2>5 DEF Honest, NoEntries
  <2> QED
    BY <2>1, <2>2, <2>3, <2>4, <2>6 DEF IInv
<1>2. IInv /\ [Next]_vars /\ TypeOK' => IInv'
  <2> SUFFICES ASSUME IInv, [Next]_vars, TypeOK'
               PROVE  IInv'
    OBVIOUS
  <2>1. CASE UNCHANGED vars
    <3>1. /\ LockInv' /\ OwnerInv' /\ UNCHANGED <<disk, network>>
          /\ \A a \in Attempt :
               (PastOpen(a) \/ (pc[a] \in {"recover", "open"} /\ io[a] = "renamed"))'
                 => \A k \in JournaledBefore : visible[Root][k] # "absent"
      BY <2>1 DEF IInv, LockInv, OwnerInv, ImportInv, Owns, PastOpen, JournaledBefore,
         vars, disk, network
    <3> QED
      BY <3>1, SameDiskAndNetwork
  <2>2. ASSUME NEW a \in Attempt, Begin(a) \/ Step(a) \/ Fails(a)
        PROVE  IInv'
    BY <2>2, BudgetStep, ControlStep, LockStep, GiveUpStep, NothingToImportStep,
       CleanupStep, SendStep, RenameStep, SyncStep DEF Step, Fails
  <2>3. ASSUME NEW a \in Attempt, Crash(a)
        PROVE  IInv'
    BY <2>3, GiveUpStep
  <2>4. CASE PowerLoss
    BY <2>4, PowerLossStep
  <2> QED
    BY <2>1, <2>2, <2>3, <2>4 DEF Next
<1> QED
  BY <1>1, <1>2, TypeCorrect, PTL DEF Spec

\* Whatever crashes and loses power, an approved write reaches the target at
\* most once, and never if an earlier version journaled it.
THEOREM NeverReplayed == ASSUME Expanded PROVE Spec => []AtMostOnce
<1>1. IInv => AtMostOnce
  BY DEF IInv
<1> QED
  BY <1>1, Inductive, PTL

\* The cleanup of a write is never sent more often than the write: executeAPIWrites cleans up
\* only what its own attempt delivered or what the journal says was delivered.
THEOREM CleanupNeedsWrite == ASSUME Expanded PROVE Spec => []CleanupFollowsWrite
<1>1. IInv => CleanupFollowsWrite
  BY DEF IInv
<1> QED
  BY Inductive, <1>1, PTL

\* Every write that reached the target is journaled on stable storage.
THEOREM SentSurvivesPowerLoss == ASSUME Expanded PROVE Spec => []SentIsDurable
<1>1. IInv => SentIsDurable
  BY DEF IInv
<1> QED
  BY <1>1, Inductive, PTL

\* The journal records no answer and no cleanup that did not happen.
THEOREM JournalNeverOverstates == ASSUME Expanded PROVE Spec => []JournalIsHonest
<1>1. IInv => JournalIsHonest
  BY DEF IInv, JournalIsHonest, Honest
<1> QED
  BY <1>1, Inductive, PTL

\* No attempt gets past the resume gate while the outcome of a write that
\* reached the target is open.
THEOREM ResumeGate == ASSUME Expanded PROVE Spec => ResumeNeedsSettledWrites
<1> DEFINE Settled == \A a \in Attempt : pc[a] = "gate" /\ pc'[a] = "open" =>
                        \A k \in Operation :
                          sends[k] > 0 => visible[Root][k] \in {"cleanup_done", "cleanup_failed"}
<1>1. IInv /\ [Next]_vars => [Settled]_vars
  <2> SUFFICES ASSUME IInv, [Next]_vars, NEW a \in Attempt, pc[a] = "gate", pc'[a] = "open",
                      NEW k \in Operation, sends[k] > 0
               PROVE  visible[Root][k] \in {"cleanup_done", "cleanup_failed"}
    OBVIOUS
  <2>1. visible[Root][k] \in WriteState \ {"absent"}
    BY DEF IInv, TypeOK, SentIsDurable, ImportInv, Dir
  <2>2. Gate(a)
    <3>1. ASSUME NEW b \in Attempt, Begin(b) \/ Step(b) \/ Fails(b) \/ Crash(b)
          PROVE  b = a
      BY <3>1 DEF IInv, TypeOK, Step, Fails, Begin, Gate, refreshWithDiskLock,
         RefreshFails, Rename, NothingToImport, Refuse, CommitFails, Sync, SyncFails, Return,
         TakeApproval, Finish, BudgetWait, SendWrite, SendCleanup, Crash, Goto
    <3>2. ~PowerLoss /\ ~UNCHANGED vars
      BY DEF PowerLoss, IInv, TypeOK, vars
    <3>3. Begin(a) \/ Step(a) \/ Fails(a) \/ Crash(a)
      BY <3>1, <3>2 DEF Next
    <3> QED
      BY <3>3 DEF Step, Fails, Begin, Gate, refreshWithDiskLock, RefreshFails,
         Rename, NothingToImport, Refuse, CommitFails, Sync, SyncFails, InJournalCall, JournalCall,
         TakeApproval, Finish, BudgetWait, SendWrite, SendCleanup, Crash, Goto, IInv, TypeOK
  <2>3. ~Unresolved(visible[Root][k])
    BY <2>2 DEF Gate, Goto, IInv, TypeOK
  <2> QED
    BY <2>1, <2>3 DEF Unresolved, WriteState
<1> QED
  BY <1>1, Inductive, PTL DEF Spec, ResumeNeedsSettledWrites

\* The journal and its adapter implement the promise made about the approved
\* writes: every step sends one, cleans one up, or is invisible to the target.
THEOREM ImplementsPromise == ASSUME Expanded PROVE Spec => ImplementsApprovedWrites
<1>1. Init => Promise!Init
  BY DEF Init, Promise!Init, JournaledBefore
<1>2. IInv /\ IInv' /\ [Next]_vars => [Promise!Next]_<<JournaledBefore, sends, cleanups>>
  <2> SUFFICES ASSUME IInv, IInv', [Next]_vars
               PROVE  Promise!Next \/ UNCHANGED <<JournaledBefore, sends, cleanups>>
    OBVIOUS
  <2>1. JournaledBefore' = JournaledBefore
    <3>1. \A d \in Prior : visible'[d] = visible[d]
      <4>1. \A d \in Prior : d \in Dir \ {Root} /\ durable[d] = visible[d]
        BY WriteJournalAssumption DEF Dir, IInv, ImportInv
      <4>2. CASE PowerLoss
        BY <4>1, <4>2 DEF PowerLoss
      <4>3. ASSUME NEW a \in Attempt, Rename(a)
            PROVE  \A d \in Prior : visible'[d] = visible[d]
        BY <4>1, <4>3 DEF Rename, JournalDir, IInv, TypeOK
      <4>4. ASSUME ~PowerLoss, \A a \in Attempt : ~Rename(a)
            PROVE  visible' = visible
        BY <4>4 DEF Next, Step, Fails, Begin, Gate, refreshWithDiskLock,
           RefreshFails, NothingToImport, Refuse, CommitFails, Sync, SyncFails, TakeApproval,
           Finish, BudgetWait, SendWrite, SendCleanup, Crash, vars, disk
      <4> QED
        BY <4>2, <4>3, <4>4
    <3> QED
      BY <3>1 DEF JournaledBefore
  <2>2. ASSUME NEW a \in Attempt, SendWrite(a)
        PROVE  Promise!Next \/ UNCHANGED <<sends, cleanups>>
    <3> DEFINE k == current[a]
    <3>1. k \in Operation /\ Owns(a, k) /\ pc[a] = "send"
      BY <2>2 DEF IInv, LockInv, PastOpen, Owns, SendWrite
    <3>2. k \notin JournaledBefore /\ sends[k] = 0
      BY <3>1 DEF IInv, OwnerInv
    <3>3. sends' = [sends EXCEPT ![k] = 1] \/ UNCHANGED sends
      BY <2>2, <3>2 DEF SendWrite
    <3> QED
      BY <2>1, <2>2, <3>1, <3>2, <3>3 DEF SendWrite, Promise!Next, Promise!Send
  <2>3. ASSUME NEW a \in Attempt, SendCleanup(a)
        PROVE  Promise!Next \/ UNCHANGED <<sends, cleanups>>
    <3> DEFINE k == current[a]
    <3>1. k \in Operation /\ Owns(a, k) /\ pc[a] = "sendCleanup"
      BY <2>3 DEF IInv, LockInv, PastOpen, Owns, SendCleanup
    <3>2. sends[k] = 1 /\ cleanups[k] = 0
      BY <3>1 DEF IInv, OwnerInv
    <3>3. cleanups' = [cleanups EXCEPT ![k] = 1] \/ UNCHANGED cleanups
      BY <2>3, <3>2 DEF SendCleanup
    <3> QED
      BY <2>1, <2>3, <3>1, <3>2, <3>3 DEF SendCleanup, Promise!Next, Promise!Cleanup
  <2>4. ASSUME \A a \in Attempt : ~SendWrite(a) /\ ~SendCleanup(a)
        PROVE  UNCHANGED <<sends, cleanups>>
    <3>1. CASE UNCHANGED vars \/ PowerLoss
      BY <3>1 DEF vars, PowerLoss, network
    <3>2. ASSUME NEW a \in Attempt, Begin(a) \/ Step(a) \/ Fails(a) \/ Crash(a)
          PROVE  UNCHANGED network
      BY <2>4, <3>2 DEF Step, Fails, Begin, Gate, refreshWithDiskLock,
         RefreshFails, Rename, NothingToImport, Refuse, CommitFails, Sync, SyncFails, Return,
         TakeApproval, Finish, BudgetWait, Crash
    <3> QED
      BY <3>1, <3>2 DEF Next, network
  <2> QED
    BY <2>1, <2>2, <2>3, <2>4
<1> QED
  BY <1>1, <1>2, Inductive, PTL DEF Spec, ImplementsApprovedWrites, Promise!Spec
=============================================================================
