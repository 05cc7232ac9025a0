--------------------------- MODULE ScanQueueProofs ---------------------------
(* Proofs about ScanQueue for every set of settings.                          *)
EXTENDS ScanQueue, FiniteSetTheorems, TLAPS

-----------------------------------------------------------------------------
(* The inductive invariants. *)

\* Where a run is says which of its fields are set; a run is registered under its own ID and
\* not before it was launched.
PlaceInv ==
  /\ \A r \in Run :
       /\ pc[r] # "idle" => id[r] \in Id /\ scan[r] \in Id
       /\ pc[r] = "idle" => id[r] = None /\ status[r] = "none" /\ late[r] = 0
       /\ pc[r] \in {"accepted", "clearOld"} => from[r] \in Id
       /\ pc[r] \in {"save", "arm", "progress", "session", "after", "advance"} => next[r] <= N
       /\ pc[r] = "markWrite" => loaded[r] # None
  /\ \A i \in Id : instances[i] # None =>
       id[instances[i]] = i /\ pc[instances[i]] \notin {"idle", "accepted", "launched"}

TypeInv == TypeOK /\ PlaceInv

\* Runs that share an ID share the scan, which is the scan of the queue file of that ID; a run
\* is resumed from an ID that a run of its scan has or had.
IdentityInv ==
  /\ \A r, q \in Run : id[r] = id[q] /\ id[r] # None => scan[r] = scan[q]
  /\ \A r \in Run : id[r] # None /\ file[id[r]] # None => file[id[r]].scan = scan[r]
  /\ \A r \in Run : loaded[r] # None => loaded[r].scan = scan[r]
  /\ \A r \in Run : pc[r] = "idle" => from[r] = None /\ loaded[r] = None
  /\ \A r \in Run : from[r] # None => \E q \in Run : id[q] = from[r] /\ scan[q] = scan[r]
  /\ \A r \in Run : pc[r] = "clearOld" => from[r] # id[r]

-----------------------------------------------------------------------------
(* Settings, new runs, and the steps of the next-state relation. *)

LEMMA SettingFacts ==
  ASSUME setting \in Settings
  PROVE  /\ N \in Nat /\ N > 0
         /\ MaxInstances \in Nat
         /\ MaxCrashes \in Nat
         /\ Typed \in SUBSET Id
         /\ setting.runs \in SUBSET Run
         /\ setting.ids \in SUBSET Id
BY ScanQueueAssumption DEF Setting, N, MaxInstances, MaxCrashes, Typed

\* No step changes the setting.
LEMMA SettingKept ==
  ASSUME [Next]_vars
  PROVE  /\ setting' = setting
         /\ N' = N /\ Typed' = Typed /\ Commands' = Commands
         /\ MaxInstances' = MaxInstances /\ MaxCrashes' = MaxCrashes
<1>1. setting' = setting
  <2>1. CASE UNCHANGED vars
    BY <2>1 DEF vars
  <2>2. ASSUME NEW r \in Run, RunStep(r) PROVE setting' = setting
    BY <2>2 DEF RunStep, host, Register, PersistPending, CheckStopped, CheckSlot, Refuse, Grant, Wake, ShutdownWhileParked, Start, ClearOld, NextTarget, SaveTarget, Arm, BeginSession, SessionEnds, SessionAborted, AfterTarget, Advance, Exit, LoadPaused, MarkQueueStatePaused, CheckStillRunning, UnsetRunning, WakeWaiter, ReplacePaused
  <2>3. ASSUME NEW r \in Run, Panics(r) PROVE setting' = setting
    BY <2>3 DEF Panics, Panic, SessionPanics, host
  <2>4. CASE Handler
    BY <2>4 DEF Handler, HandleScan, StopInstance, DeleteScan, StopAll, StopAllMark, PauseInstance,
                ResumeInstance, HandleQueueResume, HandleQueueClear, host
  <2>5. CASE Host
    BY <2>5 DEF Host, Signal, SignalMark, Restart, Die, Crash, ProcessEnds, Boot, AutoResume
  <2> QED
    BY <2>1, <2>2, <2>3, <2>4, <2>5 DEF Next
<1> QED
  BY <1>1 DEF N, Typed, Commands, MaxInstances, MaxCrashes

\* A set has a subset of every smaller size.
LEMMA SubsetOfSize ==
  ASSUME NEW S, IsFiniteSet(S), NEW n \in Nat, n <= Cardinality(S)
  PROVE  \E R \in SUBSET S : Cardinality(R) = n
<1>1. PICK m \in Nat : ExistsBijection(1..m, S)
  BY FS_NatBijection
<1>2. Cardinality(S) = m
  BY <1>1, FS_CountingElements
<1>3. PICK f \in Bijection(1..m, S) : TRUE
  BY <1>1 DEF ExistsBijection
<1> DEFINE R == {f[k] : k \in 1..n}
<1>4. R \in SUBSET S
  BY <1>2, <1>3 DEF Bijection, Injection
<1>5. [k \in 1..n |-> f[k]] \in Bijection(1..n, R)
  BY <1>2, <1>3 DEF Bijection, Injection, Surjection, IsInjective
<1>6. Cardinality(R) = n
  BY <1>5, FS_CountingElements DEF ExistsBijection
<1> QED
  BY <1>4, <1>6

\* New runs are goroutines that were not started yet.
LEMMA NewRunsAreIdle ==
  ASSUME setting \in Settings, NEW n \in Nat
  PROVE  NewRuns(n) \in SUBSET {r \in Run : pc[r] = "idle"}
<1>1. Idle \in SUBSET {r \in Run : pc[r] = "idle"}
  BY SettingFacts DEF Idle
<1>2. IsFiniteSet(Idle)
  BY <1>1, FS_Subset, ScanQueueAssumption
<1>3. CASE Cardinality(Idle) < n
  BY <1>3 DEF NewRuns
<1>4. CASE ~ (Cardinality(Idle) < n)
  <2>1. Cardinality(Idle) \in Nat
    BY <1>2, FS_CardinalityType
  <2>2. \E R \in SUBSET Idle : Cardinality(R) = n
    BY <1>2, <1>4, <2>1, SubsetOfSize
  <2>3. NewRuns(n) \in SUBSET Idle
    BY <1>4, <2>2 DEF NewRuns
  <2> QED
    BY <1>1, <2>3
<1> QED
  BY <1>3, <1>4

\* New IDs are fresh ones.
LEMMA NewIdsAreFresh ==
  ASSUME setting \in Settings
  PROVE  \A i \in NewIds : i \in Id /\ Fresh(i)
<1> DEFINE fresh == {i \in setting.ids : Fresh(i)}
<1>1. \A i \in fresh : i \in Id /\ Fresh(i)
  BY SettingFacts
<1>2. \A i \in NewIds : i \in fresh
  BY DEF NewIds
<1> QED
  BY <1>1, <1>2

\* What resuming the queues in S does: each gets a run of its own.
Launches(S, new, queueOf) ==
  /\ new \in SUBSET {r \in Run : pc[r] = "idle"}
  /\ queueOf \in [new -> S]
  /\ \A r, q \in new : queueOf[r] = queueOf[q] => r = q
  /\ pc' = [r \in Run |-> IF r \in new THEN "launched" ELSE pc[r]]
  /\ id' = [r \in Run |-> IF r \in new THEN queueOf[r] ELSE id[r]]
  /\ scan' = [r \in Run |-> IF r \in new THEN file[queueOf[r]].scan ELSE scan[r]]
  /\ next' = [r \in Run |-> IF r \in new THEN file[queueOf[r]].next ELSE next[r]]
  /\ from' = [r \in Run |-> IF r \in new THEN queueOf[r] ELSE from[r]]
  /\ launching' = launching \cup S
  /\ file' = WithoutInvalid

LEMMA LaunchFacts ==
  ASSUME setting \in Settings, NEW S \in SUBSET Id, LaunchQueues(S)
  PROVE  \E new, queueOf : Launches(S, new, queueOf)
<1> DEFINE R == NewRuns(Cardinality(S))
<1>1. Cardinality(S) \in Nat
  BY ScanQueueAssumption, FS_Subset, FS_CardinalityType
<1>2. R \in SUBSET {r \in Run : pc[r] = "idle"}
  BY <1>1, NewRunsAreIdle
<1> HIDE DEF R
<1>3. PICK f \in Bijection(S, R) :
        LET choice(r) == CHOOSE i \in S : f[i] = r
            new == {f[i] : i \in S}
        IN /\ pc' = [r \in Run |-> IF r \in new THEN "launched" ELSE pc[r]]
           /\ id' = [r \in Run |-> IF r \in new THEN choice(r) ELSE id[r]]
           /\ scan' = [r \in Run |-> IF r \in new THEN file[choice(r)].scan ELSE scan[r]]
           /\ next' = [r \in Run |-> IF r \in new THEN file[choice(r)].next ELSE next[r]]
           /\ from' = [r \in Run |-> IF r \in new THEN choice(r) ELSE from[r]]
           /\ launching' = launching \cup S
           /\ file' = WithoutInvalid
  BY DEF LaunchQueues, R
<1> DEFINE new == {f[i] : i \in S}
           queueOf == [r \in new |-> CHOOSE i \in S : f[i] = r]
<1>4. new \in SUBSET {r \in Run : pc[r] = "idle"}
  BY <1>2 DEF Bijection, Injection
<1>5. \A r \in new : queueOf[r] \in S /\ f[queueOf[r]] = r
  OBVIOUS
<1>6. queueOf \in [new -> S]
  BY <1>5
<1>7. \A r, q \in new : queueOf[r] = queueOf[q] => r = q
  BY <1>5
<1>8. /\ pc' = [r \in Run |-> IF r \in new THEN "launched" ELSE pc[r]]
      /\ id' = [r \in Run |-> IF r \in new THEN queueOf[r] ELSE id[r]]
      /\ scan' = [r \in Run |-> IF r \in new THEN file[queueOf[r]].scan ELSE scan[r]]
      /\ next' = [r \in Run |-> IF r \in new THEN file[queueOf[r]].next ELSE next[r]]
      /\ from' = [r \in Run |-> IF r \in new THEN queueOf[r] ELSE from[r]]
      /\ launching' = launching \cup S
      /\ file' = WithoutInvalid
  BY <1>3
<1> HIDE DEF new, queueOf
<1>9. Launches(S, new, queueOf)
  BY <1>4, <1>6, <1>7, <1>8 DEF Launches
<1> QED
  BY <1>9

-----------------------------------------------------------------------------
(* Types. *)

LEMMA InitTypes == Init => TypeInv
<1> SUFFICES ASSUME Init PROVE TypeInv
  OBVIOUS
<1>1. TypeOK
  <2>1. setting \in Settings /\ crashes \in 0..MaxCrashes /\ 1 \in 1..(N + 1)
    BY SettingFacts DEF Init
  <2>2. "idle" \in Pc
    BY DEF Pc
  <2> QED
    BY <2>1, <2>2 DEF Init, TypeOK
<1>2. PlaceInv
  BY DEF Init, PlaceInv
<1> QED
  BY <1>1, <1>2 DEF TypeInv

LEMMA RunStepTypes ==
  ASSUME TypeInv, NEW r \in Run, RunStep(r) \/ Panics(r)
  PROVE  TypeInv'
<1> USE SettingFacts, ScanQueueAssumption
<1>0. /\ setting \in Settings /\ setting' = setting
      /\ N' = N /\ MaxCrashes' = MaxCrashes /\ QueueState' = QueueState
  BY SettingKept DEF TypeInv, TypeOK, Next, QueueState
<1> USE <1>0 DEF TypeInv, TypeOK, PlaceInv, Goto, Pc, Live, Queued, Working, Leaving, QueueState, host, local, request, history
<1>1. CASE Register(r)
  BY <1>1 DEF Register
<1>2. CASE PersistPending(r)
  BY <1>2 DEF PersistPending, SaveQueueState
<1>3. CASE CheckStopped(r)
  BY <1>3 DEF CheckStopped
<1>4. CASE CheckSlot(r)
  BY <1>4 DEF CheckSlot
<1>5. CASE Refuse(r)
  BY <1>5 DEF Refuse
<1>6. CASE Grant(r)
  BY <1>6 DEF Grant
<1>7. CASE Wake(r)
  <2>1. wake' \in BOOLEAN
    BY <1>7 DEF Wake
  <2>2. PlaceInv'
    BY <1>7 DEF Wake
  <2>3. pc' \in [Run -> Pc]
    BY <1>7 DEF Wake
  <2> QED
    BY <1>7, <2>1, <2>2, <2>3 DEF Wake
<1>8. CASE ShutdownWhileParked(r)
  BY <1>8 DEF ShutdownWhileParked
<1>9. CASE Start(r)
  BY <1>9 DEF Start, SaveQueueState
<1>10. CASE ClearOld(r)
  BY <1>10 DEF ClearOld
<1>11. CASE NextTarget(r)
  BY <1>11 DEF NextTarget
<1>12. CASE SaveTarget(r)
  BY <1>12 DEF SaveTarget, SaveQueueState
<1>13. CASE Arm(r)
  BY <1>13 DEF Arm
<1>14. CASE BeginSession(r)
  BY <1>14 DEF BeginSession, SaveQueueState
<1>15. CASE SessionEnds(r)
  <2> DEFINE d == IF scan[r] \in Typed THEN 1..N ELSE {next[r]}
  <2>1. d \in SUBSET (1..N)
    BY <1>15 DEF SessionEnds
  <2>2. done' \in [Id -> SUBSET (1..N)]
    <3>1. done' = [done EXCEPT ![scan[r]] = @ \cup d]
      BY <1>15 DEF SessionEnds
    <3> QED
      BY <2>1, <3>1
  <2>3. status' \in [Run -> {"none", "pending", "running", "paused", "stopped", "finished",
                             "failed"}]
    BY <1>15 DEF SessionEnds
  <2>4. reason' \in [Run -> {"none", "user_stopped", "user_paused", "signal",
                             "server_shutdown", "panic_recovered"}]
    BY <1>15, SMTT(30) DEF SessionEnds
  <2>5. PlaceInv'
    BY <1>15 DEF SessionEnds
  <2> QED
    <3>1. UNCHANGED <<host, request, loaded, next, cancelled, instances, file, cancelScan, running,
                      wake, launching, wish, late>>
      BY <1>15 DEF SessionEnds
    <3>2. pc' \in [Run -> Pc]
      BY <1>15 DEF SessionEnds
    <3> QED
      BY <2>2, <2>3, <2>4, <2>5, <3>1, <3>2
<1>16. CASE SessionAborted(r)
  BY <1>16 DEF SessionAborted
<1>17. CASE AfterTarget(r)
  BY <1>17 DEF AfterTarget
<1>18. CASE Advance(r)
  BY <1>18 DEF Advance, SaveQueueState
<1>19. CASE Exit(r)
  BY <1>19, SMTT(30) DEF Exit
<1>20. CASE LoadPaused(r)
  BY <1>20 DEF LoadPaused
<1>21. CASE MarkQueueStatePaused(r)
  <2>1. loaded[r] \in QueueState
    BY <1>21 DEF MarkQueueStatePaused
  <2>2. [loaded[r] EXCEPT !.paused = TRUE] \in QueueState
    BY <2>1
  <2> QED
    BY <1>21, <2>2, ScanQueueAssumption DEF MarkQueueStatePaused
<1>22. CASE CheckStillRunning(r)
  BY <1>22 DEF CheckStillRunning
<1>23. CASE UnsetRunning(r)
  <2>1. running' \in BOOLEAN
    BY <1>23 DEF UnsetRunning
  <2>2. PlaceInv'
    BY <1>23 DEF UnsetRunning
  <2>3. pc' \in [Run -> Pc]
    BY <1>23 DEF UnsetRunning
  <2> QED
    BY <1>23, <2>1, <2>2, <2>3 DEF UnsetRunning
<1>24. CASE WakeWaiter(r)
  BY <1>24 DEF WakeWaiter
<1>25. CASE ReplacePaused(r)
  BY <1>25 DEF ReplacePaused
<1>26. CASE Panic(r)
  BY <1>26 DEF Panic
<1>27. CASE SessionPanics(r)
  BY <1>27 DEF SessionPanics
<1> QED
  BY <1>1, <1>2, <1>3, <1>4, <1>5, <1>6, <1>7, <1>8, <1>9, <1>10, <1>11, <1>12, <1>13, <1>14, <1>15, <1>16, <1>17, <1>18, <1>19, <1>20, <1>21, <1>22, <1>23, <1>24, <1>25, <1>26, <1>27 DEF RunStep, Panics

LEMMA HandlerTypes ==
  ASSUME TypeInv, Handler
  PROVE  TypeInv'
<1> USE SettingFacts, ScanQueueAssumption
<1>0. /\ setting \in Settings /\ setting' = setting
      /\ N' = N /\ MaxCrashes' = MaxCrashes /\ QueueState' = QueueState
  BY SettingKept DEF TypeInv, TypeOK, Next, QueueState
<1> USE <1>0 DEF TypeInv, TypeOK, PlaceInv, Goto, Pc, Live, Queued, Working, Leaving, QueueState,
                 host, local, request, history
<1>1. ASSUME NEW i \in NewIds, NEW r \in NewRuns(1), HandleScan(r, i) PROVE TypeInv'
  <2>1. i \in Id /\ r \in Run /\ pc[r] = "idle"
    BY NewRunsAreIdle DEF NewIds
  <2> QED
    BY <1>1, <2>1 DEF HandleScan, Launch
<1>2. ASSUME NEW i \in Id, StopInstance(i) PROVE TypeInv'
  BY <1>2 DEF StopInstance, MarkStopped, Wished, Armed, Active
<1>3. ASSUME NEW i \in Id, DeleteScan(i) PROVE TypeInv'
  BY <1>3 DEF DeleteScan, MarkStopped, Wished, Armed, Active
<1>4. CASE StopAll
  BY <1>4 DEF StopAll, CancelCurrent, Armed
<1>5. CASE StopAllMark
  BY <1>5 DEF StopAllMark, MarkStopped, Wished, Armed, Active, Registered
<1>6. ASSUME NEW i \in Id, PauseInstance(i) PROVE TypeInv'
  BY <1>6 DEF PauseInstance, Armed
<1>7. ASSUME NEW i \in Id, NEW j \in NewIds, NEW r \in NewRuns(1), ResumeInstance(i, r, j)
      PROVE  TypeInv'
  <2>1. j \in Id /\ r \in Run /\ pc[r] = "idle"
    BY NewRunsAreIdle DEF NewIds
  <2> QED
    BY <1>7, <2>1 DEF ResumeInstance, Launch, Valid
<1>8. CASE HandleQueueResume
  <2>1. PICK new, queueOf : Launches({i \in Id : Valid(i)}, new, queueOf)
    BY <1>8, LaunchFacts DEF HandleQueueResume
  <2> QED
    BY <1>8, <2>1 DEF HandleQueueResume, Launches, Valid, WithoutInvalid, Wished
<1>9. CASE HandleQueueClear
  BY <1>9 DEF HandleQueueClear, Wished
<1> QED
  BY <1>1, <1>2, <1>3, <1>4, <1>5, <1>6, <1>7, <1>8, <1>9 DEF Handler

LEMMA HostTypes ==
  ASSUME TypeInv, Host
  PROVE  TypeInv'
<1> USE SettingFacts, ScanQueueAssumption
<1>0. /\ setting \in Settings /\ setting' = setting
      /\ N' = N /\ MaxCrashes' = MaxCrashes /\ QueueState' = QueueState
  BY SettingKept DEF TypeInv, TypeOK, Next, QueueState
<1> USE <1>0 DEF TypeInv, TypeOK, PlaceInv, Pc, Live, Queued, Working, Leaving, QueueState,
                 local, request, history
<1>1. CASE Signal
  BY <1>1 DEF Signal, CancelCurrent, Armed
<1>2. CASE SignalMark
  BY <1>2 DEF SignalMark, RunningInstances, Registered
<1>3. CASE Restart
  BY <1>3 DEF Restart
<1>4. CASE Die
  <2>1. crashes' = crashes
    BY <1>4 DEF Die
  <2>2. PlaceInv'
    BY <1>4 DEF Die, ProcessEnds
  <2>3. pc' \in [Run -> Pc]
    BY <1>4 DEF Die, ProcessEnds
  <2>4. server' = "down" /\ running' = FALSE /\ wake' = FALSE /\ launching' = {}
    BY <1>4 DEF Die, ProcessEnds
  <2>5. cancelled' = [q \in Run |-> FALSE] /\ status' = [q \in Run |-> "none"]
        /\ reason' = [q \in Run |-> "none"] /\ loaded' = [q \in Run |-> None]
        /\ instances' = [i \in Id |-> None] /\ cancelScan' = None
    BY <1>4 DEF Die, ProcessEnds
  <2>6. UNCHANGED <<resumeDue, id, scan, from, next, file, done, wish, late>>
    BY <1>4 DEF Die, ProcessEnds
  <2> QED
    BY <2>1, <2>2, <2>3, <2>4, <2>5, <2>6
<1>5. CASE Crash
  <2>1. crashes' \in 0..MaxCrashes
    BY <1>5 DEF Crash
  <2>2. PlaceInv'
    BY <1>5 DEF Crash, ProcessEnds
  <2>3. pc' \in [Run -> Pc]
    BY <1>5 DEF Crash, ProcessEnds
  <2>4. server' = "down" /\ running' = FALSE /\ wake' = FALSE /\ launching' = {}
    BY <1>5 DEF Crash, ProcessEnds
  <2>5. cancelled' = [q \in Run |-> FALSE] /\ status' = [q \in Run |-> "none"]
        /\ reason' = [q \in Run |-> "none"] /\ loaded' = [q \in Run |-> None]
        /\ instances' = [i \in Id |-> None] /\ cancelScan' = None
    BY <1>5 DEF Crash, ProcessEnds
  <2>6. UNCHANGED <<resumeDue, id, scan, from, next, file, done, wish, late>>
    BY <1>5 DEF Crash, ProcessEnds
  <2> QED
    BY <2>1, <2>2, <2>3, <2>4, <2>5, <2>6
<1>6. CASE Boot
  BY <1>6 DEF Boot, WithoutInvalid
<1>7. CASE AutoResume
  <2> DEFINE S == {i \in Id : Valid(i) /\ ~ file[i].paused}
  <2>1. CASE ResumeGate
    <3>1. PICK new, queueOf : Launches(S, new, queueOf)
      BY <1>7, <2>1, LaunchFacts DEF AutoResume
    <3>2. PlaceInv'
      BY <1>7, <3>1 DEF AutoResume, Launches, Valid
    <3>3. /\ pc' \in [Run -> Pc]
          /\ id' \in [Run -> Id \cup {None}]
          /\ scan' \in [Run -> Id \cup {None}]
          /\ next' \in [Run -> 1..(N + 1)]
          /\ from' \in [Run -> Id \cup {None}]
          /\ launching' \in SUBSET Id
          /\ file' \in [Id -> QueueState \cup {None}]
      BY <3>1 DEF Launches, Valid, WithoutInvalid
    <3>4. resumeDue' = FALSE
          /\ UNCHANGED <<server, crashes, loaded, status, reason, cancelled, instances,
                         cancelScan, running, wake, done, wish, late>>
      BY <1>7 DEF AutoResume
    <3> QED
      BY <3>2, <3>3, <3>4
  <2>2. CASE ~ ResumeGate
    <3>1. resumeDue' = FALSE
          /\ UNCHANGED <<server, crashes, loaded, status, reason, cancelled, instances, pc, id,
                         scan, from, next, launching, file, cancelScan, running, wake, done,
                         wish, late>>
      BY <1>7, <2>2 DEF AutoResume
    <3> QED
      BY <3>1
  <2> QED
    BY <2>1, <2>2
<1> QED
  BY <1>1, <1>2, <1>3, <1>4, <1>5, <1>6, <1>7 DEF Host


\* What TypeOK says of the types of the variables is true of every run of the queue, and a run's
\* place says which of its fields are set (PlaceInv).
THEOREM QueueTypes == Spec => []TypeInv
<1>1. TypeInv /\ [Next]_vars => TypeInv'
  <2> SUFFICES ASSUME TypeInv, [Next]_vars PROVE TypeInv'
    OBVIOUS
  <2>1. CASE Next
    BY <2>1, RunStepTypes, HandlerTypes, HostTypes DEF Next
  <2>2. CASE UNCHANGED vars
    BY <2>2 DEF vars, TypeInv, TypeOK, PlaceInv, QueueState, N, MaxCrashes
  <2> QED
    BY <2>1, <2>2
<1> QED
  BY <1>1, InitTypes, PTL DEF Spec

\* The variables have their types: see TypeOK.
THEOREM QueueTypeOK == Spec => []TypeOK
<1>1. TypeInv => TypeOK
  BY DEF TypeInv
<1> QED
  BY <1>1, QueueTypes, PTL

-----------------------------------------------------------------------------
(* At most one session after a stop or a pause. *)

\* A run that missed a stop or a pause does not arm another session unless its status was
\* overwritten by "failed", which nobody stops.
LateInv == \A r \in Run :
  \/ late[r] = 0
  \/ /\ late[r] = 1
     /\ \/ pc[r] \in {"over", "dead"}
        \/ pc[r] \in Working \cup Leaving /\ status[r] = "failed"
        \/ pc[r] \in {"session", "after", "loop"} \cup Leaving /\ Interrupted(r)

LEMMA RunStepLate ==
  ASSUME TypeInv, LateInv, NEW r \in Run, RunStep(r) \/ Panics(r)
  PROVE  LateInv'
<1> USE DEF TypeInv, TypeOK, PlaceInv, LateInv, Interrupted, Goto, Live, Queued, Working, Leaving, host, local, request, history
<1>1. CASE Register(r)
  BY <1>1 DEF Register
<1>2. CASE PersistPending(r)
  BY <1>2 DEF PersistPending, SaveQueueState
<1>3. CASE CheckStopped(r)
  BY <1>3 DEF CheckStopped
<1>4. CASE CheckSlot(r)
  BY <1>4 DEF CheckSlot, MapUnlocked
<1>5. CASE Refuse(r)
  BY <1>5 DEF Refuse
<1>6. CASE Grant(r)
  BY <1>6 DEF Grant
<1>7. CASE Wake(r)
  BY <1>7 DEF Wake
<1>8. CASE ShutdownWhileParked(r)
  BY <1>8 DEF ShutdownWhileParked
<1>9. CASE Start(r)
  BY <1>9 DEF Start, SaveQueueState
<1>10. CASE ClearOld(r)
  BY <1>10 DEF ClearOld
<1>11. CASE NextTarget(r)
  BY <1>11 DEF NextTarget
<1>12. CASE SaveTarget(r)
  BY <1>12 DEF SaveTarget, SaveQueueState
<1>13. CASE Arm(r)
  BY <1>13 DEF Arm
<1>14. CASE BeginSession(r)
  BY <1>14 DEF BeginSession, SaveQueueState
<1>15. CASE SessionEnds(r)
  BY <1>15 DEF SessionEnds
<1>16. CASE SessionAborted(r)
  BY <1>16 DEF SessionAborted
<1>17. CASE AfterTarget(r)
  BY <1>17 DEF AfterTarget
<1>18. CASE Advance(r)
  BY <1>18 DEF Advance, SaveQueueState
<1>19. CASE Exit(r)
  BY <1>19 DEF Exit, Preserved
<1>20. CASE LoadPaused(r)
  BY <1>20 DEF LoadPaused
<1>21. CASE MarkQueueStatePaused(r)
  BY <1>21 DEF MarkQueueStatePaused
<1>22. CASE CheckStillRunning(r)
  BY <1>22 DEF CheckStillRunning
<1>23. CASE UnsetRunning(r)
  BY <1>23 DEF UnsetRunning
<1>24. CASE WakeWaiter(r)
  BY <1>24 DEF WakeWaiter
<1>25. CASE ReplacePaused(r)
  BY <1>25 DEF ReplacePaused
<1>26. CASE Panic(r)
  BY <1>26 DEF Panic
<1>27. CASE SessionPanics(r)
  BY <1>27 DEF SessionPanics
<1> QED
  BY <1>1, <1>2, <1>3, <1>4, <1>5, <1>6, <1>7, <1>8, <1>9, <1>10, <1>11, <1>12, <1>13, <1>14, <1>15, <1>16, <1>17, <1>18, <1>19, <1>20, <1>21, <1>22, <1>23, <1>24, <1>25, <1>26, <1>27 DEF RunStep, Panics

LEMMA HandlerLate ==
  ASSUME TypeInv, LateInv, Handler
  PROVE  LateInv'
<1> USE DEF TypeInv, TypeOK, PlaceInv, LateInv, Interrupted, Goto, Live, Queued, Working, Leaving, host, local, request, history
<1>1. ASSUME NEW i \in NewIds, NEW r \in NewRuns(1), HandleScan(r, i) PROVE LateInv'
  <2>1. i \in Id /\ Fresh(i) /\ r \in Run /\ pc[r] = "idle"
    BY NewRunsAreIdle, NewIdsAreFresh DEF TypeInv, TypeOK
  <2> QED
    BY <1>1, <2>1 DEF HandleScan, Launch, Fresh
<1>2. ASSUME NEW i \in Id, StopInstance(i) PROVE LateInv'
  BY <1>2 DEF StopInstance, MarkStopped, Wished, Armed, Active
<1>3. ASSUME NEW i \in Id, DeleteScan(i) PROVE LateInv'
  BY <1>3 DEF DeleteScan, MarkStopped, Wished, Armed, Active
<1>4. CASE StopAll
  BY <1>4 DEF StopAll, CancelCurrent, Armed
<1>5. CASE StopAllMark
  BY <1>5 DEF StopAllMark, MarkStopped, Wished, Armed, Active, Registered
<1>6. ASSUME NEW i \in Id, PauseInstance(i) PROVE LateInv'
  BY <1>6 DEF PauseInstance, Armed
<1>7. ASSUME NEW i \in Id, NEW j \in NewIds, NEW r \in NewRuns(1), ResumeInstance(i, r, j)
      PROVE  LateInv'
  <2>1. j \in Id /\ Fresh(j) /\ r \in Run /\ pc[r] = "idle"
    BY NewRunsAreIdle, NewIdsAreFresh DEF TypeInv, TypeOK
  <2> QED
    BY <1>7, <2>1 DEF ResumeInstance, Launch, Valid, Fresh
<1>8. CASE HandleQueueResume
  <2>1. PICK new, queueOf : Launches({i \in Id : Valid(i)}, new, queueOf)
    BY <1>8, LaunchFacts DEF HandleQueueResume, TypeInv, TypeOK
  <2> QED
    BY <1>8, <2>1 DEF HandleQueueResume, Launches, Valid, WithoutInvalid, Wished
<1>9. CASE HandleQueueClear
  BY <1>9 DEF HandleQueueClear, Wished
<1> QED
  BY <1>1, <1>2, <1>3, <1>4, <1>5, <1>6, <1>7, <1>8, <1>9 DEF Handler

LEMMA HostLate ==
  ASSUME TypeInv, LateInv, Host
  PROVE  LateInv'
<1> USE DEF TypeInv, TypeOK, PlaceInv, LateInv, Interrupted, Goto, Live, Queued, Working, Leaving, host, local, request, history
<1>1. CASE Signal
  BY <1>1 DEF Signal, CancelCurrent, Armed
<1>2. CASE SignalMark
  BY <1>2 DEF SignalMark, RunningInstances, Registered
<1>3. CASE Restart
  BY <1>3 DEF Restart
<1>4. CASE Die
  BY <1>4 DEF Die, ProcessEnds
<1>5. CASE Crash
  BY <1>5 DEF Crash, ProcessEnds
<1>6. CASE Boot
  BY <1>6 DEF Boot, WithoutInvalid
<1>7. CASE AutoResume
  <2> DEFINE S == {i \in Id : Valid(i) /\ ~ file[i].paused}
  <2>1. CASE ResumeGate
    <3>1. PICK new, queueOf : Launches(S, new, queueOf)
      BY <1>7, <2>1, LaunchFacts DEF AutoResume, TypeInv, TypeOK
    <3> QED
      BY <1>7, <3>1 DEF AutoResume, Launches, Valid, WithoutInvalid
  <2>2. CASE ~ ResumeGate
    BY <1>7, <2>2 DEF AutoResume
  <2> QED
    BY <2>1, <2>2
<1> QED
  BY <1>1, <1>2, <1>3, <1>4, <1>5, <1>6, <1>7 DEF Host

\* A run begins at most one session after it was stopped or paused: the status check of the next
\* target sees what the one between check and context missed (see AtMostOneLateSession).
THEOREM QueueLateSession == Spec => []AtMostOneLateSession
<1>1. Init => LateInv
  BY DEF Init, LateInv
<1>2. TypeInv /\ LateInv /\ [Next]_vars => LateInv'
  <2> SUFFICES ASSUME TypeInv, LateInv, [Next]_vars PROVE LateInv'
    OBVIOUS
  <2>1. CASE Next
    BY <2>1, RunStepLate, HandlerLate, HostLate DEF Next
  <2>2. CASE UNCHANGED vars
    BY <2>2 DEF vars, LateInv, Interrupted
  <2> QED
    BY <2>1, <2>2
<1>3. LateInv => AtMostOneLateSession
  BY DEF LateInv, AtMostOneLateSession
<1> QED
  BY <1>1, <1>2, <1>3, QueueTypes, PTL DEF Spec

-----------------------------------------------------------------------------
(* The ceiling of running instances. *)

\* At most one run is between the slot check and the status change, and it found a free slot.
CapInv ==
  /\ \A r, q \in Run : pc[r] = "grant" /\ pc[q] = "grant" => r = q
  /\ (\E r \in Run : pc[r] = "grant") => Cardinality(RunningInstances) < MaxInstances
  /\ Cardinality(RunningInstances) <= MaxInstances

\* How a step changes the running instances: it removes some, or adds the run whose slot was
\* granted; and the map is locked only when it was free and there is a slot.
Admits ==
  /\ RunningInstances' \in
       SUBSET (RunningInstances \cup {q \in Run : pc[q] = "grant" /\ pc'[q] = "admitted"})
  /\ \A r \in Run : pc'[r] = "grant" =>
       \/ pc[r] = "grant"
       \/ /\ MapUnlocked /\ Cardinality(RunningInstances) < MaxInstances
          /\ \A q \in Run \ {r} : pc'[q] = pc[q]

LEMMA RunStepAdmits ==
  ASSUME TypeInv, NEW r \in Run, RunStep(r) \/ Panics(r)
  PROVE  Admits
<1> USE DEF TypeInv, TypeOK, PlaceInv, Admits, RunningInstances, Registered, Goto, host, local, request, history
<1>1. CASE Register(r)
  BY <1>1 DEF Register
<1>2. CASE PersistPending(r)
  BY <1>2 DEF PersistPending, SaveQueueState
<1>3. CASE CheckStopped(r)
  BY <1>3 DEF CheckStopped
<1>4. CASE CheckSlot(r)
  <2>1. /\ MapUnlocked /\ Cardinality(RunningInstances) < MaxInstances
        /\ \A q \in Run \ {r} : pc'[q] = pc[q]
    BY <1>4 DEF CheckSlot
  <2>2. RunningInstances' = RunningInstances
    BY <1>4 DEF CheckSlot
  <2>3. ASSUME NEW p \in Run, pc'[p] = "grant"
        PROVE  /\ MapUnlocked /\ Cardinality(RunningInstances) < MaxInstances
               /\ \A q \in Run \ {p} : pc'[q] = pc[q]
    BY <2>1, <2>3 DEF MapUnlocked
  <2> HIDE DEF RunningInstances
  <2> QED
    BY <2>2, <2>3
<1>5. CASE Refuse(r)
  BY <1>5 DEF Refuse
<1>6. CASE Grant(r)
  BY <1>6 DEF Grant
<1>7. CASE Wake(r)
  BY <1>7 DEF Wake
<1>8. CASE ShutdownWhileParked(r)
  BY <1>8 DEF ShutdownWhileParked
<1>9. CASE Start(r)
  BY <1>9 DEF Start, SaveQueueState
<1>10. CASE ClearOld(r)
  BY <1>10 DEF ClearOld
<1>11. CASE NextTarget(r)
  BY <1>11 DEF NextTarget
<1>12. CASE SaveTarget(r)
  BY <1>12 DEF SaveTarget, SaveQueueState
<1>13. CASE Arm(r)
  BY <1>13 DEF Arm
<1>14. CASE BeginSession(r)
  BY <1>14 DEF BeginSession, SaveQueueState
<1>15. CASE SessionEnds(r)
  BY <1>15 DEF SessionEnds
<1>16. CASE SessionAborted(r)
  BY <1>16 DEF SessionAborted
<1>17. CASE AfterTarget(r)
  BY <1>17 DEF AfterTarget
<1>18. CASE Advance(r)
  BY <1>18 DEF Advance, SaveQueueState
<1>19. CASE Exit(r)
  BY <1>19 DEF Exit, Preserved
<1>20. CASE LoadPaused(r)
  BY <1>20 DEF LoadPaused
<1>21. CASE MarkQueueStatePaused(r)
  BY <1>21 DEF MarkQueueStatePaused
<1>22. CASE CheckStillRunning(r)
  BY <1>22 DEF CheckStillRunning
<1>23. CASE UnsetRunning(r)
  BY <1>23 DEF UnsetRunning
<1>24. CASE WakeWaiter(r)
  BY <1>24 DEF WakeWaiter
<1>25. CASE ReplacePaused(r)
  <2>1. \A q \in Run : (\E i0 \in Id : instances'[i0] = q) => \E i0 \in Id : instances[i0] = q
    <3>1. \A i0 \in Id : instances'[i0] \in {None, instances[i0]}
      BY <1>25 DEF ReplacePaused
    <3> QED
      BY <3>1, ScanQueueAssumption
  <2>2. \A q \in Run : status'[q] = "running" => status[q] = "running"
    BY <1>25 DEF ReplacePaused
  <2>3. \A q \in Run : pc'[q] = "grant" => pc[q] = "grant"
    BY <1>25 DEF ReplacePaused
  <2> QED
    BY <2>1, <2>2, <2>3
<1>26. CASE Panic(r)
  BY <1>26 DEF Panic
<1>27. CASE SessionPanics(r)
  BY <1>27 DEF SessionPanics
<1> QED
  BY <1>1, <1>2, <1>3, <1>4, <1>5, <1>6, <1>7, <1>8, <1>9, <1>10, <1>11, <1>12, <1>13, <1>14, <1>15, <1>16, <1>17, <1>18, <1>19, <1>20, <1>21, <1>22, <1>23, <1>24, <1>25, <1>26, <1>27 DEF RunStep, Panics

LEMMA HandlerAdmits ==
  ASSUME TypeInv, Handler
  PROVE  Admits
<1> USE DEF TypeInv, TypeOK, PlaceInv, Admits, RunningInstances, Registered, Goto, host, local, request, history
<1>1. ASSUME NEW i \in NewIds, NEW r \in NewRuns(1), HandleScan(r, i) PROVE Admits
  <2>1. i \in Id /\ Fresh(i) /\ r \in Run /\ pc[r] = "idle"
    BY NewRunsAreIdle, NewIdsAreFresh DEF TypeInv, TypeOK
  <2> QED
    BY <1>1, <2>1 DEF HandleScan, Launch, Fresh
<1>2. ASSUME NEW i \in Id, StopInstance(i) PROVE Admits
  BY <1>2 DEF StopInstance, MarkStopped, Wished, Armed, Active
<1>3. ASSUME NEW i \in Id, DeleteScan(i) PROVE Admits
  <2>1. \A q \in Run : (\E i0 \in Id : instances'[i0] = q) => \E i0 \in Id : instances[i0] = q
    <3>1. \A i0 \in Id : instances'[i0] \in {None, instances[i0]}
      BY <1>3 DEF DeleteScan
    <3> QED
      BY <3>1, ScanQueueAssumption
  <2>2. \A q \in Run : status'[q] = "running" => status[q] = "running"
    BY <1>3 DEF DeleteScan, MarkStopped
  <2>3. \A q \in Run : pc'[q] = "grant" => pc[q] = "grant"
    BY <1>3 DEF DeleteScan
  <2> QED
    BY <2>1, <2>2, <2>3
<1>4. CASE StopAll
  BY <1>4 DEF StopAll, CancelCurrent, Armed
<1>5. CASE StopAllMark
  BY <1>5 DEF StopAllMark, MarkStopped, Wished, Armed, Active, Registered
<1>6. ASSUME NEW i \in Id, PauseInstance(i) PROVE Admits
  BY <1>6 DEF PauseInstance, Armed
<1>7. ASSUME NEW i \in Id, NEW j \in NewIds, NEW r \in NewRuns(1), ResumeInstance(i, r, j)
      PROVE  Admits
  <2>1. j \in Id /\ Fresh(j) /\ r \in Run /\ pc[r] = "idle"
    BY NewRunsAreIdle, NewIdsAreFresh DEF TypeInv, TypeOK
  <2> QED
    BY <1>7, <2>1 DEF ResumeInstance, Launch, Valid, Fresh
<1>8. CASE HandleQueueResume
  <2>1. PICK new, queueOf : Launches({i \in Id : Valid(i)}, new, queueOf)
    BY <1>8, LaunchFacts DEF HandleQueueResume, TypeInv, TypeOK
  <2> QED
    BY <1>8, <2>1 DEF HandleQueueResume, Launches, Valid, WithoutInvalid, Wished
<1>9. CASE HandleQueueClear
  BY <1>9 DEF HandleQueueClear, Wished
<1> QED
  BY <1>1, <1>2, <1>3, <1>4, <1>5, <1>6, <1>7, <1>8, <1>9 DEF Handler

LEMMA HostAdmits ==
  ASSUME TypeInv, Host
  PROVE  Admits
<1> USE DEF TypeInv, TypeOK, PlaceInv, Admits, RunningInstances, Registered, Goto, host, local, request, history
<1>1. CASE Signal
  BY <1>1 DEF Signal, CancelCurrent, Armed
<1>2. CASE SignalMark
  BY <1>2 DEF SignalMark, RunningInstances, Registered
<1>3. CASE Restart
  BY <1>3 DEF Restart
<1>4. CASE Die
  BY <1>4 DEF Die, ProcessEnds
<1>5. CASE Crash
  BY <1>5 DEF Crash, ProcessEnds
<1>6. CASE Boot
  BY <1>6 DEF Boot, WithoutInvalid
<1>7. CASE AutoResume
  <2> DEFINE S == {i \in Id : Valid(i) /\ ~ file[i].paused}
  <2>1. CASE ResumeGate
    <3>1. PICK new, queueOf : Launches(S, new, queueOf)
      BY <1>7, <2>1, LaunchFacts DEF AutoResume, TypeInv, TypeOK
    <3> QED
      BY <1>7, <3>1 DEF AutoResume, Launches, Valid, WithoutInvalid
  <2>2. CASE ~ ResumeGate
    BY <1>7, <2>2 DEF AutoResume
  <2> QED
    BY <2>1, <2>2
<1> QED
  BY <1>1, <1>2, <1>3, <1>4, <1>5, <1>6, <1>7 DEF Host

LEMMA CapStep ==
  ASSUME TypeInv, CapInv, Next, Admits
  PROVE  CapInv'
<1>1. MaxInstances' = MaxInstances /\ MaxInstances \in Nat
  BY SettingKept, SettingFacts DEF TypeInv, TypeOK
<1>2. \A R \in SUBSET Run : IsFiniteSet(R) /\ Cardinality(R) \in Nat
  BY ScanQueueAssumption, FS_Subset, FS_CardinalityType
<1>3. RunningInstances \in SUBSET Run
  BY DEF RunningInstances, Registered
<1>4. CASE \E q \in Run : pc[q] = "grant" /\ pc'[q] = "admitted"
  <2>1. PICK q \in Run : pc[q] = "grant" /\ pc'[q] = "admitted"
    BY <1>4
  <2>2. RunningInstances' \in SUBSET (RunningInstances \cup {q})
    BY <2>1 DEF CapInv, Admits
  <2>3. Cardinality(RunningInstances \cup {q}) <= Cardinality(RunningInstances) + 1
    BY <1>2, <1>3, FS_AddElement
  <2>4. Cardinality(RunningInstances') <= Cardinality(RunningInstances \cup {q})
    BY <1>2, <1>3, <2>2, FS_Subset
  <2>5. \A r \in Run : pc'[r] # "grant"
    BY <2>1 DEF CapInv, Admits, MapUnlocked
  <2>6. RunningInstances' \in SUBSET Run
    BY <1>3, <2>2
  <2> QED
    BY <1>1, <1>2, <1>3, <2>1, <2>3, <2>4, <2>5, <2>6 DEF CapInv
<1>5. CASE ~ \E q \in Run : pc[q] = "grant" /\ pc'[q] = "admitted"
  <2>1. RunningInstances' \in SUBSET RunningInstances
    BY <1>5 DEF Admits
  <2>2. Cardinality(RunningInstances') <= Cardinality(RunningInstances)
    BY <1>2, <1>3, <2>1, FS_Subset
  <2>3. \A r, q \in Run : pc'[r] = "grant" /\ pc'[q] = "grant" => r = q
    BY DEF CapInv, Admits, MapUnlocked
  <2>4. (\E r \in Run : pc'[r] = "grant") => Cardinality(RunningInstances) < MaxInstances
    BY DEF CapInv, Admits
  <2>5. Cardinality(RunningInstances') \in Nat /\ Cardinality(RunningInstances) \in Nat
    BY <1>2, <1>3, <2>1
  <2> QED
    BY <1>1, <2>2, <2>3, <2>4, <2>5 DEF CapInv
<1> QED
  BY <1>4, <1>5

\* Whatever users, signals and restarts do, no more registered instances are running than the
\* ceiling: the slot check and the status change of runMultiScan are one step for the map's lock.
THEOREM QueueRegisteredCap == Spec => []CapInv
<1>1. Init => CapInv
  <2> SUFFICES ASSUME Init PROVE CapInv
    OBVIOUS
  <2>1. RunningInstances = {} /\ MaxInstances \in Nat
    BY SettingFacts, ScanQueueAssumption DEF Init, RunningInstances, Registered
  <2> QED
    BY <2>1, FS_EmptySet DEF Init, CapInv
<1>2. TypeInv /\ CapInv /\ [Next]_vars => CapInv'
  <2> SUFFICES ASSUME TypeInv, CapInv, [Next]_vars PROVE CapInv'
    OBVIOUS
  <2>1. CASE Next
    BY <2>1, CapStep, RunStepAdmits, HandlerAdmits, HostAdmits DEF Next
  <2>2. CASE UNCHANGED vars
    BY <2>2 DEF vars, CapInv, RunningInstances, Registered, MaxInstances
  <2> QED
    BY <2>1, <2>2
<1> QED
  BY <1>1, <1>2, QueueTypes, PTL DEF Spec

-----------------------------------------------------------------------------
(* One owner of an instance ID. *)

\* A queue is not resumed under an ID that is in use if runs end by themselves (RunsToTheEnd), and
\* in two more kinds of settings. In the first, no handler resumes a queue: after a start,
\* auto-resume launches the old queues once.
ResumedOnce == {"resume", "queueResume"} \cap Commands = {}

\* The process is never started again, and every run has an ID of its own.
OneProcess ==
  {"queueResume", "signal", "restart", "forceRestart"} \cap Commands = {} /\ MaxCrashes = 0

Exclusive == ResumedOnce \/ OneProcess \/ RunsToTheEnd

\* A run that counts as running, or may still count.
Claims(r) == status[r] \in {"pending", "running"} \/ pc[r] = "grant"

\* Nothing lives while the server is down, and no run is paused before it was let in.
BeforeInv ==
  /\ \A r \in Run : pc[r] \in {"accepted", "launched"} => status[r] = "none"
  /\ server = "down" => \A r \in Run : pc[r] \notin Live
  /\ \A r \in Run : pc[r] \in {"registered", "admit", "slot", "grant", "parked"} =>
       status[r] \notin {"running", "paused"}

\* The ID of a claimant is its own, and whoever is launched under an ID finds no claimant there.
OwnerInv == Exclusive =>
  /\ \A r \in Run : Claims(r) => instances[id[r]] = r
  /\ \A r \in Run : pc[r] = "launched" /\ instances[id[r]] # None => ~ Claims(instances[id[r]])
  /\ \A r, q \in Run : pc[r] = "launched" /\ pc[q] = "launched" /\ id[r] = id[q] => r = q

\* Between a start and its auto-resume only new scans are launched.
ResumedOnceInv == ResumedOnce =>
  /\ \A r \in Run : pc[r] # "accepted"
  /\ resumeDue =>
       /\ \A r, q \in Run : pc[r] \in Live /\ pc[q] \in Live /\ id[r] = id[q] => r = q
       /\ \A r \in Run : pc[r] = "launched" => file[id[r]] = None

\* Every run has an ID of its own, and a resumed instance was paused.
OneProcessInv == OneProcess =>
  /\ ~ resumeDue /\ server \in {"up", "halting"}
  /\ \A r, q \in Run : id[r] = id[q] /\ id[r] # None => r = q
  /\ \A r \in Run : pc[r] = "accepted" =>
       /\ instances[from[r]] # None => ~ Claims(instances[from[r]])
       /\ \A q \in Run : id[q] = from[r] => pc[q] \notin {"accepted", "launched"}
       /\ \E q \in Run : id[q] = from[r]

\* A live run that was resumed from the queue is still listed as being launched, and the queue
\* file of another is only there while that run counts as running.
RunsToTheEndInv == RunsToTheEnd =>
  /\ server \in {"up", "restarting", "down"}
  /\ \A r, q \in Run : pc[r] \in Live /\ pc[q] \in Live /\ id[r] = id[q] => r = q
  /\ \A r \in Run : reason[r] = "none"
  /\ \A r \in Run : pc[r] \in Live /\ from[r] # None => id[r] \in launching
  /\ \A r \in Run : pc[r] \in Live =>
       /\ pc[r] \notin {"accepted", "leave", "panicked"}
       /\ pc[r] \in {"registered", "admit", "slot", "grant", "parked"} => status[r] = "pending"
       /\ pc[r] \in Working \cup {"exit"} => status[r] = "running"
       /\ pc[r] \in {"launched", "mark", "check", "unset", "wake"} /\ from[r] = None =>
            file[id[r]] = None
       /\ pc[r] \in {"mark", "check", "unset", "wake"} => status[r] = "finished"
       /\ pc[r] # "markWrite"

LEMMA InitOwner ==
  Init => BeforeInv /\ OwnerInv /\ ResumedOnceInv /\ OneProcessInv /\ RunsToTheEndInv
BY DEF Init, BeforeInv, OwnerInv, ResumedOnceInv, OneProcessInv, RunsToTheEndInv, Claims, Live, Queued, Working,
       Leaving

LEMMA RunStepResumed ==
  ASSUME TypeInv, BeforeInv, ResumedOnceInv, NEW r \in Run, RunStep(r) \/ Panics(r)
  PROVE  ResumedOnceInv'
<1>0. Commands' = Commands /\ Typed' = Typed /\ MaxCrashes' = MaxCrashes /\ setting \in Settings
  BY SettingKept DEF Next, TypeInv, TypeOK
<1> USE <1>0 DEF TypeInv, TypeOK, PlaceInv, Goto, Live, Queued, Working, Leaving, host, local, request, history, BeforeInv, ResumedOnceInv, ResumedOnce
<1>1. CASE Register(r)
  BY <1>1 DEF Register
<1>2. CASE PersistPending(r)
  BY <1>2 DEF PersistPending, SaveQueueState
<1>3. CASE CheckStopped(r)
  BY <1>3 DEF CheckStopped
<1>4. CASE CheckSlot(r)
  BY <1>4 DEF CheckSlot, MapUnlocked
<1>5. CASE Refuse(r)
  BY <1>5 DEF Refuse
<1>6. CASE Grant(r)
  BY <1>6 DEF Grant
<1>7. CASE Wake(r)
  BY <1>7 DEF Wake
<1>8. CASE ShutdownWhileParked(r)
  BY <1>8 DEF ShutdownWhileParked
<1>9. CASE Start(r)
  BY <1>9 DEF Start, SaveQueueState
<1>10. CASE ClearOld(r)
  BY <1>10 DEF ClearOld
<1>11. CASE NextTarget(r)
  BY <1>11 DEF NextTarget
<1>12. CASE SaveTarget(r)
  BY <1>12 DEF SaveTarget, SaveQueueState
<1>13. CASE Arm(r)
  BY <1>13 DEF Arm
<1>14. CASE BeginSession(r)
  BY <1>14 DEF BeginSession, SaveQueueState
<1>15. CASE SessionEnds(r)
  BY <1>15 DEF SessionEnds
<1>16. CASE SessionAborted(r)
  BY <1>16 DEF SessionAborted
<1>17. CASE AfterTarget(r)
  BY <1>17 DEF AfterTarget
<1>18. CASE Advance(r)
  BY <1>18 DEF Advance, SaveQueueState
<1>19. CASE Exit(r)
  BY <1>19 DEF Exit, Preserved
<1>20. CASE LoadPaused(r)
  BY <1>20 DEF LoadPaused
<1>21. CASE MarkQueueStatePaused(r)
  BY <1>21 DEF MarkQueueStatePaused
<1>22. CASE CheckStillRunning(r)
  BY <1>22 DEF CheckStillRunning
<1>23. CASE UnsetRunning(r)
  BY <1>23 DEF UnsetRunning
<1>24. CASE WakeWaiter(r)
  BY <1>24 DEF WakeWaiter
<1>25. CASE ReplacePaused(r)
  BY <1>25 DEF ReplacePaused
<1>26. CASE Panic(r)
  BY <1>26 DEF Panic
<1>27. CASE SessionPanics(r)
  BY <1>27 DEF SessionPanics
<1> QED
  BY <1>1, <1>2, <1>3, <1>4, <1>5, <1>6, <1>7, <1>8, <1>9, <1>10, <1>11, <1>12, <1>13, <1>14, <1>15, <1>16, <1>17, <1>18, <1>19, <1>20, <1>21, <1>22, <1>23, <1>24, <1>25, <1>26, <1>27 DEF RunStep, Panics

LEMMA HandlerResumed ==
  ASSUME TypeInv, BeforeInv, ResumedOnceInv, Handler
  PROVE  ResumedOnceInv'
<1>0. Commands' = Commands /\ Typed' = Typed /\ MaxCrashes' = MaxCrashes /\ setting \in Settings
  BY SettingKept DEF Next, TypeInv, TypeOK
<1> USE <1>0 DEF TypeInv, TypeOK, PlaceInv, Goto, Live, Queued, Working, Leaving, host, local, request, history, BeforeInv, ResumedOnceInv, ResumedOnce
<1>1. ASSUME NEW i \in NewIds, NEW r \in NewRuns(1), HandleScan(r, i) PROVE ResumedOnceInv'
  <2>1. i \in Id /\ Fresh(i) /\ r \in Run /\ pc[r] = "idle"
    BY NewRunsAreIdle, NewIdsAreFresh DEF TypeInv, TypeOK
  <2> QED
    BY <1>1, <2>1 DEF HandleScan, Launch, Fresh
<1>2. ASSUME NEW i \in Id, StopInstance(i) PROVE ResumedOnceInv'
  BY <1>2 DEF StopInstance, MarkStopped, Wished, Armed, Active
<1>3. ASSUME NEW i \in Id, DeleteScan(i) PROVE ResumedOnceInv'
  BY <1>3 DEF DeleteScan, MarkStopped, Wished, Armed, Active
<1>4. CASE StopAll
  BY <1>4 DEF StopAll, CancelCurrent, Armed
<1>5. CASE StopAllMark
  BY <1>5 DEF StopAllMark, MarkStopped, Wished, Armed, Active, Registered
<1>6. ASSUME NEW i \in Id, PauseInstance(i) PROVE ResumedOnceInv'
  BY <1>6 DEF PauseInstance, Armed
<1>7. ASSUME NEW i \in Id, NEW j \in NewIds, NEW r \in NewRuns(1), ResumeInstance(i, r, j)
      PROVE  ResumedOnceInv'
  <2>1. j \in Id /\ Fresh(j) /\ r \in Run /\ pc[r] = "idle"
    BY NewRunsAreIdle, NewIdsAreFresh DEF TypeInv, TypeOK
  <2> QED
    BY <1>7, <2>1 DEF ResumeInstance, Launch, Valid, Fresh
<1>8. CASE HandleQueueResume
  <2>1. PICK new, queueOf : Launches({i \in Id : Valid(i)}, new, queueOf)
    BY <1>8, LaunchFacts DEF HandleQueueResume, TypeInv, TypeOK
  <2> QED
    BY <1>8, <2>1 DEF HandleQueueResume, Launches, Valid, WithoutInvalid, Wished
<1>9. CASE HandleQueueClear
  BY <1>9 DEF HandleQueueClear, Wished
<1> QED
  BY <1>1, <1>2, <1>3, <1>4, <1>5, <1>6, <1>7, <1>8, <1>9 DEF Handler

LEMMA HostResumed ==
  ASSUME TypeInv, BeforeInv, ResumedOnceInv, Host
  PROVE  ResumedOnceInv'
<1>0. Commands' = Commands /\ Typed' = Typed /\ MaxCrashes' = MaxCrashes /\ setting \in Settings
  BY SettingKept DEF Next, TypeInv, TypeOK
<1> USE <1>0 DEF TypeInv, TypeOK, PlaceInv, Goto, Live, Queued, Working, Leaving, host, local, request, history, BeforeInv, ResumedOnceInv, ResumedOnce
<1>1. CASE Signal
  BY <1>1 DEF Signal, CancelCurrent, Armed
<1>2. CASE SignalMark
  BY <1>2 DEF SignalMark, RunningInstances, Registered
<1>3. CASE Restart
  BY <1>3 DEF Restart
<1>4. CASE Die
  BY <1>4 DEF Die, ProcessEnds
<1>5. CASE Crash
  BY <1>5 DEF Crash, ProcessEnds
<1>6. CASE Boot
  BY <1>6 DEF Boot, WithoutInvalid
<1>7. CASE AutoResume
  <2> DEFINE S == {i \in Id : Valid(i) /\ ~ file[i].paused}
  <2>1. CASE ResumeGate
    <3>1. PICK new, queueOf : Launches(S, new, queueOf)
      BY <1>7, <2>1, LaunchFacts DEF AutoResume, TypeInv, TypeOK
    <3> QED
      BY <1>7, <3>1 DEF AutoResume, Launches, Valid, WithoutInvalid
  <2>2. CASE ~ ResumeGate
    BY <1>7, <2>2 DEF AutoResume
  <2> QED
    BY <2>1, <2>2
<1> QED
  BY <1>1, <1>2, <1>3, <1>4, <1>5, <1>6, <1>7 DEF Host

LEMMA RunStepOneProcess ==
  ASSUME TypeInv, BeforeInv, OneProcessInv, NEW r \in Run, RunStep(r) \/ Panics(r)
  PROVE  OneProcessInv'
<1>0. Commands' = Commands /\ Typed' = Typed /\ MaxCrashes' = MaxCrashes /\ setting \in Settings
  BY SettingKept DEF Next, TypeInv, TypeOK
<1> USE <1>0 DEF TypeInv, TypeOK, PlaceInv, Goto, Live, Queued, Working, Leaving, host, local, request, history, OneProcessInv, OneProcess, Claims
<1>1. CASE Register(r)
  BY <1>1 DEF Register
<1>2. CASE PersistPending(r)
  BY <1>2 DEF PersistPending, SaveQueueState
<1>3. CASE CheckStopped(r)
  BY <1>3 DEF CheckStopped
<1>4. CASE CheckSlot(r)
  BY <1>4 DEF CheckSlot, MapUnlocked
<1>5. CASE Refuse(r)
  BY <1>5 DEF Refuse
<1>6. CASE Grant(r)
  BY <1>6 DEF Grant
<1>7. CASE Wake(r)
  BY <1>7 DEF Wake
<1>8. CASE ShutdownWhileParked(r)
  BY <1>8 DEF ShutdownWhileParked
<1>9. CASE Start(r)
  BY <1>9 DEF Start, SaveQueueState
<1>10. CASE ClearOld(r)
  BY <1>10 DEF ClearOld
<1>11. CASE NextTarget(r)
  BY <1>11 DEF NextTarget
<1>12. CASE SaveTarget(r)
  BY <1>12 DEF SaveTarget, SaveQueueState
<1>13. CASE Arm(r)
  BY <1>13 DEF Arm
<1>14. CASE BeginSession(r)
  BY <1>14 DEF BeginSession, SaveQueueState
<1>15. CASE SessionEnds(r)
  BY <1>15 DEF SessionEnds
<1>16. CASE SessionAborted(r)
  BY <1>16 DEF SessionAborted
<1>17. CASE AfterTarget(r)
  BY <1>17 DEF AfterTarget
<1>18. CASE Advance(r)
  BY <1>18 DEF Advance, SaveQueueState
<1>19. CASE Exit(r)
  BY <1>19 DEF Exit, Preserved
<1>20. CASE LoadPaused(r)
  BY <1>20 DEF LoadPaused
<1>21. CASE MarkQueueStatePaused(r)
  BY <1>21 DEF MarkQueueStatePaused
<1>22. CASE CheckStillRunning(r)
  BY <1>22 DEF CheckStillRunning
<1>23. CASE UnsetRunning(r)
  BY <1>23 DEF UnsetRunning
<1>24. CASE WakeWaiter(r)
  BY <1>24 DEF WakeWaiter
<1>25. CASE ReplacePaused(r)
  <2>1. /\ \A i \in Id : instances'[i] \in {None, instances[i]}
        /\ \A q \in Run : pc'[q] = IF q = r THEN "launched" ELSE pc[q]
        /\ UNCHANGED <<host, id, from, status>>
    BY <1>25 DEF ReplacePaused
  <2>2. \A q \in Run : Claims(q)' => Claims(q)
    BY <2>1
  <2>3. ASSUME OneProcess, NEW q \in Run, pc'[q] = "accepted", NEW p \in Run, id[p] = from[q]
        PROVE  pc'[p] # "launched"
    <3>1. pc[q] = "accepted"
      BY <2>1, <2>3
    <3>2. pc[p] \notin {"accepted", "launched"}
      BY <2>3, <3>1
    <3> QED
      BY <1>25, <2>1, <3>2 DEF ReplacePaused
  <2> QED
    BY <2>1, <2>2, <2>3
<1>26. CASE Panic(r)
  BY <1>26 DEF Panic
<1>27. CASE SessionPanics(r)
  BY <1>27 DEF SessionPanics
<1> QED
  BY <1>1, <1>2, <1>3, <1>4, <1>5, <1>6, <1>7, <1>8, <1>9, <1>10, <1>11, <1>12, <1>13, <1>14, <1>15, <1>16, <1>17, <1>18, <1>19, <1>20, <1>21, <1>22, <1>23, <1>24, <1>25, <1>26, <1>27 DEF RunStep, Panics

LEMMA HandlerOneProcess ==
  ASSUME TypeInv, BeforeInv, OneProcessInv, Handler
  PROVE  OneProcessInv'
<1>0. Commands' = Commands /\ Typed' = Typed /\ MaxCrashes' = MaxCrashes /\ setting \in Settings
  BY SettingKept DEF Next, TypeInv, TypeOK
<1> USE <1>0 DEF TypeInv, TypeOK, PlaceInv, Goto, Live, Queued, Working, Leaving, host, local, request, history, OneProcessInv, OneProcess, Claims
<1>1. ASSUME NEW i \in NewIds, NEW r \in NewRuns(1), HandleScan(r, i) PROVE OneProcessInv'
  <2>1. i \in Id /\ Fresh(i) /\ r \in Run /\ pc[r] = "idle"
    BY NewRunsAreIdle, NewIdsAreFresh DEF TypeInv, TypeOK
  <2>2. /\ \A q \in Run : id'[q] = (IF q = r THEN i ELSE id[q]) /\ id[q] # i
        /\ \A q \in Run : pc'[q] = (IF q = r THEN "launched" ELSE pc[q])
        /\ \A q \in Run \ {r} : from'[q] = from[q]
        /\ UNCHANGED <<host, instances, status>>
    BY <1>1, <2>1 DEF HandleScan, Launch, Fresh
  <2>3. \A q \in Run : Claims(q)' = Claims(q)
    BY <2>1, <2>2
  <2>4. ASSUME OneProcess, NEW q \in Run, pc'[q] = "accepted"
        PROVE  /\ pc[q] = "accepted" /\ from'[q] = from[q] /\ from[q] \in Id
               /\ \A p \in Run : id'[p] = from[q] => pc'[p] \notin {"accepted", "launched"}
               /\ \E p \in Run : id'[p] = from[q]
    <3>1. pc[q] = "accepted" /\ q # r /\ from[q] \in Id
      BY <2>2, <2>4
    <3>2. PICK p \in Run : id[p] = from[q]
      BY <2>4, <3>1
    <3>3. id'[p] = from[q] /\ from[q] # i
      BY <2>1, <2>2, <3>1, <3>2, ScanQueueAssumption
    <3> QED
      BY <2>2, <2>4, <3>1, <3>3
  <2> QED
    BY <2>2, <2>3, <2>4
<1>2. ASSUME NEW i \in Id, StopInstance(i) PROVE OneProcessInv'
  BY <1>2 DEF StopInstance, MarkStopped, Wished, Armed, Active
<1>3. ASSUME NEW i \in Id, DeleteScan(i) PROVE OneProcessInv'
  BY <1>3 DEF DeleteScan, MarkStopped, Wished, Armed, Active
<1>4. CASE StopAll
  BY <1>4 DEF StopAll, CancelCurrent, Armed
<1>5. CASE StopAllMark
  BY <1>5 DEF StopAllMark, MarkStopped, Wished, Armed, Active, Registered
<1>6. ASSUME NEW i \in Id, PauseInstance(i) PROVE OneProcessInv'
  BY <1>6 DEF PauseInstance, Armed
<1>7. ASSUME NEW i \in Id, NEW j \in NewIds, NEW r \in NewRuns(1), ResumeInstance(i, r, j)
      PROVE  OneProcessInv'
  <2>1. j \in Id /\ Fresh(j) /\ r \in Run /\ pc[r] = "idle"
    BY NewRunsAreIdle, NewIdsAreFresh DEF TypeInv, TypeOK
  <2>2. /\ \A q \in Run : id'[q] = (IF q = r THEN j ELSE id[q]) /\ id[q] # j
        /\ \A q \in Run : pc'[q] = (IF q = r THEN "accepted" ELSE pc[q])
        /\ \A q \in Run : from'[q] = (IF q = r THEN i ELSE from[q])
        /\ UNCHANGED <<host, instances, status>>
    BY <1>7, <2>1 DEF ResumeInstance, Launch, Fresh
  <2>3. \A q \in Run : Claims(q)' = Claims(q)
    BY <2>1, <2>2
  <2>4. instances[i] \in Run /\ id[instances[i]] = i /\ ~ Claims(instances[i])
        /\ pc[instances[i]] \notin {"accepted", "launched"}
    <3>1. status[instances[i]] = "paused" /\ instances[i] # None
      BY <1>7 DEF ResumeInstance
    <3> QED
      BY <3>1 DEF BeforeInv
  <2>5. ASSUME OneProcess, NEW q \in Run \ {r}, pc'[q] = "accepted"
        PROVE  /\ pc[q] = "accepted" /\ from'[q] = from[q] /\ from[q] \in Id
               /\ \A p \in Run : id'[p] = from[q] => pc'[p] \notin {"accepted", "launched"}
               /\ \E p \in Run : id'[p] = from[q]
    <3>1. pc[q] = "accepted" /\ from[q] \in Id
      BY <2>2, <2>5
    <3>2. PICK p \in Run : id[p] = from[q]
      BY <2>5, <3>1
    <3>3. id'[p] = from[q] /\ from[q] # j
      BY <2>1, <2>2, <3>1, <3>2, ScanQueueAssumption
    <3> QED
      BY <2>2, <2>5, <3>1, <3>3
  <2>6. ASSUME OneProcess
        PROVE  \A p \in Run : id'[p] = i => pc'[p] \notin {"accepted", "launched"}
    BY <2>1, <2>2, <2>4, <2>6, ScanQueueAssumption
  <2>7. \E p \in Run : id'[p] = i
    BY <2>1, <2>2, <2>4, ScanQueueAssumption
  <2> QED
    BY <2>2, <2>3, <2>4, <2>5, <2>6, <2>7, SMTT(30)
<1>8. CASE HandleQueueResume
  <2>1. PICK new, queueOf : Launches({i \in Id : Valid(i)}, new, queueOf)
    BY <1>8, LaunchFacts DEF HandleQueueResume, TypeInv, TypeOK
  <2> QED
    BY <1>8, <2>1 DEF HandleQueueResume, Launches, Valid, WithoutInvalid, Wished
<1>9. CASE HandleQueueClear
  BY <1>9 DEF HandleQueueClear, Wished
<1> QED
  BY <1>1, <1>2, <1>3, <1>4, <1>5, <1>6, <1>7, <1>8, <1>9 DEF Handler

LEMMA HostOneProcess ==
  ASSUME TypeInv, BeforeInv, OneProcessInv, Host
  PROVE  OneProcessInv'
<1>0. Commands' = Commands /\ Typed' = Typed /\ MaxCrashes' = MaxCrashes /\ setting \in Settings
  BY SettingKept DEF Next, TypeInv, TypeOK
<1> USE <1>0 DEF TypeInv, TypeOK, PlaceInv, Goto, Live, Queued, Working, Leaving, host, local, request, history, OneProcessInv, OneProcess, Claims
<1>1. CASE Signal
  BY <1>1 DEF Signal, CancelCurrent, Armed
<1>2. CASE SignalMark
  BY <1>2 DEF SignalMark, RunningInstances, Registered
<1>3. CASE Restart
  BY <1>3 DEF Restart
<1>4. CASE Die
  BY <1>4 DEF Die, ProcessEnds
<1>5. CASE Crash
  BY <1>5 DEF Crash, ProcessEnds
<1>6. CASE Boot
  BY <1>6 DEF Boot, WithoutInvalid
<1>7. CASE AutoResume
  <2> DEFINE S == {i \in Id : Valid(i) /\ ~ file[i].paused}
  <2>1. CASE ResumeGate
    <3>1. PICK new, queueOf : Launches(S, new, queueOf)
      BY <1>7, <2>1, LaunchFacts DEF AutoResume, TypeInv, TypeOK
    <3> QED
      BY <1>7, <3>1 DEF AutoResume, Launches, Valid, WithoutInvalid
  <2>2. CASE ~ ResumeGate
    BY <1>7, <2>2 DEF AutoResume
  <2> QED
    BY <2>1, <2>2
<1> QED
  BY <1>1, <1>2, <1>3, <1>4, <1>5, <1>6, <1>7 DEF Host

\* The gate of the two resumes lets no queue through that a live run works on.
LEMMA GateIsTight ==
  ASSUME TypeInv, BeforeInv, OwnerInv, RunsToTheEndInv, RunsToTheEnd, MapUnlocked, ResumeGate
  PROVE  \A r \in Run : pc[r] \in Live => ~ Valid(id[r])
<1> SUFFICES ASSUME NEW r \in Run, pc[r] \in Live PROVE ~ Valid(id[r])
  OBVIOUS
<1>1. from[r] = None
  BY DEF RunsToTheEndInv, ResumeGate
<1>2. status[r] \notin {"pending", "running"}
  <2>1. id[r] \in Id
    BY DEF TypeInv, PlaceInv, Live, Queued, Working, Leaving
  <2> QED
    BY <2>1 DEF OwnerInv, Exclusive, Claims, ResumeGate, Registered
<1>3. pc[r] \in {"launched", "mark", "check", "unset", "wake"}
  BY <1>2 DEF RunsToTheEndInv, Live, Queued, Working, Leaving
<1> QED
  BY <1>1, <1>3 DEF RunsToTheEndInv, Valid

LEMMA RunStepToTheEnd ==
  ASSUME TypeInv, BeforeInv, OwnerInv, RunsToTheEndInv, NEW r \in Run, RunStep(r) \/ Panics(r)
  PROVE  RunsToTheEndInv'
<1>0. Commands' = Commands /\ Typed' = Typed /\ MaxCrashes' = MaxCrashes /\ setting \in Settings
  BY SettingKept DEF Next, TypeInv, TypeOK
<1> USE <1>0 DEF TypeInv, TypeOK, PlaceInv, Goto, Live, Queued, Working, Leaving, host, local, request, history, RunsToTheEndInv, RunsToTheEnd
<1>1. CASE Register(r)
  BY <1>1 DEF Register
<1>2. CASE PersistPending(r)
  BY <1>2 DEF PersistPending, SaveQueueState
<1>3. CASE CheckStopped(r)
  BY <1>3 DEF CheckStopped
<1>4. CASE CheckSlot(r)
  BY <1>4 DEF CheckSlot, MapUnlocked
<1>5. CASE Refuse(r)
  BY <1>5 DEF Refuse
<1>6. CASE Grant(r)
  BY <1>6 DEF Grant
<1>7. CASE Wake(r)
  BY <1>7 DEF Wake
<1>8. CASE ShutdownWhileParked(r)
  BY <1>8 DEF ShutdownWhileParked
<1>9. CASE Start(r)
  BY <1>9 DEF Start, SaveQueueState
<1>10. CASE ClearOld(r)
  BY <1>10 DEF ClearOld
<1>11. CASE NextTarget(r)
  BY <1>11 DEF NextTarget
<1>12. CASE SaveTarget(r)
  BY <1>12 DEF SaveTarget, SaveQueueState
<1>13. CASE Arm(r)
  BY <1>13 DEF Arm
<1>14. CASE BeginSession(r)
  BY <1>14 DEF BeginSession, SaveQueueState
<1>15. CASE SessionEnds(r)
  BY <1>15 DEF SessionEnds
<1>16. CASE SessionAborted(r)
  BY <1>16 DEF SessionAborted
<1>17. CASE AfterTarget(r)
  BY <1>17 DEF AfterTarget
<1>18. CASE Advance(r)
  BY <1>18 DEF Advance, SaveQueueState
<1>19. CASE Exit(r)
  BY <1>19 DEF Exit, Preserved
<1>20. CASE LoadPaused(r)
  BY <1>20 DEF LoadPaused
<1>21. CASE MarkQueueStatePaused(r)
  BY <1>21 DEF MarkQueueStatePaused
<1>22. CASE CheckStillRunning(r)
  BY <1>22 DEF CheckStillRunning
<1>23. CASE UnsetRunning(r)
  BY <1>23 DEF UnsetRunning
<1>24. CASE WakeWaiter(r)
  BY <1>24 DEF WakeWaiter
<1>25. CASE ReplacePaused(r)
  BY <1>25 DEF ReplacePaused
<1>26. CASE Panic(r)
  BY <1>26 DEF Panic
<1>27. CASE SessionPanics(r)
  BY <1>27 DEF SessionPanics
<1> QED
  BY <1>1, <1>2, <1>3, <1>4, <1>5, <1>6, <1>7, <1>8, <1>9, <1>10, <1>11, <1>12, <1>13, <1>14, <1>15, <1>16, <1>17, <1>18, <1>19, <1>20, <1>21, <1>22, <1>23, <1>24, <1>25, <1>26, <1>27 DEF RunStep, Panics

LEMMA HandlerToTheEnd ==
  ASSUME TypeInv, BeforeInv, OwnerInv, RunsToTheEndInv, Handler
  PROVE  RunsToTheEndInv'
<1>0. Commands' = Commands /\ Typed' = Typed /\ MaxCrashes' = MaxCrashes /\ setting \in Settings
  BY SettingKept DEF Next, TypeInv, TypeOK
<1> USE <1>0 DEF TypeInv, TypeOK, PlaceInv, Goto, Live, Queued, Working, Leaving, host, local, request, history, RunsToTheEndInv, RunsToTheEnd
<1>1. ASSUME NEW i \in NewIds, NEW r \in NewRuns(1), HandleScan(r, i) PROVE RunsToTheEndInv'
  <2>1. i \in Id /\ Fresh(i) /\ r \in Run /\ pc[r] = "idle"
    BY NewRunsAreIdle, NewIdsAreFresh DEF TypeInv, TypeOK
  <2> QED
    BY <1>1, <2>1 DEF HandleScan, Launch, Fresh
<1>2. ASSUME NEW i \in Id, StopInstance(i) PROVE RunsToTheEndInv'
  BY <1>2 DEF StopInstance, MarkStopped, Wished, Armed, Active
<1>3. ASSUME NEW i \in Id, DeleteScan(i) PROVE RunsToTheEndInv'
  BY <1>3 DEF DeleteScan, MarkStopped, Wished, Armed, Active
<1>4. CASE StopAll
  BY <1>4 DEF StopAll, CancelCurrent, Armed
<1>5. CASE StopAllMark
  BY <1>5 DEF StopAllMark, MarkStopped, Wished, Armed, Active, Registered
<1>6. ASSUME NEW i \in Id, PauseInstance(i) PROVE RunsToTheEndInv'
  BY <1>6 DEF PauseInstance, Armed
<1>7. ASSUME NEW i \in Id, NEW j \in NewIds, NEW r \in NewRuns(1), ResumeInstance(i, r, j)
      PROVE  RunsToTheEndInv'
  <2>1. j \in Id /\ Fresh(j) /\ r \in Run /\ pc[r] = "idle"
    BY NewRunsAreIdle, NewIdsAreFresh DEF TypeInv, TypeOK
  <2> QED
    BY <1>7, <2>1 DEF ResumeInstance, Launch, Valid, Fresh
<1>8. CASE HandleQueueResume
  <2>1. PICK new, queueOf : Launches({i \in Id : Valid(i)}, new, queueOf)
    BY <1>8, LaunchFacts DEF HandleQueueResume, TypeInv, TypeOK
  <2>2. RunsToTheEnd => \A r \in Run : pc[r] \in Live => ~ Valid(id[r])
    BY <1>8, GateIsTight DEF HandleQueueResume
  <2>3. \A q \in Run :
         \/ q \in new /\ pc'[q] = "launched" /\ id'[q] = queueOf[q] /\ from'[q] = queueOf[q]
            /\ Valid(queueOf[q]) /\ queueOf[q] \in launching'
         \/ q \notin new /\ pc'[q] = pc[q] /\ id'[q] = id[q] /\ from'[q] = from[q]
    BY <2>1 DEF Launches
  <2>4. \A q \in new, p \in new : queueOf[q] = queueOf[p] => q = p
    BY <2>1 DEF Launches
  <2>5. \A i \in Id : file[i] = None => file'[i] = None
    BY <2>1 DEF Launches, WithoutInvalid, Valid
  <2>6. UNCHANGED <<status, reason>> /\ launching \subseteq launching'
        /\ (server' = server \/ server' = "up")
    BY <1>8, <2>1 DEF HandleQueueResume, Launches
  <2>7. RunsToTheEnd =>
          \A q, p \in Run : pc'[q] \in Live /\ pc'[p] \in Live /\ id'[q] = id'[p] => q = p
    BY <2>2, <2>3, <2>4
  <2>8. ASSUME RunsToTheEnd, NEW q \in Run, pc'[q] \in Live
      PROVE  /\ from'[q] # None => id'[q] \in launching'
             /\ pc'[q] \notin {"accepted", "leave", "panicked", "markWrite"}
             /\ pc'[q] \in {"launched", "mark", "check", "unset", "wake"} /\ from'[q] = None
                  => file'[id'[q]] = None
    <3>1. CASE q \in new
      BY <2>1, <2>3, <2>6, <2>8, <3>1, ScanQueueAssumption DEF Launches
    <3>2. CASE q \notin new
      BY <2>3, <2>5, <2>6, <2>8, <3>2
    <3> QED
      BY <3>1, <3>2
  <2>9. ASSUME RunsToTheEnd, NEW q \in Run, pc'[q] \in Live \ {"launched"}
      PROVE  pc[q] = pc'[q]
    BY <2>3, <2>9
  <2> QED
    BY <2>6, <2>7, <2>8, <2>9
<1>9. CASE HandleQueueClear
  BY <1>9 DEF HandleQueueClear, Wished
<1> QED
  BY <1>1, <1>2, <1>3, <1>4, <1>5, <1>6, <1>7, <1>8, <1>9 DEF Handler

LEMMA HostToTheEnd ==
  ASSUME TypeInv, BeforeInv, OwnerInv, RunsToTheEndInv, Host
  PROVE  RunsToTheEndInv'
<1>0. Commands' = Commands /\ Typed' = Typed /\ MaxCrashes' = MaxCrashes /\ setting \in Settings
  BY SettingKept DEF Next, TypeInv, TypeOK
<1> USE <1>0 DEF TypeInv, TypeOK, PlaceInv, Goto, Live, Queued, Working, Leaving, host, local, request, history, RunsToTheEndInv, RunsToTheEnd
<1>1. CASE Signal
  BY <1>1 DEF Signal, CancelCurrent, Armed
<1>2. CASE SignalMark
  BY <1>2 DEF SignalMark, RunningInstances, Registered
<1>3. CASE Restart
  BY <1>3 DEF Restart
<1>4. CASE Die
  BY <1>4 DEF Die, ProcessEnds
<1>5. CASE Crash
  BY <1>5 DEF Crash, ProcessEnds
<1>6. CASE Boot
  BY <1>6 DEF Boot, WithoutInvalid
<1>7. CASE AutoResume
  <2> DEFINE S == {i \in Id : Valid(i) /\ ~ file[i].paused}
  <2>1. CASE ResumeGate
    <3>1. PICK new, queueOf : Launches(S, new, queueOf)
      BY <1>7, <2>1, LaunchFacts DEF AutoResume, TypeInv, TypeOK
    <3>2. RunsToTheEnd => \A r \in Run : pc[r] \in Live => ~ Valid(id[r])
      BY <1>7, <2>1, GateIsTight DEF AutoResume
    <3>3. \A q \in Run :
           \/ q \in new /\ pc'[q] = "launched" /\ id'[q] = queueOf[q] /\ from'[q] = queueOf[q]
              /\ Valid(queueOf[q]) /\ queueOf[q] \in launching'
           \/ q \notin new /\ pc'[q] = pc[q] /\ id'[q] = id[q] /\ from'[q] = from[q]
      BY <3>1 DEF Launches
    <3>4. \A q \in new, p \in new : queueOf[q] = queueOf[p] => q = p
      BY <3>1 DEF Launches
    <3>5. \A i \in Id : file[i] = None => file'[i] = None
      BY <3>1 DEF Launches, WithoutInvalid, Valid
    <3>6. UNCHANGED <<status, reason>> /\ launching \subseteq launching'
          /\ (server' = server \/ server' = "up")
      BY <1>7, <3>1 DEF AutoResume, Launches
    <3>7. RunsToTheEnd =>
            \A q, p \in Run : pc'[q] \in Live /\ pc'[p] \in Live /\ id'[q] = id'[p] => q = p
      BY <3>2, <3>3, <3>4
    <3>8. ASSUME RunsToTheEnd, NEW q \in Run, pc'[q] \in Live
        PROVE  /\ from'[q] # None => id'[q] \in launching'
               /\ pc'[q] \notin {"accepted", "leave", "panicked", "markWrite"}
               /\ pc'[q] \in {"launched", "mark", "check", "unset", "wake"} /\ from'[q] = None
                    => file'[id'[q]] = None
      <4>1. CASE q \in new
        BY <3>1, <3>3, <3>6, <3>8, <4>1, ScanQueueAssumption DEF Launches
      <4>2. CASE q \notin new
        BY <3>3, <3>5, <3>6, <3>8, <4>2
      <4> QED
        BY <4>1, <4>2
    <3>9. ASSUME RunsToTheEnd, NEW q \in Run, pc'[q] \in Live \ {"launched"}
        PROVE  pc[q] = pc'[q]
      BY <3>3, <3>9
    <3> QED
      BY <3>6, <3>7, <3>8, <3>9
  <2>2. CASE ~ ResumeGate
    BY <1>7, <2>2 DEF AutoResume
  <2> QED
    BY <2>1, <2>2
<1> QED
  BY <1>1, <1>2, <1>3, <1>4, <1>5, <1>6, <1>7 DEF Host

LEMMA RunStepBefore ==
  ASSUME TypeInv, BeforeInv, NEW r \in Run, RunStep(r) \/ Panics(r)
  PROVE  BeforeInv'
<1> USE DEF TypeInv, TypeOK, PlaceInv, Goto, Live, Queued, Working, Leaving, host, local, request, history, BeforeInv
<1>1. CASE Register(r)
  BY <1>1 DEF Register
<1>2. CASE PersistPending(r)
  BY <1>2 DEF PersistPending, SaveQueueState
<1>3. CASE CheckStopped(r)
  BY <1>3 DEF CheckStopped
<1>4. CASE CheckSlot(r)
  BY <1>4 DEF CheckSlot, MapUnlocked
<1>5. CASE Refuse(r)
  BY <1>5 DEF Refuse
<1>6. CASE Grant(r)
  BY <1>6 DEF Grant
<1>7. CASE Wake(r)
  BY <1>7 DEF Wake
<1>8. CASE ShutdownWhileParked(r)
  BY <1>8 DEF ShutdownWhileParked
<1>9. CASE Start(r)
  BY <1>9 DEF Start, SaveQueueState
<1>10. CASE ClearOld(r)
  BY <1>10 DEF ClearOld
<1>11. CASE NextTarget(r)
  BY <1>11 DEF NextTarget
<1>12. CASE SaveTarget(r)
  BY <1>12 DEF SaveTarget, SaveQueueState
<1>13. CASE Arm(r)
  BY <1>13 DEF Arm
<1>14. CASE BeginSession(r)
  BY <1>14 DEF BeginSession, SaveQueueState
<1>15. CASE SessionEnds(r)
  BY <1>15 DEF SessionEnds
<1>16. CASE SessionAborted(r)
  BY <1>16 DEF SessionAborted
<1>17. CASE AfterTarget(r)
  BY <1>17 DEF AfterTarget
<1>18. CASE Advance(r)
  BY <1>18 DEF Advance, SaveQueueState
<1>19. CASE Exit(r)
  BY <1>19 DEF Exit, Preserved
<1>20. CASE LoadPaused(r)
  BY <1>20 DEF LoadPaused
<1>21. CASE MarkQueueStatePaused(r)
  BY <1>21 DEF MarkQueueStatePaused
<1>22. CASE CheckStillRunning(r)
  BY <1>22 DEF CheckStillRunning
<1>23. CASE UnsetRunning(r)
  BY <1>23 DEF UnsetRunning
<1>24. CASE WakeWaiter(r)
  BY <1>24 DEF WakeWaiter
<1>25. CASE ReplacePaused(r)
  BY <1>25 DEF ReplacePaused
<1>26. CASE Panic(r)
  BY <1>26 DEF Panic
<1>27. CASE SessionPanics(r)
  BY <1>27 DEF SessionPanics
<1> QED
  BY <1>1, <1>2, <1>3, <1>4, <1>5, <1>6, <1>7, <1>8, <1>9, <1>10, <1>11, <1>12, <1>13, <1>14, <1>15, <1>16, <1>17, <1>18, <1>19, <1>20, <1>21, <1>22, <1>23, <1>24, <1>25, <1>26, <1>27 DEF RunStep, Panics

LEMMA HandlerBefore ==
  ASSUME TypeInv, BeforeInv, Handler
  PROVE  BeforeInv'
<1> USE DEF TypeInv, TypeOK, PlaceInv, Goto, Live, Queued, Working, Leaving, host, local, request, history, BeforeInv
<1>1. ASSUME NEW i \in NewIds, NEW r \in NewRuns(1), HandleScan(r, i) PROVE BeforeInv'
  <2>1. i \in Id /\ Fresh(i) /\ r \in Run /\ pc[r] = "idle"
    BY NewRunsAreIdle, NewIdsAreFresh DEF TypeInv, TypeOK
  <2> QED
    BY <1>1, <2>1 DEF HandleScan, Launch, Serving
<1>2. ASSUME NEW i \in Id, StopInstance(i) PROVE BeforeInv'
  BY <1>2 DEF StopInstance, MarkStopped, Wished, Armed, Active
<1>3. ASSUME NEW i \in Id, DeleteScan(i) PROVE BeforeInv'
  BY <1>3 DEF DeleteScan, MarkStopped, Wished, Armed, Active
<1>4. CASE StopAll
  BY <1>4 DEF StopAll, CancelCurrent, Armed
<1>5. CASE StopAllMark
  BY <1>5 DEF StopAllMark, MarkStopped, Wished, Armed, Active, Registered
<1>6. ASSUME NEW i \in Id, PauseInstance(i) PROVE BeforeInv'
  BY <1>6 DEF PauseInstance, Armed
<1>7. ASSUME NEW i \in Id, NEW j \in NewIds, NEW r \in NewRuns(1), ResumeInstance(i, r, j)
      PROVE  BeforeInv'
  <2>1. j \in Id /\ Fresh(j) /\ r \in Run /\ pc[r] = "idle"
    BY NewRunsAreIdle, NewIdsAreFresh DEF TypeInv, TypeOK
  <2> QED
    BY <1>7, <2>1 DEF ResumeInstance, Launch, Serving
<1>8. CASE HandleQueueResume
  <2>1. PICK new, queueOf : Launches({i \in Id : Valid(i)}, new, queueOf)
    BY <1>8, LaunchFacts DEF HandleQueueResume, TypeInv, TypeOK
  <2> QED
    BY <1>8, <2>1 DEF HandleQueueResume, Launches, Serving
<1>9. CASE HandleQueueClear
  BY <1>9 DEF HandleQueueClear, Wished
<1> QED
  BY <1>1, <1>2, <1>3, <1>4, <1>5, <1>6, <1>7, <1>8, <1>9 DEF Handler

LEMMA HostBefore ==
  ASSUME TypeInv, BeforeInv, Host
  PROVE  BeforeInv'
<1> USE DEF TypeInv, TypeOK, PlaceInv, Goto, Live, Queued, Working, Leaving, host, local, request, history, BeforeInv
<1>1. CASE Signal
  BY <1>1 DEF Signal, CancelCurrent, Armed
<1>2. CASE SignalMark
  BY <1>2 DEF SignalMark, RunningInstances, Registered
<1>3. CASE Restart
  BY <1>3 DEF Restart
<1>4. CASE Die
  BY <1>4 DEF Die, ProcessEnds
<1>5. CASE Crash
  BY <1>5 DEF Crash, ProcessEnds
<1>6. CASE Boot
  BY <1>6 DEF Boot, WithoutInvalid
<1>7. CASE AutoResume
  <2> DEFINE S == {i \in Id : Valid(i) /\ ~ file[i].paused}
  <2>1. CASE ResumeGate
    <3>1. PICK new, queueOf : Launches(S, new, queueOf)
      BY <1>7, <2>1, LaunchFacts DEF AutoResume, TypeInv, TypeOK
    <3> QED
      BY <1>7, <3>1 DEF AutoResume, Launches, Valid, WithoutInvalid
  <2>2. CASE ~ ResumeGate
    BY <1>7, <2>2 DEF AutoResume
  <2> QED
    BY <2>1, <2>2
<1> QED
  BY <1>1, <1>2, <1>3, <1>4, <1>5, <1>6, <1>7 DEF Host

LEMMA RunStepOwner ==
  ASSUME TypeInv, BeforeInv, OwnerInv, ResumedOnceInv, OneProcessInv, RunsToTheEndInv, NEW r \in Run, RunStep(r) \/ Panics(r)
  PROVE  OwnerInv'
<1>0. /\ Commands' = Commands /\ Typed' = Typed /\ MaxCrashes' = MaxCrashes /\ setting \in Settings
      /\ Exclusive' = Exclusive
  BY SettingKept DEF Next, TypeInv, TypeOK, Exclusive, ResumedOnce, OneProcess, RunsToTheEnd
<1> USE <1>0 DEF TypeInv, TypeOK, PlaceInv, Goto, Live, Queued, Working, Leaving, host, local, request, history, OwnerInv, Claims
<1>1. CASE Register(r)
  <2>1. /\ \A i \in Id : instances'[i] = (IF i = id[r] THEN r ELSE instances[i])
        /\ \A q \in Run \ {r} : status'[q] = status[q] /\ pc'[q] = pc[q]
        /\ pc[r] = "launched" /\ pc'[r] = "registered" /\ id' = id
    BY <1>1 DEF Register
  <2>2. ASSUME Exclusive, NEW q \in Run \ {r}, Claims(q)
        PROVE  id[q] \in Id \ {id[r]} /\ instances[id[q]] = q
    BY <2>1, <2>2, ScanQueueAssumption
  <2>3. ASSUME Exclusive, NEW q \in Run \ {r}, pc[q] = "launched"
        PROVE  id[q] \in Id \ {id[r]}
    BY <2>1, <2>3
  <2>4. \A q \in Run \ {r} : Claims(q)' = Claims(q)
    BY <2>1
  <2>5. Exclusive => \A q \in Run : Claims(q)' => instances'[id[q]] = q
    BY <2>1, <2>2, <2>4
  <2>6. Exclusive => \A q \in Run : pc'[q] = "launched" /\ instances'[id[q]] # None
                                      => ~ Claims(instances[id[q]]) /\ instances'[id[q]] = instances[id[q]]
                                         /\ instances[id[q]] # r
    BY <2>1, <2>3
  <2> QED
    BY <2>1, <2>4, <2>5, <2>6, SMTT(30)
<1>2. CASE PersistPending(r)
  BY <1>2 DEF PersistPending, SaveQueueState
<1>3. CASE CheckStopped(r)
  BY <1>3 DEF CheckStopped
<1>4. CASE CheckSlot(r)
  BY <1>4 DEF CheckSlot, MapUnlocked
<1>5. CASE Refuse(r)
  BY <1>5 DEF Refuse
<1>6. CASE Grant(r)
  BY <1>6 DEF Grant
<1>7. CASE Wake(r)
  BY <1>7 DEF Wake
<1>8. CASE ShutdownWhileParked(r)
  BY <1>8 DEF ShutdownWhileParked
<1>9. CASE Start(r)
  BY <1>9 DEF Start, SaveQueueState
<1>10. CASE ClearOld(r)
  BY <1>10 DEF ClearOld
<1>11. CASE NextTarget(r)
  BY <1>11 DEF NextTarget
<1>12. CASE SaveTarget(r)
  BY <1>12 DEF SaveTarget, SaveQueueState
<1>13. CASE Arm(r)
  BY <1>13 DEF Arm
<1>14. CASE BeginSession(r)
  BY <1>14 DEF BeginSession, SaveQueueState
<1>15. CASE SessionEnds(r)
  BY <1>15 DEF SessionEnds
<1>16. CASE SessionAborted(r)
  BY <1>16 DEF SessionAborted
<1>17. CASE AfterTarget(r)
  BY <1>17 DEF AfterTarget
<1>18. CASE Advance(r)
  BY <1>18 DEF Advance, SaveQueueState
<1>19. CASE Exit(r)
  BY <1>19 DEF Exit, Preserved
<1>20. CASE LoadPaused(r)
  BY <1>20, SMTT(30) DEF LoadPaused
<1>21. CASE MarkQueueStatePaused(r)
  BY <1>21 DEF MarkQueueStatePaused
<1>22. CASE CheckStillRunning(r)
  BY <1>22 DEF CheckStillRunning
<1>23. CASE UnsetRunning(r)
  BY <1>23 DEF UnsetRunning
<1>24. CASE WakeWaiter(r)
  BY <1>24 DEF WakeWaiter
<1>25. CASE ReplacePaused(r)
  <2>1. /\ \A i \in Id : instances'[i] = (IF i = from[r] THEN None ELSE instances[i])
        /\ \A q \in Run : pc'[q] = (IF q = r THEN "launched" ELSE pc[q])
        /\ pc[r] = "accepted" /\ from[r] \in Id /\ UNCHANGED <<id, status>>
    BY <1>25 DEF ReplacePaused
  <2>2. ASSUME Exclusive
        PROVE  /\ \A q, p \in Run : id[q] = id[p] /\ id[q] # None => q = p
               /\ instances[from[r]] # None => ~ Claims(instances[from[r]])
    BY <2>1, <2>2 DEF Exclusive, ResumedOnceInv, OneProcessInv, RunsToTheEndInv
  <2>3. \A q \in Run : Claims(q)' = Claims(q)
    BY <2>1
  <2>4. Exclusive => instances[id[r]] = None
    BY <2>1, <2>2, ScanQueueAssumption
  <2>5. Exclusive => \A q \in Run : Claims(q) => instances'[id[q]] = q
    BY <2>1, <2>2, ScanQueueAssumption
  <2> QED
    BY <2>1, <2>2, <2>3, <2>4, <2>5, ScanQueueAssumption
<1>26. CASE Panic(r)
  BY <1>26 DEF Panic
<1>27. CASE SessionPanics(r)
  BY <1>27 DEF SessionPanics
<1> QED
  BY <1>1, <1>2, <1>3, <1>4, <1>5, <1>6, <1>7, <1>8, <1>9, <1>10, <1>11, <1>12, <1>13, <1>14, <1>15, <1>16, <1>17, <1>18, <1>19, <1>20, <1>21, <1>22, <1>23, <1>24, <1>25, <1>26, <1>27 DEF RunStep, Panics

LEMMA HandlerOwner ==
  ASSUME TypeInv, BeforeInv, OwnerInv, ResumedOnceInv, OneProcessInv, RunsToTheEndInv, Handler
  PROVE  OwnerInv'
<1>0. /\ Commands' = Commands /\ Typed' = Typed /\ MaxCrashes' = MaxCrashes /\ setting \in Settings
      /\ Exclusive' = Exclusive
  BY SettingKept DEF Next, TypeInv, TypeOK, Exclusive, ResumedOnce, OneProcess, RunsToTheEnd
<1> USE <1>0 DEF TypeInv, TypeOK, PlaceInv, Goto, Live, Queued, Working, Leaving, host, local, request, history, OwnerInv, Claims
<1>1. ASSUME NEW i \in NewIds, NEW r \in NewRuns(1), HandleScan(r, i) PROVE OwnerInv'
  <2>1. i \in Id /\ Fresh(i) /\ r \in Run /\ pc[r] = "idle"
    BY NewRunsAreIdle, NewIdsAreFresh DEF TypeInv, TypeOK
  <2> QED
    BY <1>1, <2>1 DEF HandleScan, Launch, Fresh
<1>2. ASSUME NEW i \in Id, StopInstance(i) PROVE OwnerInv'
  BY <1>2 DEF StopInstance, MarkStopped, Wished, Armed, Active
<1>3. ASSUME NEW i \in Id, DeleteScan(i) PROVE OwnerInv'
  <2>1. /\ \A k \in Id : instances'[k] = (IF k = i THEN None ELSE instances[k])
        /\ pc' = pc /\ id' = id /\ \A q \in Run : pc[q] # "grant"
        /\ \A q \in Run : status'[q] = (IF instances[i] = q /\ Active(q) THEN "stopped" ELSE status[q])
    BY <1>3 DEF DeleteScan, MarkStopped, MapUnlocked
  <2>2. \A q \in Run : Claims(q)' => Claims(q) /\ instances[i] # q
    BY <2>1 DEF Active
  <2> QED
    BY <2>1, <2>2
<1>4. CASE StopAll
  BY <1>4 DEF StopAll, CancelCurrent, Armed
<1>5. CASE StopAllMark
  BY <1>5 DEF StopAllMark, MarkStopped, Wished, Armed, Active, Registered
<1>6. ASSUME NEW i \in Id, PauseInstance(i) PROVE OwnerInv'
  BY <1>6 DEF PauseInstance, Armed
<1>7. ASSUME NEW i \in Id, NEW j \in NewIds, NEW r \in NewRuns(1), ResumeInstance(i, r, j)
      PROVE  OwnerInv'
  <2>1. j \in Id /\ Fresh(j) /\ r \in Run /\ pc[r] = "idle"
    BY NewRunsAreIdle, NewIdsAreFresh DEF TypeInv, TypeOK
  <2> QED
    BY <1>7, <2>1 DEF ResumeInstance, Launch, Valid, Fresh
<1>8. CASE HandleQueueResume
  <2>1. PICK new, queueOf : Launches({i \in Id : Valid(i)}, new, queueOf)
    BY <1>8, LaunchFacts DEF HandleQueueResume, TypeInv, TypeOK
  <2>2. /\ UNCHANGED <<status, instances>> /\ MapUnlocked /\ ResumeGate
        /\ \A q \in Run : pc'[q] = (IF q \in new THEN "launched" ELSE pc[q])
        /\ \A q \in Run : id'[q] = (IF q \in new THEN queueOf[q] ELSE id[q])
        /\ \A q \in new : pc[q] = "idle" /\ queueOf[q] \in Id /\ Valid(queueOf[q])
        /\ \A q, p \in new : queueOf[q] = queueOf[p] => q = p
    BY <1>8, <2>1 DEF HandleQueueResume, Launches
  <2>3. \A q \in Run : Claims(q)' = Claims(q)
    BY <2>2 DEF MapUnlocked
  <2>4. Exclusive => \A q \in Run : ~ Claims(q)
    <3> SUFFICES ASSUME Exclusive, NEW q \in Run, Claims(q) PROVE FALSE
      OBVIOUS
    <3>1. status[q] \in {"pending", "running"} /\ id[q] \in Id
      BY <2>2 DEF MapUnlocked
    <3>2. q \in Registered
      BY <3>1 DEF Registered
    <3> QED
      BY <2>2, <3>1, <3>2 DEF ResumeGate
  <2>5. ASSUME Exclusive, NEW q \in Run, pc[q] = "launched" PROVE ~ Valid(id[q])
    <3>1. ResumedOnce => resumeDue
      BY <1>8, <2>1, <2>2 DEF HandleQueueResume, ResumedOnce
    <3>2. ~ OneProcess
      BY <1>8, <2>1 DEF HandleQueueResume, OneProcess, OneProcessInv
    <3>3. RunsToTheEnd => ~ Valid(id[q])
      BY <2>2, <2>5, GateIsTight
    <3> QED
      BY <2>5, <3>1, <3>2, <3>3 DEF Exclusive, ResumedOnceInv, Valid
  <2> QED
    BY <2>2, <2>3, <2>4, <2>5
<1>9. CASE HandleQueueClear
  BY <1>9 DEF HandleQueueClear, Wished
<1> QED
  BY <1>1, <1>2, <1>3, <1>4, <1>5, <1>6, <1>7, <1>8, <1>9 DEF Handler

LEMMA HostOwner ==
  ASSUME TypeInv, BeforeInv, OwnerInv, ResumedOnceInv, OneProcessInv, RunsToTheEndInv, Host
  PROVE  OwnerInv'
<1>0. /\ Commands' = Commands /\ Typed' = Typed /\ MaxCrashes' = MaxCrashes /\ setting \in Settings
      /\ Exclusive' = Exclusive
  BY SettingKept DEF Next, TypeInv, TypeOK, Exclusive, ResumedOnce, OneProcess, RunsToTheEnd
<1> USE <1>0 DEF TypeInv, TypeOK, PlaceInv, Goto, Live, Queued, Working, Leaving, host, local, request, history, OwnerInv, Claims
<1>1. CASE Signal
  BY <1>1 DEF Signal, CancelCurrent, Armed
<1>2. CASE SignalMark
  BY <1>2 DEF SignalMark, RunningInstances, Registered
<1>3. CASE Restart
  BY <1>3 DEF Restart
<1>4. CASE Die
  BY <1>4 DEF Die, ProcessEnds
<1>5. CASE Crash
  BY <1>5 DEF Crash, ProcessEnds
<1>6. CASE Boot
  BY <1>6 DEF Boot, WithoutInvalid
<1>7. CASE AutoResume
  <2> DEFINE S == {i \in Id : Valid(i) /\ ~ file[i].paused}
  <2>1. CASE ResumeGate
    <3>1. PICK new, queueOf : Launches(S, new, queueOf)
      BY <1>7, <2>1, LaunchFacts DEF AutoResume, TypeInv, TypeOK
    <3>2. /\ UNCHANGED <<status, instances>> /\ MapUnlocked /\ ResumeGate
          /\ \A q \in Run : pc'[q] = (IF q \in new THEN "launched" ELSE pc[q])
          /\ \A q \in Run : id'[q] = (IF q \in new THEN queueOf[q] ELSE id[q])
          /\ \A q \in new : pc[q] = "idle" /\ queueOf[q] \in Id /\ Valid(queueOf[q])
          /\ \A q, p \in new : queueOf[q] = queueOf[p] => q = p
      BY <1>7, <2>1, <3>1 DEF AutoResume, Launches
    <3>3. \A q \in Run : Claims(q)' = Claims(q)
      BY <3>2 DEF MapUnlocked
    <3>4. Exclusive => \A q \in Run : ~ Claims(q)
      <4> SUFFICES ASSUME Exclusive, NEW q \in Run, Claims(q) PROVE FALSE
        OBVIOUS
      <4>1. status[q] \in {"pending", "running"} /\ id[q] \in Id
        BY <3>2 DEF MapUnlocked
      <4>2. q \in Registered
        BY <4>1 DEF Registered
      <4> QED
        BY <3>2, <4>1, <4>2 DEF ResumeGate
    <3>5. ASSUME Exclusive, NEW q \in Run, pc[q] = "launched" PROVE ~ Valid(id[q])
      <4>1. ResumedOnce => resumeDue
        BY <1>7, <2>1, <3>1, <3>2 DEF AutoResume, ResumedOnce
      <4>2. ~ OneProcess
        BY <1>7, <2>1, <3>1 DEF AutoResume, OneProcess, OneProcessInv
      <4>3. RunsToTheEnd => ~ Valid(id[q])
        BY <3>2, <3>5, GateIsTight
      <4> QED
        BY <3>5, <4>1, <4>2, <4>3 DEF Exclusive, ResumedOnceInv, Valid
    <3> QED
      BY <3>2, <3>3, <3>4, <3>5
  <2>2. CASE ~ ResumeGate
    BY <1>7, <2>2 DEF AutoResume
  <2> QED
    BY <2>1, <2>2
<1> QED
  BY <1>1, <1>2, <1>3, <1>4, <1>5, <1>6, <1>7 DEF Host

\* Who owns an ID, in the three kinds of settings in which an ID has one owner at a time.
AllOwnerInv == BeforeInv /\ OwnerInv /\ ResumedOnceInv /\ OneProcessInv /\ RunsToTheEndInv

\* A run that waits for its slot or works is the registered instance of its ID, in every setting
\* in which no queue is resumed under an ID in use (see Exclusive): the gate of auto-resume and of
\* handleQueueResume, the marks in queueResumeLaunching, and the new ID that
\* resumePausedInstance gives.
THEOREM QueueOwners == Spec => []AllOwnerInv
<1>1. Init => AllOwnerInv
  BY InitOwner DEF AllOwnerInv
<1>2. TypeInv /\ AllOwnerInv /\ [Next]_vars => AllOwnerInv'
  <2> SUFFICES ASSUME TypeInv, BeforeInv, OwnerInv, ResumedOnceInv, OneProcessInv,
                      RunsToTheEndInv, [Next]_vars
               PROVE  AllOwnerInv'
    BY DEF AllOwnerInv
  <2>1. CASE Next
    <3>1. BeforeInv'
      BY <2>1, RunStepBefore, HandlerBefore, HostBefore DEF Next
    <3>2. OwnerInv'
      BY <2>1, RunStepOwner, HandlerOwner, HostOwner DEF Next
    <3>3. ResumedOnceInv'
      BY <2>1, RunStepResumed, HandlerResumed, HostResumed DEF Next
    <3>4. OneProcessInv'
      BY <2>1, RunStepOneProcess, HandlerOneProcess, HostOneProcess DEF Next
    <3>5. RunsToTheEndInv'
      BY <2>1, RunStepToTheEnd, HandlerToTheEnd, HostToTheEnd DEF Next
    <3> QED
      BY <3>1, <3>2, <3>3, <3>4, <3>5 DEF AllOwnerInv
  <2>2. CASE UNCHANGED vars
    <3>1. BeforeInv' /\ OwnerInv'
      BY <2>2 DEF vars, BeforeInv, OwnerInv, Exclusive, ResumedOnce, OneProcess, RunsToTheEnd,
                  Claims, Commands, MaxCrashes, Typed
    <3>2. ResumedOnceInv' /\ OneProcessInv' /\ RunsToTheEndInv'
      BY <2>2 DEF vars, ResumedOnceInv, OneProcessInv, RunsToTheEndInv, ResumedOnce, OneProcess,
                  RunsToTheEnd, Claims, Commands, MaxCrashes, Typed
    <3> QED
      BY <3>1, <3>2 DEF AllOwnerInv
  <2> QED
    BY <2>1, <2>2
<1> QED
  BY <1>1, <1>2, QueueTypes, PTL DEF Spec

\* In a setting in which no queue is resumed under an ID in use, no more instances are running
\* than the ceiling, registered or not (see AdmissionCap): the slot check of runMultiScan counts
\* every one of them.
THEOREM QueueAdmissionCap == Spec => [](Exclusive => AdmissionCap)
<1>1. TypeInv /\ CapInv /\ AllOwnerInv => (Exclusive => AdmissionCap)
  <2> SUFFICES ASSUME TypeInv, CapInv, OwnerInv, Exclusive PROVE AdmissionCap
    BY DEF AllOwnerInv
  <2>1. ASSUME NEW r \in Run, status[r] = "running" PROVE r \in Registered
    BY <2>1 DEF OwnerInv, Claims, Registered, TypeInv, TypeOK, PlaceInv
  <2>2. {r \in Run : status[r] = "running"} = RunningInstances
    BY <2>1 DEF RunningInstances, Registered
  <2> QED
    BY <2>2 DEF CapInv, AdmissionCap
<1> QED
  BY <1>1, QueueTypes, QueueRegisteredCap, QueueOwners, PTL

-----------------------------------------------------------------------------
(* A stop is final. *)

Unstoppable == "stop" \notin Commands

\* Without the handler that stops an instance under its own lock, the run whose slot is being
\* granted was not stopped since the check.
GrantInv == Unstoppable => \A r \in Run : pc[r] = "grant" => status[r] # "stopped"

StopKept == Unstoppable => \A r \in Run :
  status[r] = "stopped" /\ server' # "down" => status'[r] \in {"stopped", "failed"}

LEMMA RunStepStop ==
  ASSUME TypeInv, BeforeInv, GrantInv, NEW r \in Run, RunStep(r) \/ Panics(r)
  PROVE  GrantInv' /\ StopKept
<1>0. Commands' = Commands
  BY SettingKept DEF Next
<1> USE <1>0 DEF TypeInv, TypeOK, PlaceInv, BeforeInv, Goto, Live, Queued, Working, Leaving, host, local, request, history, GrantInv, StopKept, Unstoppable
<1>1. CASE Register(r)
  BY <1>1 DEF Register
<1>2. CASE PersistPending(r)
  BY <1>2 DEF PersistPending, SaveQueueState
<1>3. CASE CheckStopped(r)
  BY <1>3 DEF CheckStopped
<1>4. CASE CheckSlot(r)
  BY <1>4 DEF CheckSlot, MapUnlocked
<1>5. CASE Refuse(r)
  BY <1>5 DEF Refuse
<1>6. CASE Grant(r)
  BY <1>6 DEF Grant
<1>7. CASE Wake(r)
  BY <1>7 DEF Wake
<1>8. CASE ShutdownWhileParked(r)
  BY <1>8 DEF ShutdownWhileParked
<1>9. CASE Start(r)
  BY <1>9 DEF Start, SaveQueueState
<1>10. CASE ClearOld(r)
  BY <1>10 DEF ClearOld
<1>11. CASE NextTarget(r)
  BY <1>11 DEF NextTarget
<1>12. CASE SaveTarget(r)
  BY <1>12 DEF SaveTarget, SaveQueueState
<1>13. CASE Arm(r)
  BY <1>13 DEF Arm
<1>14. CASE BeginSession(r)
  BY <1>14 DEF BeginSession, SaveQueueState
<1>15. CASE SessionEnds(r)
  BY <1>15 DEF SessionEnds
<1>16. CASE SessionAborted(r)
  BY <1>16 DEF SessionAborted
<1>17. CASE AfterTarget(r)
  BY <1>17 DEF AfterTarget
<1>18. CASE Advance(r)
  BY <1>18 DEF Advance, SaveQueueState
<1>19. CASE Exit(r)
  BY <1>19 DEF Exit, Preserved
<1>20. CASE LoadPaused(r)
  BY <1>20 DEF LoadPaused
<1>21. CASE MarkQueueStatePaused(r)
  BY <1>21 DEF MarkQueueStatePaused
<1>22. CASE CheckStillRunning(r)
  BY <1>22 DEF CheckStillRunning
<1>23. CASE UnsetRunning(r)
  BY <1>23 DEF UnsetRunning
<1>24. CASE WakeWaiter(r)
  BY <1>24 DEF WakeWaiter
<1>25. CASE ReplacePaused(r)
  BY <1>25 DEF ReplacePaused
<1>26. CASE Panic(r)
  BY <1>26 DEF Panic
<1>27. CASE SessionPanics(r)
  BY <1>27 DEF SessionPanics
<1> QED
  BY <1>1, <1>2, <1>3, <1>4, <1>5, <1>6, <1>7, <1>8, <1>9, <1>10, <1>11, <1>12, <1>13, <1>14, <1>15, <1>16, <1>17, <1>18, <1>19, <1>20, <1>21, <1>22, <1>23, <1>24, <1>25, <1>26, <1>27 DEF RunStep, Panics

LEMMA HandlerStop ==
  ASSUME TypeInv, BeforeInv, GrantInv, Handler
  PROVE  GrantInv' /\ StopKept
<1>0. Commands' = Commands
  BY SettingKept DEF Next
<1> USE <1>0 DEF TypeInv, TypeOK, PlaceInv, BeforeInv, Goto, Live, Queued, Working, Leaving, host, local, request, history, GrantInv, StopKept, Unstoppable
<1>1. ASSUME NEW i \in NewIds, NEW r \in NewRuns(1), HandleScan(r, i) PROVE GrantInv' /\ StopKept
  <2>1. i \in Id /\ Fresh(i) /\ r \in Run /\ pc[r] = "idle"
    BY NewRunsAreIdle, NewIdsAreFresh DEF TypeInv, TypeOK
  <2> QED
    BY <1>1, <2>1 DEF HandleScan, Launch, Fresh
<1>2. ASSUME NEW i \in Id, StopInstance(i) PROVE GrantInv' /\ StopKept
  BY <1>2 DEF StopInstance, MarkStopped, Wished, Armed, Active
<1>3. ASSUME NEW i \in Id, DeleteScan(i) PROVE GrantInv' /\ StopKept
  BY <1>3 DEF DeleteScan, MapUnlocked, MarkStopped, Wished, Armed, Active
<1>4. CASE StopAll
  BY <1>4 DEF StopAll, CancelCurrent, Armed
<1>5. CASE StopAllMark
  BY <1>5 DEF StopAllMark, MapUnlocked, MarkStopped, Wished, Armed, Active, Registered
<1>6. ASSUME NEW i \in Id, PauseInstance(i) PROVE GrantInv' /\ StopKept
  BY <1>6 DEF PauseInstance, Armed
<1>7. ASSUME NEW i \in Id, NEW j \in NewIds, NEW r \in NewRuns(1), ResumeInstance(i, r, j)
      PROVE  GrantInv' /\ StopKept
  <2>1. j \in Id /\ Fresh(j) /\ r \in Run /\ pc[r] = "idle"
    BY NewRunsAreIdle, NewIdsAreFresh DEF TypeInv, TypeOK
  <2> QED
    BY <1>7, <2>1 DEF ResumeInstance, Launch, Valid, Fresh
<1>8. CASE HandleQueueResume
  <2>1. PICK new, queueOf : Launches({i \in Id : Valid(i)}, new, queueOf)
    BY <1>8, LaunchFacts DEF HandleQueueResume, TypeInv, TypeOK
  <2> QED
    BY <1>8, <2>1 DEF HandleQueueResume, Launches, Valid, WithoutInvalid, Wished
<1>9. CASE HandleQueueClear
  BY <1>9 DEF HandleQueueClear, Wished
<1> QED
  BY <1>1, <1>2, <1>3, <1>4, <1>5, <1>6, <1>7, <1>8, <1>9 DEF Handler

LEMMA HostStop ==
  ASSUME TypeInv, BeforeInv, GrantInv, Host
  PROVE  GrantInv' /\ StopKept
<1>0. Commands' = Commands
  BY SettingKept DEF Next
<1> USE <1>0 DEF TypeInv, TypeOK, PlaceInv, BeforeInv, Goto, Live, Queued, Working, Leaving, host, local, request, history, GrantInv, StopKept, Unstoppable
<1>1. CASE Signal
  BY <1>1 DEF Signal, CancelCurrent, Armed
<1>2. CASE SignalMark
  BY <1>2 DEF SignalMark, MapUnlocked, RunningInstances, Registered
<1>3. CASE Restart
  BY <1>3 DEF Restart
<1>4. CASE Die
  BY <1>4 DEF Die, ProcessEnds
<1>5. CASE Crash
  BY <1>5 DEF Crash, ProcessEnds
<1>6. CASE Boot
  BY <1>6 DEF Boot, WithoutInvalid
<1>7. CASE AutoResume
  <2> DEFINE S == {i \in Id : Valid(i) /\ ~ file[i].paused}
  <2>1. CASE ResumeGate
    <3>1. PICK new, queueOf : Launches(S, new, queueOf)
      BY <1>7, <2>1, LaunchFacts DEF AutoResume, TypeInv, TypeOK
    <3> QED
      BY <1>7, <3>1 DEF AutoResume, Launches, Valid, WithoutInvalid
  <2>2. CASE ~ ResumeGate
    BY <1>7, <2>2 DEF AutoResume
  <2> QED
    BY <2>1, <2>2
<1> QED
  BY <1>1, <1>2, <1>3, <1>4, <1>5, <1>6, <1>7 DEF Host

\* Where instances are stopped under the map's lock only, a stopped instance never runs again in
\* its process (see StopSticks): the check for a slot and the grant cannot be separated by a stop.
THEOREM QueueStopSticks ==
  ASSUME \A s \in Settings : "stop" \notin s.commands
  PROVE  Spec => StopSticks
<1>1. Init => GrantInv
  BY DEF Init, GrantInv
<1>2. TypeInv /\ AllOwnerInv /\ GrantInv /\ [Next]_vars => GrantInv'
  <2> SUFFICES ASSUME TypeInv, BeforeInv, GrantInv, [Next]_vars PROVE GrantInv'
    BY DEF AllOwnerInv
  <2>1. CASE Next
    BY <2>1, RunStepStop, HandlerStop, HostStop DEF Next
  <2>2. CASE UNCHANGED vars
    BY <2>2 DEF vars, GrantInv, Unstoppable, Commands
  <2> QED
    BY <2>1, <2>2
<1>3. TypeInv /\ AllOwnerInv /\ GrantInv /\ [Next]_vars =>
        [\A r \in Run : status[r] = "stopped" /\ server' # "down" =>
           status'[r] \in {"stopped", "failed"}]_vars
  <2> SUFFICES ASSUME TypeInv, BeforeInv, GrantInv, Next
               PROVE  \A r \in Run : status[r] = "stopped" /\ server' # "down" =>
                        status'[r] \in {"stopped", "failed"}
    BY DEF AllOwnerInv
  <2>1. Unstoppable
    BY DEF TypeInv, TypeOK, Unstoppable, Commands
  <2>2. StopKept
    BY RunStepStop, HandlerStop, HostStop DEF Next
  <2> QED
    BY <2>1, <2>2 DEF StopKept
<1> QED
  BY <1>1, <1>2, <1>3, QueueTypes, QueueOwners, PTL DEF Spec, StopSticks

-----------------------------------------------------------------------------
(* No target is lost. *)

\* The first n targets of a scan are done.
DoneUpTo(c, n) == 1..n \subseteq done[c]

\* The session of a run did what it was for.
Ended(r) == IF scan[r] \in Typed THEN DoneUpTo(scan[r], N) ELSE next[r] \in done[scan[r]]

\* Until the deferred cleanup has decided about the queue file.
Undecided == Queued \cup Working \cup {"exit", "leave", "panicked"}

\* A run goes on without having scanned its target only when it was stopped or paused, and a
\* stopped one belongs to a scan the user stopped.
ProgressOf(r) ==
  /\ pc[r] \in Queued \cup (Working \ {"loop"}) => DoneUpTo(scan[r], next[r] - 1)
  /\ pc[r] = "loop" => Interrupted(r) \/ DoneUpTo(scan[r], next[r] - 1)
  /\ pc[r] \in {"progress", "session"} /\ cancelled[r] => Interrupted(r) \/ DoneUpTo(scan[r], N)
  /\ pc[r] = "after" => Interrupted(r) \/ Ended(r)
  /\ pc[r] = "advance" => next[r] \in done[scan[r]]
  /\ pc[r] = "exit" => Interrupted(r) \/ DoneUpTo(scan[r], N)
  /\ pc[r] = "leave" => status[r] \in {"stopped", "failed"}
  /\ status[r] \in {"failed", "finished"} => DoneUpTo(scan[r], N)
  /\ pc[r] \in Undecided /\ status[r] = "stopped" => wish[scan[r]] = "stopped"

\* Neither a queue file nor a run is ahead of what was scanned.
ProgressInv == Undisturbed =>
  /\ server \in {"up", "restarting", "down"}
  /\ \A i \in Id : file[i] # None => DoneUpTo(file[i].scan, file[i].next - 1)
  /\ \A r \in Run : loaded[r] # None => DoneUpTo(loaded[r].scan, loaded[r].next - 1)
  /\ \A r \in Run : ProgressOf(r)

\* IDs can be ordered by age, so that a run that is about to remove the queue file it was resumed
\* from leaves a younger one behind.
Ranks(ord) ==
  /\ \A r \in Run : from[r] \notin {None, id[r]} => ord[from[r]] < ord[id[r]]
  /\ \A r \in Run :
       pc[r] = "clearOld" /\ wish[scan[r]] # "stopped" /\ Remaining(scan[r]) # {} =>
         \E i \in Id : file[i] # None /\ file[i].scan = scan[r] /\ ord[i] >= ord[id[r]]

\* A scan that was neither stopped nor cleared has a queue file while a target is left.
Kept ==
  \A c \in Id : wish[c] \in {"run", "paused"} /\ Remaining(c) # {} =>
    \E i \in Id : file[i] # None /\ file[i].scan = c

KeepInv == Undisturbed =>
  /\ Kept
  /\ \E ord \in [Id -> Nat] : Ranks(ord)

\* A step that removes no queue file of a scan with a target left that was not stopped, accepts
\* a scan only with its file, and lets a run near the removal of an old file only once its own
\* is there.
KeepsOn ==
  /\ \A i, c \in Id : file[i] # None /\ file[i].scan = c =>
       \/ file'[i] # None /\ file'[i].scan = c
       \/ wish'[c] = "stopped"
       \/ Remaining(c)' = {}
  /\ \A c \in Id :
       /\ Remaining(c)' \subseteq Remaining(c)
       /\ wish[c] = "stopped" => wish'[c] = "stopped"
       /\ \/ wish'[c] \in {"run", "paused"} => wish[c] \in {"run", "paused"}
          \/ \E i \in Id : file'[i] # None /\ file'[i].scan = c
  /\ \A q \in Run :
       \/ /\ id'[q] = id[q] /\ scan'[q] = scan[q] /\ from'[q] = from[q]
          /\ \/ pc'[q] = "clearOld" => pc[q] = "clearOld"
             \/ file'[id[q]] # None /\ file'[id[q]].scan = scan[q]
       \/ pc'[q] # "clearOld" /\ from'[q] \in {None, id'[q]}

\* One target more is done.
LEMMA DoneOneMore ==
  ASSUME NEW S, NEW n \in Nat, n > 0, 1..(n - 1) \subseteq S, n \in S
  PROVE  1..n \subseteq S
<1>1. \A t \in 1..n : t \in 1..(n - 1) \/ t = n
  OBVIOUS
<1> QED
  BY <1>1

\* A stop reaches the scan of the registered run and the one of the queue file.
LEMMA StopReaches ==
  ASSUME NEW I, NEW i \in I
  PROVE  /\ instances[i] # None => scan[instances[i]] \in ScansOf(I)
         /\ file[i] # None => file[i].scan \in ScansOf(I)
BY DEF ScansOf

LEMMA RunStepIdentity ==
  ASSUME TypeInv, IdentityInv, NEW r \in Run, RunStep(r) \/ Panics(r)
  PROVE  IdentityInv'
<1> USE DEF TypeInv, TypeOK, PlaceInv, Goto, Live, Queued, Working, Leaving, host, local, request, history, IdentityInv
<1>1. CASE Register(r)
  BY <1>1 DEF Register
<1>2. CASE PersistPending(r)
  BY <1>2 DEF PersistPending, SaveQueueState
<1>3. CASE CheckStopped(r)
  BY <1>3 DEF CheckStopped
<1>4. CASE CheckSlot(r)
  BY <1>4 DEF CheckSlot, MapUnlocked
<1>5. CASE Refuse(r)
  BY <1>5 DEF Refuse
<1>6. CASE Grant(r)
  BY <1>6 DEF Grant
<1>7. CASE Wake(r)
  BY <1>7 DEF Wake
<1>8. CASE ShutdownWhileParked(r)
  BY <1>8 DEF ShutdownWhileParked
<1>9. CASE Start(r)
  BY <1>9 DEF Start, SaveQueueState
<1>10. CASE ClearOld(r)
  BY <1>10 DEF ClearOld
<1>11. CASE NextTarget(r)
  BY <1>11 DEF NextTarget
<1>12. CASE SaveTarget(r)
  BY <1>12 DEF SaveTarget, SaveQueueState
<1>13. CASE Arm(r)
  BY <1>13 DEF Arm
<1>14. CASE BeginSession(r)
  BY <1>14 DEF BeginSession, SaveQueueState
<1>15. CASE SessionEnds(r)
  BY <1>15 DEF SessionEnds
<1>16. CASE SessionAborted(r)
  BY <1>16 DEF SessionAborted
<1>17. CASE AfterTarget(r)
  BY <1>17 DEF AfterTarget
<1>18. CASE Advance(r)
  BY <1>18 DEF Advance, SaveQueueState
<1>19. CASE Exit(r)
  BY <1>19 DEF Exit, Preserved
<1>20. CASE LoadPaused(r)
  <2>1. /\ UNCHANGED <<id, scan, from, file>> /\ id[r] \in Id
        /\ loaded' \in {loaded, [loaded EXCEPT ![r] = file[id[r]]]}
        /\ loaded' # loaded => file[id[r]] # None
        /\ \A q \in Run : pc'[q] \in {"idle", "clearOld"} => pc'[q] = pc[q]
        /\ pc'[r] # "idle"
    BY <1>20 DEF LoadPaused
  <2>2. \A q \in Run : loaded'[q] # None => loaded'[q].scan = scan[q]
    BY <2>1, ScanQueueAssumption
  <2>3. \A q \in Run : pc'[q] = "idle" => from[q] = None /\ loaded'[q] = None
    BY <2>1
  <2> QED
    BY <2>1, <2>2, <2>3
<1>21. CASE MarkQueueStatePaused(r)
  <2>1. loaded[r] \in QueueState /\ loaded[r].scan = scan[r]
    BY <1>21 DEF MarkQueueStatePaused
  <2>2. [loaded[r] EXCEPT !.paused = TRUE].scan = scan[r]
    BY <2>1 DEF QueueState
  <2>3. file' = [file EXCEPT ![id[r]] = [loaded[r] EXCEPT !.paused = TRUE]]
        /\ UNCHANGED <<id, scan, from, loaded>>
    BY <1>21 DEF MarkQueueStatePaused
  <2>4. \A q \in Run : pc'[q] \in {"idle", "clearOld"} => pc'[q] = pc[q]
    BY <1>21 DEF MarkQueueStatePaused
  <2> QED
    BY <2>2, <2>3, <2>4
<1>22. CASE CheckStillRunning(r)
  BY <1>22 DEF CheckStillRunning
<1>23. CASE UnsetRunning(r)
  BY <1>23 DEF UnsetRunning
<1>24. CASE WakeWaiter(r)
  BY <1>24 DEF WakeWaiter
<1>25. CASE ReplacePaused(r)
  BY <1>25 DEF ReplacePaused
<1>26. CASE Panic(r)
  BY <1>26 DEF Panic
<1>27. CASE SessionPanics(r)
  BY <1>27 DEF SessionPanics
<1> QED
  BY <1>1, <1>2, <1>3, <1>4, <1>5, <1>6, <1>7, <1>8, <1>9, <1>10, <1>11, <1>12, <1>13, <1>14, <1>15, <1>16, <1>17, <1>18, <1>19, <1>20, <1>21, <1>22, <1>23, <1>24, <1>25, <1>26, <1>27 DEF RunStep, Panics

LEMMA HandlerIdentity ==
  ASSUME TypeInv, IdentityInv, Handler
  PROVE  IdentityInv'
<1> USE DEF TypeInv, TypeOK, PlaceInv, Goto, Live, Queued, Working, Leaving, host, local, request, history, IdentityInv
<1>1. ASSUME NEW i \in NewIds, NEW r \in NewRuns(1), HandleScan(r, i) PROVE IdentityInv'
  <2>1. i \in Id /\ Fresh(i) /\ r \in Run /\ pc[r] = "idle"
    BY NewRunsAreIdle, NewIdsAreFresh DEF TypeInv, TypeOK
  <2>2. /\ \A q \in Run : id'[q] = (IF q = r THEN i ELSE id[q]) /\ id[q] # i
        /\ \A q \in Run : from'[q] = (IF q = r THEN None ELSE from[q])
        /\ \A q \in Run \ {r} : scan'[q] = scan[q] /\ pc'[q] = pc[q]
        /\ pc'[r] = "launched" /\ id[r] = None /\ file[i] = None /\ UNCHANGED <<file, loaded>>
    BY <1>1, <2>1 DEF HandleScan, Launch, Fresh
  <2>3. loaded[r] = None
    BY <2>1, <2>2
  <2>4. ASSUME NEW q \in Run, from'[q] # None PROVE \E p \in Run : id'[p] = from'[q] /\ scan'[p] = scan'[q]
    <3>1. q # r /\ from'[q] = from[q]
      BY <2>2, <2>4
    <3>2. PICK p \in Run : id[p] = from[q] /\ scan[p] = scan[q]
      BY <2>4, <3>1
    <3>3. p # r
      BY <2>1, <2>2, <2>4, <3>1, <3>2
    <3> QED
      BY <2>2, <3>1, <3>2, <3>3
  <2>5. \A q, p \in Run : id'[q] = id'[p] /\ id'[q] # None => scan'[q] = scan'[p]
    BY <2>2
  <2>6. \A q \in Run : id'[q] # None /\ file'[id'[q]] # None => file'[id'[q]].scan = scan'[q]
    BY <2>2
  <2> QED
    BY <2>1, <2>2, <2>3, <2>4, <2>5, <2>6, ScanQueueAssumption
<1>2. ASSUME NEW i \in Id, StopInstance(i) PROVE IdentityInv'
  BY <1>2 DEF StopInstance, MarkStopped, Wished, Armed, Active
<1>3. ASSUME NEW i \in Id, DeleteScan(i) PROVE IdentityInv'
  BY <1>3 DEF DeleteScan, MarkStopped, Wished, Armed, Active
<1>4. CASE StopAll
  BY <1>4 DEF StopAll, CancelCurrent, Armed
<1>5. CASE StopAllMark
  BY <1>5 DEF StopAllMark, MarkStopped, Wished, Armed, Active, Registered
<1>6. ASSUME NEW i \in Id, PauseInstance(i) PROVE IdentityInv'
  BY <1>6 DEF PauseInstance, Armed
<1>7. ASSUME NEW i \in Id, NEW j \in NewIds, NEW r \in NewRuns(1), ResumeInstance(i, r, j)
      PROVE  IdentityInv'
  <2>1. j \in Id /\ Fresh(j) /\ r \in Run /\ pc[r] = "idle"
    BY NewRunsAreIdle, NewIdsAreFresh DEF TypeInv, TypeOK
  <2>2. /\ \A q \in Run : id'[q] = (IF q = r THEN j ELSE id[q]) /\ id[q] # j
        /\ \A q \in Run : from'[q] = (IF q = r THEN i ELSE from[q])
        /\ \A q \in Run \ {r} : scan'[q] = scan[q] /\ pc'[q] = pc[q]
        /\ pc'[r] = "accepted" /\ id[r] = None /\ file[j] = None /\ UNCHANGED <<file, loaded>>
    BY <1>7, <2>1 DEF ResumeInstance, Launch, Fresh
  <2>3. loaded[r] = None
    BY <2>1, <2>2
  <2>4. /\ instances[i] \in Run /\ instances[i] # r /\ id[instances[i]] = i
        /\ scan[instances[i]] = scan'[r]
    <3>1. instances[i] # None /\ file[i] # None /\ scan'[r] = file[i].scan
      BY <1>7, <2>1 DEF ResumeInstance, Valid, Launch
    <3> QED
      BY <2>1, <3>1, ScanQueueAssumption
  <2>5. ASSUME NEW q \in Run, from'[q] # None PROVE \E p \in Run : id'[p] = from'[q] /\ scan'[p] = scan'[q]
    <3>1. CASE q = r
      BY <2>2, <2>4, <3>1
    <3>2. CASE q # r
      <4>1. PICK p \in Run : id[p] = from[q] /\ scan[p] = scan[q]
        BY <2>2, <2>5, <3>2
      <4>2. p # r
        BY <2>1, <2>2, <2>5, <3>2, <4>1
      <4> QED
        BY <2>2, <3>2, <4>1, <4>2
    <3> QED
      BY <3>1, <3>2
  <2>6. \A q, p \in Run : id'[q] = id'[p] /\ id'[q] # None => scan'[q] = scan'[p]
    BY <2>2
  <2>7. \A q \in Run : id'[q] # None /\ file'[id'[q]] # None => file'[id'[q]].scan = scan'[q]
    BY <2>2
  <2> QED
    BY <2>1, <2>2, <2>3, <2>5, <2>6, <2>7, ScanQueueAssumption
<1>8. CASE HandleQueueResume
  <2>1. PICK new, queueOf : Launches({i \in Id : Valid(i)}, new, queueOf)
    BY <1>8, LaunchFacts DEF HandleQueueResume, TypeInv, TypeOK
  <2>2. /\ UNCHANGED loaded
        /\ \A q \in Run : pc'[q] = (IF q \in new THEN "launched" ELSE pc[q])
        /\ \A q \in Run : id'[q] = (IF q \in new THEN queueOf[q] ELSE id[q])
        /\ \A q \in Run : scan'[q] = (IF q \in new THEN file[queueOf[q]].scan ELSE scan[q])
        /\ \A q \in Run : from'[q] = (IF q \in new THEN queueOf[q] ELSE from[q])
        /\ \A q \in new : /\ q \in Run /\ pc[q] = "idle"
                       /\ queueOf[q] \in Id /\ file[queueOf[q]] # None
        /\ \A q, p \in new : queueOf[q] = queueOf[p] => q = p
        /\ \A i \in Id : file'[i] \in {None, file[i]}
    BY <1>8, <2>1 DEF HandleQueueResume, Launches, WithoutInvalid, Valid
  <2>3. \A q \in new : id[q] = None /\ loaded[q] = None
    BY <2>2
  <2>4. ASSUME NEW q \in Run, from'[q] # None PROVE \E p \in Run : id'[p] = from'[q] /\ scan'[p] = scan'[q]
    <3>1. CASE q \in new
      BY <2>2, <3>1
    <3>2. CASE q \notin new
      <4>1. PICK p \in Run : id[p] = from[q] /\ scan[p] = scan[q]
        BY <2>2, <2>4, <3>2
      <4> QED
        BY <2>2, <2>3, <2>4, <3>2, <4>1
    <3> QED
      BY <3>1, <3>2
  <2>5. \A q, p \in Run : id'[q] = id'[p] /\ id'[q] # None => scan'[q] = scan'[p]
    BY <2>2, <2>3, ScanQueueAssumption
  <2>6. \A q \in Run : id'[q] # None /\ file'[id'[q]] # None => file'[id'[q]].scan = scan'[q]
    BY <2>2, <2>3, ScanQueueAssumption
  <2> QED
    BY <2>2, <2>3, <2>4, <2>5, <2>6
<1>9. CASE HandleQueueClear
  BY <1>9 DEF HandleQueueClear, Wished
<1> QED
  BY <1>1, <1>2, <1>3, <1>4, <1>5, <1>6, <1>7, <1>8, <1>9 DEF Handler

LEMMA HostIdentity ==
  ASSUME TypeInv, IdentityInv, Host
  PROVE  IdentityInv'
<1> USE DEF TypeInv, TypeOK, PlaceInv, Goto, Live, Queued, Working, Leaving, host, local, request, history, IdentityInv
<1>1. CASE Signal
  BY <1>1 DEF Signal, CancelCurrent, Armed
<1>2. CASE SignalMark
  BY <1>2 DEF SignalMark, RunningInstances, Registered
<1>3. CASE Restart
  BY <1>3 DEF Restart
<1>4. CASE Die
  BY <1>4 DEF Die, ProcessEnds
<1>5. CASE Crash
  BY <1>5 DEF Crash, ProcessEnds
<1>6. CASE Boot
  BY <1>6 DEF Boot, WithoutInvalid
<1>7. CASE AutoResume
  <2> DEFINE S == {i \in Id : Valid(i) /\ ~ file[i].paused}
  <2>1. CASE ResumeGate
    <3>1. PICK new, queueOf : Launches(S, new, queueOf)
      BY <1>7, <2>1, LaunchFacts DEF AutoResume, TypeInv, TypeOK
    <3>2. /\ UNCHANGED loaded
          /\ \A q \in Run : pc'[q] = (IF q \in new THEN "launched" ELSE pc[q])
          /\ \A q \in Run : id'[q] = (IF q \in new THEN queueOf[q] ELSE id[q])
          /\ \A q \in Run : scan'[q] = (IF q \in new THEN file[queueOf[q]].scan ELSE scan[q])
          /\ \A q \in Run : from'[q] = (IF q \in new THEN queueOf[q] ELSE from[q])
          /\ \A q \in new : /\ q \in Run /\ pc[q] = "idle"
                       /\ queueOf[q] \in Id /\ file[queueOf[q]] # None
          /\ \A q, p \in new : queueOf[q] = queueOf[p] => q = p
          /\ \A i \in Id : file'[i] \in {None, file[i]}
      BY <1>7, <2>1, <3>1 DEF AutoResume, Launches, WithoutInvalid, Valid
    <3>3. \A q \in new : id[q] = None /\ loaded[q] = None
      BY <3>2
    <3>4. ASSUME NEW q \in Run, from'[q] # None PROVE \E p \in Run : id'[p] = from'[q] /\ scan'[p] = scan'[q]
      <4>1. CASE q \in new
        BY <3>2, <4>1
      <4>2. CASE q \notin new
        <5>1. PICK p \in Run : id[p] = from[q] /\ scan[p] = scan[q]
          BY <3>2, <3>4, <4>2
        <5> QED
          BY <3>2, <3>3, <3>4, <4>2, <5>1
      <4> QED
        BY <4>1, <4>2
    <3>5. \A q, p \in Run : id'[q] = id'[p] /\ id'[q] # None => scan'[q] = scan'[p]
      BY <3>2, <3>3, ScanQueueAssumption
    <3>6. \A q \in Run : id'[q] # None /\ file'[id'[q]] # None => file'[id'[q]].scan = scan'[q]
      BY <3>2, <3>3, ScanQueueAssumption
    <3> QED
      BY <3>2, <3>3, <3>4, <3>5, <3>6
  <2>2. CASE ~ ResumeGate
    BY <1>7, <2>2 DEF AutoResume
  <2> QED
    BY <2>1, <2>2
<1> QED
  BY <1>1, <1>2, <1>3, <1>4, <1>5, <1>6, <1>7 DEF Host

LEMMA RunStepProgress ==
  ASSUME TypeInv, IdentityInv, BeforeInv, ProgressInv, NEW r \in Run, RunStep(r) \/ Panics(r)
  PROVE  ProgressInv'
<1>0. /\ Commands' = Commands /\ Typed' = Typed /\ N' = N /\ N \in Nat /\ N > 0
      /\ Undisturbed' = Undisturbed
  BY SettingKept, SettingFacts DEF Next, TypeInv, TypeOK, Undisturbed
<1> USE <1>0 DEF TypeInv, TypeOK, PlaceInv, Goto, Live, Queued, Working, Leaving, host, local, request, history, IdentityInv, BeforeInv, ProgressInv, ProgressOf, Undisturbed, Interrupted, DoneUpTo, Ended, Undecided, QueueState
<1>1. CASE Register(r)
  BY <1>1 DEF Register
<1>2. CASE PersistPending(r)
  BY <1>2 DEF PersistPending, SaveQueueState
<1>3. CASE CheckStopped(r)
  BY <1>3 DEF CheckStopped
<1>4. CASE CheckSlot(r)
  BY <1>4 DEF CheckSlot, MapUnlocked
<1>5. CASE Refuse(r)
  BY <1>5 DEF Refuse
<1>6. CASE Grant(r)
  BY <1>6 DEF Grant
<1>7. CASE Wake(r)
  BY <1>7 DEF Wake
<1>8. CASE ShutdownWhileParked(r)
  BY <1>8 DEF ShutdownWhileParked
<1>9. CASE Start(r)
  BY <1>9 DEF Start, SaveQueueState
<1>10. CASE ClearOld(r)
  BY <1>10 DEF ClearOld
<1>11. CASE NextTarget(r)
  BY <1>11, SMTT(30) DEF NextTarget
<1>12. CASE SaveTarget(r)
  BY <1>12 DEF SaveTarget, SaveQueueState
<1>13. CASE Arm(r)
  BY <1>13 DEF Arm
<1>14. CASE BeginSession(r)
  BY <1>14 DEF BeginSession, SaveQueueState
<1>15. CASE SessionEnds(r)
  <2>1. /\ r \in Run /\ scan[r] \in Id /\ pc[r] = "session"
        /\ UNCHANGED <<id, scan, next, server, file, loaded, wish, cancelled>>
        /\ \A c \in Id : done[c] \subseteq done'[c]
        /\ scan[r] \in Typed => 1..N \subseteq done'[scan[r]]
        /\ scan[r] \notin Typed => next[r] \in done'[scan[r]]
        /\ \A q \in Run : pc'[q] = (IF q = r THEN "after" ELSE pc[q])
        /\ \A q \in Run : \/ status'[q] = status[q]
                          \/ status'[q] = "failed" /\ q = instances[id[r]] /\ scan[r] \in Typed
    BY <1>15 DEF SessionEnds
  <2>2. \A q \in Run : q = instances[id[r]] => scan[q] = scan[r] /\ scan[q] \in Id
    BY <2>1, ScanQueueAssumption
  <2>3. \A q \in Run : \/ status'[q] = status[q]
                       \/ status'[q] = "failed" /\ 1..N \subseteq done'[scan[q]] /\ scan[q] \in Id
    BY <2>1, <2>2
  <2>4. \A c \in Id : \A n : 1..n \subseteq done[c] => 1..n \subseteq done'[c]
    BY <2>1
  <2>5. /\ server \in {"up", "restarting", "down"} => server' \in {"up", "restarting", "down"}
        /\ \A i \in Id : file[i] # None => file[i].scan \in Id
        /\ \A q \in Run : loaded[q] # None => loaded[q].scan \in Id
        /\ \A q \in Run : pc[q] # "idle" => scan[q] \in Id
        /\ \A q \in Run : status[q] # "none" => scan[q] \in Id
    BY <2>1
  <2> HIDE DEF IdentityInv, BeforeInv, TypeInv, TypeOK, PlaceInv
  <2> SUFFICES ASSUME Undisturbed, NEW q \in Run
               PROVE  ProgressOf(q)'
    BY <2>1, <2>4, <2>5
  <2>10. next[q] \in 1..(N + 1) /\ (pc[q] \in {"after", "advance"} => next[q] <= N)
    BY DEF TypeInv, TypeOK, PlaceInv
  <2>6. ProgressOf(q)
    BY DEF ProgressInv
  <2>7. scan'[q] = scan[q] /\ next'[q] = next[q] /\ cancelled'[q] = cancelled[q]
        /\ wish'[scan[q]] = wish[scan[q]] /\ (pc[q] # "idle" => scan[q] \in Id)
        /\ (status[q] # "none" => scan[q] \in Id)
    BY <2>1, <2>5
  <2>8. CASE q = r
    <3>1. pc[q] = "session" /\ pc'[q] = "after" /\ Ended(q)'
      BY <2>1, <2>7, <2>8
    <3> QED
      BY <2>3, <2>4, <2>6, <2>7, <3>1
  <2>9. CASE q # r
    <3>1. pc'[q] = pc[q]
      BY <2>1, <2>9
    <3>2. pc[q] = "after" /\ Ended(q) => Ended(q)'
      BY <2>1, <2>7
    <3>3. status'[q] = status[q] => ProgressOf(q)'
      BY <2>1, <2>4, <2>6, <2>7, <3>1, <3>2
    <3>4. ASSUME status'[q] = "failed", scan[q] \in Id, 1..N \subseteq done'[scan[q]]
          PROVE  ProgressOf(q)'
      <4>1. 1..(next[q] - 1) \subseteq 1..N /\ (pc[q] \in {"after", "advance"} => next[q] \in 1..N)
        BY <2>10
      <4>2. DoneUpTo(scan[q], next[q] - 1)' /\ DoneUpTo(scan[q], N)'
        BY <2>7, <3>4, <4>1
      <4>3. pc[q] = "after" => Ended(q)'
        BY <2>7, <3>4, <4>1
      <4> QED
        BY <2>6, <2>7, <3>1, <3>4, <4>1, <4>2, <4>3
    <3> QED
      BY <2>3, <2>7, <3>3, <3>4
  <2> QED
    BY <2>8, <2>9
<1>16. CASE SessionAborted(r)
  BY <1>16 DEF SessionAborted
<1>17. CASE AfterTarget(r)
  BY <1>17 DEF AfterTarget
<1>18. CASE Advance(r)
  <2>1. /\ r \in Run /\ scan[r] \in Id /\ id[r] \in Id /\ next[r] \in 1..N /\ pc[r] = "advance"
        /\ UNCHANGED <<id, scan, server, loaded, wish, cancelled, done, status>>
        /\ file'[id[r]] = [scan |-> scan[r], next |-> next[r] + 1, paused |-> FALSE]
        /\ \A i \in Id : i # id[r] => file'[i] = file[i]
        /\ next'[r] = next[r] + 1
        /\ \A q \in Run : q # r => next'[q] = next[q]
        /\ \A q \in Run : pc'[q] = (IF q = r THEN "loop" ELSE pc[q])
    BY <1>18 DEF Advance, SaveQueueState
  <2>2. Undisturbed => 1..next[r] \subseteq done[scan[r]]
    <3>1. Undisturbed => 1..(next[r] - 1) \subseteq done[scan[r]] /\ next[r] \in done[scan[r]]
      BY <2>1
    <3> QED
      BY <2>1, <3>1, DoneOneMore, SMTT(30)
  <2>3. (next[r] + 1) - 1 = next[r]
    BY <2>1
  <2> SUFFICES ASSUME Undisturbed PROVE ProgressInv'
    BY DEF ProgressInv
  <2>4. (\A i \in Id : file[i] # None => DoneUpTo(file[i].scan, file[i].next - 1))'
    BY <2>1, <2>2, <2>3
  <2>5. (\A q \in Run : loaded[q] # None => DoneUpTo(loaded[q].scan, loaded[q].next - 1))'
    BY <2>1
  <2>6. ProgressOf(r)'
    BY <2>1, <2>2, <2>3
  <2>7. \A q \in Run : q # r => ProgressOf(q)'
    BY <2>1
  <2> QED
    BY <2>1, <2>4, <2>5, <2>6, <2>7
<1>19. CASE Exit(r)
  BY <1>19 DEF Exit, Preserved
<1>20. CASE LoadPaused(r)
  BY <1>20 DEF LoadPaused
<1>21. CASE MarkQueueStatePaused(r)
  BY <1>21 DEF MarkQueueStatePaused
<1>22. CASE CheckStillRunning(r)
  BY <1>22 DEF CheckStillRunning
<1>23. CASE UnsetRunning(r)
  BY <1>23 DEF UnsetRunning
<1>24. CASE WakeWaiter(r)
  BY <1>24 DEF WakeWaiter
<1>25. CASE ReplacePaused(r)
  BY <1>25 DEF ReplacePaused
<1>26. CASE Panic(r)
  BY <1>26 DEF Panic
<1>27. CASE SessionPanics(r)
  BY <1>27 DEF SessionPanics
<1> QED
  BY <1>1, <1>2, <1>3, <1>4, <1>5, <1>6, <1>7, <1>8, <1>9, <1>10, <1>11, <1>12, <1>13, <1>14, <1>15, <1>16, <1>17, <1>18, <1>19, <1>20, <1>21, <1>22, <1>23, <1>24, <1>25, <1>26, <1>27 DEF RunStep, Panics

LEMMA HandlerProgress ==
  ASSUME TypeInv, IdentityInv, BeforeInv, ProgressInv, Handler
  PROVE  ProgressInv'
<1>0. /\ Commands' = Commands /\ Typed' = Typed /\ N' = N /\ N \in Nat /\ N > 0
      /\ Undisturbed' = Undisturbed
  BY SettingKept, SettingFacts DEF Next, TypeInv, TypeOK, Undisturbed
<1> USE <1>0 DEF TypeInv, TypeOK, PlaceInv, Goto, Live, Queued, Working, Leaving, host, local, request, history, IdentityInv, BeforeInv, ProgressInv, ProgressOf, Undisturbed, Interrupted, DoneUpTo, Ended, Undecided, QueueState
<1>1. ASSUME NEW i \in NewIds, NEW r \in NewRuns(1), HandleScan(r, i) PROVE ProgressInv'
  <2>1. i \in Id /\ Fresh(i) /\ r \in Run /\ pc[r] = "idle"
    BY NewRunsAreIdle, NewIdsAreFresh DEF TypeInv, TypeOK
  <2> QED
    BY <1>1, <2>1 DEF HandleScan, Launch, Fresh
<1>2. ASSUME NEW i \in Id, StopInstance(i) PROVE ProgressInv'
  <2>1. /\ UNCHANGED <<pc, id, scan, next, server, loaded, done>>
        /\ \A k \in Id : file'[k] \in {None, file[k]}
        /\ \A q \in Run : \/ status'[q] = status[q] /\ cancelled'[q] = cancelled[q]
                          \/ /\ instances[i] = q /\ Active(q) /\ status'[q] = "stopped"
        /\ \A c \in Id : wish'[c] = (IF c \in ScansOf({i}) THEN "stopped" ELSE wish[c])
    BY <1>2 DEF StopInstance, MarkStopped, Wished
  <2>2. \A q \in Run : instances[i] = q => scan[q] \in ScansOf({i})
    BY StopReaches, ScanQueueAssumption
  <2>3. \A q \in Run : pc[q] # "idle" => scan[q] \in Id
    OBVIOUS
  <2>4. \A q \in Run : status'[q] = "stopped" => status[q] = "stopped" \/ wish'[scan[q]] = "stopped"
    <3>1. \A q \in Run : instances[i] = q => scan[q] \in Id
      BY <2>3, ScanQueueAssumption
    <3> QED
      BY <2>1, <2>2, <3>1
  <2>5. \A q \in Run : scan[q] \in Id /\ wish[scan[q]] = "stopped" => wish'[scan[q]] = "stopped"
    BY <2>1
  <2>6. \A q \in Run : Interrupted(q) => Interrupted(q)'
    BY <2>1
  <2>7. \A q \in Run : cancelled'[q] /\ ~ cancelled[q] => Interrupted(q)'
    BY <2>1
  <2>8. \A q \in Run : status'[q] \in {"failed", "finished"} => status'[q] = status[q]
    BY <2>1
  <2>9. \A q \in Run : status[q] \in {"stopped", "failed"} => status'[q] = status[q]
    BY <2>1 DEF Active
  <2> SUFFICES ASSUME Undisturbed, NEW q \in Run
               PROVE  ProgressOf(q)'
    BY <2>1
  <2> HIDE DEF IdentityInv, BeforeInv
  <2>10. ProgressOf(q)
    BY DEF ProgressInv
  <2> QED
    BY <2>1, <2>3, <2>4, <2>5, <2>6, <2>7, <2>8, <2>9, <2>10
<1>3. ASSUME NEW i \in Id, DeleteScan(i) PROVE ProgressInv'
  <2>1. /\ UNCHANGED <<pc, id, scan, next, server, loaded, done>>
        /\ \A k \in Id : file'[k] \in {None, file[k]}
        /\ \A q \in Run : \/ status'[q] = status[q] /\ cancelled'[q] = cancelled[q]
                          \/ /\ instances[i] = q /\ Active(q) /\ status'[q] = "stopped"
        /\ \A c \in Id : wish'[c] = (IF c \in ScansOf({i}) THEN "stopped" ELSE wish[c])
    BY <1>3 DEF DeleteScan, MarkStopped, Wished
  <2>2. \A q \in Run : instances[i] = q => scan[q] \in ScansOf({i})
    BY StopReaches, ScanQueueAssumption
  <2>3. \A q \in Run : pc[q] # "idle" => scan[q] \in Id
    OBVIOUS
  <2>4. \A q \in Run : status'[q] = "stopped" => status[q] = "stopped" \/ wish'[scan[q]] = "stopped"
    <3>1. \A q \in Run : instances[i] = q => scan[q] \in Id
      BY <2>3, ScanQueueAssumption
    <3> QED
      BY <2>1, <2>2, <3>1
  <2>5. \A q \in Run : scan[q] \in Id /\ wish[scan[q]] = "stopped" => wish'[scan[q]] = "stopped"
    BY <2>1
  <2>6. \A q \in Run : Interrupted(q) => Interrupted(q)'
    BY <2>1
  <2>7. \A q \in Run : cancelled'[q] /\ ~ cancelled[q] => Interrupted(q)'
    BY <2>1
  <2>8. \A q \in Run : status'[q] \in {"failed", "finished"} => status'[q] = status[q]
    BY <2>1
  <2>9. \A q \in Run : status[q] \in {"stopped", "failed"} => status'[q] = status[q]
    BY <2>1 DEF Active
  <2> SUFFICES ASSUME Undisturbed, NEW q \in Run
               PROVE  ProgressOf(q)'
    BY <2>1
  <2> HIDE DEF IdentityInv, BeforeInv
  <2>10. ProgressOf(q)
    BY DEF ProgressInv
  <2> QED
    BY <2>1, <2>3, <2>4, <2>5, <2>6, <2>7, <2>8, <2>9, <2>10
<1>4. CASE StopAll
  BY <1>4 DEF StopAll, CancelCurrent, Armed
<1>5. CASE StopAllMark
  BY <1>5 DEF StopAllMark, MarkStopped, Wished, Armed, Active, Registered
<1>6. ASSUME NEW i \in Id, PauseInstance(i) PROVE ProgressInv'
  BY <1>6 DEF PauseInstance, Armed
<1>7. ASSUME NEW i \in Id, NEW j \in NewIds, NEW r \in NewRuns(1), ResumeInstance(i, r, j)
      PROVE  ProgressInv'
  <2>1. j \in Id /\ Fresh(j) /\ r \in Run /\ pc[r] = "idle"
    BY NewRunsAreIdle, NewIdsAreFresh DEF TypeInv, TypeOK
  <2> QED
    BY <1>7, <2>1 DEF ResumeInstance, Launch, Valid, Fresh
<1>8. CASE HandleQueueResume
  <2>1. PICK new, queueOf : Launches({i \in Id : Valid(i)}, new, queueOf)
    BY <1>8, LaunchFacts DEF HandleQueueResume, TypeInv, TypeOK
  <2> QED
    BY <1>8, <2>1 DEF HandleQueueResume, Launches, Valid, WithoutInvalid, Wished
<1>9. CASE HandleQueueClear
  BY <1>9 DEF HandleQueueClear, Wished
<1> QED
  BY <1>1, <1>2, <1>3, <1>4, <1>5, <1>6, <1>7, <1>8, <1>9 DEF Handler

LEMMA HostProgress ==
  ASSUME TypeInv, IdentityInv, BeforeInv, ProgressInv, Host
  PROVE  ProgressInv'
<1>0. /\ Commands' = Commands /\ Typed' = Typed /\ N' = N /\ N \in Nat /\ N > 0
      /\ Undisturbed' = Undisturbed
  BY SettingKept, SettingFacts DEF Next, TypeInv, TypeOK, Undisturbed
<1> USE <1>0 DEF TypeInv, TypeOK, PlaceInv, Goto, Live, Queued, Working, Leaving, host, local, request, history, IdentityInv, BeforeInv, ProgressInv, ProgressOf, Undisturbed, Interrupted, DoneUpTo, Ended, Undecided, QueueState
<1>1. CASE Signal
  BY <1>1 DEF Signal, CancelCurrent, Armed
<1>2. CASE SignalMark
  BY <1>2 DEF SignalMark, RunningInstances, Registered
<1>3. CASE Restart
  BY <1>3 DEF Restart
<1>4. CASE Die
  BY <1>4 DEF Die, ProcessEnds
<1>5. CASE Crash
  BY <1>5 DEF Crash, ProcessEnds
<1>6. CASE Boot
  BY <1>6 DEF Boot, WithoutInvalid
<1>7. CASE AutoResume
  <2> DEFINE S == {i \in Id : Valid(i) /\ ~ file[i].paused}
  <2>1. CASE ResumeGate
    <3>1. PICK new, queueOf : Launches(S, new, queueOf)
      BY <1>7, <2>1, LaunchFacts DEF AutoResume, TypeInv, TypeOK
    <3> QED
      BY <1>7, <3>1 DEF AutoResume, Launches, Valid, WithoutInvalid
  <2>2. CASE ~ ResumeGate
    BY <1>7, <2>2 DEF AutoResume
  <2> QED
    BY <2>1, <2>2
<1> QED
  BY <1>1, <1>2, <1>3, <1>4, <1>5, <1>6, <1>7 DEF Host

-----------------------------------------------------------------------------
(* Queue files are kept. *)

LEMMA KeepsOnKeeps ==
  ASSUME TypeInv, TypeInv', IdentityInv, IdentityInv', KeepsOn, Kept,
         NEW ord \in [Id -> Nat], Ranks(ord)
  PROVE  Kept' /\ Ranks(ord)'
<1> USE DEF TypeInv, TypeOK, PlaceInv
<1>1. Kept'
  <2> SUFFICES ASSUME NEW c \in Id, wish'[c] \in {"run", "paused"}, Remaining(c)' # {}
               PROVE  \E i \in Id : file'[i] # None /\ file'[i].scan = c
    BY DEF Kept
  <2>1. CASE wish[c] \in {"run", "paused"}
    <3>1. Remaining(c) # {}
      BY DEF KeepsOn
    <3>2. PICK i \in Id : file[i] # None /\ file[i].scan = c
      BY <2>1, <3>1 DEF Kept
    <3>3. \/ file'[i] # None /\ file'[i].scan = c
          \/ wish'[c] = "stopped"
          \/ Remaining(c)' = {}
      <4> HIDE DEF TypeInv, TypeOK, PlaceInv
      <4> QED
        BY <3>2 DEF KeepsOn
    <3> QED
      BY <3>3
  <2>2. CASE wish[c] \notin {"run", "paused"}
    BY <2>2 DEF KeepsOn
  <2> QED
    BY <2>1, <2>2
<1>2. \A q \in Run : from'[q] \notin {None, id'[q]} => ord[from'[q]] < ord[id'[q]]
  BY DEF KeepsOn, Ranks
<1>3. ASSUME NEW q \in Run, pc'[q] = "clearOld", wish'[scan'[q]] # "stopped",
             NEW c \in Id, c = scan'[q], Remaining(c)' # {}
      PROVE  \E i \in Id : file'[i] # None /\ file'[i].scan = scan'[q] /\ ord[i] >= ord[id'[q]]
  <2>1. /\ id'[q] = id[q] /\ scan'[q] = scan[q] /\ id'[q] \in Id /\ scan[q] = c
        /\ \/ pc[q] = "clearOld"
           \/ file'[id[q]] # None /\ file'[id[q]].scan = scan[q]
    BY <1>3 DEF KeepsOn
  <2>2. CASE pc[q] = "clearOld"
    <3>1. wish[c] # "stopped" /\ Remaining(c) # {}
      BY <1>3, <2>1 DEF KeepsOn
    <3>2. PICK i \in Id : file[i] # None /\ file[i].scan = scan[q] /\ ord[i] >= ord[id[q]]
      BY <2>1, <2>2, <3>1 DEF Ranks
    <3>3. \/ file'[i] # None /\ file'[i].scan = c
          \/ wish'[c] = "stopped"
          \/ Remaining(c)' = {}
      <4> HIDE DEF TypeInv, TypeOK, PlaceInv
      <4> QED
        BY <2>1, <3>2 DEF KeepsOn
    <3> QED
      BY <1>3, <2>1, <3>2, <3>3
  <2>3. CASE file'[id[q]] # None /\ file'[id[q]].scan = scan[q]
    <3>1. ord[id[q]] >= ord[id[q]]
      BY <2>1
    <3> QED
      BY <2>1, <2>3, <3>1
  <2> QED
    BY <2>1, <2>2, <2>3
<1>4. (\A q \in Run :
         pc[q] = "clearOld" /\ wish[scan[q]] # "stopped" /\ Remaining(scan[q]) # {} =>
           \E i \in Id : file[i] # None /\ file[i].scan = scan[q] /\ ord[i] >= ord[id[q]])'
  <2> SUFFICES ASSUME NEW q \in Run,
                      (pc[q] = "clearOld" /\ wish[scan[q]] # "stopped" /\ Remaining(scan[q]) # {})'
               PROVE  \E i \in Id : file'[i] # None /\ file'[i].scan = scan'[q] /\ ord[i] >= ord[id'[q]]
    OBVIOUS
  <2>1. scan'[q] \in Id
    OBVIOUS
  <2> QED
    BY <1>3, <2>1 DEF Remaining
<1> QED
  BY <1>1, <1>2, <1>4 DEF Ranks

LEMMA SavedIsThere ==
  ASSUME NEW x \in [scan : Id, next : Nat, paused : BOOLEAN]
  PROVE  x # None
BY ScanQueueAssumption

\* Writing the queue file of a run.
LEMMA SaveKeeps ==
  ASSUME TypeInv, IdentityInv, N' = N, NEW r \in Run, id[r] \in Id, scan[r] \in Id,
         UNCHANGED <<id, scan, from, done>>,
         file'[id[r]] # None, file'[id[r]].scan = scan[r],
         \A i \in Id : i # id[r] => file'[i] = file[i],
         \A c \in Id : wish'[c] = wish[c] \/ (c = scan[r] /\ wish[c] = "none"),
         \A q \in Run : q # r => pc'[q] = pc[q]
  PROVE  KeepsOn
<1>1. \A c \in Id : Remaining(c)' = Remaining(c)
  BY DEF Remaining
<1>2. ASSUME NEW i \in Id, NEW c \in Id, file[i] # None, file[i].scan = c
      PROVE  file'[i] # None /\ file'[i].scan = c
  BY <1>2, ScanQueueAssumption DEF IdentityInv
<1>3. ASSUME NEW c \in Id
      PROVE  /\ wish[c] = "stopped" => wish'[c] = "stopped"
             /\ \/ wish'[c] \in {"run", "paused"} => wish[c] \in {"run", "paused"}
                \/ \E i \in Id : file'[i] # None /\ file'[i].scan = c
  OBVIOUS
<1>4. ASSUME NEW q \in Run
      PROVE  \/ pc'[q] = "clearOld" => pc[q] = "clearOld"
             \/ file'[id[q]] # None /\ file'[id[q]].scan = scan[q]
  OBVIOUS
<1> QED
  BY <1>1, <1>2, <1>3, <1>4 DEF KeepsOn

\* Removing queue files of scans that were stopped or have no target left.
LEMMA DropKeeps ==
  ASSUME TypeInv, N' = N,
         \A c \in Id : done[c] \subseteq done'[c],
         \A i \in Id : file'[i] # file[i] /\ file[i] # None =>
           wish'[file[i].scan] = "stopped" \/ Remaining(file[i].scan) = {},
         \A c \in Id : wish'[c] = wish[c] \/ wish'[c] = "stopped",
         \A q \in Run :
           \/ /\ id'[q] = id[q] /\ scan'[q] = scan[q] /\ from'[q] = from[q]
              /\ pc'[q] = "clearOld" => pc[q] = "clearOld"
           \/ pc'[q] # "clearOld" /\ from'[q] \in {None, id'[q]}
  PROVE  KeepsOn
<1>1. \A c \in Id : Remaining(c)' \subseteq Remaining(c)
  BY DEF Remaining
<1>2. ASSUME NEW i \in Id, NEW c \in Id, file[i] # None, file[i].scan = c
      PROVE  \/ file'[i] # None /\ file'[i].scan = c
             \/ wish'[c] = "stopped"
             \/ Remaining(c)' = {}
  BY <1>1, <1>2
<1> QED
  BY <1>1, <1>2 DEF KeepsOn

\* A queue file that cannot be resumed belongs to a scan with no target left.
LEMMA InvalidIsDone ==
  ASSUME TypeInv, ProgressInv, Undisturbed, file' = WithoutInvalid
  PROVE  \A i \in Id : file'[i] # file[i] /\ file[i] # None => Remaining(file[i].scan) = {}
<1> SUFFICES ASSUME NEW i \in Id, file'[i] # file[i], file[i] # None
             PROVE  Remaining(file[i].scan) = {}
  OBVIOUS
<1>1. N \in Nat
  BY SettingFacts DEF TypeInv, TypeOK
<1>2. file[i] \in QueueState /\ ~ (file[i].next <= N)
  BY DEF WithoutInvalid, Valid, TypeInv, TypeOK
<1>3. file[i].next - 1 = N
  BY <1>1, <1>2 DEF QueueState
<1> QED
  BY <1>3 DEF ProgressInv, DoneUpTo, Remaining

LEMMA RunStepKeeps ==
  ASSUME TypeInv, IdentityInv, BeforeInv, ProgressInv, Undisturbed, NEW r \in Run, RunStep(r) \/ Panics(r), ~ ClearOld(r)
  PROVE  KeepsOn
<1>0. /\ Commands' = Commands /\ Typed' = Typed /\ N' = N /\ N \in Nat /\ N > 0
  BY SettingKept, SettingFacts DEF Next, TypeInv, TypeOK
<1> USE <1>0 DEF TypeInv, TypeOK, PlaceInv, Goto, Live, Queued, Working, Leaving, host, local, request, history, IdentityInv, KeepsOn, Undisturbed, Interrupted, QueueState, Remaining
<1>1. CASE Register(r)
  BY <1>1 DEF Register
<1>2. CASE PersistPending(r)
  <2>1. /\ id[r] \in Id /\ scan[r] \in Id
        /\ UNCHANGED <<id, scan, from, done>>
        /\ file' = [file EXCEPT ![id[r]] = [scan |-> scan[r], next |-> next[r], paused |-> FALSE]]
        /\ \A c \in Id : wish'[c] = wish[c] \/ (c = scan[r] /\ wish[c] = "none")
        /\ \A q \in Run : q # r => pc'[q] = pc[q]
    BY <1>2 DEF PersistPending, SaveQueueState
  <2>2. file'[id[r]] = [scan |-> scan[r], next |-> next[r], paused |-> FALSE]
    BY <2>1
  <2>3. file'[id[r]] # None /\ file'[id[r]].scan = scan[r]
    <3>1. file'[id[r]] \in [scan : Id, next : Nat, paused : BOOLEAN]
      BY <1>0, <2>1, <2>2
    <3>2. file'[id[r]] # None
      BY <3>1, SavedIsThere
    <3>3. file'[id[r]].scan = scan[r]
      BY <2>2
    <3> QED
      BY <3>2, <3>3
  <2> HIDE DEF KeepsOn
  <2> QED
    BY <2>1, <2>3, SaveKeeps, SMTT(30)
<1>3. CASE CheckStopped(r)
  BY <1>3 DEF CheckStopped
<1>4. CASE CheckSlot(r)
  BY <1>4 DEF CheckSlot, MapUnlocked
<1>5. CASE Refuse(r)
  BY <1>5 DEF Refuse
<1>6. CASE Grant(r)
  BY <1>6 DEF Grant
<1>7. CASE Wake(r)
  BY <1>7 DEF Wake
<1>8. CASE ShutdownWhileParked(r)
  BY <1>8 DEF ShutdownWhileParked
<1>9. CASE Start(r)
  <2>1. /\ id[r] \in Id /\ scan[r] \in Id
        /\ UNCHANGED <<id, scan, from, done>>
        /\ file' = [file EXCEPT ![id[r]] = [scan |-> scan[r], next |-> next[r], paused |-> FALSE]]
        /\ \A c \in Id : wish'[c] = wish[c] \/ (c = scan[r] /\ wish[c] = "none")
        /\ \A q \in Run : q # r => pc'[q] = pc[q]
    BY <1>9 DEF Start, SaveQueueState
  <2>2. file'[id[r]] = [scan |-> scan[r], next |-> next[r], paused |-> FALSE]
    BY <2>1
  <2>3. file'[id[r]] # None /\ file'[id[r]].scan = scan[r]
    <3>1. file'[id[r]] \in [scan : Id, next : Nat, paused : BOOLEAN]
      BY <1>0, <2>1, <2>2
    <3>2. file'[id[r]] # None
      BY <3>1, SavedIsThere
    <3>3. file'[id[r]].scan = scan[r]
      BY <2>2
    <3> QED
      BY <3>2, <3>3
  <2> HIDE DEF KeepsOn
  <2> QED
    BY <2>1, <2>3, SaveKeeps, SMTT(30)
<1>11. CASE NextTarget(r)
  BY <1>11 DEF NextTarget
<1>12. CASE SaveTarget(r)
  <2>1. /\ id[r] \in Id /\ scan[r] \in Id
        /\ UNCHANGED <<id, scan, from, done>>
        /\ file' = [file EXCEPT ![id[r]] = [scan |-> scan[r], next |-> next[r], paused |-> FALSE]]
        /\ \A c \in Id : wish'[c] = wish[c] \/ (c = scan[r] /\ wish[c] = "none")
        /\ \A q \in Run : q # r => pc'[q] = pc[q]
    BY <1>12 DEF SaveTarget, SaveQueueState
  <2>2. file'[id[r]] = [scan |-> scan[r], next |-> next[r], paused |-> FALSE]
    BY <2>1
  <2>3. file'[id[r]] # None /\ file'[id[r]].scan = scan[r]
    <3>1. file'[id[r]] \in [scan : Id, next : Nat, paused : BOOLEAN]
      BY <1>0, <2>1, <2>2
    <3>2. file'[id[r]] # None
      BY <3>1, SavedIsThere
    <3>3. file'[id[r]].scan = scan[r]
      BY <2>2
    <3> QED
      BY <3>2, <3>3
  <2> HIDE DEF KeepsOn
  <2> QED
    BY <2>1, <2>3, SaveKeeps, SMTT(30)
<1>13. CASE Arm(r)
  BY <1>13 DEF Arm
<1>14. CASE BeginSession(r)
  <2>1. /\ id[r] \in Id /\ scan[r] \in Id
        /\ UNCHANGED <<id, scan, from, done>>
        /\ file' = [file EXCEPT ![id[r]] = [scan |-> scan[r], next |-> next[r], paused |-> FALSE]]
        /\ \A c \in Id : wish'[c] = wish[c] \/ (c = scan[r] /\ wish[c] = "none")
        /\ \A q \in Run : q # r => pc'[q] = pc[q]
    BY <1>14 DEF BeginSession, SaveQueueState
  <2>2. file'[id[r]] = [scan |-> scan[r], next |-> next[r], paused |-> FALSE]
    BY <2>1
  <2>3. file'[id[r]] # None /\ file'[id[r]].scan = scan[r]
    <3>1. file'[id[r]] \in [scan : Id, next : Nat, paused : BOOLEAN]
      BY <1>0, <2>1, <2>2
    <3>2. file'[id[r]] # None
      BY <3>1, SavedIsThere
    <3>3. file'[id[r]].scan = scan[r]
      BY <2>2
    <3> QED
      BY <3>2, <3>3
  <2> HIDE DEF KeepsOn
  <2> QED
    BY <2>1, <2>3, SaveKeeps, SMTT(30)
<1>15. CASE SessionEnds(r)
  BY <1>15 DEF SessionEnds
<1>16. CASE SessionAborted(r)
  BY <1>16 DEF SessionAborted
<1>17. CASE AfterTarget(r)
  BY <1>17 DEF AfterTarget
<1>18. CASE Advance(r)
  <2>1. /\ id[r] \in Id /\ scan[r] \in Id
        /\ UNCHANGED <<id, scan, from, done>>
        /\ file' = [file EXCEPT ![id[r]] = [scan |-> scan[r], next |-> next[r] + 1, paused |-> FALSE]]
        /\ \A c \in Id : wish'[c] = wish[c] \/ (c = scan[r] /\ wish[c] = "none")
        /\ \A q \in Run : q # r => pc'[q] = pc[q]
    BY <1>18 DEF Advance, SaveQueueState
  <2>2. file'[id[r]] = [scan |-> scan[r], next |-> next[r] + 1, paused |-> FALSE]
    BY <2>1
  <2>3. file'[id[r]] # None /\ file'[id[r]].scan = scan[r]
    <3>1. file'[id[r]] \in [scan : Id, next : Nat, paused : BOOLEAN]
      BY <1>0, <2>1, <2>2
    <3>2. file'[id[r]] # None
      BY <3>1, SavedIsThere
    <3>3. file'[id[r]].scan = scan[r]
      BY <2>2
    <3> QED
      BY <3>2, <3>3
  <2> HIDE DEF KeepsOn
  <2> QED
    BY <2>1, <2>3, SaveKeeps
<1>19. CASE Exit(r)
  <2>1. /\ UNCHANGED <<id, scan, from, done, wish>>
        /\ id[r] \in Id /\ scan[r] \in Id
        /\ \A i \in Id : i # id[r] => file'[i] = file[i]
        /\ file'[id[r]] # file[id[r]] => ~ Preserved(r)
        /\ \A q \in Run : pc'[q] = "clearOld" => pc[q] = "clearOld"
    BY <1>19 DEF Exit
  <2>2. ~ Preserved(r) => wish[scan[r]] = "stopped" \/ DoneUpTo(scan[r], N)
    BY <1>19 DEF Exit, Preserved, ProgressInv, ProgressOf, Undecided
  <2>3. DoneUpTo(scan[r], N) => Remaining(scan[r]) = {}
    BY DEF DoneUpTo
  <2>4. \A i \in Id : file'[i] # file[i] /\ file[i] # None =>
           wish'[file[i].scan] = "stopped" \/ Remaining(file[i].scan) = {}
    BY <2>1, <2>2, <2>3, ScanQueueAssumption
  <2> HIDE DEF KeepsOn, IdentityInv
  <2> QED
    BY <2>1, <2>4, DropKeeps
<1>20. CASE LoadPaused(r)
  BY <1>20 DEF LoadPaused
<1>21. CASE MarkQueueStatePaused(r)
  <2>1. /\ id[r] \in Id /\ scan[r] \in Id
        /\ UNCHANGED <<id, scan, from, done>>
        /\ file' = [file EXCEPT ![id[r]] = [loaded[r] EXCEPT !.paused = TRUE]]
        /\ \A c \in Id : wish'[c] = wish[c] \/ (c = scan[r] /\ wish[c] = "none")
        /\ \A q \in Run : q # r => pc'[q] = pc[q]
    BY <1>21 DEF MarkQueueStatePaused
  <2>2. file'[id[r]] = [loaded[r] EXCEPT !.paused = TRUE]
    BY <2>1
  <2>3. file'[id[r]] # None /\ file'[id[r]].scan = scan[r]
    <3>1. loaded[r] \in QueueState /\ loaded[r].scan = scan[r]
      BY <1>21 DEF MarkQueueStatePaused
    <3>2. file'[id[r]] = [scan |-> loaded[r].scan, next |-> loaded[r].next, paused |-> TRUE]
      BY <2>2, <3>1
    <3>3. file'[id[r]] \in [scan : Id, next : Nat, paused : BOOLEAN]
      BY <1>0, <3>1, <3>2
    <3>4. file'[id[r]] # None
      BY <3>3, SavedIsThere
    <3>5. file'[id[r]].scan = scan[r]
      BY <3>1, <3>2
    <3> QED
      BY <3>4, <3>5
  <2> HIDE DEF KeepsOn
  <2> QED
    BY <2>1, <2>3, SaveKeeps
<1>22. CASE CheckStillRunning(r)
  BY <1>22 DEF CheckStillRunning
<1>23. CASE UnsetRunning(r)
  BY <1>23 DEF UnsetRunning
<1>24. CASE WakeWaiter(r)
  BY <1>24 DEF WakeWaiter
<1>25. CASE ReplacePaused(r)
  BY <1>25 DEF ReplacePaused
<1>26. CASE Panic(r)
  BY <1>26 DEF Panic
<1>27. CASE SessionPanics(r)
  BY <1>27 DEF SessionPanics
<1> QED
  BY <1>1, <1>2, <1>3, <1>4, <1>5, <1>6, <1>7, <1>8, <1>9, <1>11, <1>12, <1>13, <1>14, <1>15, <1>16, <1>17, <1>18, <1>19, <1>20, <1>21, <1>22, <1>23, <1>24, <1>25, <1>26, <1>27 DEF RunStep, Panics

LEMMA HandlerKeeps ==
  ASSUME TypeInv, IdentityInv, BeforeInv, ProgressInv, Undisturbed, Handler,
         ~ \E i \in Id, j \in NewIds, r \in NewRuns(1) : ResumeInstance(i, r, j)
  PROVE  KeepsOn
<1>0. /\ Commands' = Commands /\ Typed' = Typed /\ N' = N /\ N \in Nat /\ N > 0
  BY SettingKept, SettingFacts DEF Next, TypeInv, TypeOK
<1> USE <1>0 DEF TypeInv, TypeOK, PlaceInv, Goto, Live, Queued, Working, Leaving, host, local, request, history, IdentityInv, KeepsOn, Undisturbed, Interrupted, QueueState, Remaining
<1>1. ASSUME NEW i \in NewIds, NEW r \in NewRuns(1), HandleScan(r, i) PROVE KeepsOn
  <2>1. i \in Id /\ Fresh(i) /\ r \in Run /\ pc[r] = "idle"
    BY NewRunsAreIdle, NewIdsAreFresh DEF TypeInv, TypeOK
  <2> QED
    BY <1>1, <2>1 DEF HandleScan, Launch, Fresh
<1>2. ASSUME NEW i \in Id, StopInstance(i) PROVE KeepsOn
  <2>1. /\ UNCHANGED <<id, scan, from, done, pc>>
        /\ \A k \in Id : k # i => file'[k] = file[k]
        /\ \A c \in Id : wish'[c] = (IF c \in ScansOf({i}) THEN "stopped" ELSE wish[c])
    BY <1>2 DEF StopInstance, Wished
  <2>2. file[i] # None => file[i].scan \in ScansOf({i}) /\ file[i].scan \in Id
    BY StopReaches
  <2>3. \A k \in Id : file'[k] # file[k] /\ file[k] # None => wish'[file[k].scan] = "stopped"
    BY <2>1, <2>2
  <2> HIDE DEF KeepsOn, IdentityInv
  <2> QED
    BY <1>0, <2>1, <2>3, DropKeeps
<1>3. ASSUME NEW i \in Id, DeleteScan(i) PROVE KeepsOn
  <2>1. /\ UNCHANGED <<id, scan, from, done, pc>>
        /\ \A k \in Id : k # i => file'[k] = file[k]
        /\ \A c \in Id : wish'[c] = (IF c \in ScansOf({i}) THEN "stopped" ELSE wish[c])
    BY <1>3 DEF DeleteScan, Wished
  <2>2. file[i] # None => file[i].scan \in ScansOf({i}) /\ file[i].scan \in Id
    BY StopReaches
  <2>3. \A k \in Id : file'[k] # file[k] /\ file[k] # None => wish'[file[k].scan] = "stopped"
    BY <2>1, <2>2
  <2> HIDE DEF KeepsOn, IdentityInv
  <2> QED
    BY <1>0, <2>1, <2>3, DropKeeps
<1>4. CASE StopAll
  BY <1>4 DEF StopAll
<1>5. CASE StopAllMark
  BY <1>5 DEF StopAllMark, ProgressInv
<1>6. ASSUME NEW i \in Id, PauseInstance(i) PROVE KeepsOn
  BY <1>6 DEF PauseInstance, Armed
<1>8. CASE HandleQueueResume
  BY <1>8 DEF HandleQueueResume
<1>9. CASE HandleQueueClear
  BY <1>9 DEF HandleQueueClear
<1> QED
  BY <1>1, <1>2, <1>3, <1>4, <1>5, <1>6, <1>8, <1>9 DEF Handler

LEMMA HostKeeps ==
  ASSUME TypeInv, IdentityInv, BeforeInv, ProgressInv, Undisturbed, Host
  PROVE  KeepsOn
<1>0. /\ Commands' = Commands /\ Typed' = Typed /\ N' = N /\ N \in Nat /\ N > 0
  BY SettingKept, SettingFacts DEF Next, TypeInv, TypeOK
<1> USE <1>0 DEF TypeInv, TypeOK, PlaceInv, Goto, Live, Queued, Working, Leaving, host, local, request, history, IdentityInv, KeepsOn, Undisturbed, Interrupted, QueueState, Remaining
<1>1. CASE Signal
  BY <1>1 DEF Signal
<1>2. CASE SignalMark
  BY <1>2 DEF SignalMark, ProgressInv
<1>3. CASE Restart
  BY <1>3 DEF Restart
<1>4. CASE Die
  BY <1>4 DEF Die, ProcessEnds
<1>5. CASE Crash
  BY <1>5 DEF Crash, ProcessEnds
<1>6. CASE Boot
  <2>1. UNCHANGED <<id, scan, from, done, pc, wish>> /\ file' = WithoutInvalid
    BY <1>6 DEF Boot
  <2> HIDE DEF KeepsOn, IdentityInv
  <2> QED
    BY <1>0, <2>1, InvalidIsDone, DropKeeps
<1>7. CASE AutoResume
  <2> DEFINE S == {i \in Id : Valid(i) /\ ~ file[i].paused}
  <2>1. CASE ResumeGate
    <3>1. PICK new, queueOf : Launches(S, new, queueOf)
      BY <1>7, <2>1, LaunchFacts DEF AutoResume, TypeInv, TypeOK
    <3>2. /\ UNCHANGED <<done, wish>>
          /\ file' = WithoutInvalid
          /\ \A q \in Run : IF q \in new
                            THEN pc'[q] = "launched" /\ from'[q] = id'[q]
                            ELSE /\ pc'[q] = pc[q] /\ id'[q] = id[q] /\ scan'[q] = scan[q]
                                 /\ from'[q] = from[q]
      BY <1>7, <2>1, <3>1 DEF AutoResume, Launches
    <3> HIDE DEF KeepsOn, IdentityInv
    <3> QED
      BY <1>0, <3>2, InvalidIsDone, DropKeeps
  <2>2. CASE ~ ResumeGate
    BY <1>7, <2>2 DEF AutoResume
  <2> QED
    BY <2>1, <2>2
<1> QED
  BY <1>1, <1>2, <1>3, <1>4, <1>5, <1>6, <1>7 DEF Host

\* The removal of the file a run was resumed from leaves a younger file of its scan behind, for
\* every run that is about to do so.
LEMMA ClearOldKeeps ==
  ASSUME TypeInv, IdentityInv, Kept, N' = N, NEW r \in Run, ClearOld(r),
         NEW ord \in [Id -> Nat], Ranks(ord)
  PROVE  Kept' /\ Ranks(ord)'
<1> USE DEF TypeInv, TypeOK, PlaceInv
<1>1. /\ from[r] \in Id /\ id[r] \in Id /\ scan[r] \in Id /\ from[r] # id[r]
      /\ UNCHANGED <<id, scan, from, done, wish>>
      /\ \A i \in Id : i # from[r] => file'[i] = file[i]
      /\ file'[from[r]] = None
      /\ \A q \in Run : pc'[q] = "clearOld" => pc[q] = "clearOld"
  BY DEF ClearOld, IdentityInv, local, request, history, Goto
<1>2. \A c \in Id : Remaining(c)' = Remaining(c)
  BY <1>1 DEF Remaining
<1>3. ord[from[r]] < ord[id[r]]
  BY <1>1, ScanQueueAssumption DEF Ranks
<1>4. file[from[r]] # None => file[from[r]].scan = scan[r]
  <2>1. PICK q \in Run : id[q] = from[r] /\ scan[q] = scan[r]
    BY <1>1, ScanQueueAssumption DEF IdentityInv
  <2> QED
    BY <1>1, <2>1, ScanQueueAssumption DEF IdentityInv
<1>5. ASSUME wish[scan[r]] # "stopped", Remaining(scan[r]) # {}
      PROVE  \E i \in Id : /\ file'[i] # None /\ file'[i].scan = scan[r]
                           /\ ord[i] > ord[from[r]]
  <2>1. PICK i \in Id : file[i] # None /\ file[i].scan = scan[r] /\ ord[i] >= ord[id[r]]
    BY <1>5 DEF Ranks, ClearOld
  <2>2. ord[i] \in Nat /\ ord[from[r]] \in Nat /\ ord[id[r]] \in Nat
    BY <1>1
  <2>3. ord[i] > ord[from[r]] /\ i # from[r]
    BY <1>3, <2>1, <2>2
  <2> QED
    BY <1>1, <2>1, <2>3
<1>6. Kept'
  <2> SUFFICES ASSUME NEW c \in Id, wish'[c] \in {"run", "paused"}, Remaining(c)' # {}
               PROVE  \E i \in Id : file'[i] # None /\ file'[i].scan = c
    BY DEF Kept
  <2>1. wish[c] \in {"run", "paused"} /\ Remaining(c) # {}
    BY <1>1, <1>2
  <2>2. PICK i \in Id : file[i] # None /\ file[i].scan = c
    BY <2>1 DEF Kept
  <2>3. CASE i = from[r]
    BY <1>4, <1>5, <2>1, <2>2, <2>3
  <2>4. CASE i # from[r]
    BY <1>1, <2>2, <2>4
  <2> QED
    BY <2>3, <2>4
<1>7. ASSUME NEW q \in Run, pc[q] = "clearOld", wish[scan[q]] # "stopped", Remaining(scan[q]) # {}
      PROVE  \E i \in Id : file'[i] # None /\ file'[i].scan = scan[q] /\ ord[i] >= ord[id[q]]
  <2>1. PICK i \in Id : file[i] # None /\ file[i].scan = scan[q] /\ ord[i] >= ord[id[q]]
    BY <1>7 DEF Ranks
  <2>2. CASE i = from[r]
    <3>1. scan[q] = scan[r]
      BY <1>4, <2>1, <2>2
    <3>2. PICK k \in Id : file'[k] # None /\ file'[k].scan = scan[r] /\ ord[k] > ord[from[r]]
      BY <1>5, <1>7, <3>1
    <3>3. id[q] \in Id
      BY <1>7
    <3>4. ord[k] >= ord[id[q]]
      BY <2>1, <2>2, <3>2, <3>3, <1>1
    <3> QED
      BY <3>1, <3>2, <3>4
  <2>3. CASE i # from[r]
    BY <1>1, <2>1, <2>3
  <2> QED
    BY <2>2, <2>3
<1>8. Ranks(ord)'
  <2>1. ASSUME NEW q \in Run,
               (pc[q] = "clearOld" /\ wish[scan[q]] # "stopped" /\ Remaining(scan[q]) # {})'
        PROVE  \E i \in Id : file'[i] # None /\ file'[i].scan = scan'[q] /\ ord[i] >= ord[id'[q]]
    <3>1. scan[q] \in Id /\ scan'[q] = scan[q] /\ id'[q] = id[q] /\ pc[q] = "clearOld"
      BY <1>1, <2>1
    <3>2. wish[scan[q]] # "stopped" /\ Remaining(scan[q]) # {}
      BY <1>1, <2>1, <3>1 DEF Remaining
    <3> QED
      BY <1>7, <3>1, <3>2
  <2> QED
    BY <1>1, <2>1 DEF Ranks
<1> QED
  BY <1>6, <1>8

\* A run that resumes a paused instance gets a new ID, which is younger than the one it is
\* resumed from.
LEMMA ResumeKeeps ==
  ASSUME TypeInv, IdentityInv, Kept, N' = N,
         NEW i \in Id, NEW j \in NewIds, NEW r \in NewRuns(1), ResumeInstance(i, r, j),
         NEW ord \in [Id -> Nat], Ranks(ord)
  PROVE  Kept' /\ \E o \in [Id -> Nat] : Ranks(o)'
<1> DEFINE o == [ord EXCEPT ![j] = ord[i] + 1]
<1> USE DEF TypeInv, TypeOK, PlaceInv
<1>1. j \in Id /\ Fresh(j) /\ r \in Run /\ pc[r] = "idle"
  BY NewRunsAreIdle, NewIdsAreFresh
<1>2. /\ UNCHANGED <<done, wish, file>>
      /\ \A q \in Run : id'[q] = (IF q = r THEN j ELSE id[q])
      /\ \A q \in Run : from'[q] = (IF q = r THEN i ELSE from[q])
      /\ \A q \in Run \ {r} : scan'[q] = scan[q] /\ pc'[q] = pc[q]
      /\ pc'[r] = "accepted"
      /\ file[j] = None /\ file[i] # None
      /\ \A q \in Run : id[q] # j
  BY <1>1 DEF ResumeInstance, Launch, Fresh, Valid, Goto, history
<1>3. \A q \in Run : from[q] # j
  BY <1>1, <1>2, ScanQueueAssumption DEF IdentityInv
<1>4. /\ o \in [Id -> Nat] /\ o[j] = ord[i] + 1 /\ o[i] = ord[i]
      /\ \A k \in Id : k # j => o[k] = ord[k]
  BY <1>1, <1>2
<1>5. Kept'
  BY <1>2 DEF Kept, Remaining
<1> HIDE DEF o
<1>6. \A q \in Run : from'[q] \notin {None, id'[q]} => o[from'[q]] < o[id'[q]]
  <2>1. o[i] < o[j]
    BY <1>4
  <2>2. ASSUME NEW q \in Run \ {r}, from[q] \notin {None, id[q]} PROVE o[from[q]] < o[id[q]]
    <3>1. pc[q] # "idle"
      BY <2>2 DEF IdentityInv
    <3> QED
      BY <1>2, <1>3, <1>4, <2>2, <3>1 DEF Ranks
  <2> QED
    BY <1>2, <2>1, <2>2
<1>7. ASSUME NEW q \in Run,
             (pc[q] = "clearOld" /\ wish[scan[q]] # "stopped" /\ Remaining(scan[q]) # {})'
      PROVE  \E k \in Id : file'[k] # None /\ file'[k].scan = scan'[q] /\ o[k] >= o[id'[q]]
  <2>1. q # r /\ pc[q] = "clearOld" /\ scan'[q] = scan[q] /\ id'[q] = id[q] /\ id[q] \in Id
    BY <1>2, <1>7
  <2>2. wish[scan[q]] # "stopped" /\ Remaining(scan[q]) # {}
    BY <1>2, <1>7, <2>1 DEF Remaining
  <2>3. PICK k \in Id : file[k] # None /\ file[k].scan = scan[q] /\ ord[k] >= ord[id[q]]
    BY <2>1, <2>2 DEF Ranks
  <2>4. o[k] = ord[k] /\ o[id[q]] = ord[id[q]]
    BY <1>2, <1>4, <2>1, <2>3
  <2> QED
    BY <1>2, <2>1, <2>3, <2>4
<1>8. Ranks(o)'
  BY <1>6, <1>7 DEF Ranks
<1> QED
  BY <1>4, <1>5, <1>8

\* Runs that share an ID share the scan of its queue file, and a run resumes a scan of its own
\* (saveQueueState writes, and handleQueueResume and resumePausedInstance read, a file by ID
\* alone): whatever the commands, a file never holds the targets of another scan.
THEOREM QueueIdentity == Spec => []IdentityInv
<1>1. Init => IdentityInv
  BY ScanQueueAssumption DEF Init, IdentityInv
<1>2. TypeInv /\ IdentityInv /\ [Next]_vars => IdentityInv'
  <2> SUFFICES ASSUME TypeInv, IdentityInv, [Next]_vars PROVE IdentityInv'
    OBVIOUS
  <2>1. CASE Next
    BY <2>1, RunStepIdentity, HandlerIdentity, HostIdentity DEF Next
  <2>2. CASE UNCHANGED vars
    BY <2>2 DEF vars, IdentityInv
  <2> QED
    BY <2>1, <2>2
<1> QED
  BY <1>1, <1>2, QueueTypes, PTL DEF Spec

\* Neither the index of a queue file nor that of a run is ahead of what was scanned, as long as
\* nothing cancels a session without marking its instance (see Undisturbed): the order of the
\* saves of runMultiScan, of shouldAdvanceQueueAfterTarget and of the handlers.
THEOREM QueueProgress == Spec => []ProgressInv
<1>1. Init => ProgressInv
  BY ScanQueueAssumption DEF Init, ProgressInv, ProgressOf, Undecided, Queued, Working, Interrupted
<1>2. TypeInv /\ IdentityInv /\ BeforeInv /\ ProgressInv /\ [Next]_vars => ProgressInv'
  <2> SUFFICES ASSUME TypeInv, IdentityInv, BeforeInv, ProgressInv, [Next]_vars
               PROVE  ProgressInv'
    OBVIOUS
  <2>1. CASE Next
    BY <2>1, RunStepProgress, HandlerProgress, HostProgress DEF Next
  <2>2. CASE UNCHANGED vars
    BY <2>2 DEF vars, ProgressInv, ProgressOf, DoneUpTo, Ended, Interrupted, Undisturbed,
                Commands, Typed, N
  <2> QED
    BY <2>1, <2>2
<1>3. AllOwnerInv => BeforeInv
  BY DEF AllOwnerInv
<1> QED
  BY <1>1, <1>2, <1>3, QueueTypes, QueueIdentity, QueueOwners, PTL DEF Spec

LEMMA KeepStep ==
  ASSUME TypeInv, TypeInv', IdentityInv, IdentityInv', BeforeInv, ProgressInv, KeepInv, [Next]_vars
  PROVE  KeepInv'
<1>1. N' = N /\ Commands' = Commands
  BY SettingKept
<1> SUFFICES ASSUME Undisturbed
             PROVE  Kept' /\ \E o \in [Id -> Nat] : Ranks(o)'
  BY <1>1 DEF KeepInv, Undisturbed
<1>2. PICK ord \in [Id -> Nat] : Ranks(ord)
  BY DEF KeepInv
<1>3. Kept
  BY DEF KeepInv
<1>4. CASE KeepsOn
  BY <1>2, <1>3, <1>4, KeepsOnKeeps
<1>5. CASE UNCHANGED vars
  BY <1>2, <1>3, <1>5 DEF vars, Kept, Ranks, Remaining, N
<1>6. ASSUME NEW r \in Run, ClearOld(r)
      PROVE  Kept' /\ \E o \in [Id -> Nat] : Ranks(o)'
  BY <1>1, <1>2, <1>3, <1>6, ClearOldKeeps
<1>7. ASSUME NEW i \in Id, NEW j \in NewIds, NEW r \in NewRuns(1), ResumeInstance(i, r, j)
      PROVE  Kept' /\ \E o \in [Id -> Nat] : Ranks(o)'
  BY <1>1, <1>2, <1>3, <1>7, ResumeKeeps
<1>8. ASSUME NEW r \in Run, RunStep(r) \/ Panics(r), ~ ClearOld(r) PROVE KeepsOn
  BY <1>8, RunStepKeeps
<1>9. ASSUME Handler, ~ \E i \in Id, j \in NewIds, r \in NewRuns(1) : ResumeInstance(i, r, j)
      PROVE  KeepsOn
  BY <1>9, HandlerKeeps
<1>10. ASSUME Host PROVE KeepsOn
  BY <1>10, HostKeeps
<1> QED
  BY <1>4, <1>5, <1>6, <1>7, <1>8, <1>9, <1>10 DEF Next

\* No crash, panic, stop, pause, resume, deletion, restart or auto-resume, in whatever order, loses
\* a target of an accepted scan, and a scan shown as finished was scanned to the end (see
\* ScanIsAccounted): every queue file that runMultiScan or a handler removes belongs to a scan that
\* was stopped or has no target left, or a younger file of the scan takes its place.
THEOREM QueueAccounted == Spec => []ScanIsAccounted
<1>1. Init => KeepInv
  <2> SUFFICES ASSUME Init PROVE Kept /\ \E ord \in [Id -> Nat] : Ranks(ord)
    BY DEF KeepInv
  <2> DEFINE zero == [i \in Id |-> 0]
  <2>1. zero \in [Id -> Nat] /\ Ranks(zero)
    BY DEF Init, Ranks
  <2> QED
    BY <2>1 DEF Init, Kept
<1>2. /\ TypeInv /\ TypeInv' /\ IdentityInv /\ IdentityInv' /\ AllOwnerInv /\ ProgressInv
      /\ KeepInv /\ [Next]_vars
      => KeepInv'
  BY KeepStep DEF AllOwnerInv
<1>3. TypeInv /\ ProgressInv /\ KeepInv => ScanIsAccounted
  <2> SUFFICES ASSUME TypeInv, ProgressInv, KeepInv, Undisturbed
               PROVE  ScanKept /\ FinishedMeansDone
    BY DEF ScanIsAccounted
  <2>1. N \in Nat
    BY SettingFacts DEF TypeInv, TypeOK
  <2>2. ScanKept
    <3> SUFFICES ASSUME NEW c \in Id, wish[c] \in {"run", "paused"}, Remaining(c) # {}
                 PROVE  Resumable(c)
      BY DEF ScanKept
    <3>1. PICK i \in Id : file[i] # None /\ file[i].scan = c
      BY DEF KeepInv, Kept
    <3>2. file[i].next \in Nat /\ 1..(file[i].next - 1) \subseteq done[c]
      BY <2>1, <3>1 DEF ProgressInv, DoneUpTo, TypeInv, TypeOK, QueueState
    <3>3. \A t \in Remaining(c) : file[i].next <= t
      BY <2>1, <3>2 DEF Remaining
    <3> QED
      BY <3>1, <3>3 DEF Resumable
  <2>3. FinishedMeansDone
    BY DEF ProgressInv, ProgressOf, DoneUpTo, FinishedMeansDone, Remaining
  <2> QED
    BY <2>2, <2>3
<1> QED
  BY <1>1, <1>2, <1>3, QueueTypes, QueueIdentity, QueueOwners, QueueProgress, PTL DEF Spec

-----------------------------------------------------------------------------
(* One run of a scan. *)

\* Where no instance is resumed under a new ID, an ID stands for its scan.
OwnScanInv == "resume" \notin Commands =>
  /\ \A r \in Run : id[r] = scan[r]
  /\ \A i \in Id : file[i] # None => file[i].scan = i

LEMMA RunStepOwnScan ==
  ASSUME TypeInv, IdentityInv, OwnScanInv, NEW r \in Run, RunStep(r) \/ Panics(r)
  PROVE  OwnScanInv'
<1>0. Commands' = Commands
  BY SettingKept DEF Next
<1> USE <1>0, ScanQueueAssumption DEF TypeInv, TypeOK, PlaceInv, Goto, Live, Queued, Working, Leaving, host, local, request, history, IdentityInv, OwnScanInv, QueueState
<1>1. CASE Register(r)
  BY <1>1 DEF Register
<1>2. CASE PersistPending(r)
  BY <1>2 DEF PersistPending, SaveQueueState
<1>3. CASE CheckStopped(r)
  BY <1>3 DEF CheckStopped
<1>4. CASE CheckSlot(r)
  BY <1>4 DEF CheckSlot, MapUnlocked
<1>5. CASE Refuse(r)
  BY <1>5 DEF Refuse
<1>6. CASE Grant(r)
  BY <1>6 DEF Grant
<1>7. CASE Wake(r)
  BY <1>7 DEF Wake
<1>8. CASE ShutdownWhileParked(r)
  BY <1>8 DEF ShutdownWhileParked
<1>9. CASE Start(r)
  BY <1>9 DEF Start, SaveQueueState
<1>10. CASE ClearOld(r)
  BY <1>10 DEF ClearOld
<1>11. CASE NextTarget(r)
  BY <1>11 DEF NextTarget
<1>12. CASE SaveTarget(r)
  BY <1>12 DEF SaveTarget, SaveQueueState
<1>13. CASE Arm(r)
  BY <1>13 DEF Arm
<1>14. CASE BeginSession(r)
  BY <1>14 DEF BeginSession, SaveQueueState
<1>15. CASE SessionEnds(r)
  BY <1>15 DEF SessionEnds
<1>16. CASE SessionAborted(r)
  BY <1>16 DEF SessionAborted
<1>17. CASE AfterTarget(r)
  BY <1>17 DEF AfterTarget
<1>18. CASE Advance(r)
  BY <1>18 DEF Advance, SaveQueueState
<1>19. CASE Exit(r)
  BY <1>19 DEF Exit, Preserved
<1>20. CASE LoadPaused(r)
  BY <1>20 DEF LoadPaused
<1>21. CASE MarkQueueStatePaused(r)
  BY <1>21 DEF MarkQueueStatePaused
<1>22. CASE CheckStillRunning(r)
  BY <1>22 DEF CheckStillRunning
<1>23. CASE UnsetRunning(r)
  BY <1>23 DEF UnsetRunning
<1>24. CASE WakeWaiter(r)
  BY <1>24 DEF WakeWaiter
<1>25. CASE ReplacePaused(r)
  BY <1>25 DEF ReplacePaused
<1>26. CASE Panic(r)
  BY <1>26 DEF Panic
<1>27. CASE SessionPanics(r)
  BY <1>27 DEF SessionPanics
<1> QED
  BY <1>1, <1>2, <1>3, <1>4, <1>5, <1>6, <1>7, <1>8, <1>9, <1>10, <1>11, <1>12, <1>13, <1>14, <1>15, <1>16, <1>17, <1>18, <1>19, <1>20, <1>21, <1>22, <1>23, <1>24, <1>25, <1>26, <1>27 DEF RunStep, Panics

LEMMA HandlerOwnScan ==
  ASSUME TypeInv, IdentityInv, OwnScanInv, Handler
  PROVE  OwnScanInv'
<1>0. Commands' = Commands
  BY SettingKept DEF Next
<1> USE <1>0, ScanQueueAssumption DEF TypeInv, TypeOK, PlaceInv, Goto, Live, Queued, Working, Leaving, host, local, request, history, IdentityInv, OwnScanInv, QueueState
<1>1. ASSUME NEW i \in NewIds, NEW r \in NewRuns(1), HandleScan(r, i) PROVE OwnScanInv'
  <2>1. i \in Id /\ Fresh(i) /\ r \in Run /\ pc[r] = "idle"
    BY NewRunsAreIdle, NewIdsAreFresh DEF TypeInv, TypeOK
  <2> QED
    BY <1>1, <2>1 DEF HandleScan, Launch, Fresh
<1>2. ASSUME NEW i \in Id, StopInstance(i) PROVE OwnScanInv'
  BY <1>2 DEF StopInstance, MarkStopped, Wished, Armed, Active
<1>3. ASSUME NEW i \in Id, DeleteScan(i) PROVE OwnScanInv'
  BY <1>3 DEF DeleteScan, MarkStopped, Wished, Armed, Active
<1>4. CASE StopAll
  BY <1>4 DEF StopAll, CancelCurrent, Armed
<1>5. CASE StopAllMark
  BY <1>5 DEF StopAllMark, MarkStopped, Wished, Armed, Active, Registered
<1>6. ASSUME NEW i \in Id, PauseInstance(i) PROVE OwnScanInv'
  BY <1>6 DEF PauseInstance, Armed
<1>7. ASSUME NEW i \in Id, NEW j \in NewIds, NEW r \in NewRuns(1), ResumeInstance(i, r, j)
      PROVE  OwnScanInv'
  <2>1. j \in Id /\ Fresh(j) /\ r \in Run /\ pc[r] = "idle"
    BY NewRunsAreIdle, NewIdsAreFresh DEF TypeInv, TypeOK
  <2> QED
    BY <1>7, <2>1 DEF ResumeInstance, Launch, Valid, Fresh
<1>8. CASE HandleQueueResume
  <2>1. PICK new, queueOf : Launches({i \in Id : Valid(i)}, new, queueOf)
    BY <1>8, LaunchFacts DEF HandleQueueResume, TypeInv, TypeOK
  <2> QED
    BY <1>8, <2>1 DEF HandleQueueResume, Launches, Valid, WithoutInvalid, Wished
<1>9. CASE HandleQueueClear
  BY <1>9 DEF HandleQueueClear, Wished
<1> QED
  BY <1>1, <1>2, <1>3, <1>4, <1>5, <1>6, <1>7, <1>8, <1>9 DEF Handler

LEMMA HostOwnScan ==
  ASSUME TypeInv, IdentityInv, OwnScanInv, Host
  PROVE  OwnScanInv'
<1>0. Commands' = Commands
  BY SettingKept DEF Next
<1> USE <1>0, ScanQueueAssumption DEF TypeInv, TypeOK, PlaceInv, Goto, Live, Queued, Working, Leaving, host, local, request, history, IdentityInv, OwnScanInv, QueueState
<1>1. CASE Signal
  BY <1>1 DEF Signal, CancelCurrent, Armed
<1>2. CASE SignalMark
  BY <1>2 DEF SignalMark, RunningInstances, Registered
<1>3. CASE Restart
  BY <1>3 DEF Restart
<1>4. CASE Die
  BY <1>4 DEF Die, ProcessEnds
<1>5. CASE Crash
  BY <1>5 DEF Crash, ProcessEnds
<1>6. CASE Boot
  BY <1>6 DEF Boot, WithoutInvalid
<1>7. CASE AutoResume
  <2> DEFINE S == {i \in Id : Valid(i) /\ ~ file[i].paused}
  <2>1. CASE ResumeGate
    <3>1. PICK new, queueOf : Launches(S, new, queueOf)
      BY <1>7, <2>1, LaunchFacts DEF AutoResume, TypeInv, TypeOK
    <3> QED
      BY <1>7, <3>1 DEF AutoResume, Launches, Valid, WithoutInvalid
  <2>2. CASE ~ ResumeGate
    BY <1>7, <2>2 DEF AutoResume
  <2> QED
    BY <2>1, <2>2
<1> QED
  BY <1>1, <1>2, <1>3, <1>4, <1>5, <1>6, <1>7 DEF Host

\* Where no paused instance is resumed, every run and every queue file stays under the ID of its
\* scan (runMultiScan, handleQueueResume and autoResumeQueuedScans hand the ID on).
THEOREM QueueOwnScan == Spec => []OwnScanInv
<1>1. Init => OwnScanInv
  BY DEF Init, OwnScanInv
<1>2. TypeInv /\ IdentityInv /\ OwnScanInv /\ [Next]_vars => OwnScanInv'
  <2> SUFFICES ASSUME TypeInv, IdentityInv, OwnScanInv, [Next]_vars PROVE OwnScanInv'
    OBVIOUS
  <2>1. CASE Next
    BY <2>1, RunStepOwnScan, HandlerOwnScan, HostOwnScan DEF Next
  <2>2. CASE UNCHANGED vars
    BY <2>2 DEF vars, OwnScanInv, Commands
  <2> QED
    BY <2>1, <2>2
<1> QED
  BY <1>1, <1>2, QueueTypes, QueueIdentity, PTL DEF Spec

\* Where runs end by themselves, two of them never execute sessions of one scan at a time (see
\* NoOverlapOfQueues): auto-resume and the resume of the queue see, by Server.running, the
\* registered instances and queueResumeLaunching together, every run that is on its way.
THEOREM QueueNoOverlap == Spec => []NoOverlapOfQueues
<1>1. AllOwnerInv /\ OwnScanInv => NoOverlapOfQueues
  BY DEF AllOwnerInv, RunsToTheEndInv, OwnScanInv, RunsToTheEnd, NoOverlapOfQueues, NoOverlap,
         Live, Working
<1> QED
  BY <1>1, QueueOwnScan, QueueOwners, PTL

-----------------------------------------------------------------------------
(* A stop leaves no queue file behind. *)

\* Every run reaches its own end, where it clears its queue file.
ExitsClear ==
  {"pause", "signal", "restart", "forceRestart", "panic"} \cap Commands = {} /\ MaxCrashes = 0

\* Until its queue file is cleared.
BeforeExit == (Queued \ {"accepted", "launched", "registered"}) \cup Working \cup {"leave", "exit"}

ClearInv == ExitsClear =>
  /\ server \in {"up", "halting"} /\ ~ resumeDue
  /\ \A r \in Run :
       /\ reason[r] \in {"none", "user_stopped"}
       /\ status[r] # "paused"
       /\ pc[r] \notin {"panicked", "markWrite"}
  /\ \A i \in Id : file[i] # None => \E r \in Run : id[r] = i /\ pc[r] \in BeforeExit

LEMMA RunStepClear ==
  ASSUME TypeInv, IdentityInv, ClearInv, NEW r \in Run, RunStep(r) \/ Panics(r)
  PROVE  ClearInv'
<1>0. Commands' = Commands /\ MaxCrashes' = MaxCrashes
  BY SettingKept DEF Next
<1> USE <1>0, ScanQueueAssumption DEF TypeInv, TypeOK, PlaceInv, Goto, Live, Queued, Working, Leaving, host, local, request, history, ClearInv, BeforeExit, ExitsClear, QueueState
<1>1. CASE Register(r)
  BY <1>1 DEF Register
<1>2. CASE PersistPending(r)
  BY <1>2 DEF PersistPending, SaveQueueState
<1>3. CASE CheckStopped(r)
  BY <1>3 DEF CheckStopped
<1>4. CASE CheckSlot(r)
  BY <1>4 DEF CheckSlot, MapUnlocked
<1>5. CASE Refuse(r)
  BY <1>5 DEF Refuse
<1>6. CASE Grant(r)
  BY <1>6 DEF Grant
<1>7. CASE Wake(r)
  BY <1>7 DEF Wake
<1>8. CASE ShutdownWhileParked(r)
  BY <1>8 DEF ShutdownWhileParked
<1>9. CASE Start(r)
  BY <1>9 DEF Start, SaveQueueState
<1>10. CASE ClearOld(r)
  BY <1>10 DEF ClearOld
<1>11. CASE NextTarget(r)
  BY <1>11 DEF NextTarget
<1>12. CASE SaveTarget(r)
  BY <1>12 DEF SaveTarget, SaveQueueState
<1>13. CASE Arm(r)
  BY <1>13 DEF Arm
<1>14. CASE BeginSession(r)
  BY <1>14 DEF BeginSession, SaveQueueState
<1>15. CASE SessionEnds(r)
  BY <1>15 DEF SessionEnds
<1>16. CASE SessionAborted(r)
  BY <1>16 DEF SessionAborted
<1>17. CASE AfterTarget(r)
  BY <1>17 DEF AfterTarget
<1>18. CASE Advance(r)
  BY <1>18 DEF Advance, SaveQueueState
<1>19. CASE Exit(r)
  BY <1>19 DEF Exit, Preserved
<1>20. CASE LoadPaused(r)
  <2>1. /\ UNCHANGED <<server, resumeDue, reason, status, file, id>>
        /\ pc[r] = "mark"
        /\ \A q \in Run : q # r => pc'[q] = pc[q]
    BY <1>20 DEF LoadPaused
  <2>2. ExitsClear => pc'[r] = "check"
    BY <1>20 DEF LoadPaused
  <2>3. ExitsClear => \A i \in Id : file'[i] # None => \E q \in Run : id'[q] = i /\ pc'[q] \in BeforeExit
    BY <2>1
  <2> QED
    BY <2>1, <2>2, <2>3
<1>21. CASE MarkQueueStatePaused(r)
  BY <1>21 DEF MarkQueueStatePaused
<1>22. CASE CheckStillRunning(r)
  BY <1>22 DEF CheckStillRunning
<1>23. CASE UnsetRunning(r)
  <2>1. /\ UNCHANGED <<server, resumeDue, reason, status, file, id>>
        /\ pc[r] = "unset"
        /\ \A q \in Run : q # r => pc'[q] = pc[q]
    BY <1>23 DEF UnsetRunning
  <2>2. ExitsClear => pc'[r] = "wake"
    BY <1>23 DEF UnsetRunning
  <2>3. ExitsClear => \A i \in Id : file'[i] # None => \E q \in Run : id'[q] = i /\ pc'[q] \in BeforeExit
    BY <2>1
  <2> QED
    BY <2>1, <2>2, <2>3
<1>24. CASE WakeWaiter(r)
  BY <1>24, SMTT(30) DEF WakeWaiter
<1>25. CASE ReplacePaused(r)
  BY <1>25 DEF ReplacePaused
<1>26. CASE Panic(r)
  BY <1>26 DEF Panic
<1>27. CASE SessionPanics(r)
  BY <1>27 DEF SessionPanics
<1> QED
  BY <1>1, <1>2, <1>3, <1>4, <1>5, <1>6, <1>7, <1>8, <1>9, <1>10, <1>11, <1>12, <1>13, <1>14, <1>15, <1>16, <1>17, <1>18, <1>19, <1>20, <1>21, <1>22, <1>23, <1>24, <1>25, <1>26, <1>27 DEF RunStep, Panics

LEMMA HandlerClear ==
  ASSUME TypeInv, IdentityInv, ClearInv, Handler
  PROVE  ClearInv'
<1>0. Commands' = Commands /\ MaxCrashes' = MaxCrashes
  BY SettingKept DEF Next
<1> USE <1>0, ScanQueueAssumption DEF TypeInv, TypeOK, PlaceInv, Goto, Live, Queued, Working, Leaving, host, local, request, history, ClearInv, BeforeExit, ExitsClear, QueueState
<1>1. ASSUME NEW i \in NewIds, NEW r \in NewRuns(1), HandleScan(r, i) PROVE ClearInv'
  <2>1. i \in Id /\ Fresh(i) /\ r \in Run /\ pc[r] = "idle"
    BY NewRunsAreIdle, NewIdsAreFresh DEF TypeInv, TypeOK
  <2> QED
    BY <1>1, <2>1 DEF HandleScan, Launch, Fresh
<1>2. ASSUME NEW i \in Id, StopInstance(i) PROVE ClearInv'
  BY <1>2 DEF StopInstance, MarkStopped, Wished, Armed, Active
<1>3. ASSUME NEW i \in Id, DeleteScan(i) PROVE ClearInv'
  BY <1>3 DEF DeleteScan, MarkStopped, Wished, Armed, Active
<1>4. CASE StopAll
  BY <1>4 DEF StopAll, CancelCurrent, Armed
<1>5. CASE StopAllMark
  BY <1>5 DEF StopAllMark, MarkStopped, Wished, Armed, Active, Registered
<1>6. ASSUME NEW i \in Id, PauseInstance(i) PROVE ClearInv'
  BY <1>6 DEF PauseInstance, Armed
<1>7. ASSUME NEW i \in Id, NEW j \in NewIds, NEW r \in NewRuns(1), ResumeInstance(i, r, j)
      PROVE  ClearInv'
  <2>1. j \in Id /\ Fresh(j) /\ r \in Run /\ pc[r] = "idle"
    BY NewRunsAreIdle, NewIdsAreFresh DEF TypeInv, TypeOK
  <2> QED
    BY <1>7, <2>1 DEF ResumeInstance, Launch, Valid, Fresh
<1>8. CASE HandleQueueResume
  <2>1. PICK new, queueOf : Launches({i \in Id : Valid(i)}, new, queueOf)
    BY <1>8, LaunchFacts DEF HandleQueueResume, TypeInv, TypeOK
  <2> QED
    BY <1>8, <2>1 DEF HandleQueueResume, Launches, Valid, WithoutInvalid, Wished
<1>9. CASE HandleQueueClear
  BY <1>9 DEF HandleQueueClear, Wished
<1> QED
  BY <1>1, <1>2, <1>3, <1>4, <1>5, <1>6, <1>7, <1>8, <1>9 DEF Handler

LEMMA HostClear ==
  ASSUME TypeInv, IdentityInv, ClearInv, Host
  PROVE  ClearInv'
<1>0. Commands' = Commands /\ MaxCrashes' = MaxCrashes
  BY SettingKept DEF Next
<1> USE <1>0, ScanQueueAssumption DEF TypeInv, TypeOK, PlaceInv, Goto, Live, Queued, Working, Leaving, host, local, request, history, ClearInv, BeforeExit, ExitsClear, QueueState
<1>1. CASE Signal
  BY <1>1 DEF Signal, CancelCurrent, Armed
<1>2. CASE SignalMark
  BY <1>2 DEF SignalMark, RunningInstances, Registered
<1>3. CASE Restart
  BY <1>3 DEF Restart
<1>4. CASE Die
  BY <1>4 DEF Die, ProcessEnds
<1>5. CASE Crash
  BY <1>5 DEF Crash, ProcessEnds
<1>6. CASE Boot
  BY <1>6 DEF Boot, WithoutInvalid
<1>7. CASE AutoResume
  <2> DEFINE S == {i \in Id : Valid(i) /\ ~ file[i].paused}
  <2>1. CASE ResumeGate
    <3>1. PICK new, queueOf : Launches(S, new, queueOf)
      BY <1>7, <2>1, LaunchFacts DEF AutoResume, TypeInv, TypeOK
    <3> QED
      BY <1>7, <3>1 DEF AutoResume, Launches, Valid, WithoutInvalid
  <2>2. CASE ~ ResumeGate
    BY <1>7, <2>2 DEF AutoResume
  <2> QED
    BY <2>1, <2>2
<1> QED
  BY <1>1, <1>2, <1>3, <1>4, <1>5, <1>6, <1>7 DEF Host

\* When no panic, pause or end of the process keeps a run from its deferred cleanup, a queue file
\* of a scan the user stopped exists only until the run that wrote it late removes it (see
\* StopIsTerminal): StopInstance, DeleteScan and StopAllMark remove the file at once, and the
\* exit of runMultiScan removes what its saves wrote after that.
THEOREM QueueStopIsTerminal == Spec => [](ExitsClear => StopIsTerminal)
<1>1. Init => ClearInv
  <2> SUFFICES ASSUME Init, ExitsClear PROVE ClearInv
    BY DEF ClearInv
  <2> QED
    BY DEF Init, ClearInv
<1>2. TypeInv /\ IdentityInv /\ ClearInv /\ [Next]_vars => ClearInv'
  <2> SUFFICES ASSUME TypeInv, IdentityInv, ClearInv, [Next]_vars PROVE ClearInv'
    OBVIOUS
  <2>1. CASE Next
    BY <2>1, RunStepClear, HandlerClear, HostClear DEF Next
  <2>2. CASE UNCHANGED vars
    BY <2>2 DEF vars, ClearInv, ExitsClear, Commands, MaxCrashes
  <2> QED
    BY <2>1, <2>2
<1>3. TypeInv /\ IdentityInv /\ ClearInv => (ExitsClear => StopIsTerminal)
  <2> SUFFICES ASSUME TypeInv, IdentityInv, ClearInv, ExitsClear,
                      NEW i \in Id, file[i] # None, wish[file[i].scan] = "stopped"
               PROVE  \E r \in Run : id[r] = i /\ scan[r] = file[i].scan /\ WillClear(r)
    BY DEF StopIsTerminal
  <2>1. PICK r \in Run : id[r] = i /\ pc[r] \in BeforeExit
    BY DEF ClearInv
  <2>2. scan[r] = file[i].scan
    BY <2>1, ScanQueueAssumption DEF IdentityInv
  <2>3. WillClear(r)
    BY <2>1 DEF WillClear, BeforeExit, ClearInv
  <2> QED
    BY <2>1, <2>2, <2>3
<1> QED
  BY <1>1, <1>2, <1>3, QueueTypes, QueueIdentity, PTL DEF Spec

=============================================================================
