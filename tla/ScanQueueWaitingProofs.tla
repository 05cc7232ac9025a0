--------------------------- MODULE ScanQueueWaitingProofs ---------------------------
(*****************************************************************************)
(* A waiting scan keeps its queue file (see QueuedKeepsFile in ScanQueue).   *)
(*                                                                           *)
(* The invariant has a layer for what a status says of a run (StatusInv), for *)
(* two runs of one ID (RivalInv), for a run that goes on after a shutdown was *)
(* called off (AfterShutdownInv), for a run resumed under a new ID            *)
(* (SuccessorInv), and for the file itself (HeldInv).                         *)
(*****************************************************************************)
EXTENDS ScanQueueProofs

\* Queues are only resumed by auto-resume, are not cleared by the user, and no session panics.
Plain == {"resume", "queueResume", "queueClear", "sessionPanic"} \cap Commands = {}

\* A run that gave up its place in the queue because the server is going down.
ShutDown(r) == pc[r] \in Live /\ reason[r] = "server_shutdown"

\* Why a run is stopped, and what its status says about its place.
StatusOf(r) ==
  /\ status[r] = "failed" => Remaining(scan[r]) = {}
  /\ pc[r] \in Live /\ status[r] = "none" => pc[r] \in {"launched", "accepted"}
  /\ pc[r] \in Undecided => status[r] # "finished"
  /\ pc[r] \in Undecided /\ status[r] = "stopped" =>
       \/ wish[scan[r]] = "stopped"
       \/ reason[r] = "signal" /\ pc[r] \notin Queued \cup {"leave"}
       \/ reason[r] = "server_shutdown"
  /\ ShutDown(r) =>
       /\ server \in {"signalled", "stopping"} /\ status[r] = "stopped"
       /\ pc[r] \in {"leave", "mark", "check", "unset", "wake"}
  /\ pc[r] = "leave" => status[r] \in {"stopped", "failed"}
  /\ pc[r] \in Live \ {"accepted", "launched", "registered"} => wish[scan[r]] # "none"
  /\ from[r] \in {None, id[r]}
  /\ pc[r] \in {"idle", "accepted", "launched"} => reason[r] = "none"

StatusInv == Plain => \A r \in Run : StatusOf(r)

LEMMA RunStepStatus ==
  ASSUME TypeInv, IdentityInv, BeforeInv, StatusInv, NEW r \in Run, RunStep(r) \/ Panics(r)
  PROVE  StatusInv'
<1>0. /\ Commands' = Commands /\ Typed' = Typed /\ N' = N
  BY SettingKept DEF Next
<1> USE <1>0, ScanQueueAssumption DEF TypeInv, TypeOK, PlaceInv, Goto, Live, Queued, Working, Leaving, host, local, request, history, BeforeInv, StatusInv, StatusOf, Plain, ShutDown, Undecided, Remaining, Interrupted
<1>1. CASE Register(r)
  BY <1>1 DEF Register
<1>2. CASE PersistPending(r)
  BY <1>2 DEF PersistPending, SaveQueueState
<1>3. CASE CheckStopped(r)
  BY <1>3 DEF CheckStopped
<1>4. CASE CheckSlot(r)
  BY <1>4 DEF CheckSlot, MapUnlocked
<1>5. CASE Refuse(r)
  BY <1>5 DEF Refuse
<1>6. CASE Grant(r)
  BY <1>6 DEF Grant
<1>7. CASE Wake(r)
  BY <1>7 DEF Wake
<1>8. CASE ShutdownWhileParked(r)
  BY <1>8 DEF ShutdownWhileParked
<1>9. CASE Start(r)
  BY <1>9 DEF Start, SaveQueueState
<1>10. CASE ClearOld(r)
  BY <1>10 DEF ClearOld
<1>11. CASE NextTarget(r)
  BY <1>11 DEF NextTarget
<1>12. CASE SaveTarget(r)
  BY <1>12 DEF SaveTarget, SaveQueueState
<1>13. CASE Arm(r)
  BY <1>13 DEF Arm
<1>14. CASE BeginSession(r)
  BY <1>14 DEF BeginSession, SaveQueueState
<1>15. CASE SessionEnds(r)
  <2>1. /\ scan[r] \in Id /\ pc[r] = "session"
        /\ UNCHANGED <<id, scan, from, server, wish>>
        /\ \A c \in Id : done[c] \subseteq done'[c]
        /\ scan[r] \in Typed => 1..N \subseteq done'[scan[r]]
        /\ \A q \in Run : pc'[q] = (IF q = r THEN "after" ELSE pc[q])
        /\ \A q \in Run : \/ status'[q] = status[q] /\ reason'[q] = reason[q]
                          \/ /\ status'[q] = "failed" /\ reason'[q] = "none"
                             /\ q = instances[id[r]] /\ scan[r] \in Typed
    BY <1>15 DEF SessionEnds
  <2>2. \A q \in Run : q = instances[id[r]] =>
           scan[q] = scan[r] /\ pc[q] \notin {"idle", "accepted", "launched"}
    BY <2>1, ScanQueueAssumption DEF IdentityInv
  <2>3. \A q \in Run : status[q] = "failed" => scan[q] \in Id
    OBVIOUS
  <2> SUFFICES ASSUME Plain, NEW q \in Run PROVE StatusOf(q)'
    BY <1>0
  <2>5. StatusOf(q)
    OBVIOUS
  <2>6. CASE status'[q] = status[q] /\ reason'[q] = reason[q]
    <3>1. status[q] = "failed" => (Remaining(scan[q]) = {})'
      BY <1>0, <2>1, <2>3, <2>5
    <3> QED
      BY <2>1, <2>5, <2>6, <3>1
  <2>7. CASE /\ status'[q] = "failed" /\ reason'[q] = "none"
             /\ q = instances[id[r]] /\ scan[r] \in Typed
    <3>1. (Remaining(scan[q]) = {})'
      BY <1>0, <2>1, <2>2, <2>7
    <3> QED
      BY <2>1, <2>2, <2>5, <2>7, <3>1
  <2> QED
    BY <2>1, <2>6, <2>7
<1>16. CASE SessionAborted(r)
  BY <1>16 DEF SessionAborted
<1>17. CASE AfterTarget(r)
  BY <1>17 DEF AfterTarget
<1>18. CASE Advance(r)
  BY <1>18 DEF Advance, SaveQueueState
<1>19. CASE Exit(r)
  BY <1>19 DEF Exit, Preserved
<1>20. CASE LoadPaused(r)
  BY <1>20 DEF LoadPaused
<1>21. CASE MarkQueueStatePaused(r)
  BY <1>21 DEF MarkQueueStatePaused
<1>22. CASE CheckStillRunning(r)
  BY <1>22 DEF CheckStillRunning
<1>23. CASE UnsetRunning(r)
  BY <1>23 DEF UnsetRunning
<1>24. CASE WakeWaiter(r)
  BY <1>24 DEF WakeWaiter
<1>25. CASE ReplacePaused(r)
  BY <1>25 DEF ReplacePaused
<1>26. CASE Panic(r)
  BY <1>26 DEF Panic
<1>27. CASE SessionPanics(r)
  BY <1>27 DEF SessionPanics
<1> QED
  BY <1>1, <1>2, <1>3, <1>4, <1>5, <1>6, <1>7, <1>8, <1>9, <1>10, <1>11, <1>12, <1>13, <1>14, <1>15, <1>16, <1>17, <1>18, <1>19, <1>20, <1>21, <1>22, <1>23, <1>24, <1>25, <1>26, <1>27 DEF RunStep, Panics

LEMMA HandlerStatus ==
  ASSUME TypeInv, IdentityInv, BeforeInv, StatusInv, Handler
  PROVE  StatusInv'
<1>0. /\ Commands' = Commands /\ Typed' = Typed /\ N' = N
  BY SettingKept DEF Next
<1> USE <1>0, ScanQueueAssumption DEF TypeInv, TypeOK, PlaceInv, Goto, Live, Queued, Working, Leaving, host, local, request, history, BeforeInv, StatusInv, StatusOf, Plain, ShutDown, Undecided, Remaining, Interrupted
<1>1. ASSUME NEW i \in NewIds, NEW r \in NewRuns(1), HandleScan(r, i) PROVE StatusInv'
  <2>1. i \in Id /\ Fresh(i) /\ r \in Run /\ pc[r] = "idle"
    BY NewRunsAreIdle, NewIdsAreFresh DEF TypeInv, TypeOK
  <2> QED
    <3>1. /\ UNCHANGED <<status, reason, wish, server, done>>
          /\ \A q \in Run : q # r => /\ pc'[q] = pc[q] /\ scan'[q] = scan[q]
                                     /\ from'[q] = from[q] /\ id'[q] = id[q]
          /\ pc'[r] = "launched" /\ from'[r] = None /\ status[r] = "none"
      BY <1>1, <2>1 DEF HandleScan, Launch
    <3> QED
      BY <2>1, <3>1
<1>2. ASSUME NEW i \in Id, StopInstance(i) PROVE StatusInv'
  <2>1. /\ UNCHANGED <<pc, id, from, scan, server, done>>
        /\ \A q \in Run : \/ status'[q] = status[q] /\ reason'[q] = reason[q]
                          \/ /\ instances[i] = q /\ Active(q)
                             /\ status'[q] = "stopped" /\ reason'[q] = "user_stopped"
        /\ \A c \in Id : wish'[c] = (IF c \in ScansOf({i}) THEN "stopped" ELSE wish[c])
    BY <1>2 DEF StopInstance, MarkStopped, Wished
  <2>2. \A q \in Run : instances[i] = q =>
           /\ scan[q] \in ScansOf({i}) /\ scan[q] \in Id
           /\ pc[q] \notin {"idle", "accepted", "launched"}
    BY StopReaches, ScanQueueAssumption
  <2>3. \A q \in Run : pc[q] # "idle" => scan[q] \in Id
    OBVIOUS
  <2>4. \A q \in Run : pc[q] = "leave" /\ status[q] = "stopped" => status'[q] = "stopped"
    BY <2>1 DEF Active
  <2> SUFFICES ASSUME Plain, NEW q \in Run PROVE StatusOf(q)'
    BY <1>0
  <2>5. StatusOf(q)
    OBVIOUS
  <2>6. CASE status'[q] = status[q] /\ reason'[q] = reason[q]
    BY <2>1, <2>3, <2>5, <2>6
  <2>7. CASE /\ instances[i] = q /\ Active(q)
             /\ status'[q] = "stopped" /\ reason'[q] = "user_stopped"
    BY <2>1, <2>2, <2>5, <2>7
  <2> QED
    BY <2>1, <2>6, <2>7
<1>3. ASSUME NEW i \in Id, DeleteScan(i) PROVE StatusInv'
  <2>1. /\ UNCHANGED <<pc, id, from, scan, server, done>>
        /\ \A q \in Run : \/ status'[q] = status[q] /\ reason'[q] = reason[q]
                          \/ /\ instances[i] = q /\ Active(q)
                             /\ status'[q] = "stopped" /\ reason'[q] = "user_stopped"
        /\ \A c \in Id : wish'[c] = (IF c \in ScansOf({i}) THEN "stopped" ELSE wish[c])
    BY <1>3 DEF DeleteScan, MarkStopped, Wished
  <2>2. \A q \in Run : instances[i] = q =>
           /\ scan[q] \in ScansOf({i}) /\ scan[q] \in Id
           /\ pc[q] \notin {"idle", "accepted", "launched"}
    BY StopReaches, ScanQueueAssumption
  <2>3. \A q \in Run : pc[q] # "idle" => scan[q] \in Id
    OBVIOUS
  <2>4. \A q \in Run : pc[q] = "leave" /\ status[q] = "stopped" => status'[q] = "stopped"
    BY <2>1 DEF Active
  <2> SUFFICES ASSUME Plain, NEW q \in Run PROVE StatusOf(q)'
    BY <1>0
  <2>5. StatusOf(q)
    OBVIOUS
  <2>6. CASE status'[q] = status[q] /\ reason'[q] = reason[q]
    BY <2>1, <2>3, <2>5, <2>6
  <2>7. CASE /\ instances[i] = q /\ Active(q)
             /\ status'[q] = "stopped" /\ reason'[q] = "user_stopped"
    BY <2>1, <2>2, <2>5, <2>7
  <2> QED
    BY <2>1, <2>6, <2>7
<1>4. CASE StopAll
  BY <1>4 DEF StopAll, CancelCurrent, Armed
<1>5. CASE StopAllMark
  <2>1. /\ UNCHANGED <<pc, id, from, scan, done>> /\ server = "halting" /\ server' = "up"
        /\ \A q \in Run : \/ status'[q] = status[q] /\ reason'[q] = reason[q]
                          \/ /\ q \in Registered /\ Active(q)
                             /\ status'[q] = "stopped" /\ reason'[q] = "user_stopped"
        /\ \A c \in Id : wish'[c] = (IF c \in ScansOf(Id) THEN "stopped" ELSE wish[c])
    BY <1>5 DEF StopAllMark, MarkStopped, Wished
  <2>2. ASSUME NEW q \in Registered
        PROVE  /\ scan[q] \in ScansOf(Id) /\ scan[q] \in Id
               /\ pc[q] \notin {"idle", "accepted", "launched"}
    <3>1. PICK i \in Id : instances[i] = q
      BY DEF Registered
    <3>2. q \in Run
      BY DEF Registered
    <3> QED
      BY <3>1, <3>2, StopReaches, ScanQueueAssumption
  <2>3. \A q \in Run : pc[q] # "idle" => scan[q] \in Id
    OBVIOUS
  <2> SUFFICES ASSUME Plain, NEW q \in Run PROVE StatusOf(q)'
    BY <1>0
  <2>5. StatusOf(q)
    OBVIOUS
  <2>6. CASE status'[q] = status[q] /\ reason'[q] = reason[q]
    BY <2>1, <2>3, <2>5, <2>6
  <2>7. CASE /\ q \in Registered /\ Active(q)
             /\ status'[q] = "stopped" /\ reason'[q] = "user_stopped"
    BY <2>1, <2>2, <2>5, <2>7
  <2> QED
    BY <2>1, <2>6, <2>7
<1>6. ASSUME NEW i \in Id, PauseInstance(i) PROVE StatusInv'
  BY <1>6 DEF PauseInstance, Armed
<1>7. ASSUME NEW i \in Id, NEW j \in NewIds, NEW r \in NewRuns(1), ResumeInstance(i, r, j)
      PROVE  StatusInv'
  <2>1. j \in Id /\ Fresh(j) /\ r \in Run /\ pc[r] = "idle"
    BY NewRunsAreIdle, NewIdsAreFresh DEF TypeInv, TypeOK
  <2> QED
    BY <1>7, <2>1 DEF ResumeInstance, Launch, Valid, Fresh
<1>8. CASE HandleQueueResume
  <2>1. PICK new, queueOf : Launches({i \in Id : Valid(i)}, new, queueOf)
    BY <1>8, LaunchFacts DEF HandleQueueResume, TypeInv, TypeOK
  <2> QED
    BY <1>8, <2>1 DEF HandleQueueResume, Launches, Valid, WithoutInvalid, Wished
<1>9. CASE HandleQueueClear
  BY <1>9 DEF HandleQueueClear, Wished
<1> QED
  BY <1>1, <1>2, <1>3, <1>4, <1>5, <1>6, <1>7, <1>8, <1>9 DEF Handler

LEMMA HostStatus ==
  ASSUME TypeInv, IdentityInv, BeforeInv, StatusInv, Host
  PROVE  StatusInv'
<1>0. /\ Commands' = Commands /\ Typed' = Typed /\ N' = N
  BY SettingKept DEF Next
<1> USE <1>0, ScanQueueAssumption DEF TypeInv, TypeOK, PlaceInv, Goto, Live, Queued, Working, Leaving, host, local, request, history, BeforeInv, StatusInv, StatusOf, Plain, ShutDown, Undecided, Remaining, Interrupted
<1>1. CASE Signal
  BY <1>1 DEF Signal, CancelCurrent, Armed
<1>2. CASE SignalMark
  BY <1>2 DEF SignalMark, RunningInstances, Registered
<1>3. CASE Restart
  BY <1>3 DEF Restart
<1>4. CASE Die
  BY <1>4 DEF Die, ProcessEnds
<1>5. CASE Crash
  BY <1>5 DEF Crash, ProcessEnds
<1>6. CASE Boot
  BY <1>6 DEF Boot, WithoutInvalid
<1>7. CASE AutoResume
  <2> DEFINE S == {i \in Id : Valid(i) /\ ~ file[i].paused}
  <2>1. CASE ResumeGate
    <3>1. PICK new, queueOf : Launches(S, new, queueOf)
      BY <1>7, <2>1, LaunchFacts DEF AutoResume, TypeInv, TypeOK
    <3> QED
      <4>1. /\ UNCHANGED <<status, reason, wish, server, done>>
            /\ \A q \in Run : \/ /\ pc'[q] = pc[q] /\ scan'[q] = scan[q]
                                 /\ from'[q] = from[q] /\ id'[q] = id[q]
                              \/ /\ pc[q] = "idle" /\ pc'[q] = "launched" /\ from'[q] = id'[q]
        BY <1>7, <2>1, <3>1 DEF AutoResume, Launches
      <4>2. \A q \in Run : pc[q] = "idle" => status[q] = "none"
        OBVIOUS
      <4> QED
        BY <4>1, <4>2
  <2>2. CASE ~ ResumeGate
    BY <1>7, <2>2 DEF AutoResume
  <2> QED
    BY <2>1, <2>2
<1> QED
  BY <1>1, <1>2, <1>3, <1>4, <1>5, <1>6, <1>7 DEF Host

\* The runs of one ID are at most two: one of a scan that was accepted before the delayed
\* auto-resume and does not count as running any more, and one that was resumed.
RivalInv == Plain =>
  /\ \A q, r \in Run : q # r /\ pc[q] \in Live /\ pc[r] \in Live /\ id[q] = id[r] =>
       (from[q] = None <=> from[r] # None)
  /\ \A q, r \in Run : q # r /\ pc[q] \in Live /\ pc[r] \in Live /\ id[q] = id[r] /\ from[q] = None =>
       status[q] \notin {"none", "pending", "running"} /\ pc[q] # "grant"
  /\ resumeDue => \A r \in Run : pc[r] \in Live =>
       /\ from[r] = None
       /\ pc[r] \in Queued \/ ShutDown(r) =>
            next[r] = 1 /\ (file[id[r]] # None => file[id[r]].next = 1)

LEMMA RunStepRival ==
  ASSUME TypeInv, IdentityInv, AllOwnerInv, StatusInv, RivalInv, NEW r \in Run, RunStep(r) \/ Panics(r)
  PROVE  RivalInv'
<1>0. /\ Commands' = Commands /\ Typed' = Typed /\ N' = N
  BY SettingKept DEF Next
<1>a. Plain => ResumedOnceInv /\ ResumedOnce
  BY DEF Plain, ResumedOnce, AllOwnerInv
<1> USE <1>0, ScanQueueAssumption DEF TypeInv, TypeOK, PlaceInv, Goto, Live, Queued, Working, Leaving, host, local, request, history, RivalInv, ShutDown, Plain
<1>1. CASE Register(r)
  <2>1. status[r] = "none"
    BY <1>1 DEF Register, AllOwnerInv, BeforeInv
  <2>2. /\ UNCHANGED <<id, from, next, file, resumeDue, reason>>
        /\ pc[r] = "launched" /\ pc'[r] = "registered"
        /\ \A q \in Run : q # r => pc'[q] = pc[q] /\ status'[q] = status[q]
    BY <1>1 DEF Register
  <2> QED
    BY <2>1, <2>2, SMTT(30)
<1>2. CASE PersistPending(r)
  BY <1>2 DEF PersistPending, SaveQueueState
<1>3. CASE CheckStopped(r)
  BY <1>3 DEF CheckStopped
<1>4. CASE CheckSlot(r)
  BY <1>4 DEF CheckSlot, MapUnlocked
<1>5. CASE Refuse(r)
  BY <1>5 DEF Refuse
<1>6. CASE Grant(r)
  BY <1>6 DEF Grant
<1>7. CASE Wake(r)
  BY <1>7 DEF Wake
<1>8. CASE ShutdownWhileParked(r)
  BY <1>8 DEF ShutdownWhileParked
<1>9. CASE Start(r)
  BY <1>9 DEF Start, SaveQueueState
<1>10. CASE ClearOld(r)
  BY <1>10 DEF ClearOld
<1>11. CASE NextTarget(r)
  BY <1>11 DEF NextTarget
<1>12. CASE SaveTarget(r)
  BY <1>12 DEF SaveTarget, SaveQueueState
<1>13. CASE Arm(r)
  BY <1>13 DEF Arm
<1>14. CASE BeginSession(r)
  BY <1>14 DEF BeginSession, SaveQueueState
<1>15. CASE SessionEnds(r)
  BY <1>15 DEF SessionEnds
<1>16. CASE SessionAborted(r)
  BY <1>16 DEF SessionAborted
<1>17. CASE AfterTarget(r)
  <2>1. /\ UNCHANGED <<id, from, resumeDue, reason, status, file>>
        /\ pc[r] = "after" /\ pc'[r] \in {"exit", "loop", "advance"}
        /\ \A q \in Run : q # r => pc'[q] = pc[q]
        /\ \A q \in Run : q # r => next'[q] = next[q]
    BY <1>17 DEF AfterTarget
  <2>2. Plain => ~ ShutDown(r) /\ ~ ShutDown(r)'
    BY <2>1, <1>a DEF StatusInv, StatusOf
  <2> QED
    BY <2>1, <2>2
<1>18. CASE Advance(r)
  <2>1. /\ UNCHANGED <<id, from, resumeDue, reason, status>>
        /\ pc[r] = "advance" /\ pc'[r] \in {"loop"}
        /\ \A q \in Run : q # r => pc'[q] = pc[q]
        /\ \A q \in Run : q # r => next'[q] = next[q]
        /\ \A i \in Id : i # id[r] => file'[i] = file[i]
    BY <1>18 DEF Advance, SaveQueueState
  <2>2. Plain => ~ ShutDown(r) /\ ~ ShutDown(r)'
    BY <2>1, <1>a DEF StatusInv, StatusOf
  <2>3. Plain /\ resumeDue => \A q \in Run : pc[q] \in Live /\ id[q] = id[r] => q = r
    BY <1>a, <2>1 DEF ResumedOnceInv
  <2> QED
    BY <2>1, <2>2, <2>3
<1>19. CASE Exit(r)
  BY <1>19 DEF Exit, Preserved
<1>20. CASE LoadPaused(r)
  <2>1. /\ UNCHANGED <<id, from, resumeDue, reason, status, next, file>>
        /\ pc[r] = "mark" /\ pc'[r] \in {"markWrite", "check"}
        /\ \A q \in Run : q # r => pc'[q] = pc[q]
    BY <1>20 DEF LoadPaused
  <2> QED
    BY <2>1, SMTT(30)
<1>21. CASE MarkQueueStatePaused(r)
  <2>1. /\ UNCHANGED <<id, from, resumeDue, reason, status, next>>
        /\ pc[r] = "markWrite" /\ pc'[r] \in {"check"}
        /\ \A q \in Run : q # r => pc'[q] = pc[q]
        /\ \A i \in Id : i # id[r] => file'[i] = file[i]
    BY <1>21 DEF MarkQueueStatePaused
  <2>2. Plain => ~ ShutDown(r) /\ ~ ShutDown(r)'
    BY <2>1, <1>a DEF StatusInv, StatusOf
  <2>3. Plain /\ resumeDue => \A q \in Run : pc[q] \in Live /\ id[q] = id[r] => q = r
    BY <1>a, <2>1 DEF ResumedOnceInv
  <2>4. Plain /\ resumeDue' => \A q \in Run : pc'[q] \in Live =>
           /\ from'[q] = None
           /\ pc'[q] \in Queued \/ ShutDown(q)' =>
                next'[q] = 1 /\ (file'[id'[q]] # None => file'[id'[q]].next = 1)
    <3> SUFFICES ASSUME Plain, resumeDue, NEW q \in Run, pc'[q] \in Live
                 PROVE  /\ from[q] = None
                        /\ pc'[q] \in Queued \/ ShutDown(q)' =>
                             next[q] = 1 /\ (file'[id[q]] # None => file'[id[q]].next = 1)
      BY <2>1
    <3>1. CASE q = r
      BY <2>1, <2>2, <3>1
    <3>2. CASE q # r
      <4>1. pc[q] \in Live /\ id[q] # id[r] /\ (ShutDown(q)' => ShutDown(q)) /\ pc'[q] = pc[q]
        BY <2>1, <2>3, <3>2
      <4>2. file'[id[q]] = file[id[q]]
        BY <2>1, <4>1
      <4> QED
        BY <4>1, <4>2
    <3> QED
      BY <3>1, <3>2
  <2> QED
    BY <2>1, <2>4, SMTT(30)
<1>22. CASE CheckStillRunning(r)
  BY <1>22 DEF CheckStillRunning
<1>23. CASE UnsetRunning(r)
  BY <1>23 DEF UnsetRunning
<1>24. CASE WakeWaiter(r)
  BY <1>24 DEF WakeWaiter
<1>25. CASE ReplacePaused(r)
  BY <1>25 DEF ReplacePaused
<1>26. CASE Panic(r)
  BY <1>26 DEF Panic
<1>27. CASE SessionPanics(r)
  BY <1>27 DEF SessionPanics
<1> QED
  BY <1>1, <1>2, <1>3, <1>4, <1>5, <1>6, <1>7, <1>8, <1>9, <1>10, <1>11, <1>12, <1>13, <1>14, <1>15, <1>16, <1>17, <1>18, <1>19, <1>20, <1>21, <1>22, <1>23, <1>24, <1>25, <1>26, <1>27 DEF RunStep, Panics

LEMMA HandlerRival ==
  ASSUME TypeInv, IdentityInv, AllOwnerInv, StatusInv, RivalInv, Handler
  PROVE  RivalInv'
<1>0. /\ Commands' = Commands /\ Typed' = Typed /\ N' = N
  BY SettingKept DEF Next
<1>a. Plain => ResumedOnceInv /\ ResumedOnce
  BY DEF Plain, ResumedOnce, AllOwnerInv
<1> USE <1>0, ScanQueueAssumption DEF TypeInv, TypeOK, PlaceInv, Goto, Live, Queued, Working, Leaving, host, local, request, history, RivalInv, ShutDown, Plain
<1>1. ASSUME NEW i \in NewIds, NEW r \in NewRuns(1), HandleScan(r, i) PROVE RivalInv'
  <2>1. i \in Id /\ Fresh(i) /\ r \in Run /\ pc[r] = "idle"
    BY NewRunsAreIdle, NewIdsAreFresh DEF TypeInv, TypeOK
  <2> QED
    BY <1>1, <2>1 DEF HandleScan, Launch, Fresh
<1>2. ASSUME NEW i \in Id, StopInstance(i) PROVE RivalInv'
  BY <1>2 DEF StopInstance, MarkStopped, Wished, Armed, Active
<1>3. ASSUME NEW i \in Id, DeleteScan(i) PROVE RivalInv'
  BY <1>3 DEF DeleteScan, MarkStopped, Wished, Armed, Active
<1>4. CASE StopAll
  BY <1>4 DEF StopAll, CancelCurrent, Armed
<1>5. CASE StopAllMark
  BY <1>5 DEF StopAllMark, MarkStopped, Wished, Armed, Active, Registered
<1>6. ASSUME NEW i \in Id, PauseInstance(i) PROVE RivalInv'
  BY <1>6 DEF PauseInstance, Armed
<1>7. ASSUME NEW i \in Id, NEW j \in NewIds, NEW r \in NewRuns(1), ResumeInstance(i, r, j)
      PROVE  RivalInv'
  <2>1. j \in Id /\ Fresh(j) /\ r \in Run /\ pc[r] = "idle"
    BY NewRunsAreIdle, NewIdsAreFresh DEF TypeInv, TypeOK
  <2> QED
    BY <1>7, <2>1 DEF ResumeInstance, Launch, Valid, Fresh
<1>8. CASE HandleQueueResume
  <2>1. PICK new, queueOf : Launches({i \in Id : Valid(i)}, new, queueOf)
    BY <1>8, LaunchFacts DEF HandleQueueResume, TypeInv, TypeOK
  <2> QED
    BY <1>8, <2>1 DEF HandleQueueResume, Launches, Valid, WithoutInvalid, Wished
<1>9. CASE HandleQueueClear
  BY <1>9 DEF HandleQueueClear, Wished
<1> QED
  BY <1>1, <1>2, <1>3, <1>4, <1>5, <1>6, <1>7, <1>8, <1>9 DEF Handler

LEMMA HostRival ==
  ASSUME TypeInv, IdentityInv, AllOwnerInv, StatusInv, RivalInv, Host
  PROVE  RivalInv'
<1>0. /\ Commands' = Commands /\ Typed' = Typed /\ N' = N
  BY SettingKept DEF Next
<1>a. Plain => ResumedOnceInv /\ ResumedOnce
  BY DEF Plain, ResumedOnce, AllOwnerInv
<1> USE <1>0, ScanQueueAssumption DEF TypeInv, TypeOK, PlaceInv, Goto, Live, Queued, Working, Leaving, host, local, request, history, RivalInv, ShutDown, Plain
<1>1. CASE Signal
  BY <1>1 DEF Signal, CancelCurrent, Armed
<1>2. CASE SignalMark
  BY <1>2 DEF SignalMark, RunningInstances, Registered
<1>3. CASE Restart
  BY <1>3 DEF Restart
<1>4. CASE Die
  BY <1>4 DEF Die, ProcessEnds
<1>5. CASE Crash
  BY <1>5 DEF Crash, ProcessEnds
<1>6. CASE Boot
  <2>1. \A r \in Run : pc[r] \notin Live
    BY <1>6 DEF Boot, AllOwnerInv, BeforeInv
  <2> QED
    BY <1>6, <2>1 DEF Boot
<1>7. CASE AutoResume
  <2> DEFINE S == {i \in Id : Valid(i) /\ ~ file[i].paused}
  <2>1. CASE ResumeGate
    <3>1. PICK new, queueOf : Launches(S, new, queueOf)
      BY <1>7, <2>1, LaunchFacts DEF AutoResume, TypeInv, TypeOK
    <3> QED
      <4>1. /\ UNCHANGED <<status>> /\ resumeDue /\ ~ resumeDue'
            /\ \A q \in Run \ new : pc'[q] = pc[q] /\ from'[q] = from[q] /\ id'[q] = id[q]
            /\ \A q \in new : /\ q \in Run /\ pc'[q] = "launched" /\ from'[q] = id'[q]
                              /\ id'[q] \in Id /\ file[id'[q]] # None
            /\ \A q, p \in new : id'[q] = id'[p] => q = p
        BY <1>7, <2>1, <3>1 DEF AutoResume, Launches, Valid
      <4>2. ASSUME Plain, NEW q \in Run \ new, pc[q] \in Live, file[id[q]] # None
            PROVE  from[q] = None /\ status[q] \notin {"none", "pending", "running"} /\ pc[q] # "grant"
        <5>1. from[q] = None /\ pc[q] \notin {"accepted", "launched"}
          BY <1>a, <4>1, <4>2 DEF ResumedOnceInv
        <5>2. status[q] # "none"
          BY <4>2, <5>1 DEF StatusInv, StatusOf
        <5>3. ~ Claims(q)
          <6>1. Claims(q) => q \in Registered
            BY <1>a, <4>2 DEF AllOwnerInv, OwnerInv, Exclusive, Registered
          <6>2. pc[q] # "grant"
            BY <1>7 DEF AutoResume, MapUnlocked
          <6> QED
            BY <2>1, <6>1, <6>2 DEF ResumeGate, Claims
        <5> QED
          BY <5>1, <5>2, <5>3 DEF Claims
      <4>3. ASSUME Plain, NEW q \in Run \ new, NEW p \in Run \ new, q # p,
                   pc[q] \in Live, pc[p] \in Live, id[q] = id[p]
            PROVE  FALSE
        BY <1>a, <4>1, <4>3 DEF ResumedOnceInv
      <4> QED
        BY <4>1, <4>2, <4>3
  <2>2. CASE ~ ResumeGate
    BY <1>7, <2>2 DEF AutoResume
  <2> QED
    BY <2>1, <2>2
<1> QED
  BY <1>1, <1>2, <1>3, <1>4, <1>5, <1>6, <1>7 DEF Host

\* Of two runs of one ID, the one that is older.
OldOf(q, r) ==
  q # r /\ pc[q] \in Live /\ pc[r] \in Live /\ id[q] = id[r] /\ from[q] = None

\* A run that nobody cancels advances when its target was scanned.
GoesWell(r) ==
  /\ pc[r] \in Queued \cup (Working \ {"loop"}) => DoneUpTo(scan[r], next[r] - 1)
  /\ pc[r] = "loop" => Interrupted(r) \/ DoneUpTo(scan[r], next[r] - 1)
  /\ pc[r] \in {"progress", "session"} => ~ cancelled[r]
  /\ pc[r] = "after" => Interrupted(r) \/ Ended(r)
  /\ pc[r] = "advance" => next[r] \in done[scan[r]]
  /\ pc[r] = "exit" => Interrupted(r) \/ DoneUpTo(scan[r], N)

\* A run that was resumed after a SIGTERM, for a run that gave up its place, is not cancelled.
AfterShutdownInv == Plain =>
  \A q, r \in Run : OldOf(q, r) /\ ShutDown(q) => GoesWell(r)

LEMMA RunStepAfterShutdown ==
  ASSUME TypeInv, IdentityInv, AllOwnerInv, StatusInv, RivalInv, AfterShutdownInv, NEW r \in Run, RunStep(r) \/ Panics(r)
  PROVE  AfterShutdownInv'
<1>0. /\ Commands' = Commands /\ Typed' = Typed /\ N' = N /\ N \in Nat /\ N > 0
  BY SettingKept, SettingFacts DEF Next, TypeInv, TypeOK
<1>a. Plain => \A q \in Run : ShutDown(q) => server \in {"signalled", "stopping"}
  BY DEF StatusInv, StatusOf
<1> USE <1>0, <1>a, ScanQueueAssumption DEF TypeInv, TypeOK, PlaceInv, Goto, Live, Queued, Working, Leaving, host, local, request, history, AfterShutdownInv, OldOf, GoesWell, DoneUpTo, Ended, Interrupted, ShutDown, Plain
<1>1. CASE Register(r)
  BY <1>1 DEF Register
<1>2. CASE PersistPending(r)
  BY <1>2 DEF PersistPending, SaveQueueState
<1>3. CASE CheckStopped(r)
  BY <1>3 DEF CheckStopped
<1>4. CASE CheckSlot(r)
  BY <1>4 DEF CheckSlot, MapUnlocked
<1>5. CASE Refuse(r)
  BY <1>5 DEF Refuse
<1>6. CASE Grant(r)
  BY <1>6 DEF Grant
<1>7. CASE Wake(r)
  BY <1>7 DEF Wake
<1>8. CASE ShutdownWhileParked(r)
  <2>1. /\ UNCHANGED <<id, from, scan, next, cancelled, done>>
        /\ pc[r] = "parked" /\ pc'[r] = "leave"
        /\ \A q \in Run : q # r => /\ pc'[q] = pc[q] /\ status'[q] = status[q]
                                   /\ reason'[q] = reason[q]
        /\ \/ status[r] = "pending"
           \/ status'[r] = status[r] /\ reason'[r] = reason[r]
    BY <1>8 DEF ShutdownWhileParked
  <2>2. Plain => \A q \in Run : OldOf(r, q)' => ~ ShutDown(r)'
    <3>1. CASE status[r] = "pending"
      BY <2>1, <3>1 DEF RivalInv
    <3>2. CASE reason'[r] = reason[r]
      <4>1. Plain => reason[r] # "server_shutdown"
        BY <2>1 DEF StatusInv, StatusOf
      <4> QED
        BY <3>2, <4>1
    <3> QED
      BY <2>1, <3>1, <3>2
  <2> QED
    BY <2>1, <2>2
<1>9. CASE Start(r)
  BY <1>9 DEF Start, SaveQueueState
<1>10. CASE ClearOld(r)
  BY <1>10 DEF ClearOld
<1>11. CASE NextTarget(r)
  BY <1>11, SMTT(30) DEF NextTarget
<1>12. CASE SaveTarget(r)
  BY <1>12 DEF SaveTarget, SaveQueueState
<1>13. CASE Arm(r)
  BY <1>13 DEF Arm
<1>14. CASE BeginSession(r)
  BY <1>14 DEF BeginSession, SaveQueueState
<1>15. CASE SessionEnds(r)
  <2>1. /\ scan[r] \in Id /\ pc[r] = "session" /\ next[r] \in 1..N
        /\ UNCHANGED <<id, scan, from, next, cancelled>>
        /\ \A c \in Id : done[c] \subseteq done'[c]
        /\ scan[r] \in Typed => 1..N \subseteq done'[scan[r]]
        /\ scan[r] \notin Typed => next[r] \in done'[scan[r]]
        /\ \A q \in Run : pc'[q] = (IF q = r THEN "after" ELSE pc[q])
        /\ \A q \in Run : \/ status'[q] = status[q] /\ reason'[q] = reason[q]
                          \/ /\ status'[q] = "failed" /\ reason'[q] = "none"
                             /\ q = instances[id[r]] /\ scan[r] \in Typed
    BY <1>15 DEF SessionEnds
  <2>2. \A q \in Run : q = instances[id[r]] => scan[q] = scan[r]
    BY <2>1, ScanQueueAssumption, SMTT(30) DEF IdentityInv
  <2> SUFFICES ASSUME Plain, NEW q \in Run, NEW p \in Run, OldOf(q, p)', ShutDown(q)'
               PROVE  GoesWell(p)'
    BY <1>0
  <2>3. OldOf(q, p) /\ ShutDown(q)
    BY <2>1
  <2>4. GoesWell(p)
    BY <2>3
  <2>5. /\ scan[p] \in Id /\ scan'[p] = scan[p] /\ next'[p] = next[p] /\ next[p] \in 1..(N + 1)
        /\ pc[p] \in {"after", "advance", "session"} => next[p] \in 1..N
    BY <2>1, <2>3
  <2>6. \A n \in Nat : DoneUpTo(scan[p], n) => DoneUpTo(scan[p], n)'
    BY <2>1, <2>5
  <2>7. CASE p = r
    <3>1. pc'[p] = "after" /\ Ended(p)'
      BY <2>1, <2>5, <2>6, <2>7
    <3>2. DoneUpTo(scan[p], next[p] - 1)'
      BY <2>1, <2>4, <2>5, <2>6, <2>7
    <3> QED
      BY <3>1, <3>2
  <2>8. CASE p # r
    <3>1. pc'[p] = pc[p] /\ (pc[p] = "after" /\ Ended(p) => Ended(p)')
      BY <2>1, <2>5, <2>8
    <3>2. CASE status'[p] = status[p]
      BY <2>1, <2>4, <2>5, <2>6, <3>1, <3>2
    <3>3. CASE status'[p] = "failed" /\ p = instances[id[r]] /\ scan[r] \in Typed
      <4>1. 1..N \subseteq done'[scan[p]]
        BY <2>1, <2>2, <3>3
      <4>2. DoneUpTo(scan[p], next[p] - 1)' /\ DoneUpTo(scan[p], N)'
        BY <2>5, <4>1
      <4>3. pc[p] = "after" => Ended(p)'
        BY <2>5, <4>1
      <4> QED
        BY <2>1, <2>4, <2>5, <2>6, <3>1, <4>2, <4>3
    <3> QED
      BY <2>1, <3>2, <3>3
  <2> QED
    BY <2>7, <2>8
<1>16. CASE SessionAborted(r)
  BY <1>16 DEF SessionAborted
<1>17. CASE AfterTarget(r)
  BY <1>17 DEF AfterTarget
<1>18. CASE Advance(r)
  BY <1>18 DEF Advance, SaveQueueState
<1>19. CASE Exit(r)
  BY <1>19 DEF Exit, Preserved
<1>20. CASE LoadPaused(r)
  BY <1>20 DEF LoadPaused
<1>21. CASE MarkQueueStatePaused(r)
  BY <1>21 DEF MarkQueueStatePaused
<1>22. CASE CheckStillRunning(r)
  BY <1>22 DEF CheckStillRunning
<1>23. CASE UnsetRunning(r)
  BY <1>23 DEF UnsetRunning
<1>24. CASE WakeWaiter(r)
  BY <1>24 DEF WakeWaiter
<1>25. CASE ReplacePaused(r)
  BY <1>25 DEF ReplacePaused
<1>26. CASE Panic(r)
  BY <1>26 DEF Panic
<1>27. CASE SessionPanics(r)
  BY <1>27 DEF SessionPanics
<1> QED
  BY <1>1, <1>2, <1>3, <1>4, <1>5, <1>6, <1>7, <1>8, <1>9, <1>10, <1>11, <1>12, <1>13, <1>14, <1>15, <1>16, <1>17, <1>18, <1>19, <1>20, <1>21, <1>22, <1>23, <1>24, <1>25, <1>26, <1>27 DEF RunStep, Panics

LEMMA HandlerAfterShutdown ==
  ASSUME TypeInv, IdentityInv, AllOwnerInv, StatusInv, RivalInv, AfterShutdownInv, Handler
  PROVE  AfterShutdownInv'
<1>0. /\ Commands' = Commands /\ Typed' = Typed /\ N' = N /\ N \in Nat /\ N > 0
  BY SettingKept, SettingFacts DEF Next, TypeInv, TypeOK
<1>a. Plain => \A q \in Run : ShutDown(q) => server \in {"signalled", "stopping"}
  BY DEF StatusInv, StatusOf
<1> USE <1>0, <1>a, ScanQueueAssumption DEF TypeInv, TypeOK, PlaceInv, Goto, Live, Queued, Working, Leaving, host, local, request, history, AfterShutdownInv, OldOf, GoesWell, DoneUpTo, Ended, Interrupted, ShutDown, Plain
<1>1. ASSUME NEW i \in NewIds, NEW r \in NewRuns(1), HandleScan(r, i) PROVE AfterShutdownInv'
  <2>1. i \in Id /\ Fresh(i) /\ r \in Run /\ pc[r] = "idle"
    BY NewRunsAreIdle, NewIdsAreFresh DEF TypeInv, TypeOK
  <2> QED
    BY <1>1, <2>1 DEF HandleScan, Launch, Fresh
<1>2. ASSUME NEW i \in Id, StopInstance(i) PROVE AfterShutdownInv'
  <2>1. /\ server \in {"up", "halting"} /\ UNCHANGED pc
        /\ \A q \in Run : reason'[q] = reason[q] \/ reason'[q] = "user_stopped"
    BY <1>2 DEF StopInstance, Serving, MarkStopped
  <2>2. Plain => \A q \in Run : ~ ShutDown(q)'
    BY <1>a, <2>1
  <2> QED
    BY <2>2
<1>3. ASSUME NEW i \in Id, DeleteScan(i) PROVE AfterShutdownInv'
  <2>1. /\ server \in {"up", "halting"} /\ UNCHANGED pc
        /\ \A q \in Run : reason'[q] = reason[q] \/ reason'[q] = "user_stopped"
    BY <1>3 DEF DeleteScan, Serving, MarkStopped
  <2>2. Plain => \A q \in Run : ~ ShutDown(q)'
    BY <1>a, <2>1
  <2> QED
    BY <2>2
<1>4. CASE StopAll
  BY <1>4 DEF StopAll, CancelCurrent, Armed
<1>5. CASE StopAllMark
  BY <1>5 DEF StopAllMark, MarkStopped, Wished, Armed, Active, Registered
<1>6. ASSUME NEW i \in Id, PauseInstance(i) PROVE AfterShutdownInv'
  <2>1. /\ server \in {"up", "halting"} /\ UNCHANGED pc
        /\ \A q \in Run : reason'[q] = reason[q] \/ reason'[q] = "user_paused"
    BY <1>6 DEF PauseInstance, Serving
  <2>2. Plain => \A q \in Run : ~ ShutDown(q)'
    BY <1>a, <2>1
  <2> QED
    BY <2>2
<1>7. ASSUME NEW i \in Id, NEW j \in NewIds, NEW r \in NewRuns(1), ResumeInstance(i, r, j)
      PROVE  AfterShutdownInv'
  <2>1. j \in Id /\ Fresh(j) /\ r \in Run /\ pc[r] = "idle"
    BY NewRunsAreIdle, NewIdsAreFresh DEF TypeInv, TypeOK
  <2> QED
    BY <1>7, <2>1 DEF ResumeInstance, Launch, Valid, Fresh
<1>8. CASE HandleQueueResume
  <2>1. PICK new, queueOf : Launches({i \in Id : Valid(i)}, new, queueOf)
    BY <1>8, LaunchFacts DEF HandleQueueResume, TypeInv, TypeOK
  <2> QED
    BY <1>8, <2>1 DEF HandleQueueResume, Launches, Valid, WithoutInvalid, Wished
<1>9. CASE HandleQueueClear
  BY <1>9 DEF HandleQueueClear, Wished
<1> QED
  BY <1>1, <1>2, <1>3, <1>4, <1>5, <1>6, <1>7, <1>8, <1>9 DEF Handler

LEMMA HostAfterShutdown ==
  ASSUME TypeInv, IdentityInv, AllOwnerInv, StatusInv, RivalInv, AfterShutdownInv, Host
  PROVE  AfterShutdownInv'
<1>0. /\ Commands' = Commands /\ Typed' = Typed /\ N' = N /\ N \in Nat /\ N > 0
  BY SettingKept, SettingFacts DEF Next, TypeInv, TypeOK
<1>a. Plain => \A q \in Run : ShutDown(q) => server \in {"signalled", "stopping"}
  BY DEF StatusInv, StatusOf
<1> USE <1>0, <1>a, ScanQueueAssumption DEF TypeInv, TypeOK, PlaceInv, Goto, Live, Queued, Working, Leaving, host, local, request, history, AfterShutdownInv, OldOf, GoesWell, DoneUpTo, Ended, Interrupted, ShutDown, Plain
<1>1. CASE Signal
  BY <1>1 DEF Signal, CancelCurrent, Armed
<1>2. CASE SignalMark
  BY <1>2 DEF SignalMark, RunningInstances, Registered
<1>3. CASE Restart
  BY <1>3 DEF Restart
<1>4. CASE Die
  BY <1>4 DEF Die, ProcessEnds
<1>5. CASE Crash
  BY <1>5 DEF Crash, ProcessEnds
<1>6. CASE Boot
  BY <1>6 DEF Boot, WithoutInvalid
<1>7. CASE AutoResume
  <2> DEFINE S == {i \in Id : Valid(i) /\ ~ file[i].paused}
  <2>1. CASE ResumeGate
    <3>1. PICK new, queueOf : Launches(S, new, queueOf)
      BY <1>7, <2>1, LaunchFacts DEF AutoResume, TypeInv, TypeOK
    <3> QED
      <4>1. /\ UNCHANGED <<status, reason, cancelled, done>> /\ resumeDue
            /\ \A q \in Run \ new : /\ pc'[q] = pc[q] /\ from'[q] = from[q] /\ id'[q] = id[q]
                                    /\ scan'[q] = scan[q] /\ next'[q] = next[q]
            /\ \A q \in new : /\ q \in Run /\ pc'[q] = "launched" /\ from'[q] = id'[q]
                              /\ id'[q] \in Id /\ file[id'[q]] # None
                              /\ next'[q] = file[id'[q]].next
        BY <1>7, <2>1, <3>1 DEF AutoResume, Launches, Valid
      <4>2. ASSUME Plain, NEW q \in Run \ new, NEW p \in new, id[q] = id'[p], ShutDown(q)
            PROVE  next'[p] = 1
        BY <4>1, <4>2, SMTT(30) DEF RivalInv
      <4>3. \A c : DoneUpTo(c, 1 - 1)'
        OBVIOUS
      <4> SUFFICES ASSUME Plain, NEW q \in Run, NEW p \in Run, OldOf(q, p)', ShutDown(q)'
                   PROVE  GoesWell(p)'
        BY <1>0
      <4>4. q \notin new /\ ShutDown(q)
        BY <4>1
      <4>5. CASE p \in new
        BY <4>1, <4>2, <4>3, <4>4, <4>5
      <4>6. CASE p \notin new
        BY <4>1, <4>4, <4>6
      <4> QED
        BY <4>5, <4>6
  <2>2. CASE ~ ResumeGate
    BY <1>7, <2>2 DEF AutoResume
  <2> QED
    BY <2>1, <2>2
<1> QED
  BY <1>1, <1>2, <1>3, <1>4, <1>5, <1>6, <1>7 DEF Host

\* While the process lasts, a run another one was resumed from waits for nothing any more.
SuccessorInv == OneProcess /\ "queueClear" \notin Commands =>
  /\ server \in {"up", "halting"} /\ ~ resumeDue
  /\ \A r \in Run : reason[r] # "server_shutdown"
  /\ \A r \in Run : pc[r] \in Live \ {"accepted", "launched", "registered"} => wish[scan[r]] # "none"
  /\ \A q, r \in Run : from[q] # None /\ from[q] = id[r] => status[r] \notin {"none", "pending"}

LEMMA RunStepSuccessor ==
  ASSUME TypeInv, IdentityInv, AllOwnerInv, SuccessorInv, NEW r \in Run, RunStep(r) \/ Panics(r)
  PROVE  SuccessorInv'
<1>0. /\ Commands' = Commands /\ MaxCrashes' = MaxCrashes
  BY SettingKept DEF Next
<1>a. OneProcess => OneProcessInv
  BY DEF AllOwnerInv
<1> USE <1>0, <1>a, ScanQueueAssumption DEF TypeInv, TypeOK, PlaceInv, Goto, Live, Queued, Working, Leaving, host, local, request, history, SuccessorInv, OneProcess
<1>1. CASE Register(r)
  <2>1. status[r] = "none"
    BY <1>1 DEF Register, AllOwnerInv, BeforeInv
  <2>2. /\ UNCHANGED <<id, from, scan, server, resumeDue, reason, wish>>
        /\ pc[r] = "launched" /\ pc'[r] = "registered"
        /\ \A q \in Run : q # r => pc'[q] = pc[q] /\ status'[q] = status[q]
    BY <1>1 DEF Register
  <2> QED
    BY <2>1, <2>2
<1>2. CASE PersistPending(r)
  BY <1>2 DEF PersistPending, SaveQueueState
<1>3. CASE CheckStopped(r)
  BY <1>3 DEF CheckStopped
<1>4. CASE CheckSlot(r)
  BY <1>4 DEF CheckSlot, MapUnlocked
<1>5. CASE Refuse(r)
  BY <1>5 DEF Refuse
<1>6. CASE Grant(r)
  BY <1>6 DEF Grant
<1>7. CASE Wake(r)
  BY <1>7 DEF Wake
<1>8. CASE ShutdownWhileParked(r)
  BY <1>8 DEF ShutdownWhileParked
<1>9. CASE Start(r)
  BY <1>9 DEF Start, SaveQueueState
<1>10. CASE ClearOld(r)
  BY <1>10 DEF ClearOld
<1>11. CASE NextTarget(r)
  BY <1>11 DEF NextTarget
<1>12. CASE SaveTarget(r)
  BY <1>12 DEF SaveTarget, SaveQueueState
<1>13. CASE Arm(r)
  BY <1>13 DEF Arm
<1>14. CASE BeginSession(r)
  BY <1>14 DEF BeginSession, SaveQueueState
<1>15. CASE SessionEnds(r)
  BY <1>15 DEF SessionEnds
<1>16. CASE SessionAborted(r)
  BY <1>16 DEF SessionAborted
<1>17. CASE AfterTarget(r)
  BY <1>17 DEF AfterTarget
<1>18. CASE Advance(r)
  BY <1>18 DEF Advance, SaveQueueState
<1>19. CASE Exit(r)
  BY <1>19 DEF Exit, Preserved
<1>20. CASE LoadPaused(r)
  BY <1>20 DEF LoadPaused
<1>21. CASE MarkQueueStatePaused(r)
  BY <1>21 DEF MarkQueueStatePaused
<1>22. CASE CheckStillRunning(r)
  BY <1>22 DEF CheckStillRunning
<1>23. CASE UnsetRunning(r)
  BY <1>23 DEF UnsetRunning
<1>24. CASE WakeWaiter(r)
  BY <1>24 DEF WakeWaiter
<1>25. CASE ReplacePaused(r)
  BY <1>25 DEF ReplacePaused
<1>26. CASE Panic(r)
  BY <1>26 DEF Panic
<1>27. CASE SessionPanics(r)
  BY <1>27 DEF SessionPanics
<1> QED
  BY <1>1, <1>2, <1>3, <1>4, <1>5, <1>6, <1>7, <1>8, <1>9, <1>10, <1>11, <1>12, <1>13, <1>14, <1>15, <1>16, <1>17, <1>18, <1>19, <1>20, <1>21, <1>22, <1>23, <1>24, <1>25, <1>26, <1>27 DEF RunStep, Panics

LEMMA HandlerSuccessor ==
  ASSUME TypeInv, IdentityInv, AllOwnerInv, SuccessorInv, Handler
  PROVE  SuccessorInv'
<1>0. /\ Commands' = Commands /\ MaxCrashes' = MaxCrashes
  BY SettingKept DEF Next
<1>a. OneProcess => OneProcessInv
  BY DEF AllOwnerInv
<1> USE <1>0, <1>a, ScanQueueAssumption DEF TypeInv, TypeOK, PlaceInv, Goto, Live, Queued, Working, Leaving, host, local, request, history, SuccessorInv, OneProcess
<1>1. ASSUME NEW i \in NewIds, NEW r \in NewRuns(1), HandleScan(r, i) PROVE SuccessorInv'
  <2>1. i \in Id /\ Fresh(i) /\ r \in Run /\ pc[r] = "idle"
    BY NewRunsAreIdle, NewIdsAreFresh DEF TypeInv, TypeOK
  <2> QED
    <3>1. /\ UNCHANGED <<server, resumeDue, status, reason, wish>>
          /\ pc'[r] = "launched" /\ id'[r] = i /\ from'[r] = None
          /\ \A q \in Run : q # r => /\ pc'[q] = pc[q] /\ id'[q] = id[q] /\ id[q] # i
                                     /\ from'[q] = from[q] /\ scan'[q] = scan[q]
      BY <1>1, <2>1 DEF HandleScan, Launch, Fresh
    <3>2. \A q \in Run : from[q] # i
      BY <2>1, ScanQueueAssumption DEF IdentityInv, Fresh
    <3> SUFFICES ASSUME OneProcess, "queueClear" \notin Commands PROVE SuccessorInv'
      BY <1>0
    <3>3. \A q \in Run : pc'[q] \in Live \ {"accepted", "launched", "registered"} =>
            wish'[scan'[q]] # "none"
      BY <3>1
    <3>4. \A q, p \in Run : from'[q] # None /\ from'[q] = id'[p] => status'[p] \notin {"none", "pending"}
      BY <2>1, <3>1, <3>2
    <3> QED
      BY <3>1, <3>3, <3>4
<1>2. ASSUME NEW i \in Id, StopInstance(i) PROVE SuccessorInv'
  BY <1>2 DEF StopInstance, MarkStopped, Wished, Armed, Active
<1>3. ASSUME NEW i \in Id, DeleteScan(i) PROVE SuccessorInv'
  BY <1>3 DEF DeleteScan, MarkStopped, Wished, Armed, Active
<1>4. CASE StopAll
  BY <1>4 DEF StopAll, CancelCurrent, Armed
<1>5. CASE StopAllMark
  BY <1>5 DEF StopAllMark, MarkStopped, Wished, Armed, Active, Registered
<1>6. ASSUME NEW i \in Id, PauseInstance(i) PROVE SuccessorInv'
  BY <1>6 DEF PauseInstance, Armed
<1>7. ASSUME NEW i \in Id, NEW j \in NewIds, NEW r \in NewRuns(1), ResumeInstance(i, r, j)
      PROVE  SuccessorInv'
  <2>1. j \in Id /\ Fresh(j) /\ r \in Run /\ pc[r] = "idle"
    BY NewRunsAreIdle, NewIdsAreFresh DEF TypeInv, TypeOK
  <2> QED
    <3>1. /\ UNCHANGED <<server, resumeDue, status, reason, wish>>
          /\ pc'[r] = "accepted" /\ id'[r] = j /\ from'[r] = i /\ i # j
          /\ instances[i] # None /\ status[instances[i]] = "paused"
          /\ \A q \in Run : q # r => /\ pc'[q] = pc[q] /\ id'[q] = id[q] /\ id[q] # j
                                     /\ from'[q] = from[q] /\ scan'[q] = scan[q]
      BY <1>7, <2>1 DEF ResumeInstance, Launch, Fresh
    <3>2. \A q \in Run : from[q] # j
      BY <2>1, ScanQueueAssumption DEF IdentityInv, Fresh
    <3>3. OneProcess => \A q \in Run : q # r /\ id[q] = i => status[q] = "paused"
      <4>1. OneProcess => \A q \in Run : id[q] = i => q = instances[i]
        BY <3>1, ScanQueueAssumption DEF OneProcessInv
      <4> QED
        BY <3>1, <4>1
    <3> QED
      BY <2>1, <3>1, <3>2, <3>3, SMTT(30)
<1>8. CASE HandleQueueResume
  <2>1. PICK new, queueOf : Launches({i \in Id : Valid(i)}, new, queueOf)
    BY <1>8, LaunchFacts DEF HandleQueueResume, TypeInv, TypeOK
  <2> QED
    BY <1>8, <2>1 DEF HandleQueueResume, Launches, Valid, WithoutInvalid, Wished
<1>9. CASE HandleQueueClear
  BY <1>9 DEF HandleQueueClear, Wished
<1> QED
  BY <1>1, <1>2, <1>3, <1>4, <1>5, <1>6, <1>7, <1>8, <1>9 DEF Handler

LEMMA HostSuccessor ==
  ASSUME TypeInv, IdentityInv, AllOwnerInv, SuccessorInv, Host
  PROVE  SuccessorInv'
<1>0. /\ Commands' = Commands /\ MaxCrashes' = MaxCrashes
  BY SettingKept DEF Next
<1>a. OneProcess => OneProcessInv
  BY DEF AllOwnerInv
<1> USE <1>0, <1>a, ScanQueueAssumption DEF TypeInv, TypeOK, PlaceInv, Goto, Live, Queued, Working, Leaving, host, local, request, history, SuccessorInv, OneProcess
<1>1. CASE Signal
  BY <1>1 DEF Signal, CancelCurrent, Armed
<1>2. CASE SignalMark
  BY <1>2 DEF SignalMark, RunningInstances, Registered
<1>3. CASE Restart
  BY <1>3 DEF Restart
<1>4. CASE Die
  BY <1>4 DEF Die, ProcessEnds
<1>5. CASE Crash
  BY <1>5 DEF Crash, ProcessEnds
<1>6. CASE Boot
  BY <1>6 DEF Boot, WithoutInvalid
<1>7. CASE AutoResume
  <2> DEFINE S == {i \in Id : Valid(i) /\ ~ file[i].paused}
  <2>1. CASE ResumeGate
    <3>1. PICK new, queueOf : Launches(S, new, queueOf)
      BY <1>7, <2>1, LaunchFacts DEF AutoResume, TypeInv, TypeOK
    <3> QED
      BY <1>7, <3>1 DEF AutoResume, Launches, Valid, WithoutInvalid
  <2>2. CASE ~ ResumeGate
    BY <1>7, <2>2 DEF AutoResume
  <2> QED
    BY <2>1, <2>2
<1> QED
  BY <1>1, <1>2, <1>3, <1>4, <1>5, <1>6, <1>7 DEF Host

\* The settings in which a waiting scan keeps its file: those of Plain, those of one process in
\* which no queue is cleared, and those in which runs end by themselves.
Settled == Plain \/ (OneProcess /\ "queueClear" \notin Commands) \/ RunsToTheEnd

Holds(r) ==
  \/ pc[r] \in {"admit", "slot", "grant", "parked"} /\ status[r] = "pending"
  \/ ShutDown(r)

Due(r) == wish[scan[r]] \in {"run", "paused"} /\ Remaining(scan[r]) # {}

HeldInv == Settled => \A r \in Run : Holds(r) /\ Due(r) => file[id[r]] # None

LEMMA FileFacts ==
  ASSUME TypeInv
  PROVE  /\ \A i \in Id : file[i] # None => file[i].scan \in Id
         /\ \A r \in Run : loaded[r] # None =>
              [loaded[r] EXCEPT !.paused = TRUE] \in [scan : Id, next : Nat, paused : BOOLEAN]
<1>1. \A i \in Id : file[i] # None => file[i].scan \in Id
  BY DEF TypeInv, TypeOK, QueueState
<1>2. ASSUME NEW l \in QueueState
      PROVE  [l EXCEPT !.paused = TRUE] \in [scan : Id, next : Nat, paused : BOOLEAN]
  <2>1. l \in [scan : Id, next : Nat, paused : BOOLEAN]
    <3>1. 1..(N + 1) \subseteq Nat
      OBVIOUS
    <3> QED
      BY <3>1 DEF QueueState
  <2> QED
    BY <2>1
<1> QED
  BY <1>1, <1>2 DEF TypeInv, TypeOK

LEMMA SavedFile ==
  ASSUME NEW F, file \in [Id -> F], NEW i \in Id,
         NEW x \in [scan : Id, next : Nat, paused : BOOLEAN],
         file' = [file EXCEPT ![i] = x]
  PROVE  file'[i] # None /\ \A k \in Id : k # i => file'[k] = file[k]
BY SavedIsThere

\* Holds(r) follows a run that keeps its status and its reason, and waits no longer than before.
LEMMA SaveHolds ==
  ASSUME TypeInv, HeldInv, Settled' = Settled, N' = N, NEW r \in Run, pc[r] \in Live,
         pc'[r] \notin {"admit", "slot", "grant", "parked"},
         UNCHANGED <<id, scan, done, wish, status, reason>>,
         \A i \in Id : file[i] # None => file'[i] # None,
         \A q \in Run : q # r => pc'[q] = pc[q]
  PROVE  HeldInv'
<1> SUFFICES ASSUME Settled, NEW q \in Run, Holds(q)', Due(q)'
             PROVE  file'[id'[q]] # None
  BY DEF HeldInv
<1>1. Due(q)
  BY DEF Due, Remaining
<1>2. Holds(q)
  BY DEF Holds, ShutDown
<1>3. id[q] \in Id /\ id'[q] = id[q]
  BY <1>2 DEF Holds, ShutDown, TypeInv, PlaceInv, Live, Queued, Working, Leaving
<1> QED
  BY <1>1, <1>2, <1>3 DEF HeldInv

\* Queue files go, but only those of scans that were stopped or cleared.
LEMMA DropHolds ==
  ASSUME TypeInv, IdentityInv, HeldInv, Settled' = Settled, N' = N,
         UNCHANGED <<id, scan, done>>,
         \A i \in Id : file'[i] \in {None, file[i]},
         \A i \in Id : file[i] # None /\ file'[i] = None => wish'[file[i].scan] \in {"stopped", "none"},
         \A c \in Id : wish'[c] = wish[c] \/ wish'[c] \in {"stopped", "none"},
         \A q \in Run : Holds(q)' => Holds(q)
  PROVE  HeldInv'
<1> SUFFICES ASSUME Settled, NEW q \in Run, Holds(q)', Due(q)'
             PROVE  file'[id'[q]] # None
  BY DEF HeldInv
<1>1. Holds(q)
  OBVIOUS
<1>2. id[q] \in Id /\ scan[q] \in Id /\ id'[q] = id[q] /\ scan'[q] = scan[q]
  BY <1>1 DEF Holds, ShutDown, TypeInv, PlaceInv, Live, Queued, Working, Leaving
<1>3. Due(q) /\ wish'[scan[q]] \notin {"stopped", "none"}
  BY <1>2 DEF Due, Remaining
<1>4. file[id[q]] # None
  BY <1>1, <1>3 DEF HeldInv
<1>5. file[id[q]].scan = scan[q]
  BY <1>2, <1>4, ScanQueueAssumption DEF IdentityInv
<1> QED
  BY <1>2, <1>3, <1>4, <1>5

\* The exit of a run spares the file of another run that waits under its ID.
LEMMA ExitSpares ==
  ASSUME TypeInv, IdentityInv, StatusInv, RivalInv, AfterShutdownInv, Plain,
         NEW r \in Run, pc[r] \in {"exit", "leave", "panicked"}, ~ Preserved(r),
         NEW q \in Run, q # r, Holds(q), Due(q), id[q] = id[r]
  PROVE  FALSE
<1>1. pc[q] \in Live /\ pc[r] \in Live /\ id[q] \in Id
  BY DEF Holds, ShutDown, TypeInv, PlaceInv, Live, Queued, Working, Leaving
<1>2. scan[r] = scan[q]
  BY <1>1, ScanQueueAssumption DEF IdentityInv
<1>3. wish[scan[r]] # "stopped" /\ Remaining(scan[r]) # {}
  BY <1>2 DEF Due
<1>4. StatusOf(r)
  BY DEF StatusInv
<1>5. pc[r] # "panicked" /\ status[r] # "failed" /\ status[r] # "finished"
  BY <1>3, <1>4 DEF StatusOf, Preserved, Undecided
<1>6. ASSUME status[r] = "stopped" PROVE FALSE
  <2>1. pc[r] \in Undecided
    BY DEF Undecided
  <2>2. reason[r] \in {"signal", "server_shutdown"}
    BY <1>3, <1>4, <1>6, <2>1 DEF StatusOf
  <2>3. reason[r] # "server_shutdown"
    BY <1>1, <1>4, <1>6 DEF StatusOf, ShutDown, Preserved
  <2>4. pc[r] = "exit" /\ reason[r] = "signal"
    BY <1>3, <1>4, <1>5, <1>6, <2>1, <2>2, <2>3 DEF StatusOf
  <2> QED
    BY <2>4 DEF Preserved
<1>7. pc[r] = "exit" /\ ~ Interrupted(r)
  BY <1>4, <1>5, <1>6 DEF StatusOf, Preserved, Interrupted
<1>8. CASE from[r] = None
  BY <1>1, <1>4, <1>5, <1>7, <1>8 DEF RivalInv, TypeInv, TypeOK, Interrupted
<1>9. CASE from[r] # None
  <2>1. OldOf(q, r)
    BY <1>1, <1>9 DEF RivalInv, OldOf
  <2>2. ShutDown(q)
    BY <2>1 DEF RivalInv, OldOf, Holds
  <2>3. DoneUpTo(scan[r], N)
    BY <1>7, <2>1, <2>2 DEF AfterShutdownInv, GoesWell
  <2> QED
    BY <1>3, <2>3 DEF DoneUpTo, Remaining
<1> QED
  BY <1>8, <1>9

\* Where queues are resumed, nothing that waits is overlooked.
LEMMA GateHolds ==
  ASSUME TypeInv, AllOwnerInv, ResumeGate, Settled, NEW q \in Run,
         pc[q] \in {"admit", "slot", "grant", "parked"}, status[q] = "pending"
  PROVE  FALSE
<1>1. Exclusive
  BY DEF Settled, Exclusive, Plain, ResumedOnce
<1>2. instances[id[q]] = q /\ id[q] \in Id
  BY <1>1 DEF AllOwnerInv, OwnerInv, Claims, TypeInv, PlaceInv
<1> QED
  BY <1>2 DEF ResumeGate, Registered

LEMMA RunStepHeld ==
  ASSUME TypeInv, IdentityInv, AllOwnerInv, OwnScanInv, StatusInv, RivalInv, AfterShutdownInv,
         SuccessorInv, HeldInv, NEW r \in Run, RunStep(r) \/ Panics(r)
  PROVE  HeldInv'
<1>0. /\ Commands' = Commands /\ MaxCrashes' = MaxCrashes /\ Typed' = Typed /\ N' = N
      /\ N \in Nat /\ N > 0 /\ Settled' = Settled
  BY SettingKept, SettingFacts
     DEF Next, TypeInv, TypeOK, Settled, Plain, OneProcess, RunsToTheEnd
<1>a. /\ Plain => ResumedOnceInv /\ ResumedOnce
      /\ OneProcess => OneProcessInv
      /\ RunsToTheEnd => RunsToTheEndInv
      /\ Settled => Exclusive /\ OwnerInv
  BY DEF AllOwnerInv, Settled, Exclusive, Plain, ResumedOnce, OwnerInv
<1> USE <1>0, <1>a, ScanQueueAssumption DEF TypeInv, TypeOK, PlaceInv, Goto, Live, Queued, Working, Leaving, host, local, request, history, HeldInv, Holds, Due, ShutDown, Remaining
<1>1. CASE Register(r)
  BY <1>1 DEF Register
<1>2. CASE PersistPending(r)
  <2> DEFINE x == [scan |-> scan[r], next |-> next[r], paused |-> FALSE]
  <2>1. /\ id[r] \in Id /\ scan[r] \in Id /\ pc[r] = "registered"
        /\ UNCHANGED <<id, scan, done, status, reason>>
        /\ file' = [file EXCEPT ![id[r]] = x]
        /\ \A q \in Run : q # r => pc'[q] = pc[q]
        /\ \A c \in Id : wish'[c] = wish[c] \/ (c = scan[r] /\ wish[c] = "none")
    BY <1>2 DEF PersistPending, SaveQueueState
  <2>x. x \in [scan : Id, next : Nat, paused : BOOLEAN]
    BY <1>0, <2>1
  <2>f. file \in [Id -> QueueState \cup {None}]
    OBVIOUS
  <2> HIDE DEF x
  <2>2. file'[id[r]] # None /\ \A k \in Id : k # id[r] => file'[k] = file[k]
    BY <2>1, <2>x, <2>f, SavedFile
  <2> SUFFICES ASSUME Settled, NEW q \in Run, q # r, Holds(q)', Due(q)'
               PROVE  file'[id'[q]] # None
    BY <2>1, <2>2
  <2>3. Holds(q) /\ pc[q] \in Live /\ id[q] \in Id /\ scan[q] \in Id
    BY <2>1
  <2>4. CASE wish'[scan[q]] = wish[scan[q]]
    BY <2>1, <2>2, <2>3, <2>4
  <2>5. CASE scan[q] = scan[r] /\ wish[scan[q]] = "none"
    <3>1. RunsToTheEnd
      BY <2>3, <2>5 DEF Settled, StatusInv, StatusOf, SuccessorInv
    <3>2. id[q] = id[r] /\ pc[r] \in Live
      BY <2>1, <2>5, <3>1 DEF RunsToTheEnd, OwnScanInv
    <3> QED
      BY <1>a, <2>3, <3>1, <3>2 DEF RunsToTheEndInv
  <2> QED
    BY <2>1, <2>3, <2>4, <2>5
<1>3. CASE CheckStopped(r)
  BY <1>3 DEF CheckStopped
<1>4. CASE CheckSlot(r)
  BY <1>4 DEF CheckSlot, MapUnlocked
<1>5. CASE Refuse(r)
  BY <1>5 DEF Refuse
<1>6. CASE Grant(r)
  BY <1>6 DEF Grant
<1>7. CASE Wake(r)
  BY <1>7 DEF Wake
<1>8. CASE ShutdownWhileParked(r)
  BY <1>8 DEF ShutdownWhileParked
<1>9. CASE Start(r)
  <2> DEFINE x == [scan |-> scan[r], next |-> next[r], paused |-> FALSE]
  <2>1. /\ id[r] \in Id /\ pc[r] \in Live
        /\ UNCHANGED <<id, scan, done, wish, status, reason>>
        /\ file' = [file EXCEPT ![id[r]] = x]
        /\ \A q \in Run : q # r => pc'[q] = pc[q]
        /\ pc'[r] \notin {"admit", "slot", "grant", "parked"}
    BY <1>9 DEF Start, SaveQueueState
  <2>2. x \in [scan : Id, next : Nat, paused : BOOLEAN]
    BY <1>9 DEF Start
  <2> HIDE DEF x, HeldInv
  <2>3. \A i \in Id : file[i] # None => file'[i] # None
    BY <2>1, <2>2, SavedFile
  <2> QED
    BY <2>1, <2>3, SaveHolds
<1>10. CASE ClearOld(r)
  <2>1. /\ from[r] \in Id /\ from[r] # id[r] /\ pc[r] = "clearOld"
        /\ UNCHANGED <<id, scan, done, status, reason, wish>>
        /\ \A q \in Run : q # r => pc'[q] = pc[q]
        /\ pc'[r] = "loop"
        /\ \A k \in Id : k # from[r] => file'[k] = file[k]
    BY <1>10 DEF ClearOld, IdentityInv
  <2> SUFFICES ASSUME Settled, NEW q \in Run, Holds(q)', Due(q)'
               PROVE  file'[id'[q]] # None
    OBVIOUS
  <2>2. Holds(q) /\ Due(q) /\ id[q] \in Id
    BY <2>1
  <2>3. CASE OneProcess /\ "queueClear" \notin Commands
    <3>1. id[q] # from[r]
      BY <2>1, <2>2, <2>3 DEF SuccessorInv
    <3> QED
      BY <2>1, <2>2, <3>1
  <2>4. CASE Plain \/ RunsToTheEnd
    <3>1. PICK p \in Run : id[p] = from[r] /\ scan[p] = scan[r]
      BY <2>1 DEF IdentityInv
    <3>2. from[r] = id[r]
      BY <2>4, <3>1 DEF OwnScanInv, Plain, RunsToTheEnd
    <3> QED
      BY <2>1, <3>2
  <2> QED
    BY <2>3, <2>4 DEF Settled
<1>11. CASE NextTarget(r)
  BY <1>11 DEF NextTarget
<1>12. CASE SaveTarget(r)
  <2> DEFINE x == [scan |-> scan[r], next |-> next[r], paused |-> FALSE]
  <2>1. /\ id[r] \in Id /\ pc[r] \in Live
        /\ UNCHANGED <<id, scan, done, wish, status, reason>>
        /\ file' = [file EXCEPT ![id[r]] = x]
        /\ \A q \in Run : q # r => pc'[q] = pc[q]
        /\ pc'[r] \notin {"admit", "slot", "grant", "parked"}
    BY <1>12 DEF SaveTarget, SaveQueueState
  <2>2. x \in [scan : Id, next : Nat, paused : BOOLEAN]
    BY <1>12 DEF SaveTarget
  <2> HIDE DEF x, HeldInv
  <2>3. \A i \in Id : file[i] # None => file'[i] # None
    BY <2>1, <2>2, SavedFile
  <2> QED
    BY <2>1, <2>3, SaveHolds
<1>13. CASE Arm(r)
  BY <1>13 DEF Arm
<1>14. CASE BeginSession(r)
  <2> DEFINE x == [scan |-> scan[r], next |-> next[r], paused |-> FALSE]
  <2>1. /\ id[r] \in Id /\ pc[r] \in Live
        /\ UNCHANGED <<id, scan, done, wish, status, reason>>
        /\ file' = [file EXCEPT ![id[r]] = x]
        /\ \A q \in Run : q # r => pc'[q] = pc[q]
        /\ pc'[r] \notin {"admit", "slot", "grant", "parked"}
    BY <1>14 DEF BeginSession, SaveQueueState
  <2>2. x \in [scan : Id, next : Nat, paused : BOOLEAN]
    BY <1>14 DEF BeginSession
  <2> HIDE DEF x, HeldInv
  <2>3. \A i \in Id : file[i] # None => file'[i] # None
    BY <2>1, <2>2, SavedFile
  <2> QED
    BY <2>1, <2>3, SaveHolds
<1>15. CASE SessionEnds(r)
  BY <1>15 DEF SessionEnds
<1>16. CASE SessionAborted(r)
  BY <1>16 DEF SessionAborted
<1>17. CASE AfterTarget(r)
  BY <1>17 DEF AfterTarget
<1>18. CASE Advance(r)
  <2> DEFINE x == [scan |-> scan[r], next |-> next[r] + 1, paused |-> FALSE]
  <2>1. /\ id[r] \in Id /\ pc[r] \in Live
        /\ UNCHANGED <<id, scan, done, wish, status, reason>>
        /\ file' = [file EXCEPT ![id[r]] = x]
        /\ \A q \in Run : q # r => pc'[q] = pc[q]
        /\ pc'[r] \notin {"admit", "slot", "grant", "parked"}
    BY <1>18 DEF Advance, SaveQueueState
  <2>2. x \in [scan : Id, next : Nat, paused : BOOLEAN]
    BY <1>18 DEF Advance
  <2> HIDE DEF x, HeldInv
  <2>3. \A i \in Id : file[i] # None => file'[i] # None
    BY <2>1, <2>2, SavedFile
  <2> QED
    BY <2>1, <2>3, SaveHolds
<1>19. CASE Exit(r)
  <2>1. /\ id[r] \in Id /\ pc[r] \in {"exit", "leave", "panicked"} /\ pc'[r] = "mark"
        /\ UNCHANGED <<id, scan, done, wish>>
        /\ \A q \in Run : q # r => /\ pc'[q] = pc[q] /\ status'[q] = status[q]
                                   /\ reason'[q] = reason[q]
        /\ reason'[r] \in {reason[r], "panic_recovered"}
        /\ \A i \in Id : i # id[r] => file'[i] = file[i]
        /\ Preserved(r) => file' = file
    BY <1>19 DEF Exit
  <2> SUFFICES ASSUME Settled, NEW q \in Run, Holds(q)', Due(q)'
               PROVE  file'[id'[q]] # None
    OBVIOUS
  <2>2. Holds(q) /\ Due(q) /\ id[q] \in Id /\ pc[q] \in Live
    BY <2>1
  <2>3. CASE q = r
    <3>1. reason[r] = "server_shutdown"
      BY <2>1, <2>3
    <3>2. Plain
      BY <1>a, <2>2, <3>1 DEF Settled, SuccessorInv, RunsToTheEndInv
    <3>3. pc[r] = "leave"
      BY <2>1, <3>1, <3>2 DEF StatusInv, StatusOf
    <3> QED
      BY <2>1, <2>2, <2>3, <3>1, <3>3 DEF Preserved
  <2>4. CASE q # r /\ id[q] = id[r] /\ ~ Preserved(r)
    <3>1. Plain
      BY <1>a, <2>1, <2>2, <2>4 DEF Settled, OneProcessInv, RunsToTheEndInv
    <3> HIDE DEF HeldInv, Holds, Due, ShutDown, TypeInv, TypeOK, PlaceInv
    <3> QED
      BY <2>1, <2>2, <2>4, <3>1, ExitSpares
  <2> QED
    BY <2>1, <2>2, <2>3, <2>4
<1>20. CASE LoadPaused(r)
  BY <1>20 DEF LoadPaused
<1>21. CASE MarkQueueStatePaused(r)
  <2> DEFINE x == [loaded[r] EXCEPT !.paused = TRUE]
  <2>1. /\ id[r] \in Id /\ pc[r] \in Live
        /\ UNCHANGED <<id, scan, done, wish, status, reason>>
        /\ file' = [file EXCEPT ![id[r]] = x]
        /\ \A q \in Run : q # r => pc'[q] = pc[q]
        /\ pc'[r] \notin {"admit", "slot", "grant", "parked"}
    BY <1>21 DEF MarkQueueStatePaused
  <2>2. x \in [scan : Id, next : Nat, paused : BOOLEAN]
    <3>1. loaded[r] # None
      BY <1>21 DEF MarkQueueStatePaused
    <3> HIDE DEF TypeInv
    <3> QED
      BY <3>1, FileFacts
  <2> HIDE DEF x, HeldInv
  <2>3. \A i \in Id : file[i] # None => file'[i] # None
    BY <2>1, <2>2, SavedFile
  <2> QED
    BY <2>1, <2>3, SaveHolds
<1>22. CASE CheckStillRunning(r)
  BY <1>22 DEF CheckStillRunning
<1>23. CASE UnsetRunning(r)
  BY <1>23 DEF UnsetRunning
<1>24. CASE WakeWaiter(r)
  BY <1>24 DEF WakeWaiter
<1>25. CASE ReplacePaused(r)
  BY <1>25 DEF ReplacePaused
<1>26. CASE Panic(r)
  BY <1>26 DEF Panic
<1>27. CASE SessionPanics(r)
  BY <1>27 DEF SessionPanics
<1> QED
  BY <1>1, <1>2, <1>3, <1>4, <1>5, <1>6, <1>7, <1>8, <1>9, <1>10, <1>11, <1>12, <1>13, <1>14, <1>15, <1>16, <1>17, <1>18, <1>19, <1>20, <1>21, <1>22, <1>23, <1>24, <1>25, <1>26, <1>27 DEF RunStep, Panics

LEMMA HandlerHeld ==
  ASSUME TypeInv, IdentityInv, AllOwnerInv, OwnScanInv, StatusInv, RivalInv, AfterShutdownInv,
         SuccessorInv, HeldInv, Handler
  PROVE  HeldInv'
<1>0. /\ Commands' = Commands /\ MaxCrashes' = MaxCrashes /\ Typed' = Typed /\ N' = N
      /\ N \in Nat /\ N > 0 /\ Settled' = Settled
  BY SettingKept, SettingFacts
     DEF Next, TypeInv, TypeOK, Settled, Plain, OneProcess, RunsToTheEnd
<1>a. /\ Plain => ResumedOnceInv /\ ResumedOnce
      /\ OneProcess => OneProcessInv
      /\ RunsToTheEnd => RunsToTheEndInv
      /\ Settled => Exclusive /\ OwnerInv
  BY DEF AllOwnerInv, Settled, Exclusive, Plain, ResumedOnce, OwnerInv
<1> USE <1>0, <1>a, ScanQueueAssumption DEF TypeInv, TypeOK, PlaceInv, Goto, Live, Queued, Working, Leaving, host, local, request, history, HeldInv, Holds, Due, ShutDown, Remaining
<1>1. ASSUME NEW i \in NewIds, NEW r \in NewRuns(1), HandleScan(r, i) PROVE HeldInv'
  <2>1. i \in Id /\ Fresh(i) /\ r \in Run /\ pc[r] = "idle"
    BY NewRunsAreIdle, NewIdsAreFresh DEF TypeInv, TypeOK
  <2> QED
    <3>1. /\ UNCHANGED <<status, reason, wish, done, file>>
          /\ pc'[r] = "launched"
          /\ \A q \in Run : q # r => /\ pc'[q] = pc[q] /\ id'[q] = id[q] /\ scan'[q] = scan[q]
      BY <1>1, <2>1 DEF HandleScan, Launch
    <3>2. Settled => reason[r] # "server_shutdown"
      BY <1>a, <2>1 DEF Settled, StatusInv, StatusOf, SuccessorInv, RunsToTheEndInv
    <3> QED
      BY <2>1, <3>1, <3>2
<1>2. ASSUME NEW i \in Id, StopInstance(i) PROVE HeldInv'
  <2>1. /\ UNCHANGED <<pc, id, scan, done>>
        /\ \A q \in Run : \/ status'[q] = status[q] /\ reason'[q] = reason[q]
                          \/ status'[q] = "stopped" /\ reason'[q] = "user_stopped"
        /\ file' = [file EXCEPT ![i] = None]
        /\ \A c \in Id : wish'[c] = (IF c \in ScansOf({i}) THEN "stopped" ELSE wish[c])
    BY <1>2 DEF StopInstance, MarkStopped, Wished
  <2>2. file[i] # None => file[i].scan \in ScansOf({i}) /\ file[i].scan \in Id
    <3> HIDE DEF TypeInv
    <3> QED
      BY StopReaches, FileFacts
  <2>3. \A q \in Run : Holds(q)' => Holds(q)
    BY <2>1
  <2>4. \A k \in Id : file[k] # None /\ file'[k] = None => wish'[file[k].scan] \in {"stopped", "none"}
    BY <2>1, <2>2
  <2>5. /\ \A k \in Id : file'[k] \in {None, file[k]}
        /\ \A c \in Id : wish'[c] = wish[c] \/ wish'[c] \in {"stopped", "none"}
    BY <2>1
  <2> HIDE DEF HeldInv, Holds, Due, ShutDown, TypeInv, TypeOK, PlaceInv
  <2> QED
    BY <2>1, <2>3, <2>4, <2>5, DropHolds
<1>3. ASSUME NEW i \in Id, DeleteScan(i) PROVE HeldInv'
  <2>1. /\ UNCHANGED <<pc, id, scan, done>>
        /\ \A q \in Run : \/ status'[q] = status[q] /\ reason'[q] = reason[q]
                          \/ status'[q] = "stopped" /\ reason'[q] = "user_stopped"
        /\ file' = [file EXCEPT ![i] = None]
        /\ \A c \in Id : wish'[c] = (IF c \in ScansOf({i}) THEN "stopped" ELSE wish[c])
    BY <1>3 DEF DeleteScan, MarkStopped, Wished
  <2>2. file[i] # None => file[i].scan \in ScansOf({i}) /\ file[i].scan \in Id
    <3> HIDE DEF TypeInv
    <3> QED
      BY StopReaches, FileFacts
  <2>3. \A q \in Run : Holds(q)' => Holds(q)
    BY <2>1
  <2>4. \A k \in Id : file[k] # None /\ file'[k] = None => wish'[file[k].scan] \in {"stopped", "none"}
    BY <2>1, <2>2
  <2>5. /\ \A k \in Id : file'[k] \in {None, file[k]}
        /\ \A c \in Id : wish'[c] = wish[c] \/ wish'[c] \in {"stopped", "none"}
    BY <2>1
  <2> HIDE DEF HeldInv, Holds, Due, ShutDown, TypeInv, TypeOK, PlaceInv
  <2> QED
    BY <2>1, <2>3, <2>4, <2>5, DropHolds
<1>4. CASE StopAll
  BY <1>4 DEF StopAll, CancelCurrent, Armed
<1>5. CASE StopAllMark
  <2>1. /\ UNCHANGED <<pc, id, scan, done>>
        /\ \A q \in Run : \/ status'[q] = status[q] /\ reason'[q] = reason[q]
                          \/ status'[q] = "stopped" /\ reason'[q] = "user_stopped"
        /\ file' = [i \in Id |-> None]
        /\ \A c \in Id : wish'[c] = (IF c \in ScansOf(Id) THEN "stopped" ELSE wish[c])
    BY <1>5 DEF StopAllMark, MarkStopped, Wished
  <2>2. \A i \in Id : file[i] # None => file[i].scan \in ScansOf(Id) /\ file[i].scan \in Id
    <3> HIDE DEF TypeInv
    <3> QED
      BY StopReaches, FileFacts
  <2>3. \A q \in Run : Holds(q)' => Holds(q)
    BY <2>1
  <2>4. \A k \in Id : file[k] # None /\ file'[k] = None => wish'[file[k].scan] \in {"stopped", "none"}
    BY <2>1, <2>2
  <2>5. /\ \A k \in Id : file'[k] \in {None, file[k]}
        /\ \A c \in Id : wish'[c] = wish[c] \/ wish'[c] \in {"stopped", "none"}
    BY <2>1
  <2> HIDE DEF HeldInv, Holds, Due, ShutDown, TypeInv, TypeOK, PlaceInv
  <2> QED
    BY <2>1, <2>3, <2>4, <2>5, DropHolds
<1>6. ASSUME NEW i \in Id, PauseInstance(i) PROVE HeldInv'
  BY <1>6 DEF PauseInstance, Armed
<1>7. ASSUME NEW i \in Id, NEW j \in NewIds, NEW r \in NewRuns(1), ResumeInstance(i, r, j)
      PROVE  HeldInv'
  <2>1. j \in Id /\ Fresh(j) /\ r \in Run /\ pc[r] = "idle"
    BY NewRunsAreIdle, NewIdsAreFresh DEF TypeInv, TypeOK
  <2> QED
    <3>1. /\ UNCHANGED <<status, reason, wish, done, file>>
          /\ pc'[r] = "accepted"
          /\ \A q \in Run : q # r => /\ pc'[q] = pc[q] /\ id'[q] = id[q] /\ scan'[q] = scan[q]
      BY <1>7, <2>1 DEF ResumeInstance, Launch
    <3>2. Settled => reason[r] # "server_shutdown"
      BY <1>a, <2>1 DEF Settled, StatusInv, StatusOf, SuccessorInv, RunsToTheEndInv
    <3> QED
      BY <2>1, <3>1, <3>2
<1>8. CASE HandleQueueResume
  <2>1. PICK new, queueOf : Launches({i \in Id : Valid(i)}, new, queueOf)
    BY <1>8, LaunchFacts DEF HandleQueueResume, TypeInv, TypeOK
  <2> QED
    <3>1. /\ UNCHANGED <<status, reason>>
          /\ \A q \in Run : pc'[q] = (IF q \in new THEN "launched" ELSE pc[q])
          /\ "queueResume" \in Commands /\ ResumeGate
      BY <1>8, <2>1 DEF HandleQueueResume, Launches
    <3>2. Settled => RunsToTheEnd
      BY <3>1 DEF Settled, Plain, OneProcess
    <3>3. Settled => \A q \in Run : reason[q] = "none"
      BY <1>a, <3>2 DEF RunsToTheEndInv
    <3>4. Settled => \A q \in Run : ~ (pc[q] \in {"admit", "slot", "grant", "parked"} /\ status[q] = "pending")
      <4> HIDE DEF TypeInv, TypeOK, PlaceInv
      <4> QED
        BY <3>1, GateHolds
    <3>5. Settled => \A q \in Run : ~ Holds(q)'
      BY <3>1, <3>3, <3>4
    <3> QED
      BY <3>5
<1>9. CASE HandleQueueClear
  <2> DEFINE C == {file[i].scan : i \in {k \in Id : file[k] # None}}
  <2>1. /\ UNCHANGED <<pc, id, scan, done, status, reason>>
        /\ file' = [i \in Id |-> None]
        /\ \A c \in Id : wish'[c] = (IF c \in C THEN "none" ELSE wish[c])
    BY <1>9 DEF HandleQueueClear, Wished
  <2>2. \A i \in Id : file[i] # None => file[i].scan \in C /\ file[i].scan \in Id
    <3> HIDE DEF TypeInv
    <3> QED
      BY FileFacts
  <2> HIDE DEF C
  <2>3. \A q \in Run : Holds(q)' => Holds(q)
    BY <2>1
  <2>4. \A k \in Id : file[k] # None /\ file'[k] = None => wish'[file[k].scan] \in {"stopped", "none"}
    BY <2>1, <2>2
  <2>5. /\ \A k \in Id : file'[k] \in {None, file[k]}
        /\ \A c \in Id : wish'[c] = wish[c] \/ wish'[c] \in {"stopped", "none"}
    BY <2>1
  <2> HIDE DEF HeldInv, Holds, Due, ShutDown, TypeInv, TypeOK, PlaceInv
  <2> QED
    BY <2>1, <2>3, <2>4, <2>5, DropHolds
<1> QED
  BY <1>1, <1>2, <1>3, <1>4, <1>5, <1>6, <1>7, <1>8, <1>9 DEF Handler

LEMMA HostHeld ==
  ASSUME TypeInv, IdentityInv, AllOwnerInv, OwnScanInv, StatusInv, RivalInv, AfterShutdownInv,
         SuccessorInv, HeldInv, Host
  PROVE  HeldInv'
<1>0. /\ Commands' = Commands /\ MaxCrashes' = MaxCrashes /\ Typed' = Typed /\ N' = N
      /\ N \in Nat /\ N > 0 /\ Settled' = Settled
  BY SettingKept, SettingFacts
     DEF Next, TypeInv, TypeOK, Settled, Plain, OneProcess, RunsToTheEnd
<1>a. /\ Plain => ResumedOnceInv /\ ResumedOnce
      /\ OneProcess => OneProcessInv
      /\ RunsToTheEnd => RunsToTheEndInv
      /\ Settled => Exclusive /\ OwnerInv
  BY DEF AllOwnerInv, Settled, Exclusive, Plain, ResumedOnce, OwnerInv
<1> USE <1>0, <1>a, ScanQueueAssumption DEF TypeInv, TypeOK, PlaceInv, Goto, Live, Queued, Working, Leaving, host, local, request, history, HeldInv, Holds, Due, ShutDown, Remaining
<1>1. CASE Signal
  BY <1>1 DEF Signal, CancelCurrent, Armed
<1>2. CASE SignalMark
  BY <1>2 DEF SignalMark, RunningInstances, Registered
<1>3. CASE Restart
  BY <1>3 DEF Restart
<1>4. CASE Die
  BY <1>4 DEF Die, ProcessEnds
<1>5. CASE Crash
  BY <1>5 DEF Crash, ProcessEnds
<1>6. CASE Boot
  <2>1. \A r \in Run : pc[r] \notin Live
    BY <1>6 DEF Boot, AllOwnerInv, BeforeInv
  <2> QED
    BY <1>6, <2>1 DEF Boot
<1>7. CASE AutoResume
  <2> DEFINE S == {i \in Id : Valid(i) /\ ~ file[i].paused}
  <2>1. CASE ResumeGate
    <3>1. PICK new, queueOf : Launches(S, new, queueOf)
      BY <1>7, <2>1, LaunchFacts DEF AutoResume, TypeInv, TypeOK
    <3> QED
      <4>1. /\ UNCHANGED <<status, reason, done, wish>> /\ resumeDue
            /\ \A q \in Run : q \notin new => /\ pc'[q] = pc[q] /\ id'[q] = id[q]
                                              /\ scan'[q] = scan[q]
            /\ \A q \in new : pc[q] = "idle" /\ pc'[q] = "launched"
            /\ \A i \in Id : file[i] # None /\ file[i].next = 1 => file'[i] = file[i]
        BY <1>7, <2>1, <3>1 DEF AutoResume, Launches, Valid, WithoutInvalid
      <4> SUFFICES ASSUME Settled, NEW q \in Run, Holds(q)', Due(q)'
                   PROVE  file'[id'[q]] # None
        OBVIOUS
      <4>2. Plain \/ RunsToTheEnd
        BY <4>1 DEF Settled, SuccessorInv
      <4>3. ~ (pc[q] \in {"admit", "slot", "grant", "parked"} /\ status[q] = "pending")
        <5> HIDE DEF TypeInv, TypeOK, PlaceInv
        <5> QED
          BY <2>1, GateHolds
      <4>4. q \in new => reason[q] # "server_shutdown"
        BY <1>a, <4>1, <4>2 DEF StatusInv, StatusOf, RunsToTheEndInv
      <4>5. q \notin new /\ ShutDown(q) /\ Plain
        BY <1>a, <4>1, <4>2, <4>3, <4>4 DEF RunsToTheEndInv
      <4>6. file[id[q]] # None
        BY <4>1, <4>5
      <4>7. file[id[q]].next = 1
        BY <4>1, <4>5, <4>6 DEF RivalInv
      <4> QED
        BY <4>1, <4>5, <4>6, <4>7
  <2>2. CASE ~ ResumeGate
    BY <1>7, <2>2 DEF AutoResume
  <2> QED
    BY <2>1, <2>2
<1> QED
  BY <1>1, <1>2, <1>3, <1>4, <1>5, <1>6, <1>7 DEF Host

\* What a run that waits, or that gave up its place at a shutdown, still needs.
WaitInv == StatusInv /\ RivalInv /\ AfterShutdownInv /\ SuccessorInv /\ HeldInv

LEMMA WaitInit ==
  ASSUME Init
  PROVE  WaitInv
<1>1. \A r \in Run : /\ pc[r] = "idle" /\ status[r] = "none" /\ reason[r] = "none"
                     /\ from[r] = None
  BY DEF Init
<1>2. server = "up" /\ ~ resumeDue
  BY DEF Init
<1>3. StatusInv /\ RivalInv /\ AfterShutdownInv
  BY <1>1, <1>2 DEF StatusInv, StatusOf, RivalInv, AfterShutdownInv, OldOf, ShutDown, Undecided,
                    Queued, Working, Leaving, Live
<1>4. SuccessorInv /\ HeldInv
  BY <1>1, <1>2 DEF SuccessorInv, HeldInv, Holds, ShutDown, Queued, Working, Leaving, Live
<1> QED
  BY <1>3, <1>4 DEF WaitInv

LEMMA WaitStep ==
  ASSUME TypeInv, IdentityInv, AllOwnerInv, OwnScanInv, WaitInv, [Next]_vars
  PROVE  WaitInv'
<1>1. BeforeInv /\ StatusInv /\ RivalInv /\ AfterShutdownInv /\ SuccessorInv /\ HeldInv
  BY DEF WaitInv, AllOwnerInv
<1>2. CASE Next
  <2>1. StatusInv'
    BY <1>1, <1>2, RunStepStatus, HandlerStatus, HostStatus DEF Next
  <2>2. RivalInv'
    BY <1>1, <1>2, RunStepRival, HandlerRival, HostRival DEF Next
  <2>3. AfterShutdownInv'
    BY <1>1, <1>2, RunStepAfterShutdown, HandlerAfterShutdown, HostAfterShutdown DEF Next
  <2>4. SuccessorInv'
    BY <1>1, <1>2, RunStepSuccessor, HandlerSuccessor, HostSuccessor DEF Next
  <2>5. HeldInv'
    BY <1>1, <1>2, RunStepHeld, HandlerHeld, HostHeld DEF Next
  <2> QED
    BY <2>1, <2>2, <2>3, <2>4, <2>5 DEF WaitInv
<1>3. CASE UNCHANGED vars
  <2>1. StatusInv' /\ RivalInv'
    BY <1>1, <1>3 DEF vars, StatusInv, StatusOf, RivalInv, Plain, ShutDown, Remaining, Commands, N
  <2>2. AfterShutdownInv'
    <3>1. \A q, r \in Run : OldOf(q, r)' /\ ShutDown(q)' => OldOf(q, r) /\ ShutDown(q)
      BY <1>3 DEF vars, OldOf, ShutDown
    <3>2. \A r \in Run : GoesWell(r) => GoesWell(r)'
      BY <1>3 DEF vars, GoesWell, DoneUpTo, Ended, Interrupted, Typed, N
    <3> QED
      BY <1>1, <1>3, <3>1, <3>2 DEF vars, AfterShutdownInv, Plain, Commands
  <2>4. SuccessorInv'
    BY <1>1, <1>3 DEF vars, SuccessorInv, OneProcess, Commands, MaxCrashes
  <2>3. HeldInv'
    BY <1>1, <1>3 DEF vars, HeldInv, Holds, Due, Settled, Plain, OneProcess, RunsToTheEnd, ShutDown,
                      Remaining, Commands, MaxCrashes, Typed, N
  <2> QED
    BY <2>1, <2>2, <2>3, <2>4 DEF WaitInv
<1> QED
  BY <1>2, <1>3

\* In those settings, a scan that waits for its slot, or whose run gave up its place because the
\* server is going down, has its queue file until its targets are scanned or the user stops it
\* (see QueuedKeepsFile): shouldPreserveQueueStateOnExit and the early exits of runMultiScan
\* remove a file only together with what it was for, and no other run of the ID removes it.
THEOREM QueueWaitingKept == Spec => [](Settled => QueuedKeepsFile)
<1>1. TypeInv /\ IdentityInv /\ WaitInv => (Settled => QueuedKeepsFile)
  <2> SUFFICES ASSUME TypeInv, IdentityInv, HeldInv, Settled, NEW r \in Run,
                      Holds(r), Due(r)
               PROVE  file[id[r]] # None /\ file[id[r]].scan = scan[r]
    BY DEF WaitInv, QueuedKeepsFile, Holds, ShutDown, Due
  <2>1. file[id[r]] # None
    BY DEF HeldInv
  <2>2. id[r] \in Id
    BY DEF Holds, ShutDown, TypeInv, PlaceInv, Live, Queued, Working, Leaving
  <2> QED
    BY <2>1, <2>2, ScanQueueAssumption DEF IdentityInv
<1>2. TypeInv /\ IdentityInv /\ AllOwnerInv /\ OwnScanInv /\ WaitInv /\ [Next]_vars => WaitInv'
  BY WaitStep
<1> QED
  BY <1>1, <1>2, WaitInit, QueueTypes, QueueIdentity, QueueOwners, QueueOwnScan, PTL DEF Spec

=============================================================================
