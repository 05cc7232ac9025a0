----------------------------- MODULE ScanQueue -----------------------------
(***************************************************************************)
(* The scan queue of the web server: runMultiScan (internal/web/           *)
(* orchestrator.go), the queue-state files (internal/web/queue_state.go),  *)
(* and the handlers, signals and restarts that act on both                 *)
(* (internal/web/server.go).                                               *)
(*                                                                         *)
(* A run is one runMultiScan goroutine with its ScanInstance; it works     *)
(* under an instance ID, which a later run takes over when the queue is    *)
(* resumed. A scan is what the user asked for and is named after the ID it *)
(* was first given. Its targets are 1..N; a queue file says which one is   *)
(* next. Handlers interleave with every step of every run.                 *)
(***************************************************************************)
EXTENDS Naturals, FiniteSets, Functions

CONSTANTS
  Run,       \* runMultiScan goroutines
  Id,        \* instance IDs
  Settings,  \* how a server may be configured and used
  None

Setting ==
  [runs : SUBSET Run,           \* the goroutines there are
   ids : SUBSET Id,             \* the IDs there are
   typed : SUBSET Id,           \* the scans with a typed assessment: one session for all
   targets : Nat \ {0},         \* targets of a scan
   maxInstances : Nat,          \* ceiling of EffectiveMaxInstances
   commands : SUBSET STRING,    \* what users and the operator do
   maxCrashes : Nat]            \* how often the process dies without warning

ASSUME ScanQueueAssumption ==
  /\ None \notin Run \cup Id
  /\ None \notin [scan : Id, next : Nat, paused : BOOLEAN]
  /\ Settings \subseteq Setting
  /\ IsFiniteSet(Run)
  /\ IsFiniteSet(Id)

Queued == {"accepted", "launched", "registered", "admit", "slot", "grant", "parked"}
Working ==
  {"admitted", "clearOld", "loop", "save", "arm", "progress", "session",
   "after", "advance"}
Leaving == {"leave", "exit", "panicked", "mark", "markWrite",
            "check", "unset", "wake"}
Live == Queued \cup Working \cup Leaving
Pc == Live \cup {"idle", "over", "dead"}

VARIABLES
  setting,    \* the setting of this behaviour; it never changes
  server,     \* "up", on its way down, or "down"
  resumeDue,  \* auto-resume has not run since the last start
  crashes,    \* crashes so far
  pc,         \* control point of every run
  id, scan,   \* instance ID of a run and the scan it works for
  next,       \* the target a run scans next
  from,       \* ID whose queue file the run was resumed from, or None
  loaded,     \* the queue file a run read in order to mark it paused
  status,     \* ScanInstance.Status
  reason,     \* ScanInstance.StopReason
  cancelled,  \* the context of the current session is cancelled
  instances,  \* Server.instances: the run registered under an ID
  file,       \* queue_state_<id>.json
  cancelScan, \* Server.cancelScan: the run that armed it last
  running,    \* Server.running
  wake,       \* the one-slot admissionWake channel
  launching,  \* Server.queueResumeLaunching
  done,       \* history: targets whose session ended by itself
  wish,       \* history: what the user last asked of a scan
  late        \* history: sessions a run began after it was stopped or paused

vars == <<setting, server, resumeDue, crashes, pc, id, scan, next, from, loaded, status,
          reason, cancelled, instances, file, cancelScan, running, wake, launching,
          done, wish, late>>

host == <<setting, server, resumeDue, crashes>>
request == <<id, scan, from>>
local == <<request, loaded>>
history == <<done, wish, late>>

Typed == setting.typed
N == setting.targets
MaxInstances == setting.maxInstances
Commands == setting.commands
MaxCrashes == setting.maxCrashes

\* A QueueState, as far as resuming depends on it.
QueueState == [scan : Id, next : 1..(N + 1), paused : BOOLEAN]

TypeOK ==
  /\ setting \in Settings
  /\ server \in {"up", "halting", "signalled", "stopping", "restarting", "down"}
  /\ resumeDue \in BOOLEAN
  /\ crashes \in 0..MaxCrashes
  /\ pc \in [Run -> Pc]
  /\ id \in [Run -> Id \cup {None}]
  /\ scan \in [Run -> Id \cup {None}]
  /\ next \in [Run -> 1..(N + 1)]
  /\ from \in [Run -> Id \cup {None}]
  /\ loaded \in [Run -> QueueState \cup {None}]
  /\ status \in [Run -> {"none", "pending", "running", "paused", "stopped",
                         "finished", "failed"}]
  /\ reason \in [Run -> {"none", "user_stopped", "user_paused", "signal",
                         "server_shutdown", "panic_recovered"}]
  /\ cancelled \in [Run -> BOOLEAN]
  /\ instances \in [Id -> Run \cup {None}]
  /\ file \in [Id -> QueueState \cup {None}]
  /\ cancelScan \in Run \cup {None}
  /\ running \in BOOLEAN
  /\ wake \in BOOLEAN
  /\ launching \in SUBSET Id
  /\ done \in [Id -> SUBSET (1..N)]
  /\ wish \in [Id -> {"none", "run", "paused", "stopped"}]
  /\ late \in [Run -> Nat]

\* The first start is over: auto-resume found no queue file.
Init ==
  /\ setting \in Settings
  /\ server = "up"
  /\ resumeDue = FALSE
  /\ crashes = 0
  /\ pc = [r \in Run |-> "idle"]
  /\ id = [r \in Run |-> None]
  /\ scan = [r \in Run |-> None]
  /\ next = [r \in Run |-> 1]
  /\ from = [r \in Run |-> None]
  /\ loaded = [r \in Run |-> None]
  /\ status = [r \in Run |-> "none"]
  /\ reason = [r \in Run |-> "none"]
  /\ cancelled = [r \in Run |-> FALSE]
  /\ instances = [i \in Id |-> None]
  /\ file = [i \in Id |-> None]
  /\ cancelScan = None
  /\ running = FALSE
  /\ wake = FALSE
  /\ launching = {}
  /\ done = [i \in Id |-> {}]
  /\ wish = [i \in Id |-> "none"]
  /\ late = [r \in Run |-> 0]
-----------------------------------------------------------------------------
(* Queue files and shared steps. *)

Goto(r, label) == pc' = [pc EXCEPT ![r] = label]

\* Mutant: the index of the target after the saved one.
SaveQueueStateAhead(r, target) ==
  file' = [file EXCEPT ![id[r]] =
             [scan |-> scan[r], next |-> target + 1, paused |-> FALSE]]

\* saveQueueState: the paused flag is never carried over.
SaveQueueState(r, target) ==
  file' = [file EXCEPT ![id[r]] =
             [scan |-> scan[r], next |-> target, paused |-> FALSE]]

\* invalidQueueStateReason: a queue with no target left is not resumable.
Valid(i) == file[i] # None /\ file[i].next <= N

WithoutInvalid == [i \in Id |-> IF Valid(i) THEN file[i] ELSE None]

Interrupted(r) == status[r] \in {"paused", "stopped"}

Active(r) == status[r] \in {"running", "pending", "paused"}

Registered == {r \in Run : \E i \in Id : instances[i] = r}

RunningInstances == {r \in Registered : status[r] = "running"}

\* Server.instancesMu is held from the slot check to the status change.
MapUnlocked == \A r \in Run : pc[r] # "grant"

\* The session context exists from its creation to the end of the target.
Armed(r) == pc[r] \in {"progress", "session"}

-----------------------------------------------------------------------------
(* runMultiScan: registration and admission. *)

Register(r) ==
  /\ pc[r] = "launched"
  /\ MapUnlocked
  /\ instances' = [instances EXCEPT ![id[r]] = r]
  /\ status' = [status EXCEPT ![r] = "pending"]
  /\ Goto(r, "registered")
  /\ UNCHANGED <<host, local, next, reason, cancelled, file, cancelScan,
                 running, wake, launching, history>>

\* The queue file is written before admission, so a pending scan survives.
PersistPending(r) ==
  /\ pc[r] = "registered"
  /\ SaveQueueState(r, next[r])
  /\ wish' = [wish EXCEPT ![scan[r]] = IF @ = "none" THEN "run" ELSE @]
  /\ Goto(r, "admit")
  /\ UNCHANGED <<host, local, next, status, reason, cancelled, instances,
                 cancelScan, running, wake, launching, done, late>>

CheckStopped(r) ==
  /\ pc[r] = "admit"
  /\ Goto(r, IF status[r] = "stopped" THEN "leave" ELSE "slot")
  /\ UNCHANGED <<host, local, next, status, reason, cancelled, instances,
                 file, cancelScan, running, wake, launching, history>>

\* Mutant: the check does not exclude the status change of another run.
CheckSlotUnlocked(r) ==
  /\ pc[r] = "slot"
  /\ Cardinality(RunningInstances) < MaxInstances
  /\ status[r] = "pending"
  /\ Goto(r, "grant")
  /\ UNCHANGED <<host, local, next, status, reason, cancelled, instances,
                 file, cancelScan, running, wake, launching, history>>

\* Mutant: a run that was stopped since the last check is let in.
CheckSlotAnyStatus(r) ==
  /\ pc[r] = "slot"
  /\ MapUnlocked
  /\ Cardinality(RunningInstances) < MaxInstances
  /\ Goto(r, "grant")
  /\ UNCHANGED <<host, local, next, status, reason, cancelled, instances,
                 file, cancelScan, running, wake, launching, history>>

\* CanAdmitScan and the status are looked at under the map's lock; the
\* instance's own lock is not taken.
CheckSlot(r) ==
  /\ pc[r] = "slot"
  /\ MapUnlocked
  /\ Cardinality(RunningInstances) < MaxInstances
  /\ status[r] = "pending"
  /\ Goto(r, "grant")
  /\ UNCHANGED <<host, local, next, status, reason, cancelled, instances,
                 file, cancelScan, running, wake, launching, history>>

\* No slot, not enough memory or disk at this moment, or no longer pending.
Refuse(r) ==
  /\ pc[r] = "slot"
  /\ MapUnlocked
  /\ Goto(r, "parked")
  /\ UNCHANGED <<host, local, next, status, reason, cancelled, instances,
                 file, cancelScan, running, wake, launching, history>>

Grant(r) ==
  /\ pc[r] = "grant"
  /\ status' = [status EXCEPT ![r] = "running"]
  /\ Goto(r, "admitted")
  /\ UNCHANGED <<host, local, next, reason, cancelled, instances, file,
                 cancelScan, running, wake, launching, history>>

\* Mutant: no ticker beside the channel.
WakeBySignalOnly(r) ==
  /\ pc[r] = "parked"
  /\ wake
  /\ wake' = FALSE
  /\ Goto(r, "admit")
  /\ UNCHANGED <<host, local, next, status, reason, cancelled, instances,
                 file, cancelScan, running, launching, history>>

\* The admissionWake channel or the two-second ticker.
Wake(r) ==
  /\ pc[r] = "parked"
  /\ wake' \in {wake, FALSE}
  /\ Goto(r, "admit")
  /\ UNCHANGED <<host, local, next, status, reason, cancelled, instances,
                 file, cancelScan, running, launching, history>>

\* Mutant: the run ends without recording why.
ShutdownWithoutReason(r) ==
  /\ pc[r] = "parked"
  /\ server \in {"signalled", "stopping"}
  /\ status' = [status EXCEPT ![r] = "stopped"]
  /\ Goto(r, "leave")
  /\ UNCHANGED <<host, local, next, reason, cancelled, instances, file,
                 cancelScan, running, wake, launching, history>>

ShutdownWhileParked(r) ==
  /\ pc[r] = "parked"
  /\ server \in {"signalled", "stopping"}
  /\ IF status[r] = "pending"
     THEN /\ status' = [status EXCEPT ![r] = "stopped"]
          /\ reason' = [reason EXCEPT ![r] = "server_shutdown"]
     ELSE UNCHANGED <<status, reason>>
  /\ Goto(r, "leave")
  /\ UNCHANGED <<host, local, next, cancelled, instances, file, cancelScan,
                 running, wake, launching, history>>

-----------------------------------------------------------------------------
(* runMultiScan: the targets. *)

\* The refreshed state is written before the file it was resumed from goes.
Start(r) ==
  /\ pc[r] = "admitted"
  /\ running' = TRUE
  /\ SaveQueueState(r, next[r])
  /\ Goto(r, IF from[r] \in {None, id[r]} THEN "loop" ELSE "clearOld")
  /\ UNCHANGED <<host, local, next, status, reason, cancelled, instances,
                 cancelScan, wake, launching, history>>

ClearOld(r) ==
  /\ pc[r] = "clearOld"
  /\ file' = [file EXCEPT ![from[r]] = None]
  /\ Goto(r, "loop")
  /\ UNCHANGED <<host, local, next, status, reason, cancelled, instances,
                 cancelScan, running, wake, launching, history>>

\* Mutant: the loop does not look at the status.
NextTargetUnchecked(r) ==
  /\ pc[r] = "loop"
  /\ Goto(r, IF next[r] > N THEN "exit"
             ELSE IF scan[r] \in Typed THEN "arm" ELSE "save")
  /\ UNCHANGED <<host, local, next, status, reason, cancelled, instances,
                 file, cancelScan, running, wake, launching, history>>

\* The status is read once per target.
NextTarget(r) ==
  /\ pc[r] = "loop"
  /\ Goto(r, IF Interrupted(r) \/ next[r] > N THEN "exit"
             ELSE IF scan[r] \in Typed THEN "arm" ELSE "save")
  /\ UNCHANGED <<host, local, next, status, reason, cancelled, instances,
                 file, cancelScan, running, wake, launching, history>>

SaveTarget(r) ==
  /\ pc[r] = "save"
  /\ SaveQueueState(r, next[r])
  /\ Goto(r, "arm")
  /\ UNCHANGED <<host, local, next, status, reason, cancelled, instances,
                 cancelScan, running, wake, launching, history>>

\* A fresh context; its cancel function is stored on server and instance.
Arm(r) ==
  /\ pc[r] = "arm"
  /\ cancelled' = [cancelled EXCEPT ![r] = FALSE]
  /\ cancelScan' = r
  /\ Goto(r, "progress")
  /\ UNCHANGED <<host, local, next, status, reason, instances, file, running,
                 wake, launching, history>>

\* runSingleTarget saves its progress and executes the session.
BeginSession(r) ==
  /\ pc[r] = "progress"
  /\ SaveQueueState(r, next[r])
  /\ late' = [late EXCEPT ![r] =
                IF Interrupted(r) /\ ~cancelled[r] THEN @ + 1 ELSE @]
  /\ Goto(r, "session")
  /\ UNCHANGED <<host, local, next, status, reason, cancelled, instances,
                 cancelScan, running, wake, launching, done, wish>>

\* The session ends by itself. A typed one may fail its preflight, which
\* overwrites the status of the instance registered under the run's ID.
SessionEnds(r) ==
  /\ pc[r] = "session"
  /\ done' = [done EXCEPT ![scan[r]] =
                @ \cup (IF scan[r] \in Typed THEN 1..N ELSE {next[r]})]
  /\ \/ UNCHANGED <<status, reason>>
     \/ /\ scan[r] \in Typed
        /\ instances[id[r]] # None
        /\ status' = [status EXCEPT ![instances[id[r]]] = "failed"]
        /\ reason' = [reason EXCEPT ![instances[id[r]]] = "none"]
  /\ Goto(r, "after")
  /\ UNCHANGED <<host, local, next, cancelled, instances, file, cancelScan,
                 running, wake, launching, wish, late>>

\* executeDeterministicScanSession recovers from its own panics.
SessionPanics(r) ==
  /\ "sessionPanic" \in Commands
  /\ pc[r] = "session"
  /\ Goto(r, "after")
  /\ UNCHANGED <<host, local, next, status, reason, cancelled, instances,
                 file, cancelScan, running, wake, launching, history>>

SessionAborted(r) ==
  /\ pc[r] = "session"
  /\ cancelled[r]
  /\ Goto(r, "after")
  /\ UNCHANGED <<host, local, next, status, reason, cancelled, instances,
                 file, cancelScan, running, wake, launching, history>>

\* Mutant: the queue advances although the target was interrupted.
AlwaysAdvances(r) ==
  /\ pc[r] = "after"
  /\ Goto(r, IF scan[r] \in Typed THEN "exit" ELSE "advance")
  /\ UNCHANGED <<host, local, next, status, reason, cancelled, instances,
                 file, cancelScan, running, wake, launching, history>>

\* shouldAdvanceQueueAfterTarget, on the status after the session. A typed
\* queue has no next target; an interrupted one goes on without a save.
AfterTarget(r) ==
  /\ pc[r] = "after"
  /\ IF scan[r] \notin Typed /\ Interrupted(r)
     THEN next' = [next EXCEPT ![r] = @ + 1]
     ELSE UNCHANGED next
  /\ Goto(r, CASE scan[r] \in Typed -> "exit"
               [] scan[r] \notin Typed /\ Interrupted(r) -> "loop"
               [] OTHER -> "advance")
  /\ UNCHANGED <<host, local, status, reason, cancelled, instances, file,
                 cancelScan, running, wake, launching, history>>

Advance(r) ==
  /\ pc[r] = "advance"
  /\ SaveQueueState(r, next[r] + 1)
  /\ next' = [next EXCEPT ![r] = @ + 1]
  /\ Goto(r, "loop")
  /\ UNCHANGED <<host, local, status, reason, cancelled, instances,
                 cancelScan, running, wake, launching, history>>

Panic(r) ==
  /\ "panic" \in Commands
  /\ pc[r] \in Working \ {"session"}
  /\ Goto(r, "panicked")
  /\ UNCHANGED <<host, local, next, status, reason, cancelled, instances,
                 file, cancelScan, running, wake, launching, history>>

-----------------------------------------------------------------------------
(* runMultiScan: the deferred cleanup. *)

\* Mutant: a panic does not keep the queue file.
PreservedUnlessPanic(r) ==
  \/ pc[r] = "exit" /\ (status[r] = "paused" \/ reason[r] \in {"user_paused", "signal"})
  \/ pc[r] = "leave" /\ reason[r] = "server_shutdown"

\* Mutant: a scan that never got a slot always keeps its queue file.
PreservedWhenQueued(r) ==
  \/ pc[r] \in {"panicked", "leave"}
  \/ pc[r] = "exit" /\ (status[r] = "paused" \/ reason[r] \in {"user_paused", "signal"})

\* shouldPreserveQueueStateOnExit, and its counterpart for a scan that never
\* got a slot.
Preserved(r) ==
  \/ pc[r] = "panicked"
  \/ pc[r] = "exit" /\ (status[r] = "paused" \/ reason[r] \in {"user_paused", "signal"})
  \/ pc[r] = "leave" /\ reason[r] = "server_shutdown"

Exit(r) ==
  /\ pc[r] \in {"exit", "leave", "panicked"}
  /\ IF status[r] = "running"
     THEN /\ status' = [status EXCEPT ![r] =
                          IF pc[r] = "panicked" THEN "stopped" ELSE "finished"]
          /\ reason' = [reason EXCEPT ![r] =
                          IF pc[r] = "panicked" THEN "panic_recovered" ELSE @]
     ELSE UNCHANGED <<status, reason>>
  /\ file' = IF Preserved(r) THEN file ELSE [file EXCEPT ![id[r]] = None]
  /\ Goto(r, "mark")
  /\ UNCHANGED <<host, local, next, cancelled, instances, cancelScan, running,
                 wake, launching, history>>

\* markQueueStatePaused reads the file, sets the flag and writes it back.
LoadPaused(r) ==
  /\ pc[r] = "mark"
  /\ IF status[r] = "paused" /\ file[id[r]] # None
     THEN /\ loaded' = [loaded EXCEPT ![r] = file[id[r]]]
          /\ Goto(r, "markWrite")
     ELSE /\ UNCHANGED loaded
          /\ Goto(r, "check")
  /\ UNCHANGED <<host, request, next, status, reason, cancelled, instances,
                 file, cancelScan, running, wake, launching, history>>

MarkQueueStatePaused(r) ==
  /\ pc[r] = "markWrite"
  /\ file' = [file EXCEPT ![id[r]] = [loaded[r] EXCEPT !.paused = TRUE]]
  /\ Goto(r, "check")
  /\ UNCHANGED <<host, local, next, status, reason, cancelled, instances,
                 cancelScan, running, wake, launching, history>>

CheckStillRunning(r) ==
  /\ pc[r] = "check"
  /\ MapUnlocked
  /\ Goto(r, IF \E i \in Id \ {id[r]} :
                   instances[i] # None /\ status[instances[i]] = "running"
             THEN "wake" ELSE "unset")
  /\ UNCHANGED <<host, local, next, status, reason, cancelled, instances,
                 file, cancelScan, running, wake, launching, history>>

UnsetRunning(r) ==
  /\ pc[r] = "unset"
  /\ running' = FALSE
  /\ Goto(r, "wake")
  /\ UNCHANGED <<host, local, next, status, reason, cancelled, instances,
                 file, cancelScan, wake, launching, history>>

WakeWaiter(r) ==
  /\ pc[r] = "wake"
  /\ wake' = TRUE
  /\ launching' = launching \ {id[r]}
  /\ Goto(r, "over")
  /\ UNCHANGED <<host, local, next, status, reason, cancelled, instances,
                 file, cancelScan, running, history>>

-----------------------------------------------------------------------------
(* The handlers. Each runs as a whole unless it waits in between. *)

Serving == server \in {"up", "halting"}

Fresh(i) ==
  /\ file[i] = None
  /\ instances[i] = None
  /\ \A r \in Run : id[r] # i

\* randomSlug: an ID that was never used. Names mean nothing, so one for a typed scan and
\* one for another stand for all of them.
NewIds ==
  LET fresh == {i \in setting.ids : Fresh(i)}
  IN {CHOOSE i \in S : TRUE : S \in {fresh \cap Typed, fresh \ Typed} \ {{}}}

\* Goroutines that were not started yet. They have no identity, so new ones are taken from
\* them in a fixed order.
Idle == {r \in setting.runs : pc[r] = "idle"}
NewRuns(n) == IF Cardinality(Idle) < n THEN {}
              ELSE CHOOSE R \in SUBSET Idle : Cardinality(R) = n

\* A new runMultiScan goroutine r: for scan c, from target t on, under ID i.
Launch(r, i, c, t, source, label) ==
  /\ id' = [id EXCEPT ![r] = i]
  /\ scan' = [scan EXCEPT ![r] = c]
  /\ next' = [next EXCEPT ![r] = t]
  /\ from' = [from EXCEPT ![r] = source]
  /\ Goto(r, label)

\* POST /api/scan; a restarted or re-started instance is a new scan as well.
HandleScan(r, i) ==
  /\ "scan" \in Commands
  /\ Serving \/ server = "restarting"
  /\ Launch(r, i, i, 1, None, "launched")
  /\ UNCHANGED <<host, loaded, status, reason, cancelled, instances, file,
                 cancelScan, running, wake, launching, history>>

\* What stopping the runs in R does to them.
MarkStopped(R) ==
  /\ status' = [r \in Run |-> IF r \in R THEN "stopped" ELSE status[r]]
  /\ reason' = [r \in Run |-> IF r \in R THEN "user_stopped" ELSE reason[r]]
  /\ cancelled' = [r \in Run |-> cancelled[r] \/ (r \in R /\ Armed(r))]

ScansOf(I) ==
  {scan[instances[i]] : i \in {k \in I : instances[k] # None}}
    \cup {file[i].scan : i \in {k \in I : file[k] # None}}

Wished(C, w) == wish' = [c \in Id |-> IF c \in C THEN w ELSE wish[c]]

\* resolveInstanceForAction: a registered instance, or one of an earlier process
\* that is found through its scan record.
Resolvable(i) ==
  \/ instances[i] # None
  \/ /\ file[i] # None
     /\ \A r \in Run : i \in {id[r], from[r]} =>
          pc[r] = "dead" \/ (pc[r] = "launched" /\ id[r] = i)

\* POST /api/instances/{id}/stop takes the instance's lock, not the map's.
StopInstance(i) ==
  /\ "stop" \in Commands
  /\ Serving
  /\ Resolvable(i)
  /\ MarkStopped({r \in Run : instances[i] = r /\ Active(r)})
  /\ file' = [file EXCEPT ![i] = None]
  /\ Wished(ScansOf({i}), "stopped")
  /\ UNCHANGED <<host, local, pc, next, instances, cancelScan, running, wake,
                 launching, done, late>>

\* DELETE /api/scans/{id}, all of it under the map's lock.
DeleteScan(i) ==
  /\ "delete" \in Commands
  /\ Serving
  /\ MapUnlocked
  /\ Resolvable(i)
  /\ MarkStopped({r \in Run : instances[i] = r /\ Active(r)})
  /\ file' = [file EXCEPT ![i] = None]
  /\ instances' = [instances EXCEPT ![i] = None]
  /\ Wished(ScansOf({i}), "stopped")
  /\ UNCHANGED <<host, local, pc, next, cancelScan, running, wake, launching,
                 done, late>>

\* POST /api/stop cancels the session armed last, and then marks the instances.
CancelCurrent ==
  cancelled' = [r \in Run |-> cancelled[r] \/ (r = cancelScan /\ Armed(r))]

StopAll ==
  /\ "stopAll" \in Commands
  /\ server = "up"
  /\ CancelCurrent
  /\ server' = "halting"
  /\ UNCHANGED <<setting, resumeDue, crashes, local, pc, next, status, reason, instances,
                 file, cancelScan, running, wake, launching, history>>

StopAllMark ==
  /\ server = "halting"
  /\ MapUnlocked
  /\ MarkStopped({r \in Registered : Active(r)})
  /\ file' = [i \in Id |-> None]
  /\ Wished(ScansOf(Id), "stopped")
  /\ server' = "up"
  /\ UNCHANGED <<setting, resumeDue, crashes, local, pc, next, instances, cancelScan,
                 running, wake, launching, done, late>>

PauseInstance(i) ==
  /\ "pause" \in Commands
  /\ Serving
  /\ instances[i] # None
  /\ LET r == instances[i]
     IN /\ status[r] = "running"
        /\ status' = [status EXCEPT ![r] = "paused"]
        /\ reason' = [reason EXCEPT ![r] = "user_paused"]
        /\ cancelled' = [cancelled EXCEPT ![r] = @ \/ Armed(r)]
        /\ wish' = [wish EXCEPT ![scan[r]] = IF @ = "run" THEN "paused" ELSE @]
  /\ UNCHANGED <<host, local, pc, next, instances, file, cancelScan, running,
                 wake, launching, done, late>>

\* POST /api/instances/{id}/resume reads the paused instance and its queue
\* file; a second request may do so before the first has removed the instance.
ResumeInstance(i, r, j) ==
  /\ "resume" \in Commands
  /\ Serving
  /\ instances[i] # None
  /\ status[instances[i]] = "paused"
  /\ Valid(i)
  /\ Launch(r, j, file[i].scan, file[i].next, i, "accepted")
  /\ UNCHANGED <<host, loaded, status, reason, cancelled, instances, file,
                 cancelScan, running, wake, launching, history>>

ReplacePaused(r) ==
  /\ pc[r] = "accepted"
  /\ MapUnlocked
  /\ instances' = [instances EXCEPT ![from[r]] = None]
  /\ wish' = [wish EXCEPT ![scan[r]] = IF @ = "paused" THEN "run" ELSE @]
  /\ Goto(r, "launched")
  /\ UNCHANGED <<host, local, next, status, reason, cancelled, file, cancelScan,
                 running, wake, launching, done, late>>

\* Mutant: a resumed queue that is not registered yet is overlooked.
ResumeGateWithoutLaunching ==
  /\ ~running
  /\ \A r \in Registered : status[r] \notin {"pending", "running"}

\* What auto-resume and POST /api/queue/resume ask first, under queueResumeMu.
ResumeGate ==
  /\ ~running
  /\ \A r \in Registered : status[r] \notin {"pending", "running"}
  /\ launching = {}

\* Every queue in S gets a run of its own, under the ID it had.
LaunchQueues(S) ==
  /\ Cardinality(S) <= Cardinality(Idle)
  /\ \E f \in Bijection(S, NewRuns(Cardinality(S))) :
        LET queueOf(r) == CHOOSE i \in S : f[i] = r
            new == {f[i] : i \in S}
        IN /\ pc' = [r \in Run |-> IF r \in new THEN "launched" ELSE pc[r]]
           /\ id' = [r \in Run |-> IF r \in new THEN queueOf(r) ELSE id[r]]
           /\ scan' = [r \in Run |-> IF r \in new THEN file[queueOf(r)].scan ELSE scan[r]]
           /\ next' = [r \in Run |-> IF r \in new THEN file[queueOf(r)].next ELSE next[r]]
           /\ from' = [r \in Run |-> IF r \in new THEN queueOf(r) ELSE from[r]]
           /\ launching' = launching \cup S
           /\ file' = WithoutInvalid

HandleQueueResume ==
  /\ "queueResume" \in Commands
  /\ Serving
  /\ MapUnlocked
  /\ ResumeGate
  /\ LET S == {i \in Id : Valid(i)}
     IN /\ S # {}
        /\ LaunchQueues(S)
        /\ Wished({file[i].scan : i \in {k \in S : wish[file[k].scan] # "stopped"}}, "run")
  /\ UNCHANGED <<host, loaded, status, reason, cancelled, instances, cancelScan,
                 running, wake, done, late>>

HandleQueueClear ==
  /\ "queueClear" \in Commands
  /\ Serving
  /\ \E i \in Id : file[i] # None
  /\ file' = [i \in Id |-> None]
  /\ Wished({file[i].scan : i \in {k \in Id : file[k] # None}}, "none")
  /\ UNCHANGED <<host, local, pc, next, status, reason, cancelled, instances,
                 cancelScan, running, wake, launching, done, late>>

-----------------------------------------------------------------------------
(* Signals, restarts and crashes. *)

\* SIGTERM cancels the session armed last, and then marks what is running.
Signal ==
  /\ "signal" \in Commands
  /\ server = "up"
  /\ CancelCurrent
  /\ server' = "signalled"
  /\ UNCHANGED <<setting, resumeDue, crashes, local, pc, next, status, reason, instances,
                 file, cancelScan, running, wake, launching, history>>

SignalMark ==
  /\ server = "signalled"
  /\ MapUnlocked
  /\ status' = [r \in Run |-> IF r \in RunningInstances THEN "stopped" ELSE status[r]]
  /\ reason' = [r \in Run |-> IF r \in RunningInstances THEN "signal" ELSE reason[r]]
  /\ server' = "stopping"
  /\ UNCHANGED <<setting, resumeDue, crashes, local, pc, next, cancelled, instances, file,
                 cancelScan, running, wake, launching, history>>

\* scannerIdle: what a graceful restart waits for.
ScannerIdle ==
  /\ MapUnlocked
  /\ \A r \in Registered : ~Active(r)
  /\ ~running

Restart ==
  /\ server = "up"
  /\ \/ "restart" \in Commands /\ ScannerIdle
     \/ "forceRestart" \in Commands
  /\ server' = "restarting"
  /\ UNCHANGED <<setting, resumeDue, crashes, local, pc, next, status, reason, cancelled,
                 instances, file, cancelScan, running, wake, launching, history>>

\* The end of the process: only the files survive.
ProcessEnds ==
  /\ pc' = [r \in Run |-> IF pc[r] \in Live THEN "dead" ELSE pc[r]]
  /\ status' = [r \in Run |-> "none"]
  /\ reason' = [r \in Run |-> "none"]
  /\ cancelled' = [r \in Run |-> FALSE]
  /\ loaded' = [r \in Run |-> None]
  /\ instances' = [i \in Id |-> None]
  /\ cancelScan' = None
  /\ running' = FALSE
  /\ wake' = FALSE
  /\ launching' = {}
  /\ server' = "down"
  /\ UNCHANGED <<setting, resumeDue, request, next, file, history>>

Die ==
  /\ server \in {"stopping", "restarting"}
  /\ ProcessEnds
  /\ UNCHANGED crashes

Crash ==
  /\ server # "down"
  /\ crashes < MaxCrashes
  /\ crashes' = crashes + 1
  /\ ProcessEnds

\* initDataDir drops the queue files that cannot be resumed.
Boot ==
  /\ server = "down"
  /\ server' = "up"
  /\ resumeDue' = TRUE
  /\ file' = WithoutInvalid
  /\ UNCHANGED <<setting, crashes, local, pc, next, status, reason, cancelled, instances,
                 cancelScan, running, wake, launching, history>>

\* Five seconds after the start; a scan that is already queued prevents it.
AutoResume ==
  /\ server # "down"
  /\ MapUnlocked
  /\ resumeDue
  /\ resumeDue' = FALSE
  /\ IF ResumeGate
     THEN LaunchQueues({i \in Id : Valid(i) /\ ~file[i].paused})
     ELSE UNCHANGED <<pc, request, next, launching, file>>
  /\ UNCHANGED <<setting, server, crashes, loaded, status, reason, cancelled, instances,
                 cancelScan, running, wake, history>>

-----------------------------------------------------------------------------
RunStep(r) ==
  \/ Register(r) \/ PersistPending(r) \/ CheckStopped(r) \/ CheckSlot(r)
  \/ Refuse(r) \/ Grant(r) \/ Wake(r) \/ ShutdownWhileParked(r)
  \/ Start(r) \/ ClearOld(r) \/ NextTarget(r) \/ SaveTarget(r) \/ Arm(r)
  \/ BeginSession(r) \/ SessionEnds(r) \/ SessionAborted(r) \/ AfterTarget(r)
  \/ Advance(r) \/ Exit(r) \/ LoadPaused(r) \/ MarkQueueStatePaused(r)
  \/ CheckStillRunning(r) \/ UnsetRunning(r) \/ WakeWaiter(r)
  \/ ReplacePaused(r)

Panics(r) == Panic(r) \/ SessionPanics(r)

Handler ==
  \/ \E i \in NewIds, r \in NewRuns(1) : HandleScan(r, i)
  \/ \E i \in Id : StopInstance(i)
  \/ \E i \in Id : DeleteScan(i)
  \/ StopAll
  \/ StopAllMark
  \/ \E i \in Id : PauseInstance(i)
  \/ \E i \in Id, j \in NewIds, r \in NewRuns(1) : ResumeInstance(i, r, j)
  \/ HandleQueueResume
  \/ HandleQueueClear

Host == Signal \/ SignalMark \/ Restart \/ Die \/ Crash \/ Boot \/ AutoResume

Next ==
  \/ \E r \in Run : RunStep(r) \/ Panics(r)
  \/ Handler
  \/ Host

Spec == Init /\ [][Next]_vars

\* Goroutines are scheduled and sessions end; memory and disk allow a scan in
\* again and again, so a run that keeps asking for a free slot gets one.
FairSpec ==
  /\ Spec
  /\ \A r \in Run : WF_vars(RunStep(r)) /\ SF_vars(CheckSlot(r))

-----------------------------------------------------------------------------
(* Properties. *)

\* However stops, pauses, resumes and exits interleave, no more instances than
\* the ceiling are running: the slot check and the status change of
\* runMultiScan are atomic.
AdmissionCap == Cardinality({r \in Run : status[r] = "running"}) <= MaxInstances

Remaining(c) == (1..N) \ done[c]

Resumable(c) ==
  \E i \in Id :
    file[i] # None /\ file[i].scan = c /\ \A t \in Remaining(c) : file[i].next <= t

\* A scan that was accepted and neither stopped nor cleared always has a queue
\* file from which every target that is still to be scanned will be scanned:
\* the saves of runMultiScan are ordered so that no crash, panic, pause or
\* resume loses a target.
ScanKept ==
  \A c \in Id : wish[c] \in {"run", "paused"} /\ Remaining(c) # {} => Resumable(c)

\* An instance is shown as finished only when each of its targets was scanned to
\* the end, in this process or in an earlier one.
FinishedMeansDone ==
  \A r \in Run : status[r] = "finished" => Remaining(scan[r]) = {}

\* The settings that are asked for both: a SIGTERM and stop-all cancel a session before they mark
\* its instance, so that its target counts as scanned (the run queue_signal_loses_target shows
\* it), as does one whose session panics; and the exit of a stopped run removes the queue file of
\* the run that resumed it after the queue was cleared.
Undisturbed ==
  {"signal", "stopAll", "sessionPanic", "queueResume", "queueClear"} \cap Commands = {}

\* No crash, panic, pause, resume, delete or restart loses a target of an accepted scan, and a
\* scan that is shown as finished was scanned to the end.
ScanIsAccounted == Undisturbed => ScanKept /\ FinishedMeansDone

\* What a queue file of a stopped scan may still wait for: a run of the scan
\* whose deferred cleanup will remove the file.
WillClear(r) ==
  pc[r] \in (Queued \cup Working \cup {"leave", "exit"}) /\ reason[r] # "user_paused"

\* A user stop is terminal: a queue file of a scan the user stopped exists only
\* as long as the run that wrote it late is about to remove it.
StopIsTerminal ==
  \A i \in Id : file[i] # None /\ wish[file[i].scan] = "stopped" =>
    \E r \in Run : id[r] = i /\ scan[r] = file[i].scan /\ WillClear(r)

\* The status is the authoritative stop signal: a stopped instance does not run
\* again in this process.
StopSticks ==
  [][\A r \in Run : status[r] = "stopped" /\ server' # "down" =>
       status'[r] \in {"stopped", "failed"}]_vars

\* A stop or pause that falls between the status check and the new context of
\* a target misses that session, and never more than that one.
AtMostOneLateSession == \A r \in Run : late[r] <= 1

\* Two runs never scan for the same scan at the same time: auto-resume and the
\* resume of the queue see every run that is on its way.
NoOverlap ==
  \A r, q \in Run :
    /\ pc[r] = "session" /\ pc[q] = "session"
    /\ scan[r] = scan[q] /\ ~cancelled[r] /\ ~cancelled[q]
    => r = q

\* A run that was let in ends by itself, with its targets scanned or its session panicked.
RunsToTheEnd ==
  /\ {"stop", "delete", "stopAll", "pause", "resume", "panic", "signal"} \cap Commands = {}
  /\ Typed = {}

\* Auto-resume and the resume of the queue never start a scan a second time, however the process
\* crashes and restarts. An instance that was stopped or paused late no longer counts for the gate
\* while its session goes on, and handleInstanceAction refuses no second resume of one instance;
\* settings with these are left out.
NoOverlapOfQueues == RunsToTheEnd => NoOverlap

\* A scan that waits for a slot, or was waiting for one when the server was shut
\* down, has its queue file as long as there is a target left and nobody stopped
\* or cleared it, so that it is queued again after the restart.
QueuedKeepsFile ==
  \A r \in Run :
    /\ \/ pc[r] \in {"admit", "slot", "grant", "parked"} /\ status[r] = "pending"
       \/ pc[r] \in Live /\ reason[r] = "server_shutdown"
    /\ wish[scan[r]] \in {"run", "paused"}
    /\ Remaining(scan[r]) # {}
    => file[id[r]] # None /\ file[id[r]].scan = scan[r]

\* Every run that is launched ends: neither a lost wake-up nor a stop while it
\* waits leaves it queued for ever.
EveryRunEnds == \A r \in Run : pc[r] = "launched" ~> pc[r] \in {"over", "dead"}

=============================================================================
