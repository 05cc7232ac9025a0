------------------------------ MODULE ScanData ------------------------------
(***************************************************************************)
(* What becomes of the saved data of scans over days: sessions that write  *)
(* it, restarts, the cleanup at the start of the server and the hourly     *)
(* retention sweep, which look at the data in different ways.  All scans   *)
(* are of one target, whose top-level directory they share.                *)
(***************************************************************************)
EXTENDS Naturals, FiniteSets

CONSTANTS
    Scan,           \* scan directories, which name their record
    Id,             \* IDs of instances
    Retention,      \* ScanRetentionDays; 0 disables the sweep
    CleanupDays,    \* the 30 days of the cleanup at the start
    MaxDays,        \* bound on the days that pass
    Missing

VARIABLES
    day,            \* today
    up,             \* whether the server runs
    folder,         \* modification day of the target's directory, Missing without one
    record,         \* scan.json of each scan, Missing without one
    instances,      \* the instances in memory: status and scan, Missing without one
    run,            \* the runMultiScan goroutine of each instance, Missing without one
    queueFiles,     \* scans whose queue file would resume them
    sweep,          \* the retention sweep under way: what it has read so far
    touched,        \* history: the day a session of the scan was last alive
    unsettled,      \* history: scans whose last session was stopped and is alive, or has not
                    \* saved its end
    removed         \* history: what the program removed by itself

dataVars == <<day, up, folder, record, instances, run, queueFiles, sweep, touched,
              unsettled, removed>>

Active == {"running", "paused"}
InstanceName == Id \cup Scan
Day == 0..MaxDays
DayOrMissing == Day \cup {Missing}
Record == [status : {"running", "stopped", "finished"}, instance : Id,
           started : Day, finished : DayOrMissing]
Instance == [scan : Scan, status : {"pending", "running", "paused", "stopped", "finished"}]
Run == [scan : Scan, at : {"queued", "live", "ended"}]
Removal == [scan : Scan, by : {"start", "sweep"}, recent : BOOLEAN]

\* Missing is not a value of what may be missing.
ASSUME ScanDataAssumption ==
    /\ Retention \in Nat /\ CleanupDays \in Nat /\ MaxDays \in Nat
    /\ Missing \notin Nat /\ Missing \notin Record /\ Missing \notin Instance /\ Missing \notin Run

TypeOK ==
    /\ day \in Day /\ up \in BOOLEAN /\ folder \in DayOrMissing
    /\ \A s \in Scan : record[s] = Missing \/ record[s] \in Record
    /\ \A x \in InstanceName : instances[x] = Missing \/ instances[x] \in Instance
    /\ \A i \in Id : run[i] = Missing \/ run[i] \in Run
    /\ queueFiles \subseteq Scan /\ unsettled \subseteq Scan
    /\ sweep.at \in {"off", "snapshot", "listed"} /\ sweep.active \subseteq InstanceName
    /\ DOMAIN sweep.list \subseteq Scan
    /\ touched \in [Scan -> DayOrMissing] /\ removed \subseteq Removal

-----------------------------------------------------------------------------
Asleep == [at |-> "off", active |-> {}, cutoff |-> 0, list |-> [s \in {} |-> Missing],
           recent |-> {}]

Init ==
    /\ day = 0 /\ up = TRUE /\ folder = Missing
    /\ record = [s \in Scan |-> Missing]
    /\ instances = [x \in InstanceName |-> Missing]
    /\ run = [i \in Id |-> Missing]
    /\ queueFiles = {} /\ sweep = Asleep
    /\ touched = [s \in Scan |-> Missing] /\ unsettled = {} /\ removed = {}

Is(x, status) == instances[x] # Missing /\ instances[x].status = status
Serves(i, s) == run[i] # Missing /\ run[i].scan = s
Idle(s) == \A i \in Id : ~Serves(i, s)
Live(s) == \E i \in Id : Serves(i, s) /\ run[i].at = "live"
At(i, at) == up /\ run[i] # Missing /\ run[i].at = at

\* A day passes; a session that is alive writes its data.
Pass ==
    /\ day < MaxDays /\ day' = day + 1
    /\ touched' = [s \in Scan |-> IF Live(s) THEN day + 1 ELSE touched[s]]
    /\ UNCHANGED <<up, folder, record, instances, run, queueFiles, sweep, unsettled, removed>>

-----------------------------------------------------------------------------
(* Runs *)

\* runMultiScan registers a pending instance and saves the queue file.
Registered(i, s, others) ==
    /\ instances' = [x \in InstanceName |->
           IF x = i THEN [scan |-> s, status |-> "pending"] ELSE IF x \in others THEN Missing ELSE instances[x]]
    /\ run' = [run EXCEPT ![i] = [scan |-> s, at |-> "queued"]]
    /\ queueFiles' = queueFiles \cup {s}
    /\ UNCHANGED <<day, up, folder, record, sweep, touched, unsettled, removed>>

Fresh(i) == run[i] = Missing /\ instances[i] = Missing /\ \A s \in Scan :
                record[s] # Missing => record[s].instance # i

NewScan(i, s) ==
    /\ up /\ Fresh(i) /\ touched[s] = Missing /\ Idle(s) /\ s \notin queueFiles
    /\ Registered(i, s, {})

\* A paused instance is replaced by one with a new ID.
ResumePaused(i, j, s) ==
    /\ up /\ Fresh(i) /\ Is(j, "paused") /\ instances[j].scan = s /\ Idle(s)
    /\ s \in queueFiles /\ Registered(i, s, {j})

\* The auto-resume after a start, and the queue-resume request.
ResumeQueue(i, s) ==
    /\ up /\ Fresh(i) /\ s \in queueFiles /\ Idle(s)
    /\ \A x \in InstanceName : ~Is(x, "pending") /\ ~Is(x, "running")
    /\ Registered(i, s, {})

Admit(i) ==
    /\ At(i, "queued") /\ Is(i, "pending")
    /\ instances' = [instances EXCEPT ![i].status = "running"]
    /\ UNCHANGED <<day, up, folder, record, run, queueFiles, sweep, touched, unsettled, removed>>

\* The session opens the directory, a new one or that of an earlier session, and saves
\* its first record. Only a new entry touches the target's own directory.
Opened(s, i) ==
    [status |-> "running", instance |-> i, finished |-> Missing,
     started |-> IF record[s] = Missing THEN day ELSE record[s].started]

Begin(i) ==
    /\ At(i, "queued") /\ Is(i, "running")
    /\ LET s == run[i].scan IN
        /\ folder' = IF folder = Missing \/ touched[s] = Missing THEN day ELSE folder
        /\ record' = [record EXCEPT ![s] = Opened(s, i)]
        /\ touched' = [touched EXCEPT ![s] = day]
        /\ unsettled' = unsettled \ {s}
        /\ sweep' = IF sweep.at = "off" THEN sweep ELSE [sweep EXCEPT !.recent = @ \ {s}]
    /\ run' = [run EXCEPT ![i].at = "live"]
    /\ UNCHANGED <<day, up, instances, queueFiles, removed>>

\* The session saves its end. That fails when the sweep has removed the directory,
\* unless a scanner made it again, or for want of space.
SessionEnds(i, saved) ==
    /\ At(i, "live")
    /\ LET s == run[i].scan IN
        /\ touched' = [touched EXCEPT ![s] = day]
        /\ record' = IF ~saved THEN record ELSE [record EXCEPT ![s] =
               [status |-> IF Is(i, "running") THEN "finished" ELSE "stopped",
                instance |-> i, finished |-> day,
                started |-> IF record[s] = Missing THEN touched[s] ELSE record[s].started]]
        /\ unsettled' = IF saved THEN unsettled \ {s} ELSE unsettled \cup {s}
    /\ run' = [run EXCEPT ![i].at = "ended"]
    /\ UNCHANGED <<day, up, folder, instances, queueFiles, sweep, removed>>

\* runMultiScan ends: the status follows the record.
Exit(i) ==
    /\ \/ At(i, "ended")
       \/ At(i, "queued") /\ (Is(i, "stopped") \/ Is(i, "paused"))
    /\ instances' = [instances EXCEPT ![i].status = IF @ = "running" THEN "finished" ELSE @]
    /\ queueFiles' = IF Is(i, "paused") THEN queueFiles
                                                ELSE queueFiles \ {run[i].scan}
    /\ run' = [run EXCEPT ![i] = Missing]
    /\ UNCHANGED <<day, up, folder, record, sweep, touched, unsettled, removed>>

\* Stop and pause change the status at once; the session takes its time.
Stop(i) ==
    /\ up /\ (Is(i, "pending") \/ Is(i, "running") \/ Is(i, "paused"))
    /\ instances' = [instances EXCEPT ![i].status = "stopped"]
    /\ queueFiles' = queueFiles \ {instances[i].scan}
    /\ unsettled' = IF At(i, "live") THEN unsettled \cup {run[i].scan} ELSE unsettled
    /\ UNCHANGED <<day, up, folder, record, run, sweep, touched, removed>>

Pause(i) ==
    /\ up /\ Is(i, "running")
    /\ instances' = [instances EXCEPT ![i].status = "paused"]
    /\ UNCHANGED <<day, up, folder, record, run, queueFiles, sweep, touched, unsettled, removed>>

-----------------------------------------------------------------------------
(* The server *)

Crash ==
    /\ up /\ up' = FALSE
    /\ run' = [i \in Id |-> Missing]
    /\ instances' = [x \in InstanceName |-> Missing]
    /\ sweep' = Asleep
    /\ UNCHANGED <<day, folder, record, queueFiles, touched, unsettled, removed>>

\* Mutant: only the instance in memory is corrected, not the record.
CorrectedInMemory(r) == r

\* rebuildInstancesFromDisk: a record that still says "running" ended now.
Corrected(r) ==
    IF r # Missing /\ r.status = "running" THEN [r EXCEPT !.status = "stopped", !.finished = day]
                                        ELSE r

\* initDataDir judges the target's directory by its own modification time.
Outdated == folder # Missing /\ folder + CleanupDays < day

Start(saved) ==
    /\ ~up /\ up' = TRUE
    /\ instances' = [x \in InstanceName |->
           IF x \in Scan /\ record[x] # Missing
           THEN [scan |-> x, status |-> IF record[x].status = "running" THEN "stopped"
                                                                     ELSE record[x].status]
           ELSE Missing]
    /\ folder' = IF Outdated THEN Missing ELSE folder
    /\ record' = [s \in Scan |-> IF Outdated THEN Missing
                                ELSE IF saved THEN Corrected(record[s]) ELSE record[s]]
    /\ unsettled' = IF saved THEN unsettled
                    ELSE unsettled \cup {s \in Scan : Corrected(record[s]) # record[s]}
    /\ removed' = removed \cup
           {[scan |-> s, by |-> "start", recent |-> touched[s] + CleanupDays >= day] :
               s \in {x \in Scan : Outdated /\ record[x] # Missing}}
    /\ UNCHANGED <<day, run, queueFiles, sweep, touched>>

\* pruneExpiredScans: the cutoff and the active instances first (and, as history, the scans
\* that were alive within the window) ...
SweepSnapshot ==
    /\ up /\ Retention > 0 /\ sweep.at = "off" /\ day >= Retention
    /\ sweep' = [Asleep EXCEPT
           !.at = "snapshot", !.cutoff = day - Retention,
           !.active = {x \in InstanceName : \E status \in Active : Is(x, status)},
           !.recent = {s \in Scan \ unsettled : touched[s] # Missing /\ touched[s] + Retention > day}]
    /\ UNCHANGED <<day, up, folder, record, instances, run, queueFiles, touched, unsettled, removed>>

\* ... then the records ...
SweepList ==
    /\ sweep.at = "snapshot"
    /\ sweep' = [sweep EXCEPT !.at = "listed",
                     !.list = [s \in {x \in Scan : record[x] # Missing} |-> record[s]]]
    /\ UNCHANGED <<day, up, folder, record, instances, run, queueFiles, touched, unsettled, removed>>

\* ... and one decision for each record, as it was read.
ReferenceDay(r) == IF r.finished # Missing THEN r.finished ELSE r.started
ScanIsRunning(s, r) == {s, r.instance} \cap sweep.active # {}
Expired(s, r) == ReferenceDay(r) <= sweep.cutoff /\ ~ScanIsRunning(s, r)

SweepOne(s) ==
    /\ sweep.at = "listed" /\ s \in DOMAIN sweep.list
    /\ sweep' = IF DOMAIN sweep.list = {s} THEN Asleep ELSE
           [sweep EXCEPT !.list = [x \in DOMAIN sweep.list \ {s} |-> sweep.list[x]]]
    /\ IF Expired(s, sweep.list[s]) /\ record[s] # Missing
       THEN /\ record' = [record EXCEPT ![s] = Missing]
            /\ removed' = removed \cup
                   {[scan |-> s, by |-> "sweep", recent |-> s \in sweep.recent]}
       ELSE UNCHANGED <<record, removed>>
    /\ UNCHANGED <<day, up, folder, instances, run, queueFiles, touched, unsettled>>

SweepEmpty ==
    /\ sweep.at = "listed" /\ DOMAIN sweep.list = {}
    /\ sweep' = Asleep
    /\ UNCHANGED <<day, up, folder, record, instances, run, queueFiles, touched, unsettled, removed>>

-----------------------------------------------------------------------------
Next ==
    \/ Pass \/ Crash \/ \E saved \in BOOLEAN : Start(saved)
    \/ \E i \in Id :
        \/ Admit(i) \/ Begin(i) \/ Exit(i) \/ \E saved \in BOOLEAN : SessionEnds(i, saved)
        \/ Stop(i) \/ Pause(i)
        \/ \E s \in Scan : NewScan(i, s) \/ ResumeQueue(i, s)
                           \/ \E j \in Id : ResumePaused(i, j, s)
    \/ SweepSnapshot \/ SweepList \/ SweepEmpty \/ \E s \in Scan : SweepOne(s)

Spec == Init /\ [][Next]_dataVars

-----------------------------------------------------------------------------
\* The sweep removes only data that was idle for the whole retention window when the sweep
\* began: not a running session's, however old its record is, nor one that a crash cut off or
\* that was resumed under a new ID. Three gaps are real, and excused: a session that a stop
\* has not reached yet, one whose end could not be saved, and one that began during the sweep
\* look older than they are.
SweepNeedsIdle == \A r \in removed : r.by = "sweep" => ~r.recent
=============================================================================
