---------------------------- MODULE ServicesProofs ----------------------------
(***************************************************************************)
(* Proofs about four services around a scan.                               *)
(*                                                                         *)
(* The saved data of scans: the retention sweep removes only what was idle *)
(* for the whole window, although it decides on what it read earlier.  The *)
(* argument is that a record is either that of an active instance or ends  *)
(* on the day its session was last alive, when the sweep looks; and that   *)
(* what the sweep has read of a scan stays true until the scan begins      *)
(* again, which the sweep is then not judged by.                           *)
(*                                                                         *)
(* The leases of the host: a decision is made on a reading of any age, but *)
(* the slots of every reading are bounded by the cores, which do not       *)
(* change, and the counters are read and changed under the lock.           *)
(*                                                                         *)
(* The two copies of a record: while nothing went wrong the file is ahead  *)
(* of the row only within an operation; and whatever Postgres fails to do, *)
(* the copy a reader finds holds every revision that was acknowledged.     *)
(*                                                                         *)
(* The endpoint inventory: every source only adds to it, so that a refusal *)
(* stays unless a replay lifts it, whatever the sources report and in what *)
(* order; a job changes nothing but its scanner's marks; and a mark that   *)
(* waits belongs to the dispatch under way or to a scanner that lapsed.    *)
(***************************************************************************)
EXTENDS ScanData, HostResources, RecordStore, EndpointInventory, FiniteSetTheorems, TLAPS

-----------------------------------------------------------------------------
\* The saved data of scans

\* The records as the sweep has read them.
Lists == UNION {[S -> Record] : S \in SUBSET Scan}

SweepState ==
    [at : {"off", "snapshot", "listed"}, active : SUBSET InstanceName, cutoff : Nat,
     list : Lists, recent : SUBSET Scan]

Typed ==
    /\ day \in Day /\ up \in BOOLEAN
    /\ record \in [Scan -> Record \cup {Missing}]
    /\ instances \in [InstanceName -> Instance \cup {Missing}]
    /\ run \in [Id -> Run \cup {Missing}]
    /\ sweep \in SweepState
    /\ touched \in [Scan -> DayOrMissing] /\ unsettled \subseteq Scan

IsActive(i) == instances[i] # Missing /\ instances[i].status \in Active

\* A run has its instance, a scan at most one run, and none of them nor a sweep outlives the server.
RunsInv ==
    /\ ~ up => sweep = Asleep /\ \A i \in Id : run[i] = Missing
    /\ \A i \in Id : run[i] # Missing =>
           /\ instances[i] # Missing /\ instances[i].scan = run[i].scan
           /\ \A j \in Id : Serves(j, run[i].scan) => j = i

\* A session that is alive was so today, and its record, if there is one, is of its instance,
\* which is active unless it was stopped.
LiveInv ==
    \A i \in Id : run[i] # Missing /\ run[i].at = "live" =>
        LET s == run[i].scan IN
            /\ touched[s] = day
            /\ s \notin unsettled => IsActive(i)
            /\ record[s] # Missing => record[s].status = "running" /\ record[s].instance = i

\* The record of any other scan says no less than the day it was last alive, unless its end
\* was not saved or the crash has yet to be corrected.
IdleInv ==
    \A s \in Scan \ unsettled : record[s] # Missing /\ ~ Live(s) =>
        /\ touched[s] # Missing
        /\ \/ record[s].finished # Missing /\ record[s].finished >= touched[s]
           \/ ~ up /\ record[s].status = "running"

TouchedInv == \A s \in Scan : touched[s] # Missing => touched[s] <= day

\* What the sweep knows of a scan that was recently alive keeps it.
Kept(s, r) == ReferenceDay(r) > sweep.cutoff \/ ScanIsRunning(s, r)

SweepInv ==
    /\ sweep.at # "off" => sweep.cutoff < day
    /\ sweep.at = "snapshot" => \A s \in sweep.recent : record[s] # Missing => Kept(s, record[s])
    /\ sweep.at = "listed" => \A s \in sweep.recent \cap DOMAIN sweep.list : Kept(s, sweep.list[s])

DataInv ==
    /\ Typed /\ RunsInv /\ LiveInv /\ IdleInv /\ TouchedInv /\ SweepInv /\ SweepNeedsIdle

-----------------------------------------------------------------------------
(* What is read and written has its type.                                   *)

LEMMA ListFacts ==
    /\ \A f \in Lists : DOMAIN f \subseteq Scan /\ \A x \in DOMAIN f : f[x] \in Record
    /\ \A S \in SUBSET Scan : [S -> Record] \subseteq Lists
BY DEF Lists

LEMMA AsleepType == Asleep \in SweepState /\ Asleep.at = "off" /\ Asleep.list \in Lists
<1>1. [s \in {} |-> Missing] \in [{} -> Record]
  OBVIOUS
<1>2. [s \in {} |-> Missing] \in Lists
  BY <1>1, ListFacts
<1> QED
  BY <1>2 DEF Asleep, SweepState

LEMMA DayFacts ==
    Day \subseteq Nat /\ 0 \in Day /\ Missing \notin Day /\ DayOrMissing = Day \cup {Missing}
BY ScanDataAssumption DEF Day, DayOrMissing

LEMMA InitData == Init => DataInv
<1> SUFFICES ASSUME Init PROVE DataInv
  OBVIOUS
<1>1. Typed
  BY AsleepType, DayFacts DEF Init, Typed
<1>2. RunsInv /\ LiveInv
  BY DEF Init, RunsInv, LiveInv
<1>3. IdleInv /\ TouchedInv /\ SweepNeedsIdle
  BY DEF Init, IdleInv, TouchedInv, SweepNeedsIdle
<1>4. SweepInv
  BY AsleepType DEF Init, SweepInv
<1> QED
  BY <1>1, <1>2, <1>3, <1>4 DEF DataInv

LEMMA PassKeeps == DataInv /\ Pass => DataInv'
<1> SUFFICES ASSUME DataInv, Pass PROVE DataInv'
  OBVIOUS
<1> USE DayFacts DEF DataInv
<1>0. day \in Nat /\ day' = day + 1 /\ day' \in Day
  BY ScanDataAssumption DEF Pass, Typed, Day
<1>1. Typed'
  BY <1>0 DEF Pass, Typed
<1>2. RunsInv'
  BY DEF Pass, RunsInv, Serves
<1>3. LiveInv'
  BY <1>0 DEF Pass, LiveInv, Typed, Live, Serves, IsActive, Run
<1>4. IdleInv'
  BY DEF Pass, IdleInv, Live, Serves
<1>5. TouchedInv'
  <2>1. \A s \in Scan : touched[s] # Missing => touched[s] \in Nat
    BY DEF Typed
  <2> QED
    BY <1>0, <2>1 DEF Pass, TouchedInv, Typed
<1>6. SweepInv'
  BY <1>0 DEF Pass, SweepInv, Typed, SweepState, Kept, ReferenceDay, ScanIsRunning
<1>7. SweepNeedsIdle'
  BY DEF Pass, SweepNeedsIdle
<1> QED
  BY <1>1, <1>2, <1>3, <1>4, <1>5, <1>6, <1>7

LEMMA RegisteredKeeps ==
  ASSUME NEW i \in Id, NEW s \in Scan, NEW others \in SUBSET Id, up, run[i] = Missing, Idle(s),
         DataInv, i \notin others,
         \A j \in others : run[j] = Missing, Registered(i, s, others)
  PROVE  DataInv'
<1> USE DayFacts DEF DataInv
<1>1. Typed'
  BY ScanDataAssumption DEF Registered, Typed, Instance, Run, InstanceName
<1>2. RunsInv'
  BY ScanDataAssumption DEF Registered, RunsInv, Serves, Idle, Typed, Run, Instance, InstanceName
<1>3. LiveInv'
  BY DEF Registered, LiveInv, IsActive, Typed, Run, Instance, InstanceName
<1>4. IdleInv'
  BY DEF Registered, IdleInv, Live, Serves, Typed, Run, Instance
<1>5. TouchedInv'
  BY DEF Registered, TouchedInv
<1>6. SweepInv'
  BY DEF Registered, SweepInv, Typed, SweepState, Kept, ReferenceDay, ScanIsRunning
<1>7. SweepNeedsIdle'
  BY DEF Registered, SweepNeedsIdle
<1> QED
  BY <1>1, <1>2, <1>3, <1>4, <1>5, <1>6, <1>7

LEMMA AdmitKeeps ==
  ASSUME NEW i \in Id, DataInv, Admit(i)
  PROVE  DataInv'
<1> USE DayFacts DEF DataInv
<1>1. Typed'
  BY ScanDataAssumption DEF Admit, At, Is, Typed, Instance, Run, InstanceName
<1>2. RunsInv'
  BY ScanDataAssumption DEF Admit, At, Is, RunsInv, Serves, Typed, Run, Instance, InstanceName
<1>3. LiveInv'
  BY ScanDataAssumption DEF Admit, At, Is, RunsInv, LiveInv, IsActive, Active, Serves, Typed, Run, Instance, InstanceName
<1>4. IdleInv'
  BY DEF Admit, At, IdleInv, Live, Serves, Typed, Run, Instance
<1>5. TouchedInv'
  BY DEF Admit, TouchedInv
<1>6. SweepInv'
  BY DEF Admit, SweepInv, Typed, SweepState, Kept, ReferenceDay, ScanIsRunning
<1>7. SweepNeedsIdle'
  BY DEF Admit, SweepNeedsIdle
<1> QED
  BY <1>1, <1>2, <1>3, <1>4, <1>5, <1>6, <1>7

LEMMA PauseKeeps ==
  ASSUME NEW i \in Id, DataInv, Pause(i)
  PROVE  DataInv'
<1> USE DayFacts DEF DataInv
<1>1. Typed'
  BY ScanDataAssumption DEF Pause, At, Is, Typed, Instance, Run, InstanceName
<1>2. RunsInv'
  BY ScanDataAssumption DEF Pause, At, Is, RunsInv, Serves, Typed, Run, Instance, InstanceName
<1>3. LiveInv'
  BY ScanDataAssumption DEF Pause, At, Is, RunsInv, LiveInv, IsActive, Active, Serves, Typed, Run, Instance, InstanceName
<1>4. IdleInv'
  BY DEF Pause, At, IdleInv, Live, Serves, Typed, Run, Instance
<1>5. TouchedInv'
  BY DEF Pause, TouchedInv
<1>6. SweepInv'
  BY DEF Pause, SweepInv, Typed, SweepState, Kept, ReferenceDay, ScanIsRunning
<1>7. SweepNeedsIdle'
  BY DEF Pause, SweepNeedsIdle
<1> QED
  BY <1>1, <1>2, <1>3, <1>4, <1>5, <1>6, <1>7

LEMMA StopKeeps ==
  ASSUME NEW i \in Id, DataInv, Stop(i)
  PROVE  DataInv'
<1> USE DayFacts DEF DataInv
<1>1. Typed'
  BY ScanDataAssumption DEF Stop, At, Is, Typed, Instance, Run, InstanceName
<1>2. RunsInv'
  BY ScanDataAssumption DEF Stop, At, Is, RunsInv, Serves, Typed, Run, Instance, InstanceName
<1>3. LiveInv'
  BY ScanDataAssumption DEF Stop, At, Is, RunsInv, LiveInv, IsActive, Active, Serves, Typed, Run, Instance, InstanceName
<1>4. IdleInv'
  BY DEF Stop, At, IdleInv, Live, Serves, Typed, Run, Instance
<1>5. TouchedInv'
  BY DEF Stop, TouchedInv
<1>6. SweepInv'
  BY DEF Stop, SweepInv, Typed, SweepState, Kept, ReferenceDay, ScanIsRunning
<1>7. SweepNeedsIdle'
  BY DEF Stop, SweepNeedsIdle
<1> QED
  BY <1>1, <1>2, <1>3, <1>4, <1>5, <1>6, <1>7

LEMMA ExitKeeps ==
  ASSUME NEW i \in Id, DataInv, Exit(i)
  PROVE  DataInv'
<1> USE DayFacts DEF DataInv
<1>1. Typed'
  BY ScanDataAssumption DEF Exit, At, Is, RunsInv, Typed, Instance, Run, InstanceName
<1>2. RunsInv'
  BY ScanDataAssumption DEF Exit, At, Is, RunsInv, Serves, Typed, Run, Instance, InstanceName
<1>3. LiveInv'
  BY ScanDataAssumption DEF Exit, At, Is, RunsInv, LiveInv, IsActive, Active, Serves, Typed, Run, Instance, InstanceName
<1>4. IdleInv'
  BY DEF Exit, At, IdleInv, Live, Serves, Typed, Run, Instance
<1>5. TouchedInv'
  BY DEF Exit, TouchedInv
<1>6. SweepInv'
  BY DEF Exit, SweepInv, Typed, SweepState, Kept, ReferenceDay, ScanIsRunning
<1>7. SweepNeedsIdle'
  BY DEF Exit, SweepNeedsIdle
<1> QED
  BY <1>1, <1>2, <1>3, <1>4, <1>5, <1>6, <1>7

LEMMA BeginKeeps ==
  ASSUME NEW i \in Id, DataInv, Begin(i)
  PROVE  DataInv'
<1> USE DayFacts DEF DataInv
<1> DEFINE s == run[i].scan
<1>0. s \in Scan /\ run[i] \in Run /\ IsActive(i) /\ Opened(s, i) \in Record /\ Opened(s, i) # Missing
      /\ Opened(s, i).status = "running" /\ Opened(s, i).instance = i
  BY ScanDataAssumption DEF Begin, At, Is, IsActive, Active, Typed, Run, Opened, Record
<1>1. Typed'
  BY <1>0 DEF Begin, At, Typed, Run, SweepState
<1>2. RunsInv'
  BY <1>0, ScanDataAssumption DEF Begin, At, RunsInv, Serves, Typed, Run
<1>3. LiveInv'
  BY <1>0 DEF Begin, At, RunsInv, LiveInv, IsActive, Serves, Typed, Run
<1>4. IdleInv'
  <2> SUFFICES ASSUME NEW x \in Scan, x \notin unsettled', record'[x] # Missing, ~ Live(x)'
               PROVE  /\ touched'[x] # Missing
                      /\ \/ record'[x].finished # Missing /\ record'[x].finished >= touched'[x]
                         \/ ~ up' /\ record'[x].status = "running"
    BY DEF IdleInv
  <2>1. run' = [run EXCEPT ![i].at = "live"] /\ run'[i].at = "live" /\ run'[i].scan = s /\ run'[i] # Missing
    BY <1>0, ScanDataAssumption DEF Begin, Typed, Run
  <2>2. x # s
    BY <2>1 DEF Live, Serves
  <2>3. x \notin unsettled /\ record'[x] = record[x] /\ touched'[x] = touched[x]
    BY <1>0, <2>2 DEF Begin, Typed
  <2>4. ~ Live(x)
    BY <1>0, <2>1, <2>2 DEF Live, Serves, Typed, Run
  <2> QED
    BY <2>3, <2>4 DEF IdleInv, Begin
<1>5. TouchedInv'
  BY DEF Begin, TouchedInv, Typed
<1>6. SweepInv'
  BY <1>0 DEF Begin, SweepInv, Typed, SweepState, Kept, ReferenceDay, ScanIsRunning
<1>7. SweepNeedsIdle'
  BY DEF Begin, SweepNeedsIdle
<1> QED
  BY <1>1, <1>2, <1>3, <1>4, <1>5, <1>6, <1>7

LEMMA SessionEndsKeeps ==
  ASSUME NEW i \in Id, NEW saved \in BOOLEAN, DataInv, SessionEnds(i, saved)
  PROVE  DataInv'
<1> USE DayFacts DEF DataInv
<1> DEFINE s == run[i].scan
<1>0. s \in Scan /\ run[i] \in Run /\ run[i].at = "live" /\ touched[s] = day
  BY DEF SessionEnds, At, Typed, Run, LiveInv
<1>1. Typed'
  BY <1>0 DEF SessionEnds, At, Typed, Run, Record
<1>2. RunsInv'
  BY <1>0, ScanDataAssumption DEF SessionEnds, At, RunsInv, Serves, Typed, Run
<1>3. LiveInv'
  BY <1>0 DEF SessionEnds, At, RunsInv, LiveInv, IsActive, Serves, Typed, Run
<1>4. IdleInv'
  BY <1>0 DEF SessionEnds, At, IdleInv, Live, Serves, Typed, Run
<1>5. TouchedInv'
  BY <1>0 DEF SessionEnds, TouchedInv, Typed
<1>6. SweepInv'
  BY <1>0 DEF SessionEnds, SweepInv, Typed, SweepState, Kept, ReferenceDay, ScanIsRunning
<1>7. SweepNeedsIdle'
  BY DEF SessionEnds, SweepNeedsIdle
<1> QED
  BY <1>1, <1>2, <1>3, <1>4, <1>5, <1>6, <1>7

LEMMA CrashKeeps ==
  ASSUME DataInv, Crash
  PROVE  DataInv'
<1> USE DayFacts DEF DataInv
<1>1. Typed'
  BY AsleepType DEF Crash, Typed
<1>2. RunsInv'
  BY DEF Crash, RunsInv
<1>3. LiveInv'
  BY DEF Crash, LiveInv
<1>4. IdleInv'
  BY DEF Crash, LiveInv, RunsInv, IdleInv, Live, Serves, Typed
<1>5. TouchedInv'
  BY DEF Crash, TouchedInv
<1>6. SweepInv'
  BY AsleepType DEF Crash, SweepInv
<1>7. SweepNeedsIdle'
  BY DEF Crash, SweepNeedsIdle
<1> QED
  BY <1>1, <1>2, <1>3, <1>4, <1>5, <1>6, <1>7

LEMMA StartKeeps ==
  ASSUME NEW saved \in BOOLEAN, DataInv, Start(saved)
  PROVE  DataInv'
<1> USE DayFacts DEF DataInv
<1>1. Typed'
  <2>1. \A r \in Record : Corrected(r) \in Record
    BY DEF Typed, Corrected, Record
  <2>2. record' \in [Scan -> Record \cup {Missing}]
    BY <2>1 DEF Start, Typed, Corrected
  <2>3. instances' \in [InstanceName -> Instance \cup {Missing}]
    BY DEF Start, Typed, Record, Instance
  <2> QED
    BY <2>2, <2>3 DEF Start, Typed
<1>2. RunsInv'
  BY DEF Start, RunsInv, Serves
<1>3. LiveInv'
  BY DEF Start, RunsInv, LiveInv
<1>4. IdleInv'
  <2> SUFFICES ASSUME NEW s \in Scan, s \notin unsettled', record'[s] # Missing, ~ Live(s)'
               PROVE  /\ touched[s] # Missing
                      /\ record'[s].finished # Missing /\ record'[s].finished >= touched[s]
    BY DEF IdleInv, Start
  <2>1. record'[s] = Corrected(record[s]) /\ record[s] \in Record /\ s \notin unsettled
    BY DEF Start, Typed, Corrected
  <2>2. ~ Live(s)
    BY DEF Start, RunsInv, Live, Serves
  <2>3. touched[s] # Missing /\ touched[s] \in Nat /\ touched[s] <= day
        /\ (record[s].status # "running" =>
               record[s].finished # Missing /\ record[s].finished >= touched[s])
    BY <2>1, <2>2, ScanDataAssumption DEF IdleInv, TouchedInv, Typed, Start
  <2>4. CASE record[s].status = "running"
    <3>1. record'[s].finished = day
      BY <2>1, <2>4, ScanDataAssumption DEF Corrected, Record
    <3> QED
      BY <2>3, <3>1 DEF Typed
  <2>5. CASE record[s].status # "running"
    BY <2>1, <2>3, <2>5 DEF Corrected
  <2> QED
    BY <2>4, <2>5
<1>5. TouchedInv'
  BY DEF Start, TouchedInv
<1>6. SweepInv'
  BY AsleepType DEF Start, RunsInv, SweepInv
<1>7. SweepNeedsIdle'
  BY DEF Start, SweepNeedsIdle
<1> QED
  BY <1>1, <1>2, <1>3, <1>4, <1>5, <1>6, <1>7

LEMMA SweepSnapshotKeeps ==
  ASSUME DataInv, SweepSnapshot
  PROVE  DataInv'
<1> USE DayFacts DEF DataInv
<1>1. Typed'
  <2>1. day - Retention \in Nat
    BY ScanDataAssumption DEF SweepSnapshot, Typed
  <2>2. sweep' \in SweepState
    BY <2>1, AsleepType DEF SweepSnapshot, Typed, SweepState, Asleep
  <2> QED
    BY <2>2 DEF SweepSnapshot, Typed
<1>2. RunsInv'
  BY DEF SweepSnapshot, RunsInv, Serves
<1>3. LiveInv'
  BY DEF SweepSnapshot, LiveInv, IsActive
<1>4. IdleInv'
  BY DEF SweepSnapshot, IdleInv, Live, Serves
<1>5. TouchedInv'
  BY DEF SweepSnapshot, TouchedInv
<1>6. SweepInv'
  BY ScanDataAssumption DEF SweepSnapshot, SweepInv, LiveInv, IdleInv, RunsInv, TouchedInv, Typed, Kept, ReferenceDay, ScanIsRunning, Live, Serves, Is, IsActive, Asleep, Record, InstanceName
<1>7. SweepNeedsIdle'
  BY DEF SweepSnapshot, SweepNeedsIdle
<1> QED
  BY <1>1, <1>2, <1>3, <1>4, <1>5, <1>6, <1>7

LEMMA SweepListKeeps ==
  ASSUME DataInv, SweepList
  PROVE  DataInv'
<1> USE DayFacts DEF DataInv
<1>1. Typed'
  <2> DEFINE S == {x \in Scan : record[x] # Missing}
             l == [s \in S |-> record[s]]
  <2>1. l \in [S -> Record] /\ S \in SUBSET Scan
    BY DEF Typed
  <2>2. l \in Lists
    BY <2>1, ListFacts
  <2>3. sweep' = [sweep EXCEPT !.at = "listed", !.list = l]
    BY DEF SweepList
  <2>4. sweep' \in SweepState
    <3> HIDE DEF l
    <3> QED
      BY <2>2, <2>3 DEF Typed, SweepState
  <2> QED
    BY <2>4 DEF SweepList, Typed
<1>2. RunsInv'
  BY ScanDataAssumption DEF SweepList, RunsInv, Serves, Asleep
<1>3. LiveInv'
  BY DEF SweepList, LiveInv, IsActive
<1>4. IdleInv'
  BY DEF SweepList, IdleInv, Live, Serves
<1>5. TouchedInv'
  BY DEF SweepList, TouchedInv
<1>6. SweepInv'
  BY DEF SweepList, SweepInv, Typed, SweepState, Kept, ReferenceDay, ScanIsRunning
<1>7. SweepNeedsIdle'
  BY DEF SweepList, SweepNeedsIdle
<1> QED
  BY <1>1, <1>2, <1>3, <1>4, <1>5, <1>6, <1>7

LEMMA SweepOneKeeps ==
  ASSUME NEW s \in Scan, DataInv, SweepOne(s)
  PROVE  DataInv'
<1> USE DayFacts DEF DataInv
<1>1. Typed'
  <2> DEFINE l == [x \in DOMAIN sweep.list \ {s} |-> sweep.list[x]]
  <2>1. sweep \in SweepState /\ sweep.list \in Lists
    BY DEF Typed, SweepState
  <2>2. l \in [DOMAIN sweep.list \ {s} -> Record] /\ DOMAIN sweep.list \ {s} \in SUBSET Scan
    BY <2>1, ListFacts
  <2>3. l \in Lists
    BY <2>2, ListFacts
  <2>4. sweep' = Asleep \/ sweep' = [sweep EXCEPT !.list = l]
    BY DEF SweepOne
  <2>5. sweep' \in SweepState
    <3> HIDE DEF l
    <3> QED
      BY <2>1, <2>3, <2>4, AsleepType DEF SweepState
  <2>6. record' \in [Scan -> Record \cup {Missing}]
    BY DEF SweepOne, Typed
  <2> QED
    BY <2>5, <2>6 DEF SweepOne, Typed
<1>2. RunsInv'
  BY ScanDataAssumption DEF SweepOne, RunsInv, Serves, Asleep
<1>3. LiveInv'
  <2>1. \A x \in Scan : record'[x] # Missing => record'[x] = record[x]
    BY DEF SweepOne, Typed
  <2> QED
    BY <2>1 DEF SweepOne, LiveInv, IsActive, Typed, Run
<1>4. IdleInv'
  BY DEF SweepOne, IdleInv, Live, Serves, Typed
<1>5. TouchedInv'
  BY DEF SweepOne, TouchedInv
<1>6. SweepInv'
  BY AsleepType DEF SweepOne, SweepInv, Typed, SweepState, Kept, ReferenceDay, ScanIsRunning
<1>7. SweepNeedsIdle'
  <2>1. sweep.list[s] \in Record /\ sweep.cutoff \in Nat
    BY ListFacts DEF SweepOne, Typed, SweepState
  <2>2. ReferenceDay(sweep.list[s]) \in Nat
    BY <2>1 DEF ReferenceDay, Record
  <2>3. Expired(s, sweep.list[s]) => s \notin sweep.recent
    BY <2>1, <2>2 DEF SweepOne, SweepInv, Expired, Kept
  <2> DEFINE removal == [scan |-> s, by |-> "sweep", recent |-> s \in sweep.recent]
  <2>4. CASE Expired(s, sweep.list[s]) /\ record[s] # Missing
    <3>1. removed' = removed \cup {removal}
      BY <2>4 DEF SweepOne
    <3>2. removal.recent = (s \in sweep.recent)
      OBVIOUS
    <3>3. ~ removal.recent
      BY <2>3, <2>4, <3>2, Zenon
    <3> QED
      BY <3>1, <3>3 DEF SweepNeedsIdle
  <2>5. CASE ~ (Expired(s, sweep.list[s]) /\ record[s] # Missing)
    BY <2>5 DEF SweepOne, SweepNeedsIdle
  <2> QED
    BY <2>4, <2>5
<1> QED
  BY <1>1, <1>2, <1>3, <1>4, <1>5, <1>6, <1>7

LEMMA SweepEmptyKeeps ==
  ASSUME DataInv, SweepEmpty
  PROVE  DataInv'
<1> USE DayFacts DEF DataInv
<1>1. Typed'
  BY AsleepType DEF SweepEmpty, Typed
<1>2. RunsInv'
  BY DEF SweepEmpty, RunsInv, Serves
<1>3. LiveInv'
  BY DEF SweepEmpty, LiveInv, IsActive
<1>4. IdleInv'
  BY DEF SweepEmpty, IdleInv, Live, Serves
<1>5. TouchedInv'
  BY DEF SweepEmpty, TouchedInv
<1>6. SweepInv'
  BY AsleepType DEF SweepEmpty, SweepInv
<1>7. SweepNeedsIdle'
  BY DEF SweepEmpty, SweepNeedsIdle
<1> QED
  BY <1>1, <1>2, <1>3, <1>4, <1>5, <1>6, <1>7

\* The three ways in which a run is registered serve a scan that is idle.
LEMMA RegisteringKeeps ==
  ASSUME NEW i \in Id, NEW s \in Scan, DataInv,
         NewScan(i, s) \/ ResumeQueue(i, s) \/ \E j \in Id : ResumePaused(i, j, s)
  PROVE  DataInv'
<1>1. CASE NewScan(i, s) \/ ResumeQueue(i, s)
  BY <1>1, RegisteredKeeps DEF NewScan, ResumeQueue, Fresh
<1>2. ASSUME NEW j \in Id, ResumePaused(i, j, s)
      PROVE  DataInv'
  <2>1. run[j] = Missing
    BY <1>2 DEF DataInv, RunsInv, ResumePaused, Is, Idle, Serves
  <2>2. i # j
    BY <1>2 DEF ResumePaused, Fresh, Is
  <2> QED
    BY <1>2, <2>1, <2>2, RegisteredKeeps DEF ResumePaused, Fresh
<1> QED
  BY <1>1, <1>2

-----------------------------------------------------------------------------
(* The invariant, and what follows from it.                                 *)

LEMMA DataStep == DataInv /\ [Next]_dataVars => DataInv'
<1> SUFFICES ASSUME DataInv, [Next]_dataVars PROVE DataInv'
  OBVIOUS
<1>1. CASE Pass \/ Crash \/ \E saved \in BOOLEAN : Start(saved)
  BY <1>1, PassKeeps, CrashKeeps, StartKeeps
<1>2. ASSUME NEW i \in Id,
             \/ Admit(i) \/ Begin(i) \/ Exit(i) \/ \E saved \in BOOLEAN : SessionEnds(i, saved)
             \/ Stop(i) \/ Pause(i)
      PROVE  DataInv'
  BY <1>2, AdmitKeeps, BeginKeeps, ExitKeeps, SessionEndsKeeps, StopKeeps, PauseKeeps
<1>3. ASSUME NEW i \in Id, NEW s \in Scan,
             NewScan(i, s) \/ ResumeQueue(i, s) \/ \E j \in Id : ResumePaused(i, j, s)
      PROVE  DataInv'
  BY <1>3, RegisteringKeeps
<1>4. CASE SweepSnapshot \/ SweepList \/ SweepEmpty \/ \E s \in Scan : SweepOne(s)
  BY <1>4, SweepSnapshotKeeps, SweepListKeeps, SweepEmptyKeeps, SweepOneKeeps
<1>5. CASE UNCHANGED dataVars
  BY <1>5 DEF dataVars, DataInv, Typed, RunsInv, LiveInv, IsActive, IdleInv, TouchedInv,
     SweepInv, SweepNeedsIdle, Kept, ReferenceDay, ScanIsRunning, Serves, Live
<1> QED
  BY <1>1, <1>2, <1>3, <1>4, <1>5 DEF Next

LEMMA DataInvariant == Spec => []DataInv
<1> QED
  BY InitData, DataStep, PTL DEF Spec

\* A sweep removes a scan's data only if no session of the scan was alive within the window when
\* the sweep began, for any retention and whatever ends, starts, stops or is resumed while it
\* decides on what it read (pruneExpiredScans).
THEOREM SweptWasIdle == Spec => []SweepNeedsIdle
<1>1. DataInv => SweepNeedsIdle
  BY DEF DataInv
<1> QED
  BY <1>1, DataInvariant, PTL

-----------------------------------------------------------------------------
\* The leases of the host

\* A host and what may be measured on it.
Host == [cores : Nat \ {0}, total : Nat, hardLimit : Nat, manualMax : Nat]
Stats == [available : Nat, load : Nat, disk : Int]

\* The types the proofs use: any measurement, and no bound on the scans.
HostTyped ==
    /\ host \in Host /\ reading \in Stats
    /\ leaseRequest \in [Requester -> [at : {"idle", "measured", "waiting", "held", "released"},
                                       seen : Stats, limit : Nat]]
    /\ activeToolLeases \in Nat /\ activeHeavyToolLeases \in Nat /\ scans \in Nat

\* Division that rounds down.
LEMMA Quotient ==
    ASSUME NEW a \in Nat, NEW b \in Nat \ {0}
    PROVE  a \div b \in Nat /\ (a \div b) * b <= a /\ a < ((a \div b) + 1) * b
  OBVIOUS

\* What is computed from the host are positive numbers.
LEMMA Capacities ==
    ASSUME host \in Host
    PROVE  /\ ramCriticalMB \in Nat /\ ramCautionMB \in Nat
           /\ perInstanceMemoryBudgetMB \in Nat \ {0}
           /\ autoHeavyToolMemLimitMB \in Nat \ {0}
           /\ heavyToolCPULoad \in {85, 90, 100}
           /\ heavyToolParallelCap \in Nat \ {0}
           /\ heavyToolParallelCap <= host.cores * host.cores
<1>0. host.cores \in Nat \ {0} /\ host.total \in Nat /\ host.hardLimit \in Nat
  BY DEF Host
<1>1. ramCriticalMB \in Nat /\ ramCautionMB \in Nat
  BY <1>0, Quotient DEF ramCriticalMB, ramCautionMB, AtLeast
<1>2. hostReserveMB \in 512..2048 /\ scanOverheadMB \in 256..512
  <2>1. (host.total * 20) \div 100 \in Int /\ host.total \div 16 \in Int
    BY <1>0
  <2> QED
    BY <2>1 DEF hostReserveMB, scanOverheadMB, Clamp, AtLeast, AtMost
<1>3. Clamp(host.cores, 1, 6) \in 1..6
  BY <1>0 DEF Clamp, AtLeast, AtMost
<1>4. AtLeast(host.total - hostReserveMB, 1024) \in Nat
  BY <1>0, <1>2 DEF AtLeast
<1>5. AtLeast(host.total - hostReserveMB, 1024) \div Clamp(host.cores, 1, 6) \in Nat
  BY <1>3, <1>4, Quotient
<1>6. autoScanMemoryBudgetMB \in 768..2048
  <2> DEFINE each == AtLeast(host.total - hostReserveMB, 1024) \div Clamp(host.cores, 1, 6)
  <2>1. each \in Nat
    BY <1>5
  <2>2. autoScanMemoryBudgetMB = IF host.total <= 0 THEN 1024 ELSE Clamp(each, 768, 2048)
    BY DEF autoScanMemoryBudgetMB
  <2> HIDE DEF each
  <2> QED
    BY <2>1, <2>2 DEF Clamp, AtLeast, AtMost
<1>7. scanMemoryBudgetMB \in 1024..2048
  BY <1>6 DEF scanMemoryBudgetMB, AtLeast
<1>8. perInstanceMemoryBudgetMB \in Nat \ {0}
  BY <1>0, <1>2, <1>7 DEF perInstanceMemoryBudgetMB, AtLeast
<1>9. autoHeavyToolMemLimitMB \in Nat \ {0}
  <2> DEFINE limit == Clamp(host.total \div 4, 256, 4096)
  <2>1. limit \in 256..4096
    <3> DEFINE quarter == host.total \div 4
    <3>1. quarter \in Int
      BY <1>0
    <3>2. limit = Clamp(quarter, 256, 4096)
      OBVIOUS
    <3> HIDE DEF quarter, limit
    <3>3. Clamp(quarter, 256, 4096) \in 256..4096
      BY <3>1 DEF Clamp, AtLeast, AtMost
    <3> QED
      BY <3>2, <3>3
  <2>2. scanMemoryBudgetMB - scanOverheadMB \in Int
    BY <1>2, <1>7
  <2>3. autoHeavyToolMemLimitMB = IF scanMemoryBudgetMB - scanOverheadMB >= 256
                                  THEN AtMost(limit, scanMemoryBudgetMB - scanOverheadMB)
                                  ELSE limit
    BY DEF autoHeavyToolMemLimitMB
  <2> HIDE DEF limit
  <2> QED
    BY <2>1, <2>2, <2>3 DEF AtMost
<1>10. heavyToolCPULoad \in {85, 90, 100}
  BY <1>0 DEF heavyToolCPULoad
<1>11. heavyToolParallelCap \in Nat \ {0} /\ heavyToolParallelCap <= host.cores * host.cores
  <2>1. CASE host.cores = 1
    BY <2>1 DEF heavyToolParallelCap
  <2>2. CASE host.cores = 2
    BY <2>2 DEF heavyToolParallelCap
  <2>3. CASE host.cores >= 3
    <3>1. host.cores * host.cores >= 3 * host.cores
      BY <1>0, <2>3
    <3>2. heavyToolParallelCap = AtLeast(host.cores - 1, 2)
      BY <1>0, <2>3 DEF heavyToolParallelCap
    <3> QED
      BY <1>0, <2>3, <3>1, <3>2 DEF AtLeast
  <2> QED
    <3>1. host.cores = 1 \/ host.cores = 2 \/ host.cores >= 3
      BY <1>0
    <3> QED
      BY <2>1, <2>2, <2>3, <3>1
<1> QED
  BY <1>1, <1>8, <1>9, <1>10, <1>11

\* The load never makes more room than the cores have.
LEMMA CPUCapacities ==
    ASSUME host \in Host, NEW seen \in Stats
    PROVE  /\ heavyToolCPUCapacity(seen) \in Nat \ {0}
           /\ lightToolCPUCapacity(seen) \in 1..(host.cores * host.cores)
<1> DEFINE c == host.cores
           busy == BusyTenths(seen)
           square == host.cores * host.cores
<1>0. c \in Nat \ {0} /\ seen.load \in Nat /\ square \in Nat \ {0}
  BY DEF Host, Stats
<1>1. busy \in Nat \ {0} /\ busy >= c * 10
  BY <1>0 DEF BusyTenths, AtLeast
<1>2. heavyToolCPUCapacity(seen) \in Nat \ {0}
  <2>1. heavyToolCPULoad * busy \in Nat \ {0} /\ c * c * 1000 \in Nat
    BY <1>0, <1>1, Capacities
  <2>2. (c * c * 1000) \div (heavyToolCPULoad * busy) \in Nat
    BY <2>1, Quotient
  <2> QED
    BY <2>2 DEF heavyToolCPUCapacity, AtLeast
<1>3. lightToolCPUCapacity(seen) \in 1..square
  <2> DEFINE top == c * c * c * 10 + busy - 1
             n == top \div busy
  <2>1. c * c * c * 10 = square * (c * 10)
    BY <1>0
  <2>2. square * (c * 10) <= square * busy
    BY <1>0, <1>1
  <2>3. square * busy + busy = (square + 1) * busy
    BY <1>0, <1>1
  <2>4. top \in Nat /\ top < (square + 1) * busy
    BY <1>0, <1>1, <2>1, <2>2, <2>3
  <2>5. n \in Nat /\ n * busy <= top
    BY <1>1, <2>4, Quotient
  <2>6. n < square + 1
    <3>1. SUFFICES ASSUME n >= square + 1 PROVE FALSE
      BY <1>0, <2>5
    <3>2. n * busy >= (square + 1) * busy
      BY <1>0, <1>1, <2>5, <3>1
    <3> QED
      BY <1>0, <1>1, <2>4, <2>5, <3>2
  <2>7. lightToolCPUCapacity(seen) = AtLeast(n, 1)
    BY DEF lightToolCPUCapacity
  <2> QED
    BY <1>0, <2>5, <2>6, <2>7 DEF AtLeast
<1> QED
  BY <1>2, <1>3

\* The slots of a reading: none below the floor of memory, and no more than the cores carry.
LEMMA Slots ==
    ASSUME host \in Host, NEW seen \in Stats
    PROVE  /\ spareMB(seen) \in Int
           /\ HeavyToolSlots(seen) \in 0..heavyToolParallelCap
           /\ LightToolSlots(seen) \in 0..(host.cores * host.cores)
           /\ spareMB(seen) > 0 => HeavyToolSlots(seen) > 0 /\ LightToolSlots(seen) > 0
           /\ spareMB(seen) <= 0 => HeavyToolSlots(seen) = 0 /\ LightToolSlots(seen) = 0
<1>0. spareMB(seen) \in Int
  BY Capacities DEF spareMB, Stats
<1>1. CASE spareMB(seen) <= 0
  <2>1. HeavyToolSlots(seen) = 0 /\ LightToolSlots(seen) = 0
    BY <1>1 DEF HeavyToolSlots, LightToolSlots
  <2> QED
    BY <1>0, <1>1, <2>1, Capacities DEF Host
<1>2. CASE spareMB(seen) > 0
  <2> DEFINE heavy == autoHeavyToolMemLimitMB
             light == AtLeast(autoHeavyToolMemLimitMB \div AtLeast(host.cores, 1), 1)
             square == host.cores * host.cores
  <2>1. heavy \in Nat \ {0} /\ light \in Nat \ {0} /\ square \in Nat
    <3>1. AtLeast(host.cores, 1) \in Nat \ {0} /\ square \in Nat
      BY DEF AtLeast, Host
    <3>2. autoHeavyToolMemLimitMB \div AtLeast(host.cores, 1) \in Nat
      BY <3>1, Capacities, Quotient
    <3> QED
      BY <3>1, <3>2, Capacities DEF AtLeast
  <2>2. /\ HeavyToolSlots(seen) = AtMost(AtLeast(spareMB(seen) \div heavy, 1),
                                        AtMost(heavyToolCPUCapacity(seen), heavyToolParallelCap))
        /\ LightToolSlots(seen) = AtLeast(AtMost(AtLeast(spareMB(seen) \div light, 1),
                                                lightToolCPUCapacity(seen)), HeavyToolSlots(seen))
    BY <1>0, <1>2 DEF HeavyToolSlots, LightToolSlots, toolMemoryEstimateMB
  <2>3. spareMB(seen) \div heavy \in Nat /\ spareMB(seen) \div light \in Nat
    BY <1>0, <1>2, <2>1, Quotient
  <2> HIDE DEF heavy, light, square
  <2>4. HeavyToolSlots(seen) \in 1..heavyToolParallelCap
    BY <2>2, <2>3, Capacities, CPUCapacities DEF AtLeast, AtMost
  <2>5. lightToolCPUCapacity(seen) \in 1..square /\ heavyToolParallelCap <= square
    BY Capacities, CPUCapacities DEF square
  <2>6. AtMost(AtLeast(spareMB(seen) \div light, 1), lightToolCPUCapacity(seen)) \in 1..square
    BY <2>1, <2>3, <2>5 DEF AtLeast, AtMost
  <2>7. LightToolSlots(seen) \in 1..square
    BY <2>1, <2>2, <2>4, <2>5, <2>6, Capacities DEF AtLeast
  <2> USE DEF square
  <2> QED
    BY <1>0, <1>2, <2>4, <2>7, Capacities
<1> QED
  BY <1>0, <1>1, <1>2

\* A hard limit is kept within its bounds, whatever the share.
LEMMA Limits ==
    ASSUME host \in Host, NEW seen \in Stats, NEW q, NEW total \in Nat,
           NEW heavies \in Nat
    PROVE  /\ toolMemoryLimitMB(seen, q \in Heavy, total, heavies) \in Nat
           /\ IF host.hardLimit = 0 THEN toolMemoryLimitMB(seen, q \in Heavy, total, heavies) = 0
              ELSE toolMemoryLimitMB(seen, q \in Heavy, total, heavies)
                       \in 128..AtLeast(host.hardLimit, minimumHeavyToolMemMB)
<1> DEFINE n == AtLeast(IF q \in Heavy THEN heavies ELSE total, 1)
           share == spareMB(seen) \div n
           dynamic == IF currentLevel(seen) = 1 THEN (share * 3) \div 4 ELSE share
           least == IF q \in Heavy THEN minimumHeavyToolMemMB ELSE 128
<1>0. host.hardLimit \in Nat
  BY DEF Host
<1>1. n \in Nat \ {0}
  BY DEF AtLeast
<1>2. share \in Int
  BY <1>1, Slots
<1>3. dynamic \in Int
  BY <1>2
<1>4. least \in 128..256
  BY DEF minimumHeavyToolMemMB
<1>5. toolMemoryLimitMB(seen, q \in Heavy, total, heavies) =
        CASE host.hardLimit <= 0 -> 0
          [] host.hardLimit > 0 /\ spareMB(seen) <= 0 -> minimumHeavyToolMemMB
          [] OTHER -> AtLeast(AtMost(dynamic, host.hardLimit), least)
  BY DEF toolMemoryLimitMB
<1> HIDE DEF dynamic, least
<1> QED
  BY <1>0, <1>3, <1>4, <1>5, Slots DEF AtLeast, AtMost, minimumHeavyToolMemMB

\* What a host may measure is well typed (GetStats).
LEMMA Readable ==
    ASSUME host \in Host, NEW r \in Readings
    PROVE  Measured(host, r) \in Stats
<1>1. host.total * r.share \in Nat /\ host.cores * r.load \in Nat /\ r.disk \in Int
  BY HostAssumption DEF Host
<1> QED
  BY <1>1, Quotient DEF Measured, Stats

\* The host starts well typed (resources.go, init).
LEMMA HostTypedInit == LeaseInit => HostTyped
<1> SUFFICES ASSUME NEW h \in Hosts, NEW r \in Readings, HostStartsFrom(h, r) PROVE HostTyped
  BY DEF LeaseInit
<1>1. host \in Host /\ reading \in Stats
  BY Readable, HostAssumption DEF HostStartsFrom, Host
<1> QED
  BY <1>1 DEF HostTyped, HostStartsFrom, NoLease, NoReading, Stats

\* Every step of a caller and of the host keeps the types.
LEMMA HostTypedNext == HostTyped /\ [LeaseNext]_hostVars => HostTyped'
<1> SUFFICES ASSUME HostTyped, [LeaseNext]_hostVars PROVE HostTyped'
  OBVIOUS
<1> USE DEF HostTyped
<1>1. CASE Change
  BY <1>1, Readable DEF Change
<1>2. CASE AdmitScan
  BY <1>2 DEF AdmitScan
<1>3. CASE ScanEnds
  BY <1>3 DEF ScanEnds
<1>4. ASSUME NEW q \in Requester, GetStats(q) PROVE HostTyped'
  BY <1>4 DEF GetStats, NoLease, NoReading, Stats
<1>5. ASSUME NEW q \in Requester, tryAcquireToolLease(q) PROVE HostTyped'
  <2> DEFINE heavies == activeHeavyToolLeases + (IF q \in Heavy THEN 1 ELSE 0)
             granted == toolMemoryLimitMB(leaseRequest[q].seen, q \in Heavy, activeToolLeases + 1,
                                          heavies)
             waiting == [NoLease EXCEPT !.at = "waiting"]
             Leases == [at : {"idle", "measured", "waiting", "held", "released"},
                        seen : Stats, limit : Nat]
  <2>1. heavies \in Nat
    OBVIOUS
  <2> HIDE DEF heavies
  <2>2. granted \in Nat
    BY <2>1, Limits
  <2>3. waiting \in Leases
    BY DEF NoLease, NoReading, Stats
  <2> HIDE DEF granted, waiting, Leases
  <2>4. host' = host /\ reading' = reading /\ scans' = scans
    BY <1>5 DEF tryAcquireToolLease
  <2>5. \/ /\ leaseRequest' = [leaseRequest EXCEPT ![q].at = "held", ![q].limit = granted]
           /\ activeToolLeases' = activeToolLeases + 1 /\ activeHeavyToolLeases' = heavies
        \/ /\ leaseRequest' = [leaseRequest EXCEPT ![q] = waiting]
           /\ activeToolLeases' = activeToolLeases
           /\ activeHeavyToolLeases' = activeHeavyToolLeases
    BY <1>5 DEF tryAcquireToolLease, heavies, granted, waiting
  <2>6. leaseRequest' \in [Requester -> Leases]
    <3>1. [leaseRequest EXCEPT ![q].at = "held", ![q].limit = granted] \in [Requester -> Leases]
      BY <2>2 DEF Leases
    <3>2. [leaseRequest EXCEPT ![q] = waiting] \in [Requester -> Leases]
      BY <2>3 DEF Leases
    <3> QED
      BY <2>5, <3>1, <3>2
  <2>7. activeToolLeases' \in Nat /\ activeHeavyToolLeases' \in Nat
    BY <2>1, <2>5
  <2>8. host' \in Host /\ reading' \in Stats /\ scans' \in Nat
    BY <2>4
  <2>9. leaseRequest' \in [Requester -> [at : {"idle", "measured", "waiting", "held", "released"},
                                        seen : Stats, limit : Nat]]
    BY <2>6, Zenon DEF Leases
  <2> QED
    BY <2>7, <2>8, <2>9, Zenon
<1>6. ASSUME NEW q \in Requester, GiveUp(q) PROVE HostTyped'
  BY <1>6 DEF GiveUp, NoLease, NoReading, Stats
<1>7. ASSUME NEW q \in Requester, Release(q) PROVE HostTyped'
  BY <1>7 DEF Release, Counted, NoLease, NoReading, Stats
<1>8. ASSUME NEW q \in Requester, Again(q) PROVE HostTyped'
  BY <1>8 DEF Again, NoLease, NoReading, Stats
<1>9. CASE UNCHANGED hostVars
  BY <1>9 DEF hostVars
<1> QED
  BY <1>1, <1>2, <1>3, <1>4, <1>5, <1>6, <1>7, <1>8, <1>9 DEF LeaseNext

\* The inductive invariant of the leases.
HostInv == HostTyped /\ CountsAreExact /\ LeasesAreBounded

\* As many leases at most as there are callers.
LEMMA HeldIsFinite == IsFiniteSet(Held) /\ IsFiniteSet(Held \cap Heavy)
  BY HostAssumption, FS_Subset DEF Held

\* One more lease, or one less, of a caller.
LEMMA HeldGrows ==
    ASSUME HostTyped, CountsAreExact, NEW q \in Requester, q \notin Held,
           Held' = Held \cup {q}, activeToolLeases' = activeToolLeases + 1,
           activeHeavyToolLeases' = activeHeavyToolLeases + (IF q \in Heavy THEN 1 ELSE 0)
    PROVE  CountsAreExact'
<1>1. Cardinality(Held') = Cardinality(Held) + 1
  BY HeldIsFinite, FS_AddElement
<1>2. CASE q \in Heavy
  <2>1. Held' \cap Heavy = (Held \cap Heavy) \cup {q}
    BY <1>2
  <2>2. Cardinality(Held' \cap Heavy) = Cardinality(Held \cap Heavy) + 1
    BY <2>1, HeldIsFinite, FS_AddElement
  <2> QED
    BY <1>1, <1>2, <2>2 DEF CountsAreExact
<1>3. CASE q \notin Heavy
  <2>1. Held' \cap Heavy = Held \cap Heavy
    BY <1>3
  <2>2. activeHeavyToolLeases' = activeHeavyToolLeases
    BY <1>3 DEF HostTyped
  <2> QED
    BY <1>1, <2>1, <2>2 DEF CountsAreExact
<1> QED
  BY <1>2, <1>3

\* A lease less: the guarded counters follow the set of what is held (Release).
LEMMA HeldShrinks ==
    ASSUME HostTyped, CountsAreExact, NEW q \in Held, Held' = Held \ {q},
           activeToolLeases' = Counted(activeToolLeases, TRUE),
           activeHeavyToolLeases' = Counted(activeHeavyToolLeases, q \in Heavy)
    PROVE  CountsAreExact'
<1>1. Cardinality(Held') = Cardinality(Held) - 1
  BY HeldIsFinite, FS_RemoveElement
<1>2. Cardinality(Held) \in Nat /\ Cardinality(Held) # 0
  BY HeldIsFinite, FS_CardinalityType, FS_EmptySet
<1>3. activeToolLeases' = Cardinality(Held')
  BY <1>1, <1>2 DEF CountsAreExact, Counted
<1>4. CASE q \in Heavy
  <2>1. Held' \cap Heavy = (Held \cap Heavy) \ {q} /\ q \in Held \cap Heavy
    BY <1>4
  <2>2. Cardinality(Held' \cap Heavy) = Cardinality(Held \cap Heavy) - 1
    <3> DEFINE heavy == Held \cap Heavy
    <3>1. IsFiniteSet(heavy) /\ q \in heavy
      BY <2>1, HeldIsFinite
    <3> HIDE DEF heavy
    <3>2. Cardinality(heavy \ {q}) = Cardinality(heavy) - 1
      BY <3>1, FS_RemoveElement
    <3> QED
      BY <2>1, <3>2 DEF heavy
  <2>3. Cardinality(Held \cap Heavy) \in Nat /\ Cardinality(Held \cap Heavy) # 0
    BY <2>1, HeldIsFinite, FS_CardinalityType, FS_EmptySet
  <2> QED
    BY <1>3, <1>4, <2>2, <2>3 DEF CountsAreExact, Counted
<1>5. CASE q \notin Heavy
  <2>1. Held' \cap Heavy = Held \cap Heavy
    BY <1>5
  <2> QED
    BY <1>3, <1>5, <2>1 DEF CountsAreExact, Counted
<1> QED
  BY <1>4, <1>5

\* Nothing is held when the process starts.
LEMMA HostInvInit == LeaseInit => HostInv
<1> SUFFICES ASSUME LeaseInit PROVE HostInv
  OBVIOUS
<1>1. HostTyped
  BY HostTypedInit
<1>2. Held = {} /\ activeToolLeases = 0 /\ activeHeavyToolLeases = 0
  BY DEF LeaseInit, HostStartsFrom, NoLease, Held
<1>3. CountsAreExact
  BY <1>2, FS_EmptySet DEF CountsAreExact
<1>4. host.cores * host.cores \in Nat
  BY <1>1 DEF HostTyped, Host
<1>5. LeasesAreBounded
  BY <1>1, <1>2, <1>4, Capacities DEF LeasesAreBounded, AtLeast, HostTyped
<1> QED
  BY <1>1, <1>3, <1>5 DEF HostInv

\* A lease is granted below the slots of the reading, whose bounds are those of the host.
LEMMA GrantIsBounded ==
    ASSUME HostInv, NEW q \in Requester, tryAcquireToolLease(q),
           leaseRequest'[q].at = "held"
    PROVE  CountsAreExact' /\ LeasesAreBounded'
<1> DEFINE seen == leaseRequest[q].seen
           heavies == activeHeavyToolLeases + (IF q \in Heavy THEN 1 ELSE 0)
           limit == toolMemoryLimitMB(seen, q \in Heavy, activeToolLeases + 1, heavies)
<1>0. HostTyped /\ CountsAreExact /\ LeasesAreBounded
  BY DEF HostInv
<1>1. /\ leaseRequest[q].at = "measured" /\ host' = host
      /\ leaseRequest' = [leaseRequest EXCEPT ![q].at = "held", ![q].limit = limit]
      /\ activeToolLeases' = activeToolLeases + 1 /\ activeHeavyToolLeases' = heavies
      /\ q \in Heavy => activeHeavyToolLeases < HeavyToolSlots(seen)
      /\ activeToolLeases < LightToolSlots(seen)
  BY <1>0 DEF tryAcquireToolLease, toolSlotAdmission, NoLease, HostTyped
<1>2. host \in Host /\ seen \in Stats /\ activeToolLeases \in Nat /\ activeHeavyToolLeases \in Nat
  BY <1>0 DEF HostTyped
<1>3. Held' = Held \cup {q} /\ q \notin Held
  BY <1>0, <1>1 DEF Held, HostTyped
<1>4. CountsAreExact'
  BY <1>0, <1>1, <1>3, HeldGrows
<1>5. activeHeavyToolLeases' <= heavyToolParallelCap
  BY <1>0, <1>1, <1>2, Slots, Capacities DEF LeasesAreBounded
<1>6. activeToolLeases' <= AtLeast(host.cores * host.cores, 1)
  <2>1. host.cores * host.cores \in Nat
    BY <1>2 DEF Host
  <2> QED
    BY <1>1, <1>2, <2>1, Slots DEF AtLeast
<1>7. \A h \in Held' :
        IF host.hardLimit = 0 THEN leaseRequest'[h].limit = 0
        ELSE leaseRequest'[h].limit \in 128..AtLeast(host.hardLimit, minimumHeavyToolMemMB)
  <2>1. leaseRequest'[q].limit = limit
    BY <1>0, <1>1 DEF HostTyped
  <2>2. \A h \in Held : h # q => leaseRequest'[h] = leaseRequest[h]
    BY <1>0, <1>1 DEF HostTyped, Held
  <2>3. IF host.hardLimit = 0 THEN limit = 0
        ELSE limit \in 128..AtLeast(host.hardLimit, minimumHeavyToolMemMB)
    <3>1. activeToolLeases + 1 \in Nat /\ heavies \in Nat
      BY <1>2
    <3> HIDE DEF heavies
    <3> QED
      BY <1>2, <3>1, Limits
  <2> HIDE DEF limit
  <2> QED
    BY <1>0, <1>3, <2>1, <2>2, <2>3 DEF LeasesAreBounded
<1>8. /\ heavyToolParallelCap' = heavyToolParallelCap
      /\ minimumHeavyToolMemMB' = minimumHeavyToolMemMB
  BY <1>1 DEF heavyToolParallelCap, minimumHeavyToolMemMB
<1> QED
  BY <1>1, <1>4, <1>5, <1>6, <1>7, <1>8 DEF LeasesAreBounded

\* A step that grants nothing leaves what is held as it is.
LEMMA HeldIsLeft ==
    ASSUME HostInv, host' = host, activeToolLeases' = activeToolLeases,
           activeHeavyToolLeases' = activeHeavyToolLeases, Held' = Held,
           \A q \in Held : leaseRequest'[q] = leaseRequest[q]
    PROVE  CountsAreExact' /\ LeasesAreBounded'
<1>1. CountsAreExact'
  BY DEF HostInv, CountsAreExact
<1>2. heavyToolParallelCap' = heavyToolParallelCap
  BY DEF heavyToolParallelCap
<1> QED
  BY <1>1, <1>2 DEF HostInv, LeasesAreBounded, minimumHeavyToolMemMB

\* A first release is counted, a second one changes nothing (Release).
LEMMA ReleaseIsCounted ==
    ASSUME HostInv, NEW q \in Requester, Release(q)
    PROVE  CountsAreExact' /\ LeasesAreBounded'
<1>0. HostTyped /\ CountsAreExact /\ LeasesAreBounded
  BY DEF HostInv
<1>1. /\ host' = host
      /\ leaseRequest' = [leaseRequest EXCEPT ![q] = [NoLease EXCEPT !.at = "released"]]
  BY DEF Release
<1>2. Held' = Held \ {q} /\ \A h \in Held' : leaseRequest'[h] = leaseRequest[h]
  BY <1>0, <1>1 DEF Held, HostTyped, NoLease
<1>3. CASE leaseRequest[q].at = "held"
  <2>1. /\ activeToolLeases' = Counted(activeToolLeases, TRUE)
        /\ activeHeavyToolLeases' = Counted(activeHeavyToolLeases, q \in Heavy)
    BY <1>3 DEF Release
  <2>2. CountsAreExact'
    BY <1>0, <1>2, <1>3, <2>1, HeldShrinks DEF Held
  <2>3. /\ activeToolLeases' \in Nat /\ activeToolLeases' <= activeToolLeases
        /\ activeHeavyToolLeases' \in Nat /\ activeHeavyToolLeases' <= activeHeavyToolLeases
    BY <1>0, <2>1 DEF Counted, HostTyped
  <2>4. heavyToolParallelCap' = heavyToolParallelCap /\ heavyToolParallelCap \in Nat
    BY <1>0, <1>1, Capacities DEF heavyToolParallelCap, HostTyped
  <2>5. AtLeast(host.cores * host.cores, 1) \in Nat
    <3>1. host.cores * host.cores \in Nat
      BY <1>0 DEF HostTyped, Host
    <3> QED
      BY <3>1 DEF AtLeast
  <2>6. /\ activeHeavyToolLeases' <= heavyToolParallelCap'
        /\ activeToolLeases' <= AtLeast(host'.cores * host'.cores, 1)
    <3>1. activeToolLeases <= AtLeast(host.cores * host.cores, 1)
      BY <1>0 DEF LeasesAreBounded
    <3> DEFINE square == AtLeast(host.cores * host.cores, 1)
    <3>2. square \in Nat /\ activeToolLeases <= square
      BY <2>5, <3>1
    <3> HIDE DEF square
    <3>3. activeToolLeases' <= square
      BY <1>0, <2>3, <3>2 DEF HostTyped
    <3> USE DEF square
    <3>4. activeHeavyToolLeases <= heavyToolParallelCap
      BY <1>0 DEF LeasesAreBounded
    <3> QED
      BY <1>0, <1>1, <2>3, <2>4, <3>3, <3>4 DEF HostTyped
  <2> QED
    BY <1>0, <1>1, <1>2, <2>2, <2>6 DEF LeasesAreBounded, minimumHeavyToolMemMB
<1>4. CASE leaseRequest[q].at # "held"
  <2>1. /\ activeToolLeases' = activeToolLeases
        /\ activeHeavyToolLeases' = activeHeavyToolLeases
    BY <1>4 DEF Release
  <2>2. Held' = Held
    BY <1>2, <1>4 DEF Held
  <2> QED
    BY <1>1, <1>2, <2>1, <2>2, HeldIsLeft
<1> QED
  BY <1>3, <1>4

\* The counters stay exact and bounded at every step, of a caller or of the host.
LEMMA HostInvNext == HostInv /\ [LeaseNext]_hostVars => HostInv'
<1> SUFFICES ASSUME HostInv, [LeaseNext]_hostVars PROVE HostInv'
  OBVIOUS
<1>0. HostTyped /\ HostTyped'
  BY HostTypedNext DEF HostInv
<1> SUFFICES CountsAreExact' /\ LeasesAreBounded'
  BY <1>0 DEF HostInv
<1>1. CASE Change \/ AdmitScan \/ ScanEnds \/ UNCHANGED hostVars
  <2>1. /\ host' = host /\ leaseRequest' = leaseRequest /\ activeToolLeases' = activeToolLeases
        /\ activeHeavyToolLeases' = activeHeavyToolLeases
    BY <1>1 DEF Change, AdmitScan, ScanEnds, hostVars
  <2> QED
    BY <2>1, HeldIsLeft DEF Held
<1>2. ASSUME NEW q \in Requester, GetStats(q) \/ GiveUp(q) \/ Again(q)
      PROVE  CountsAreExact' /\ LeasesAreBounded'
  <2>1. /\ host' = host /\ activeToolLeases' = activeToolLeases
        /\ activeHeavyToolLeases' = activeHeavyToolLeases
        /\ leaseRequest[q].at # "held"
    BY <1>0, <1>2 DEF GetStats, GiveUp, Again
  <2>2. PICK r : r.at # "held" /\ leaseRequest' = [leaseRequest EXCEPT ![q] = r]
    <3>1. CASE GetStats(q)
      <4>1. [NoLease EXCEPT !.at = "measured", !.seen = reading].at # "held"
        BY DEF NoLease
      <4> QED
        BY <3>1, <4>1 DEF GetStats
    <3>2. CASE GiveUp(q) \/ Again(q)
      BY <3>2 DEF GiveUp, Again, NoLease
    <3> QED
      BY <1>2, <3>1, <3>2
  <2>3. Held' = Held /\ \A h \in Held : leaseRequest'[h] = leaseRequest[h]
    BY <1>0, <2>1, <2>2 DEF Held, HostTyped
  <2> QED
    BY <2>1, <2>3, HeldIsLeft
<1>3. ASSUME NEW q \in Requester, tryAcquireToolLease(q)
      PROVE  CountsAreExact' /\ LeasesAreBounded'
  <2>1. CASE leaseRequest'[q].at = "held"
    BY <1>3, <2>1, GrantIsBounded
  <2>2. CASE leaseRequest'[q].at # "held"
    <3>1. /\ host' = host /\ activeToolLeases' = activeToolLeases
          /\ activeHeavyToolLeases' = activeHeavyToolLeases /\ leaseRequest[q].at = "measured"
          /\ leaseRequest' = [leaseRequest EXCEPT ![q] = [NoLease EXCEPT !.at = "waiting"]]
      BY <1>0, <1>3, <2>2 DEF tryAcquireToolLease, HostTyped
    <3>2. Held' = Held /\ \A h \in Held : leaseRequest'[h] = leaseRequest[h]
      BY <1>0, <3>1 DEF Held, HostTyped, NoLease
    <3> QED
      BY <3>1, <3>2, HeldIsLeft
  <2> QED
    BY <2>1, <2>2
<1>4. ASSUME NEW q \in Requester, Release(q) PROVE CountsAreExact' /\ LeasesAreBounded'
  BY <1>4, ReleaseIsCounted
<1> QED
  BY <1>1, <1>2, <1>3, <1>4 DEF LeaseNext

\* What a reading admits follows from the reading and the host alone.
LEMMA AdmissionIsRight == HostTyped => IdleHostAdmits /\ AdmissionFits
<1> SUFFICES ASSUME HostTyped PROVE IdleHostAdmits /\ AdmissionFits
  OBVIOUS
<1>0. host \in Host /\ reading \in Stats /\ host.manualMax \in Nat
  BY DEF HostTyped, Host
<1> DEFINE spare == spareMB(reading)
           budget == perInstanceMemoryBudgetMB
           fit == memoryInstanceCapacity(reading)
<1>1. spare \in Int /\ budget \in Nat \ {0}
  BY <1>0, Slots, Capacities
<1>2. /\ fit \in Nat
      /\ spare <= 0 => fit = 0
      /\ spare > 0 => fit > 0 /\ (fit = 1 \/ fit * budget <= spare)
  <2>1. CASE spare <= 0
    BY <1>1, <2>1 DEF memoryInstanceCapacity
  <2>2. CASE spare > 0
    <3>1. spare \div budget \in Nat /\ (spare \div budget) * budget <= spare
      BY <1>1, <2>2, Quotient
    <3>2. fit = AtLeast(spare \div budget, 1)
      BY <1>1, <2>2 DEF memoryInstanceCapacity
    <3>3. fit = 1 \/ fit = spare \div budget
      BY <3>1, <3>2 DEF AtLeast
    <3>4. fit \in Nat /\ fit > 0
      BY <3>1, <3>2 DEF AtLeast
    <3>5. fit = 1 \/ fit * budget <= spare
      BY <3>1, <3>3
    <3> QED
      BY <1>1, <2>2, <3>4, <3>5
  <2> QED
    BY <1>1, <2>1, <2>2
<1> HIDE DEF spare, budget, fit
<1>3. /\ EffectiveMaxInstances(reading) \in Nat /\ EffectiveMaxInstances(reading) <= fit
      /\ host.manualMax > 0 => EffectiveMaxInstances(reading) <= host.manualMax
      /\ (diskHasHeadroom(reading) /\ fit > 0) => EffectiveMaxInstances(reading) > 0
  BY <1>0, <1>2 DEF EffectiveMaxInstances, AtMost, fit
<1>4. IdleHostAdmits
  <2>1. ASSUME activeToolLeases = 0, spare > 0, NEW heavy \in BOOLEAN
        PROVE  toolSlotAdmission(heavy, reading, 0, 0)
    BY <1>0, <2>1, Slots, Capacities DEF toolSlotAdmission, spare, Host
  <2>2. ASSUME spare > 0, diskHasHeadroom(reading) PROVE CanAdmitScan(reading, 0)
    BY <1>2, <1>3, <2>2 DEF CanAdmitScan
  <2>3. ASSUME spare <= 0 PROVE ~CanAdmitScan(reading, 0)
    BY <1>2, <1>3, <2>3 DEF CanAdmitScan
  <2>4. ASSUME spare <= 0, NEW heavy \in BOOLEAN PROVE ~toolSlotAdmission(heavy, reading, 0, 0)
    BY <1>0, <2>4, Slots DEF toolSlotAdmission, spare
  <2> QED
    BY <2>1, <2>2, <2>3, <2>4 DEF IdleHostAdmits, spare
<1>5. AdmissionFits
  <2> SUFFICES ASSUME NEW running \in 0..MaxScans, CanAdmitScan(reading, running)
               PROVE  /\ running = 0 \/ (running + 1) * budget <= spare
                      /\ host.manualMax > 0 => running < host.manualMax
    BY DEF AdmissionFits, budget, spare
  <2>1. running \in Nat /\ running < EffectiveMaxInstances(reading)
    BY HostAssumption DEF CanAdmitScan
  <2>2. running + 1 <= fit
    BY <1>2, <1>3, <2>1
  <2>3. ASSUME running # 0 PROVE (running + 1) * budget <= spare
    <3>1. fit # 1 /\ fit * budget <= spare
      BY <1>1, <1>2, <2>1, <2>2, <2>3
    <3>2. (running + 1) * budget <= fit * budget
      BY <1>1, <1>2, <2>1, <2>2
    <3> QED
      BY <1>1, <1>2, <2>1, <3>1, <3>2
  <2> QED
    BY <1>0, <1>3, <2>1, <2>3
<1> QED
  BY <1>4, <1>5

\* Leases are counted exactly and bounded by the host whatever the age of the readings they were
\* granted on, an idle host with memory to spare admits any tool and a first scan, and the scans
\* that are admitted fit, on every host and for any number of callers (resources.go,
\* tryAcquireToolLease, Release, CanAdmitScan).
THEOREM LeasesHold == LeaseSpec => []LeasesAreHonoured
<1>1. HostInv => LeasesAreHonoured
  BY AdmissionIsRight DEF HostInv, LeasesAreHonoured
<1> QED
  BY <1>1, HostInvInit, HostInvNext, PTL DEF LeaseSpec

-----------------------------------------------------------------------------
\* The two copies of a record

\* A copy of a record, and an operation on it.
Copy == [rev : Nat, write : Nat]
Work == [op : {"idle", "put", "delete", "retire", "folder"},
         at : {"-", "read", "file", "row"}, content : Copy]

\* The types the proofs use.
RecordTyped ==
    /\ kind \in Kinds /\ mode \in {"files", "both"}
    /\ file \in Copy /\ row \in Copy /\ acknowledged \subseteq Copy
    /\ writes \in Nat
    /\ worker \in [Worker -> Work]

\* Those that have changed the file and not yet the row.
AtRow == {w \in Worker : worker[w].at = "row"}

\* Who overlaps with another is recorded.
OneAtATime == "overlap" \notin causes => \A v, w \in Busy : v = w

\* The copies agree between operations, and within one the file is ahead.
CopiesInv ==
    causes = {} =>
        /\ \A w \in AtRow :
            file = worker[w].content /\ (worker[w].op # "put" => file = Absent)
        /\ AtRow = {} => file = row
        /\ last = "delete" /\ AtRow = {} => file = Absent

\* The revisions of the vault, of what is acknowledged and of what is about to be written.
RevisionsInv ==
    kind = "credential" /\ "overlap" \notin causes /\ "outdated" \notin causes =>
        /\ row # Absent => \A a \in acknowledged : a.rev <= row.rev
        /\ row # Absent /\ file # Absent => row.rev <= file.rev
        /\ row = Absent /\ file # Absent => \A a \in acknowledged : a.rev <= file.rev
        /\ last = "put" => file # Absent
        /\ writes = 0 => acknowledged = {} /\ row = Absent
        /\ \A c, d \in acknowledged : c.rev = d.rev => c = d
        /\ \A w \in Worker : worker[w].op \in {"idle", "put", "delete"}
        /\ \A w \in Worker : worker[w].op = "put" /\ worker[w].at \in {"file", "row"} =>
            /\ \A a \in acknowledged : a.rev < worker[w].content.rev
            /\ row.rev < worker[w].content.rev /\ writes # 0
            /\ worker[w].at = "row" => file = worker[w].content

\* The write under way is the latest one, and the file holds it before the row does.
FileInv ==
    "overlap" \notin causes /\ "fileLost" \notin causes =>
        /\ \A a \in acknowledged : a.write <= writes
        /\ last = "put" => file # Absent /\ \A a \in acknowledged : a.write <= file.write
        /\ \A w \in Worker : worker[w].op \in Ops \cup {"idle"}
        /\ \A w \in Worker : worker[w].op = "put" /\ worker[w].at \in {"file", "row"} =>
            /\ worker[w].content.write = writes /\ writes # 0
            /\ worker[w].at = "row" => file = worker[w].content

\* The row of a mirror holds what was last acknowledged, as long as nothing was only logged.
Mirrored ==
    /\ kind # "credential"
    /\ causes \cap {"overlap", "outdated", "filesOnly", "mirror", "fileLost"} = {}
MirrorInv ==
    Mirrored /\ last = "put" => row # Absent /\ \A a \in acknowledged : a.write <= row.write

\* What is deleted has no copy, and a removal comes to the row when the file is gone.
Removed == causes \cap {"overlap", "ignored", "rowLeft", "unmirrored", "elsewhere"} = {}
DeletedInv ==
    Removed =>
        /\ last = "delete" => file = Absent /\ row = Absent
        /\ \A w \in Worker : worker[w].at = "row" /\ worker[w].op # "put" => file = Absent

\* The inductive invariant of a record.
RecordInv ==
    /\ RecordTyped /\ causes \subseteq Cause /\ OneAtATime
    /\ CopiesInv /\ RevisionsInv /\ FileInv /\ MirrorInv /\ DeletedInv

-----------------------------------------------------------------------------
\* A worker goes on to another step of its operation.
LEMMA Going ==
    ASSUME RecordTyped, NEW w \in Worker, NEW at \in {"-", "read", "file", "row"},
           NEW content \in Copy, Goto(w, at, content), UNCHANGED kind
    PROVE  /\ worker' \in [Worker' -> Work]
           /\ worker'[w].op = worker[w].op /\ worker'[w].at = at /\ worker'[w].content = content
           /\ \A v \in Worker : v # w => worker'[v] = worker[v]
<1>1. worker[w] \in Work
  BY DEF RecordTyped
<1>2. [worker[w] EXCEPT !.at = at, !.content = content] \in Work
  BY <1>1 DEF Work
<1>3. worker' = [worker EXCEPT ![w] = [worker[w] EXCEPT !.at = at, !.content = content]]
  BY DEF Goto, RecordTyped
<1>4. Worker' = Worker
  BY DEF Worker
<1>5. worker'[w] = [worker[w] EXCEPT !.at = at, !.content = content]
  BY <1>3 DEF RecordTyped
<1>6. worker'[w].op = worker[w].op /\ worker'[w].at = at /\ worker'[w].content = content
  BY <1>1, <1>5 DEF Work
<1> QED
  BY <1>2, <1>3, <1>4, <1>6 DEF RecordTyped

\* A worker ends its operation.
LEMMA Finishing ==
    ASSUME RecordTyped, NEW w \in Worker, Finish(w), UNCHANGED kind
    PROVE  /\ worker' \in [Worker' -> Work]
           /\ worker'[w] = AtRest
           /\ \A v \in Worker : v # w => worker'[v] = worker[v]
BY DEF RecordTyped, Finish, Work, AtRest, Absent, Copy, Worker

\* A worker at rest has no operation.
LEMMA RestIsIdle ==
    AtRest.op = "idle" /\ AtRest.at = "-" /\ AtRest \in Work /\ Absent \in Copy /\ Absent.rev = 0
BY DEF AtRest, Absent, Work, Copy

\* What is written has a revision, the next one in the vault (vault.go, Replace).
LEMMA WrittenIsTyped ==
    ASSUME RecordTyped, NEW old \in Copy
    PROVE  /\ Written(old) \in Copy
           /\ kind = "credential" => Written(old).rev = old.rev + 1
BY DEF RecordTyped, Written, Copy

\* What is read is one of the two copies (record_store.go, dualBlobs.Get).
LEMMA ServedIsTyped ==
    ASSUME RecordTyped, NEW reachable \in BOOLEAN
    PROVE  /\ Served(reachable) \in Copy /\ Served(reachable) \in {file, row}
BY DEF RecordTyped, Served

-----------------------------------------------------------------------------
\* Every step of a record's writers keeps the types.
LEMMA RecordTypedStep ==
    ASSUME RecordTyped, [RecordNext]_recordVars
    PROVE  RecordTyped'
<1> USE RestIsIdle
<1>1. ASSUME NEW w \in Worker, NEW op \in Ops, BeginOn(w, op)  PROVE RecordTyped'
  <2>1. op \in {"put", "delete", "retire", "folder"}
    BY DEF Ops
  <2>2. [op |-> op, at |-> IF op = "put" THEN "read" ELSE "file", content |-> Absent] \in Work
    BY <2>1 DEF Work
  <2> QED
    BY <1>1, <2>2 DEF BeginOn, RecordTyped, Worker, Kinds
<1>2. ASSUME NEW w \in Worker, Read(w)  PROVE RecordTyped'
  <2>1. PICK reachable \in BOOLEAN :
            LET old == Served(reachable)
                found == kind # "credential" \/ old # Absent \/ writes = 0 IN
            IF found THEN writes' = writes + 1 /\ Goto(w, "file", Written(old))
            ELSE Finish(w) /\ UNCHANGED writes
    BY <1>2 DEF Read
  <2>2. Written(Served(reachable)) \in Copy
    BY ServedIsTyped, WrittenIsTyped
  <2>3. worker' \in [Worker' -> Work] /\ writes' \in Nat
    BY <1>2, <2>1, <2>2, Going, Finishing DEF Read, RecordTyped
  <2> QED
    BY <1>2, <2>3 DEF Read, RecordTyped, Kinds
<1>3. ASSUME NEW w \in Worker, PutFile(w)  PROVE RecordTyped'
  <2>1. worker[w].content \in Copy
    BY DEF RecordTyped, Work
  <2>2. worker' \in [Worker' -> Work]
    BY <1>3, <2>1, Going, Finishing DEF PutFile
  <2>3. file' \in Copy /\ acknowledged' \subseteq Copy
    BY <1>3, <2>1 DEF PutFile, RecordTyped, Acknowledge
  <2> QED
    BY <1>3, <2>2, <2>3 DEF PutFile, RecordTyped, Kinds
<1>4. ASSUME NEW w \in Worker, PutRow(w)  PROVE RecordTyped'
  <2>1. worker[w].content \in Copy
    BY DEF RecordTyped, Work
  <2>2. worker' \in [Worker' -> Work]
    BY <1>4, Finishing DEF PutRow
  <2>3. row' \in Copy /\ acknowledged' \subseteq Copy
    BY <1>4, <2>1 DEF PutRow, RecordTyped, Acknowledge
  <2> QED
    BY <1>4, <2>2, <2>3 DEF PutRow, RecordTyped, Kinds
<1>5. ASSUME NEW w \in Worker, RemoveFile(w)  PROVE RecordTyped'
  <2>1. worker' \in [Worker' -> Work]
    <3>1. \A inMemory \in BOOLEAN : Gone(w, inMemory) => worker' \in [Worker' -> Work]
      BY <1>5, Going, Finishing DEF Gone, RemoveFile
    <3> QED
      BY <1>5, <3>1, Finishing DEF RemoveFile
  <2>2. file' \in Copy
    BY <1>5 DEF RemoveFile, RecordTyped
  <2> QED
    BY <1>5, <2>1, <2>2 DEF RemoveFile, RecordTyped, Kinds
<1>6. ASSUME NEW w \in Worker, RemoveRow(w)  PROVE RecordTyped'
  <2>1. worker' \in [Worker' -> Work]
    BY <1>6, Finishing DEF RemoveRow
  <2>2. row' \in Copy
    BY <1>6 DEF RemoveRow, RecordTyped
  <2> QED
    BY <1>6, <2>1, <2>2 DEF RemoveRow, RecordTyped, Kinds
<1>7. CASE Restart
  BY <1>7 DEF Restart, RecordTyped, Worker, Kinds
<1>8. CASE UNCHANGED recordVars
  BY <1>8 DEF recordVars, RecordTyped, Worker, Kinds
<1> QED
  BY <1>1, <1>2, <1>3, <1>4, <1>5, <1>6, <1>7, <1>8 DEF RecordNext

-----------------------------------------------------------------------------
\* What happened to a record is not forgotten, and its kind does not change.
LEMMA CausesGrow ==
    ASSUME [RecordNext]_recordVars
    PROVE  causes \subseteq causes' /\ kind' = kind
BY DEF RecordNext, BeginOn, Read, PutFile, PutRow, RemoveFile, RemoveRow, Restart, recordVars, Blame

\* Nothing else than the listed causes is recorded.
LEMMA CausesStep ==
    ASSUME causes \subseteq Cause, [RecordNext]_recordVars
    PROVE  causes' \subseteq Cause
<1> USE DEF Cause, Blame
<1>1. CASE \E w \in Worker, op \in Ops : BeginOn(w, op)
  BY <1>1 DEF BeginOn
<1>2. CASE \E w \in Worker : Read(w)
  BY <1>2 DEF Read
<1>3. CASE \E w \in Worker : PutFile(w)
  BY <1>3 DEF PutFile
<1>4. CASE \E w \in Worker : PutRow(w)
  BY <1>4 DEF PutRow
<1>5. CASE \E w \in Worker : RemoveFile(w)
  BY <1>5 DEF RemoveFile
<1>6. CASE \E w \in Worker : RemoveRow(w)
  BY <1>6 DEF RemoveRow
<1>7. CASE Restart
  BY <1>7 DEF Restart
<1>8. CASE UNCHANGED recordVars
  BY <1>8 DEF recordVars
<1> QED
  BY <1>1, <1>2, <1>3, <1>4, <1>5, <1>6, <1>7, <1>8 DEF RecordNext

\* Unless two writers overlapped, only one of them is under way.
LEMMA OneAtATimeStep ==
    ASSUME RecordTyped, OneAtATime, [RecordNext]_recordVars
    PROVE  OneAtATime'
<1> USE RestIsIdle
<1>1. ASSUME NEW w \in Worker, w \in Busy, \A v \in Worker : v # w => worker'[v] = worker[v],
             UNCHANGED kind, causes \subseteq causes'
      PROVE  OneAtATime'
  BY <1>1 DEF OneAtATime, Busy, Worker
<1>2. ASSUME NEW w \in Worker, worker[w].op # "idle" \/ worker[w].at # "-"  PROVE w \in Busy
  BY <1>2 DEF Busy
<1>3. ASSUME NEW w \in Worker, NEW op \in Ops, BeginOn(w, op)  PROVE OneAtATime'
  <2>1. CASE Busy # {}
    BY <1>3, <2>1 DEF BeginOn, OneAtATime
  <2>2. CASE Busy = {}
    <3>1. \A v \in Worker : v # w => worker'[v] = AtRest
      BY <1>3, <2>2 DEF BeginOn, RecordTyped, Busy
    <3> QED
      BY <1>3, <3>1 DEF BeginOn, OneAtATime, Busy, Worker
  <2> QED
    BY <2>1, <2>2
<1>4. ASSUME NEW w \in Worker, Read(w)  PROVE OneAtATime'
  <2>1. w \in Busy
    BY <1>4, <1>2 DEF Read
  <2>2. \A v \in Worker : v # w => worker'[v] = worker[v]
    BY <1>4, ServedIsTyped, WrittenIsTyped, Going, Finishing DEF Read
  <2> QED
    BY <1>4, <1>1, <2>1, <2>2 DEF Read
<1>5. ASSUME NEW w \in Worker, PutFile(w)  PROVE OneAtATime'
  <2>1. w \in Busy
    BY <1>5, <1>2 DEF PutFile
  <2>2. worker[w].content \in Copy
    BY DEF RecordTyped, Work
  <2>3. \A v \in Worker : v # w => worker'[v] = worker[v]
    BY <1>5, <2>2, Going, Finishing DEF PutFile
  <2> QED
    BY <1>5, <1>1, <2>1, <2>3, CausesGrow DEF PutFile
<1>6. ASSUME NEW w \in Worker, PutRow(w)  PROVE OneAtATime'
  <2>1. w \in Busy
    BY <1>6, <1>2 DEF PutRow
  <2>2. \A v \in Worker : v # w => worker'[v] = worker[v]
    BY <1>6, Finishing DEF PutRow
  <2> QED
    BY <1>6, <1>1, <2>1, <2>2, CausesGrow DEF PutRow
<1>7. ASSUME NEW w \in Worker, RemoveFile(w)  PROVE OneAtATime'
  <2>1. w \in Busy
    BY <1>7, <1>2 DEF RemoveFile
  <2>2. \A inMemory \in BOOLEAN :
            Gone(w, inMemory) => \A v \in Worker : v # w => worker'[v] = worker[v]
    BY <1>7, Going, Finishing DEF Gone, RemoveFile
  <2>3. \A v \in Worker : v # w => worker'[v] = worker[v]
    BY <1>7, <2>2, Finishing DEF RemoveFile
  <2> QED
    BY <1>7, <1>1, <2>1, <2>3, CausesGrow DEF RemoveFile
<1>8. ASSUME NEW w \in Worker, RemoveRow(w)  PROVE OneAtATime'
  <2>1. w \in Busy
    BY <1>8, <1>2 DEF RemoveRow
  <2>2. \A v \in Worker : v # w => worker'[v] = worker[v]
    BY <1>8, Finishing DEF RemoveRow
  <2> QED
    BY <1>8, <1>1, <2>1, <2>2, CausesGrow DEF RemoveRow
<1>9. CASE Restart
  BY <1>9 DEF Restart, OneAtATime, Busy, Worker
<1>10. CASE UNCHANGED recordVars
  BY <1>10 DEF recordVars, OneAtATime, Busy, Worker
<1> QED
  BY <1>3, <1>4, <1>5, <1>6, <1>7, <1>8, <1>9, <1>10 DEF RecordNext

-----------------------------------------------------------------------------
\* While nothing went wrong the row follows the file: between the two writes of an operation the
\* file holds what the row is about to, and a removal leaves neither.
LEMMA CopiesStep ==
    ASSUME RecordTyped, OneAtATime, CopiesInv, [RecordNext]_recordVars
    PROVE  CopiesInv'
<1> USE RestIsIdle
<1>1. SUFFICES ASSUME causes = {}, causes' = {}  PROVE CopiesInv'
  BY CausesGrow DEF CopiesInv
<1>2. /\ \A w \in AtRow :
            file = worker[w].content /\ (worker[w].op # "put" => file = Absent)
      /\ AtRow = {} => file = row
      /\ last = "delete" /\ AtRow = {} => file = Absent
  BY <1>1 DEF CopiesInv
<1>3. ASSUME NEW w \in Worker, worker[w].at # "-", NEW v \in Worker, v # w
      PROVE  worker[v] = AtRest
  BY <1>1, <1>3 DEF OneAtATime, Busy
<1>4. ASSUME NEW w \in Worker, worker[w].at # "-", kind' = kind, worker'[w] = AtRest,
             \A v \in Worker : v # w => worker'[v] = worker[v]
      PROVE  AtRow' = {}
  BY <1>3, <1>4 DEF AtRow, Worker
<1>5. ASSUME NEW w \in Worker, worker[w].at # "-", kind' = kind, worker'[w].at = "row",
             \A v \in Worker : v # w => worker'[v] = worker[v]
      PROVE  AtRow' = {w}
  BY <1>3, <1>5 DEF AtRow, Worker
<1>6. ASSUME NEW w \in Worker, worker[w].at # "-", kind' = kind, worker'[w].at # "row",
             \A v \in Worker : v # w => worker'[v] = worker[v]
      PROVE  AtRow' = {}
  BY <1>3, <1>6 DEF AtRow, Worker
<1>7. ASSUME NEW w \in Worker, worker[w].at # "-", worker[w].at # "row"
      PROVE  AtRow = {}
  BY <1>3, <1>7 DEF AtRow
<1>11. ASSUME NEW w \in Worker, NEW op \in Ops, BeginOn(w, op)  PROVE CopiesInv'
  <2>1. AtRow' = AtRow /\ \A v \in AtRow : worker'[v] = worker[v]
    BY <1>11 DEF BeginOn, RecordTyped, AtRow, Worker
  <2> QED
    BY <1>11, <1>2, <2>1 DEF BeginOn, CopiesInv
<1>12. ASSUME NEW w \in Worker, Read(w)  PROVE CopiesInv'
  <2>1. worker[w].at # "-" /\ worker[w].at # "row" /\ kind' = kind
    BY <1>12 DEF Read
  <2>2. worker'[w].at # "row" /\ \A v \in Worker : v # w => worker'[v] = worker[v]
    BY <1>12, ServedIsTyped, WrittenIsTyped, Going, Finishing DEF Read
  <2>3. AtRow = {} /\ AtRow' = {}
    BY <1>6, <1>7, <2>1, <2>2
  <2> QED
    BY <1>12, <1>2, <2>3 DEF Read, CopiesInv
<1>13. ASSUME NEW w \in Worker, PutFile(w)  PROVE CopiesInv'
  <2>1. worker[w].at # "-" /\ worker[w].at # "row" /\ worker[w].content \in Copy /\ kind' = kind
    BY <1>13 DEF PutFile, RecordTyped, Work
  <2>2. AtRow = {}
    BY <1>7, <2>1
  <2>3. CASE mode = "both" /\ file' = worker[w].content /\ Goto(w, "row", worker[w].content)
    <3>1. /\ worker'[w].at = "row" /\ worker'[w].content = worker[w].content
          /\ worker'[w].op = "put"
          /\ \A v \in Worker : v # w => worker'[v] = worker[v]
      BY <1>13, <2>1, <2>3, Going DEF PutFile
    <3>2. AtRow' = {w}
      BY <1>5, <2>1, <3>1
    <3> QED
      BY <2>3, <3>1, <3>2 DEF CopiesInv
  <2>4. CASE UNCHANGED <<file, last>> /\ Finish(w)
    <3>1. AtRow' = {}
      BY <1>4, <2>1, <2>4, Finishing
    <3> QED
      BY <1>2, <1>13, <2>2, <2>4, <3>1 DEF PutFile, CopiesInv
  <2> QED
    BY <1>1, <1>13, <2>3, <2>4 DEF PutFile, Blame
<1>14. ASSUME NEW w \in Worker, PutRow(w)  PROVE CopiesInv'
  <2>1. worker[w].at = "row" /\ kind' = kind /\ w \in AtRow
    BY <1>14 DEF PutRow, AtRow
  <2>2. AtRow' = {}
    BY <1>4, <1>14, <2>1, Finishing DEF PutRow
  <2>3. row' = worker[w].content /\ last' = "put" /\ file' = file
    BY <1>1, <1>14 DEF PutRow, Blame, Acknowledge
  <2> QED
    BY <1>2, <2>1, <2>2, <2>3 DEF CopiesInv
<1>15. ASSUME NEW w \in Worker, RemoveFile(w)  PROVE CopiesInv'
  <2>1. worker[w].at # "-" /\ worker[w].at # "row" /\ kind' = kind /\ row' = row
    BY <1>15 DEF RemoveFile
  <2>2. AtRow = {} /\ file = row /\ (last = "delete" => file = Absent)
    BY <1>2, <1>7, <2>1
  <2>3. CASE UNCHANGED <<file, last>> /\ Finish(w)
    <3>1. AtRow' = {}
      BY <1>4, <2>1, <2>3, Finishing
    <3> QED
      BY <2>1, <2>2, <2>3, <3>1 DEF CopiesInv
  <2>4. ASSUME NEW inMemory \in BOOLEAN, Gone(w, inMemory), file' = Absent,
               RemovalReachesRow(worker[w].op, inMemory) \/ row = Absent
        PROVE  CopiesInv'
    <3>1. CASE Goto(w, "row", Absent) /\ last' = "deleting"
      <4>1. /\ worker'[w].at = "row" /\ worker'[w].content = Absent
            /\ \A v \in Worker : v # w => worker'[v] = worker[v]
        BY <2>1, <3>1, Going
      <4>2. AtRow' = {w}
        BY <1>5, <2>1, <4>1
      <4> QED
        BY <2>4, <3>1, <4>1, <4>2 DEF CopiesInv
    <3>2. CASE ~RemovalReachesRow(worker[w].op, inMemory) /\ Finish(w)
      <4>1. AtRow' = {}
        BY <1>4, <2>1, <3>2, Finishing
      <4> QED
        BY <2>1, <2>4, <3>2, <4>1 DEF CopiesInv
    <3> QED
      BY <2>4, <3>1, <3>2 DEF Gone
  <2>5. PICK reachable \in BOOLEAN, inMemory \in BOOLEAN :
            LET op == worker[w].op
                hit == Hits(op, reachable)
                unlisted == op = "retire" /\ Served(reachable) = Absent
                left == {c \in {"unmirrored", "elsewhere"} :
                            IF c = "elsewhere" THEN ~hit /\ file # Absent
                            ELSE row # Absent /\ ~RemovalReachesRow(op, inMemory)} IN
            \/ /\ file' = IF hit THEN Absent ELSE file
               /\ IF unlisted THEN Finish(w) /\ UNCHANGED <<causes, last>>
                  ELSE causes' = causes \cup left /\ Gone(w, inMemory)
            \/ /\ UNCHANGED file
               /\ IF Ignores(op) THEN causes' = causes \cup left \cup {"ignored"}
                                                  /\ Gone(w, inMemory)
                  ELSE Finish(w) /\ UNCHANGED <<causes, last>>
    BY <1>15 DEF RemoveFile
  <2> DEFINE hit == Hits(worker[w].op, reachable)
             unlisted == worker[w].op = "retire" /\ Served(reachable) = Absent
             left == {c \in {"unmirrored", "elsewhere"} :
                            IF c = "elsewhere" THEN ~hit /\ file # Absent
                            ELSE row # Absent /\ ~RemovalReachesRow(worker[w].op, inMemory)}
  <2>6. CASE file' = (IF hit THEN Absent ELSE file) /\ unlisted /\ Finish(w) /\ last' = last
    <3>1. hit => file = Absent
      BY <2>2, <2>6 DEF Hits, Served
    <3> QED
      BY <2>3, <2>6, <3>1
  <2>7. CASE /\ file' = IF hit THEN Absent ELSE file
             /\ causes' = causes \cup left /\ Gone(w, inMemory)
    <3>1. left = {}
      BY <1>1, <2>7
    <3>2. hit \/ file = Absent
      BY <3>1
    <3>3. RemovalReachesRow(worker[w].op, inMemory) \/ row = Absent
      BY <3>1
    <3> QED
      BY <2>4, <2>7, <3>2, <3>3
  <2> QED
    BY <1>1, <2>3, <2>5, <2>6, <2>7
<1>16. ASSUME NEW w \in Worker, RemoveRow(w)  PROVE CopiesInv'
  <2>1. worker[w].at = "row" /\ kind' = kind /\ w \in AtRow
    BY <1>16 DEF RemoveRow, AtRow
  <2>2. AtRow' = {}
    BY <1>4, <1>16, <2>1, Finishing DEF RemoveRow
  <2>3. row' = Absent /\ file' = file
    BY <1>1, <1>16 DEF RemoveRow, Blame
  <2>4. file = Absent
    BY <1>2, <1>16, <2>1 DEF RemoveRow
  <2> QED
    BY <1>2, <2>1, <2>2, <2>3, <2>4 DEF CopiesInv
<1>17. CASE Restart
  <2>1. Busy = {}
    BY <1>1, <1>17 DEF Restart
  <2>2. AtRow = {} /\ AtRow' = {}
    BY <1>17, <2>1 DEF Restart, AtRow, Worker, Busy
  <2> QED
    BY <1>2, <1>17, <2>2 DEF Restart, CopiesInv
<1>18. CASE UNCHANGED recordVars
  BY <1>18 DEF recordVars, CopiesInv, AtRow, Worker
<1> QED
  BY <1>11, <1>12, <1>13, <1>14, <1>15, <1>16, <1>17, <1>18 DEF RecordNext

-----------------------------------------------------------------------------
\* In the vault, the newest of the copies a reader may find is not older than what was
\* acknowledged, and a write under way is newer than that.
LEMMA RevisionsStep ==
    ASSUME RecordTyped, OneAtATime, RevisionsInv, [RecordNext]_recordVars
    PROVE  RevisionsInv'
<1> USE RestIsIdle
<1>1. SUFFICES ASSUME kind = "credential", kind' = kind,
                      "overlap" \notin causes, "outdated" \notin causes,
                      "overlap" \notin causes', "outdated" \notin causes'
               PROVE  RevisionsInv'
  BY CausesGrow DEF RevisionsInv
<1> DEFINE Tallied == /\ row # Absent => \A a \in acknowledged : a.rev <= row.rev
                      /\ row # Absent /\ file # Absent => row.rev <= file.rev
                      /\ row = Absent /\ file # Absent =>
                            \A a \in acknowledged : a.rev <= file.rev
                      /\ last = "put" => file # Absent
                      /\ writes = 0 => acknowledged = {} /\ row = Absent
                      /\ \A c, d \in acknowledged : c.rev = d.rev => c = d
           Sound(w) == /\ worker[w].op \in {"idle", "put", "delete"}
                       /\ worker[w].op = "put" /\ worker[w].at \in {"file", "row"} =>
                            /\ \A a \in acknowledged : a.rev < worker[w].content.rev
                            /\ row.rev < worker[w].content.rev /\ writes # 0
                            /\ worker[w].at = "row" => file = worker[w].content
<1>2. Tallied /\ \A w \in Worker : Sound(w)
  BY <1>1 DEF RevisionsInv
<1>3. ASSUME Tallied', \A w \in Worker : Sound(w)'  PROVE RevisionsInv'
  BY <1>1, <1>3 DEF RevisionsInv, Worker
<1>4. file \in Copy /\ row \in Copy /\ file.rev \in Nat /\ row.rev \in Nat
      /\ \A a \in acknowledged : a \in Copy /\ a.rev \in Nat
      /\ writes \in Nat
  BY DEF RecordTyped, Copy
<1>5. ASSUME NEW w \in Worker, worker[w].at # "-", NEW v \in Worker, v # w,
             worker'[v] = worker[v]
      PROVE  Sound(v)'
  BY <1>1, <1>5 DEF OneAtATime, Busy
<1>6. ASSUME NEW w \in Worker, worker[w].at # "-",
             \A v \in Worker : v # w => worker'[v] = worker[v], Sound(w)'
      PROVE  \A v \in Worker : Sound(v)'
  BY <1>5, <1>6
<1>7. ASSUME NEW w \in Worker, worker'[w] = AtRest  PROVE Sound(w)'
  BY <1>7
<1>8. Ops = {"put", "delete"}
  BY <1>1 DEF Ops
<1>9. ASSUME NEW w \in Worker, worker[w].at # "-", Finish(w), Tallied'  PROVE RevisionsInv'
  BY <1>1, <1>3, <1>6, <1>7, <1>9, Finishing
<1>10. writes \in Nat /\ writes + 1 # 0
  <2>1. writes \in Nat
    BY DEF RecordTyped
  <2> QED
    BY <2>1
<1>11. ASSUME NEW w \in Worker, NEW op \in Ops, BeginOn(w, op)  PROVE RevisionsInv'
  <2>1. Busy = {}
    BY <1>1, <1>11 DEF BeginOn
  <2>2. \A v \in Worker : v # w => worker'[v] = AtRest
    BY <1>11, <2>1 DEF BeginOn, Busy, RecordTyped
  <2>3. worker'[w].op = op /\ worker'[w].at = IF op = "put" THEN "read" ELSE "file"
    BY <1>11 DEF BeginOn, RecordTyped
  <2>4. Sound(w)'
    BY <1>8, <2>3
  <2>5. Tallied'
    BY <1>2, <1>11 DEF BeginOn
  <2> QED
    BY <1>3, <1>7, <2>2, <2>4, <2>5
<1>12. ASSUME NEW w \in Worker, Read(w)  PROVE RevisionsInv'
  <2>1. worker[w].at # "-" /\ worker[w].op = "put"
        /\ UNCHANGED <<file, row, acknowledged, last>>
    BY <1>12 DEF Read
  <2>2. PICK reachable \in BOOLEAN :
            LET old == Served(reachable)
                found == kind # "credential" \/ old # Absent \/ writes = 0 IN
            IF found THEN writes' = writes + 1 /\ Goto(w, "file", Written(old))
            ELSE Finish(w) /\ UNCHANGED writes
    BY <1>12 DEF Read
  <2> DEFINE old == Served(reachable)
  <2>3. old \in Copy /\ old.rev \in Nat /\ Written(old) \in Copy /\ Written(old).rev = old.rev + 1
    BY <1>1, ServedIsTyped, WrittenIsTyped DEF Copy
  <2>4. Tallied'
    <3>1. writes' = writes \/ writes' = writes + 1
      BY <2>2
    <3>2. writes' = 0 => writes = 0
      BY <1>10, <3>1
    <3> QED
      BY <1>2, <2>1, <3>2
  <2>5. CASE Finish(w)
    BY <1>9, <2>1, <2>4, <2>5
  <2>6. CASE old # Absent \/ writes = 0
    <3>1. writes' = writes + 1 /\ Goto(w, "file", Written(old))
      BY <1>1, <2>2, <2>6
    <3>2. /\ worker'[w].op = "put" /\ worker'[w].at = "file" /\ worker'[w].content = Written(old)
          /\ \A v \in Worker : v # w => worker'[v] = worker[v]
      BY <1>1, <2>1, <2>3, <3>1, Going
    <3>3. \A a \in acknowledged : a.rev < old.rev + 1
      <4>1. old = row \/ (old = file /\ (row = Absent \/ file # Absent \/ writes = 0))
        BY <2>6 DEF Served
      <4> QED
        BY <1>2, <1>4, <2>3, <2>6, <4>1
    <3>4. row.rev < old.rev + 1
      <4>1. old = row \/ old = file
        BY ServedIsTyped
      <4> QED
        BY <1>2, <1>4, <2>3, <2>6, <4>1
    <3>5. Sound(w)'
      <4>1. writes' # 0
        BY <1>10, <3>1
      <4> QED
        BY <2>1, <2>3, <3>2, <3>3, <3>4, <4>1
    <3> QED
      BY <1>3, <1>6, <2>1, <2>4, <3>2, <3>5
  <2> QED
    BY <1>1, <2>2, <2>5, <2>6
<1>13. ASSUME NEW w \in Worker, PutFile(w)  PROVE RevisionsInv'
  <2>1. /\ worker[w].at = "file" /\ worker[w].op = "put"
        /\ UNCHANGED <<row, writes>>
        /\ worker[w].content \in Copy /\ worker[w].content.rev \in Nat
    BY <1>13 DEF PutFile, RecordTyped, Work, Copy
  <2>2. /\ \A a \in acknowledged : a.rev < worker[w].content.rev
        /\ row.rev < worker[w].content.rev /\ writes # 0 /\ worker[w].content # Absent
    BY <1>2, <1>4, <2>1
  <2>3. CASE file' = worker[w].content /\ Goto(w, "row", worker[w].content)
             /\ UNCHANGED acknowledged /\ last' = IF last = "delete" THEN "again" ELSE last
    <3>1. /\ worker'[w].op = "put" /\ worker'[w].at = "row"
          /\ worker'[w].content = worker[w].content
          /\ \A v \in Worker : v # w => worker'[v] = worker[v]
      BY <1>1, <2>1, <2>3, Going
    <3>2. Tallied'
      BY <1>2, <1>4, <2>1, <2>2, <2>3
    <3>3. Sound(w)'
      BY <2>1, <2>2, <2>3, <3>1
    <3> QED
      BY <1>3, <1>6, <2>1, <3>1, <3>2, <3>3
  <2>4. CASE file' = worker[w].content /\ row = Absent /\ Finish(w) /\ Acknowledge(worker[w].content)
    <3>1. Tallied'
      BY <1>2, <1>4, <2>1, <2>2, <2>4 DEF Acknowledge
    <3> QED
      BY <1>9, <2>1, <2>4, <3>1
  <2>5. CASE Finish(w) /\ UNCHANGED <<file, acknowledged, last>>
    <3>1. Tallied'
      BY <1>2, <2>1, <2>5
    <3> QED
      BY <1>9, <2>1, <2>5, <3>1
  <2> QED
    BY <1>1, <1>13, <2>3, <2>4, <2>5 DEF PutFile
<1>14. ASSUME NEW w \in Worker, PutRow(w)  PROVE RevisionsInv'
  <2>1. /\ worker[w].at = "row" /\ worker[w].op = "put"
        /\ UNCHANGED <<file, writes>> /\ Finish(w)
        /\ worker[w].content \in Copy /\ worker[w].content.rev \in Nat
    BY <1>14 DEF PutRow, RecordTyped, Work, Copy
  <2>2. /\ \A a \in acknowledged : a.rev < worker[w].content.rev
        /\ row.rev < worker[w].content.rev /\ writes # 0 /\ worker[w].content # Absent
        /\ file = worker[w].content
    BY <1>2, <1>4, <2>1
  <2>3. CASE row' = worker[w].content /\ Acknowledge(worker[w].content)
    <3>1. acknowledged' = acknowledged \cup {file} /\ row' = file /\ file' = file
      BY <2>1, <2>2, <2>3 DEF Acknowledge
    <3>2. \A c, d \in acknowledged' : c.rev = d.rev => c = d
      BY <1>2, <1>4, <2>2, <3>1
    <3>3. Tallied'
      BY <1>2, <1>4, <2>1, <2>2, <3>1, <3>2
    <3> QED
      BY <1>9, <2>1, <3>3
  <2>4. CASE UNCHANGED <<row, acknowledged, last>>
    <3>1. Tallied'
      BY <1>2, <2>1, <2>4
    <3> QED
      BY <1>9, <2>1, <3>1
  <2> QED
    BY <1>1, <1>14, <2>3, <2>4 DEF PutRow
<1>15. ASSUME NEW w \in Worker, RemoveFile(w)  PROVE RevisionsInv'
  <2>1. /\ worker[w].at = "file" /\ worker[w].op \in {"idle", "delete"}
        /\ UNCHANGED <<row, writes, acknowledged>>
    BY <1>2, <1>15 DEF RemoveFile
  <2>2. ASSUME Finish(w),
               \/ UNCHANGED <<file, last>>
               \/ last' = "delete" /\ file' \in {file, Absent}
        PROVE  RevisionsInv'
    <3>1. Tallied'
      BY <1>2, <2>1, <2>2
    <3> QED
      BY <1>9, <2>1, <2>2, <3>1
  <2>3. ASSUME Goto(w, "row", Absent), last' = "deleting", file' \in {file, Absent}
        PROVE  RevisionsInv'
    <3>1. Tallied'
      BY <1>2, <2>1, <2>3
    <3>2. /\ worker'[w].op \in {"idle", "delete"}
          /\ \A v \in Worker : v # w => worker'[v] = worker[v]
      BY <1>1, <2>1, <2>3, Going
    <3> QED
      BY <1>3, <1>6, <2>1, <3>1, <3>2
  <2>4. ASSUME NEW inMemory \in BOOLEAN, Gone(w, inMemory), file' \in {file, Absent}
        PROVE  RevisionsInv'
    BY <2>2, <2>3, <2>4 DEF Gone
  <2>5. \A reachable \in BOOLEAN : Hits(worker[w].op, reachable)
    BY <1>1 DEF Hits, Scans
  <2> QED
    BY <1>15, <2>1, <2>2, <2>4, <2>5 DEF RemoveFile
<1>16. ASSUME NEW w \in Worker, RemoveRow(w)  PROVE RevisionsInv'
  <2>1. /\ worker[w].at = "row" /\ Finish(w)
        /\ UNCHANGED <<file, writes, acknowledged>>
        /\ (row' = Absent /\ last' = "delete") \/ UNCHANGED <<row, last>>
    BY <1>1, <1>16 DEF RemoveRow
  <2>2. Tallied'
    BY <1>2, <1>4, <2>1
  <2> QED
    BY <1>9, <2>1, <2>2
<1>17. CASE Restart
  <2>1. Tallied'
    BY <1>2, <1>17 DEF Restart
  <2> QED
    BY <1>3, <1>7, <1>17, <2>1 DEF Restart
<1>18. CASE UNCHANGED recordVars
  BY <1>2, <1>3, <1>18 DEF recordVars
<1> QED
  BY <1>11, <1>12, <1>13, <1>14, <1>15, <1>16, <1>17, <1>18 DEF RecordNext

-----------------------------------------------------------------------------
\* Whoever is in the middle of an operation is alone, unless two writers overlapped.
LEMMA Alone ==
    ASSUME OneAtATime, "overlap" \notin causes, NEW w \in Worker, worker[w].at # "-",
           NEW v \in Worker, v # w
    PROVE  worker[v] = AtRest
BY RestIsIdle DEF OneAtATime, Busy

\* The file is never behind a write that was answered with success: a write under way is newer
\* than all of them, the file is replaced before the answer, and a removal of it is one.
LEMMA FileStep ==
    ASSUME RecordTyped, OneAtATime, FileInv, [RecordNext]_recordVars
    PROVE  FileInv'
<1> USE RestIsIdle
<1>1. SUFFICES ASSUME "overlap" \notin causes, "fileLost" \notin causes, kind' = kind,
                      "overlap" \notin causes', "fileLost" \notin causes'
               PROVE  FileInv'
  BY CausesGrow DEF FileInv
<1> DEFINE Newest == /\ \A a \in acknowledged : a.write <= writes
                     /\ last = "put" => /\ file # Absent
                                        /\ \A a \in acknowledged : a.write <= file.write
           Under(w) == /\ worker[w].op \in Ops \cup {"idle"}
                       /\ worker[w].op = "put" /\ worker[w].at \in {"file", "row"} =>
                            /\ worker[w].content.write = writes /\ writes # 0
                            /\ worker[w].at = "row" => file = worker[w].content
<1>2. Newest /\ \A w \in Worker : Under(w)
  BY <1>1 DEF FileInv
<1>3. ASSUME Newest', \A w \in Worker : Under(w)'  PROVE FileInv'
  BY <1>1, <1>3 DEF FileInv, Worker
<1>4. /\ file \in Copy /\ row \in Copy /\ file.write \in Nat /\ writes \in Nat
      /\ \A a \in acknowledged : a \in Copy /\ a.write \in Nat
      /\ Absent.write = 0
  BY DEF RecordTyped, Copy, Absent
<1>5. Ops' = Ops
  BY <1>1 DEF Ops
<1>6. ASSUME NEW w \in Worker, worker'[w] = AtRest  PROVE Under(w)'
  BY <1>6
<1>7. ASSUME NEW w \in Worker, worker[w].at # "-",
             \A v \in Worker : v # w => worker'[v] = worker[v], Under(w)', Newest'
      PROVE  FileInv'
  <2>1. \A v \in Worker : v # w => worker'[v] = AtRest
    BY <1>1, <1>7, Alone
  <2> QED
    BY <1>3, <1>6, <1>7, <2>1
<1>8. ASSUME NEW w \in Worker, worker[w].at # "-", Finish(w), Newest'  PROVE FileInv'
  BY <1>1, <1>6, <1>7, <1>8, Finishing
<1>11. ASSUME NEW w \in Worker, NEW op \in Ops, BeginOn(w, op)  PROVE FileInv'
  <2>1. Busy = {}
    BY <1>1, <1>11 DEF BeginOn
  <2>2. \A v \in Worker : v # w => worker'[v] = AtRest
    BY <1>11, <2>1 DEF BeginOn, Busy, RecordTyped
  <2>3. worker'[w].op = op /\ worker'[w].at = IF op = "put" THEN "read" ELSE "file"
    BY <1>11 DEF BeginOn, RecordTyped
  <2>4. Under(w)'
    BY <1>5, <2>3
  <2>5. Newest'
    BY <1>2, <1>11 DEF BeginOn
  <2> QED
    BY <1>3, <1>6, <2>2, <2>4, <2>5
<1>12. ASSUME NEW w \in Worker, Read(w)  PROVE FileInv'
  <2>1. /\ worker[w].at # "-" /\ worker[w].op = "put"
        /\ UNCHANGED <<file, row, acknowledged, last>>
    BY <1>12 DEF Read
  <2>2. PICK reachable \in BOOLEAN :
            LET old == Served(reachable)
                found == kind # "credential" \/ old # Absent \/ writes = 0 IN
            IF found THEN writes' = writes + 1 /\ Goto(w, "file", Written(old))
            ELSE Finish(w) /\ UNCHANGED writes
    BY <1>12 DEF Read
  <2> DEFINE old == Served(reachable)
  <2>3. old \in Copy /\ Written(old) \in Copy /\ Written(old).write = writes + 1
    BY ServedIsTyped, WrittenIsTyped DEF Written
  <2>4. CASE Finish(w) /\ UNCHANGED writes
    BY <1>2, <1>8, <2>1, <2>4
  <2>5. CASE writes' = writes + 1 /\ Goto(w, "file", Written(old))
    <3>1. /\ worker'[w].op = "put" /\ worker'[w].at = "file" /\ worker'[w].content = Written(old)
          /\ \A v \in Worker : v # w => worker'[v] = worker[v]
      BY <1>1, <2>1, <2>3, <2>5, Going
    <3>2. Newest'
      BY <1>2, <1>4, <2>1, <2>5
    <3>3. worker'[w].op \in Ops' \cup {"idle"}
      BY <3>1, <1>5 DEF Ops
    <3>4. Under(w)'
      BY <1>4, <2>3, <2>5, <3>1, <3>3
    <3> QED
      BY <1>7, <2>1, <3>1, <3>2, <3>4
  <2> QED
    BY <2>2, <2>4, <2>5
<1>13. ASSUME NEW w \in Worker, PutFile(w)  PROVE FileInv'
  <2>1. /\ worker[w].at = "file" /\ worker[w].op = "put" /\ UNCHANGED <<row, writes>>
        /\ worker[w].content \in Copy /\ worker[w].content.write = writes /\ writes # 0
    BY <1>2, <1>13 DEF PutFile, RecordTyped, Work
  <2>2. worker[w].content # Absent
    BY <1>4, <2>1
  <2>3. CASE file' = worker[w].content /\ Goto(w, "row", worker[w].content)
             /\ UNCHANGED acknowledged /\ last' = IF last = "delete" THEN "again" ELSE last
    <3>1. /\ worker'[w].op = "put" /\ worker'[w].at = "row"
          /\ worker'[w].content = worker[w].content
          /\ \A v \in Worker : v # w => worker'[v] = worker[v]
      BY <1>1, <2>1, <2>3, Going
    <3>2. Newest'
      BY <1>2, <1>4, <2>1, <2>2, <2>3
    <3>3. Under(w)'
      BY <1>2, <1>5, <2>1, <2>3, <3>1
    <3> QED
      BY <1>7, <2>1, <3>1, <3>2, <3>3
  <2>4. CASE file' = worker[w].content /\ Finish(w) /\ Acknowledge(worker[w].content)
    <3>1. Newest'
      BY <1>2, <1>4, <2>1, <2>2, <2>4 DEF Acknowledge
    <3> QED
      BY <1>8, <2>1, <2>4, <3>1
  <2>5. CASE Finish(w) /\ UNCHANGED <<file, acknowledged, last>>
    <3>1. Newest'
      BY <1>2, <2>1, <2>5
    <3> QED
      BY <1>8, <2>1, <2>5, <3>1
  <2> QED
    BY <1>1, <1>13, <2>3, <2>4, <2>5 DEF PutFile, Blame
<1>14. ASSUME NEW w \in Worker, PutRow(w)  PROVE FileInv'
  <2>1. /\ worker[w].at = "row" /\ worker[w].op = "put"
        /\ UNCHANGED <<file, writes>> /\ Finish(w)
        /\ worker[w].content \in Copy /\ worker[w].content.write = writes /\ writes # 0
        /\ file = worker[w].content
    BY <1>2, <1>14 DEF PutRow, RecordTyped, Work
  <2>2. \/ Acknowledge(worker[w].content)
        \/ UNCHANGED <<acknowledged, last>>
    BY <1>14 DEF PutRow
  <2>3. Newest'
    BY <1>2, <1>4, <2>1, <2>2 DEF Acknowledge
  <2> QED
    BY <1>8, <2>1, <2>3
<1>15. ASSUME NEW w \in Worker, RemoveFile(w)  PROVE FileInv'
  <2>1. /\ worker[w].at = "file" /\ worker[w].op # "put" /\ UNCHANGED <<row, writes, acknowledged>>
    BY <1>15 DEF RemoveFile
  <2>2. ASSUME Finish(w), UNCHANGED <<file, last>> \/ last' = "delete"
        PROVE  FileInv'
    <3>1. Newest'
      BY <1>2, <2>1, <2>2
    <3> QED
      BY <1>8, <2>1, <2>2, <3>1
  <2>3. ASSUME Goto(w, "row", Absent), last' = "deleting"
        PROVE  FileInv'
    <3>1. Newest'
      BY <1>2, <2>1, <2>3
    <3>2. /\ worker'[w].op = worker[w].op
          /\ \A v \in Worker : v # w => worker'[v] = worker[v]
      BY <1>1, <2>1, <2>3, Going
    <3>3. Under(w)'
      BY <1>2, <1>5, <2>1, <3>2
    <3> QED
      BY <1>7, <2>1, <3>1, <3>2, <3>3
  <2>4. ASSUME NEW inMemory \in BOOLEAN, Gone(w, inMemory)  PROVE FileInv'
    BY <2>2, <2>3, <2>4 DEF Gone
  <2>5. \A reachable \in BOOLEAN :
            worker[w].op = "retire" /\ Served(reachable) = Absent => ~Hits(worker[w].op, reachable)
    BY <1>2 DEF Hits, Ops, Scans
  <2> QED
    BY <1>15, <2>2, <2>4, <2>5 DEF RemoveFile
<1>16. ASSUME NEW w \in Worker, RemoveRow(w)  PROVE FileInv'
  <2>1. /\ worker[w].at = "row" /\ Finish(w)
        /\ UNCHANGED <<file, writes, acknowledged>>
        /\ last' = "delete" \/ UNCHANGED last
    BY <1>16 DEF RemoveRow
  <2>2. Newest'
    BY <1>2, <2>1
  <2> QED
    BY <1>8, <2>1, <2>2
<1>17. CASE Restart
  <2>1. Newest'
    BY <1>2, <1>17 DEF Restart
  <2> QED
    BY <1>3, <1>6, <1>17, <2>1 DEF Restart
<1>18. CASE UNCHANGED recordVars
  BY <1>2, <1>3, <1>5, <1>18 DEF recordVars
<1> QED
  BY <1>11, <1>12, <1>13, <1>14, <1>15, <1>16, <1>17, <1>18 DEF RecordNext

\* A mirror that answered with success and did not log a failure holds what was written.
LEMMA MirrorStep ==
    ASSUME RecordTyped, FileInv, MirrorInv, [RecordNext]_recordVars
    PROVE  MirrorInv'
<1>1. SUFFICES ASSUME Mirrored, Mirrored', kind' = kind, last' = "put"
               PROVE  row' # Absent /\ \A a \in acknowledged' : a.write <= row'.write
  BY CausesGrow DEF MirrorInv, Mirrored
<1>2. ASSUME UNCHANGED <<row, acknowledged, last>>
      PROVE  row' # Absent /\ \A a \in acknowledged' : a.write <= row'.write
  BY <1>1, <1>2 DEF MirrorInv
<1>3. "overlap" \notin causes /\ "fileLost" \notin causes
  BY <1>1 DEF Mirrored
<1>4. ASSUME NEW w \in Worker, NEW op \in Ops, BeginOn(w, op)
      PROVE  UNCHANGED <<row, acknowledged, last>>
  BY <1>4 DEF BeginOn
<1>5. ASSUME NEW w \in Worker, Read(w)  PROVE UNCHANGED <<row, acknowledged, last>>
  BY <1>5 DEF Read
<1>6. ASSUME NEW w \in Worker, PutFile(w)  PROVE UNCHANGED <<row, acknowledged, last>>
  <2>1. {"filesOnly", "outdated"} \cap causes' = {}
    BY <1>1 DEF Mirrored
  <2> QED
    BY <1>1, <1>6, <2>1 DEF PutFile
<1>7. ASSUME NEW w \in Worker, PutRow(w)
      PROVE  row' # Absent /\ \A a \in acknowledged' : a.write <= row'.write
  <2>1. "mirror" \notin causes' /\ kind # "credential"
    BY <1>1 DEF Mirrored
  <2>2. row' = worker[w].content /\ acknowledged' = acknowledged \cup {worker[w].content}
    BY <1>7, <2>1 DEF PutRow, Acknowledge, Blame
  <2>3. /\ worker[w].content.write = writes /\ writes # 0
        /\ \A a \in acknowledged : a.write <= writes
    BY <1>3, <1>7 DEF FileInv, PutRow
  <2>4. writes \in Nat /\ Absent.write = 0
    BY DEF RecordTyped, Absent
  <2> QED
    BY <2>2, <2>3, <2>4
<1>8. ASSUME NEW w \in Worker, RemoveFile(w)  PROVE UNCHANGED <<row, acknowledged, last>>
  BY <1>1, <1>8 DEF RemoveFile, Gone
<1>9. ASSUME NEW w \in Worker, RemoveRow(w)  PROVE FALSE
  BY <1>1, <1>9 DEF RemoveRow, Mirrored
<1>10. CASE Restart
  BY <1>2, <1>10 DEF Restart
<1>11. CASE UNCHANGED recordVars
  BY <1>2, <1>11 DEF recordVars
<1> QED
  BY <1>2, <1>4, <1>5, <1>6, <1>7, <1>8, <1>9, <1>10, <1>11 DEF RecordNext

\* A removal that succeeds leaves neither copy: the row goes after the file, what it does not
\* reach is named, and the first step of a write takes the record from the deleted ones.
LEMMA DeletedStep ==
    ASSUME RecordTyped, OneAtATime, DeletedInv, [RecordNext]_recordVars
    PROVE  DeletedInv'
<1> USE RestIsIdle
<1>1. SUFFICES ASSUME Removed, Removed', kind' = kind  PROVE DeletedInv'
  BY CausesGrow DEF DeletedInv, Removed
<1> DEFINE Clean == last = "delete" => file = Absent /\ row = Absent
           After(w) == worker[w].at = "row" /\ worker[w].op # "put" => file = Absent
<1>2. Clean /\ \A w \in Worker : After(w)
  BY <1>1 DEF DeletedInv
<1>3. ASSUME Clean', \A w \in Worker : After(w)'  PROVE DeletedInv'
  BY <1>3, <1>1 DEF DeletedInv, Worker
<1>4. "overlap" \notin causes /\ "overlap" \notin causes'
  BY <1>1 DEF Removed
<1>5. ASSUME NEW w \in Worker, worker[w].at # "-",
             \A v \in Worker : v # w => worker'[v] = worker[v], After(w)', Clean'
      PROVE  DeletedInv'
  <2>1. \A v \in Worker : v # w => worker'[v] = AtRest
    BY <1>4, <1>5, Alone
  <2> QED
    BY <1>3, <1>5, <2>1
<1>6. ASSUME NEW w \in Worker, worker[w].at # "-", Finish(w), Clean'  PROVE DeletedInv'
  BY <1>1, <1>5, <1>6, Finishing
<1>11. ASSUME NEW w \in Worker, NEW op \in Ops, BeginOn(w, op)  PROVE DeletedInv'
  <2>1. \A v \in Worker : v # w => worker'[v] = worker[v]
    BY <1>11 DEF BeginOn, RecordTyped
  <2>2. worker'[w].at # "row"
    BY <1>11 DEF BeginOn, RecordTyped
  <2> QED
    BY <1>2, <1>3, <1>11, <2>1, <2>2 DEF BeginOn
<1>12. ASSUME NEW w \in Worker, Read(w)  PROVE DeletedInv'
  <2>1. worker[w].at # "-" /\ UNCHANGED <<file, row, last>>
    BY <1>12 DEF Read
  <2>2. worker'[w].at # "row" /\ \A v \in Worker : v # w => worker'[v] = worker[v]
    BY <1>12, ServedIsTyped, WrittenIsTyped, Going, Finishing DEF Read
  <2> QED
    BY <1>2, <1>5, <2>1, <2>2
<1>13. ASSUME NEW w \in Worker, PutFile(w)  PROVE DeletedInv'
  <2>1. worker[w].at = "file" /\ worker[w].op = "put" /\ worker[w].content \in Copy /\ row' = row
    BY <1>13 DEF PutFile, RecordTyped, Work
  <2>2. (UNCHANGED <<file, last>>) \/ last' # "delete"
    BY <1>13 DEF PutFile, Acknowledge
  <2>3. Goto(w, "row", worker[w].content) \/ Finish(w)
    BY <1>13 DEF PutFile
  <2>4. worker'[w].op \in {"put", "idle"} /\ \A v \in Worker : v # w => worker'[v] = worker[v]
    BY <1>1, <2>1, <2>3, Going, Finishing
  <2>5. After(w)'
    <3>1. CASE Finish(w)
      BY <1>1, <3>1, Finishing
    <3>2. CASE Goto(w, "row", worker[w].content)
      BY <1>1, <2>1, <3>2, Going
    <3> QED
      BY <2>3, <3>1, <3>2
  <2>6. Clean'
    BY <1>2, <2>1, <2>2
  <2> QED
    BY <1>5, <2>1, <2>4, <2>5, <2>6
<1>14. ASSUME NEW w \in Worker, PutRow(w)  PROVE DeletedInv'
  <2>1. /\ worker[w].at = "row" /\ file' = file /\ Finish(w)
        /\ (UNCHANGED <<row, last>>) \/ last' = "put"
    BY <1>14 DEF PutRow, Acknowledge
  <2>2. Clean'
    BY <1>2, <2>1
  <2> QED
    BY <1>6, <2>1, <2>2
<1>15. ASSUME NEW w \in Worker, RemoveFile(w)  PROVE DeletedInv'
  <2>1. worker[w].at = "file" /\ worker[w].op # "put" /\ row' = row
    BY <1>15 DEF RemoveFile
  <2>2. ASSUME NEW inMemory \in BOOLEAN, Gone(w, inMemory), file' = Absent,
               row = Absent \/ RemovalReachesRow(worker[w].op, inMemory)
        PROVE  DeletedInv'
    <3>1. CASE Goto(w, "row", Absent) /\ last' = "deleting"
      <4>1. \A v \in Worker : v # w => worker'[v] = worker[v]
        BY <1>1, <3>1, Going
      <4> QED
        BY <1>5, <2>1, <2>2, <3>1, <4>1
    <3>2. CASE ~RemovalReachesRow(worker[w].op, inMemory) /\ Finish(w)
      BY <1>6, <2>1, <2>2, <3>2
    <3> QED
      BY <2>2, <3>1, <3>2 DEF Gone
  <2>3. ASSUME Finish(w), UNCHANGED last, file' \in {file, Absent}  PROVE DeletedInv'
    BY <1>2, <1>6, <2>1, <2>3
  <2>4. PICK reachable \in BOOLEAN, inMemory \in BOOLEAN :
            LET op == worker[w].op
                hit == Hits(op, reachable)
                unlisted == op = "retire" /\ Served(reachable) = Absent
                left == {c \in {"unmirrored", "elsewhere"} :
                            IF c = "elsewhere" THEN ~hit /\ file # Absent
                            ELSE row # Absent /\ ~RemovalReachesRow(op, inMemory)} IN
            \/ /\ file' = IF hit THEN Absent ELSE file
               /\ IF unlisted THEN Finish(w) /\ UNCHANGED <<causes, last>>
                  ELSE causes' = causes \cup left /\ Gone(w, inMemory)
            \/ /\ UNCHANGED file
               /\ IF Ignores(op) THEN causes' = causes \cup left \cup {"ignored"}
                                                  /\ Gone(w, inMemory)
                  ELSE Finish(w) /\ UNCHANGED <<causes, last>>
    BY <1>15 DEF RemoveFile
  <2> DEFINE hit == Hits(worker[w].op, reachable)
             left == {c \in {"unmirrored", "elsewhere"} :
                            IF c = "elsewhere" THEN ~hit /\ file # Absent
                            ELSE row # Absent /\ ~RemovalReachesRow(worker[w].op, inMemory)}
  <2>5. CASE Finish(w) /\ UNCHANGED <<causes, last>> /\ file' \in {file, Absent}
    BY <2>3, <2>5
  <2>6. CASE /\ file' = IF hit THEN Absent ELSE file
             /\ causes' = causes \cup left /\ Gone(w, inMemory)
    <3>1. "unmirrored" \notin left /\ "elsewhere" \notin left
      BY <1>1, <2>6 DEF Removed
    <3>2. file' = Absent
      BY <2>6, <3>1
    <3>3. RemovalReachesRow(worker[w].op, inMemory) \/ row = Absent
      BY <3>1
    <3> QED
      BY <2>2, <2>6, <3>2, <3>3
  <2>7. "ignored" \notin causes'
    BY <1>1 DEF Removed
  <2> QED
    BY <2>4, <2>5, <2>6, <2>7
<1>16. ASSUME NEW w \in Worker, RemoveRow(w)  PROVE DeletedInv'
  <2>1. /\ worker[w].at = "row" /\ worker[w].op # "put" /\ file' = file /\ Finish(w)
    BY <1>16 DEF RemoveRow
  <2>2. "rowLeft" \notin causes'
    BY <1>1 DEF Removed
  <2>3. row' = Absent \/ UNCHANGED <<row, last>>
    BY <1>16, <2>2 DEF RemoveRow, Blame
  <2>4. Clean'
    BY <1>2, <2>1, <2>3
  <2> QED
    BY <1>6, <2>1, <2>4
<1>17. CASE Restart
  <2>1. Clean'
    BY <1>2, <1>17 DEF Restart
  <2>2. \A v \in Worker : worker'[v] = AtRest
    BY <1>17 DEF Restart
  <2> QED
    BY <1>3, <2>1, <2>2
<1>18. CASE UNCHANGED recordVars
  BY <1>2, <1>3, <1>18 DEF recordVars
<1> QED
  BY <1>11, <1>12, <1>13, <1>14, <1>15, <1>16, <1>17, <1>18 DEF RecordNext

-----------------------------------------------------------------------------
\* A record starts absent from both copies.
LEMMA RecordInvInit == RecordInit => RecordInv
<1> SUFFICES ASSUME RecordInit  PROVE RecordInv
  OBVIOUS
<1>1. PICK k \in Kinds, m \in {"files", "both"} : RecordStartsFrom(k, m)
  BY DEF RecordInit
<1>2. /\ file = Absent /\ row = Absent /\ acknowledged = {} /\ writes = 0 /\ last = "none"
      /\ kind = k /\ mode = m /\ worker = [w \in Worker |-> AtRest]
  BY <1>1 DEF RecordStartsFrom, Worker
<1>3. AtRow = {} /\ Busy = {}
  BY <1>2, RestIsIdle DEF AtRow, Busy
<1>4. RecordTyped
  BY <1>2, RestIsIdle DEF RecordTyped
<1>5. CopiesInv
  BY <1>2, <1>3 DEF CopiesInv
<1>6. \A w \in Worker : worker[w] = AtRest
  BY <1>2
<1>7. RevisionsInv
  BY <1>2, <1>6, RestIsIdle DEF RevisionsInv
<1>8. FileInv /\ MirrorInv /\ DeletedInv
  BY <1>2, <1>6, RestIsIdle DEF FileInv, MirrorInv, DeletedInv
<1> QED
  BY <1>1, <1>3, <1>4, <1>5, <1>7, <1>8 DEF RecordInv, OneAtATime, RecordStartsFrom

\* The invariant of a record is kept at every step.
LEMMA RecordInvStep == RecordInv /\ [RecordNext]_recordVars => RecordInv'
BY RecordTypedStep, CausesStep, OneAtATimeStep, CopiesStep, RevisionsStep, FileStep, MirrorStep,
   DeletedStep DEF RecordInv

\* The invariant of a record implies what is promised of it.
LEMMA RecordInvKeeps == RecordInv => RecordsAreKept
<1> SUFFICES ASSUME RecordInv  PROVE RecordsAreKept
  OBVIOUS
<1> USE RestIsIdle DEF RecordInv
<1>1. ASSUME Busy = {}  PROVE AtRow = {}
  BY <1>1 DEF AtRow, Busy
<1>2. causes \cap Cause = {} => causes = {}
  <2> SUFFICES ASSUME causes \cap Cause = {}, NEW c \in causes  PROVE FALSE
    OBVIOUS
  <2>1. c \in causes \cap Cause
    OBVIOUS
  <2> QED
    BY <2>1
<1>3. CopiesAgree
  BY <1>1, <1>2 DEF CopiesAgree, Unexcused, CopiesInv
<1>4. FileIsComplete
  BY DEF FileIsComplete, Unexcused, FileInv
<1>5. ServedIsCurrent
  <2> SUFFICES ASSUME last = "put", mode = "both",
                      Unexcused({"overlap", "outdated"}
                          \cup IF kind = "credential" THEN {}
                               ELSE {"filesOnly", "mirror", "fileLost"}),
                      NEW reachable \in BOOLEAN
               PROVE  /\ Served(reachable) # Absent
                      /\ \A c \in acknowledged :
                            IF kind = "credential" THEN c.rev <= Served(reachable).rev
                            ELSE c.write <= Served(reachable).write
    BY DEF ServedIsCurrent
  <2>1. /\ file.rev \in Nat /\ row.rev \in Nat
        /\ \A c \in acknowledged : c.rev \in Nat
    BY DEF RecordTyped, Copy
  <2>2. CASE kind = "credential"
    <3>1. /\ row # Absent => \A a \in acknowledged : a.rev <= row.rev
          /\ row # Absent /\ file # Absent => row.rev <= file.rev
          /\ row = Absent /\ file # Absent => \A a \in acknowledged : a.rev <= file.rev
          /\ file # Absent
      BY <2>2 DEF Unexcused, RevisionsInv
    <3>2. \A a \in acknowledged : a.rev <= file.rev
      BY <2>1, <3>1
    <3> QED
      BY <2>2, <3>1, <3>2 DEF Served
  <2>3. CASE kind # "credential"
    <3>1. Mirrored
      BY <2>3 DEF Unexcused, Mirrored
    <3>2. row # Absent /\ \A a \in acknowledged : a.write <= row.write
      BY <3>1 DEF MirrorInv
    <3>3. file # Absent /\ \A a \in acknowledged : a.write <= file.write
      BY <3>1 DEF Mirrored, FileInv
    <3> QED
      BY <2>3, <3>2, <3>3 DEF Served
  <2> QED
    BY <2>2, <2>3
<1>6. RevisionNamesContent
  BY DEF RevisionNamesContent, Unexcused, RevisionsInv
<1>7. DeletionIsFinal
  BY DEF DeletionIsFinal, Unexcused, DeletedInv, Removed
<1> QED
  BY <1>3, <1>4, <1>5, <1>6, <1>7 DEF RecordsAreKept

\* What each copy holds and what is served of them, for any number of writers, writes, faults and
\* restarts.  The files hold the last write of any record that was answered with success, unless
\* two writers overlapped or a scan went on without its file; a credential is served in the last
\* revision that was answered with success, and a revision names one content, whatever a store
\* fails to do, unless two writers overlapped or a process without Postgres wrote over an older
\* row; and what was deleted has no copy, unless two writers overlapped or the removal itself left
\* one behind (record_store.go, vault.go).
THEOREM RecordsHold == RecordSpec => []RecordsAreKept
<1>1. RecordSpec => []RecordInv
  BY RecordInvInit, RecordInvStep, PTL DEF RecordSpec
<1> QED
  BY <1>1, RecordInvKeeps, PTL

-----------------------------------------------------------------------------
\* The endpoint inventory

Rows(r) == DOMAIN r \subseteq Variant /\ \A id \in DOMAIN r : r[id] \in Endpoint

\* A row with a redacted URL is not dispatchable.
Withheld(r) == \A id \in DOMAIN r : r[id].redacted => ~Dispatchable(r[id].state)

\* The rows of a source.
NewRows(r) == Rows(r) /\ \A id \in DOMAIN r : ~r[id].redacted /\ r[id].coverage = NoCoverage

\* A redacted URL is not sent unless its replay is read.
Guarded(r) == \A id \in DOMAIN r : r[id].redacted /\ ~r[id].replay => ~Dispatchable(r[id].state)

\* Nothing is refused because of an archive alone, or nothing that others have found.
NoCandidates(r, X) == \A id \in DOMAIN r \ X : r[id].state \notin Unverified
LiveIsFound(r, X) == \A id \in DOMAIN r \ X : r[id].live => r[id].state \notin Unverified

\* What every source does to an inventory.
Grown(old, new) ==
    /\ DOMAIN old \subseteq DOMAIN new
    /\ \A id \in DOMAIN old :
        /\ new[id].coverage = old[id].coverage
        /\ old[id].replay => new[id].replay
        /\ ~Dispatchable(old[id].state) /\ ~new[id].replay => ~Dispatchable(new[id].state)
    /\ \A id \in DOMAIN new \ DOMAIN old : new[id].coverage = NoCoverage
    /\ Guarded(old) => Guarded(new)

LEMMA StateKinds ==
    ASSUME NEW ep \in Endpoint
    PROVE  ep.state \in {"", "in_scope"} \cup Refusal
           /\ (ep.state \in Refusal <=> ~Dispatchable(ep.state))
  BY DEF Endpoint, Refusal, Unverified, Dispatchable

LEMMA MergeGrows ==
    ASSUME NEW inv, NEW rows, Rows(inv), NewRows(rows)
    PROVE  Rows(Merge(inv, rows)) /\ Grown(inv, Merge(inv, rows))
  <1> DEFINE m == Merge(inv, rows)
  <1>1. DOMAIN m = DOMAIN inv \cup DOMAIN rows
    BY DEF Merge
  <1>2. \A id \in DOMAIN m :
            /\ id \notin DOMAIN inv => m[id] = rows[id]
            /\ id \in DOMAIN inv /\ id \notin DOMAIN rows => m[id] = inv[id]
            /\ id \in DOMAIN inv /\ id \in DOMAIN rows => m[id] = MergedRow(inv[id], rows[id])
    BY DEF Merge
  <1>3. ASSUME NEW old \in Endpoint, NEW new \in Endpoint
        PROVE  /\ MergedRow(old, new) \in Endpoint
               /\ MergedRow(old, new).coverage = old.coverage
               /\ MergedRow(old, new).redacted = old.redacted
               /\ old.replay => MergedRow(old, new).replay
               /\ MergedRow(old, new).state = MergedState(old.state, new.state)
    <2> DEFINE st == MergedState(old.state, new.state)
               seen == IF new.seen = "observed" THEN "observed" ELSE old.seen
               again == old.replay \/ new.replay
               alive == old.live \/ new.live
               merged == [old EXCEPT !.state = st, !.seen = seen, !.replay = again, !.live = alive]
    <2>1. st \in {"", "in_scope"} \cup Refusal
      BY DEF MergedState, Endpoint
    <2>2. seen \in {"observed", "candidate", "seed", "schema"}
      BY DEF Endpoint
    <2>3. again \in BOOLEAN /\ alive \in BOOLEAN
      BY DEF Endpoint
    <2>4. MergedRow(old, new) = merged
      BY DEF MergedRow, Endpoint
    <2>5. old.replay => again
      OBVIOUS
    <2> HIDE DEF st, seen, again, alive
    <2>6. merged \in Endpoint
      BY <2>1, <2>2, <2>3 DEF Endpoint
    <2>7. merged.coverage = old.coverage /\ merged.redacted = old.redacted
      BY DEF Endpoint
    <2>8. merged.replay = again /\ merged.state = st
      BY DEF Endpoint
    <2> HIDE DEF merged
    <2> QED
      BY <2>4, <2>5, <2>6, <2>7, <2>8 DEF st
  <1>4. ASSUME NEW old \in Endpoint, NEW new \in Endpoint, ~Dispatchable(old.state)
        PROVE  MergedState(old.state, new.state) = old.state
    BY <1>4, StateKinds DEF MergedState, Dispatchable
  <1>5. Rows(m)
    BY <1>1, <1>2, <1>3 DEF Rows, NewRows
  <1>6. \A id \in DOMAIN inv :
            /\ m[id].coverage = inv[id].coverage
            /\ inv[id].replay => m[id].replay
            /\ m[id].redacted = inv[id].redacted
            /\ ~Dispatchable(inv[id].state) => ~Dispatchable(m[id].state)
    BY <1>1, <1>2, <1>3, <1>4 DEF Rows, NewRows
  <1>7. \A id \in DOMAIN m \ DOMAIN inv : m[id].coverage = NoCoverage /\ ~m[id].redacted
    BY <1>1, <1>2 DEF NewRows
  <1>8. \A id \in DOMAIN inv : m[id].replay \in BOOLEAN /\ inv[id].replay \in BOOLEAN
    BY <1>1, <1>5 DEF Rows, Endpoint
  <1> HIDE DEF m
  <1>9. Guarded(inv) => Guarded(m)
    BY <1>6, <1>7, <1>8 DEF Guarded
  <1>10. Grown(inv, m)
    BY <1>1, <1>6, <1>7, <1>9 DEF Grown
  <1> QED
    BY <1>5, <1>10 DEF m

LEMMA SourcesAreNew ==
    ASSUME NEW X, sent \in Seq(SUBSET Variant)
    PROVE  /\ \A found \in Crawl : NewRows(Crawled(found)) /\ NoCandidates(Crawled(found), X)
           /\ NewRows(Crawled({})) /\ NoCandidates(Crawled({}), X)
           /\ \A rows \in Browser \cup Supplement :
                NewRows(Native(rows)) /\ NoCandidates(Native(rows), X)
           /\ NewRows(Operations) /\ NoCandidates(Operations, X)
           /\ NewRows([id \in {Seed} |-> Row("", "seed", FALSE)])
           /\ NoCandidates([id \in {Seed} |-> Row("", "seed", FALSE)], X)
  <1>1. NoCoverage \in [Scanner -> [status : {None, "dispatched", "skipped", "batch_completed", "failed"},
                                    attempt : 0..Len(sent)]]
    BY DEF NoCoverage
  <1>2. ASSUME NEW state \in {"", "in_scope"} \cup Refusal, NEW replay \in BOOLEAN,
               NEW seen \in {"observed", "candidate", "seed", "schema"}
        PROVE  /\ Row(state, seen, replay) \in Endpoint
               /\ Row(state, seen, replay).redacted = FALSE
               /\ Row(state, seen, replay).coverage = NoCoverage
               /\ Row(state, seen, replay).state = state
    BY <1>1 DEF Row, Endpoint
  <1>3. \A id \in Variant :
            Stamp(id) \in {"in_scope", "out_of_scope", "excluded", "static"}
    BY InventoryAssumption DEF Stamp
  <1>4. ASSUME NEW found \in SUBSET Variant
        PROVE  NewRows(Crawled(found)) /\ NoCandidates(Crawled(found), X)
    <2>1. DOMAIN Crawled(found) = found
          /\ \A id \in found : Crawled(found)[id] = Row(Stamp(id), "observed", FALSE)
      BY DEF Crawled
    <2>2. ASSUME NEW id \in found
          PROVE  /\ Crawled(found)[id] \in Endpoint /\ ~Crawled(found)[id].redacted
                 /\ Crawled(found)[id].coverage = NoCoverage
                 /\ Crawled(found)[id].state \notin Unverified
      <3> DEFINE state == Stamp(id)
      <3>1. state \in {"", "in_scope"} \cup Refusal /\ state \notin Unverified
        BY <1>3 DEF Refusal, Unverified
      <3>2. Crawled(found)[id] = Row(state, "observed", FALSE)
        BY <2>1
      <3> HIDE DEF state
      <3>3. Row(state, "observed", FALSE) \in Endpoint
        BY <3>1, <1>2
      <3>4. /\ Row(state, "observed", FALSE).redacted = FALSE
            /\ Row(state, "observed", FALSE).coverage = NoCoverage
            /\ Row(state, "observed", FALSE).state = state
        BY <3>1, <1>2
      <3> QED
        BY <3>1, <3>2, <3>3, <3>4
    <2> QED
      BY <2>1, <2>2 DEF NewRows, Rows, NoCandidates
  <1>5. ASSUME NEW rows \in Browser \cup Supplement
        PROVE  NewRows(Native(rows)) /\ NoCandidates(Native(rows), X)
    <2>1. DOMAIN Native(rows) = DOMAIN rows /\ DOMAIN rows \subseteq Variant
      BY InventoryAssumption DEF Native
    <2>2. ASSUME NEW id \in DOMAIN rows
          PROVE  \E state \in {"in_scope", "out_of_scope", "excluded", "static", "unmaterialized"} :
                    Native(rows)[id] = Row(state, rows[id].seen, rows[id].replay)
      <3>1. Stamp(id) \in {"in_scope", "out_of_scope", "excluded", "static"}
        BY <1>3, <2>1
      <3> QED
        BY <3>1 DEF Native
    <2>3. \A id \in DOMAIN rows : rows[id].seen \in {"observed", "candidate"} /\ rows[id].replay \in BOOLEAN
      BY InventoryAssumption
    <2>4. ASSUME NEW id \in DOMAIN rows
          PROVE  /\ Native(rows)[id] \in Endpoint /\ ~Native(rows)[id].redacted
                 /\ Native(rows)[id].coverage = NoCoverage
                 /\ Native(rows)[id].state \notin Unverified
      <3>1. PICK state \in {"in_scope", "out_of_scope", "excluded", "static", "unmaterialized"} :
                Native(rows)[id] = Row(state, rows[id].seen, rows[id].replay)
        BY <2>2
      <3>2. state \in {"", "in_scope"} \cup Refusal /\ state \notin Unverified
        BY DEF Refusal, Unverified
      <3>3. Row(state, rows[id].seen, rows[id].replay) \in Endpoint
        BY <3>2, <2>3, <1>2
      <3>4. /\ Row(state, rows[id].seen, rows[id].replay).redacted = FALSE
            /\ Row(state, rows[id].seen, rows[id].replay).coverage = NoCoverage
            /\ Row(state, rows[id].seen, rows[id].replay).state = state
        BY DEF Row
      <3> QED
        BY <3>1, <3>2, <3>3, <3>4
    <2> QED
      BY <2>1, <2>4 DEF NewRows, Rows, NoCandidates
  <1>6. NewRows(Operations) /\ NoCandidates(Operations, X)
    <2>1. DOMAIN Operations = DOMAIN Schema /\ DOMAIN Schema \subseteq Variant
      BY InventoryAssumption DEF Operations
    <2>2. ASSUME NEW id \in DOMAIN Schema
          PROVE  \E state \in {"in_scope", "out_of_scope", "excluded", "static", "unmaterialized"} :
                    Operations[id] = Row(state, "schema", FALSE)
      <3>1. Stamp(id) \in {"in_scope", "out_of_scope", "excluded", "static"}
        BY <1>3, <2>1
      <3> QED
        BY <3>1 DEF Operations
    <2>3. ASSUME NEW id \in DOMAIN Schema
          PROVE  /\ Operations[id] \in Endpoint /\ ~Operations[id].redacted
                 /\ Operations[id].coverage = NoCoverage
                 /\ Operations[id].state \notin Unverified
      <3>1. PICK state \in {"in_scope", "out_of_scope", "excluded", "static", "unmaterialized"} :
                Operations[id] = Row(state, "schema", FALSE)
        BY <2>2
      <3>2. state \in {"", "in_scope"} \cup Refusal /\ state \notin Unverified
        BY DEF Refusal, Unverified
      <3>3. Row(state, "schema", FALSE) \in Endpoint
        BY <3>2, <1>2
      <3>4. /\ Row(state, "schema", FALSE).redacted = FALSE
            /\ Row(state, "schema", FALSE).coverage = NoCoverage
            /\ Row(state, "schema", FALSE).state = state
        BY <3>2, <1>2
      <3> QED
        BY <3>1, <3>2, <3>3, <3>4
    <2> QED
      BY <2>1, <2>3 DEF NewRows, Rows, NoCandidates
  <1>7. NewRows([id \in {Seed} |-> Row("", "seed", FALSE)])
        /\ NoCandidates([id \in {Seed} |-> Row("", "seed", FALSE)], X)
    <2>1. /\ Row("", "seed", FALSE) \in Endpoint /\ ~Row("", "seed", FALSE).redacted
          /\ Row("", "seed", FALSE).coverage = NoCoverage /\ Row("", "seed", FALSE).state = ""
      BY <1>2
    <2> QED
      BY <2>1, InventoryAssumption DEF NewRows, Rows, NoCandidates, Unverified
  <1> QED
    BY <1>4, <1>5, <1>6, <1>7, InventoryAssumption

LEMMA SeedsAreNew ==
    ASSUME NEW X, sent \in Seq(SUBSET Variant), NEW inv, Rows(inv)
    PROVE  NewRows(IdentitySeeds(inv)) /\ NoCandidates(IdentitySeeds(inv), X)
  <1>1. NoCoverage \in [Scanner -> [status : {None, "dispatched", "skipped", "batch_completed", "failed"},
                                    attempt : 0..Len(sent)]]
    BY DEF NoCoverage
  <1>2. /\ Row("in_scope", "schema", FALSE) \in Endpoint /\ ~Row("in_scope", "schema", FALSE).redacted
        /\ Row("in_scope", "schema", FALSE).coverage = NoCoverage
        /\ Row("in_scope", "schema", FALSE).state = "in_scope"
    BY <1>1 DEF Row, Endpoint
  <1>3. DOMAIN IdentitySeeds(inv) \subseteq Variant
    <2>1. \A s \in Variant : Traits[s].twin \in Variant \cup {None}
      BY InventoryAssumption
    <2>2. ASSUME NEW id \in DOMAIN IdentitySeeds(inv)
          PROVE  \E s \in DOMAIN inv : id = Traits[s].twin /\ Traits[s].twin # None
      BY DEF IdentitySeeds
    <2> QED
      BY <2>1, <2>2 DEF Rows
  <1>4. \A id \in DOMAIN IdentitySeeds(inv) : IdentitySeeds(inv)[id] = Row("in_scope", "schema", FALSE)
    BY DEF IdentitySeeds
  <1> QED
    BY <1>2, <1>3, <1>4 DEF NewRows, Rows, NoCandidates, Unverified

LEMMA ArchivedAreNew ==
    ASSUME sent \in Seq(SUBSET Variant), NEW inv, Rows(inv), NEW rows \in Archive
    PROVE  /\ NewRows(Archived(inv, rows))
           /\ \A id \in DOMAIN Archived(inv, rows) :
                /\ ~Archived(inv, rows)[id].live
                /\ id \in DOMAIN inv /\ Dispatchable(inv[id].state) =>
                      Archived(inv, rows)[id].state = inv[id].state
  <1>1. NoCoverage \in [Scanner -> [status : {None, "dispatched", "skipped", "batch_completed", "failed"},
                                    attempt : 0..Len(sent)]]
    BY DEF NoCoverage
  <1>2. DOMAIN Archived(inv, rows) = DOMAIN rows /\ DOMAIN rows \subseteq Variant
    BY InventoryAssumption DEF Archived
  <1>3. ASSUME NEW id \in DOMAIN rows
        PROVE  /\ Archived(inv, rows)[id] \in Endpoint /\ ~Archived(inv, rows)[id].redacted
               /\ Archived(inv, rows)[id].coverage = NoCoverage /\ ~Archived(inv, rows)[id].live
               /\ id \in DOMAIN inv /\ Dispatchable(inv[id].state) =>
                      Archived(inv, rows)[id].state = inv[id].state
    <2> DEFINE state == IF id \in DOMAIN inv /\ Dispatchable(inv[id].state) THEN inv[id].state
                        ELSE rows[id].state
    <2>1. state \in {"", "in_scope"} \cup Refusal
      BY InventoryAssumption DEF Dispatchable, Refusal, Unverified
    <2>2. rows[id].seen \in {"observed", "candidate"}
      BY InventoryAssumption
    <2>3. Archived(inv, rows)[id] = [Row(state, rows[id].seen, FALSE) EXCEPT !.live = FALSE]
      BY DEF Archived
    <2> HIDE DEF state
    <2>4. ASSUME NEW r \in Endpoint
          PROVE  LET a == [r EXCEPT !.live = FALSE] IN
                    /\ a \in Endpoint /\ ~a.live /\ a.state = r.state
                    /\ a.redacted = r.redacted /\ a.coverage = r.coverage
      BY DEF Endpoint
    <2>5. Row(state, rows[id].seen, FALSE) \in Endpoint
      BY <2>1, <2>2, <1>1 DEF Row, Endpoint
    <2>6. LET r == Row(state, rows[id].seen, FALSE) IN
            r.state = state /\ ~r.redacted /\ r.coverage = NoCoverage
      BY DEF Row
    <2>7. id \in DOMAIN inv /\ Dispatchable(inv[id].state) => state = inv[id].state
      BY DEF state
    <2> QED
      BY <2>3, <2>4, <2>5, <2>6, <2>7
  <1> QED
    BY <1>2, <1>3 DEF NewRows, Rows

LEMMA MergeKeepsFound ==
    ASSUME NEW X, NEW inv, NEW rows, Rows(inv), Rows(rows), NoCandidates(inv, X)
    PROVE  /\ NoCandidates(rows, X) => NoCandidates(Merge(inv, rows), X)
           /\ (\A id \in DOMAIN rows :
                  /\ ~rows[id].live
                  /\ id \in DOMAIN inv /\ Dispatchable(inv[id].state) => rows[id].state = inv[id].state)
              => LiveIsFound(Merge(inv, rows), X)
  <1> DEFINE m == Merge(inv, rows)
  <1>1. DOMAIN m = DOMAIN inv \cup DOMAIN rows
    BY DEF Merge
  <1>2. \A id \in DOMAIN m :
            /\ id \notin DOMAIN inv => m[id] = rows[id]
            /\ id \in DOMAIN inv /\ id \notin DOMAIN rows => m[id] = inv[id]
            /\ id \in DOMAIN inv /\ id \in DOMAIN rows => m[id] = MergedRow(inv[id], rows[id])
    BY DEF Merge
  <1>3. ASSUME NEW old \in Endpoint, NEW new \in Endpoint
        PROVE  MergedRow(old, new).state = MergedState(old.state, new.state)
    BY DEF MergedRow, Endpoint
  <1>4. ASSUME NEW old \in Endpoint, NEW new \in Endpoint, old.state \notin Unverified
        PROVE  /\ new.state \notin Unverified => MergedState(old.state, new.state) \notin Unverified
               /\ ~Dispatchable(old.state) \/ new.state = old.state =>
                    MergedState(old.state, new.state) \notin Unverified
    BY <1>4 DEF MergedState, Dispatchable
  <1> HIDE DEF m
  <1>5. ASSUME NoCandidates(rows, X) PROVE NoCandidates(m, X)
    BY <1>1, <1>2, <1>3, <1>4, <1>5 DEF Rows, NoCandidates
  <1>6. ASSUME \A id \in DOMAIN rows :
                  /\ ~rows[id].live
                  /\ id \in DOMAIN inv /\ Dispatchable(inv[id].state) => rows[id].state = inv[id].state
        PROVE  LiveIsFound(m, X)
    BY <1>1, <1>2, <1>3, <1>4, <1>6 DEF Rows, NoCandidates, LiveIsFound
  <1> QED
    BY <1>5, <1>6 DEF m

LEMMA SealedGrows ==
    ASSUME NEW X, NEW inv, Rows(inv), NEW stored \in BOOLEAN
    PROVE  /\ Rows(Sealed(inv, stored)) /\ Grown(inv, Sealed(inv, stored))
           /\ NoCandidates(inv, X) => NoCandidates(Sealed(inv, stored), X)
           /\ LiveIsFound(inv, X) => LiveIsFound(Sealed(inv, stored), X)
  <1> DEFINE m == Sealed(inv, stored)
  <1>1. DOMAIN m = DOMAIN inv
    BY DEF Sealed
  <1>2. ASSUME NEW id \in DOMAIN inv
        PROVE  /\ m[id] \in Endpoint /\ m[id].coverage = inv[id].coverage
               /\ m[id].redacted = inv[id].redacted /\ m[id].live = inv[id].live
               /\ inv[id].replay => m[id].replay
               /\ m[id].state = inv[id].state \/ m[id].state = "unmaterialized"
               /\ inv[id].redacted => m[id] = inv[id]
    BY DEF Sealed, Rows, Endpoint, Refusal
  <1>3. ~Dispatchable("unmaterialized") /\ "unmaterialized" \notin Unverified
    BY DEF Dispatchable, Unverified
  <1> HIDE DEF m
  <1>4. Grown(inv, m) /\ Rows(m)
    BY <1>1, <1>2, <1>3 DEF Grown, Rows, Guarded
  <1>5. /\ NoCandidates(inv, X) => NoCandidates(m, X)
        /\ LiveIsFound(inv, X) => LiveIsFound(m, X)
    BY <1>1, <1>2, <1>3 DEF NoCandidates, LiveIsFound
  <1> QED
    BY <1>4, <1>5 DEF m

LEMMA HydratedGrows ==
    ASSUME NEW X, NEW inv, Rows(inv), NEW readable \in BOOLEAN
    PROVE  /\ Rows(Hydrated(inv, readable)) /\ Grown(inv, Hydrated(inv, readable))
           /\ NoCandidates(inv, X) => NoCandidates(Hydrated(inv, readable), X)
           /\ LiveIsFound(inv, X) => LiveIsFound(Hydrated(inv, readable), X)
           /\ Guarded(inv) => \A id \in DOMAIN inv : Hydrated(inv, readable)[id].redacted =>
                                  ~Dispatchable(Hydrated(inv, readable)[id].state)
  <1> DEFINE m == Hydrated(inv, readable)
  <1>1. DOMAIN m = DOMAIN inv
    BY DEF Hydrated
  <1>2. ASSUME NEW id \in DOMAIN inv
        PROVE  /\ m[id] \in Endpoint /\ m[id].coverage = inv[id].coverage
               /\ m[id].replay = inv[id].replay /\ m[id].live = inv[id].live
               /\ m[id].redacted \in BOOLEAN
               /\ ~inv[id].replay => m[id] = inv[id]
               /\ inv[id].replay => ~m[id].redacted \/ m[id].state = "lost"
               /\ m[id].state \in {inv[id].state, "lost", "in_scope"}
    BY DEF Hydrated, Rows, Endpoint, Refusal
  <1>3. /\ ~Dispatchable("lost") /\ "lost" \notin Unverified /\ "in_scope" \notin Unverified
    BY DEF Dispatchable, Unverified
  <1>4. \A id \in DOMAIN inv : inv[id].replay \in BOOLEAN
    BY DEF Rows, Endpoint
  <1> HIDE DEF m
  <1>5. Grown(inv, m) /\ Rows(m)
    BY <1>1, <1>2, <1>3, <1>4 DEF Grown, Rows, Guarded
  <1>6. /\ NoCandidates(inv, X) => NoCandidates(m, X)
        /\ LiveIsFound(inv, X) => LiveIsFound(m, X)
        /\ Guarded(inv) => \A id \in DOMAIN inv : m[id].redacted => ~Dispatchable(m[id].state)
    BY <1>1, <1>2, <1>3, <1>4 DEF NoCandidates, LiveIsFound, Guarded
  <1> QED
    BY <1>5, <1>6 DEF m

LEMMA GrownTwice ==
    ASSUME NEW a, NEW b, NEW c, Rows(b), Rows(c), Grown(a, b), Grown(b, c)
    PROVE  Grown(a, c)
  <1>1. DOMAIN a \subseteq DOMAIN c /\ (Guarded(a) => Guarded(c))
    BY DEF Grown
  <1>2. ASSUME NEW id \in DOMAIN a
        PROVE  /\ c[id].coverage = a[id].coverage /\ (a[id].replay => c[id].replay)
               /\ ~Dispatchable(a[id].state) /\ ~c[id].replay => ~Dispatchable(c[id].state)
    BY <1>2 DEF Grown
  <1>3. ASSUME NEW id \in DOMAIN c \ DOMAIN a PROVE c[id].coverage = NoCoverage
    BY <1>3 DEF Grown
  <1> QED
    BY <1>1, <1>2, <1>3 DEF Grown

LEMMA DiscoveredGrows ==
    ASSUME NEW X, sent \in Seq(SUBSET Variant), NEW base, Rows(base),
           NEW found, found \in Crawl \/ found = {}, NEW native \in Browser
    PROVE  LET d == Discovered(base, found, native) IN
           /\ Rows(d) /\ Grown(base, d)
           /\ NoCandidates(base, X) => NoCandidates(d, X)
  <1> DEFINE a == Merge(base, Crawled(found))
             b == Merge(a, Native(native))
             c == Merge(b, [id \in {Seed} |-> Row("", "seed", FALSE)])
             d == Merge(c, Operations)
             e == Merge(d, IdentitySeeds(d))
  <1>1. NewRows(Crawled(found)) /\ NoCandidates(Crawled(found), X)
    BY SourcesAreNew
  <1>2. Rows(a) /\ Grown(base, a) /\ (NoCandidates(base, X) => NoCandidates(a, X))
    BY <1>1, MergeGrows, MergeKeepsFound DEF NewRows
  <1> HIDE DEF a
  <1>3. Rows(b) /\ Grown(a, b) /\ (NoCandidates(a, X) => NoCandidates(b, X))
    BY <1>2, SourcesAreNew, MergeGrows, MergeKeepsFound DEF NewRows
  <1> HIDE DEF b
  <1>4. Rows(c) /\ Grown(b, c) /\ (NoCandidates(b, X) => NoCandidates(c, X))
    BY <1>3, SourcesAreNew, MergeGrows, MergeKeepsFound DEF NewRows
  <1> HIDE DEF c
  <1>5. Rows(d) /\ Grown(c, d) /\ (NoCandidates(c, X) => NoCandidates(d, X))
    BY <1>4, SourcesAreNew, MergeGrows, MergeKeepsFound DEF NewRows
  <1> HIDE DEF d
  <1>6. Rows(e) /\ Grown(d, e) /\ (NoCandidates(d, X) => NoCandidates(e, X))
    BY <1>5, SeedsAreNew, MergeGrows, MergeKeepsFound DEF NewRows
  <1> HIDE DEF e
  <1>7. Grown(base, e)
    BY <1>2, <1>3, <1>4, <1>5, <1>6, GrownTwice
  <1>8. Discovered(base, found, native) = e
    BY DEF Discovered, a, b, c, d, e
  <1> QED
    BY <1>2, <1>3, <1>4, <1>5, <1>6, <1>7, <1>8

LEMMA BuiltGrows ==
    ASSUME NEW X, sent \in Seq(SUBSET Variant), NEW base, Rows(base),
           NEW found, found \in Crawl \/ found = {},
           NEW native \in Browser, NEW extra \in Supplement, NEW archived \in Archive,
           NEW store \in Store
    PROVE  LET inv == Built(base, found, native, extra, archived, store) IN
           /\ Rows(inv) /\ Grown(base, inv)
           /\ Guarded(base) =>
                \A id \in DOMAIN inv : inv[id].redacted => ~Dispatchable(inv[id].state)
           /\ NoCandidates(base, X) => LiveIsFound(inv, X)
  <1> DEFINE a == Discovered(base, found, native)
             b == Sealed(a, store.writes)
             c == Hydrated(b, store.early)
             z == Merge(c, Native(extra))
             d == Merge(z, Archived(z, archived))
             e == Sealed(d, store.writes)
             f == Hydrated(e, store.late)
  <1>0. store.writes \in BOOLEAN /\ store.early \in BOOLEAN /\ store.late \in BOOLEAN
    BY InventoryAssumption
  <1>1. Rows(a) /\ Grown(base, a) /\ (NoCandidates(base, X) => NoCandidates(a, X))
    BY DiscoveredGrows
  <1> HIDE DEF a
  <1>2. Rows(b) /\ Grown(a, b) /\ (NoCandidates(a, X) => NoCandidates(b, X))
    BY <1>0, <1>1, SealedGrows
  <1> HIDE DEF b
  <1>3. Rows(c) /\ Grown(b, c) /\ (NoCandidates(b, X) => NoCandidates(c, X))
    BY <1>0, <1>2, HydratedGrows
  <1> HIDE DEF c
  <1>4. Rows(z) /\ Grown(c, z) /\ (NoCandidates(c, X) => NoCandidates(z, X))
    BY <1>3, SourcesAreNew, MergeGrows, MergeKeepsFound DEF NewRows
  <1> HIDE DEF z
  <1>5. Rows(d) /\ Grown(z, d) /\ (NoCandidates(z, X) => LiveIsFound(d, X))
    BY <1>4, ArchivedAreNew, MergeGrows, MergeKeepsFound DEF NewRows
  <1> HIDE DEF d
  <1>6. Rows(e) /\ Grown(d, e) /\ (LiveIsFound(d, X) => LiveIsFound(e, X))
    BY <1>0, <1>5, SealedGrows
  <1> HIDE DEF e
  <1>7. /\ Rows(f) /\ Grown(e, f) /\ (LiveIsFound(e, X) => LiveIsFound(f, X))
        /\ DOMAIN f = DOMAIN e
        /\ Guarded(e) => \A id \in DOMAIN f : f[id].redacted => ~Dispatchable(f[id].state)
    <2>1. DOMAIN f = DOMAIN e
      BY DEF Hydrated
    <2> QED
      BY <2>1, <1>0, <1>6, HydratedGrows
  <1> HIDE DEF f
  <1>8. Grown(base, e) /\ Grown(base, f)
    BY <1>1, <1>2, <1>3, <1>4, <1>5, <1>6, <1>7, GrownTwice
  <1>9. Built(base, found, native, extra, archived, store) = f
    BY DEF Built, a, b, c, z, d, e, f
  <1>10. Guarded(base) => Guarded(e)
    BY <1>8 DEF Grown
  <1> QED
    BY <1>1, <1>2, <1>3, <1>4, <1>5, <1>6, <1>7, <1>8, <1>9, <1>10

\* What is saved: the same endpoints, and none of them may be sent that was not, or that has a
\* sensitive URL without a replay.
LEMMA RedactedKeeps ==
    ASSUME NEW inv, Rows(inv),
           \A id \in DOMAIN inv : inv[id].redacted => ~Dispatchable(inv[id].state)
    PROVE  /\ Rows(Redacted(inv)) /\ DOMAIN Redacted(inv) = DOMAIN inv /\ Guarded(Redacted(inv))
           /\ \A id \in DOMAIN inv :
                /\ Redacted(inv)[id].coverage = inv[id].coverage
                /\ ~Dispatchable(inv[id].state) => ~Dispatchable(Redacted(inv)[id].state)
  <1> DEFINE m == Redacted(inv)
  <1>1. DOMAIN m = DOMAIN inv
    BY DEF Redacted
  <1>2. ASSUME NEW id \in DOMAIN inv
        PROVE  /\ m[id] \in Endpoint /\ m[id].coverage = inv[id].coverage
               /\ m[id].replay = inv[id].replay
               /\ m[id].state = inv[id].state \/ m[id].state = "unmaterialized"
               /\ m[id].redacted /\ ~inv[id].redacted /\ ~inv[id].replay =>
                    m[id].state = "unmaterialized"
    BY DEF Redacted, Rows, Endpoint, Refusal
  <1>3. ~Dispatchable("unmaterialized")
    BY DEF Dispatchable
  <1>4. \A id \in DOMAIN inv : inv[id].replay \in BOOLEAN /\ inv[id].redacted \in BOOLEAN
    BY DEF Rows, Endpoint
  <1> HIDE DEF m
  <1>5. Rows(m) /\ Guarded(m)
    BY <1>1, <1>2, <1>3, <1>4 DEF Rows, Guarded
  <1> QED
    BY <1>1, <1>2, <1>3, <1>5 DEF m

-----------------------------------------------------------------------------
\* The ledger

MarkStatus == {None, "dispatched", "skipped", "batch_completed", "failed"}
Mark == [status : MarkStatus, attempt : 0..Len(sent)]

\* What a job does to an inventory: it changes marks of its scanner, and nothing else.
SameButMarks(old, new, s) ==
    /\ DOMAIN new = DOMAIN old
    /\ \A id \in DOMAIN old :
        /\ new[id].state = old[id].state /\ new[id].redacted = old[id].redacted
        /\ new[id].replay = old[id].replay /\ new[id].live = old[id].live
        /\ \A z \in Scanner \ {s} : new[id].coverage[z] = old[id].coverage[z]

LEMMA MarkTyped ==
    ASSUME NEW ep \in Endpoint, NEW s \in Scanner, NEW mark \in Mark
    PROVE  LET new == [ep EXCEPT !.coverage[s] = mark] IN
           /\ new \in Endpoint
           /\ new.state = ep.state /\ new.redacted = ep.redacted
           /\ new.replay = ep.replay /\ new.live = ep.live
           /\ new.coverage[s] = mark
           /\ \A z \in Scanner \ {s} : new.coverage[z] = ep.coverage[z]
  BY DEF Endpoint, Mark, MarkStatus

LEMMA JobScanner ==
    ASSUME NEW n \in DOMAIN JobSeq PROVE JobSeq[n].scanner \in Scanner
  BY DEF Scanner

LEMMA TargetsMarked ==
    ASSUME sent \in Seq(SUBSET Variant), Rows(inventory),
           NEW n \in DOMAIN JobSeq, NEW granted
    PROVE  LET j == JobSeq[n]
               d == DispatchTargets(j, granted)
           IN  /\ Rows(d) /\ SameButMarks(inventory, d, j.scanner)
               /\ \A id \in DOMAIN inventory :
                    /\ id \notin Considered(j) => d[id].coverage[j.scanner] = inventory[id].coverage[j.scanner]
                    /\ id \in Considered(j) /\ id \in granted => d[id].coverage[j.scanner].status = "dispatched"
                    /\ id \in Considered(j) /\ id \notin granted => d[id].coverage[j.scanner].status = "skipped"
  <1> DEFINE j == JobSeq[n]
             d == DispatchTargets(j, granted)
             mark(id) == [status |-> IF id \in granted THEN "dispatched" ELSE "skipped", attempt |-> 0]
  <1>1. j.scanner \in Scanner
    BY JobScanner
  <1>2. DOMAIN d = DOMAIN inventory
    BY DEF DispatchTargets
  <1>3. ASSUME NEW id \in DOMAIN inventory
        PROVE  /\ id \notin Considered(j) => d[id] = inventory[id]
               /\ id \in Considered(j) => d[id] = [inventory[id] EXCEPT !.coverage[j.scanner] = mark(id)]
    BY <1>3 DEF DispatchTargets
  <1>4. \A id : mark(id) \in Mark
    BY DEF Mark, MarkStatus
  <1>5. \A id : mark(id).status = IF id \in granted THEN "dispatched" ELSE "skipped"
    OBVIOUS
  <1>6. \A id \in DOMAIN inventory : inventory[id] \in Endpoint
    BY DEF Rows
  <1> HIDE DEF mark, d, j
  <1>7. ASSUME NEW id \in DOMAIN inventory
        PROVE  /\ d[id] \in Endpoint
               /\ d[id].state = inventory[id].state /\ d[id].redacted = inventory[id].redacted
               /\ d[id].replay = inventory[id].replay /\ d[id].live = inventory[id].live
               /\ \A z \in Scanner \ {j.scanner} : d[id].coverage[z] = inventory[id].coverage[z]
               /\ id \notin Considered(j) => d[id].coverage[j.scanner] = inventory[id].coverage[j.scanner]
               /\ id \in Considered(j) => d[id].coverage[j.scanner] = mark(id)
    <2>1. CASE id \notin Considered(j)
      BY <2>1, <1>3, <1>6
    <2>2. CASE id \in Considered(j)
      <3>1. d[id] = [inventory[id] EXCEPT !.coverage[j.scanner] = mark(id)] /\ mark(id) \in Mark
        BY <2>2, <1>3, <1>4
      <3> QED
        BY <2>2, <3>1, <1>1, <1>6, MarkTyped
    <2> QED
      BY <2>1, <2>2
  <1>8. Rows(d) /\ SameButMarks(inventory, d, j.scanner)
    BY <1>2, <1>7 DEF Rows, SameButMarks
  <1>9. ASSUME NEW id \in DOMAIN inventory
        PROVE  /\ id \notin Considered(j) => d[id].coverage[j.scanner] = inventory[id].coverage[j.scanner]
               /\ id \in Considered(j) /\ id \in granted => d[id].coverage[j.scanner].status = "dispatched"
               /\ id \in Considered(j) /\ id \notin granted => d[id].coverage[j.scanner].status = "skipped"
    BY <1>5, <1>7
  <1> QED
    BY <1>8, <1>9 DEF d, j

LEMMA CompleteMarked ==
    ASSUME sent \in Seq(SUBSET Variant), NEW inv, Rows(inv),
           NEW n \in DOMAIN JobSeq, NEW ended, ended.attempt \in 0..Len(sent)
    PROVE  LET j == JobSeq[n]
               d == Complete(inv, j, ended)
           IN  /\ Rows(d) /\ SameButMarks(inv, d, j.scanner)
               /\ \A id \in DOMAIN inv :
                    /\ d[id].coverage[j.scanner].status # "dispatched"
                    /\ \/ d[id].coverage[j.scanner] = inv[id].coverage[j.scanner]
                       \/ /\ inv[id].coverage[j.scanner].status = "dispatched"
                          /\ d[id].coverage[j.scanner].attempt = ended.attempt
  <1> DEFINE j == JobSeq[n]
             d == Complete(inv, j, ended)
             mark == [status |-> IF ended.status = "completed" THEN "batch_completed" ELSE "failed",
                      attempt |-> ended.attempt]
  <1>1. j.scanner \in Scanner
    BY JobScanner
  <1>2. DOMAIN d = DOMAIN inv
    BY DEF Complete
  <1>3. ASSUME NEW id \in DOMAIN inv
        PROVE  /\ inv[id].coverage[j.scanner].status # "dispatched" => d[id] = inv[id]
               /\ inv[id].coverage[j.scanner].status = "dispatched" =>
                    d[id] = [inv[id] EXCEPT !.coverage[j.scanner] = mark]
    BY <1>3 DEF Complete
  <1>4. mark \in Mark /\ mark.status # "dispatched" /\ mark.attempt = ended.attempt
    BY DEF Mark, MarkStatus
  <1>5. \A id \in DOMAIN inv : inv[id] \in Endpoint
    BY DEF Rows
  <1> HIDE DEF mark, d, j
  <1>6. ASSUME NEW id \in DOMAIN inv
        PROVE  /\ d[id] \in Endpoint
               /\ d[id].state = inv[id].state /\ d[id].redacted = inv[id].redacted
               /\ d[id].replay = inv[id].replay /\ d[id].live = inv[id].live
               /\ \A z \in Scanner \ {j.scanner} : d[id].coverage[z] = inv[id].coverage[z]
               /\ d[id].coverage[j.scanner].status # "dispatched"
               /\ \/ d[id].coverage[j.scanner] = inv[id].coverage[j.scanner]
                  \/ /\ inv[id].coverage[j.scanner].status = "dispatched"
                     /\ d[id].coverage[j.scanner].attempt = ended.attempt
    <2>1. CASE inv[id].coverage[j.scanner].status # "dispatched"
      BY <2>1, <1>3, <1>5
    <2>2. CASE inv[id].coverage[j.scanner].status = "dispatched"
      <3>1. d[id] = [inv[id] EXCEPT !.coverage[j.scanner] = mark]
        BY <2>2, <1>3
      <3> QED
        BY <2>2, <3>1, <1>1, <1>4, <1>5, MarkTyped
    <2> QED
      BY <2>1, <2>2
  <1>7. Rows(d) /\ SameButMarks(inv, d, j.scanner)
    BY <1>2, <1>6 DEF Rows, SameButMarks
  <1> QED
    BY <1>6, <1>7 DEF d, j

LEMMA ConstrainedMarked ==
    ASSUME sent \in Seq(SUBSET Variant), NEW inv, Rows(inv), NEW n \in DOMAIN JobSeq
    PROVE  LET j == JobSeq[n]
               d == Constrained(inv, j)
           IN  /\ Rows(d) /\ SameButMarks(inv, d, j.scanner)
               /\ \A id \in DOMAIN inv :
                    \/ /\ d[id].coverage[j.scanner] = inv[id].coverage[j.scanner]
                       /\ \/ d[id].coverage[j.scanner].status # "dispatched"
                          \/ j.context # "" /\ Traits[id].context = j.context => Traits[id].own
                    \/ d[id].coverage[j.scanner].status = "skipped"
  <1> DEFINE j == JobSeq[n]
             d == Constrained(inv, j)
             fenced(id) == /\ j.context # "" /\ Traits[id].context = j.context /\ ~Traits[id].own
                           /\ inv[id].coverage[j.scanner].status = "dispatched"
             mark(id) == [status |-> "skipped", attempt |-> inv[id].coverage[j.scanner].attempt]
  <1>1. j.scanner \in Scanner
    BY JobScanner
  <1>2. DOMAIN d = DOMAIN inv
    BY DEF Constrained
  <1>3. \A id \in DOMAIN inv : inv[id] \in Endpoint
    BY DEF Rows
  <1>4. ASSUME NEW id \in DOMAIN inv
        PROVE  /\ ~fenced(id) => d[id] = inv[id]
               /\ fenced(id) => d[id] = [inv[id] EXCEPT !.coverage[j.scanner].status = "skipped"]
    BY <1>4 DEF Constrained
  <1>5. ASSUME NEW id \in DOMAIN inv
        PROVE  /\ mark(id) \in Mark /\ mark(id).status = "skipped"
               /\ [inv[id] EXCEPT !.coverage[j.scanner].status = "skipped"]
                    = [inv[id] EXCEPT !.coverage[j.scanner] = mark(id)]
    <2> DEFINE s == j.scanner
    <2>0. s \in Scanner /\ inv[id] \in Endpoint
      BY <1>1, <1>3
    <2> HIDE DEF s
    <2>1. inv[id].coverage[s] \in Mark
      BY <2>0 DEF Endpoint, Mark, MarkStatus
    <2>2. [inv[id].coverage[s] EXCEPT !.status = "skipped"]
            = [status |-> "skipped", attempt |-> inv[id].coverage[s].attempt]
      BY <2>1 DEF Mark
    <2>3. [status |-> "skipped", attempt |-> inv[id].coverage[s].attempt] \in Mark
      BY <2>1 DEF Mark, MarkStatus
    <2> QED
      BY <2>2, <2>3 DEF s
  <1> HIDE DEF mark, d, j
  <1>6. ASSUME NEW id \in DOMAIN inv
        PROVE  /\ d[id] \in Endpoint
               /\ d[id].state = inv[id].state /\ d[id].redacted = inv[id].redacted
               /\ d[id].replay = inv[id].replay /\ d[id].live = inv[id].live
               /\ \A z \in Scanner \ {j.scanner} : d[id].coverage[z] = inv[id].coverage[z]
               /\ ~fenced(id) => d[id].coverage[j.scanner] = inv[id].coverage[j.scanner]
               /\ fenced(id) => d[id].coverage[j.scanner].status = "skipped"
    <2>1. CASE ~fenced(id)
      BY <2>1, <1>3, <1>4
    <2>2. CASE fenced(id)
      <3>1. d[id] = [inv[id] EXCEPT !.coverage[j.scanner] = mark(id)] /\ mark(id) \in Mark
            /\ mark(id).status = "skipped"
        BY <2>2, <1>4, <1>5
      <3> HIDE DEF fenced
      <3> QED
        BY <2>2, <3>1, <1>1, <1>3, MarkTyped
    <2> QED
      BY <2>1, <2>2
  <1>7. Rows(d) /\ SameButMarks(inv, d, j.scanner)
    BY <1>2, <1>6 DEF Rows, SameButMarks
  <1>8. ASSUME NEW id \in DOMAIN inv
        PROVE  \/ /\ d[id].coverage[j.scanner] = inv[id].coverage[j.scanner]
                  /\ \/ d[id].coverage[j.scanner].status # "dispatched"
                     \/ j.context # "" /\ Traits[id].context = j.context => Traits[id].own
               \/ d[id].coverage[j.scanner].status = "skipped"
    BY <1>6
  <1> QED
    BY <1>7, <1>8 DEF d, j

\* What no job changes of a row.
StatesKept(old, new) ==
    /\ DOMAIN new = DOMAIN old
    /\ \A id \in DOMAIN old :
        /\ new[id].state = old[id].state /\ new[id].redacted = old[id].redacted
        /\ new[id].replay = old[id].replay /\ new[id].live = old[id].live

LEMMA MarksKeepStates ==
    ASSUME NEW old, NEW new, NEW s, SameButMarks(old, new, s)
    PROVE  StatesKept(old, new)
  BY DEF SameButMarks, StatesKept

LEMMA StatesKeep ==
    ASSUME NEW old, NEW new, StatesKept(old, new)
    PROVE  /\ Withheld(old) => Withheld(new)
           /\ LiveIsFound(old, {}) => LiveIsFound(new, {})
           /\ RefusedIn(old) = RefusedIn(new)
  BY DEF StatesKept, Withheld, LiveIsFound, RefusedIn

\* Every completed mark has its reason, and what is dispatched belongs to the job at hand.
Credited(inv) ==
    \A id \in DOMAIN inv, s \in Scanner :
        /\ inv[id].coverage[s].status = "batch_completed" =>
              \/ inv[id].coverage[s].attempt \in reused
              \/ s \in lapsed
              \/ /\ inv[id].coverage[s].attempt \in DOMAIN sent
                 /\ id \in sent[inv[id].coverage[s].attempt]
        /\ inv[id].coverage[s].status = "dispatched" =>
              \/ s \in lapsed
              \/ /\ phase \in {"dispatched", "running"}
                 /\ s = CurrentJob.scanner /\ Traits[id].context = CurrentJob.context

OutcomeStatus == {None, "skipped", "failed", "completed", "cancelled"}

InventoryTyped ==
    /\ Rows(inventory) /\ Rows(snapshot)
    /\ sent \in Seq(SUBSET Variant)
    /\ outcome \in [DOMAIN JobSeq -> [status : OutcomeStatus, attempt : 0..Len(sent)]]
    /\ basis \in {None, "crawl", "snapshot"}
    /\ phase \in {"idle", "ready", "dispatched", "running"}
    /\ job \in 1..(Len(JobSeq) + 1) /\ inventories \in 0..MaxInventories
    /\ reserved \subseteq Variant /\ lapsed \subseteq Scanner
    /\ phase \in {"dispatched", "running"} => job \in DOMAIN JobSeq

InventorySafe ==
    /\ Withheld(inventory)
    /\ Guarded(snapshot)
    /\ phase = "idle" => inventory = Empty /\ basis = None
    /\ phase # "idle" => snapshot = Redacted(inventory) /\ basis # None
    /\ basis = "crawl" => LiveIsFound(inventory, {})

LedgerHolds ==
    /\ Credited(inventory) /\ Credited(snapshot)
    /\ phase = "running" => sent # <<>> /\ Manifest(inventory, CurrentJob) \subseteq sent[Len(sent)]

InventoryInv == InventoryTyped /\ InventorySafe /\ LedgerHolds /\ DispatchIsConfined

LEMMA InventoryStarts == InventoryInit => InventoryInv
  <1> SUFFICES ASSUME InventoryInit PROVE InventoryInv
    OBVIOUS
  <1>1. DOMAIN Empty = {}
    BY DEF Empty
  <1>2. InventoryTyped
    <2>1. job \in 1..(Len(JobSeq) + 1) /\ inventories \in 0..MaxInventories
      BY InventoryAssumption DEF InventoryInit
    <2>2. outcome \in [DOMAIN JobSeq -> [status : OutcomeStatus, attempt : 0..Len(sent)]]
      BY DEF InventoryInit, OutcomeStatus
    <2>3. Rows(inventory) /\ Rows(snapshot)
      BY <1>1 DEF InventoryInit, Rows
    <2> QED
      BY <2>1, <2>2, <2>3 DEF InventoryInit, InventoryTyped
  <1>3. InventorySafe
    BY <1>1 DEF InventoryInit, InventorySafe, Withheld, Guarded, None
  <1>4. LedgerHolds
    BY <1>1 DEF InventoryInit, LedgerHolds, Credited
  <1>5. DispatchIsConfined
    <2>1. Cardinality({}) = 0
      BY FS_EmptySet
    <2> QED
      BY <2>1, InventoryAssumption DEF InventoryInit, DispatchIsConfined
  <1> QED
    BY <1>2, <1>3, <1>4, <1>5 DEF InventoryInv

\* Saving the inventory keeps what holds of it.
LEMMA SavedHolds ==
    ASSUME sent' = sent, Rows(inventory'), Withheld(inventory'), snapshot' = Redacted(inventory'),
           Credited(inventory)'
    PROVE  Rows(snapshot)' /\ Rows(inventory)' /\ Guarded(snapshot') /\ Credited(snapshot)'
  <1>1. \A id \in DOMAIN inventory' : inventory'[id].redacted => ~Dispatchable(inventory'[id].state)
    BY DEF Withheld
  <1>2. /\ Rows(snapshot') /\ DOMAIN snapshot' = DOMAIN inventory' /\ Guarded(snapshot')
        /\ \A id \in DOMAIN inventory' : snapshot'[id].coverage = inventory'[id].coverage
    BY <1>1, RedactedKeeps
  <1>3. Endpoint' = Endpoint
    BY DEF Endpoint
  <1>4. Rows(snapshot)' /\ Rows(inventory)'
    BY <1>2, <1>3 DEF Rows
  <1>5. Credited(snapshot)'
    BY <1>2 DEF Credited
  <1> QED
    BY <1>2, <1>4, <1>5

LEMMA PrepareHolds == InventoryInv /\ Prepare => InventoryInv'
  <1> SUFFICES ASSUME InventoryInv, Prepare PROVE InventoryInv'
    OBVIOUS
  <1> USE DEF InventoryInv
  <1>0. sent' = sent /\ outcome' = outcome /\ reused' = reused /\ lapsed' = lapsed
        /\ phase = "idle" /\ phase' = "ready" /\ job' = 1 /\ reserved' = {}
        /\ inventories' = inventories + 1 /\ inventories < MaxInventories
        /\ snapshot' = Redacted(inventory')
    BY DEF Prepare, Save
  <1>1. PICK native \in Browser, extra \in Supplement, archived \in Archive, store \in Store :
            \/ /\ snapshot # Empty
               /\ basis' = "snapshot"
               /\ inventory' = Built(snapshot, {}, native, extra, archived, store)
            \/ \E found \in Crawl :
               /\ basis' = "crawl"
               /\ inventory' = Built(Empty, found, native, extra, archived, store)
    BY DEF Prepare
  <1>2. sent \in Seq(SUBSET Variant) /\ Rows(snapshot) /\ Guarded(snapshot) /\ Credited(snapshot)
    BY DEF InventoryTyped, InventorySafe, LedgerHolds
  <1>3. Rows(Empty) /\ Guarded(Empty) /\ Credited(Empty) /\ NoCandidates(Empty, {})
    BY DEF Rows, Guarded, Credited, NoCandidates, Empty
  <1> DEFINE Grounded ==
        \E base : /\ Rows(base) /\ Credited(base) /\ Grown(base, inventory')
                  /\ Rows(inventory') /\ Withheld(inventory')
                  /\ basis' = "crawl" => LiveIsFound(inventory', {})
                  /\ basis' \in {"crawl", "snapshot"}
  <1>4. Grounded
    <2>1. CASE basis' = "snapshot" /\ inventory' = Built(snapshot, {}, native, extra, archived, store)
      <3>1. /\ Rows(inventory') /\ Grown(snapshot, inventory')
            /\ \A id \in DOMAIN inventory' : inventory'[id].redacted => ~Dispatchable(inventory'[id].state)
        BY <2>1, <1>2, BuiltGrows
      <3> QED
        BY <3>1, <2>1, <1>2 DEF Withheld
    <2>2. ASSUME NEW found \in Crawl, basis' = "crawl",
                 inventory' = Built(Empty, found, native, extra, archived, store)
          PROVE  Grounded
      <3>1. /\ Rows(inventory') /\ Grown(Empty, inventory') /\ LiveIsFound(inventory', {})
            /\ \A id \in DOMAIN inventory' : inventory'[id].redacted => ~Dispatchable(inventory'[id].state)
        BY <2>2, <1>2, <1>3, BuiltGrows
      <3> QED
        BY <3>1, <2>2, <1>3 DEF Withheld
    <2> QED
      BY <2>1, <2>2, <1>1
  <1>5. PICK base : /\ Rows(base) /\ Credited(base) /\ Grown(base, inventory')
    BY <1>4
  <1>6. Credited(inventory)'
    <2> SUFFICES ASSUME NEW id \in DOMAIN inventory', NEW s \in Scanner
                 PROVE  LET c == inventory'[id].coverage[s] IN
                        /\ c.status = "batch_completed" =>
                             c.attempt \in reused \/ s \in lapsed \/ (c.attempt \in DOMAIN sent /\ id \in sent[c.attempt])
                        /\ c.status = "dispatched" => s \in lapsed
      BY <1>0 DEF Credited
    <2>1. CASE id \in DOMAIN base
      BY <2>1, <1>0, <1>5 DEF Credited, Grown
    <2>2. CASE id \notin DOMAIN base
      <3>1. inventory'[id].coverage = NoCoverage
        BY <2>2, <1>5 DEF Grown
      <3> QED
        BY <3>1 DEF NoCoverage, None
    <2> QED
      BY <2>1, <2>2
  <1>7. Rows(snapshot)' /\ Rows(inventory)' /\ Guarded(snapshot') /\ Credited(snapshot)'
    BY <1>0, <1>4, <1>6, SavedHolds
  <1>8. InventoryTyped'
    <2>1. job' \in 1..(Len(JobSeq) + 1) /\ inventories' \in 0..MaxInventories
      BY <1>0, InventoryAssumption DEF InventoryTyped
    <2> QED
      BY <2>1, <1>0, <1>4, <1>7 DEF InventoryTyped
  <1>9. InventorySafe'
    BY <1>0, <1>4, <1>7 DEF InventorySafe, Withheld, Guarded, LiveIsFound, None
  <1>10. LedgerHolds'
    BY <1>0, <1>6, <1>7 DEF LedgerHolds
  <1>11. DispatchIsConfined'
    <2>1. Cardinality({}) = 0
      BY FS_EmptySet
    <2> QED
      BY <2>1, <1>0, InventoryAssumption DEF DispatchIsConfined
  <1> QED
    BY <1>8, <1>9, <1>10, <1>11

\* What a job does to the inventory, when it saves what it did.
LEMMA JobStepHolds ==
    ASSUME InventoryInv, sent' = sent, basis' = basis, inventories' = inventories,
           phase # "idle", phase' \in {"ready", "dispatched"},
           job' \in 1..(Len(JobSeq) + 1), phase' = "dispatched" => job' \in DOMAIN JobSeq,
           reserved' \subseteq Variant, lapsed' \subseteq Scanner,
           outcome' \in [DOMAIN JobSeq -> [status : OutcomeStatus, attempt : 0..Len(sent)]],
           Rows(inventory'), StatesKept(inventory, inventory'), snapshot' = Redacted(inventory'),
           Credited(inventory)', DispatchIsConfined'
    PROVE  InventoryInv'
  <1>1. Withheld(inventory') /\ (basis' = "crawl" => LiveIsFound(inventory', {}))
    BY StatesKeep DEF InventoryInv, InventorySafe
  <1>2. Rows(snapshot)' /\ Rows(inventory)' /\ Guarded(snapshot') /\ Credited(snapshot)'
    BY <1>1, SavedHolds
  <1>3. InventoryTyped'
    BY <1>2 DEF InventoryInv, InventoryTyped
  <1>4. InventorySafe'
    BY <1>1, <1>2 DEF InventoryInv, InventorySafe, Withheld, Guarded, LiveIsFound
  <1>5. LedgerHolds'
    BY <1>2 DEF LedgerHolds
  <1> QED
    BY <1>3, <1>4, <1>5 DEF InventoryInv

LEMMA ConcludeTyped ==
    ASSUME InventoryInv, job \in DOMAIN JobSeq,
           NEW ended \in [status : OutcomeStatus, attempt : 0..Len(sent)], Conclude(ended)
    PROVE  /\ outcome' \in [DOMAIN JobSeq -> [status : OutcomeStatus, attempt : 0..Len(sent)]]
           /\ job' \in 1..(Len(JobSeq) + 1) /\ phase' = "ready"
  <1>1. DOMAIN JobSeq = 1..Len(JobSeq) /\ Len(JobSeq) \in Nat
    BY InventoryAssumption
  <1>2. outcome' \in [DOMAIN JobSeq -> [status : OutcomeStatus, attempt : 0..Len(sent)]]
    BY DEF Conclude, InventoryInv, InventoryTyped
  <1>3. job' \in 1..(Len(JobSeq) + 1)
    BY <1>1 DEF Conclude
  <1> QED
    BY <1>2, <1>3 DEF Conclude

LEMMA NothingMarked ==
    ASSUME InventoryInv PROVE StatesKept(inventory, inventory)
  BY DEF StatesKept

LEMMA GrantsAreHeld ==
    ASSUME NEW j, NEW granted \in Grants(j), InventoryInv
    PROVE  /\ granted \subseteq Considered(j) /\ granted \subseteq Variant
           /\ Cardinality(reserved \cup granted) <= Cap
           /\ reserved \cup granted \subseteq Variant
           /\ \A id \in granted : Eligible(inventory[id], id, j)
  BY DEF Grants, Considered, InventoryInv, InventoryTyped, Rows

LEMMA BlockHolds == InventoryInv /\ Block => InventoryInv'
  <1> SUFFICES ASSUME InventoryInv, Block PROVE InventoryInv'
    OBVIOUS
  <1> DEFINE ended == [status |-> "skipped", attempt |-> 0]
  <1>1. /\ phase = "ready" /\ job \in DOMAIN JobSeq /\ Conclude(ended)
        /\ snapshot' = Redacted(inventory') /\ inventory' = inventory /\ basis' = basis /\ sent' = sent
        /\ reserved' = reserved /\ inventories' = inventories /\ reused' = reused /\ lapsed' = lapsed
    BY DEF Block, Save
  <1>2. sent \in Seq(SUBSET Variant) /\ reserved \subseteq Variant /\ lapsed \subseteq Scanner
        /\ Rows(inventory) /\ Credited(inventory)
    BY DEF InventoryInv, InventoryTyped, LedgerHolds
  <1>3. ended \in [status : OutcomeStatus, attempt : 0..Len(sent)]
    BY <1>2 DEF OutcomeStatus
  <1> HIDE DEF ended
  <1>4. /\ outcome' \in [DOMAIN JobSeq -> [status : OutcomeStatus, attempt : 0..Len(sent)]]
        /\ job' \in 1..(Len(JobSeq) + 1) /\ phase' = "ready"
    BY <1>1, <1>3, ConcludeTyped
  <1>5. Credited(inventory)'
    BY <1>1, <1>2, <1>4 DEF Credited
  <1>6. DispatchIsConfined'
    BY <1>1, <1>4 DEF InventoryInv, DispatchIsConfined
  <1> QED
    BY <1>1, <1>2, <1>4, <1>5, <1>6, NothingMarked, JobStepHolds

LEMMA UnstartedHolds == InventoryInv /\ Unstarted => InventoryInv'
  <1> SUFFICES ASSUME InventoryInv, Unstarted PROVE InventoryInv'
    OBVIOUS
  <1> DEFINE ended == [status |-> "failed", attempt |-> 0]
  <1>1. /\ phase = "dispatched" /\ Conclude(ended) /\ lapsed' = lapsed \cup {CurrentJob.scanner}
        /\ snapshot' = Redacted(inventory') /\ inventory' = inventory /\ basis' = basis /\ sent' = sent
        /\ reserved' = reserved /\ inventories' = inventories /\ reused' = reused
    BY DEF Unstarted, Save
  <1>2. sent \in Seq(SUBSET Variant) /\ reserved \subseteq Variant /\ lapsed \subseteq Scanner
        /\ Rows(inventory) /\ Credited(inventory) /\ job \in DOMAIN JobSeq
    BY <1>1 DEF InventoryInv, InventoryTyped, LedgerHolds
  <1>3. ended \in [status : OutcomeStatus, attempt : 0..Len(sent)]
    BY <1>2 DEF OutcomeStatus
  <1> HIDE DEF ended
  <1>4. /\ outcome' \in [DOMAIN JobSeq -> [status : OutcomeStatus, attempt : 0..Len(sent)]]
        /\ job' \in 1..(Len(JobSeq) + 1) /\ phase' = "ready"
    BY <1>1, <1>2, <1>3, ConcludeTyped
  <1>5. lapsed' \subseteq Scanner
    BY <1>1, <1>2, JobScanner DEF CurrentJob
  <1>6. Credited(inventory)'
    BY <1>1, <1>2, <1>4 DEF Credited
  <1>7. DispatchIsConfined'
    BY <1>1, <1>4 DEF InventoryInv, DispatchIsConfined
  <1> QED
    BY <1>1, <1>2, <1>4, <1>5, <1>6, <1>7, NothingMarked, JobStepHolds

LEMMA ReuseHolds == InventoryInv /\ Reuse => InventoryInv'
  <1> SUFFICES ASSUME InventoryInv, Reuse PROVE InventoryInv'
    OBVIOUS
  <1> DEFINE ended == outcome[job]
  <1>1. /\ phase = "ready" /\ job \in DOMAIN JobSeq /\ Conclude(ended)
        /\ snapshot' = Redacted(inventory') /\ basis' = basis /\ sent' = sent
        /\ inventories' = inventories /\ lapsed' = lapsed /\ reused' = reused \cup {ended.attempt}
    BY DEF Reuse, Save
  <1>2. PICK granted \in Grants(CurrentJob) :
            /\ inventory' = Complete(DispatchTargets(CurrentJob, granted), CurrentJob, ended)
            /\ reserved' = reserved \cup granted
    BY DEF Reuse
  <1>3. sent \in Seq(SUBSET Variant) /\ lapsed \subseteq Scanner /\ Rows(inventory) /\ Credited(inventory)
    BY DEF InventoryInv, InventoryTyped, LedgerHolds
  <1>4. ended \in [status : OutcomeStatus, attempt : 0..Len(sent)]
    BY <1>1 DEF InventoryInv, InventoryTyped
  <1> HIDE DEF ended
  <1> DEFINE s == CurrentJob.scanner
             d == DispatchTargets(CurrentJob, granted)
  <1>5. /\ Rows(d) /\ SameButMarks(inventory, d, s)
        /\ \A id \in DOMAIN inventory :
             \/ d[id].coverage[s] = inventory[id].coverage[s]
             \/ d[id].coverage[s].status \in {"dispatched", "skipped"}
    BY <1>1, <1>3, TargetsMarked DEF CurrentJob
  <1>6. ended.attempt \in 0..Len(sent)
    BY <1>4
  <1>7. /\ Rows(inventory') /\ SameButMarks(d, inventory', s)
        /\ \A id \in DOMAIN d :
             /\ inventory'[id].coverage[s].status # "dispatched"
             /\ \/ inventory'[id].coverage[s] = d[id].coverage[s]
                \/ inventory'[id].coverage[s].attempt = ended.attempt
    BY <1>1, <1>2, <1>3, <1>5, <1>6, CompleteMarked DEF CurrentJob
  <1>8. /\ outcome' \in [DOMAIN JobSeq -> [status : OutcomeStatus, attempt : 0..Len(sent)]]
        /\ job' \in 1..(Len(JobSeq) + 1) /\ phase' = "ready"
    BY <1>1, <1>4, ConcludeTyped
  <1> HIDE DEF s, d
  <1>9. SameButMarks(inventory, inventory', s)
    BY <1>5, <1>7 DEF SameButMarks
  <1>10. Credited(inventory)'
    <2> SUFFICES ASSUME NEW id \in DOMAIN inventory', NEW z \in Scanner
                 PROVE  LET c == inventory'[id].coverage[z] IN
                        /\ c.status = "batch_completed" =>
                             \/ c.attempt \in reused' \/ z \in lapsed
                             \/ (c.attempt \in DOMAIN sent /\ id \in sent[c.attempt])
                        /\ c.status = "dispatched" => z \in lapsed
      BY <1>1 DEF Credited
    <2>1. id \in DOMAIN inventory /\ id \in DOMAIN d
      BY <1>5, <1>9 DEF SameButMarks
    <2>2. CASE z # s
      <3>1. inventory'[id].coverage[z] = inventory[id].coverage[z]
        BY <2>1, <2>2, <1>9 DEF SameButMarks
      <3> QED
        BY <3>1, <2>1, <1>1, <1>3 DEF Credited
    <2>3. CASE z = s
      <3>1. CASE inventory'[id].coverage[s].attempt = ended.attempt
        BY <3>1, <2>1, <2>3, <1>1, <1>7
      <3>2. CASE inventory'[id].coverage[s] = d[id].coverage[s]
        BY <3>2, <2>1, <2>3, <1>1, <1>3, <1>5, <1>7 DEF Credited
      <3> QED
        BY <3>1, <3>2, <2>1, <1>7
    <2> QED
      BY <2>2, <2>3
  <1>11. Cardinality(reserved') <= Cap /\ reserved' \subseteq Variant
    BY <1>2, GrantsAreHeld
  <1>12. DispatchIsConfined'
    BY <1>8, <1>11 DEF DispatchIsConfined
  <1> QED
    BY <1>1, <1>3, <1>7, <1>8, <1>9, <1>10, <1>11, <1>12, MarksKeepStates, JobStepHolds

LEMMA DispatchHolds == InventoryInv /\ Dispatch => InventoryInv'
  <1> SUFFICES ASSUME InventoryInv, Dispatch PROVE InventoryInv'
    OBVIOUS
  <1>1. /\ phase = "ready" /\ phase' = "dispatched" /\ job \in DOMAIN JobSeq /\ job' = job
        /\ outcome' = outcome /\ snapshot' = Redacted(inventory') /\ basis' = basis /\ sent' = sent
        /\ inventories' = inventories /\ reused' = reused /\ lapsed' = lapsed
    BY DEF Dispatch, Save
  <1>2. PICK granted \in Grants(CurrentJob) :
            /\ inventory' = Constrained(DispatchTargets(CurrentJob, granted), CurrentJob)
            /\ reserved' = reserved \cup granted
    BY DEF Dispatch
  <1>3. /\ sent \in Seq(SUBSET Variant) /\ lapsed \subseteq Scanner /\ Rows(inventory)
        /\ Credited(inventory) /\ Withheld(inventory) /\ job \in 1..(Len(JobSeq) + 1)
        /\ outcome \in [DOMAIN JobSeq -> [status : OutcomeStatus, attempt : 0..Len(sent)]]
    BY DEF InventoryInv, InventoryTyped, LedgerHolds, InventorySafe
  <1>4. /\ granted \subseteq Considered(CurrentJob) /\ Cardinality(reserved') <= Cap
        /\ reserved' \subseteq Variant /\ granted \subseteq reserved'
        /\ \A id \in granted : Eligible(inventory[id], id, CurrentJob)
    BY <1>2, GrantsAreHeld
  <1> DEFINE s == CurrentJob.scanner
             d == DispatchTargets(CurrentJob, granted)
  <1>5. /\ Rows(d) /\ SameButMarks(inventory, d, s)
        /\ \A id \in DOMAIN inventory :
            /\ id \notin Considered(CurrentJob) => d[id].coverage[s] = inventory[id].coverage[s]
            /\ id \in Considered(CurrentJob) /\ id \in granted => d[id].coverage[s].status = "dispatched"
            /\ id \in Considered(CurrentJob) /\ id \notin granted => d[id].coverage[s].status = "skipped"
    BY <1>1, <1>3, TargetsMarked DEF CurrentJob
  <1>6. /\ Rows(inventory') /\ SameButMarks(d, inventory', s)
        /\ \A id \in DOMAIN d :
            \/ /\ inventory'[id].coverage[s] = d[id].coverage[s]
               /\ \/ inventory'[id].coverage[s].status # "dispatched"
                  \/ CurrentJob.context # "" /\ Traits[id].context = CurrentJob.context => Traits[id].own
            \/ inventory'[id].coverage[s].status = "skipped"
    BY <1>1, <1>2, <1>3, <1>5, ConstrainedMarked DEF CurrentJob
  <1> HIDE DEF s, d
  <1>7. SameButMarks(inventory, inventory', s) /\ StatesKept(inventory, inventory')
    <2>1. SameButMarks(inventory, inventory', s)
      <3>1. SameButMarks(inventory, d, s) /\ SameButMarks(d, inventory', s)
        BY <1>5, <1>6
      <3> QED
        BY <3>1 DEF SameButMarks
    <2> QED
      BY <2>1, MarksKeepStates
  <1>8. \A id \in granted : /\ Traits[id].verdict = "in_scope" /\ ~Traits[id].static
                            /\ Dispatchable(inventory[id].state)
                            /\ Traits[id].context = CurrentJob.context
    BY <1>4 DEF Eligible, Considered
  <1>9. CurrentJob' = CurrentJob
    BY <1>1 DEF CurrentJob
  <1>10. Credited(inventory)'
    <2> SUFFICES ASSUME NEW id \in DOMAIN inventory', NEW z \in Scanner
                 PROVE  LET c == inventory'[id].coverage[z] IN
                        /\ c.status = "batch_completed" =>
                             \/ c.attempt \in reused \/ z \in lapsed
                             \/ (c.attempt \in DOMAIN sent /\ id \in sent[c.attempt])
                        /\ c.status = "dispatched" =>
                             \/ z \in lapsed
                             \/ z = CurrentJob.scanner /\ Traits[id].context = CurrentJob.context
      BY <1>1, <1>9 DEF Credited
    <2>1. id \in DOMAIN inventory /\ id \in DOMAIN d
      BY <1>5, <1>7 DEF SameButMarks
    <2>2. CASE z # s \/ inventory'[id].coverage[z] = inventory[id].coverage[z]
      <3>1. inventory'[id].coverage[z] = inventory[id].coverage[z]
        BY <2>1, <2>2, <1>7 DEF SameButMarks
      <3> QED
        BY <3>1, <2>1, <1>1, <1>3 DEF Credited
    <2>3. CASE z = s /\ inventory'[id].coverage[s].status = "skipped"
      BY <2>3
    <2>4. CASE z = s /\ inventory'[id].coverage[s] = d[id].coverage[s] /\ id \in Considered(CurrentJob)
      <3>1. CASE id \in granted
        BY <3>1, <2>1, <2>4, <1>5, <1>8 DEF s
      <3>2. CASE id \notin granted
        BY <3>2, <2>1, <2>4, <1>5
      <3> QED
        BY <3>1, <3>2
    <2> QED
      BY <2>1, <2>2, <2>3, <2>4, <1>5, <1>6
  <1>11. DispatchIsConfined'
    <2> SUFFICES ASSUME NEW id \in Manifest(inventory', CurrentJob)
                 PROVE  /\ Traits[id].verdict = "in_scope" /\ ~Traits[id].static
                        /\ CurrentJob.context # "" => Traits[id].own
                        /\ ~inventory'[id].redacted
                        /\ id \in reserved'
      BY <1>4, <1>9 DEF DispatchIsConfined, Manifest
    <2>1. /\ id \in DOMAIN inventory /\ id \in DOMAIN d
          /\ inventory'[id].coverage[s].status = "dispatched"
          /\ Traits[id].context = CurrentJob.context
      BY <1>5, <1>7 DEF Manifest, SameButMarks, s
    <2>2. id \in Considered(CurrentJob)
      BY <2>1 DEF Considered
    <2>3. /\ inventory'[id].coverage[s] = d[id].coverage[s]
          /\ CurrentJob.context # "" => Traits[id].own
      BY <2>1, <1>6
    <2>4. id \in granted
      BY <2>1, <2>2, <2>3, <1>5
    <2>5. ~inventory[id].redacted /\ inventory'[id].redacted = inventory[id].redacted
      BY <2>1, <2>4, <1>3, <1>7, <1>8 DEF Withheld, StatesKept
    <2>6. inventory[id].redacted \in BOOLEAN
      BY <2>1, <1>3 DEF Rows, Endpoint
    <2> QED
      BY <2>3, <2>4, <2>5, <2>6, <1>4, <1>8
  <1>12. outcome' \in [DOMAIN JobSeq -> [status : OutcomeStatus, attempt : 0..Len(sent)]]
         /\ lapsed' \subseteq Scanner
    BY <1>1, <1>3
  <1> QED
    BY <1>1, <1>3, <1>4, <1>6, <1>7, <1>10, <1>11, <1>12, JobStepHolds

LEMMA StartAttemptHolds == InventoryInv /\ StartAttempt => InventoryInv'
  <1> SUFFICES ASSUME InventoryInv, StartAttempt PROVE InventoryInv'
    OBVIOUS
  <1> DEFINE m == Manifest(inventory, CurrentJob)
  <1>1. /\ phase = "dispatched" /\ phase' = "running" /\ sent' = Append(sent, m)
        /\ inventory' = inventory /\ snapshot' = snapshot /\ basis' = basis /\ job' = job
        /\ outcome' = outcome /\ reserved' = reserved /\ inventories' = inventories
        /\ reused' = reused /\ lapsed' = lapsed
    BY DEF StartAttempt
  <1>2. /\ sent \in Seq(SUBSET Variant) /\ Rows(inventory) /\ Rows(snapshot)
        /\ Credited(inventory) /\ Credited(snapshot) /\ job \in DOMAIN JobSeq
        /\ outcome \in [DOMAIN JobSeq -> [status : OutcomeStatus, attempt : 0..Len(sent)]]
    BY <1>1 DEF InventoryInv, InventoryTyped, LedgerHolds
  <1>3. m \in SUBSET Variant
    BY <1>2 DEF Manifest, Rows
  <1>4. CurrentJob' = CurrentJob /\ m' = m
    BY <1>1 DEF CurrentJob, Manifest
  <1> HIDE DEF m
  <1>5. /\ sent' \in Seq(SUBSET Variant) /\ Len(sent') = Len(sent) + 1 /\ Len(sent) \in Nat
        /\ sent'[Len(sent')] = m /\ sent' # <<>>
        /\ \A a \in DOMAIN sent : a \in DOMAIN sent' /\ sent'[a] = sent[a]
    BY <1>1, <1>2, <1>3
  <1>6. 0..Len(sent) \subseteq 0..Len(sent')
    BY <1>5
  <1>7. ASSUME NEW ep \in Endpoint PROVE ep \in Endpoint'
    BY <1>6 DEF Endpoint
  <1>8. Rows(inventory)' /\ Rows(snapshot)'
    BY <1>1, <1>2, <1>7 DEF Rows
  <1>9. outcome' \in [DOMAIN JobSeq -> [status : OutcomeStatus, attempt : 0..Len(sent')]]
    BY <1>1, <1>2, <1>6
  <1>10. InventoryTyped'
    BY <1>1, <1>2, <1>5, <1>8, <1>9 DEF InventoryInv, InventoryTyped
  <1>11. InventorySafe'
    BY <1>1 DEF InventoryInv, InventorySafe, Withheld, Guarded, LiveIsFound
  <1>12. Credited(inventory)' /\ Credited(snapshot)'
    BY <1>1, <1>2, <1>4, <1>5 DEF Credited
  <1>13. Manifest(inventory, CurrentJob)' = m
    BY <1>4 DEF m
  <1>14. LedgerHolds'
    BY <1>5, <1>12, <1>13 DEF LedgerHolds
  <1>15. DispatchIsConfined'
    BY <1>1 DEF InventoryInv, DispatchIsConfined
  <1> QED
    BY <1>10, <1>11, <1>14, <1>15 DEF InventoryInv

LEMMA JudgeAttemptHolds == InventoryInv /\ JudgeAttempt => InventoryInv'
  <1> SUFFICES ASSUME InventoryInv, JudgeAttempt PROVE InventoryInv'
    OBVIOUS
  <1>1. PICK status \in {"completed", "cancelled"} :
            LET ended == [status |-> status, attempt |-> Len(sent)] IN
            inventory' = Complete(inventory, CurrentJob, ended) /\ Conclude(ended)
    BY DEF JudgeAttempt
  <1> DEFINE ended == [status |-> status, attempt |-> Len(sent)]
             s == CurrentJob.scanner
  <1>2. /\ phase = "running" /\ inventory' = Complete(inventory, CurrentJob, ended) /\ Conclude(ended)
        /\ snapshot' = Redacted(inventory') /\ basis' = basis /\ sent' = sent
        /\ reserved' = reserved /\ inventories' = inventories /\ reused' = reused /\ lapsed' = lapsed
    BY <1>1 DEF JudgeAttempt, Save
  <1>3. /\ sent \in Seq(SUBSET Variant) /\ reserved \subseteq Variant /\ lapsed \subseteq Scanner
        /\ Rows(inventory) /\ Credited(inventory) /\ job \in DOMAIN JobSeq
        /\ sent # <<>> /\ Manifest(inventory, CurrentJob) \subseteq sent[Len(sent)]
    BY <1>2 DEF InventoryInv, InventoryTyped, LedgerHolds
  <1>4. Len(sent) \in Nat /\ Len(sent) \in DOMAIN sent
    BY <1>3
  <1>5. ended \in [status : OutcomeStatus, attempt : 0..Len(sent)] /\ ended.attempt = Len(sent)
    BY <1>4 DEF OutcomeStatus
  <1> HIDE DEF ended
  <1>6. /\ Rows(inventory') /\ SameButMarks(inventory, inventory', s)
        /\ \A id \in DOMAIN inventory :
            /\ inventory'[id].coverage[s].status # "dispatched"
            /\ \/ inventory'[id].coverage[s] = inventory[id].coverage[s]
               \/ /\ inventory[id].coverage[s].status = "dispatched"
                  /\ inventory'[id].coverage[s].attempt = ended.attempt
    BY <1>2, <1>3, <1>4, <1>5, CompleteMarked DEF CurrentJob
  <1>7. /\ outcome' \in [DOMAIN JobSeq -> [status : OutcomeStatus, attempt : 0..Len(sent)]]
        /\ job' \in 1..(Len(JobSeq) + 1) /\ phase' = "ready"
    BY <1>2, <1>3, <1>5, ConcludeTyped
  <1>8. s \in Scanner
    BY <1>3, JobScanner DEF CurrentJob
  <1>9. \A id \in DOMAIN inventory : inventory[id].coverage[s].status = "dispatched" =>
            s \in lapsed \/ id \in sent[Len(sent)]
    <2> SUFFICES ASSUME NEW id \in DOMAIN inventory,
                        inventory[id].coverage[s].status = "dispatched", s \notin lapsed
                 PROVE  id \in sent[Len(sent)]
      OBVIOUS
    <2>1. Traits[id].context = CurrentJob.context
      BY <1>3, <1>8 DEF Credited
    <2> QED
      BY <2>1, <1>3 DEF Manifest, s
  <1> HIDE DEF s
  <1>10. Credited(inventory)'
    <2> SUFFICES ASSUME NEW id \in DOMAIN inventory', NEW z \in Scanner
                 PROVE  LET c == inventory'[id].coverage[z] IN
                        /\ c.status = "batch_completed" =>
                             \/ c.attempt \in reused \/ z \in lapsed
                             \/ (c.attempt \in DOMAIN sent /\ id \in sent[c.attempt])
                        /\ c.status = "dispatched" => z \in lapsed
      BY <1>2 DEF Credited
    <2>1. id \in DOMAIN inventory
      BY <1>6 DEF SameButMarks
    <2>2. CASE z # s
      <3>1. inventory'[id].coverage[z] = inventory[id].coverage[z]
        BY <2>1, <2>2, <1>6 DEF SameButMarks
      <3>2. inventory[id].coverage[z].status = "dispatched" => z \in lapsed
        BY <2>1, <2>2, <1>3 DEF Credited, s
      <3> QED
        BY <3>1, <3>2, <2>1, <1>3 DEF Credited
    <2>3. CASE z = s /\ inventory'[id].coverage[s] = inventory[id].coverage[s]
      BY <2>1, <2>3, <1>3, <1>6 DEF Credited
    <2>4. CASE /\ z = s /\ inventory[id].coverage[s].status = "dispatched"
               /\ inventory'[id].coverage[s].attempt = ended.attempt
      BY <2>1, <2>4, <1>4, <1>5, <1>6, <1>9
    <2> QED
      BY <2>1, <2>2, <2>3, <2>4, <1>6
  <1>11. DispatchIsConfined'
    BY <1>2, <1>7 DEF InventoryInv, DispatchIsConfined
  <1> QED
    BY <1>2, <1>3, <1>6, <1>7, <1>10, <1>11, MarksKeepStates, JobStepHolds

LEMMA EndSessionHolds == InventoryInv /\ EndSession => InventoryInv'
  <1> SUFFICES ASSUME InventoryInv, EndSession PROVE InventoryInv'
    OBVIOUS
  <1>1. /\ phase # "idle" /\ phase' = "idle" /\ inventory' = Empty /\ job' = 1 /\ basis' = None
        /\ reserved' = {} /\ snapshot' = snapshot /\ outcome' = outcome /\ sent' = sent
        /\ inventories' = inventories /\ reused' = reused
        /\ lapsed' = IF phase \in {"dispatched", "running"}
                     THEN lapsed \cup {CurrentJob.scanner} ELSE lapsed
    BY DEF EndSession
  <1>2. DOMAIN Empty = {}
    BY DEF Empty
  <1>3. Rows(inventory)' /\ Rows(snapshot)'
    BY <1>1, <1>2 DEF Rows, Endpoint, InventoryInv, InventoryTyped
  <1>4. lapsed' \subseteq Scanner
    BY <1>1, JobScanner DEF CurrentJob, InventoryInv, InventoryTyped
  <1>5. job' \in 1..(Len(JobSeq) + 1)
    BY <1>1, InventoryAssumption
  <1>6. InventoryTyped'
    BY <1>1, <1>3, <1>4, <1>5 DEF InventoryInv, InventoryTyped
  <1>7. InventorySafe'
    BY <1>1, <1>2 DEF InventoryInv, InventorySafe, Withheld, Guarded, LiveIsFound, None
  <1>8. Credited(inventory)'
    BY <1>1, <1>2 DEF Credited
  <1>9. Credited(snapshot)'
    BY <1>1 DEF InventoryInv, LedgerHolds, Credited
  <1>10. LedgerHolds'
    BY <1>1, <1>8, <1>9 DEF LedgerHolds
  <1>11. DispatchIsConfined'
    <2>1. Cardinality({}) = 0
      BY FS_EmptySet
    <2> QED
      BY <2>1, <1>1, InventoryAssumption DEF DispatchIsConfined
  <1> QED
    BY <1>6, <1>7, <1>10, <1>11 DEF InventoryInv

LEMMA InventoryKept == InventoryInv /\ UNCHANGED inventoryVars => InventoryInv'
  <1> SUFFICES ASSUME InventoryInv, UNCHANGED inventoryVars PROVE InventoryInv'
    OBVIOUS
  <1>1. /\ inventory' = inventory /\ snapshot' = snapshot /\ basis' = basis /\ phase' = phase
        /\ job' = job /\ outcome' = outcome /\ sent' = sent /\ reserved' = reserved
        /\ inventories' = inventories /\ reused' = reused /\ lapsed' = lapsed
    BY DEF inventoryVars
  <1>2. Endpoint' = Endpoint /\ CurrentJob' = CurrentJob
    BY <1>1 DEF Endpoint, CurrentJob
  <1>3. InventoryTyped'
    BY <1>1, <1>2 DEF InventoryInv, InventoryTyped, Rows
  <1>4. InventorySafe'
    BY <1>1 DEF InventoryInv, InventorySafe, Withheld, Guarded, LiveIsFound
  <1>5. LedgerHolds'
    BY <1>1, <1>2 DEF InventoryInv, LedgerHolds, Credited, Manifest
  <1>6. DispatchIsConfined'
    BY <1>1, <1>2 DEF InventoryInv, DispatchIsConfined, Manifest
  <1> QED
    BY <1>3, <1>4, <1>5, <1>6 DEF InventoryInv

\* The inventory, its snapshot and the ledger keep the invariant through every session and job.
THEOREM InventoryHolds == InventorySpec => []InventoryInv
  <1>1. InventoryInv /\ [InventoryNext]_inventoryVars => InventoryInv'
    BY PrepareHolds, BlockHolds, ReuseHolds, DispatchHolds, UnstartedHolds, StartAttemptHolds,
       JudgeAttemptHolds, EndSessionHolds, InventoryKept DEF InventoryNext
  <1> QED
    BY <1>1, InventoryStarts, PTL DEF InventorySpec

\* What a job is sent lies inside the approved scope, in its own identity's requests and the budget,
\* and what the ledger credits to a completed run was sent to it, but for the outcomes that a later
\* session or an unfinished dispatch took over (attack_surface.go, pipeline.go).
THEOREM DispatchIsHonestHolds == InventorySpec => []DispatchIsHonest
  <1>1. InventoryInv => DispatchIsHonest
    <2> SUFFICES ASSUME InventoryInv PROVE EarnedUnlessTakenOver
      BY DEF InventoryInv, DispatchIsHonest
    <2> QED
      BY DEF InventoryInv, LedgerHolds, Credited, EarnedUnlessTakenOver, Unearned
  <1> QED
    BY <1>1, InventoryHolds, PTL

\* What a job leaves of the session.
LEMMA JobsKeepStates ==
    ASSUME InventoryInv, Block \/ Reuse \/ Dispatch \/ Unstarted \/ StartAttempt \/ JudgeAttempt
    PROVE  /\ StatesKept(inventory, inventory') /\ basis' = basis
           /\ phase # "idle" /\ phase' # "idle"
  <1>1. CASE Block \/ Unstarted \/ StartAttempt
    BY <1>1, NothingMarked DEF Block, Unstarted, StartAttempt, Conclude
  <1>2. /\ sent \in Seq(SUBSET Variant) /\ Rows(inventory) /\ Len(sent) \in Nat
        /\ phase \in {"dispatched", "running"} => job \in DOMAIN JobSeq
    BY DEF InventoryInv, InventoryTyped
  <1>3. CASE Reuse
    <2>1. PICK granted \in Grants(CurrentJob) :
              inventory' = Complete(DispatchTargets(CurrentJob, granted), CurrentJob, outcome[job])
      BY <1>3 DEF Reuse
    <2> DEFINE d == DispatchTargets(CurrentJob, granted)
    <2>2. job \in DOMAIN JobSeq /\ outcome[job].attempt \in 0..Len(sent)
      BY <1>3 DEF Reuse, InventoryInv, InventoryTyped
    <2>3. Rows(d) /\ StatesKept(inventory, d)
      BY <1>2, <2>2, TargetsMarked, MarksKeepStates DEF CurrentJob
    <2>4. StatesKept(d, inventory')
      BY <1>2, <2>1, <2>2, <2>3, CompleteMarked, MarksKeepStates DEF CurrentJob
    <2> HIDE DEF d
    <2>5. StatesKept(inventory, inventory')
      BY <2>3, <2>4 DEF StatesKept
    <2> QED
      BY <2>5, <1>3 DEF Reuse, Conclude
  <1>4. CASE Dispatch
    <2>1. PICK granted \in Grants(CurrentJob) :
              inventory' = Constrained(DispatchTargets(CurrentJob, granted), CurrentJob)
      BY <1>4 DEF Dispatch
    <2> DEFINE d == DispatchTargets(CurrentJob, granted)
    <2>2. job \in DOMAIN JobSeq
      BY <1>4 DEF Dispatch
    <2>3. Rows(d) /\ StatesKept(inventory, d)
      BY <1>2, <2>2, TargetsMarked, MarksKeepStates DEF CurrentJob
    <2>4. StatesKept(d, inventory')
      BY <1>2, <2>1, <2>2, <2>3, ConstrainedMarked, MarksKeepStates DEF CurrentJob
    <2> HIDE DEF d
    <2>5. StatesKept(inventory, inventory')
      BY <2>3, <2>4 DEF StatesKept
    <2> QED
      BY <2>5, <1>4 DEF Dispatch
  <1>5. CASE JudgeAttempt
    <2>1. PICK status \in {"completed", "cancelled"} :
              inventory' = Complete(inventory, CurrentJob, [status |-> status, attempt |-> Len(sent)])
      BY <1>5 DEF JudgeAttempt
    <2>2. job \in DOMAIN JobSeq /\ phase = "running"
      BY <1>2, <1>5 DEF JudgeAttempt
    <2> DEFINE ended == [status |-> status, attempt |-> Len(sent)]
    <2>3. ended.attempt \in 0..Len(sent) /\ inventory' = Complete(inventory, CurrentJob, ended)
      BY <1>2, <2>1
    <2> HIDE DEF ended
    <2>4. StatesKept(inventory, inventory')
      BY <1>2, <2>2, <2>3, CompleteMarked, MarksKeepStates DEF CurrentJob
    <2> QED
      BY <2>2, <2>4, <1>5 DEF JudgeAttempt, Conclude
  <1> QED
    BY <1>1, <1>3, <1>4, <1>5

\* Of what a session takes over or discovers, a refusal stays that no replay lifts, and an archive
\* refuses nothing that another source of the session has found; and jobs change no permission
\* (attack_surface.go: mergeEndpoint, mergeDiscoveryEndpoints).
THEOREM RefusalsStay == InventorySpec => RefusalIsKept
  <1> DEFINE StaysRefused ==
        /\ basis' = "snapshot" =>
            RefusedIn(IF phase = "idle" THEN snapshot ELSE inventory) \ ReplayIn(inventory')
                \subseteq RefusedIn(inventory')
        /\ (phase # "idle" /\ phase' # "idle") => RefusedIn(inventory) = RefusedIn(inventory')
        /\ \A id \in DOMAIN inventory' :
            inventory'[id].live /\ inventory'[id].state \in Unverified =>
                basis' = "snapshot" /\ id \in RefusedIn(snapshot)
  <1>1. ASSUME InventoryInv, Prepare PROVE StaysRefused
    <2>1. phase = "idle" /\ sent \in Seq(SUBSET Variant) /\ Rows(snapshot)
      BY <1>1 DEF Prepare, InventoryInv, InventoryTyped
    <2>2. PICK native \in Browser, extra \in Supplement, archived \in Archive, store \in Store :
            \/ /\ basis' = "snapshot"
               /\ inventory' = Built(snapshot, {}, native, extra, archived, store)
            \/ \E found \in Crawl :
               /\ basis' = "crawl"
               /\ inventory' = Built(Empty, found, native, extra, archived, store)
      BY <1>1 DEF Prepare
    <2>3. CASE basis' = "snapshot" /\ inventory' = Built(snapshot, {}, native, extra, archived, store)
      <3>1. NoCandidates(snapshot, RefusedIn(snapshot))
        BY DEF NoCandidates, RefusedIn, Unverified, Dispatchable
      <3>2. Grown(snapshot, inventory') /\ LiveIsFound(inventory', RefusedIn(snapshot))
        BY <2>1, <2>3, <3>1, BuiltGrows
      <3>3. RefusedIn(snapshot) \ ReplayIn(inventory') \subseteq RefusedIn(inventory')
        BY <3>2 DEF Grown, RefusedIn, ReplayIn
      <3> QED
        BY <2>1, <2>3, <3>2, <3>3 DEF LiveIsFound
    <2>4. ASSUME NEW found \in Crawl, basis' = "crawl",
                 inventory' = Built(Empty, found, native, extra, archived, store)
          PROVE  StaysRefused
      <3>1. Rows(Empty) /\ NoCandidates(Empty, {})
        BY DEF Rows, NoCandidates, Empty
      <3>2. LiveIsFound(inventory', {})
        BY <2>1, <2>4, <3>1, BuiltGrows
      <3> QED
        BY <2>1, <2>4, <3>2 DEF LiveIsFound
    <2> QED
      BY <2>2, <2>3, <2>4
  <1>2. ASSUME InventoryInv, Block \/ Reuse \/ Dispatch \/ Unstarted \/ StartAttempt \/ JudgeAttempt
        PROVE  StaysRefused
    <2>1. /\ StatesKept(inventory, inventory') /\ basis' = basis
          /\ phase # "idle" /\ phase' # "idle"
      BY <1>2, JobsKeepStates
    <2>2. RefusedIn(inventory) = RefusedIn(inventory')
      BY <2>1, StatesKeep
    <2>3. ASSUME NEW id \in DOMAIN inventory',
                 inventory'[id].live /\ inventory'[id].state \in Unverified
          PROVE  basis' = "snapshot" /\ id \in RefusedIn(snapshot)
      <3>1. id \in DOMAIN inventory /\ inventory[id].live /\ inventory[id].state \in Unverified
        BY <2>1, <2>3 DEF StatesKept
      <3>2. basis' = "snapshot"
        BY <1>2, <2>1, <3>1 DEF InventoryInv, InventoryTyped, InventorySafe, LiveIsFound
      <3>3. /\ snapshot = Redacted(inventory) /\ Rows(inventory)
            /\ \A i \in DOMAIN inventory : inventory[i].redacted => ~Dispatchable(inventory[i].state)
        BY <1>2, <2>1 DEF InventoryInv, InventoryTyped, InventorySafe, Withheld
      <3>4. ~Dispatchable(inventory[id].state)
        BY <3>1 DEF Unverified, Dispatchable
      <3>5. id \in RefusedIn(snapshot)
        BY <3>1, <3>3, <3>4, RedactedKeeps DEF RefusedIn
      <3> QED
        BY <3>2, <3>5
    <2> QED
      BY <2>1, <2>2, <2>3
  <1>3. ASSUME EndSession PROVE StaysRefused
    BY <1>3 DEF EndSession, Empty, None
  <1>4. InventoryInv /\ [InventoryNext]_inventoryVars => [StaysRefused]_inventoryVars
    BY <1>1, <1>2, <1>3 DEF InventoryNext
  <1> HIDE DEF StaysRefused
  <1>5. InventorySpec => [][StaysRefused]_inventoryVars
    BY <1>4, InventoryHolds, PTL DEF InventorySpec
  <1> QED
    BY <1>5 DEF RefusalIsKept, StaysRefused
===============================================================================
