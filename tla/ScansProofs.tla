------------------------------ MODULE ScansProofs ------------------------------
(***************************************************************************)
(* Proofs about what starts scans and about what scans keep of their       *)
(* progress.                                                               *)
(*                                                                         *)
(* Scheduled scans: a mark "needs review" is deserved and a one-time       *)
(* schedule is launched once per arming, for any schedules and requests.   *)
(* What the proof rests on is that every copy of a schedule and of its     *)
(* fingerprint (files, snapshots, what a review or a request has read) is  *)
(* no newer than the plans, which only move on.                            *)
(*                                                                         *)
(* Scans in progress: the queue of a wildcard scan counts no host without  *)
(* a session, because the file, the Resume fields and the run only ever    *)
(* count what a returned session has counted; a task that runs in          *)
(* Greenbone is the one the run is about to stop, or its start was never   *)
(* answered; and no scanner of the pipeline runs twice, because what has   *)
(* run is terminal in every record and its host is in every list of hosts  *)
(* that a later session may take over.                                     *)
(***************************************************************************)
EXTENDS Scheduler, ScanProgress, FiniteSetTheorems, TLAPS

Fingerprint == 0 .. MaxWorld
FingerprintOrAbsent == Fingerprint \union {Absent}
Item == [s : Schedule, fp : Fingerprint]

ValuesTyped ==
    /\ clock \in [now : Time, starts : Int, requests : Int] /\ world \in Fingerprint
    /\ object \in [Schedule -> ScanSchedule \union {Absent}]
    /\ disk \in [Schedule -> ScanSchedule \union {Absent}]
    /\ listed \subseteq {s \in Schedule : object[s] # Absent}
    /\ launches \in [Schedule -> Nat]

\* What the goroutine keeps at each of its steps.
LoopTyped ==
    /\ loop.pc \in {"boot", "refresh", "mark", "markSave", "tick", "tickSave"}
    /\ loop.pc \in {"refresh", "mark", "markSave"} => loop.todo \subseteq Item
    /\ loop.pc = "mark" => loop.item \in Item /\ loop.stale \in BOOLEAN
    /\ loop.pc \in {"markSave", "tickSave"} => loop.s \in Schedule
    /\ loop.pc = "markSave" => loop.snap \in ScanSchedule

\* What a request keeps at each of its steps.
RequestRecord ==
    [pc : {"idle"}]
    \union [pc : {"put"}, s : Schedule, body : PutBody, fp : Fingerprint]
    \union [pc : {"check", "refuse", "launch"}, s : Schedule, fp : FingerprintOrAbsent]
    \union [pc : {"save"}, s : Schedule, snap : ScanSchedule]
    \union [pc : {"remove"}, s : Schedule]

RequestTyped ==
    /\ request \in [Handler -> RequestRecord]
    /\ \A h \in Handler : request[h].pc \in {"put", "check", "refuse", "launch"} =>
           object[request[h].s] # Absent

Typed == ValuesTyped /\ LoopTyped /\ RequestTyped

\* A fingerprint is that of a plan that was built, and a mark means that the plan has changed.
Deserved(sch) ==
    /\ sch.fp # Absent => sch.fp <= world
    /\ sch.review => sch.fp # Absent /\ sch.fp < world

SavedInv ==
    \A s \in Schedule :
        /\ object[s] # Absent => Deserved(object[s])
        /\ disk[s] # Absent => Deserved(disk[s])

LoopInv ==
    /\ loop.pc \in {"refresh", "mark", "markSave"} => \A x \in loop.todo : x.fp <= world
    /\ loop.pc = "mark" /\ loop.stale => loop.item.fp < world
    /\ loop.pc = "markSave" => Deserved(loop.snap)

RequestInv ==
    \A h \in Handler :
        /\ request[h].pc = "put" => request[h].fp <= world
        /\ request[h].pc = "check" /\ request[h].fp # Absent => request[h].fp <= world
        /\ request[h].pc = "refuse" => request[h].fp # Absent /\ request[h].fp < world
        /\ request[h].pc = "save" => Deserved(request[h].snap)

\* A one-time schedule that is armed has not been launched.
ArmedInv ==
    \A s \in Schedule :
        /\ object[s] = Absent => launches[s] = 0
        /\ object[s] # Absent /\ object[s].interval = "once" =>
               launches[s] <= 1 /\ (object[s].enabled => launches[s] = 0)

ScheduleInv == Typed /\ SavedInv /\ LoopInv /\ RequestInv /\ ArmedInv

-----------------------------------------------------------------------------
(* What is read and written has its type.                                   *)

LEMMA NumberFacts ==
    /\ Fingerprint \subseteq Nat /\ Time \subseteq Nat /\ 0 \in Fingerprint
    /\ \A n \in Time : n + 1 \in Instants
    /\ Time \subseteq Instants /\ Far \in Instants /\ Absent \notin Fingerprint
    /\ FingerprintOrAbsent = Fingerprint \union {Absent}
BY SchedulerAssumption DEF Fingerprint, Time, Instants, Far, FingerprintOrAbsent

LEMMA RequestFacts ==
    /\ \A r \in RequestRecord :
           /\ r.pc \in {"idle", "put", "check", "refuse", "launch", "save", "remove"}
           /\ r.pc # "idle" => r.s \in Schedule
           /\ r.pc = "put" => r.body \in PutBody /\ r.fp \in Fingerprint
           /\ r.pc \in {"check", "refuse", "launch"} => r.fp \in FingerprintOrAbsent
           /\ r.pc = "save" => r.snap \in ScanSchedule
    /\ Idle \in RequestRecord /\ Idle.pc = "idle"
    /\ \A s \in Schedule, body \in PutBody, fp \in Fingerprint :
           [pc |-> "put", s |-> s, body |-> body, fp |-> fp] \in RequestRecord
    /\ \A s \in Schedule, fp \in FingerprintOrAbsent, pc \in {"check", "refuse", "launch"} :
           [pc |-> pc, s |-> s, fp |-> fp] \in RequestRecord
    /\ \A s \in Schedule, snap \in ScanSchedule :
           [pc |-> "save", s |-> s, snap |-> snap] \in RequestRecord
    /\ \A s \in Schedule : [pc |-> "remove", s |-> s] \in RequestRecord
BY DEF RequestRecord, Idle

\* Where a schedule goes next, and what it becomes.
LEMMA NextRunType ==
  ASSUME NEW sch \in ScanSchedule, NEW now \in Time
  PROVE  CalculateNextRun(sch, now) \in Instants
BY NumberFacts, SchedulerAssumption DEF CalculateNextRun, ScanSchedule

LEMMA ConsumedType ==
  ASSUME NEW sch \in ScanSchedule, clock.now \in Time
  PROVE  /\ Consumed(sch) \in ScanSchedule /\ Consumed(sch).fp = sch.fp
         /\ Consumed(sch).review = sch.review /\ Consumed(sch).interval = sch.interval
         /\ sch.interval = "once" => ~ Consumed(sch).enabled
BY NextRunType DEF Consumed, ScanSchedule

LEMMA EditedType ==
  ASSUME NEW sch \in ScanSchedule, NEW body \in PutBody, NEW fp \in Fingerprint, clock.now \in Time
  PROVE  /\ Edited(sch, body, fp) \in ScanSchedule
         /\ Edited(sch, body, fp).interval = body.interval
         /\ Edited(sch, body, fp).enabled = body.enabled
         /\ Edited(sch, body, fp).fp = (IF body.reviewed THEN fp ELSE sch.fp)
         /\ Edited(sch, body, fp).review => sch.review /\ ~ body.reviewed
<1> DEFINE new == [sch EXCEPT !.interval = body.interval,
                              !.enabled = body.enabled,
                              !.fp = IF body.reviewed THEN fp ELSE @,
                              !.review = IF body.reviewed THEN FALSE ELSE @]
<1>1. new \in ScanSchedule
  BY NumberFacts DEF ScanSchedule, PutBody, Fingerprint
<1>2. CalculateNextRun(new, clock.now) \in Instants
  BY <1>1, NextRunType
<1>3. Edited(sch, body, fp) = new \/ Edited(sch, body, fp) = [new EXCEPT !.next = CalculateNextRun(new, clock.now)]
  BY DEF Edited
<1>4. new.interval = body.interval /\ new.enabled = body.enabled
      /\ new.fp = (IF body.reviewed THEN fp ELSE sch.fp)
      /\ (new.review => sch.review /\ ~ body.reviewed)
  BY DEF ScanSchedule, PutBody
<1> HIDE DEF new
<1> QED
  BY <1>1, <1>2, <1>3, <1>4 DEF ScanSchedule

LEMMA LoadedType ==
  ASSUME NEW sch \in ScanSchedule
  PROVE  /\ Loaded(sch) \in ScanSchedule /\ Loaded(sch).fp = sch.fp
         /\ Loaded(sch).review => sch.review
BY DEF Loaded, ScanSchedule

LEMMA InitHolds == ScheduleInit => ScheduleInv
<1> SUFFICES ASSUME NEW files \in [Schedule -> {Absent, Saved("once"), Saved("daily")}],
                    StartFrom(files)
             PROVE  ScheduleInv
  BY DEF ScheduleInit
<1>1. \A i \in Intervals : Saved(i) \in ScanSchedule /\ Saved(i).fp = 0 /\ ~ Saved(i).review
  <2> TAKE i \in Intervals
  <2>1. 1 \in Instants /\ 0 \in 0 .. MaxWorld
    BY SchedulerAssumption DEF Instants, Time
  <2> QED
    BY <2>1 DEF Saved, ScanSchedule, Intervals
<1>2. \A s \in Schedule : files[s] # Absent =>
          files[s] \in ScanSchedule /\ files[s].fp = 0 /\ ~ files[s].review
  <2> SUFFICES ASSUME NEW s \in Schedule, files[s] # Absent
               PROVE  \E i \in Intervals : files[s] = Saved(i)
    BY <1>1, Zenon
  <2> QED
    BY DEF Intervals
<1> USE NumberFacts, SchedulerAssumption
<1>3. ValuesTyped
  <2>1. object \in [Schedule -> ScanSchedule \union {Absent}] /\ disk = object
    BY <1>2 DEF StartFrom
  <2>2. clock \in [now : Time, starts : Int, requests : Int] /\ world \in Fingerprint
    BY DEF StartFrom, Time
  <2>3. listed \subseteq {s \in Schedule : object[s] # Absent} /\ launches \in [Schedule -> Nat]
    BY DEF StartFrom
  <2> QED
    BY <2>1, <2>2, <2>3 DEF ValuesTyped
<1>4. LoopTyped /\ LoopInv
  BY DEF StartFrom, LoopTyped, LoopInv
<1>5. RequestTyped /\ RequestInv
  BY RequestFacts DEF StartFrom, RequestTyped, RequestInv
<1>6. SavedInv
  BY <1>2 DEF StartFrom, SavedInv, Deserved
<1>7. ArmedInv
  BY DEF StartFrom, ArmedInv
<1> QED
  BY <1>3, <1>4, <1>5, <1>6, <1>7 DEF ScheduleInv, Typed

-----------------------------------------------------------------------------
(* The clock, the plans and the start.                                      *)


LEMMA PassKeeps ==
  ASSUME ScheduleInv, Pass
  PROVE  ScheduleInv'
<1> USE NumberFacts, SchedulerAssumption DEF ScheduleInv, Typed
<1>0. TRUE
  OBVIOUS
<1>1. ValuesTyped'
  BY DEF Pass, ValuesTyped, Time
<1>2. LoopTyped'
  BY <1>0 DEF Pass, LoopTyped, ValuesTyped
<1>3. RequestTyped'
  BY <1>0, RequestFacts DEF Pass, RequestTyped, ValuesTyped
<1>4. SavedInv'
  BY <1>0 DEF Pass, SavedInv, Deserved, ValuesTyped
<1>5. LoopInv'
  BY <1>0 DEF Pass, LoopInv, SavedInv, Deserved, LoopTyped, ValuesTyped, Item
<1>6. RequestInv'
  BY <1>0, RequestFacts DEF Pass, RequestInv, SavedInv, Deserved, RequestTyped, ValuesTyped
<1>7. ArmedInv'
  BY <1>0 DEF Pass, ArmedInv, ValuesTyped
<1> QED
  BY <1>1, <1>2, <1>3, <1>4, <1>5, <1>6, <1>7

LEMMA PlansChangeKeeps ==
  ASSUME ScheduleInv, PlansChange
  PROVE  ScheduleInv'
<1> USE NumberFacts, SchedulerAssumption DEF ScheduleInv, Typed
<1>0. world \in Nat /\ world' = world + 1 /\ world' \in Fingerprint
  BY DEF PlansChange, ValuesTyped, Fingerprint
<1>1. ValuesTyped'
  BY <1>0 DEF PlansChange, ValuesTyped
<1>2. LoopTyped'
  BY <1>0 DEF PlansChange, LoopTyped, ValuesTyped
<1>3. RequestTyped'
  BY <1>0, RequestFacts DEF PlansChange, RequestTyped, ValuesTyped
<1>4. SavedInv'
  <2>1. \A sch \in ScanSchedule : Deserved(sch) => Deserved(sch)'
    BY <1>0 DEF Deserved, ScanSchedule, Fingerprint
  <2> QED
    BY <2>1 DEF PlansChange, SavedInv, ValuesTyped
<1>5. LoopInv'
  <2>1. \A sch \in ScanSchedule : Deserved(sch) => Deserved(sch)'
    BY <1>0 DEF Deserved, ScanSchedule, Fingerprint
  <2> QED
    BY <1>0, <2>1 DEF PlansChange, LoopInv, LoopTyped, Item, Fingerprint
<1>6. RequestInv'
  <2>1. \A sch \in ScanSchedule : Deserved(sch) => Deserved(sch)'
    BY <1>0 DEF Deserved, ScanSchedule, Fingerprint
  <2> QED
    BY <1>0, <2>1, RequestFacts DEF PlansChange, RequestInv, RequestTyped, Fingerprint
<1>7. ArmedInv'
  BY <1>0 DEF PlansChange, ArmedInv, ValuesTyped
<1> QED
  BY <1>1, <1>2, <1>3, <1>4, <1>5, <1>6, <1>7

LEMMA RestartKeeps ==
  ASSUME ScheduleInv, Restart
  PROVE  ScheduleInv'
<1> USE NumberFacts, SchedulerAssumption DEF ScheduleInv, Typed
<1>0. \A s \in Schedule :
          /\ disk[s] # Absent => Loaded(disk[s]) \in ScanSchedule /\ Loaded(disk[s]).fp = disk[s].fp
                                  /\ (Loaded(disk[s]).review => disk[s].review)
          /\ object'[s] = IF disk[s] # Absent THEN Loaded(disk[s]) ELSE object[s]
  BY LoadedType DEF Restart, ValuesTyped
<1>1. ValuesTyped'
  BY <1>0 DEF Restart, ValuesTyped
<1>2. LoopTyped'
  BY <1>0 DEF Restart, LoopTyped, ValuesTyped
<1>3. RequestTyped'
  BY <1>0, RequestFacts DEF Restart, RequestTyped, ValuesTyped
<1>4. SavedInv'
  BY <1>0 DEF Restart, SavedInv, Deserved, ValuesTyped
<1>5. LoopInv'
  BY <1>0 DEF Restart, LoopInv, SavedInv, Deserved, LoopTyped, ValuesTyped, Item
<1>6. RequestInv'
  BY <1>0, RequestFacts DEF Restart, RequestInv, SavedInv, Deserved, RequestTyped, ValuesTyped
<1>7. ArmedInv'
  BY <1>0 DEF Restart, ArmedInv, ValuesTyped
<1> QED
  BY <1>1, <1>2, <1>3, <1>4, <1>5, <1>6, <1>7

\* Replacing a schedule in memory by another state of it.
LEMMA Replaced ==
  ASSUME Typed, SavedInv, ArmedInv, NEW s \in Schedule, NEW new \in ScanSchedule,
         object[s] # Absent, object' = [object EXCEPT ![s] = new],
         UNCHANGED <<world, disk, listed>>
  PROVE  /\ object' \in [Schedule -> ScanSchedule \union {Absent}] /\ object'[s] = new
         /\ listed' \subseteq {x \in Schedule : object'[x] # Absent}
         /\ \A x \in Schedule : object[x] # Absent => object'[x] # Absent
         /\ Deserved(new) => SavedInv'
         /\ UNCHANGED launches /\ new.interval = object[s].interval
              /\ (new.enabled => object[s].enabled) => ArmedInv'
<1> USE SchedulerAssumption DEF Typed, ValuesTyped
<1>1. object' \in [Schedule -> ScanSchedule \union {Absent}] /\ object'[s] = new
      /\ \A x \in Schedule : x # s => object'[x] = object[x]
  OBVIOUS
<1>2. new # Absent
  OBVIOUS
<1>3. \A x \in Schedule : object[x] # Absent => object'[x] # Absent
  BY <1>1, <1>2
<1>4. listed' \subseteq {x \in Schedule : object'[x] # Absent}
  BY <1>3
<1>5. Deserved(new) => SavedInv'
  BY <1>1, <1>2 DEF SavedInv, Deserved
<1>6. UNCHANGED launches /\ new.interval = object[s].interval
        /\ (new.enabled => object[s].enabled) => ArmedInv'
  BY <1>1, <1>2 DEF ArmedInv
<1> QED
  BY <1>1, <1>3, <1>4, <1>5, <1>6

\* The goroutine leaves the requests alone, whatever it replaces.
LEMMA RequestsKept ==
  ASSUME RequestTyped, RequestInv, UNCHANGED <<request, world>>,
         \A x \in Schedule : object[x] # Absent => object'[x] # Absent
  PROVE  RequestTyped' /\ RequestInv'
BY RequestFacts DEF RequestTyped, RequestInv, Deserved

-----------------------------------------------------------------------------
(* The goroutine of the scheduler.                                          *)


LEMMA ListTypedKeeps ==
  ASSUME ScheduleInv, ListTyped
  PROVE  ScheduleInv'
<1> USE NumberFacts, SchedulerAssumption DEF ScheduleInv, Typed
<1>0. TRUE
  OBVIOUS
<1>1. ValuesTyped'
  BY <1>0 DEF ListTyped, LoopOnly, ValuesTyped
<1>2. LoopTyped'
  BY DEF ListTyped, LoopTyped, ValuesTyped, ScanSchedule, Item, Fingerprint
<1>3. RequestTyped'
  BY <1>0, RequestFacts DEF ListTyped, LoopOnly, RequestTyped, ValuesTyped
<1>4. SavedInv'
  BY <1>0 DEF ListTyped, LoopOnly, SavedInv, Deserved, ValuesTyped
<1>5. LoopInv'
  BY <1>0 DEF ListTyped, LoopOnly, LoopInv, SavedInv, Deserved, LoopTyped, ValuesTyped, Item
<1>6. RequestInv'
  BY <1>0, RequestFacts DEF ListTyped, LoopOnly, RequestInv, SavedInv, Deserved, RequestTyped, ValuesTyped
<1>7. ArmedInv'
  BY <1>0 DEF ListTyped, LoopOnly, ArmedInv, ValuesTyped
<1> QED
  BY <1>1, <1>2, <1>3, <1>4, <1>5, <1>6, <1>7

LEMMA JudgePlanKeeps ==
  ASSUME ScheduleInv, JudgePlan
  PROVE  ScheduleInv'
<1> USE NumberFacts, SchedulerAssumption DEF ScheduleInv, Typed
<1>0. PICK x \in loop.todo : loop' = [pc |-> "mark", todo |-> loop.todo \ {x}, item |-> x,
                                      stale |-> Stale(x.fp)]
  BY DEF JudgePlan
<1>1. ValuesTyped'
  BY <1>0 DEF JudgePlan, LoopOnly, ValuesTyped
<1>2. LoopTyped'
  <2>1. loop.todo \subseteq Item
    BY DEF JudgePlan, LoopTyped
  <2>2. loop'.stale \in BOOLEAN
    BY <1>0, Zenon DEF Stale
  <2> QED
    BY <1>0, <2>1, <2>2 DEF LoopTyped
<1>3. RequestTyped'
  BY <1>0, RequestFacts DEF JudgePlan, LoopOnly, RequestTyped, ValuesTyped
<1>4. SavedInv'
  BY <1>0 DEF JudgePlan, LoopOnly, SavedInv, Deserved, ValuesTyped
<1>5. LoopInv'
  <2>1. x.fp \in Fingerprint /\ x.fp <= world
    BY DEF JudgePlan, LoopTyped, LoopInv, Item
  <2>2. Stale(x.fp) => x.fp < world
    BY <2>1 DEF Stale, ValuesTyped, Fingerprint
  <2>3. loop'.stale => x.fp < world
    BY <1>0, <2>2, Zenon
  <2> QED
    BY <1>0, <2>3 DEF JudgePlan, LoopOnly, LoopInv
<1>6. RequestInv'
  BY <1>0, RequestFacts DEF JudgePlan, LoopOnly, RequestInv, SavedInv, Deserved, RequestTyped, ValuesTyped
<1>7. ArmedInv'
  BY <1>0 DEF JudgePlan, LoopOnly, ArmedInv, ValuesTyped
<1> QED
  BY <1>1, <1>2, <1>3, <1>4, <1>5, <1>6, <1>7

LEMMA MarkReviewKeeps ==
  ASSUME ScheduleInv, MarkReview
  PROVE  ScheduleInv'
<1> USE NumberFacts, SchedulerAssumption DEF ScheduleInv, Typed
<1> DEFINE s == loop.item.s
           new == [object[s] EXCEPT !.review = loop.stale]
           kept == SameReview(s, loop.item.fp) /\ object[s].review # loop.stale
<1>1. s \in Schedule /\ loop.item.fp \in Fingerprint /\ loop.stale \in BOOLEAN
      /\ loop.todo \subseteq Item /\ \A x \in loop.todo : x.fp <= world
  BY DEF MarkReview, LoopTyped, LoopInv, Item
<1>2. UNCHANGED <<clock, world, listed, request, disk, launches>>
  BY DEF MarkReview, LoopOnly
<1>3. CASE kept
  <2>1. object' = [object EXCEPT ![s] = new]
        /\ loop' = [pc |-> "markSave", todo |-> loop.todo, s |-> s, snap |-> object'[s]]
    BY <1>3 DEF MarkReview
  <2>2. object[s] \in ScanSchedule /\ object[s] # Absent /\ object[s].fp = loop.item.fp
    BY <1>1, <1>3 DEF SameReview, ValuesTyped
  <2>3. /\ new \in ScanSchedule /\ new.fp = loop.item.fp /\ new.interval = object[s].interval
        /\ new.enabled = object[s].enabled
    BY <1>1, <2>2 DEF ScanSchedule
  <2>4. new.review = loop.stale
    BY <2>2 DEF ScanSchedule
  <2>5. loop.stale => loop.item.fp < world
    BY DEF MarkReview, LoopInv
  <2>6. object[s].fp <= world
    BY <1>1, <2>2 DEF SavedInv, Deserved
  <2>7. Deserved(new)
    <3>1. new.review => new.fp # Absent /\ new.fp < world
      BY <1>1, <2>3, <2>4, <2>5
    <3> HIDE DEF new
    <3> QED
      BY <3>1, <2>2, <2>3, <2>6 DEF Deserved
  <2> HIDE DEF new, s
  <2>8. /\ object' \in [Schedule -> ScanSchedule \union {Absent}] /\ object'[s] = new
        /\ listed' \subseteq {x \in Schedule : object'[x] # Absent}
        /\ \A x \in Schedule : object[x] # Absent => object'[x] # Absent
        /\ SavedInv' /\ ArmedInv'
    BY <1>1, <1>2, <2>1, <2>2, <2>3, <2>7, Replaced
  <2>9. ValuesTyped'
    BY <1>2, <2>8 DEF ValuesTyped
  <2>10. LoopTyped' /\ LoopInv'
    BY <1>1, <1>2, <2>1, <2>3, <2>7, <2>8 DEF LoopTyped, LoopInv, Deserved
  <2> QED
    BY <1>2, <2>8, <2>9, <2>10, RequestsKept
<1>4. CASE ~ kept
  <2>1. UNCHANGED object /\ loop' = [pc |-> "refresh", todo |-> loop.todo]
    BY <1>4 DEF MarkReview
  <2>2. LoopTyped' /\ LoopInv'
    BY <1>1, <1>2, <2>1 DEF LoopTyped, LoopInv
  <2> QED
    BY <1>2, <2>1, <2>2, RequestsKept DEF ValuesTyped, SavedInv, ArmedInv, Deserved
<1> QED
  BY <1>3, <1>4

LEMMA MarkSaveKeeps ==
  ASSUME ScheduleInv, MarkSave
  PROVE  ScheduleInv'
<1> USE NumberFacts, SchedulerAssumption DEF ScheduleInv, Typed
<1>0. loop.s \in Schedule /\ loop.snap \in ScanSchedule /\ Deserved(loop.snap)
      /\ loop.todo \subseteq Item
      /\ (disk' = [disk EXCEPT ![loop.s] = loop.snap] \/ disk' = disk)
  BY DEF MarkSave, Save, LoopTyped, LoopInv
<1>1. ValuesTyped'
  BY <1>0 DEF MarkSave, LoopOnly, Save, ValuesTyped
<1>2. LoopTyped'
  BY <1>0 DEF MarkSave, LoopOnly, Save, LoopTyped, ValuesTyped
<1>3. RequestTyped'
  BY <1>0, RequestFacts DEF MarkSave, LoopOnly, Save, RequestTyped, ValuesTyped
<1>4. SavedInv'
  BY <1>0 DEF MarkSave, LoopOnly, Save, SavedInv, Deserved, ValuesTyped
<1>5. LoopInv'
  BY <1>0 DEF MarkSave, LoopOnly, Save, LoopInv, SavedInv, Deserved, LoopTyped, ValuesTyped, Item
<1>6. RequestInv'
  BY <1>0, RequestFacts DEF MarkSave, LoopOnly, Save, RequestInv, SavedInv, Deserved, RequestTyped, ValuesTyped
<1>7. ArmedInv'
  BY <1>0 DEF MarkSave, LoopOnly, Save, ArmedInv, ValuesTyped
<1> QED
  BY <1>1, <1>2, <1>3, <1>4, <1>5, <1>6, <1>7

LEMMA RefreshDoneKeeps ==
  ASSUME ScheduleInv, RefreshDone
  PROVE  ScheduleInv'
<1> USE NumberFacts, SchedulerAssumption DEF ScheduleInv, Typed
<1> USE DEF Quiet
<1>0. TRUE
  OBVIOUS
<1>1. ValuesTyped'
  BY <1>0 DEF RefreshDone, LoopOnly, ValuesTyped
<1>2. LoopTyped'
  BY <1>0 DEF RefreshDone, LoopOnly, LoopTyped, ValuesTyped
<1>3. RequestTyped'
  BY <1>0, RequestFacts DEF RefreshDone, LoopOnly, RequestTyped, ValuesTyped
<1>4. SavedInv'
  BY <1>0 DEF RefreshDone, LoopOnly, SavedInv, Deserved, ValuesTyped
<1>5. LoopInv'
  BY <1>0 DEF RefreshDone, LoopOnly, LoopInv, SavedInv, Deserved, LoopTyped, ValuesTyped, Item
<1>6. RequestInv'
  BY <1>0, RequestFacts DEF RefreshDone, LoopOnly, RequestInv, SavedInv, Deserved, RequestTyped, ValuesTyped
<1>7. ArmedInv'
  BY <1>0 DEF RefreshDone, LoopOnly, ArmedInv, ValuesTyped
<1> QED
  BY <1>1, <1>2, <1>3, <1>4, <1>5, <1>6, <1>7

LEMMA SkipKeeps ==
  ASSUME NEW s \in Schedule, ScheduleInv, Skip(s)
  PROVE  ScheduleInv'
<1> USE NumberFacts, SchedulerAssumption DEF ScheduleInv, Typed
<1> DEFINE new == [Consumed(object[s]) EXCEPT !.review = TRUE]
<1>1. UNCHANGED <<clock, world, listed, request, disk>> /\ loop' = [pc |-> "tickSave", s |-> s]
      /\ object' = [object EXCEPT ![s] = new]
  BY DEF Skip, LoopOnly
<1>2. object[s] \in ScanSchedule /\ object[s] # Absent /\ object[s].enabled /\ clock.now \in Time
  BY DEF Skip, Due, ValuesTyped
<1>3. /\ Consumed(object[s]) \in ScanSchedule /\ Consumed(object[s]).fp = object[s].fp
      /\ Consumed(object[s]).interval = object[s].interval
      /\ object[s].interval = "once" => ~ Consumed(object[s]).enabled
  BY <1>2, ConsumedType
<1>4. /\ new \in ScanSchedule /\ new.fp = object[s].fp /\ new.interval = object[s].interval
      /\ new.interval = "once" => ~ new.enabled
  BY <1>3 DEF ScanSchedule
<1>5. Deserved(new)
  <2>1. object[s].fp # Absent /\ object[s].fp # world
    BY DEF Skip, Stale
  <2>2. object[s].fp <= world
    BY <1>2, <2>1 DEF SavedInv, Deserved
  <2>3. object[s].fp \in Nat /\ world \in Nat
    BY <1>2, <2>1 DEF ScanSchedule, ValuesTyped, Fingerprint
  <2>4. object[s].fp < world
    BY <2>1, <2>2, <2>3
  <2> HIDE DEF new
  <2> QED
    BY <1>4, <2>1, <2>2, <2>4 DEF Deserved
<1> HIDE DEF new
<1>6. /\ object' \in [Schedule -> ScanSchedule \union {Absent}] /\ object'[s] = new
      /\ listed' \subseteq {x \in Schedule : object'[x] # Absent}
      /\ \A x \in Schedule : object[x] # Absent => object'[x] # Absent
      /\ SavedInv'
  BY <1>1, <1>2, <1>4, <1>5, Replaced
<1>7. ValuesTyped' /\ LoopTyped' /\ LoopInv'
  BY <1>1, <1>6 DEF Skip, ValuesTyped, LoopTyped, LoopInv
<1>8. ArmedInv'
  <2>1. \A x \in Schedule : x # s => object'[x] = object[x] /\ launches'[x] = launches[x]
    BY <1>1 DEF Skip, ValuesTyped
  <2>2. new.interval = "once" => launches[s] = 0
    BY <1>2, <1>4 DEF ArmedInv
  <2>3. launches'[s] \in {launches[s], launches[s] + 1}
    BY DEF Skip, ValuesTyped
  <2> QED
    BY <1>4, <1>6, <2>1, <2>2, <2>3 DEF ArmedInv
<1> QED
  BY <1>1, <1>6, <1>7, <1>8, RequestsKept

LEMMA LaunchKeeps ==
  ASSUME NEW s \in Schedule, ScheduleInv, Launch(s)
  PROVE  ScheduleInv'
<1> USE NumberFacts, SchedulerAssumption DEF ScheduleInv, Typed
<1> DEFINE new == [Consumed(object[s]) EXCEPT !.review = FALSE]
<1>1. UNCHANGED <<clock, world, listed, request, disk>> /\ loop' = [pc |-> "tickSave", s |-> s]
      /\ object' = [object EXCEPT ![s] = new]
  BY DEF Launch, LoopOnly
<1>2. object[s] \in ScanSchedule /\ object[s] # Absent /\ object[s].enabled /\ clock.now \in Time
  BY DEF Launch, Due, ValuesTyped
<1>3. /\ Consumed(object[s]) \in ScanSchedule /\ Consumed(object[s]).fp = object[s].fp
      /\ Consumed(object[s]).interval = object[s].interval
      /\ object[s].interval = "once" => ~ Consumed(object[s]).enabled
  BY <1>2, ConsumedType
<1>4. /\ new \in ScanSchedule /\ new.fp = object[s].fp /\ new.interval = object[s].interval
      /\ new.interval = "once" => ~ new.enabled
  BY <1>3 DEF ScanSchedule
<1>5. Deserved(new)
  <2>1. ~ new.review
    BY <1>3 DEF ScanSchedule
  <2> HIDE DEF new
  <2> QED
    BY <1>2, <1>4, <2>1 DEF SavedInv, Deserved
<1> HIDE DEF new
<1>6. /\ object' \in [Schedule -> ScanSchedule \union {Absent}] /\ object'[s] = new
      /\ listed' \subseteq {x \in Schedule : object'[x] # Absent}
      /\ \A x \in Schedule : object[x] # Absent => object'[x] # Absent
      /\ SavedInv'
  BY <1>1, <1>2, <1>4, <1>5, Replaced
<1>7. ValuesTyped' /\ LoopTyped' /\ LoopInv'
  BY <1>1, <1>6 DEF Launch, ValuesTyped, LoopTyped, LoopInv
<1>8. ArmedInv'
  <2>1. \A x \in Schedule : x # s => object'[x] = object[x] /\ launches'[x] = launches[x]
    BY <1>1 DEF Launch, ValuesTyped
  <2>2. new.interval = "once" => launches[s] = 0
    BY <1>2, <1>4 DEF ArmedInv
  <2>3. launches'[s] \in {launches[s], launches[s] + 1}
    BY DEF Launch, ValuesTyped
  <2> QED
    BY <1>4, <1>6, <2>1, <2>2, <2>3 DEF ArmedInv
<1> QED
  BY <1>1, <1>6, <1>7, <1>8, RequestsKept

LEMMA TickSaveKeeps ==
  ASSUME ScheduleInv, TickSave
  PROVE  ScheduleInv'
<1> USE NumberFacts, SchedulerAssumption DEF ScheduleInv, Typed
<1> USE DEF Quiet
<1>0. TRUE
  OBVIOUS
<1>1. ValuesTyped'
  BY <1>0 DEF TickSave, LoopOnly, Save, ValuesTyped
<1>2. LoopTyped'
  BY <1>0 DEF TickSave, LoopOnly, Save, LoopTyped, ValuesTyped
<1>3. RequestTyped'
  BY <1>0, RequestFacts DEF TickSave, LoopOnly, Save, RequestTyped, ValuesTyped
<1>4. SavedInv'
  BY <1>0 DEF TickSave, LoopOnly, Save, SavedInv, Deserved, ValuesTyped
<1>5. LoopInv'
  BY <1>0 DEF TickSave, LoopOnly, Save, LoopInv, SavedInv, Deserved, LoopTyped, ValuesTyped, Item
<1>6. RequestInv'
  BY <1>0, RequestFacts DEF TickSave, LoopOnly, Save, RequestInv, SavedInv, Deserved, RequestTyped, ValuesTyped
<1>7. ArmedInv'
  BY <1>0 DEF TickSave, LoopOnly, Save, ArmedInv, ValuesTyped
<1> QED
  BY <1>1, <1>2, <1>3, <1>4, <1>5, <1>6, <1>7

-----------------------------------------------------------------------------
(* The handlers.                                                            *)

\* The handlers leave the goroutine alone.
LEMMA LoopKept ==
  ASSUME LoopTyped, LoopInv, UNCHANGED <<loop, world>>
  PROVE  LoopTyped' /\ LoopInv'
BY DEF LoopTyped, LoopInv, Deserved

\* A request goes on with what its next step needs.
LEMMA Stepped ==
  ASSUME RequestTyped, RequestInv, NEW h \in Handler, NEW r \in RequestRecord, Step(h, r),
         UNCHANGED world, \A x \in Schedule : object[x] # Absent => object'[x] # Absent,
         r.pc \in {"put", "check", "refuse", "launch"} => object'[r.s] # Absent,
         r.pc = "put" => r.fp <= world,
         r.pc = "check" /\ r.fp # Absent => r.fp <= world,
         r.pc = "refuse" => r.fp # Absent /\ r.fp < world,
         r.pc = "save" => Deserved(r.snap)
  PROVE  RequestTyped' /\ RequestInv'
<1>1. request' \in [Handler -> RequestRecord] /\ request'[h] = r
      /\ \A g \in Handler : g # h => request'[g] = request[g]
  BY DEF RequestTyped, Step
<1>2. RequestTyped'
  BY <1>1, RequestFacts DEF RequestTyped
<1>3. RequestInv'
  BY <1>1, RequestFacts DEF RequestInv, Deserved, RequestTyped
<1> QED
  BY <1>2, <1>3

\* A snapshot of what is now in memory is as good as that.
LEMMA SnapshotTaken ==
  ASSUME RequestTyped, RequestInv, NEW h \in Handler, NEW s \in Schedule, Snapshot(h, s),
         UNCHANGED world, \A x \in Schedule : object[x] # Absent => object'[x] # Absent,
         object'[s] \in ScanSchedule, Deserved(object'[s])
  PROVE  RequestTyped' /\ RequestInv'
<1> DEFINE r == [pc |-> "save", s |-> s, snap |-> object'[s]]
<1>1. r \in RequestRecord /\ r.pc = "save" /\ r.snap = object'[s]
  BY RequestFacts
<1>2. Step(h, r)
  BY DEF Snapshot
<1> HIDE DEF r
<1> QED
  BY <1>1, <1>2, Stepped

LEMMA PostKeeps ==
  ASSUME NEW h \in Handler, NEW s \in Schedule, NEW interval \in Intervals, NEW date \in Dates,
         NEW typed \in BOOLEAN, ScheduleInv, Post(h, s, interval, date, typed)
  PROVE  ScheduleInv'
<1> USE NumberFacts, SchedulerAssumption DEF ScheduleInv, Typed
<1> DEFINE fresh == [interval |-> interval, date |-> IF interval = "once" THEN date ELSE Absent,
                     enabled |-> TRUE, next |-> 0, fp |-> IF typed THEN world ELSE Absent,
                     review |-> FALSE]
           new == [fresh EXCEPT !.next = CalculateNextRun(fresh, clock.now)]
<1>1. /\ object[s] = Absent /\ object' = [object EXCEPT ![s] = new]
      /\ listed' = listed \union {s} /\ UNCHANGED <<world, disk, launches, loop>> /\ Snapshot(h, s)
      /\ clock' = [clock EXCEPT !.requests = @ + 1]
  BY DEF Post, ServerOnly, Begins
<1>2. clock.now \in Time /\ world \in Fingerprint
  BY DEF ValuesTyped
<1>3. 0 \in Instants /\ (IF interval = "once" THEN date ELSE Absent) \in Instants \union {Absent}
      /\ (IF typed THEN world ELSE Absent) \in (0 .. MaxWorld) \union {Absent}
  BY <1>2 DEF Instants, Time, Fingerprint
<1>4. fresh \in ScanSchedule
  BY <1>3 DEF ScanSchedule
<1>5. CalculateNextRun(fresh, clock.now) \in Instants
  BY <1>2, <1>4, NextRunType
<1>6. new \in ScanSchedule /\ (new.fp # Absent => new.fp = world)
  BY <1>4, <1>5 DEF ScanSchedule
<1>7. ~ new.review
  BY DEF ScanSchedule
<1> HIDE DEF new
<1>8. Deserved(new)
  BY <1>2, <1>6, <1>7 DEF Deserved, Fingerprint
<1>9. object' \in [Schedule -> ScanSchedule \union {Absent}] /\ object'[s] = new
      /\ \A x \in Schedule : x # s => object'[x] = object[x]
  BY <1>1, <1>6 DEF ValuesTyped
<1>10. new # Absent
  BY <1>6
<1>11. ValuesTyped'
  BY <1>1, <1>9, <1>10 DEF ValuesTyped
<1>12. LoopTyped' /\ LoopInv'
  BY <1>1, LoopKept
<1>13. RequestTyped' /\ RequestInv'
  BY <1>1, <1>6, <1>8, <1>9, <1>10, SnapshotTaken
<1>14. SavedInv'
  BY <1>1, <1>8, <1>9 DEF SavedInv, Deserved
<1>15. ArmedInv'
  BY <1>1, <1>9, <1>10 DEF ArmedInv
<1> QED
  BY <1>11, <1>12, <1>13, <1>14, <1>15

LEMMA PutLookupKeeps ==
  ASSUME NEW h \in Handler, NEW s \in Schedule, NEW body \in PutBody, ScheduleInv, PutLookup(h, s, body)
  PROVE  ScheduleInv'
<1> USE NumberFacts, SchedulerAssumption DEF ScheduleInv, Typed
<1>1. LoopTyped' /\ LoopInv'
  BY LoopKept DEF PutLookup, ServerOnly
<1>2. RequestTyped' /\ RequestInv'
  <2> DEFINE r == [pc |-> "put", s |-> s, body |-> body, fp |-> world]
  <2>1. s \in Schedule /\ object[s] # Absent /\ UNCHANGED <<object, world>> /\ Step(h, r)
    BY DEF PutLookup, ServerOnly, ValuesTyped
  <2>2. world \in Fingerprint /\ world <= world
    BY DEF ValuesTyped, Fingerprint
  <2>3. r \in RequestRecord /\ r.pc = "put" /\ r.s = s /\ r.fp = world
    BY <2>1, <2>2, RequestFacts
  <2> HIDE DEF r
  <2> QED
    BY <2>1, <2>2, <2>3, Stepped
<1>3. ValuesTyped'
  BY DEF PutLookup, ServerOnly, Begins, ValuesTyped
<1>4. SavedInv'
  BY DEF PutLookup, ServerOnly, SavedInv, Deserved
<1>5. ArmedInv'
  BY DEF PutLookup, ServerOnly, ArmedInv
<1> QED
  BY <1>1, <1>2, <1>3, <1>4, <1>5

LEMMA PutApplyKeeps ==
  ASSUME NEW h \in Handler, ScheduleInv, PutApply(h)
  PROVE  ScheduleInv'
<1> USE NumberFacts, SchedulerAssumption DEF ScheduleInv, Typed
<1> DEFINE s == request[h].s
           new == Edited(object[s], request[h].body, request[h].fp)
<1>1. /\ request[h].pc = "put" /\ object' = [object EXCEPT ![s] = new]
      /\ launches' = IF Armed(object[s], object'[s]) THEN [launches EXCEPT ![s] = 0] ELSE launches
      /\ Snapshot(h, s) /\ UNCHANGED <<clock, world, loop, listed, disk>>
  BY DEF PutApply, ServerOnly
<1>2. /\ s \in Schedule /\ request[h].body \in PutBody /\ request[h].fp \in Fingerprint
      /\ object[s] # Absent /\ request[h].fp <= world
  BY <1>1, RequestFacts DEF RequestTyped, RequestInv
<1>3. object[s] \in ScanSchedule /\ clock.now \in Time
  BY <1>2 DEF ValuesTyped
<1>4. /\ new \in ScanSchedule
      /\ new.fp = (IF request[h].body.reviewed THEN request[h].fp ELSE object[s].fp)
      /\ new.review => object[s].review /\ ~ request[h].body.reviewed
  <2> DEFINE sch == object[s]
             body == request[h].body
             fp == request[h].fp
  <2>1. sch \in ScanSchedule /\ body \in PutBody /\ fp \in Fingerprint /\ clock.now \in Time
    BY <1>2, <1>3
  <2> HIDE DEF sch, body, fp
  <2>2. Edited(sch, body, fp) \in ScanSchedule
    BY <2>1, EditedType
  <2>3. Edited(sch, body, fp).fp = (IF body.reviewed THEN fp ELSE sch.fp)
    BY <2>1, EditedType
  <2>4. Edited(sch, body, fp).review => sch.review /\ ~ body.reviewed
    BY <2>1, EditedType
  <2> QED
    BY <2>2, <2>3, <2>4 DEF sch, body, fp
<1> HIDE DEF new, s
<1>5. Deserved(new)
  BY <1>2, <1>4 DEF SavedInv, Deserved
<1>6. /\ object' \in [Schedule -> ScanSchedule \union {Absent}] /\ object'[s] = new
      /\ listed' \subseteq {x \in Schedule : object'[x] # Absent}
      /\ \A x \in Schedule : object[x] # Absent => object'[x] # Absent
      /\ SavedInv'
  BY <1>1, <1>2, <1>4, <1>5, Replaced
<1>7. ValuesTyped'
  BY <1>1, <1>6 DEF ValuesTyped
<1>8. LoopTyped' /\ LoopInv'
  BY <1>1, LoopKept
<1>9. RequestTyped' /\ RequestInv'
  BY <1>1, <1>2, <1>4, <1>5, <1>6, SnapshotTaken
<1>10. ArmedInv'
  <2>1. \A x \in Schedule : x # s => object'[x] = object[x] /\ launches'[x] = launches[x]
    BY <1>1 DEF ValuesTyped
  <2>2. CASE Armed(object[s], new)
    <3>1. launches'[s] = 0
      BY <1>1, <1>2, <1>6, <2>2 DEF ValuesTyped
    <3> QED
      BY <2>1, <3>1 DEF ArmedInv
  <2>3. CASE ~ Armed(object[s], new)
    <3>1. launches' = launches
      BY <1>1, <1>6, <2>3
    <3>2. new.interval = object[s].interval /\ new.enabled = object[s].enabled
      BY <2>3 DEF Armed
    <3> QED
      BY <1>1, <1>2, <1>4, <3>1, <3>2, Replaced
  <2> QED
    BY <2>2, <2>3
<1> QED
  BY <1>6, <1>7, <1>8, <1>9, <1>10

LEMMA TriggerLookupKeeps ==
  ASSUME NEW h \in Handler, NEW s \in Schedule, ScheduleInv, TriggerLookup(h, s)
  PROVE  ScheduleInv'
<1> USE NumberFacts, SchedulerAssumption DEF ScheduleInv, Typed
<1>1. LoopTyped' /\ LoopInv'
  BY LoopKept DEF TriggerLookup, ServerOnly
<1>2. RequestTyped' /\ RequestInv'
  <2> DEFINE r == [pc |-> "check", s |-> s, fp |-> object[s].fp]
  <2>1. s \in Schedule /\ object[s] # Absent /\ UNCHANGED <<object, world>> /\ Step(h, r)
    BY DEF TriggerLookup, ServerOnly, ValuesTyped
  <2>2. object[s].fp \in FingerprintOrAbsent /\ (object[s].fp # Absent => object[s].fp <= world)
    BY <2>1 DEF ValuesTyped, ScanSchedule, Fingerprint, SavedInv, Deserved
  <2>3. r \in RequestRecord /\ r.pc = "check" /\ r.s = s /\ r.fp = object[s].fp
    BY <2>1, <2>2, RequestFacts
  <2> HIDE DEF r
  <2> QED
    BY <2>1, <2>2, <2>3, Stepped
<1>3. ValuesTyped'
  BY DEF TriggerLookup, ServerOnly, Begins, ValuesTyped
<1>4. SavedInv'
  BY DEF TriggerLookup, ServerOnly, SavedInv, Deserved
<1>5. ArmedInv'
  BY DEF TriggerLookup, ServerOnly, ArmedInv
<1> QED
  BY <1>1, <1>2, <1>3, <1>4, <1>5

LEMMA TriggerCheckKeeps ==
  ASSUME NEW h \in Handler, ScheduleInv, TriggerCheck(h)
  PROVE  ScheduleInv'
<1> USE NumberFacts, SchedulerAssumption DEF ScheduleInv, Typed
<1>1. LoopTyped' /\ LoopInv'
  BY LoopKept DEF TriggerCheck, ServerOnly
<1>2. RequestTyped' /\ RequestInv'
  <2> DEFINE pc == IF Stale(request[h].fp) THEN "refuse" ELSE "launch"
             r == [pc |-> pc, s |-> request[h].s, fp |-> request[h].fp]
  <2>1. /\ request[h] \in RequestRecord /\ request[h].pc = "check" /\ request[h].s \in Schedule
        /\ request[h].fp \in FingerprintOrAbsent /\ object[request[h].s] # Absent
        /\ (request[h].fp # Absent => request[h].fp <= world)
        /\ UNCHANGED <<object, world>> /\ world \in Fingerprint
    BY RequestFacts DEF TriggerCheck, ServerOnly, RequestTyped, RequestInv, ValuesTyped
  <2>2. [request[h] EXCEPT !.pc = pc] = r
    BY <2>1 DEF RequestRecord
  <2>3. Step(h, r)
    BY <2>2 DEF TriggerCheck
  <2>4. pc \in {"refuse", "launch"}
    OBVIOUS
  <2>5. pc = "refuse" => request[h].fp # Absent /\ request[h].fp < world
    BY <2>1 DEF Stale, Fingerprint
  <2> HIDE DEF pc
  <2>6. r \in RequestRecord /\ r.pc = pc /\ r.s = request[h].s /\ r.fp = request[h].fp
    BY <2>1, <2>4, RequestFacts
  <2> HIDE DEF r
  <2> QED
    BY <2>1, <2>3, <2>4, <2>5, <2>6, Stepped
<1>3. ValuesTyped'
  BY DEF TriggerCheck, ServerOnly, Begins, ValuesTyped
<1>4. SavedInv'
  BY DEF TriggerCheck, ServerOnly, SavedInv, Deserved
<1>5. ArmedInv'
  BY DEF TriggerCheck, ServerOnly, ArmedInv
<1> QED
  BY <1>1, <1>2, <1>3, <1>4, <1>5

LEMMA TriggerRefuseKeeps ==
  ASSUME NEW h \in Handler, ScheduleInv, TriggerRefuse(h)
  PROVE  ScheduleInv'
<1> USE NumberFacts, SchedulerAssumption DEF ScheduleInv, Typed
<1> DEFINE s == request[h].s
           new == [object[s] EXCEPT !.review = TRUE]
<1>1. /\ s \in Schedule /\ object[s] # Absent /\ request[h].fp # Absent /\ request[h].fp < world
      /\ request[h].fp \in Fingerprint
      /\ UNCHANGED <<clock, world, loop, listed, disk, launches>>
  BY RequestFacts DEF TriggerRefuse, ServerOnly, RequestTyped, RequestInv
<1>2. LoopTyped' /\ LoopInv'
  BY <1>1, LoopKept
<1>3. CASE object[s].fp = request[h].fp /\ ~ object[s].review
  <2>1. object' = [object EXCEPT ![s] = new] /\ Snapshot(h, s)
    BY <1>3 DEF TriggerRefuse
  <2>2. object[s] \in ScanSchedule
    BY <1>1 DEF ValuesTyped
  <2>3. new \in ScanSchedule /\ new.fp = request[h].fp /\ new.interval = object[s].interval
        /\ new.enabled = object[s].enabled
    BY <1>3, <2>2 DEF ScanSchedule
  <2> HIDE DEF new
  <2>4. Deserved(new)
    BY <1>1, <2>3 DEF Deserved, ValuesTyped, Fingerprint
  <2> HIDE DEF s
  <2>5. /\ object' \in [Schedule -> ScanSchedule \union {Absent}] /\ object'[s] = new
        /\ listed' \subseteq {x \in Schedule : object'[x] # Absent}
        /\ \A x \in Schedule : object[x] # Absent => object'[x] # Absent
        /\ SavedInv' /\ ArmedInv'
    BY <1>1, <2>1, <2>3, <2>4, Replaced
  <2>6. ValuesTyped'
    BY <1>1, <2>5 DEF ValuesTyped
  <2>7. RequestTyped' /\ RequestInv'
    BY <1>1, <2>1, <2>3, <2>4, <2>5, SnapshotTaken
  <2> QED
    BY <1>2, <2>5, <2>6, <2>7
<1>4. CASE ~ (object[s].fp = request[h].fp /\ ~ object[s].review)
  <2>1. UNCHANGED object /\ Step(h, Idle)
    BY <1>4 DEF TriggerRefuse
  <2>2. RequestTyped' /\ RequestInv'
    BY <1>1, <2>1, RequestFacts, Stepped
  <2> QED
    BY <1>1, <1>2, <2>1, <2>2 DEF ValuesTyped, SavedInv, Deserved, ArmedInv
<1> QED
  BY <1>3, <1>4

LEMMA TriggerLaunchKeeps ==
  ASSUME NEW h \in Handler, ScheduleInv, TriggerLaunch(h)
  PROVE  ScheduleInv'
<1> USE NumberFacts, SchedulerAssumption DEF ScheduleInv, Typed
<1>1. LoopTyped' /\ LoopInv'
  BY LoopKept DEF TriggerLaunch, ServerOnly
<1>2. RequestTyped' /\ RequestInv'
  <2>1. request[h].s \in Schedule /\ object[request[h].s] # Absent
        /\ UNCHANGED <<object, world>> /\ Snapshot(h, request[h].s)
    BY RequestFacts DEF TriggerLaunch, ServerOnly, RequestTyped
  <2>2. object'[request[h].s] \in ScanSchedule /\ Deserved(object'[request[h].s])
    BY <2>1 DEF ValuesTyped, SavedInv
  <2> QED
    BY <2>1, <2>2, SnapshotTaken
<1>3. ValuesTyped'
  BY DEF TriggerLaunch, ServerOnly, Begins, ValuesTyped
<1>4. SavedInv'
  BY DEF TriggerLaunch, ServerOnly, SavedInv, Deserved
<1>5. ArmedInv'
  BY DEF TriggerLaunch, ServerOnly, ArmedInv
<1> QED
  BY <1>1, <1>2, <1>3, <1>4, <1>5

LEMMA HandlerSaveKeeps ==
  ASSUME NEW h \in Handler, ScheduleInv, HandlerSave(h)
  PROVE  ScheduleInv'
<1> USE NumberFacts, SchedulerAssumption DEF ScheduleInv, Typed
<1>0. /\ request[h].s \in Schedule /\ request[h].snap \in ScanSchedule /\ Deserved(request[h].snap)
      /\ (disk' = [disk EXCEPT ![request[h].s] = request[h].snap] \/ disk' = disk)
  BY RequestFacts DEF HandlerSave, Save, RequestTyped, RequestInv
<1>1. LoopTyped' /\ LoopInv'
  BY LoopKept DEF HandlerSave, ServerOnly
<1>2. RequestTyped' /\ RequestInv'
  BY RequestFacts, Stepped DEF HandlerSave, ServerOnly
<1>3. ValuesTyped'
  BY <1>0 DEF HandlerSave, ServerOnly, ValuesTyped
<1>4. SavedInv'
  BY <1>0 DEF HandlerSave, ServerOnly, SavedInv, Deserved, ValuesTyped
<1>5. ArmedInv'
  BY DEF HandlerSave, ServerOnly, ArmedInv
<1> QED
  BY <1>1, <1>2, <1>3, <1>4, <1>5

LEMMA DeleteKeeps ==
  ASSUME NEW h \in Handler, NEW s \in Schedule, ScheduleInv, Delete(h, s)
  PROVE  ScheduleInv'
<1> USE NumberFacts, SchedulerAssumption DEF ScheduleInv, Typed
<1>1. LoopTyped' /\ LoopInv'
  BY LoopKept DEF Delete, ServerOnly
<1>2. RequestTyped' /\ RequestInv'
  BY RequestFacts, Stepped DEF Delete, ServerOnly
<1>3. ValuesTyped'
  BY DEF Delete, ServerOnly, Begins, ValuesTyped
<1>4. SavedInv'
  BY DEF Delete, ServerOnly, SavedInv, Deserved
<1>5. ArmedInv'
  BY DEF Delete, ServerOnly, ArmedInv
<1> QED
  BY <1>1, <1>2, <1>3, <1>4, <1>5

LEMMA DeleteFileKeeps ==
  ASSUME NEW h \in Handler, ScheduleInv, DeleteFile(h)
  PROVE  ScheduleInv'
<1> USE NumberFacts, SchedulerAssumption DEF ScheduleInv, Typed
<1>0. request[h].s \in Schedule
      /\ (disk' = [disk EXCEPT ![request[h].s] = Absent] \/ disk' = disk)
  BY RequestFacts DEF DeleteFile, RequestTyped
<1>1. LoopTyped' /\ LoopInv'
  BY LoopKept DEF DeleteFile, ServerOnly
<1>2. RequestTyped' /\ RequestInv'
  BY RequestFacts, Stepped DEF DeleteFile, ServerOnly
<1>3. ValuesTyped'
  BY <1>0 DEF DeleteFile, ServerOnly, ValuesTyped
<1>4. SavedInv'
  BY <1>0 DEF DeleteFile, ServerOnly, SavedInv, Deserved, ValuesTyped
<1>5. ArmedInv'
  BY DEF DeleteFile, ServerOnly, ArmedInv
<1> QED
  BY <1>1, <1>2, <1>3, <1>4, <1>5

-----------------------------------------------------------------------------
(* The invariant, and what follows from it.                                 *)

LEMMA ScheduleStep == ScheduleInv /\ [ScheduleNext]_scheduleVars => ScheduleInv'
<1> SUFFICES ASSUME ScheduleInv, [ScheduleNext]_scheduleVars PROVE ScheduleInv'
  OBVIOUS
<1>1. CASE Pass \/ PlansChange \/ Restart
  BY <1>1, PassKeeps, PlansChangeKeeps, RestartKeeps
<1>2. CASE Scheduling
  BY <1>2, ListTypedKeeps, JudgePlanKeeps, MarkReviewKeeps, MarkSaveKeeps, RefreshDoneKeeps,
     TickSaveKeeps, SkipKeeps, LaunchKeeps DEF Scheduling
<1>3. ASSUME NEW h \in Handler,
             \/ PutApply(h) \/ TriggerCheck(h) \/ TriggerRefuse(h) \/ TriggerLaunch(h)
             \/ HandlerSave(h) \/ DeleteFile(h)
      PROVE  ScheduleInv'
  BY <1>3, PutApplyKeeps, TriggerCheckKeeps, TriggerRefuseKeeps, TriggerLaunchKeeps,
     HandlerSaveKeeps, DeleteFileKeeps
<1>4. ASSUME NEW h \in Handler, NEW s \in Schedule,
             \/ TriggerLookup(h, s) \/ Delete(h, s)
             \/ \E i \in Intervals, d \in Dates, t \in BOOLEAN : Post(h, s, i, d, t)
             \/ \E b \in PutBody : PutLookup(h, s, b)
      PROVE  ScheduleInv'
  BY <1>4, TriggerLookupKeeps, DeleteKeeps, PostKeeps, PutLookupKeeps
<1>5. CASE UNCHANGED scheduleVars
  BY <1>5 DEF scheduleVars, ScheduleInv, Typed, ValuesTyped, LoopTyped, RequestTyped, SavedInv,
     LoopInv, RequestInv, ArmedInv, Deserved
<1> QED
  BY <1>1, <1>2, <1>3, <1>4, <1>5 DEF ScheduleNext, HandlerServing

LEMMA ScheduleInvariant == ScheduleSpec => []ScheduleInv
<1> QED
  BY InitHolds, ScheduleStep, PTL DEF ScheduleSpec

\* However ticks, reviews, handlers, failed saves and restarts interleave, a schedule is marked
\* for review, in memory and in its file, only if its plan was outrun after it was reviewed, and
\* the clock launches a one-time schedule once per arming (refreshScheduleReviews,
\* checkAndRunSchedules, handleScheduleDetail).
THEOREM SchedulesAreHonoured == ScheduleSpec => []ScheduleIsHonoured
<1>1. ScheduleInv => MarkIsDeserved
  BY DEF ScheduleInv, SavedInv, Deserved, MarkIsDeserved
<1>2. ScheduleInv => OncePerArming
  BY DEF ScheduleInv, ArmedInv, OncePerArming
<1> QED
  BY <1>1, <1>2, ScheduleInvariant, PTL DEF ScheduleIsHonoured

-----------------------------------------------------------------------------
(* The queue of a wildcard scan.                                            *)

\* Every host before n had a session that returned.
Earned(hs, n) ==
    \A i \in DOMAIN hs : i <= n => \E t \in Targets : <<t, hs[i]>> \in visited

Fanouts == [pc : {"rest", "target", "discover", "host", "session"}, target : 1 .. Last + 1,
            hosts : Seq(AllHosts), index : Nat, dir : AllHosts \cup {NoState, "new"},
            ctx : {"live", "cancelled"}]

\* The file, the Resume fields and the run itself never count a host that had no session.
QueueInv ==
    /\ fanout \in Fanouts /\ resume \in ProgressType
    /\ visited \subseteq Targets \X AllHosts /\ discovered \subseteq Targets /\ runs \in 0 .. MaxRuns
    /\ queueFile # NoState => /\ queueFile.next \in 1 .. Last + 1
                              /\ queueFile.progress \in ProgressType
                              /\ Earned(queueFile.progress.hosts, queueFile.progress.index)
    /\ Earned(resume.hosts, resume.index)
    /\ fanout.pc \in {"discover", "host", "session"} => fanout.target \in Targets
    /\ fanout.pc \in {"host", "session"} =>
         fanout.index <= Len(fanout.hosts) /\ Earned(fanout.hosts, fanout.index)
    /\ fanout.pc = "session" => fanout.index < Len(fanout.hosts)

\* The lists of hs.
LEMMA HostsTyped ==
    /\ Last \in Nat /\ Targets = 1 .. Last
    /\ \A t \in Targets : /\ HostsOf[t] \in Seq(AllHosts) /\ SubSeq(HostsOf[t], 1, 1) \in Seq(AllHosts)
                          /\ Len(HostsOf[t]) \in Nat
<1>1. Last \in Nat /\ Targets = 1 .. Last
  BY QueueAssumption DEF Last, Targets
<1>2. ASSUME NEW t \in Targets  PROVE HostsOf[t] \in Seq(AllHosts) /\ HostsOf[t] # <<>>
  <2>1. HostsOf[t] \in Seq(HostSet(t)) /\ HostsOf[t] # <<>>
    BY QueueAssumption
  <2>2. HostSet(t) \subseteq AllHosts
    BY DEF AllHosts
  <2> QED
    BY <2>1, <2>2
<1>3. ASSUME NEW t \in Targets
      PROVE  SubSeq(HostsOf[t], 1, 1) \in Seq(AllHosts) /\ Len(HostsOf[t]) \in Nat
  <2>1. HostsOf[t] \in Seq(AllHosts) /\ Len(HostsOf[t]) >= 1 /\ Len(HostsOf[t]) \in Nat
    BY <1>2
  <2> QED
    BY <2>1
<1> QED
  BY <1>1, <1>2, <1>3

\* What is written to the file is a progress.
LEMMA ProgressTyped ==
    ASSUME NEW t \in Targets, NEW hs \in Seq(AllHosts), NEW index \in Nat, index <= Len(hs),
           NEW dir \in AllHosts \cup {NoState}
    PROVE  /\ Progress(t, hs, index, dir) \in ProgressType
           /\ Progress(t, hs, index, dir).hosts = hs
           /\ Progress(t, hs, index, dir).index = index
BY DEF Progress, ProgressType

LEMMA ProgressFields ==
    ASSUME NEW p \in ProgressType
    PROVE  /\ p.hosts \in Seq(AllHosts) /\ p.index \in Nat /\ p.index <= Len(p.hosts)
           /\ p.dir \in AllHosts \cup {NoState} /\ p.done \in BOOLEAN
BY DEF ProgressType

\* The run at rest, and at the beginning of a target.
LEMMA RestTyped ==
    /\ Rest \in Fanouts /\ Rest.pc = "rest"
    /\ \A n \in 1 .. Last + 1 :
          /\ [Rest EXCEPT !.pc = "target", !.target = n] \in Fanouts
          /\ [Rest EXCEPT !.pc = "target", !.target = n].pc = "target"
<1>1. <<>> \in Seq(AllHosts) /\ 1 \in 1 .. Last + 1 /\ 0 \in Nat
  BY HostsTyped
<1>2. Rest \in Fanouts /\ Rest.pc = "rest"
  BY <1>1 DEF Rest, Fanouts
<1>3. ASSUME NEW n \in 1 .. Last + 1
      PROVE  /\ [Rest EXCEPT !.pc = "target", !.target = n] \in Fanouts
             /\ [Rest EXCEPT !.pc = "target", !.target = n].pc = "target"
  <2> HIDE DEF Rest
  <2> QED
    BY <1>2 DEF Fanouts
<1> QED
  BY <1>2, <1>3

\* A host that had a session has had it.
LEMMA EarnedStays ==
    ASSUME visited \subseteq visited'
    PROVE  \A hs, n : Earned(hs, n) => Earned(hs, n)'
BY DEF Earned

\* Every step of a wildcard run keeps the invariant.
LEMMA QueueStep ==
    ASSUME QueueInv, [WildcardNext]_wildcardVars
    PROVE  QueueInv'
<1>1. CASE BeginRun
  <2>1. /\ queueFile # NoState /\ runs < MaxRuns /\ resume' = queueFile.progress
        /\ fanout' = [Rest EXCEPT !.pc = "target", !.target = queueFile.next]
        /\ runs' = runs + 1 /\ UNCHANGED <<queueFile, visited, discovered>>
    BY <1>1 DEF BeginRun
  <2>2. fanout' \in Fanouts /\ fanout'.pc = "target"
    BY <2>1, RestTyped DEF QueueInv
  <2>3. runs' \in 0 .. MaxRuns
    BY <2>1, QueueAssumption DEF QueueInv
  <2> QED
    BY <2>1, <2>2, <2>3 DEF QueueInv, Earned
<1>2. CASE NextTarget
  <2>1. UNCHANGED <<resume, visited, discovered, runs>>
    BY <1>2 DEF NextTarget
  <2>2. CASE fanout' = Rest /\ (queueFile' = queueFile \/ queueFile' = NoState)
    <3>1. fanout' \in Fanouts /\ fanout'.pc = "rest"
      BY <2>2, RestTyped
    <3> QED
      BY <2>1, <2>2, <3>1 DEF QueueInv, Earned
  <2>3. CASE /\ SaveQueueState(fanout.target, resume) /\ fanout.target <= Last
             /\ fanout' = [fanout EXCEPT !.pc = "discover"]
    <3>1. fanout' \in Fanouts /\ fanout'.pc = "discover" /\ fanout'.target \in Targets
      BY <2>3, HostsTyped DEF QueueInv, Fanouts
    <3>2. /\ queueFile'.next \in 1 .. Last + 1 /\ queueFile'.progress = resume
      BY <2>3 DEF SaveQueueState, QueueInv, Fanouts
    <3> QED
      BY <2>1, <3>1, <3>2, EarnedStays DEF QueueInv
  <2>4. fanout.target \in Nat /\ Last \in Nat
    BY HostsTyped DEF QueueInv, Fanouts
  <2> QED
    BY <1>2, <2>2, <2>3, <2>4 DEF NextTarget
<1>3. CASE Discover
  <2> DEFINE t == fanout.target
  <2>1. t \in Targets /\ UNCHANGED <<resume, visited, runs>>
    BY <1>3 DEF Discover, QueueAt, QueueInv
  <2>2. PICK hs \in IF ReusesList(t) THEN {resume.hosts}
                       ELSE {SubSeq(HostsOf[t], 1, 1)}
                              \cup (IF RunCancelled THEN {} ELSE {HostsOf[t]}) :
          /\ fanout' = [fanout EXCEPT !.pc = "host", !.hosts = hs, !.index = StartIndex(hs)]
          /\ SaveQueueState(t, Progress(t, hs, StartIndex(hs), NoState))
          /\ discovered' = IF ReusesList(t) THEN discovered ELSE discovered \cup {t}
    BY <1>3 DEF Discover
  <2>3. /\ resume.hosts \in Seq(AllHosts) /\ resume.index \in Nat /\ resume.done \in BOOLEAN
        /\ resume.index <= Len(resume.hosts)
    BY ProgressFields DEF QueueInv
  <2>4. hs \in Seq(AllHosts) /\ Len(hs) \in Nat
    <3>1. hs \in {resume.hosts, SubSeq(HostsOf[t], 1, 1), HostsOf[t]}
      BY <2>2
    <3>2. hs \in Seq(AllHosts)
      BY <2>1, <2>3, <3>1, HostsTyped
    <3> QED
      BY <3>2
  <2>5. StartIndex(hs) = 0 \/ (hs = resume.hosts /\ StartIndex(hs) = resume.index)
    <3>1. CASE ReusesList(t)
      BY <2>2, <2>3, <3>1 DEF StartIndex, ReusesList
    <3>2. CASE ~ReusesList(t)
      BY <2>3, <2>4, <3>2 DEF StartIndex, ReusesList
    <3> QED
      BY <3>1, <3>2
  <2> DEFINE n == StartIndex(hs)
  <2>6. n \in Nat /\ n <= Len(hs)
    BY <2>3, <2>4, <2>5
  <2>7. Earned(hs, n)
    <3>1. CASE n = 0
      <4>1. \A i \in DOMAIN hs : ~(i <= 0)
        BY <2>4
      <4> QED
        BY <3>1, <4>1 DEF Earned
    <3>2. CASE hs = resume.hosts /\ n = resume.index
      BY <3>2 DEF QueueInv
    <3> QED
      BY <2>5, <3>1, <3>2
  <2>8. /\ fanout'.pc = "host" /\ fanout'.hosts = hs /\ fanout'.index = n /\ fanout'.target = t
        /\ fanout' \in Fanouts
    <3>1. fanout' = [fanout EXCEPT !.pc = "host", !.hosts = hs, !.index = n]
      BY <2>2
    <3>2. fanout \in Fanouts
      BY DEF QueueInv
    <3> HIDE DEF n
    <3> QED
      BY <2>4, <2>6, <3>1, <3>2 DEF Fanouts
  <2>9. /\ queueFile'.next = t /\ queueFile'.progress \in ProgressType
        /\ queueFile'.progress.hosts = hs /\ queueFile'.progress.index = n
    BY <2>1, <2>2, <2>4, <2>6, ProgressTyped DEF SaveQueueState
  <2>10. t \in 1 .. Last + 1 /\ discovered' \subseteq Targets
    BY <2>1, <2>2 DEF QueueInv, Fanouts
  <2> HIDE DEF n
  <2> QED
    BY <2>1, <2>6, <2>7, <2>8, <2>9, <2>10, EarnedStays DEF QueueInv
<1>4. CASE HostStarts
  <2> DEFINE h == fanout.hosts[fanout.index + 1]
             t == fanout.target
  <2>1. /\ fanout.pc = "host" /\ fanout.index < Len(fanout.hosts)
        /\ fanout' = [fanout EXCEPT !.pc = "session", !.dir = DirFor(h, fanout.index)]
        /\ SaveQueueState(t, Progress(t, fanout.hosts, fanout.index, h))
        /\ UNCHANGED <<resume, visited, discovered, runs>>
    BY <1>4 DEF HostStarts, QueueAt, EnterHost
  <2>2. /\ t \in Targets /\ fanout.hosts \in Seq(AllHosts) /\ fanout.index \in Nat
        /\ t \in 1 .. Last + 1 /\ fanout.index <= Len(fanout.hosts)
    BY <2>1 DEF QueueInv, Fanouts
  <2>3. h \in AllHosts
    BY <2>1, <2>2
  <2>4. DirFor(h, fanout.index) \in AllHosts \cup {NoState, "new"}
    BY ProgressFields DEF DirFor, QueueInv
  <2>5. /\ fanout' \in Fanouts /\ fanout'.pc = "session" /\ fanout'.hosts = fanout.hosts
        /\ fanout'.index = fanout.index /\ fanout'.target = t
    BY <2>1, <2>4 DEF QueueInv, Fanouts
  <2>6. /\ queueFile'.next = t /\ queueFile'.progress \in ProgressType
        /\ queueFile'.progress.hosts = fanout.hosts /\ queueFile'.progress.index = fanout.index
    BY <2>1, <2>2, <2>3, ProgressTyped DEF SaveQueueState
  <2> QED
    BY <2>1, <2>2, <2>5, <2>6, EarnedStays DEF QueueInv
<1>5. CASE HostEnds
  <2> DEFINE h == fanout.hosts[fanout.index + 1]
             t == fanout.target
             n == fanout.index + 1
  <2>1. /\ fanout.pc = "session" /\ visited' = visited \cup {<<t, h>>}
        /\ fanout' = [fanout EXCEPT !.pc = "host", !.index = n, !.dir = NoState]
        /\ SaveQueueState(t, Progress(t, fanout.hosts, n, NoState))
        /\ UNCHANGED <<resume, discovered, runs>>
    BY <1>5 DEF HostEnds, QueueAt, NextIndex
  <2>2. /\ t \in Targets /\ fanout.hosts \in Seq(AllHosts) /\ fanout.index \in Nat
        /\ t \in 1 .. Last + 1 /\ fanout.index < Len(fanout.hosts)
        /\ Earned(fanout.hosts, fanout.index)
    BY <2>1 DEF QueueInv, Fanouts
  <2>3. n \in Nat /\ n <= Len(fanout.hosts) /\ h \in AllHosts
    BY <2>2
  <2>4. ASSUME NEW i \in DOMAIN fanout.hosts, i <= n
        PROVE  \E s \in Targets : <<s, fanout.hosts[i]>> \in visited'
    <3>1. i <= fanout.index \/ i = n
      BY <2>2, <2>4
    <3> QED
      BY <2>1, <2>2, <3>1 DEF Earned
  <2> HIDE DEF n
  <2>5. /\ fanout' \in Fanouts /\ fanout'.pc = "host" /\ fanout'.hosts = fanout.hosts
        /\ fanout'.index = n /\ fanout'.target = t
    BY <2>1, <2>3 DEF QueueInv, Fanouts
  <2>6. /\ queueFile'.next = t /\ queueFile'.progress \in ProgressType
        /\ queueFile'.progress.hosts = fanout.hosts /\ queueFile'.progress.index = n
    BY <2>1, <2>2, <2>3, ProgressTyped DEF SaveQueueState
  <2>7. visited \subseteq visited' /\ visited' \subseteq Targets \X AllHosts
    BY <2>1, <2>2, <2>3 DEF QueueInv
  <2> QED
    BY <2>1, <2>2, <2>3, <2>4, <2>5, <2>6, <2>7 DEF QueueInv, Earned
<1>6. CASE TargetEnds
  <2>1. UNCHANGED <<resume, visited, discovered, runs>>
    BY <1>6 DEF TargetEnds
  <2>2. CASE fanout' = Rest /\ queueFile' = queueFile
    <3>1. fanout' \in Fanouts /\ fanout'.pc = "rest"
      BY <2>2, RestTyped
    <3> QED
      BY <2>1, <2>2, <3>1 DEF QueueInv, Earned
  <2>3. CASE /\ SaveQueueState(fanout.target + 1, resume)
             /\ fanout' = [Rest EXCEPT !.pc = "target", !.target = fanout.target + 1]
    <3>1. fanout.target + 1 \in 1 .. Last + 1
      BY <1>6, HostsTyped DEF TargetEnds, QueueAt, QueueInv
    <3>2. fanout' \in Fanouts /\ fanout'.pc = "target"
      BY <2>3, <3>1, RestTyped
    <3>3. queueFile'.next \in 1 .. Last + 1 /\ queueFile'.progress = resume
      BY <2>3, <3>1 DEF SaveQueueState
    <3> QED
      BY <2>1, <3>2, <3>3 DEF QueueInv, Earned
  <2> QED
    BY <1>6, <2>2, <2>3 DEF TargetEnds
<1>7. CASE Pause
  <2>1. /\ fanout' = [fanout EXCEPT !.ctx = "cancelled"]
        /\ UNCHANGED <<queueFile, resume, visited, discovered, runs>>
    BY <1>7 DEF Pause
  <2>2. /\ fanout' \in Fanouts /\ fanout'.pc = fanout.pc /\ fanout'.target = fanout.target
        /\ fanout'.hosts = fanout.hosts /\ fanout'.index = fanout.index
    BY <2>1 DEF QueueInv, Fanouts
  <2> QED
    BY <2>1, <2>2, EarnedStays DEF QueueInv
<1>8. CASE Die
  <2>1. fanout' = Rest /\ UNCHANGED <<queueFile, resume, visited, discovered, runs>>
    BY <1>8 DEF Die
  <2>2. fanout' \in Fanouts /\ fanout'.pc = "rest"
    BY <2>1, RestTyped
  <2> QED
    BY <2>1, <2>2 DEF QueueInv, Earned
<1>9. CASE UNCHANGED wildcardVars
  BY <1>9 DEF wildcardVars, QueueInv, Earned
<1> QED
  BY <1>1, <1>2, <1>3, <1>4, <1>5, <1>6, <1>7, <1>8, <1>9 DEF WildcardNext, WildcardStep

\* However a queue is paused, resumed and killed, what it counts as done is: see IndexIsEarned.
THEOREM QueueHolds == WildcardSpec => []QueueInv
<1>1. WildcardInit => QueueInv
  <2> SUFFICES ASSUME WildcardInit PROVE QueueInv
    OBVIOUS
  <2>1. NoProgress \in ProgressType /\ NoProgress.hosts = <<>> /\ NoProgress.index = 0
    BY DEF NoProgress, ProgressType
  <2>2. Rest \in Fanouts /\ Rest.pc = "rest"
    BY RestTyped
  <2>3. queueFile.next = 1 /\ queueFile.progress = NoProgress
    BY DEF WildcardInit
  <2>4. 1 \in 1 .. Last + 1 /\ 0 \in 0 .. MaxRuns
    BY HostsTyped, QueueAssumption
  <2> QED
    BY <2>1, <2>2, <2>3, <2>4 DEF WildcardInit, QueueInv, Earned
<1> QED
  BY <1>1, QueueStep, PTL DEF WildcardSpec

LEMMA IndexEarned == QueueInv => IndexIsEarned
BY ProgressFields DEF QueueInv, Earned, IndexIsEarned

-----------------------------------------------------------------------------
(* The run of a task in Greenbone.                                          *)

\* Before a task is started.
Unstarted == {"new", "config", "scanner", "ports", "target", "task", "start"}

\* A task that runs is the one the run is about to stop, or one whose start was not answered; and
\* what is exported is done.
TrackingInv ==
    /\ GreenboneTypeOK
    /\ stage \in Unstarted => startedTaskID = NoTask
    /\ stage \in Unstarted \ {"start"} => \A t \in Task : gvmd[t] \in {NoTask, "new"}
    /\ stage \in {"start", "poll", "wait", "export", "artifact"} => taskID \in Task
    /\ stage \in {"poll", "wait"} => startedTaskID = taskID
    /\ stage \in {"export", "artifact"} => gvmd[taskID] = "done"
    /\ \A t \in Task : gvmd[t] = "running" =>
         t = startedTaskID \/ t \in unanswered \/ (stage = "ended" /\ result.warned)
    /\ stage = "ended" /\ ~result.warned => \A t \in Task : gvmd[t] = "running" => t \in unanswered
    /\ result.status = "completed" => stage = "ended" /\ taskID \in Task /\ gvmd[taskID] = "done"

\* What gvmd does for a call keeps a task that is done, and starts none but the task of the run.
LEMMA ServedKeeps ==
    ASSUME TrackingInv, stage \in Calls \ {"poll"}, ServesCall(stage)
    PROVE  /\ Served(stage) \in [Task -> {NoTask, "new", "running", "done", "stopped"}]
           /\ stage \in {"export", "scanner", "config", "ports", "target"} => Served(stage) = gvmd
           /\ stage = "task" => \A t \in Task : Served(stage)[t] \in {NoTask, "new"}
           /\ stage = "start" => \A t \in Task \ {taskID} : Served(stage)[t] = gvmd[t]
BY TaskAssumption DEF TrackingInv, GreenboneTypeOK, Served, Task, Calls, Unstarted

\* Every step keeps a running task tracked.
LEMMA TrackingStep ==
    ASSUME TrackingInv, [GreenboneNext]_gvmVars
    PROVE  TrackingInv'
<1> USE DEF TrackingInv
<1>1. CASE Refuse \/ BeginScan
  BY <1>1, TaskAssumption DEF Refuse, BeginScan, GreenboneTypeOK, Unstarted, Calls, remote
<1>2. CASE Dial \/ Rejected
  BY <1>2, TaskAssumption DEF Dial, Rejected, GreenboneTypeOK, Unstarted, Calls, remote
<1>3. CASE Answered
  <2>1. CASE stage = "task"
    <3>1. /\ stage' = "start" /\ taskID' \in Task /\ UNCHANGED <<startedTaskID, result, unanswered>>
          /\ gvmd' \in [Task -> {NoTask, "new", "running", "done", "stopped"}]
          /\ \A t \in Task : gvmd'[t] \in {NoTask, "new"}
      BY <1>3, <2>1, ServedKeeps DEF Answered, Following, NewTask, Task, Calls
    <3> QED
      BY <1>3, <2>1, <3>1, TaskAssumption DEF Answered, GreenboneTypeOK, Unstarted, Calls, Task
  <2>2. CASE stage = "start"
    <3>1. /\ stage' = "poll" /\ taskID' = taskID /\ startedTaskID' = taskID
          /\ UNCHANGED <<result, unanswered>>
          /\ gvmd' \in [Task -> {NoTask, "new", "running", "done", "stopped"}]
          /\ \A t \in Task \ {taskID} : gvmd'[t] = gvmd[t]
      BY <1>3, <2>2, ServedKeeps DEF Answered, Following
    <3> QED
      BY <1>3, <2>2, <3>1, TaskAssumption DEF Answered, GreenboneTypeOK, Unstarted, Calls, Task
  <2>3. CASE stage \in {"config", "scanner", "ports", "target", "export"}
    <3>1. /\ UNCHANGED <<gvmd, taskID, startedTaskID, result, unanswered>>
          /\ stage' \in {"scanner", "ports", "target", "task", "fail", "artifact"}
          /\ stage' = "artifact" => stage = "export"
          /\ stage = "export" => stage' = "artifact"
      BY <1>3, <2>3, ServedKeeps DEF Answered, Following
    <3> QED
      BY <1>3, <2>3, <3>1, TaskAssumption DEF Answered, GreenboneTypeOK, Unstarted, Calls, Task
  <2> QED
    BY <1>3, <2>1, <2>2, <2>3 DEF Answered, Calls
<1>4. CASE Lost
  <2>1. stage' \in {stage, "fail"} /\ UNCHANGED <<taskID, startedTaskID, scanContext, result>>
    BY <1>4 DEF Lost
  <2>2. gmp' \in BOOLEAN /\ tries' \in 0 .. 1 /\ stage \in Calls
    <3>1. tries' = 0 + 1 \/ tries' = tries
      BY <1>4 DEF Lost, Again
    <3>2. tries' \in 0 .. 1
      BY <3>1 DEF GreenboneTypeOK
    <3> QED
      BY <1>4, <3>2 DEF Lost
  <2>3. CASE UNCHANGED remote
    BY <2>1, <2>2, <2>3, TaskAssumption DEF GreenboneTypeOK, Unstarted, Calls, Task, remote
  <2>4. CASE /\ ServesCall(stage) /\ gvmd' = Served(stage)
             /\ unanswered' = IF stage = "start" THEN unanswered \cup {taskID} ELSE unanswered
    <3>1. CASE stage = "poll"
      BY <2>1, <2>2, <2>4, <3>1, TaskAssumption
         DEF Served, GreenboneTypeOK, Unstarted, Calls, Task
    <3>2. CASE stage # "poll"
      BY <2>1, <2>2, <2>4, <3>2, ServedKeeps, TaskAssumption
         DEF GreenboneTypeOK, Unstarted, Calls, Task
    <3> QED
      BY <3>1, <3>2
  <2> QED
    BY <1>4, <2>3, <2>4 DEF Lost
<1>5. CASE Polled
  <2>1. /\ UNCHANGED <<gvmd, taskID, scanContext, result, unanswered, gmp>> /\ tries' = 0
        /\ stage = "poll"
        /\ stage' \in {"export", "fail", "wait"} /\ (stage' = "export" => gvmd[taskID] = "done")
        /\ stage' = "wait" => startedTaskID' = startedTaskID
        /\ startedTaskID' = IF gvmd[taskID] \in {"done", "stopped"} THEN NoTask ELSE startedTaskID
    BY <1>5 DEF Polled, remote
  <2> QED
    BY <2>1, TaskAssumption DEF GreenboneTypeOK, Unstarted, Calls, Task
<1>6. CASE Wait \/ Artifact
  BY <1>6, TaskAssumption DEF Wait, Artifact, GreenboneTypeOK, Unstarted, Calls, Task, remote
<1>7. CASE FailUnstarted
  BY <1>7, TaskAssumption
     DEF FailUnstarted, Ends, Stops, GreenboneTypeOK, Unstarted, Calls, Task
<1>8. CASE FailStarted
  <2>1. startedTaskID \in Task /\ startedTaskID = taskID
    BY <1>8 DEF FailStarted, Stops, GreenboneTypeOK
  <2> DEFINE status == IF scanContext = "cancelled" THEN "cancelled" ELSE "failed"
  <2>4. PICK warned \in BOOLEAN :
             /\ stage' = "ended" /\ result' = [status |-> status, warned |-> warned]
             /\ UNCHANGED <<tries, gmp, taskID, startedTaskID, scanContext, unanswered>>
             /\ gvmd' = gvmd \/ gvmd' = Stopped(startedTaskID)
             /\ ~warned => gvmd' = Stopped(startedTaskID)
    BY <1>8 DEF FailStarted, Ends
  <2>2. /\ stage' = "ended"
        /\ UNCHANGED <<tries, gmp, taskID, startedTaskID, scanContext, unanswered>>
        /\ result' \in [status : {"cancelled", "failed"}, warned : BOOLEAN]
        /\ gvmd' = gvmd \/ gvmd' = Stopped(startedTaskID)
        /\ ~result'.warned => gvmd' = Stopped(startedTaskID)
    BY <2>4
  <2>3. /\ Stopped(startedTaskID) \in [Task -> {NoTask, "new", "running", "done", "stopped"}]
        /\ Stopped(startedTaskID)[startedTaskID] # "running"
        /\ \A t \in Task : t # startedTaskID => Stopped(startedTaskID)[t] = gvmd[t]
    BY <2>1 DEF Stopped, GreenboneTypeOK
  <2> QED
    BY <1>8, <2>1, <2>2, <2>3, TaskAssumption DEF FailStarted, GreenboneTypeOK, Unstarted
<1>9. CASE RemoteTaskEnds
  BY <1>9, TaskAssumption DEF RemoteTaskEnds, GreenboneTypeOK, Unstarted, Task
<1>10. CASE ContextEnds
  BY <1>10 DEF ContextEnds, GreenboneTypeOK, Unstarted, remote
<1>11. CASE UNCHANGED gvmVars
  BY <1>11 DEF gvmVars, GreenboneTypeOK
<1> QED
  BY <1>1, <1>2, <1>3, <1>4, <1>5, <1>6, <1>7, <1>8, <1>9, <1>10, <1>11 DEF GreenboneNext

\* No task of a run that has ended is left running without a word: see TaskIsTracked.
THEOREM TrackingHolds == GreenboneSpec => []TrackingInv
<1>1. GreenboneInit => TrackingInv
  <2> SUFFICES ASSUME GreenboneInit PROVE TrackingInv
    OBVIOUS
  <2>1. \A t \in Task : gvmd[t] = NoTask
    BY DEF GreenboneInit
  <2>2. GreenboneTypeOK
    <3>1. gvmd \in [Task -> {NoTask, "new", "running", "done", "stopped"}]
      BY DEF GreenboneInit
    <3>2. result \in [status : {"running", "completed", "failed", "cancelled"}, warned : BOOLEAN]
      BY DEF GreenboneInit
    <3>3. tries \in 0 .. 1 /\ unanswered \subseteq Task
      BY DEF GreenboneInit
    <3>4. gmp \in BOOLEAN
      BY Zenon DEF GreenboneInit
    <3> QED
      BY <3>1, <3>2, <3>3, <3>4 DEF GreenboneInit, GreenboneTypeOK
  <2> QED
    BY <2>1, <2>2, TaskAssumption DEF GreenboneInit, TrackingInv, Unstarted
<1> QED
  BY <1>1, TrackingStep, PTL DEF GreenboneSpec

LEMMA Tracked == TrackingInv => TaskIsTracked
BY DEF TrackingInv, TaskIsTracked

-----------------------------------------------------------------------------
(* The pipeline.                                                            *)

Statuses == Ended \union {"running", NoRun}

\* A list that names no host twice.
HostLists == {hs \in Seq(Hosts) \ {<<>>} : \A i, j \in DOMAIN hs : hs[i] = hs[j] => i = j}
Listed(hs) == {hs[i] : i \in DOMAIN hs}

\* A record keeps the run of recon apart from the runs of the scanners.
LEMMA ReconApart == Recon \notin Pairs
BY DEF Recon, Pairs

LEMMA PipelineLists ==
    /\ HostSeq \in HostLists /\ SubSeq(HostSeq, 1, 1) \in HostLists
    /\ Width \in Nat \ {0}
<1>1. HostSeq \in HostLists
  BY PipelineAssumption DEF HostLists, Hosts
<1>2. Len(HostSeq) >= 1 /\ HostSeq \in Seq(Hosts)
  BY <1>1 DEF HostLists
<1>3. SubSeq(HostSeq, 1, 1) \in HostLists
  <2>1. SubSeq(HostSeq, 1, 1) \in Seq(Hosts) /\ Len(SubSeq(HostSeq, 1, 1)) = 1
    BY <1>2
  <2> DEFINE hs == SubSeq(HostSeq, 1, 1)
  <2>2. hs \in Seq(Hosts) /\ Len(hs) = 1
    BY <2>1
  <2> HIDE DEF hs
  <2>3. DOMAIN hs = 1 .. 1 /\ hs # <<>>
    BY <2>2
  <2>4. \A i, j \in DOMAIN hs : hs[i] = hs[j] => i = j
    BY <2>3
  <2> QED
    BY <2>2, <2>3, <2>4 DEF HostLists, hs
<1>4. Width \in Nat \ {0}
  BY PipelineAssumption DEF Width
<1> QED
  BY <1>1, <1>3, <1>4

\* Division with remainder.
LEMMA DivLaw ==
    ASSUME NEW w \in Nat \ {0}, NEW n \in Nat, NEW x \in Nat, x < n * w
    PROVE  /\ x \div w \in 0 .. n - 1 /\ x % w \in 0 .. w - 1
           /\ x = w * (x \div w) + (x % w)
<1>1. n * w \in Nat
  OBVIOUS
<1>2. x = w * (x \div w) + (x % w)
  BY <1>1, SMT
<1>3. x % w \in 0 .. w - 1
  BY <1>1, SMT
<1>4. x \div w \in Nat
  BY <1>1, SMT
<1>5. x \div w < n
  BY <1>1, <1>2, <1>3, <1>4, SMT
<1> QED
  BY <1>2, <1>3, <1>4, <1>5

\* The number of a pair in the walk.
LEMMA SlotNumber ==
    ASSUME NEW w \in Nat \ {0}, NEW n \in Nat, NEW i \in 1 .. n, NEW j \in 1 .. w
    PROVE  /\ (i - 1) * w + j \in 1 .. n * w
           /\ ((i - 1) * w + j - 1) \div w = i - 1
           /\ ((i - 1) * w + j - 1) % w = j - 1
<1>1. (i - 1) * w + j \in 1 .. n * w
  <2>1. (i - 1) * w + w = i * w /\ i * w \in Nat /\ (i - 1) * w \in Nat /\ n * w \in Nat
    OBVIOUS
  <2>2. i * w <= n * w
    OBVIOUS
  <2> QED
    BY <2>1, <2>2
<1> DEFINE x == (i - 1) * w + j - 1
<1>2. x \in Nat /\ x < n * w /\ x = w * (i - 1) + (j - 1)
  BY <1>1
<1> HIDE DEF x
<1> DEFINE q == x \div w
           r == x % w
<1>3. x = w * q + r /\ q \in 0 .. n - 1 /\ r \in 0 .. w - 1
  BY <1>2, DivLaw
<1> HIDE DEF q, r
<1>4. q = i - 1
  <2>1. CASE q > i - 1
    <3>1. w * q >= w * i
      BY <2>1, <1>3
    <3>2. w * i = w * (i - 1) + w
      OBVIOUS
    <3> QED
      BY <3>1, <3>2, <1>3, <1>2
  <2>2. CASE q < i - 1
    <3>1. w * (q + 1) <= w * (i - 1)
      BY <2>2, <1>3
    <3>2. w * (q + 1) = w * q + w
      BY <1>3
    <3> QED
      BY <3>1, <3>2, <1>3, <1>2
  <2> QED
    BY <2>1, <2>2, <1>3
<1>5. r = j - 1
  BY <1>2, <1>3, <1>4
<1> QED
  BY <1>1, <1>4, <1>5 DEF x, q, r

\* What a list of hosts is.
LEMMA ListFacts ==
    ASSUME NEW hs \in HostLists
    PROVE  /\ Len(hs) \in Nat \ {0} /\ DOMAIN hs = 1 .. Len(hs) /\ Len(hs) * Width \in Nat
           /\ \A i \in DOMAIN hs : hs[i] \in Hosts
           /\ \A i, j \in DOMAIN hs : hs[i] = hs[j] => i = j
<1>1. hs \in Seq(Hosts) /\ hs # <<>> /\ \A i, j \in DOMAIN hs : hs[i] = hs[j] => i = j
  BY DEF HostLists
<1>2. Len(hs) \in Nat \ {0} /\ DOMAIN hs = 1 .. Len(hs) /\ \A i \in DOMAIN hs : hs[i] \in Hosts
  BY <1>1
<1>3. \A n \in Nat : n * Width \in Nat
  BY PipelineLists
<1> QED
  BY <1>1, <1>2, <1>3

\* Every slot is a host and a scanner of the walk ...
LEMMA SlotShape ==
    ASSUME hosts \in HostLists, NEW s \in Slots
    PROVE  \E i \in 1 .. Len(hosts), j \in 1 .. Width :
              /\ s = (i - 1) * Width + j /\ HostOf(s) = hosts[i] /\ RunnerOf(s) = RunnerSeq[j]
              /\ ScopeEnd(s) = i * Width
<1> DEFINE n == Len(hosts)
           w == Width
           x == s - 1
<1>1. w \in Nat \ {0} /\ n \in Nat \ {0} /\ x \in Nat /\ x < n * w
  BY PipelineLists, ListFacts DEF Slots
<1>2. /\ HostOf(s) = hosts[(x \div w) + 1] /\ RunnerOf(s) = RunnerSeq[(x % w) + 1]
      /\ ScopeEnd(s) = ((x \div w) + 1) * w
  BY DEF HostOf, RunnerOf, ScopeEnd
<1>3. s = x + 1
  BY ListFacts DEF Slots
<1> SUFFICES \E i \in 1 .. n, j \in 1 .. w :
                /\ s = (i - 1) * w + j /\ HostOf(s) = hosts[i] /\ RunnerOf(s) = RunnerSeq[j]
                /\ ScopeEnd(s) = i * w
  OBVIOUS
<1> HIDE DEF n, w, x
<1>4. x \div w \in 0 .. n - 1 /\ x % w \in 0 .. w - 1 /\ x = w * (x \div w) + (x % w)
  BY <1>1, DivLaw
<1> DEFINE q == x \div w
           r == x % w
<1>5. /\ q \in 0 .. n - 1 /\ r \in 0 .. w - 1 /\ x = w * q + r
      /\ HostOf(s) = hosts[q + 1] /\ RunnerOf(s) = RunnerSeq[r + 1] /\ ScopeEnd(s) = (q + 1) * w
  BY <1>2, <1>4
<1> HIDE DEF q, r
<1>6. q + 1 \in 1 .. n /\ r + 1 \in 1 .. w /\ s = (q + 1 - 1) * w + (r + 1)
  BY <1>1, <1>3, <1>5
<1> QED
  BY <1>5, <1>6

LEMMA RunnerFacts ==
    /\ DOMAIN RunnerSeq = 1 .. Width /\ \A i \in 1 .. Width : RunnerSeq[i] \in Runners
    /\ \A i, j \in 1 .. Width : RunnerSeq[i] = RunnerSeq[j] => i = j
BY PipelineAssumption DEF Width, Runners

LEMMA SlotPair ==
    ASSUME hosts \in HostLists, NEW s \in Slots
    PROVE  /\ PairOf(s) \in Pairs /\ HostOf(s) \in Listed(hosts)
           /\ PairOf(s)[1] = HostOf(s) /\ PairOf(s)[2] = RunnerOf(s)
           /\ s \in Nat /\ ScopeEnd(s) \in s .. Len(hosts) * Width
<1>1. PICK i \in 1 .. Len(hosts), j \in 1 .. Width :
         /\ s = (i - 1) * Width + j /\ HostOf(s) = hosts[i] /\ RunnerOf(s) = RunnerSeq[j]
         /\ ScopeEnd(s) = i * Width
  BY SlotShape
<1>2. HostOf(s) \in Listed(hosts) /\ HostOf(s) \in Hosts /\ RunnerOf(s) \in Runners
  BY <1>1, ListFacts, RunnerFacts DEF Listed
<1>3. s \in Nat /\ ScopeEnd(s) \in s .. Len(hosts) * Width
  <2> DEFINE n == Len(hosts)
             w == Width
  <2>1. /\ n \in Nat \ {0} /\ w \in Nat \ {0} /\ i \in 1 .. n /\ j \in 1 .. w
        /\ s = (i - 1) * w + j /\ ScopeEnd(s) = i * w
    BY <1>1, ListFacts, PipelineLists
  <2> HIDE DEF n, w
  <2>2. i * w = (i - 1) * w + w /\ i * w <= n * w /\ (i - 1) * w \in Nat /\ n * w \in Nat
    BY <2>1
  <2>3. s \in Nat /\ ScopeEnd(s) \in s .. n * w
    BY <2>1, <2>2
  <2> QED
    BY <2>3 DEF n, w
<1> QED
  BY <1>2, <1>3 DEF PairOf, Pairs

\* ... no two of them are the same ...
LEMMA SlotUnique ==
    ASSUME hosts \in HostLists, NEW s \in Slots, NEW z \in Slots, PairOf(s) = PairOf(z)
    PROVE  s = z
<1>1. PICK i \in 1 .. Len(hosts), j \in 1 .. Width :
         s = (i - 1) * Width + j /\ HostOf(s) = hosts[i] /\ RunnerOf(s) = RunnerSeq[j]
  BY SlotShape
<1>2. PICK k \in 1 .. Len(hosts), l \in 1 .. Width :
         z = (k - 1) * Width + l /\ HostOf(z) = hosts[k] /\ RunnerOf(z) = RunnerSeq[l]
  BY SlotShape
<1>3. hosts[i] = hosts[k] /\ RunnerSeq[j] = RunnerSeq[l]
  BY <1>1, <1>2 DEF PairOf
<1>4. i = k /\ j = l
  BY <1>3, ListFacts, RunnerFacts
<1> QED
  BY <1>1, <1>2, <1>4

\* ... and every scanner has one for every host of the session.
LEMMA SlotOfPair ==
    ASSUME hosts \in HostLists, NEW p \in Pairs, p[1] \in Listed(hosts)
    PROVE  \E s \in Slots : PairOf(s) = p
<1>1. PICK i \in 1 .. Len(hosts) : p[1] = hosts[i]
  BY ListFacts DEF Listed
<1>2. PICK j \in 1 .. Width : p[2] = RunnerSeq[j]
  BY RunnerFacts DEF Pairs, Runners
<1> DEFINE n == Len(hosts)
           w == Width
           s == (i - 1) * w + j
<1>3. n \in Nat \ {0} /\ w \in Nat \ {0} /\ i \in 1 .. n /\ j \in 1 .. w
  BY ListFacts, PipelineLists
<1> HIDE DEF n, w
<1>4. s \in 1 .. n * w /\ (s - 1) \div w = i - 1 /\ (s - 1) % w = j - 1
  BY <1>3, SlotNumber
<1> HIDE DEF s
<1>5. s \in Slots /\ (s - 1) \div Width = i - 1 /\ (s - 1) % Width = j - 1
  BY <1>4 DEF n, w, Slots
<1>6. HostOf(s) = hosts[i] /\ RunnerOf(s) = RunnerSeq[j]
  <2>1. (i - 1) + 1 = i /\ (j - 1) + 1 = j
    OBVIOUS
  <2> QED
    BY <1>5, <2>1 DEF HostOf, RunnerOf
<1>7. PairOf(s) = p
  BY <1>1, <1>2, <1>6 DEF PairOf, Pairs
<1> QED
  BY <1>5, <1>7

\* The lists a session may take over name every host that has a finished run.
LEMMA OrdersAreLists ==
    ASSUME SeenHosts # {}
    PROVE  \A hs \in Orders(SeenHosts) : hs \in HostLists /\ Listed(hs) = SeenHosts
<1>1. IsFiniteSet(SeenHosts)
  <2>1. HostSeq \in Seq(Hosts) /\ DOMAIN HostSeq = 1 .. Len(HostSeq) /\ Len(HostSeq) \in Nat
    BY PipelineLists DEF HostLists
  <2>2. IsFiniteSet(1 .. Len(HostSeq))
    BY <2>1, FS_Interval
  <2>3. HostSeq \in Surjection(1 .. Len(HostSeq), Hosts)
    BY <2>1 DEF Surjection, Hosts
  <2>4. IsFiniteSet(Hosts) /\ SeenHosts \subseteq Hosts
    BY <2>2, <2>3, FS_Surjection DEF SeenHosts
  <2> QED
    BY <2>4, FS_Subset
<1>2. Cardinality(SeenHosts) \in Nat
  BY <1>1, FS_CardinalityType
<1>3. ASSUME NEW hs \in Orders(SeenHosts)
      PROVE  hs \in HostLists /\ Listed(hs) = SeenHosts
  <2>1. /\ hs \in [1 .. Cardinality(SeenHosts) -> SeenHosts]
        /\ \A h \in SeenHosts : \E i \in DOMAIN hs : \A j \in DOMAIN hs : hs[j] = h <=> j = i
    BY <1>3 DEF Orders
  <2>2. hs \in Seq(SeenHosts)
    BY <1>2, <2>1
  <2>3. hs \in Seq(Hosts)
    <3>1. SeenHosts \subseteq Hosts
      BY DEF SeenHosts
    <3> QED
      BY <2>2, <3>1
  <2>4. Listed(hs) = SeenHosts
    BY <2>1 DEF Listed
  <2>5. hs # <<>>
    BY <2>4 DEF Listed
  <2>6. \A i, j \in DOMAIN hs : hs[i] = hs[j] => i = j
    BY <2>1
  <2> QED
    BY <2>3, <2>4, <2>5, <2>6 DEF HostLists
<1> QED
  BY <1>3

-----------------------------------------------------------------------------
NoTasks == [todo |-> <<>>, out |-> 0]
In(pcs) == session.pc \in pcs

Sessions == [n : 0 .. MaxSessions, ctx : {"live", "cancelled"}, at : Nat,
             pc : {"idle", "recon", "reconSave", "walk", "pool", "finished"}]

TypedInv ==
    /\ session \in Sessions
    /\ record \in [Pairs \union {Recon} -> Statuses]
    /\ existing \in [Pairs \union {Recon} -> Statuses]
    /\ executed \in [Pairs -> Nat]
    /\ hostFile \in HostLists \union {NoRun}
    /\ tasks \in [todo : Seq(Nat), out : Nat]

\* What has run is terminal in the record, and its host is in whatever list a session may take;
\* nothing has run before a recon ended, nor under a list that another list replaces.
HistoryInv ==
    /\ \A p \in Pairs : /\ executed[p] \in {0, 1}
                        /\ executed[p] = 1 => /\ record[p] \in Terminal
                                              /\ record[Recon] \in Terminal
                                              /\ hostFile = NoRun \/ p[1] \in Listed(hostFile)
    /\ hostFile # NoRun => record[Recon] \in Terminal
    /\ In({"recon"}) => record = existing
    /\ In({"reconSave"}) => /\ hosts \in HostLists /\ hostFile = NoRun /\ record[Recon] \in Terminal
                            /\ \A p \in Pairs : executed[p] = 0
    /\ In({"walk", "pool"}) =>
         /\ hosts \in HostLists /\ hostFile \in {NoRun, hosts} /\ record[Recon] \in Terminal
         /\ \A p \in Pairs : executed[p] = 1 =>
              /\ p[1] \in Listed(hosts)
              /\ existing[p] \in Terminal \/ \E s \in Slots : PairOf(s) = p /\ worker[s] = "done"

\* A slot that is decided has its result, one that is not has its place among the tasks, and a
\* task is handed out once, for a pair that has not ended before.
Known(s) == results[s] \in Ended \/ \E i \in DOMAIN tasks.todo : tasks.todo[i] = s

SlotsInv ==
    /\ DOMAIN results = DOMAIN worker
    /\ ~In({"pool"}) => \A s \in DOMAIN worker : worker[s] \in {"none", "done"}
    /\ In({"recon", "reconSave"}) => tasks = NoTasks /\ session.at = 1
    /\ In({"walk", "pool"}) =>
         /\ DOMAIN worker = Slots
         /\ tasks.out \in 0 .. Len(tasks.todo)
         /\ \A i \in DOMAIN tasks.todo :
              /\ tasks.todo[i] \in Slots /\ existing[PairOf(tasks.todo[i])] \notin Terminal
              /\ \A j \in DOMAIN tasks.todo : tasks.todo[i] = tasks.todo[j] => i = j
         /\ \A s \in Slots : worker[s] = "done" => results[s] \in Ended
         /\ \A s \in Slots : worker[s] # "none" <=> \E i \in 1 .. tasks.out : tasks.todo[i] = s
         /\ \A s \in Slots : worker[s] \in {"none", "spawned", "heavyWait", "running", "done"}
    /\ In({"walk"}) =>
         /\ session.at \in 1 .. Len(hosts) * Width + 1 /\ tasks.out = 0
         /\ \A i \in DOMAIN tasks.todo : tasks.todo[i] < session.at
         /\ \A s \in Slots : s < session.at => Known(s)
    /\ In({"pool"}) => \A s \in Slots : Known(s)
    /\ In({"finished"}) => \A s \in Slots : results[s] \in Ended

PipeInv == TypedInv /\ HistoryInv /\ SlotsInv

\* While the hosts are the same, so are the slots.
LEMMA SameSlots ==
    ASSUME hosts' = hosts
    PROVE  Slots' = Slots /\ \A s : PairOf(s)' = PairOf(s)
BY DEF Slots, PairOf, HostOf, RunnerOf

\* An event of the session changes the record of the pairs it is about.
LEMMA TellsFacts ==
    ASSUME TypedInv, hosts \in HostLists, NEW S \in SUBSET Slots, NEW status \in Statuses,
           Tells(S, status)
    PROVE  /\ record' \in [Pairs \union {Recon} -> Statuses]
           /\ record'[Recon] = record[Recon]
           /\ \A p \in Pairs : record'[p] = record[p] \/ (record'[p] = status /\ \E s \in S : PairOf(s) = p)
<1>1. /\ DOMAIN record = Pairs \union {Recon}
      /\ record' = [p \in Pairs \union {Recon} |->
                      IF \E s \in S : PairOf(s) = p THEN status ELSE record[p]]
  BY DEF TypedInv, Tells
<1>2. \A s \in S : PairOf(s) \in Pairs
  BY SlotPair
<1>3. record' \in [Pairs \union {Recon} -> Statuses]
  BY <1>1 DEF TypedInv, Sessions
<1>4. record'[Recon] = record[Recon]
  BY <1>1, <1>2, ReconApart
<1>5. ASSUME NEW p \in Pairs
      PROVE  record'[p] = record[p] \/ (record'[p] = status /\ \E s \in S : PairOf(s) = p)
  BY <1>1
<1> QED
  BY <1>3, <1>4, <1>5

\* In the walk and in the pool, what has run stays run.
LEMMA HistoryWalks ==
    ASSUME PipeInv, UNCHANGED <<existing, hosts, hostFile, executed>>,
           In({"walk", "pool"}), session'.pc \in {"walk", "pool"}, record'[Recon] = record[Recon],
           \A p \in Pairs : executed[p] = 1 => record'[p] \in Terminal,
           \A s \in Slots : worker[s] = "done" => worker'[s] = "done"
    PROVE  HistoryInv'
<1>1. Slots' = Slots /\ \A s : PairOf(s)' = PairOf(s)
  BY SameSlots
<1>2. In({"walk", "pool"})' /\ ~In({"recon"})' /\ ~In({"reconSave"})'
  BY DEF In
<1> QED
  BY <1>1, <1>2 DEF PipeInv, HistoryInv, In, Listed

LEMMA StartKeeps == ASSUME PipeInv, Start PROVE PipeInv'
<1> USE DEF PipeInv
<1>1. /\ session' = [n |-> session.n + 1, pc |-> "recon", ctx |-> "live", at |-> 1]
      /\ session.n < MaxSessions /\ existing' = record
      /\ hosts' = <<>> /\ results' = <<>> /\ worker' = <<>> /\ tasks' = NoTasks
      /\ UNCHANGED <<record, hostFile, executed>>
  BY DEF Start, NoTasks
<1>2. TypedInv'
  <2>1. tasks' \in [todo : Seq(Nat), out : Nat]
    BY <1>1 DEF NoTasks
  <2>2. session.n + 1 \in 0 .. MaxSessions
    BY <1>1, PipelineAssumption DEF TypedInv, Sessions
  <2> QED
    BY <1>1, <2>1, <2>2 DEF TypedInv, Sessions
<1>3. HistoryInv'
  BY <1>1 DEF HistoryInv, In
<1>4. SlotsInv'
  BY <1>1 DEF SlotsInv, In
<1> QED
  BY <1>2, <1>3, <1>4

LEMMA CancelKeeps == ASSUME PipeInv, Cancel PROVE PipeInv'
<1> USE DEF PipeInv
<1>1. /\ session' = [session EXCEPT !.ctx = "cancelled"]
      /\ UNCHANGED <<record, existing, hosts, hostFile, results, tasks, worker, executed>>
  BY DEF Cancel
<1>2. TypedInv' /\ session'.pc = session.pc /\ session'.at = session.at
  BY <1>1 DEF TypedInv, Sessions
<1>3. Slots' = Slots /\ \A s : PairOf(s)' = PairOf(s)
  BY <1>1, SameSlots
<1>4. HistoryInv'
  BY <1>1, <1>2, <1>3 DEF HistoryInv, In, Listed
<1>5. SlotsInv'
  BY <1>1, <1>2, <1>3 DEF SlotsInv, In, Known
<1> QED
  BY <1>2, <1>4, <1>5

LEMMA CrashKeeps == ASSUME PipeInv, CrashSession PROVE PipeInv'
<1> USE DEF PipeInv
<1>1. /\ session' = [session EXCEPT !.pc = "idle"] /\ tasks' = NoTasks
      /\ hosts' = <<>> /\ results' = <<>> /\ worker' = <<>>
      /\ UNCHANGED <<record, existing, hostFile, executed>>
  BY DEF CrashSession, SessionGoes, NoTasks
<1>2. tasks' \in [todo : Seq(Nat), out : Nat]
  BY <1>1 DEF NoTasks
<1>3. TypedInv' /\ session'.pc = "idle"
  BY <1>1, <1>2 DEF TypedInv, Sessions
<1>4. HistoryInv'
  BY <1>1, <1>3 DEF HistoryInv, In
<1>5. SlotsInv'
  BY <1>1, <1>3 DEF SlotsInv, In
<1> QED
  BY <1>3, <1>4, <1>5

\* What a session takes over names the host of everything that has run.
LEMMA ListsTakenOver ==
    ASSUME PipeInv, In({"recon"}), Reusable, NEW hs \in ReusableLists
    PROVE  /\ hs \in HostLists /\ hostFile \in {NoRun, hs} /\ record[Recon] \in Terminal
           /\ \A p \in Pairs : executed[p] = 1 => p[1] \in Listed(hs) /\ existing[p] \in Terminal
<1> USE DEF PipeInv
<1>1. existing = record /\ record[Recon] \in Terminal
  BY DEF HistoryInv, Reusable
<1>2. \A p \in Pairs : executed[p] = 1 => existing[p] \in Terminal
  BY <1>1 DEF HistoryInv
<1>3. CASE hostFile # NoRun
  <2>1. hs = hostFile
    BY <1>1, <1>3 DEF ReusableLists
  <2> QED
    BY <1>1, <1>2, <1>3, <2>1 DEF HistoryInv, TypedInv
<1>4. CASE hostFile = NoRun
  <2>1. SeenHosts # {} /\ hs \in Orders(SeenHosts)
    BY <1>1, <1>4 DEF Reusable, ReusableLists
  <2>2. hs \in HostLists /\ Listed(hs) = SeenHosts
    BY <2>1, OrdersAreLists
  <2>3. ASSUME NEW p \in Pairs, executed[p] = 1
        PROVE  p[1] \in SeenHosts
    <3>1. PICK h \in Hosts, r \in Runners : p = <<h, r>>
      BY DEF Pairs
    <3>2. existing[<<h, r>>] \in Terminal /\ p[1] = h
      BY <1>2, <2>3, <3>1
    <3> QED
      BY <3>2 DEF SeenHosts
  <2> QED
    BY <1>1, <1>2, <1>4, <2>2, <2>3
<1> QED
  BY <1>3, <1>4

\* The walk begins with no slot decided.
LEMMA WalksKeeps ==
    ASSUME PipeInv, In({"recon", "reconSave"}), NEW hs \in HostLists, Walks(hs), tasks' = tasks
    PROVE  SlotsInv' /\ session' = [session EXCEPT !.pc = "walk"] /\ session'.pc = "walk"
<1> USE DEF PipeInv
<1>1. /\ hosts' = hs /\ session' = [session EXCEPT !.pc = "walk"] /\ tasks = NoTasks
      /\ results' = [s \in 1 .. Len(hs) * Width |-> NoRun]
      /\ worker' = [s \in 1 .. Len(hs) * Width |-> "none"] /\ session.at = 1
  BY DEF Walks, SessionGoes, SlotsInv
<1>2. session'.pc = "walk" /\ session'.at = 1
  BY <1>1 DEF TypedInv, Sessions
<1>3. Slots' = 1 .. Len(hs) * Width /\ Len(hs) * Width \in Nat
  BY <1>1, ListFacts DEF Slots
<1>4. /\ tasks'.todo = <<>> /\ tasks'.out = 0 /\ Len(tasks'.todo) = 0
      /\ DOMAIN tasks'.todo = {}
  BY <1>1 DEF NoTasks
<1>5. \A s \in Slots' : worker'[s] = "none" /\ ~(s < 1)
  BY <1>1, <1>3
<1>6. DOMAIN worker' = Slots' /\ DOMAIN results' = Slots'
  BY <1>1, <1>3
<1>7. \A s \in Slots' : ~ \E i \in 1 .. tasks'.out : tasks'.todo[i] = s
  BY <1>4
<1>8. 1 \in 1 .. Len(hosts') * Width + 1
  BY <1>1, <1>3
<1>9. 0 \in 0 .. 0
  OBVIOUS
<1> QED
  BY <1>1, <1>2, <1>4, <1>5, <1>6, <1>7, <1>8, <1>9 DEF SlotsInv, In

LEMMA ReuseReconKeeps == ASSUME PipeInv, ReuseRecon PROVE PipeInv'
<1> USE DEF PipeInv
<1>1. PICK hs \in ReusableLists : Walks(hs)
  BY DEF ReuseRecon
<1>2. In({"recon"}) /\ In({"recon", "reconSave"}) /\ Reusable
      /\ UNCHANGED <<record, existing, hostFile, tasks, executed>>
  BY DEF ReuseRecon, SessionAt, In
<1>3. /\ hs \in HostLists /\ hostFile \in {NoRun, hs} /\ record[Recon] \in Terminal
      /\ \A p \in Pairs : executed[p] = 1 => p[1] \in Listed(hs) /\ existing[p] \in Terminal
  BY <1>1, <1>2, ListsTakenOver
<1>4. SlotsInv' /\ session' = [session EXCEPT !.pc = "walk"] /\ session'.pc = "walk" /\ hosts' = hs
  BY <1>1, <1>2, <1>3, WalksKeeps DEF Walks
<1>5. TypedInv'
  BY <1>2, <1>4 DEF TypedInv, Sessions
<1>6. HistoryInv'
  BY <1>2, <1>3, <1>4 DEF HistoryInv, In, Listed
<1> QED
  BY <1>4, <1>5, <1>6

LEMMA RunReconKeeps == ASSUME PipeInv, RunRecon PROVE PipeInv'
<1> USE DEF PipeInv
<1>1. /\ In({"recon"}) /\ ~ Reusable /\ session' = [session EXCEPT !.pc = "reconSave"]
      /\ UNCHANGED <<existing, hostFile, results, tasks, worker, executed>>
      /\ hosts' \in HostLists
      /\ \E status \in {"completed", "cancelled", "failed"} :
            record' = [record EXCEPT ![Recon] = status]
  BY PipelineLists DEF RunRecon, SessionAt, SessionGoes, In
<1>2. TypedInv' /\ session'.pc = "reconSave" /\ session'.at = session.at
  BY <1>1 DEF TypedInv, Sessions, Statuses, Ended
<1>3. record'[Recon] \in Terminal /\ \A p \in Pairs : record'[p] = record[p]
  BY <1>1, ReconApart DEF TypedInv, Terminal
<1>4. hostFile = NoRun /\ \A p \in Pairs : executed[p] = 0
  <2>1. record = existing
    BY <1>1 DEF HistoryInv
  <2>2. CASE existing[Recon] \notin Terminal
    BY <2>1, <2>2 DEF HistoryInv
  <2>3. CASE existing[Recon] \in Terminal
    <3>1. hostFile = NoRun /\ SeenHosts = {}
      BY <1>1, <2>3 DEF Reusable
    <3>2. ASSUME NEW p \in Pairs, executed[p] = 1
          PROVE  FALSE
      <4>1. PICK h \in Hosts, r \in Runners : p = <<h, r>>
        BY DEF Pairs
      <4>2. existing[<<h, r>>] \in Terminal
        BY <2>1, <3>2, <4>1 DEF HistoryInv
      <4> QED
        BY <3>1, <4>2 DEF SeenHosts
    <3> QED
      BY <3>1, <3>2 DEF HistoryInv
  <2> QED
    BY <2>2, <2>3
<1>5. HistoryInv'
  BY <1>1, <1>2, <1>3, <1>4 DEF HistoryInv, In
<1>6. SlotsInv'
  BY <1>1, <1>2 DEF SlotsInv, In
<1> QED
  BY <1>2, <1>5, <1>6

LEMMA SaveReconKeeps == ASSUME PipeInv, SaveRecon PROVE PipeInv'
<1> USE DEF PipeInv
<1>1. /\ In({"reconSave"}) /\ In({"recon", "reconSave"}) /\ Walks(hosts) /\ hostFile' \in {hosts, hostFile}
      /\ UNCHANGED <<record, existing, tasks, executed>>
  BY DEF SaveRecon, SessionAt, In
<1>2. hosts \in HostLists /\ hostFile = NoRun /\ record[Recon] \in Terminal /\ \A p \in Pairs : executed[p] = 0
  BY <1>1 DEF HistoryInv
<1>3. SlotsInv' /\ session' = [session EXCEPT !.pc = "walk"] /\ session'.pc = "walk" /\ hosts' = hosts
  BY <1>1, <1>2, WalksKeeps DEF Walks
<1>4. TypedInv'
  BY <1>1, <1>2, <1>3 DEF TypedInv, Sessions
<1>5. HistoryInv'
  BY <1>1, <1>2, <1>3 DEF HistoryInv, In
<1> QED
  BY <1>3, <1>4, <1>5

\* A step that decides a run of slots at the position of the walk.
LEMMA DecideKeeps ==
    ASSUME PipeInv, In({"walk"}), NEW m \in session.at .. Len(hosts) * Width,
           NEW f, \A s \in session.at .. m : f[s] \in Ended,
           Decided(session.at .. m, f, m + 1), UNCHANGED <<existing, hosts, tasks, worker>>
    PROVE  SlotsInv' /\ session' = [session EXCEPT !.at = m + 1] /\ session'.pc = "walk"
<1> USE DEF PipeInv
<1>1. /\ session' = [session EXCEPT !.at = m + 1] /\ hosts \in HostLists
      /\ results' = [s \in DOMAIN results |-> IF s \in session.at .. m THEN f[s] ELSE results[s]]
  BY DEF Decided, HistoryInv, In
<1>2. session'.pc = "walk" /\ session'.at = m + 1 /\ session.pc = "walk"
  BY <1>1 DEF TypedInv, Sessions, In
<1>3. Slots' = Slots /\ \A s : PairOf(s)' = PairOf(s)
  BY SameSlots
<1>4. /\ session.at \in 1 .. Len(hosts) * Width + 1 /\ Len(hosts) * Width \in Nat
      /\ m \in Nat /\ m + 1 \in 1 .. Len(hosts) * Width + 1 /\ session.at \in Nat /\ session.at <= m
      /\ Slots = 1 .. Len(hosts) * Width
  BY <1>1, <1>2, ListFacts DEF SlotsInv, In, Slots
<1>5. DOMAIN results' = Slots /\ DOMAIN worker = Slots
  BY <1>1, <1>2 DEF SlotsInv, In
<1>6. \A s \in Slots : IF s \in session.at .. m THEN results'[s] \in Ended ELSE results'[s] = results[s]
  BY <1>1, <1>5
<1>7. \A s \in Slots : results[s] \in Ended => results'[s] \in Ended
  BY <1>6
<1>8. ASSUME NEW s \in Slots, s < m + 1
      PROVE  Known(s)'
  <2>1. s \in Nat
    BY <1>4
  <2>2. CASE s < session.at
    <3>1. Known(s)
      BY <1>2, <2>2 DEF SlotsInv, In
    <3> QED
      BY <1>7, <3>1 DEF Known
  <2>3. CASE ~(s < session.at)
    <3>1. s \in session.at .. m
      BY <1>4, <1>8, <2>1, <2>3
    <3> QED
      BY <1>6, <3>1 DEF Known
  <2> QED
    BY <2>2, <2>3
<1>9. \A i \in DOMAIN tasks.todo : tasks.todo[i] < m + 1
  <2>1. \A i \in DOMAIN tasks.todo : tasks.todo[i] \in Slots /\ tasks.todo[i] < session.at
    BY <1>2 DEF SlotsInv, In
  <2> QED
    BY <1>4, <2>1
<1>10. m + 1 \in 1 .. Len(hosts') * Width + 1
  BY <1>4
<1> QED
  BY <1>1, <1>2, <1>3, <1>5, <1>7, <1>8, <1>9, <1>10 DEF SlotsInv, In

LEMMA WalkFacts ==
    ASSUME PipeInv, Walking
    PROVE  /\ In({"walk"}) /\ hosts \in HostLists /\ session.at \in Slots /\ session.at \in Nat
           /\ ScopeEnd(session.at) \in session.at .. Len(hosts) * Width
           /\ PairOf(session.at) \in Pairs
<1>1. In({"walk"}) /\ session.at <= Len(hosts) * Width /\ hosts \in HostLists
  BY DEF Walking, SessionAt, In, PipeInv, HistoryInv
<1>2. session.at \in 1 .. Len(hosts) * Width + 1 /\ Len(hosts) * Width \in Nat
  BY <1>1, ListFacts DEF PipeInv, SlotsInv
<1>3. session.at \in Slots
  BY <1>1, <1>2 DEF Slots
<1> QED
  BY <1>1, <1>2, <1>3, SlotPair

LEMMA WalkKeeps == ASSUME PipeInv, Walk PROVE PipeInv'
<1> USE DEF PipeInv
<1> DEFINE a == session.at
           p == PairOf(a)
<1>1. /\ In({"walk"}) /\ hosts \in HostLists /\ a \in Slots /\ a \in Nat /\ p \in Pairs
      /\ UNCHANGED <<existing, hosts, hostFile, tasks, worker, executed>>
  BY WalkFacts DEF Walk
<1>2. \/ existing[p] \in Terminal /\ Decided({a}, [x \in {a} |-> existing[p]], a + 1) /\ record' = record
      \/ \E status \in {"skipped", "not_applicable"} :
            Decided({a}, [x \in {a} |-> status], a + 1) /\ Tells({a}, status)
  BY DEF Walk
<1>3. PICK status \in Ended : Decided({a}, [x \in {a} |-> status], a + 1)
                              /\ (record' = record \/ (Tells({a}, status)))
  BY <1>2 DEF Ended, Terminal
<1> HIDE DEF a
<1>4. {a} = a .. a
  BY <1>1
<1>5. SlotsInv' /\ session' = [session EXCEPT !.at = a + 1] /\ session'.pc = "walk"
  <2> DEFINE f == [x \in {a} |-> status]
  <2>1. a \in session.at .. Len(hosts) * Width /\ \A s \in session.at .. a : f[s] \in Ended
    BY <1>1, <1>4 DEF a, Slots
  <2>2. Decided(session.at .. a, f, a + 1)
    BY <1>3, <1>4 DEF a
  <2> HIDE DEF f
  <2> QED
    BY <1>1, <2>1, <2>2, DecideKeeps
<1>6. /\ record' \in [Pairs \union {Recon} -> Statuses] /\ record'[Recon] = record[Recon]
      /\ \A q \in Pairs : record'[q] = record[q] \/ record'[q] \in Terminal
  <2>1. CASE record' = record
    BY <2>1 DEF TypedInv, Sessions
  <2>2. CASE Tells({a}, status)
    <3>1. status \in Statuses /\ {a} \in SUBSET Slots
      BY <1>1 DEF Statuses
    <3> QED
      BY <1>1, <2>2, <3>1, TellsFacts DEF Terminal, Ended
  <2> QED
    BY <1>3, <2>1, <2>2
<1>7. TypedInv'
  <2>1. session' \in Sessions
    <3>1. a + 1 \in Nat
      BY <1>1
    <3> QED
      BY <1>5, <3>1 DEF TypedInv, Sessions
  <2> QED
    BY <1>1, <1>6, <2>1 DEF TypedInv
<1>8. HistoryInv'
  <2>1. \A q \in Pairs : executed[q] = 1 => record'[q] \in Terminal
    BY <1>6 DEF HistoryInv
  <2>2. In({"walk", "pool"})
    BY <1>1 DEF In
  <2> QED
    BY <1>1, <1>5, <1>6, <2>1, <2>2, HistoryWalks
<1> QED
  BY <1>5, <1>7, <1>8

LEMMA WalkCancelledKeeps == ASSUME PipeInv, WalkCancelled PROVE PipeInv'
<1> USE DEF PipeInv
<1> DEFINE a == session.at
           m == ScopeEnd(a)
           f == [x \in a .. m |-> "cancelled"]
<1>1. /\ In({"walk"}) /\ hosts \in HostLists /\ a \in Slots /\ a \in Nat
      /\ m \in a .. Len(hosts) * Width /\ Len(hosts) * Width \in Nat
      /\ Decided(a .. m, f, m + 1) /\ Tells(a .. m, "cancelled")
      /\ UNCHANGED <<existing, hosts, hostFile, tasks, worker, executed>>
  BY WalkFacts, ListFacts DEF WalkCancelled, RestOfScope
<1> HIDE DEF m
<1>2. SlotsInv' /\ session' = [session EXCEPT !.at = m + 1] /\ session'.pc = "walk"
  <2>1. \A s \in a .. m : f[s] \in Ended
    BY DEF Ended
  <2> HIDE DEF f
  <2> QED
    BY <1>1, <2>1, DecideKeeps
<1>3. a .. m \in SUBSET Slots /\ m + 1 \in Nat
  <2> HIDE DEF a
  <2> QED
    BY <1>1 DEF Slots
<1>4. /\ record' \in [Pairs \union {Recon} -> Statuses] /\ record'[Recon] = record[Recon]
      /\ \A q \in Pairs : record'[q] = record[q] \/ record'[q] \in Terminal
  BY <1>1, <1>3, TellsFacts DEF Terminal, Ended, Statuses
<1>5. TypedInv'
  <2>1. session' \in Sessions
    BY <1>2, <1>3 DEF TypedInv, Sessions
  <2> QED
    BY <1>1, <1>4, <2>1 DEF TypedInv
<1>6. HistoryInv'
  <2>1. \A q \in Pairs : executed[q] = 1 => record'[q] \in Terminal
    BY <1>4 DEF HistoryInv
  <2>2. In({"walk", "pool"})
    BY <1>1 DEF In
  <2> QED
    BY <1>1, <1>2, <1>4, <2>1, <2>2, HistoryWalks
<1> QED
  BY <1>2, <1>5, <1>6

LEMMA WalkTaskKeeps == ASSUME PipeInv, WalkTask PROVE PipeInv'
<1> USE DEF PipeInv
<1> DEFINE a == session.at
           n == Len(tasks.todo)
<1>1. /\ In({"walk"}) /\ hosts \in HostLists /\ a \in Slots /\ a \in Nat
      /\ existing[PairOf(a)] \notin Terminal
      /\ tasks' = [tasks EXCEPT !.todo = Append(@, a)] /\ session' = [session EXCEPT !.at = @ + 1]
      /\ UNCHANGED <<record, existing, hosts, hostFile, results, worker, executed>>
  BY WalkFacts DEF WalkTask, Executable
<1>2. session.pc = "walk" /\ session'.pc = "walk" /\ session'.at = a + 1 /\ session' \in Sessions
  BY <1>1 DEF TypedInv, Sessions, In
<1>3. /\ tasks.todo \in Seq(Nat) /\ n \in Nat /\ DOMAIN tasks.todo = 1 .. n
      /\ tasks'.todo = Append(tasks.todo, a) /\ tasks'.out = tasks.out
      /\ tasks' \in [todo : Seq(Nat), out : Nat]
  <2>1. tasks \in [todo : Seq(Nat), out : Nat]
    BY DEF TypedInv
  <2>2. tasks.todo \in Seq(Nat) /\ n \in Nat /\ DOMAIN tasks.todo = 1 .. n
    BY <2>1
  <2> HIDE DEF a, n
  <2>3. Append(tasks.todo, a) \in Seq(Nat)
    BY <1>1, <2>2
  <2> QED
    BY <1>1, <2>1, <2>2, <2>3
<1> HIDE DEF a
<1>4. /\ DOMAIN tasks'.todo = 1 .. n + 1 /\ Len(tasks'.todo) = n + 1 /\ tasks'.todo[n + 1] = a
      /\ \A i \in 1 .. n : tasks'.todo[i] = tasks.todo[i]
  BY <1>1, <1>3
<1> HIDE DEF n
<1>5. TypedInv'
  BY <1>1, <1>2, <1>3 DEF TypedInv
<1>6. HistoryInv'
  <2>1. \A q \in Pairs : executed[q] = 1 => record'[q] \in Terminal
    BY <1>1 DEF HistoryInv
  <2>2. In({"walk", "pool"})
    BY <1>1 DEF In
  <2> QED
    BY <1>1, <1>2, <2>1, <2>2, HistoryWalks
<1>7. Slots' = Slots /\ \A s : PairOf(s)' = PairOf(s)
  BY <1>1, SameSlots
<1>8. /\ DOMAIN worker = Slots /\ DOMAIN results = DOMAIN worker /\ tasks.out = 0
      /\ \A i \in 1 .. n : /\ tasks.todo[i] \in Slots /\ existing[PairOf(tasks.todo[i])] \notin Terminal
                           /\ tasks.todo[i] < a
                           /\ \A j \in 1 .. n : tasks.todo[i] = tasks.todo[j] => i = j
      /\ \A s \in Slots : s < a => Known(s)
      /\ \A s \in Slots : worker[s] = "none"
  <2>1. /\ DOMAIN worker = Slots /\ DOMAIN results = DOMAIN worker /\ tasks.out = 0
        /\ \A s \in Slots : worker[s] # "none" <=> \E i \in 1 .. tasks.out : tasks.todo[i] = s
        /\ \A s \in Slots : s < a => Known(s)
    BY <1>2 DEF SlotsInv, In, a
  <2>2. \A i \in 1 .. n : /\ tasks.todo[i] \in Slots /\ existing[PairOf(tasks.todo[i])] \notin Terminal
                           /\ tasks.todo[i] < a
                           /\ \A j \in 1 .. n : tasks.todo[i] = tasks.todo[j] => i = j
    BY <1>2, <1>3 DEF SlotsInv, In, a
  <2>3. \A s \in Slots : worker[s] = "none"
    BY <2>1
  <2> QED
    BY <2>1, <2>2, <2>3
<1>9. ASSUME NEW i \in 1 .. n + 1
      PROVE  /\ tasks'.todo[i] \in Slots /\ existing[PairOf(tasks'.todo[i])] \notin Terminal
             /\ tasks'.todo[i] < a + 1
             /\ \A j \in 1 .. n + 1 : tasks'.todo[i] = tasks'.todo[j] => i = j
  <2>1. \A k \in Slots : k \in Nat
    BY <1>1, ListFacts DEF Slots
  <2>2. ASSUME NEW k \in 1 .. n + 1
        PROVE  \/ k \in 1 .. n /\ tasks'.todo[k] = tasks.todo[k]
               \/ k = n + 1 /\ tasks'.todo[k] = a
    BY <1>3, <1>4
  <2>3. \A k \in 1 .. n : tasks.todo[k] \in Nat /\ tasks.todo[k] # a /\ tasks.todo[k] < a
    BY <1>1, <1>8, <2>1
  <2>4. tasks'.todo[i] \in Slots /\ existing[PairOf(tasks'.todo[i])] \notin Terminal
    BY <1>1, <1>8, <2>2
  <2>5. tasks'.todo[i] < a + 1
    <3> DEFINE v == tasks'.todo[i]
    <3>1. v \in Nat /\ (v < a \/ v = a)
      BY <1>1, <2>2, <2>3
    <3> HIDE DEF v
    <3>2. v < a + 1
      BY <1>1, <3>1
    <3> QED
      BY <3>2 DEF v
  <2>6. \A j \in 1 .. n + 1 : tasks'.todo[i] = tasks'.todo[j] => i = j
    BY <1>8, <2>2, <2>3
  <2> QED
    BY <2>4, <2>5, <2>6
<1>10. ASSUME NEW s \in Slots, s < a + 1
       PROVE  Known(s)'
  <2>1. s \in Nat
    BY <1>1, ListFacts DEF Slots
  <2>2. CASE s = a
    BY <1>3, <1>4, <2>2 DEF Known
  <2>3. CASE s < a
    <3>1. results[s] \in Ended \/ \E i \in 1 .. n : tasks.todo[i] = s
      BY <1>3, <1>8, <2>3 DEF Known
    <3>2. ASSUME NEW i \in 1 .. n, tasks.todo[i] = s
          PROVE  \E k \in 1 .. n + 1 : tasks'.todo[k] = s
      BY <1>3, <1>4, <3>2
    <3> QED
      BY <1>1, <1>4, <3>1, <3>2 DEF Known
  <2> QED
    BY <1>1, <1>10, <2>1, <2>2, <2>3
<1>11. a + 1 \in 1 .. Len(hosts') * Width + 1 /\ tasks'.out \in 0 .. n + 1
  <2>1. Len(hosts) * Width \in Nat
    BY <1>1, ListFacts
  <2> QED
    BY <1>1, <1>3, <1>8, <2>1 DEF Slots
<1>12. \A s \in Slots : ~ \E i \in 1 .. tasks'.out : tasks'.todo[i] = s
  BY <1>3, <1>8
<1>13. SlotsInv'
  <2>1. \A x \in Slots : /\ worker'[x] = "none" /\ worker'[x] # "done"
                          /\ ~ \E i \in 1 .. tasks'.out : tasks'.todo[i] = x
    BY <1>1, <1>8, <1>12
  <2>2. /\ DOMAIN results' = DOMAIN worker' /\ DOMAIN worker' = Slots' /\ tasks'.out = 0
        /\ tasks'.out \in 0 .. Len(tasks'.todo) /\ session'.at \in 1 .. Len(hosts') * Width + 1
    BY <1>1, <1>2, <1>3, <1>4, <1>7, <1>8, <1>11
  <2>3. \A i \in DOMAIN tasks'.todo :
          /\ (tasks.todo[i] \in Slots)' /\ (existing[PairOf(tasks.todo[i])])' \notin Terminal
          /\ \A j \in DOMAIN tasks'.todo : tasks'.todo[i] = tasks'.todo[j] => i = j
          /\ tasks'.todo[i] < session'.at
    BY <1>1, <1>2, <1>4, <1>7, <1>9
  <2>4. \A s \in Slots' : s < session'.at => Known(s)'
    BY <1>2, <1>7, <1>10
  <2> QED
    BY <1>2, <1>7, <2>1, <2>2, <2>3, <2>4 DEF SlotsInv, In
<1> QED
  BY <1>5, <1>6, <1>13

LEMMA WalkEndsKeeps == ASSUME PipeInv, WalkEnds PROVE PipeInv'
<1> USE DEF PipeInv
<1>1. /\ In({"walk"}) /\ session.at > Len(hosts) * Width /\ session' = [session EXCEPT !.pc = "pool"]
      /\ UNCHANGED <<record, existing, hosts, hostFile, results, tasks, worker, executed>>
  <2>1. In({"walk"}) /\ ~(session.at <= Len(hosts) * Width) /\ session' = [session EXCEPT !.pc = "pool"]
        /\ UNCHANGED <<record, existing, hosts, hostFile, results, tasks, worker, executed>>
    BY DEF WalkEnds, Walking, SessionAt, SessionGoes, In
  <2>2. session.at \in Nat /\ Len(hosts) * Width \in Nat
    BY <2>1, ListFacts DEF TypedInv, Sessions, HistoryInv, In
  <2> QED
    BY <2>1, <2>2
<1>2. session.pc = "walk" /\ session'.pc = "pool" /\ session' \in Sessions
  BY <1>1 DEF TypedInv, Sessions, In
<1>3. Slots' = Slots /\ \A s : PairOf(s)' = PairOf(s)
  BY <1>1, SameSlots
<1>4. TypedInv'
  BY <1>1, <1>2 DEF TypedInv
<1>5. HistoryInv'
  BY <1>1, <1>2, <1>3 DEF HistoryInv, In, Listed
<1>6. \A s \in Slots : Known(s)'
  <2>1. \A s \in Slots : s < session.at
    <3>1. Len(hosts) * Width \in Nat /\ session.at \in Nat
      BY <1>2, ListFacts DEF HistoryInv, In, TypedInv, Sessions
    <3> QED
      BY <1>1, <3>1 DEF Slots
  <2>2. \A s \in Slots : Known(s)
    BY <1>2, <2>1 DEF SlotsInv, In
  <2> QED
    BY <1>1, <2>2 DEF Known
<1>7. SlotsInv'
  BY <1>1, <1>2, <1>3, <1>6 DEF SlotsInv, In
<1> QED
  BY <1>4, <1>5, <1>7

-----------------------------------------------------------------------------
\* A step of the pool that leaves the tasks as they are.
LEMMA PoolKeeps ==
    ASSUME PipeInv, In({"pool"}), UNCHANGED <<session, existing, hosts, hostFile, tasks>>,
           NEW s \in Slots, NEW w \in {"heavyWait", "running", "done"}, worker[s] # "none",
           worker' = [worker EXCEPT ![s] = w], DOMAIN results' = DOMAIN results,
           \A z \in Slots : results[z] \in Ended => results'[z] \in Ended,
           w = "done" => results'[s] \in Ended
    PROVE  SlotsInv'
<1> USE DEF PipeInv
<1>1. Slots' = Slots /\ \A z : PairOf(z)' = PairOf(z)
  BY SameSlots
<1>2. In({"walk", "pool"}) /\ session.pc = "pool" /\ session' = session
  BY DEF In
<1>3. /\ DOMAIN worker = Slots /\ DOMAIN results = DOMAIN worker /\ DOMAIN worker' = Slots
      /\ \A z \in Slots : worker'[z] = IF z = s THEN w ELSE worker[z]
  BY <1>2 DEF SlotsInv
<1>4. /\ \A z \in Slots : worker'[z] = "done" => results'[z] \in Ended
      /\ \A z \in Slots : worker'[z] # "none" <=> worker[z] # "none"
      /\ \A z \in Slots : worker'[z] \in {"none", "spawned", "heavyWait", "running", "done"}
  BY <1>2, <1>3 DEF SlotsInv
<1>5. \A z \in Slots : Known(z)'
  BY <1>2 DEF SlotsInv, In, Known
<1> QED
  BY <1>1, <1>2, <1>3, <1>4, <1>5 DEF SlotsInv, In

\* What has a worker has not ended before, and has not run unless the worker is done.
LEMMA WorkerFresh ==
    ASSUME PipeInv, In({"pool"}), NEW s \in Slots, worker[s] \notin {"none", "done"}
    PROVE  executed[PairOf(s)] = 0
<1> USE DEF PipeInv
<1>1. hosts \in HostLists /\ PairOf(s) \in Pairs
  BY SlotPair DEF HistoryInv, In
<1>2. existing[PairOf(s)] \notin Terminal
  BY DEF SlotsInv, In
<1>3. ASSUME executed[PairOf(s)] = 1
      PROVE  FALSE
  <2>1. PICK z \in Slots : PairOf(z) = PairOf(s) /\ worker[z] = "done"
    BY <1>1, <1>2, <1>3 DEF HistoryInv, In
  <2>2. z = s
    BY <1>1, <2>1, SlotUnique
  <2> QED
    BY <2>1, <2>2
<1> QED
  BY <1>1, <1>3 DEF HistoryInv

LEMMA HandOutKeeps == ASSUME PipeInv, HandOut PROVE PipeInv'
<1> USE DEF PipeInv
<1> DEFINE k == tasks.out + 1
           z == tasks.todo[k]
<1>1. /\ In({"pool"}) /\ In({"walk", "pool"}) /\ tasks.out < Len(tasks.todo)
      /\ tasks' = [tasks EXCEPT !.out = @ + 1] /\ worker' = [worker EXCEPT ![z] = "spawned"]
      /\ UNCHANGED <<existing, hosts, hostFile, session, record, results, executed>>
  BY DEF HandOut, SessionAt, PoolOnly, In
<1>2. session.pc = "pool" /\ session' = session /\ Slots' = Slots /\ \A x : PairOf(x)' = PairOf(x)
  BY <1>1, SameSlots DEF In
<1>3. /\ tasks'.todo = tasks.todo /\ tasks'.out = k /\ tasks' \in [todo : Seq(Nat), out : Nat]
      /\ tasks.out \in Nat /\ Len(tasks.todo) \in Nat /\ DOMAIN tasks.todo = 1 .. Len(tasks.todo)
  <2>1. tasks \in [todo : Seq(Nat), out : Nat]
    BY DEF TypedInv
  <2>2. tasks.out \in Nat /\ tasks.todo \in Seq(Nat)
    BY <2>1
  <2> QED
    BY <1>1, <2>1, <2>2
<1>4. k \in DOMAIN tasks.todo /\ z \in Slots /\ k \in 0 .. Len(tasks.todo)
  BY <1>1, <1>2, <1>3 DEF SlotsInv, In
<1>5. worker[z] = "none"
  <2>1. \A i \in 1 .. tasks.out : i \in DOMAIN tasks.todo /\ i # k
    BY <1>1, <1>3
  <2>2. ~ \E i \in 1 .. tasks.out : tasks.todo[i] = z
    BY <1>1, <1>4, <2>1 DEF SlotsInv
  <2> QED
    BY <1>1, <1>4, <2>2 DEF SlotsInv
<1>6. /\ DOMAIN worker = Slots /\ DOMAIN worker' = Slots
      /\ \A x \in Slots : worker'[x] = IF x = z THEN "spawned" ELSE worker[x]
  BY <1>1, <1>4 DEF SlotsInv
<1>7. TypedInv'
  BY <1>1, <1>3 DEF TypedInv
<1>8. HistoryInv'
  <2>1. \A q \in Pairs : executed[q] = 1 => record'[q] \in Terminal
    BY <1>1 DEF HistoryInv
  <2>2. \A x \in Slots : worker[x] = "done" => worker'[x] = "done"
    BY <1>5, <1>6
  <2>3. session'.pc \in {"walk", "pool"} /\ record'[Recon] = record[Recon]
    BY <1>1, <1>2
  <2> QED
    BY <1>1, <2>1, <2>2, <2>3, HistoryWalks
<1>9. ASSUME NEW x \in Slots
      PROVE  worker'[x] # "none" <=> \E i \in 1 .. tasks'.out : tasks'.todo[i] = x
  <2>1. worker[x] # "none" <=> \E i \in 1 .. tasks.out : tasks.todo[i] = x
    BY <1>1 DEF SlotsInv
  <2>2. 1 .. k = (1 .. tasks.out) \cup {k}
    BY <1>3
  <2>3. (\E i \in 1 .. k : tasks.todo[i] = x) <=> (\E i \in 1 .. tasks.out : tasks.todo[i] = x) \/ x = z
    BY <2>2
  <2> HIDE DEF z
  <2>4. worker'[x] # "none" <=> worker[x] # "none" \/ x = z
    BY <1>6
  <2> QED
    BY <1>3, <2>1, <2>3, <2>4
<1>10. SlotsInv'
  <2>1. /\ \A x \in Slots : worker'[x] = "done" => results'[x] \in Ended
        /\ \A x \in Slots : worker'[x] \in {"none", "spawned", "heavyWait", "running", "done"}
    BY <1>1, <1>6 DEF SlotsInv
  <2>2. \A x \in Slots : Known(x)'
    BY <1>1, <1>2, <1>3 DEF SlotsInv, In, Known
  <2> HIDE DEF k, z
  <2> QED
    BY <1>1, <1>2, <1>3, <1>4, <1>6, <1>9, <2>1, <2>2 DEF SlotsInv, In
<1> QED
  BY <1>7, <1>8, <1>10

\* A worker that does not end.
LEMMA WorkingKeeps ==
    ASSUME PipeInv, NEW s \in DOMAIN worker, TaskWaits(s) \/ TaskRuns(s)
    PROVE  PipeInv'
<1> USE DEF PipeInv
<1>1. PICK w \in {"heavyWait", "running"} :
        /\ worker' = [worker EXCEPT ![s] = w]
        /\ w = "heavyWait" => record' = record
        /\ w = "running" => Tells({s}, "running")
  BY DEF TaskWaits, TaskRuns
<1>2. /\ worker[s] \in {"spawned", "heavyWait"}
      /\ UNCHANGED <<existing, hosts, hostFile, session, results, tasks, executed>>
  BY DEF TaskWaits, TaskRuns, PoolOnly
<1>3. In({"pool"}) /\ In({"walk", "pool"}) /\ session.pc = "pool"
  BY <1>2 DEF SlotsInv, In
<1>4. s \in Slots /\ DOMAIN worker = Slots /\ hosts \in HostLists
  BY <1>3 DEF SlotsInv, HistoryInv
<1>5. SlotsInv'
  BY <1>1, <1>2, <1>3, <1>4, PoolKeeps
<1>6. executed[PairOf(s)] = 0
  BY <1>2, <1>3, <1>4, WorkerFresh
<1>7. /\ record' \in [Pairs \union {Recon} -> Statuses] /\ record'[Recon] = record[Recon]
      /\ \A q \in Pairs : record'[q] = record[q] \/ q = PairOf(s)
  <2>1. CASE record' = record
    BY <2>1 DEF TypedInv
  <2>2. CASE Tells({s}, "running")
    <3>1. "running" \in Statuses /\ {s} \in SUBSET Slots
      BY <1>4 DEF Statuses
    <3> QED
      BY <1>4, <2>2, <3>1, TellsFacts
  <2> QED
    BY <1>1, <2>1, <2>2
<1>8. TypedInv'
  BY <1>2, <1>7 DEF TypedInv
<1>9. HistoryInv'
  <2>1. \A q \in Pairs : executed[q] = 1 => record'[q] \in Terminal
    BY <1>6, <1>7 DEF HistoryInv
  <2>2. \A z \in Slots : worker[z] = "done" => worker'[z] = "done"
    BY <1>1, <1>2, <1>4
  <2>3. session'.pc \in {"walk", "pool"}
    BY <1>2, <1>3
  <2> QED
    BY <1>2, <1>3, <1>7, <2>1, <2>2, <2>3, HistoryWalks
<1> QED
  BY <1>5, <1>8, <1>9

\* A worker that ends, cancelled or after its scanner did.
LEMMA EndingKeeps ==
    ASSUME PipeInv, NEW s \in DOMAIN worker, TaskCancelled(s) \/ TaskEnds(s)
    PROVE  PipeInv'
<1> USE DEF PipeInv
<1> DEFINE p == PairOf(s)
<1>1. PICK status \in {"completed", "failed", "cancelled"} :
        /\ results' = [results EXCEPT ![s] = status] /\ Tells({s}, status)
        /\ executed' \in {executed, [executed EXCEPT ![p] = @ + 1]}
  BY DEF TaskCancelled, TaskEnds
<1>2. /\ worker[s] \in {"spawned", "running"} /\ worker' = [worker EXCEPT ![s] = "done"]
      /\ UNCHANGED <<existing, hosts, hostFile, session, tasks>>
  BY DEF TaskCancelled, TaskEnds, PoolOnly
<1>3. In({"pool"}) /\ In({"walk", "pool"}) /\ session.pc = "pool"
  BY <1>2 DEF SlotsInv, In
<1>4. s \in Slots /\ DOMAIN worker = Slots /\ DOMAIN results = Slots /\ hosts \in HostLists
  BY <1>3 DEF SlotsInv, HistoryInv
<1>5. SlotsInv'
  <2>1. /\ DOMAIN results' = DOMAIN results /\ results'[s] \in Ended
        /\ \A z \in Slots : results[z] \in Ended => results'[z] \in Ended
    BY <1>1, <1>4 DEF Ended
  <2> QED
    BY <1>2, <1>3, <1>4, <2>1, PoolKeeps
<1>6. p \in Pairs /\ p[1] \in Listed(hosts) /\ executed[p] = 0
  <2>1. executed[PairOf(s)] = 0
    BY <1>2, <1>3, <1>4, WorkerFresh
  <2> QED
    BY <1>4, <2>1, SlotPair
<1>7. /\ record' \in [Pairs \union {Recon} -> Statuses] /\ record'[Recon] = record[Recon]
      /\ \A q \in Pairs : record'[q] = record[q] \/ record'[q] \in Terminal
      /\ record'[p] \in Terminal
  <2>1. status \in Statuses /\ {s} \in SUBSET Slots /\ status \in Terminal
    BY <1>4 DEF Statuses, Ended, Terminal
  <2>2. record'[p] = status
    <3>1. p \in DOMAIN record
      BY <1>6 DEF TypedInv
    <3> QED
      BY <1>1, <3>1 DEF Tells
  <2> QED
    BY <1>1, <1>4, <2>1, <2>2, TellsFacts
<1> HIDE DEF p
<1>8. /\ executed' \in [Pairs -> Nat]
      /\ \A q \in Pairs : executed'[q] = executed[q] \/ (q = p /\ executed'[q] = 1)
  BY <1>1, <1>6 DEF TypedInv
<1>9. TypedInv'
  BY <1>2, <1>7, <1>8 DEF TypedInv
<1>10. Slots' = Slots /\ \A x : PairOf(x)' = PairOf(x)
  BY <1>2, SameSlots
<1>11. /\ worker'[s] = "done" /\ \A z \in Slots : worker[z] = "done" => worker'[z] = "done"
  BY <1>2, <1>4
<1>12. HistoryInv'
  <2>1. hostFile \in {NoRun, hosts} /\ record[Recon] \in Terminal
    BY <1>3 DEF HistoryInv
  <2>2. ASSUME NEW q \in Pairs
        PROVE  /\ executed'[q] \in {0, 1}
               /\ executed'[q] = 1 =>
                    /\ record'[q] \in Terminal /\ q[1] \in Listed(hosts)
                    /\ hostFile = NoRun \/ q[1] \in Listed(hostFile)
                    /\ existing[q] \in Terminal \/ \E z \in Slots : PairOf(z) = q /\ worker'[z] = "done"
    <3>1. CASE q = p /\ executed'[q] = 1
      <4>1. PairOf(s) = q /\ worker'[s] = "done"
        BY <1>11, <3>1 DEF p
      <4> QED
        BY <1>4, <1>6, <1>7, <2>1, <3>1, <4>1
    <3>2. CASE executed'[q] = executed[q]
      <4>1. executed[q] \in {0, 1}
        BY DEF HistoryInv
      <4>2. ASSUME executed[q] = 1
            PROVE  /\ record'[q] \in Terminal /\ q[1] \in Listed(hosts)
                   /\ hostFile = NoRun \/ q[1] \in Listed(hostFile)
                   /\ existing[q] \in Terminal \/ \E z \in Slots : PairOf(z) = q /\ worker'[z] = "done"
        BY <1>3, <1>7, <1>11, <4>2 DEF HistoryInv
      <4> QED
        BY <3>2, <4>1, <4>2
    <3> QED
      BY <1>8, <3>1, <3>2
  <2> QED
    BY <1>2, <1>3, <1>4, <1>7, <1>10, <2>1, <2>2 DEF HistoryInv, In, Listed
<1> QED
  BY <1>5, <1>9, <1>12

\* The record of a session keeps what has run in any session.
LEMMA ReturnKeeps == ASSUME PipeInv, Return PROVE PipeInv'
<1> USE DEF PipeInv
<1>1. /\ In({"pool"}) /\ In({"walk", "pool"}) /\ session.pc = "pool"
      /\ tasks.out = Len(tasks.todo) /\ Busy = {}
      /\ \E pc \in {"idle", "finished"} : session' = [session EXCEPT !.pc = pc]
      /\ UNCHANGED <<existing, hosts, hostFile, results, tasks, worker, executed>>
  BY DEF Return, SessionAt, SessionGoes, In
<1>2. hosts \in HostLists /\ DOMAIN worker = Slots /\ DOMAIN results = Slots
  BY <1>1 DEF HistoryInv, SlotsInv
<1>3. \A s \in Slots : worker[s] \in {"none", "done"}
  BY <1>1, <1>2 DEF SlotsInv, Busy
<1>4. ASSUME NEW s \in Slots
      PROVE  results[s] \in Ended
  <2>1. CASE \E i \in DOMAIN tasks.todo : tasks.todo[i] = s
    <3>1. PICK i \in DOMAIN tasks.todo : tasks.todo[i] = s
      BY <2>1
    <3>2. tasks.todo \in Seq(Nat)
      BY DEF TypedInv
    <3>3. i \in 1 .. tasks.out
      BY <1>1, <3>1, <3>2
    <3>4. worker[s] # "none"
      BY <1>1, <3>1, <3>3 DEF SlotsInv
    <3> QED
      BY <1>1, <1>3, <3>4 DEF SlotsInv
  <2> QED
    BY <1>1, <2>1 DEF SlotsInv, Known
<1>5. /\ record' = [p \in Pairs \union {Recon} |->
                      IF p = Recon THEN record[Recon]
                      ELSE IF \E s \in Slots : PairOf(s) = p
                           THEN results[CHOOSE s \in Slots : PairOf(s) = p] ELSE NoRun]
  BY DEF Return, TypedInv
<1>6. record'[Recon] = record[Recon]
  BY <1>5
<1>7. ASSUME NEW p \in Pairs
      PROVE  IF \E s \in Slots : PairOf(s) = p THEN record'[p] \in Ended ELSE record'[p] = NoRun
  <2>1. CASE \E s \in Slots : PairOf(s) = p
    <3> DEFINE s == CHOOSE x \in Slots : PairOf(x) = p
    <3>1. s \in Slots
      BY <2>1
    <3>2. record'[p] = results[s]
      BY <1>5, <2>1, ReconApart
    <3> QED
      BY <1>4, <2>1, <3>1, <3>2
  <2>2. CASE ~ \E s \in Slots : PairOf(s) = p
    BY <1>5, <2>2, ReconApart
  <2> QED
    BY <2>1, <2>2
<1>8. record' \in [Pairs \union {Recon} -> Statuses]
  <2>1. \A p \in Pairs : record'[p] \in Statuses
    BY <1>7 DEF Statuses
  <2>2. record'[Recon] \in Statuses
    BY <1>6 DEF TypedInv
  <2>3. record' = [p \in Pairs \union {Recon} |-> record'[p]]
    BY <1>5
  <2> QED
    BY <2>1, <2>2, <2>3
<1>9. session' \in Sessions /\ session'.pc \in {"idle", "finished"}
  BY <1>1 DEF TypedInv, Sessions
<1>10. TypedInv'
  BY <1>1, <1>8, <1>9 DEF TypedInv
<1>11. HistoryInv'
  <2>1. ASSUME NEW p \in Pairs, executed[p] = 1
        PROVE  record'[p] \in Terminal
    <3>1. p[1] \in Listed(hosts)
      BY <1>1, <2>1 DEF HistoryInv
    <3>2. \E s \in Slots : PairOf(s) = p
      BY <1>2, <3>1, SlotOfPair
    <3> QED
      BY <1>7, <3>2 DEF Ended, Terminal
  <2> QED
    BY <1>1, <1>6, <1>9, <2>1 DEF HistoryInv, In, Listed
<1>12. SlotsInv'
  <2>1. Slots' = Slots
    BY <1>1, SameSlots
  <2> QED
    BY <1>1, <1>2, <1>3, <1>4, <1>9, <2>1 DEF SlotsInv, In
<1> QED
  BY <1>10, <1>11, <1>12

\* Every step of the sessions of a scan keeps the invariant.
LEMMA PipelineStepKeeps ==
    ASSUME PipeInv, [PipelineNext]_pipelineVars
    PROVE  PipeInv'
<1>1. CASE Start \/ Cancel \/ CrashSession
  BY <1>1, StartKeeps, CancelKeeps, CrashKeeps
<1>2. CASE ReuseRecon \/ RunRecon \/ SaveRecon
  BY <1>2, ReuseReconKeeps, RunReconKeeps, SaveReconKeeps
<1>3. CASE Walk \/ WalkCancelled \/ WalkTask \/ WalkEnds
  BY <1>3, WalkKeeps, WalkCancelledKeeps, WalkTaskKeeps, WalkEndsKeeps
<1>4. CASE HandOut \/ Return
  BY <1>4, HandOutKeeps, ReturnKeeps
<1>5. ASSUME NEW s \in DOMAIN worker, TaskCancelled(s) \/ TaskWaits(s) \/ TaskRuns(s) \/ TaskEnds(s)
      PROVE  PipeInv'
  BY <1>5, WorkingKeeps, EndingKeeps
<1>6. CASE UNCHANGED pipelineVars
  BY <1>6 DEF pipelineVars, PipeInv, TypedInv, HistoryInv, SlotsInv, In, Known, Listed, Slots, PairOf,
              HostOf, RunnerOf
<1> QED
  BY <1>1, <1>2, <1>3, <1>4, <1>5, <1>6 DEF PipelineNext, PipelineStep

\* However a scan is paused, killed and resumed, its invariant holds.
THEOREM PipelineHolds == PipelineSpec => []PipeInv
<1>1. PipelineInit => PipeInv
  <2> SUFFICES ASSUME PipelineInit PROVE PipeInv
    OBVIOUS
  <2>1. /\ session = [n |-> 0, pc |-> "idle", ctx |-> "live", at |-> 1] /\ hostFile = NoRun
        /\ record = [p \in Pairs \union {Recon} |-> NoRun] /\ existing = record
        /\ results = <<>> /\ worker = <<>> /\ tasks = NoTasks /\ executed = [p \in Pairs |-> 0]
    BY DEF PipelineInit, NoTasks
  <2>2. session \in Sessions /\ session.pc = "idle"
    BY <2>1, PipelineAssumption DEF Sessions
  <2>3. tasks \in [todo : Seq(Nat), out : Nat]
    BY <2>1 DEF NoTasks
  <2>4. TypedInv
    BY <2>1, <2>2, <2>3 DEF TypedInv, Statuses
  <2>5. HistoryInv
    BY <2>1, <2>2 DEF HistoryInv, In
  <2>6. SlotsInv
    BY <2>1, <2>2 DEF SlotsInv, In
  <2> QED
    BY <2>4, <2>5, <2>6 DEF PipeInv
<1> QED
  BY <1>1, PipelineStepKeeps, PTL DEF PipelineSpec

LEMMA Final == PipeInv => ResultsAreFinal
<1> SUFFICES ASSUME PipeInv PROVE ResultsAreFinal
  OBVIOUS
<1>1. ExecutedOnce
  BY DEF PipeInv, HistoryInv, ExecutedOnce
<1>2. EverySlotIsFilled
  <2>1. CASE SessionAt("finished")
    BY <2>1 DEF EverySlotIsFilled, PipeInv, SlotsInv, SessionAt, In
  <2>2. ASSUME SessionAt("pool"), tasks.out = Len(tasks.todo), Busy = {}, NEW s \in Slots
        PROVE  results[s] \in Ended
    <3>1. In({"pool"}) /\ In({"walk", "pool"}) /\ worker[s] \in {"none", "done"}
      BY <2>2 DEF PipeInv, SlotsInv, SessionAt, In, Busy
    <3>2. CASE \E i \in DOMAIN tasks.todo : tasks.todo[i] = s
      <4>1. tasks.todo \in Seq(Nat)
        BY DEF PipeInv, TypedInv
      <4>2. \E i \in 1 .. tasks.out : tasks.todo[i] = s
        BY <2>2, <3>2, <4>1
      <4>3. worker[s] # "none"
        BY <3>1, <4>2 DEF PipeInv, SlotsInv
      <4> QED
        BY <3>1, <4>3 DEF PipeInv, SlotsInv
    <3> QED
      BY <3>1, <3>2 DEF PipeInv, SlotsInv, Known
  <2> QED
    BY <2>1, <2>2 DEF EverySlotIsFilled
<1> QED
  BY <1>1, <1>2 DEF ResultsAreFinal

-----------------------------------------------------------------------------
\* However wildcard queues, OpenVAS runs and pipeline sessions are paused, killed and resumed,
\* nothing that goes on is lost sight of and nothing that has run runs again: see
\* ProgressIsTracked.
THEOREM ProgressHolds == WildcardSpec /\ GreenboneSpec /\ PipelineSpec => []ProgressIsTracked
<1>1. QueueInv /\ TrackingInv /\ PipeInv => ProgressIsTracked
  BY IndexEarned, Tracked, Final DEF ProgressIsTracked
<1> QED
  BY <1>1, QueueHolds, TrackingHolds, PipelineHolds, PTL
===============================================================================
