------------------------------ MODULE Scheduler ------------------------------
(***************************************************************************)
(* Scheduled scans: web/scheduler.go and web/schedules.go.                 *)
(*                                                                         *)
(* The schedules live in a map under schedulesMu and in one file each.  A  *)
(* goroutine reviews the typed schedules once after a start and then       *)
(* launches what is due at every tick.  The handlers look a schedule up,   *)
(* release the lock, and go on with the pointer; what they save is a       *)
(* snapshot taken under the lock and written outside it, while a tick      *)
(* saves under the lock.                                                   *)
(*                                                                         *)
(* A typed schedule carries the fingerprint of the plan the operator       *)
(* reviewed.  The fingerprint of the plan built now is `world': it grows   *)
(* whenever an upgrade or a new credential changes the plans.              *)
(***************************************************************************)
EXTENDS Integers, FiniteSets

CONSTANTS Schedule,   \* IDs of schedules, each created at most once
          Handler,    \* requests that are served at the same time
          MaxTime,    \* bound of the clock
          Dates,      \* the dates a request can name
          MaxWorld,   \* bound of the changes to plans
          MaxStarts,  \* bound of the starts of the server
          MaxRequests,\* bound of the requests served
          Absent

VARIABLES clock,     \* time.Now(), and the number of starts and requests so far
          world,     \* the fingerprint of a plan built now
          object,    \* the ScanSchedule of each ID, Absent before it is created
          listed,    \* the IDs in s.schedules
          disk,      \* the file of each ID
          loop,      \* the goroutine startScheduler
          request,   \* the requests in progress
          launches   \* history: launches by the clock since the schedule was armed

scheduleVars == <<clock, world, object, listed, disk, loop, request, launches>>

Time == 0 .. MaxTime
Far == MaxTime + 2      \* a date that never comes: from.AddDate(100, 0, 0)
Instants == Time \union {MaxTime + 1, Far}
Intervals == {"once", "daily"}

\* What matters of a ScanSchedule: `fp' is Absent for a schedule without an assessment.
ScanSchedule == [interval : Intervals, date : Instants \union {Absent}, enabled : BOOLEAN,
                 next : Instants, fp : (0 .. MaxWorld) \union {Absent}, review : BOOLEAN]

\* The body of a PUT: an older client leaves the assessment (and so `fp') out.
PutBody == [interval : Intervals, date : Dates, enabled : BOOLEAN, reviewed : BOOLEAN]

\* A date that a request names is an instant; Absent is no value of what may be missing.
ASSUME SchedulerAssumption ==
    /\ MaxTime \in Nat /\ MaxWorld \in Nat /\ Dates \subseteq Instants
    /\ Absent \notin Nat /\ Absent \notin ScanSchedule

Idle == [pc |-> "idle"]
Quiet == [pc |-> "tick"]

-----------------------------------------------------------------------------
(* The algorithms of a schedule.                                            *)

\* scheduleReviewReason: the plan built now is not the reviewed one.
Stale(fp) == fp # Absent /\ fp # world

\* Mutant: a recurring schedule moves on from the slot it missed, not from now.
CalculateNextRunMutant(sch, from) == IF sch.interval = "once" THEN sch.next ELSE sch.next

\* A one-time schedule runs at its date, a recurring one a period after `from'.
CalculateNextRun(sch, from) ==
    IF sch.interval = "once"
    THEN IF sch.date = Absent THEN Far ELSE sch.date
    ELSE from + 1

\* A due slot is consumed: once and for all, or until the next period.
Consumed(sch) ==
    IF sch.interval = "once" THEN [sch EXCEPT !.enabled = FALSE]
    ELSE [sch EXCEPT !.next = CalculateNextRun(sch, clock.now)]

\* What a PUT does to the schedule; the date of the request is not among it.
\* Fault: it is, as the comment in checkAndRunSchedules expects.
EditedWithDate(sch, body, fp) ==
    LET new == [sch EXCEPT !.interval = body.interval, !.enabled = body.enabled,
                           !.date = body.date]
    IN  [new EXCEPT !.next = CalculateNextRun(new, clock.now)]

Edited(sch, body, fp) ==
    LET new == [sch EXCEPT !.interval = body.interval,
                           !.enabled = body.enabled,
                           !.fp = IF body.reviewed THEN fp ELSE @,
                           !.review = IF body.reviewed THEN FALSE ELSE @]
        moved == new.interval # sch.interval \/ (new.enabled /\ ~ sch.enabled)
    IN  IF moved THEN [new EXCEPT !.next = CalculateNextRun(new, clock.now)] ELSE new

\* loadSchedulesFromDisk: a recurring schedule loses its date, an untyped one its review.
Loaded(sch) == [sch EXCEPT !.date = IF sch.interval = "once" THEN @ ELSE Absent,
                           !.review = @ /\ sch.fp # Absent]

\* A tick holds schedulesMu from the change in memory until the file is written.
LockFree == loop.pc # "tickSave"

Due(s) == s \in listed /\ object[s].enabled /\ object[s].next <= clock.now

-----------------------------------------------------------------------------
\* A typed schedule that an earlier life of the server has saved.
Saved(interval) ==
    [interval |-> interval, enabled |-> TRUE, next |-> 1, fp |-> 0, review |-> FALSE,
     date |-> IF interval = "once" THEN 1 ELSE Absent]

\* The server has just loaded the files.
StartFrom(files) ==
    /\ clock = [now |-> 0, starts |-> 1, requests |-> 0]
    /\ world = 0
    /\ object = files
    /\ listed = {s \in Schedule : files[s] # Absent}
    /\ disk = files
    /\ loop = [pc |-> "boot"]
    /\ request = [h \in Handler |-> Idle]
    /\ launches = [s \in Schedule |-> 0]

ScheduleInit == \E files \in [Schedule -> {Absent, Saved("once"), Saved("daily")}] : StartFrom(files)

Pass ==
    /\ clock.now < MaxTime
    /\ clock' = [clock EXCEPT !.now = @ + 1]
    /\ UNCHANGED <<world, object, listed, disk, loop, request, launches>>

\* A credential is rotated or a tool upgraded: every plan gets a new fingerprint.
PlansChange ==
    /\ world < MaxWorld
    /\ world' = world + 1
    /\ UNCHANGED <<clock, object, listed, disk, loop, request, launches>>

\* The server stops, at any point, and starts again from the files.
Restart ==
    /\ clock.starts < MaxStarts
    /\ clock' = [clock EXCEPT !.starts = @ + 1]
    /\ listed' = {s \in Schedule : disk[s] # Absent}
    /\ object' = [s \in Schedule |-> IF disk[s] # Absent THEN Loaded(disk[s]) ELSE object[s]]
    /\ loop' = [pc |-> "boot"]
    /\ request' = [h \in Handler |-> Idle]
    /\ launches' = [s \in Schedule |-> 0]
    /\ UNCHANGED <<world, disk>>

\* saveScheduleToDisk: a temporary file and a rename, so all or nothing.
Save(s, sch) == disk' \in {[disk EXCEPT ![s] = sch], disk}

-----------------------------------------------------------------------------
(* The goroutine of the scheduler.                                          *)

LoopOnly == UNCHANGED <<clock, world, listed, request>>

\* refreshScheduleReviews lists the typed schedules with their fingerprints.
ListTyped ==
    /\ loop.pc = "boot"
    /\ loop' = [pc |-> "refresh",
                todo |-> {[s |-> s, fp |-> object[s].fp] :
                             s \in {t \in listed : object[t].fp # Absent}}]
    /\ LoopOnly /\ UNCHANGED <<object, disk, launches>>

\* The plan is built outside the lock.
JudgePlan ==
    /\ loop.pc = "refresh"
    /\ \E item \in loop.todo :
         loop' = [pc |-> "mark", todo |-> loop.todo \ {item}, item |-> item,
                  stale |-> Stale(item.fp)]
    /\ LoopOnly /\ UNCHANGED <<object, disk, launches>>

\* Mutant: a schedule that was saved again meanwhile is marked all the same.
SameReviewMutant(s, fp) == s \in listed

\* Deleted or reviewed again since its fingerprint was read?
SameReview(s, fp) == s \in listed /\ object[s].fp = fp

MarkReview ==
    /\ loop.pc = "mark"
    /\ LET s == loop.item.s IN
       IF SameReview(s, loop.item.fp) /\ object[s].review # loop.stale
       THEN /\ object' = [object EXCEPT ![s].review = loop.stale]
            /\ loop' = [pc |-> "markSave", todo |-> loop.todo, s |-> s, snap |-> object'[s]]
       ELSE /\ loop' = [pc |-> "refresh", todo |-> loop.todo]
            /\ UNCHANGED object
    /\ LoopOnly /\ UNCHANGED <<disk, launches>>

MarkSave ==
    /\ loop.pc = "markSave"
    /\ Save(loop.s, loop.snap)
    /\ loop' = [pc |-> "refresh", todo |-> loop.todo]
    /\ LoopOnly /\ UNCHANGED <<object, launches>>

RefreshDone ==
    /\ loop.pc = "refresh" /\ loop.todo = {}
    /\ loop' = Quiet
    /\ LoopOnly /\ UNCHANGED <<object, disk, launches>>

\* checkAndRunSchedules for one due schedule: skip it or launch it, under the lock.
Skip(s) ==
    /\ loop = Quiet /\ Due(s)
    /\ Stale(object[s].fp)
    /\ object' = [object EXCEPT ![s] = [Consumed(@) EXCEPT !.review = TRUE]]
    /\ loop' = [pc |-> "tickSave", s |-> s]
    /\ LoopOnly /\ UNCHANGED <<disk, launches>>

Launch(s) ==
    /\ loop = Quiet /\ Due(s)
    /\ ~ Stale(object[s].fp)
    /\ object' = [object EXCEPT ![s] = [Consumed(@) EXCEPT !.review = FALSE]]
    /\ launches' = [launches EXCEPT ![s] = @ + 1]
    /\ loop' = [pc |-> "tickSave", s |-> s]
    /\ LoopOnly /\ UNCHANGED disk

TickSave ==
    /\ loop.pc = "tickSave"
    /\ Save(loop.s, object[loop.s])
    /\ loop' = Quiet
    /\ LoopOnly /\ UNCHANGED <<object, launches>>

-----------------------------------------------------------------------------
(* The handlers of /api/schedules.                                          *)

Step(h, r) == request' = [request EXCEPT ![h] = r]
Snapshot(h, s) == Step(h, [pc |-> "save", s |-> s, snap |-> object'[s]])
ServerOnly == UNCHANGED <<world, loop>>

Begins(h) == /\ request[h] = Idle /\ loop.pc # "boot" /\ clock.requests < MaxRequests
             /\ clock' = [clock EXCEPT !.requests = @ + 1]

\* POST: the plan of a typed schedule was just reviewed; an ID is never used twice.
Post(h, s, interval, date, typed) ==
    /\ Begins(h) /\ LockFree /\ object[s] = Absent
    /\ LET new == [interval |-> interval, date |-> IF interval = "once" THEN date ELSE Absent,
                   enabled |-> TRUE, next |-> 0, fp |-> IF typed THEN world ELSE Absent,
                   review |-> FALSE]
       IN  object' = [object EXCEPT ![s] = [new EXCEPT !.next = CalculateNextRun(new, clock.now)]]
    /\ listed' = listed \union {s}
    /\ Snapshot(h, s)
    /\ ServerOnly /\ UNCHANGED <<disk, launches>>

\* The operator gave the clock something new to launch, or took it away.
Armed(old, new) ==
    old.next # new.next \/ old.enabled # new.enabled \/ old.interval # new.interval

\* PUT: the schedule is looked up and the request checked against a plan built now ...
PutLookup(h, s, body) ==
    /\ Begins(h) /\ LockFree /\ s \in listed
    /\ Step(h, [pc |-> "put", s |-> s, body |-> body, fp |-> world])
    /\ ServerOnly /\ UNCHANGED <<object, listed, disk, launches>>

\* ... and applied to the object that was found, in the map or not.
PutApply(h) ==
    /\ request[h].pc = "put" /\ LockFree
    /\ LET r == request[h]  s == r.s IN
       /\ object' = [object EXCEPT ![s] = Edited(@, r.body, r.fp)]
       /\ launches' = IF Armed(object[s], object'[s]) THEN [launches EXCEPT ![s] = 0] ELSE launches
       /\ Snapshot(h, s)
    /\ ServerOnly /\ UNCHANGED <<clock, listed, disk>>

\* POST .../trigger: the fingerprint is read under the lock, the plan built after it.
TriggerLookup(h, s) ==
    /\ Begins(h) /\ LockFree /\ s \in listed
    /\ Step(h, [pc |-> "check", s |-> s, fp |-> object[s].fp])
    /\ ServerOnly /\ UNCHANGED <<object, listed, disk, launches>>

TriggerCheck(h) ==
    /\ request[h].pc = "check"
    /\ Step(h, [request[h] EXCEPT !.pc = IF Stale(request[h].fp) THEN "refuse" ELSE "launch"])
    /\ ServerOnly /\ UNCHANGED <<clock, object, listed, disk, launches>>

\* A stale plan is refused; the mark is set unless the schedule was reviewed again.
TriggerRefuse(h) ==
    /\ request[h].pc = "refuse" /\ LockFree
    /\ LET s == request[h].s IN
       IF object[s].fp = request[h].fp /\ ~ object[s].review
       THEN object' = [object EXCEPT ![s].review = TRUE] /\ Snapshot(h, s)
       ELSE UNCHANGED object /\ Step(h, Idle)
    /\ ServerOnly /\ UNCHANGED <<clock, listed, disk, launches>>

\* The scan is launched; LastRun and the snapshot follow under the lock.
TriggerLaunch(h) ==
    /\ request[h].pc = "launch" /\ LockFree
    /\ UNCHANGED object /\ Snapshot(h, request[h].s)
    /\ ServerOnly /\ UNCHANGED <<clock, listed, disk, launches>>

\* The snapshot is written outside the lock, whatever was written meanwhile.
HandlerSave(h) ==
    /\ request[h].pc = "save"
    /\ Save(request[h].s, request[h].snap)
    /\ Step(h, Idle)
    /\ ServerOnly /\ UNCHANGED <<clock, object, listed, launches>>

\* DELETE: the entry of the map first, the file after the lock is released.
Delete(h, s) ==
    /\ Begins(h) /\ LockFree /\ s \in listed
    /\ listed' = listed \ {s}
    /\ Step(h, [pc |-> "remove", s |-> s])
    /\ ServerOnly /\ UNCHANGED <<object, disk, launches>>

DeleteFile(h) ==
    /\ request[h].pc = "remove"
    /\ disk' \in {[disk EXCEPT ![request[h].s] = Absent], disk}
    /\ Step(h, Idle)
    /\ ServerOnly /\ UNCHANGED <<clock, object, listed, launches>>

-----------------------------------------------------------------------------
Scheduling == \/ ListTyped \/ JudgePlan \/ MarkReview \/ MarkSave \/ RefreshDone \/ TickSave
              \/ \E s \in Schedule : Skip(s) \/ Launch(s)

HandlerServing ==
    \E h \in Handler :
       \/ PutApply(h) \/ TriggerCheck(h) \/ TriggerRefuse(h) \/ TriggerLaunch(h)
       \/ HandlerSave(h) \/ DeleteFile(h)
       \/ \E s \in Schedule :
             \/ TriggerLookup(h, s) \/ Delete(h, s)
             \/ \E i \in Intervals, d \in Dates, t \in BOOLEAN : Post(h, s, i, d, t)
             \/ \E b \in PutBody : PutLookup(h, s, b)

ScheduleNext == Pass \/ PlansChange \/ Restart \/ Scheduling \/ HandlerServing

ScheduleSpec == ScheduleInit /\ [][ScheduleNext]_scheduleVars

\* The goroutine runs and the ticker ticks; nobody has to send a request.
ScheduleFairness == WF_scheduleVars(Scheduling)
FairScheduleSpec == ScheduleSpec /\ ScheduleFairness

-----------------------------------------------------------------------------
ScheduleTypeOK ==
    /\ clock \in [now : Time, starts : 1 .. MaxStarts, requests : 0 .. MaxRequests]
    /\ world \in 0 .. MaxWorld
    /\ object \in [Schedule -> ScanSchedule \union {Absent}]
    /\ listed \subseteq {s \in Schedule : object[s] # Absent}
    /\ disk \in [Schedule -> ScanSchedule \union {Absent}]
    /\ loop.pc \in {"boot", "refresh", "mark", "markSave", "tick", "tickSave"}
    /\ \A h \in Handler : request[h].pc \in {"idle", "put", "check", "refuse", "launch", "save",
                                             "remove"}
    /\ launches \in [Schedule -> Nat]

\* A mark "needs review" is deserved, in memory and in the files, whatever handler, review or
\* tick set it: the plan of the schedule really changed after it was reviewed.  The review reads
\* the fingerprint, builds the plan without the lock and only then sets the mark; a schedule that
\* the operator reviewed again in between must keep its clean state.
MarkIsDeserved ==
    \A s \in Schedule : \A sch \in {object[s], disk[s]} :
       sch # Absent /\ sch.review => sch.fp # Absent /\ sch.fp < world

\* A one-time schedule is launched by the clock at most once until the operator arms it again
\* (scheduler.go: "One-time schedules run exactly once, then disable themselves"), in one life
\* of the server and whatever handlers do to the schedule meanwhile.
OncePerArming == \A s \in Schedule :
    object[s] # Absent /\ object[s].interval = "once" => launches[s] <= 1

\* Both, as the runs check them.
ScheduleIsHonoured == MarkIsDeserved /\ OncePerArming

\* A schedule that is due is launched, skipped, disabled, moved or deleted: a tick never leaves
\* it due for ever, and never finds it due again and again.
DueIsServed == \A s \in Schedule : Due(s) ~> ~ Due(s)
=============================================================================
