---------------------------- MODULE HostResources ----------------------------
(***************************************************************************)
(* The capacity model of the host (resources.go): the ceiling on running   *)
(* scans, and the leases that reserve room for one subprocess each.  The   *)
(* host is measured without the lock, so a decision is made on a reading   *)
(* that may be out of date, and on counters that are not.  Memory is in    *)
(* megabytes, load in tenths.  The scan ceiling and the capacity snapshot  *)
(* are used by the server; leases are taken by callers of the package.     *)
(***************************************************************************)
EXTENDS Integers, FiniteSets

CONSTANTS
    Hosts,       \* cores, total memory, hard limit of a tool and manual cap on scans (0 for none)
    Readings,    \* what a host may measure: share of memory available, load per core, free disk
    Requester, Heavy,   \* callers, and those of them that start heavy tools
    MaxScans

\* A host has a core; nothing else is asked of what it is or may measure.
ASSUME HostAssumption ==
    /\ IsFiniteSet(Requester) /\ MaxScans \in Nat
    /\ Hosts \subseteq [cores : Nat \ {0}, total : Nat, hardLimit : Nat, manualMax : Nat]
    /\ Readings \subseteq [share : 0..100, load : Nat, disk : Int]

VARIABLES host, reading, leaseRequest, activeToolLeases, activeHeavyToolLeases, scans
hostVars == <<host, reading, leaseRequest, activeToolLeases, activeHeavyToolLeases, scans>>

AtLeast(n, least) == IF n < least THEN least ELSE n
AtMost(n, most) == IF n > most THEN most ELSE n
Clamp(n, least, most) == AtMost(AtLeast(n, least), most)

-----------------------------------------------------------------------------
\* Thresholds, scaled to the host when the process starts

ramCautionMB == AtLeast(host.total \div 4, 512)
ramCriticalMB == AtLeast((host.total * 12) \div 100, 256)
diskCautionMB == 2048
diskCriticalMB == 1024

hostReserveMB == Clamp((host.total * 20) \div 100, 512, 2048)
scanOverheadMB == Clamp(host.total \div 16, 256, 512)

autoScanMemoryBudgetMB ==
    IF host.total <= 0 THEN 1024
    ELSE Clamp(AtLeast(host.total - hostReserveMB, 1024) \div Clamp(host.cores, 1, 6), 768, 2048)

scanMemoryBudgetMB == AtLeast(autoScanMemoryBudgetMB, 1024)
perInstanceMemoryBudgetMB == AtLeast(scanMemoryBudgetMB, host.hardLimit + scanOverheadMB)

autoHeavyToolMemLimitMB ==
    LET limit == Clamp(host.total \div 4, 256, 4096)
        budgeted == scanMemoryBudgetMB - scanOverheadMB
    IN  IF budgeted >= 256 THEN AtMost(limit, budgeted) ELSE limit

\* In hundredths of a core.
heavyToolCPULoad == CASE host.cores <= 1 -> 85 [] host.cores = 2 -> 90 [] OTHER -> 100

-----------------------------------------------------------------------------
\* What a reading allows

spareMB(seen) == seen.available - ramCriticalMB

currentLevel(seen) ==
    LET rank(critical, caution) == IF critical THEN 2 ELSE IF caution THEN 1 ELSE 0
        cpu  == rank(seen.load * 10 >= host.cores * 90, seen.load * 10 >= host.cores * 70)
        ram  == rank(seen.available < ramCriticalMB, seen.available < ramCautionMB)
        disk == rank(seen.disk < diskCriticalMB, seen.disk < diskCautionMB)
    IN  AtLeast(cpu, AtLeast(ram, disk))

memoryInstanceCapacity(seen) ==
    IF spareMB(seen) <= 0 THEN 0
    ELSE AtLeast(spareMB(seen) \div perInstanceMemoryBudgetMB, 1)

\* A missing measurement of the disk does not block.
diskHasHeadroom(seen) == seen.disk <= 0 \/ seen.disk >= diskCriticalMB

EffectiveMaxInstances(seen) ==
    LET slots == IF diskHasHeadroom(seen) THEN memoryInstanceCapacity(seen) ELSE 0
    IN  IF host.manualMax > 0 THEN AtMost(slots, host.manualMax) ELSE slots

CanAdmitScan(seen, running) == running < EffectiveMaxInstances(seen)

toolMemoryEstimateMB(heavy) ==
    IF heavy THEN autoHeavyToolMemLimitMB
    ELSE AtLeast(autoHeavyToolMemLimitMB \div AtLeast(host.cores, 1), 1)

\* Load stretches a core when it exceeds one.
BusyTenths(seen) == AtLeast(seen.load, host.cores * 10)

heavyToolCPUCapacity(seen) ==
    AtLeast((host.cores * host.cores * 1000) \div (heavyToolCPULoad * BusyTenths(seen)), 1)

lightToolCPUCapacity(seen) ==
    LET cube == host.cores * host.cores * host.cores * 10 IN
    AtLeast((cube + BusyTenths(seen) - 1) \div BusyTenths(seen), 1)

heavyToolParallelCap ==
    CASE host.cores <= 1 -> 1 [] host.cores = 2 -> 2 [] OTHER -> AtLeast(host.cores - 1, 2)

HeavyToolSlots(seen) ==
    IF spareMB(seen) <= 0 THEN 0
    ELSE AtMost(AtLeast(spareMB(seen) \div toolMemoryEstimateMB(TRUE), 1),
                AtMost(heavyToolCPUCapacity(seen), heavyToolParallelCap))

LightToolSlots(seen) ==
    IF spareMB(seen) <= 0 THEN 0
    ELSE AtLeast(AtMost(AtLeast(spareMB(seen) \div toolMemoryEstimateMB(FALSE), 1),
                        lightToolCPUCapacity(seen)),
                 HeavyToolSlots(seen))

minimumHeavyToolMemMB == 256

\* The memory limit of a tool, shared by the tools that would then run; 0 is no limit.
toolMemoryLimitMB(seen, heavy, total, heavies) ==
    LET share == spareMB(seen) \div AtLeast(IF heavy THEN heavies ELSE total, 1)
        dynamic == IF currentLevel(seen) = 1 THEN (share * 3) \div 4 ELSE share
    IN  CASE host.hardLimit <= 0 -> 0
          [] host.hardLimit > 0 /\ spareMB(seen) <= 0 -> minimumHeavyToolMemMB
          [] OTHER -> AtLeast(AtMost(dynamic, host.hardLimit),
                              IF heavy THEN minimumHeavyToolMemMB ELSE 128)

toolSlotAdmission(heavy, seen, total, heavies) ==
    /\ heavy => heavies < HeavyToolSlots(seen)
    /\ total < LightToolSlots(seen)

-----------------------------------------------------------------------------
NoReading == [available |-> 0, load |-> 0, disk |-> 0]
Measured(h, r) == [available |-> (h.total * r.share) \div 100, load |-> h.cores * r.load, disk |-> r.disk]
NoLease == [at |-> "idle", seen |-> NoReading, limit |-> 0]

HostStartsFrom(h, r) ==
    /\ host = h /\ reading = Measured(h, r)
    /\ leaseRequest = [q \in Requester |-> NoLease]
    /\ activeToolLeases = 0 /\ activeHeavyToolLeases = 0 /\ scans = 0

LeaseInit == \E h \in Hosts, r \in Readings : HostStartsFrom(h, r)

Change ==
    /\ \E r \in Readings : reading' = Measured(host, r)
    /\ UNCHANGED <<host, leaseRequest, activeToolLeases, activeHeavyToolLeases, scans>>

\* A caller measures the host, at first and whenever the poll interval has passed.
GetStats(q) ==
    /\ leaseRequest[q].at \in {"idle", "waiting"}
    /\ leaseRequest' =
           [leaseRequest EXCEPT ![q] = [NoLease EXCEPT !.at = "measured", !.seen = reading]]
    /\ UNCHANGED <<host, reading, activeToolLeases, activeHeavyToolLeases, scans>>

\* Then it decides under the lock.
tryAcquireToolLease(q) ==
    LET heavies == activeHeavyToolLeases + (IF q \in Heavy THEN 1 ELSE 0)
        limit == toolMemoryLimitMB(leaseRequest[q].seen, q \in Heavy, activeToolLeases + 1, heavies)
        starved == q \in Heavy /\ host.hardLimit > 0 /\ limit < minimumHeavyToolMemMB
    IN
    /\ leaseRequest[q].at = "measured"
    /\ IF /\ toolSlotAdmission(q \in Heavy, leaseRequest[q].seen,
                               activeToolLeases, activeHeavyToolLeases)
          /\ ~starved
       THEN /\ leaseRequest' = [leaseRequest EXCEPT ![q].at = "held", ![q].limit = limit]
            /\ activeToolLeases' = activeToolLeases + 1
            /\ activeHeavyToolLeases' = heavies
       ELSE /\ leaseRequest' = [leaseRequest EXCEPT ![q] = [NoLease EXCEPT !.at = "waiting"]]
            /\ UNCHANGED <<activeToolLeases, activeHeavyToolLeases>>
    /\ UNCHANGED <<host, reading, scans>>

\* The caller's context ends while it waits.
GiveUp(q) ==
    /\ leaseRequest[q].at = "waiting"
    /\ leaseRequest' = [leaseRequest EXCEPT ![q] = NoLease]
    /\ UNCHANGED <<host, reading, activeToolLeases, activeHeavyToolLeases, scans>>

Counted(n, less) == IF less /\ n > 0 THEN n - 1 ELSE n

ReleaseUnguarded(q) ==
    /\ leaseRequest[q].at \in {"held", "released"}
    /\ activeToolLeases' = Counted(activeToolLeases, TRUE)
    /\ activeHeavyToolLeases' = Counted(activeHeavyToolLeases, q \in Heavy)
    /\ leaseRequest' = [leaseRequest EXCEPT ![q] = [NoLease EXCEPT !.at = "released"]]
    /\ UNCHANGED <<host, reading, scans>>

\* A lease that was released already is left alone.
Release(q) ==
    /\ leaseRequest[q].at \in {"held", "released"}
    /\ IF leaseRequest[q].at = "held"
       THEN /\ activeToolLeases' = Counted(activeToolLeases, TRUE)
            /\ activeHeavyToolLeases' = Counted(activeHeavyToolLeases, q \in Heavy)
       ELSE UNCHANGED <<activeToolLeases, activeHeavyToolLeases>>
    /\ leaseRequest' = [leaseRequest EXCEPT ![q] = [NoLease EXCEPT !.at = "released"]]
    /\ UNCHANGED <<host, reading, scans>>

\* The next subprocess of the caller.
Again(q) ==
    /\ leaseRequest[q].at = "released"
    /\ leaseRequest' = [leaseRequest EXCEPT ![q] = NoLease]
    /\ UNCHANGED <<host, reading, activeToolLeases, activeHeavyToolLeases, scans>>

AdmitScan ==
    /\ scans < MaxScans /\ CanAdmitScan(reading, scans)
    /\ scans' = scans + 1
    /\ UNCHANGED <<host, reading, leaseRequest, activeToolLeases, activeHeavyToolLeases>>

ScanEnds ==
    /\ scans > 0 /\ scans' = scans - 1
    /\ UNCHANGED <<host, reading, leaseRequest, activeToolLeases, activeHeavyToolLeases>>

LeaseNext ==
    \/ Change \/ AdmitScan \/ ScanEnds
    \/ \E q \in Requester :
        GetStats(q) \/ tryAcquireToolLease(q) \/ GiveUp(q) \/ Release(q) \/ Again(q)

LeaseSpec == LeaseInit /\ [][LeaseNext]_hostVars

-----------------------------------------------------------------------------
LeaseTypeOK ==
    /\ host \in Hosts
    /\ reading \in {Measured(host, r) : r \in Readings}
    /\ activeToolLeases \in Nat /\ activeHeavyToolLeases \in Nat /\ scans \in 0..MaxScans
    /\ leaseRequest \in [Requester -> [at : {"idle", "measured", "waiting", "held", "released"},
                                  seen : {Measured(host, r) : r \in Readings} \cup {NoReading},
                                  limit : Nat]]

Held == {q \in Requester : leaseRequest[q].at = "held"}

\* The counters say how many leases are held, whatever is released twice or given up.
CountsAreExact ==
    /\ activeToolLeases = Cardinality(Held)
    /\ activeHeavyToolLeases = Cardinality(Held \cap Heavy)

\* However old the readings, heavy tools leave a core free on a host of three or more, the
\* tools together stay within the square of the cores, and a hard limit is kept within its
\* bounds.
LeasesAreBounded ==
    /\ activeHeavyToolLeases <= heavyToolParallelCap
    /\ activeToolLeases <= AtLeast(host.cores * host.cores, 1)
    /\ \A q \in Held :
        IF host.hardLimit = 0 THEN leaseRequest[q].limit = 0
        ELSE leaseRequest[q].limit \in 128..AtLeast(host.hardLimit, minimumHeavyToolMemMB)

\* While memory is above its floor nobody waits for ever: on an idle host every tool is
\* admitted, and a first scan unless the disk is full.  Below the floor nothing starts.
IdleHostAdmits ==
    /\ (activeToolLeases = 0 /\ spareMB(reading) > 0) =>
            \A heavy \in BOOLEAN : toolSlotAdmission(heavy, reading, 0, 0)
    /\ (spareMB(reading) > 0 /\ diskHasHeadroom(reading)) => CanAdmitScan(reading, 0)
    /\ spareMB(reading) <= 0 =>
            /\ ~CanAdmitScan(reading, 0)
            /\ \A heavy \in BOOLEAN : ~toolSlotAdmission(heavy, reading, 0, 0)

\* Room for the budget of every scan is left when one more is admitted, unless it is the only
\* one, and the operator's cap holds.
AdmissionFits ==
    \A running \in 0..MaxScans :
        CanAdmitScan(reading, running) =>
            /\ running = 0 \/ (running + 1) * perInstanceMemoryBudgetMB <= spareMB(reading)
            /\ host.manualMax > 0 => running < host.manualMax

\* Leases are counted exactly and bounded by the host whatever the age of the readings, an
\* idle host with memory to spare admits any tool and a scan, and the scans that are admitted
\* fit (resources.go:615).
LeasesAreHonoured == CountsAreExact /\ LeasesAreBounded /\ IdleHostAdmits /\ AdmissionFits
=============================================================================
