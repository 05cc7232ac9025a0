---------------------------- MODULE ScanPipeline ----------------------------
(***************************************************************************)
(* The pipeline of a scan without a typed plan: Pipeline.Run and runTasks  *)
(* (scanner/pipeline.go), its recon phase (scanner/recon.go) and the scan  *)
(* record the session keeps of it (web/deterministic_scan.go).             *)
(*                                                                         *)
(* A session finds the hosts, walks over every pair of a host and a        *)
(* scanner in a fixed order, decides for each whether it is reused,        *)
(* skipped, cancelled or executed, and executes the rest on a pool of      *)
(* workers, the heavy scanners one at a time.  The record is updated by    *)
(* the events of the session and replaced by its results at the end; after *)
(* a pause or a crash the next session starts from the record.             *)
(***************************************************************************)
EXTENDS Integers, Sequences, FiniteSets

CONSTANTS HostSeq,     \* what recon can find, the requested host first
          RunnerSeq,   \* the scanners, in the order of the pipeline
          Heavy,       \* the scanners of weight heavy
          Selected,    \* the scanners of the request
          Unsuited,    \* the pairs whose scanner does not apply to the host
          Workers,     \* Config.MaxWorkers
          MaxSessions, \* bound of the sessions of a scan
          NoRun

\* A scan has a host, the pipeline has scanners, and neither list names one twice.
ASSUME PipelineAssumption ==
    /\ HostSeq \in Seq({HostSeq[i] : i \in DOMAIN HostSeq}) \ {<<>>}
    /\ RunnerSeq \in Seq({RunnerSeq[i] : i \in DOMAIN RunnerSeq}) \ {<<>>}
    /\ \A i, j \in DOMAIN HostSeq : HostSeq[i] = HostSeq[j] => i = j
    /\ \A i, j \in DOMAIN RunnerSeq : RunnerSeq[i] = RunnerSeq[j] => i = j
    /\ Workers \in Nat \ {0} /\ MaxSessions \in Nat

VARIABLES session,   \* number, position in Pipeline.Run and context of the session
          record,    \* scan.json: the status of each pair and of recon, NoRun if there is none
          existing,  \* the record the session started from
          hosts,     \* the scopes of the session
          hostFile,  \* recon-scopes.json
          results,   \* the slots filled so far
          tasks,     \* the slots to execute, in order, and how many were handed out
          worker,    \* the goroutine of each slot
          executed   \* history: how often each pair ran to its own end

pipelineVars ==
    <<session, record, existing, hosts, hostFile, results, tasks, worker, executed>>

Hosts == {HostSeq[i] : i \in DOMAIN HostSeq}
Runners == {RunnerSeq[i] : i \in DOMAIN RunnerSeq}
Pairs == Hosts \X Runners
Recon == <<"recon">>

\* Mutant: a failed run is tried again.
TerminalUnlessFailed == {"completed", "cancelled", "skipped", "not_applicable"}

\* Run.Terminal(): a cancelled run is terminal, too.
Terminal == {"completed", "failed", "cancelled", "skipped", "not_applicable"}
Ended == {"completed", "failed", "cancelled", "skipped", "not_applicable"}

Width == Len(RunnerSeq)
Slots == 1 .. Len(hosts) * Width
HostOf(slot) == hosts[((slot - 1) \div Width) + 1]
RunnerOf(slot) == RunnerSeq[((slot - 1) % Width) + 1]
PairOf(slot) == <<HostOf(slot), RunnerOf(slot)>>
ScopeEnd(slot) == (((slot - 1) \div Width) + 1) * Width

SessionCancelled == session.ctx = "cancelled"
SessionAt(pc) == session.pc = pc
SessionGoes(pc) == session' = [session EXCEPT !.pc = pc]

\* A worker slot is taken from the hand-out of a task to the end of its goroutine.
Busy == {s \in DOMAIN worker : worker[s] \in {"spawned", "heavyWait", "running"}}
HeavyRunning == {s \in DOMAIN worker : worker[s] = "running" /\ RunnerOf(s) \in Heavy}

-----------------------------------------------------------------------------
PipelineInit ==
    /\ session = [n |-> 0, pc |-> "idle", ctx |-> "live", at |-> 1]
    /\ record = [p \in Pairs \union {Recon} |-> NoRun]
    /\ existing = record
    /\ hosts = <<>>
    /\ hostFile = NoRun
    /\ results = <<>>
    /\ tasks = [todo |-> <<>>, out |-> 0]
    /\ worker = <<>>
    /\ executed = [p \in Pairs |-> 0]

\* The first session, or the next one after a pause or a crash.
Start ==
    /\ SessionAt("idle") /\ session.n < MaxSessions
    /\ session' = [n |-> session.n + 1, pc |-> "recon", ctx |-> "live", at |-> 1]
    /\ existing' = record
    /\ hosts' = <<>> /\ results' = <<>> /\ worker' = <<>>
    /\ tasks' = [todo |-> <<>>, out |-> 0]
    /\ UNCHANGED <<record, hostFile, executed>>

\* A pause or a stop: every command of the session is killed.
Cancel ==
    /\ ~ SessionAt("idle") /\ ~ SessionAt("finished") /\ ~ SessionCancelled
    /\ session' = [session EXCEPT !.ctx = "cancelled"]
    /\ UNCHANGED <<record, existing, hosts, hostFile, results, tasks, worker, executed>>

\* The process dies; what the events have saved is left.
CrashSession ==
    /\ ~ SessionAt("idle") /\ ~ SessionAt("finished") /\ session.n < MaxSessions
    /\ SessionGoes("idle")
    /\ hosts' = <<>> /\ results' = <<>> /\ worker' = <<>>
    /\ tasks' = [todo |-> <<>>, out |-> 0]
    /\ UNCHANGED <<record, existing, hostFile, executed>>

-----------------------------------------------------------------------------
(* Recon.                                                                   *)

\* The hosts that have a finished run, and the orders a record may have them in.
SeenHosts == {h \in Hosts : \E r \in Runners : existing[<<h, r>>] \in Terminal}
Orders(S) == {q \in [1 .. Cardinality(S) -> S] :
                 \A h \in S : \E i \in DOMAIN q : \A j \in DOMAIN q : q[j] = h <=> j = i}

\* What a finished recon has left: its list (loadReconScopes), or the record (reusePriorRecon).
Reusable == existing[Recon] \in Terminal /\ (hostFile # NoRun \/ SeenHosts # {})
ReusableLists == IF hostFile # NoRun THEN {hostFile} ELSE Orders(SeenHosts)

Walks(hs) ==
    /\ hosts' = hs
    /\ results' = [s \in 1 .. Len(hs) * Width |-> NoRun]
    /\ worker' = [s \in 1 .. Len(hs) * Width |-> "none"]
    /\ SessionGoes("walk")

ReuseRecon ==
    /\ SessionAt("recon") /\ Reusable
    /\ \E hs \in ReusableLists : Walks(hs)
    /\ UNCHANGED <<record, existing, hostFile, tasks, executed>>

\* The recon tools run and report; killed or failed, they leave the requested host.
RunRecon ==
    /\ SessionAt("recon") /\ ~ Reusable
    /\ \/ ~ SessionCancelled /\ hosts' = HostSeq /\ record' = [record EXCEPT ![Recon] = "completed"]
       \/ /\ hosts' = SubSeq(HostSeq, 1, 1)
          /\ record' = [record EXCEPT ![Recon] = IF SessionCancelled THEN "cancelled" ELSE "failed"]
    /\ SessionGoes("reconSave")
    /\ UNCHANGED <<existing, hostFile, results, tasks, worker, executed>>

\* saveReconScopes: a failure is ignored.
SaveRecon ==
    /\ SessionAt("reconSave")
    /\ hostFile' \in {hosts, hostFile}
    /\ Walks(hosts)
    /\ UNCHANGED <<record, existing, tasks, executed>>

-----------------------------------------------------------------------------
(* The walk over the slots.                                                 *)

\* A slot is decided without executing: its result, an event for the record, the next slot.
Decided(slots, status, next) ==
    /\ results' = [s \in DOMAIN results |-> IF s \in slots THEN status[s] ELSE results[s]]
    /\ session' = [session EXCEPT !.at = next]

Tells(slots, status) ==
    record' = [p \in DOMAIN record |->
                  IF \E s \in slots : PairOf(s) = p THEN status ELSE record[p]]

Walking == SessionAt("walk") /\ session.at <= Len(hosts) * Width

Walk ==
    /\ Walking
    /\ LET s == session.at  p == PairOf(s) IN
       \/ /\ existing[p] \in Terminal
          /\ Decided({s}, [x \in {s} |-> existing[p]], s + 1)
          /\ UNCHANGED <<record, tasks>>
       \/ /\ existing[p] \notin Terminal /\ RunnerOf(s) \notin Selected
          /\ Decided({s}, [x \in {s} |-> "skipped"], s + 1) /\ Tells({s}, "skipped")
          /\ UNCHANGED tasks
       \/ /\ existing[p] \notin Terminal /\ RunnerOf(s) \in Selected /\ p \in Unsuited
          /\ Decided({s}, [x \in {s} |-> "not_applicable"], s + 1) /\ Tells({s}, "not_applicable")
          /\ UNCHANGED tasks
    /\ UNCHANGED <<existing, hosts, hostFile, worker, executed>>

Executable(s) == /\ existing[PairOf(s)] \notin Terminal
                 /\ RunnerOf(s) \in Selected /\ PairOf(s) \notin Unsuited

RestOfScope(s) == s .. ScopeEnd(s)

\* The context is found cancelled: the rest of the scope is, whatever was known of it.
WalkCancelled ==
    /\ Walking /\ Executable(session.at) /\ SessionCancelled
    /\ LET rest == RestOfScope(session.at) IN
       /\ Decided(rest, [x \in rest |-> "cancelled"], ScopeEnd(session.at) + 1)
       /\ Tells(rest, "cancelled")
    /\ UNCHANGED <<existing, hosts, hostFile, tasks, worker, executed>>

WalkTask ==
    /\ Walking /\ Executable(session.at) /\ ~ SessionCancelled
    /\ tasks' = [tasks EXCEPT !.todo = Append(@, session.at)]
    /\ session' = [session EXCEPT !.at = @ + 1]
    /\ UNCHANGED <<record, existing, hosts, hostFile, results, worker, executed>>

WalkEnds ==
    /\ SessionAt("walk") /\ ~ Walking
    /\ SessionGoes("pool")
    /\ UNCHANGED <<record, existing, hosts, hostFile, results, tasks, worker, executed>>

-----------------------------------------------------------------------------
(* The pool.                                                                *)

HeavyGate == HeavyRunning = {}

PoolOnly == UNCHANGED <<existing, hosts, hostFile>>

\* The worker slot is taken before the goroutine is started.
HandOut ==
    /\ SessionAt("pool") /\ tasks.out < Len(tasks.todo) /\ Cardinality(Busy) < Workers
    /\ tasks' = [tasks EXCEPT !.out = @ + 1]
    /\ worker' = [worker EXCEPT ![tasks.todo[tasks.out + 1]] = "spawned"]
    /\ PoolOnly /\ UNCHANGED <<session, record, results, executed>>

\* Cancelled between the walk and the start of the goroutine.
TaskCancelled(s) ==
    /\ worker[s] = "spawned" /\ SessionCancelled
    /\ worker' = [worker EXCEPT ![s] = "done"]
    /\ results' = [results EXCEPT ![s] = "cancelled"]
    /\ Tells({s}, "cancelled")
    /\ PoolOnly /\ UNCHANGED <<session, tasks, executed>>

TaskWaits(s) ==
    /\ worker[s] = "spawned" /\ ~ SessionCancelled /\ RunnerOf(s) \in Heavy
    /\ worker' = [worker EXCEPT ![s] = "heavyWait"]
    /\ PoolOnly /\ UNCHANGED <<session, record, results, tasks, executed>>

\* The heavy token comes whether or not the context was cancelled while waiting.
TaskRuns(s) ==
    /\ \/ worker[s] = "spawned" /\ ~ SessionCancelled /\ RunnerOf(s) \notin Heavy
       \/ worker[s] = "heavyWait" /\ HeavyGate
    /\ worker' = [worker EXCEPT ![s] = "running"]
    /\ Tells({s}, "running")
    /\ PoolOnly /\ UNCHANGED <<session, results, tasks, executed>>

\* runAttempt returns: the scanner ended by itself, or was killed with the context.
TaskEnds(s) ==
    /\ worker[s] = "running"
    /\ \E status \in {"completed", "failed"}
                     \union (IF SessionCancelled THEN {"cancelled"} ELSE {}) :
         /\ results' = [results EXCEPT ![s] = status]
         /\ Tells({s}, status)
         /\ executed' = IF status = "cancelled" THEN executed
                        ELSE [executed EXCEPT ![PairOf(s)] = @ + 1]
    /\ worker' = [worker EXCEPT ![s] = "done"]
    /\ PoolOnly /\ UNCHANGED <<session, tasks>>

\* The results replace the record; a cancelled session may be resumed, another is over.
Return ==
    /\ SessionAt("pool") /\ tasks.out = Len(tasks.todo) /\ Busy = {}
    /\ record' = [p \in DOMAIN record |->
                    IF p = Recon THEN record[Recon]
                    ELSE IF \E s \in Slots : PairOf(s) = p
                         THEN results[CHOOSE s \in Slots : PairOf(s) = p] ELSE NoRun]
    /\ SessionGoes(IF SessionCancelled THEN "idle" ELSE "finished")
    /\ UNCHANGED <<existing, hosts, hostFile, results, tasks, worker, executed>>

-----------------------------------------------------------------------------
PipelineStep ==
    \/ ReuseRecon \/ RunRecon \/ SaveRecon
    \/ Walk \/ WalkCancelled \/ WalkTask \/ WalkEnds
    \/ HandOut \/ Return
    \/ \E s \in DOMAIN worker :
          TaskCancelled(s) \/ TaskWaits(s) \/ TaskRuns(s) \/ TaskEnds(s)

PipelineNext == Start \/ Cancel \/ CrashSession \/ PipelineStep

PipelineSpec == PipelineInit /\ [][PipelineNext]_pipelineVars

-----------------------------------------------------------------------------
PipelineTypeOK ==
    /\ session \in [n : 0 .. MaxSessions, ctx : {"live", "cancelled"}, at : Nat,
                    pc : {"idle", "recon", "reconSave", "walk", "pool", "finished"}]
    /\ record \in [Pairs \union {Recon} -> Ended \union {"running", NoRun}]
    /\ existing \in [Pairs \union {Recon} -> Ended \union {"running", NoRun}]
    /\ DOMAIN results = DOMAIN worker
    /\ \A s \in DOMAIN worker : worker[s] \in {"none", "spawned", "heavyWait", "running", "done"}
    /\ executed \in [Pairs -> Nat]

\* When Run returns, every slot was written exactly by the decision or the worker it belongs to:
\* no pair is missing from the record that replaces the old one, cancelled or not.
EverySlotIsFilled ==
    SessionAt("finished") \/ (SessionAt("pool") /\ tasks.out = Len(tasks.todo) /\ Busy = {})
       => \A s \in Slots : results[s] \in Ended

\* A scanner that ran to its end for a host is never run for it again, across pauses, crashes
\* and the replacement of the record: every end is saved before anything else happens.
ExecutedOnce == \A p \in Pairs : executed[p] <= 1

\* The table a session leaves is complete and no scanner was run twice for it.
ResultsAreFinal == EverySlotIsFilled /\ ExecutedOnce

\* A session that has begun and not returned can always go on, cancelled or not: no worker that
\* holds a slot waits for a heavy token that never comes (pipeline.go:496 waits for it without
\* looking at the context). Since every step brings the session nearer to its end, it ends.
NeverStuck == ~ SessionAt("idle") /\ ~ SessionAt("finished") => ENABLED PipelineStep
=============================================================================
