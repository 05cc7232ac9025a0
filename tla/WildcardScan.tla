---------------------------- MODULE WildcardScan ----------------------------
(***************************************************************************)
(* A wildcard scan: for each target of a queue, runDeterministicWildcard   *)
(* (web/deterministic_scan.go) lists the hosts of the target and scans     *)
(* them one after the other.  The queue file keeps the list and the index  *)
(* of the next host, so that a scan that was paused or that died with the  *)
(* process goes on where it was.                                           *)
(*                                                                         *)
(* What ScanQueue says of admission, stops and instance IDs is left out:   *)
(* here one run at a time works on one queue file.                         *)
(***************************************************************************)
EXTENDS Naturals, Sequences

CONSTANTS HostsOf,   \* what discovery can find for each target, the root host first
          MaxRuns,   \* bound of the runs of the queue
          NoState

VARIABLES queueFile,  \* queue_state_<id>.json, NoState when the queue is done
          resume,     \* the Resume fields of the request a run was started with
          fanout,     \* the run: position, target, list of hosts, index, directory, context
          visited,    \* history: the targets and hosts a session of which has returned
          discovered, \* history: the targets whose hosts were looked for
          runs        \* runs so far

wildcardVars == <<queueFile, resume, fanout, visited, discovered, runs>>

Targets == DOMAIN HostsOf
HostSet(t) == {HostsOf[t][i] : i \in DOMAIN HostsOf[t]}

\* Every target has a list that begins with its root host.
ASSUME QueueAssumption ==
    /\ HostsOf \in Seq({HostsOf[t] : t \in Targets}) /\ MaxRuns \in Nat
    /\ \A t \in Targets : HostsOf[t] \in Seq(HostSet(t)) \ {<<>>}

AllHosts == UNION {HostSet(t) : t \in Targets}
Last == Len(HostsOf)

\* The part of a QueueState that is about hosts; the directory of a host is named after it.
NoProgress == [target |-> NoState, done |-> FALSE, hosts |-> <<>>, index |-> 0, dir |-> NoState]
Rest == [pc |-> "rest", target |-> 1, hosts |-> <<>>, index |-> 0, dir |-> NoState, ctx |-> "live"]

QueueAt(pc) == fanout.pc = pc
RunCancelled == fanout.ctx = "cancelled"

WildcardInit ==
    /\ queueFile = [next |-> 1, progress |-> NoProgress]
    /\ resume = NoProgress
    /\ fanout = Rest
    /\ visited = {} /\ discovered = {}
    /\ runs = 0

-----------------------------------------------------------------------------
\* saveQueueState: the progress given, or the one the request was resumed with.
SaveQueueState(next, progress) == queueFile' = [next |-> next, progress |-> progress]

\* The first run, or a resume: scanRequestFromQueueState.
BeginRun ==
    /\ QueueAt("rest") /\ queueFile # NoState /\ runs < MaxRuns
    /\ resume' = queueFile.progress
    /\ fanout' = [Rest EXCEPT !.pc = "target", !.target = queueFile.next]
    /\ runs' = runs + 1
    /\ UNCHANGED <<queueFile, visited, discovered>>

\* runMultiScan: the next target, unless the queue was paused.
NextTarget ==
    /\ QueueAt("target")
    /\ IF RunCancelled THEN fanout' = Rest /\ UNCHANGED queueFile
       ELSE IF fanout.target > Last THEN fanout' = Rest /\ queueFile' = NoState
       ELSE SaveQueueState(fanout.target, resume) /\ fanout' = [fanout EXCEPT !.pc = "discover"]
    /\ UNCHANGED <<resume, visited, discovered, runs>>

\* discoverWildcardHosts: the list of the request, whichever target it was made for.
\* Fault: the list is used for its own target only, as scanDirForResume does.
ReusesOwnList(t) == resume.done /\ resume.hosts # <<>> /\ resume.target = t
ReusesList(t) == resume.done /\ resume.hosts # <<>>

Progress(t, hosts, index, dir) ==
    [target |-> t, done |-> TRUE, hosts |-> hosts, index |-> index, dir |-> dir]

\* clampInt(req.ResumeSubIndex, 0, len(normalized))
StartIndex(hosts) ==
    IF ~ resume.done THEN 0
    ELSE IF resume.index > Len(hosts) THEN Len(hosts) ELSE resume.index

\* The list of hosts; a failed or killed discovery leaves the root.
Discover ==
    /\ QueueAt("discover")
    /\ LET t == fanout.target IN
       \E hosts \in IF ReusesList(t) THEN {resume.hosts}
                    ELSE {SubSeq(HostsOf[t], 1, 1)}
                         \cup (IF RunCancelled THEN {} ELSE {HostsOf[t]}) :
          /\ fanout' = [fanout EXCEPT !.pc = "host", !.hosts = hosts,
                                      !.index = StartIndex(hosts)]
          /\ SaveQueueState(t, Progress(t, hosts, StartIndex(hosts), NoState))
          /\ discovered' = IF ReusesList(t) THEN discovered ELSE discovered \cup {t}
    /\ UNCHANGED <<resume, visited, runs>>

\* scanDirForWildcardSubdomainResume: the directory of the interrupted session, or a new one.
DirFor(host, index) ==
    IF resume.dir # NoState /\ resume.index = index /\ resume.dir = host
    THEN resume.dir ELSE "new"

\* The index that is saved before the session of a host.
EnterHost(index) == index

\* The session of the next host: its entry is saved first ...
HostStarts ==
    /\ QueueAt("host") /\ ~ RunCancelled /\ fanout.index < Len(fanout.hosts)
    /\ LET h == fanout.hosts[fanout.index + 1] IN
       /\ fanout' = [fanout EXCEPT !.pc = "session", !.dir = DirFor(h, fanout.index)]
       /\ SaveQueueState(fanout.target,
             Progress(fanout.target, fanout.hosts, EnterHost(fanout.index), h))
    /\ UNCHANGED <<resume, visited, discovered, runs>>

\* Mutant: the index of a host that was counted from one.
NextIndexTwice(index) == index + 2

\* ... and the index after it when the session returns, by itself or cancelled.
NextIndex(index) == index + 1

HostEnds ==
    /\ QueueAt("session")
    /\ visited' = visited \cup {<<fanout.target, fanout.hosts[fanout.index + 1]>>}
    /\ fanout' = [fanout EXCEPT !.pc = "host", !.index = @ + 1, !.dir = NoState]
    /\ SaveQueueState(fanout.target,
          Progress(fanout.target, fanout.hosts, NextIndex(fanout.index), NoState))
    /\ UNCHANGED <<resume, discovered, runs>>

\* runMultiScan: the target is done, or the queue was paused meanwhile.
TargetEnds ==
    /\ QueueAt("host") /\ (RunCancelled \/ fanout.index >= Len(fanout.hosts))
    /\ IF RunCancelled THEN fanout' = Rest /\ UNCHANGED queueFile
       ELSE /\ SaveQueueState(fanout.target + 1, resume)
            /\ fanout' = [Rest EXCEPT !.pc = "target", !.target = fanout.target + 1]
    /\ UNCHANGED <<resume, visited, discovered, runs>>

\* A pause: the status of the instance and the context of the target.
Pause ==
    /\ ~ QueueAt("rest") /\ ~ RunCancelled
    /\ fanout' = [fanout EXCEPT !.ctx = "cancelled"]
    /\ UNCHANGED <<queueFile, resume, visited, discovered, runs>>

\* The process dies.
Die ==
    /\ ~ QueueAt("rest")
    /\ fanout' = Rest
    /\ UNCHANGED <<queueFile, resume, visited, discovered, runs>>

WildcardStep == BeginRun \/ NextTarget \/ Discover \/ HostStarts \/ HostEnds \/ TargetEnds

WildcardNext == WildcardStep \/ Pause \/ Die

WildcardSpec == WildcardInit /\ [][WildcardNext]_wildcardVars

-----------------------------------------------------------------------------
ProgressType == {p \in [target : Targets \cup {NoState}, done : BOOLEAN, hosts : Seq(AllHosts),
                        index : Nat, dir : AllHosts \cup {NoState}] : p.index <= Len(p.hosts)}

WildcardTypeOK ==
    /\ \/ queueFile = NoState
       \/ queueFile.next \in 1 .. Last + 1 /\ queueFile.progress \in ProgressType
    /\ resume \in ProgressType
    /\ fanout.pc \in {"rest", "target", "discover", "host", "session"}
    /\ visited \subseteq Targets \X AllHosts
    /\ discovered \subseteq Targets
    /\ runs \in 0 .. MaxRuns

\* The index in the queue file never runs ahead of the sessions: every host before it had a
\* session that returned, whichever mixture of saves, crashes, pauses and stale Resume fields
\* the file went through.  A host past it is at worst scanned again.
IndexIsEarned ==
    queueFile # NoState => \A i \in DOMAIN queueFile.progress.hosts :
        i <= queueFile.progress.index
           => \E t \in Targets : <<t, queueFile.progress.hosts[i]>> \in visited

\* When the queue is done, the hosts of every target were looked for (orchestrator.go: "Each
\* target gets full wildcard treatment: tool-based subdomain discovery, then the native pipeline
\* per discovered host").
EveryTargetIsDiscovered == queueFile = NoState => discovered = Targets
=============================================================================
