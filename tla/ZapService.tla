----------------------------- MODULE ZapService -----------------------------
(***************************************************************************)
(* Jobs on a shared ZAP daemon: zapRunner.Run (scanner/zap.go) with the    *)
(* recording proxy (zap_gateway.go) and the spider policy                  *)
(* (zap_discovery.go) it installs.                                         *)
(*                                                                         *)
(* A job takes the lease of the daemon, changes what is global in it, one  *)
(* thing after the other, scans, and puts everything back in reverse       *)
(* order, whatever happened.  An answer of the daemon may be lost after    *)
(* the call took effect.  A daemon that could not be put back is           *)
(* quarantined.                                                            *)
(***************************************************************************)
EXTENDS Naturals, Sequences

CONSTANTS ZapRun,  \* runs of the scanner
          Typed,   \* those of a typed assessment
          NoRun

ASSUME ZapAssumption == NoRun \notin ZapRun

VARIABLES daemon,      \* the jobs whose change of each global of the daemon was not put back
          lease,       \* the job that holds zapLeases.byService
          quarantined, \* zapServiceState.quarantined
          scan         \* the runs: position, deferred calls, context

zapVars == <<daemon, lease, quarantined, scan>>

\* What a run does, in this order: most steps change a global of the daemon, three only scan.
ZapSteps == <<"gateway", "session", "context", "spiderExclusions", "scanExclusions", "rate",
              "rules", "spiderPolicy", "spider", "scanRule", "active", "export">>

Stages == {"spider", "active", "export"}
Globals == {ZapSteps[i] : i \in DOMAIN ZapSteps} \ Stages
Exclusions == {"spiderExclusions", "scanExclusions"}

\* An untyped run does without a proxy, a session and a spider policy of its own.
Uses(j, what) == j \in Typed \/ what \notin {"gateway", "session", "context", "spiderPolicy"}

\* Only a typed run's session and context do not depend on the configuration.
Dispensable(what) == what \notin {"session", "context"}

\* Whether the run goes on when the daemon refuses the change.
BestEffort(j, g) == g = "scanRule" \/ (g = "rate" /\ j \notin Typed)

ZapFresh == [pc |-> "new", at |-> 1, undo |-> <<>>, live |-> TRUE]

Moves(j, r) == scan' = [scan EXCEPT ![j] = r]
DaemonSame == UNCHANGED <<daemon, lease, quarantined>>

ZapInit == /\ daemon = [g \in Globals |-> {}]
           /\ lease = NoRun
           /\ quarantined = FALSE
           /\ scan = [j \in ZapRun |-> ZapFresh]

-----------------------------------------------------------------------------
\* Refused before the lease: target, scope, a shared daemon or no verifier of the session.
ZapRefuse(j) == /\ scan[j].pc = "new"
                /\ Moves(j, [ZapFresh EXCEPT !.pc = "done"])
                /\ DaemonSame

\* The time of the job runs out, or it is stopped.
Cancel(j) == /\ scan[j].pc \in {"new", "leased", "work"} /\ scan[j].live
             /\ Moves(j, [scan[j] EXCEPT !.live = FALSE])
             /\ DaemonSame

\* acquireZAPServiceLease; with both possible, the select takes either.
TakeLease(j) == /\ scan[j].pc = "new" /\ lease = NoRun
                /\ lease' = j
                /\ Moves(j, [scan[j] EXCEPT !.pc = "leased"])
                /\ UNCHANGED <<daemon, quarantined>>

LeaseCancelled(j) == /\ scan[j].pc = "new" /\ ~ scan[j].live
                     /\ Moves(j, [ZapFresh EXCEPT !.pc = "done"])
                     /\ DaemonSame

\* The quarantine is asked under the lease; the daemon must answer with the tested add-ons.
Probe(j) == /\ scan[j].pc = "leased"
            /\ \/ /\ ~ quarantined /\ scan[j].live
                  /\ Moves(j, [scan[j] EXCEPT !.pc = "work"])
               \/ Moves(j, [scan[j] EXCEPT !.pc = "undo"])
            /\ DaemonSame

-----------------------------------------------------------------------------
Working(j) == scan[j].pc = "work" /\ scan[j].at <= Len(ZapSteps)
Now(j) == ZapSteps[scan[j].at]
Next1(j) == [scan[j] EXCEPT !.at = @ + 1]
Fails(j) == [scan[j] EXCEPT !.pc = "undo"]

Skip(j) == /\ Working(j) /\ (~ Uses(j, Now(j)) \/ Dispensable(Now(j)))
           /\ Moves(j, Next1(j))
           /\ DaemonSame

\* Mutant: the call that puts a thing back is registered when the change has succeeded.
RegisteredMutant(j, g, ok) == ok

\* The prior value is read and the deferred call registered before the change; not so for the
\* session and its context, which the reset of the session removes, and for the recording
\* proxy, which restores itself when it cannot be installed. A scan rule that is disabled
\* already stays so, and an untyped run never enables it again.
Registered(j, g, ok) ==
    /\ ok \/ g \notin {"gateway", "session", "context"}
    /\ g = "scanRule" => j \in Typed /\ daemon[g] = {}

After(j, r, g, ok) == [r EXCEPT !.undo = IF Registered(j, g, ok) THEN <<g>> \o @ ELSE @]

\* Disabling a disabled rule changes nothing.
Changed(j, g) == IF g = "scanRule" /\ daemon[g] # {} THEN daemon
                                                     ELSE [daemon EXCEPT ![g] = @ \cup {j}]

\* A global of the daemon is changed; an upstream proxy that is enabled is not replaced.
Change(j) ==
    /\ Working(j) /\ Uses(j, Now(j)) /\ Now(j) \in Globals /\ scan[j].live
    /\ Now(j) = "gateway" => daemon["gateway"] = {}
    /\ daemon' = Changed(j, Now(j))
    /\ Moves(j, After(j, Next1(j), Now(j), TRUE))
    /\ UNCHANGED <<lease, quarantined>>

\* Nothing was changed: a view failed, or the daemon would not say what it has.
Unread(j) ==
    /\ Working(j) /\ Uses(j, Now(j))
    /\ Moves(j, IF Now(j) = "rate" /\ BestEffort(j, Now(j)) THEN Next1(j) ELSE Fails(j))
    /\ DaemonSame

\* The change fails, or its answer is lost.
ChangeFails(j) ==
    /\ Working(j) /\ Uses(j, Now(j)) /\ Now(j) \in Globals \ {"gateway", "session", "context"}
    /\ daemon' \in {daemon, Changed(j, Now(j))}
    /\ Moves(j, After(j, IF BestEffort(j, Now(j)) THEN Next1(j) ELSE Fails(j), Now(j), FALSE))
    /\ UNCHANGED <<lease, quarantined>>

\* newContext fails although the context exists: it goes with the session.
ContextFails(j) ==
    /\ Working(j) /\ Uses(j, Now(j)) /\ Now(j) = "context"
    /\ daemon' = Changed(j, "context")
    /\ Moves(j, Fails(j))
    /\ UNCHANGED <<lease, quarantined>>

\* The recording proxy cannot be installed, and perhaps not be removed either.
GatewayFails(j) ==
    /\ Working(j) /\ Uses(j, Now(j)) /\ Now(j) = "gateway" /\ scan[j].live
    /\ daemon' = Changed(j, "gateway")
    /\ quarantined' = TRUE
    /\ Moves(j, Fails(j))
    /\ UNCHANGED lease

\* A stage of the scan: the session is verified, the daemon asked to scan and polled.
Stage(j) == /\ Working(j) /\ Now(j) \in Stages /\ scan[j].live
            /\ Moves(j, Next1(j))
            /\ DaemonSame

\* A refreshed cookie replaces its rule, which is removed first; the new one may not get in.
ReplaceRule(j) ==
    /\ Working(j) /\ Now(j) \in Stages
    /\ daemon' \in {[daemon EXCEPT !["rules"] = @ \ {j}], daemon}
    /\ Moves(j, Fails(j))
    /\ UNCHANGED <<lease, quarantined>>

Complete(j) == /\ scan[j].pc = "work" /\ scan[j].at > Len(ZapSteps)
               /\ Moves(j, [scan[j] EXCEPT !.pc = "undo"])
               /\ DaemonSame

-----------------------------------------------------------------------------
\* A failure to put a thing back quarantines the daemon; an untyped run only logs the rate
\* and the rules.
\* Mutant: a typed run only logs them, too.
QuarantinesMutant(j, g) == g \notin {"rate", "rules"}
Quarantines(j, g) == j \in Typed \/ g \notin {"rate", "rules"}

\* Globals get their prior values back; the reset of the session takes the context along.
PutBack(j, g) ==
    [h \in Globals |-> IF g = "session" /\ h \in {"session", "context"} THEN {}
                       ELSE IF h = g THEN daemon[h] \ {j} ELSE daemon[h]]

\* The deferred calls run in reverse order on contexts of their own, cancelled or not; one that
\* fails has, at worst, put nothing back.
Undo(j) ==
    /\ scan[j].pc = "undo" /\ scan[j].undo # <<>>
    /\ LET g == Head(scan[j].undo)
       IN  \/ daemon' = PutBack(j, g) /\ UNCHANGED quarantined
           \/ /\ UNCHANGED daemon
              /\ quarantined' = (quarantined \/ Quarantines(j, g))
    /\ Moves(j, [scan[j] EXCEPT !.undo = Tail(@)])
    /\ UNCHANGED lease

Release(j) == /\ scan[j].pc = "undo" /\ scan[j].undo = <<>>
              /\ lease' = NoRun
              /\ Moves(j, [ZapFresh EXCEPT !.pc = "done"])
              /\ UNCHANGED <<daemon, quarantined>>

ZapNext == \E j \in ZapRun :
    \/ ZapRefuse(j) \/ Cancel(j) \/ TakeLease(j) \/ LeaseCancelled(j) \/ Probe(j)
    \/ Skip(j) \/ Change(j) \/ Unread(j) \/ ChangeFails(j) \/ ContextFails(j)
    \/ GatewayFails(j) \/ Stage(j) \/ ReplaceRule(j) \/ Complete(j)
    \/ Undo(j) \/ Release(j)

ZapSpec == ZapInit /\ [][ZapNext]_zapVars

-----------------------------------------------------------------------------
ZapTypeOK ==
    /\ daemon \in [Globals -> SUBSET ZapRun]
    /\ lease \in ZapRun \cup {NoRun}
    /\ quarantined \in BOOLEAN
    /\ scan \in [ZapRun -> [pc : {"new", "leased", "work", "undo", "done"}, live : BOOLEAN,
                            at : 1 .. Len(ZapSteps) + 1, undo : Seq(Globals)]]

\* A job works on a daemon in which no typed job has left anything: no credential rule, proxy,
\* exclusion, rate or policy of another target, however that job failed, was cancelled or lost
\* the answers of the daemon (zap.go: "leaving them behind would replay this target's
\* credentials onto the next one").
StartsClean == \A j \in ZapRun : scan[j].pc = "work" =>
    \A g \in Globals : daemon[g] \cap Typed \subseteq {j}

\* The same of untyped jobs, whose failed clean-up is only logged.
NothingIsReplayed == \A j \in ZapRun : scan[j].pc = "work" => daemon["rules"] \subseteq {j}
=============================================================================
