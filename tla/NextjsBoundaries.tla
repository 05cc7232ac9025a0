-------------------------- MODULE NextjsBoundaries --------------------------
(***************************************************************************)
(* Controlled boundary probes: nextjsBoundariesRunner                      *)
(* (scanner/nextjs_boundaries.go) over the write journal.                  *)
(*                                                                         *)
(* A cache probe asks whether a shared cache hands the owner's private     *)
(* answer to an identity that must not see it. The only request that may   *)
(* change anything is the owner's "fill", which is journaled; controls     *)
(* with the denied identity frame it, on the resource and on a URL that    *)
(* bypasses the cache, and a reset follows it. Redirect and proxy probes   *)
(* change nothing and use no journal: a parameter is to select an external *)
(* destination, or to make the server fetch a callback. Attempts at the    *)
(* job may overlap and die. Calls of the journal, which WriteJournal       *)
(* models in detail, are one step that succeeds or fails.                  *)
(***************************************************************************)
EXTENDS Naturals

CONSTANTS LastProbe,   \* the probes are 1 .. LastProbe, in the order of their execution
          CacheProbe, ProxyProbe,   \* by kind; the others are redirect probes
          Prober,      \* attempts at the job
          MaxFlips     \* bound: how often the origin changes its mind about the denied identity

\* There is a probe, the cache probes are probes, and the bound is a number.
ASSUME ProbeAssumption ==
    LastProbe \in Nat \ {0} /\ CacheProbe \subseteq 1 .. LastProbe /\ MaxFlips \in Nat

Probe == 1 .. LastProbe

VARIABLES probeWrites,    \* the journal's entry of every cache probe
          prober,         \* per attempt: control point, probe, and its local variables
          probeFindings,  \* lines of findings.jsonl, of all attempts
          faulty,     \* probes whose boundary is broken; never changes
          lenient,    \* resources whose origin lets the denied identity in
          flips,
          cached,     \* resources with the owner's answer in a shared cache
          lateFills,  \* fills whose connection was given up
          fetches,    \* callbacks of a probe's server, per attempt: its token is fresh
          fills       \* history: how often a fill was handed to the network

boundaryVars ==
    <<probeWrites, prober, probeFindings, faulty, lenient, flips, cached, lateFills, fetches,
      fills>>

probeVars == <<faulty, lenient, flips, cached, lateFills, fetches, fills>>

NewProber == [pc |-> "idle", probe |-> 1, leak |-> "unknown", hit |-> FALSE,
              confirmed |-> FALSE, clean |-> TRUE]

BoundariesStartFrom(broken, origin) ==
    /\ probeWrites = [k \in CacheProbe |-> "absent"]
    /\ prober = [r \in Prober |-> NewProber]
    /\ probeFindings = {}
    /\ faulty = broken /\ lenient = origin /\ flips = 0
    /\ cached = {} /\ lateFills = {} /\ fetches = {}
    /\ fills = [k \in CacheProbe |-> 0]

BoundariesInit ==
    \E broken \in SUBSET Probe, origin \in SUBSET CacheProbe : BoundariesStartFrom(broken, origin)

ProbeOf(r) == prober[r].probe

Goto(r, label) == prober' = [prober EXCEPT ![r].pc = label]

Is(r, label) == prober[r].pc = label

-----------------------------------------------------------------------------
(* Before the first probe *)

\* RunAssessmentJobs refuses every write while one is unresolved.
BeginProbes(r) ==
    /\ Is(r, "idle")
    /\ Goto(r, IF \E k \in CacheProbe : probeWrites[k] \in {"intent", "sent"} THEN "over" ELSE "load")
    /\ UNCHANGED <<probeWrites, probeFindings, probeVars>>

\* The first control of a probe.
Entry(k) == IF k \in CacheProbe THEN "cold" ELSE IF k \in ProxyProbe THEN "before" ELSE "control"

\* "cache probe already journaled; automatic replay refused": no probe of any kind is sent.
LoadProbes(r) ==
    /\ Is(r, "load")
    /\ Goto(r, IF \E k \in CacheProbe : probeWrites[k] # "absent" THEN "over" ELSE Entry(1))
    /\ UNCHANGED <<probeWrites, probeFindings, probeVars>>

\* The outcome of the probe is settled and its finding, if there is one, is next.
Settle(r, leak) == prober' = [prober EXCEPT ![r].leak = leak, ![r].pc = "judge"]

-----------------------------------------------------------------------------
(* Cache probes: what the denied identity is given *)

\* On the resource a shared cache answers first, and says so in its headers.
FromCache(k) == k \in cached
Private(k) == FromCache(k) \/ k \in lenient

\* A control proves the denial or ends the probe.
Cold(r) ==
    /\ Is(r, "cold")
    /\ \/ ~Private(ProbeOf(r)) /\ Goto(r, "bypass")
       \/ Settle(r, "unknown")
    /\ UNCHANGED <<probeWrites, probeFindings, probeVars>>

Bypass(r) ==
    /\ Is(r, "bypass")
    /\ \/ ProbeOf(r) \notin lenient /\ Goto(r, "intent")
       \/ Settle(r, "unknown")
    /\ UNCHANGED <<probeWrites, probeFindings, probeVars>>

\* A journal call moves the entry on from the state before, or fails; one that fails may have
\* moved it all the same. A failure is critical: the run ends.
FillCall(r, from, to, next) ==
    /\ \/ /\ probeWrites[ProbeOf(r)] = from
          /\ probeWrites' = [probeWrites EXCEPT ![ProbeOf(r)] = to]
          /\ Goto(r, next)
       \/ /\ \/ UNCHANGED probeWrites
             \/ /\ probeWrites[ProbeOf(r)] = from
                /\ probeWrites' = [probeWrites EXCEPT ![ProbeOf(r)] = to]
          /\ Goto(r, "over")
    /\ UNCHANGED <<probeFindings, probeVars>>

RecordFillIntent(r) == Is(r, "intent") /\ FillCall(r, "absent", "intent", "fill")

\* A broken cache keeps the owner's answer.
Fills(k) == IF k \in faulty THEN cached \cup {k} ELSE cached

HandsFillOver(r) == fills' = [fills EXCEPT ![ProbeOf(r)] = @ + 1]

SendFill(r) ==
    /\ Is(r, "fill")
    /\ HandsFillOver(r) /\ cached' = Fills(ProbeOf(r))
    /\ Goto(r, "sent")
    /\ UNCHANGED <<probeWrites, probeFindings, faulty, lenient, flips, lateFills, fetches>>

\* No answer: "manual reset may be required and replay is refused".
FillLost(r) ==
    /\ Is(r, "fill")
    /\ HandsFillOver(r) /\ lateFills' = lateFills \cup {ProbeOf(r)}
    /\ Goto(r, "over")
    /\ UNCHANGED <<probeWrites, probeFindings, faulty, lenient, flips, cached, fetches>>

\* What the fill says decides whether there is anything to compare; the reset follows anyhow.
MarkFillSent(r) ==
    /\ Is(r, "sent")
    /\ \E next \in {"warm", "reset"} : FillCall(r, "intent", "sent", next)

\* The denied identity asks again. An answer with neither marker, or none, settles nothing.
Warm(r) ==
    /\ Is(r, "warm")
    /\ \E leak \in {IF Private(ProbeOf(r)) THEN "mismatch" ELSE "matched", "unknown"} :
         prober' = [prober EXCEPT ![r].leak = leak, ![r].hit = FromCache(ProbeOf(r)),
                                  ![r].pc = "rebypass"]
    /\ UNCHANGED <<probeWrites, probeFindings, probeVars>>

\* Mutant: a denial at the origin alone attributes the leak to the cache.
AttributableMutant(r) == prober[r].leak = "mismatch" /\ ProbeOf(r) \notin lenient
Attributable(r) == prober[r].leak = "mismatch" /\ prober[r].hit /\ ProbeOf(r) \notin lenient

\* The disclosure is attributed to the cache if the origin still denies what the cache answers.
Rebypass(r) ==
    /\ Is(r, "rebypass")
    /\ \E confirmed \in {FALSE, Attributable(r)} :
         prober' = [prober EXCEPT ![r].confirmed = confirmed, ![r].pc = "reset"]
    /\ UNCHANGED <<probeWrites, probeFindings, probeVars>>

\* A reset may be refused, not arrive after a cancellation, or answer 2xx without an effect.
SendReset(r) ==
    /\ Is(r, "reset")
    /\ cached' \in {cached, cached \ {ProbeOf(r)}}
    /\ \E ok \in BOOLEAN :
         prober' = [prober EXCEPT ![r].clean = ok, ![r].pc = IF ok THEN "after" ELSE "mark"]
    /\ UNCHANGED <<probeWrites, probeFindings, faulty, lenient, flips, lateFills, fetches, fills>>

\* Mutant: an answer to the reset is enough.
IsResetMutant(r) == TRUE
IsReset(r) == ~Private(ProbeOf(r))

\* Only a denial of the denied identity verifies the reset.
CheckReset(r) ==
    /\ Is(r, "after")
    /\ \E ok \in {FALSE, IsReset(r)} :
         prober' = [prober EXCEPT ![r].clean = ok, ![r].pc = "mark"]
    /\ UNCHANGED <<probeWrites, probeFindings, probeVars>>

\* A call that fails makes the reset a failed one.
MarkReset(r) ==
    /\ Is(r, "mark")
    /\ LET marked == [probeWrites EXCEPT ![ProbeOf(r)] =
                        IF prober[r].clean THEN "cleanup_done" ELSE "cleanup_failed"]
       IN \/ probeWrites' = marked /\ Goto(r, "judge")
          \/ /\ probeWrites' \in {probeWrites, marked}
             /\ prober' = [prober EXCEPT ![r].clean = FALSE, ![r].pc = "judge"]
    /\ UNCHANGED <<probeFindings, probeVars>>

-----------------------------------------------------------------------------
(* Redirect and proxy probes *)

\* The parameter selects the local destination it names, or the probe is not sent.
RedirectControl(r) ==
    /\ Is(r, "control")
    /\ \/ Goto(r, "redirect")
       \/ Settle(r, "unknown")
    /\ UNCHANGED <<probeWrites, probeFindings, probeVars>>

RedirectProbe(r) ==
    /\ Is(r, "redirect")
    /\ \E leak \in {IF ProbeOf(r) \in faulty THEN "mismatch" ELSE "matched", "unknown"} :
         Settle(r, leak)
    /\ UNCHANGED <<probeWrites, probeFindings, probeVars>>

\* The token of the attempt has no events yet.
EventsBefore(r) ==
    /\ Is(r, "before")
    /\ \/ <<r, ProbeOf(r)>> \notin fetches /\ Goto(r, "probe")
       \/ Settle(r, "unknown")
    /\ UNCHANGED <<probeWrites, probeFindings, probeVars>>

\* Whether the request is answered or not, events are looked for; a server that obeys may fetch
\* at once, later or not at all.
SendProbe(r) ==
    /\ Is(r, "probe")
    /\ Goto(r, "watch")
    /\ \/ UNCHANGED fetches
       \/ ProbeOf(r) \in faulty /\ fetches' = fetches \cup {<<r, ProbeOf(r)>>}
    /\ UNCHANGED <<probeWrites, probeFindings, faulty, lenient, flips, cached, lateFills, fills>>

\* Up to three readings; the absence of an event proves nothing.
EventsAfter(r) ==
    /\ Is(r, "watch")
    /\ \/ <<r, ProbeOf(r)>> \in fetches /\ Settle(r, "mismatch")
       \/ Settle(r, "unknown")
    /\ UNCHANGED <<probeWrites, probeFindings, probeVars>>

-----------------------------------------------------------------------------
\* The finding is saved first, whatever became of the reset; an unverified reset ends the run.
JudgeProbe(r) ==
    /\ Is(r, "judge")
    /\ probeFindings' = probeFindings \cup
         IF prober[r].leak = "mismatch"
         THEN {[probe |-> ProbeOf(r), confirmed |-> prober[r].confirmed]} ELSE {}
    /\ prober' = [prober EXCEPT ![r] =
         IF prober[r].clean /\ ProbeOf(r) < LastProbe
         THEN [NewProber EXCEPT !.pc = Entry(ProbeOf(r) + 1), !.probe = ProbeOf(r) + 1]
         ELSE [@ EXCEPT !.pc = "over"]]
    /\ UNCHANGED <<probeWrites, probeVars>>

\* The process dies, or a manifest, the journal, the guard of a destination or an evidence file
\* fails where that ends the run.
StopProbes(r) ==
    /\ prober[r].pc \notin {"idle", "over"}
    /\ Goto(r, "over")
    /\ UNCHANGED <<probeWrites, probeFindings, probeVars>>

\* A fill that was given up arrives after all.
ArriveFill(k) ==
    /\ k \in lateFills
    /\ lateFills' = lateFills \ {k} /\ cached' = Fills(k)
    /\ UNCHANGED <<probeWrites, prober, probeFindings, faulty, lenient, flips, fetches, fills>>

\* The origin begins or ceases to let the denied identity in.
Flip(k) ==
    /\ flips < MaxFlips
    /\ flips' = flips + 1
    /\ lenient' = IF k \in lenient THEN lenient \ {k} ELSE lenient \cup {k}
    /\ UNCHANGED <<probeWrites, prober, probeFindings, faulty, cached, lateFills, fetches, fills>>

ProberStep(r) ==
    \/ BeginProbes(r) \/ LoadProbes(r) \/ Cold(r) \/ Bypass(r) \/ RecordFillIntent(r) \/ SendFill(r)
    \/ FillLost(r) \/ MarkFillSent(r) \/ Warm(r) \/ Rebypass(r) \/ SendReset(r) \/ CheckReset(r)
    \/ MarkReset(r) \/ RedirectControl(r) \/ RedirectProbe(r) \/ EventsBefore(r)
    \/ SendProbe(r) \/ EventsAfter(r) \/ JudgeProbe(r) \/ StopProbes(r)

BoundariesNext == \/ \E r \in Prober : ProberStep(r)
                  \/ \E k \in CacheProbe : ArriveFill(k) \/ Flip(k)

BoundariesSpec == BoundariesInit /\ [][BoundariesNext]_boundaryVars

-----------------------------------------------------------------------------
BoundariesTypeOK ==
    /\ probeWrites \in [CacheProbe -> {"absent", "intent", "sent", "cleanup_done", "cleanup_failed"}]
    /\ prober \in [Prober ->
         [pc : {"idle", "load", "cold", "bypass", "intent", "fill", "sent", "warm", "rebypass",
                "reset", "after", "mark", "control", "redirect", "before", "probe", "watch",
                "judge", "over"},
          probe : Probe, leak : {"unknown", "matched", "mismatch"},
          hit : BOOLEAN, confirmed : BOOLEAN, clean : BOOLEAN]]
    /\ probeFindings \subseteq [probe : Probe, confirmed : BOOLEAN]
    /\ faulty \subseteq Probe /\ lenient \subseteq CacheProbe /\ flips \in 0 .. MaxFlips
    /\ cached \subseteq CacheProbe /\ lateFills \subseteq CacheProbe
    /\ fetches \subseteq Prober \X Probe
    /\ fills \in [CacheProbe -> Nat]

\* A finding names a broken boundary. One exception is honest about itself: if the origin changed
\* its mind between the controls, a disclosure may be reported that no cache made, and then it is
\* not attributed to the cache ("Cache attribution", nextjs_boundaries.go:430).
BoundaryIsBroken == \A f \in probeFindings :
    f.confirmed \/ f.probe \notin CacheProbe \/ flips = 0 => f.probe \in faulty

\* A cache probe that is journaled as cleaned up has left nothing of the owner in the cache
\* (resetOK of runCacheBoundary).
ResetIsComplete == \A k \in CacheProbe : probeWrites[k] = "cleanup_done" => k \notin cached

\* The owner's answer is requested once, whichever attempts overlap, and never on top of one that
\* a cache may still hold (the intent of runCacheBoundary).
FilledOnceWhenCold ==
    [][\A k \in CacheProbe : fills'[k] # fills[k] => fills[k] = 0 /\ k \notin cached]_boundaryVars
=============================================================================
