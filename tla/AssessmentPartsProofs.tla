------------------------- MODULE AssessmentPartsProofs -------------------------
(* Proofs about the parts of an assessment that its jobs and its clients share: the ZAP daemon,
   the authenticated sessions, the approved revisions and the plan.
   Each part is for any values of its own constants. *)
EXTENDS ZapService, AuthSession, DiscoveryRevisions, Planner, TLAPS

-----------------------------------------------------------------------------
(* The ZAP daemon.                                                          *)

Elements(s) == {s[i] : i \in DOMAIN s}

\* What the deferred calls of a job will put back: the reset of the session takes the context.
Pending(j) == Elements(scan[j].undo)
                \cup (IF "session" \in Elements(scan[j].undo) THEN {"context"} ELSE {})

Holds(j) == scan[j].pc \in {"leased", "work", "undo"}

\* The lease is exclusive, and a quarantined daemon is never worked on.
LeaseInv == \A j \in ZapRun :
    /\ Holds(j) => lease = j
    /\ scan[j].pc = "work" => ~ quarantined
    /\ ~ Holds(j) => scan[j].undo = <<>>

\* A typed job that is past its session will reset it.
SessionInv == \A j \in Typed \cap ZapRun :
    scan[j].pc \in {"new", "leased", "work"} /\ scan[j].at > 2
       => "session" \in Elements(scan[j].undo)

\* What a typed job changed is going to be put back, or the daemon is quarantined.
OwedInv == \A j \in Typed \cap ZapRun, g \in Globals :
    j \in daemon[g] => quarantined \/ g \in Pending(j)

ZapInv == ZapTypeOK /\ LeaseInv /\ SessionInv /\ OwedInv

ScanRecord == [pc : {"new", "leased", "work", "undo", "done"}, live : BOOLEAN,
         at : 1 .. Len(ZapSteps) + 1, undo : Seq(Globals)]

Owes(r) == Elements(r.undo) \cup (IF "session" \in Elements(r.undo) THEN {"context"} ELSE {})

-----------------------------------------------------------------------------
(* The plan and the deferred calls. *)

\* What the plan of a job says of the settings it changes.
LEMMA PlanFacts ==
  /\ Len(ZapSteps) = 12 /\ DOMAIN ZapSteps = 1 .. 12
  /\ ZapSteps[2] = "session" /\ \A i \in 1 .. 12 : ZapSteps[i] = "session" => i = 2
  /\ \A i \in 1 .. 12 : ZapSteps[i] \notin Stages => ZapSteps[i] \in Globals
  /\ {"session", "context", "gateway", "rules"} \subseteq Globals
<1>1. Len(ZapSteps) = 12 /\ DOMAIN ZapSteps = 1 .. 12
  BY DEF ZapSteps
<1>2. ZapSteps[1] = "gateway" /\ ZapSteps[2] = "session" /\ ZapSteps[3] = "context" /\ ZapSteps[7] = "rules"
  BY DEF ZapSteps
<1>3. \A i \in 1 .. 12 : ZapSteps[i] = "session" => i = 2
  BY DEF ZapSteps
<1>4. \A i \in 1 .. 12 : ZapSteps[i] \notin Stages => ZapSteps[i] \in Globals
  BY <1>1 DEF Globals
<1>5. {"session", "context", "gateway", "rules"} \subseteq Globals
  BY <1>1, <1>2, <1>4 DEF Stages
<1> QED
  BY <1>1, <1>2, <1>3, <1>4, <1>5

\* Registering a restoration keeps the types of the job.
LEMMA Deferred ==
  ASSUME NEW s \in Seq(Globals), NEW g \in Globals
  PROVE  <<g>> \o s \in Seq(Globals) /\ Elements(<<g>> \o s) = {g} \cup Elements(s)
<1> DEFINE t == <<g>> \o s
<1>1. t \in Seq(Globals) /\ Len(t) = Len(s) + 1 /\ t[1] = g
      /\ \A i \in 1 .. Len(s) : t[i + 1] = s[i]
  OBVIOUS
<1>2. Elements(t) \subseteq {g} \cup Elements(s)
  <2> SUFFICES ASSUME NEW i \in 1 .. Len(s) + 1
               PROVE  t[i] \in {g} \cup Elements(s)
    BY <1>1 DEF Elements
  <2>1. CASE i = 1
    BY <2>1, <1>1
  <2>2. CASE i # 1
    <3>1. i - 1 \in 1 .. Len(s) /\ t[(i - 1) + 1] = s[i - 1]
      BY <2>2, <1>1
    <3> QED
      BY <3>1 DEF Elements
  <2> QED
    BY <2>1, <2>2
<1>3. Elements(s) \subseteq Elements(t)
  <2> SUFFICES ASSUME NEW i \in 1 .. Len(s)
               PROVE  s[i] \in Elements(t)
    BY DEF Elements
  <2>1. i + 1 \in DOMAIN t /\ t[i + 1] = s[i]
    BY <1>1
  <2> QED
    BY <2>1 DEF Elements
<1>4. g \in Elements(t)
  BY <1>1 DEF Elements
<1> QED
  BY <1>1, <1>2, <1>3, <1>4

\* A call leaves the setting changed or as it was.
LEMMA Called ==
  ASSUME NEW s \in Seq(Globals), s # <<>>
  PROVE  /\ Tail(s) \in Seq(Globals) /\ Head(s) \in Globals
         /\ Elements(s) = {Head(s)} \cup Elements(Tail(s))
<1>1. Tail(s) \in Seq(Globals) /\ Head(s) \in Globals /\ Len(s) \in Nat \ {0}
      /\ Len(Tail(s)) = Len(s) - 1 /\ Head(s) = s[1]
      /\ \A i \in 1 .. Len(s) - 1 : Tail(s)[i] = s[i + 1]
  OBVIOUS
<1>2. Elements(s) \subseteq {Head(s)} \cup Elements(Tail(s))
  <2> SUFFICES ASSUME NEW i \in 1 .. Len(s), i # 1
               PROVE  s[i] \in Elements(Tail(s))
    BY <1>1 DEF Elements
  <2>1. i - 1 \in DOMAIN Tail(s) /\ (i - 1) + 1 = i
    BY <1>1
  <2>2. Tail(s)[i - 1] = s[i]
    BY <1>1, <2>1
  <2> QED
    BY <2>1, <2>2 DEF Elements
<1>3. Elements(Tail(s)) \subseteq Elements(s)
  <2> SUFFICES ASSUME NEW i \in 1 .. Len(s) - 1
               PROVE  Tail(s)[i] \in Elements(s)
    BY <1>1 DEF Elements
  <2>1. i + 1 \in DOMAIN s /\ Tail(s)[i] = s[i + 1]
    BY <1>1
  <2> QED
    BY <2>1 DEF Elements
<1>4. Head(s) \in Elements(s)
  BY <1>1 DEF Elements
<1> QED
  BY <1>1, <1>2, <1>3, <1>4


-----------------------------------------------------------------------------
(* The steps. *)

\* A fresh job is well typed.
LEMMA FreshType ==
  /\ ZapFresh \in ScanRecord /\ [ZapFresh EXCEPT !.pc = "done"] \in ScanRecord
  /\ ZapFresh.undo = <<>> /\ [ZapFresh EXCEPT !.pc = "done"].pc = "done"
  /\ [ZapFresh EXCEPT !.pc = "done"].undo = <<>>
<1>1. 1 \in 1 .. Len(ZapSteps) + 1 /\ <<>> \in Seq(Globals)
  BY PlanFacts
<1> QED
  BY <1>1 DEF ZapFresh, ScanRecord

\* A step of the job that holds the lease, which keeps it or ends.
LEMMA HolderStep ==
  ASSUME ZapInv, NEW j \in ZapRun, Holds(j), NEW r \in ScanRecord, scan' = [scan EXCEPT ![j] = r],
         daemon' \in [Globals -> SUBSET ZapRun], quarantined' \in BOOLEAN,
         \/ r.pc \in {"leased", "work", "undo"} /\ UNCHANGED lease
         \/ r.pc = "done" /\ r.undo = <<>> /\ lease' \in ZapRun \cup {NoRun},
         r.pc = "work" => ~ quarantined',
         j \in Typed /\ r.pc \in {"leased", "work"} /\ r.at > 2 => "session" \in Elements(r.undo),
         \A g \in Globals : j \in Typed /\ j \in daemon'[g] => quarantined' \/ g \in Owes(r),
         \A k \in ZapRun \ {j}, g \in Globals : k \in daemon'[g] => k \in daemon[g],
         quarantined => quarantined'
  PROVE  ZapInv'
<1>1. scan \in [ZapRun -> ScanRecord] /\ lease = j
  BY DEF ZapInv, ZapTypeOK, ScanRecord, LeaseInv
<1>2. scan'[j] = r /\ \A k \in ZapRun \ {j} : scan'[k] = scan[k]
  BY <1>1
<1>3. \A k \in ZapRun \ {j} : ~ Holds(k) /\ scan[k].undo = <<>>
  BY <1>1 DEF ZapInv, LeaseInv
<1>4. ZapTypeOK'
  <2>1. scan' \in [ZapRun -> ScanRecord] /\ lease' \in ZapRun \cup {NoRun}
    BY <1>1 DEF ZapInv, ZapTypeOK
  <2> QED
    BY <2>1 DEF ZapTypeOK, ScanRecord
<1>5. LeaseInv'
  BY <1>1, <1>2, <1>3 DEF LeaseInv, Holds, ScanRecord
<1>6. SessionInv'
  BY <1>2 DEF SessionInv, ZapInv, Holds
<1>7. OwedInv'
  <2> SUFFICES ASSUME NEW k \in Typed \cap ZapRun, NEW g \in Globals, k \in daemon'[g]
               PROVE  quarantined' \/ g \in Pending(k)'
    BY DEF OwedInv
  <2>1. CASE k = j
    BY <2>1, <1>2 DEF Pending, Owes
  <2>2. CASE k # j
    BY <2>2, <1>2 DEF ZapInv, OwedInv, Pending
  <2> QED
    BY <2>1, <2>2
<1> QED
  BY <1>4, <1>5, <1>6, <1>7 DEF ZapInv

\* A step of a job that neither holds the lease nor changes the daemon.
LEMMA OutsideStep ==
  ASSUME ZapInv, NEW j \in ZapRun, scan[j].pc = "new", NEW r \in ScanRecord,
         scan' = [scan EXCEPT ![j] = r], r.undo = <<>>, UNCHANGED <<daemon, quarantined>>,
         r.pc = "done" \/ r.at = scan[j].at,
         \/ r.pc \in {"new", "done"} /\ UNCHANGED lease
         \/ r.pc = "leased" /\ lease = NoRun /\ lease' = j
  PROVE  ZapInv'
<1>1. scan \in [ZapRun -> ScanRecord]
  BY DEF ZapInv, ZapTypeOK, ScanRecord
<1>2. scan'[j] = r /\ \A k \in ZapRun \ {j} : scan'[k] = scan[k]
  BY <1>1
<1>3. ZapTypeOK'
  <2>1. scan' \in [ZapRun -> ScanRecord] /\ lease' \in ZapRun \cup {NoRun}
    BY <1>1 DEF ZapInv, ZapTypeOK
  <2> QED
    BY <2>1 DEF ZapInv, ZapTypeOK, ScanRecord
<1>4. LeaseInv'
  BY <1>1, <1>2, ZapAssumption DEF ZapInv, LeaseInv, Holds, ScanRecord
<1>5. SessionInv'
  BY <1>2 DEF ZapInv, SessionInv, LeaseInv, Holds
<1>6. OwedInv'
  <2> SUFFICES ASSUME NEW k \in Typed \cap ZapRun, NEW g \in Globals, k \in daemon[g]
               PROVE  quarantined \/ g \in Pending(k)'
    BY DEF OwedInv
  <2>1. quarantined \/ g \in Pending(k)
    BY DEF ZapInv, OwedInv
  <2>2. CASE k = j
    <3>1. scan[j].undo = <<>>
      BY DEF ZapInv, LeaseInv, Holds
    <3> QED
      BY <2>1, <2>2, <3>1, <1>2 DEF Pending
  <2>3. CASE k # j
    BY <2>1, <2>3, <1>2 DEF Pending
  <2> QED
    BY <2>2, <2>3
<1> QED
  BY <1>3, <1>4, <1>5, <1>6 DEF ZapInv

\* A change of a global, complete or not, of which the job has a deferred call.
LEMMA ChangeStep ==
  ASSUME ZapInv, NEW j \in ZapRun, Working(j), Now(j) \in Globals,
         NEW r \in {Next1(j), Fails(j)}, NEW ok \in BOOLEAN,
         Registered(j, Now(j), ok) \/ Changed(j, Now(j)) = daemon \/ j \notin Typed,
         Now(j) = "session" => Registered(j, Now(j), ok),
         scan' = [scan EXCEPT ![j] = After(j, r, Now(j), ok)],
         daemon' \in {daemon, Changed(j, Now(j))}, UNCHANGED <<lease, quarantined>>
  PROVE  ZapInv'
<1> DEFINE g == Now(j)  new == After(j, r, g, ok)
<1>1. scan \in [ZapRun -> ScanRecord]
  BY DEF ZapInv, ZapTypeOK, ScanRecord
<1>2. scan[j].pc = "work" /\ scan[j].at \in 1 .. 12 /\ scan[j].undo \in Seq(Globals)
  BY <1>1, PlanFacts DEF Working, ScanRecord
<1>3. r \in ScanRecord /\ r.undo = scan[j].undo /\ r.pc \in {"work", "undo"} /\ r.at <= scan[j].at + 1
  <2>1. scan[j].at + 1 \in 1 .. Len(ZapSteps) + 1 /\ scan[j].at \in 1 .. Len(ZapSteps) + 1
    BY <1>2, PlanFacts
  <2>2. CASE r = Next1(j)
    BY <1>1, <1>2, <2>1, <2>2 DEF Next1, ScanRecord
  <2>3. CASE r = Fails(j)
    BY <1>1, <1>2, <2>1, <2>3 DEF Fails, ScanRecord
  <2> QED
    BY <2>2, <2>3
<1>4. <<g>> \o r.undo \in Seq(Globals) /\ Elements(<<g>> \o r.undo) = {g} \cup Elements(r.undo)
  BY <1>2, <1>3, Deferred
<1>5. new \in ScanRecord /\ new.pc = r.pc /\ new.at = r.at
  BY <1>3, <1>4 DEF After, ScanRecord
<1>6. new.undo = IF Registered(j, g, ok) THEN <<g>> \o r.undo ELSE r.undo
  BY <1>3 DEF After, ScanRecord
<1>7. Elements(scan[j].undo) \subseteq Elements(new.undo)
      /\ (Registered(j, g, ok) => g \in Elements(new.undo))
  BY <1>3, <1>4, <1>6
<1>8. daemon' \in [Globals -> SUBSET ZapRun]
      /\ \A k \in ZapRun, h \in Globals : k \in daemon'[h] => k \in daemon[h] \/ (k = j /\ h = g)
  BY DEF ZapInv, ZapTypeOK, Changed
<1>9. Holds(j) /\ ~ quarantined
  BY <1>2 DEF Holds, ZapInv, LeaseInv
<1>10. j \in Typed /\ new.pc = "work" /\ new.at > 2 => "session" \in Elements(new.undo)
  <2> SUFFICES ASSUME j \in Typed, new.at > 2
               PROVE  "session" \in Elements(new.undo)
    OBVIOUS
  <2>1. CASE scan[j].at > 2
    BY <2>1, <1>2, <1>7 DEF ZapInv, SessionInv
  <2>2. CASE scan[j].at <= 2
    <3>1. scan[j].at = 2
      BY <2>2, <1>2, <1>3, <1>5, PlanFacts DEF ScanRecord
    <3> QED
      BY <3>1, <1>7, PlanFacts DEF Now
  <2> QED
    BY <2>1, <2>2, <1>2
<1>11. \A h \in Globals : j \in Typed /\ j \in daemon'[h] => h \in Owes(new)
  <2> SUFFICES ASSUME j \in Typed, NEW h \in Globals, j \in daemon'[h]
               PROVE  h \in Owes(new)
    OBVIOUS
  <2>1. CASE j \in daemon[h]
    BY <2>1, <1>7, <1>9 DEF ZapInv, OwedInv, Pending, Owes
  <2>2. CASE j \notin daemon[h]
    BY <2>2, <1>7, <1>8 DEF Owes
  <2> QED
    BY <2>1, <2>2
<1>12. scan' = [scan EXCEPT ![j] = new] /\ quarantined' \in BOOLEAN /\ ~ quarantined'
  BY <1>9 DEF ZapInv, ZapTypeOK
<1> HIDE DEF new, g
<1>13. \A k \in ZapRun \ {j}, h \in Globals : k \in daemon'[h] => k \in daemon[h]
  BY <1>8
<1> QED
  BY <1>3, <1>5, <1>8, <1>9, <1>10, <1>11, <1>12, <1>13, HolderStep


\* A step of a job at work that changes nothing global, or puts something back.
LEMMA WorkStep ==
  ASSUME ZapInv, NEW j \in ZapRun, scan[j].pc = "work", NEW r \in ScanRecord,
         r.pc \in {"work", "undo"}, r.undo = scan[j].undo,
         r.pc = "work" => r.at = scan[j].at \/ (r.at = scan[j].at + 1 /\ (j \notin Typed \/ scan[j].at # 2)),
         scan' = [scan EXCEPT ![j] = r], daemon' \in [Globals -> SUBSET ZapRun],
         \A h \in Globals : daemon'[h] \subseteq daemon[h], UNCHANGED <<lease, quarantined>>
  PROVE  ZapInv'
<1>1. Holds(j) /\ ~ quarantined /\ quarantined' \in BOOLEAN
  BY DEF Holds, ZapInv, LeaseInv, ZapTypeOK
<1>2. j \in Typed /\ r.pc = "work" /\ r.at > 2 => "session" \in Elements(r.undo)
  <2> SUFFICES ASSUME j \in Typed, r.pc = "work", r.at > 2
               PROVE  scan[j].at > 2
    BY DEF ZapInv, SessionInv
  <2> QED
    <3>1. scan[j].at \in 1 .. 13
      BY PlanFacts DEF ZapInv, ZapTypeOK
    <3> QED
      BY <3>1
<1>3. \A g \in Globals : j \in Typed /\ j \in daemon'[g] => g \in Owes(r)
  BY <1>1 DEF ZapInv, OwedInv, Pending, Owes
<1>4. \A k \in ZapRun \ {j}, g \in Globals : k \in daemon'[g] => k \in daemon[g]
  OBVIOUS
<1> QED
  BY <1>1, <1>2, <1>3, <1>4, HolderStep

\* A deferred call, which may fail.
LEMMA UndoStep ==
  ASSUME ZapInv, NEW j \in ZapRun, Undo(j)
  PROVE  ZapInv'
<1> DEFINE s == scan[j].undo  r == [scan[j] EXCEPT !.undo = Tail(s)]
<1>1. scan[j] \in ScanRecord /\ s \in Seq(Globals) /\ s # <<>> /\ scan[j].pc = "undo"
      /\ scan' = [scan EXCEPT ![j] = r] /\ UNCHANGED lease
  BY DEF Undo, Moves, ZapInv, ZapTypeOK, ScanRecord
<1>2. Tail(s) \in Seq(Globals) /\ Head(s) \in Globals /\ Elements(s) = {Head(s)} \cup Elements(Tail(s))
  BY <1>1, Called
<1>3. r \in ScanRecord /\ r.pc = "undo" /\ r.undo = Tail(s)
  BY <1>1, <1>2 DEF ScanRecord
<1>4. Holds(j)
  BY <1>1 DEF Holds
<1>5. CASE daemon' = PutBack(j, Head(s)) /\ UNCHANGED quarantined
  <2>1. daemon' \in [Globals -> SUBSET ZapRun] /\ \A h \in Globals : daemon'[h] \subseteq daemon[h]
    BY <1>5 DEF PutBack, ZapInv, ZapTypeOK
  <2>2. ASSUME NEW h \in Globals, j \in Typed, j \in daemon'[h], ~ quarantined
        PROVE  h \in Owes(r)
    <3>1. h # Head(s) /\ (Head(s) = "session" => h # "context")
      BY <2>2, <1>5 DEF PutBack
    <3>2. h \in Pending(j)
      BY <2>1, <2>2 DEF ZapInv, OwedInv
    <3> QED
      BY <3>1, <3>2, <1>2, <1>3 DEF Pending, Owes
  <2> QED
    BY <2>1, <2>2, <1>1, <1>3, <1>4, <1>5, HolderStep DEF ZapInv, ZapTypeOK
<1>6. CASE UNCHANGED daemon /\ quarantined' = (quarantined \/ Quarantines(j, Head(s)))
  <2>1. daemon' \in [Globals -> SUBSET ZapRun] /\ quarantined' \in BOOLEAN
    BY <1>6 DEF ZapInv, ZapTypeOK, Quarantines
  <2>2. (j \in Typed => quarantined') /\ (quarantined => quarantined')
    BY <1>6 DEF Quarantines
  <2> QED
    BY <2>1, <2>2, <1>1, <1>3, <1>4, <1>6, HolderStep
<1> QED
  BY <1>5, <1>6 DEF Undo

-----------------------------------------------------------------------------
\* The invariant of the proof holds in every reachable state.
LEMMA ZapInductive == ZapSpec => []ZapInv
<1>1. ZapInit => ZapInv
  <2> SUFFICES ASSUME ZapInit
               PROVE  ZapInv
    OBVIOUS
  <2>1. ZapTypeOK
    BY FreshType DEF ZapInit, ZapTypeOK, ScanRecord
  <2> QED
    BY <2>1 DEF ZapInit, ZapInv, LeaseInv, SessionInv, OwedInv, Holds, ZapFresh
<1>2. ZapInv /\ [ZapNext]_zapVars => ZapInv'
  <2> SUFFICES ASSUME ZapInv, [ZapNext]_zapVars
               PROVE  ZapInv'
    OBVIOUS
  <2> USE DEF Moves, DaemonSame
  <2>1. CASE UNCHANGED zapVars
    BY <2>1 DEF zapVars, ZapInv, ZapTypeOK, LeaseInv, SessionInv, OwedInv, Holds, Pending
  <2>2. ASSUME NEW j \in ZapRun
        PROVE  scan[j] \in ScanRecord
    BY DEF ZapInv, ZapTypeOK, ScanRecord
  <2>3. ASSUME NEW j \in ZapRun, ZapRefuse(j) \/ LeaseCancelled(j)
        PROVE  ZapInv'
    BY <2>3, FreshType, OutsideStep DEF ZapRefuse, LeaseCancelled
  <2>4. ASSUME NEW j \in ZapRun, TakeLease(j)
        PROVE  ZapInv'
    <3>1. [scan[j] EXCEPT !.pc = "leased"] \in ScanRecord /\ scan[j].undo = <<>>
      BY <2>2, <2>4 DEF TakeLease, ScanRecord, ZapInv, LeaseInv, Holds
    <3> QED
      BY <2>2, <2>4, <3>1, OutsideStep DEF TakeLease, ScanRecord
  <2>5. ASSUME NEW j \in ZapRun, Cancel(j)
        PROVE  ZapInv'
    <3> DEFINE r == [scan[j] EXCEPT !.live = FALSE]
    <3>1. r \in ScanRecord /\ r.pc = scan[j].pc /\ r.at = scan[j].at /\ r.undo = scan[j].undo
      BY <2>2 DEF ScanRecord
    <3>2. scan' = [scan EXCEPT ![j] = r] /\ UNCHANGED <<daemon, lease, quarantined>>
          /\ scan[j].pc \in {"new", "leased", "work"}
      BY <2>5 DEF Cancel
    <3>3. CASE scan[j].pc = "new"
      <4>1. scan[j].undo = <<>>
        BY <3>3 DEF ZapInv, LeaseInv, Holds
      <4> QED
        BY <3>1, <3>2, <3>3, <4>1, OutsideStep
    <3>4. CASE scan[j].pc # "new"
      <4>1. Holds(j) /\ daemon' \in [Globals -> SUBSET ZapRun] /\ quarantined' \in BOOLEAN
        BY <3>2, <3>4 DEF Holds, ZapInv, ZapTypeOK
      <4>2. r.pc \in {"leased", "work"} /\ (r.pc = "work" => ~ quarantined')
        BY <3>1, <3>2, <3>4 DEF ZapInv, LeaseInv
      <4>3. j \in Typed /\ r.at > 2 => "session" \in Elements(r.undo)
        BY <3>1, <3>2 DEF ZapInv, SessionInv
      <4>4. \A g \in Globals : j \in Typed /\ j \in daemon'[g] => quarantined' \/ g \in Owes(r)
        BY <3>1, <3>2 DEF ZapInv, OwedInv, Pending, Owes
      <4> HIDE DEF r
      <4> QED
        BY <3>1, <3>2, <4>1, <4>2, <4>3, <4>4, HolderStep
    <3> QED
      BY <3>3, <3>4
  <2>6. ASSUME NEW j \in ZapRun, Probe(j)
        PROVE  ZapInv'
    <3> PICK pc \in {"work", "undo"} : /\ pc = "work" => ~ quarantined
                                       /\ scan' = [scan EXCEPT ![j] = [scan[j] EXCEPT !.pc = pc]]
      BY <2>6 DEF Probe
    <3> DEFINE r == [scan[j] EXCEPT !.pc = pc]
    <3>1. r \in ScanRecord /\ r.pc = pc /\ r.at = scan[j].at /\ r.undo = scan[j].undo
      BY <2>2 DEF ScanRecord
    <3>2. UNCHANGED <<daemon, lease, quarantined>> /\ scan[j].pc = "leased"
      BY <2>6 DEF Probe
    <3>3. Holds(j) /\ daemon' \in [Globals -> SUBSET ZapRun] /\ quarantined' \in BOOLEAN
      BY <3>2 DEF Holds, ZapInv, ZapTypeOK
    <3>4. j \in Typed /\ r.at > 2 => "session" \in Elements(r.undo)
      BY <3>1, <3>2 DEF ZapInv, SessionInv
    <3>5. \A g \in Globals : j \in Typed /\ j \in daemon'[g] => quarantined' \/ g \in Owes(r)
      BY <3>1, <3>2 DEF ZapInv, OwedInv, Pending, Owes
    <3>6. scan' = [scan EXCEPT ![j] = r]
      OBVIOUS
    <3> HIDE DEF r
    <3> QED
      BY <3>1, <3>2, <3>3, <3>4, <3>5, <3>6, HolderStep
  <2>7. ASSUME NEW j \in ZapRun, Working(j)
        PROVE  /\ scan[j].pc = "work" /\ scan[j].at \in 1 .. 12
               /\ Next1(j) \in ScanRecord /\ Next1(j).pc = "work" /\ Next1(j).undo = scan[j].undo
               /\ Next1(j).at = scan[j].at + 1
               /\ Fails(j) \in ScanRecord /\ Fails(j).pc = "undo" /\ Fails(j).undo = scan[j].undo
               /\ daemon \in [Globals -> SUBSET ZapRun]
    <3>1. scan[j].pc = "work" /\ scan[j].at \in 1 .. 12 /\ scan[j].at + 1 \in 1 .. Len(ZapSteps) + 1
      BY <2>2, <2>7, PlanFacts DEF Working, ScanRecord
    <3> QED
      BY <2>2, <3>1 DEF Next1, Fails, ScanRecord, ZapInv, ZapTypeOK
  <2>8. ASSUME NEW j \in ZapRun, Skip(j) \/ Stage(j)
        PROVE  ZapInv'
    <3>1. j \notin Typed \/ scan[j].at # 2
      BY <2>8, PlanFacts DEF Skip, Stage, Uses, Dispensable, Now, Stages
    <3> QED
      BY <2>7, <2>8, <3>1, WorkStep DEF Skip, Stage
  <2>9. ASSUME NEW j \in ZapRun, Unread(j)
        PROVE  ZapInv'
    <3>1. scan' = [scan EXCEPT ![j] = Fails(j)]
          \/ (scan' = [scan EXCEPT ![j] = Next1(j)] /\ (j \notin Typed \/ scan[j].at # 2))
      BY <2>9 DEF Unread, BestEffort
    <3> QED
      BY <2>7, <2>9, <3>1, WorkStep DEF Unread
  <2>10. ASSUME NEW j \in ZapRun, ReplaceRule(j)
         PROVE  ZapInv'
    <3>1. daemon' \in [Globals -> SUBSET ZapRun] /\ \A h \in Globals : daemon'[h] \subseteq daemon[h]
      BY <2>7, <2>10, PlanFacts DEF ReplaceRule
    <3> QED
      BY <2>7, <2>10, <3>1, WorkStep DEF ReplaceRule
  <2>11. ASSUME NEW j \in ZapRun, Change(j)
         PROVE  ZapInv'
    <3>1. Registered(j, Now(j), TRUE) \/ Changed(j, Now(j)) = daemon \/ j \notin Typed
      BY DEF Registered, Changed
    <3>2. Now(j) = "session" => Registered(j, Now(j), TRUE)
      BY DEF Registered
    <3> QED
      BY <2>11, <3>1, <3>2, ChangeStep DEF Change
  <2>12. ASSUME NEW j \in ZapRun, ChangeFails(j)
         PROVE  ZapInv'
    <3>1. Registered(j, Now(j), FALSE) \/ Changed(j, Now(j)) = daemon \/ j \notin Typed
      BY <2>12 DEF ChangeFails, Registered, Changed
    <3>2. Now(j) # "session" /\ Now(j) \in Globals
      BY <2>12 DEF ChangeFails
    <3>3. PICK r \in {Next1(j), Fails(j)} : scan' = [scan EXCEPT ![j] = After(j, r, Now(j), FALSE)]
      BY <2>12 DEF ChangeFails
    <3> QED
      BY <2>12, <3>1, <3>2, <3>3, ChangeStep DEF ChangeFails
  <2>13. ASSUME NEW j \in ZapRun, ContextFails(j)
         PROVE  ZapInv'
    <3>1. Working(j) /\ Now(j) = "context" /\ j \in Typed /\ scan' = [scan EXCEPT ![j] = Fails(j)]
          /\ daemon' = [daemon EXCEPT !["context"] = @ \cup {j}] /\ UNCHANGED <<lease, quarantined>>
      BY <2>13 DEF ContextFails, Uses, Changed
    <3>2. "session" \in Elements(scan[j].undo)
      <4>1. scan[j].at > 2
        BY <2>7, <3>1, PlanFacts DEF Now, ZapSteps
      <4> QED
        BY <2>7, <3>1, <4>1 DEF ZapInv, SessionInv
    <3>3. Holds(j) /\ ~ quarantined /\ quarantined' \in BOOLEAN
      BY <2>7, <3>1 DEF Holds, ZapInv, LeaseInv, ZapTypeOK
    <3>4. daemon' \in [Globals -> SUBSET ZapRun]
          /\ \A k \in ZapRun, h \in Globals : k \in daemon'[h] => k \in daemon[h] \/ (k = j /\ h = "context")
      BY <2>7, <3>1, PlanFacts
    <3>5. \A g \in Globals : j \in daemon'[g] => g \in Owes(Fails(j))
      BY <2>7, <3>1, <3>2, <3>3, <3>4 DEF ZapInv, OwedInv, Pending, Owes
    <3> QED
      BY <2>7, <3>1, <3>3, <3>4, <3>5, HolderStep
  <2>14. ASSUME NEW j \in ZapRun, GatewayFails(j)
         PROVE  ZapInv'
    <3>1. Working(j) /\ scan' = [scan EXCEPT ![j] = Fails(j)] /\ quarantined' = TRUE
          /\ daemon' = [daemon EXCEPT !["gateway"] = @ \cup {j}] /\ UNCHANGED lease
      BY <2>14 DEF GatewayFails, Changed
    <3>2. Holds(j)
      BY <2>7, <3>1 DEF Holds
    <3>3. daemon' \in [Globals -> SUBSET ZapRun]
          /\ \A k \in ZapRun \ {j}, h \in Globals : k \in daemon'[h] => k \in daemon[h]
      BY <2>7, <3>1, PlanFacts
    <3> QED
      BY <2>7, <3>1, <3>2, <3>3, HolderStep
  <2>15. ASSUME NEW j \in ZapRun, Complete(j)
         PROVE  ZapInv'
    <3>1. [scan[j] EXCEPT !.pc = "undo"] \in ScanRecord
      BY <2>2 DEF ScanRecord
    <3> QED
      BY <2>2, <2>15, <3>1, WorkStep DEF Complete, ScanRecord, ZapInv, ZapTypeOK
  <2>16. ASSUME NEW j \in ZapRun, Release(j)
         PROVE  ZapInv'
    <3> DEFINE r == [ZapFresh EXCEPT !.pc = "done"]
    <3>1. Holds(j) /\ daemon' \in [Globals -> SUBSET ZapRun] /\ quarantined' \in BOOLEAN
      BY <2>16 DEF Release, Holds, ZapInv, ZapTypeOK
    <3>2. \A g \in Globals : j \in Typed /\ j \in daemon'[g] => quarantined'
      BY <2>16 DEF Release, ZapInv, OwedInv, Pending, Elements
    <3> QED
      BY <2>16, <3>1, <3>2, FreshType, HolderStep DEF Release
  <2> QED
    BY <2>1, <2>3, <2>4, <2>5, <2>6, <2>8, <2>9, <2>10, <2>11, <2>12, <2>13, <2>14, <2>15, <2>16,
       UndoStep DEF ZapNext
<1> QED
  BY <1>1, <1>2, PTL DEF ZapSpec

\* Whatever jobs share the daemon, however they fail, are cancelled or lose answers, none works
\* on a daemon in which a typed one has left anything.
THEOREM NothingIsLeftBehind == ZapSpec => []StartsClean
<1>1. ZapInv => StartsClean
  <2> SUFFICES ASSUME ZapInv, NEW j \in ZapRun, scan[j].pc = "work", NEW g \in Globals,
                      NEW k \in daemon[g] \cap Typed
               PROVE  k = j
    BY DEF StartsClean
  <2>1. k \in ZapRun /\ ~ quarantined /\ lease = j
    BY DEF ZapInv, ZapTypeOK, LeaseInv, Holds
  <2>2. g \in Pending(k)
    BY <2>1 DEF ZapInv, OwedInv
  <2>3. scan[k].undo # <<>>
    BY <2>2 DEF Pending, Elements
  <2> QED
    BY <2>1, <2>3 DEF ZapInv, LeaseInv
<1> QED
  BY <1>1, ZapInductive, PTL

-----------------------------------------------------------------------------
(* Authentication.                                                          *)

Pc == {"waiting", "skipped", "running", "checking", "login", "renewed", "expired", "ended"}

AuthTypeInv ==
    /\ prep \in [identity : Nat \ {0}, done : SUBSET Bindings]
    /\ context \in [Identities -> [lines : SUBSET Bindings,
                                   state : {"unavailable", "failed", "verified"}]]
    /\ refresher \in [Identities -> [lock : Jobs \cup {None}, renewals : Nat]]
    /\ authJob \in [Jobs -> [pc : Pc, held : Nat]]
    /\ logins \in [Identities -> Nat]

\* What an identity hands out was proven, and is its own.
LinesInv == \A i \in Identities : context[i].lines \subseteq Of(i) \cap proven

\* No job starts before the verification is over, or without lines.
JobStartInv == \A j \in Jobs :
    authJob[j].pc # "waiting" =>
       /\ ~ Verifying
       /\ authJob[j].pc # "skipped" => context[Serves(j)].lines # {}

\* A job that asks its refresher holds the lock.
LockInv == \A j \in Jobs :
    authJob[j].pc \in {"checking", "login"} => refresher[Serves(j)].lock = j

\* A login was paid for when it was decided.
BudgetInv ==
    /\ \A i \in Identities : logins[i] <= refresher[i].renewals
    /\ \A i \in Identities : refresher[i].renewals <= MaxRenewals
    /\ \A j \in Jobs : authJob[j].pc = "login" =>
          logins[Serves(j)] + 1 <= refresher[Serves(j)].renewals

AuthInv == AuthTypeInv /\ LinesInv /\ JobStartInv /\ LockInv /\ BudgetInv

-----------------------------------------------------------------------------
\* Before the preparation nothing is proven and no job has lines.
LEMMA AuthInitHolds == AuthInit => AuthInv
<1> SUFFICES ASSUME AuthInit PROVE AuthInv
  OBVIOUS
<1>1. AuthTypeInv
  BY DEF AuthInit, AuthTypeInv, Pc
<1>2. LinesInv
  BY DEF AuthInit, LinesInv
<1>3. JobStartInv /\ LockInv
  BY DEF AuthInit, JobStartInv, LockInv
<1>4. BudgetInv
  BY AuthAssumption DEF AuthInit, BudgetInv
<1> QED
  BY <1>1, <1>2, <1>3, <1>4 DEF AuthInv

\* Steps of the verification, during which no job has started.
\* The identity that is verified next is one of the target.
LEMMA IdentityType == ASSUME AuthTypeInv, Verifying PROVE Identity \in Identities
<1>1. prep.identity \in 1 .. Len(IdentitySeq)
  BY AuthAssumption DEF AuthTypeInv, Verifying
<1>2. DOMAIN IdentitySeq = 1 .. Len(IdentitySeq)
  BY AuthAssumption
<1> QED
  BY <1>1, <1>2 DEF Identity, Identities

\* Steps of the verification, during which no job has started.
LEMMA VerifyStep ==
  ASSUME AuthInv, NEW b \in Bindings, Verify(b)
  PROVE  AuthInv'
<1>1. Identity \in Identities /\ Verifying /\ b \in Of(Identity)
  BY IdentityType DEF AuthInv, Verify, NextBinding
<1>2. prep' \in [identity : Nat \ {0}, done : SUBSET Bindings]
  BY DEF AuthInv, AuthTypeInv, Verify
<1>3. CASE context' = [context EXCEPT ![Identity].state = "unavailable"] /\ UNCHANGED proven
  <2>1. context' \in [Identities -> [lines : SUBSET Bindings,
                                     state : {"unavailable", "failed", "verified"}]]
        /\ \A i \in Identities : context'[i].lines = context[i].lines
    BY <1>1, <1>3 DEF AuthInv, AuthTypeInv
  <2> QED
    BY <1>1, <1>2, <1>3, <2>1
    DEF AuthInv, AuthTypeInv, LinesInv, JobStartInv, LockInv, BudgetInv, Verify, Verifying, Of
<1>4. ASSUME NEW positive \in BOOLEAN, NEW control \in BOOLEAN,
             context' = [context EXCEPT ![Identity] =
                   IF Earned(positive, control)
                   THEN [lines |-> @.lines \cup {b}, state |-> "verified"]
                   ELSE [@ EXCEPT !.state = "failed"]],
             proven' = IF positive /\ control THEN proven \cup {b} ELSE proven
      PROVE  AuthInv'
  <2>1. CASE positive /\ control
    <3>1. context' = [context EXCEPT ![Identity] =
                        [lines |-> context[Identity].lines \cup {b}, state |-> "verified"]]
      BY <1>4, <2>1 DEF Earned
    <3>2. context[Identity].lines \cup {b} \in SUBSET Bindings
      BY <1>1 DEF AuthInv, AuthTypeInv
    <3>3. context' \in [Identities -> [lines : SUBSET Bindings,
                                       state : {"unavailable", "failed", "verified"}]]
      BY <1>1, <3>1, <3>2 DEF AuthInv, AuthTypeInv
    <3>4. \A i \in Identities : context'[i].lines =
             IF i = Identity THEN context[i].lines \cup {b} ELSE context[i].lines
      BY <1>1, <3>1 DEF AuthInv, AuthTypeInv
    <3>5. LinesInv'
      <4>1. proven' = proven \cup {b}
        BY <1>4, <2>1
      <4> SUFFICES ASSUME NEW i \in Identities
                   PROVE  context'[i].lines \subseteq Of(i) \cap proven'
        BY DEF LinesInv, Of
      <4>2. context[i].lines \subseteq Of(i) \cap proven
        BY DEF AuthInv, LinesInv
      <4> QED
        BY <1>1, <3>4, <4>1, <4>2
    <3> QED
      BY <1>1, <1>2, <3>3, <3>5
      DEF AuthInv, AuthTypeInv, JobStartInv, LockInv, BudgetInv, Verify, Verifying
  <2>2. CASE ~ (positive /\ control)
    <3>1. context' = [context EXCEPT ![Identity] = [@ EXCEPT !.state = "failed"]]
          /\ UNCHANGED proven
      BY <1>4, <2>2 DEF Earned
    <3>2. context' \in [Identities -> [lines : SUBSET Bindings,
                                       state : {"unavailable", "failed", "verified"}]]
          /\ \A i \in Identities : context'[i].lines = context[i].lines
      BY <1>1, <3>1 DEF AuthInv, AuthTypeInv
    <3> QED
      BY <1>1, <1>2, <3>1, <3>2
      DEF AuthInv, AuthTypeInv, LinesInv, JobStartInv, LockInv, BudgetInv, Verify, Verifying, Of
  <2> QED
    BY <2>1, <2>2
<1> QED
  BY <1>3, <1>4 DEF Verify

\* What the verification concludes about an identity changes none of its lines.
LEMMA NextIdentityStep ==
  ASSUME AuthInv, NextIdentity
  PROVE  AuthInv'
<1>1. Identity \in Identities /\ Verifying
  BY IdentityType DEF AuthInv, NextIdentity
<1>2. prep' \in [identity : Nat \ {0}, done : SUBSET Bindings]
  BY DEF AuthInv, AuthTypeInv, NextIdentity
<1>3. context' \in [Identities -> [lines : SUBSET Bindings,
                                   state : {"unavailable", "failed", "verified"}]]
      /\ \A i \in Identities : context'[i].lines = context[i].lines
  <2> DEFINE concluded == IF context[Identity].lines # {}
                          THEN "verified" ELSE context[Identity].state
  <2>1. context \in [Identities -> [lines : SUBSET Bindings,
                                    state : {"unavailable", "failed", "verified"}]]
    BY DEF AuthInv, AuthTypeInv
  <2>2. concluded \in {"unavailable", "failed", "verified"}
    BY <1>1, <2>1
  <2>3. context' = [context EXCEPT ![Identity].state = concluded]
    BY DEF NextIdentity
  <2> HIDE DEF concluded
  <2> QED
    BY <1>1, <2>1, <2>2, <2>3
<1>4. \A j \in Jobs : authJob[j].pc = "waiting"
  BY <1>1 DEF AuthInv, JobStartInv
<1> QED
  BY <1>1, <1>2, <1>3, <1>4
  DEF AuthInv, AuthTypeInv, LinesInv, JobStartInv, LockInv, BudgetInv, NextIdentity, Of

-----------------------------------------------------------------------------
(* Steps of a job.  They leave the verification and its lines alone.        *)

\* The job moves to pc, and neither the locks nor the budgets change.
LEMMA JobMoves ==
  ASSUME AuthInv, NEW j \in Jobs, NEW pc \in Pc \ {"waiting", "checking", "login"},
         authJob' = [authJob EXCEPT ![j].pc = pc],
         pc # "skipped" => context[Serves(j)].lines # {},
         ~ Verifying,
         UNCHANGED <<prep, proven, context, refresher, logins>>
  PROVE  AuthInv'
<1>1. /\ authJob' \in [Jobs -> [pc : Pc, held : Nat]]
      /\ \A k \in Jobs : authJob'[k].pc = IF k = j THEN pc ELSE authJob[k].pc
  BY DEF AuthInv, AuthTypeInv
<1> QED
  BY <1>1 DEF AuthInv, AuthTypeInv, LinesInv, JobStartInv, LockInv, BudgetInv, Verifying, Of

\* The answer of the refresher sets the lock free; nobody else held it.
LEMMA JobAnswered ==
  ASSUME AuthInv, NEW j \in Jobs, NEW pc \in {"running", "expired"},
         authJob[j].pc \in {"checking", "login"}, Answer(j, pc),
         logins' \in [Identities -> Nat],
         \A i \in Identities : logins'[i] = logins[i] \/
            (i = Serves(j) /\ authJob[j].pc = "login" /\ logins'[i] = logins[i] + 1),
         UNCHANGED <<prep, proven, context>>
  PROVE  AuthInv'
<1>1. Serves(j) \in Identities /\ pc \in Pc
  BY AuthAssumption DEF Pc
<1>2. /\ authJob' \in [Jobs -> [pc : Pc, held : Nat]]
      /\ \A k \in Jobs : authJob'[k].pc = IF k = j THEN pc ELSE authJob[k].pc
  BY <1>1 DEF AuthInv, AuthTypeInv, Answer
<1>3. /\ refresher' \in [Identities -> [lock : Jobs \cup {None}, renewals : Nat]]
      /\ \A i \in Identities : refresher'[i].renewals = refresher[i].renewals
      /\ \A i \in Identities \ {Serves(j)} : refresher'[i].lock = refresher[i].lock
  BY <1>1 DEF AuthInv, AuthTypeInv, Answer
<1>4. \A k \in Jobs \ {j} : authJob[k].pc \in {"checking", "login"} => Serves(k) # Serves(j)
  BY DEF AuthInv, LockInv
<1>5. LockInv'
  BY <1>2, <1>3, <1>4, AuthAssumption DEF AuthInv, LockInv
<1>6. BudgetInv'
  <2>1. \A i \in Identities : logins'[i] <= refresher[i].renewals
    BY <1>1 DEF AuthInv, BudgetInv, AuthTypeInv
  <2>2. \A k \in Jobs : authJob'[k].pc = "login" => k # j /\ logins'[Serves(k)] = logins[Serves(k)]
    BY <1>2, <1>4, AuthAssumption
  <2> QED
    BY <1>2, <1>3, <2>1, <2>2, AuthAssumption DEF AuthInv, BudgetInv
<1>7. JobStartInv'
  BY <1>2 DEF AuthInv, JobStartInv, Verifying
<1> QED
  BY <1>2, <1>3, <1>5, <1>6, <1>7 DEF AuthInv, AuthTypeInv, LinesInv, Of

\* A job takes the context of its identity.
LEMMA JobStartStep ==
  ASSUME AuthInv, NEW j \in Jobs, JobStarts(j)
  PROVE  AuthInv'
<1>1. CASE context[Serves(j)].lines = {}
  BY <1>1, JobMoves DEF JobStarts, Pc
<1>2. CASE context[Serves(j)].lines # {}
  BY <1>2, JobMoves DEF JobStarts, Pc
<1> QED
  BY <1>1, <1>2

\* A job that asks takes a free lock.
LEMMA AskStep ==
  ASSUME AuthInv, NEW j \in Jobs, Ask(j)
  PROVE  AuthInv'
<1>1. Serves(j) \in Identities
  BY AuthAssumption
<1>2. /\ authJob' \in [Jobs -> [pc : Pc, held : Nat]]
      /\ \A k \in Jobs : authJob'[k].pc = IF k = j THEN "checking" ELSE authJob[k].pc
  BY DEF AuthInv, AuthTypeInv, Ask, Pc
<1>3. /\ refresher' \in [Identities -> [lock : Jobs \cup {None}, renewals : Nat]]
      /\ \A i \in Identities :
            /\ refresher'[i].renewals = refresher[i].renewals
            /\ refresher'[i].lock = IF i = Serves(j) THEN j ELSE refresher[i].lock
  BY <1>1 DEF AuthInv, AuthTypeInv, Ask
<1>4. LockInv'
  <2> SUFFICES ASSUME NEW k \in Jobs, authJob'[k].pc \in {"checking", "login"}
               PROVE  refresher'[Serves(k)].lock = k
    BY DEF LockInv, Serves
  <2>1. CASE k = j
    BY <1>1, <1>3, <2>1
  <2>2. CASE k # j
    <3>1. refresher[Serves(k)].lock = k /\ Serves(k) \in Identities
      BY <1>2, <2>2, AuthAssumption DEF AuthInv, LockInv
    <3>2. Serves(k) # Serves(j)
      BY <3>1, AuthAssumption DEF Ask
    <3> QED
      BY <1>3, <3>1, <3>2
  <2> QED
    BY <2>1, <2>2
<1>5. BudgetInv'
  BY <1>2, <1>3, AuthAssumption DEF AuthInv, BudgetInv, Ask
<1>6. JobStartInv'
  BY <1>2 DEF AuthInv, JobStartInv, Verifying, Ask
<1> QED
  BY <1>2, <1>3, <1>4, <1>5, <1>6 DEF AuthInv, AuthTypeInv, LinesInv, Of, Ask

\* The renewal is counted when it is decided, under the lock, so no other job of the identity
\* has decided one that is still due.
LEMMA CheckFailsStep ==
  ASSUME AuthInv, NEW j \in Jobs, CheckFails(j)
  PROVE  AuthInv'
<1>1. Serves(j) \in Identities
  BY AuthAssumption
<1>2. CASE ~ (HasForm(Serves(j)) /\ BudgetLeft(j))
  BY <1>2, JobAnswered DEF CheckFails, AuthInv, AuthTypeInv
<1>3. CASE HasForm(Serves(j)) /\ BudgetLeft(j)
  <2>0. /\ authJob' = [authJob EXCEPT ![j].pc = "login"]
        /\ refresher' = [refresher EXCEPT ![Serves(j)].renewals = @ + 1]
    BY <1>3 DEF CheckFails
  <2>1. authJob' \in [Jobs -> [pc : Pc, held : Nat]]
        /\ \A k \in Jobs : authJob'[k].pc = IF k = j THEN "login" ELSE authJob[k].pc
    BY <2>0 DEF AuthInv, AuthTypeInv, Pc
  <2>2. refresher' \in [Identities -> [lock : Jobs \cup {None}, renewals : Nat]]
        /\ \A i \in Identities :
              /\ refresher'[i].lock = refresher[i].lock
              /\ refresher'[i].renewals =
                    IF i = Serves(j) THEN refresher[i].renewals + 1 ELSE refresher[i].renewals
    BY <1>1, <2>0 DEF AuthInv, AuthTypeInv
  <2>3. LockInv'
    BY <2>1, <2>2, AuthAssumption DEF AuthInv, LockInv, CheckFails
  <2>4. BudgetInv'
    <3>1. \A i \in Identities : logins[i] \in Nat /\ refresher[i].renewals \in Nat
      BY DEF AuthInv, AuthTypeInv
    <3>2. \A i \in Identities : refresher'[i].renewals <= MaxRenewals
      BY <1>1, <1>3, <2>2, <3>1, AuthAssumption DEF AuthInv, BudgetInv, BudgetLeft
    <3>3. \A i \in Identities : logins'[i] <= refresher'[i].renewals
      BY <2>2, <3>1 DEF AuthInv, BudgetInv, CheckFails
    <3>4. \A k \in Jobs : authJob'[k].pc = "login" =>
             logins'[Serves(k)] + 1 <= refresher'[Serves(k)].renewals
      <4> SUFFICES ASSUME NEW k \in Jobs, authJob'[k].pc = "login"
                   PROVE  logins[Serves(k)] + 1 <= refresher'[Serves(k)].renewals
        BY DEF CheckFails
      <4>1. Serves(k) \in Identities
        BY AuthAssumption
      <4>2. CASE k = j
        BY <1>1, <2>2, <3>1, <4>2 DEF AuthInv, BudgetInv
      <4>3. CASE k # j
        BY <2>1, <2>2, <3>1, <4>1, <4>3 DEF AuthInv, BudgetInv
      <4> QED
        BY <4>2, <4>3
    <3> QED
      BY <3>2, <3>3, <3>4 DEF BudgetInv, Serves
  <2>5. JobStartInv'
    BY <2>1 DEF AuthInv, JobStartInv, Verifying, CheckFails
  <2> QED
    BY <2>1, <2>2, <2>3, <2>4, <2>5 DEF AuthInv, AuthTypeInv, LinesInv, Of, CheckFails
<1> QED
  BY <1>2, <1>3

\* A successful login gives the lines that every later job receives.
LEMMA LoginStep ==
  ASSUME AuthInv, NEW j \in Jobs, Login(j)
  PROVE  AuthInv'
<1>1. Serves(j) \in Identities /\ logins[Serves(j)] + 1 \in Nat
  BY AuthAssumption DEF AuthInv, AuthTypeInv
<1>2. /\ authJob' = [authJob EXCEPT ![j] = [pc |-> "renewed", held |-> logins[Serves(j)] + 1]]
      /\ logins' = [logins EXCEPT ![Serves(j)] = logins[Serves(j)] + 1]
      /\ refresher' = [refresher EXCEPT ![Serves(j)].lock = None]
      /\ UNCHANGED <<prep, proven, context>> /\ authJob[j].pc = "login"
  BY DEF Login
<1>3. /\ authJob' \in [Jobs -> [pc : Pc, held : Nat]]
      /\ \A k \in Jobs : authJob'[k].pc = IF k = j THEN "renewed" ELSE authJob[k].pc
  BY <1>1, <1>2 DEF AuthInv, AuthTypeInv, Pc
<1>4. /\ refresher' \in [Identities -> [lock : Jobs \cup {None}, renewals : Nat]]
      /\ \A i \in Identities : refresher'[i].renewals = refresher[i].renewals
      /\ \A i \in Identities \ {Serves(j)} : refresher'[i].lock = refresher[i].lock
  BY <1>1, <1>2 DEF AuthInv, AuthTypeInv
<1>5. /\ logins' \in [Identities -> Nat]
      /\ \A i \in Identities : logins'[i] = IF i = Serves(j) THEN logins[i] + 1 ELSE logins[i]
  BY <1>1, <1>2 DEF AuthInv, AuthTypeInv
<1>6. \A k \in Jobs \ {j} : authJob[k].pc \in {"checking", "login"} => Serves(k) # Serves(j)
  BY <1>2 DEF AuthInv, LockInv
<1>7. LockInv'
  BY <1>3, <1>4, <1>6, AuthAssumption DEF AuthInv, LockInv
<1>8. BudgetInv'
  <2>1. \A i \in Identities : logins'[i] <= refresher'[i].renewals
    BY <1>1, <1>2, <1>4, <1>5 DEF AuthInv, BudgetInv
  <2>2. \A k \in Jobs : authJob'[k].pc = "login" =>
           logins'[Serves(k)] + 1 <= refresher'[Serves(k)].renewals
    BY <1>3, <1>4, <1>5, <1>6, AuthAssumption DEF AuthInv, BudgetInv
  <2> QED
    BY <1>4, <2>1, <2>2 DEF AuthInv, BudgetInv, Serves
<1>9. JobStartInv'
  BY <1>2, <1>3 DEF AuthInv, JobStartInv, Verifying
<1> QED
  BY <1>2, <1>3, <1>4, <1>5, <1>7, <1>8, <1>9 DEF AuthInv, AuthTypeInv, LinesInv, Of

\* A failed login changes the budget only.
LEMMA LoginFailsStep ==
  ASSUME AuthInv, NEW j \in Jobs, LoginFails(j)
  PROVE  AuthInv'
<1>1. Serves(j) \in Identities
  BY AuthAssumption
<1>2. /\ logins' \in [Identities -> Nat]
      /\ \A i \in Identities : logins'[i] = IF i = Serves(j) THEN logins[i] + 1 ELSE logins[i]
  BY <1>1 DEF AuthInv, AuthTypeInv, LoginFails
<1> QED
  BY <1>2, JobAnswered DEF LoginFails

\* A job that runs, runs with the lines of its identity; so does one that goes on or ends.
LEMMA SettledStep ==
  ASSUME AuthInv, NEW j \in Jobs, SessionActive(j) \/ GoOn(j) \/ JobEnds(j)
  PROVE  AuthInv'
<1>1. SessionActive(j) => AuthInv'
  BY JobAnswered DEF SessionActive, AuthInv, AuthTypeInv
<1>2. authJob[j].pc \in {"running", "renewed"} =>
         ~ Verifying /\ context[Serves(j)].lines # {}
  BY DEF AuthInv, JobStartInv
<1>3. GoOn(j) => AuthInv'
  <2> SUFFICES ASSUME GoOn(j) PROVE AuthInv'
    OBVIOUS
  <2>1. PICK pc \in {"running", "expired"} : authJob' = [authJob EXCEPT ![j].pc = pc]
    BY DEF GoOn
  <2> QED
    BY <1>2, <2>1, JobMoves DEF GoOn, Pc
<1>4. JobEnds(j) => AuthInv'
  BY <1>2, JobMoves DEF JobEnds, Pc
<1> QED
  BY <1>1, <1>3, <1>4

-----------------------------------------------------------------------------
\* However verification, checks, expiries and logins interleave, for any identities, bindings
\* and jobs: a job runs with proven lines of its own identity, and the jobs of one identity
\* together log in no more often than maxSessionRenewals, the limit of its refresher.
THEOREM EveryLineIsEarned == AuthSpec => []CredentialsAreEarned
<1>1. AuthInv /\ [AuthNext]_authVars => AuthInv'
  <2> SUFFICES ASSUME AuthInv, [AuthNext]_authVars PROVE AuthInv'
    OBVIOUS
  <2>1. ASSUME NEW b \in Bindings, Verify(b) PROVE AuthInv'
    BY <2>1, VerifyStep
  <2>2. CASE NextIdentity
    BY <2>2, NextIdentityStep
  <2>3. CASE Expire
    BY <2>3 DEF Expire, AuthInv, AuthTypeInv, LinesInv, JobStartInv, LockInv, BudgetInv, Verifying, Of
  <2>4. ASSUME NEW j \in Jobs,
               \/ JobStarts(j) \/ Ask(j) \/ SessionActive(j) \/ CheckFails(j)
               \/ Login(j) \/ LoginFails(j) \/ GoOn(j) \/ JobEnds(j)
        PROVE  AuthInv'
    BY <2>4, JobStartStep, AskStep, CheckFailsStep, LoginStep, LoginFailsStep, SettledStep
  <2>5. CASE UNCHANGED authVars
    BY <2>5 DEF authVars, AuthInv, AuthTypeInv, LinesInv, JobStartInv, LockInv, BudgetInv, Verifying, Of
  <2> QED
    BY <2>1, <2>2, <2>3, <2>4, <2>5 DEF AuthNext
<1>2. AuthInv => CredentialsAreEarned
  <2> SUFFICES ASSUME AuthInv PROVE CredentialsAreEarned
    OBVIOUS
  <2>1. \A i \in Identities : logins[i] <= MaxRenewals
    BY AuthAssumption DEF AuthInv, AuthTypeInv, BudgetInv
  <2> QED
    BY <2>1, AuthAssumption DEF AuthInv, LinesInv, JobStartInv, CredentialsAreEarned
<1> QED
  BY AuthInitHolds, <1>1, <1>2, PTL DEF AuthSpec

-----------------------------------------------------------------------------
(* Approved revisions.                                                      *)

\* What a client confirmed, and the plan that the server made of it.
Confirmed(r) ==
    /\ r.plan.writes = FALSE
    /\ [preview |-> r.plan.preview, selected |-> r.selected] \in confirmed
    /\ r.selected \in Selection
    /\ r.plan.targets = Destinations(r.selected)
    /\ ToSet(r.selected) \subseteq r.plan.preview

\* The approval in progress is neither started nor answered: when it is saved, it must
\* already be one that a client confirmed. Files outlive the preview they were made from,
\* so what they are is stated by what was confirmed, not by what is found now.
ApprovalInv ==
    /\ approving # NoRevision => Confirmed(approving)
    /\ \A r \in revisions : Confirmed(r)

RevisionStartInv == \A plan \in started : \E r : r.plan = plan /\ Confirmed(r)

RevisionsInv == ApprovalInv /\ RevisionStartInv /\ AnswerIsKept

-----------------------------------------------------------------------------
\* What was earned stays so while only more is confirmed.
LEMMA EarnedIsKept ==
  ASSUME NEW r, Confirmed(r), confirmed \subseteq confirmed'
  PROVE  Confirmed(r)'
BY DEF Confirmed

\* A step that only confirms more and removes approvals, or answers some that are on disk.
LEMMA NothingNew ==
  ASSUME RevisionsInv, confirmed \subseteq confirmed', approving' \in {NoRevision, approving},
         revisions' \subseteq revisions, answered' \subseteq revisions',
         started' = started
  PROVE  RevisionsInv'
<1>1. ApprovalInv'
  BY EarnedIsKept DEF RevisionsInv, ApprovalInv
<1>2. RevisionStartInv'
  <2> SUFFICES ASSUME NEW plan \in started' PROVE \E r : r.plan = plan /\ Confirmed(r)'
    BY DEF RevisionStartInv
  <2>1. PICK r : r.plan = plan /\ Confirmed(r)
    BY DEF RevisionsInv, RevisionStartInv
  <2> QED
    BY <2>1, EarnedIsKept
<1> QED
  BY <1>1, <1>2 DEF RevisionsInv, AnswerIsKept

\* The handler takes a selection from the preview that the client has seen, and no consent.
LEMMA PostStep ==
  ASSUME RevisionsInv, NEW posted, NEW selected \in Selection, Post(posted, selected)
  PROVE  RevisionsInv'
<1>1. confirmed \subseteq confirmed' /\ [preview |-> found, selected |-> selected] \in confirmed'
  BY DEF Post, PreviewIsCurrent
<1>2. ApprovalInv'
  <2>1. /\ approving'.plan.writes = FALSE /\ approving'.plan.preview = found
        /\ approving'.selected = selected
        /\ approving'.plan.targets = Destinations(selected)
    BY DEF Post, RevisedPlan
  <2>2. Confirmed(approving)'
    BY <1>1, <2>1 DEF Post, Confirmed
  <2>3. \A r \in revisions' : Confirmed(r)'
    BY <1>1, EarnedIsKept DEF Post, RevisionsInv, ApprovalInv
  <2> QED
    BY <2>2, <2>3 DEF ApprovalInv
<1>3. RevisionStartInv'
  <2> SUFFICES ASSUME NEW plan \in started' PROVE \E r : r.plan = plan /\ Confirmed(r)'
    BY DEF RevisionStartInv
  <2>1. PICK r : r.plan = plan /\ Confirmed(r)
    BY DEF RevisionsInv, RevisionStartInv, Post
  <2> QED
    BY <1>1, <2>1, EarnedIsKept
<1> QED
  BY <1>2, <1>3 DEF RevisionsInv, AnswerIsKept, Post

\* What is written is what was checked, and is answered only when it is there.
LEMMA SaveStep ==
  ASSUME RevisionsInv, SaveNew \/ SaveAgain
  PROVE  RevisionsInv'
<1>0. confirmed' = confirmed /\ started' = started /\ approving # NoRevision /\ approving' = NoRevision
  BY DEF SaveNew, SaveAgain, Reply
<1>1. revisions' \subseteq revisions \cup {approving} /\ revisions \subseteq revisions'
  BY DEF SaveNew, SaveAgain
<1>2. answered' \subseteq answered \cup (revisions' \cap {approving})
  BY DEF SaveNew, SaveAgain, Reply
<1>3. ApprovalInv'
  BY <1>0, <1>1, EarnedIsKept DEF RevisionsInv, ApprovalInv
<1>4. RevisionStartInv'
  <2> SUFFICES ASSUME NEW plan \in started' PROVE \E r : r.plan = plan /\ Confirmed(r)'
    BY DEF RevisionStartInv
  <2>1. PICK r : r.plan = plan /\ Confirmed(r)
    BY <1>0 DEF RevisionsInv, RevisionStartInv
  <2> QED
    BY <1>0, <2>1, EarnedIsKept
<1> QED
  BY <1>1, <1>2, <1>3, <1>4 DEF RevisionsInv, AnswerIsKept

\* A plan starts on the word of a file.
LEMMA RevisionStartStep ==
  ASSUME RevisionsInv, NEW plan, Start(plan)
  PROVE  RevisionsInv'
<1>1. PICK r \in revisions : r.plan = plan
  BY DEF Start, HasRevision, RevisionOf
<1>2. Confirmed(r)'
  BY <1>1, EarnedIsKept DEF RevisionsInv, ApprovalInv, Start
<1>3. RevisionStartInv'
  BY <1>1, <1>2 DEF RevisionStartInv, Start
<1>4. ApprovalInv'
  BY EarnedIsKept DEF RevisionsInv, ApprovalInv, Start
<1> QED
  BY <1>3, <1>4 DEF RevisionsInv, AnswerIsKept, Start

-----------------------------------------------------------------------------
\* Whatever sessions, deletions, restarts and other clients do between the preview, the
\* approval and the start: a started plan is one that a client confirmed, without consent to
\* write, and an answered approval is on disk until its parent is deleted.
THEOREM ApprovalsBind == RevisionsSpec => []ApprovalIsBinding
<1>1. RevisionsInit => RevisionsInv
  BY DEF RevisionsInit, RevisionsInv, ApprovalInv, RevisionStartInv, AnswerIsKept
<1>2. RevisionsInv /\ [RevisionsNext]_revisionVars => RevisionsInv'
  <2> SUFFICES ASSUME RevisionsInv, [RevisionsNext]_revisionVars PROVE RevisionsInv'
    OBVIOUS
  <2>1. CASE ParentSaves \/ ParentResumes \/ WorldChanges \/ Restart \/ GetPreview
    BY <2>1, NothingNew
    DEF ParentSaves, ParentResumes, WorldChanges, Restart, GetPreview, RevisionsInv, AnswerIsKept
  <2>2. CASE ParentDeleted
    BY <2>2, NothingNew DEF ParentDeleted
  <2>3. ASSUME NEW posted \in shown, NEW selected \in Selection, Post(posted, selected)
        PROVE  RevisionsInv'
    BY <2>3, PostStep
  <2>4. CASE SaveNew \/ SaveAgain
    BY <2>4, SaveStep
  <2>5. ASSUME NEW plan \in Named, Start(plan) PROVE RevisionsInv'
    BY <2>5, RevisionStartStep
  <2>6. CASE UNCHANGED revisionVars
    BY <2>6, NothingNew DEF revisionVars, RevisionsInv, AnswerIsKept
  <2> QED
    BY <2>1, <2>2, <2>3, <2>4, <2>5, <2>6 DEF RevisionsNext
<1>3. RevisionsInv => ApprovalIsBinding
  <2> SUFFICES ASSUME RevisionsInv, NEW plan \in started
               PROVE  /\ ~ plan.writes
                      /\ \E c \in confirmed :
                            /\ plan.preview = c.preview
                            /\ ToSet(plan.targets) = ToSet(c.selected)
                            /\ ToSet(c.selected) \subseteq c.preview
    BY DEF RevisionsInv, ApprovalIsBinding, StartedAsApproved
  <2>1. PICK r : r.plan = plan /\ Confirmed(r)
    BY DEF RevisionsInv, RevisionStartInv
  <2>2. ToSet(plan.targets) = ToSet(r.selected)
    BY <2>1, SelectionAssumption DEF Confirmed
  <2> QED
    BY <2>1, <2>2 DEF Confirmed
<1> QED
  BY <1>1, <1>2, <1>3, PTL DEF RevisionsSpec

-----------------------------------------------------------------------------
(* The plan. The ladder of stages first: a walk down it ends, as ranks       *)
(* decrease, and what holds of a walk is shown at the lowest rank where it   *)
(* would fail.                                                               *)

LEMMA LadderOrder ==
    /\ DOMAIN stageOrder = 1..14
    /\ stageOrder[1] = "scope" /\ stageOrder[2] = "discovery" /\ stageOrder[3] = "dns"
    /\ stageOrder[4] = "reachability" /\ stageOrder[5] = "auth" /\ stageOrder[6] = "crawl"
    /\ stageOrder[7] = "inventory" /\ stageOrder[8] = "passive" /\ stageOrder[9] = "templates"
    /\ stageOrder[10] = "tls" /\ stageOrder[11] = "dast" /\ stageOrder[12] = "validation"
    /\ stageOrder[13] = "write" /\ stageOrder[14] = "results"
<1>1. DOMAIN stageOrder = 1..14
  BY DEF stageOrder
<1> QED
  BY <1>1 DEF stageOrder

LEMMA LadderRanks == ASSUME NEW i \in 1..14 PROVE stageRank(stageOrder[i]) = i
<1>1. \A k \in 1..14 : stageOrder[k] = stageOrder[i] => k = i
  BY LadderOrder
<1> QED
  BY <1>1, LadderOrder DEF stageRank

LEMMA LadderStages == Ladder = {"scope", "discovery", "dns", "reachability", "auth", "crawl",
    "inventory", "passive", "templates", "tls", "dast", "validation", "write", "results"}
  BY LadderOrder DEF Ladder

LEMMA LadderPrerequisites ==
    /\ stagePrerequisites[stageOrder[1]] = {}
    /\ stagePrerequisites[stageOrder[2]] = {stageOrder[1]}
    /\ stagePrerequisites[stageOrder[3]] = {stageOrder[2]}
    /\ stagePrerequisites[stageOrder[4]] = {stageOrder[3]}
    /\ stagePrerequisites[stageOrder[5]] = {stageOrder[4]}
    /\ stagePrerequisites[stageOrder[6]] = {stageOrder[5]}
    /\ stagePrerequisites[stageOrder[7]] = {stageOrder[6]}
    /\ stagePrerequisites[stageOrder[8]] = {stageOrder[7]}
    /\ stagePrerequisites[stageOrder[9]] = {stageOrder[7]}
    /\ stagePrerequisites[stageOrder[10]] = {stageOrder[4]}
    /\ stagePrerequisites[stageOrder[11]] = {stageOrder[7]}
    /\ stagePrerequisites[stageOrder[12]] = {stageOrder[7]}
    /\ stagePrerequisites[stageOrder[13]] = {stageOrder[12]}
    /\ stagePrerequisites[stageOrder[14]] = {stageOrder[8], stageOrder[9], stageOrder[10],
         stageOrder[11], stageOrder[12], stageOrder[13]}
  BY LadderOrder, LadderStages DEF stagePrerequisites

\* The recursion of a walk has a solution: each rank looks at lower ones.
Visited(own, closed, v) ==
    [rank \in DOMAIN stageOrder |->
        UNION {own[p] \cup (IF p \in closed THEN {} ELSE v[stageRank(p)]) :
                 p \in stagePrerequisites[stageOrder[rank]]}]

LEMMA WalkExists == ASSUME NEW own, NEW closed PROVE \E v : v = Visited(own, closed, v)
<1> DEFINE o(i) == stageOrder[i]
<1> DEFINE S(i, v) == own[o(i)] \cup (IF o(i) \in closed THEN {} ELSE v)
<1> DEFINE v1 == {}
           v2 == S(1, v1)
           v3 == S(2, v2)
           v4 == S(3, v3)
           v5 == S(4, v4)
           v6 == S(5, v5)
           v7 == S(6, v6)
           v8 == S(7, v7)
           v9 == S(7, v7)
           v10 == S(4, v4)
           v11 == S(7, v7)
           v12 == S(7, v7)
           v13 == S(12, v12)
           v14 == S(8, v8) \cup S(9, v9) \cup S(10, v10)
             \cup S(11, v11) \cup S(12, v12) \cup S(13, v13)
           w == [i \in 1..14 |-> CASE i = 1 -> v1
               [] i = 2 -> v2
               [] i = 3 -> v3
               [] i = 4 -> v4
               [] i = 5 -> v5
               [] i = 6 -> v6
               [] i = 7 -> v7
               [] i = 8 -> v8
               [] i = 9 -> v9
               [] i = 10 -> v10
               [] i = 11 -> v11
               [] i = 12 -> v12
               [] i = 13 -> v13
               [] i = 14 -> v14]
<1>0. w = [i \in 1..14 |-> w[i]]
  OBVIOUS
<1>1. /\ w[1] = v1 /\ w[2] = v2 /\ w[3] = v3 /\ w[4] = v4 /\ w[5] = v5
      /\ w[6] = v6 /\ w[7] = v7 /\ w[8] = v8 /\ w[9] = v9 /\ w[10] = v10
      /\ w[11] = v11 /\ w[12] = v12 /\ w[13] = v13 /\ w[14] = v14
  OBVIOUS
<1> HIDE DEF w, v2, v3, v4, v5, v6, v7, v8, v9, v10, v11, v12, v13, v14
<1> DEFINE T(rank) == UNION {own[p] \cup (IF p \in closed THEN {} ELSE w[stageRank(p)]) :
                                 p \in stagePrerequisites[o(rank)]}
<1>2. w[1] = T(1)
  BY <1>1, LadderPrerequisites, LadderRanks DEF v1
<1>3. w[2] = T(2)
  BY <1>1, LadderPrerequisites, LadderRanks DEF v2
<1>4. w[3] = T(3)
  BY <1>1, LadderPrerequisites, LadderRanks DEF v3
<1>5. w[4] = T(4)
  BY <1>1, LadderPrerequisites, LadderRanks DEF v4
<1>6. w[5] = T(5)
  BY <1>1, LadderPrerequisites, LadderRanks DEF v5
<1>7. w[6] = T(6)
  BY <1>1, LadderPrerequisites, LadderRanks DEF v6
<1>8. w[7] = T(7)
  BY <1>1, LadderPrerequisites, LadderRanks DEF v7
<1>9. w[8] = T(8)
  BY <1>1, LadderPrerequisites, LadderRanks DEF v8
<1>10. w[9] = T(9)
  BY <1>1, LadderPrerequisites, LadderRanks DEF v9
<1>11. w[10] = T(10)
  BY <1>1, LadderPrerequisites, LadderRanks DEF v10
<1>12. w[11] = T(11)
  BY <1>1, LadderPrerequisites, LadderRanks DEF v11
<1>13. w[12] = T(12)
  BY <1>1, LadderPrerequisites, LadderRanks DEF v12
<1>14. w[13] = T(13)
  BY <1>1, LadderPrerequisites, LadderRanks DEF v13
<1>15. w[14] = T(14)
  BY <1>1, LadderPrerequisites, LadderRanks DEF v14
<1> HIDE DEF T
<1>16. \A i \in 1..14 : w[i] = T(i)
  BY <1>2, <1>3, <1>4, <1>5, <1>6, <1>7, <1>8, <1>9, <1>10, <1>11, <1>12, <1>13, <1>14, <1>15
<1>17. Visited(own, closed, w) = [rank \in 1..14 |-> T(rank)]
  BY LadderOrder DEF Visited, T
<1> QED
  BY <1>0, <1>16, <1>17

LEMMA UpstreamUnfolds == ASSUME NEW own, NEW closed, NEW stage \in Ladder
    PROVE Upstream(own, closed, stage)
            = UNION {own[p] \cup (IF p \in closed THEN {} ELSE Upstream(own, closed, p)) :
                       p \in stagePrerequisites[stage]}
<1> DEFINE V == CHOOSE v : v = Visited(own, closed, v)
<1>1. \A s : Upstream(own, closed, s) = V[stageRank(s)]
  BY DEF Upstream, Visited
<1>2. V = Visited(own, closed, V)
  BY WalkExists
<1> HIDE DEF V
<1>3. PICK r \in DOMAIN stageOrder : stage = stageOrder[r]
  BY DEF Ladder
<1>4. stageRank(stage) = r
  BY <1>3, LadderOrder, LadderRanks
<1>5. V[r] = UNION {own[p] \cup (IF p \in closed THEN {} ELSE V[stageRank(p)]) :
                       p \in stagePrerequisites[stageOrder[r]]}
  BY <1>2 DEF Visited
<1> QED
  BY <1>1, <1>3, <1>4, <1>5

LEMMA LadderDescends == ASSUME NEW stage \in Ladder, NEW p \in stagePrerequisites[stage]
    PROVE p \in Ladder /\ stageRank(p) < stageRank(stage)
<1>1. PICK r \in 1..14 : stage = stageOrder[r]
  BY LadderOrder DEF Ladder
<1>2. \E q \in 1..14 : p = stageOrder[q] /\ q < r
  BY <1>1, LadderPrerequisites
<1> QED
  BY <1>1, <1>2, LadderRanks, LadderOrder DEF Ladder

LEMMA LadderRank == ASSUME NEW stage \in Ladder PROVE stageRank(stage) \in 1..14
  BY LadderRanks, LadderOrder DEF Ladder

LEMMA LowestRank == ASSUME NEW S \in SUBSET (1..14), S # {}
    PROVE \E m \in S : \A k \in S : m <= k
<1>1. SUFFICES ASSUME \A m \in S : \E k \in S : k < m PROVE FALSE
  OBVIOUS
<1>2. 1 \notin S
  BY <1>1
<1>3. 2 \notin S
  BY <1>1, <1>2
<1>4. 3 \notin S
  BY <1>1, <1>2, <1>3
<1>5. 4 \notin S
  BY <1>1, <1>2, <1>3, <1>4
<1>6. 5 \notin S
  BY <1>1, <1>2, <1>3, <1>4, <1>5
<1>7. 6 \notin S
  BY <1>1, <1>2, <1>3, <1>4, <1>5, <1>6
<1>8. 7 \notin S
  BY <1>1, <1>2, <1>3, <1>4, <1>5, <1>6, <1>7
<1>9. 8 \notin S
  BY <1>1, <1>2, <1>3, <1>4, <1>5, <1>6, <1>7, <1>8
<1>10. 9 \notin S
  BY <1>1, <1>2, <1>3, <1>4, <1>5, <1>6, <1>7, <1>8, <1>9
<1>11. 10 \notin S
  BY <1>1, <1>2, <1>3, <1>4, <1>5, <1>6, <1>7, <1>8, <1>9, <1>10
<1>12. 11 \notin S
  BY <1>1, <1>2, <1>3, <1>4, <1>5, <1>6, <1>7, <1>8, <1>9, <1>10, <1>11
<1>13. 12 \notin S
  BY <1>1, <1>2, <1>3, <1>4, <1>5, <1>6, <1>7, <1>8, <1>9, <1>10, <1>11, <1>12
<1>14. 13 \notin S
  BY <1>1, <1>2, <1>3, <1>4, <1>5, <1>6, <1>7, <1>8, <1>9, <1>10, <1>11, <1>12, <1>13
<1>15. 14 \notin S
  BY <1>1, <1>2, <1>3, <1>4, <1>5, <1>6, <1>7, <1>8, <1>9, <1>10, <1>11, <1>12, <1>13, <1>14
<1>16. PICK m \in S : m \in 1..14
  OBVIOUS
<1> QED
  BY <1>16, <1>2, <1>3, <1>4, <1>5, <1>6, <1>7, <1>8, <1>9, <1>10, <1>11, <1>12, <1>13, <1>14, <1>15

\* A walk meets what earlier stages own, and nothing else.
LEMMA UpstreamIsEarlier == ASSUME NEW own, NEW closed, NEW stage \in Ladder,
                                  NEW x \in Upstream(own, closed, stage)
    PROVE \E p \in Ladder : x \in own[p] /\ stageRank(p) < stageRank(stage)
<1> DEFINE Right(s) == \A y \in Upstream(own, closed, s) :
                          \E p \in Ladder : y \in own[p] /\ stageRank(p) < stageRank(s)
           Wrong == {r \in 1..14 : \E s \in Ladder : r = stageRank(s) /\ ~ Right(s)}
<1>1. SUFFICES ASSUME ~ Right(stage) PROVE FALSE
  OBVIOUS
<1>2. stageRank(stage) \in Wrong
  BY <1>1, LadderRank
<1>3. PICK s \in Ladder : ~ Right(s) /\ \A r \in Wrong : stageRank(s) <= r
  <2>1. PICK m \in Wrong : \A r \in Wrong : m <= r
    BY <1>2, LowestRank
  <2> QED
    BY <2>1
<1> HIDE DEF Right
<1>4. \A p \in stagePrerequisites[s] : Right(p)
  <2> SUFFICES ASSUME NEW p \in stagePrerequisites[s], ~ Right(p) PROVE FALSE
    OBVIOUS
  <2>1. p \in Ladder /\ stageRank(p) < stageRank(s)
    BY LadderDescends
  <2>2. stageRank(p) \in Wrong
    BY <2>1, LadderRank
  <2> HIDE DEF Wrong
  <2>3. stageRank(s) <= stageRank(p)
    BY <2>2, <1>3
  <2> QED
    BY <2>1, <2>3, LadderRank
<1> USE DEF Right
<1>5. Right(s)
  <2> SUFFICES ASSUME NEW y \in Upstream(own, closed, s)
               PROVE \E p \in Ladder : y \in own[p] /\ stageRank(p) < stageRank(s)
    OBVIOUS
  <2>1. PICK p \in stagePrerequisites[s] : y \in own[p] \/ y \in Upstream(own, closed, p)
    BY UpstreamUnfolds
  <2>2. p \in Ladder /\ stageRank(p) < stageRank(s)
    BY LadderDescends
  <2>3. CASE y \in own[p]
    BY <2>2, <2>3
  <2>4. CASE y \in Upstream(own, closed, p)
    <3>1. PICK q \in Ladder : y \in own[q] /\ stageRank(q) < stageRank(p)
      BY <1>4, <2>4
    <3> QED
      BY <3>1, <2>2, LadderRank
  <2> QED
    BY <2>1, <2>3, <2>4
<1> QED
  BY <1>3, <1>5

LEMMA EarlierUnfolds == ASSUME NEW stage \in Ladder
    PROVE Earlier(stage) = UNION {{p} \cup Earlier(p) : p \in stagePrerequisites[stage]}
<1>1. \A p \in stagePrerequisites[stage] : p \in Ladder
  BY LadderDescends
<1> DEFINE own == [p \in Ladder |-> {p}]
<1> DEFINE Met(p) == own[p] \cup (IF p \in {} THEN {} ELSE Upstream(own, {}, p))
<1>2. Upstream(own, {}, stage) = UNION {Met(p) : p \in stagePrerequisites[stage]}
  BY UpstreamUnfolds
<1>3. \A p \in stagePrerequisites[stage] : Met(p) = {p} \cup Earlier(p)
  BY <1>1 DEF Earlier
<1> HIDE DEF Met
<1>4. Earlier(stage) = UNION {Met(p) : p \in stagePrerequisites[stage]}
  BY <1>2 DEF Earlier
<1> QED
  BY <1>3, <1>4

\* A walk that stops at stages that own something misses nothing: what it does not meet comes
\* before something it meets.
LEMMA UpstreamIsEnough ==
    ASSUME NEW own, NEW closed, closed = {p \in Ladder : own[p] # {}}, NEW stage \in Ladder,
           NEW q \in Earlier(stage), NEW x \in own[q]
    PROVE \/ x \in Upstream(own, closed, stage)
          \/ \E p \in Ladder : \E y \in own[p] :
               y \in Upstream(own, closed, stage) /\ q \in Earlier(p)
<1> DEFINE Right(s) == q \in Earlier(s) =>
                          \/ x \in Upstream(own, closed, s)
                          \/ \E p \in Ladder : \E y \in own[p] :
                               y \in Upstream(own, closed, s) /\ q \in Earlier(p)
           Wrong == {r \in 1..14 : \E s \in Ladder : r = stageRank(s) /\ ~ Right(s)}
<1>1. SUFFICES ASSUME ~ Right(stage) PROVE FALSE
  OBVIOUS
<1> HIDE DEF Right
<1>2. stageRank(stage) \in Wrong
  BY <1>1, LadderRank
<1>3. PICK s \in Ladder : ~ Right(s) /\ \A r \in Wrong : stageRank(s) <= r
  <2>1. PICK m \in Wrong : \A r \in Wrong : m <= r
    BY <1>2, LowestRank
  <2> QED
    BY <2>1
<1>4. \A p \in stagePrerequisites[s] : Right(p)
  <2> SUFFICES ASSUME NEW p \in stagePrerequisites[s], ~ Right(p) PROVE FALSE
    OBVIOUS
  <2>1. p \in Ladder /\ stageRank(p) < stageRank(s)
    BY LadderDescends
  <2>2. stageRank(p) \in Wrong
    BY <2>1, LadderRank
  <2> HIDE DEF Wrong
  <2>3. stageRank(s) <= stageRank(p)
    BY <2>2, <1>3
  <2> QED
    BY <2>1, <2>3, LadderRank
<1> USE DEF Right
<1>5. Right(s)
  <2> SUFFICES ASSUME q \in Earlier(s)
               PROVE \/ x \in Upstream(own, closed, s)
                     \/ \E p \in Ladder : \E y \in own[p] :
                          y \in Upstream(own, closed, s) /\ q \in Earlier(p)
    OBVIOUS
  <2>1. PICK p \in stagePrerequisites[s] : q = p \/ q \in Earlier(p)
    BY EarlierUnfolds
  <2>2. p \in Ladder
    BY LadderDescends
  <2>3. own[p] \subseteq Upstream(own, closed, s)
    BY UpstreamUnfolds
  <2>4. p \notin closed => Upstream(own, closed, p) \subseteq Upstream(own, closed, s)
    BY UpstreamUnfolds
  <2>5. CASE q = p
    BY <2>3, <2>5
  <2>6. CASE q \in Earlier(p) /\ p \in closed
    BY <2>2, <2>3, <2>6
  <2>7. CASE q \in Earlier(p) /\ p \notin closed
    BY <1>4, <2>4, <2>7
  <2> QED
    BY <2>1, <2>5, <2>6, <2>7
<1> QED
  BY <1>3, <1>5
-----------------------------------------------------------------------------
\* The jobs of a plan before they are multiplied, and before they are put in order.
Begun(d, tools) ==
    PreparedJobs(d, tools, RegistryJobs(RegistryDecisions(d, tools)) \cup WorkflowJobs(d, tools))
    \cup FuzzJobs(d, tools) \cup ApprovalJobs(d, tools)
Multiplied(d, tools) == expandIdentityJobs(d, expandTLSServiceJobs(d, Begun(d, tools)))
Decided(d, tools) ==
    PreparedDecisions(d, tools, RegistryDecisions(d, tools) \cup CrawlDecisions(d, tools))
    \cup ApprovalDecisions(d, tools)

TLSScanner == {"testssl", "sslyze"}
Approved == {"apiwrites", "nextjs-actions", "nextjs-boundaries"}

\* A job as it is planned: on the whole target, or for a fuzz approval.
IsPlanJob(j) == j = PlanJob(j.scanner, j.target, j.part, j.types, j.state)
Sound(d, tools, j) ==
    /\ IsPlanJob(j)
    /\ j.scanner \in Scanner /\ j.target \in d.targets
    /\ j.part # "-" => j.scanner = "wapiti" /\ <<j.target, j.part>> \in d.fuzz
    /\ j.state \in Planned => j.scanner \in tools
    /\ j.scanner \notin Replaced(d)
    /\ j.scanner = "subfinder" => d.subdomain
    /\ j.scanner \in Approved => <<j.scanner, j.target>> \in Approvals(d)

\* A draft that a plan is made of, on a host that always has the built-in workers.
Plannable(d, tools) == d \in Draft /\ ~ Blocked(d) /\ {"auth", "apiwrites"} \subseteq tools

LEMMA PlanJobIs == ASSUME NEW s, NEW t, NEW p, NEW ty, NEW st, NEW j, j = PlanJob(s, t, p, ty, st)
    PROVE /\ IsPlanJob(j)
          /\ j.scanner = s /\ j.target = t /\ j.part = p /\ j.types = ty /\ j.state = st
          /\ j.context = 0 /\ j.deps = {}
  BY DEF PlanJob, IsPlanJob

LEMMA DecisionIsFounded ==
    ASSUME NEW d, NEW tools, NEW s \in RegistryID, NEW t, DecisionState(d, tools, s, t) \in Planned
    PROVE /\ s \in tools
          /\ s \notin Replaced(d)
          /\ s = "subfinder" => d.subdomain \/ s \in Chosen(d)
<1> DEFINE eligible == eligibility(tools, s, t)
           offered == IF s = "subfinder" /\ eligible # "unavailable"
                      THEN IF d.subdomain THEN "conditional" ELSE "optional" ELSE eligible
           state == IF offered = "optional" /\ Asked(d, s) THEN "selected" ELSE offered
<1>1. DecisionState(d, tools, s, t)
        = CASE s \in Replaced(d) /\ state \in Planned \cup {"optional"} -> "skipped"
            [] state \in Planned /\ ~ Kept(d, s) -> "skipped"
            [] OTHER -> state
  BY DEF DecisionState
<1> HIDE DEF state
<1>2. state \in Planned /\ s \notin Replaced(d)
  BY <1>1 DEF Planned
<1>3. s \in tools
  <2> SUFFICES ASSUME s \notin tools PROVE FALSE
    OBVIOUS
  <2>1. eligible = "unavailable"
    BY DEF eligibility
  <2> QED
    BY <2>1, <1>2 DEF state, Planned
<1>4. ASSUME s = "subfinder" PROVE d.subdomain \/ s \in Chosen(d)
  <2>1. ~ d.subdomain => offered \in {"optional", "unavailable"}
    BY <1>4
  <2> HIDE DEF offered
  <2>2. ~ d.subdomain => Asked(d, s)
    BY <2>1, <1>2 DEF state, Planned
  <2> QED
    BY <2>2, <1>4 DEF Asked
<1> QED
  BY <1>2, <1>3, <1>4

LEMMA ChosenIsPermitted == ASSUME NEW d \in Draft, ~ Blocked(d), "subfinder" \in Chosen(d)
    PROVE d.subdomain
<1>1. d.tls \in {"none", "testssl", "sslyze"}
  BY DEF Draft
<1>2. d.providers # {}
  BY <1>1 DEF Chosen
<1> QED
  BY <1>2 DEF Blocked, SelectionRefused

\* Decisions are on targets of the draft.
LEMMA RegistryDecision ==
    ASSUME NEW d \in Draft, NEW tools, NEW e \in RegistryDecisions(d, tools)
    PROVE /\ e.scanner \in RegistryID /\ e.target \in d.targets
          /\ e.state = DecisionState(d, tools, e.scanner, e.target)
  BY DEF RegistryDecisions, Considered

LEMMA RegistryJobsSound ==
    ASSUME NEW d, NEW tools, Plannable(d, tools),
           NEW j \in RegistryJobs(RegistryDecisions(d, tools))
    PROVE /\ Sound(d, tools, j) /\ j.scanner \in RegistryID /\ j.part = "-" /\ j.state \in Planned
          /\ \E e \in RegistryDecisions(d, tools) :
               e.scanner = j.scanner /\ e.target = j.target /\ e.state \in Planned
<1> DEFINE D == RegistryDecisions(d, tools)
           Same(e) == {f \in D : f.scanner = e.scanner /\ f.target = e.target
                                /\ f.state \in Planned}
           State(e) == IF \E f \in Same(e) : f.state = "selected" THEN "selected" ELSE "conditional"
<1>1. PICK e \in D : /\ e.state \in Planned
                     /\ j = PlanJob(e.scanner, e.target, "-",
                                   UNION {f.types : f \in Same(e)}, State(e))
  BY DEF RegistryJobs
<1>2. /\ IsPlanJob(j) /\ j.scanner = e.scanner /\ j.target = e.target /\ j.part = "-"
      /\ j.state = State(e)
  BY <1>1, PlanJobIs
<1>3. State(e) \in Planned
  BY DEF Planned
<1> HIDE DEF D, State
<1>4. /\ e.scanner \in RegistryID /\ e.target \in d.targets
      /\ e.state = DecisionState(d, tools, e.scanner, e.target)
  BY RegistryDecision DEF D, Plannable
<1>5. /\ e.scanner \in tools /\ e.scanner \notin Replaced(d)
      /\ e.scanner = "subfinder" => d.subdomain
  <2>1. DecisionState(d, tools, e.scanner, e.target) \in Planned
    BY <1>1, <1>4
  <2>2. /\ e.scanner \in tools /\ e.scanner \notin Replaced(d)
        /\ e.scanner = "subfinder" => d.subdomain \/ e.scanner \in Chosen(d)
    BY <1>4, <2>1, DecisionIsFounded
  <2> QED
    BY <2>2, ChosenIsPermitted DEF Plannable
<1>6. e.scanner \notin Approved
  BY <1>4 DEF RegistryID, Approved
<1> QED
  BY <1>1, <1>2, <1>3, <1>4, <1>5, <1>6 DEF Sound, Scanner, D

LEMMA ReplacedOnlyAlternatives == ASSUME NEW d
    PROVE Replaced(d) \subseteq {"subfinder", "amass", "testssl", "sslyze"}
  BY DEF Replaced

LEMMA WorkflowJobsSound ==
    ASSUME NEW d, NEW tools, Plannable(d, tools), NEW j \in WorkflowJobs(d, tools)
    PROVE /\ Sound(d, tools, j) /\ j.scanner \in {"auth", "katana"} /\ j.part = "-"
          /\ j.scanner = "auth" => j.types = {} /\ j.state = "selected"
          /\ j.scanner = "katana" => j.types = {} /\ j.state = StateOf(tools, "katana")
          /\ j.target \in WorkflowTargets(d)
<1>1. PICK t \in WorkflowTargets(d) :
        \/ j = PlanJob("auth", t, "-", {}, "selected")
        \/ j = PlanJob("katana", t, "-", {}, StateOf(tools, "katana"))
  BY DEF WorkflowJobs
<1>2. t \in d.targets
  BY DEF WorkflowTargets
<1>3. CASE j = PlanJob("auth", t, "-", {}, "selected")
  <2>1. /\ IsPlanJob(j) /\ j.scanner = "auth" /\ j.target = t /\ j.part = "-"
        /\ j.types = {} /\ j.state = "selected"
    BY <1>3, PlanJobIs
  <2> QED
    BY <2>1, <1>2, ReplacedOnlyAlternatives
    DEF Sound, Plannable, Scanner, WorkflowScanner, Approved
<1>4. CASE j = PlanJob("katana", t, "-", {}, StateOf(tools, "katana"))
  <2>1. /\ IsPlanJob(j) /\ j.scanner = "katana" /\ j.target = t /\ j.part = "-"
        /\ j.types = {} /\ j.state = StateOf(tools, "katana")
    BY <1>4, PlanJobIs
  <2> QED
    BY <2>1, <1>2, ReplacedOnlyAlternatives
    DEF Sound, Scanner, WorkflowScanner, Approved, StateOf, Planned
<1> QED
  BY <1>1, <1>3, <1>4

LEMMA PreparationIs == ASSUME NEW d, NEW a \in Preparations(d)
    PROVE a[1] \in {"dnsx", "httpx"} /\ a[2] \in d.targets /\ a = <<a[1], a[2]>>
  BY DEF Preparations

LEMMA NewPreparedSound ==
    ASSUME NEW d, NEW tools, NEW a \in Preparations(d), NEW j,
           j = PlanJob(a[1], a[2], "-", {PreparationType(d)}, StateOf(tools, a[1]))
    PROVE /\ Sound(d, tools, j) /\ j.scanner = a[1] /\ j.target = a[2] /\ j.part = "-"
          /\ j.types = {PreparationType(d)} /\ j.state = StateOf(tools, a[1])
<1>1. /\ IsPlanJob(j) /\ j.scanner = a[1] /\ j.target = a[2] /\ j.part = "-"
      /\ j.types = {PreparationType(d)} /\ j.state = StateOf(tools, a[1])
  BY PlanJobIs
<1> QED
  BY <1>1, PreparationIs, ReplacedOnlyAlternatives
  DEF Sound, Scanner, RegistryID, Approved, StateOf, Planned

LEMMA FuzzJobsSound ==
    ASSUME NEW d, NEW tools, Plannable(d, tools), NEW j \in FuzzJobs(d, tools)
    PROVE /\ Sound(d, tools, j) /\ j.scanner = "wapiti" /\ j.part # "-"
          /\ j.types = {"api"} /\ j.state = StateOf(tools, "wapiti")
<1>1. PICK f \in d.fuzz : j = PlanJob("wapiti", f[1], f[2], {"api"}, StateOf(tools, "wapiti"))
  BY DEF FuzzJobs
<1>2. /\ IsPlanJob(j) /\ j.scanner = "wapiti" /\ j.target = f[1] /\ j.part = f[2]
      /\ j.types = {"api"} /\ j.state = StateOf(tools, "wapiti")
  BY <1>1, PlanJobIs
<1>3. f = <<f[1], f[2]>> /\ f[2] # "-"
  BY DEF Plannable, Draft
<1>4. f[1] \in d.targets
  <2>1. f[1] \in d.writes \cup {g[1] : g \in d.fuzz}
    OBVIOUS
  <2> QED
    BY <2>1 DEF Plannable, Blocked, WriteRefused
<1> QED
  BY <1>2, <1>3, <1>4, ReplacedOnlyAlternatives
  DEF Sound, Scanner, RegistryID, Approved, StateOf, Planned

LEMMA ApprovalIs == ASSUME NEW d, NEW tools, Plannable(d, tools), NEW a \in Approvals(d)
    PROVE a[1] \in Approved /\ a[2] \in d.targets /\ a = <<a[1], a[2]>>
<1>1. PICK t : /\ a = <<"apiwrites", t>> \/ a = <<"nextjs-actions", t>>
                  \/ a = <<"nextjs-boundaries", t>>
               /\ t \in d.writes \/ t \in d.actions \cup d.boundaries
  BY DEF Approvals
<1>2. t \in d.targets
  BY <1>1 DEF Plannable, Blocked, WriteRefused, CampaignRefused
<1> QED
  BY <1>1, <1>2 DEF Approved

LEMMA ApprovalJobsSound ==
    ASSUME NEW d, NEW tools, Plannable(d, tools), NEW j \in ApprovalJobs(d, tools)
    PROVE /\ Sound(d, tools, j) /\ j.scanner \in Approved /\ j.part = "-"
          /\ j.types = IF j.scanner = "apiwrites" THEN {"api"} ELSE {"web"}
          /\ j.state = StateOf(tools, j.scanner)
<1>1. PICK a \in Approvals(d) :
        j = PlanJob(a[1], a[2], "-", IF a[1] = "apiwrites" THEN {"api"} ELSE {"web"},
                    StateOf(tools, a[1]))
  BY DEF ApprovalJobs
<1>2. /\ IsPlanJob(j) /\ j.scanner = a[1] /\ j.target = a[2] /\ j.part = "-"
      /\ j.types = (IF a[1] = "apiwrites" THEN {"api"} ELSE {"web"})
      /\ j.state = StateOf(tools, a[1])
  BY <1>1, PlanJobIs
<1>3. a[1] \in Approved /\ a[2] \in d.targets /\ a = <<a[1], a[2]>>
  BY ApprovalIs
<1> QED
  BY <1>2, <1>3, ReplacedOnlyAlternatives
  DEF Sound, Scanner, WorkflowScanner, Approved, StateOf, Planned

-----------------------------------------------------------------------------
\* The kinds of the jobs that are begun, which share no name.
LEMMA BegunIs == ASSUME NEW d, NEW tools, NEW j
    PROVE j \in Begun(d, tools) <=>
            \/ j \in RegistryJobs(RegistryDecisions(d, tools))
            \/ j \in WorkflowJobs(d, tools)
            \/ \E a \in Preparations(d) :
                 /\ j = PlanJob(a[1], a[2], "-", {PreparationType(d)}, StateOf(tools, a[1]))
                 /\ \A k \in RegistryJobs(RegistryDecisions(d, tools)) \cup WorkflowJobs(d, tools) :
                      <<k.scanner, k.target>> # a
            \/ j \in FuzzJobs(d, tools)
            \/ j \in ApprovalJobs(d, tools)
  BY DEF Begun, PreparedJobs

LEMMA BegunSound == ASSUME NEW d, NEW tools, Plannable(d, tools), NEW j \in Begun(d, tools)
    PROVE Sound(d, tools, j)
<1>1. CASE j \in RegistryJobs(RegistryDecisions(d, tools))
  BY <1>1, RegistryJobsSound
<1>2. CASE j \in WorkflowJobs(d, tools)
  BY <1>2, WorkflowJobsSound
<1>3. CASE \E a \in Preparations(d) :
             j = PlanJob(a[1], a[2], "-", {PreparationType(d)}, StateOf(tools, a[1]))
  BY <1>3, NewPreparedSound
<1>4. CASE j \in FuzzJobs(d, tools)
  BY <1>4, FuzzJobsSound
<1>5. CASE j \in ApprovalJobs(d, tools)
  BY <1>5, ApprovalJobsSound
<1> QED
  BY BegunIs, <1>1, <1>2, <1>3, <1>4, <1>5

LEMMA RegistryJobsUnique ==
    ASSUME NEW d, NEW tools, NEW j \in RegistryJobs(RegistryDecisions(d, tools)),
           NEW k \in RegistryJobs(RegistryDecisions(d, tools)),
           j.scanner = k.scanner, j.target = k.target
    PROVE j = k
<1> DEFINE D == RegistryDecisions(d, tools)
           Same(s, t) == {f \in D : f.scanner = s /\ f.target = t /\ f.state \in Planned}
           State(s, t) == IF \E f \in Same(s, t) : f.state = "selected"
                          THEN "selected" ELSE "conditional"
           JobOf(s, t) == PlanJob(s, t, "-", UNION {f.types : f \in Same(s, t)}, State(s, t))
<1>1. \A i \in RegistryJobs(D) : \E e \in D : i = JobOf(e.scanner, e.target)
  BY DEF RegistryJobs
<1> HIDE DEF D, Same, State
<1>2. \A i, s, t : i = JobOf(s, t) => i.scanner = s /\ i.target = t
  BY PlanJobIs
<1> HIDE DEF JobOf
<1>3. \A i \in RegistryJobs(D) : i = JobOf(i.scanner, i.target)
  BY <1>1, <1>2
<1> QED
  BY <1>3 DEF D

LEMMA BegunUnique ==
    ASSUME NEW d, NEW tools, Plannable(d, tools), NEW j \in Begun(d, tools),
           NEW k \in Begun(d, tools),
           j.scanner = k.scanner, j.target = k.target, j.part = k.part
    PROVE j = k
<1> DEFINE R == RegistryJobs(RegistryDecisions(d, tools))
           W == WorkflowJobs(d, tools)
           New(i, a) == /\ i = PlanJob(a[1], a[2], "-", {PreparationType(d)}, StateOf(tools, a[1]))
                        /\ \A l \in R \cup W : <<l.scanner, l.target>> # a
           P(i) == \E a \in Preparations(d) : New(i, a)
           F == FuzzJobs(d, tools)
           A == ApprovalJobs(d, tools)
<1>1. (j \in R \/ j \in W \/ P(j) \/ j \in F \/ j \in A)
      /\ (k \in R \/ k \in W \/ P(k) \/ k \in F \/ k \in A)
  BY BegunIs
<1>2. \A i \in R : i.scanner \in RegistryID /\ i.part = "-"
  BY RegistryJobsSound
<1>3. \A i \in W : i.scanner \in {"auth", "katana"} /\ i.part = "-"
  BY WorkflowJobsSound
<1>4. \A i : P(i) => i.scanner \in {"dnsx", "httpx"} /\ i.part = "-"
                      /\ i.types = {PreparationType(d)}
                      /\ i.state = StateOf(tools, i.scanner)
                      /\ \A l \in R \cup W : ~ (l.scanner = i.scanner /\ l.target = i.target)
  <2> SUFFICES ASSUME NEW i, NEW a \in Preparations(d), New(i, a)
               PROVE /\ i.scanner \in {"dnsx", "httpx"} /\ i.part = "-"
                     /\ i.types = {PreparationType(d)} /\ i.state = StateOf(tools, i.scanner)
                     /\ \A l \in R \cup W : ~ (l.scanner = i.scanner /\ l.target = i.target)
    OBVIOUS
  <2>1. /\ i.scanner = a[1] /\ i.target = a[2] /\ i.part = "-"
        /\ i.types = {PreparationType(d)} /\ i.state = StateOf(tools, a[1])
    BY PlanJobIs
  <2>2. a[1] \in {"dnsx", "httpx"} /\ a = <<a[1], a[2]>>
    BY PreparationIs
  <2> HIDE DEF R, W
  <2> QED
    BY <2>1, <2>2
<1>5. \A i \in F : i.scanner = "wapiti" /\ i.part # "-" /\ i.types = {"api"}
                   /\ i.state = StateOf(tools, "wapiti")
  BY FuzzJobsSound
<1>6. \A i \in A : i.scanner \in Approved /\ i.part = "-"
                   /\ i.types = (IF i.scanner = "apiwrites" THEN {"api"} ELSE {"web"})
                   /\ i.state = StateOf(tools, i.scanner)
  BY ApprovalJobsSound
<1>7. \A i \in W : /\ i.types = {}
                   /\ i.state = IF i.scanner = "auth" THEN "selected" ELSE StateOf(tools, "katana")
  BY WorkflowJobsSound
<1> HIDE DEF R, W, P, F, A
<1>8. IsPlanJob(j) /\ IsPlanJob(k)
  BY BegunSound DEF Sound
<1>9. j.types = k.types /\ j.state = k.state => j = k
  BY <1>8 DEF IsPlanJob
<1>10. CASE j \in R
  <2>1. k \in R
    BY <1>1, <1>2, <1>3, <1>4, <1>5, <1>6, <1>10 DEF RegistryID, Approved
  <2> QED
    BY <2>1, <1>10, RegistryJobsUnique DEF R
<1>11. CASE j \in W
  <2>1. k \in W
    BY <1>1, <1>2, <1>3, <1>4, <1>5, <1>6, <1>11 DEF RegistryID, Approved
  <2> QED
    BY <2>1, <1>11, <1>7, <1>9
<1>12. CASE P(j)
  <2>1. P(k)
    BY <1>1, <1>2, <1>3, <1>4, <1>5, <1>6, <1>12 DEF RegistryID, Approved
  <2> QED
    BY <2>1, <1>12, <1>4, <1>9
<1>13. CASE j \in F
  <2>1. k \in F
    BY <1>1, <1>2, <1>3, <1>4, <1>5, <1>6, <1>13 DEF RegistryID, Approved
  <2> QED
    BY <2>1, <1>13, <1>5, <1>9
<1>14. CASE j \in A
  <2>1. k \in A
    BY <1>1, <1>2, <1>3, <1>4, <1>5, <1>6, <1>14 DEF RegistryID, Approved
  <2> QED
    BY <2>1, <1>14, <1>6, <1>9
<1> QED
  BY <1>1, <1>10, <1>11, <1>12, <1>13, <1>14

\* Decisions before approved destinations are prepared.
FirstDecided(d, tools) == RegistryDecisions(d, tools) \cup CrawlDecisions(d, tools)

LEMMA RestatedDecision == ASSUME NEW d, NEW tools, NEW e \in FirstDecided(d, tools), NEW st
    PROVE /\ [e EXCEPT !.state = st].scanner = e.scanner
          /\ [e EXCEPT !.state = st].target = e.target
          /\ [e EXCEPT !.state = st].state = st
<1>1. CASE e \in RegistryDecisions(d, tools)
  BY <1>1 DEF RegistryDecisions
<1>2. CASE e \in CrawlDecisions(d, tools)
  BY <1>2 DEF CrawlDecisions
<1> QED
  BY <1>1, <1>2 DEF FirstDecided

\* The decision on a job that may run says that it may.
LEMMA BegunDecided ==
    ASSUME NEW d, NEW tools, Plannable(d, tools), NEW j \in Begun(d, tools), j.state \in Planned
    PROVE \/ j.scanner = "auth" \/ j.part # "-"
          \/ \E e \in Decided(d, tools) :
               e.scanner = j.scanner /\ e.target = j.target /\ e.state \in Planned
<1> DEFINE Sel == StateOf(tools, j.scanner)
<1>0. j.scanner \in tools
  BY BegunSound DEF Sound
<1>1. Sel \in Planned
  BY <1>0 DEF StateOf, Planned
<1>2. \A e \in FirstDecided(d, tools) :
        e.scanner = j.scanner /\ e.target = j.target /\ e.state \in Planned =>
          \E f \in Decided(d, tools) :
            f.scanner = j.scanner /\ f.target = j.target /\ f.state \in Planned
  <2> SUFFICES ASSUME NEW e \in FirstDecided(d, tools), e.scanner = j.scanner, e.target = j.target,
                      e.state \in Planned
               PROVE \E f \in Decided(d, tools) :
                       f.scanner = j.scanner /\ f.target = j.target /\ f.state \in Planned
    OBVIOUS
  <2> DEFINE f == IF <<e.scanner, e.target>> \in Preparations(d)
                  THEN [e EXCEPT !.state = StateOf(tools, e.scanner)] ELSE e
  <2>1. f \in Decided(d, tools)
    BY DEF Decided, PreparedDecisions, FirstDecided
  <2>2. f.scanner = j.scanner /\ f.target = j.target /\ f.state \in Planned
    BY RestatedDecision, <1>1
  <2> QED
    BY <2>1, <2>2
<1>3. CASE j \in RegistryJobs(RegistryDecisions(d, tools))
  <2>1. \E e \in RegistryDecisions(d, tools) :
           e.scanner = j.scanner /\ e.target = j.target /\ e.state \in Planned
    BY <1>3, RegistryJobsSound
  <2> QED
    BY <2>1, <1>2 DEF FirstDecided
<1>4. CASE j \in WorkflowJobs(d, tools)
  <2>1. CASE j.scanner = "auth"
    BY <2>1
  <2>2. CASE j.scanner = "katana"
    <3>1. j.target \in WorkflowTargets(d)
      BY <1>4, WorkflowJobsSound
    <3> DEFINE e == [scanner |-> "katana", target |-> j.target, types |-> {},
                     state |-> StateOf(tools, "katana")]
    <3>2. e \in FirstDecided(d, tools)
      BY <3>1 DEF FirstDecided, CrawlDecisions
    <3> QED
      BY <3>2, <1>1, <1>2, <2>2
  <2> QED
    BY <2>1, <2>2, <1>4, WorkflowJobsSound
<1>5. CASE \E a \in Preparations(d) :
             j = PlanJob(a[1], a[2], "-", {PreparationType(d)}, StateOf(tools, a[1]))
  <2>1. PICK a \in Preparations(d) :
             j = PlanJob(a[1], a[2], "-", {PreparationType(d)}, StateOf(tools, a[1]))
    BY <1>5
  <2>2. j.scanner = a[1] /\ j.target = a[2] /\ a = <<a[1], a[2]>>
    BY <2>1, PlanJobIs, PreparationIs
  <2>3. CASE \E e \in FirstDecided(d, tools) : <<e.scanner, e.target>> = a
    <3>1. PICK e \in FirstDecided(d, tools) : <<e.scanner, e.target>> = a
      BY <2>3
    <3> DEFINE f == [e EXCEPT !.state = StateOf(tools, e.scanner)]
    <3>2. f \in Decided(d, tools)
      BY <3>1 DEF Decided, PreparedDecisions, FirstDecided
    <3>3. e.scanner = j.scanner /\ e.target = j.target
      BY <3>1, <2>2
    <3>4. f.scanner = j.scanner /\ f.target = j.target /\ f.state \in Planned
      BY <3>3, RestatedDecision, <1>1
    <3> QED
      BY <3>2, <3>4
  <2>4. CASE \A e \in FirstDecided(d, tools) : <<e.scanner, e.target>> # a
    <3> DEFINE f == [scanner |-> a[1], target |-> a[2], types |-> {PreparationType(d)},
                     state |-> StateOf(tools, a[1])]
    <3>1. f \in Decided(d, tools)
      BY <2>4 DEF Decided, PreparedDecisions, FirstDecided
    <3>2. f.scanner = j.scanner /\ f.target = j.target /\ f.state \in Planned
      BY <2>2, <1>1
    <3> QED
      BY <3>1, <3>2
  <2> QED
    BY <2>3, <2>4
<1>6. CASE j \in FuzzJobs(d, tools)
  BY <1>6, FuzzJobsSound
<1>7. CASE j \in ApprovalJobs(d, tools)
  <2>1. <<j.scanner, j.target>> \in Approvals(d)
    BY <1>7, ApprovalJobsSound DEF Sound
  <2> DEFINE a == <<j.scanner, j.target>>
             f == [scanner |-> a[1], target |-> a[2],
                   types |-> IF a[1] = "apiwrites" THEN {"api"} ELSE Web,
                   state |-> StateOf(tools, a[1])]
  <2>2. f \in ApprovalDecisions(d, tools)
    BY <2>1 DEF ApprovalDecisions
  <2>3. f.scanner = j.scanner /\ f.target = j.target /\ f.state = Sel
    OBVIOUS
  <2> HIDE DEF f, Sel
  <2> QED
    BY <2>2, <2>3, <1>1 DEF Decided
<1> QED
  BY BegunIs, <1>3, <1>4, <1>5, <1>6, <1>7

\* Whatever is decided to run has a job.
LEMMA DecidedBegun ==
    ASSUME NEW d, NEW tools, Plannable(d, tools), NEW e \in Decided(d, tools), e.state \in Planned
    PROVE \E j \in Begun(d, tools) : j.scanner = e.scanner /\ j.target = e.target
<1> DEFINE D == RegistryDecisions(d, tools)
           Has(s, t) == \E j \in Begun(d, tools) : j.scanner = s /\ j.target = t
<1>1. \A a \in Preparations(d) : Has(a[1], a[2])
  <2> SUFFICES ASSUME NEW a \in Preparations(d) PROVE Has(a[1], a[2])
    OBVIOUS
  <2> DEFINE k == PlanJob(a[1], a[2], "-", {PreparationType(d)}, StateOf(tools, a[1]))
             Old == RegistryJobs(D) \cup WorkflowJobs(d, tools)
  <2>1. k.scanner = a[1] /\ k.target = a[2]
    BY DEF PlanJob
  <2>2. CASE \E l \in Old : <<l.scanner, l.target>> = a
    <3>1. PICK l \in Old : <<l.scanner, l.target>> = a
      BY <2>2
    <3>2. l \in Begun(d, tools)
      BY BegunIs
    <3>3. l.scanner = a[1] /\ l.target = a[2]
      BY <3>1, PreparationIs
    <3> QED
      BY <3>2, <3>3
  <2>3. CASE \A l \in Old : <<l.scanner, l.target>> # a
    <3>1. k \in Begun(d, tools)
      BY <2>3, BegunIs
    <3> QED
      BY <3>1, <2>1
  <2> QED
    BY <2>2, <2>3
<1>2. \A f \in FirstDecided(d, tools) : f.state \in Planned => Has(f.scanner, f.target)
  <2> SUFFICES ASSUME NEW f \in FirstDecided(d, tools), f.state \in Planned
               PROVE Has(f.scanner, f.target)
    OBVIOUS
  <2>1. CASE f \in D
    <3> DEFINE Same == {g \in D : g.scanner = f.scanner /\ g.target = f.target
                                   /\ g.state \in Planned}
               j == PlanJob(f.scanner, f.target, "-", UNION {g.types : g \in Same},
                            IF \E g \in Same : g.state = "selected"
                            THEN "selected" ELSE "conditional")
    <3>1. j \in RegistryJobs(D)
      BY <2>1 DEF RegistryJobs
    <3>2. j.scanner = f.scanner /\ j.target = f.target
      BY DEF PlanJob
    <3>3. j \in Begun(d, tools)
      BY <3>1, BegunIs
    <3> HIDE DEF j
    <3> QED
      BY <3>2, <3>3
  <2>2. CASE f \in CrawlDecisions(d, tools)
    <3>1. f.scanner = "katana" /\ f.target \in WorkflowTargets(d)
      BY <2>2 DEF CrawlDecisions
    <3> DEFINE j == PlanJob("katana", f.target, "-", {}, StateOf(tools, "katana"))
    <3>2. j \in WorkflowJobs(d, tools)
      BY <3>1 DEF WorkflowJobs
    <3>3. j \in Begun(d, tools) /\ j.scanner = "katana" /\ j.target = f.target
      BY <3>2, BegunIs DEF PlanJob
    <3> QED
      BY <3>1, <3>3
  <2> QED
    BY <2>1, <2>2 DEF FirstDecided
<1> HIDE DEF Has, D
<1>3. CASE e \in ApprovalDecisions(d, tools)
  <2>1. PICK a \in Approvals(d) : e.scanner = a[1] /\ e.target = a[2]
    BY <1>3 DEF ApprovalDecisions
  <2> DEFINE j == PlanJob(a[1], a[2], "-", IF a[1] = "apiwrites" THEN {"api"} ELSE {"web"},
                          StateOf(tools, a[1]))
  <2>2. j \in ApprovalJobs(d, tools)
    BY DEF ApprovalJobs
  <2>3. j \in Begun(d, tools) /\ j.scanner = a[1] /\ j.target = a[2]
    BY <2>2, BegunIs DEF PlanJob
  <2> QED
    BY <2>1, <2>3
<1>4. CASE e \in PreparedDecisions(d, tools, FirstDecided(d, tools))
  <2>1. CASE \E f \in FirstDecided(d, tools) :
               /\ <<f.scanner, f.target>> \in Preparations(d)
               /\ e = [f EXCEPT !.state = StateOf(tools, f.scanner)]
    <3>1. PICK f \in FirstDecided(d, tools) :
               /\ <<f.scanner, f.target>> \in Preparations(d)
               /\ e = [f EXCEPT !.state = StateOf(tools, f.scanner)]
      BY <2>1
    <3>2. e.scanner = f.scanner /\ e.target = f.target
      BY <3>1, RestatedDecision
    <3>3. Has(f.scanner, f.target)
      BY <3>1, <1>1
    <3> QED
      BY <3>2, <3>3 DEF Has
  <2>2. CASE e \in FirstDecided(d, tools)
    BY <2>2, <1>2 DEF Has
  <2>3. CASE \E a \in Preparations(d) : e.scanner = a[1] /\ e.target = a[2]
    BY <2>3, <1>1 DEF Has
  <2> QED
    BY <1>4, <2>1, <2>2, <2>3 DEF PreparedDecisions
<1> QED
  BY <1>3, <1>4 DEF Decided, FirstDecided

-----------------------------------------------------------------------------
\* Jobs are multiplied by services, then by identities.
JobsServed(d, j) ==
    IF j.scanner \notin TLSScanner \/ d.types \cap Web = {} THEN {j}
    ELSE IF Services[j.target] = {} THEN {[j EXCEPT !.state = "skipped"]}
    ELSE {[j EXCEPT !.part = service] : service \in Services[j.target]}

Serviced(d, tools) == expandTLSServiceJobs(d, Begun(d, tools))

LEMMA ServicedIs == ASSUME NEW d, NEW tools
    PROVE Serviced(d, tools) = UNION {JobsServed(d, j) : j \in Begun(d, tools)}
  BY DEF Serviced, expandTLSServiceJobs, JobsServed, TLSScanner

\* x is made of j for a service of its target.
ServiceOf(x, j) ==
    /\ IsPlanJob(x) /\ x.scanner = j.scanner /\ x.target = j.target /\ x.types = j.types
    /\ x.part = j.part \/ j.scanner \in TLSScanner
    /\ x.state = j.state \/ x.state = "skipped"

LEMMA ServedServes == ASSUME NEW d, NEW j, IsPlanJob(j), NEW x \in JobsServed(d, j)
    PROVE ServiceOf(x, j)
<1>1. CASE x = j
  BY <1>1 DEF ServiceOf
<1>2. CASE x = [j EXCEPT !.state = "skipped"] /\ j.scanner \in TLSScanner
  <2>1. x = PlanJob(j.scanner, j.target, j.part, j.types, "skipped")
    BY <1>2 DEF IsPlanJob, PlanJob
  <2>2. /\ IsPlanJob(x) /\ x.scanner = j.scanner /\ x.target = j.target /\ x.types = j.types
        /\ x.part = j.part /\ x.state = "skipped"
    BY <2>1, PlanJobIs
  <2> QED
    BY <2>2 DEF ServiceOf
<1>3. CASE \E service : x = [j EXCEPT !.part = service] /\ j.scanner \in TLSScanner
  <2>1. PICK service : x = [j EXCEPT !.part = service]
    BY <1>3
  <2>2. x = PlanJob(j.scanner, j.target, service, j.types, j.state)
    BY <2>1 DEF IsPlanJob, PlanJob
  <2>3. /\ IsPlanJob(x) /\ x.scanner = j.scanner /\ x.target = j.target /\ x.types = j.types
        /\ x.state = j.state
    BY <2>2, PlanJobIs
  <2> QED
    BY <2>3, <1>3 DEF ServiceOf
<1> QED
  BY <1>1, <1>2, <1>3 DEF JobsServed

LEMMA ServedOnce ==
    ASSUME NEW d, NEW j, IsPlanJob(j), NEW x \in JobsServed(d, j), NEW y \in JobsServed(d, j),
           x.part = y.part
    PROVE x = y
<1>1. \A service : [j EXCEPT !.part = service].part = service
  BY DEF IsPlanJob, PlanJob
<1> QED
  BY <1>1 DEF JobsServed

LEMMA ServedSome == ASSUME NEW d, NEW j PROVE JobsServed(d, j) # {}
  BY DEF JobsServed

LEMMA ServicedServes ==
    ASSUME NEW d, NEW tools, Plannable(d, tools), NEW x \in Serviced(d, tools)
    PROVE \E j \in Begun(d, tools) : x \in JobsServed(d, j) /\ ServiceOf(x, j)
<1>1. PICK j \in Begun(d, tools) : x \in JobsServed(d, j)
  BY ServicedIs
<1> QED
  BY <1>1, BegunSound, ServedServes DEF Sound

LEMMA ServicedUnique ==
    ASSUME NEW d, NEW tools, Plannable(d, tools), NEW x \in Serviced(d, tools),
           NEW y \in Serviced(d, tools),
           x.scanner = y.scanner, x.target = y.target, x.part = y.part
    PROVE x = y
<1>1. PICK j \in Begun(d, tools) : x \in JobsServed(d, j) /\ ServiceOf(x, j)
  BY ServicedServes
<1>2. PICK k \in Begun(d, tools) : y \in JobsServed(d, k) /\ ServiceOf(y, k)
  BY ServicedServes
<1>3. Sound(d, tools, j) /\ Sound(d, tools, k)
  BY BegunSound
<1>4. j.scanner = k.scanner /\ j.target = k.target
  BY <1>1, <1>2 DEF ServiceOf
<1>5. j.part = k.part
  <2>1. j.scanner \in TLSScanner => j.part = "-" /\ k.part = "-"
    BY <1>3, <1>4 DEF Sound, TLSScanner
  <2> QED
    BY <2>1, <1>1, <1>2, <1>4 DEF ServiceOf
<1>6. j = k
  BY <1>4, <1>5, BegunUnique
<1> QED
  BY <1>1, <1>2, <1>3, <1>6, ServedOnce DEF Sound

\* x is made of y, for the first identity of the target or a further one.
Routes(d, x, y) ==
    /\ x = [y EXCEPT !.context = x.context]
    /\ \/ x.context = 0
       \/ /\ identityRoutedScanner(y.scanner)
          /\ x.context \in d.names[y.target] /\ x.context \in 1..2

LEMMA RoutedIs == ASSUME NEW y, IsPlanJob(y), NEW n, NEW x, x = [y EXCEPT !.context = n]
    PROVE /\ x.scanner = y.scanner /\ x.target = y.target /\ x.part = y.part
          /\ x.types = y.types /\ x.state = y.state /\ x.context = n /\ x.deps = {}
          /\ x = [scanner |-> x.scanner, target |-> x.target, part |-> x.part,
                  context |-> x.context, types |-> x.types, state |-> x.state, deps |-> {}]
  BY DEF IsPlanJob, PlanJob

LEMMA MultipliedRoutes ==
    ASSUME NEW d, NEW tools, Plannable(d, tools), NEW x \in Multiplied(d, tools)
    PROVE \E y \in Serviced(d, tools) : Routes(d, x, y)
<1> DEFINE S == Serviced(d, tools)
<1>1. CASE x \in S
  <2>1. IsPlanJob(x)
    BY <1>1, ServicedServes DEF ServiceOf
  <2>2. x.context = 0 /\ x = [x EXCEPT !.context = x.context]
    BY <2>1 DEF IsPlanJob, PlanJob
  <2> QED
    BY <1>1, <2>2 DEF Routes
<1>2. CASE \E y \in S : \E n \in FurtherIdentities(d, y.target) :
             identityRoutedScanner(y.scanner) /\ x = [y EXCEPT !.context = n]
  <2>0. PICK y \in S : \E n \in FurtherIdentities(d, y.target) :
           identityRoutedScanner(y.scanner) /\ x = [y EXCEPT !.context = n]
    BY <1>2
  <2>1. PICK n \in FurtherIdentities(d, y.target) :
           identityRoutedScanner(y.scanner) /\ x = [y EXCEPT !.context = n]
    BY <2>0
  <2>2. IsPlanJob(y) /\ y.target \in d.targets
    <3>1. PICK j \in Begun(d, tools) : ServiceOf(y, j)
      BY ServicedServes
    <3>2. Sound(d, tools, j)
      BY BegunSound
    <3> QED
      BY <3>1, <3>2 DEF ServiceOf, Sound
  <2>3. n \in d.names[y.target] /\ n \in 1..2
    <3>1. d.names[y.target] \subseteq 0..2
      BY <2>2 DEF Plannable, Draft
    <3> QED
      BY <3>1 DEF FurtherIdentities
  <2>4. x.context = n
    BY <2>1, <2>2, RoutedIs
  <2> QED
    BY <2>1, <2>3, <2>4 DEF Routes
<1> QED
  BY <1>1, <1>2 DEF Multiplied, Serviced, expandIdentityJobs

LEMMA MultipliedUnique ==
    ASSUME NEW d, NEW tools, Plannable(d, tools), NEW x \in Multiplied(d, tools),
           NEW y \in Multiplied(d, tools), ID(x) = ID(y)
    PROVE x = y
<1>1. PICK j \in Serviced(d, tools) : Routes(d, x, j)
  BY MultipliedRoutes
<1>2. PICK k \in Serviced(d, tools) : Routes(d, y, k)
  BY MultipliedRoutes
<1>3. IsPlanJob(j) /\ IsPlanJob(k)
  BY ServicedServes DEF ServiceOf
<1>4. /\ x.scanner = y.scanner /\ x.target = y.target /\ x.part = y.part
      /\ x.context = y.context
  BY DEF ID
<1>5. j.scanner = k.scanner /\ j.target = k.target /\ j.part = k.part
  BY <1>1, <1>2, <1>3, <1>4, RoutedIs DEF Routes
<1>6. j = k
  BY <1>5, ServicedUnique
<1> QED
  BY <1>1, <1>2, <1>4, <1>6 DEF Routes

\* What a multiplied job has of the job it began as.
LEMMA MultipliedIs ==
    ASSUME NEW d, NEW tools, Plannable(d, tools), NEW x \in Multiplied(d, tools)
    PROVE /\ x = [scanner |-> x.scanner, target |-> x.target, part |-> x.part,
                  context |-> x.context, types |-> x.types, state |-> x.state, deps |-> {}]
          /\ x.context \in 0..2
          /\ x.context # 0 => /\ x.context \in d.names[x.target]
                              /\ identityRoutedScanner(x.scanner)
          /\ \E j \in Begun(d, tools) :
               /\ x.scanner = j.scanner /\ x.target = j.target
               /\ x.part = j.part \/ j.scanner \in TLSScanner
               /\ x.state = j.state \/ x.state = "skipped"
<1>1. PICK y \in Serviced(d, tools) : Routes(d, x, y)
  BY MultipliedRoutes
<1>2. PICK j \in Begun(d, tools) : ServiceOf(y, j)
  BY ServicedServes
<1>3. IsPlanJob(y)
  BY <1>2 DEF ServiceOf
<1>4. /\ x.scanner = y.scanner /\ x.target = y.target /\ x.part = y.part /\ x.state = y.state
      /\ x = [scanner |-> x.scanner, target |-> x.target, part |-> x.part,
              context |-> x.context, types |-> x.types, state |-> x.state, deps |-> {}]
  BY <1>1, <1>3, RoutedIs DEF Routes
<1>5. /\ x.context \in 0..2
      /\ x.context # 0 => x.context \in d.names[x.target] /\ identityRoutedScanner(x.scanner)
  BY <1>1, <1>4 DEF Routes
<1>6. /\ x.scanner = j.scanner /\ x.target = j.target
      /\ x.part = j.part \/ j.scanner \in TLSScanner
      /\ x.state = j.state \/ x.state = "skipped"
  BY <1>2, <1>4 DEF ServiceOf
<1> QED
  BY <1>4, <1>5, <1>6

LEMMA MultipliedKeeps ==
    ASSUME NEW d, NEW tools, Plannable(d, tools), NEW j \in Begun(d, tools)
    PROVE \E x \in Multiplied(d, tools) : x.scanner = j.scanner /\ x.target = j.target
<1>1. PICK x \in JobsServed(d, j) : TRUE
  BY ServedSome
<1>2. x \in Serviced(d, tools)
  BY <1>1, ServicedIs
<1>3. x.scanner = j.scanner /\ x.target = j.target
  <2>1. IsPlanJob(j)
    BY BegunSound DEF Sound
  <2>2. ServiceOf(x, j)
    BY <1>1, <2>1, ServedServes
  <2> QED
    BY <2>2 DEF ServiceOf
<1>4. x \in Multiplied(d, tools)
  BY <1>2 DEF Multiplied, Serviced, expandIdentityJobs
<1> QED
  BY <1>3, <1>4
-----------------------------------------------------------------------------
\* The stages of jobs, and their order.
LEMMA StageIs == ASSUME NEW j, j.scanner \in Scanner
    PROVE /\ StageOf(j) \in Ladder
          /\ StageOf(j) = "write" => FuzzApprovalID(j) \/ j.scanner \in Approved
  BY LadderStages DEF StageOf, stageForScanner, Scanner, RegistryID, WorkflowScanner, Approved

IsJob(x) == x = [scanner |-> x.scanner, target |-> x.target, part |-> x.part,
                 context |-> x.context, types |-> x.types, state |-> x.state, deps |-> {}]

LEMMA OrderedIs == ASSUME NEW y, IsJob(y), NEW deps, NEW x, x = [y EXCEPT !.deps = deps]
    PROVE /\ x.scanner = y.scanner /\ x.target = y.target /\ x.part = y.part
          /\ x.context = y.context /\ x.types = y.types /\ x.state = y.state /\ x.deps = deps
          /\ ID(x) = ID(y) /\ StageOf(x) = StageOf(y)
<1>1. /\ x.scanner = y.scanner /\ x.target = y.target /\ x.part = y.part
      /\ x.context = y.context /\ x.types = y.types /\ x.state = y.state /\ x.deps = deps
  BY DEF IsJob
<1> QED
  BY <1>1 DEF ID, StageOf, FuzzApprovalID

\* Jobs with unique names, of which at most one crawls a target.
Orderable(jobs) ==
    /\ \A x \in jobs : IsJob(x) /\ x.scanner \in Scanner
    /\ \A x, y \in jobs : ID(x) = ID(y) => x = y
    /\ \A x, y \in jobs :
         x.scanner = "katana" /\ y.scanner = "katana" /\ x.target = y.target => x = y

\* What Dependencies looks at.
Peers(jobs, job) == {j \in jobs : /\ webWorkflowScanner(j.scanner)
                                 /\ j.target = job.target /\ j.context = job.context}
Own(jobs, job) == [stage \in Ladder |-> {j \in Peers(jobs, job) : StageOf(j) = stage}]
Closed(jobs, job) == {stage \in Ladder : Own(jobs, job)[stage] # {}}

LEMMA DependenciesAre == ASSUME NEW jobs, NEW job
    PROVE Dependencies(jobs, job) =
            IF webWorkflowScanner(job.scanner)
            THEN {ID(j) : j \in Upstream(Own(jobs, job), Closed(jobs, job), StageOf(job))} ELSE {}
  BY DEF Dependencies, Peers, Own, Closed

\* A job depends on jobs of its target and identity in earlier stages.
LEMMA DependsOnEarlier ==
    ASSUME NEW jobs, Orderable(jobs), NEW y \in jobs, NEW id \in Dependencies(jobs, y)
    PROVE \E j \in jobs : /\ ID(j) = id /\ j.target = y.target /\ j.context = y.context
                         /\ stageRank(StageOf(j)) < stageRank(StageOf(y))
<1>1. PICK j \in Upstream(Own(jobs, y), Closed(jobs, y), StageOf(y)) : id = ID(j)
  BY DependenciesAre
<1>2. StageOf(y) \in Ladder
  BY StageIs DEF Orderable
<1>3. PICK p \in Ladder : j \in Own(jobs, y)[p] /\ stageRank(p) < stageRank(StageOf(y))
  BY <1>2, UpstreamIsEarlier
<1>4. j \in Peers(jobs, y) /\ StageOf(j) = p
  BY <1>3 DEF Own
<1> QED
  BY <1>1, <1>3, <1>4 DEF Peers

\* A job waits for each earlier job of its target and identity, through another one if not itself.
LEMMA WaitsForEarlier ==
    ASSUME NEW jobs, Orderable(jobs), NEW y \in jobs, NEW w \in jobs,
           webWorkflowScanner(y.scanner), webWorkflowScanner(w.scanner),
           w.target = y.target, w.context = y.context, StageOf(w) \in Earlier(StageOf(y))
    PROVE \/ ID(w) \in Dependencies(jobs, y)
          \/ \E via \in jobs : /\ ID(via) \in Dependencies(jobs, y)
                               /\ StageOf(w) \in Earlier(StageOf(via))
<1> DEFINE own == Own(jobs, y)
           closed == Closed(jobs, y)
           Met == Upstream(own, closed, StageOf(y))
<1>1. StageOf(y) \in Ladder /\ StageOf(w) \in Ladder
  BY StageIs DEF Orderable
<1>2. w \in own[StageOf(w)]
  BY <1>1 DEF Own, Peers
<1>3. closed = {p \in Ladder : own[p] # {}}
  BY DEF Closed
<1>4. \A j \in Met : ID(j) \in Dependencies(jobs, y)
  BY DependenciesAre
<1>5. \A p \in Ladder : \A j \in own[p] : j \in jobs /\ StageOf(j) = p
  BY DEF Own, Peers
<1> HIDE DEF own, closed
<1>6. \/ w \in Met
      \/ \E p \in Ladder : \E j \in own[p] : j \in Met /\ StageOf(w) \in Earlier(p)
  BY <1>1, <1>2, <1>3, UpstreamIsEnough
<1> HIDE DEF Met
<1> QED
  BY <1>4, <1>5, <1>6

LEMMA OrderedIsExecutable == ASSUME NEW jobs, Orderable(jobs) PROVE Executable(assignStages(jobs))
<1> DEFINE Put(y) == [y EXCEPT !.deps = Dependencies(jobs, y)]
           plan == assignStages(jobs)
<1>1. \A x \in plan : \E y \in jobs : x = Put(y)
  BY DEF assignStages
<1>2. \A y \in jobs : Put(y) \in plan
  BY DEF assignStages
<1>3. \A y \in jobs : /\ Put(y).scanner = y.scanner /\ Put(y).target = y.target
                      /\ Put(y).context = y.context /\ Put(y).deps = Dependencies(jobs, y)
                      /\ ID(Put(y)) = ID(y) /\ StageOf(Put(y)) = StageOf(y)
  BY OrderedIs DEF Orderable
<1> HIDE DEF Put, plan
<1>4. \A j, k \in plan : ID(j) = ID(k) => j = k
  BY <1>1, <1>3 DEF Orderable
<1>5. \A j \in plan : \A id \in j.deps : \E k \in plan :
        /\ ID(k) = id /\ k.target = j.target /\ k.context = j.context
        /\ stageRank(StageOf(k)) < stageRank(StageOf(j))
  <2> SUFFICES ASSUME NEW y \in jobs, NEW id \in Dependencies(jobs, y)
               PROVE \E k \in plan :
                       /\ ID(k) = id /\ k.target = y.target /\ k.context = y.context
                       /\ stageRank(StageOf(k)) < stageRank(StageOf(y))
    BY <1>1, <1>3
  <2>1. PICK j \in jobs : /\ ID(j) = id /\ j.target = y.target /\ j.context = y.context
                         /\ stageRank(StageOf(j)) < stageRank(StageOf(y))
    BY DependsOnEarlier
  <2> QED
    BY <1>2, <1>3, <2>1
<1>6. \A j, k \in {j \in plan : webWorkflowScanner(j.scanner)} :
        k.target = j.target /\ k.context = j.context /\ StageOf(k) \in Earlier(StageOf(j)) =>
         \/ ID(k) \in j.deps
         \/ \E via \in plan : ID(via) \in j.deps /\ StageOf(k) \in Earlier(StageOf(via))
  <2> SUFFICES ASSUME NEW y \in jobs, NEW w \in jobs,
                      webWorkflowScanner(y.scanner), webWorkflowScanner(w.scanner),
                      w.target = y.target, w.context = y.context,
                      StageOf(w) \in Earlier(StageOf(y))
               PROVE \/ ID(w) \in Dependencies(jobs, y)
                     \/ \E via \in plan : /\ ID(via) \in Dependencies(jobs, y)
                                          /\ StageOf(w) \in Earlier(StageOf(via))
    BY <1>1, <1>3
  <2>1. \/ ID(w) \in Dependencies(jobs, y)
        \/ \E via \in jobs : /\ ID(via) \in Dependencies(jobs, y)
                             /\ StageOf(w) \in Earlier(StageOf(via))
    BY WaitsForEarlier
  <2> QED
    BY <1>2, <1>3, <2>1
<1>7. \A j, k \in plan :
        j.scanner = "katana" /\ k.scanner = "katana" /\ j.target = k.target => j = k
  BY <1>1, <1>3 DEF Orderable
<1> QED
  BY <1>4, <1>5, <1>6, <1>7 DEF Executable, plan
LEMMA MultipliedOrderable == ASSUME NEW d, NEW tools, Plannable(d, tools)
    PROVE Orderable(Multiplied(d, tools))
<1> DEFINE M == Multiplied(d, tools)
<1>1. \A x \in M : IsJob(x) /\ x.scanner \in Scanner
  <2> SUFFICES ASSUME NEW x \in M PROVE IsJob(x) /\ x.scanner \in Scanner
    OBVIOUS
  <2>1. IsJob(x) /\ \E j \in Begun(d, tools) : x.scanner = j.scanner
    BY MultipliedIs DEF IsJob
  <2> QED
    BY <2>1, BegunSound DEF Sound
<1>2. \A x, y \in M : ID(x) = ID(y) => x = y
  BY MultipliedUnique
<1>3. \A x, y \in M : x.scanner = "katana" /\ y.scanner = "katana" /\ x.target = y.target => x = y
  <2>1. \A x \in M : x.scanner = "katana" => x.part = "-" /\ x.context = 0
    <3> SUFFICES ASSUME NEW x \in M, x.scanner = "katana" PROVE x.part = "-" /\ x.context = 0
      OBVIOUS
    <3>1. x.context = 0
      BY MultipliedIs DEF identityRoutedScanner
    <3>2. PICK j \in Begun(d, tools) :
             x.scanner = j.scanner /\ (x.part = j.part \/ j.scanner \in TLSScanner)
      BY MultipliedIs
    <3>3. Sound(d, tools, j)
      BY BegunSound
    <3>4. x.part = "-"
      BY <3>2, <3>3 DEF Sound, TLSScanner
    <3> QED
      BY <3>1, <3>4
  <2> SUFFICES ASSUME NEW x \in M, NEW y \in M, x.scanner = "katana", y.scanner = "katana",
                      x.target = y.target
               PROVE x = y
    OBVIOUS
  <2>2. ID(x) = ID(y)
    BY <2>1 DEF ID
  <2> QED
    BY <2>2, <1>2
<1> HIDE DEF M
<1>4. Orderable(M)
  BY <1>1, <1>2, <1>3 DEF Orderable
<1> QED
  BY <1>4 DEF M

LEMMA PlanIs == ASSUME NEW d, NEW tools
    PROVE PlanAssessment(d, tools)
            = IF Blocked(d) THEN [errors |-> TRUE, decisions |-> {}, jobs |-> {}]
              ELSE [errors |-> FALSE, decisions |-> Decided(d, tools),
                    jobs |-> assignStages(Multiplied(d, tools))]
  BY DEF PlanAssessment, Decided, Multiplied, Begun

LEMMA PlanExecutable ==
    ASSUME NEW d \in Draft, NEW tools, {"auth", "apiwrites"} \subseteq tools
    PROVE Executable(PlanAssessment(d, tools).jobs)
<1>1. CASE Blocked(d)
  BY <1>1, PlanIs DEF Executable
<1>2. CASE ~ Blocked(d)
  BY <1>2, PlanIs, MultipliedOrderable, OrderedIsExecutable DEF Plannable
<1> QED
  BY <1>1, <1>2

\* What the operator allowed, of a plan without errors.
PlanApproved(d, tools, p) ==
    /\ \A j \in Runnable(p) :
         /\ j.target \in d.targets /\ j.scanner \in tools
         /\ j.context # 0 => j.context \in d.names[j.target]
         /\ StageOf(j) = "write" =>
              /\ d.testEnv /\ d.mode # "black"
              /\ <<j.scanner, j.target>> \in Approvals(d) \/ <<j.target, j.part>> \in d.fuzz
         /\ j.scanner \notin Replaced(d)
         /\ j.scanner = "subfinder" => d.subdomain
         /\ j.scanner = "auth" \/ FuzzApprovalID(j)
            \/ \E e \in p.decisions :
                 e.scanner = j.scanner /\ e.target = j.target /\ e.state \in Planned
    /\ \A e \in p.decisions : e.state \in Planned =>
         \E j \in p.jobs : j.scanner = e.scanner /\ j.target = e.target

\* Writes and campaigns are for test environments.
LEMMA WriteIsTested ==
    ASSUME NEW d, NEW tools, Plannable(d, tools), Approvals(d) # {} \/ d.fuzz # {}
    PROVE d.testEnv /\ d.mode # "black"
<1>1. CASE d.writes # {} \/ d.fuzz # {}
  <2>1. d.writes \cup {f[1] : f \in d.fuzz} # {}
    BY <1>1
  <2> QED
    BY <2>1 DEF Plannable, Blocked, WriteRefused
<1>2. CASE d.actions \cup d.boundaries # {}
  BY <1>2 DEF Plannable, Blocked, CampaignRefused
<1> QED
  BY <1>1, <1>2 DEF Approvals

LEMMA PlanIsApproved ==
    ASSUME NEW d, NEW tools, Plannable(d, tools)
    PROVE PlanApproved(d, tools, PlanAssessment(d, tools))
<1> DEFINE p == PlanAssessment(d, tools)
<1>1. p.decisions = Decided(d, tools) /\ p.jobs = assignStages(Multiplied(d, tools))
  BY PlanIs DEF Plannable
<1>2. \A x \in p.jobs : \E y \in Multiplied(d, tools) :
        /\ x.scanner = y.scanner /\ x.target = y.target /\ x.part = y.part
        /\ x.context = y.context /\ x.state = y.state
  <2>1. \A x \in p.jobs : \E y \in Multiplied(d, tools) :
           IsJob(y) /\ x = [y EXCEPT !.deps = Dependencies(Multiplied(d, tools), y)]
    BY <1>1, MultipliedIs DEF assignStages, IsJob
  <2> QED
    BY <2>1, OrderedIs
<1>3. \A y \in Multiplied(d, tools) : \E x \in p.jobs :
        x.scanner = y.scanner /\ x.target = y.target
  <2> SUFFICES ASSUME NEW y \in Multiplied(d, tools)
               PROVE \E x \in p.jobs : x.scanner = y.scanner /\ x.target = y.target
    OBVIOUS
  <2> DEFINE x == [y EXCEPT !.deps = Dependencies(Multiplied(d, tools), y)]
  <2>1. x \in p.jobs
    BY <1>1 DEF assignStages
  <2>2. x.scanner = y.scanner /\ x.target = y.target
    BY MultipliedIs, OrderedIs DEF IsJob
  <2> QED
    BY <2>1, <2>2
<1>4. ASSUME NEW e \in p.decisions, e.state \in Planned
      PROVE \E j \in p.jobs : j.scanner = e.scanner /\ j.target = e.target
  <2>1. PICK j \in Begun(d, tools) : j.scanner = e.scanner /\ j.target = e.target
    BY <1>1, <1>4, DecidedBegun
  <2>2. PICK y \in Multiplied(d, tools) : y.scanner = j.scanner /\ y.target = j.target
    BY MultipliedKeeps
  <2> QED
    BY <1>3, <2>1, <2>2
<1>5. ASSUME NEW x \in Runnable(p)
      PROVE /\ x.target \in d.targets /\ x.scanner \in tools
            /\ x.context # 0 => x.context \in d.names[x.target]
            /\ StageOf(x) = "write" =>
                 /\ d.testEnv /\ d.mode # "black"
                 /\ <<x.scanner, x.target>> \in Approvals(d) \/ <<x.target, x.part>> \in d.fuzz
            /\ x.scanner \notin Replaced(d)
            /\ x.scanner = "subfinder" => d.subdomain
            /\ x.scanner = "auth" \/ FuzzApprovalID(x)
               \/ \E e \in p.decisions :
                    e.scanner = x.scanner /\ e.target = x.target /\ e.state \in Planned
  <2>1. x \in p.jobs /\ x.state \in Planned
    BY <1>5 DEF Runnable
  <2>2. PICK y \in Multiplied(d, tools) :
           /\ x.scanner = y.scanner /\ x.target = y.target /\ x.part = y.part
           /\ x.context = y.context /\ x.state = y.state
    BY <1>2, <2>1
  <2>3. PICK j \in Begun(d, tools) :
           /\ y.scanner = j.scanner /\ y.target = j.target
           /\ y.part = j.part \/ j.scanner \in TLSScanner
           /\ y.state = j.state \/ y.state = "skipped"
    BY MultipliedIs
  <2>4. Sound(d, tools, j)
    BY BegunSound
  <2>5. x.state = j.state
    BY <2>1, <2>2, <2>3 DEF Planned
  <2>6. /\ x.scanner \in Scanner /\ x.target \in d.targets /\ x.scanner \in tools
        /\ x.scanner \notin Replaced(d) /\ (x.scanner = "subfinder" => d.subdomain)
        /\ x.scanner \in Approved => <<x.scanner, x.target>> \in Approvals(d)
    BY <2>1, <2>2, <2>3, <2>4, <2>5 DEF Sound
  <2>7. x.context # 0 => x.context \in d.names[x.target]
    BY <2>2, MultipliedIs
  <2>8. x.scanner \notin TLSScanner => x.part = j.part
    BY <2>2, <2>3
  <2>9. FuzzApprovalID(x) => <<x.target, x.part>> \in d.fuzz
    BY <2>2, <2>3, <2>4, <2>8 DEF Sound, FuzzApprovalID, TLSScanner
  <2>10. StageOf(x) = "write" =>
           <<x.scanner, x.target>> \in Approvals(d) \/ <<x.target, x.part>> \in d.fuzz
    BY <2>6, <2>9, StageIs
  <2>11. StageOf(x) = "write" => d.testEnv /\ d.mode # "black"
    BY <2>10, WriteIsTested
  <2>12. x.scanner = "auth" \/ FuzzApprovalID(x)
         \/ \E e \in p.decisions :
              e.scanner = x.scanner /\ e.target = x.target /\ e.state \in Planned
    <3>1. \/ j.scanner = "auth" \/ j.part # "-"
          \/ \E e \in Decided(d, tools) :
               e.scanner = j.scanner /\ e.target = j.target /\ e.state \in Planned
      BY <2>1, <2>5, BegunDecided
    <3>2. j.part # "-" => FuzzApprovalID(x)
      BY <2>2, <2>3, <2>4, <2>8 DEF Sound, FuzzApprovalID, TLSScanner
    <3> QED
      BY <3>1, <3>2, <1>1, <2>2, <2>3
  <2> QED
    BY <2>6, <2>7, <2>10, <2>11, <2>12
<1> HIDE DEF p
<1>6. PlanApproved(d, tools, p)
  BY <1>4, <1>5 DEF PlanApproved
<1> QED
  BY <1>6 DEF p

-----------------------------------------------------------------------------
\* A preview is a plan of some host; the started plan is one of the host as it is, and the same.
PlannedHost == {tools \in SUBSET Scanner : {"auth", "apiwrites"} \subseteq tools}

PlannerInv ==
    /\ draft \in Draft /\ edits \in 0..MaxEdits
    /\ available \in PlannedHost /\ changes \in 0..MaxChanges /\ version \in 0..changes
    /\ preview # NoPlan =>
         \E d \in Draft, tools \in PlannedHost, ver \in Nat : preview = PlanOf(d, tools, ver)
    /\ accepted # NoPlan =>
         /\ accepted = PlanOf(draft, available, version)
         /\ ~ Blocked(draft)
         /\ accepted.plan = preview.plan

LEMMA PlanOfIs == ASSUME NEW d, NEW tools, NEW ver
    PROVE /\ PlanOf(d, tools, ver).draft = d
          /\ PlanOf(d, tools, ver).plan = PlanAssessment(d, tools)
          /\ PlanOf(d, tools, ver).fingerprint = planFingerprint(d, PlanAssessment(d, tools), ver)
  BY DEF PlanOf

LEMMA HostPlans == ASSUME NEW tools \in PlannedHost, NEW d \in Draft, ~ Blocked(d)
    PROVE Plannable(d, tools)
  BY DEF PlannedHost, Plannable

LEMMA PlannerInvHonours == ASSUME PlannerInv PROVE PlanIsHonoured
<1>1. PlanIsExecutable
  <2> SUFFICES ASSUME preview # NoPlan PROVE Executable(preview.plan.jobs)
    BY DEF PlanIsExecutable
  <2>1. PICK d \in Draft, tools \in PlannedHost, ver \in Nat : preview = PlanOf(d, tools, ver)
    BY DEF PlannerInv
  <2>2. preview.plan = PlanAssessment(d, tools)
    BY <2>1, PlanOfIs
  <2> QED
    BY <2>2, PlanExecutable DEF PlannedHost
<1>2. StartIsApproved
  <2> SUFFICES ASSUME accepted # NoPlan PROVE StartIsApproved
    BY DEF StartIsApproved
  <2>1. accepted.draft = draft /\ accepted.plan = PlanAssessment(draft, available)
    BY PlanOfIs DEF PlannerInv
  <2>2. PlanApproved(draft, available, accepted.plan)
    BY <2>1, HostPlans, PlanIsApproved DEF PlannerInv
  <2>3. accepted.plan = preview.plan
    BY DEF PlannerInv
  <2> HIDE DEF PlannerInv
  <2> QED
    BY <2>1, <2>2, <2>3 DEF StartIsApproved, PlanApproved
<1> QED
  BY <1>1, <1>2 DEF PlanIsHonoured

LEMMA PlannerInitially == ASSUME PlannerInit PROVE PlannerInv
  BY PlannerAssumption
  DEF PlannerInit, PlannerStartsFrom, PlannerInv, PlannedHost, Scanner, WorkflowScanner

LEMMA PlannerEdits == ASSUME PlannerInv, NEW d \in Draft, Edit(d) PROVE PlannerInv'
<1>1. /\ accepted = NoPlan /\ edits < MaxEdits /\ draft' = d /\ edits' = edits + 1
      /\ preview' = NoPlan /\ available' = available /\ version' = version
      /\ changes' = changes /\ accepted' = accepted
  BY DEF Edit
<1> QED
  BY <1>1, PlannerAssumption DEF PlannerInv

\* What the operator can make of a draft is a draft.
LEMMA EditIsDraft == ASSUME NEW x \in Draft PROVE
    /\ \A t \in Target : [x EXCEPT !.targets = IF t \in @ THEN @ \ {t} ELSE @ \cup {t}] \in Draft
    /\ \A t \in Type : [x EXCEPT !.types = IF t \in @ THEN @ \ {t} ELSE @ \cup {t}] \in Draft
    /\ [x EXCEPT !.mode = IF @ = "black" THEN "gray" ELSE "black"] \in Draft
    /\ [x EXCEPT !.testEnv = ~ @] \in Draft
    /\ [x EXCEPT !.unified = ~ @] \in Draft
    /\ [x EXCEPT !.deep = ~ @] \in Draft
    /\ \A t \in Target, n \in 0..2 :
         [x EXCEPT !.names[t] = IF n \in @ THEN @ \ {n} ELSE @ \cup {n}] \in Draft
    /\ [x EXCEPT !.writes = {}] \in Draft
    /\ [x EXCEPT !.fuzz = {}] \in Draft
    /\ [x EXCEPT !.actions = {}] \in Draft
    /\ [x EXCEPT !.boundaries = {}] \in Draft
    /\ [x EXCEPT !.custom = ~ @] \in Draft
    /\ \A p \in {"none", "testssl", "sslyze"} : [x EXCEPT !.tls = p] \in Draft
    /\ [x EXCEPT !.subdomain = ~ @] \in Draft
    /\ \A p \in {{}, {"amass"}, {"subfinder", "amass"}} : [x EXCEPT !.providers = p] \in Draft
<1>1. \A t \in Target : [x EXCEPT !.targets = IF t \in @ THEN @ \ {t} ELSE @ \cup {t}] \in Draft
  BY DEF Draft
<1>2. \A t \in Type : [x EXCEPT !.types = IF t \in @ THEN @ \ {t} ELSE @ \cup {t}] \in Draft
  BY DEF Draft
<1>3. [x EXCEPT !.mode = IF @ = "black" THEN "gray" ELSE "black"] \in Draft
  BY DEF Draft
<1>4. [x EXCEPT !.testEnv = ~ @] \in Draft
  BY DEF Draft
<1>5. [x EXCEPT !.unified = ~ @] \in Draft
  BY DEF Draft
<1>6. [x EXCEPT !.deep = ~ @] \in Draft
  BY DEF Draft
<1>7. \A t \in Target, n \in 0..2 :
         [x EXCEPT !.names[t] = IF n \in @ THEN @ \ {n} ELSE @ \cup {n}] \in Draft
  <2> SUFFICES ASSUME NEW t \in Target, NEW n \in 0..2
               PROVE [x EXCEPT !.names[t] = IF n \in @ THEN @ \ {n} ELSE @ \cup {n}] \in Draft
    OBVIOUS
  <2> DEFINE bound == [x.names EXCEPT ![t] = IF n \in @ THEN @ \ {n} ELSE @ \cup {n}]
  <2>1. bound \in [Target -> SUBSET (0..2)]
    BY DEF Draft
  <2>2. [x EXCEPT !.names[t] = IF n \in @ THEN @ \ {n} ELSE @ \cup {n}]
          = [x EXCEPT !.names = bound]
    BY DEF Draft
  <2> HIDE DEF bound
  <2>3. [x EXCEPT !.names = bound] \in Draft
    BY <2>1 DEF Draft
  <2> QED
    BY <2>2, <2>3
<1>8. /\ [x EXCEPT !.writes = {}] \in Draft
      /\ [x EXCEPT !.fuzz = {}] \in Draft
  BY DEF Draft
<1>9. /\ [x EXCEPT !.actions = {}] \in Draft
      /\ [x EXCEPT !.boundaries = {}] \in Draft
  BY DEF Draft
<1>10. [x EXCEPT !.custom = ~ @] \in Draft
  BY DEF Draft
<1>11. \A p \in {"none", "testssl", "sslyze"} : [x EXCEPT !.tls = p] \in Draft
  BY DEF Draft
<1>12. [x EXCEPT !.subdomain = ~ @] \in Draft
  BY DEF Draft
<1>13. \A p \in {{}, {"amass"}, {"subfinder", "amass"}} : [x EXCEPT !.providers = p] \in Draft
  BY DEF Draft
<1> QED
  BY <1>1, <1>2, <1>3, <1>4, <1>5, <1>6, <1>7, <1>8, <1>9, <1>10, <1>11, <1>12, <1>13

LEMMA PlannerStarts == ASSUME PlannerInv, StartPlan PROVE PlannerInv'
<1> DEFINE now == PlanOf(draft, available, version)
<1>1. /\ ~ now.plan.errors /\ preview # NoPlan /\ now.fingerprint = preview.fingerprint
      /\ Runnable(now.plan) # {} /\ accepted' = now
      /\ draft' = draft /\ edits' = edits /\ available' = available /\ version' = version
      /\ changes' = changes /\ preview' = preview
  BY DEF StartPlan
<1>2. PICK d \in Draft, tools \in PlannedHost, ver \in Nat : preview = PlanOf(d, tools, ver)
  BY <1>1 DEF PlannerInv
<1>3. now.plan = PlanAssessment(draft, available) /\ preview.plan = PlanAssessment(d, tools)
  BY <1>2, PlanOfIs
<1>4. ~ Blocked(draft)
  BY <1>1, <1>3, PlanIs
<1>5. /\ now.plan.decisions = preview.plan.decisions
      /\ now.plan.jobs = preview.plan.jobs
      /\ d = draft
  BY <1>1, <1>2, <1>3, PlanOfIs DEF planFingerprint
<1>6. now.plan = preview.plan
  <2>1. \A t : PlanAssessment(draft, t) = [errors |-> FALSE, decisions |-> Decided(draft, t),
                                         jobs |-> assignStages(Multiplied(draft, t))]
    BY <1>4, PlanIs
  <2> HIDE DEF now
  <2>2. now.plan = [errors |-> FALSE, decisions |-> now.plan.decisions, jobs |-> now.plan.jobs]
    BY <2>1, <1>3
  <2>3. preview.plan = PlanAssessment(draft, tools)
    BY <1>3, <1>5
  <2>4. preview.plan = [errors |-> FALSE, decisions |-> preview.plan.decisions,
                        jobs |-> preview.plan.jobs]
    BY <2>1, <2>3
  <2> QED
    BY <2>2, <2>4, <1>5
<1> HIDE DEF now
<1>7. accepted' = PlanOf(draft', available', version') /\ accepted'.plan = preview'.plan
  BY <1>1, <1>6 DEF now
<1> QED
  BY <1>1, <1>4, <1>7 DEF PlannerInv

LEMMA PlannerStep == ASSUME PlannerInv, [PlannerNext]_plannerVars PROVE PlannerInv'
<1>0. draft \in Draft
  BY DEF PlannerInv
<1>1. CASE EditScope
  BY <1>0, <1>1, EditIsDraft, PlannerEdits DEF EditScope
<1>2. CASE EditTypes
  BY <1>0, <1>2, EditIsDraft, PlannerEdits DEF EditTypes
<1>3. CASE EditPolicy
  BY <1>0, <1>3, EditIsDraft, PlannerEdits DEF EditPolicy
<1>4. CASE EditAccess
  BY <1>0, <1>4, EditIsDraft, PlannerEdits DEF EditAccess
<1>5. CASE EditApprovals
  BY <1>0, <1>5, EditIsDraft, PlannerEdits DEF EditApprovals
<1>6. CASE EditSelection
  BY <1>0, <1>6, EditIsDraft, PlannerEdits DEF EditSelection
<1>7. CASE HostChanges
  <2>1. /\ accepted = NoPlan /\ accepted' = accepted /\ draft' = draft /\ edits' = edits
        /\ preview' = preview /\ changes < MaxChanges /\ changes' = changes + 1
    BY <1>7 DEF HostChanges
  <2>2. available' \in PlannedHost
    BY <1>7 DEF HostChanges, PlannerInv, PlannedHost
  <2>3. version' \in 0..changes'
    BY <1>7, <2>1, PlannerAssumption DEF HostChanges, PlannerInv
  <2> QED
    BY <2>1, <2>2, <2>3, PlannerAssumption DEF PlannerInv
<1>8. CASE PreviewPlan
  <2>1. /\ accepted = NoPlan /\ accepted' = accepted /\ draft' = draft /\ edits' = edits
        /\ available' = available /\ version' = version /\ changes' = changes
        /\ preview' = PlanOf(draft, available, version)
    BY <1>8 DEF PreviewPlan
  <2>2. draft \in Draft /\ available \in PlannedHost /\ version \in Nat
    BY PlannerAssumption DEF PlannerInv
  <2> QED
    BY <2>1, <2>2 DEF PlannerInv
<1>9. CASE StartPlan
  BY <1>9, PlannerStarts
<1>10. CASE UNCHANGED plannerVars
  BY <1>10 DEF plannerVars, PlannerInv
<1> QED
  BY <1>1, <1>2, <1>3, <1>4, <1>5, <1>6, <1>7, <1>8, <1>9, <1>10 DEF PlannerNext

\* Whatever the operator edits and however the host changes between a preview and a start, the
\* executor can go through each plan once, and the started plan is what was seen and allowed
\* (PlanAssessment, handleAssessmentPlan, handleScan).
THEOREM PlanHolds == PlannerSpec => []PlanIsHonoured
<1>1. PlannerInit => PlannerInv
  BY PlannerInitially
<1>2. PlannerInv /\ [PlannerNext]_plannerVars => PlannerInv'
  BY PlannerStep
<1>3. PlannerInv => PlanIsHonoured
  BY PlannerInvHonours
<1> QED
  BY <1>1, <1>2, <1>3, PTL DEF PlannerSpec
=============================================================================
