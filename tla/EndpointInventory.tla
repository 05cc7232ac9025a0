------------------------- MODULE EndpointInventory -------------------------
(***************************************************************************)
(* The endpoint inventory of one target (attack_surface.go) through the    *)
(* sessions of an assessment: what discovery merges into it, what each job *)
(* is sent, what the coverage ledger then claims, and what a later session *)
(* finds in the snapshot.  An endpoint stands for its identity (method,    *)
(* URL, parameters, authentication context); Traits holds what follows     *)
(* from that identity and from the approved scope.  Each source has one    *)
(* row for an identity, its parser having merged the others; a session     *)
(* sees one of the results each source may have.                           *)
(*                                                                         *)
(* The inventory is a list in the code.  Its order decides only which      *)
(* endpoints a dispatch takes when there are more than its limits allow,   *)
(* and is left open here.                                                  *)
(***************************************************************************)
EXTENDS Naturals, Sequences, FiniteSets

CONSTANTS
    Traits,        \* per identity: verdict, static, get, context, own, sensitive, body, twin
    Crawl,         \* what a crawl may report: sets of identities
    Browser,       \* what the browser may add, by identity
    Supplement,    \* what the supplemental discovery with ZAP may add
    Seed,          \* the target itself, merged without a state
    Schema,        \* the operations of the API definitions: whether an identity is resolved
    Archive,       \* what archives and build manifests may add, by identity
    Store,         \* how the encrypted replay store behaves during discovery
    JobSeq,        \* the plan's jobs, in order: scanner, context
    Cap,           \* the assessment-wide cap on unique endpoints
    Limit,         \* the limit of one dispatch
    MaxInventories \* bound of the sessions

VARIABLES
    inventory,   \* the session's endpoints, by identity
    snapshot,    \* the saved inventory, empty when there is none
    basis,       \* what the session's inventory was built from
    phase, job,  \* the session's place in the plan
    outcome,     \* per job, its last outcome
    sent,        \* per attempt, the requests its input manifest selected
    reserved,    \* the endpoints granted by this process's budget
    inventories, \* the sessions so far
    reused,      \* attempts whose outcome a later session took over
    lapsed       \* scanners whose dispatch was not followed by a verdict

inventoryVars ==
    <<inventory, snapshot, basis, phase, job, outcome, sent, reserved, inventories, reused, lapsed>>

None == "none"
Variant == DOMAIN Traits
Scanner == {JobSeq[j].scanner : j \in DOMAIN JobSeq}
NoCoverage == [s \in Scanner |-> [status |-> None, attempt |-> 0]]
Empty == [id \in {} |-> None]

-----------------------------------------------------------------------------
\* One row, and the merge of a source's rows into the inventory

\* The states that only a candidate from an archive or a build manifest has.
Unverified == {"historical_unverified", "unreachable", "unauthorized"}
Dispatchable(state) == state \in {"", "in_scope"}

Row(state, seen, replay) ==
    [state |-> state, seen |-> seen, replay |-> replay, redacted |-> FALSE, live |-> TRUE,
     coverage |-> NoCoverage]

\* The verdict of the scope, stamped on a row when it is parsed.
Stamp(id) ==
    IF Traits[id].verdict = "in_scope" /\ Traits[id].static THEN "static" ELSE Traits[id].verdict

\* Mutant of RefusalIsKept: what was seen last decides.
LatestState(old, new) == IF new # "" THEN new ELSE old

\* A refusal wins over a permission, and the first refusal stays.
MergedState(old, new) ==
    IF new # "" /\ (old = "" \/ (Dispatchable(old) /\ ~Dispatchable(new))) THEN new ELSE old

MergedRow(old, new) ==
    [old EXCEPT !.state = MergedState(@, new.state),
                !.seen = IF new.seen = "observed" THEN "observed" ELSE @,
                !.replay = @ \/ new.replay,
                !.live = @ \/ new.live]

Merge(inv, rows) ==
    [id \in DOMAIN inv \cup DOMAIN rows |->
        CASE id \notin DOMAIN inv -> rows[id]
          [] id \notin DOMAIN rows -> inv[id]
          [] OTHER -> MergedRow(inv[id], rows[id])]

Crawled(found) == [id \in found |-> Row(Stamp(id), "observed", FALSE)]

\* Trusted native rows: without its encrypted replay a redacted request cannot be sent.
Native(rows) ==
    [id \in DOMAIN rows |->
        Row(IF /\ Dispatchable(Stamp(id))
               /\ rows[id].seen = "candidate" \/ (~rows[id].replay /\ Traits[id].sensitive)
            THEN "unmaterialized" ELSE Stamp(id),
            rows[id].seen, rows[id].replay)]

Operations ==
    [id \in DOMAIN Schema |->
        Row(IF Stamp(id) = "in_scope" /\ ~Schema[id] THEN "unmaterialized" ELSE Stamp(id),
            "schema", FALSE)]

\* The resolved read operations, once more for each configured identity.
IdentitySeeds(inv) ==
    LET seeds == {id \in DOMAIN inv :
            /\ inv[id].seen = "schema" /\ inv[id].state = "in_scope"
            /\ Traits[id].context = "" /\ Traits[id].get /\ Traits[id].own
            /\ Traits[id].twin # None}
    IN  [id \in {Traits[s].twin : s \in seeds} \ DOMAIN inv |-> Row("in_scope", "schema", FALSE)]

\* A candidate does not change what is already dispatchable.
Archived(inv, rows) ==
    [id \in DOMAIN rows |->
        [Row(IF id \in DOMAIN inv /\ Dispatchable(inv[id].state) THEN inv[id].state
             ELSE rows[id].state, rows[id].seen, FALSE) EXCEPT !.live = FALSE]]

\* Sensitive requests get an encrypted replay; one with a body needs its original.
Sealed(inv, stored) ==
    [id \in DOMAIN inv |->
        IF inv[id].replay \/ inv[id].redacted \/ ~Traits[id].sensitive THEN inv[id]
        ELSE IF stored /\ ~Traits[id].body THEN [inv[id] EXCEPT !.replay = TRUE]
        ELSE [inv[id] EXCEPT !.state = "unmaterialized"]]

\* A replay that cannot be read refuses its request until it can be read again.
Hydrated(inv, readable) ==
    [id \in DOMAIN inv |->
        IF ~inv[id].replay THEN inv[id]
        ELSE IF ~readable THEN [inv[id] EXCEPT !.state = "lost"]
        ELSE [inv[id] EXCEPT !.state = IF @ = "lost" THEN "in_scope" ELSE @,
                             !.redacted = FALSE]]

\* The snapshot holds no sensitive URL, nor a permission to send it without its replay.
Redacted(inv) ==
    [id \in DOMAIN inv |->
        IF ~Traits[id].sensitive THEN inv[id]
        ELSE [inv[id] EXCEPT !.redacted = TRUE,
                             !.state = IF inv[id].replay \/ inv[id].redacted THEN @
                                       ELSE "unmaterialized"]]

-----------------------------------------------------------------------------
\* The dispatch gate, the input manifest and the coverage ledger

\* Mutant of DispatchIsHonest: the state of a row stands for the scope.
EligibleByState(ep, id, j) ==
    /\ Dispatchable(ep.state)
    /\ Traits[id].get \/ (j.scanner = "zap" /\ ep.replay)
    /\ ~Traits[id].static
    /\ Traits[id].context \in {"", j.context}

Eligible(ep, id, j) ==
    /\ Dispatchable(ep.state)
    /\ Traits[id].verdict = "in_scope"
    /\ Traits[id].get \/ (j.scanner = "zap" /\ ep.replay)
    /\ ~Traits[id].static
    /\ Traits[id].context \in {"", j.context}

\* A job with an identity passes over the endpoints of others.
Considered(j) == {id \in DOMAIN inventory : j.context \in {"", Traits[id].context}}

\* Who may be granted a place: as many as the limit of the dispatch and the cap leave room for.
Grants(j) ==
    LET eligible == {id \in Considered(j) : Eligible(inventory[id], id, j)}
        full(granted, id) ==
            \/ Cardinality(granted) = Limit
            \/ id \notin reserved /\ Cardinality(reserved \cup granted) = Cap
    IN  {granted \in SUBSET eligible :
            /\ Cardinality(granted) <= Limit /\ Cardinality(reserved \cup granted) <= Cap
            /\ \A id \in eligible \ granted : full(granted, id)}

\* DispatchTargets: every decision is in the ledger.
DispatchTargets(j, granted) ==
    [id \in DOMAIN inventory |->
        IF id \notin Considered(j) THEN inventory[id]
        ELSE [inventory[id] EXCEPT !.coverage[j.scanner] =
                [status |-> IF id \in granted THEN "dispatched" ELSE "skipped", attempt |-> 0]]]

\* A request with credentials goes to the origin they are bound to.
Constrained(inv, j) ==
    [id \in DOMAIN inv |->
        IF /\ j.context # "" /\ Traits[id].context = j.context /\ ~Traits[id].own
           /\ inv[id].coverage[j.scanner].status = "dispatched"
        THEN [inv[id] EXCEPT !.coverage[j.scanner].status = "skipped"]
        ELSE inv[id]]

\* The requests the manifest of an attempt selects.
Manifest(inv, j) ==
    {id \in DOMAIN inv :
        inv[id].coverage[j.scanner].status = "dispatched" /\ Traits[id].context = j.context}

\* The outcome of a run, on every endpoint dispatched to its scanner.
Complete(inv, j, run) ==
    [id \in DOMAIN inv |->
        IF inv[id].coverage[j.scanner].status # "dispatched" THEN inv[id]
        ELSE [inv[id] EXCEPT !.coverage[j.scanner] =
                [status |-> IF run.status = "completed" THEN "batch_completed" ELSE "failed",
                 attempt |-> run.attempt]]]

-----------------------------------------------------------------------------
InventoryInit ==
    /\ inventory = Empty /\ snapshot = Empty /\ basis = None
    /\ phase = "idle" /\ job = 1
    /\ outcome = [j \in DOMAIN JobSeq |-> [status |-> None, attempt |-> 0]]
    /\ sent = <<>> /\ reserved = {} /\ inventories = 0
    /\ reused = {} /\ lapsed = {}

CurrentJob == JobSeq[job]
Save(inv) == snapshot' = Redacted(inv)

\* The sources in the order in which the session merges them.
Discovered(base, found, native) ==
    LET crawled == Merge(Merge(base, Crawled(found)), Native(native))
        seeded  == Merge(crawled, [id \in {Seed} |-> Row("", "seed", FALSE)])
        schemed == Merge(seeded, Operations)
    IN  Merge(schemed, IdentitySeeds(schemed))

Built(base, found, native, extra, archived, store) ==
    LET known  == Hydrated(Sealed(Discovered(base, found, native), store.writes), store.early)
        zapped == Merge(known, Native(extra))
        merged == Merge(zapped, Archived(zapped, archived))
    IN  Hydrated(Sealed(merged, store.writes), store.late)

\* A session takes the snapshot over, or builds its inventory from a new crawl.
Prepare ==
    /\ phase = "idle" /\ inventories < MaxInventories
    /\ \E native \in Browser, extra \in Supplement, archived \in Archive, store \in Store :
        \/ /\ snapshot # Empty
           /\ basis' = "snapshot"
           /\ inventory' = Built(snapshot, {}, native, extra, archived, store)
        \/ \E found \in Crawl :
           /\ basis' = "crawl"
           /\ inventory' = Built(Empty, found, native, extra, archived, store)
    /\ Save(inventory')
    /\ phase' = "ready" /\ job' = 1 /\ reserved' = {} /\ inventories' = inventories + 1
    /\ UNCHANGED <<outcome, sent, reused, lapsed>>

Conclude(run) ==
    /\ outcome' = [outcome EXCEPT ![job] = run]
    /\ job' = job + 1 /\ phase' = "ready"

\* A prerequisite of the job failed, or its session is not verified: nothing is sent.
Block ==
    /\ phase = "ready" /\ job \in DOMAIN JobSeq /\ outcome[job].status # "completed"
    /\ Conclude([status |-> "skipped", attempt |-> 0])
    /\ Save(inventory)
    /\ UNCHANGED <<inventory, basis, sent, reserved, inventories, reused, lapsed>>

\* A completed outcome of an earlier session stands for the job.
Reuse ==
    /\ phase = "ready" /\ job \in DOMAIN JobSeq /\ outcome[job].status = "completed"
    /\ \E granted \in Grants(CurrentJob) :
        /\ inventory' = Complete(DispatchTargets(CurrentJob, granted), CurrentJob, outcome[job])
        /\ reserved' = reserved \cup granted
    /\ reused' = reused \cup {outcome[job].attempt}
    /\ Save(inventory')
    /\ Conclude(outcome[job])
    /\ UNCHANGED <<basis, sent, inventories, lapsed>>

Dispatch ==
    /\ phase = "ready" /\ job \in DOMAIN JobSeq /\ outcome[job].status # "completed"
    /\ \E granted \in Grants(CurrentJob) :
        /\ inventory' = Constrained(DispatchTargets(CurrentJob, granted), CurrentJob)
        /\ reserved' = reserved \cup granted
    /\ Save(inventory')
    /\ phase' = "dispatched"
    /\ UNCHANGED <<basis, job, outcome, sent, inventories, reused, lapsed>>

\* Cancelled, or the attempt's directory or manifest could not be written.
Unstarted ==
    /\ phase = "dispatched"
    /\ Conclude([status |-> "failed", attempt |-> 0])
    /\ lapsed' = lapsed \cup {CurrentJob.scanner}
    /\ Save(inventory)
    /\ UNCHANGED <<inventory, basis, sent, reserved, inventories, reused>>

StartAttempt ==
    /\ phase = "dispatched"
    /\ sent' = Append(sent, Manifest(inventory, CurrentJob))
    /\ phase' = "running"
    /\ UNCHANGED <<inventory, snapshot, basis, job, outcome, reserved, inventories, reused, lapsed>>

\* The verdict on an attempt.
JudgeAttempt ==
    /\ phase = "running"
    /\ \E status \in {"completed", "cancelled"} :
        LET run == [status |-> status, attempt |-> Len(sent)] IN
        /\ inventory' = Complete(inventory, CurrentJob, run)
        /\ Conclude(run)
    /\ Save(inventory')
    /\ UNCHANGED <<basis, sent, reserved, inventories, reused, lapsed>>

\* The session ends, after its last job or anywhere before it.
EndSession ==
    /\ phase # "idle"
    /\ lapsed' = IF phase \in {"dispatched", "running"}
                 THEN lapsed \cup {CurrentJob.scanner} ELSE lapsed
    /\ phase' = "idle" /\ inventory' = Empty /\ job' = 1 /\ basis' = None /\ reserved' = {}
    /\ UNCHANGED <<snapshot, outcome, sent, inventories, reused>>

InventoryNext ==
    Prepare \/ Block \/ Reuse \/ Dispatch \/ Unstarted \/ StartAttempt \/ JudgeAttempt
    \/ EndSession

InventorySpec == InventoryInit /\ [][InventoryNext]_inventoryVars

-----------------------------------------------------------------------------
Refusal == {"out_of_scope", "excluded", "static", "unmaterialized", "lost"} \cup Unverified

Endpoint ==
    [state : {"", "in_scope"} \cup Refusal, seen : {"observed", "candidate", "seed", "schema"},
     replay : BOOLEAN, redacted : BOOLEAN, live : BOOLEAN,
     coverage : [Scanner -> [status : {None, "dispatched", "skipped", "batch_completed", "failed"},
                             attempt : 0..Len(sent)]]]

\* What a scope says of an identity, what sources report, and what a plan has.
ASSUME InventoryAssumption ==
    /\ IsFiniteSet(Variant) /\ Seed \in Variant
    /\ \A id \in Variant :
        /\ Traits[id].verdict \in {"in_scope", "out_of_scope", "excluded"}
        /\ Traits[id].static \in BOOLEAN /\ Traits[id].twin \in Variant \cup {None}
    /\ Crawl \subseteq SUBSET Variant /\ DOMAIN Schema \subseteq Variant
    /\ \A rows \in Browser \cup Supplement \cup Archive : DOMAIN rows \subseteq Variant
    /\ \A rows \in Browser \cup Supplement : \A id \in DOMAIN rows :
        rows[id] \in [seen : {"observed", "candidate"}, replay : BOOLEAN]
    /\ \A rows \in Archive : \A id \in DOMAIN rows :
        rows[id] \in [seen : {"observed", "candidate"},
                     state : {"in_scope", "out_of_scope", "excluded"} \cup Unverified]
    /\ Store \subseteq [writes : BOOLEAN, early : BOOLEAN, late : BOOLEAN]
    /\ JobSeq \in Seq({JobSeq[j] : j \in DOMAIN JobSeq})
    /\ Cap \in Nat \ {0} /\ Limit \in Nat \ {0} /\ MaxInventories \in Nat

InventoryTypeOK ==
    /\ \A inv \in {inventory, snapshot} :
        /\ DOMAIN inv \subseteq Variant
        /\ \A id \in DOMAIN inv : inv[id] \in Endpoint
    /\ basis \in {None, "crawl", "snapshot"}
    /\ phase \in {"idle", "ready", "dispatched", "running"}
    /\ job \in 1..(Len(JobSeq) + 1) /\ inventories \in 0..MaxInventories
    /\ \A a \in DOMAIN sent : sent[a] \subseteq Variant
    /\ reserved \subseteq Variant /\ lapsed \subseteq Scanner

\* What a job is about to be sent is inside the approved scope, in its own identity's
\* requests and on the origin its credentials are bound to, under its real URL, and
\* within the unique endpoints granted to the whole session.  The states alone do not
\* give this: seeds carry none, and a replay that becomes readable again lifts whatever
\* refusal it had replaced.
DispatchIsConfined ==
    /\ Cardinality(reserved) <= Cap
    /\ phase = "dispatched" =>
        \A id \in Manifest(inventory, CurrentJob) :
            /\ Traits[id].verdict = "in_scope" /\ ~Traits[id].static
            /\ CurrentJob.context # "" => Traits[id].own
            /\ ~inventory[id].redacted
            /\ id \in reserved

RefusedIn(inv) == {id \in DOMAIN inv : ~Dispatchable(inv[id].state)}
ReplayIn(inv) == {id \in DOMAIN inv : inv[id].replay}

\* No later observation lifts a refusal, unless a replay of the request is kept; a job
\* changes no permission; and a candidate from an archive does not refuse what another
\* source of the session has found, unless it was refused before the session.
RefusalIsKept ==
    [][/\ basis' = "snapshot" =>
            RefusedIn(IF phase = "idle" THEN snapshot ELSE inventory) \ ReplayIn(inventory')
                \subseteq RefusedIn(inventory')
       /\ (phase # "idle" /\ phase' # "idle") => RefusedIn(inventory) = RefusedIn(inventory')
       /\ \A id \in DOMAIN inventory' :
            inventory'[id].live /\ inventory'[id].state \in Unverified =>
                basis' = "snapshot" /\ id \in RefusedIn(snapshot)
      ]_inventoryVars

\* Whether the ledger credits an endpoint to a completed run that was not sent it.
Unearned(id, s) ==
    LET credit == inventory[id].coverage[s] IN
    credit.status = "batch_completed" /\ id \notin sent[credit.attempt]

\* An endpoint is credited to a completed run only if that run was sent it, unless the
\* outcome was taken over by a later session or an earlier dispatch stayed without a
\* verdict.
EarnedUnlessTakenOver ==
    \A id \in DOMAIN inventory, s \in Scanner :
        Unearned(id, s) => inventory[id].coverage[s].attempt \in reused \/ s \in lapsed

\* An endpoint is credited to a completed run only if that run was sent it.
CoverageIsEarned == \A id \in DOMAIN inventory, s \in Scanner : ~Unearned(id, s)

\* What a job is sent is inside the approved scope, in its own identity's requests and within the
\* budget; and an endpoint credited to a completed run was sent to it, unless a later session or
\* an unfinished dispatch took the outcome over (attack_surface.go).
DispatchIsHonest == DispatchIsConfined /\ EarnedUnlessTakenOver
=============================================================================
