----------------------------- MODULE RecordStore -----------------------------
(***************************************************************************)
(* One record with a copy in the data directory and a copy in Postgres:    *)
(* a credential of the vault, the record of an assessment or of an older   *)
(* kind of scan, or a schedule.  Records do not touch each other, so one   *)
(* of any kind stands for all.  Writers work on it in steps; each store    *)
(* may fail, and the process may be started with or without Postgres.      *)
(***************************************************************************)
EXTENDS Naturals

CONSTANTS
    Workers,     \* by kind ("credential", "assessment", "scan", "schedule"): concurrent requests
    MaxWrites, MaxFaults, MaxStarts

\* What a copy holds: the revision (of a credential) and the write that made it.
Absent == [rev |-> 0, write |-> 0]

VARIABLES
    kind,
    file, row,       \* the two copies
    mode,            \* "files" or "both", decided once by each process
    worker,
    writes,          \* writes begun so far
    acknowledged,    \* contents whose write was answered with success
    last,            \* the last success: "none", "put" or "delete"; "deleting" if it is half done,
                     \* "again" if a write has begun to bring back what was deleted
    causes,          \* what happened that the code does not guard against
    faults, starts

Kinds == DOMAIN Workers
Worker == Workers[kind]

recordVars == <<kind, file, row, mode, worker, writes, acknowledged, last, causes, faults, starts>>

AtRest == [op |-> "idle", at |-> "-", content |-> Absent]
Busy == {w \in Worker : worker[w] # AtRest}

\* What a reader finds: Postgres first, the files when it is not used or not reachable.  Only
\* the vault also falls back when the row is missing.
Served(reachable) ==
    IF mode = "both" /\ reachable /\ (kind # "credential" \/ row # Absent) THEN row ELSE file

-----------------------------------------------------------------------------
RecordStartsFrom(k, m) ==
    /\ kind = k /\ mode = m
    /\ file = Absent /\ row = Absent
    /\ worker = [w \in Workers[k] |-> AtRest]
    /\ writes = 0 /\ acknowledged = {} /\ last = "none" /\ causes = {}
    /\ faults = 0 /\ starts = 1

RecordInit == \E k \in Kinds, m \in {"files", "both"} : RecordStartsFrom(k, m)

Blame(cause) == causes' = causes \cup {cause}

Fault == faults < MaxFaults /\ faults' = faults + 1
NoFault == UNCHANGED faults

Goto(w, at, content) == worker' = [worker EXCEPT ![w].at = at, ![w].content = content]
Finish(w) == worker' = [worker EXCEPT ![w] = AtRest]

Ops == IF kind \in {"assessment", "scan"} THEN {"put", "delete", "retire", "folder"}
       ELSE {"put", "delete"}

\* A request, a session or the sweep begins; a schedule's and a scan's writer holds the record.
BeginOn(w, op) ==
    /\ worker[w] = AtRest /\ op \in Ops
    /\ worker' = [worker EXCEPT ![w] =
            [op |-> op, at |-> IF op = "put" THEN "read" ELSE "file", content |-> Absent]]
    /\ causes' = IF Busy # {} THEN causes \cup {"overlap"} ELSE causes
    /\ UNCHANGED <<kind, file, row, mode, writes, acknowledged, last, faults, starts>>

\* Only the vault counts revisions, from the content it has just read.
WrittenUncounted(old) ==
    [rev |-> IF kind # "credential" THEN 0 ELSE IF old = Absent THEN 1 ELSE old.rev,
     write |-> writes + 1]

Written(old) ==
    [rev |-> IF kind = "credential" THEN old.rev + 1 ELSE 0, write |-> writes + 1]

\* Vault.Create without, and Vault.Replace with an old revision.  The other kinds are written
\* from memory.
Read(w) ==
    /\ worker[w].op = "put" /\ worker[w].at = "read" /\ writes < MaxWrites
    /\ \E reachable \in BOOLEAN :
        /\ IF reachable THEN NoFault ELSE mode = "both" /\ Fault
        /\ LET old == Served(reachable)
               found == kind # "credential" \/ old # Absent \/ writes = 0 IN
           IF found
           THEN /\ writes' = writes + 1
                /\ Goto(w, "file", Written(old))
           ELSE Finish(w) /\ UNCHANGED writes
    /\ UNCHANGED <<kind, file, row, mode, acknowledged, last, causes, starts>>

Acknowledge(content) == acknowledged' = acknowledged \cup {content} /\ last' = "put"

\* The file first.  A session goes on when it cannot be written.
PutFile(w) ==
    /\ worker[w].op = "put" /\ worker[w].at = "file"
    /\ \/ /\ file' = worker[w].content /\ NoFault
          /\ causes' = IF mode = "both" THEN causes
                       ELSE causes \cup {IF row = Absent THEN "filesOnly" ELSE "outdated"}
          /\ IF mode = "both"
             THEN /\ Goto(w, "row", worker[w].content) /\ UNCHANGED acknowledged
                  /\ last' = IF last = "delete" THEN "again" ELSE last
             ELSE Finish(w) /\ Acknowledge(worker[w].content)
       \/ /\ Fault /\ UNCHANGED <<file, acknowledged, last>>
          /\ IF kind \in {"assessment", "scan"}
             THEN /\ Blame("fileLost")
                  /\ IF mode = "both" THEN Goto(w, "row", worker[w].content) ELSE Finish(w)
             ELSE Finish(w) /\ UNCHANGED causes
    /\ UNCHANGED <<kind, row, mode, writes, starts>>

\* The row second.  The vault reports its failure, a mirror only logs it.
PutRow(w) ==
    /\ worker[w].op = "put" /\ worker[w].at = "row"
    /\ \/ /\ row' = worker[w].content /\ NoFault
          /\ Acknowledge(worker[w].content) /\ UNCHANGED causes
       \/ /\ Fault /\ UNCHANGED row
          /\ IF kind = "credential"
             THEN Blame("reported") /\ UNCHANGED <<acknowledged, last>>
             ELSE Blame("mirror") /\ Acknowledge(worker[w].content)
    /\ Finish(w)
    /\ UNCHANGED <<kind, file, mode, writes, starts>>

Scans == {"assessment", "scan"}

\* Deleting and retiring a scan go by the list of records, which gives a record that is read
\* from Postgres the directory of an assessment, wherever its files are.
Hits(op, reachable) ==
    \/ kind \notin Scans \/ op = "folder"
    \/ /\ Served(reachable) # Absent
       /\ kind = "assessment" \/ mode = "files" \/ ~reachable

\* Whose row is removed as well: DELETE /api/scans leaves it, the removal of a folder takes that
\* of a scan in memory.
RemovalReachesRow(op, inMemory) ==
    /\ mode = "both"
    /\ op = "delete" => kind \notin Scans
    /\ op = "folder" => inMemory

Gone(w, inMemory) ==
    IF RemovalReachesRow(worker[w].op, inMemory)
    THEN Goto(w, "row", Absent) /\ last' = "deleting"
    ELSE Finish(w) /\ last' = "delete"

\* The vault ignores that a file cannot be removed when there is a row as well, and DELETE
\* /api/scans ignores it always.
Ignores(op) == (kind = "credential" /\ mode = "both") \/ (kind \in Scans /\ op = "delete")

RemoveFile(w) ==
    /\ worker[w].op # "put" /\ worker[w].at = "file"
    /\ \E reachable \in BOOLEAN, inMemory \in BOOLEAN :
        LET op == worker[w].op
            hit == Hits(op, reachable)
            unlisted == op = "retire" /\ Served(reachable) = Absent
            left == {c \in {"unmirrored", "elsewhere"} :
                        IF c = "elsewhere" THEN ~hit /\ file # Absent
                        ELSE row # Absent /\ ~RemovalReachesRow(op, inMemory)} IN
        /\ reachable \/ mode = "both"
        /\ inMemory => op = "folder"
        /\ \/ /\ IF reachable THEN NoFault ELSE Fault
              /\ file' = IF hit THEN Absent ELSE file
              /\ IF unlisted THEN Finish(w) /\ UNCHANGED <<causes, last>>
                 ELSE causes' = causes \cup left /\ Gone(w, inMemory)
           \/ /\ reachable /\ Fault /\ UNCHANGED file
              /\ IF Ignores(op) THEN causes' = causes \cup left \cup {"ignored"} /\ Gone(w, inMemory)
                 ELSE Finish(w) /\ UNCHANGED <<causes, last>>
    /\ UNCHANGED <<kind, row, mode, writes, acknowledged, starts>>

\* Only the vault reports that a row could not be removed.
RemoveRow(w) ==
    /\ worker[w].op # "put" /\ worker[w].at = "row"
    /\ \/ NoFault /\ row' = Absent /\ last' = "delete" /\ UNCHANGED causes
       \/ /\ Fault /\ UNCHANGED row
          /\ IF kind = "credential" THEN Blame("reported") /\ UNCHANGED last
             ELSE Blame("rowLeft") /\ last' = "delete"
    /\ Finish(w)
    /\ UNCHANGED <<kind, file, mode, writes, acknowledged, starts>>

\* The process dies, and the next one opens Postgres or does not.
Restart ==
    /\ starts < MaxStarts /\ starts' = starts + 1
    /\ mode' \in {"files", "both"}
    /\ worker' = [w \in Worker |-> AtRest]
    /\ causes' = IF Busy # {} THEN causes \cup {"crash"} ELSE causes
    /\ UNCHANGED <<kind, file, row, writes, acknowledged, last, faults>>

RecordNext ==
    \/ \E w \in Worker :
        \/ \E op \in Ops : BeginOn(w, op)
        \/ Read(w) \/ PutFile(w) \/ PutRow(w) \/ RemoveFile(w) \/ RemoveRow(w)
    \/ Restart

RecordSpec == RecordInit /\ [][RecordNext]_recordVars

-----------------------------------------------------------------------------
Cause == {"overlap", "reported", "mirror", "fileLost", "rowLeft", "ignored", "filesOnly",
          "outdated", "crash", "unmirrored", "elsewhere"}
Content == [rev : 0..MaxWrites, write : 0..MaxWrites]

RecordTypeOK ==
    /\ kind \in Kinds /\ mode \in {"files", "both"}
    /\ file \in Content /\ row \in Content /\ acknowledged \subseteq Content
    /\ worker \in [Worker -> [op : {"idle", "put", "delete", "retire", "folder"},
                              at : {"-", "read", "file", "row"}, content : Content]]
    /\ last \in {"none", "put", "deleting", "delete", "again"} /\ causes \subseteq Cause

Unexcused(excuses) == Busy = {} /\ causes \cap excuses = {}

\* The copies diverge for a known reason only: two writers at once, a failure that was reported
\* or logged, a removal that was ignored, a death in between, a write without Postgres, or a
\* scan's removal that does not reach both.
CopiesAgree == Unexcused(Cause) /\ mode = "both" => file = row

\* The files hold the latest write that was answered with success, of every kind of record,
\* whatever Postgres fails to do, whenever the process dies, and with or without Postgres; only
\* two writers at once, or a scan that went on although its file could not be written, excuse
\* an older one.
FileIsComplete ==
    Unexcused({"overlap", "fileLost"}) /\ last = "put" =>
        /\ file # Absent
        /\ \A c \in acknowledged : c.write <= file.write

\* A reader finds what was last answered with success, from whichever copy it is served.  For a
\* credential neither a failure of a store nor a death excuses an older revision, only two writers
\* at once, or a process without Postgres that wrote over an older row.  A mirror fails in silence:
\* the reader of another record may also be behind after a failure that was logged, or a write
\* without Postgres.
ServedIsCurrent ==
    (/\ last = "put" /\ mode = "both"
     /\ Unexcused({"overlap", "outdated"}
                    \cup IF kind = "credential" THEN {} ELSE {"filesOnly", "mirror", "fileLost"})) =>
        \A reachable \in BOOLEAN :
            /\ Served(reachable) # Absent
            /\ \A c \in acknowledged : IF kind = "credential" THEN c.rev <= Served(reachable).rev
                                     ELSE c.write <= Served(reachable).write

\* A revision number stands for one content: plans are fingerprinted with it.
RevisionNamesContent ==
    Unexcused({"overlap", "outdated"}) /\ kind = "credential" =>
        \A c, d \in acknowledged : c.rev = d.rev => c = d

\* What was deleted with success is in neither copy, so that no later process can serve it,
\* although writes failed, processes died and Postgres came and went before.  Only the known
\* gaps of a removal excuse a copy: a file that could not be removed, a row that is not removed
\* or could not be, the files of a scan in another directory.
DeletionIsFinal ==
    Unexcused({"overlap", "ignored", "rowLeft", "unmirrored", "elsewhere"}) /\ last = "delete" =>
        file = Absent /\ row = Absent

\* Each copy of a record, and what is served of them, is what the last success left, a revision
\* names one content, and what is deleted stays so (record_store.go, vault.go, the removals of
\* scans).
RecordsAreKept ==
    /\ CopiesAgree /\ FileIsComplete /\ ServedIsCurrent
    /\ RevisionNamesContent /\ DeletionIsFinal

\* Not kept by the code: a credential whose deletion was answered with success, alone and with
\* Postgres in use, is not served any more.  dualBlobs.Delete ignores that its file stays.
DeletedCredentialIsGone ==
    kind = "credential" /\ last = "delete" /\ Unexcused(Cause \ {"ignored"}) =>
        \A reachable \in BOOLEAN : Served(reachable) = Absent

\* Not kept by the code: every replacement that was answered with success has a revision of its
\* own, although two requests replace a credential at once.  Vault.Replace does not hold it.
EveryReplaceCounts ==
    kind = "credential" /\ Unexcused(Cause \ {"overlap"}) =>
        \A c, d \in acknowledged : c.rev = d.rev => c = d
==============================================================================
