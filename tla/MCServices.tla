----------------------------- MODULE MCServices -----------------------------
(***************************************************************************)
(* The services around a scan that share no state with each other, checked *)
(* as a disjoint sum: the first state chooses one of them, only that one   *)
(* moves, and the others keep an initial state, of which nothing is asked. *)
(* The services that have proofs are extended, so that those are about the *)
(* same invariants; the others are instances, each after its constants.    *)
(***************************************************************************)
EXTENDS ScanData, HostResources, RecordStore, EndpointInventory, TLC

VARIABLES part, scope, request, guard, address

\* The inventory: two jobs of one scanner, one with an identity, and an endpoint for each trait.
InScope == [verdict |-> "in_scope", static |-> FALSE, get |-> TRUE, context |-> "", own |-> TRUE,
            sensitive |-> FALSE, body |-> FALSE, twin |-> "none"]
EndpointTraits ==
    [home |-> InScope,
     page |-> InScope,
     away |-> [InScope EXCEPT !.verdict = "out_of_scope", !.own = FALSE, !.sensitive = TRUE],
     late |-> [InScope EXCEPT !.get = FALSE, !.sensitive = TRUE, !.body = TRUE],
     mine |-> [InScope EXCEPT !.context = "A"],
     side |-> [InScope EXCEPT !.context = "A", !.own = FALSE],
     op   |-> [InScope EXCEPT !.twin = "mine"],
     old  |-> [InScope EXCEPT !.sensitive = TRUE]]
LivePage(replay) == [seen |-> "observed", replay |-> replay]
TwoCrawls == {{"page", "away"}, {"away"}}
BrowserRows == {[page |-> LivePage(FALSE)], [late |-> LivePage(FALSE), side |-> LivePage(FALSE)]}
ZapRows == {Empty, [late |-> LivePage(TRUE)]}
Target == "home"
OneOperation == [op |-> TRUE]
Candidate == [seen |-> "candidate", state |-> "historical_unverified"]
ArchiveRows == {Empty, [old |-> Candidate, page |-> Candidate]}
StoreFaults == {[writes |-> FALSE, early |-> FALSE, late |-> FALSE],
                [writes |-> TRUE, early |-> FALSE, late |-> TRUE]}
TwoJobs == <<[scanner |-> "zap", context |-> ""], [scanner |-> "zap", context |-> "A"]>>

\* A record of each kind: two requests on a credential, one writer of a schedule or a scan.
RecordWorkers ==
    [credential |-> {"a", "b"}, schedule |-> {"a"}, assessment |-> {"a"}, scan |-> {"a"}]

\* The scope: no approved origin, a prefix, a port of its own with a dot segment, another target's
\* origin; each pair of exclusions; and URLs that differ in everything the matchers compare,
\* the root with and without its slash and a directory among them.
Approved(t, sc, h, p, pre) ==
    [target |-> t, scheme |-> sc, host |-> h, port |-> p, prefix |-> pre]
Excludes(t, o, m, pat) == [target |-> t, origin |-> o, method |-> m, pattern |-> pat]
ScopeInputs ==
    {[origins |-> os, exclusions |-> es, derived |-> {Approved("t", "https", "a", 0, <<>>)},
      target |-> "t"] :
        os \in {{}, {Approved("t", "https", "a", 0, <<"app">>)},
                {Approved("t", "https", "a", 8443, <<"x", "..", "my page">>),
                 Approved("t", "http", "b", 0, <<>>)},
                {Approved("t2", "https", "a", 0, <<>>)}},
        es \in {e \in SUBSET
            {Excludes("", [scheme |-> "", host |-> "", port |-> 0], "", <<"app", "api">>),
             Excludes("", [scheme |-> "", host |-> "", port |-> 0], "POST",
                      <<"app", "*", "admin">>),
             Excludes("t", [scheme |-> "", host |-> "", port |-> 0], "*", <<"*">>),
             Excludes("", [scheme |-> "https", host |-> "a", port |-> 0], "", <<"my page">>),
             Excludes("t2", [scheme |-> "", host |-> "", port |-> 0], "", <<"app">>),
             Excludes("", [scheme |-> "", host |-> "", port |-> 0], "", <<"app", "*">>),
             Excludes("", [scheme |-> "", host |-> "", port |-> 0], "", <<"app", "..", "api">>)} :
                Cardinality(e) <= 2}}
Get(sc, h, p, path, user) ==
    [method |-> "GET",
     url |-> [scheme |-> sc, host |-> h, port |-> p, path |-> path, user |-> user]]
ScopeRequests ==
    {Get(sc, h, p, path, FALSE) :
        sc \in {"http", "https"}, h \in {"a", "b"}, p \in {0, 443, 8443},
        path \in {<<>>, <<"">>, <<"app">>, <<"app", "">>, <<"app", "api">>,
                  <<"app", "API">>, <<"app", "apis">>, <<"app", "api", "admin">>, <<"api">>, <<"my page">>, <<"app", "..", "api">>,
                  <<"app", "x", "admin">>}}
        \cup {Get("https", "a", 0, <<"app">>, TRUE), Get("ftp", "a", 0, <<"app">>, FALSE)}
HostNames ==
    ("localhost" :> <<"loopback">>) @@ ("127.0.0.1" :> <<"loopback">>)
    @@ ("0.0.0.0" :> <<"unspecified">>) @@ ("own.ip" :> <<"own">>) @@ ("own.name" :> <<"own">>)
    @@ ("mixed.name" :> <<"other", "loopback">>) @@ ("away.name" :> <<"other">>)
    @@ ("lost.name" :> <<>>)

AppScope == INSTANCE Scope WITH
    Requests <- ScopeRequests, Resolves <- HostNames, target <- address,
    GuardConfigs <- [bind : {"127.0.0.1", "0.0.0.0"}, port : {80, 443, 9000},
                     loopbackPorts : {{}, {3000}, {9000}}, local : BOOLEAN],
    GuardTargets <- [scheme : {"", "http", "https"}, host : DOMAIN HostNames,
                     port : {0, 80, 3000, 9000}]

\* The host: one core with 4 GB, two cores with a manual cap, twelve cores with a hard limit;
\* readings from idle to exhausted; two heavy tools and a light one.
FirstHost == [cores |-> 1, total |-> 4096, hardLimit |-> 0, manualMax |-> 0]
ScanHosts == {FirstHost, [cores |-> 2, total |-> 8192, hardLimit |-> 0, manualMax |-> 2],
              [cores |-> 12, total |-> 24576, hardLimit |-> 2048, manualMax |-> 0]}
FirstReading == [share |-> 90, load |-> 1, disk |-> 9000]
HostReadings == {FirstReading, [share |-> 30, load |-> 8, disk |-> 0],
                 [share |-> 20, load |-> 40, disk |-> 500],
                 [share |-> 5, load |-> 9, disk |-> 1500]}
Tools == {"nmap", "zap", "httpx"}
HeavyTools == {"nmap", "zap"}

scopeVars ==
    <<scope, request, guard, address>>
serviceVars ==
    <<part, dataVars, inventoryVars, recordVars, scopeVars, hostVars>>

-----------------------------------------------------------------------------
InitSum ==
    /\ part \in {"data", "inventory", "records", "scope", "resources"}
    /\ Init /\ InventoryInit
    /\ IF part = "records" THEN RecordInit ELSE RecordStartsFrom("credential", "files")
    /\ AppScope!Init
    /\ IF part = "resources" THEN LeaseInit ELSE HostStartsFrom(FirstHost, FirstReading)

DataMoves ==
    /\ part = "data" /\ Next
    /\ UNCHANGED <<part, inventoryVars, recordVars, scopeVars, hostVars>>

InventoryMoves ==
    /\ part = "inventory" /\ InventoryNext
    /\ UNCHANGED <<part, dataVars, recordVars, scopeVars, hostVars>>

RecordsMoves ==
    /\ part = "records" /\ RecordNext
    /\ UNCHANGED <<part, dataVars, inventoryVars, scopeVars, hostVars>>

ScopeMoves ==
    /\ part = "scope" /\ AppScope!Next
    /\ UNCHANGED <<part, dataVars, inventoryVars, recordVars, hostVars>>

ResourcesMoves ==
    /\ part = "resources" /\ LeaseNext
    /\ UNCHANGED <<part, dataVars, inventoryVars, recordVars, scopeVars>>

NextSum ==
    \/ DataMoves
    \/ InventoryMoves
    \/ RecordsMoves
    \/ ScopeMoves
    \/ ResourcesMoves

SpecSum == InitSum /\ [][NextSum]_serviceVars

-----------------------------------------------------------------------------
\* Every service stays well typed (the TypeOK of each module).
Types ==
    /\ TypeOK /\ RecordTypeOK /\ LeaseTypeOK /\ InventoryTypeOK
    /\ part = "scope" => AppScope!TypeOK

\* What the tools are told agrees with the gate, a scope is its own normal form, and the guard of
\* the host refuses what it must and nothing else (Scope!ScopeIsHonoured).
ScopeIsHonoured == part = "scope" => AppScope!ScopeIsHonoured

=============================================================================
