-------------------------------- MODULE Scope --------------------------------
(***************************************************************************)
(* The request boundary of an application (assessment/scope.go), what the  *)
(* crawler and the scanners are told of it (katana.go, wapiti.go, zap.go), *)
(* and the guard of the operator's own machine (scopeguard.go).  A path is *)
(* the sequence of what follows each slash, as it is written: https://a    *)
(* has none, https://a/ has one empty segment, and https://a/app/ has two  *)
(* segments.  Hosts, schemes and segments are names, with the spelling     *)
(* differences that the translations must cope with.                       *)
(***************************************************************************)
EXTENDS Naturals, Sequences, SequencesExt, FiniteSets

CONSTANTS
    ScopeInputs,   \* pairs of a set of approved origins and a set of exclusions
    Requests,      \* methods with URLs: scheme, host, port, path, user
    GuardConfigs,  \* bind address, listener port, opted-in ports, opt-in for local targets
    GuardTargets,  \* scheme, host and port as an operator may enter them, "" and 0 for none
    Resolves       \* a host name's addresses: "loopback", "unspecified", "own" or "other"

VARIABLES scope, request, guard, target
vars == <<scope, request, guard, target>>

None == [scheme |-> "", host |-> "", port |-> 0]

-----------------------------------------------------------------------------
\* Normal forms

DefaultPort(scheme) == CASE scheme = "http" -> 80 [] scheme = "https" -> 443 [] OTHER -> 0

\* Dot segments are resolved in the decoded path, the root is its own parent, and the slashes
\* that nothing follows are dropped.
cleanPath(path) ==
    FoldLeft(LAMBDA done, seg : IF seg = "" \/ (seg = ".." /\ done = <<>>) THEN done
                                ELSE IF seg = ".." THEN Front(done) ELSE Append(done, seg),
             <<>>, path)

\* A clean path as text: the root keeps its slash.
Written(path) == IF path = <<>> THEN <<"">> ELSE path

\* Mutant of Types: an origin keeps its port as it was written.
normalizeOriginAsWritten(o) == [o EXCEPT !.prefix = cleanPath(@)]

normalizeOrigin(o) ==
    [o EXCEPT !.prefix = cleanPath(@), !.port = IF @ = 0 THEN DefaultPort(o.scheme) ELSE @]

validOrigin(o) == DefaultPort(o.scheme) # 0 /\ o.host # ""

normalizeExclusion(e) ==
    [e EXCEPT !.method = IF @ = "*" THEN "" ELSE @,
              !.pattern = cleanPath(@),
              !.origin.port = IF e.origin # None /\ @ = 0 THEN DefaultPort(e.origin.scheme) ELSE @]

NewAppScope(origins, exclusions) ==
    [origins |-> {normalizeOrigin(o) : o \in {p \in origins : validOrigin(p)}},
     exclusions |-> {normalizeExclusion(e) : e \in exclusions}]

\* Without approved origins a URL target is its own boundary.
AppScopeForTarget(input) ==
    LET mine == {o \in input.origins : o.target = input.target} IN
    NewAppScope(IF mine = {} THEN input.derived ELSE mine,
                {e \in input.exclusions : e.target \in {"", input.target}})

-----------------------------------------------------------------------------
\* The matcher

parseDestination(url) ==
    [scheme |-> url.scheme, host |-> url.host,
     port |-> IF url.port = 0 THEN DefaultPort(url.scheme) ELSE url.port,
     path |-> cleanPath(url.path)]

Parses(url) == DefaultPort(url.scheme) # 0 /\ ~url.user

OriginOf(d) == [scheme |-> d.scheme, host |-> d.host, port |-> d.port]

pathWithin(path, prefix) == IsPrefix(prefix, path)

Allows(s, url) ==
    /\ Parses(url)
    /\ LET d == parseDestination(url) IN
       \E o \in s.origins : OriginOf(o) = OriginOf(d) /\ pathWithin(d.path, o.prefix)

\* "*" stands for any run of characters, the separator included and perhaps none; letters match
\* in either case.
Fold(seg) == IF seg = "API" THEN "api" ELSE seg
FoldAll(path) == [i \in DOMAIN path |-> Fold(path[i])]

Exactly(pattern, path) ==
    \/ FoldAll(path) = FoldAll(pattern)
    \/ \E i \in DOMAIN pattern :
        /\ pattern[i] = "*" /\ Len(path) >= Len(pattern)
        /\ FoldAll(SubSeq(path, 1, i - 1)) = FoldAll(SubSeq(pattern, 1, i - 1))
        /\ LET rest == Len(pattern) - i IN
           FoldAll(SubSeq(path, Len(path) - rest + 1, Len(path)))
               = FoldAll(SubSeq(pattern, i + 1, Len(pattern)))

\* The pattern also matches everything below it.
PathRegex(pattern, path) == \E n \in 0..Len(path) : Exactly(pattern, SubSeq(path, 1, n))

targetOwns(s, targetID, d) ==
    \E o \in s.origins :
        o.target = targetID /\ OriginOf(o) = OriginOf(d) /\ pathWithin(d.path, o.prefix)

\* A URL that cannot be parsed counts as excluded.
Excluded(s, method, url) ==
    /\ s.exclusions # {}
    /\ \/ ~Parses(url)
       \/ LET d == parseDestination(url) IN
          \E e \in s.exclusions :
              /\ e.method \in {"", method}
              /\ e.origin \in {None, OriginOf(d)}
              /\ e.target = "" \/ targetOwns(s, e.target, d)
              /\ PathRegex(e.pattern, Written(d.path))

-----------------------------------------------------------------------------
\* What the tools are told.  They match the URL as it is spelled: its path is escaped, its dot
\* segments are still there, and so is a slash at its end, or is not.

Spelled(path) == [i \in DOMAIN path |-> IF path[i] = "my page" THEN "my%20page" ELSE path[i]]

SameOriginAsWritten(o, url) == o.scheme = url.scheme /\ o.host = url.host /\ url.port = o.port

\* The port in the origin's pattern is optional when it is the default.
SameOrigin(o, url) ==
    /\ o.scheme = url.scheme /\ o.host = url.host
    /\ url.port = o.port \/ (url.port = 0 /\ o.port = DefaultPort(o.scheme))

katanaScopeRegexes(s, url) ==
    \E o \in s.origins : SameOrigin(o, url) /\ IsPrefix(Spelled(o.prefix), Spelled(url.path))

katanaExclusionRegexes(s, url) ==
    \E e \in s.exclusions :
        /\ e.origin = None \/ SameOrigin(e.origin, url)
        /\ PathRegex(e.pattern, Spelled(url.path))

KatanaAdmits(s, url) == katanaScopeRegexes(s, url) /\ ~katanaExclusionRegexes(s, url)

zapApprovedContextRegex(s, url) ==
    \E o \in s.origins : SameOrigin(o, url) /\ IsPrefix(Spelled(o.prefix), Spelled(url.path))

\* An exclusion of a target applies to the origins the target has in the scope.
zapExclusionRegexes(s, url) ==
    \E e \in s.exclusions :
        /\ CASE e.origin # None -> SameOrigin(e.origin, url)
             [] e.origin = None /\ e.target # "" ->
                    \E o \in s.origins : o.target = e.target /\ SameOrigin(o, url)
             [] OTHER -> TRUE
        /\ PathRegex(e.pattern, Spelled(url.path))

ZapAdmits(s, url) == zapApprovedContextRegex(s, url) /\ ~zapExclusionRegexes(s, url)

\* Whether an exclusion of one method was applied to every method.
Widened(s) == \E e \in s.exclusions : e.method # ""

wapitiAllowedTargets(s, urls) == {u \in urls : Allows(s, u) /\ ~Excluded(s, "GET", u)}

\* Wapiti compares text, in its own case and without a boundary at the end.
TextBegins(pattern, path) ==
    \/ IsPrefix(pattern, path)
    \/ /\ pattern # <<>> /\ Len(path) >= Len(pattern)
       /\ IsPrefix(Front(pattern), path)
       /\ Last(pattern) = "api" /\ path[Len(pattern)] = "apis"

wapitiExcludePatterns(s, entry, url) ==
    \E e \in s.exclusions :
        /\ e.origin \in {None, OriginOf(parseDestination(entry))}
        /\ entry.scheme = url.scheme /\ entry.host = url.host /\ entry.port = url.port
        /\ TextBegins(e.pattern, Spelled(url.path))

-----------------------------------------------------------------------------
\* The operator's own machine

Opted(config, port) == port # 0 /\ port # config.port /\ port \in config.loopbackPorts
LocalTargetsAllowed(config, port) == config.local /\ (port = 0 \/ port # config.port)

\* Without a port it is the one of the scheme; a bare host has neither.
schemeDefaultPort(t) == IF t.port = 0 THEN DefaultPort(t.scheme) ELSE t.port

\* Addresses are examined in the order of the resolver; the first local one decides.
IsLocalOrListener(config, t) ==
    LET port == schemeDefaultPort(t)
        loopbackAllowed == Opted(config, port) \/ LocalTargetsAllowed(config, port)
        addresses == Resolves[t.host]
        local == {i \in DOMAIN addresses : addresses[i] \in {"loopback", "unspecified"}}
    IN  \/ port # 0 /\ port = config.port /\ t.host \in {config.bind, "0.0.0.0"}
        \/ t.host = "0.0.0.0"
        \/ t.host = "localhost" /\ ~loopbackAllowed
        \/ /\ t.host \notin {"localhost", "0.0.0.0"} /\ local # {}
           /\ addresses[CHOOSE i \in local : \A k \in local : i <= k] = "loopback"
                => ~loopbackAllowed
        \/ /\ t.host \notin {"localhost", "0.0.0.0"} /\ local = {}
           /\ "own" \in Range(addresses)
           /\ ~LocalTargetsAllowed(config, port)

-----------------------------------------------------------------------------
Unasked == [origins |-> {}, exclusions |-> {}]
NoRequest == [method |-> "GET", url |-> [scheme |-> "", host |-> "", port |-> 0, path |-> <<>>,
                                         user |-> FALSE]]
NoGuard == [bind |-> "", port |-> 0, loopbackPorts |-> {}, local |-> FALSE]
NoTarget == [scheme |-> "", host |-> "none", port |-> 0]

Init == scope = Unasked /\ request = NoRequest /\ guard = NoGuard /\ target = NoTarget

\* A request is put to the scope of a target, or a target to the guard.
AskScope ==
    /\ scope = Unasked /\ guard = NoGuard
    /\ \E input \in ScopeInputs, r \in Requests :
        scope' = AppScopeForTarget(input) /\ request' = r
    /\ UNCHANGED <<guard, target>>

AskGuard ==
    /\ scope = Unasked /\ guard = NoGuard
    /\ guard' \in GuardConfigs /\ target' \in GuardTargets
    /\ UNCHANGED <<scope, request>>

Next == AskScope \/ AskGuard
Spec == Init /\ [][Next]_vars

-----------------------------------------------------------------------------
TypeOK ==
    /\ \A o \in scope.origins : DefaultPort(o.scheme) # 0 /\ o.port # 0
    /\ \A e \in scope.exclusions : e.method \in {"", "GET", "POST"}
    /\ target.host \in DOMAIN Resolves \cup {"none"}

\* The path has nothing to resolve; nothing to decode.
Plain(url) == ".." \notin Range(url.path)
Unescaped(url) == Spelled(url.path) = url.path

\* An excluded URL that the crawler or ZAP would request.
Unfenced(url) ==
    /\ \E m \in {"GET", "POST"} : Excluded(scope, m, url)
    /\ KatanaAdmits(scope, url) \/ ZapAdmits(scope, url)

\* On plain paths the crawler and ZAP never request what the scope refuses, whatever the
\* method, unless it is a root that is written without its slash; and they may request all of
\* it that no exclusion fences.  What an exclusion bound to a method or a target fences for
\* them is more than it excludes, and so is what one of everything below a directory fences:
\* the directory itself, when it is written with a slash at its end.
TranslationsAgree ==
    LET url == request.url
        in == Allows(scope, url)
        out == \E m \in {"GET", "POST"} : Excluded(scope, m, url)
        fenced == \E e \in scope.exclusions : PathRegex(e.pattern, url.path)
        directory == Len(url.path) > 1 /\ Last(url.path) = "" IN
    (Plain(url) /\ Parses(url)) =>
        /\ KatanaAdmits(scope, url) => in
        /\ ZapAdmits(scope, url) => in
        /\ Unescaped(url) /\ url.path # <<>> => ~Unfenced(url)
        /\ in /\ ~fenced => KatanaAdmits(scope, url) /\ ZapAdmits(scope, url)
        /\ (/\ in /\ ~out /\ ~Widened(scope) /\ ~directory
            /\ \A e \in scope.exclusions : e.target = "") => ZapAdmits(scope, url)

\* Not kept by the code: the crawler and ZAP are kept from every spelling of a URL that the scope
\* excludes.  Their patterns want a slash after the host, which https://a does not have.
NoToolRequestsExcluded ==
    LET url == request.url IN Plain(url) /\ Unescaped(url) /\ Parses(url) => ~Unfenced(url)

\* Wapiti's patterns cover, for the spelling of the pattern, what a GET of an entry point's
\* origin is excluded from.
WapitiIsFenced ==
    LET url == request.url
        entry == [url EXCEPT !.path = <<>>] IN
    (/\ Plain(url) /\ Unescaped(url) /\ Parses(url)
     /\ \E e \in scope.exclusions :
            /\ e.method \in {"", "GET"} /\ e.target = "" /\ "*" \notin Range(e.pattern)
            /\ e.origin \in {None, OriginOf(parseDestination(url))}
            /\ IsPrefix(e.pattern, url.path))
        => wapitiExcludePatterns(scope, entry, url)

\* A scope that is written out and read again is the same scope.
NormalFormIsStable == NewAppScope(scope.origins, scope.exclusions) = scope

\* The guard refuses the dashboard's own port on every local address, opted in or not, named or
\* implied by the scheme, and without an opt-in everything local; it refuses nothing else.
GuardIsExact ==
    target.host # "none" =>
        LET local == Range(Resolves[target.host]) \cap {"loopback", "unspecified", "own"} # {}
            own == \/ target.port = guard.port
                   \/ target.port = 0
                      /\ <<target.scheme, guard.port>> \in {<<"http", 80>>, <<"https", 443>>}
        IN
        /\ local /\ own => IsLocalOrListener(guard, target)
        /\ (local /\ ~guard.local /\ guard.loopbackPorts = {}) => IsLocalOrListener(guard, target)
        /\ ~local => ~IsLocalOrListener(guard, target)

ScopeIsHonoured == TranslationsAgree /\ WapitiIsFenced /\ NormalFormIsStable /\ GuardIsExact
==============================================================================
