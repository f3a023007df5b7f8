------------------------------- MODULE Policy -------------------------------
(***************************************************************************)
(* What a capability permits: `capability issue` (preset_claims and        *)
(* CapabilityClaims::new) turns its arguments into claims, the relay       *)
(* checks a request against them (enforce_request, enforce_body_size,      *)
(* enforce_content_type) and puts the secret into its headers              *)
(* (inject_secret).                                                        *)
(*                                                                         *)
(* Hosts and paths are sequences of characters, because rules are matched  *)
(* character by character; everything else is a value.  Folding to one     *)
(* case has been done.                                                     *)
(***************************************************************************)
EXTENDS Integers, Sequences

CONSTANTS
  Char,      \* characters of hosts and paths
  Cases,     \* sets of cases: what is asked of `capability issue`, and a request
  NoPreset,  \* `capability issue` without --preset
  Secret

Text == Seq(Char)
ASSUME CharAssumption == {"/", "*", "."} \subseteq Char
SlashAll == <<"/", "*">>

HasStar(path) == \E i \in 1..Len(path) : path[i] = "*"

From(s, cursor) == SubSeq(s, cursor + 1, Len(s))
StartsWith(s, prefix) == Len(prefix) <= Len(s) /\ SubSeq(s, 1, Len(prefix)) = prefix
EndsWith(s, suffix) == Len(suffix) <= Len(s) /\ From(s, Len(s) - Len(suffix)) = suffix

\* What is asked for: texts, and presets like those of presets.rs.
ASSUME AskAssumption ==
  \A group \in Cases : \A c \in group :
    /\ c.ask.hosts \subseteq Text /\ c.ask.paths \subseteq Text
    /\ c.ask.preset # NoPreset =>
         /\ c.ask.preset.schemes \subseteq {"https", "http"}
         /\ c.ask.preset.hosts \subseteq Text
         /\ \A p \in c.ask.preset.paths :
              p \in Text /\ (HasStar(p) \/ ~EndsWith(p, <<"/">>))

\* A request has a parsed URL, whose path begins with a slash, and its client does not
\* know the secret.  A header is its name and whether that is spelled with capitals.
ASSUME RequestAssumption ==
  \A group \in Cases : \A c \in group :
    /\ c.request.host \in Text /\ c.request.path \in Text
    /\ c.request.scheme \in {"https", "http"} => StartsWith(c.request.path, <<"/">>)
    /\ \A h \in DOMAIN c.request.headers :
         /\ h \in [name: STRING, capitals: BOOLEAN]
         /\ c.request.headers[h] # Secret

-----------------------------------------------------------------------------
\* wildcard_match: the parts between the stars, each at its leftmost place

\* str::split: the star before position i of the pattern, and the part between them
LastStar(pattern, i) ==
  CHOOSE k \in 0..(i - 1) : /\ k > 0 => pattern[k] = "*"
                            /\ \A m \in (k + 1)..(i - 1) : pattern[m] # "*"
PartBefore(pattern, i) == SubSeq(pattern, LastStar(pattern, i) + 1, i - 1)

PlacesBeforeEnd(part, value, cursor) ==   \* faulty: not the last place
  {i \in cursor..(Len(value) - Len(part) - 1) : SubSeq(value, i + 1, i + Len(part)) = part}

Places(part, value, cursor) ==
  {i \in cursor..(Len(value) - Len(part)) : SubSeq(value, i + 1, i + Len(part)) = part}

PartAnywhereAtEnd(part, value, cursor) ==   \* faulty: the cursor is forgotten
  EndsWith(value, part)

PartAtEnd(part, value, cursor) == EndsWith(From(value, cursor), part)

Fail(value) == Len(value) + 1   \* no cursor: a part was not found

\* the cursor after the part before the star at i
Behind(pattern, i, value, cursor) ==
  LET part == PartBefore(pattern, i)
      places == Places(part, value, cursor) IN
  IF LastStar(pattern, i) = 0
  THEN IF StartsWith(value, part) THEN Len(part) ELSE Fail(value)
  ELSE IF places = {} THEN Fail(value)
  ELSE (CHOOSE k \in places : \A m \in places : k <= m) + Len(part)

Cursor(pattern, value) ==
  LET cursor[i \in 0..Len(pattern)] ==   \* after the stars up to i
        CASE i = 0 -> 0
          [] i > 0 /\ pattern[i] = "*" -> Behind(pattern, i, value, cursor[i - 1])
          [] OTHER -> cursor[i - 1]
  IN cursor

WildcardMatch(pattern, value) ==
  LET cursor == Cursor(pattern, value)[Len(pattern)] IN
  IF ~HasStar(pattern) THEN pattern = value
  ELSE /\ cursor # Fail(value)
       /\ PartAtEnd(PartBefore(pattern, Len(pattern) + 1), value, cursor)

\* PathRule::matches
PathMatches(rule, path) ==
  \/ rule.policy = "any"
  \/ rule.policy = "exact" /\ path = rule.value
  \/ rule.policy = "prefix" /\ StartsWith(path, rule.value)
  \/ rule.policy = "wildcard" /\ WildcardMatch(rule.value, path)

\* host_allowed
WithoutDots(host) ==   \* trim_end_matches('.')
  SubSeq(host, 1, CHOOSE n \in 0..Len(host) :
                    /\ n > 0 => host[n] # "."
                    /\ \A i \in (n + 1)..Len(host) : host[i] = ".")

HostAllowed(rule, host) ==
  LET plain == WithoutDots(rule) IN
  IF StartsWith(plain, <<"*", ".">>)
  THEN EndsWith(host, From(plain, 1)) /\ host # From(plain, 2)
  ELSE host = plain

-----------------------------------------------------------------------------
\* `capability issue`

PathRule(policy, value) == [policy |-> policy, value |-> value]

\* CapabilityClaims::new
NewRule(path) ==
  CASE path = <<"*">> -> PathRule("any", path)
    [] path # <<"*">> /\ HasStar(path) -> PathRule("wildcard", path)
    [] ~HasStar(path) /\ path # <<>> /\ path[Len(path)] = "/" -> PathRule("prefix", path)
    [] OTHER -> PathRule("exact", path)

\* default_path_rules
PresetRule(path) ==
  CASE path \in {<<"*">>, SlashAll} -> PathRule("any", <<"*">>)
    [] path \notin {<<"*">>, SlashAll} /\ HasStar(path) -> PathRule("wildcard", path)
    [] OTHER -> PathRule("exact", path)

Given(asked, presets) == IF asked = {} THEN presets ELSE asked

\* preset_claims: the hosts and methods asked for, else those of the preset, else
\* those of the command; with a preset its paths, asked for or not
Claims(ask) ==
  IF ask.preset = NoPreset
  THEN [schemes |-> {"https"}, hosts |-> ask.hosts, ports |-> {443},
        methods |-> Given(ask.methods, {"POST"}),
        paths |-> {NewRule(p) : p \in Given(ask.paths, {SlashAll})},
        query |-> "any", types |-> {"json", "form"}, inject |-> "authorization"]
  ELSE [schemes |-> ask.preset.schemes, hosts |-> Given(ask.hosts, ask.preset.hosts),
        ports |-> ask.preset.ports, methods |-> Given(ask.methods, ask.preset.methods),
        paths |-> {PresetRule(p) : p \in ask.preset.paths},
        query |-> ask.preset.query, types |-> {"json", "form"},
        inject |-> ask.preset.inject]

-----------------------------------------------------------------------------
\* The relay's checks.  A header of a request is its name and whether that is
\* spelled with capitals; in the order of a BTreeMap those come first.

HeaderNames(request) == DOMAIN request.headers
Spelled(name, capitals) == [name |-> name, capitals |-> capitals]

\* content_type: the first in order, else that of a JSON body
ContentType(request) ==
  LET spelled(capitals) == Spelled("content-type", capitals) IN
  CASE spelled(TRUE) \in HeaderNames(request) -> request.headers[spelled(TRUE)]
    [] spelled(TRUE) \notin HeaderNames(request) /\ spelled(FALSE) \in HeaderNames(request) ->
         request.headers[spelled(FALSE)]
    [] OTHER -> IF request.body = "json" THEN "json" ELSE "none"

QueryAllowed(policy, query) ==
  \/ policy = "any"
  \/ policy = "none" /\ query = "none"
  \/ policy = "prefix" /\ query = "keyed"   \* begins with the name of the key and =

\* local: host_is_private says so of the name or the address that the host is
EnforceRequest(claims, request) ==
  /\ request.scheme \in claims.schemes \cap {"https", "http"}
  /\ ~request.userinfo
  /\ ~request.local
  /\ ~EndsWith(request.host, <<".">>)
  /\ \E rule \in claims.hosts : HostAllowed(rule, request.host)
  /\ request.port \in claims.ports
  /\ request.method \in claims.methods
  /\ \E rule \in claims.paths : PathMatches(rule, request.path)
  /\ QueryAllowed(claims.query, request.query)

Enforced(claims, request) ==
  /\ EnforceRequest(claims, request)
  /\ ~request.large
  /\ ContentType(request) \in claims.types \cup {"none"}

\* inject_secret: the client's headers in order, a later spelling over an earlier
\* one, and then the secret over both
HeaderSent(request, name) ==
  LET spelled(capitals) == Spelled(name, capitals) IN
  request.headers[IF spelled(FALSE) \in HeaderNames(request) THEN spelled(FALSE) ELSE spelled(TRUE)]
NamesSent(request) == {h.name : h \in HeaderNames(request)}

InjectedFirst(capability, req) ==   \* faulty: the client's headers are put in last
  [name \in NamesSent(req) \cup {capability.inject} |->
     IF name \in NamesSent(req) THEN HeaderSent(req, name) ELSE Secret]

Injected(capability, req) ==
  [name \in NamesSent(req) \cup {capability.inject} |->
     IF name = capability.inject THEN Secret ELSE HeaderSent(req, name)]

-----------------------------------------------------------------------------
VARIABLES
  ask, request,  \* the arguments and the request
  pc,
  claims,        \* the capability
  headers        \* what the upstream gets

policyVars == <<ask, request, pc, claims, headers>>

PolicyInit ==
  /\ \E group \in Cases : \E c \in group : ask = c.ask /\ request = c.request
  /\ pc = "issue" /\ claims = <<>> /\ headers = <<>>

Issue ==
  /\ pc = "issue"
  /\ claims' = Claims(ask)
  /\ pc' = "enforce"
  /\ UNCHANGED <<ask, request, headers>>

Allow ==
  /\ pc = "enforce" /\ Enforced(claims, request)
  /\ pc' = "inject"
  /\ UNCHANGED <<ask, request, claims, headers>>

Deny ==
  /\ pc = "enforce" /\ ~Enforced(claims, request)
  /\ pc' = "denied"
  /\ UNCHANGED <<ask, request, claims, headers>>

Inject ==
  /\ pc = "inject"
  /\ headers' = Injected(claims, request)
  /\ pc' = "sent"
  /\ UNCHANGED <<ask, request, claims>>

PolicyNext == Issue \/ Allow \/ Deny \/ Inject

PolicySpec == PolicyInit /\ [][PolicyNext]_policyVars

-----------------------------------------------------------------------------
\* What the arguments mean.

\* a star stands for any characters, everything else for itself
Reached(pattern, value) ==
  LET reached[i \in 0..Len(pattern)] ==   \* how far the first i of the pattern may reach
        IF i = 0 THEN {0}
        ELSE LET before == reached[i - 1] IN
             IF pattern[i] = "*" THEN {k \in 0..Len(value) : \E j \in before : j <= k}
             ELSE {k \in 1..Len(value) : k - 1 \in before /\ value[k] = pattern[i]}
  IN reached
Glob(pattern, value) == Len(value) \in Reached(pattern, value)[Len(pattern)]

\* a name, or after *. the domain of which the host is a proper subdomain
HostMeant(rule, host) ==
  LET name == WithoutDots(rule) IN
  \/ host = name
  \/ /\ StartsWith(name, <<"*", ".">>)
     /\ \E dot \in 1..Len(host) : host[dot] = "." /\ From(host, dot) = From(name, 2)

\* a path without stars that ends in / is the directory under it
PathMeant(asked, path) ==
  \/ Glob(asked, path)
  \/ ~HasStar(asked) /\ asked # <<>> /\ asked[Len(asked)] = "/" /\ StartsWith(path, asked)

\* The request is one that the arguments of `capability issue` and its preset name.
AskedFor ==
  /\ \E rule \in Given(ask.hosts, IF ask.preset = NoPreset THEN {} ELSE ask.preset.hosts) :
       HostMeant(rule, request.host)
  /\ \E p \in Given(ask.paths,
                    IF ask.preset = NoPreset THEN {SlashAll} ELSE ask.preset.paths) :
       PathMeant(p, request.path)
  /\ request.method \in Given(ask.methods,
                              IF ask.preset = NoPreset THEN {"POST"} ELSE ask.preset.methods)

PathsOverridden == ask.preset # NoPreset /\ ask.paths # {}

\* A request that leaves is one that was asked for: the wildcard search, the suffix
\* test on hosts and the choice of rules when the capability is issued let nothing
\* else through.  Paths asked for beside a preset are not looked at (main.rs:3163).
SentWasAsked == pc = "sent" /\ ~PathsOverridden => AskedFor

\* And one that was asked for, with an ordinary URL and body, is not denied: the
\* leftmost places of the parts of a pattern are enough.
AskedIsSent ==
  pc = "denied" /\ ~PathsOverridden /\ AskedFor =>
    \/ request.scheme \notin claims.schemes \/ request.port \notin claims.ports
    \/ request.userinfo \/ request.local \/ request.large
    \/ EndsWith(request.host, <<".">>)
    \/ ~QueryAllowed(claims.query, request.query)
    \/ ContentType(request) \notin claims.types \cup {"none"}

\* Whatever headers the client sends, in whatever spelling, the secret arrives in the
\* header of the capability and nowhere else.
SecretInItsHeader ==
  pc = "sent" =>
    /\ claims.inject \in DOMAIN headers
    /\ \A name \in DOMAIN headers : headers[name] = Secret <=> name = claims.inject
=============================================================================
