------------------------------ MODULE MCPolicy ------------------------------
(***************************************************************************)
(* Instances of Policy for TLC.                                            *)
(***************************************************************************)
EXTENDS Policy, FiniteSets

Strings(chars, len) == UNION {[1..n -> chars] : n \in 0..len}

Chars == {"a", "b", "/", "*", "."}
Host == <<"a", ".", "b">>
Path == <<"/", "a">>
Ask == [hosts |-> {Host}, methods |-> {}, paths |-> {}, preset |-> NoPreset]
Plain == [scheme |-> "https", userinfo |-> FALSE, local |-> FALSE, host |-> Host,
          port |-> 443, method |-> "POST", path |-> Path, query |-> "none",
          headers |-> <<>>, body |-> "json", large |-> FALSE]

PresetOf(hosts, paths, query) ==
  [schemes |-> {"https"}, hosts |-> hosts, ports |-> {443}, methods |-> {"GET"},
   paths |-> paths, query |-> query, inject |-> "x-api-key"]
Presets == {PresetOf({Host}, {SlashAll}, "any"), PresetOf({}, {SlashAll}, "prefix"),
            PresetOf({<<"*", ".", "b">>}, {<<"/", "a", "*">>}, "none")}

\* patterns of up to six characters against paths of up to five
PathCases ==
  {[ask |-> [Ask EXCEPT !.paths = {pattern}],
    request |-> [Plain EXCEPT !.path = <<"/">> \o path]] :
      pattern \in Strings({"/", "a", "*"}, 5)
                    \cup {<<"/">> \o p : p \in Strings({"a", "b", "*"}, 5)},
      path \in Strings({"a", "b"}, 4) \cup Strings({"/", "a"}, 3)}

HostCases ==
  {[ask |-> [Ask EXCEPT !.hosts = {rule}], request |-> [Plain EXCEPT !.host = host]] :
      rule \in Strings({"a", "."}, 4) \cup {<<"*", ".">> \o h : h \in Strings({"a", "."}, 3)},
      host \in Strings({"a", "b", "."}, 5)}

RequestCases ==
  {[ask |-> [Ask EXCEPT !.hosts = hosts, !.paths = paths, !.methods = methods, !.preset = preset],
    request |-> [Plain EXCEPT !.scheme = scheme, !.userinfo = userinfo, !.local = local,
                              !.port = port, !.method = method, !.query = query]] :
      hosts \in {{}, {Host}}, paths \in {{}, {Path}}, methods \in {{}, {"GET", "PUT"}},
      preset \in Presets \cup {NoPreset}, scheme \in {"https", "http", "ftp"},
      userinfo \in BOOLEAN, local \in BOOLEAN, port \in {443, 80},
      method \in {"GET", "POST", "PUT"}, query \in {"none", "keyed", "other"}}

HeaderCases ==
  LET spellings == {Spelled(n, c) : n \in {"content-type", "authorization", "x-api-key"},
                                    c \in BOOLEAN} IN
  {[ask |-> [Ask EXCEPT !.preset = preset],
    request |-> [Plain EXCEPT !.method = "GET", !.headers = h, !.body = body, !.large = large]] :
      preset \in {NoPreset, PresetOf({}, {SlashAll}, "any")},
      h \in UNION {[names -> {"json", "other"}] : names \in SUBSET spellings},
      body \in {"json", "data"}, large \in BOOLEAN}

AllCases == {PathCases, HostCases, RequestCases, HeaderCases}
=============================================================================
