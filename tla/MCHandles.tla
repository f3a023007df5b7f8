------------------------------ MODULE MCHandles ------------------------------
(* Handles with two kinds of secrets: a shell and a client of the proxy. *)
EXTENDS Handles

CONSTANTS va, vb, shell, client
key == [kind |-> "openai-key", value |-> va]
jwt == [kind |-> "jwt", value |-> vb]

Json(body) == [encoding |-> "none", type |-> "json", body |-> body]

Messages == [encoding: {"none", "gzip"}, type: {"none", "json", "events", "image"},
             body: {<<Plain, key, Foreign>>}]
              \cup {[Json(<<Plain, key>>) EXCEPT !.encoding = "identity"]}

Exchanges == [op: {"exchange"}, request: Messages, reply: {Json(<<Plain>>)}]
               \cup [op: {"exchange"}, request: {Json(<<Plain>>)}, reply: Messages]
               \cup [op: {"exchange"}, request: {Json(<<jwt>>)}, reply: {Json(<<key>>)}]

Sealing == {[op |-> "seal", prefix |-> "hook", text |-> <<key, Plain, jwt>>],
            [op |-> "interactive", args |-> << <<jwt>> >>, lines |-> << <<key>>, <<jwt>> >>],
            [op |-> "piped", args |-> << <<jwt>> >>, input |-> <<key>>]}
SealEnv(prefix, text) == [op |-> "env seal", prefix |-> prefix, text |-> text]
RunEnv == [op |-> "env run"]
Files == {SealEnv("openai-key", <<key, Plain>>), RunEnv}
Deletes == {[op |-> "delete", key |-> [prefix |-> prefix, of |-> key]] :
              prefix \in {"openai-key", "proxy/request"}}

AllOffers == [p \in Party |-> IF p = shell THEN Sealing \cup Files \cup Deletes
                                          ELSE Exchanges]
FileOffers == [p \in Party |-> {SealEnv("env", <<key, Plain>>), SealEnv("env", <<jwt>>), RunEnv}]
=============================================================================
