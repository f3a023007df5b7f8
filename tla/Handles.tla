------------------------------- MODULE Handles -------------------------------
(***************************************************************************)
(* Handles from the moment they replace a secret to the moment they are    *)
(* turned back: scan_and_seal in its callers (seal, hook, pipe, run), env  *)
(* seal and env run, and the exchanges of the proxy, all on one vault.     *)
(* Seal models how secrets are found; here a text says where they are.     *)
(*                                                                         *)
(* A command is a script of steps.  Between two of them the other parties  *)
(* run, and it may end there (a crash, an error, a client that is gone).   *)
(* One save of the vault is one step; VaultFile has its parts.  Appending  *)
(* to the audit log only adds points where a command may end.              *)
(***************************************************************************)
EXTENDS Integers, Sequences

CONSTANTS
  Party,      \* processes that run commands, and connections to the proxy
  Offers,     \* per party, what it may run
  Runs,       \* how many times each: a bound
  Kind,       \* kinds of secrets, as the scanners name them
  Value,
  Plain,      \* text that holds no secret
  Foreign,    \* bytes that are not UTF-8
  Garbled,    \* what from_utf8_lossy puts in their place
  Nothing

Secret == [kind: Kind, value: Value]
Handle == [to: Secret]            \* kind and fingerprint: no two values share one
Piece == Secret \cup Handle \cup {Plain, Foreign, Garbled}
Text == Seq(Piece)
Prefix == Kind \cup {"env", "hook", "pipe", "sealed", "output", "pty", "pty-arg", "run", "run-arg",
                       "proxy/request", "proxy/response"}

\* a key of the vault, named prefix/kind/fingerprint
Entry == [prefix: Prefix, of: Secret]

\* The headers that decide what is done with a body: how it is encoded and what it is.
Message == [encoding: {"none", "identity", "gzip"},
            type: {"none", "json", "events", "image"}, body: Text]

Command == [op: {"seal", "env seal"}, prefix: Prefix, text: Text]
             \cup [op: {"interactive"}, args: Seq(Text), lines: Seq(Text)]
             \cup [op: {"piped"}, args: Seq(Text), input: Text]
             \cup [op: {"delete"}, key: Entry] \cup [op: {"env run"}]
             \cup [op: {"exchange"}, request: Message, reply: Message]

ASSUME OffersAssumption ==
  /\ \A p \in Party : \A cmd \in Offers[p] : cmd \in Command
  /\ Runs \in Nat

ASSUME PieceAssumption ==
  /\ {Plain, Foreign, Garbled} \cap (Secret \cup Handle) = {}
  /\ Plain # Foreign
  /\ {"proxy/request", "proxy/response"} \cap Kind = {}   \* a kind has no slash

VARIABLES
  vault,      \* the keys in the vault file
  env,        \* what `env seal` wrote, or Nothing
  run,        \* per party, the command under way
  left,       \* how many times it may still begin one
  handed,     \* history: keys whose handles were given out by commands that were apart,
              \* and that were not deleted since
  unresolved  \* history: keys of handed for whose handle resolve_handle found nothing

vars == <<vault, env, run, left, handed, unresolved>>

Init ==
  /\ vault = {} /\ env = Nothing
  /\ run = [p \in Party |-> Nothing]
  /\ left = [p \in Party |-> Runs]
  /\ handed = {} /\ unresolved = {}

Busy == {p \in Party : run[p] # Nothing}

-----------------------------------------------------------------------------
(* The steps of a command.                                                 *)

Sealed(text) ==
  [i \in DOMAIN text |-> IF text[i] \in Secret THEN [to |-> text[i]] ELSE text[i]]
Findings(text) == {i \in DOMAIN text : text[i] \in Secret}
Keys(prefix, text) == {[prefix |-> prefix, of |-> text[i]] : i \in Findings(text)}

Open == << [do |-> "open"] >>
ScanAndSeal(prefix, text) == << [do |-> "scan", prefix |-> prefix, text |-> text] >>
GiveOut(keys) == << [do |-> "give", keys |-> keys] >>

GivenBeforeStored(prefix, text) ==   \* faulty: the text is out before the vault has its secrets
  GiveOut(Keys(prefix, text)) \o ScanAndSeal(prefix, text)

\* seal, hook and pipe: the sealed text is printed last
SealText(prefix, text) == ScanAndSeal(prefix, text) \o GiveOut(Keys(prefix, text))

\* sanitized_command: one scan_and_seal for each argument
Sanitized(prefix, args) == [i \in 1..Len(args) |-> ScanAndSeal(prefix, args[i])[1]]
AllKeys(prefix, texts) == UNION {Keys(prefix, texts[i]) : i \in 1..Len(texts)}

\* the terminal: every line is sealed and then written
Terminal(lines) ==
  [i \in 1..(2 * Len(lines)) |-> SealText("pty", lines[(i + 1) \div 2])[2 - (i % 2)]]

\* run_interactive: the arguments first, and then one line after the other.  What the
\* program prints is shown redacted, with handles that nobody stores: not modelled.
Interactive(args, lines) ==
  Sanitized("pty-arg", args) \o GiveOut(AllKeys("pty-arg", args)) \o Terminal(lines)

\* run_piped: all of the input, the arguments, and then the program runs
Piped(args, input) ==
  ScanAndSeal("run", input) \o Sanitized("run-arg", args)
    \o GiveOut(Keys("run", input) \cup AllKeys("run-arg", args))

\* fs::write truncates the file and then writes it
EnvSeal(prefix, text) ==
  ScanAndSeal(prefix, text)
    \o << [do |-> "truncate"],
          [do |-> "write", text |-> Sealed(text), keys |-> Keys(prefix, text)] >>

EnvRun(entries) ==
  Open \o [i \in 1..Len(entries) |-> [do |-> "resolve", piece |-> entries[i]]]

\* delete_secret saves, and the command saves once more
DeleteSecret(key) ==
  Open \o << [do |-> "drop", of |-> key], [do |-> "drop", of |-> key] >>

-----------------------------------------------------------------------------
(* The proxy.                                                              *)

AnyEncoding(m) == m.type \in {"none", "json"}   \* faulty: content-encoding is not looked at

BodyIsRewritable(m) == m.encoding \in {"none", "identity"} /\ m.type \in {"none", "json"}

Lossy(text) == [i \in DOMAIN text |-> IF text[i] = Foreign THEN Garbled ELSE text[i]]

PassOn(m, is, keys) == << [do |-> "pass", was |-> m, is |-> is, keys |-> keys] >>

\* One direction of an exchange.  The vault is opened only when there is something
\* to store.
Relayed(prefix, m) ==
  IF ~BodyIsRewritable(m) THEN PassOn(m, m, {})
  ELSE LET text == Lossy(m.body)
           store == IF Findings(text) = {} THEN <<>> ELSE ScanAndSeal(prefix, text) IN
       store \o PassOn(m, [m EXCEPT !.body = Sealed(text)], Keys(prefix, text))

Exchange(request, reply) ==
  Relayed("proxy/request", request) \o Relayed("proxy/response", reply)

-----------------------------------------------------------------------------
Script(cmd) ==
  CASE cmd.op = "seal" -> SealText(cmd.prefix, cmd.text)
    [] cmd.op = "interactive" -> Interactive(cmd.args, cmd.lines)
    [] cmd.op = "piped" -> Piped(cmd.args, cmd.input)
    [] cmd.op = "env seal" -> EnvSeal(cmd.prefix, cmd.text)
    [] cmd.op = "env run" -> EnvRun(env)
    [] cmd.op = "delete" -> DeleteSecret(cmd.key)
    [] cmd.op = "exchange" -> Exchange(cmd.request, cmd.reply)

\* A session is apart while no other command holds the vault when it does, and nothing
\* that it scans is deleted: what it holds is then all that is in the file.
Begin(p, cmd) ==
  /\ p \notin Busy /\ left[p] > 0
  /\ cmd.op = "env run" => env # Nothing   \* read_to_string fails
  /\ left' = [left EXCEPT ![p] = @ - 1]
  /\ run' = [run EXCEPT ![p] =
       [script |-> Script(cmd), at |-> 1, todo |-> {}, copy |-> {}, apart |-> TRUE]]
  /\ UNCHANGED <<vault, env, handed, unresolved>>

Doing(p) == run[p].script[run[p].at]
At(p, do) == p \in Busy /\ run[p].at <= Len(run[p].script) /\ Doing(p).do = do
NextStep(p) == [run[p] EXCEPT !.at = @ + 1]
Advance(p) == run' = [run EXCEPT ![p] = NextStep(p)]
Give(p, keys) == handed' = IF run[p].apart THEN handed \cup keys ELSE handed

\* A copy of the vault that may still be saved over the file: while a scan stores what
\* it found, and to the last use of a vault that was opened for the command.
HoldsVault(session) ==
  \/ session.todo # {}
  \/ /\ session.at <= Len(session.script)
     /\ session.script[session.at].do \in {"resolve", "drop"}
Others(p) == {q \in Busy \ {p} : HoldsVault(run[q])}

\* p goes on as session, and the parties of met are no longer apart
Meet(p, session, met) ==
  run' = [q \in Party |-> IF q = p THEN session
                          ELSE IF q \in met THEN [run[q] EXCEPT !.apart = FALSE]
                          ELSE run[q]]
\* Vault::open: p goes on as session, with what the file holds
TakeCopy(p, session) ==
  Meet(p, [session EXCEPT !.copy = vault, !.apart = @ /\ Others(p) = {}], Others(p))

\* the commands that keep the vault open to their end
OpenVault(p) ==
  /\ At(p, "open")
  /\ TakeCopy(p, NextStep(p))
  /\ UNCHANGED <<vault, env, left, handed, unresolved>>

\* scan_and_seal reads the file again; the vault it opens ends with it
Scan(p) ==
  /\ At(p, "scan") /\ run[p].todo = {}
  /\ IF Findings(Doing(p).text) = {} THEN Advance(p)
     ELSE TakeCopy(p, [run[p] EXCEPT !.todo = Findings(Doing(p).text)])
  /\ UNCHANGED <<vault, env, left, handed, unresolved>>

Stored(p, i, copy) ==   \* the session once finding i is in the copy
  IF run[p].todo = {i} THEN [NextStep(p) EXCEPT !.copy = {}, !.todo = {}]
  ELSE [run[p] EXCEPT !.copy = copy, !.todo = @ \ {i}]

\* add_key, in the order of the text: a name that is there already is skipped,
\* anything else saves the copy
Store(p) ==
  /\ At(p, "scan")
  /\ \E i \in run[p].todo :
       LET key == [prefix |-> Doing(p).prefix, of |-> Doing(p).text[i]]
           copy == run[p].copy \cup {key} IN
       /\ \A j \in run[p].todo : i <= j
       /\ vault' = IF key \in run[p].copy THEN vault ELSE copy
       /\ run' = [run EXCEPT ![p] = Stored(p, i, copy)]
  /\ UNCHANGED <<env, left, handed, unresolved>>

\* print, write to the program's terminal or start it
GiveHandles(p) ==
  /\ At(p, "give")
  /\ Give(p, Doing(p).keys) /\ Advance(p)
  /\ UNCHANGED <<vault, env, left, unresolved>>

\* send_request, or the answer to the client
PassMessage(p) ==
  /\ At(p, "pass")
  /\ Give(p, Doing(p).keys) /\ Advance(p)
  /\ UNCHANGED <<vault, env, left, unresolved>>

TruncateEnv(p) ==
  /\ At(p, "truncate")
  /\ env' = <<>> /\ Advance(p)
  /\ UNCHANGED <<vault, left, handed, unresolved>>

WriteEnv(p) ==
  /\ At(p, "write")
  /\ env' = Doing(p).text
  /\ Give(p, Doing(p).keys) /\ Advance(p)
  /\ UNCHANGED <<vault, left, unresolved>>

AnyKind(key) == "generic"   \* faulty: names are never split

\* classify_kind, when the key is made: the first component of its name
KeyKind(key) ==
  IF key.prefix \in {"proxy/request", "proxy/response"} THEN "proxy" ELSE key.prefix

Matching(piece, keys) == {key \in keys : piece = [to |-> key.of] /\ KeyKind(key) = key.of.kind}

\* resolve_handle, and use_key's save of the copy
Resolve(p) ==
  /\ At(p, "resolve")
  /\ LET piece == Doing(p).piece
         found == Matching(piece, run[p].copy) # {} IN
     /\ vault' = IF found THEN run[p].copy ELSE vault
     /\ unresolved' = unresolved
          \cup (IF found THEN {} ELSE {key \in handed : piece = [to |-> key.of]})
  /\ Advance(p)
  /\ UNCHANGED <<env, left, handed>>

Scans(p, key) ==
  \E i \in DOMAIN run[p].script : LET step == run[p].script[i] IN
    step.do = "scan" /\ key \in Keys(step.prefix, step.text)

\* remove_key and save
Drop(p) ==
  /\ At(p, "drop")
  /\ LET copy == run[p].copy \ {Doing(p).of} IN
     /\ vault' = copy
     /\ Meet(p, [NextStep(p) EXCEPT !.copy = copy], {q \in Busy : Scans(q, Doing(p).of)})
  /\ handed' = handed \ {Doing(p).of}
  /\ UNCHANGED <<env, left, unresolved>>

Finish(p) ==
  /\ p \in Busy /\ run[p].at > Len(run[p].script)
  /\ run' = [run EXCEPT ![p] = Nothing]
  /\ UNCHANGED <<vault, env, left, handed, unresolved>>

\* an error, the end of the process, or the client closes its connection; a file
\* that was being written has the beginning of the text
Stops(p) ==
  /\ p \in Busy
  /\ run' = [run EXCEPT ![p] = Nothing]
  /\ \/ UNCHANGED env
     \/ /\ At(p, "write")
        /\ \E n \in 1..(Len(Doing(p).text) - 1) : env' = SubSeq(Doing(p).text, 1, n)
  /\ UNCHANGED <<vault, left, handed, unresolved>>

Step(p) ==
  \/ OpenVault(p) \/ Scan(p) \/ Store(p) \/ GiveHandles(p) \/ PassMessage(p) \/ TruncateEnv(p)
  \/ WriteEnv(p) \/ Resolve(p) \/ Drop(p) \/ Finish(p)

Next == \E p \in Party : Step(p) \/ Stops(p) \/ \E cmd \in Offers[p] : Begin(p, cmd)

Spec == Init /\ [][Next]_vars

-----------------------------------------------------------------------------
(* What must hold.                                                         *)

\* README.md:187 "Stores the raw secret locally and replaces it with an opaque
\* handle": what a command gave out stays stored until it is deleted, in the file and in
\* every copy that may be saved over it, whatever the commands are that run into each
\* other or are cut, if only no other held the vault while this one stored.
HandlesAreKept ==
  /\ handed \subseteq vault
  /\ \A p \in Busy : HoldsVault(run[p]) => handed \subseteq run[p].copy

\* README.md:280 "Scans uncompressed textual/JSON request and response bodies; streams,
\* compressed bodies ... pass through unchanged": a message that states its content type
\* leaves the proxy with every secret of it sealed or exactly as it came.
SealedOrUntouched ==
  \A p \in Busy : At(p, "pass") /\ Doing(p).was.type # "none" =>
    LET was == Doing(p).was   is == Doing(p).is IN
    IF was.type = "json" /\ was.encoding # "gzip"
    THEN /\ Findings(is.body) = {}
         /\ \A i \in DOMAIN was.body : was.body[i] = Plain => is.body[i] = Plain
    ELSE is = was

\* docs/QUICKSTART.md:69 "lockrail env run --file .env.lockrail -- <command>": the program
\* gets the secrets that `env seal` put handles for, as long as they are not deleted.
HandlesResolve == unresolved = {}

\* They do resolve where the name of a key begins with the kind of its secret.
HandlesUnderTheirKindResolve == \A key \in unresolved : key.prefix # key.of.kind
=============================================================================
