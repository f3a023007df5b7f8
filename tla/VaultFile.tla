------------------------------ MODULE VaultFile ------------------------------
(***************************************************************************)
(* Operators at work on one vault.lockrail (crates/lockrail-vault and the  *)
(* agent and secret commands of lockrail-cli).  A command opens the vault, *)
(* which reads the whole file under a lock and lets the lock go, edits its *)
(* copy, and saves the whole copy after every edit: lock, write            *)
(* vault.tmp, rename it over the vault, unlock.  Public agent documents    *)
(* are files of their own, written with no lock.                           *)
(*                                                                         *)
(* A command is a script of edits; between any two of its steps the other  *)
(* operators run, and it may end there (a crash, a failed write).          *)
(***************************************************************************)
EXTENDS Integers, FiniteSets, Sequences

CONSTANTS
  Operator,   \* processes that run commands
  Agent,      \* agent ids, in the order of the vault's BTreeMap
  Name,       \* names agents are given; many agents may share one
  Secret,     \* credentials other than agent keys
  Ops,        \* the commands operators run
  Torn,       \* contents of a file that was truncated and not written whole
  Free,       \* the vault's lock when nobody holds it
  Nothing     \* no value yet

Command == [op: {"create", "ensure"}, of: Name]
             \cup [op: {"rotate", "revoke"}, of: Name \cup Agent]
             \cup [op: {"delete"}, of: Secret]
             \cup [op: {"import"}, of: Seq(Secret)]   \* secret set: one of them

ASSUME OperatorAssumption ==
  /\ Agent \subseteq Nat
  /\ Ops \subseteq Command
  /\ Free \notin Operator /\ Nothing \notin Name \cup Agent

\* a name is None until agents has a record of the id
Vault == [name: [Agent -> Name \cup {Nothing}], private: SUBSET Agent,
          barred: SUBSET Agent, secrets: SUBSET Secret]
Contents == Vault \cup {Torn}
Edit == [do: {"key", "bar", "publish", "retract"}, of: Agent]
          \cup [do: {"record"}, of: Agent, name: Name]
          \cup [do: {"put", "drop"}, of: Secret] \cup {[do |-> "same"]}
Session == [cmd: Ops, copy: Vault, script: Seq(Edit), at: Nat \ {0},
            phase: {"edit", "write", "rename"}, alone: BOOLEAN]

ASSUME MarkAssumption == Torn \notin Vault /\ Nothing \notin Session

VARIABLES
  file, tmp, lock,   \* vault.lockrail, vault.tmp, vault.lock
  docs,              \* <id>.agent.json, per agent
  run,               \* per operator: the command under way
  issued,            \* agent ids generated so far; uuids never repeat
  settled,           \* history: edits to agents by commands that met no other
  overlapped         \* history: two commands were once under way at the same time

vars == <<file, tmp, lock, docs, run, issued, settled, overlapped>>

Init ==
  /\ file = [name |-> [a \in Agent |-> Nothing], private |-> {}, barred |-> {},
             secrets |-> {}]
  /\ tmp = Nothing /\ lock = Free
  /\ docs = [a \in Agent |-> "none"]
  /\ run = [p \in Operator |-> Nothing]
  /\ issued = {} /\ settled = {} /\ overlapped = FALSE

Busy == {p \in Operator : run[p] # Nothing}

-----------------------------------------------------------------------------
(* What a command does to the vault.                                       *)

Known(vault) == {a \in Agent : vault.name[a] # Nothing}
Called(handle, vault) == {a \in Known(vault) : handle \in {a, vault.name[a]}}

\* agent_by_name: the first match in the order of ids, revoked or not
Found(handle, vault) ==
  CHOOSE a \in Called(handle, vault) : \A b \in Called(handle, vault) : a <= b

SaveAgentRecordFirst(a, n) ==   \* faulty: the agent is listed before its key is in
  << [do |-> "record", of |-> a, name |-> n], [do |-> "key", of |-> a],
     [do |-> "publish", of |-> a] >>

\* save_agent: the private key, the record, the public document
SaveAgent(a, n) ==
  << [do |-> "key", of |-> a], [do |-> "record", of |-> a, name |-> n],
     [do |-> "publish", of |-> a] >>

RevokeAgentDocFirst(a) == << [do |-> "retract", of |-> a], [do |-> "bar", of |-> a] >>   \* faulty

RevokeAgent(a) == << [do |-> "bar", of |-> a], [do |-> "retract", of |-> a] >>

RotateRevokeFirst(old, new, vault) ==   \* faulty: the old key goes before the new one is in
  RevokeAgent(old) \o SaveAgent(new, vault.name[old])

Rotate(old, new, vault) == SaveAgent(new, vault.name[old]) \o RevokeAgent(old)

Same == << [do |-> "same"] >>   \* the command's own save after the vault's

\* the steps of a command on the vault it opened; new is a generated id
Script(cmd, new, vault) ==
  CASE cmd.op = "create" -> SaveAgent(new, cmd.of)
    [] cmd.op = "ensure" -> IF Known(vault) = {} THEN SaveAgent(new, cmd.of) ELSE <<>>
    [] cmd.op = "rotate" -> Rotate(Found(cmd.of, vault), new, vault)
    [] cmd.op = "revoke" -> RevokeAgent(Found(cmd.of, vault))
    [] cmd.op = "delete" -> << [do |-> "drop", of |-> cmd.of] >> \o Same
    [] cmd.op = "import" ->
         [i \in 1..Len(cmd.of) |-> [do |-> "put", of |-> cmd.of[i]]] \o Same

Generates(cmd) == cmd.op \in {"create", "ensure", "rotate"}

Apply(edit, vault) ==
  CASE edit.do = "key"    -> [vault EXCEPT !.private = @ \cup {edit.of}]
    [] edit.do = "record" -> [vault EXCEPT !.name[edit.of] = edit.name]
    [] edit.do = "bar"    -> [vault EXCEPT !.barred = @ \cup {edit.of}]
    [] edit.do = "put"    -> [vault EXCEPT !.secrets = @ \cup {edit.of}]
    [] edit.do = "drop"   -> [vault EXCEPT !.secrets = @ \ {edit.of}]
    [] OTHER              -> vault

Saves(edit) == edit.do \notin {"publish", "retract"}

-----------------------------------------------------------------------------
(* Steps of an operator.                                                   *)

Doing(p) == run[p].script[run[p].at]
Pending(p) == run[p] # Nothing /\ run[p].at <= Len(run[p].script)
Saving(p) == [run[p] EXCEPT !.copy = Apply(Doing(p), @), !.phase = "write"]
Advance(p) == [run[p] EXCEPT !.at = @ + 1, !.phase = "edit"]

CanAlwaysLock == TRUE   \* faulty: a save does not lock

\* lock_exclusive returns
CanLock == lock = Free

Legacy(vault) ==   \* faulty: legacy_to_v2 on a version 2 file forgets the agents' state
  [vault EXCEPT !.barred = {}]

\* what Vault::open makes of the file
Loaded(vault) == vault

\* Vault::open, under the lock while it reads; a handle nobody has, or a file
\* that does not parse, ends the command at once
Open(p) ==
  /\ p \notin Busy /\ CanLock /\ file # Torn
  /\ \E cmd \in Ops :
       /\ cmd.op \in {"rotate", "revoke"} => Called(cmd.of, file) # {}
       /\ \E new \in IF Generates(cmd) THEN Agent \ issued ELSE {Nothing} :
            /\ issued' = issued \cup ({new} \ {Nothing})
            /\ run' = [q \in Operator |->
                 IF q = p THEN [cmd |-> cmd, copy |-> Loaded(file),
                                script |-> Script(cmd, new, Loaded(file)),
                                at |-> 1, phase |-> "edit", alone |-> Busy = {}]
                 ELSE IF q \in Busy THEN [run[q] EXCEPT !.alone = FALSE] ELSE run[q]]
  /\ overlapped' = (overlapped \/ Busy # {})
  /\ UNCHANGED <<file, tmp, lock, docs, settled>>

\* edit the copy and save: the lock, then vault.tmp opened and truncated
Begin(p) ==
  /\ Pending(p) /\ run[p].phase = "edit" /\ Saves(Doing(p)) /\ CanLock
  /\ lock' = p /\ tmp' = Torn
  /\ run' = [run EXCEPT ![p] = Saving(p)]
  /\ UNCHANGED <<file, docs, issued, settled, overlapped>>

\* write_all and sync_all
Write(p) ==
  /\ Pending(p) /\ run[p].phase = "write"
  /\ tmp' = run[p].copy
  /\ run' = [run EXCEPT ![p].phase = "rename"]
  /\ UNCHANGED <<file, lock, docs, issued, settled, overlapped>>

\* the rename, and the lock is dropped
Replace(p) ==
  /\ Pending(p) /\ run[p].phase = "rename" /\ tmp # Nothing
  /\ file' = tmp /\ tmp' = Nothing /\ lock' = Free
  /\ run' = [run EXCEPT ![p] = Advance(p)]
  /\ UNCHANGED <<docs, issued, settled, overlapped>>

Publishes(p) == Pending(p) /\ run[p].phase = "edit" /\ ~Saves(Doing(p))
Rivals(p) == {q \in Operator \ {p} : Publishes(q) /\ Doing(q).of = Doing(p).of}

\* write_public_agent_doc: <id>.agent.tmp is truncated, written and renamed with no lock.
\* When another command is at the same document they share that file, and what is renamed
\* may be truncated, or pieces of both.
Publish(p) ==
  /\ Publishes(p)
  /\ \E doc \in {IF Doing(p).do = "publish" THEN "valid" ELSE "revoked"}
                  \cup (IF Rivals(p) = {} THEN {} ELSE {Torn}) :
       docs' = [docs EXCEPT ![Doing(p).of] = doc]
  /\ run' = [run EXCEPT ![p] = Advance(p)]
  /\ UNCHANGED <<file, tmp, lock, issued, settled, overlapped>>

AgentEdits(p) == {e \in {run[p].script[i] : i \in DOMAIN run[p].script} :
                    e.do \in {"key", "record", "bar"}}

\* the command reports success
Finish(p) ==
  /\ run[p] # Nothing /\ ~Pending(p)
  /\ run' = [run EXCEPT ![p] = Nothing]
  /\ settled' = IF run[p].alone THEN settled \cup AgentEdits(p) ELSE settled
  /\ UNCHANGED <<file, tmp, lock, docs, issued, overlapped>>

\* the command ends early: killed, or a write of its own failed
Stops(p) ==
  /\ run[p] # Nothing
  /\ run' = [run EXCEPT ![p] = Nothing]
  /\ lock' = IF lock = p THEN Free ELSE lock
  /\ UNCHANGED <<file, tmp, docs, issued, settled, overlapped>>

Act(p) == Begin(p) \/ Write(p) \/ Replace(p) \/ Publish(p) \/ Finish(p)

Next == \E p \in Operator : Open(p) \/ Act(p) \/ Stops(p)

Spec == Init /\ [][Next]_vars

-----------------------------------------------------------------------------
(* What must hold.                                                         *)

\* Every variable keeps its type, and the lock is held exactly by the operator
\* between its truncation of vault.tmp and its rename.
VaultTypeOK ==
  /\ file \in Contents /\ tmp \in Contents \cup {Nothing}
  /\ lock \in Operator \cup {Free}
  /\ docs \in [Agent -> {"none", "valid", "revoked", Torn}]
  /\ run \in [Operator -> Session \cup {Nothing}]
  /\ issued \subseteq Agent
  /\ settled \subseteq Edit /\ overlapped \in BOOLEAN
  /\ \A p \in Operator :
       lock = p <=> run[p] # Nothing /\ run[p].phase \in {"write", "rename"}

\* However saves of several operators interleave and wherever they are cut
\* short, vault.lockrail is one operator's whole copy: with a single vault.tmp
\* for all of them it is the lock that keeps a truncated one from being renamed.
FileIsWhole ==
  /\ file # Torn
  /\ \A p \in Busy : run[p].phase = "rename" => tmp = run[p].copy

\* No agent is listed whose private key is not in the vault, in no state that a
\* cut command or an overwritten save can leave: load_agent can serve it.
ListedAgentsHaveKeys == file # Torn => Known(file) \subseteq file.private

Usable(n, vault) ==
  \E a \in Called(n, vault) : a \in vault.private /\ a \notin vault.barred

\* Without a revocation by hand a name never loses its last usable key: rotation
\* adds the new key before it revokes the old one, in every order of saves.
NamesStayUsable ==
  file # Torn => \A n \in Name : Called(n, file) # {} => Usable(n, file)

Kept(edit, vault) == Apply(edit, vault) = vault

\* What a command did to the agents is never undone when no other command was under way:
\* neither in the file nor in any copy that may still be saved over it.
UndisturbedIsKept ==
  \A edit \in settled :
    /\ file # Torn => Kept(edit, file)
    /\ \A p \in Busy : Kept(edit, run[p].copy)

\* As long as no two commands met, and wherever one was cut, the public documents
\* do not run ahead of the vault: an agent announced is listed, and one announced as
\* revoked is revoked in the vault.
DocsFollowVault ==
  file # Torn /\ ~overlapped =>
    \A a \in Agent : /\ docs[a] # "none" => a \in Known(file)
                     /\ docs[a] = "revoked" => a \in file.barred
=============================================================================
