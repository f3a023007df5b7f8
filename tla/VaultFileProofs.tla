--------------------------- MODULE VaultFileProofs ---------------------------
(***************************************************************************)
(* Theorems about VaultFile, for every number of operators, agents, names, *)
(* secrets and every set of commands: that the file is whole, then what    *)
(* the file and the copies operators work on contain (keys, what settled,  *)
(* usable names), and the public documents beside it.                      *)
(***************************************************************************)
EXTENDS VaultFile, SequenceTheorems, FiniteSetTheorems,
        WellFoundedInduction, TLAPS

\* A set of naturals that is not empty has a least element: the initial segment
\* of a member is finite, and strict inclusion of finite sets is well-founded.
LEMMA LeastExists ==
  ASSUME NEW S \in SUBSET Nat, S # {}
  PROVE  \E a \in S : \A b \in S : a <= b
<1> DEFINE Below(k) == {m \in S : m <= k}
           T == {Below(k) : k \in S}
           R == StrictSubsetOrdering(Nat)
<1>1. \A k \in S : IsFiniteSet(Below(k))
  <2> TAKE k \in S
  <2> HIDE DEF Below
  <2>1. Below(k) \in SUBSET Nat /\ \A m \in Below(k) : m <= k
    BY DEF Below
  <2> QED
    BY <2>1, FS_BoundedSetOfNaturals
<1>2. T \subseteq FiniteSubsetsOf(Nat) /\ T # {}
  BY <1>1 DEF FiniteSubsetsOf
<1>3. IsWellFoundedOn(R, FiniteSubsetsOf(Nat))
  BY FS_StrictSubsetOrderingWellFounded
<1>4. \E X \in T : \A Y \in T : ~(<<Y, X>> \in R)
  <2> HIDE DEF T, R
  <2> QED
    BY <1>2, <1>3, WFMin
<1>5. PICK a \in S : \A b \in S : ~(<<Below(b), Below(a)>> \in R)
  BY <1>4
<1>6. ASSUME NEW b \in S, ~(a <= b) PROVE FALSE
  <2>0. /\ a \in Nat /\ b \in Nat /\ b < a
        /\ \A m \in S : m <= b => m <= a
    BY <1>6
  <2>1. /\ Below(b) \subseteq Below(a)
        /\ a \in Below(a)
        /\ a \notin Below(b)
    <3>1. Below(b) \subseteq Below(a)
      BY <2>0
    <3>2. a <= a /\ ~(a <= b)
      BY <2>0
    <3> QED
      BY <3>1, <3>2
  <2>2. <<Below(b), Below(a)>> \in R
    BY <2>1 DEF StrictSubsetOrdering
  <2> QED
    BY <1>5, <2>2
<1> QED
  BY <1>6

\* agent_by_name has a first match as soon as it has one.
LEMMA FoundIsCalled ==
  ASSUME NEW vault, NEW handle, Called(handle, vault) # {}
  PROVE  Found(handle, vault) \in Called(handle, vault)
<1>1. Called(handle, vault) \in SUBSET Nat
  BY OperatorAssumption DEF Called, Known
<1>2. \E a \in Called(handle, vault) : \A b \in Called(handle, vault) : a <= b
  BY <1>1, LeastExists
<1> QED
  BY <1>2, Zenon DEF Found

LEMMA ApplyType ==
  ASSUME NEW edit \in Edit, NEW vault \in Vault
  PROVE  Apply(edit, vault) \in Vault
<1>1. CASE edit.do = "key"
  BY <1>1 DEF Apply, Edit, Vault
<1>2. CASE edit.do = "record"
  BY <1>2 DEF Apply, Edit, Vault
<1>3. CASE edit.do = "bar"
  BY <1>3 DEF Apply, Edit, Vault
<1>4. CASE edit.do = "put"
  BY <1>4 DEF Apply, Edit, Vault
<1>5. CASE edit.do = "drop"
  BY <1>5 DEF Apply, Edit, Vault
<1>6. CASE edit.do \notin {"key", "record", "bar", "put", "drop"}
  BY <1>6 DEF Apply
<1> QED
  BY <1>1, <1>2, <1>3, <1>4, <1>5, <1>6

LEMMA SaveAgentType ==
  ASSUME NEW a \in Agent, NEW n \in Name
  PROVE  SaveAgent(a, n) \in Seq(Edit)
  BY DEF SaveAgent, Edit

LEMMA RevokeAgentType ==
  ASSUME NEW a \in Agent
  PROVE  RevokeAgent(a) \in Seq(Edit)
  BY DEF RevokeAgent, Edit

\* A command that may open has a script of edits.
LEMMA ScriptType ==
  ASSUME NEW cmd \in Ops, NEW vault \in Vault, NEW new,
         Generates(cmd) => new \in Agent,
         cmd.op \in {"rotate", "revoke"} => Called(cmd.of, vault) # {}
  PROVE  Script(cmd, new, vault) \in Seq(Edit)
<1>1. cmd \in Command
  BY OperatorAssumption
<1>2. cmd.op \in {"create", "ensure", "rotate", "revoke", "delete", "import"}
  BY <1>1 DEF Command
<1>3. Same \in Seq(Edit)
  BY DEF Same, Edit
<1>4. CASE cmd.op = "create"
  <2>1. cmd.of \in Name /\ new \in Agent
    BY <1>1, <1>4 DEF Command, Generates
  <2> QED
    BY <2>1, <1>4, SaveAgentType DEF Script
<1>5. CASE cmd.op = "ensure"
  <2>1. cmd.of \in Name /\ new \in Agent
    BY <1>1, <1>5 DEF Command, Generates
  <2> QED
    BY <2>1, <1>5, SaveAgentType DEF Script
<1>6. ASSUME cmd.op \in {"rotate", "revoke"}
      PROVE  /\ Found(cmd.of, vault) \in Agent
             /\ vault.name[Found(cmd.of, vault)] \in Name
  BY <1>6, FoundIsCalled DEF Called, Known, Vault
<1>7. CASE cmd.op = "rotate"
  <2>1. new \in Agent
    BY <1>7 DEF Generates
  <2>2. Rotate(Found(cmd.of, vault), new, vault) \in Seq(Edit)
    BY <2>1, <1>6, <1>7, SaveAgentType, RevokeAgentType, ConcatProperties DEF Rotate
  <2> QED
    BY <2>2, <1>7 DEF Script
<1>8. CASE cmd.op = "revoke"
  BY <1>6, <1>8, RevokeAgentType DEF Script
<1>9. CASE cmd.op = "delete"
  <2>1. << [do |-> "drop", of |-> cmd.of] >> \in Seq(Edit)
    BY <1>1, <1>9 DEF Command, Edit
  <2> QED
    BY <2>1, <1>3, <1>9, ConcatProperties DEF Script
<1>10. CASE cmd.op = "import"
  <2>1. cmd.of \in Seq(Secret)
    BY <1>1, <1>10 DEF Command
  <2>2. /\ Len(cmd.of) \in Nat
        /\ \A i \in 1..Len(cmd.of) : [do |-> "put", of |-> cmd.of[i]] \in Edit
    BY <2>1 DEF Edit
  <2>3. [i \in 1..Len(cmd.of) |-> [do |-> "put", of |-> cmd.of[i]]] \in Seq(Edit)
    BY <2>2
  <2> QED
    BY <2>3, <1>3, <1>10, ConcatProperties DEF Script
<1> QED
  BY <1>2, <1>4, <1>5, <1>7, <1>8, <1>9, <1>10

\* The command that owns the lock still has the edit it is saving.
MidSave == \A p \in Busy : run[p].phase # "edit" => Pending(p)

\* vault.tmp holds what the owner of the lock wrote, and that is a whole copy.
VaultInv == VaultTypeOK /\ FileIsWhole /\ MidSave

LEMMA BusyFacts ==
  ASSUME VaultTypeOK, NEW p \in Operator, run[p] # Nothing
  PROVE  /\ run[p] \in Session
         /\ run[p].copy \in Vault
         /\ run[p].script \in Seq(Edit)
         /\ run[p].at \in Nat \ {0}
         /\ Len(run[p].script) \in Nat
         /\ DOMAIN run[p].script = 1..Len(run[p].script)
         /\ Pending(p) => Doing(p) \in Edit
<1>1. run[p] \in Session
  BY DEF VaultTypeOK
<1>2. /\ run[p].copy \in Vault
      /\ run[p].script \in Seq(Edit)
      /\ run[p].at \in Nat \ {0}
  BY <1>1 DEF Session
<1>3. /\ Len(run[p].script) \in Nat
      /\ DOMAIN run[p].script = 1..Len(run[p].script)
  BY <1>2, LenProperties
<1>4. Pending(p) => Doing(p) \in Edit
  BY <1>2, <1>3, ElementOfSeq DEF Pending, Doing
<1> QED
  BY <1>1, <1>2, <1>3, <1>4

LEMMA VaultInitially == Init => VaultInv
<1> SUFFICES ASSUME Init PROVE VaultInv
  OBVIOUS
<1>1. file \in Vault
  BY DEF Init, Vault
<1>2. VaultTypeOK
  BY <1>1, OperatorAssumption DEF Init, VaultTypeOK, Contents
<1>3. FileIsWhole
  BY <1>1, MarkAssumption DEF Init, FileIsWhole, Busy
<1>4. MidSave
  BY DEF Init, MidSave, Busy
<1> QED
  BY <1>2, <1>3, <1>4 DEF VaultInv

LEMMA OpenKeeps ==
  ASSUME VaultInv, NEW p \in Operator, Open(p)
  PROVE  VaultInv'
<1> DEFINE Opened(cmd, new) ==
      [cmd |-> cmd, copy |-> Loaded(file), script |-> Script(cmd, new, Loaded(file)),
       at |-> 1, phase |-> "edit", alone |-> Busy = {}]
<1> USE DEF VaultInv
<1>1. /\ lock = Free /\ file \in Vault /\ run[p] = Nothing
      /\ UNCHANGED <<file, tmp, lock, docs, settled>>
  BY DEF Open, CanLock, VaultTypeOK, Contents, Busy
<1>2. PICK cmd \in Ops, new \in Agent \cup {Nothing} :
        /\ new \in IF Generates(cmd) THEN Agent \ issued ELSE {Nothing}
        /\ cmd.op \in {"rotate", "revoke"} => Called(cmd.of, file) # {}
        /\ issued' = issued \cup ({new} \ {Nothing})
        /\ run' = [q \in Operator |->
                     IF q = p THEN Opened(cmd, new)
                     ELSE IF q \in Busy THEN [run[q] EXCEPT !.alone = FALSE] ELSE run[q]]
  BY DEF Open
<1>3. Opened(cmd, new) \in Session
  <2>1. Script(cmd, new, file) \in Seq(Edit)
    BY <1>1, <1>2, ScriptType
  <2> QED
    BY <1>1, <2>1 DEF Session, Loaded
<1>4. \A q \in Busy : /\ [run[q] EXCEPT !.alone = FALSE] \in Session
                      /\ [run[q] EXCEPT !.alone = FALSE].phase = run[q].phase
                      /\ [run[q] EXCEPT !.alone = FALSE].copy = run[q].copy
                      /\ [run[q] EXCEPT !.alone = FALSE].script = run[q].script
                      /\ [run[q] EXCEPT !.alone = FALSE].at = run[q].at
  BY DEF VaultTypeOK, Busy, Session
<1> HIDE DEF Opened
<1>5. run' \in [Operator -> Session \cup {Nothing}]
  BY <1>2, <1>3, <1>4 DEF VaultTypeOK, Busy
<1>6. \A q \in Operator : q # p =>
        /\ run'[q] # Nothing => run[q] # Nothing
        /\ run[q] # Nothing => /\ run'[q] # Nothing
                               /\ run'[q].phase = run[q].phase
                               /\ run'[q].copy = run[q].copy
                               /\ run'[q].script = run[q].script
                               /\ run'[q].at = run[q].at
  BY <1>2, <1>4, MarkAssumption DEF VaultTypeOK, Busy
<1>7. run'[p].phase = "edit"
  BY <1>2 DEF Opened
<1>8. issued' \subseteq Agent
  BY <1>2 DEF VaultTypeOK
<1>overlap. overlapped' \in BOOLEAN
  BY DEF Open, VaultTypeOK
<1>9. VaultTypeOK'
  BY <1>1, <1>5, <1>6, <1>7, <1>8, <1>overlap DEF VaultTypeOK
<1>10. FileIsWhole'
  BY <1>1, <1>6, <1>7 DEF FileIsWhole, Busy
<1>11. MidSave'
  BY <1>6, <1>7 DEF MidSave, Busy, Pending
<1> QED
  BY <1>9, <1>10, <1>11

LEMMA BeginKeeps ==
  ASSUME VaultInv, NEW p \in Operator, Begin(p)
  PROVE  VaultInv'
<1> USE DEF VaultInv
<1>1. /\ run[p] \in Session /\ run[p] # Nothing /\ Pending(p)
      /\ Apply(Doing(p), run[p].copy) \in Vault
  BY BusyFacts, ApplyType DEF Begin, Pending
<1>2. /\ lock = Free /\ lock' = p /\ tmp' = Torn
      /\ run' = [run EXCEPT ![p] = Saving(p)]
      /\ UNCHANGED <<file, docs, issued, settled, overlapped>>
  BY DEF Begin, CanLock
<1>3. /\ Saving(p) \in Session /\ Saving(p).phase = "write"
      /\ Saving(p).at = run[p].at /\ Saving(p).script = run[p].script
  BY <1>1 DEF Session, Saving
<1>4. /\ run'[p] = Saving(p)
      /\ \A q \in Operator : q # p => run'[q] = run[q]
      /\ run' \in [Operator -> Session \cup {Nothing}]
  BY <1>2, <1>3 DEF VaultTypeOK
<1>5. \A q \in Operator : run[q] # Nothing => run[q].phase \notin {"write", "rename"}
  BY <1>2, OperatorAssumption DEF VaultTypeOK
<1>6. VaultTypeOK'
  BY <1>2, <1>3, <1>4, <1>5, MarkAssumption DEF VaultTypeOK, Contents
<1>7. FileIsWhole'
  BY <1>2, <1>3, <1>4, <1>5 DEF FileIsWhole, Busy
<1>8. MidSave'
  BY <1>1, <1>3, <1>4 DEF MidSave, Busy, Pending
<1> QED
  BY <1>6, <1>7, <1>8

LEMMA WriteKeeps ==
  ASSUME VaultInv, NEW p \in Operator, Write(p)
  PROVE  VaultInv'
<1> DEFINE written == [run[p] EXCEPT !.phase = "rename"]
<1> USE DEF VaultInv
<1>1. /\ run[p] \in Session /\ run[p] # Nothing /\ Pending(p) /\ run[p].phase = "write"
      /\ run[p].copy \in Vault /\ lock = p
  BY BusyFacts DEF Write, Pending, VaultTypeOK
<1>2. /\ tmp' = run[p].copy /\ run' = [run EXCEPT ![p] = written]
      /\ UNCHANGED <<file, lock, docs, issued, settled, overlapped>>
  BY DEF Write
<1>3. /\ written \in Session /\ written.phase = "rename" /\ written.copy = run[p].copy
      /\ written.at = run[p].at /\ written.script = run[p].script
  BY <1>1 DEF Session
<1> HIDE DEF written
<1>4. /\ run'[p] = written
      /\ \A q \in Operator : q # p => run'[q] = run[q]
      /\ run' \in [Operator -> Session \cup {Nothing}]
  BY <1>2, <1>3 DEF VaultTypeOK
<1>5. \A q \in Operator : q # p /\ run[q] # Nothing => run[q].phase \notin {"write", "rename"}
  BY <1>1 DEF VaultTypeOK
<1>6. VaultTypeOK'
  BY <1>1, <1>2, <1>3, <1>4, MarkAssumption DEF VaultTypeOK, Contents
<1>7. FileIsWhole'
  BY <1>2, <1>3, <1>4, <1>5 DEF FileIsWhole, Busy
<1>8. MidSave'
  BY <1>1, <1>3, <1>4 DEF MidSave, Busy, Pending
<1> QED
  BY <1>6, <1>7, <1>8

LEMMA AdvanceFacts ==
  ASSUME VaultInv, NEW p \in Operator, run[p] # Nothing
  PROVE  /\ Advance(p) \in Session
         /\ Advance(p).phase = "edit" /\ Advance(p).copy = run[p].copy
         /\ Advance(p).script = run[p].script /\ Advance(p).at = run[p].at + 1
<1>1. run[p] \in Session /\ run[p].at + 1 \in Nat \ {0}
  BY BusyFacts DEF VaultInv
<1> QED
  BY <1>1 DEF Advance, Session

LEMMA ReplaceKeeps ==
  ASSUME VaultInv, NEW p \in Operator, Replace(p)
  PROVE  VaultInv'
<1> USE DEF VaultInv
<1>1. /\ run[p] # Nothing /\ run[p].phase = "rename" /\ run[p].copy \in Vault
      /\ lock = p /\ tmp = run[p].copy
  BY BusyFacts DEF Replace, Pending, VaultTypeOK, FileIsWhole, Busy
<1>2. /\ file' = run[p].copy /\ tmp' = Nothing /\ lock' = Free
      /\ run' = [run EXCEPT ![p] = Advance(p)]
      /\ UNCHANGED <<docs, issued, settled, overlapped>>
  BY <1>1 DEF Replace
<1>3. /\ run'[p] = Advance(p) /\ Advance(p).phase = "edit"
      /\ \A q \in Operator : q # p => run'[q] = run[q]
      /\ run' \in [Operator -> Session \cup {Nothing}]
  BY <1>1, <1>2, AdvanceFacts DEF VaultTypeOK
<1>4. \A q \in Operator : q # p /\ run[q] # Nothing => run[q].phase \notin {"write", "rename"}
  BY <1>1 DEF VaultTypeOK
<1>5. VaultTypeOK'
  BY <1>1, <1>2, <1>3, <1>4, OperatorAssumption DEF VaultTypeOK, Contents
<1>6. FileIsWhole'
  BY <1>1, <1>2, <1>3, <1>4, MarkAssumption DEF FileIsWhole, Busy
<1>7. MidSave'
  BY <1>3 DEF MidSave, Busy, Pending
<1> QED
  BY <1>5, <1>6, <1>7

LEMMA PublishKeeps ==
  ASSUME VaultInv, NEW p \in Operator, Publish(p)
  PROVE  VaultInv'
<1> USE DEF VaultInv
<1>1. /\ run[p] # Nothing /\ Doing(p) \in Edit
      /\ \E doc \in {"valid", "revoked", Torn} : docs' = [docs EXCEPT ![Doing(p).of] = doc]
      /\ run' = [run EXCEPT ![p] = Advance(p)]
      /\ UNCHANGED <<file, tmp, lock, issued, settled, overlapped>>
  BY BusyFacts DEF Publish, Publishes, Pending
<1>2. run[p].phase = "edit"
  BY DEF Publish, Publishes
<1>3. /\ run'[p] = Advance(p) /\ Advance(p).phase = "edit"
      /\ \A q \in Operator : q # p => run'[q] = run[q]
      /\ run' \in [Operator -> Session \cup {Nothing}]
  BY <1>1, AdvanceFacts DEF VaultTypeOK
<1>4. VaultTypeOK'
  BY <1>1, <1>2, <1>3 DEF VaultTypeOK
<1>5. FileIsWhole'
  BY <1>1, <1>3 DEF FileIsWhole, Busy
<1>6. MidSave'
  BY <1>3 DEF MidSave, Busy, Pending
<1> QED
  BY <1>4, <1>5, <1>6

LEMMA FinishKeeps ==
  ASSUME VaultInv, NEW p \in Operator, Finish(p)
  PROVE  VaultInv'
<1> USE DEF VaultInv
<1>1. /\ run[p] # Nothing /\ ~Pending(p)
      /\ run' = [run EXCEPT ![p] = Nothing]
      /\ UNCHANGED <<file, tmp, lock, docs, issued, overlapped>>
  BY DEF Finish
<1>2. run[p].phase = "edit"
  BY <1>1 DEF MidSave, Busy
<1>3. /\ run'[p] = Nothing
      /\ \A q \in Operator : q # p => run'[q] = run[q]
      /\ run' \in [Operator -> Session \cup {Nothing}]
  BY <1>1 DEF VaultTypeOK
<1>4. AgentEdits(p) \subseteq Edit
  BY <1>1, BusyFacts, ElementOfSeq DEF AgentEdits
<1>5. settled' \subseteq Edit
  BY <1>4 DEF Finish, VaultTypeOK
<1>6. VaultTypeOK'
  BY <1>1, <1>2, <1>3, <1>5 DEF VaultTypeOK
<1>7. FileIsWhole'
  BY <1>1, <1>3 DEF FileIsWhole, Busy
<1>8. MidSave'
  BY <1>3 DEF MidSave, Busy, Pending
<1> QED
  BY <1>6, <1>7, <1>8

LEMMA StopsKeeps ==
  ASSUME VaultInv, NEW p \in Operator, Stops(p)
  PROVE  VaultInv'
<1> USE DEF VaultInv
<1>1. /\ run[p] # Nothing
      /\ run' = [run EXCEPT ![p] = Nothing]
      /\ lock' = IF lock = p THEN Free ELSE lock
      /\ UNCHANGED <<file, tmp, docs, issued, settled, overlapped>>
  BY DEF Stops
<1>2. /\ run'[p] = Nothing
      /\ \A q \in Operator : q # p => run'[q] = run[q]
      /\ run' \in [Operator -> Session \cup {Nothing}]
  BY <1>1 DEF VaultTypeOK
<1>3. VaultTypeOK'
  BY <1>1, <1>2, OperatorAssumption DEF VaultTypeOK
<1>4. FileIsWhole'
  BY <1>1, <1>2 DEF FileIsWhole, Busy
<1>5. MidSave'
  BY <1>2 DEF MidSave, Busy, Pending
<1> QED
  BY <1>3, <1>4, <1>5

\* The invariant holds in every reachable state, whatever commands run.
THEOREM VaultInvariant == Spec => []VaultInv
<1>1. VaultInv /\ UNCHANGED vars => VaultInv'
  BY DEF VaultInv, vars, VaultTypeOK, FileIsWhole, MidSave, Busy, Pending
<1>2. VaultInv /\ [Next]_vars => VaultInv'
  BY <1>1, OpenKeeps, BeginKeeps, WriteKeeps, ReplaceKeeps, PublishKeeps, FinishKeeps,
     StopsKeeps DEF Next, Act
<1> QED
  BY VaultInitially, <1>2, PTL DEF Spec

\* Every variable keeps its type, and the lock is held exactly by the operator
\* that has truncated vault.tmp and not yet renamed it.
THEOREM VaultTypeCorrect == Spec => []VaultTypeOK
  BY VaultInvariant, PTL DEF VaultInv

\* vault.lockrail is always one operator's whole copy: no interleaving of saves
\* through the one vault.tmp, and no cut, puts anything else in its place.
THEOREM FileAlwaysWhole == Spec => []FileIsWhole
  BY VaultInvariant, PTL DEF VaultInv
-----------------------------------------------------------------------------
(* The scripts of commands.                                                *)

\* save_agent is where every script that lists an agent begins: the key first,
\* the record second, and no second record.
RecordComesSecond(script) ==
  \A i \in 1..Len(script) :
    script[i].do = "record" =>
      /\ i = 2
      /\ script[1] = [do |-> "key", of |-> script[i].of]

\* the records of a script are of the agent generated for it
RecordsOnly(script, a) ==
  \A i \in 1..Len(script) : script[i].do = "record" => script[i].of = a

LEMMA SaveAgentShape ==
  ASSUME NEW a \in Agent, NEW n \in Name
  PROVE  /\ Len(SaveAgent(a, n)) = 3
         /\ RecordComesSecond(SaveAgent(a, n))
         /\ RecordsOnly(SaveAgent(a, n), a)
  BY DEF SaveAgent, RecordComesSecond, RecordsOnly

LEMMA RevokeAgentShape ==
  ASSUME NEW a \in Agent
  PROVE  \A i \in 1..Len(RevokeAgent(a)) : RevokeAgent(a)[i].do # "record"
  BY DEF RevokeAgent

\* What follows save_agent in a script is no record.
LEMMA ConcatShape ==
  ASSUME NEW s \in Seq(Edit), NEW rest \in Seq(Edit), NEW a,
         Len(s) >= 1, RecordComesSecond(s), RecordsOnly(s, a),
         \A i \in 1..Len(rest) : rest[i].do # "record"
  PROVE  RecordComesSecond(s \o rest) /\ RecordsOnly(s \o rest, a)
<1>1. /\ Len(s \o rest) = Len(s) + Len(rest) /\ Len(rest) \in Nat /\ Len(s) \in Nat
      /\ \A i \in 1..Len(s) + Len(rest) :
           (s \o rest)[i] = IF i <= Len(s) THEN s[i] ELSE rest[i - Len(s)]
  <2>1. Len(rest) \in Nat /\ Len(s) \in Nat
    BY LenProperties
  <2> QED
    BY <2>1, ConcatProperties, Zenon
<1>2. SUFFICES ASSUME NEW i \in 1..Len(s \o rest), (s \o rest)[i].do = "record"
               PROVE  /\ i = 2 /\ (s \o rest)[1] = [do |-> "key", of |-> (s \o rest)[i].of]
                      /\ (s \o rest)[i].of = a
  BY DEF RecordComesSecond, RecordsOnly
<1>3. i <= Len(s)
  <2>1. CASE ~(i <= Len(s))
    <3>1. i - Len(s) \in 1..Len(rest) /\ (s \o rest)[i] = rest[i - Len(s)]
      BY <1>1, <2>1
    <3> QED
      BY <1>2, <3>1
  <2> QED
    BY <2>1
<1>4. (s \o rest)[i] = s[i] /\ (s \o rest)[1] = s[1] /\ i \in 1..Len(s)
  BY <1>1, <1>3
<1> QED
  BY <1>2, <1>4 DEF RecordComesSecond, RecordsOnly

LEMMA NoRecordShape ==
  ASSUME NEW s, NEW a, \A i \in 1..Len(s) : s[i].do # "record"
  PROVE  RecordComesSecond(s) /\ RecordsOnly(s, a)
  BY DEF RecordComesSecond, RecordsOnly

LEMMA ConcatNoRecord ==
  ASSUME NEW s \in Seq(Edit), NEW t \in Seq(Edit),
         \A i \in 1..Len(s) : s[i].do # "record",
         \A i \in 1..Len(t) : t[i].do # "record"
  PROVE  \A i \in 1..Len(s \o t) : (s \o t)[i].do # "record"
<1>1. Len(s) \in Nat /\ Len(t) \in Nat
  BY LenProperties
<1>2. /\ Len(s \o t) = Len(s) + Len(t)
      /\ \A i \in 1..Len(s) + Len(t) :
           (s \o t)[i] = IF i <= Len(s) THEN s[i] ELSE t[i - Len(s)]
  BY ConcatProperties, Zenon
<1>3. TAKE i \in 1..Len(s \o t)
<1>4. CASE i <= Len(s)
  <2>1. i \in 1..Len(s) /\ (s \o t)[i] = s[i]
    BY <1>1, <1>2, <1>4
  <2> QED
    BY <2>1
<1>5. CASE ~(i <= Len(s))
  <2>1. i - Len(s) \in 1..Len(t) /\ (s \o t)[i] = t[i - Len(s)]
    BY <1>1, <1>2, <1>5
  <2> QED
    BY <2>1
<1> QED
  BY <1>4, <1>5

\* No script records an agent except the one generated for it.
LEMMA ScriptShape ==
  ASSUME NEW cmd \in Ops, NEW vault \in Vault, NEW new,
         Generates(cmd) => new \in Agent,
         cmd.op \in {"rotate", "revoke"} => Called(cmd.of, vault) # {}
  PROVE  /\ RecordComesSecond(Script(cmd, new, vault))
         /\ RecordsOnly(Script(cmd, new, vault), new)
<1>1. cmd \in Command
  BY OperatorAssumption
<1>2. cmd.op \in {"create", "ensure", "rotate", "revoke", "delete", "import"}
  BY <1>1 DEF Command
<1>3. Same \in Seq(Edit) /\ \A i \in 1..Len(Same) : Same[i].do # "record"
  BY DEF Same, Edit
<1>4. RecordComesSecond(<<>>) /\ RecordsOnly(<<>>, new)
  BY DEF RecordComesSecond, RecordsOnly
<1>5. CASE cmd.op = "create"
  <2>1. cmd.of \in Name /\ new \in Agent
    BY <1>1, <1>5 DEF Command, Generates
  <2> QED
    BY <2>1, <1>5, SaveAgentShape DEF Script
<1>6. CASE cmd.op = "ensure"
  <2>1. cmd.of \in Name /\ new \in Agent
    BY <1>1, <1>6 DEF Command, Generates
  <2> QED
    BY <2>1, <1>4, <1>6, SaveAgentShape DEF Script
<1>7. ASSUME cmd.op \in {"rotate", "revoke"}
      PROVE  /\ Found(cmd.of, vault) \in Agent
             /\ vault.name[Found(cmd.of, vault)] \in Name
  BY <1>7, FoundIsCalled DEF Called, Known, Vault
<1>8. CASE cmd.op = "rotate"
  <2> DEFINE old == Found(cmd.of, vault)
             s == SaveAgent(new, vault.name[old])
             rest == RevokeAgent(old)
  <2>1. new \in Agent /\ old \in Agent /\ vault.name[old] \in Name
    BY <1>7, <1>8 DEF Generates
  <2>2. s \in Seq(Edit) /\ rest \in Seq(Edit)
    BY <2>1, SaveAgentType, RevokeAgentType
  <2>3. Len(s) >= 1 /\ RecordComesSecond(s) /\ RecordsOnly(s, new)
    BY <2>1, SaveAgentShape
  <2>4. \A i \in 1..Len(rest) : rest[i].do # "record"
    BY <2>1, RevokeAgentShape
  <2>5. Script(cmd, new, vault) = s \o rest
    BY <1>8 DEF Script, Rotate
  <2> HIDE DEF s, rest
  <2> QED
    BY <2>2, <2>3, <2>4, <2>5, ConcatShape
<1>9. CASE cmd.op = "revoke"
  <2>1. \A i \in 1..Len(RevokeAgent(Found(cmd.of, vault))) :
          RevokeAgent(Found(cmd.of, vault))[i].do # "record"
    BY <1>7, <1>9, RevokeAgentShape
  <2> QED
    BY <2>1, <1>9, NoRecordShape DEF Script
<1>10. CASE cmd.op = "delete"
  <2> DEFINE s == << [do |-> "drop", of |-> cmd.of] >>
  <2>1. s \in Seq(Edit) /\ \A i \in 1..Len(s) : s[i].do # "record"
    BY <1>1, <1>10 DEF Command, Edit
  <2>2. Script(cmd, new, vault) = s \o Same
    BY <1>10 DEF Script
  <2> HIDE DEF s
  <2> QED
    BY <2>1, <2>2, <1>3, ConcatNoRecord, NoRecordShape
<1>11. CASE cmd.op = "import"
  <2> DEFINE s == [i \in 1..Len(cmd.of) |-> [do |-> "put", of |-> cmd.of[i]]]
  <2>1. cmd.of \in Seq(Secret)
    BY <1>1, <1>11 DEF Command
  <2>2. /\ Len(cmd.of) \in Nat
        /\ \A i \in 1..Len(cmd.of) : [do |-> "put", of |-> cmd.of[i]] \in Edit
    BY <2>1 DEF Edit
  <2>3. s \in Seq(Edit) /\ Len(s) = Len(cmd.of)
    BY <2>2
  <2>4. \A i \in 1..Len(s) : s[i].do # "record"
    BY <2>2, <2>3
  <2>5. Script(cmd, new, vault) = s \o Same
    BY <1>11 DEF Script
  <2> HIDE DEF s
  <2> QED
    BY <2>3, <2>4, <2>5, <1>3, ConcatNoRecord, NoRecordShape
<1> QED
  BY <1>2, <1>5, <1>6, <1>8, <1>9, <1>10, <1>11

-----------------------------------------------------------------------------
(* What the steps of an operator do to its session, in one place.          *)

\* the steps of its script that p has applied to its copy
Done(p) == {i \in 1..Len(run[p].script) :
              i < run[p].at \/ (i = run[p].at /\ run[p].phase # "edit")}

\* p is still busy, with the same copy and script, and has done no other save
Continues(p) ==
  /\ run[p] # Nothing /\ run'[p] # Nothing
  /\ run'[p].copy = run[p].copy
  /\ run'[p].script = run[p].script
  /\ run'[p].alone => run[p].alone
  /\ Done(p) \subseteq Done(p)'
  /\ \A i \in Done(p)' : i \in Done(p) \/ ~Saves(run[p].script[i])
  /\ run'[p].at = run[p].at \/ run'[p].at = run[p].at + 1

\* p has applied the edit at hand to its copy
Edits(p) ==
  /\ run[p] # Nothing /\ run'[p] # Nothing /\ Pending(p) /\ Doing(p) \in Edit
  /\ run'[p].copy = Apply(Doing(p), run[p].copy)
  /\ run'[p].script = run[p].script
  /\ run'[p].alone = run[p].alone
  /\ run'[p].at = run[p].at
  /\ Done(p)' = Done(p) \cup {run[p].at}

LEMMA BeginEdits ==
  ASSUME VaultInv, NEW p \in Operator, Begin(p)
  PROVE  /\ Edits(p) /\ UNCHANGED file /\ run'[p].phase = "write"
         /\ \A q \in Operator \ {p} : run'[q] = run[q]
<1>1. /\ run[p] \in Session /\ run[p] # Nothing /\ Pending(p) /\ Doing(p) \in Edit
      /\ run[p].at \in 1..Len(run[p].script) /\ run[p].phase = "edit"
  BY BusyFacts DEF VaultInv, Begin, Pending
<1>2. /\ Saving(p).copy = Apply(Doing(p), run[p].copy)
      /\ Saving(p).script = run[p].script /\ Saving(p).at = run[p].at
      /\ Saving(p).phase = "write" /\ Saving(p).alone = run[p].alone
      /\ Saving(p) \in Session
  BY <1>1, BusyFacts, ApplyType DEF VaultInv, Session, Saving
<1>3. run'[p] = Saving(p) /\ UNCHANGED file /\ \A q \in Operator \ {p} : run'[q] = run[q]
  BY DEF Begin, VaultInv, VaultTypeOK
<1>4. Done(p)' = Done(p) \cup {run[p].at}
  <2>1. ASSUME NEW i \in 1..Len(run[p].script)
        PROVE  i \in Done(p)' <=> i \in Done(p) \cup {run[p].at}
    <3>1. i \in Done(p)' <=> i < run[p].at \/ i = run[p].at
      BY <1>2, <1>3 DEF Done
    <3>2. i \in Done(p) <=> i < run[p].at
      BY <1>1 DEF Done
    <3> QED
      BY <3>1, <3>2
  <2> QED
    BY <2>1, <1>1, <1>2, <1>3 DEF Done
<1> QED
  BY <1>1, <1>2, <1>3, <1>4, MarkAssumption DEF Edits

LEMMA WriteContinues ==
  ASSUME VaultInv, NEW p \in Operator, Write(p)
  PROVE  /\ Continues(p) /\ UNCHANGED file /\ run'[p].phase = "rename" /\ run[p].phase = "write"
         /\ run'[p].at = run[p].at
         /\ \A q \in Operator \ {p} : run'[q] = run[q]
<1>1. run[p] \in Session /\ run[p] # Nothing /\ run[p].phase = "write"
  BY DEF VaultInv, VaultTypeOK, Write, Pending
<1>2. /\ run'[p] = [run[p] EXCEPT !.phase = "rename"]
      /\ UNCHANGED file
      /\ \A q \in Operator \ {p} : run'[q] = run[q]
  BY DEF Write, VaultInv, VaultTypeOK
<1>3. /\ run'[p] \in Session /\ run'[p].copy = run[p].copy /\ run'[p].alone = run[p].alone
      /\ run'[p].script = run[p].script /\ run'[p].at = run[p].at /\ run'[p].phase = "rename"
  BY <1>1, <1>2 DEF Session
<1>4. Done(p)' = Done(p)
  BY <1>1, <1>3 DEF Done
<1> QED
  BY <1>1, <1>2, <1>3, <1>4, MarkAssumption DEF Continues

LEMMA AdvanceContinues ==
  ASSUME VaultInv, NEW p \in Operator, Replace(p) \/ Publish(p)
  PROVE  /\ Continues(p) /\ run'[p].phase = "edit" /\ run'[p].at = run[p].at + 1
         /\ \A q \in Operator \ {p} : run'[q] = run[q]
<1>1. /\ run[p] \in Session /\ run[p] # Nothing /\ run[p].at \in Nat
      /\ run[p].at \in 1..Len(run[p].script) /\ Len(run[p].script) \in Nat
      /\ run[p].phase = "edit" => ~Saves(run[p].script[run[p].at])
  BY BusyFacts DEF VaultInv, Replace, Publish, Publishes, Pending, Doing
<1>2. run'[p] = Advance(p) /\ \A q \in Operator \ {p} : run'[q] = run[q]
  BY DEF Replace, Publish, VaultInv, VaultTypeOK
<1>3. /\ Advance(p) \in Session /\ Advance(p).copy = run[p].copy
      /\ Advance(p).script = run[p].script
      /\ Advance(p).at = run[p].at + 1 /\ Advance(p).phase = "edit"
      /\ Advance(p).alone = run[p].alone
  BY <1>1, AdvanceFacts DEF Session, Advance
<1>4. \A i \in Done(p)' : i \in Done(p) \/ ~Saves(run[p].script[i])
  <2>1. TAKE i \in Done(p)'
  <2>2. i \in 1..Len(run[p].script) /\ i < run[p].at + 1
    BY <1>2, <1>3 DEF Done
  <2>3. i < run[p].at \/ i = run[p].at
    BY <1>1, <2>2
  <2>4. CASE i < run[p].at
    BY <2>2, <2>4 DEF Done
  <2>5. CASE i = run[p].at /\ run[p].phase # "edit"
    BY <2>2, <2>5 DEF Done
  <2>6. CASE i = run[p].at /\ run[p].phase = "edit"
    BY <1>1, <2>6
  <2> QED
    BY <2>3, <2>4, <2>5, <2>6, Zenon
<1>5. Done(p) \subseteq Done(p)'
  BY <1>1, <1>2, <1>3 DEF Done
<1> QED
  BY <1>1, <1>2, <1>3, <1>4, <1>5, MarkAssumption DEF Continues

\* rename(2): the file becomes p's copy
LEMMA ReplaceFile ==
  ASSUME VaultInv, NEW p \in Operator, Replace(p)
  PROVE  run[p] # Nothing /\ run[p].phase = "rename" /\ file' = run[p].copy
  BY DEF VaultInv, Replace, Pending, FileIsWhole, Busy

LEMMA FileTyped ==
  ASSUME VaultInv
  PROVE  file \in Vault /\ \A p \in Busy : run[p].copy \in Vault
  BY BusyFacts DEF VaultInv, VaultTypeOK, FileIsWhole, Contents, Busy

\* What an operator opens is the file, with a script and nothing done.
LEMMA OpenSession ==
  ASSUME VaultInv, NEW p \in Operator, Open(p)
  PROVE  /\ run[p] = Nothing /\ UNCHANGED <<file, settled>>
         /\ run'[p] # Nothing
         /\ run'[p].copy = file /\ run'[p].at = 1 /\ run'[p].phase = "edit"
         /\ run'[p].alone <=> Busy = {}
         /\ Done(p)' = {}
         /\ RecordComesSecond(run'[p].script)
         /\ issued \subseteq issued'
         /\ \A i \in 1..Len(run'[p].script) : run'[p].script[i].do = "record" =>
              /\ run'[p].script[i].of \in issued'
              /\ run'[p].script[i].of \notin issued
         /\ \E cmd \in Ops, new \in (Agent \ issued) \cup {Nothing} :
              /\ Generates(cmd) => new \in Agent
              /\ cmd.op \in {"rotate", "revoke"} => Called(cmd.of, file) # {}
              /\ issued' = issued \cup ({new} \ {Nothing})
              /\ run'[p].script = Script(cmd, new, file)
         /\ \A q \in Operator \ {p} :
              /\ run[q] = Nothing <=> run'[q] = Nothing
              /\ run[q] # Nothing => Continues(q) /\ run'[q].at = run[q].at
                                     /\ run'[q].phase = run[q].phase /\ ~run'[q].alone
<1>1. VaultInv'
  BY OpenKeeps
<1>2. /\ file \in Vault /\ run[p] = Nothing /\ UNCHANGED <<file, settled>>
  BY FileTyped DEF Open, Busy
<1>3. PICK cmd \in Ops, new \in Agent \cup {Nothing} :
        /\ new \in IF Generates(cmd) THEN Agent \ issued ELSE {Nothing}
        /\ cmd.op \in {"rotate", "revoke"} => Called(cmd.of, file) # {}
        /\ issued' = issued \cup ({new} \ {Nothing})
        /\ run'[p] = [cmd |-> cmd, copy |-> file, script |-> Script(cmd, new, file),
                      at |-> 1, phase |-> "edit", alone |-> Busy = {}]
        /\ \A q \in Operator \ {p} :
             run'[q] = IF q \in Busy THEN [run[q] EXCEPT !.alone = FALSE] ELSE run[q]
  BY DEF Open, Loaded
<1>4. /\ run'[p].copy = file /\ run'[p].at = 1 /\ run'[p].phase = "edit"
      /\ run'[p].script = Script(cmd, new, file)
  BY <1>3
<1>10. run'[p].alone <=> Busy = {}
  <2>1. CASE Busy # {}
    <3>1. (Busy = {}) = FALSE
      BY <2>1
    <3>2. run'[p] = [cmd |-> cmd, copy |-> file, script |-> Script(cmd, new, file),
                     at |-> 1, phase |-> "edit", alone |-> FALSE]
      BY <1>3, <3>1, Zenon
    <3> QED
      BY <2>1, <3>2
  <2>2. CASE Busy = {}
    <3>1. (Busy = {}) = TRUE
      BY <2>2
    <3>2. run'[p] = [cmd |-> cmd, copy |-> file, script |-> Script(cmd, new, file),
                     at |-> 1, phase |-> "edit", alone |-> TRUE]
      BY <1>3, <3>1, Zenon
    <3> QED
      BY <2>2, <3>2
  <2> QED
    BY <2>1, <2>2
<1>5. /\ RecordComesSecond(Script(cmd, new, file)) /\ RecordsOnly(Script(cmd, new, file), new)
      /\ Script(cmd, new, file) \in Seq(Edit)
  BY <1>2, <1>3, ScriptShape, ScriptType
<1>6. run'[p] # Nothing
  <2>1. run'[p] \in Session
    BY <1>2, <1>3, <1>5 DEF Session
  <2> QED
    BY <2>1, MarkAssumption
<1>7. ASSUME NEW i \in 1..Len(run'[p].script), run'[p].script[i].do = "record"
      PROVE  run'[p].script[i].of \in issued' /\ run'[p].script[i].of \notin issued
  <2>1. run'[p].script[i] \in Edit /\ run'[p].script[i].of = new
    BY <1>4, <1>5, <1>7, ElementOfSeq DEF RecordsOnly
  <2>2. new \in Agent
    BY <2>1, <1>7 DEF Edit
  <2>3. new \in Agent \ issued /\ new # Nothing
    BY <2>2, <1>3, OperatorAssumption
  <2> QED
    BY <2>1, <2>3, <1>3
<1>8. Done(p)' = {}
  <2>1. Len(run'[p].script) \in Nat
    BY <1>4, <1>5, LenProperties
  <2> QED
    BY <2>1, <1>4 DEF Done
<1>9. ASSUME NEW q \in Operator \ {p}
      PROVE  /\ run[q] = Nothing <=> run'[q] = Nothing
             /\ run[q] # Nothing => Continues(q) /\ run'[q].at = run[q].at
                                    /\ run'[q].phase = run[q].phase /\ ~run'[q].alone
  <2>1. CASE run[q] = Nothing
    BY <1>3, <2>1 DEF Busy
  <2>2. CASE run[q] # Nothing
    <3>1. run[q] \in Session /\ run'[q] = [run[q] EXCEPT !.alone = FALSE]
      BY <1>3, <2>2, BusyFacts DEF Busy, VaultInv
    <3>2. /\ run'[q] \in Session /\ run'[q].copy = run[q].copy /\ ~run'[q].alone
          /\ run'[q].script = run[q].script /\ run'[q].at = run[q].at
          /\ run'[q].phase = run[q].phase
      BY <3>1 DEF Session
    <3>3. run'[q] # Nothing
      BY <3>2, MarkAssumption
    <3>4. Done(q)' = Done(q)
      BY <3>2 DEF Done
    <3> QED
      BY <2>2, <3>2, <3>3, <3>4 DEF Continues
  <2> QED
    BY <2>1, <2>2
<1> QED
  BY <1>2, <1>3, <1>4, <1>5, <1>6, <1>7, <1>8, <1>9, <1>10

-----------------------------------------------------------------------------
(* Listed agents have their keys.                                          *)

HoldsKeys(vault) == Known(vault) \subseteq vault.private

\* In the file and in every copy the listed agents have keys, and a script that
\* lists one has put its key in before.
KeysInv ==
  /\ HoldsKeys(file)
  /\ \A p \in Busy :
       /\ HoldsKeys(run[p].copy)
       /\ RecordComesSecond(run[p].script)
       /\ 1 \in Done(p) /\ run[p].script[1].do = "key" =>
            run[p].script[1].of \in run[p].copy.private

LEMMA ApplyHoldsKeys ==
  ASSUME NEW vault \in Vault, HoldsKeys(vault), NEW edit \in Edit,
         edit.do = "record" => edit.of \in vault.private
  PROVE  /\ HoldsKeys(Apply(edit, vault))
         /\ vault.private \subseteq Apply(edit, vault).private
         /\ edit.do = "key" => edit.of \in Apply(edit, vault).private
<1>1. CASE edit.do = "key"
  BY <1>1 DEF Apply, Edit, Vault, HoldsKeys, Known
<1>2. CASE edit.do = "record"
  BY <1>2 DEF Apply, Edit, Vault, HoldsKeys, Known
<1>3. CASE edit.do = "bar"
  BY <1>3 DEF Apply, Edit, Vault, HoldsKeys, Known
<1>4. CASE edit.do = "put"
  BY <1>4 DEF Apply, Edit, Vault, HoldsKeys, Known
<1>5. CASE edit.do = "drop"
  BY <1>5 DEF Apply, Edit, Vault, HoldsKeys, Known
<1>6. CASE edit.do \notin {"key", "record", "bar", "put", "drop"}
  BY <1>6 DEF Apply
<1> QED
  BY <1>1, <1>2, <1>3, <1>4, <1>5, <1>6

LEMMA KeysContinue ==
  ASSUME KeysInv, NEW p \in Operator, Continues(p)
  PROVE  /\ HoldsKeys(run'[p].copy)
         /\ RecordComesSecond(run'[p].script)
         /\ 1 \in Done(p)' /\ run'[p].script[1].do = "key" =>
              run'[p].script[1].of \in run'[p].copy.private
  BY DEF KeysInv, Continues, Busy, Saves

LEMMA KeysEdit ==
  ASSUME VaultInv, KeysInv, NEW p \in Operator, Edits(p)
  PROVE  /\ HoldsKeys(run'[p].copy)
         /\ RecordComesSecond(run'[p].script)
         /\ 1 \in Done(p)' /\ run'[p].script[1].do = "key" =>
              run'[p].script[1].of \in run'[p].copy.private
<1>1. /\ run[p] # Nothing /\ run[p].copy \in Vault /\ Doing(p) \in Edit
      /\ run[p].at \in 1..Len(run[p].script) /\ Doing(p) = run[p].script[run[p].at]
      /\ Len(run[p].script) \in Nat
  BY BusyFacts DEF VaultInv, Edits, Pending, Doing
<1>2. Doing(p).do = "record" => Doing(p).of \in run[p].copy.private
  <2>1. HAVE Doing(p).do = "record"
  <2>2. /\ run[p].at = 2
        /\ run[p].script[1] = [do |-> "key", of |-> Doing(p).of]
    BY <1>1, <2>1 DEF KeysInv, Busy, RecordComesSecond
  <2>3. 1 \in Done(p)
    BY <1>1, <2>2 DEF Done
  <2>4. run[p].script[1].do = "key" /\ run[p].script[1].of = Doing(p).of
    BY <2>2
  <2> QED
    BY <1>1, <2>3, <2>4 DEF KeysInv, Busy
<1>3. /\ HoldsKeys(run'[p].copy) /\ run[p].copy.private \subseteq run'[p].copy.private
      /\ Doing(p).do = "key" => Doing(p).of \in run'[p].copy.private
  BY <1>1, <1>2, ApplyHoldsKeys DEF KeysInv, Busy, Edits
<1>4. 1 \in Done(p)' => 1 \in Done(p) \/ (run[p].at = 1 /\ run[p].script[1] = Doing(p))
  BY <1>1 DEF Edits
<1> QED
  BY <1>1, <1>3, <1>4 DEF KeysInv, Busy, Edits

LEMMA KeysStep == VaultInv /\ KeysInv /\ [Next]_vars => KeysInv'
<1> SUFFICES ASSUME VaultInv, KeysInv, [Next]_vars PROVE KeysInv'
  OBVIOUS
<1>1. ASSUME NEW p \in Operator,
             \A q \in Operator \ {p} : run'[q] = run[q],
             HoldsKeys(file)',
             run'[p] # Nothing =>
               /\ HoldsKeys(run'[p].copy)
               /\ RecordComesSecond(run'[p].script)
               /\ 1 \in Done(p)' /\ run'[p].script[1].do = "key" =>
                    run'[p].script[1].of \in run'[p].copy.private
      PROVE  KeysInv'
  BY <1>1 DEF KeysInv, Busy, Done
<1>2. ASSUME NEW p \in Operator, Open(p) PROVE KeysInv'
  <2>1. HoldsKeys(file)'
    BY <1>2, OpenSession DEF KeysInv, HoldsKeys, Known
  <2>2. ASSUME NEW q \in Operator \ {p}, run'[q] # Nothing
        PROVE  /\ HoldsKeys(run'[q].copy)
               /\ RecordComesSecond(run'[q].script)
               /\ 1 \in Done(q)' /\ run'[q].script[1].do = "key" =>
                    run'[q].script[1].of \in run'[q].copy.private
    BY <1>2, <2>2, OpenSession, KeysContinue
  <2>3. /\ HoldsKeys(run'[p].copy) /\ RecordComesSecond(run'[p].script) /\ 1 \notin Done(p)'
    BY <1>2, OpenSession DEF KeysInv
  <2> QED
    BY <2>1, <2>2, <2>3 DEF KeysInv, Busy
<1>3. ASSUME NEW p \in Operator, Begin(p) PROVE KeysInv'
  <2>1. HoldsKeys(file)'
    BY <1>3, BeginEdits DEF KeysInv, HoldsKeys, Known
  <2> QED
    BY <1>1, <1>3, <2>1, BeginEdits, KeysEdit
<1>4. ASSUME NEW p \in Operator, Write(p) PROVE KeysInv'
  <2>1. HoldsKeys(file)'
    BY <1>4, WriteContinues DEF KeysInv, HoldsKeys, Known
  <2> QED
    BY <1>1, <1>4, <2>1, WriteContinues, KeysContinue
<1>5. ASSUME NEW p \in Operator, Replace(p) PROVE KeysInv'
  <2>1. HoldsKeys(file)'
    BY <1>5, ReplaceFile DEF KeysInv, HoldsKeys, Known, Busy
  <2> QED
    BY <1>1, <1>5, <2>1, AdvanceContinues, KeysContinue
<1>6. ASSUME NEW p \in Operator, Publish(p) PROVE KeysInv'
  <2>1. HoldsKeys(file)'
    BY <1>6 DEF Publish, KeysInv, HoldsKeys, Known
  <2> QED
    BY <1>1, <1>6, <2>1, AdvanceContinues, KeysContinue
<1>7. ASSUME NEW p \in Operator, Finish(p) \/ Stops(p) PROVE KeysInv'
  <2>1. HoldsKeys(file)'
    BY <1>7 DEF Finish, Stops, KeysInv, HoldsKeys, Known
  <2>2. run'[p] = Nothing /\ \A q \in Operator \ {p} : run'[q] = run[q]
    BY <1>7 DEF Finish, Stops, VaultInv, VaultTypeOK
  <2> QED
    BY <1>1, <2>1, <2>2
<1>8. CASE UNCHANGED vars
  BY <1>8 DEF vars, KeysInv, HoldsKeys, Known, Busy, Done
<1> QED
  BY <1>2, <1>3, <1>4, <1>5, <1>6, <1>7, <1>8 DEF Next, Act

\* No agent is ever listed in vault.lockrail without its private key, whatever
\* command was cut and whatever save overwrote another.
THEOREM ListedAgentsKeepKeys == Spec => []ListedAgentsHaveKeys
<1>1. Init => KeysInv
  BY DEF Init, KeysInv, HoldsKeys, Known, Busy
<1>2. KeysInv => ListedAgentsHaveKeys
  BY DEF KeysInv, HoldsKeys, ListedAgentsHaveKeys
<1> QED
  BY VaultInvariant, KeysStep, <1>1, <1>2, PTL DEF Spec

-----------------------------------------------------------------------------
(* What was done undisturbed stays.                                        *)

AgentEdit == {e \in Edit : e.do \in {"key", "record", "bar"}}
SameAgent(d, e) == d.do = "record" /\ e.do = "record" /\ d.of = e.of

\* An edit to the agents is in force after it is applied, and no other edit
\* undoes it, except a second record of the same agent.
LEMMA KeptMeans ==
  ASSUME NEW e \in AgentEdit, NEW vault \in Vault
  PROVE  Kept(e, vault) <=> CASE e.do = "key" -> e.of \in vault.private
                              [] e.do = "record" -> vault.name[e.of] = e.name
                              [] e.do = "bar" -> e.of \in vault.barred
<1>1. CASE e.do = "key"
  BY <1>1 DEF AgentEdit, Edit, Vault, Kept, Apply
<1>2. CASE e.do = "record"
  BY <1>2 DEF AgentEdit, Edit, Vault, Kept, Apply
<1>3. CASE e.do = "bar"
  BY <1>3 DEF AgentEdit, Edit, Vault, Kept, Apply
<1> QED
  BY <1>1, <1>2, <1>3 DEF AgentEdit

LEMMA KeptAfterApply ==
  ASSUME NEW e \in AgentEdit, NEW vault \in Vault
  PROVE  Kept(e, Apply(e, vault))
<1>1. e \in Edit /\ Apply(e, vault) \in Vault
  BY ApplyType DEF AgentEdit
<1>2. CASE e.do = "key"
  BY <1>1, <1>2, KeptMeans DEF Apply, Edit, Vault
<1>3. CASE e.do = "record"
  BY <1>1, <1>3, KeptMeans DEF Apply, Edit, Vault
<1>4. CASE e.do = "bar"
  BY <1>1, <1>4, KeptMeans DEF Apply, Edit, Vault
<1> QED
  BY <1>2, <1>3, <1>4 DEF AgentEdit

LEMMA KeptByApply ==
  ASSUME NEW e \in AgentEdit, NEW vault \in Vault, Kept(e, vault),
         NEW d \in Edit, ~SameAgent(d, e)
  PROVE  Kept(e, Apply(d, vault))
<1>1. Apply(d, vault) \in Vault /\ e \in Edit
  BY ApplyType DEF AgentEdit
<1>2. /\ vault.private \subseteq Apply(d, vault).private
      /\ vault.barred \subseteq Apply(d, vault).barred
      /\ \A a \in Agent : (d.do = "record" => d.of # a) =>
           Apply(d, vault).name[a] = vault.name[a]
  <2>1. CASE d.do = "key"
    BY <2>1 DEF Apply, Edit, Vault
  <2>2. CASE d.do = "record"
    BY <2>2 DEF Apply, Edit, Vault
  <2>3. CASE d.do = "bar"
    BY <2>3 DEF Apply, Edit, Vault
  <2>4. CASE d.do = "put"
    BY <2>4 DEF Apply, Edit, Vault
  <2>5. CASE d.do = "drop"
    BY <2>5 DEF Apply, Edit, Vault
  <2>6. CASE d.do \notin {"key", "record", "bar", "put", "drop"}
    BY <2>6 DEF Apply
  <2> QED
    BY <2>1, <2>2, <2>3, <2>4, <2>5, <2>6
<1>3. CASE e.do = "key"
  BY <1>1, <1>2, <1>3, KeptMeans
<1>4. CASE e.do = "record"
  <2>1. e.of \in Agent
    BY <1>1, <1>4 DEF Edit
  <2> QED
    BY <1>1, <1>2, <1>4, <2>1, KeptMeans DEF SameAgent
<1>5. CASE e.do = "bar"
  BY <1>1, <1>2, <1>5, KeptMeans
<1> QED
  BY <1>3, <1>4, <1>5 DEF AgentEdit

\* the agents that p's script lists are its own: nothing settled lists them
OwnRecords(p) ==
  \A i \in 1..Len(run[p].script) : run[p].script[i].do = "record" =>
    /\ run[p].script[i].of \in issued
    /\ \A e \in settled : ~SameAgent(run[p].script[i], e)

\* what p has done is in its copy, and in the file once it is saved
InForce(p) ==
  \A i \in Done(p) : run[p].script[i] \in AgentEdit =>
    /\ Kept(run[p].script[i], run[p].copy)
    /\ i < run[p].at => Kept(run[p].script[i], file)

\* An edit settles out of a command that was alone, when all its edits are in
\* force in the file; every copy opened since is of that file, and only edits
\* that do not undo it are applied to them.
SettledInv ==
  /\ settled \subseteq AgentEdit
  /\ \A e \in settled :
       /\ e.do = "record" => e.of \in issued
       /\ Kept(e, file)
       /\ \A p \in Busy : Kept(e, run[p].copy)
  /\ \A p \in Busy :
       /\ OwnRecords(p)
       /\ run[p].alone => Busy = {p} /\ InForce(p)

LEMMA SettledStep == VaultInv /\ KeysInv /\ SettledInv /\ [Next]_vars => SettledInv'
<1> SUFFICES ASSUME VaultInv, KeysInv, SettledInv, [Next]_vars PROVE SettledInv'
  OBVIOUS
<1>1. \A p \in Busy :
        /\ p \in Operator /\ run[p] # Nothing /\ run[p].copy \in Vault
        /\ run[p].script \in Seq(Edit) /\ run[p].at \in Nat /\ Len(run[p].script) \in Nat
  BY BusyFacts, LenProperties DEF VaultInv, Busy, Session, VaultTypeOK
<1>2. ASSUME NEW p \in Operator, p \in Busy, Busy' = Busy,
             UNCHANGED <<settled, issued>>,
             \A q \in Operator \ {p} : run'[q] = run[q],
             run'[p].script = run[p].script, run'[p].alone => run[p].alone,
             \A e \in settled : Kept(e, file') /\ Kept(e, run'[p].copy),
             run[p].alone => InForce(p)'
      PROVE  SettledInv'
  <2>1. ASSUME NEW e \in settled' 
        PROVE  /\ e.do = "record" => e.of \in issued'
               /\ Kept(e, file')
               /\ \A q \in Busy' : Kept(e, run'[q].copy)
    BY <1>1, <1>2 DEF SettledInv
  <2>2. ASSUME NEW q \in Busy'
        PROVE  OwnRecords(q)' /\ (run'[q].alone => Busy' = {q} /\ InForce(q)')
    <3>1. run'[q].script = run[q].script
      BY <1>1, <1>2
    <3>2. OwnRecords(q)'
      BY <1>2, <2>2, <3>1 DEF SettledInv, OwnRecords
    <3>3. run'[q].alone => q = p
      BY <1>1, <1>2, <2>2 DEF SettledInv
    <3> QED
      BY <1>2, <2>2, <3>2, <3>3 DEF SettledInv
  <2> QED
    BY <1>2, <2>1, <2>2 DEF SettledInv, Kept, Apply
<1>3. ASSUME NEW p \in Operator, Open(p) PROVE SettledInv'
  <2>1. /\ UNCHANGED <<file, settled>> /\ run[p] = Nothing /\ run'[p] # Nothing
        /\ run'[p].copy = file /\ Done(p)' = {} /\ issued \subseteq issued'
        /\ run'[p].alone => Busy = {}
        /\ Busy' = Busy \cup {p}
    BY <1>3, OpenSession DEF Busy
  <2>2. ASSUME NEW q \in Busy
        PROVE  /\ run'[q].copy = run[q].copy /\ run'[q].script = run[q].script
               /\ ~run'[q].alone
    BY <1>1, <1>3, <2>1, <2>2, OpenSession DEF Continues
  <2>3. ASSUME NEW e \in settled'
        PROVE  /\ e.do = "record" => e.of \in issued'
               /\ Kept(e, file')
               /\ \A q \in Busy' : Kept(e, run'[q].copy)
    BY <2>1, <2>2, <2>3 DEF SettledInv
  <2>4. OwnRecords(p)'
    <3>1. ASSUME NEW i \in 1..Len(run'[p].script), run'[p].script[i].do = "record"
          PROVE  /\ run'[p].script[i].of \in issued'
                 /\ run'[p].script[i].of \notin issued
      BY <1>3, <3>1, OpenSession
    <3> QED
      BY <2>1, <3>1 DEF OwnRecords, SameAgent, SettledInv
  <2>5. ASSUME NEW q \in Busy PROVE OwnRecords(q)'
    BY <2>1, <2>2, <2>5 DEF OwnRecords, SettledInv
  <2>6. run'[p].alone => Busy' = {p} /\ InForce(p)'
    BY <2>1 DEF InForce
  <2> QED
    BY <2>1, <2>2, <2>3, <2>4, <2>5, <2>6 DEF SettledInv, Kept, Apply
<1>4. ASSUME NEW p \in Operator, Begin(p) PROVE SettledInv'
  <2> DEFINE d == Doing(p)
  <2>1. /\ p \in Busy /\ Busy' = Busy /\ UNCHANGED <<file, settled, issued>>
        /\ \A q \in Operator \ {p} : run'[q] = run[q]
        /\ run'[p].copy = Apply(d, run[p].copy) /\ run'[p].script = run[p].script
        /\ run'[p].alone = run[p].alone /\ run'[p].at = run[p].at
        /\ Done(p)' = Done(p) \cup {run[p].at} /\ d \in Edit
        /\ d = run[p].script[run[p].at] /\ run[p].phase = "edit"
        /\ run[p].at \in 1..Len(run[p].script)
    <3>1. /\ UNCHANGED <<settled, issued>> /\ run[p].phase = "edit" /\ Pending(p)
      BY <1>4 DEF Begin
    <3>2. /\ Edits(p) /\ UNCHANGED file /\ \A q \in Operator \ {p} : run'[q] = run[q]
      BY <1>4, BeginEdits
    <3>3. p \in Busy /\ Busy' = Busy
      BY <3>2 DEF Edits, Busy
    <3>4. run[p].at \in 1..Len(run[p].script)
      BY <3>1, <3>3, BusyFacts DEF Busy, Pending, VaultInv
    <3> QED
      BY <3>1, <3>2, <3>3, <3>4 DEF Edits, Doing
  <2>2. ASSUME NEW e \in settled PROVE Kept(e, run'[p].copy)
    <3>1. ~SameAgent(d, e)
      BY <2>1, <2>2 DEF SettledInv, OwnRecords, SameAgent
    <3> QED
      BY <1>1, <2>1, <2>2, <3>1, KeptByApply DEF SettledInv
  <2>3. ASSUME run[p].alone PROVE InForce(p)'
    <3>1. SUFFICES ASSUME NEW i \in Done(p)', run[p].script[i] \in AgentEdit
                   PROVE  /\ Kept(run[p].script[i], run'[p].copy)
                          /\ i < run[p].at => Kept(run[p].script[i], file)
      BY <2>1 DEF InForce, Kept, Apply
    <3>2. CASE i = run[p].at
      BY <1>1, <2>1, <3>1, <3>2, KeptAfterApply
    <3>3. CASE i # run[p].at
      <4>1. i \in Done(p) /\ i \in 1..Len(run[p].script)
        BY <2>1, <3>3 DEF Done
      <4>2. ~SameAgent(d, run[p].script[i])
        <5>1. RecordComesSecond(run[p].script)
          BY <2>1 DEF KeysInv
        <5> QED
          BY <2>1, <3>3, <4>1, <5>1 DEF SameAgent, RecordComesSecond
      <4>3. /\ Kept(run[p].script[i], run[p].copy)
            /\ i < run[p].at => Kept(run[p].script[i], file)
        BY <2>1, <2>3, <3>1, <4>1 DEF SettledInv, InForce
      <4> QED
        BY <1>1, <2>1, <3>1, <4>2, <4>3, KeptByApply
    <3> QED
      BY <3>2, <3>3
  <2> HIDE DEF d
  <2>4. \A e \in settled : Kept(e, file')
    BY <2>1 DEF SettledInv
  <2> QED
    BY <1>2, <2>1, <2>2, <2>3, <2>4
<1>5. ASSUME NEW p \in Operator, Write(p) PROVE SettledInv'
  <2>1. /\ p \in Busy /\ Busy' = Busy /\ UNCHANGED <<file, settled, issued>>
        /\ \A q \in Operator \ {p} : run'[q] = run[q]
        /\ Continues(p) /\ run'[p].at = run[p].at
    BY <1>5, WriteContinues DEF Write, Continues, Busy
  <2>2. ASSUME run[p].alone PROVE InForce(p)'
    <3>1. SUFFICES ASSUME NEW i \in Done(p)', run[p].script[i] \in AgentEdit
                   PROVE  /\ Kept(run[p].script[i], run[p].copy)
                          /\ i < run'[p].at => Kept(run[p].script[i], file')
      BY <2>1 DEF InForce, Continues, Kept, Apply
    <3>2. i \in Done(p)
      BY <2>1, <3>1 DEF Continues, AgentEdit, Saves
    <3> QED
      BY <2>1, <2>2, <3>1, <3>2 DEF SettledInv, InForce
  <2>3. \A e \in settled : Kept(e, file') /\ Kept(e, run'[p].copy)
    BY <2>1 DEF SettledInv, Continues
  <2> QED
    BY <1>2, <2>1, <2>2, <2>3 DEF Continues
<1>6. ASSUME NEW p \in Operator, Replace(p) PROVE SettledInv'
  <2>1. /\ p \in Busy /\ Busy' = Busy /\ UNCHANGED <<settled, issued>>
        /\ \A q \in Operator \ {p} : run'[q] = run[q]
        /\ Continues(p) /\ file' = run[p].copy
    <3>1. UNCHANGED <<settled, issued>>
      BY <1>6 DEF Replace
    <3>2. Continues(p) /\ file' = run[p].copy /\ \A q \in Operator \ {p} : run'[q] = run[q]
      BY <1>6, AdvanceContinues, ReplaceFile
    <3> QED
      BY <3>1, <3>2 DEF Continues, Busy
  <2>2. ASSUME run[p].alone PROVE InForce(p)'
    <3>1. SUFFICES ASSUME NEW i \in Done(p)', run[p].script[i] \in AgentEdit
                   PROVE  /\ Kept(run[p].script[i], run[p].copy)
                          /\ i < run'[p].at => Kept(run[p].script[i], file')
      BY <2>1 DEF InForce, Continues, Kept, Apply
    <3>2. i \in Done(p)
      BY <2>1, <3>1 DEF Continues, AgentEdit, Saves
    <3> QED
      BY <2>1, <2>2, <3>1, <3>2 DEF SettledInv, InForce
  <2>3. \A e \in settled : Kept(e, file') /\ Kept(e, run'[p].copy)
    BY <2>1 DEF SettledInv, Continues
  <2> QED
    BY <1>2, <2>1, <2>2, <2>3 DEF Continues
<1>7. ASSUME NEW p \in Operator, Publish(p) PROVE SettledInv'
  <2>1. /\ p \in Busy /\ Busy' = Busy /\ UNCHANGED <<file, settled, issued>>
        /\ \A q \in Operator \ {p} : run'[q] = run[q]
        /\ Continues(p) /\ run[p].phase = "edit"
    <3>1. UNCHANGED <<file, settled, issued>> /\ run[p].phase = "edit"
      BY <1>7 DEF Publish, Publishes
    <3>2. Continues(p) /\ \A q \in Operator \ {p} : run'[q] = run[q]
      BY <1>7, AdvanceContinues
    <3> QED
      BY <3>1, <3>2 DEF Continues, Busy
  <2>2. \A i \in Done(p) : i < run[p].at
    BY <2>1 DEF Done
  <2>3. ASSUME run[p].alone PROVE InForce(p)'
    <3>1. SUFFICES ASSUME NEW i \in Done(p)', run[p].script[i] \in AgentEdit
                   PROVE  /\ Kept(run[p].script[i], run[p].copy)
                          /\ i < run'[p].at => Kept(run[p].script[i], file')
      BY <2>1 DEF InForce, Continues, Kept, Apply
    <3>2. i \in Done(p)
      BY <2>1, <3>1 DEF Continues, AgentEdit, Saves
    <3> QED
      BY <2>1, <2>2, <2>3, <3>1, <3>2 DEF SettledInv, InForce
  <2>4. \A e \in settled : Kept(e, file') /\ Kept(e, run'[p].copy)
    BY <2>1 DEF SettledInv, Continues
  <2> QED
    BY <1>2, <2>1, <2>3, <2>4 DEF Continues
<1>8. ASSUME NEW p \in Operator, p \in Busy, Busy' = Busy \ {p}, UNCHANGED <<file, issued>>,
             \A q \in Operator \ {p} : run'[q] = run[q],
             settled' = settled \/ Busy' = {},
             settled' \subseteq AgentEdit,
             \A e \in settled' : e \notin settled =>
               (e.do = "record" => e.of \in issued) /\ Kept(e, file)
      PROVE  SettledInv'
  <2>1. ASSUME NEW q \in Busy'
        PROVE  /\ q \in Busy /\ run'[q] = run[q] /\ ~run'[q].alone /\ settled' = settled
    BY <1>1, <1>8, <2>1 DEF SettledInv
  <2>2. ASSUME NEW e \in settled'
        PROVE  /\ e.do = "record" => e.of \in issued'
               /\ Kept(e, file')
               /\ \A q \in Busy' : Kept(e, run'[q].copy)
    BY <1>8, <2>1, <2>2 DEF SettledInv
  <2>3. ASSUME NEW q \in Busy'
        PROVE  OwnRecords(q)' /\ ~run'[q].alone
    BY <1>8, <2>1, <2>3 DEF SettledInv, OwnRecords
  <2> QED
    BY <1>8, <2>2, <2>3 DEF SettledInv, Kept, Apply
<1>9. ASSUME NEW p \in Operator, Finish(p) PROVE SettledInv'
  <2>1. /\ p \in Busy /\ Busy' = Busy \ {p} /\ UNCHANGED <<file, issued>>
        /\ \A q \in Operator \ {p} : run'[q] = run[q]
        /\ settled' = IF run[p].alone THEN settled \cup AgentEdits(p) ELSE settled
        /\ ~(run[p].at <= Len(run[p].script))
    BY <1>9 DEF Finish, VaultInv, VaultTypeOK, Busy, Pending
  <2>2. CASE ~run[p].alone
    BY <1>8, <2>1, <2>2 DEF SettledInv
  <2>3. CASE run[p].alone
    <3>1. settled' = settled \cup AgentEdits(p) /\ Busy = {p}
      BY <2>1, <2>3 DEF SettledInv
    <3>2. ASSUME NEW e \in AgentEdits(p)
          PROVE  e \in AgentEdit /\ (e.do = "record" => e.of \in issued) /\ Kept(e, file)
      <4>1. PICK i \in 1..Len(run[p].script) : e = run[p].script[i]
        BY <1>1, <2>1, <3>2 DEF AgentEdits
      <4>2. e \in AgentEdit
        BY <1>1, <2>1, <3>2, <4>1, ElementOfSeq DEF AgentEdits, AgentEdit
      <4>3. i \in Done(p) /\ i < run[p].at
        BY <1>1, <2>1, <4>1 DEF Done
      <4>4. Kept(e, file)
        BY <2>1, <2>3, <4>1, <4>2, <4>3 DEF SettledInv, InForce
      <4> QED
        BY <2>1, <4>1, <4>2, <4>4 DEF SettledInv, OwnRecords
    <3> QED
      BY <1>8, <2>1, <3>1, <3>2 DEF SettledInv
  <2> QED
    BY <2>2, <2>3
<1>10. ASSUME NEW p \in Operator, Stops(p) PROVE SettledInv'
  <2>1. /\ p \in Busy /\ Busy' = Busy \ {p} /\ UNCHANGED <<file, issued, settled>>
        /\ \A q \in Operator \ {p} : run'[q] = run[q]
    BY <1>10 DEF Stops, VaultInv, VaultTypeOK, Busy
  <2> QED
    BY <1>8, <2>1 DEF SettledInv
<1>11. CASE UNCHANGED vars
  <2>1. UNCHANGED <<file, run, issued, settled>>
    BY <1>11 DEF vars
  <2>2. Busy' = Busy /\ \A p : Done(p)' = Done(p)
    BY <2>1 DEF Busy, Done
  <2>3. ASSUME NEW p PROVE OwnRecords(p)' = OwnRecords(p)
    BY <2>1 DEF OwnRecords
  <2>4. ASSUME NEW p, InForce(p) PROVE InForce(p)'
    BY <2>1, <2>2, <2>4 DEF InForce, Kept, Apply
  <2> QED
    BY <2>1, <2>2, <2>3, <2>4 DEF SettledInv, Kept, Apply
<1> QED
  BY <1>3, <1>4, <1>5, <1>6, <1>7, <1>9, <1>10, <1>11 DEF Next, Act

\* A command that met no other is never undone in what it did to the agents,
\* neither in the file nor in a copy somebody may still save over it.
THEOREM UndisturbedStays == Spec => []UndisturbedIsKept
<1>1. Init => KeysInv /\ SettledInv
  BY DEF Init, KeysInv, SettledInv, HoldsKeys, Known, Busy
<1>2. SettledInv => UndisturbedIsKept
  BY DEF SettledInv, UndisturbedIsKept
<1> QED
  BY VaultInvariant, KeysStep, SettledStep, <1>1, <1>2, PTL DEF Spec

-----------------------------------------------------------------------------
(* What a script announces, lists and bars.                                *)

\* a script that touches no agent
NoAgents(script) == \A i \in 1..Len(script) : script[i].do \in {"put", "drop", "same"}

LEMMA RotateIs ==
  ASSUME NEW old \in Agent, NEW new \in Agent, NEW vault, vault.name[old] \in Name
  PROVE  LET s == Rotate(old, new, vault) IN
         /\ Len(s) = 5
         /\ s[1] = [do |-> "key", of |-> new]
         /\ s[2] = [do |-> "record", of |-> new, name |-> vault.name[old]]
         /\ s[3] = [do |-> "publish", of |-> new]
         /\ s[4] = [do |-> "bar", of |-> old]
         /\ s[5] = [do |-> "retract", of |-> old]
<1> DEFINE s == SaveAgent(new, vault.name[old])
           t == RevokeAgent(old)
<1>1. s \in Seq(Edit) /\ t \in Seq(Edit)
  BY SaveAgentType, RevokeAgentType
<1>2. /\ Len(s) = 3 /\ s[1] = [do |-> "key", of |-> new]
      /\ s[2] = [do |-> "record", of |-> new, name |-> vault.name[old]]
      /\ s[3] = [do |-> "publish", of |-> new]
  BY DEF SaveAgent
<1>3. /\ Len(t) = 2 /\ t[1] = [do |-> "bar", of |-> old]
      /\ t[2] = [do |-> "retract", of |-> old]
  BY DEF RevokeAgent
<1>4. Rotate(old, new, vault) = s \o t
  BY DEF Rotate
<1> HIDE DEF s, t
<1>5. /\ Len(s \o t) = Len(s) + Len(t)
      /\ \A i \in 1..Len(s) + Len(t) : (s \o t)[i] = IF i <= Len(s) THEN s[i] ELSE t[i - Len(s)]
  BY <1>1, ConcatProperties, Zenon
<1> QED
  BY <1>2, <1>3, <1>4, <1>5

\* Every script is one of four: an agent saved, an agent replaced, an agent
\* revoked, or none touched.
LEMMA ScriptIs ==
  ASSUME NEW cmd \in Ops, NEW vault \in Vault, NEW new,
         Generates(cmd) => new \in Agent,
         cmd.op \in {"rotate", "revoke"} => Called(cmd.of, vault) # {}
  PROVE  LET s == Script(cmd, new, vault) IN
         \/ NoAgents(s)
         \/ new \in Agent /\ \E n \in Name : s = SaveAgent(new, n)
         \/ \E old \in Known(vault) : new \in Agent /\ s = Rotate(old, new, vault)
         \/ \E old \in Known(vault) : s = RevokeAgent(old) /\ cmd.op = "revoke"
<1>1. cmd \in Command
  BY OperatorAssumption
<1>2. cmd.op \in {"create", "ensure", "rotate", "revoke", "delete", "import"}
  BY <1>1 DEF Command
<1>3. Same \in Seq(Edit) /\ Len(Same) = 1 /\ Same[1].do = "same"
  BY DEF Same, Edit
<1>4. CASE cmd.op = "create"
  BY <1>1, <1>4 DEF Command, Generates, Script
<1>5. CASE cmd.op = "ensure"
  <2>1. cmd.of \in Name /\ new \in Agent
    BY <1>1, <1>5 DEF Command, Generates
  <2>2. NoAgents(<<>>)
    BY DEF NoAgents
  <2> QED
    BY <2>1, <2>2, <1>5 DEF Script
<1>6. cmd.op \in {"rotate", "revoke"} => Found(cmd.of, vault) \in Known(vault)
  BY FoundIsCalled DEF Called
<1>7. CASE cmd.op = "rotate"
  BY <1>6, <1>7 DEF Script, Generates
<1>8. CASE cmd.op = "revoke"
  BY <1>6, <1>8 DEF Script
<1>9. ASSUME NEW s \in Seq(Edit), \A i \in 1..Len(s) : s[i].do \in {"put", "drop"}
      PROVE  NoAgents(s \o Same)
  <2>1. /\ Len(s) \in Nat
        /\ Len(s \o Same) = Len(s) + 1
        /\ \A i \in 1..Len(s) + 1 : (s \o Same)[i] = IF i <= Len(s) THEN s[i] ELSE Same[i - Len(s)]
    BY <1>3, ConcatProperties, LenProperties
  <2> SUFFICES ASSUME NEW i \in 1..Len(s) + 1
               PROVE  (s \o Same)[i].do \in {"put", "drop", "same"}
    BY <2>1 DEF NoAgents
  <2>2. CASE i <= Len(s)
    BY <2>1, <2>2, <1>9
  <2>3. CASE ~(i <= Len(s))
    <3>1. i - Len(s) = 1
      BY <2>1, <2>3
    <3> QED
      BY <2>1, <2>3, <3>1, <1>3
  <2> QED
    BY <2>2, <2>3
<1>10. CASE cmd.op = "delete"
  <2> DEFINE s == << [do |-> "drop", of |-> cmd.of] >>
  <2>1. s \in Seq(Edit) /\ \A i \in 1..Len(s) : s[i].do \in {"put", "drop"}
    BY <1>1, <1>10 DEF Command, Edit
  <2>2. Script(cmd, new, vault) = s \o Same
    BY <1>10 DEF Script
  <2> HIDE DEF s
  <2> QED
    BY <2>1, <2>2, <1>9
<1>11. CASE cmd.op = "import"
  <2> DEFINE s == [i \in 1..Len(cmd.of) |-> [do |-> "put", of |-> cmd.of[i]]]
  <2>1. cmd.of \in Seq(Secret)
    BY <1>1, <1>11 DEF Command
  <2>2. /\ Len(cmd.of) \in Nat
        /\ \A i \in 1..Len(cmd.of) : [do |-> "put", of |-> cmd.of[i]] \in Edit
    BY <2>1 DEF Edit
  <2>3. s \in Seq(Edit) /\ Len(s) = Len(cmd.of)
    BY <2>2
  <2>4. \A i \in 1..Len(s) : s[i].do \in {"put", "drop"}
    BY <2>2, <2>3
  <2>5. Script(cmd, new, vault) = s \o Same
    BY <1>11 DEF Script
  <2> HIDE DEF s
  <2> QED
    BY <2>3, <2>4, <2>5, <1>9
<1> QED
  BY <1>2, <1>4, <1>5, <1>7, <1>8, <1>10, <1>11

-----------------------------------------------------------------------------
(* Names keep a usable agent.                                              *)

\* nobody revokes an agent by hand, and no agent is called by another's id
NoRevocation ==
  /\ \A cmd \in Ops : cmd.op # "revoke"
  /\ Name \cap Agent = {}

NamesUsable(vault) == \A n \in Name : Called(n, vault) # {} => Usable(n, vault)
Heard(vault) == Known(vault) \cup vault.barred   \* agents the vault speaks of

\* The agent p lists is new to its copy until then; the one it bars has the name
\* that the agent it listed before was given.
Replaces(p) ==
  \A i \in 1..Len(run[p].script) :
    /\ run[p].script[i].do = "record" =>
         /\ run[p].script[i].of \in issued
         /\ run[p].script[i].of \notin run[p].copy.barred
         /\ run[p].copy.name[run[p].script[i].of] =
              IF i \in Done(p) THEN run[p].script[i].name ELSE Nothing
    /\ run[p].script[i].do = "bar" =>
         /\ i > 2 /\ run[p].script[2].do = "record"
         /\ run[p].script[2].of # run[p].script[i].of
         /\ run[p].copy.name[run[p].script[i].of] = run[p].script[2].name

NamesInv ==
  /\ NamesUsable(file) /\ Heard(file) \subseteq issued
  /\ \A p \in Busy : /\ NamesUsable(run[p].copy) /\ Heard(run[p].copy) \subseteq issued
                     /\ Replaces(p)

LEMMA CalledByName ==
  ASSUME NoRevocation, NEW vault \in Vault, NEW n \in Name
  PROVE  /\ Called(n, vault) = {a \in Agent : vault.name[a] = n}
         /\ Usable(n, vault) <=> \E a \in Agent : /\ vault.name[a] = n
                                                  /\ a \in vault.private
                                                  /\ a \notin vault.barred
<1>1. n # Nothing /\ n \notin Agent
  BY OperatorAssumption DEF NoRevocation
<1>2. Called(n, vault) = {a \in Agent : vault.name[a] = n}
  BY <1>1 DEF Called, Known, Vault
<1> QED
  BY <1>2 DEF Usable

ReplacesIn(s, new, vault) ==
  \A i \in 1..Len(s) :
    /\ s[i].do = "record" => s[i].of = new /\ new \in Agent /\ vault.name[new] = Nothing
    /\ s[i].do = "bar" => /\ i > 2 /\ s[2].do = "record"
                          /\ s[2].of # s[i].of
                          /\ vault.name[s[i].of] = s[2].name

\* A script as Open finds it: the agent it lists was never heard of, and the one it
\* bars is listed under the name the new one gets.
LEMMA ScriptReplaces ==
  ASSUME NoRevocation, NEW cmd \in Ops, NEW vault \in Vault, NEW new,
         Generates(cmd) => new \in Agent,
         cmd.op \in {"rotate", "revoke"} => Called(cmd.of, vault) # {},
         new \notin Heard(vault)
  PROVE  ReplacesIn(Script(cmd, new, vault), new, vault)
<1> DEFINE s == Script(cmd, new, vault)
<1>1. CASE NoAgents(s)
  BY <1>1 DEF NoAgents, ReplacesIn
<1>2. CASE new \in Agent /\ \E n \in Name : s = SaveAgent(new, n)
  <2>1. PICK n \in Name : s = SaveAgent(new, n)
    BY <1>2
  <2>2. new \in Agent /\ vault.name[new] = Nothing
    BY <1>2 DEF Heard, Known
  <2> HIDE DEF s
  <2>3. ReplacesIn(s, new, vault)
    BY <2>1, <2>2 DEF SaveAgent, ReplacesIn
  <2> QED
    BY <2>3 DEF s
<1>3. CASE \E old \in Known(vault) : new \in Agent /\ s = Rotate(old, new, vault)
  <2>1. PICK old \in Known(vault) : new \in Agent /\ s = Rotate(old, new, vault)
    BY <1>3
  <2>2. old \in Agent /\ vault.name[old] \in Name /\ old # new /\ vault.name[new] = Nothing
    BY <2>1 DEF Known, Heard, Vault
  <2> HIDE DEF s
  <2>3. /\ Len(s) = 5
        /\ s[1].do = "key"
        /\ s[2].do = "record" /\ s[2].of = new /\ s[2].name = vault.name[old]
        /\ s[3].do = "publish" 
        /\ s[4].do = "bar" /\ s[4].of = old
        /\ s[5].do = "retract"
    <3>1. LET r == Rotate(old, new, vault) IN
          /\ Len(r) = 5
          /\ r[1] = [do |-> "key", of |-> new]
          /\ r[2] = [do |-> "record", of |-> new, name |-> vault.name[old]]
          /\ r[3] = [do |-> "publish", of |-> new]
          /\ r[4] = [do |-> "bar", of |-> old]
          /\ r[5] = [do |-> "retract", of |-> old]
      BY <2>1, <2>2, RotateIs
    <3> QED
      BY <2>1, <3>1
  <2>4. ReplacesIn(s, new, vault)
    BY <2>1, <2>2, <2>3 DEF ReplacesIn
  <2> QED
    BY <2>4 DEF s
<1>4. CASE \E old \in Known(vault) : s = RevokeAgent(old) /\ cmd.op = "revoke"
  BY <1>4 DEF NoRevocation
<1> QED
  BY <1>1, <1>2, <1>3, <1>4, ScriptIs

\* Only a record changes a name, and only bar makes an agent unusable.
LEMMA ApplyKeepsNames ==
  ASSUME NEW edit \in Edit, edit.do # "record", NEW vault \in Vault
  PROVE  LET w == Apply(edit, vault) IN
         /\ w \in Vault /\ w.name = vault.name
         /\ vault.private \subseteq w.private
         /\ edit.do # "bar" => w.barred = vault.barred
         /\ edit.do = "bar" => w.barred = vault.barred \cup {edit.of} /\ edit.of \in Agent
<1>1. CASE edit.do = "key"
  BY <1>1 DEF Apply, Edit, Vault
<1>2. CASE edit.do = "bar"
  BY <1>2 DEF Apply, Edit, Vault
<1>3. CASE edit.do = "put"
  BY <1>3 DEF Apply, Edit, Vault
<1>4. CASE edit.do = "drop"
  BY <1>4 DEF Apply, Edit, Vault
<1>5. CASE edit.do \notin {"key", "record", "bar", "put", "drop"}
  BY <1>5 DEF Apply
<1> QED
  BY <1>1, <1>2, <1>3, <1>4, <1>5

\* The edit p makes: only its own record changes a name, and it bars only an agent
\* whose name another one bears with a key in.
LEMMA EditKeepsNames ==
  ASSUME NoRevocation, VaultInv, KeysInv, NamesInv, NEW p \in Operator, Edits(p)
  PROVE  /\ NamesUsable(run'[p].copy) /\ Heard(run'[p].copy) \subseteq issued
         /\ UNCHANGED issued => Replaces(p)'
<1> DEFINE v == run[p].copy
           d == Doing(p)
           k == run[p].at
           s == run[p].script
<1>1. /\ p \in Busy /\ v \in Vault /\ d \in Edit /\ d = s[k] /\ k \in 1..Len(s)
      /\ Len(s) \in Nat /\ s \in Seq(Edit) /\ run[p].at \in Nat
      /\ run'[p].copy = Apply(d, v) /\ run'[p].script = s
      /\ Done(p)' = Done(p) \cup {k} /\ Done(p) \subseteq 1..Len(s)
  BY BusyFacts DEF VaultInv, Edits, Pending, Doing, Busy, Done
<1>2. /\ NamesUsable(v) /\ Heard(v) \subseteq issued /\ Replaces(p) /\ RecordComesSecond(s)
      /\ 1 \in Done(p) /\ s[1].do = "key" => s[1].of \in v.private
  BY <1>1 DEF NamesInv, KeysInv
<1>3. \A i \in 1..Len(s) : i < k => i \in Done(p)
  BY <1>1 DEF Done
<1> USE DEF Replaces
<1>4. \A i \in 1..Len(s) :
        /\ s[i].do = "record" =>
             /\ i = 2 /\ s[i].of \in issued /\ s[i].of \notin v.barred /\ s[i].of \in Agent
             /\ v.name[s[i].of] = IF i \in Done(p) THEN s[i].name ELSE Nothing
             /\ s[1] = [do |-> "key", of |-> s[i].of] /\ s[i].name \in Name
        /\ s[i].do = "bar" =>
             /\ i > 2 /\ s[2].do = "record" /\ s[2].of # s[i].of /\ 2 \in 1..Len(s)
             /\ v.name[s[i].of] = s[2].name /\ s[i].of \in Agent
  <2>1. TAKE i \in 1..Len(s)
  <2>2. s[i] \in Edit
    BY <1>1, ElementOfSeq
  <2> QED
    BY <1>1, <1>2, <2>2 DEF RecordComesSecond, Edit
<1> HIDE DEF Replaces
<1>5. CASE d.do = "record"
  <2>1. /\ k = 2 /\ d.of \in issued /\ d.of \notin v.barred /\ d.of \in Agent
        /\ d.name \in Name /\ d.of \in v.private
    <3>1. 1 \in Done(p) /\ s[1] = [do |-> "key", of |-> d.of]
      BY <1>1, <1>3, <1>4, <1>5
    <3>2. s[1].do = "key" /\ s[1].of = d.of
      BY <3>1
    <3> QED
      BY <1>1, <1>2, <1>4, <1>5, <3>1, <3>2
  <2>2. k \notin Done(p) => v.name[d.of] = Nothing
    BY <1>1, <1>4, <1>5
  <2>3. k \in Done(p) => v.name[d.of] = d.name
    BY <1>1, <1>4, <1>5
  <2>4. run'[p].copy = [v EXCEPT !.name[d.of] = d.name] /\ run'[p].copy \in Vault
    BY <1>1, <1>5, ApplyType DEF Apply
  <2>5. /\ run'[p].copy.private = v.private /\ run'[p].copy.barred = v.barred
        /\ run'[p].copy.name[d.of] = d.name
        /\ \A a \in Agent : a # d.of => run'[p].copy.name[a] = v.name[a]
    BY <1>1, <2>1, <2>4 DEF Vault
  <2>6. Nothing \notin Name
    BY OperatorAssumption
  <2> HIDE DEF v, d, k, s
  <2>7. NamesUsable(run'[p].copy)
    <3>1. SUFFICES ASSUME NEW n \in Name, NEW a \in Agent, run'[p].copy.name[a] = n
                   PROVE  \E b \in Agent : /\ run'[p].copy.name[b] = n
                                           /\ b \in run'[p].copy.private
                                           /\ b \notin run'[p].copy.barred
      BY <2>4, CalledByName DEF NamesUsable
    <3>2. CASE n = d.name
      BY <2>1, <2>5, <3>2
    <3>3. CASE n # d.name
      <4>1. a # d.of /\ v.name[a] = n
        BY <2>5, <3>1, <3>3
      <4>2. PICK b \in Agent : v.name[b] = n /\ b \in v.private /\ b \notin v.barred
        BY <1>1, <1>2, <4>1, CalledByName DEF NamesUsable
      <4>3. b # d.of
        BY <2>2, <2>3, <2>6, <3>3, <4>2
      <4> QED
        BY <2>5, <4>2, <4>3
    <3> QED
      BY <3>2, <3>3
  <2>8. Heard(run'[p].copy) \subseteq issued
    BY <1>2, <2>1, <2>5 DEF Heard, Known
  <2>9. ASSUME UNCHANGED issued PROVE Replaces(p)'
    <3>1. SUFFICES ASSUME NEW i \in 1..Len(s)
                   PROVE  /\ s[i].do = "record" =>
                               /\ s[i].of \in issued
                               /\ s[i].of \notin run'[p].copy.barred
                               /\ run'[p].copy.name[s[i].of] =
                                    IF i \in Done(p)' THEN s[i].name ELSE Nothing
                          /\ s[i].do = "bar" =>
                               /\ i > 2 /\ s[2].do = "record"
                               /\ s[2].of # s[i].of
                               /\ run'[p].copy.name[s[i].of] = s[2].name
      BY <1>1, <2>9 DEF Replaces
    <3>2. ASSUME s[i].do = "record"
          PROVE  /\ s[i].of \in issued
                 /\ s[i].of \notin run'[p].copy.barred
                 /\ run'[p].copy.name[s[i].of] =
                      IF i \in Done(p)' THEN s[i].name ELSE Nothing
      BY <1>1, <1>4, <2>1, <2>5, <3>2
    <3>3. ASSUME s[i].do = "bar"
          PROVE  /\ i > 2 /\ s[2].do = "record" /\ s[2].of # s[i].of
                 /\ run'[p].copy.name[s[i].of] = s[2].name
      BY <1>1, <1>4, <2>1, <2>5, <3>3
    <3> QED
      BY <3>2, <3>3
  <2> QED
    BY <2>7, <2>8, <2>9
<1>6. CASE d.do # "record"
  <2>1. /\ run'[p].copy \in Vault /\ run'[p].copy.name = v.name
        /\ v.private \subseteq run'[p].copy.private
        /\ d.do # "bar" => run'[p].copy.barred = v.barred
        /\ d.do = "bar" => run'[p].copy.barred = v.barred \cup {d.of} /\ d.of \in Agent
    BY <1>1, <1>6, ApplyKeepsNames
  <2>2. ASSUME d.do = "bar"
        PROVE  /\ k > 2 /\ s[2].do = "record" /\ s[2].of # d.of /\ s[2].of \in Agent
               /\ v.name[d.of] = s[2].name /\ v.name[s[2].of] = s[2].name
               /\ s[2].of \in v.private /\ s[2].of \notin v.barred
               /\ s[2].name \in Name
    <3>1. /\ k > 2 /\ s[2].do = "record" /\ s[2].of # d.of /\ 2 \in 1..Len(s)
          /\ v.name[d.of] = s[2].name
      BY <1>1, <1>4, <2>2
    <3>2. 1 \in Done(p) /\ 2 \in Done(p) /\ 1 \in 1..Len(s)
      BY <1>1, <1>3, <3>1
    <3>3. s[1] = [do |-> "key", of |-> s[2].of]
      BY <1>4, <3>1
    <3>4. s[1].do = "key" /\ s[1].of = s[2].of
      BY <3>3
    <3> QED
      BY <1>2, <1>4, <3>1, <3>2, <3>4
  <2> HIDE DEF v, d, k, s
  <2>3. NamesUsable(run'[p].copy)
    <3>1. SUFFICES ASSUME NEW n \in Name, NEW a \in Agent, run'[p].copy.name[a] = n
                   PROVE  \E b \in Agent : /\ run'[p].copy.name[b] = n
                                           /\ b \in run'[p].copy.private
                                           /\ b \notin run'[p].copy.barred
      BY <2>1, CalledByName DEF NamesUsable
    <3>2. PICK b \in Agent : v.name[b] = n /\ b \in v.private /\ b \notin v.barred
      BY <1>1, <1>2, <2>1, <3>1, CalledByName DEF NamesUsable
    <3>3. CASE d.do = "bar" /\ b = d.of
      BY <2>1, <2>2, <3>2, <3>3
    <3>4. CASE ~(d.do = "bar" /\ b = d.of)
      BY <2>1, <3>2, <3>4
    <3> QED
      BY <3>3, <3>4
  <2>4. Heard(run'[p].copy) \subseteq issued
    <3>1. d.do = "bar" => d.of \in Known(v)
      BY <2>1, <2>2, OperatorAssumption DEF Known
    <3> QED
      BY <1>2, <2>1, <3>1 DEF Heard, Known
  <2>5. ASSUME UNCHANGED issued PROVE Replaces(p)'
    <3>1. SUFFICES ASSUME NEW i \in 1..Len(s)
                   PROVE  /\ s[i].do = "record" =>
                               /\ s[i].of \in issued
                               /\ s[i].of \notin run'[p].copy.barred
                               /\ run'[p].copy.name[s[i].of] =
                                    IF i \in Done(p)' THEN s[i].name ELSE Nothing
                          /\ s[i].do = "bar" =>
                               /\ i > 2 /\ s[2].do = "record"
                               /\ s[2].of # s[i].of
                               /\ run'[p].copy.name[s[i].of] = s[2].name
      BY <1>1, <2>5 DEF Replaces
    <3>2. ASSUME s[i].do = "record"
          PROVE  /\ s[i].of \in issued
                 /\ s[i].of \notin run'[p].copy.barred
                 /\ run'[p].copy.name[s[i].of] =
                      IF i \in Done(p)' THEN s[i].name ELSE Nothing
      <4>1. i # k /\ i = 2
        BY <1>1, <1>4, <1>6, <3>2
      <4> QED
        BY <1>1, <1>4, <2>1, <2>2, <3>2, <4>1
    <3>3. ASSUME s[i].do = "bar"
          PROVE  /\ i > 2 /\ s[2].do = "record" /\ s[2].of # s[i].of
                 /\ run'[p].copy.name[s[i].of] = s[2].name
      BY <1>4, <2>1, <3>3
    <3> QED
      BY <3>2, <3>3
  <2> QED
    BY <2>3, <2>4, <2>5
<1> QED
  BY <1>5, <1>6

\* Between its edits a session changes nothing that NamesInv speaks of.
LEMMA ContinueKeepsNames ==
  ASSUME NamesInv, NEW p \in Operator, Continues(p), issued \subseteq issued'
  PROVE  /\ NamesUsable(run'[p].copy) /\ Heard(run'[p].copy) \subseteq issued'
         /\ Replaces(p)'
<1>1. /\ p \in Busy /\ NamesUsable(run[p].copy) /\ Heard(run[p].copy) \subseteq issued
      /\ Replaces(p) /\ run'[p].copy = run[p].copy /\ run'[p].script = run[p].script
      /\ Done(p) \subseteq Done(p)'
      /\ \A i \in Done(p)' : i \in Done(p) \/ ~Saves(run[p].script[i])
  BY DEF NamesInv, Continues, Busy
<1>2. \A i \in Done(p)' : run[p].script[i].do = "record" => i \in Done(p)
  BY <1>1 DEF Saves
<1>3. Replaces(p)'
  BY <1>1, <1>2 DEF Replaces
<1> QED
  BY <1>1, <1>3

LEMMA NamesStep ==
  ASSUME NoRevocation, VaultInv, KeysInv, NamesInv, [Next]_vars
  PROVE  NamesInv'
<1>1. ASSUME NEW p \in Operator, \A q \in Operator \ {p} : run'[q] = run[q],
             issued' = issued, NamesUsable(file'), Heard(file') \subseteq issued,
             run'[p] # Nothing =>
               /\ NamesUsable(run'[p].copy) /\ Heard(run'[p].copy) \subseteq issued
               /\ Replaces(p)'
      PROVE  NamesInv'
  <2>1. ASSUME NEW q \in Busy', q # p
        PROVE  q \in Busy /\ run'[q] = run[q] /\ Replaces(q)'
    <3>1. q \in Busy /\ run'[q] = run[q]
      BY <1>1, <2>1 DEF Busy
    <3>2. Done(q)' = Done(q)
      BY <3>1 DEF Done
    <3> QED
      BY <1>1, <3>1, <3>2 DEF NamesInv, Replaces
  <2>2. ASSUME NEW q \in Busy'
        PROVE  /\ NamesUsable(run'[q].copy) /\ Heard(run'[q].copy) \subseteq issued
               /\ Replaces(q)'
    BY <1>1, <2>1, <2>2 DEF NamesInv, Busy
  <2> QED
    BY <1>1, <2>2 DEF NamesInv, NamesUsable, Called, Usable, Heard, Known
<1>2. ASSUME NEW p \in Operator, Open(p) PROVE NamesInv'
  <2>1. /\ UNCHANGED file /\ run'[p].copy = file /\ Done(p)' = {} /\ issued \subseteq issued'
        /\ file \in Vault
    BY <1>2, OpenSession, FileTyped
  <2>2. Replaces(p)'
    <3>1. PICK cmd \in Ops, new \in (Agent \ issued) \cup {Nothing} :
            /\ Generates(cmd) => new \in Agent
            /\ cmd.op \in {"rotate", "revoke"} => Called(cmd.of, file) # {}
            /\ issued' = issued \cup ({new} \ {Nothing})
            /\ run'[p].script = Script(cmd, new, file)
      BY <1>2, OpenSession
    <3>2. new \notin Heard(file)
      BY <2>1, OperatorAssumption DEF NamesInv, Heard, Known, Vault
    <3>3. ReplacesIn(run'[p].script, new, file)
      BY <2>1, <3>1, <3>2, ScriptReplaces
    <3>4. new \in Agent => new \in issued'
      BY <3>1, OperatorAssumption
    <3> QED
      BY <2>1, <3>2, <3>3, <3>4 DEF Replaces, ReplacesIn, Heard
  <2>3. ASSUME NEW q \in Operator \ {p}, run'[q] # Nothing
        PROVE  /\ NamesUsable(run'[q].copy) /\ Heard(run'[q].copy) \subseteq issued'
               /\ Replaces(q)'
    BY <1>2, <2>1, <2>3, OpenSession, ContinueKeepsNames
  <2>4. ASSUME NEW q \in Busy'
        PROVE  /\ NamesUsable(run'[q].copy) /\ Heard(run'[q].copy) \subseteq issued'
               /\ Replaces(q)'
    BY <2>1, <2>2, <2>3, <2>4 DEF NamesInv, Busy
  <2> QED
    BY <2>1, <2>4 DEF NamesInv, NamesUsable, Called, Usable, Heard, Known
<1>3. ASSUME NEW p \in Operator, Begin(p) PROVE NamesInv'
  <2>1. /\ Edits(p) /\ UNCHANGED <<file, issued>> /\ \A q \in Operator \ {p} : run'[q] = run[q]
    BY <1>3, BeginEdits DEF Begin
  <2> QED
    BY <1>1, <2>1, EditKeepsNames DEF NamesInv
<1>4. ASSUME NEW p \in Operator, Write(p) PROVE NamesInv'
  <2>1. /\ Continues(p) /\ UNCHANGED <<file, issued>> /\ \A q \in Operator \ {p} : run'[q] = run[q]
    BY <1>4, WriteContinues DEF Write
  <2> QED
    BY <1>1, <2>1, ContinueKeepsNames DEF NamesInv
<1>5. ASSUME NEW p \in Operator, Replace(p) PROVE NamesInv'
  <2>1. /\ Continues(p) /\ UNCHANGED issued /\ \A q \in Operator \ {p} : run'[q] = run[q]
        /\ file' = run[p].copy /\ p \in Busy
    BY <1>5, AdvanceContinues, ReplaceFile DEF Replace, Busy
  <2>2. NamesUsable(file') /\ Heard(file') \subseteq issued
    BY <2>1 DEF NamesInv
  <2> QED
    BY <1>1, <2>1, <2>2, ContinueKeepsNames
<1>6. ASSUME NEW p \in Operator, Publish(p) PROVE NamesInv'
  <2>1. /\ Continues(p) /\ UNCHANGED <<file, issued>> /\ \A q \in Operator \ {p} : run'[q] = run[q]
    BY <1>6, AdvanceContinues DEF Publish
  <2> QED
    BY <1>1, <2>1, ContinueKeepsNames DEF NamesInv
<1>7. ASSUME NEW p \in Operator, Finish(p) \/ Stops(p) PROVE NamesInv'
  <2>1. /\ run'[p] = Nothing /\ \A q \in Operator \ {p} : run'[q] = run[q]
        /\ UNCHANGED <<file, issued>>
    BY <1>7 DEF Finish, Stops, VaultInv, VaultTypeOK
  <2> QED
    BY <1>1, <2>1 DEF NamesInv
<1>8. CASE UNCHANGED vars
  <2>1. UNCHANGED <<file, run, issued>> /\ Busy' = Busy /\ \A p : Done(p)' = Done(p)
    BY <1>8 DEF vars, Busy, Done
  <2> QED
    BY <2>1 DEF NamesInv, NamesUsable, Called, Usable, Heard, Known, Replaces
<1> QED
  BY <1>2, <1>3, <1>4, <1>5, <1>6, <1>7, <1>8 DEF Next, Act

\* Unless somebody revokes an agent by hand, a name that has been given to an agent
\* always has one whose key is in the vault and not revoked: rotations of the same
\* name by many operators at once, each saving its own copy over the others', and
\* cut anywhere, never take the last one away.
THEOREM NamesAlwaysUsable ==
  ASSUME NoRevocation
  PROVE  Spec => []NamesStayUsable
<1>1. Init => KeysInv
  BY DEF Init, KeysInv, HoldsKeys, Known, Busy
<1>2. Init => NamesInv
  BY OperatorAssumption
  DEF Init, NamesInv, NamesUsable, Called, Usable, Heard, Known, Busy
<1>3. NamesInv => NamesStayUsable
  BY DEF NamesInv, NamesUsable, NamesStayUsable
<1>4. VaultInv /\ KeysInv /\ NamesInv /\ [Next]_vars => NamesInv'
  BY NamesStep
<1> QED
  BY VaultInvariant, KeysStep, <1>1, <1>2, <1>3, <1>4, PTL DEF Spec
-----------------------------------------------------------------------------
(* The public documents follow the vault.                                  *)

Keeps(v, w) == Known(v) \subseteq Known(w) /\ v.barred \subseteq w.barred

\* A document is published after the record of the agent is saved and marked revoked
\* after the agent is, which the vault lists.
AnnouncedIn(s, vault) ==
  \A i \in 1..Len(s) :
    /\ s[i].do = "publish" => \E j \in 1..Len(s) : j < i /\ s[j].do = "record" /\ s[j].of = s[i].of
    /\ s[i].do = "retract" =>
         /\ s[i].of \in Known(vault)
         /\ \E j \in 1..Len(s) : j < i /\ s[j].do = "bar" /\ s[j].of = s[i].of

\* A command that met no other has the file as its copy between two saves; the
\* documents are those of the vault.
DocsInv ==
  ~overlapped =>
    /\ \A p \in Busy : /\ run[p].alone /\ AnnouncedIn(run[p].script, file)
                       /\ Keeps(file, run[p].copy)
    /\ \A a \in Agent : /\ docs[a] # "none" => a \in Known(file)
                        /\ docs[a] = "revoked" => a \in file.barred

LEMMA ScriptAnnounces ==
  ASSUME NEW cmd \in Ops, NEW vault \in Vault, NEW new,
         Generates(cmd) => new \in Agent,
         cmd.op \in {"rotate", "revoke"} => Called(cmd.of, vault) # {}
  PROVE  AnnouncedIn(Script(cmd, new, vault), vault)
<1> DEFINE s == Script(cmd, new, vault)
<1>1. CASE NoAgents(s)
  BY <1>1 DEF NoAgents, AnnouncedIn
<1>2. CASE new \in Agent /\ \E n \in Name : s = SaveAgent(new, n)
  <2>1. PICK n \in Name : s = SaveAgent(new, n)
    BY <1>2
  <2> HIDE DEF s
  <2>2. /\ Len(s) = 3 /\ s[1].do = "key" /\ s[2].do = "record" /\ s[3].do = "publish"
        /\ s[3].of = new /\ s[2].of = new
    BY <2>1 DEF SaveAgent
  <2>3. AnnouncedIn(s, vault)
    BY <2>2 DEF AnnouncedIn
  <2> QED
    BY <2>3 DEF s
<1>3. CASE \E old \in Known(vault) : new \in Agent /\ s = Rotate(old, new, vault)
  <2>1. PICK old \in Known(vault) : new \in Agent /\ s = Rotate(old, new, vault)
    BY <1>3
  <2>2. old \in Agent /\ vault.name[old] \in Name
    BY DEF Known, Vault
  <2> HIDE DEF s
  <2>3. /\ Len(s) = 5
        /\ s[1].do = "key"
        /\ s[2].do = "record" /\ s[2].of = new
        /\ s[3].do = "publish" /\ s[3].of = new
        /\ s[4].do = "bar" /\ s[4].of = old
        /\ s[5].do = "retract" /\ s[5].of = old
    <3>1. LET r == Rotate(old, new, vault) IN
          /\ Len(r) = 5
          /\ r[1] = [do |-> "key", of |-> new]
          /\ r[2] = [do |-> "record", of |-> new, name |-> vault.name[old]]
          /\ r[3] = [do |-> "publish", of |-> new]
          /\ r[4] = [do |-> "bar", of |-> old]
          /\ r[5] = [do |-> "retract", of |-> old]
      BY <2>1, <2>2, RotateIs
    <3> QED
      BY <2>1, <3>1
  <2>4. \A i \in 1..Len(s) : i \in {1, 2, 3, 4, 5}
    BY <2>3
  <2>5. 2 \in 1..Len(s) /\ 4 \in 1..Len(s) /\ 2 < 3 /\ 4 < 5
    BY <2>3
  <2>6. AnnouncedIn(s, vault)
    BY <2>3, <2>4, <2>5, Zenon DEF AnnouncedIn
  <2> QED
    BY <2>6 DEF s
<1>4. CASE \E old \in Known(vault) : s = RevokeAgent(old) /\ cmd.op = "revoke"
  <2>1. PICK old \in Known(vault) : s = RevokeAgent(old)
    BY <1>4
  <2> HIDE DEF s
  <2>2. /\ Len(s) = 2 /\ s[1].do = "bar" /\ s[2].do = "retract"
        /\ s[1].of = old /\ s[2].of = old
    BY <2>1 DEF RevokeAgent
  <2>3. AnnouncedIn(s, vault)
    BY <2>2 DEF AnnouncedIn
  <2> QED
    BY <2>3 DEF s
<1> QED
  BY <1>1, <1>2, <1>3, <1>4, ScriptIs

\* No edit takes an agent or a revocation out of the vault.
LEMMA ApplyKeeps ==
  ASSUME NEW edit \in Edit, NEW vault \in Vault
  PROVE  Keeps(vault, Apply(edit, vault))
<1>1. CASE edit.do = "record"
  <2>1. edit.name # Nothing /\ edit.of \in Agent
    BY <1>1, OperatorAssumption DEF Edit
  <2>2. /\ Apply(edit, vault).barred = vault.barred
        /\ \A a \in Agent : Apply(edit, vault).name[a] =
             IF a = edit.of THEN edit.name ELSE vault.name[a]
    BY <1>1 DEF Apply, Vault, Edit
  <2> QED
    BY <2>1, <2>2 DEF Keeps, Known
<1>2. CASE edit.do # "record"
  BY <1>2, ApplyKeepsNames DEF Keeps, Known
<1> QED
  BY <1>1, <1>2

LEMMA DocsStep ==
  ASSUME VaultInv, SettledInv, DocsInv, [Next]_vars
  PROVE  DocsInv'
<1>1. CASE overlapped'
  BY <1>1 DEF DocsInv
<1> SUFFICES ASSUME ~overlapped' PROVE DocsInv'
  BY <1>1
<1>2. ~overlapped
  BY DEF Next, Act, Open, Begin, Write, Replace, Publish, Finish, Stops, vars
<1>3. /\ \A p \in Busy : /\ run[p].alone /\ AnnouncedIn(run[p].script, file)
                         /\ Keeps(file, run[p].copy)
                         /\ Busy = {p} /\ InForce(p) /\ run[p].copy \in Vault
      /\ \A a \in Agent : /\ docs[a] # "none" => a \in Known(file)
                          /\ docs[a] = "revoked" => a \in file.barred
      /\ file \in Vault
  BY <1>2, FileTyped DEF DocsInv, SettledInv
<1>11. ASSUME NEW p \in Operator, Busy' \subseteq {p},
              p \in Busy' => /\ run'[p].alone /\ AnnouncedIn(run'[p].script, file')
                             /\ Keeps(file', run'[p].copy),
              \A a \in Agent : /\ docs'[a] # "none" => a \in Known(file')
                               /\ docs'[a] = "revoked" => a \in file'.barred
       PROVE  DocsInv'
  <2>1. \A q \in Busy' : q = p
    BY <1>11
  <2> QED
    BY <1>11, <2>1 DEF DocsInv, Keeps, AnnouncedIn, Known
<1>4. ASSUME NEW p \in Operator, Open(p) PROVE DocsInv'
  <2>1. /\ UNCHANGED <<file, docs>> /\ run'[p].copy = file /\ Busy = {}
    BY <1>4, OpenSession DEF Open
  <2>2. PICK cmd \in Ops, new \in (Agent \ issued) \cup {Nothing} :
          /\ Generates(cmd) => new \in Agent
          /\ cmd.op \in {"rotate", "revoke"} => Called(cmd.of, file) # {}
          /\ issued' = issued \cup ({new} \ {Nothing})
          /\ run'[p].script = Script(cmd, new, file)
    BY <1>4, OpenSession
  <2>3. AnnouncedIn(run'[p].script, file)
    BY <1>3, <2>2, ScriptAnnounces
  <2>4. run'[p].alone
    BY <1>4, <2>1, OpenSession
  <2>5. Busy' = {p}
    BY <1>4, <2>1, OpenSession DEF Busy
  <2> QED
    BY <1>3, <2>1, <2>3, <2>4, <2>5 DEF DocsInv, Keeps, Known
<1>5. ASSUME NEW p \in Operator, Begin(p) PROVE DocsInv'
  <2>1. /\ Edits(p) /\ UNCHANGED <<file, docs>> /\ p \in Busy /\ Busy' = Busy
    <3>1. /\ Edits(p) /\ UNCHANGED <<file, docs>> /\ \A q \in Operator \ {p} : run'[q] = run[q]
      BY <1>5, BeginEdits DEF Begin
    <3> QED
      BY <3>1 DEF Edits, Busy
  <2>2. Keeps(run[p].copy, run'[p].copy)
    BY <1>3, <2>1, ApplyKeeps DEF Edits
  <2>3. /\ Keeps(file, run'[p].copy) /\ AnnouncedIn(run'[p].script, file) /\ run'[p].alone
    BY <1>3, <2>1, <2>2 DEF Edits, Keeps
  <2> QED
    BY <1>3, <2>1, <2>3 DEF DocsInv, Keeps, AnnouncedIn, Known
<1>6. ASSUME NEW p \in Operator, Write(p) PROVE DocsInv'
  <2>1. /\ Continues(p) /\ UNCHANGED <<file, docs>> /\ p \in Busy /\ Busy' = Busy
    <3>1. /\ Continues(p) /\ UNCHANGED <<file, docs>> /\ \A q \in Operator \ {p} : run'[q] = run[q]
      BY <1>6, WriteContinues DEF Write
    <3> QED
      BY <3>1 DEF Continues, Busy
  <2>2. run'[p].alone
    BY <1>3, <1>6, <2>1 DEF Write, VaultInv, VaultTypeOK, Session
  <2>3. AnnouncedIn(run'[p].script, file') /\ Keeps(file', run'[p].copy) /\ Busy' \subseteq {p}
    BY <1>3, <2>1 DEF Continues
  <2>4. \A a \in Agent : /\ docs'[a] # "none" => a \in Known(file')
                         /\ docs'[a] = "revoked" => a \in file'.barred
    BY <1>3, <2>1
  <2> QED
    BY <1>11, <2>2, <2>3, <2>4
<1>7. ASSUME NEW p \in Operator, Replace(p) PROVE DocsInv'
  <2>1. /\ Continues(p) /\ UNCHANGED docs /\ p \in Busy /\ Busy' = Busy
        /\ file' = run[p].copy
    <3>1. /\ Continues(p) /\ UNCHANGED docs /\ \A q \in Operator \ {p} : run'[q] = run[q]
          /\ file' = run[p].copy
      BY <1>7, AdvanceContinues, ReplaceFile DEF Replace
    <3> QED
      BY <3>1 DEF Continues, Busy
  <2>2. run'[p].alone
    BY <1>3, <1>7, <2>1, BusyFacts DEF Replace, VaultInv, VaultTypeOK, Session, Advance, Busy
  <2>3. /\ Keeps(file, file') /\ Keeps(file', run'[p].copy)
    BY <1>3, <2>1 DEF Keeps, Continues, Known
  <2>4. AnnouncedIn(run'[p].script, file')
    BY <1>3, <2>1, <2>3 DEF AnnouncedIn, Continues, Keeps
  <2>5. \A a \in Agent : /\ docs'[a] # "none" => a \in Known(file')
                         /\ docs'[a] = "revoked" => a \in file'.barred
    BY <1>3, <2>1, <2>3 DEF Keeps
  <2> QED
    BY <1>3, <1>11, <2>1, <2>2, <2>3, <2>4, <2>5
<1>8. ASSUME NEW p \in Operator, Publish(p) PROVE DocsInv'
  <2>1. /\ Continues(p) /\ UNCHANGED file /\ p \in Busy /\ Busy' = Busy
        /\ run[p].phase = "edit" /\ Pending(p) /\ Doing(p) \in Edit
        /\ docs' = [docs EXCEPT ![Doing(p).of] =
                      IF Doing(p).do = "publish" THEN "valid" ELSE "revoked"]
        /\ Doing(p).do \in {"publish", "retract"}
    <3>1. /\ Continues(p) /\ UNCHANGED file /\ \A q \in Operator \ {p} : run'[q] = run[q]
      BY <1>8, AdvanceContinues DEF Publish
    <3>2. p \in Busy /\ Busy' = Busy
      BY <3>1 DEF Continues, Busy
    <3>3. Publishes(p) /\ Doing(p) \in Edit /\ Doing(p).do \in {"publish", "retract"}
      BY <1>8, <3>2, BusyFacts DEF Publish, Publishes, Saves, Busy, VaultInv
    <3>4. Rivals(p) = {}
      BY <1>3, <1>8, <3>2 DEF Rivals, Publishes, Pending, Busy
    <3>5. docs' = [docs EXCEPT ![Doing(p).of] =
                     IF Doing(p).do = "publish" THEN "valid" ELSE "revoked"]
      BY <1>8, <3>4 DEF Publish
    <3> QED
      BY <3>1, <3>2, <3>3, <3>5 DEF Publishes
  <2>2. run'[p].alone
    BY <1>3, <1>8, <2>1, BusyFacts DEF Publish, VaultInv, VaultTypeOK, Session, Advance, Busy
  <2>3. /\ run[p].at \in 1..Len(run[p].script) /\ Doing(p) = run[p].script[run[p].at]
        /\ run[p].script \in Seq(Edit)
    BY <2>1, BusyFacts DEF Pending, Doing, Busy, VaultInv
  <2>4. ASSUME NEW j \in 1..Len(run[p].script), j < run[p].at,
               run[p].script[j].do \in {"record", "bar"}
        PROVE  Kept(run[p].script[j], file) /\ run[p].script[j] \in AgentEdit
    <3>1. run[p].script[j] \in AgentEdit
      BY <2>3, <2>4, ElementOfSeq DEF AgentEdit
    <3>2. j \in Done(p)
      BY <2>4 DEF Done
    <3> QED
      BY <1>3, <2>1, <2>4, <3>1, <3>2 DEF InForce
  <2>7. ASSUME \A a \in Agent : /\ docs'[a] # "none" => a \in Known(file)
                                /\ docs'[a] = "revoked" => a \in file.barred
        PROVE  DocsInv'
    <3>1. /\ Busy' \subseteq {p} /\ file' = file
          /\ AnnouncedIn(run'[p].script, file') /\ Keeps(file', run'[p].copy)
      BY <1>3, <2>1 DEF Continues
    <3> QED
      BY <1>11, <2>2, <2>7, <3>1
  <2>5. CASE Doing(p).do = "publish"
    <3>1. PICK j \in 1..Len(run[p].script) :
            /\ j < run[p].at /\ run[p].script[j].do = "record"
            /\ run[p].script[j].of = Doing(p).of
      BY <1>3, <2>1, <2>3, <2>5 DEF AnnouncedIn
    <3>2. run[p].script[j] \in AgentEdit /\ Kept(run[p].script[j], file)
      BY <2>4, <3>1
    <3>6. file.name[run[p].script[j].of] = run[p].script[j].name
      BY <1>3, <3>1, <3>2, KeptMeans
    <3>7. run[p].script[j].of \in Agent /\ run[p].script[j].name \in Name
      BY <3>1, <3>2 DEF AgentEdit, Edit
    <3>3. Doing(p).of \in Known(file)
      BY <3>1, <3>6, <3>7, OperatorAssumption DEF Known
    <3>4. docs' = [docs EXCEPT ![Doing(p).of] = "valid"]
      BY <2>1, <2>5
    <3>5. \A a \in Agent : /\ docs'[a] # "none" => a \in Known(file)
                           /\ docs'[a] = "revoked" => a \in file.barred
      BY <1>3, <3>3, <3>4 DEF VaultInv, VaultTypeOK
    <3> QED
      BY <2>7, <3>5
  <2>6. CASE Doing(p).do = "retract"
    <3>1. PICK j \in 1..Len(run[p].script) :
            /\ j < run[p].at /\ run[p].script[j].do = "bar"
            /\ run[p].script[j].of = Doing(p).of
      BY <1>3, <2>1, <2>3, <2>6 DEF AnnouncedIn
    <3>2. Doing(p).of \in Known(file)
      BY <1>3, <2>1, <2>3, <2>6 DEF AnnouncedIn
    <3>3. Doing(p).of \in file.barred
      BY <1>3, <2>4, <3>1, KeptMeans
    <3>4. docs' = [docs EXCEPT ![Doing(p).of] = "revoked"]
      BY <2>1, <2>6
    <3>5. \A a \in Agent : /\ docs'[a] # "none" => a \in Known(file)
                           /\ docs'[a] = "revoked" => a \in file.barred
      BY <1>3, <3>2, <3>3, <3>4 DEF VaultInv, VaultTypeOK
    <3> QED
      BY <2>7, <3>5
  <2> QED
    BY <2>1, <2>5, <2>6
<1>9. ASSUME NEW p \in Operator, Finish(p) \/ Stops(p) PROVE DocsInv'
  <2>1. /\ Busy' = Busy \ {p} /\ p \in Busy /\ UNCHANGED <<file, docs>>
    BY <1>9 DEF Finish, Stops, VaultInv, VaultTypeOK, Busy
  <2>2. Busy' = {}
    BY <1>3, <2>1
  <2> QED
    BY <1>3, <2>1, <2>2 DEF DocsInv, Known
<1>10. CASE UNCHANGED vars
  <2>1. UNCHANGED <<file, docs, run>> /\ Busy' = Busy
    BY <1>10 DEF vars, Busy
  <2> QED
    BY <1>3, <2>1 DEF DocsInv, Keeps, AnnouncedIn, Known
<1> QED
  BY <1>4, <1>5, <1>6, <1>7, <1>8, <1>9, <1>10 DEF Next, Act

\* As long as no two commands were under way at once, and wherever one was cut, a
\* public document speaks of an agent the vault lists, and says revoked only of one
\* the vault has revoked.
THEOREM DocsAlwaysFollow == Spec => []DocsFollowVault
<1>1. Init => KeysInv /\ SettledInv /\ DocsInv
  BY DEF Init, KeysInv, SettledInv, HoldsKeys, Known, Busy, DocsInv
<1>2. DocsInv => DocsFollowVault
  BY DEF DocsInv, DocsFollowVault
<1>3. VaultInv /\ SettledInv /\ DocsInv /\ [Next]_vars => DocsInv'
  BY DocsStep
<1> QED
  BY VaultInvariant, KeysStep, SettledStep, <1>1, <1>2, <1>3, PTL DEF Spec
=============================================================================
