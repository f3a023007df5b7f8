--------------------------- MODULE CapabilityUse ----------------------------
(***************************************************************************)
(* What a capability promises its issuer about use, whatever the number of *)
(* relay processes, their crashes and their files: an arrival is granted a *)
(* use at most once and only while the capability has uses left, and it    *)
(* performs its request at most once and only after the grant.             *)
(***************************************************************************)
EXTENDS Integers, FiniteSets

CONSTANTS Req, Cap, Limit, NoLimit

VARIABLES granted,    \* the arrivals each capability has paid for
          performed   \* the arrivals whose request was sent

useVars == <<granted, performed>>

UseInit == granted = [c \in Cap |-> {}] /\ performed = {}

Grant(r, c) ==
  /\ \A d \in Cap : r \notin granted[d]
  /\ Limit[c] # NoLimit => Cardinality(granted[c]) < Limit[c]
  /\ granted' = [granted EXCEPT ![c] = @ \cup {r}]
  /\ UNCHANGED performed

Perform(r) ==
  /\ r \notin performed
  /\ \E c \in Cap : r \in granted[c]
  /\ performed' = performed \cup {r}
  /\ UNCHANGED granted

UseNext == \E r \in Req : Perform(r) \/ \E c \in Cap : Grant(r, c)

UseSpec == UseInit /\ [][UseNext]_useVars
=============================================================================
