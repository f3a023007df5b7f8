------------------------------ MODULE MCRelay -------------------------------
(***************************************************************************)
(* Instances of Relay for TLC.  A tick of the clock is a second of the     *)
(* code scaled down: MaxSkew ticks stand for the 120 s of proof skew.      *)
(***************************************************************************)
EXTENDS Relay, TLC

CONSTANTS p1, p2, r1, r2, c1, c2, k1, a1, n1, n2

Bearer(max) == [key |-> k1, iat |-> 0, nbf |-> 0, exp |-> MaxTime,
                maxUses |-> max, requireProof |-> FALSE, agent |-> NoAgent]
Bound(from, to) == [key |-> k1, iat |-> 0, nbf |-> from, exp |-> to,
                    maxUses |-> NoLimit, requireProof |-> TRUE, agent |-> a1]
Proof(n, t) == [nonce |-> n, ts |-> t, genuine |-> TRUE]
Ask(c, p) == [cap |-> c, proof |-> p, lawful |-> TRUE]

\* two bearer capabilities on one store, one use each
BudgetClaims == (c1 :> Bearer(1)) @@ (c2 :> Bearer(1))
BudgetOffers == {Ask(c1, NoProof), Ask(c2, NoProof)}

\* one agent-bound capability that expires while the clock still runs; proofs
\* sent twice, ahead of the clock, forged or left out, and one unlawful request
ReplayClaims == (c1 :> Bound(0, 1))
ReplayOffers ==
  {Ask(c1, Proof(n1, 0)), Ask(c1, Proof(n1, 1)),
   Ask(c1, Proof(n2, 2)), Ask(c1, NoProof),
   [Ask(c1, Proof(n2, 1)) EXCEPT !.proof.genuine = FALSE],
   [Ask(c1, Proof(n2, 1)) EXCEPT !.lawful = FALSE]}

\* an operator who revokes one capability and deletes the credential
VaultClaims == (c1 :> Bearer(NoLimit))
VaultOffers == {Ask(c1, NoProof)}
VaultCommands == {[op |-> "revoke", of |-> c1], [op |-> "delete", of |-> k1]}

NoCommands == {}

Symmetry == Permutations(Req) \cup Permutations(Relay)
=============================================================================
