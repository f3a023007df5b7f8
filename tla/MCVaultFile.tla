----------------------------- MODULE MCVaultFile -----------------------------
(***************************************************************************)
(* Instances of VaultFile for TLC.                                         *)
(***************************************************************************)
EXTENDS VaultFile, TLC

CONSTANTS o1, o2, n1, s1

Agents3 == 1..3
Ensure == [op |-> "ensure", of |-> n1]
RotateIt == [op |-> "rotate", of |-> n1]

\* agents come and are rotated, by name and by id, never revoked by hand, beside
\* edits of the secrets
SharedOps == {Ensure, RotateIt, [op |-> "rotate", of |-> 2],
              [op |-> "import", of |-> <<s1>>]}

OperatorSymmetry == Permutations(Operator)
=============================================================================
