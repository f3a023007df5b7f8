------------------------------- MODULE MCSetup -------------------------------
(***************************************************************************)
(* Instances of Setup and ProxyCa for TLC.                                 *)
(***************************************************************************)
EXTENDS ProxyCa, TLC

ProcessSymmetry == Permutations(Process)
=============================================================================
