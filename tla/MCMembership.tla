---------------------------- MODULE MCMembership ----------------------------
(***************************************************************************)
(* A small instance of Membership.                                         *)
(***************************************************************************)
EXTENDS Membership, TLC

\* No action reads the answer and no invariant is about it.
WithoutAnswer == <<people, papers, locks, pc, local, redemptions>>

Symmetry == Permutations(Proc)
=============================================================================
