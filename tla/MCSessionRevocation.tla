------------------------ MODULE MCSessionRevocation ------------------------
(***************************************************************************)
(* A small instance of SessionRevocation.                                  *)
(***************************************************************************)
EXTENDS SessionRevocation, TLC

Symmetry == Permutations(Proc)
=============================================================================
