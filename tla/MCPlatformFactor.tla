-------------------------- MODULE MCPlatformFactor --------------------------
(***************************************************************************)
(* A small instance of PlatformFactor.                                     *)
(***************************************************************************)
EXTENDS PlatformFactor, TLC

Symmetry == Permutations(Proc)
=============================================================================
