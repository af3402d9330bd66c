----------------------- MODULE MCConfigurationControl -----------------------
(***************************************************************************)
(* A small instance of ConfigurationControl.                               *)
(***************************************************************************)
EXTENDS ConfigurationControl, TLC

\* No action reads an answer; what is said of answers is said of steps.
WithoutAnswer ==
    <<setting, rows, locks, pc, local, acknowledged>>

Symmetry == Permutations(Proc)
=============================================================================
