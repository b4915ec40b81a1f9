------------------------------- MODULE MCAgps -------------------------------
(***************************************************************************)
(* Small instances of Agps for TLC.                                        *)
(***************************************************************************)
EXTENDS Agps, TLC
CONSTANTS h1, h2, h3

ThreeHandles == {h1, h2, h3}
Symmetry     == Permutations(Handles)
=============================================================================
