----------------------------- MODULE MCControl -----------------------------
(***************************************************************************)
(* Values of GnssControl's constants for TLC.                              *)
(***************************************************************************)
EXTENDS GnssControl, TLC

CONSTANTS a, b, c, d

FourIds == {a, b, c, d}

\* Session ids are only compared.
Symmetry == Permutations(SessionIds)
=============================================================================
