------------------------------ MODULE MCClient ------------------------------
(***************************************************************************)
(* Values of LocationClient's constants for TLC.                           *)
(***************************************************************************)
EXTENDS LocationClient, TLC

CONSTANTS a, b, c

\* Any of them may be the id of a session and of a notification.
ThreeIds == {a, b, c}

\* Where an id is in use for both, the invariants ask nothing any more.
Apart == apart

\* Ids are only compared.
Symmetry == Permutations(SessionIds)
=============================================================================
