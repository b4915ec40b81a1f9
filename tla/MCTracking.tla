----------------------------- MODULE MCTracking -----------------------------
(***************************************************************************)
(* Values of GnssTracking's constants for TLC.                             *)
(***************************************************************************)
EXTENDS GnssTracking

CONSTANTS c1, c2, s1, s2, s3

TwoClients == {c1, c2}

\* Two sessions of one client, one of the other.
ThreeSessions == {s1, s2, s3}
OwnerOfThree  == [s \in ThreeSessions |-> IF s = s3 THEN c2 ELSE c1]

\* The first client may exchange its callbacks for others.
OneExchanges ==
  [c \in TwoClients |-> IF c = c1 THEN {{"tracking", "sv"}, {"batching"}} ELSE {{"tracking", "sv"}}]
=============================================================================
