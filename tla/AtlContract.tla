----------------------------- MODULE AtlContract -----------------------------
(***************************************************************************)
(* What the AGPS manager promises the modem about its ATL connections      *)
(* (gnss/Agps.h: AgpsManager's public methods and its two status           *)
(* callbacks), whatever the state machines, the framework and the retries  *)
(* do behind them: each handle is opened or failed once, closed at the     *)
(* latest when the modem releases it, and never opened again after that.   *)
(***************************************************************************)
CONSTANT Handles

VARIABLES
  atl,        \* what the modem was last told about each handle
  released    \* the handles it has released

vars == <<atl, released>>

\* What one handler may tell a handle: from the first status to the second.
Edges == {<<"idle", "asked">>, <<"idle", "open">>, <<"idle", "failed">>,
          <<"asked", "open">>, <<"asked", "failed">>, <<"asked", "closed">>,
          <<"open", "closed">>, <<"failed", "closed">>, <<"closed", "failed">>}

Init ==
  /\ atl = [h \in Handles |-> "idle"]
  /\ released = {}

\* One handler may tell several subscribers of a machine at once.
Step ==
  /\ atl' \in [Handles -> {"idle", "asked", "open", "failed", "closed"}]
  /\ \A h \in Handles : atl'[h] = atl[h] \/ <<atl[h], atl'[h]>> \in Edges
  /\ \A h \in Handles : atl[h] = "idle" /\ atl'[h] # "idle" =>
       \A g \in Handles \ {h} : atl'[g] = atl[g]
  /\ \E h \in Handles :
       released' \in {released, IF atl'[h] = "closed" THEN released \cup {h} ELSE released}

Spec == Init /\ [][Step]_vars
=============================================================================
