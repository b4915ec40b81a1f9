----------------------------- MODULE MCObserver -----------------------------
(***************************************************************************)
(* What TLC tells states of OsObserver apart by: once the object is given, *)
(* the caches are not read again; and what an early client wants is in no  *)
(* property and no guard.                                                  *)
(***************************************************************************)
EXTENDS OsObserver

View == <<IF subscriptionObj THEN <<>> ELSE <<mSubscribeReqCache, mReqDataCache>>,
          subscriptionObj, replay, msgs, Index, early,
          [c \in Clients \ early |-> wanted[c]]>>
=============================================================================
