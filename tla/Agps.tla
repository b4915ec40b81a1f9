-------------------------------- MODULE Agps --------------------------------
(***************************************************************************)
(* The AGPS manager and its three state machines (gnss/Agps.cpp, Agps.h),  *)
(* driven by the messages GnssAdapter posts to the single MsgTask thread   *)
(* (gnss/GnssAdapter.cpp, from initAgpsCommand on).                        *)
(*                                                                         *)
(* One action is one message handler run by the MsgTask thread, or one run *)
(* of the DS retry callback on the timer thread.  A message of the modem,  *)
(* of the framework or of the DS client reaches the state when it is       *)
(* handled; the messages the manager posts to itself keep their FIFO order *)
(* in "posted".                                                            *)
(***************************************************************************)
EXTENDS Integers, Sequences, FiniteSets

CONSTANTS
  Handles,          \* connection handles the modem uses, each for one ATL
  ModemTypes,       \* AGPS types the modem asks for
  FrameworkTypes,   \* AGPS types the framework reports about
  PdnSettings,      \* values USE_EMERGENCY_PDN_FOR_EMERGENCY_SUPL may take
  AgpsCapable,      \* CAPABILITIES has MSA or MSB
  MAX_START_DATA_CALL_RETRIES   \* 4 in the code

AgpsTypes == {"SUPL", "WWAN_ANY", "SUPL_ES"}

ASSUME AgpsAssumption ==
  /\ IsFiniteSet(Handles)
  /\ ModemTypes \subseteq AgpsTypes
  /\ FrameworkTypes \subseteq {"SUPL", "WWAN_ANY"}
  /\ PdnSettings \subseteq BOOLEAN
  /\ PdnSettings # {}
  /\ AgpsCapable \in BOOLEAN
  /\ MAX_START_DATA_CALL_RETRIES \in Nat

Machines  == {"agnss", "internet", "ds"}
AgpsState == {"RELEASED", "PENDING", "ACQUIRED", "RELEASING"}

NULL == "null"      \* no state machine

(***************************************************************************)
(* What the modem was last told about a handle.  "idle" is a handle it has *)
(* not asked for yet, "asked" one it has had no status of.                 *)
(***************************************************************************)
AtlStatus == {"idle", "asked", "open", "failed", "closed"}

\* AgpsMsgRequestATL, the only message the manager posts to the queue.
AtlMsg == [handle : Handles, type : {"SUPL", "SUPL_ES"}]

VARIABLES
  nif,        \* the machines: mState and mSubscriberList
  dsReady,    \* mDsNif has been created
  emergencyPdn, \* mGps_conf.USE_EMERGENCY_PDN_FOR_EMERGENCY_SUPL
  mRetries,   \* DSStateMachine::mRetries
  timers,     \* retry timers armed by loc_timer_start
  posted,     \* RequestATL messages the manager has queued to the adapter
  conn,       \* last thing each machine's data connection was asked or said
  atl,        \* what the modem was last told about each handle
  released    \* handles the modem has released

vars == <<nif, dsReady, emergencyPdn, mRetries, timers, posted, conn, atl, released>>

dsVars == <<mRetries, timers, posted>>

-----------------------------------------------------------------------------
(***************************************************************************)
(* A state machine: its state and the subscriber list.  The list is a set  *)
(* of handles (equals() compares handles only) with the flags              *)
(* mWaitForCloseComplete and mIsInactive; "ahead" keeps its order.         *)
(***************************************************************************)
Nif == [state    : AgpsState,
        subs     : SUBSET Handles,
        waits    : SUBSET Handles,
        inactive : SUBSET Handles,
        ahead    : SUBSET (Handles \X Handles)]

EmptyNif == [state |-> "RELEASED", subs |-> {}, waits |-> {},
             inactive |-> {}, ahead |-> {}]

Active(n)   == n.subs \ n.inactive
Inactive(n) == n.subs \cap n.inactive

\* getFirstSubscriber(false): h is the first active subscriber in the list.
IsFirstActive(n, h) ==
  /\ h \in Active(n)
  /\ \A other \in Active(n) \ {h} : <<h, other>> \in n.ahead

\* addSubscriber(): a handle already in the list is left as it is.
AddSubscriber(n, h, waits) ==
  IF h \in n.subs THEN n
  ELSE [n EXCEPT !.subs  = @ \cup {h},
                 !.waits = IF waits THEN @ \cup {h} ELSE @,
                 !.ahead = @ \cup (n.subs \X {h})]

\* deleteSubscriber(), and the erase in notifyAllSubscribers().
DeleteSubscribers(n, gone) ==
  [n EXCEPT !.subs     = @ \ gone,
            !.waits    = @ \ gone,
            !.inactive = @ \ gone,
            !.ahead    = {p \in @ : p[1] \notin gone /\ p[2] \notin gone}]

SetState(n, s) == [n EXCEPT !.state = s]

\* The subscribers of S, all of them, in list order.
ListOrders(S, n) ==
  {s \in [1..Cardinality(S) -> S] :
     /\ \A h \in S : \E i \in 1..Cardinality(S) : s[i] = h
     /\ \A i, j \in 1..Cardinality(S) : i < j => <<s[i], s[j]>> \in n.ahead}

-----------------------------------------------------------------------------
\* mAtlOpenStatusCb and mAtlCloseStatusCb: what the handles in S are told.
Tell(S, status) == atl' = [h \in Handles |-> IF h \in S THEN status ELSE atl[h]]

(***************************************************************************)
(* requestOrReleaseDataConn(true) returning 0.  Machine m's connection is  *)
(* "requested" from then on, until it is released or reported gone.        *)
(***************************************************************************)
RequestStarts(m, rest) ==
  /\ conn' = [conn EXCEPT ![m] = "requested"]
  /\ posted' = rest
  /\ UNCHANGED <<mRetries, timers>>

\* The DS machine's DENIED notification of one subscriber: retry as SUPL.
FallBackToSupl(n, rest) ==
  /\ \E h \in Handles :
       /\ IsFirstActive(n, h)
       /\ posted' = Append(rest, [handle |-> h, type |-> "SUPL"])
  /\ mRetries' = 0
  /\ UNCHANGED timers

\* Fault: the retry limit is tested before the retry is counted.
FaultyDataCallBusy(n, rest) ==
  IF mRetries > MAX_START_DATA_CALL_RETRIES
  THEN FallBackToSupl(n, rest)
  ELSE /\ mRetries' = mRetries + 1
       /\ timers' \in {timers, timers + 1}
       /\ posted' = rest

\* openAndStartDataCall() returned ENGINE_BUSY: arm a timer, or give up.
DataCallBusy(n, rest) ==
  IF mRetries + 1 > MAX_START_DATA_CALL_RETRIES
  THEN FallBackToSupl(n, rest)
  ELSE /\ mRetries' = mRetries + 1
       /\ timers' \in {timers, timers + 1}     \* loc_timer_start may fail
       /\ posted' = rest

(***************************************************************************)
(* DSStateMachine::requestOrReleaseDataConn(true) not returning 0, when    *)
(* the list of the machine is that of n.                                   *)
(***************************************************************************)
RequestFails(n, rest) ==
  /\ UNCHANGED conn
  /\ \/ DataCallBusy(n, rest)
     \/ FallBackToSupl(n, rest)                \* ERR_UNSUPPORTED
     \/ /\ posted' = rest                      \* any other error
        /\ UNCHANGED <<mRetries, timers>>

-----------------------------------------------------------------------------
(***************************************************************************)
(* SUBSCRIBE.  "rest" is the queue once the message is taken off it, and   *)
(* "unanswered" what the modem knows of h if the handler tells it nothing. *)
(***************************************************************************)
SubscribeReleased(m, h, waits, rest, unanswered) ==
  LET added == AddSubscriber(nif[m], h, waits)
  IN  /\ nif[m].state = "RELEASED"
      /\ Tell({h}, unanswered)
      /\ \/ /\ RequestStarts(m, rest)
            /\ nif' = [nif EXCEPT ![m] = SetState(added, "PENDING")]
         \/ /\ m = "ds"
            /\ RequestFails(added, rest)
            /\ nif' = [nif EXCEPT ![m] = added]

SubscribeWaiting(m, h, waits, rest, unanswered) ==
  /\ nif[m].state \in {"PENDING", "RELEASING"}
  /\ nif' = [nif EXCEPT ![m] = AddSubscriber(@, h, waits)]
  /\ Tell({h}, unanswered)
  /\ posted' = rest
  /\ UNCHANGED <<conn, mRetries, timers>>

SubscribeAcquired(m, h, waits, rest) ==
  /\ nif[m].state = "ACQUIRED"
  /\ Tell({h}, "open")
  /\ nif' = [nif EXCEPT ![m] = AddSubscriber(@, h, waits)]
  /\ posted' = rest
  /\ UNCHANGED <<conn, mRetries, timers>>

Subscribe(m, h, waits, rest, unanswered) ==
  \/ SubscribeReleased(m, h, waits, rest, unanswered)
  \/ SubscribeWaiting(m, h, waits, rest, unanswered)
  \/ SubscribeAcquired(m, h, waits, rest)

(***************************************************************************)
(* createAgpsStateMachines(): mDsNif is created when the setting asks for  *)
(* it and mDSClientInitFn succeeds.  mAgnssNif exists iff AgpsCapable, and *)
(* mInternetNif always.                                                    *)
(***************************************************************************)
CreateDs == IF dsReady \/ ~AgpsCapable \/ ~emergencyPdn THEN {dsReady} ELSE BOOLEAN

\* getAgpsStateMachine(), once mDsNif is as "ready" says.
AgpsStateMachine(type, ready) ==
  CASE type = "WWAN_ANY" -> "internet"
    [] type = "SUPL" \/ (type = "SUPL_ES" /\ ~emergencyPdn) ->
         IF AgpsCapable THEN "agnss" ELSE NULL
    [] OTHER -> IF ready THEN "ds" ELSE NULL

\* AgpsManager::requestATL()
RequestATL(h, type, rest, unanswered) ==
  /\ dsReady' \in IF type = "SUPL_ES" THEN CreateDs ELSE {dsReady}
  /\ LET sm == AgpsStateMachine(type, dsReady')
     IN  IF sm = NULL
         THEN /\ Tell({h}, "failed")
              /\ posted' = rest
              /\ UNCHANGED <<nif, conn, mRetries, timers>>
         ELSE Subscribe(sm, h, type = "SUPL_ES", rest, unanswered)
  /\ UNCHANGED <<emergencyPdn, released>>

\* GnssAdapter::requestATL and requestSuplES: the modem asks for a new ATL.
ModemRequestATL(h, type) ==
  /\ atl[h] = "idle"
  /\ type \in ModemTypes
  /\ RequestATL(h, type, posted, "asked")

\* The MsgTask thread takes the manager's own RequestATL off the queue.
ProcRequestATL ==
  /\ posted # <<>>
  /\ LET msg == Head(posted)
     IN  RequestATL(msg.handle, msg.type, Tail(posted), atl[msg.handle])

-----------------------------------------------------------------------------
(***************************************************************************)
(* UNSUBSCRIBE                                                             *)
(***************************************************************************)
\* The list after h is marked inactive (if it waits for the close) or deleted.
Unsubscribed(n, h) ==
  IF h \in n.waits THEN [n EXCEPT !.inactive = @ \cup {h}]
                   ELSE DeleteSubscribers(n, {h})

UnsubscribeReleased(m, h) ==
  /\ nif[m].state = "RELEASED"
  /\ UNCHANGED <<nif, conn>>

\* Fault: only an empty list gives the connection up.
FaultyUnsubscribeHolding(m, h) ==
  LET n == Unsubscribed(nif[m], h)
  IN  /\ nif[m].state \in {"PENDING", "ACQUIRED"}
      /\ IF n.subs # {}
         THEN /\ nif' = [nif EXCEPT ![m] = n]
              /\ UNCHANGED conn
         ELSE /\ nif' = [nif EXCEPT ![m] = SetState(n, "RELEASED")]
              /\ conn' = [conn EXCEPT ![m] = "released"]

\* Fault: the connection is not released when the last subscriber leaves.
LeakyUnsubscribeHolding(m, h) ==
  LET n == Unsubscribed(nif[m], h)
  IN  /\ nif[m].state \in {"PENDING", "ACQUIRED"}
      /\ IF Active(n) # {}
         THEN /\ nif' = [nif EXCEPT ![m] = n]
              /\ UNCHANGED conn
         ELSE /\ nif' = [nif EXCEPT ![m] =
                           SetState(n, IF n.subs = {} THEN "RELEASED" ELSE "RELEASING")]
              /\ conn' = IF n.subs = {} THEN conn ELSE [conn EXCEPT ![m] = "released"]

UnsubscribeHolding(m, h) ==
  LET n == Unsubscribed(nif[m], h)
  IN  /\ nif[m].state \in {"PENDING", "ACQUIRED"}
      /\ IF Active(n) # {}
         THEN /\ nif' = [nif EXCEPT ![m] = n]
              /\ UNCHANGED conn
         ELSE /\ nif' = [nif EXCEPT ![m] =
                           SetState(n, IF n.subs = {} THEN "RELEASED" ELSE "RELEASING")]
              /\ conn' = [conn EXCEPT ![m] = "released"]

UnsubscribeReleasing(m, h) ==
  LET n == Unsubscribed(nif[m], h)
  IN  /\ nif[m].state = "RELEASING"
      /\ nif' = [nif EXCEPT ![m] = IF n.subs = {} THEN SetState(n, "RELEASED") ELSE n]
      /\ UNCHANGED conn

\* The machine AgpsManager::releaseATL() finds h in: the first of the three.
SubscribedTo(h) ==
  CASE h \in nif["agnss"].subs    -> "agnss"
    [] h \notin nif["agnss"].subs /\ h \in nif["internet"].subs -> "internet"
    [] h \notin nif["agnss"].subs \cup nif["internet"].subs /\ h \in nif["ds"].subs -> "ds"
    [] OTHER -> NULL

\* AgpsManager::releaseATL(); in every case the modem is told at once.
ModemReleaseATL(h) ==
  /\ atl[h] # "idle"
  /\ h \notin released
  /\ released' = released \cup {h}
  /\ Tell({h}, "closed")
  /\ LET sm == SubscribedTo(h)
     IN  IF sm = NULL
         THEN UNCHANGED <<nif, conn>>
         ELSE \/ UnsubscribeReleased(sm, h)
              \/ UnsubscribeHolding(sm, h)
              \/ UnsubscribeReleasing(sm, h)
  /\ UNCHANGED <<dsReady, emergencyPdn, dsVars>>

-----------------------------------------------------------------------------
(***************************************************************************)
(* GRANTED, RELEASED and DENIED                                            *)
(***************************************************************************)
\* Fault: inactive subscribers are told too.
FaultyGranted(m) ==
  /\ IF nif[m].state = "PENDING"
     THEN /\ nif' = [nif EXCEPT ![m] = SetState(@, "ACQUIRED")]
          /\ Tell(nif[m].subs, "open")
     ELSE UNCHANGED <<nif, atl>>
  /\ UNCHANGED <<conn, dsVars>>

Granted(m) ==
  /\ IF nif[m].state = "PENDING"
     THEN /\ nif' = [nif EXCEPT ![m] = SetState(@, "ACQUIRED")]
          /\ Tell(Active(nif[m]), "open")
     ELSE UNCHANGED <<nif, atl>>
  /\ UNCHANGED <<conn, dsVars>>

\* Fault: those who subscribed since are kept, but nothing is requested.
IdleClosedWhileReleasing(m) ==
  /\ nif' = [nif EXCEPT ![m] =
               SetState(DeleteSubscribers(@, Inactive(@)), "RELEASED")]
  /\ Tell(Inactive(nif[m]), "closed")
  /\ conn' = [conn EXCEPT ![m] = "gone"]
  /\ UNCHANGED dsVars

\* RELEASED or DENIED in RELEASING: start again for those who subscribed since.
ClosedWhileReleasing(m) ==
  LET n == DeleteSubscribers(nif[m], Inactive(nif[m]))
  IN  /\ Tell(Inactive(nif[m]), "closed")
      /\ IF Active(n) = {}
         THEN /\ nif' = [nif EXCEPT ![m] = SetState(n, "RELEASED")]
              /\ conn' = [conn EXCEPT ![m] = "gone"]
              /\ UNCHANGED dsVars
         ELSE /\ nif' = [nif EXCEPT ![m] = SetState(n, "PENDING")]
              /\ \/ RequestStarts(m, posted)
                 \/ m = "ds" /\ RequestFails(n, posted)

\* Fault: a forced release is told to the inactive subscribers only.
FaultyReleased(m) ==
  CASE nif[m].state = "ACQUIRED" ->
         /\ nif' = [nif EXCEPT ![m] = SetState(DeleteSubscribers(@, @.subs), "RELEASED")]
         /\ Tell(Inactive(nif[m]), "closed")
         /\ conn' = [conn EXCEPT ![m] = "gone"]
         /\ UNCHANGED dsVars
    [] nif[m].state = "RELEASING" -> ClosedWhileReleasing(m)
    [] OTHER -> UNCHANGED <<nif, atl, conn, dsVars>>

Released(m) ==
  CASE nif[m].state = "ACQUIRED" ->
         /\ nif' = [nif EXCEPT ![m] = SetState(DeleteSubscribers(@, @.subs), "RELEASED")]
         /\ Tell(nif[m].subs, "closed")
         /\ conn' = [conn EXCEPT ![m] = "gone"]
         /\ UNCHANGED dsVars
    [] nif[m].state = "RELEASING" -> ClosedWhileReleasing(m)
    [] OTHER -> UNCHANGED <<nif, atl, conn, dsVars>>

\* DENIED in PENDING: the base machine tells each subscriber ...
TellDenied(m) ==
  /\ Tell(nif[m].subs, "failed")
  /\ UNCHANGED dsVars

\* Fault: only the first active subscriber falls back to SUPL.
FaultyPostFallbacks(m) ==
  /\ FallBackToSupl(nif[m], posted)
  /\ UNCHANGED atl

\* ... the DS machine posts a SUPL request for each, in list order.
PostFallbacks(m) ==
  /\ \E order \in ListOrders(nif[m].subs, nif[m]) :
       posted' = posted \o
         [i \in 1..Cardinality(nif[m].subs) |-> [handle |-> order[i], type |-> "SUPL"]]
  /\ mRetries' = 0
  /\ UNCHANGED <<atl, timers>>

Denied(m) ==
  CASE nif[m].state = "PENDING" ->
         /\ nif' = [nif EXCEPT ![m] = SetState(DeleteSubscribers(@, @.subs), "RELEASED")]
         /\ conn' = [conn EXCEPT ![m] = "gone"]
         /\ IF m = "ds" THEN PostFallbacks(m) ELSE TellDenied(m)
    [] nif[m].state = "RELEASING" -> ClosedWhileReleasing(m)
    [] OTHER -> UNCHANGED <<nif, atl, conn, dsVars>>

\* Fault: the machine of the other type.
SwappedReportTo(type) == AgpsStateMachine(IF type = "SUPL" THEN "WWAN_ANY" ELSE "SUPL", dsReady)

\* The machine a framework report is for; a NULL one is not modelled.
ReportTo(type) == AgpsStateMachine(type, dsReady)

ReportAtlOpenSuccess(type) ==
  /\ ReportTo(type) # NULL
  /\ Granted(ReportTo(type))
  /\ UNCHANGED <<dsReady, emergencyPdn, released>>

ReportAtlOpenFailed(type) ==
  /\ ReportTo(type) # NULL
  /\ Denied(ReportTo(type))
  /\ UNCHANGED <<dsReady, emergencyPdn, released>>

ReportAtlClosed(type) ==
  /\ ReportTo(type) # NULL
  /\ Released(ReportTo(type))
  /\ UNCHANGED <<dsReady, emergencyPdn, released>>

ReportDataCallOpened ==
  /\ dsReady
  /\ Granted("ds")
  /\ UNCHANGED <<dsReady, emergencyPdn, released>>

\* DSStateMachine::processAgpsEvent() takes RELEASED in PENDING as DENIED.
ReportDataCallClosed ==
  /\ dsReady
  /\ IF nif["ds"].state = "PENDING" THEN Denied("ds") ELSE Released("ds")
  /\ UNCHANGED <<dsReady, emergencyPdn, released>>

-----------------------------------------------------------------------------
\* delay_callback() and retryCallback(), on the timer thread.
RetryCallback ==
  /\ timers > 0
  /\ timers' = timers - 1
  /\ IF Active(nif["ds"]) = {}
     THEN UNCHANGED posted
     ELSE \E h \in Handles :
            /\ IsFirstActive(nif["ds"], h)
            /\ posted' = Append(posted, [handle |-> h, type |-> "SUPL_ES"])
  /\ UNCHANGED <<nif, dsReady, emergencyPdn, mRetries, conn, atl, released>>

\* AgpsMsgInit once more: the framework registered its callbacks again.
InitAgps ==
  /\ dsReady' \in CreateDs
  /\ UNCHANGED <<nif, emergencyPdn, dsVars, conn, atl, released>>

\* gnssUpdateConfigCommand() with EM_PDN_FOR_EM_SUPL.
UpdateEmergencyPdn ==
  /\ emergencyPdn' \in PdnSettings \ {emergencyPdn}
  /\ UNCHANGED <<nif, dsReady, dsVars, conn, atl, released>>

Init ==
  /\ nif = [m \in Machines |-> EmptyNif]
  /\ emergencyPdn \in PdnSettings
  /\ dsReady \in IF AgpsCapable /\ emergencyPdn THEN BOOLEAN ELSE {FALSE}
  /\ mRetries = 0
  /\ timers = 0
  /\ posted = <<>>
  /\ conn = [m \in Machines |-> "gone"]
  /\ atl = [h \in Handles |-> "idle"]
  /\ released = {}

Next ==
  \/ \E h \in Handles, type \in AgpsTypes : ModemRequestATL(h, type)
  \/ \E h \in Handles : ModemReleaseATL(h)
  \/ ProcRequestATL
  \/ \E type \in FrameworkTypes : ReportAtlOpenSuccess(type)
  \/ \E type \in FrameworkTypes : ReportAtlOpenFailed(type)
  \/ \E type \in FrameworkTypes : ReportAtlClosed(type)
  \/ ReportDataCallOpened
  \/ ReportDataCallClosed
  \/ RetryCallback
  \/ InitAgps
  \/ UpdateEmergencyPdn

Spec == Init /\ [][Next]_vars
-----------------------------------------------------------------------------
(***************************************************************************)
(* Properties                                                              *)
(***************************************************************************)
\* Every variable has its type.
TypeOK ==
  /\ nif \in [Machines -> Nif]
  /\ dsReady \in BOOLEAN
  /\ emergencyPdn \in BOOLEAN
  /\ mRetries \in 0..MAX_START_DATA_CALL_RETRIES
  /\ timers \in Nat
  /\ posted \in Seq(AtlMsg)
  /\ conn \in [Machines -> {"requested", "released", "gone"}]
  /\ atl \in [Handles -> AtlStatus]
  /\ released \subseteq Handles

\* "ahead" is the order of the list: total, and of its members only.
ListOrdered(n) ==
  /\ n.ahead \subseteq n.subs \X n.subs
  /\ \A g, h \in n.subs : g # h => (<<g, h>> \in n.ahead <=> <<h, g>> \notin n.ahead)

\* A subscriber list as the handlers keep it: only a subscriber that waits for
\* the close is ever inactive.
WellFormed(n) ==
  /\ ListOrdered(n)
  /\ n.inactive \subseteq n.waits
  /\ n.waits \subseteq n.subs

\* The list of machine n is one its state allows.
StateAllowsList(n) ==
  CASE n.state = "RELEASED"  -> Inactive(n) = {}
    [] n.state = "RELEASING" -> Inactive(n) # {}
    [] OTHER                 -> Active(n) # {}

\* What machine m may look like between two messages.
ListOK(m, n) ==
  /\ WellFormed(n)
  /\ StateAllowsList(n)
  /\ m # "ds" /\ n.state = "RELEASED" => n.subs = {}

(***************************************************************************)
(* A data connection is asked for or held only while a subscriber still    *)
(* wants it (PENDING and ACQUIRED have an active subscriber), given up     *)
(* only while somebody waits for the close (RELEASING has an inactive      *)
(* one), and no subscriber waits for a close that was already handled.     *)
(* The base machines keep nobody at all in RELEASED (Agps.cpp, the five    *)
(* processAgpsEvent* handlers).                                            *)
(***************************************************************************)
ListMatchesState == \A m \in Machines : ListOK(m, nif[m])

\* The end of n's data connection will be told to h.
Tracks(n, h) ==
  \/ n.state = "ACQUIRED" /\ h \in n.subs
  \/ n.state = "RELEASING" /\ h \in Inactive(n)

(***************************************************************************)
(* An ATL the modem believes to be open is never dropped silently: it is   *)
(* listed by a machine that holds a data connection, or waits for the      *)
(* close of one that is being given up, so that the end of that connection *)
(* will be told to it (Agps.cpp:142-152, 219-243).                         *)
(***************************************************************************)
OpenIsTracked ==
  \A h \in Handles : atl[h] = "open" => \E m \in Machines : Tracks(nif[m], h)

\* A RequestATL message for h is in the queue.
Queued(queue, h) == \E i \in DOMAIN queue : queue[i].handle = h

(***************************************************************************)
(* A request the modem has no answer to is never lost: its handle is an    *)
(* active subscriber of some machine or in a message on its way to one,    *)
(* through every close, denial, retry and fallback to SUPL.                *)
(***************************************************************************)
NoRequestForgotten ==
  \A h \in Handles : atl[h] = "asked" =>
    (\E m \in Machines : h \in Active(nif[m])) \/ Queued(posted, h)

(***************************************************************************)
(* No machine leaves a data connection behind: in RELEASED the last        *)
(* request was taken back or has ended, in RELEASING it was taken back,    *)
(* and the base machines never wait for or use a connection they did not   *)
(* ask for.                                                                *)
(***************************************************************************)
NoConnectionLeaked ==
  \A m \in Machines :
    /\ nif[m].state = "RELEASED" => conn[m] # "requested"
    /\ nif[m].state = "RELEASING" => conn[m] = "released"
    /\ m # "ds" /\ nif[m].state \in {"PENDING", "ACQUIRED"} => conn[m] = "requested"

(***************************************************************************)
(* Without the emergency PDN, what the modem believes and what the         *)
(* machines hold agree: an active subscriber was told "open" exactly when  *)
(* its machine has the connection, an inactive one was told "closed", and  *)
(* every handle waiting for or using an ATL is an active subscriber of     *)
(* exactly one machine.                                                    *)
(***************************************************************************)
ModemView ==
  /\ \A m \in Machines :
       /\ \A h \in Active(nif[m]) :
            /\ atl[h] = IF nif[m].state = "ACQUIRED" THEN "open" ELSE "asked"
            /\ h \notin released
       /\ \A h \in Inactive(nif[m]) : atl[h] = "closed" /\ h \in released
  /\ \A h \in Handles : atl[h] \in {"asked", "open"} =>
       \E m \in Machines : h \in Active(nif[m])
  /\ \A m, k \in Machines : m # k => nif[m].subs \cap nif[k].subs = {}

\* The manager keeps its promise to the modem when the emergency PDN is off.
Contract == INSTANCE AtlContract WITH Handles <- Handles, atl <- atl, released <- released
ContractSpec == Contract!Spec

(***************************************************************************)
(* Fairness: the MsgTask thread and the timer thread run; the framework    *)
(* reports the outcome of the requests and releases it is told of, with    *)
(* the one type AGnss.cpp passes on (lines 69, 80, 100: LOC_AGPS_TYPE_SUPL *)
(* whatever was asked for); the DS client reports the outcome of a data    *)
(* call it accepted, or of one it was told to stop.                        *)
(***************************************************************************)
FrameworkOpens(type) ==
  /\ ReportTo(type) # NULL
  /\ nif[ReportTo(type)].state = "PENDING"
  /\ ReportAtlOpenSuccess(type) \/ ReportAtlOpenFailed(type)

FrameworkCloses(type) ==
  /\ ReportTo(type) # NULL
  /\ nif[ReportTo(type)].state = "RELEASING"
  /\ ReportAtlClosed(type)

DsClientOpens ==
  /\ nif["ds"].state = "PENDING" /\ conn["ds"] = "requested"
  /\ ReportDataCallOpened \/ ReportDataCallClosed

DsClientCloses ==
  /\ nif["ds"].state = "RELEASING"
  /\ ReportDataCallClosed

Fairness ==
  /\ WF_vars(ProcRequestATL)
  /\ WF_vars(RetryCallback)
  /\ \A type \in FrameworkTypes \cap {"SUPL"} :
       WF_vars(FrameworkOpens(type)) /\ WF_vars(FrameworkCloses(type))
  /\ WF_vars(DsClientOpens)
  /\ WF_vars(DsClientCloses)

FairSpec == Spec /\ Fairness

(***************************************************************************)
(* Every ATL the modem asks for is answered: opened, failed or, if the     *)
(* modem gave it up meanwhile, closed; but for one that waits for the      *)
(* internet machine (WWAN_ANY), of which nobody need hear again.           *)
(***************************************************************************)
Waits(h) == atl[h] = "asked" /\ h \in nif["internet"].subs

EveryRequestAnswered ==
  \A h \in Handles : atl[h] = "asked" /\ ~Waits(h) ~> atl[h] # "asked"

(***************************************************************************)
(* Where the framework reports SUPL only, as AGnss.cpp does, that one      *)
(* waits for ever: whatever connections come and go, a request of type     *)
(* WWAN_ANY hears nothing until the modem gives it up.                     *)
(***************************************************************************)
WwanAnyWaits ==
  [][\A h \in Handles : Waits(h) => Waits(h)' \/ h \in released']_vars

=============================================================================
