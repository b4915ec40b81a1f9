----------------------------- MODULE AgpsProofs -----------------------------
(***************************************************************************)
(* Theorems about Agps, for every set of handles, every set of types the   *)
(* modem and the framework use and every retry limit.                      *)
(***************************************************************************)
EXTENDS Agps, TLAPS, FiniteSetTheorems

-----------------------------------------------------------------------------
(***************************************************************************)
(* The operators on a state machine                                        *)
(***************************************************************************)
\* addSubscriber() yields a machine.
LEMMA AddType ==
  ASSUME NEW n \in Nif, NEW h \in Handles, NEW waits \in BOOLEAN
  PROVE  AddSubscriber(n, h, waits) \in Nif
BY DEF Nif, AddSubscriber

\* Deleting subscribers yields a machine.
LEMMA DeleteType ==
  ASSUME NEW n \in Nif, NEW gone
  PROVE  DeleteSubscribers(n, gone) \in Nif
BY DEF Nif, DeleteSubscribers

\* transitionState() yields a machine.
LEMMA SetStateType ==
  ASSUME NEW n \in Nif, NEW s \in AgpsState
  PROVE  SetState(n, s) \in Nif
BY DEF Nif, SetState

\* Only transitionState() changes mState.
LEMMA StateOf ==
  ASSUME NEW n \in Nif, NEW h, NEW waits \in BOOLEAN, NEW gone, NEW s
  PROVE  /\ AddSubscriber(n, h, waits).state = n.state
         /\ DeleteSubscribers(n, gone).state = n.state
         /\ Unsubscribed(n, h).state = n.state
         /\ SetState(n, s).state = s
<1>1. AddSubscriber(n, h, waits).state = n.state
  BY DEF AddSubscriber, Nif
<1>2. DeleteSubscribers(n, gone).state = n.state /\ SetState(n, s).state = s
  BY DEF DeleteSubscribers, SetState, Nif
<1>3. Unsubscribed(n, h).state = n.state
  BY DEF Unsubscribed, DeleteSubscribers, Nif
<1>4. QED
  BY <1>1, <1>2, <1>3

\* Marking a subscriber inactive or deleting it yields a machine.
LEMMA UnsubscribedType ==
  ASSUME NEW n \in Nif, NEW h \in Handles
  PROVE  Unsubscribed(n, h) \in Nif
BY DeleteType DEF Nif, Unsubscribed

\* A status callback leaves the modem's view well typed.
LEMMA TellType ==
  ASSUME atl \in [Handles -> AtlStatus], NEW S, NEW status \in AtlStatus,
         Tell(S, status)
  PROVE  atl' \in [Handles -> AtlStatus]
BY DEF Tell

\* A machine an AGPS type maps to is one of the three.
LEMMA MachineType ==
  ASSUME NEW type, NEW ready, AgpsStateMachine(type, ready) # NULL
  PROVE  AgpsStateMachine(type, ready) \in Machines
BY DEF AgpsStateMachine, Machines

\* The machine a handle is found in is one of the three, and lists it.
LEMMA SubscribedToType ==
  ASSUME NEW h, SubscribedTo(h) # NULL
  PROVE  SubscribedTo(h) \in Machines /\ h \in nif[SubscribedTo(h)].subs
BY DEF SubscribedTo, Machines

-----------------------------------------------------------------------------
(***************************************************************************)
(* Type correctness                                                        *)
(***************************************************************************)
\* The variables a (re)quest for a data connection changes, well typed.
DsTypeOK ==
  /\ mRetries \in 0..MAX_START_DATA_CALL_RETRIES
  /\ timers \in Nat
  /\ posted \in Seq(AtlMsg)
  /\ conn \in [Machines -> {"requested", "released", "gone"}]

LEMMA RequestStartsType ==
  ASSUME DsTypeOK, NEW m \in Machines, NEW rest \in Seq(AtlMsg),
         RequestStarts(m, rest)
  PROVE  DsTypeOK'
BY DEF DsTypeOK, RequestStarts

LEMMA FallBackType ==
  ASSUME DsTypeOK, NEW n, NEW rest \in Seq(AtlMsg),
         FallBackToSupl(n, rest)
  PROVE  /\ mRetries' \in 0..MAX_START_DATA_CALL_RETRIES
         /\ timers' \in Nat
         /\ posted' \in Seq(AtlMsg)
<1>1. PICK h \in Handles : posted' = Append(rest, [handle |-> h, type |-> "SUPL"])
  BY DEF FallBackToSupl
<1>2. [handle |-> h, type |-> "SUPL"] \in AtlMsg
  BY DEF AtlMsg
<1>3. posted' \in Seq(AtlMsg)
  BY <1>1, <1>2
<1>4. QED
  BY <1>3, AgpsAssumption DEF FallBackToSupl, DsTypeOK

LEMMA RequestFailsType ==
  ASSUME DsTypeOK, NEW n, NEW rest \in Seq(AtlMsg),
         RequestFails(n, rest)
  PROVE  DsTypeOK'
<1>1. CASE FallBackToSupl(n, rest)
  BY <1>1, FallBackType DEF DsTypeOK, RequestFails
<1>2. CASE DataCallBusy(n, rest) /\ ~FallBackToSupl(n, rest)
  BY <1>2, AgpsAssumption DEF DsTypeOK, RequestFails, DataCallBusy
<1>3. CASE posted' = rest /\ UNCHANGED <<mRetries, timers>>
  BY <1>3 DEF DsTypeOK, RequestFails
<1>4. QED
  BY <1>1, <1>2, <1>3 DEF RequestFails

LEMMA SubscribeType ==
  ASSUME TypeOK, NEW m \in Machines, NEW h \in Handles, NEW waits \in BOOLEAN,
         NEW rest \in Seq(AtlMsg), NEW unanswered \in AtlStatus,
         Subscribe(m, h, waits, rest, unanswered)
  PROVE  /\ nif' \in [Machines -> Nif]
         /\ DsTypeOK'
         /\ atl' \in [Handles -> AtlStatus]
<1> DEFINE added == AddSubscriber(nif[m], h, waits)
<1>1. added \in Nif /\ SetState(added, "PENDING") \in Nif
  BY AddType, SetStateType DEF TypeOK, AgpsState
<1>2. DsTypeOK
  BY DEF TypeOK, DsTypeOK
<1>3. CASE SubscribeReleased(m, h, waits, rest, unanswered)
  <2>1. atl' \in [Handles -> AtlStatus]
    BY <1>3, TellType DEF SubscribeReleased, TypeOK
  <2>2. nif' \in [Machines -> Nif]
    BY <1>3, <1>1 DEF SubscribeReleased, TypeOK
  <2>3. DsTypeOK'
    BY <1>3, <1>2, RequestStartsType, RequestFailsType DEF SubscribeReleased
  <2>4. QED
    BY <2>1, <2>2, <2>3
<1>4. CASE SubscribeWaiting(m, h, waits, rest, unanswered)
  BY <1>4, <1>1, <1>2, TellType DEF SubscribeWaiting, TypeOK, DsTypeOK
<1>5. CASE SubscribeAcquired(m, h, waits, rest)
  BY <1>5, <1>1, <1>2, TellType DEF SubscribeAcquired, TypeOK, DsTypeOK, AtlStatus
<1>6. QED
  BY <1>3, <1>4, <1>5 DEF Subscribe

LEMMA RequestATLType ==
  ASSUME TypeOK, NEW h \in Handles, NEW type \in AgpsTypes,
         NEW rest \in Seq(AtlMsg), NEW unanswered \in AtlStatus,
         RequestATL(h, type, rest, unanswered)
  PROVE  TypeOK'
<1> DEFINE sm == AgpsStateMachine(type, dsReady')
<1>1. dsReady' \in BOOLEAN /\ emergencyPdn' \in BOOLEAN /\ released' \subseteq Handles
  BY DEF RequestATL, CreateDs, TypeOK
<1>2. CASE sm = NULL
  BY <1>1, <1>2, TellType DEF RequestATL, TypeOK, AtlStatus
<1>3. CASE sm # NULL
  <2>1. sm \in Machines
    BY <1>3, MachineType
  <2>2. Subscribe(sm, h, type = "SUPL_ES", rest, unanswered)
    BY <1>3 DEF RequestATL
  <2>3. QED
    BY <1>1, <2>1, <2>2, SubscribeType DEF TypeOK, DsTypeOK
<1>4. QED
  BY <1>2, <1>3

LEMMA UnsubscribeType ==
  ASSUME TypeOK, NEW m \in Machines, NEW h \in Handles,
         UnsubscribeReleased(m, h) \/ UnsubscribeHolding(m, h) \/ UnsubscribeReleasing(m, h)
  PROVE  /\ nif' \in [Machines -> Nif]
         /\ conn' \in [Machines -> {"requested", "released", "gone"}]
<1>1. \A s \in AgpsState : SetState(Unsubscribed(nif[m], h), s) \in Nif
  BY UnsubscribedType, SetStateType DEF TypeOK
<1>2. Unsubscribed(nif[m], h) \in Nif
  BY UnsubscribedType DEF TypeOK
<1>3. QED
  BY <1>1, <1>2 DEF TypeOK, UnsubscribeReleased, UnsubscribeHolding,
                    UnsubscribeReleasing, AgpsState

LEMMA GrantedType ==
  ASSUME TypeOK, NEW m \in Machines, Granted(m)
  PROVE  /\ nif' \in [Machines -> Nif]
         /\ DsTypeOK'
         /\ atl' \in [Handles -> AtlStatus]
<1>1. nif' \in [Machines -> Nif]
  BY SetStateType DEF Granted, TypeOK, AgpsState
<1>2. atl' \in [Handles -> AtlStatus]
  BY TellType DEF Granted, TypeOK, AtlStatus
<1>3. QED
  BY <1>1, <1>2 DEF Granted, TypeOK, DsTypeOK, dsVars

LEMMA ClosedWhileReleasingType ==
  ASSUME TypeOK, NEW m \in Machines, ClosedWhileReleasing(m)
  PROVE  /\ nif' \in [Machines -> Nif]
         /\ DsTypeOK'
         /\ atl' \in [Handles -> AtlStatus]
<1> DEFINE n == DeleteSubscribers(nif[m], Inactive(nif[m]))
<1>1. SetState(n, "RELEASED") \in Nif /\ SetState(n, "PENDING") \in Nif
  BY DeleteType, SetStateType DEF TypeOK, AgpsState
<1>2. atl' \in [Handles -> AtlStatus]
  BY TellType DEF ClosedWhileReleasing, TypeOK, AtlStatus
<1>3. nif' \in [Machines -> Nif]
  BY <1>1 DEF ClosedWhileReleasing, TypeOK
<1>4. DsTypeOK
  BY DEF TypeOK, DsTypeOK
<1>5. ASSUME UNCHANGED dsVars, conn' = [conn EXCEPT ![m] = "gone"]
      PROVE  DsTypeOK'
  BY <1>4, <1>5 DEF DsTypeOK, dsVars
<1>6. ASSUME RequestStarts(m, posted) \/ RequestFails(n, posted)
      PROVE  DsTypeOK'
  BY <1>4, <1>6, RequestStartsType, RequestFailsType DEF DsTypeOK
<1>7. QED
  BY <1>2, <1>3, <1>5, <1>6 DEF ClosedWhileReleasing

LEMMA ReleasedType ==
  ASSUME TypeOK, NEW m \in Machines, Released(m)
  PROVE  /\ nif' \in [Machines -> Nif]
         /\ DsTypeOK'
         /\ atl' \in [Handles -> AtlStatus]
<1>1. CASE nif[m].state = "ACQUIRED"
  <2>1. SetState(DeleteSubscribers(nif[m], nif[m].subs), "RELEASED") \in Nif
    BY DeleteType, SetStateType DEF TypeOK, AgpsState
  <2>2. QED
    BY <1>1, <2>1, TellType DEF Released, TypeOK, DsTypeOK, dsVars, AtlStatus
<1>2. CASE nif[m].state = "RELEASING"
  BY <1>2, ClosedWhileReleasingType DEF Released
<1>3. CASE nif[m].state \notin {"ACQUIRED", "RELEASING"}
  BY <1>3 DEF Released, TypeOK, DsTypeOK, dsVars
<1>4. QED
  BY <1>1, <1>2, <1>3

LEMMA PostFallbacksType ==
  ASSUME TypeOK, NEW m \in Machines, PostFallbacks(m)
  PROVE  posted' \in Seq(AtlMsg) /\ mRetries' = 0 /\ UNCHANGED <<atl, timers>>
<1> DEFINE S == nif[m].subs
           k == Cardinality(S)
<1>1. S \subseteq Handles
  BY DEF TypeOK, Nif
<1>2. k \in Nat
  BY <1>1, AgpsAssumption, FS_Subset, FS_CardinalityType
<1>3. PICK order \in ListOrders(S, nif[m]) :
        posted' = posted \o [i \in 1..k |-> [handle |-> order[i], type |-> "SUPL"]]
  BY DEF PostFallbacks
<1>4. \A i \in 1..k : order[i] \in Handles
  BY <1>1, <1>3 DEF ListOrders
<1>5. \A i \in 1..k : [handle |-> order[i], type |-> "SUPL"] \in AtlMsg
  BY <1>4 DEF AtlMsg
<1>6. [i \in 1..k |-> [handle |-> order[i], type |-> "SUPL"]] \in Seq(AtlMsg)
  BY <1>2, <1>5
<1>7. posted' \in Seq(AtlMsg)
  BY <1>3, <1>6 DEF TypeOK
<1>8. QED
  BY <1>7 DEF PostFallbacks

LEMMA DeniedType ==
  ASSUME TypeOK, NEW m \in Machines, Denied(m)
  PROVE  /\ nif' \in [Machines -> Nif]
         /\ DsTypeOK'
         /\ atl' \in [Handles -> AtlStatus]
<1>1. CASE nif[m].state = "PENDING"
  <2>1. SetState(DeleteSubscribers(nif[m], nif[m].subs), "RELEASED") \in Nif
    BY DeleteType, SetStateType DEF TypeOK, AgpsState
  <2>2. nif' \in [Machines -> Nif] /\ conn' \in [Machines -> {"requested", "released", "gone"}]
    BY <1>1, <2>1 DEF Denied, TypeOK
  <2>3. CASE m = "ds"
    BY <1>1, <2>2, <2>3, PostFallbacksType, AgpsAssumption DEF Denied, TypeOK, DsTypeOK
  <2>4. CASE m # "ds"
    BY <1>1, <2>2, <2>4, TellType DEF Denied, TellDenied, TypeOK, DsTypeOK, dsVars, AtlStatus
  <2>5. QED
    BY <2>3, <2>4
<1>2. CASE nif[m].state = "RELEASING"
  BY <1>2, ClosedWhileReleasingType DEF Denied
<1>3. CASE nif[m].state \notin {"PENDING", "RELEASING"}
  BY <1>3 DEF Denied, TypeOK, DsTypeOK, dsVars
<1>4. QED
  BY <1>1, <1>2, <1>3

\* The handlers of AgpsManager keep every variable well typed.
LEMMA TypeStep == TypeOK /\ [Next]_vars => TypeOK'
<1> SUFFICES ASSUME TypeOK, [Next]_vars
             PROVE  TypeOK'
  OBVIOUS
<1>1. ASSUME NEW h \in Handles, NEW type \in AgpsTypes, ModemRequestATL(h, type)
      PROVE  TypeOK'
  BY <1>1, RequestATLType DEF ModemRequestATL, TypeOK, AtlStatus
<1>2. ASSUME NEW h \in Handles, ModemReleaseATL(h)
      PROVE  TypeOK'
  <2>1. atl' \in [Handles -> AtlStatus] /\ released' \subseteq Handles
    BY <1>2, TellType DEF ModemReleaseATL, TypeOK, AtlStatus
  <2>2. CASE SubscribedTo(h) = NULL
    BY <1>2, <2>1, <2>2 DEF ModemReleaseATL, TypeOK, dsVars
  <2>3. CASE SubscribedTo(h) # NULL
    <3>1. SubscribedTo(h) \in Machines
      BY <2>3, SubscribedToType
    <3>2. QED
      BY <1>2, <2>1, <2>3, <3>1, UnsubscribeType DEF ModemReleaseATL, TypeOK, dsVars
  <2>4. QED
    BY <2>2, <2>3
<1>3. CASE ProcRequestATL
  <2> DEFINE msg == Head(posted)
  <2>1. msg \in AtlMsg /\ Tail(posted) \in Seq(AtlMsg)
    BY <1>3 DEF ProcRequestATL, TypeOK
  <2>2. msg.handle \in Handles /\ msg.type \in AgpsTypes /\ atl[msg.handle] \in AtlStatus
    BY <2>1 DEF AtlMsg, AgpsTypes, TypeOK
  <2>3. RequestATL(msg.handle, msg.type, Tail(posted), atl[msg.handle])
    BY <1>3 DEF ProcRequestATL
  <2>4. QED
    BY <2>1, <2>2, <2>3, RequestATLType
<1>4. ASSUME NEW type, ReportAtlOpenSuccess(type)
      PROVE  TypeOK'
  BY <1>4, MachineType, GrantedType DEF ReportAtlOpenSuccess, ReportTo, TypeOK, DsTypeOK
<1>5. ASSUME NEW type, ReportAtlOpenFailed(type)
      PROVE  TypeOK'
  BY <1>5, MachineType, DeniedType DEF ReportAtlOpenFailed, ReportTo, TypeOK, DsTypeOK
<1>6. ASSUME NEW type, ReportAtlClosed(type)
      PROVE  TypeOK'
  BY <1>6, MachineType, ReleasedType DEF ReportAtlClosed, ReportTo, TypeOK, DsTypeOK
<1>7. CASE ReportDataCallOpened
  BY <1>7, GrantedType DEF ReportDataCallOpened, Machines, TypeOK, DsTypeOK
<1>8. CASE ReportDataCallClosed
  BY <1>8, DeniedType, ReleasedType DEF ReportDataCallClosed, Machines, TypeOK, DsTypeOK
<1>9. CASE RetryCallback
  <2>1. CASE UNCHANGED posted
    BY <1>9, <2>1 DEF RetryCallback, TypeOK
  <2>2. CASE \E h \in Handles : posted' = Append(posted, [handle |-> h, type |-> "SUPL_ES"])
    <3>1. PICK h \in Handles : posted' = Append(posted, [handle |-> h, type |-> "SUPL_ES"])
      BY <2>2
    <3>2. [handle |-> h, type |-> "SUPL_ES"] \in AtlMsg
      BY DEF AtlMsg
    <3>3. posted' \in Seq(AtlMsg)
      BY <3>1, <3>2 DEF TypeOK
    <3>4. QED
      BY <1>9, <3>3 DEF RetryCallback, TypeOK
  <2>3. QED
    BY <1>9, <2>1, <2>2 DEF RetryCallback
<1>10. CASE InitAgps
  BY <1>10 DEF InitAgps, CreateDs, TypeOK, dsVars
<1>11. CASE UpdateEmergencyPdn
  BY <1>11, AgpsAssumption DEF UpdateEmergencyPdn, TypeOK, dsVars
<1>12. CASE UNCHANGED vars
  BY <1>12 DEF vars, TypeOK
<1>13. QED
  BY <1>1, <1>2, <1>3, <1>4, <1>5, <1>6, <1>7, <1>8, <1>9, <1>10, <1>11, <1>12 DEF Next

\* Every variable of the AGPS manager keeps its type.
THEOREM TypeCorrect == Spec => []TypeOK
<1>1. EmptyNif \in Nif
  BY DEF EmptyNif, Nif, AgpsState
<1>2. Init => TypeOK
  <2> SUFFICES ASSUME Init PROVE TypeOK
    OBVIOUS
  <2>1. nif \in [Machines -> Nif]
    BY <1>1 DEF Init
  <2>2. dsReady \in BOOLEAN /\ emergencyPdn \in BOOLEAN
    BY AgpsAssumption DEF Init
  <2>3. posted \in Seq(AtlMsg) /\ mRetries \in 0..MAX_START_DATA_CALL_RETRIES /\ timers \in Nat
    BY AgpsAssumption DEF Init
  <2>4. conn \in [Machines -> {"requested", "released", "gone"}]
        /\ atl \in [Handles -> AtlStatus] /\ released \subseteq Handles
    BY DEF Init, AtlStatus
  <2>5. QED
    BY <2>1, <2>2, <2>3, <2>4 DEF TypeOK
<1>3. QED
  BY <1>2, TypeStep, PTL DEF Spec

-----------------------------------------------------------------------------
(***************************************************************************)
(* What the operators on a machine do to its list                          *)
(***************************************************************************)
\* addSubscriber() adds at most one active subscriber, at the end of the list.
LEMMA AddList ==
  ASSUME NEW n \in Nif, WellFormed(n), NEW h \in Handles, NEW waits \in BOOLEAN
  PROVE  LET a == AddSubscriber(n, h, waits)
         IN  /\ WellFormed(a)
             /\ a.state = n.state
             /\ a.subs = n.subs \cup {h}
             /\ Inactive(a) = Inactive(n)
             /\ Active(a) = Active(n) \cup ({h} \ n.subs)
<1>1. CASE h \in n.subs
  BY <1>1 DEF AddSubscriber, Active, Inactive
<1>2. CASE h \notin n.subs
  <2> DEFINE a == AddSubscriber(n, h, waits)
  <2>1. /\ a.state = n.state
        /\ a.subs = n.subs \cup {h}
        /\ a.waits \subseteq a.subs
        /\ a.inactive = n.inactive
        /\ a.inactive \subseteq a.waits
        /\ a.ahead = n.ahead \cup (n.subs \X {h})
    BY <1>2 DEF AddSubscriber, WellFormed, Nif
  <2>2. ListOrdered(a)
    BY <1>2, <2>1 DEF WellFormed, ListOrdered
  <2>3. QED
    BY <1>2, <2>1, <2>2 DEF WellFormed, Active, Inactive
<1>3. QED
  BY <1>1, <1>2

\* Deleting subscribers deletes them and keeps the others as they were.
LEMMA DeleteList ==
  ASSUME NEW n \in Nif, WellFormed(n), NEW gone
  PROVE  LET d == DeleteSubscribers(n, gone)
         IN  /\ WellFormed(d)
             /\ d.state = n.state
             /\ d.subs = n.subs \ gone
             /\ Inactive(d) = Inactive(n) \ gone
             /\ Active(d) = Active(n) \ gone
<1> DEFINE d == DeleteSubscribers(n, gone)
<1>1. /\ d.state = n.state
      /\ d.subs = n.subs \ gone
      /\ d.waits = n.waits \ gone
      /\ d.inactive = n.inactive \ gone
      /\ d.ahead = {p \in n.ahead : p[1] \notin gone /\ p[2] \notin gone}
  BY DEF DeleteSubscribers, Nif
<1>2. ListOrdered(d)
  BY <1>1 DEF WellFormed, ListOrdered
<1>3. QED
  BY <1>1, <1>2 DEF WellFormed, Active, Inactive

\* transitionState() leaves the list alone.
LEMMA SetStateList ==
  ASSUME NEW n \in Nif, NEW s
  PROVE  LET t == SetState(n, s)
         IN  /\ WellFormed(t) <=> WellFormed(n)
             /\ t.state = s
             /\ t.subs = n.subs
             /\ Inactive(t) = Inactive(n)
             /\ Active(t) = Active(n)
BY DEF SetState, Nif, WellFormed, ListOrdered, Active, Inactive

\* A release takes the subscriber out of the active ones; if it waits for the
\* close it stays in the list.
LEMMA UnsubscribedList ==
  ASSUME NEW n \in Nif, WellFormed(n), NEW h \in n.subs
  PROVE  LET u == Unsubscribed(n, h)
         IN  /\ WellFormed(u)
             /\ u.state = n.state
             /\ Active(u) = Active(n) \ {h}
             /\ Inactive(u) = IF h \in n.waits THEN Inactive(n) \cup {h} ELSE Inactive(n)
             /\ u.subs = IF h \in n.waits THEN n.subs ELSE n.subs \ {h}
<1>1. CASE h \in n.waits
  BY <1>1 DEF Unsubscribed, WellFormed, ListOrdered, Active, Inactive, Nif
<1>2. CASE h \notin n.waits
  <2>1. h \notin Inactive(n)
    BY <1>2 DEF WellFormed, Inactive
  <2>2. QED
    BY <1>2, <2>1, DeleteList DEF Unsubscribed
<1>3. QED
  BY <1>1, <1>2

-----------------------------------------------------------------------------
(***************************************************************************)
(* The list matches the state                                              *)
(***************************************************************************)
LEMMA SubscribeList ==
  ASSUME TypeOK, ListMatchesState, NEW m \in Machines, NEW h \in Handles,
         NEW waits \in BOOLEAN, NEW rest, NEW unanswered,
         Subscribe(m, h, waits, rest, unanswered)
  PROVE  ListMatchesState'
<1> DEFINE n == nif[m]
           a == AddSubscriber(n, h, waits)
<1>1. n \in Nif /\ ListOK(m, n)
  BY DEF TypeOK, ListMatchesState
<1>2. /\ a \in Nif
      /\ WellFormed(a)
      /\ a.state = n.state
      /\ a.subs = n.subs \cup {h}
      /\ Inactive(a) = Inactive(n)
      /\ Active(a) = Active(n) \cup ({h} \ n.subs)
  BY <1>1, AddList, AddType DEF ListOK
<1>3. CASE SubscribeReleased(m, h, waits, rest, unanswered)
  <2>1. Active(a) # {} /\ Inactive(a) = {}
    BY <1>1, <1>2, <1>3 DEF SubscribeReleased, ListOK, StateAllowsList, Active, Inactive
  <2>2. ListOK(m, SetState(a, "PENDING"))
    BY <1>2, <2>1, SetStateList DEF ListOK, StateAllowsList
  <2>3. m = "ds" => ListOK(m, a)
    BY <1>2, <1>3, <2>1 DEF ListOK, StateAllowsList, SubscribeReleased
  <2>4. QED
    BY <1>3, <2>2, <2>3 DEF SubscribeReleased, ListMatchesState, TypeOK
<1>4. CASE nif' = [nif EXCEPT ![m] = a] /\ n.state # "RELEASED"
  <2>1. ListOK(m, a)
    BY <1>1, <1>2, <1>4 DEF ListOK, StateAllowsList
  <2>2. QED
    BY <1>4, <2>1 DEF ListMatchesState, TypeOK
<1>5. QED
  BY <1>3, <1>4 DEF Subscribe, SubscribeWaiting, SubscribeAcquired

LEMMA UnsubscribeList ==
  ASSUME TypeOK, ListMatchesState, NEW m \in Machines, NEW h \in nif[m].subs,
         UnsubscribeReleased(m, h) \/ UnsubscribeHolding(m, h) \/ UnsubscribeReleasing(m, h)
  PROVE  ListMatchesState'
<1> DEFINE n == nif[m]
           u == Unsubscribed(n, h)
<1>1. n \in Nif /\ ListOK(m, n)
  BY DEF TypeOK, ListMatchesState
<1>2. /\ WellFormed(u)
      /\ u.state = n.state
      /\ Active(u) = Active(n) \ {h}
      /\ Inactive(u) = IF h \in n.waits THEN Inactive(n) \cup {h} ELSE Inactive(n)
      /\ u.subs = IF h \in n.waits THEN n.subs ELSE n.subs \ {h}
  BY <1>1, UnsubscribedList DEF ListOK
<1>3. u \in Nif
  BY <1>1, UnsubscribedType DEF Nif
<1>4. CASE UnsubscribeReleased(m, h)
  BY <1>4 DEF UnsubscribeReleased, ListMatchesState
<1>5. CASE UnsubscribeHolding(m, h)
  <2>1. CASE Active(u) # {}
    <3>1. ListOK(m, u)
      BY <1>2, <1>5, <2>1 DEF ListOK, StateAllowsList, UnsubscribeHolding
    <3>2. QED
      BY <1>5, <2>1, <3>1 DEF UnsubscribeHolding, ListMatchesState, TypeOK
  <2>2. CASE Active(u) = {}
    <3> DEFINE t == SetState(u, IF u.subs = {} THEN "RELEASED" ELSE "RELEASING")
    <3>1. ListOK(m, t)
      <4>1. /\ WellFormed(t)
            /\ t.state = IF u.subs = {} THEN "RELEASED" ELSE "RELEASING"
            /\ t.subs = u.subs
            /\ Inactive(t) = Inactive(u)
        BY <1>2, <1>3, SetStateList
      <4>2. Inactive(u) = u.subs
        BY <2>2 DEF Active, Inactive
      <4> HIDE DEF t
      <4>3. QED
        BY <4>1, <4>2 DEF ListOK, StateAllowsList
    <3>2. QED
      BY <1>5, <2>2, <3>1 DEF UnsubscribeHolding, ListMatchesState, TypeOK
  <2>3. QED
    BY <2>1, <2>2
<1>6. CASE UnsubscribeReleasing(m, h)
  <2>1. Inactive(n) # {}
    BY <1>1, <1>6 DEF UnsubscribeReleasing, ListOK, StateAllowsList
  <2>2. Inactive(u) # {} /\ u.subs # {}
    BY <1>2, <2>1 DEF Inactive
  <2>3. ListOK(m, u)
    BY <1>2, <1>6, <2>2 DEF ListOK, StateAllowsList, UnsubscribeReleasing
  <2>4. QED
    BY <1>6, <2>2, <2>3 DEF UnsubscribeReleasing, ListMatchesState, TypeOK
<1>7. QED
  BY <1>4, <1>5, <1>6

LEMMA ClosedWhileReleasingList ==
  ASSUME TypeOK, ListMatchesState, NEW m \in Machines, ClosedWhileReleasing(m)
  PROVE  ListMatchesState'
<1> DEFINE n == nif[m]
           d == DeleteSubscribers(n, Inactive(n))
<1>1. n \in Nif /\ WellFormed(n)
  BY DEF TypeOK, ListMatchesState, ListOK
<1>2. d \in Nif /\ WellFormed(d) /\ Inactive(d) = {} /\ d.subs = Active(d)
  <2>1. d \in Nif /\ WellFormed(d) /\ Inactive(d) = Inactive(n) \ Inactive(n)
    BY <1>1, DeleteType, DeleteList
  <2>2. QED
    BY <2>1 DEF Active, Inactive
<1>3. Active(d) = {} => ListOK(m, SetState(d, "RELEASED"))
  BY <1>2, SetStateList DEF ListOK, StateAllowsList
<1>4. Active(d) # {} => ListOK(m, SetState(d, "PENDING"))
  BY <1>2, SetStateList DEF ListOK, StateAllowsList
<1>5. QED
  BY <1>3, <1>4 DEF ClosedWhileReleasing, ListMatchesState, TypeOK

\* RELEASED in ACQUIRED and DENIED in PENDING empty the list.
LEMMA EmptiedList ==
  ASSUME NEW m, NEW n \in Nif, WellFormed(n)
  PROVE  LET e == SetState(DeleteSubscribers(n, n.subs), "RELEASED")
         IN  /\ ListOK(m, e)
             /\ e.state = "RELEASED"
             /\ e.subs = {}
<1> DEFINE d == DeleteSubscribers(n, n.subs)
<1>1. d \in Nif /\ WellFormed(d) /\ d.subs = {}
  BY DeleteType, DeleteList
<1>2. Inactive(d) = {}
  BY <1>1 DEF Inactive
<1>3. QED
  BY <1>1, <1>2, SetStateList DEF ListOK, StateAllowsList

\* GRANTED, RELEASED and DENIED keep the list one the state allows.
LEMMA ReportList ==
  ASSUME TypeOK, ListMatchesState, NEW m \in Machines,
         Granted(m) \/ Released(m) \/ Denied(m)
  PROVE  ListMatchesState'
<1> DEFINE n == nif[m]
<1>1. n \in Nif /\ WellFormed(n) /\ ListOK(m, n)
  BY DEF TypeOK, ListMatchesState, ListOK
<1>2. CASE Granted(m)
  <2>1. n.state = "PENDING" => ListOK(m, SetState(n, "ACQUIRED"))
    BY <1>1, SetStateList DEF ListOK, StateAllowsList
  <2>2. QED
    BY <1>2, <2>1 DEF Granted, ListMatchesState, TypeOK
<1>3. ASSUME nif' = [nif EXCEPT ![m] = SetState(DeleteSubscribers(@, @.subs), "RELEASED")]
      PROVE  ListMatchesState'
  BY <1>1, <1>3, EmptiedList DEF ListMatchesState, TypeOK
<1>4. ASSUME UNCHANGED nif
      PROVE  ListMatchesState'
  BY <1>4 DEF ListMatchesState
<1>5. CASE Released(m)
  BY <1>3, <1>4, <1>5, ClosedWhileReleasingList DEF Released
<1>6. CASE Denied(m)
  BY <1>3, <1>4, <1>6, ClosedWhileReleasingList DEF Denied
<1>7. QED
  BY <1>2, <1>5, <1>6

\* Every handler keeps every list one its machine's state allows.
LEMMA ListStep == TypeOK /\ ListMatchesState /\ [Next]_vars => ListMatchesState'
<1> SUFFICES ASSUME TypeOK, ListMatchesState, [Next]_vars
             PROVE  ListMatchesState'
  OBVIOUS
<1>1. ASSUME UNCHANGED nif
      PROVE  ListMatchesState'
  BY <1>1 DEF ListMatchesState
<1>2. ASSUME NEW h \in Handles, NEW type \in AgpsTypes, NEW rest, NEW unanswered,
             RequestATL(h, type, rest, unanswered)
      PROVE  ListMatchesState'
  <2> DEFINE sm == AgpsStateMachine(type, dsReady')
  <2>1. CASE sm = NULL
    BY <1>1, <1>2, <2>1 DEF RequestATL
  <2>2. CASE sm # NULL
    BY <1>2, <2>2, MachineType, SubscribeList DEF RequestATL
  <2>3. QED
    BY <2>1, <2>2
<1>3. ASSUME NEW h \in Handles, ModemReleaseATL(h)
      PROVE  ListMatchesState'
  <2>1. CASE SubscribedTo(h) = NULL
    BY <1>1, <1>3, <2>1 DEF ModemReleaseATL
  <2>2. CASE SubscribedTo(h) # NULL
    BY <1>3, <2>2, SubscribedToType, UnsubscribeList DEF ModemReleaseATL
  <2>3. QED
    BY <2>1, <2>2
<1>4. ASSUME NEW h \in Handles, NEW type \in AgpsTypes, ModemRequestATL(h, type)
      PROVE  ListMatchesState'
  BY <1>2, <1>4 DEF ModemRequestATL
<1>5. CASE ProcRequestATL
  <2>1. Head(posted) \in AtlMsg
    BY <1>5 DEF ProcRequestATL, TypeOK
  <2>2. Head(posted).handle \in Handles /\ Head(posted).type \in AgpsTypes
    BY <2>1 DEF AtlMsg, AgpsTypes
  <2>3. QED
    BY <1>2, <1>5, <2>2 DEF ProcRequestATL
<1>6. ASSUME NEW type,
             \/ ReportAtlOpenSuccess(type)
             \/ ReportAtlOpenFailed(type)
             \/ ReportAtlClosed(type)
      PROVE  ListMatchesState'
  BY <1>6, MachineType, ReportList
     DEF ReportAtlOpenSuccess, ReportAtlOpenFailed, ReportAtlClosed, ReportTo
<1>7. CASE ReportDataCallOpened \/ ReportDataCallClosed
  BY <1>7, ReportList DEF ReportDataCallOpened, ReportDataCallClosed, Machines
<1>8. CASE RetryCallback \/ InitAgps \/ UpdateEmergencyPdn \/ UNCHANGED vars
  BY <1>1, <1>8 DEF RetryCallback, InitAgps, UpdateEmergencyPdn, vars
<1>9. QED
  BY <1>3, <1>4, <1>5, <1>6, <1>7, <1>8 DEF Next

\* Connections are held or asked for only for active subscribers, and given
\* up only while an inactive one waits, with any handles and any retry limit.
THEOREM ListMatchesStateAlways == Spec => []ListMatchesState
<1>1. Init => ListMatchesState
  BY DEF Init, EmptyNif, ListMatchesState, ListOK, WellFormed, ListOrdered,
         StateAllowsList, Inactive
<1>2. QED
  BY <1>1, TypeCorrect, ListStep, PTL DEF Spec

-----------------------------------------------------------------------------
(***************************************************************************)
(* No connection is leaked                                                 *)
(***************************************************************************)
LEMMA SubscribeConn ==
  ASSUME TypeOK, NoConnectionLeaked, NEW m \in Machines, NEW h \in Handles,
         NEW waits \in BOOLEAN, NEW rest, NEW unanswered,
         Subscribe(m, h, waits, rest, unanswered)
  PROVE  NoConnectionLeaked'
<1> DEFINE a == AddSubscriber(nif[m], h, waits)
<1>1. a \in Nif /\ a.state = nif[m].state
  <2>1. nif[m] \in Nif
    BY DEF TypeOK
  <2>2. QED
    BY <2>1, AddType, StateOf
<1>2. SetState(a, "PENDING").state = "PENDING"
  BY <1>1, StateOf
<1>3. CASE SubscribeReleased(m, h, waits, rest, unanswered)
  BY <1>1, <1>2, <1>3 DEF SubscribeReleased, RequestStarts, RequestFails, NoConnectionLeaked, TypeOK
<1>4. CASE nif' = [nif EXCEPT ![m] = a] /\ UNCHANGED conn
  BY <1>1, <1>4 DEF NoConnectionLeaked, TypeOK
<1>5. QED
  BY <1>3, <1>4 DEF Subscribe, SubscribeWaiting, SubscribeAcquired

LEMMA UnsubscribeConn ==
  ASSUME TypeOK, NoConnectionLeaked, NEW m \in Machines, NEW h \in Handles,
         UnsubscribeReleased(m, h) \/ UnsubscribeHolding(m, h) \/ UnsubscribeReleasing(m, h)
  PROVE  NoConnectionLeaked'
<1> DEFINE u == Unsubscribed(nif[m], h)
<1>1. u \in Nif /\ u.state = nif[m].state
  BY UnsubscribedType, StateOf DEF TypeOK
<1>2. \A s : SetState(u, s).state = s
  BY <1>1, StateOf
<1>3. QED
  BY <1>1, <1>2 DEF UnsubscribeReleased, UnsubscribeHolding, UnsubscribeReleasing,
              NoConnectionLeaked, TypeOK

LEMMA ClosedWhileReleasingConn ==
  ASSUME TypeOK, NoConnectionLeaked, NEW m \in Machines, ClosedWhileReleasing(m)
  PROVE  NoConnectionLeaked'
<1> DEFINE d == DeleteSubscribers(nif[m], Inactive(nif[m]))
<1>1. d \in Nif /\ SetState(d, "RELEASED").state = "RELEASED"
              /\ SetState(d, "PENDING").state = "PENDING"
  BY DeleteType DEF TypeOK, SetState, Nif
<1>2. QED
  BY <1>1 DEF ClosedWhileReleasing, RequestStarts, RequestFails, NoConnectionLeaked, TypeOK

LEMMA ReportConn ==
  ASSUME TypeOK, NoConnectionLeaked, NEW m \in Machines,
         Granted(m) \/ Released(m) \/ Denied(m)
  PROVE  NoConnectionLeaked'
<1> DEFINE e == SetState(DeleteSubscribers(nif[m], nif[m].subs), "RELEASED")
<1>1. e.state = "RELEASED" /\ SetState(nif[m], "ACQUIRED").state = "ACQUIRED"
  BY DeleteType DEF TypeOK, SetState, Nif
<1>2. CASE Granted(m)
  BY <1>1, <1>2 DEF Granted, NoConnectionLeaked, TypeOK
<1>3. ASSUME nif' = [nif EXCEPT ![m] = e], conn' = [conn EXCEPT ![m] = "gone"]
      PROVE  NoConnectionLeaked'
  BY <1>1, <1>3 DEF NoConnectionLeaked, TypeOK
<1>4. ASSUME UNCHANGED <<nif, conn>>
      PROVE  NoConnectionLeaked'
  BY <1>4 DEF NoConnectionLeaked
<1>5. CASE Released(m)
  BY <1>3, <1>4, <1>5, ClosedWhileReleasingConn DEF Released
<1>6. CASE Denied(m)
  BY <1>3, <1>4, <1>6, ClosedWhileReleasingConn DEF Denied
<1>7. QED
  BY <1>2, <1>5, <1>6

LEMMA ConnStep == TypeOK /\ NoConnectionLeaked /\ [Next]_vars => NoConnectionLeaked'
<1> SUFFICES ASSUME TypeOK, NoConnectionLeaked, [Next]_vars
             PROVE  NoConnectionLeaked'
  OBVIOUS
<1>1. ASSUME UNCHANGED <<nif, conn>>
      PROVE  NoConnectionLeaked'
  BY <1>1 DEF NoConnectionLeaked
<1>2. ASSUME NEW h \in Handles, NEW type \in AgpsTypes, NEW rest, NEW unanswered,
             RequestATL(h, type, rest, unanswered)
      PROVE  NoConnectionLeaked'
  BY <1>1, <1>2, MachineType, SubscribeConn DEF RequestATL
<1>3. ASSUME NEW h \in Handles, ModemReleaseATL(h)
      PROVE  NoConnectionLeaked'
  BY <1>1, <1>3, SubscribedToType, UnsubscribeConn DEF ModemReleaseATL
<1>4. ASSUME NEW h \in Handles, NEW type \in AgpsTypes, ModemRequestATL(h, type)
      PROVE  NoConnectionLeaked'
  BY <1>2, <1>4 DEF ModemRequestATL
<1>5. CASE ProcRequestATL
  <2>1. Head(posted) \in AtlMsg
    BY <1>5 DEF ProcRequestATL, TypeOK
  <2>2. QED
    BY <1>2, <1>5, <2>1 DEF ProcRequestATL, AtlMsg, AgpsTypes
<1>6. ASSUME NEW type,
             \/ ReportAtlOpenSuccess(type)
             \/ ReportAtlOpenFailed(type)
             \/ ReportAtlClosed(type)
      PROVE  NoConnectionLeaked'
  BY <1>6, MachineType, ReportConn
     DEF ReportAtlOpenSuccess, ReportAtlOpenFailed, ReportAtlClosed, ReportTo
<1>7. CASE ReportDataCallOpened \/ ReportDataCallClosed
  BY <1>7, ReportConn DEF ReportDataCallOpened, ReportDataCallClosed, Machines
<1>8. CASE RetryCallback \/ InitAgps \/ UpdateEmergencyPdn \/ UNCHANGED vars
  BY <1>1, <1>8 DEF RetryCallback, InitAgps, UpdateEmergencyPdn, vars
<1>9. QED
  BY <1>3, <1>4, <1>5, <1>6, <1>7, <1>8 DEF Next

\* No machine ever leaves a data connection it asked for behind.
THEOREM NoConnectionLeakedAlways == Spec => []NoConnectionLeaked
<1>1. Init => NoConnectionLeaked
  BY DEF Init, EmptyNif, NoConnectionLeaked
<1>2. QED
  BY <1>1, TypeCorrect, ConnStep, PTL DEF Spec

-----------------------------------------------------------------------------
(***************************************************************************)
(* Every open ATL is tracked                                               *)
(***************************************************************************)
\* A step after which whoever is open was tracked before and still is.
LEMMA StillTracked ==
  ASSUME OpenIsTracked,
         \A h \in Handles : atl'[h] = "open" =>
           \/ \E m \in Machines : Tracks(nif'[m], h)
           \/ /\ atl[h] = "open"
              /\ \A m \in Machines : Tracks(nif[m], h) => Tracks(nif'[m], h)
  PROVE  OpenIsTracked'
BY DEF OpenIsTracked, Tracks, Inactive

LEMMA SubscribeTracks ==
  ASSUME TypeOK, ListMatchesState, OpenIsTracked,
         NEW m \in Machines, NEW h \in Handles, NEW waits \in BOOLEAN, NEW rest,
         NEW unanswered, unanswered \in {"asked", atl[h]},
         Subscribe(m, h, waits, rest, unanswered)
  PROVE  OpenIsTracked'
<1> DEFINE n == nif[m]
           a == AddSubscriber(n, h, waits)
<1>1. n \in Nif /\ WellFormed(n)
  BY DEF TypeOK, ListMatchesState, ListOK
<1>2. /\ a \in Nif
      /\ a.state = n.state
      /\ a.subs = n.subs \cup {h}
      /\ Inactive(a) = Inactive(n)
  BY <1>1, AddList, AddType
<1>3. \A k \in Machines, g \in Handles : Tracks(nif[k], g) => Tracks(nif'[k], g)
  <2>1. CASE SubscribeReleased(m, h, waits, rest, unanswered)
    BY <2>1 DEF SubscribeReleased, TypeOK, Tracks
  <2>2. CASE nif' = [nif EXCEPT ![m] = a]
    BY <1>2, <2>2 DEF TypeOK, Tracks
  <2>3. QED
    BY <2>1, <2>2 DEF Subscribe, SubscribeWaiting, SubscribeAcquired
<1>4. CASE Tell({h}, unanswered)
  <2>1. \A g \in Handles : atl'[g] = "open" => atl[g] = "open"
    BY <1>4 DEF Tell
  <2>2. QED
    BY <1>3, <2>1, StillTracked
<1>5. CASE SubscribeAcquired(m, h, waits, rest)
  <2>1. Tracks(nif'[m], h)
    BY <1>2, <1>5 DEF SubscribeAcquired, TypeOK, Tracks
  <2>2. \A g \in Handles \ {h} : atl'[g] = atl[g]
    BY <1>5 DEF SubscribeAcquired, Tell
  <2>3. QED
    BY <1>3, <2>1, <2>2, StillTracked
<1>6. QED
  BY <1>4, <1>5 DEF Subscribe, SubscribeReleased, SubscribeWaiting

LEMMA UnsubscribeTracks ==
  ASSUME TypeOK, ListMatchesState, OpenIsTracked,
         NEW m \in Machines, NEW h \in nif[m].subs, Tell({h}, "closed"),
         UnsubscribeReleased(m, h) \/ UnsubscribeHolding(m, h) \/ UnsubscribeReleasing(m, h)
  PROVE  OpenIsTracked'
<1> DEFINE n == nif[m]
           u == Unsubscribed(n, h)
<1>1. n \in Nif /\ WellFormed(n) /\ ListOK(m, n)
  BY DEF TypeOK, ListMatchesState, ListOK
<1>2. /\ u.state = n.state
      /\ u.subs = IF h \in n.waits THEN n.subs ELSE n.subs \ {h}
      /\ Inactive(u) = IF h \in n.waits THEN Inactive(n) \cup {h} ELSE Inactive(n)
      /\ Active(u) = Active(n) \ {h}
  BY <1>1, UnsubscribedList
<1>3. \A s : SetState(u, s).state = s /\ Inactive(SetState(u, s)) = Inactive(u)
                                     /\ SetState(u, s).subs = u.subs
  <2>1. u \in Nif
    BY <1>1, UnsubscribedType DEF Nif
  <2>2. QED
    BY <2>1, SetStateList
<1>4. \A k \in Machines, g \in Handles \ {h} : Tracks(nif[k], g) => Tracks(nif'[k], g)
  <2>1. CASE UnsubscribeReleased(m, h)
    BY <2>1 DEF UnsubscribeReleased
  <2>2. CASE UnsubscribeHolding(m, h)
    <3>1. CASE Active(u) # {}
      BY <1>2, <2>2, <3>1 DEF UnsubscribeHolding, TypeOK, Tracks
    <3>2. CASE Active(u) = {}
      <4> DEFINE t == SetState(u, IF u.subs = {} THEN "RELEASED" ELSE "RELEASING")
      <4>1. nif' = [nif EXCEPT ![m] = t]
        BY <2>2, <3>2 DEF UnsubscribeHolding
      <4>2. \A g \in Handles \ {h} : Tracks(n, g) => Tracks(t, g)
        <5> SUFFICES ASSUME NEW g \in Handles \ {h}, Tracks(n, g)
                     PROVE  Tracks(t, g)
          OBVIOUS
        <5>1. g \in n.subs /\ g \in u.subs
          BY <1>2 DEF Tracks, Inactive
        <5>2. g \in Inactive(u)
          BY <3>2, <5>1 DEF Active, Inactive
        <5>3. QED
          BY <1>3, <5>1, <5>2 DEF Tracks
      <4>3. QED
        BY <4>1, <4>2 DEF TypeOK
    <3>3. QED
      BY <3>1, <3>2
  <2>3. CASE UnsubscribeReleasing(m, h)
    <3>1. CASE u.subs = {}
      BY <1>2, <2>3, <3>1 DEF UnsubscribeReleasing, TypeOK, Tracks, Inactive
    <3>2. CASE u.subs # {}
      BY <1>2, <2>3, <3>2 DEF UnsubscribeReleasing, TypeOK, Tracks
    <3>3. QED
      BY <3>1, <3>2
  <2>4. QED
    BY <2>1, <2>2, <2>3
<1>5. \A g \in Handles : atl'[g] = "open" => g # h /\ atl[g] = "open"
  BY DEF Tell
<1>6. QED
  BY <1>4, <1>5, StillTracked

LEMMA ClosedWhileReleasingTracks ==
  ASSUME TypeOK, ListMatchesState, OpenIsTracked,
         NEW m \in Machines, nif[m].state = "RELEASING", ClosedWhileReleasing(m)
  PROVE  OpenIsTracked'
<1>1. \A k \in Machines \ {m} : nif'[k] = nif[k]
  BY DEF ClosedWhileReleasing, TypeOK
<1>2. \A h \in Handles : atl'[h] = "open" => atl[h] = "open" /\ h \notin Inactive(nif[m])
  BY DEF ClosedWhileReleasing, Tell
<1>3. \A h \in Handles : Tracks(nif[m], h) => h \in Inactive(nif[m])
  BY DEF Tracks
<1>4. QED
  BY <1>1, <1>2, <1>3, StillTracked

\* RELEASED, and DENIED where the modem is told, take nobody's ATL silently.
LEMMA ReportTracks ==
  ASSUME TypeOK, ListMatchesState, OpenIsTracked, NEW m \in Machines,
         Granted(m) \/ Released(m) \/ Denied(m)
  PROVE  OpenIsTracked'
<1> DEFINE n == nif[m]
           e == SetState(DeleteSubscribers(n, n.subs), "RELEASED")
<1>1. n \in Nif
  BY DEF TypeOK
<1>2. CASE Granted(m) /\ n.state = "PENDING"
  <2> DEFINE g == SetState(n, "ACQUIRED")
  <2>1. nif' = [nif EXCEPT ![m] = g] /\ Tell(Active(n), "open")
    BY <1>2 DEF Granted
  <2>2. g.state = "ACQUIRED" /\ g.subs = n.subs
    BY <1>1, SetStateList
  <2>3. \A h \in Active(n) : Tracks(nif'[m], h)
    BY <2>1, <2>2 DEF TypeOK, Tracks, Active
  <2>4. \A k \in Machines, h \in Handles : Tracks(nif[k], h) => Tracks(nif'[k], h)
    BY <1>2, <2>1 DEF TypeOK, Tracks
  <2>5. QED
    BY <2>1, <2>3, <2>4, StillTracked DEF Tell
<1>3. ASSUME UNCHANGED nif, UNCHANGED atl
      PROVE  OpenIsTracked'
  BY <1>3 DEF OpenIsTracked
<1>4. CASE Released(m) /\ n.state = "ACQUIRED"
  <2>1. nif' = [nif EXCEPT ![m] = e] /\ Tell(n.subs, "closed")
    BY <1>4 DEF Released
  <2>2. \A h \in Handles : atl'[h] = "open" => atl[h] = "open" /\ ~Tracks(n, h)
    BY <2>1 DEF Tell, Tracks, Inactive
  <2>3. \A k \in Machines \ {m} : nif'[k] = nif[k]
    BY <2>1 DEF TypeOK
  <2>4. QED
    BY <2>2, <2>3, StillTracked
<1>5. CASE Denied(m) /\ n.state = "PENDING"
  <2>1. \A k \in Machines \ {m} : nif'[k] = nif[k]
    BY <1>5 DEF Denied, TypeOK
  <2>2. \A h \in Handles : ~Tracks(n, h)
    BY <1>5 DEF Tracks
  <2>3. \A h \in Handles : atl'[h] = "open" => atl[h] = "open"
    BY <1>5 DEF Denied, PostFallbacks, TellDenied, Tell
  <2>4. QED
    BY <2>1, <2>2, <2>3, StillTracked
<1>6. QED
  BY <1>2, <1>3, <1>4, <1>5, ClosedWhileReleasingTracks DEF Granted, Released, Denied

LEMMA OpenStep ==
  TypeOK /\ ListMatchesState /\ OpenIsTracked /\ [Next]_vars => OpenIsTracked'
<1> SUFFICES ASSUME TypeOK, ListMatchesState, OpenIsTracked, [Next]_vars
             PROVE  OpenIsTracked'
  OBVIOUS
<1>1. ASSUME UNCHANGED nif, \A h \in Handles : atl'[h] = "open" => atl[h] = "open"
      PROVE  OpenIsTracked'
  BY <1>1 DEF OpenIsTracked
<1>2. ASSUME NEW h \in Handles, NEW type \in AgpsTypes, NEW rest,
             NEW unanswered, unanswered \in {"asked", atl[h]},
             RequestATL(h, type, rest, unanswered)
      PROVE  OpenIsTracked'
  BY <1>1, <1>2, MachineType, SubscribeTracks DEF RequestATL, Tell
<1>3. ASSUME NEW h \in Handles, ModemReleaseATL(h)
      PROVE  OpenIsTracked'
  BY <1>1, <1>3, SubscribedToType, UnsubscribeTracks DEF ModemReleaseATL, Tell
<1>4. ASSUME NEW h \in Handles, NEW type \in AgpsTypes, ModemRequestATL(h, type)
      PROVE  OpenIsTracked'
  BY <1>2, <1>4 DEF ModemRequestATL
<1>5. CASE ProcRequestATL
  <2>1. Head(posted) \in AtlMsg
    BY <1>5 DEF ProcRequestATL, TypeOK
  <2>2. QED
    BY <1>2, <1>5, <2>1 DEF ProcRequestATL, AtlMsg, AgpsTypes
<1>6. ASSUME NEW type,
             \/ ReportAtlOpenSuccess(type)
             \/ ReportAtlOpenFailed(type)
             \/ ReportAtlClosed(type)
      PROVE  OpenIsTracked'
  BY <1>6, MachineType, ReportTracks
     DEF ReportAtlOpenSuccess, ReportAtlOpenFailed, ReportAtlClosed, ReportTo
<1>7. CASE ReportDataCallOpened \/ ReportDataCallClosed
  BY <1>7, ReportTracks DEF ReportDataCallOpened, ReportDataCallClosed, Machines
<1>8. CASE RetryCallback \/ InitAgps \/ UpdateEmergencyPdn \/ UNCHANGED vars
  BY <1>1, <1>8 DEF RetryCallback, InitAgps, UpdateEmergencyPdn, vars
<1>9. QED
  BY <1>3, <1>4, <1>5, <1>6, <1>7, <1>8 DEF Next

\* No ATL the modem believes to be open is ever dropped silently.
THEOREM OpenIsTrackedAlways == Spec => []OpenIsTracked
<1>1. Init => OpenIsTracked
  BY DEF Init, OpenIsTracked
<1>2. QED
  BY <1>1, TypeCorrect, ListMatchesStateAlways, OpenStep, PTL DEF Spec

-----------------------------------------------------------------------------
(***************************************************************************)
(* No request is forgotten                                                 *)
(***************************************************************************)
(***************************************************************************)
(* NoRequestForgotten is not inductive: a second request for a handle that *)
(* is listed as inactive leaves it inactive.  It never happens to a handle *)
(* that waits for an answer, because only released handles are inactive,   *)
(* and the modem's first request is the first the manager hears of it.     *)
(***************************************************************************)
RequestInv ==
  /\ NoRequestForgotten
  /\ \A h \in released : atl[h] \notin {"idle", "asked"}
  /\ \A m \in Machines : Inactive(nif[m]) \subseteq released
  /\ \A h \in Handles : atl[h] = "idle" =>
       ~Queued(posted, h) /\ \A m \in Machines : h \notin nif[m].subs

\* Appending a message queues its handle and keeps the others queued.
LEMMA QueuedAppend ==
  ASSUME NEW q \in Seq(AtlMsg), NEW x \in AtlMsg, NEW h
  PROVE  Queued(Append(q, x), h) <=> Queued(q, h) \/ x.handle = h
<1> DEFINE r == Append(q, x)
<1>1. /\ DOMAIN r = 1..(Len(q) + 1)
      /\ DOMAIN q = 1..Len(q)
      /\ Len(q) \in Nat
      /\ \A i \in 1..Len(q) : r[i] = q[i]
      /\ r[Len(q) + 1] = x
  OBVIOUS
<1>2. QED
  BY <1>1 DEF Queued

\* Taking a message off the queue takes nobody else's off.
LEMMA QueuedTail ==
  ASSUME NEW q \in Seq(AtlMsg), q # <<>>, NEW h
  PROVE  Queued(q, h) <=> Queued(Tail(q), h) \/ Head(q).handle = h
<1>1. /\ DOMAIN q = 1..Len(q)
      /\ Len(q) \in Nat /\ Len(q) > 0
      /\ DOMAIN Tail(q) = 1..(Len(q) - 1)
      /\ \A i \in 1..(Len(q) - 1) : Tail(q)[i] = q[i + 1]
      /\ Head(q) = q[1]
  OBVIOUS
<1>2. ASSUME Queued(q, h), Head(q).handle # h
      PROVE  Queued(Tail(q), h)
  <2>1. PICK i \in DOMAIN q : q[i].handle = h
    BY <1>2 DEF Queued
  <2>2. i - 1 \in 1..(Len(q) - 1) /\ (i - 1) + 1 = i
    BY <1>1, <1>2, <2>1
  <2>3. QED
    BY <1>1, <2>1, <2>2 DEF Queued
<1>3. ASSUME Queued(Tail(q), h)
      PROVE  Queued(q, h)
  <2>1. PICK i \in 1..(Len(q) - 1) : q[i + 1].handle = h
    BY <1>1, <1>3 DEF Queued
  <2>2. i + 1 \in DOMAIN q
    BY <1>1
  <2>3. QED
    BY <2>1, <2>2 DEF Queued
<1>4. ASSUME Head(q).handle = h
      PROVE  Queued(q, h)
  BY <1>1, <1>4 DEF Queued
<1>5. QED
  BY <1>2, <1>3, <1>4

\* A handler of a request queues at most the first active subscriber.
LEMMA RequestQueues ==
  ASSUME NEW m, NEW n \in Nif, NEW rest \in Seq(AtlMsg),
         RequestStarts(m, rest) \/ RequestFails(n, rest), NEW h
  PROVE  /\ Queued(rest, h) => Queued(posted', h)
         /\ Queued(posted', h) => Queued(rest, h) \/ h \in Active(n)
<1>1. CASE posted' = rest
  BY <1>1
<1>2. CASE FallBackToSupl(n, rest)
  <2>1. PICK g \in Handles :
          /\ IsFirstActive(n, g)
          /\ posted' = Append(rest, [handle |-> g, type |-> "SUPL"])
    BY <1>2 DEF FallBackToSupl
  <2> DEFINE x == [handle |-> g, type |-> "SUPL"]
  <2>2. x \in AtlMsg /\ x.handle = g
    BY DEF AtlMsg
  <2>3. Queued(posted', h) <=> Queued(rest, h) \/ g = h
    BY <2>1, <2>2, QueuedAppend
  <2>4. QED
    BY <2>1, <2>3 DEF IsFirstActive
<1>3. QED
  BY <1>1, <1>2 DEF RequestStarts, RequestFails, DataCallBusy

LEMMA SubscribeRequests ==
  ASSUME TypeOK, ListMatchesState, RequestInv, UNCHANGED released,
         NEW m \in Machines, NEW h \in Handles, NEW waits \in BOOLEAN,
         NEW rest \in Seq(AtlMsg),
         \A g \in Handles \ {h} : Queued(rest, g) <=> Queued(posted, g),
         NEW unanswered, unanswered # "idle",
         unanswered = "asked" => atl[h] \in {"idle", "asked"},
         Subscribe(m, h, waits, rest, unanswered)
  PROVE  RequestInv'
<1> DEFINE n == nif[m]
           a == AddSubscriber(n, h, waits)
<1>1. n \in Nif /\ WellFormed(n)
  BY DEF TypeOK, ListMatchesState, ListOK
<1>2. /\ a \in Nif
      /\ a.subs = n.subs \cup {h}
      /\ Inactive(a) = Inactive(n)
      /\ Active(a) = Active(n) \cup ({h} \ n.subs)
  BY <1>1, AddList, AddType
<1>3. /\ nif'[m].subs \subseteq a.subs
      /\ Inactive(nif'[m]) = Inactive(n)
      /\ Active(nif'[m]) = Active(a)
      /\ \A k \in Machines \ {m} : nif'[k] = nif[k]
  <2>1. SetState(a, "PENDING").subs = a.subs /\ Active(SetState(a, "PENDING")) = Active(a)
        /\ Inactive(SetState(a, "PENDING")) = Inactive(a)
    BY <1>2, SetStateList
  <2>2. nif' = [nif EXCEPT ![m] = a] \/ nif' = [nif EXCEPT ![m] = SetState(a, "PENDING")]
    BY DEF Subscribe, SubscribeReleased, SubscribeWaiting, SubscribeAcquired
  <2>3. QED
    BY <1>2, <2>1, <2>2 DEF TypeOK
<1>4. \A g \in Handles : /\ Queued(rest, g) => Queued(posted', g)
                         /\ Queued(posted', g) => Queued(rest, g) \/ g \in Active(a)
  BY <1>2, RequestQueues DEF Subscribe, SubscribeReleased, SubscribeWaiting, SubscribeAcquired
<1>5. /\ atl'[h] # "idle"
      /\ atl'[h] = "asked" => atl[h] \in {"idle", "asked"}
      /\ \A g \in Handles \ {h} : atl'[g] = atl[g]
  BY DEF Subscribe, SubscribeReleased, SubscribeWaiting, SubscribeAcquired, Tell, TypeOK
<1>6. atl'[h] = "asked" => h \in Active(nif'[m])
  <2> SUFFICES ASSUME atl'[h] = "asked" PROVE h \in Active(a)
    BY <1>3
  <2>1. h \notin released
    BY <1>5 DEF RequestInv
  <2>2. h \notin Inactive(n)
    BY <2>1 DEF RequestInv
  <2>3. QED
    BY <1>2, <2>2 DEF Active, Inactive
<1>7. \A k \in Machines : Active(nif[k]) \subseteq Active(nif'[k])
  BY <1>2, <1>3
<1>8. NoRequestForgotten'
  BY <1>4, <1>5, <1>6, <1>7 DEF RequestInv, NoRequestForgotten
<1>9. \A g \in released' : atl'[g] \notin {"idle", "asked"}
  BY <1>5 DEF RequestInv, TypeOK
<1>10. \A k \in Machines : Inactive(nif'[k]) \subseteq released'
  BY <1>3 DEF RequestInv
<1>11. ASSUME NEW g \in Handles, atl'[g] = "idle"
       PROVE  ~Queued(posted', g) /\ \A k \in Machines : g \notin nif'[k].subs
  <2>1. g # h /\ atl[g] = "idle"
    BY <1>5, <1>11
  <2>2. ~Queued(rest, g) /\ \A k \in Machines : g \notin nif[k].subs
    BY <2>1 DEF RequestInv
  <2>3. g \notin a.subs
    BY <1>2, <2>1, <2>2
  <2>4. QED
    BY <1>3, <1>4, <2>2, <2>3, <1>2 DEF Active
<1>12. QED
  BY <1>8, <1>9, <1>10, <1>11 DEF RequestInv

LEMMA UnsubscribeRequests ==
  ASSUME TypeOK, ListMatchesState, RequestInv, UNCHANGED posted,
         NEW m \in Machines, NEW h \in nif[m].subs, Tell({h}, "closed"),
         released' = released \cup {h},
         UnsubscribeReleased(m, h) \/ UnsubscribeHolding(m, h) \/ UnsubscribeReleasing(m, h)
  PROVE  RequestInv'
<1> DEFINE n == nif[m]
           u == Unsubscribed(n, h)
<1>1. n \in Nif /\ WellFormed(n)
  BY DEF TypeOK, ListMatchesState, ListOK
<1>2. /\ u.subs \subseteq n.subs
      /\ Inactive(u) \subseteq Inactive(n) \cup {h}
      /\ Active(u) = Active(n) \ {h}
  BY <1>1, UnsubscribedList
<1>3. \A s : /\ SetState(u, s).subs = u.subs
             /\ Inactive(SetState(u, s)) = Inactive(u)
             /\ Active(SetState(u, s)) = Active(u)
  <2>1. u \in Nif
    BY <1>1, UnsubscribedType DEF Nif
  <2>2. QED
    BY <2>1, SetStateList
<1>4. \/ nif' = nif
      \/ nif' = [nif EXCEPT ![m] = u]
      \/ \E s : nif' = [nif EXCEPT ![m] = SetState(u, s)]
  BY DEF UnsubscribeReleased, UnsubscribeHolding, UnsubscribeReleasing
<1>5. \A k \in Machines : /\ nif'[k].subs \subseteq nif[k].subs
                          /\ Inactive(nif'[k]) \subseteq Inactive(nif[k]) \cup {h}
                          /\ Active(nif[k]) \subseteq Active(nif'[k]) \cup {h}
  <2>1. CASE nif' = nif
    BY <2>1
  <2>2. CASE nif' = [nif EXCEPT ![m] = u]
    BY <1>2, <2>2 DEF TypeOK
  <2>3. CASE \E s : nif' = [nif EXCEPT ![m] = SetState(u, s)]
    BY <1>2, <1>3, <2>3 DEF TypeOK
  <2>4. QED
    BY <1>4, <2>1, <2>2, <2>3
<1>6. \A g \in Handles : atl'[g] = IF g = h THEN "closed" ELSE atl[g]
  BY DEF Tell
<1>7. NoRequestForgotten'
  BY <1>5, <1>6 DEF RequestInv, NoRequestForgotten
<1>8. \A g \in released' : atl'[g] \notin {"idle", "asked"}
  BY <1>6 DEF RequestInv, TypeOK, Nif
<1>9. \A k \in Machines : Inactive(nif'[k]) \subseteq released'
  BY <1>5 DEF RequestInv
<1>10. ASSUME NEW g \in Handles, atl'[g] = "idle"
       PROVE  ~Queued(posted', g) /\ \A k \in Machines : g \notin nif'[k].subs
  BY <1>5, <1>6, <1>10 DEF RequestInv
<1>11. QED
  BY <1>7, <1>8, <1>9, <1>10 DEF RequestInv

LEMMA ClosedWhileReleasingRequests ==
  ASSUME TypeOK, ListMatchesState, RequestInv, UNCHANGED released,
         NEW m \in Machines, ClosedWhileReleasing(m)
  PROVE  RequestInv'
<1> DEFINE n == nif[m]
           d == DeleteSubscribers(n, Inactive(n))
<1>1. n \in Nif /\ WellFormed(n)
  BY DEF TypeOK, ListMatchesState, ListOK
<1>2. /\ d \in Nif
      /\ d.subs \subseteq n.subs
      /\ Inactive(d) = {}
      /\ Active(d) = Active(n)
  <2>1. d \in Nif /\ d.subs = n.subs \ Inactive(n) /\ Inactive(d) = Inactive(n) \ Inactive(n)
        /\ Active(d) = Active(n) \ Inactive(n)
    BY <1>1, DeleteType, DeleteList
  <2>2. QED
    BY <2>1 DEF Active, Inactive
<1>3. \A k \in Machines : /\ nif'[k].subs \subseteq nif[k].subs
                          /\ Inactive(nif'[k]) \subseteq Inactive(nif[k])
                          /\ Active(nif'[k]) = Active(nif[k])
  <2>1. \A s : /\ SetState(d, s).subs = d.subs
               /\ Inactive(SetState(d, s)) = Inactive(d)
               /\ Active(SetState(d, s)) = Active(d)
    BY <1>2, SetStateList
  <2>2. QED
    BY <1>2, <2>1 DEF ClosedWhileReleasing, TypeOK
<1>4. \A g \in Handles : /\ Queued(posted, g) => Queued(posted', g)
                         /\ Queued(posted', g) => Queued(posted, g) \/ g \in Active(n)
  BY <1>2, RequestQueues DEF ClosedWhileReleasing, dsVars, TypeOK
<1>5. \A g \in Handles : atl'[g] = IF g \in Inactive(n) THEN "closed" ELSE atl[g]
  BY DEF ClosedWhileReleasing, Tell
<1>6. NoRequestForgotten'
  BY <1>3, <1>4, <1>5 DEF RequestInv, NoRequestForgotten
<1>7. \A g \in released' : atl'[g] \notin {"idle", "asked"}
  BY <1>5 DEF RequestInv, TypeOK
<1>8. \A k \in Machines : Inactive(nif'[k]) \subseteq released'
  BY <1>3 DEF RequestInv
<1>9. ASSUME NEW g \in Handles, atl'[g] = "idle"
      PROVE  ~Queued(posted', g) /\ \A k \in Machines : g \notin nif'[k].subs
  BY <1>3, <1>4, <1>5, <1>9 DEF RequestInv, Active
<1>10. QED
  BY <1>6, <1>7, <1>8, <1>9 DEF RequestInv

\* The DS machine queues one SUPL request for each of its subscribers.
LEMMA FallbacksQueued ==
  ASSUME TypeOK, NEW m \in Machines, PostFallbacks(m), NEW h \in Handles
  PROVE  Queued(posted', h) <=> Queued(posted, h) \/ h \in nif[m].subs
<1> DEFINE S == nif[m].subs
           k == Cardinality(S)
<1>1. S \subseteq Handles
  BY DEF TypeOK, Nif
<1>2. k \in Nat
  BY <1>1, AgpsAssumption, FS_Subset, FS_CardinalityType
<1>3. PICK order \in ListOrders(S, nif[m]) :
        posted' = posted \o [i \in 1..k |-> [handle |-> order[i], type |-> "SUPL"]]
  BY DEF PostFallbacks
<1> DEFINE new == [i \in 1..k |-> [handle |-> order[i], type |-> "SUPL"]]
<1>4. /\ \A i \in 1..k : order[i] \in S
      /\ \A g \in S : \E i \in 1..k : order[i] = g
  BY <1>3 DEF ListOrders
<1>5. /\ new \in Seq(AtlMsg)
      /\ Len(new) = k
      /\ \A i \in 1..k : new[i].handle = order[i]
  <2>1. \A i \in 1..k : [handle |-> order[i], type |-> "SUPL"] \in AtlMsg
    BY <1>1, <1>4 DEF AtlMsg
  <2>2. QED
    BY <1>2, <2>1
<1>6. /\ DOMAIN posted' = 1..(Len(posted) + k)
      /\ DOMAIN posted = 1..Len(posted)
      /\ Len(posted) \in Nat
      /\ \A i \in 1..Len(posted) : posted'[i] = posted[i]
      /\ \A i \in 1..k : posted'[Len(posted) + i] = new[i]
  BY <1>2, <1>3, <1>5 DEF TypeOK
<1>7. ASSUME h \in S
      PROVE  Queued(posted', h)
  <2>1. PICK i \in 1..k : order[i] = h
    BY <1>4, <1>7
  <2>2. Len(posted) + i \in DOMAIN posted' /\ posted'[Len(posted) + i].handle = h
    BY <1>2, <1>5, <1>6, <2>1
  <2>3. QED
    BY <2>2 DEF Queued
<1>8. ASSUME Queued(posted, h)
      PROVE  Queued(posted', h)
  BY <1>2, <1>6, <1>8 DEF Queued
<1>9. ASSUME Queued(posted', h)
      PROVE  Queued(posted, h) \/ h \in S
  <2>1. PICK i \in DOMAIN posted' : posted'[i].handle = h
    BY <1>9 DEF Queued
  <2>2. CASE i \in 1..Len(posted)
    BY <1>6, <2>1, <2>2 DEF Queued
  <2>3. CASE i \notin 1..Len(posted)
    <3>1. i - Len(posted) \in 1..k /\ Len(posted) + (i - Len(posted)) = i
      BY <1>2, <1>6, <2>3
    <3>2. posted'[i] = new[i - Len(posted)]
      BY <1>6, <3>1
    <3>3. order[i - Len(posted)] = h
      BY <1>5, <2>1, <3>1, <3>2
    <3>4. QED
      BY <1>4, <3>1, <3>3
  <2>4. QED
    BY <2>2, <2>3
<1>10. QED
  BY <1>7, <1>8, <1>9

LEMMA ReportRequests ==
  ASSUME TypeOK, ListMatchesState, RequestInv, UNCHANGED released,
         NEW m \in Machines, Granted(m) \/ Released(m) \/ Denied(m)
  PROVE  RequestInv'
<1> DEFINE n == nif[m]
           e == SetState(DeleteSubscribers(n, n.subs), "RELEASED")
<1>1. n \in Nif /\ WellFormed(n) /\ n.subs \subseteq Handles
  BY DEF TypeOK, ListMatchesState, ListOK, Nif
<1>2. CASE Granted(m) /\ n.state = "PENDING"
  <2> DEFINE g == SetState(n, "ACQUIRED")
  <2>1. nif' = [nif EXCEPT ![m] = g] /\ Tell(Active(n), "open") /\ UNCHANGED posted
    BY <1>2 DEF Granted, dsVars
  <2>2. g.subs = n.subs /\ Inactive(g) = Inactive(n) /\ Active(g) = Active(n)
    BY <1>1, SetStateList
  <2>3. \A k \in Machines : /\ nif'[k].subs = nif[k].subs
                            /\ Inactive(nif'[k]) = Inactive(nif[k])
                            /\ Active(nif'[k]) = Active(nif[k])
    BY <2>1, <2>2 DEF TypeOK
  <2>4. \A h \in Handles : atl'[h] = IF h \in Active(n) THEN "open" ELSE atl[h]
    BY <2>1 DEF Tell
  <2>5. QED
    BY <2>1, <2>3, <2>4 DEF RequestInv, NoRequestForgotten, TypeOK
<1>3. ASSUME UNCHANGED nif, UNCHANGED atl, UNCHANGED posted
      PROVE  RequestInv'
  BY <1>3 DEF RequestInv, NoRequestForgotten
<1>4. ASSUME nif' = [nif EXCEPT ![m] = e]
      PROVE  /\ \A k \in Machines \ {m} : nif'[k] = nif[k]
             /\ nif'[m].subs = {} /\ Inactive(nif'[m]) = {}
  BY <1>1, <1>4, EmptiedList DEF TypeOK, Inactive
<1>5. ASSUME nif' = [nif EXCEPT ![m] = e], NEW status \in {"closed", "failed"},
             Tell(n.subs, status), UNCHANGED posted
      PROVE  RequestInv'
  <2>1. \A h \in Handles : atl'[h] = IF h \in n.subs THEN status ELSE atl[h]
    BY <1>5 DEF Tell
  <2>2. NoRequestForgotten'
    BY <1>4, <1>5, <2>1 DEF RequestInv, NoRequestForgotten, Active
  <2>3. QED
    BY <1>4, <1>5, <2>1, <2>2 DEF RequestInv, TypeOK
<1>6. ASSUME nif' = [nif EXCEPT ![m] = e], PostFallbacks(m)
      PROVE  RequestInv'
  <2>1. UNCHANGED atl
    BY <1>6 DEF PostFallbacks
  <2>2. \A h \in Handles : Queued(posted', h) <=> Queued(posted, h) \/ h \in n.subs
    BY <1>6, FallbacksQueued
  <2>3. NoRequestForgotten'
    BY <1>4, <1>6, <2>1, <2>2 DEF RequestInv, NoRequestForgotten, Active
  <2>4. QED
    BY <1>4, <1>6, <2>1, <2>2, <2>3 DEF RequestInv
<1>7. CASE Granted(m)
  BY <1>2, <1>3, <1>7 DEF Granted, dsVars
<1>8. CASE Released(m)
  BY <1>3, <1>5, <1>8, ClosedWhileReleasingRequests DEF Released, dsVars
<1>9. CASE Denied(m)
  <2>1. CASE n.state = "PENDING"
    BY <1>5, <1>6, <1>9, <2>1 DEF Denied, TellDenied, dsVars
  <2>2. CASE n.state # "PENDING"
    BY <1>3, <1>9, <2>2, ClosedWhileReleasingRequests DEF Denied, dsVars
  <2>3. QED
    BY <2>1, <2>2
<1>10. QED
  BY <1>7, <1>8, <1>9

LEMMA RequestStep ==
  TypeOK /\ ListMatchesState /\ RequestInv /\ [Next]_vars => RequestInv'
<1> SUFFICES ASSUME TypeOK, ListMatchesState, RequestInv, [Next]_vars
             PROVE  RequestInv'
  OBVIOUS
<1>1. ASSUME UNCHANGED <<nif, atl, posted, released>>
      PROVE  RequestInv'
  BY <1>1 DEF RequestInv, NoRequestForgotten
<1>2. ASSUME NEW h \in Handles, NEW type \in AgpsTypes, NEW rest \in Seq(AtlMsg),
             \A g \in Handles \ {h} : Queued(rest, g) <=> Queued(posted, g),
             NEW unanswered, unanswered # "idle",
             unanswered = "asked" => atl[h] \in {"idle", "asked"},
             RequestATL(h, type, rest, unanswered)
      PROVE  RequestInv'
  <2>1. UNCHANGED released
    BY <1>2 DEF RequestATL
  <2>2. CASE AgpsStateMachine(type, dsReady') # NULL
    BY <1>2, <2>1, <2>2, MachineType, SubscribeRequests DEF RequestATL
  <2>3. CASE AgpsStateMachine(type, dsReady') = NULL
    <3>1. Tell({h}, "failed") /\ posted' = rest /\ UNCHANGED nif
      BY <1>2, <2>3 DEF RequestATL
    <3>2. \A g \in Handles : atl'[g] = IF g = h THEN "failed" ELSE atl[g]
      BY <3>1 DEF Tell
    <3>3. NoRequestForgotten'
      BY <1>2, <3>1, <3>2 DEF RequestInv, NoRequestForgotten
    <3>4. QED
      BY <1>2, <2>1, <3>1, <3>2, <3>3 DEF RequestInv, TypeOK
  <2>4. QED
    BY <2>2, <2>3
<1>3. ASSUME NEW h \in Handles, ModemReleaseATL(h)
      PROVE  RequestInv'
  <2>1. Tell({h}, "closed") /\ UNCHANGED posted /\ released' = released \cup {h}
    BY <1>3 DEF ModemReleaseATL, dsVars
  <2>2. CASE SubscribedTo(h) # NULL
    BY <1>3, <2>1, <2>2, SubscribedToType, UnsubscribeRequests DEF ModemReleaseATL
  <2>3. CASE SubscribedTo(h) = NULL
    <3>1. UNCHANGED nif
      BY <1>3, <2>3 DEF ModemReleaseATL
    <3>2. \A g \in Handles : atl'[g] = IF g = h THEN "closed" ELSE atl[g]
      BY <2>1 DEF Tell
    <3>3. QED
      BY <2>1, <3>1, <3>2 DEF RequestInv, NoRequestForgotten, TypeOK
  <2>4. QED
    BY <2>2, <2>3
<1>4. ASSUME NEW h \in Handles, NEW type \in AgpsTypes, ModemRequestATL(h, type)
      PROVE  RequestInv'
  <2>1. posted \in Seq(AtlMsg) /\ atl[h] = "idle" /\ RequestATL(h, type, posted, "asked")
    BY <1>4 DEF ModemRequestATL, TypeOK
  <2>2. QED
    BY <1>2, <2>1
<1>5. CASE ProcRequestATL
  <2> DEFINE msg  == Head(posted)
             rest == Tail(posted)
  <2>1. /\ msg \in AtlMsg
        /\ rest \in Seq(AtlMsg)
        /\ posted \in Seq(AtlMsg)
        /\ posted # <<>>
        /\ RequestATL(msg.handle, msg.type, rest, atl[msg.handle])
    BY <1>5 DEF ProcRequestATL, TypeOK
  <2>2. msg.handle \in Handles /\ msg.type \in AgpsTypes
    BY <2>1 DEF AtlMsg, AgpsTypes
  <2>3. \A g \in Handles : Queued(posted, g) <=> Queued(rest, g) \/ msg.handle = g
    BY <2>1, QueuedTail
  <2>4. atl[msg.handle] # "idle"
    BY <2>2, <2>3 DEF RequestInv
  <2> HIDE DEF msg, rest
  <2>5. QED
    BY <1>2, <2>1, <2>2, <2>3, <2>4
<1>6. ASSUME NEW type,
             \/ ReportAtlOpenSuccess(type)
             \/ ReportAtlOpenFailed(type)
             \/ ReportAtlClosed(type)
      PROVE  RequestInv'
  BY <1>6, MachineType, ReportRequests
     DEF ReportAtlOpenSuccess, ReportAtlOpenFailed, ReportAtlClosed, ReportTo
<1>7. CASE ReportDataCallOpened \/ ReportDataCallClosed
  BY <1>7, ReportRequests DEF ReportDataCallOpened, ReportDataCallClosed, Machines
<1>8. CASE RetryCallback
  <2>1. UNCHANGED <<nif, atl, released>>
    BY <1>8 DEF RetryCallback
  <2>2. CASE UNCHANGED posted
    BY <1>1, <2>1, <2>2
  <2>3. CASE \E h \in Handles : IsFirstActive(nif["ds"], h) /\
                posted' = Append(posted, [handle |-> h, type |-> "SUPL_ES"])
    <3>1. PICK h \in Handles : IsFirstActive(nif["ds"], h) /\
                posted' = Append(posted, [handle |-> h, type |-> "SUPL_ES"])
      BY <2>3
    <3> DEFINE x == [handle |-> h, type |-> "SUPL_ES"]
    <3>2. x \in AtlMsg /\ x.handle = h /\ posted \in Seq(AtlMsg)
      BY DEF AtlMsg, TypeOK
    <3>3. \A g \in Handles : Queued(posted', g) <=> Queued(posted, g) \/ h = g
      BY <3>1, <3>2, QueuedAppend
    <3>4. h \in nif["ds"].subs /\ "ds" \in Machines
      BY <3>1 DEF IsFirstActive, Active, Machines
    <3>5. QED
      BY <2>1, <3>3, <3>4 DEF RequestInv, NoRequestForgotten
  <2>4. QED
    BY <1>8, <2>2, <2>3 DEF RetryCallback
<1>9. CASE InitAgps \/ UpdateEmergencyPdn \/ UNCHANGED vars
  BY <1>1, <1>9 DEF InitAgps, UpdateEmergencyPdn, vars, dsVars
<1>10. QED
  BY <1>3, <1>4, <1>5, <1>6, <1>7, <1>8, <1>9 DEF Next

\* A request the modem waits for an answer to is never lost, whatever the
\* emergency PDN setting, the retries and the fallbacks do.
THEOREM NoRequestForgottenAlways == Spec => []NoRequestForgotten
<1>1. Init => RequestInv
  BY DEF Init, EmptyNif, RequestInv, NoRequestForgotten, Queued, Inactive
<1>2. RequestInv => NoRequestForgotten
  BY DEF RequestInv
<1>3. QED
  BY <1>1, <1>2, TypeCorrect, ListMatchesStateAlways, RequestStep, PTL DEF Spec


-----------------------------------------------------------------------------
(***************************************************************************)
(* What the modem believes, without emergency calls over the DS machine    *)
(***************************************************************************)
(***************************************************************************)
(* The DS machine is never used: the emergency PDN is always off, or the   *)
(* modem never asks for an emergency ATL.  With it a handle may be listed  *)
(* by two machines, and ModemView does not hold.                           *)
(***************************************************************************)
NoEmergencyPdn == TRUE \notin PdnSettings \/ "SUPL_ES" \notin ModemTypes

(***************************************************************************)
(* ModemView is not inductive: a new request must find its handle in no    *)
(* list, and not released; and nothing may come to the DS machine.         *)
(***************************************************************************)
ViewInv ==
  /\ ModemView
  /\ \A h \in released : atl[h] \in {"closed", "failed"}
  /\ emergencyPdn \in PdnSettings
  /\ posted = <<>> /\ timers = 0
  /\ nif["ds"].state = "RELEASED" /\ nif["ds"].subs = {}

\* What the modem was told agrees with the list of machine n.
SeenRight(n, told, gone) ==
  /\ \A h \in Active(n) :
       told[h] = (IF n.state = "ACQUIRED" THEN "open" ELSE "asked") /\ h \notin gone
  /\ \A h \in Inactive(n) : told[h] = "closed" /\ h \in gone

\* A handler works on one machine and tells handles no other machine lists.
LEMMA OneMachineView ==
  ASSUME TypeOK, ModemView, NEW m \in Machines, NEW n, NEW S \in SUBSET Handles,
         nif' = [nif EXCEPT ![m] = n],
         \A h \in Handles \ S : atl'[h] = atl[h],
         released' \in {released, released \cup S},
         \A k \in Machines \ {m} : nif[k].subs \cap S = {},
         n.subs \subseteq nif[m].subs \cup S,
         SeenRight(n, atl', released'),
         \A h \in Active(nif[m]) \ S : h \in Active(n),
         \A h \in S : atl'[h] \in {"asked", "open"} => h \in Active(n)
  PROVE  ModemView'
<1>1. nif'[m] = n /\ \A k \in Machines \ {m} : nif'[k] = nif[k]
  BY DEF TypeOK
<1>2. \A k \in Machines : nif[k].subs \subseteq Handles /\ Active(nif[k]) \subseteq nif[k].subs
                                                     /\ Inactive(nif[k]) \subseteq nif[k].subs
  BY DEF TypeOK, Nif, Active, Inactive
<1>3. \A k \in Machines : SeenRight(nif'[k], atl', released')
  <2> SUFFICES ASSUME NEW k \in Machines \ {m}
               PROVE  SeenRight(nif'[k], atl', released')
    BY <1>1 DEF SeenRight
  <2>1. \A h \in nif[k].subs : h \in Handles \ S
    BY <1>2
  <2>2. \A h \in nif[k].subs : atl'[h] = atl[h] /\ (h \in released' <=> h \in released)
    BY <2>1
  <2>3. QED
    BY <1>1, <1>2, <2>2 DEF SeenRight, ModemView, Active, Inactive
<1>4. \A h \in Handles : atl'[h] \in {"asked", "open"} => \E k \in Machines : h \in Active(nif'[k])
  <2> SUFFICES ASSUME NEW h \in Handles \ S, atl[h] \in {"asked", "open"}
               PROVE  \E k \in Machines : h \in Active(nif'[k])
    BY <1>1
  <2>1. PICK k \in Machines : h \in Active(nif[k])
    BY DEF ModemView
  <2>2. QED
    BY <1>1, <2>1
<1>5. \A j, k \in Machines : j # k => nif'[j].subs \cap nif'[k].subs = {}
  <2>1. \A k \in Machines \ {m} : nif'[m].subs \cap nif'[k].subs = {}
    BY <1>1 DEF ModemView
  <2>2. QED
    BY <1>1, <2>1 DEF ModemView
<1>6. QED
  BY <1>3, <1>4, <1>5 DEF ModemView, SeenRight

LEMMA SubscribeView ==
  ASSUME TypeOK, ListMatchesState, ViewInv, UNCHANGED <<emergencyPdn, released>>,
         NEW m \in Machines \ {"ds"}, NEW h \in Handles, atl[h] = "idle",
         NEW waits \in BOOLEAN, Subscribe(m, h, waits, posted, "asked")
  PROVE  /\ ViewInv'
         /\ atl'[h] \in {"asked", "open"} /\ \A g \in Handles \ {h} : atl'[g] = atl[g]
<1> DEFINE n == nif[m]
           a == AddSubscriber(n, h, waits)
<1>1. n \in Nif /\ WellFormed(n) /\ (n.state = "RELEASED" => n.subs = {})
      /\ SeenRight(n, atl, released)
  BY DEF TypeOK, ListMatchesState, ListOK, ViewInv, ModemView, SeenRight
<1>2. h \notin released /\ \A k \in Machines : h \notin nif[k].subs
  BY DEF ViewInv, ModemView, Active, Inactive, TypeOK, Nif
<1>3. /\ a \in Nif /\ a.state = n.state
      /\ a.subs = n.subs \cup {h}
      /\ Inactive(a) = Inactive(n)
      /\ Active(a) = Active(n) \cup {h}
  BY <1>1, <1>2, AddList, AddType
<1>4. PICK b : /\ nif' = [nif EXCEPT ![m] = b]
               /\ b.subs = a.subs /\ Inactive(b) = Inactive(a) /\ Active(b) = Active(a)
               /\ b.state = IF n.state = "RELEASED" THEN "PENDING" ELSE n.state
  <2>1. CASE SubscribeReleased(m, h, waits, posted, "asked")
    <3>1. nif' = [nif EXCEPT ![m] = SetState(a, "PENDING")] /\ n.state = "RELEASED"
      BY <2>1 DEF SubscribeReleased
    <3> DEFINE p == SetState(a, "PENDING")
    <3>2. p.subs = a.subs /\ Inactive(p) = Inactive(a) /\ Active(p) = Active(a) /\ p.state = "PENDING"
      BY <1>3, SetStateList
    <3> HIDE DEF p
    <3>3. QED
      BY <3>1, <3>2 DEF p
  <2>2. CASE nif' = [nif EXCEPT ![m] = a] /\ n.state # "RELEASED"
    BY <1>3, <2>2
  <2>3. QED
    BY <2>1, <2>2 DEF Subscribe, SubscribeWaiting, SubscribeAcquired
<1>5. atl'[h] = (IF n.state = "ACQUIRED" THEN "open" ELSE "asked")
      /\ \A g \in Handles \ {h} : atl'[g] = atl[g]
  BY DEF Subscribe, SubscribeReleased, SubscribeWaiting, SubscribeAcquired, Tell, TypeOK
<1>6. n.state = "RELEASED" => Active(n) = {}
  BY <1>1 DEF Active
<1>7. \A g \in n.subs : g \in Handles \ {h}
  BY <1>1, <1>2 DEF Nif
<1>8. SeenRight(b, atl', released')
  BY <1>1, <1>2, <1>3, <1>4, <1>5, <1>6, <1>7 DEF SeenRight, Active, Inactive
<1>9. ModemView'
  <2>1. /\ {h} \in SUBSET Handles /\ released' \in {released, released \cup {h}} /\ m \in Machines
        /\ \A k \in Machines \ {m} : nif[k].subs \cap {h} = {}
    BY <1>2
  <2>2. /\ b.subs \subseteq n.subs \cup {h}
        /\ \A g \in Active(n) \ {h} : g \in Active(b)
        /\ \A g \in {h} : atl'[g] \in {"asked", "open"} => g \in Active(b)
    BY <1>3, <1>4
  <2>3. QED
    BY <1>4, <1>5, <1>8, <2>1, <2>2, OneMachineView DEF ViewInv
<1>10. posted' = <<>> /\ timers' = 0
  BY DEF Subscribe, SubscribeReleased, SubscribeWaiting, SubscribeAcquired, RequestStarts, ViewInv
<1>11. QED
  BY <1>2, <1>4, <1>5, <1>9, <1>10 DEF ViewInv, TypeOK

\* The machine a request goes to is not the DS machine.
LEMMA NotDs ==
  ASSUME NoEmergencyPdn, ViewInv, NEW type \in ModemTypes, NEW ready,
         AgpsStateMachine(type, ready) # NULL
  PROVE  AgpsStateMachine(type, ready) \in Machines \ {"ds"}
BY AgpsAssumption DEF NoEmergencyPdn, ViewInv, AgpsStateMachine, Machines, AgpsTypes

LEMMA UnsubscribeView ==
  ASSUME TypeOK, ListMatchesState, ViewInv, NEW m \in Machines, NEW h \in nif[m].subs,
         h \notin released, released' = released \cup {h}, Tell({h}, "closed"),
         UnsubscribeReleased(m, h) \/ UnsubscribeHolding(m, h) \/ UnsubscribeReleasing(m, h)
  PROVE  ModemView'
<1> DEFINE n == nif[m]
           u == Unsubscribed(n, h)
<1>1. n \in Nif /\ ListOK(m, n) /\ WellFormed(n) /\ SeenRight(n, atl, released) /\ h \in Handles
  BY DEF TypeOK, ListMatchesState, ListOK, ViewInv, ModemView, SeenRight, Nif
<1>2. h \in Active(n)
  BY <1>1 DEF SeenRight, Active, Inactive
<1>3. n.state # "RELEASED"
  BY <1>2 DEF ViewInv, ListMatchesState, ListOK, Active
<1>4. /\ u \in Nif /\ u.state = n.state
      /\ Active(u) = Active(n) \ {h}
      /\ Inactive(u) \subseteq Inactive(n) \cup {h}
      /\ u.subs \subseteq n.subs
  BY <1>1, UnsubscribedList, UnsubscribedType
<1>5. PICK b : /\ nif' = [nif EXCEPT ![m] = b]
               /\ b.subs = u.subs /\ Inactive(b) = Inactive(u) /\ Active(b) = Active(u)
               /\ Active(b) # {} => b.state = n.state
  <2>1. CASE nif' = [nif EXCEPT ![m] = u]
    BY <1>4, <2>1
  <2>2. ASSUME NEW s, nif' = [nif EXCEPT ![m] = SetState(u, s)], Active(u) = {}
        PROVE  /\ SetState(u, s).subs = u.subs /\ Inactive(SetState(u, s)) = Inactive(u)
               /\ Active(SetState(u, s)) = {}
    BY <1>4, <2>2, SetStateList
  <2>3. u.subs = {} => Active(u) = {}
    BY DEF Active
  <2>4. QED
    BY <1>3, <2>1, <2>2, <2>3 DEF UnsubscribeReleased, UnsubscribeHolding, UnsubscribeReleasing
<1>6. atl'[h] = "closed" /\ \A g \in Handles \ {h} : atl'[g] = atl[g]
  BY <1>1 DEF Tell
<1>7. SeenRight(b, atl', released')
  BY <1>1, <1>4, <1>5, <1>6 DEF SeenRight, Active, Inactive, Nif
<1>8. \A k \in Machines \ {m} : nif[k].subs \cap {h} = {}
  BY DEF ViewInv, ModemView
<1>9. QED
  BY <1>1, <1>4, <1>5, <1>6, <1>7, <1>8, OneMachineView DEF ViewInv

\* One step of what the modem is told, as the contract allows it.
Told == \A h \in Handles : atl'[h] = atl[h] \/ <<atl[h], atl'[h]>> \in
          {<<"asked", "open">>, <<"asked", "failed">>, <<"open", "closed">>, <<"closed", "failed">>}

\* GRANTED, RELEASED and DENIED: what the subscribers are told fits the list.
LEMMA ReportView ==
  ASSUME TypeOK, ListMatchesState, ViewInv, UNCHANGED <<emergencyPdn, released>>,
         NEW m \in Machines, Granted(m) \/ Released(m) \/ Denied(m)
  PROVE  ViewInv' /\ Told
<1> DEFINE n == nif[m]
<1>1. n \in Nif /\ ListOK(m, n) /\ WellFormed(n) /\ SeenRight(n, atl, released)
      /\ n.subs \subseteq Handles /\ n.subs = Active(n) \cup Inactive(n)
  BY DEF TypeOK, ListMatchesState, ListOK, ViewInv, ModemView, SeenRight, Nif, Active, Inactive
<1>2. \A k \in Machines \ {m} : nif[k].subs \cap n.subs = {}
  BY DEF ViewInv, ModemView
<1>3. CASE UNCHANGED <<nif, atl, conn, dsVars>>
  BY <1>3 DEF ViewInv, ModemView, Told, dsVars, Active, Inactive
<1>4. ASSUME m # "ds", UNCHANGED <<timers, posted>>, NEW b, nif' = [nif EXCEPT ![m] = b],
             NEW S \in SUBSET n.subs, NEW status, Tell(S, status), Told,
             b.subs \subseteq n.subs, SeenRight(b, atl', released'),
             \A h \in Active(n) \ S : h \in Active(b),
             \A h \in S : status \in {"asked", "open"} => h \in Active(b)
      PROVE  ViewInv' /\ Told
  <2>1. S \in SUBSET Handles /\ b.subs \subseteq nif[m].subs \cup S
        /\ \A k \in Machines \ {m} : nif[k].subs \cap S = {}
    BY <1>1, <1>2, <1>4
  <2>2. \A h \in Handles : atl'[h] = IF h \in S THEN status ELSE atl[h]
    BY <1>4 DEF Tell
  <2>3. ModemView'
    <3>1. /\ \A h \in Handles \ S : atl'[h] = atl[h]
          /\ released' \in {released, released \cup S}
          /\ \A h \in S : atl'[h] \in {"asked", "open"} => h \in Active(b)
      BY <1>4, <2>1, <2>2
    <3>2. QED
      BY <1>4, <2>1, <3>1, OneMachineView DEF ViewInv
  <2>4. \A h \in released' : atl'[h] \in {"closed", "failed"}
    BY <1>4 DEF ViewInv, Told, TypeOK
  <2>5. QED
    BY <1>4, <2>3, <2>4 DEF ViewInv, dsVars, TypeOK
<1>5. m = "ds" => UNCHANGED <<nif, atl, conn, dsVars>>
  BY DEF ViewInv, Granted, Released, Denied
<1>6. ASSUME Granted(m), m # "ds", n.state = "PENDING"
      PROVE  ViewInv' /\ Told
  <2> DEFINE b == SetState(n, "ACQUIRED")
             S == Active(n)
  <2>1. b.state = "ACQUIRED" /\ b.subs = n.subs /\ Active(b) = Active(n) /\ Inactive(b) = Inactive(n)
    BY <1>1, SetStateList
  <2>2. nif' = [nif EXCEPT ![m] = b] /\ Tell(S, "open") /\ UNCHANGED dsVars
    BY <1>6 DEF Granted
  <2>3. S \in SUBSET n.subs /\ Told /\ SeenRight(b, atl', released')
    BY <1>1, <1>6, <2>1, <2>2 DEF SeenRight, Tell, Told, Active, Inactive
  <2>4. /\ b.subs \subseteq n.subs
        /\ \A h \in Active(n) \ S : h \in Active(b)
        /\ \A h \in S : "open" \in {"asked", "open"} => h \in Active(b)
        /\ UNCHANGED <<timers, posted>>
    BY <2>1, <2>2 DEF dsVars
  <2> HIDE DEF b, S
  <2>5. QED
    BY <1>4, <1>6, <2>2, <2>3, <2>4
<1>7. ASSUME m # "ds", NEW status \in {"closed", "failed"},
             \/ n.state = "ACQUIRED" /\ status = "closed"
             \/ n.state = "PENDING" /\ status = "failed",
             nif' = [nif EXCEPT ![m] = SetState(DeleteSubscribers(@, @.subs), "RELEASED")],
             Tell(n.subs, status), UNCHANGED dsVars
      PROVE  ViewInv' /\ Told
  <2> DEFINE b == SetState(DeleteSubscribers(n, n.subs), "RELEASED")
             S == n.subs
  <2>1. b.state = "RELEASED" /\ b.subs = {} /\ Active(b) = {} /\ Inactive(b) = {}
    BY <1>1, EmptiedList DEF Active, Inactive
  <2>2. S \in SUBSET n.subs /\ SeenRight(b, atl', released')
    BY <2>1 DEF SeenRight
  <2>3. Told
    BY <1>1, <1>7 DEF SeenRight, Tell, Told, Active, Inactive
  <2>4. nif' = [nif EXCEPT ![m] = b] /\ Tell(S, status)
    BY <1>7 DEF TypeOK
  <2>5. \A h \in Active(n) \ S : h \in Active(b)
    BY <1>1
  <2> HIDE DEF b
  <2>6. QED
    BY <1>4, <1>7, <2>1, <2>2, <2>3, <2>4, <2>5 DEF dsVars
<1>8. ASSUME m # "ds", n.state = "RELEASING", ClosedWhileReleasing(m)
      PROVE  ViewInv' /\ Told
  <2> DEFINE d == DeleteSubscribers(n, Inactive(n))
             b == SetState(d, IF Active(d) = {} THEN "RELEASED" ELSE "PENDING")
             S == Inactive(n)
  <2>1. /\ b.state = IF Active(n) = {} THEN "RELEASED" ELSE "PENDING"
        /\ b.subs \subseteq n.subs /\ Active(b) = Active(n) /\ Inactive(b) = {}
    <3>1. /\ d \in Nif /\ d.subs = n.subs \ Inactive(n)
          /\ Active(d) = Active(n) \ Inactive(n) /\ Inactive(d) = {}
      BY <1>1, DeleteType, DeleteList
    <3>2. Active(n) \ Inactive(n) = Active(n)
      BY DEF Active, Inactive
    <3> HIDE DEF d
    <3>3. QED
      BY <3>1, <3>2, SetStateList
  <2>2. nif' = [nif EXCEPT ![m] = b] /\ Tell(S, "closed") /\ posted' = posted /\ timers' = timers
    BY <1>8 DEF ClosedWhileReleasing, RequestStarts, dsVars
  <2>3. S \in SUBSET n.subs /\ Told
    BY <1>1, <2>2 DEF SeenRight, Tell, Told
  <2>4. SeenRight(b, atl', released')
    <3>1. \A h \in Active(n) : atl'[h] = "asked" /\ h \notin released'
      BY <1>1, <1>8, <2>2 DEF SeenRight, Tell, Active, Inactive
    <3> HIDE DEF b
    <3>2. QED
      BY <2>1, <3>1 DEF SeenRight
  <2>5. /\ b.subs \subseteq n.subs
        /\ \A h \in Active(n) \ S : h \in Active(b)
        /\ \A h \in S : "closed" \in {"asked", "open"} => h \in Active(b)
        /\ UNCHANGED <<timers, posted>>
    BY <2>1, <2>2
  <2> HIDE DEF b, S
  <2>6. QED
    BY <1>4, <1>8, <2>2, <2>3, <2>4, <2>5
<1>9. QED
  BY <1>3, <1>5, <1>6, <1>7, <1>8 DEF Granted, Released, Denied, TellDenied

\* What the modem is told in a report is a step of the contract.
LEMMA ToldIsStep ==
  ASSUME TypeOK, TypeOK', Told, UNCHANGED released
  PROVE  [Contract!Step]_Contract!vars
<1>1. CASE Handles = {}
  BY <1>1 DEF TypeOK, Contract!vars
<1>2. CASE Handles # {}
  <2>1. \A h \in Handles : atl'[h] = atl[h] \/ <<atl[h], atl'[h]>> \in Contract!Edges
    BY DEF Told, Contract!Edges
  <2>2. \A h \in Handles : atl[h] = "idle" => atl'[h] = "idle"
    BY DEF Told
  <2>3. QED
    BY <1>2, <2>1, <2>2 DEF Contract!Step, TypeOK, AtlStatus
<1>3. QED
  BY <1>1, <1>2

\* A call of the modem about h is a step of the contract.
LEMMA CallIsStep ==
  ASSUME TypeOK, TypeOK', NEW h \in Handles,
         \A g \in Handles \ {h} : atl'[g] = atl[g],
         atl'[h] = atl[h] \/ <<atl[h], atl'[h]>> \in Contract!Edges,
         released' \in {released, IF atl'[h] = "closed" THEN released \cup {h} ELSE released}
  PROVE  Contract!Step
<1>1. \A g \in Handles : atl'[g] = atl[g] \/ <<atl[g], atl'[g]>> \in Contract!Edges
  OBVIOUS
<1>2. QED
  BY <1>1 DEF Contract!Step, TypeOK, AtlStatus

\* Every handler keeps the modem's view right, and is a step of the contract
\* or none.
LEMMA ViewStep ==
  ASSUME NoEmergencyPdn, TypeOK, TypeOK', ListMatchesState, ViewInv, [Next]_vars
  PROVE  ViewInv' /\ [Contract!Step]_Contract!vars
<1>1. ASSUME NEW h \in Handles, NEW type \in AgpsTypes, ModemRequestATL(h, type)
      PROVE  ViewInv' /\ [Contract!Step]_Contract!vars
  <2> DEFINE sm == AgpsStateMachine(type, dsReady')
  <2>1. /\ RequestATL(h, type, posted, "asked") /\ atl[h] = "idle" /\ type \in ModemTypes
        /\ UNCHANGED <<emergencyPdn, released>>
    BY <1>1 DEF ModemRequestATL, RequestATL
  <2>2. ViewInv' /\ atl'[h] \in {"asked", "open", "failed"} /\ \A g \in Handles \ {h} : atl'[g] = atl[g]
    <3>1. CASE sm = NULL
      <4>1. Tell({h}, "failed") /\ posted' = posted /\ UNCHANGED <<nif, conn, mRetries, timers>>
        BY <2>1, <3>1 DEF RequestATL
      <4>2. atl'[h] = "failed" /\ \A g \in Handles \ {h} : atl'[g] = atl[g]
        BY <4>1 DEF Tell
      <4>3. \A k \in Machines : h \notin nif[k].subs
        BY <2>1 DEF ViewInv, ModemView, Active, Inactive
      <4>4. \A k \in Machines : Active(nif[k]) \subseteq Handles \ {h} /\ Inactive(nif[k]) \subseteq Handles \ {h}
        BY <4>3 DEF Active, Inactive, TypeOK, Nif
      <4>5. ModemView'
        BY <2>1, <4>1, <4>2, <4>4 DEF ViewInv, ModemView, Active, Inactive
      <4>6. QED
        BY <2>1, <4>1, <4>2, <4>5 DEF ViewInv, TypeOK
    <3>2. CASE sm # NULL
      <4>1. sm \in Machines \ {"ds"}
        BY <2>1, <3>2, NotDs
      <4>2. Subscribe(sm, h, type = "SUPL_ES", posted, "asked")
        BY <2>1, <3>2 DEF RequestATL
      <4>3. (type = "SUPL_ES") \in BOOLEAN
        OBVIOUS
      <4> HIDE DEF sm
      <4>4. QED
        BY <2>1, <4>1, <4>2, <4>3, SubscribeView
    <3>3. QED
      BY <3>1, <3>2
  <2>3. Contract!Step
    BY <2>1, <2>2, CallIsStep DEF Contract!Edges
  <2>4. QED
    BY <2>2, <2>3
<1>2. ASSUME NEW h \in Handles, ModemReleaseATL(h)
      PROVE  ViewInv' /\ [Contract!Step]_Contract!vars
  <2> DEFINE sm == SubscribedTo(h)
  <2>1. /\ atl[h] # "idle" /\ h \notin released /\ released' = released \cup {h}
        /\ Tell({h}, "closed") /\ UNCHANGED <<emergencyPdn, timers, posted>>
        /\ atl'[h] = "closed" /\ \A g \in Handles \ {h} : atl'[g] = atl[g]
    BY <1>2 DEF ModemReleaseATL, Tell, dsVars
  <2>2. ModemView' /\ nif'["ds"] = nif["ds"]
    <3>1. CASE sm = NULL
      <4>1. UNCHANGED nif
        BY <1>2, <3>1 DEF ModemReleaseATL
      <4>2. \A k \in Machines : h \notin nif[k].subs
        BY <3>1 DEF SubscribedTo, Machines, NULL
      <4>3. \A k \in Machines : Active(nif[k]) \subseteq Handles \ {h} /\ Inactive(nif[k]) \subseteq Handles \ {h}
        BY <4>2 DEF Active, Inactive, TypeOK, Nif
      <4>4. QED
        BY <2>1, <4>1, <4>3 DEF ViewInv, ModemView, Active, Inactive
    <3>2. CASE sm # NULL
      <4>1. sm \in Machines /\ h \in nif[sm].subs
        BY <3>2, SubscribedToType
      <4>2. UnsubscribeReleased(sm, h) \/ UnsubscribeHolding(sm, h) \/ UnsubscribeReleasing(sm, h)
        BY <1>2, <3>2 DEF ModemReleaseATL
      <4>3. sm # "ds"
        BY <4>1 DEF ViewInv
      <4> HIDE DEF sm
      <4>4. nif'["ds"] = nif["ds"]
        <5>1. UNCHANGED nif \/ \E b : nif' = [nif EXCEPT ![sm] = b]
          BY <4>2 DEF UnsubscribeReleased, UnsubscribeHolding, UnsubscribeReleasing
        <5>2. QED
          BY <4>3, <5>1 DEF TypeOK, Machines
      <4>5. QED
        BY <2>1, <4>1, <4>2, <4>4, UnsubscribeView
    <3>3. QED
      BY <3>1, <3>2
  <2>3. ViewInv'
    BY <2>1, <2>2 DEF ViewInv, TypeOK
  <2>4. Contract!Step
    BY <2>1, CallIsStep DEF Contract!Edges, TypeOK, AtlStatus
  <2>5. QED
    BY <2>3, <2>4
<1>3. ASSUME NEW m \in Machines, Granted(m) \/ Released(m) \/ Denied(m), UNCHANGED <<emergencyPdn, released>>
      PROVE  ViewInv' /\ [Contract!Step]_Contract!vars
  BY <1>3, ReportView, ToldIsStep
<1>4. ASSUME NEW type,
             \/ ReportAtlOpenSuccess(type)
             \/ ReportAtlOpenFailed(type)
             \/ ReportAtlClosed(type)
      PROVE  ViewInv' /\ [Contract!Step]_Contract!vars
  BY <1>3, <1>4, MachineType
     DEF ReportAtlOpenSuccess, ReportAtlOpenFailed, ReportAtlClosed, ReportTo
<1>5. CASE ReportDataCallOpened \/ ReportDataCallClosed
  BY <1>3, <1>5 DEF ReportDataCallOpened, ReportDataCallClosed, Machines
<1>6. ~ProcRequestATL /\ ~RetryCallback
  BY DEF ProcRequestATL, RetryCallback, ViewInv
<1>7. CASE InitAgps \/ UpdateEmergencyPdn \/ UNCHANGED vars
  <2>1. UNCHANGED <<nif, atl, released, posted, timers>> /\ emergencyPdn' \in PdnSettings
    BY <1>7 DEF InitAgps, UpdateEmergencyPdn, dsVars, vars, ViewInv
  <2>2. QED
    BY <2>1 DEF ViewInv, ModemView, Active, Inactive, Contract!vars
<1>8. QED
  BY <1>1, <1>2, <1>4, <1>5, <1>6, <1>7 DEF Next

LEMMA ViewInit == Init => ViewInv /\ Contract!Init
BY DEF Init, EmptyNif, ViewInv, ModemView, Active, Inactive, Machines, Contract!Init

(***************************************************************************)
(* Without emergency calls over the DS machine, what the modem was told    *)
(* and what the machines hold agree, after any handlers in any order.      *)
(***************************************************************************)
THEOREM ModemViewAlways == ASSUME NoEmergencyPdn PROVE Spec => []ModemView
<1>1. ViewInv => ModemView
  BY DEF ViewInv
<1>2. TypeOK /\ TypeOK' /\ ListMatchesState /\ ViewInv /\ [Next]_vars => ViewInv'
  BY ViewStep
<1>3. QED
  BY <1>1, <1>2, ViewInit, TypeCorrect, ListMatchesStateAlways, PTL DEF Spec

(***************************************************************************)
(* The manager, with its machines, queue and timers, implements the        *)
(* contract with the modem: each ATL is opened or failed once, closed at   *)
(* the latest when it is released, and not opened again.                   *)
(***************************************************************************)
THEOREM ContractKept == ASSUME NoEmergencyPdn PROVE Spec => ContractSpec
<1>1. TypeOK /\ TypeOK' /\ ListMatchesState /\ ViewInv /\ [Next]_vars => ViewInv' /\ [Contract!Step]_Contract!vars
  BY ViewStep
<1>2. QED
  BY <1>1, ViewInit, TypeCorrect, ListMatchesStateAlways, PTL DEF Spec, ContractSpec, Contract!Spec
=============================================================================
