------------------------ MODULE LocationClientProofs ------------------------
(***************************************************************************)
(* Proofs about LocationClient, for any number of ids and sessions, and    *)
(* queues of any length.                                                   *)
(***************************************************************************)
EXTENDS LocationClient, SequenceTheorems, TLAPS

-----------------------------------------------------------------------------
(***************************************************************************)
(* Sequences.                                                              *)
(***************************************************************************)
LEMMA Appended ==
  ASSUME NEW S, NEW q \in Seq(S), NEW m \in S
  PROVE  /\ Append(q, m) \in Seq(S) /\ Len(q) \in Nat
         /\ Len(Append(q, m)) = Len(q) + 1 /\ Append(q, m)[Len(q) + 1] = m
         /\ \A i \in 1..Len(q) : Append(q, m)[i] = q[i]
OBVIOUS

LEMMA HeadTail ==
  ASSUME NEW S, NEW q \in Seq(S), q # <<>>
  PROVE  /\ Head(q) \in S /\ Head(q) = q[1] /\ 1 \in 1..Len(q)
         /\ Tail(q) \in Seq(S) /\ Len(q) \in Nat /\ Len(Tail(q)) = Len(q) - 1
         /\ \A i \in 1..(Len(q) - 1) : Tail(q)[i] = q[i + 1]
OBVIOUS

LEMMA Twice ==
  ASSUME NEW S, NEW q \in Seq(S), NEW m \in S, NEW n \in S
  PROVE  q \o <<m, n>> = Append(Append(q, m), n)
OBVIOUS

-----------------------------------------------------------------------------
(***************************************************************************)
(* Types of what the actions build.                                        *)
(***************************************************************************)
\* TypeOK without the history variable apart, which is treated last.
Types ==
  /\ mTracking \in BOOLEAN
  /\ {tracking, sessions, niResponse} \subseteq Queue
  /\ Len(tracking.reqs) <= MaxReqs /\ Len(sessions.reqs) <= MaxReqs
  /\ mSessionBiDict \in [Ids -> Entity \cup {NULL}]
  /\ msgs \in Seq(Msg)
  /\ running \subseteq SessionIds /\ stuck \subseteq running
  /\ handling \in Handling \cup {NULL}
  /\ orderly \in BOOLEAN

SomeSession == SessionIds \cup {NoSession}
Stops       == {"stopTracking", "stopBatching"}

LEMMA EntityFields ==
  ASSUME NEW e \in Entity
  PROVE  /\ e.session \in SomeSession /\ e.trackingSession \in SomeSession
         /\ e.batchingSession \in SomeSession /\ e.sessionMode \in {"NONE", "ON_FULL", "ON_FIX"}
         /\ e.session = IF e.sessionMode = "ON_FULL" THEN e.batchingSession ELSE e.trackingSession
         /\ e # NULL
BY DEF Entity, SomeSession, NULL

LEMMA EntityMade ==
  /\ ZeroEntity \in Entity
  /\ \A mode \in {"NONE", "ON_FULL", "ON_FIX"}, s \in SessionIds : NewEntity(mode, s) \in Entity
BY DEF ZeroEntity, Entity, NewEntity

LEMMA EntityFound ==
  ASSUME Types, NEW id \in Ids, mSessionBiDict[id] # NULL
  PROVE  /\ GetExtById(id) \in Entity
         /\ GetExtById(id) = mSessionBiDict[id] \/ GetExtById(id) = ZeroEntity
         /\ mSessionBiDict[id] \in Entity
         /\ GetExtById(id).sessionMode # "NONE" =>
              GetExtById(id) = mSessionBiDict[id] /\ GetExtById(id).session \in SessionIds
<1>1. mSessionBiDict[id] \in Entity
  BY DEF Types
<1>2. ZeroEntity.sessionMode = "NONE"
  BY DEF ZeroEntity
<1> QED
  BY <1>1, <1>2, EntityMade, EntityFields DEF GetExtById, SomeSession

LEMMA KindIs ==
  /\ Kind("start", "ON_FIX") = "startTracking" /\ Kind("start", "ON_FULL") = "startBatching"
  /\ Kind("stop", "ON_FIX") = "stopTracking" /\ Kind("stop", "ON_FULL") = "stopBatching"
  /\ Kind("update", "ON_FIX") = "updateTracking" /\ Kind("update", "ON_FULL") = "updateBatching"
BY DEF Kind

LEMMA KindMade ==
  ASSUME NEW mode \in {"ON_FIX", "ON_FULL"}
  PROVE  /\ \A call \in {"start", "stop", "update"} : Kind(call, mode) \in Requests
         /\ Kind("start", mode) \notin Stops /\ Kind("update", mode) \notin Stops
         /\ Kind("stop", mode) \in Stops
BY KindIs DEF Requests, Stops

LEMMA MessageMade ==
  ASSUME NEW cmd \in {"start", "stop", "update", "get", "ni"},
         NEW s \in SessionIds \cup NiIds \cup {NoSession}, NEW req \in Requests \cup {"none"}
  PROVE  /\ Message(cmd, s, req) \in Msg
         /\ Message(cmd, s, req).cmd = cmd /\ Message(cmd, s, req).session = s
         /\ Message(cmd, s, req).req = req
BY DEF Message, Msg

LEMMA QueueOps ==
  ASSUME NEW q \in Queue
  PROVE  /\ q.reqs \in Seq(Requests) /\ Len(q.reqs) \in Nat
         /\ \A r \in Requests :
              /\ Push(q, r) \in Queue /\ Push(q, r).session = q.session
              /\ Push(q, r).reqs = Append(q.reqs, r)
         /\ q.reqs # <<>> =>
              /\ Pop(q) \in Queue /\ Pop(q).session = q.session
              /\ Pop(q).reqs = Tail(q.reqs) /\ Head(q.reqs) \in Requests
         /\ \A s \in SessionIds \cup NiIds \cup {NoSession} :
              /\ [q EXCEPT !.session = s] \in Queue /\ [q EXCEPT !.session = s].session = s
              /\ [q EXCEPT !.session = s].reqs = q.reqs
<1>1. /\ q = [session |-> q.session, reqs |-> q.reqs] /\ q.reqs \in Seq(Requests)
      /\ q.session \in SessionIds \cup NiIds \cup {NoSession}
  BY DEF Queue
<1>2. ASSUME NEW r \in Requests
      PROVE  /\ Push(q, r) \in Queue /\ Push(q, r).session = q.session
             /\ Push(q, r).reqs = Append(q.reqs, r)
  BY <1>1, Appended DEF Push, Queue
<1>3. ASSUME q.reqs # <<>>
      PROVE  /\ Pop(q) \in Queue /\ Pop(q).session = q.session
             /\ Pop(q).reqs = Tail(q.reqs) /\ Head(q.reqs) \in Requests
  BY <1>1, <1>3, HeadTail DEF Pop, Queue
<1>4. ASSUME NEW s \in SessionIds \cup NiIds \cup {NoSession}
      PROVE  /\ [q EXCEPT !.session = s] \in Queue /\ [q EXCEPT !.session = s].session = s
             /\ [q EXCEPT !.session = s].reqs = q.reqs
  BY <1>1 DEF Queue
<1>5. Len(q.reqs) \in Nat
  BY <1>1
<1> QED
  BY <1>1, <1>2, <1>3, <1>4, <1>5

LEMMA QueueMade ==
  ASSUME NEW s \in SessionIds \cup NiIds \cup {NoSession}
  PROVE  /\ Reset(s) \in Queue /\ Reset(s).session = s /\ Reset(s).reqs = <<>>
         /\ \A reqs \in Seq(Requests) : [session |-> s, reqs |-> reqs] \in Queue
BY DEF Reset, Queue

-----------------------------------------------------------------------------
(***************************************************************************)
(* What the types rest on: a message to start a session has one, and what  *)
(* is answered is for a session that runs, or a notification.              *)
(***************************************************************************)
MsgOK(m) ==
  /\ m.cmd = "start" => m.session \in SessionIds
  /\ m.cmd = "ni" => m.session \in NiIds /\ m.req = "niResponse"
  /\ m.req \in Stops => m.cmd = "stop"

QueuesOK ==
  /\ tracking.session \in SomeSession
  /\ tracking.session = NoSession => tracking.reqs = <<>>
  /\ niResponse.session \in NiIds \cup {NoSession}
  /\ \A k \in 1..Len(niResponse.reqs) : niResponse.reqs[k] = "niResponse"

MsgsOK == \A k \in 1..Len(msgs) : MsgOK(msgs[k])

ClientTypes == Types /\ MsgsOK /\ QueuesOK

LEMMA TypesInit == Init => ClientTypes
<1> SUFFICES ASSUME Init PROVE ClientTypes
  OBVIOUS
<1>1. Reset(NoSession) \in Queue /\ Reset(NoSession).session = NoSession /\ Reset(NoSession).reqs = <<>>
  BY QueueMade
<1>2. {tracking, sessions, niResponse} \subseteq Queue
      /\ tracking.session = NoSession /\ tracking.reqs = <<>> /\ sessions.reqs = <<>>
      /\ niResponse.session = NoSession /\ niResponse.reqs = <<>>
  BY <1>1 DEF Init
<1>3. msgs = <<>> /\ msgs \in Seq(Msg) /\ Len(msgs) = 0
  BY DEF Init
<1>4. /\ mTracking \in BOOLEAN /\ mSessionBiDict \in [Ids -> Entity \cup {NULL}]
      /\ running \subseteq SessionIds /\ stuck \subseteq running
      /\ handling \in Handling \cup {NULL} /\ orderly \in BOOLEAN
  BY DEF Init
<1>5. Len(tracking.reqs) <= MaxReqs /\ Len(sessions.reqs) <= MaxReqs
  BY <1>2, ClientAssumption
<1>6. Types
  BY <1>2, <1>3, <1>4, <1>5 DEF Types
<1> QED
  BY <1>2, <1>3, <1>6 DEF ClientTypes, MsgsOK, QueuesOK, SomeSession

LEMMA PostTypes ==
  ASSUME NEW q \in Seq(Msg), NEW m \in Msg, MsgOK(m), \A k \in 1..Len(q) : MsgOK(q[k])
  PROVE  Append(q, m) \in Seq(Msg) /\ \A k \in 1..Len(Append(q, m)) : MsgOK(Append(q, m)[k])
<1> DEFINE new == Append(q, m)
<1>1. /\ new \in Seq(Msg) /\ Len(q) \in Nat /\ Len(new) = Len(q) + 1 /\ new[Len(q) + 1] = m
      /\ \A k \in 1..Len(q) : new[k] = q[k]
  BY Appended
<1> HIDE DEF new
<1>2. ASSUME NEW k \in 1..Len(new) PROVE MsgOK(new[k])
  <2>1. k \in 1..Len(q) \/ k = Len(q) + 1
    BY <1>1
  <2> QED
    BY <1>1, <2>1
<1> QED
  BY <1>1, <1>2 DEF new

\* A call: it may change a queue, the dictionary and the messages.
LEMMA CallTypes ==
  ASSUME ClientTypes, UNCHANGED <<running, stuck, handling>>,
         mTracking' \in BOOLEAN, orderly' \in BOOLEAN,
         {tracking', sessions', niResponse'} \subseteq Queue,
         Len(tracking'.reqs) <= MaxReqs, Len(sessions'.reqs) <= MaxReqs,
         mSessionBiDict' \in [Ids -> Entity \cup {NULL}],
         msgs' \in Seq(Msg), \A k \in 1..Len(msgs') : MsgOK(msgs'[k]),
         QueuesOK'
  PROVE  ClientTypes'
BY DEF ClientTypes, Types, MsgsOK, MsgOK

\* The client's calls on one of its queues while it may push.
LEMMA PushTypes ==
  ASSUME NEW q \in Queue, NEW r \in Requests, Len(q.reqs) < MaxReqs
  PROVE  /\ Push(q, r) \in Queue /\ Push(q, r).session = q.session
         /\ Push(q, r).reqs = Append(q.reqs, r)
         /\ Len(Push(q, r).reqs) <= MaxReqs /\ Push(q, r).reqs # <<>>
<1>1. q.reqs \in Seq(Requests) /\ Push(q, r) \in Queue /\ Push(q, r).session = q.session
      /\ Push(q, r).reqs = Append(q.reqs, r)
  BY QueueOps
<1>2. Len(q.reqs) \in Nat /\ Len(Append(q.reqs, r)) = Len(q.reqs) + 1
  BY <1>1, Appended
<1>3. Append(q.reqs, r) # <<>>
  BY <1>1
<1> QED
  BY <1>1, <1>2, <1>3, ClientAssumption

LEMMA TrackingTypes ==
  ASSUME ClientTypes,
         (\E s \in SessionIds : StartTracking(s)) \/ StopTracking \/ UpdateTrackingOptions
  PROVE  ClientTypes'
<1>1. /\ tracking \in Queue /\ tracking.session \in SomeSession /\ msgs \in Seq(Msg)
      /\ \A k \in 1..Len(msgs) : MsgOK(msgs[k])
  BY DEF ClientTypes, Types, QueuesOK, MsgsOK
<1>2. ASSUME NEW cmd \in {"start", "stop", "update"}, NEW s \in SessionIds, NEW req \in Requests,
             req \in Stops => cmd = "stop", Post(Message(cmd, s, req)), NEW q \in Queue,
             tracking' = Push(q, req), q.session = s, Len(q.reqs) < MaxReqs, mTracking' \in BOOLEAN,
             UNCHANGED <<sessions, niResponse, mSessionBiDict, running, stuck, handling, orderly>>
      PROVE  ClientTypes'
  <2> DEFINE m == Message(cmd, s, req)
  <2>1. m \in Msg /\ m.cmd = cmd /\ m.session = s /\ m.req = req
    BY MessageMade
  <2>2. msgs' = Append(msgs, m)
    BY <1>2 DEF Post
  <2> HIDE DEF m
  <2>3. MsgOK(m)
    BY <1>2, <2>1 DEF MsgOK
  <2>4. msgs' \in Seq(Msg) /\ \A k \in 1..Len(msgs') : MsgOK(msgs'[k])
    BY <1>1, <2>1, <2>2, <2>3, PostTypes
  <2>5. tracking' \in Queue /\ tracking'.session = s /\ Len(tracking'.reqs) <= MaxReqs
    BY <1>2, PushTypes
  <2>6. QueuesOK'
    BY <1>2, <2>5, ClientAssumption DEF ClientTypes, QueuesOK, SomeSession
  <2> QED
    BY <1>2, <2>4, <2>5, <2>6, CallTypes DEF ClientTypes, Types
<1>3. ASSUME NEW s \in SessionIds, StartTracking(s) PROVE ClientTypes'
  <2>1. Reset(s) \in Queue /\ Reset(s).session = s /\ Len(Reset(s).reqs) < MaxReqs
    BY QueueMade, ClientAssumption
  <2>2. "startTracking" \in Requests /\ "startTracking" \notin Stops
    BY DEF Requests, Stops
  <2>3. /\ Post(Message("start", s, "startTracking")) /\ tracking' = Push(Reset(s), "startTracking")
        /\ mTracking' \in BOOLEAN
        /\ UNCHANGED <<sessions, niResponse, mSessionBiDict, running, stuck, handling, orderly>>
    BY <1>3 DEF StartTracking
  <2> QED
    BY <1>2, <2>1, <2>2, <2>3
<1>4. CASE StopTracking
  <2>1. "stopTracking" \in Requests
    BY DEF Requests
  <2>2. /\ Post(Message("stop", tracking.session, "stopTracking"))
        /\ tracking' = Push(tracking, "stopTracking") /\ Len(tracking.reqs) < MaxReqs
        /\ tracking.session \in SessionIds /\ mTracking' \in BOOLEAN
        /\ UNCHANGED <<sessions, niResponse, mSessionBiDict, running, stuck, handling, orderly>>
    BY <1>1, <1>4 DEF StopTracking, SomeSession
  <2> QED
    BY <1>1, <1>2, <2>1, <2>2
<1>5. CASE UpdateTrackingOptions
  <2>1. "updateTracking" \in Requests /\ "updateTracking" \notin Stops
    BY DEF Requests, Stops
  <2>2. /\ Post(Message("update", tracking.session, "updateTracking"))
        /\ tracking' = Push(tracking, "updateTracking") /\ Len(tracking.reqs) < MaxReqs
        /\ tracking.session \in SessionIds /\ mTracking' \in BOOLEAN
        /\ UNCHANGED <<sessions, niResponse, mSessionBiDict, running, stuck, handling, orderly>>
    BY <1>1, <1>5 DEF UpdateTrackingOptions, SomeSession, ClientTypes, Types
  <2> QED
    BY <1>1, <1>2, <2>1, <2>2
<1> QED
  BY <1>3, <1>4, <1>5

LEMMA NiTypes ==
  ASSUME ClientTypes, NEW n \in NiIds, GnssNiResponse(n)
  PROVE  ClientTypes'
<1> DEFINE m == Message("ni", n, "niResponse")
<1>1. m \in Msg /\ m.cmd = "ni" /\ m.session = n /\ m.req = "niResponse"
  BY MessageMade DEF Requests
<1>2. msgs' = Append(msgs, m) /\ niResponse' = Push(Reset(n), "niResponse")
      /\ UNCHANGED <<mTracking, tracking, sessions, mSessionBiDict, running, stuck, handling, orderly>>
  BY DEF GnssNiResponse, Post
<1> HIDE DEF m
<1>3. MsgOK(m)
  BY <1>1 DEF MsgOK, Stops
<1>4. msgs' \in Seq(Msg) /\ \A k \in 1..Len(msgs') : MsgOK(msgs'[k])
  BY <1>1, <1>2, <1>3, PostTypes DEF ClientTypes, Types, MsgsOK
<1>5. Reset(n) \in Queue /\ Reset(n).session = n /\ Reset(n).reqs = <<>>
  BY QueueMade
<1>6. niResponse' \in Queue /\ niResponse'.session = n /\ niResponse'.reqs = <<"niResponse">>
  BY <1>2, <1>5, QueueOps DEF Requests
<1>7. QueuesOK'
  BY <1>2, <1>6 DEF ClientTypes, QueuesOK
<1> QED
  BY <1>2, <1>4, <1>6, <1>7, CallTypes DEF ClientTypes, Types

LEMMA PostOK ==
  ASSUME ClientTypes, NEW cmd \in {"start", "stop", "update", "get"}, NEW s \in SomeSession,
         NEW req \in Requests \cup {"none"}, cmd = "start" => s \in SessionIds,
         req \in Stops => cmd = "stop", Post(Message(cmd, s, req))
  PROVE  msgs' \in Seq(Msg) /\ \A k \in 1..Len(msgs') : MsgOK(msgs'[k])
<1> DEFINE m == Message(cmd, s, req)
<1>1. m \in Msg /\ m.cmd = cmd /\ m.session = s /\ m.req = req
  BY MessageMade DEF SomeSession
<1>2. msgs' = Append(msgs, m)
  BY DEF Post
<1> HIDE DEF m
<1>3. MsgOK(m)
  BY <1>1 DEF MsgOK
<1> QED
  BY <1>1, <1>2, <1>3, PostTypes DEF ClientTypes, Types, MsgsOK

LEMMA SessionTypes ==
  ASSUME ClientTypes, UNCHANGED <<mTracking, tracking, niResponse, running, stuck, handling>>,
         orderly' \in BOOLEAN, sessions' \in Queue, Len(sessions'.reqs) <= MaxReqs,
         mSessionBiDict' \in [Ids -> Entity \cup {NULL}],
         msgs' \in Seq(Msg), \A k \in 1..Len(msgs') : MsgOK(msgs'[k])
  PROVE  ClientTypes'
<1>1. QueuesOK'
  BY DEF ClientTypes, QueuesOK
<1> QED
  BY <1>1, CallTypes DEF ClientTypes, Types

LEMMA SessionCallTypes ==
  ASSUME ClientTypes, NEW isOrderly \in BOOLEAN, SessionCall(isOrderly)
  PROVE  /\ orderly' \in BOOLEAN /\ sessions \in Queue /\ Len(sessions.reqs) < MaxReqs
         /\ msgs \in Seq(Msg) /\ \A k \in 1..Len(msgs) : MsgOK(msgs[k])
         /\ mSessionBiDict \in [Ids -> Entity \cup {NULL}]
BY DEF SessionCall, ClientTypes, Types, MsgsOK

\* Where a session call has the queue's session.
LEMMA Retitled ==
  ASSUME NEW q \in Queue, Len(q.reqs) < MaxReqs, NEW r \in Requests,
         NEW s \in SessionIds \cup NiIds \cup {NoSession}
  PROVE  /\ Push([q EXCEPT !.session = s], r) \in Queue
         /\ Push([q EXCEPT !.session = s], r).reqs = Append(q.reqs, r)
         /\ Len(Append(q.reqs, r)) <= MaxReqs
         /\ Push(q, r) \in Queue /\ Push(q, r).reqs = Append(q.reqs, r)
<1> DEFINE new == [q EXCEPT !.session = s]
<1>1. new \in Queue /\ new.reqs = q.reqs
  BY QueueOps
<1> HIDE DEF new
<1>2. Push(new, r) \in Queue /\ Push(new, r).reqs = Append(q.reqs, r)
  BY <1>1, QueueOps
<1>3. Push(q, r) \in Queue /\ Push(q, r).reqs = Append(q.reqs, r) /\ Len(Append(q.reqs, r)) <= MaxReqs
  BY PushTypes
<1> QED
  BY <1>2, <1>3 DEF new

LEMMA StartSessionTypes ==
  ASSUME ClientTypes, NEW id \in Ids, NEW mode \in SessionModes, NEW s \in SessionIds,
         StartSession(id, mode, s)
  PROVE  ClientTypes'
<1>1. /\ orderly' \in BOOLEAN /\ sessions \in Queue /\ Len(sessions.reqs) < MaxReqs
      /\ msgs \in Seq(Msg) /\ \A k \in 1..Len(msgs) : MsgOK(msgs[k])
      /\ mSessionBiDict \in [Ids -> Entity \cup {NULL}]
  BY SessionCallTypes DEF StartSession
<1>2. mode \in {"NONE", "ON_FULL", "ON_FIX"}
  BY ClientAssumption
<1>3. mSessionBiDict' \in [Ids -> Entity \cup {NULL}]
      /\ UNCHANGED <<mTracking, tracking, niResponse, running, stuck, handling>>
  BY <1>1, <1>2, EntityMade DEF StartSession
<1>4. CASE mode = "NONE"
  BY <1>1, <1>3, <1>4, SessionTypes DEF StartSession, ClientTypes, Types
<1>5. CASE mode # "NONE"
  <2> DEFINE r == Kind("start", mode)
  <2>1. r \in Requests /\ r \notin Stops
    BY <1>2, <1>5, KindMade
  <2>2. Post(Message("start", s, r)) /\ sessions' = Push(AfterStart(mode, s), r)
    BY <1>5 DEF StartSession
  <2> HIDE DEF r
  <2>3. msgs' \in Seq(Msg) /\ \A k \in 1..Len(msgs') : MsgOK(msgs'[k])
    BY <2>1, <2>2, PostOK DEF SomeSession
  <2>4. sessions' \in Queue /\ Len(sessions'.reqs) <= MaxReqs
    BY <1>1, <2>1, <2>2, Retitled DEF AfterStart
  <2> QED
    BY <1>1, <1>3, <2>3, <2>4, SessionTypes
<1> QED
  BY <1>4, <1>5

\* stopSession(), and an update of the same mode.
LEMMA InPlaceTypes ==
  ASSUME ClientTypes, NEW id \in Ids,
         StopSession(id) \/ \E mode \in SessionModes : UpdateInPlace(id, mode)
  PROVE  ClientTypes'
<1>1. PICK call \in {"stop", "update"} :
        /\ SessionCall(TRUE) /\ mSessionBiDict[id] # NULL /\ GetExtById(id).sessionMode # "NONE"
        /\ Post(Message(call, GetExtById(id).session, Kind(call, GetExtById(id).sessionMode)))
        /\ sessions' = Push(sessions, Kind(call, GetExtById(id).sessionMode))
        /\ UNCHANGED <<mTracking, tracking, niResponse, mSessionBiDict, running, stuck, handling>>
  BY DEF StopSession, UpdateInPlace
<1>2. /\ orderly' \in BOOLEAN /\ sessions \in Queue /\ Len(sessions.reqs) < MaxReqs
      /\ mSessionBiDict \in [Ids -> Entity \cup {NULL}]
  BY <1>1, SessionCallTypes
<1> DEFINE e == GetExtById(id)
           r == Kind(call, e.sessionMode)
<1>3. e.session \in SessionIds /\ e.sessionMode \in {"ON_FIX", "ON_FULL"}
  BY <1>1, EntityFound, EntityFields DEF ClientTypes
<1> HIDE DEF e
<1>4. r \in Requests /\ (r \in Stops => call = "stop")
  BY <1>3, KindMade
<1> HIDE DEF r
<1>5. msgs' \in Seq(Msg) /\ \A k \in 1..Len(msgs') : MsgOK(msgs'[k])
  BY <1>1, <1>3, <1>4, PostOK DEF SomeSession, e, r
<1>6. sessions' \in Queue /\ Len(sessions'.reqs) <= MaxReqs
  BY <1>1, <1>2, <1>4, PushTypes DEF e, r
<1> QED
  BY <1>1, <1>2, <1>5, <1>6, SessionTypes

LEMMA BySwitchTypes ==
  ASSUME ClientTypes, NEW id \in Ids, NEW mode \in SessionModes, NEW s \in SessionIds,
         UpdateBySwitch(id, mode, s)
  PROVE  ClientTypes'
<1> DEFINE e == GetExtById(id)
           r == Kind("update", mode)
           stop == Message("stop", e.session, "none")
           start == Message("start", s, r)
<1>1. /\ SessionCall(TRUE) /\ mSessionBiDict[id] # NULL /\ {mode, e.sessionMode} = {"ON_FIX", "ON_FULL"}
      /\ msgs' = msgs \o <<stop, start>>
      /\ sessions' = IF mode = "ON_FULL" THEN Push([sessions EXCEPT !.session = s], r)
                     ELSE Push([sessions EXCEPT !.session = NoSession], r)
      /\ mSessionBiDict' = [mSessionBiDict EXCEPT ![id] = NewEntity(mode, s)]
      /\ UNCHANGED <<mTracking, tracking, niResponse, running, stuck, handling>>
  BY DEF UpdateBySwitch
<1>2. /\ orderly' \in BOOLEAN /\ sessions \in Queue /\ Len(sessions.reqs) < MaxReqs
      /\ msgs \in Seq(Msg) /\ \A k \in 1..Len(msgs) : MsgOK(msgs[k])
      /\ mSessionBiDict \in [Ids -> Entity \cup {NULL}]
  BY <1>1, SessionCallTypes
<1>3. e.session \in SessionIds
  BY <1>1, EntityFound DEF ClientTypes
<1>4. r \in Requests /\ r \notin Stops /\ mode \in {"ON_FIX", "ON_FULL"}
  BY <1>1, KindMade
<1> HIDE DEF e, r
<1>5. /\ stop \in Msg /\ stop.cmd = "stop" /\ start \in Msg /\ start.cmd = "start"
      /\ start.session = s /\ start.req = r
  BY <1>3, <1>4, MessageMade
<1> HIDE DEF stop, start
<1>6. MsgOK(stop) /\ MsgOK(start)
  BY <1>4, <1>5 DEF MsgOK
<1>7. msgs' = Append(Append(msgs, stop), start)
  BY <1>1, <1>2, <1>5, Twice
<1>8. Append(msgs, stop) \in Seq(Msg) /\ \A k \in 1..Len(Append(msgs, stop)) : MsgOK(Append(msgs, stop)[k])
  BY <1>2, <1>5, <1>6, PostTypes
<1>9. msgs' \in Seq(Msg) /\ \A k \in 1..Len(msgs') : MsgOK(msgs'[k])
  BY <1>5, <1>6, <1>7, <1>8, PostTypes
<1>10. sessions' \in Queue /\ Len(sessions'.reqs) <= MaxReqs
  BY <1>1, <1>2, <1>4, Retitled
<1>11. mSessionBiDict' \in [Ids -> Entity \cup {NULL}]
  BY <1>1, <1>2, <1>4, EntityMade
<1> QED
  BY <1>1, <1>2, <1>9, <1>10, <1>11, SessionTypes

LEMMA ModeNoneTypes ==
  ASSUME ClientTypes, NEW id \in Ids,
         UpdateToNone(id) \/ \E mode \in SessionModes : UpdateFromNone(id, mode)
  PROVE  ClientTypes'
<1> DEFINE e == GetExtById(id)
<1>1. CASE UpdateToNone(id)
  <2>1. /\ SessionCall(FALSE) /\ mSessionBiDict[id] # NULL
        /\ mSessionBiDict' = [mSessionBiDict EXCEPT ![id] =
                               [e EXCEPT !.sessionMode = "NONE", !.session = e.trackingSession]]
        /\ UNCHANGED <<mTracking, tracking, sessions, niResponse, msgs, running, stuck, handling>>
    BY <1>1 DEF UpdateToNone
  <2>2. e \in Entity
    BY <2>1, EntityFound DEF ClientTypes
  <2> HIDE DEF e
  <2>3. [e EXCEPT !.sessionMode = "NONE", !.session = e.trackingSession] \in Entity
    BY <2>2 DEF Entity
  <2>4. /\ orderly' \in BOOLEAN /\ sessions \in Queue /\ Len(sessions.reqs) <= MaxReqs
        /\ msgs \in Seq(Msg) /\ \A k \in 1..Len(msgs) : MsgOK(msgs[k])
        /\ mSessionBiDict \in [Ids -> Entity \cup {NULL}]
    BY <2>1, SessionCallTypes DEF ClientTypes, Types
  <2>5. mSessionBiDict' \in [Ids -> Entity \cup {NULL}]
    BY <2>1, <2>3, <2>4
  <2> QED
    BY <2>1, <2>4, <2>5, SessionTypes
<1>2. ASSUME NEW mode \in SessionModes, UpdateFromNone(id, mode) PROVE ClientTypes'
  <2> DEFINE r == Kind("update", mode)
             new == [e EXCEPT !.sessionMode = mode,
                              !.session = IF mode = "ON_FIX" THEN e.trackingSession ELSE e.batchingSession]
  <2>1. /\ SessionCall(FALSE) /\ mSessionBiDict[id] # NULL /\ mode # "NONE"
        /\ mSessionBiDict' = [mSessionBiDict EXCEPT ![id] = new]
        /\ sessions' = Push(sessions, r)
        /\ UNCHANGED <<mTracking, tracking, niResponse, msgs, running, stuck, handling>>
    BY <1>2 DEF UpdateFromNone
  <2>2. e \in Entity /\ mode \in {"ON_FIX", "ON_FULL"}
    BY <2>1, EntityFound, ClientAssumption DEF ClientTypes
  <2>3. r \in Requests
    BY <2>2, KindMade
  <2> HIDE DEF e, r
  <2>4. new \in Entity
    BY <2>2 DEF Entity
  <2> HIDE DEF new
  <2>5. /\ orderly' \in BOOLEAN /\ sessions \in Queue /\ Len(sessions.reqs) < MaxReqs
        /\ msgs \in Seq(Msg) /\ \A k \in 1..Len(msgs) : MsgOK(msgs[k])
        /\ mSessionBiDict \in [Ids -> Entity \cup {NULL}]
    BY <2>1, SessionCallTypes
  <2>6. mSessionBiDict' \in [Ids -> Entity \cup {NULL}]
    BY <2>1, <2>4, <2>5
  <2>7. sessions' \in Queue /\ Len(sessions'.reqs) <= MaxReqs
    BY <2>1, <2>3, <2>5, PushTypes
  <2> QED
    BY <2>1, <2>5, <2>6, <2>7, SessionTypes
<1> QED
  BY <1>1, <1>2

LEMMA GetBatchedTypes ==
  ASSUME ClientTypes, NEW id \in Ids, GetBatchedLocations(id)
  PROVE  ClientTypes'
<1> DEFINE e == IF mSessionBiDict[id] = NULL THEN ZeroEntity ELSE GetExtById(id)
<1>1. /\ SessionCall(mSessionBiDict[id] # NULL)
      /\ Post(Message("get", e.batchingSession, "getBatched")) /\ sessions' = Push(sessions, "getBatched")
      /\ mSessionBiDict' = [mSessionBiDict EXCEPT ![id] = IF @ = NULL THEN ZeroEntity ELSE @]
      /\ UNCHANGED <<mTracking, tracking, niResponse, running, stuck, handling>>
  BY DEF GetBatchedLocations
<1>2. e.batchingSession \in SomeSession
  BY EntityFound, EntityMade, EntityFields DEF ClientTypes
<1> HIDE DEF e
<1>3. "getBatched" \in Requests /\ "getBatched" \notin Stops
  BY DEF Requests, Stops
<1>4. msgs' \in Seq(Msg) /\ \A k \in 1..Len(msgs') : MsgOK(msgs'[k])
  BY <1>1, <1>2, <1>3, PostOK
<1>5. /\ orderly' \in BOOLEAN /\ sessions \in Queue /\ Len(sessions.reqs) < MaxReqs
      /\ mSessionBiDict \in [Ids -> Entity \cup {NULL}]
  BY <1>1, SessionCallTypes
<1>6. sessions' \in Queue /\ Len(sessions'.reqs) <= MaxReqs
  BY <1>1, <1>3, <1>5, PushTypes
<1>7. mSessionBiDict' \in [Ids -> Entity \cup {NULL}]
  BY <1>1, <1>5, EntityMade
<1> QED
  BY <1>1, <1>4, <1>5, <1>6, <1>7, SessionTypes

-----------------------------------------------------------------------------
(***************************************************************************)
(* The MsgTask thread: a message is answered by an adapter, or not.        *)
(***************************************************************************)
Answered(m, ok) ==
  /\ TakeRequest(m.session, m.req, ok)
  /\ \/ m.cmd = "start" /\ running' = (IF ok THEN running \cup {m.session} ELSE running)
        /\ UNCHANGED stuck
     \/ m.cmd = "stop" /\ m.session \in running
        /\ running' = (IF ok THEN running \ {m.session} ELSE running)
        /\ stuck' = (IF ok THEN stuck \ {m.session} ELSE stuck \cup {m.session})
     \/ m.cmd \in {"update", "get"} /\ m.session \in running /\ UNCHANGED <<running, stuck>>
     \/ m.cmd = "ni" /\ UNCHANGED <<running, stuck>>

Unanswered(m) ==
  /\ m.cmd \in {"stop", "update", "get"} /\ m.session \notin running
  /\ UNCHANGED <<tracking, sessions, niResponse, running, stuck, handling>>

LEMMA Processed ==
  ASSUME ClientTypes, ProcMsg
  PROVE  /\ handling = NULL /\ msgs # <<>> /\ msgs' = Tail(msgs)
         /\ Head(msgs) \in Msg /\ MsgOK(Head(msgs)) /\ Head(msgs) = msgs[1]
         /\ msgs' \in Seq(Msg) /\ Len(msgs) \in Nat /\ 1 \in 1..Len(msgs) /\ Len(msgs') = Len(msgs) - 1
         /\ \A k \in 1..Len(msgs') : msgs'[k] = msgs[k + 1] /\ k + 1 \in 1..Len(msgs)
         /\ UNCHANGED <<mTracking, mSessionBiDict, orderly>>
         /\ (\E ok \in BOOLEAN : Answered(Head(msgs), ok)) \/ Unanswered(Head(msgs))
<1>1. msgs \in Seq(Msg) /\ \A k \in 1..Len(msgs) : MsgOK(msgs[k])
  BY DEF ClientTypes, Types, MsgsOK
<1>2. /\ handling = NULL /\ msgs # <<>> /\ msgs' = Tail(msgs)
      /\ UNCHANGED <<mTracking, mSessionBiDict, orderly>>
  BY DEF ProcMsg
<1>3. /\ Head(msgs) \in Msg /\ Head(msgs) = msgs[1] /\ 1 \in 1..Len(msgs)
      /\ msgs' \in Seq(Msg) /\ Len(msgs) \in Nat /\ Len(msgs') = Len(msgs) - 1
      /\ \A k \in 1..(Len(msgs) - 1) : msgs'[k] = msgs[k + 1]
  BY <1>1, <1>2, HeadTail
<1>4. \A k \in 1..Len(msgs') : msgs'[k] = msgs[k + 1] /\ k + 1 \in 1..Len(msgs)
  BY <1>3
<1>5. MsgOK(Head(msgs))
  BY <1>1, <1>3
<1> DEFINE m == Head(msgs)
<1>6. \/ m.cmd = "start" /\ \E ok \in BOOLEAN :
           /\ running' = IF ok THEN running \cup {m.session} ELSE running
           /\ TakeRequest(m.session, m.req, ok) /\ UNCHANGED stuck
      \/ m.cmd = "stop" /\ m.session \in running /\ \E ok \in BOOLEAN :
           /\ running' = IF ok THEN running \ {m.session} ELSE running
           /\ stuck' = IF ok THEN stuck \ {m.session} ELSE stuck \cup {m.session}
           /\ TakeRequest(m.session, m.req, ok)
      \/ m.cmd \in {"update", "get"} /\ m.session \in running /\ \E ok \in BOOLEAN :
           TakeRequest(m.session, m.req, ok) /\ UNCHANGED <<running, stuck>>
      \/ m.cmd \in {"stop", "update", "get"} /\ m.session \notin running
           /\ UNCHANGED <<tracking, sessions, niResponse, running, stuck, handling>>
      \/ m.cmd = "ni" /\ \E ok \in BOOLEAN :
           TakeRequest(m.session, m.req, ok) /\ UNCHANGED <<running, stuck>>
  BY DEF ProcMsg
<1> HIDE DEF m
<1>7. (\E ok \in BOOLEAN : Answered(m, ok)) \/ Unanswered(m)
  BY <1>6 DEF Answered, Unanswered
<1> QED
  BY <1>2, <1>3, <1>4, <1>5, <1>7 DEF m

\* The queue a request is taken from, and what the response is told.
Told(s, want, ok, req, queue) ==
  [session |-> s, ok |-> ok, want |-> want, req |-> req, queue |-> queue]

TakenTracking(s, want, ok) ==
  /\ tracking.session = s /\ tracking.reqs # <<>> /\ tracking' = Pop(tracking)
  /\ handling' = Told(s, want, ok, Head(tracking.reqs), "tracking")
  /\ UNCHANGED <<sessions, niResponse>>

TakenNi(s, want, ok) ==
  /\ tracking.session # s /\ niResponse.session = s /\ niResponse.reqs # <<>> /\ niResponse' = Pop(niResponse)
  /\ handling' = Told(s, want, ok, Head(niResponse.reqs), "ni")
  /\ UNCHANGED <<tracking, sessions>>

TakenSession(s, want, ok) ==
  /\ ~(tracking.session = s /\ tracking.reqs # <<>>)
  /\ HasSession(mSessionBiDict, s) /\ sessions.reqs # <<>> /\ sessions' = Pop(sessions)
  /\ handling' = Told(s, want, ok, Head(sessions.reqs), "session")
  /\ UNCHANGED <<tracking, niResponse>>

TakenNone(s) ==
  /\ ~(tracking.session = s /\ tracking.reqs # <<>>)
  /\ ~(HasSession(mSessionBiDict, s) /\ sessions.reqs # <<>>)
  /\ UNCHANGED <<tracking, sessions, niResponse, handling>>

LEMMA Taken ==
  ASSUME NEW s, NEW want, NEW ok, TakeRequest(s, want, ok)
  PROVE  \/ TakenTracking(s, want, ok) \/ TakenNi(s, want, ok)
         \/ TakenSession(s, want, ok) \/ TakenNone(s)
BY DEF TakeRequest, TakenTracking, TakenNi, TakenSession, TakenNone, Told

LEMMA PopTypes ==
  ASSUME NEW q \in Queue, q.reqs # <<>>
  PROVE  /\ Pop(q) \in Queue /\ Pop(q).session = q.session /\ Pop(q).reqs = Tail(q.reqs)
         /\ Head(q.reqs) \in Requests /\ q.reqs \in Seq(Requests)
         /\ Len(Pop(q).reqs) = Len(q.reqs) - 1 /\ Len(q.reqs) \in Nat
         /\ \A n \in Nat : Len(q.reqs) <= n => Len(Pop(q).reqs) <= n
<1>1. /\ Pop(q) \in Queue /\ Pop(q).session = q.session /\ Pop(q).reqs = Tail(q.reqs)
      /\ Head(q.reqs) \in Requests /\ q.reqs \in Seq(Requests)
  BY QueueOps
<1>2. Len(Tail(q.reqs)) = Len(q.reqs) - 1 /\ Len(q.reqs) \in Nat
  BY <1>1, HeadTail
<1> QED
  BY <1>1, <1>2

LEMMA TakeTypes ==
  ASSUME ClientTypes, NEW m \in Msg, NEW ok \in BOOLEAN, m.session \in SessionIds \cup NiIds,
         TakeRequest(m.session, m.req, ok)
  PROVE  /\ {tracking', sessions', niResponse'} \subseteq Queue
         /\ Len(tracking'.reqs) <= MaxReqs /\ Len(sessions'.reqs) <= MaxReqs
         /\ handling' \in Handling \cup {NULL} /\ QueuesOK'
<1>1. /\ {tracking, sessions, niResponse} \subseteq Queue
      /\ Len(tracking.reqs) <= MaxReqs /\ Len(sessions.reqs) <= MaxReqs
      /\ handling \in Handling \cup {NULL} /\ QueuesOK
  BY DEF ClientTypes, Types
<1>2. /\ m.req \in Requests \cup {"none"} /\ MaxReqs \in Nat
      /\ \A req \in Requests, queue \in {"tracking", "ni", "session"} :
           Told(m.session, m.req, ok, req, queue) \in Handling
  BY ClientAssumption DEF Msg, Handling, Told
<1>3. CASE TakenTracking(m.session, m.req, ok)
  <2>1. /\ Pop(tracking) \in Queue /\ Pop(tracking).session = tracking.session
        /\ Head(tracking.reqs) \in Requests /\ Len(Pop(tracking).reqs) <= MaxReqs
    BY <1>1, <1>2, <1>3, PopTypes DEF TakenTracking
  <2>2. tracking.session # NoSession
    BY <1>1, <1>3 DEF QueuesOK, TakenTracking
  <2>3. QueuesOK'
    BY <1>1, <1>3, <2>1, <2>2 DEF QueuesOK, TakenTracking
  <2> QED
    BY <1>1, <1>2, <1>3, <2>1, <2>3 DEF TakenTracking
<1>4. CASE TakenNi(m.session, m.req, ok)
  <2>1. /\ Pop(niResponse) \in Queue /\ Pop(niResponse).session = niResponse.session
        /\ Head(niResponse.reqs) \in Requests /\ Pop(niResponse).reqs = Tail(niResponse.reqs)
        /\ niResponse.reqs \in Seq(Requests)
    BY <1>1, <1>4, PopTypes DEF TakenNi
  <2>2. /\ Len(Tail(niResponse.reqs)) = Len(niResponse.reqs) - 1 /\ Len(niResponse.reqs) \in Nat
        /\ \A k \in 1..(Len(niResponse.reqs) - 1) : Tail(niResponse.reqs)[k] = niResponse.reqs[k + 1]
    BY <1>4, <2>1, HeadTail DEF TakenNi
  <2>3. \A k \in 1..Len(Tail(niResponse.reqs)) : Tail(niResponse.reqs)[k] = "niResponse"
    <3> SUFFICES ASSUME NEW k \in 1..Len(Tail(niResponse.reqs))
                 PROVE  Tail(niResponse.reqs)[k] = "niResponse"
      OBVIOUS
    <3>1. k + 1 \in 1..Len(niResponse.reqs) /\ k \in 1..(Len(niResponse.reqs) - 1)
      BY <2>2
    <3> QED
      BY <1>1, <2>2, <3>1 DEF QueuesOK
  <2>4. QueuesOK'
    BY <1>1, <1>4, <2>1, <2>3 DEF QueuesOK, TakenNi
  <2> QED
    BY <1>1, <1>2, <1>4, <2>1, <2>4 DEF TakenNi
<1>5. CASE TakenSession(m.session, m.req, ok)
  <2>1. /\ Pop(sessions) \in Queue
        /\ Head(sessions.reqs) \in Requests /\ Len(Pop(sessions).reqs) <= MaxReqs
    BY <1>1, <1>2, <1>5, PopTypes DEF TakenSession
  <2>2. QueuesOK'
    BY <1>1, <1>5 DEF QueuesOK, TakenSession
  <2> QED
    BY <1>1, <1>2, <1>5, <2>1, <2>2 DEF TakenSession
<1>6. CASE TakenNone(m.session)
  BY <1>1, <1>6 DEF TakenNone, QueuesOK
<1> QED
  BY <1>3, <1>4, <1>5, <1>6, Taken

LEMMA ProcTypes ==
  ASSUME ClientTypes, ProcMsg
  PROVE  ClientTypes'
<1> DEFINE m == Head(msgs)
<1>1. /\ m \in Msg /\ MsgOK(m) /\ msgs' \in Seq(Msg)
      /\ \A k \in 1..Len(msgs') : msgs'[k] = msgs[k + 1] /\ k + 1 \in 1..Len(msgs)
      /\ UNCHANGED <<mTracking, mSessionBiDict, orderly>>
      /\ (\E ok \in BOOLEAN : Answered(m, ok)) \/ Unanswered(m)
  BY Processed
<1> HIDE DEF m
<1>2. MsgsOK'
  BY <1>1 DEF ClientTypes, MsgsOK, MsgOK
<1>3. running \subseteq SessionIds /\ stuck \subseteq running
      /\ mTracking \in BOOLEAN /\ orderly \in BOOLEAN /\ mSessionBiDict \in [Ids -> Entity \cup {NULL}]
  BY DEF ClientTypes, Types
<1>4. ASSUME NEW ok \in BOOLEAN, Answered(m, ok) PROVE ClientTypes'
  <2>1. m.session \in SessionIds \cup NiIds
    BY <1>1, <1>3, <1>4 DEF Answered, MsgOK
  <2>2. /\ {tracking', sessions', niResponse'} \subseteq Queue
        /\ Len(tracking'.reqs) <= MaxReqs /\ Len(sessions'.reqs) <= MaxReqs
        /\ handling' \in Handling \cup {NULL} /\ QueuesOK'
    BY <1>1, <1>4, <2>1, TakeTypes DEF Answered
  <2>3. running' \subseteq SessionIds /\ stuck' \subseteq running'
    BY <1>1, <1>3, <1>4 DEF Answered, MsgOK
  <2>4. Types'
    BY <1>1, <1>3, <2>2, <2>3 DEF Types
  <2> QED
    BY <1>2, <2>2, <2>4 DEF ClientTypes
<1>5. CASE Unanswered(m)
  <2>1. Types'
    BY <1>1, <1>5 DEF Unanswered, ClientTypes, Types
  <2>2. QueuesOK'
    BY <1>5 DEF Unanswered, ClientTypes, QueuesOK
  <2> QED
    BY <1>2, <2>1, <2>2 DEF ClientTypes
<1> QED
  BY <1>1, <1>4, <1>5

LEMMA ResponseTypes ==
  ASSUME ClientTypes, OnResponse
  PROVE  ClientTypes'
<1>1. /\ handling' = NULL
      /\ UNCHANGED <<mTracking, tracking, sessions, niResponse, msgs, running, stuck, orderly>>
      /\ RemoveSession(handling.session) \/ UNCHANGED mSessionBiDict
  BY DEF OnResponse
<1>2. mSessionBiDict' \in [Ids -> Entity \cup {NULL}]
  BY <1>1 DEF RemoveSession, ClientTypes, Types
<1>3. Types'
  BY <1>1, <1>2 DEF ClientTypes, Types
<1>4. MsgsOK' /\ QueuesOK'
  BY <1>1 DEF ClientTypes, MsgsOK, MsgOK, QueuesOK
<1> QED
  BY <1>3, <1>4 DEF ClientTypes

LEMMA TypesStep == ClientTypes /\ [Next]_vars => ClientTypes'
<1> SUFFICES ASSUME ClientTypes, [Next]_vars PROVE ClientTypes'
  OBVIOUS
<1>1. CASE (\E s \in SessionIds : StartTracking(s)) \/ StopTracking \/ UpdateTrackingOptions
  BY <1>1, TrackingTypes
<1>2. ASSUME NEW n \in NiIds, GnssNiResponse(n) PROVE ClientTypes'
  BY <1>2, NiTypes
<1>3. ASSUME NEW id \in Ids, NEW mode \in SessionModes, NEW s \in SessionIds,
             StartSession(id, mode, s) \/ UpdateBySwitch(id, mode, s)
      PROVE  ClientTypes'
  BY <1>3, StartSessionTypes, BySwitchTypes
<1>4. ASSUME NEW id \in Ids, NEW mode \in SessionModes,
             UpdateInPlace(id, mode) \/ UpdateFromNone(id, mode) \/ UpdateToNone(id)
      PROVE  ClientTypes'
  BY <1>4, InPlaceTypes, ModeNoneTypes
<1>5. ASSUME NEW id \in Ids, StopSession(id) \/ GetBatchedLocations(id) PROVE ClientTypes'
  BY <1>5, InPlaceTypes, GetBatchedTypes
<1>6. CASE ProcMsg \/ OnResponse
  BY <1>6, ProcTypes, ResponseTypes
<1>7. CASE UNCHANGED vars
  BY <1>7 DEF vars, ClientTypes, Types, MsgsOK, MsgOK, QueuesOK
<1> QED
  BY <1>1, <1>2, <1>3, <1>4, <1>5, <1>6, <1>7 DEF Next

\* Besides the types: every message is one the client posts, and every queue
\* holds requests of its own kind.
THEOREM TypesAlways == Spec => []ClientTypes
<1>1. ClientTypes /\ [Next]_vars => ClientTypes'
  BY TypesStep
<1> QED
  BY <1>1, TypesInit, PTL DEF Spec

\* apart becomes FALSE where an id comes into use a second time, and never
\* TRUE again.
ApartType == apart \in BOOLEAN

LEMMA ApartStep == [Next]_vars => (apart' => apart) /\ (ApartType => ApartType')
<1> SUFFICES ASSUME [Next]_vars PROVE (apart' => apart) /\ (ApartType => ApartType')
  OBVIOUS
<1>1. ASSUME NEW s \in SessionIds, StartTracking(s) PROVE BeginsSession(s)
  BY <1>1 DEF StartTracking
<1>2. ASSUME NEW n \in NiIds, GnssNiResponse(n) PROVE BeginsNi(n)
  BY <1>2 DEF GnssNiResponse
<1>3. ASSUME NEW id \in Ids, NEW mode \in SessionModes, NEW s \in SessionIds,
             StartSession(id, mode, s) \/ UpdateBySwitch(id, mode, s)
      PROVE  BeginsSession(s)
  BY <1>3 DEF StartSession, UpdateBySwitch
<1>4. ASSUME NEW id \in Ids, NEW mode \in SessionModes,
             UpdateInPlace(id, mode) \/ UpdateFromNone(id, mode) \/ UpdateToNone(id)
      PROVE  UNCHANGED apart
  BY <1>4 DEF UpdateInPlace, UpdateFromNone, UpdateToNone
<1>5. ASSUME NEW id \in Ids, StopSession(id) \/ GetBatchedLocations(id) PROVE UNCHANGED apart
  BY <1>5 DEF StopSession, GetBatchedLocations
<1>6. CASE StopTracking \/ UpdateTrackingOptions \/ ProcMsg \/ OnResponse \/ UNCHANGED vars
  BY <1>6 DEF StopTracking, UpdateTrackingOptions, ProcMsg, OnResponse, vars, ApartType
<1>7. (\E s : BeginsSession(s)) \/ (\E n : BeginsNi(n)) \/ UNCHANGED apart
  BY <1>1, <1>2, <1>3, <1>4, <1>5, <1>6 DEF Next, StopTracking, UpdateTrackingOptions, ProcMsg, OnResponse, vars
<1>8. CASE \E s : BeginsSession(s)
  <2>1. PICK s : apart' = (apart /\ ~NiUses(s))
    BY <1>8 DEF BeginsSession
  <2>2. CASE NiUses(s)
    BY <2>1, <2>2 DEF ApartType
  <2>3. CASE ~NiUses(s)
    BY <2>1, <2>3 DEF ApartType
  <2> QED
    BY <2>2, <2>3
<1>9. CASE \E n : BeginsNi(n)
  <2>1. PICK n : apart' = (apart /\ ~Used(n))
    BY <1>9 DEF BeginsNi
  <2>2. CASE Used(n)
    BY <2>1, <2>2 DEF ApartType
  <2>3. CASE ~Used(n)
    BY <2>1, <2>3 DEF ApartType
  <2> QED
    BY <2>2, <2>3
<1>10. CASE UNCHANGED apart
  BY <1>10 DEF ApartType
<1> QED
  BY <1>7, <1>8, <1>9, <1>10

\* The client's variables have their types: in particular no more requests
\* wait for a response than were let in, the adapters refused to stop only
\* sessions that run, and a response is never for session 0.
THEOREM TypeCorrect == Spec => []TypeOK
<1>1. ClientTypes /\ ApartType => TypeOK
  BY DEF ClientTypes, Types, ApartType, TypeOK
<1>2. Init => ApartType
  BY DEF Init, ApartType
<1>3. ApartType /\ [Next]_vars => ApartType'
  BY ApartStep
<1> QED
  BY <1>1, <1>2, <1>3, TypesAlways, PTL DEF Spec

-----------------------------------------------------------------------------
(***************************************************************************)
(* The messages: what posting one at the end, and taking the first, do to  *)
(* what the invariant says of them.                                        *)
(***************************************************************************)
IsStart(m, s) == m.cmd = "start" /\ m.session = s
IsStop(m, s)  == m.cmd = "stop" /\ m.session = s

\* The session is still to be started.
Coming(q, s) == \E k \in 1..Len(q) : IsStart(q[k], s)

NotFor(q, s) == \A k \in 1..Len(q) : q[k].session # s

\* The session will be stopped, after any start of it.
StopComing(q, s) ==
  \E k \in 1..Len(q) : IsStop(q[k], s) /\ \A j \in 1..Len(q) : j > k => ~IsStart(q[j], s)

\* A session is started once, and before any other message for it.
StartsFirst(q, run) ==
  \A k \in 1..Len(q) : q[k].cmd = "start" =>
    /\ q[k].session \notin run
    /\ \A j \in 1..Len(q) : j # k /\ q[j].session = q[k].session => j > k

LEMMA PostComing ==
  ASSUME NEW q \in Seq(Msg), NEW m \in Msg, NEW s
  PROVE  /\ Coming(Append(q, m), s) <=> Coming(q, s) \/ IsStart(m, s)
         /\ NotFor(Append(q, m), s) <=> NotFor(q, s) /\ m.session # s
         /\ IsStop(m, s) \/ (StopComing(q, s) /\ ~IsStart(m, s)) => StopComing(Append(q, m), s)
<1> DEFINE new == Append(q, m)
           n == Len(q)
<1>1. n \in Nat /\ Len(new) = n + 1 /\ new[n + 1] = m /\ \A k \in 1..n : new[k] = q[k]
  BY Appended
<1> HIDE DEF new, n
<1>2. \A k \in 1..Len(new) : k \in 1..n \/ k = n + 1
  BY <1>1
<1>3. \A k \in 1..n : k \in 1..Len(new) /\ k < n + 1
  BY <1>1
<1>4. n + 1 \in 1..Len(new)
  BY <1>1
<1>5. Coming(new, s) <=> Coming(q, s) \/ IsStart(m, s)
  BY <1>1, <1>2, <1>3, <1>4 DEF Coming, n
<1>6. NotFor(new, s) <=> NotFor(q, s) /\ m.session # s
  BY <1>1, <1>2, <1>3, <1>4 DEF NotFor, n
<1>7. ASSUME IsStop(m, s) PROVE StopComing(new, s)
  <2>1. \A j \in 1..Len(new) : ~(j > n + 1)
    BY <1>1
  <2> QED
    BY <1>1, <1>4, <1>7, <2>1 DEF StopComing
<1>8. ASSUME StopComing(q, s), ~IsStart(m, s) PROVE StopComing(new, s)
  <2>1. PICK k \in 1..n : IsStop(q[k], s) /\ \A j \in 1..n : j > k => ~IsStart(q[j], s)
    BY <1>8 DEF StopComing, n
  <2>2. IsStop(new[k], s) /\ \A j \in 1..Len(new) : j > k => ~IsStart(new[j], s)
    BY <1>1, <1>2, <1>8, <2>1
  <2> QED
    BY <1>3, <2>2 DEF StopComing
<1> QED
  BY <1>5, <1>6, <1>7, <1>8 DEF new

LEMMA PostStarts ==
  ASSUME NEW q \in Seq(Msg), NEW m \in Msg, NEW run, StartsFirst(q, run),
         m.cmd = "start" => m.session \notin run /\ NotFor(q, m.session)
  PROVE  StartsFirst(Append(q, m), run)
<1> DEFINE new == Append(q, m)
           n == Len(q)
<1>1. n \in Nat /\ Len(new) = n + 1 /\ new[n + 1] = m /\ \A k \in 1..n : new[k] = q[k]
  BY Appended
<1> HIDE DEF new, n
<1>2. \A k \in 1..Len(new) : k \in 1..n \/ k = n + 1
  BY <1>1
<1>3. ASSUME NEW k \in 1..n, new[k].cmd = "start"
      PROVE  /\ new[k].session \notin run
             /\ \A j \in 1..Len(new) : j # k /\ new[j].session = new[k].session => j > k
  <2>1. /\ q[k].session \notin run
        /\ \A j \in 1..n : j # k /\ q[j].session = q[k].session => j > k
    BY <1>1, <1>3 DEF StartsFirst, n
  <2>2. n + 1 > k
    BY <1>1
  <2> QED
    BY <1>1, <1>2, <2>1, <2>2
<1>4. ASSUME m.cmd = "start"
      PROVE  /\ m.session \notin run
             /\ \A j \in 1..Len(new) : j # n + 1 /\ new[j].session = m.session => j > n + 1
  BY <1>1, <1>2, <1>4 DEF NotFor, n
<1> QED
  BY <1>1, <1>2, <1>3, <1>4 DEF StartsFirst, new

LEMMA TakeComing ==
  ASSUME NEW q \in Seq(Msg), q # <<>>, NEW run, StartsFirst(q, run)
  PROVE  /\ ~Coming(Tail(q), Head(q).session)
         /\ \A s : Coming(Tail(q), s) => Coming(q, s)
         /\ \A s : StopComing(q, s) /\ ~IsStop(Head(q), s) => StopComing(Tail(q), s)
         /\ \A run2 : run2 \subseteq run \cup {Head(q).session} => StartsFirst(Tail(q), run2)
<1> DEFINE rest == Tail(q)
           n == Len(q)
<1>1. /\ n \in Nat /\ Head(q) = q[1] /\ 1 \in 1..n /\ Len(rest) = n - 1
      /\ \A k \in 1..(n - 1) : rest[k] = q[k + 1]
  BY HeadTail
<1> HIDE DEF rest, n
<1>2. \A k \in 1..Len(rest) : rest[k] = q[k + 1] /\ k + 1 \in 1..n /\ k + 1 # 1 /\ ~(1 > k + 1)
  BY <1>1
<1>3. ~Coming(rest, Head(q).session)
  <2> SUFFICES ASSUME NEW k \in 1..Len(rest), IsStart(rest[k], Head(q).session) PROVE FALSE
    BY DEF Coming
  <2>1. q[k + 1].cmd = "start" /\ q[k + 1].session = q[1].session
    BY <1>1, <1>2 DEF IsStart
  <2> QED
    BY <1>1, <1>2, <2>1 DEF StartsFirst, n
<1>4. ASSUME NEW s, Coming(rest, s) PROVE Coming(q, s)
  BY <1>2, <1>4 DEF Coming, n
<1>5. ASSUME NEW s, StopComing(q, s), ~IsStop(Head(q), s) PROVE StopComing(rest, s)
  <2>1. PICK k \in 1..n : IsStop(q[k], s) /\ \A j \in 1..n : j > k => ~IsStart(q[j], s)
    BY <1>5 DEF StopComing, n
  <2>2. k # 1
    BY <1>1, <1>5, <2>1
  <2>3. k - 1 \in 1..Len(rest) /\ (k - 1) + 1 = k
    BY <1>1, <2>2
  <2>4. IsStop(rest[k - 1], s)
    BY <1>2, <2>1, <2>3
  <2>5. ASSUME NEW j \in 1..Len(rest), j > k - 1 PROVE ~IsStart(rest[j], s)
    <3>1. j + 1 > k
      BY <2>5
    <3> QED
      BY <1>2, <2>1, <3>1
  <2> QED
    BY <2>3, <2>4, <2>5 DEF StopComing
<1>6. ASSUME NEW run2, run2 \subseteq run \cup {Head(q).session} PROVE StartsFirst(rest, run2)
  <2> SUFFICES ASSUME NEW k \in 1..Len(rest), rest[k].cmd = "start"
               PROVE  /\ rest[k].session \notin run2
                      /\ \A j \in 1..Len(rest) : j # k /\ rest[j].session = rest[k].session => j > k
    BY DEF StartsFirst
  <2>1. rest[k] = q[k + 1] /\ k + 1 \in 1..n
    BY <1>2
  <2>2. /\ q[k + 1].session \notin run
        /\ \A j \in 1..n : j # k + 1 /\ q[j].session = q[k + 1].session => j > k + 1
    BY <2>1 DEF StartsFirst, n
  <2>3. rest[k].session # Head(q).session
    BY <1>3 DEF Coming, IsStart
  <2>4. ASSUME NEW j \in 1..Len(rest), j # k, rest[j].session = rest[k].session PROVE j > k
    <3>1. j + 1 \in 1..n /\ j + 1 # k + 1 /\ q[j + 1].session = q[k + 1].session
      BY <1>2, <2>1, <2>4
    <3>2. j + 1 > k + 1
      BY <2>2, <3>1
    <3> QED
      BY <1>1, <3>2
  <2> QED
    BY <1>6, <2>1, <2>2, <2>3, <2>4
<1> QED
  BY <1>3, <1>4, <1>5, <1>6 DEF rest

-----------------------------------------------------------------------------
(***************************************************************************)
(* The requests in the tracking queue are those of the messages for its    *)
(* session, in order.                                                      *)
(***************************************************************************)
InOrder(f, n) == \A j, k \in 1..n : j < k => f[j] < f[k]

Matching(f, q, reqs, s) ==
  /\ InOrder(f, Len(reqs))
  /\ \A k \in 1..Len(reqs) : q[f[k]].session = s /\ q[f[k]].req = reqs[k]
  /\ \A p \in 1..Len(q) : q[p].session = s => \E k \in 1..Len(reqs) : f[k] = p

Matched(q, reqs, s) == \E f \in [1..Len(reqs) -> 1..Len(q)] : Matching(f, q, reqs, s)

LEMMA MatchedNone ==
  ASSUME NEW q \in Seq(Msg), NEW s, NotFor(q, s)
  PROVE  Matched(q, <<>>, s)
<1> DEFINE f == [k \in 1..0 |-> 1]
<1>1. Len(<<>>) = 0 /\ 1..0 = {}
  OBVIOUS
<1>2. f \in [1..Len(<<>>) -> 1..Len(q)]
  BY <1>1
<1> HIDE DEF f
<1>3. Matching(f, q, <<>>, s)
  BY <1>1 DEF Matching, InOrder, NotFor
<1> QED
  BY <1>2, <1>3 DEF Matched

LEMMA MatchedOther ==
  ASSUME NEW q \in Seq(Msg), NEW m \in Msg, NEW reqs \in Seq(Requests), NEW s,
         Matched(q, reqs, s), m.session # s
  PROVE  Matched(Append(q, m), reqs, s)
<1> DEFINE new == Append(q, m)
           n == Len(q)
<1>1. n \in Nat /\ Len(new) = n + 1 /\ new[n + 1] = m /\ \A k \in 1..n : new[k] = q[k]
  BY Appended
<1> HIDE DEF new, n
<1>2. PICK f \in [1..Len(reqs) -> 1..n] : Matching(f, q, reqs, s)
  BY DEF Matched, n
<1>3. f \in [1..Len(reqs) -> 1..Len(new)]
  BY <1>1
<1>4. \A k \in 1..Len(reqs) : new[f[k]].session = s /\ new[f[k]].req = reqs[k]
  BY <1>1, <1>2 DEF Matching
<1>5. ASSUME NEW p \in 1..Len(new), new[p].session = s PROVE \E k \in 1..Len(reqs) : f[k] = p
  <2>1. p # n + 1
    BY <1>1, <1>5
  <2>2. p \in 1..n /\ q[p].session = s
    BY <1>1, <1>5, <2>1
  <2> QED
    BY <1>2, <2>2 DEF Matching, n
<1>6. Matching(f, new, reqs, s)
  BY <1>2, <1>4, <1>5 DEF Matching
<1> QED
  BY <1>3, <1>6 DEF Matched, new

LEMMA MatchedPost ==
  ASSUME NEW q \in Seq(Msg), NEW m \in Msg, NEW reqs \in Seq(Requests), NEW s,
         Matched(q, reqs, s), m.session = s, m.req \in Requests
  PROVE  Matched(Append(q, m), Append(reqs, m.req), s)
<1> DEFINE new == Append(q, m)
           n == Len(q)
           l == Len(reqs)
           reqs2 == Append(reqs, m.req)
<1>1. n \in Nat /\ Len(new) = n + 1 /\ new[n + 1] = m /\ \A k \in 1..n : new[k] = q[k]
  BY Appended
<1>2. l \in Nat /\ Len(reqs2) = l + 1 /\ reqs2[l + 1] = m.req /\ \A k \in 1..l : reqs2[k] = reqs[k]
  BY Appended
<1> HIDE DEF new, n, reqs2, l
<1>3. PICK f \in [1..l -> 1..n] : Matching(f, q, reqs, s)
  BY DEF Matched, n, l
<1> DEFINE g == [k \in 1..(l + 1) |-> IF k = l + 1 THEN n + 1 ELSE f[k]]
<1>4. \A k \in 1..(l + 1) : k = l + 1 \/ (k \in 1..l /\ k # l + 1)
  BY <1>2
<1>5. /\ \A k \in 1..l : k \in 1..(l + 1) /\ g[k] = f[k] /\ g[k] \in 1..n
      /\ g[l + 1] = n + 1 /\ l + 1 \in 1..(l + 1)
  BY <1>2, <1>4
<1>6. g \in [1..Len(reqs2) -> 1..Len(new)]
  BY <1>1, <1>2
<1> HIDE DEF g
<1>7. InOrder(g, Len(reqs2))
  <2> SUFFICES ASSUME NEW j \in 1..(l + 1), NEW k \in 1..(l + 1), j < k PROVE g[j] < g[k]
    BY <1>2 DEF InOrder
  <2>1. j \in 1..l
    BY <1>2
  <2>2. CASE k = l + 1
    BY <1>1, <1>5, <2>1, <2>2
  <2>3. CASE k \in 1..l
    BY <1>3, <1>5, <2>1, <2>3 DEF Matching, InOrder, l
  <2> QED
    BY <1>4, <2>2, <2>3
<1>8. \A k \in 1..Len(reqs2) : new[g[k]].session = s /\ new[g[k]].req = reqs2[k]
  BY <1>1, <1>2, <1>3, <1>4, <1>5 DEF Matching, l
<1>9. ASSUME NEW p \in 1..Len(new), new[p].session = s PROVE \E k \in 1..Len(reqs2) : g[k] = p
  <2>1. CASE p = n + 1
    BY <1>2, <1>5, <2>1
  <2>2. CASE p # n + 1
    <3>1. p \in 1..n /\ q[p].session = s
      BY <1>1, <1>9, <2>2
    <3>2. PICK k \in 1..l : f[k] = p
      BY <1>3, <3>1 DEF Matching, n, l
    <3> QED
      BY <1>2, <1>5, <3>2
  <2> QED
    BY <2>1, <2>2
<1>10. Matching(g, new, reqs2, s)
  BY <1>7, <1>8, <1>9 DEF Matching
<1> QED
  BY <1>6, <1>10 DEF Matched, new, reqs2

LEMMA MatchedSkip ==
  ASSUME NEW q \in Seq(Msg), q # <<>>, NEW reqs \in Seq(Requests), NEW s,
         Matched(q, reqs, s), Head(q).session # s
  PROVE  Matched(Tail(q), reqs, s)
<1> DEFINE rest == Tail(q)
           n == Len(q)
           l == Len(reqs)
<1>1. /\ n \in Nat /\ Head(q) = q[1] /\ 1 \in 1..n /\ Len(rest) = n - 1
      /\ \A k \in 1..(n - 1) : rest[k] = q[k + 1]
  BY HeadTail
<1>2. l \in Nat
  OBVIOUS
<1> HIDE DEF rest, n, l
<1>3. PICK f \in [1..l -> 1..n] : Matching(f, q, reqs, s)
  BY DEF Matched, n, l
<1> DEFINE g == [k \in 1..l |-> f[k] - 1]
<1>4. ASSUME NEW k \in 1..l
      PROVE  /\ g[k] = f[k] - 1 /\ f[k] \in 1..n /\ g[k] \in 1..(n - 1) /\ rest[g[k]] = q[f[k]]
  <2>0. q[f[k]].session = s /\ f[k] \in 1..n
    BY <1>3 DEF Matching, l
  <2>1. f[k] # 1 /\ f[k] \in 1..n
    BY <1>1, <2>0
  <2>2. g[k] = f[k] - 1 /\ g[k] \in 1..(n - 1) /\ g[k] + 1 = f[k]
    BY <1>1, <2>1
  <2> QED
    BY <1>1, <2>1, <2>2
<1>5. g \in [1..l -> 1..Len(rest)]
  BY <1>1, <1>4
<1> HIDE DEF g
<1>6. InOrder(g, l)
  BY <1>3, <1>4 DEF Matching, InOrder, l
<1>7. \A k \in 1..l : rest[g[k]].session = s /\ rest[g[k]].req = reqs[k]
  BY <1>3, <1>4 DEF Matching, l
<1>8. ASSUME NEW p \in 1..Len(rest), rest[p].session = s PROVE \E k \in 1..l : g[k] = p
  <2>1. p + 1 \in 1..n /\ q[p + 1].session = s
    BY <1>1, <1>8
  <2>2. PICK k \in 1..l : f[k] = p + 1
    BY <1>3, <2>1 DEF Matching, n, l
  <2>3. g[k] = p
    BY <1>1, <1>4, <2>2
  <2> QED
    BY <2>3
<1>9. Matching(g, rest, reqs, s)
  BY <1>6, <1>7, <1>8 DEF Matching, l
<1> QED
  BY <1>5, <1>9 DEF Matched, rest, l

LEMMA MatchedTake ==
  ASSUME NEW q \in Seq(Msg), q # <<>>, NEW reqs \in Seq(Requests), NEW s,
         Matched(q, reqs, s), Head(q).session = s
  PROVE  /\ reqs # <<>> /\ Head(reqs) = Head(q).req
         /\ Matched(Tail(q), Tail(reqs), s)
<1> DEFINE rest == Tail(q)
           n == Len(q)
           l == Len(reqs)
           reqs2 == Tail(reqs)
<1>1. /\ n \in Nat /\ Head(q) = q[1] /\ 1 \in 1..n /\ Len(rest) = n - 1
      /\ \A k \in 1..(n - 1) : rest[k] = q[k + 1]
  BY HeadTail
<1>2. l \in Nat
  OBVIOUS
<1> HIDE DEF rest, n
<1>3. PICK f \in [1..l -> 1..n] : Matching(f, q, reqs, s)
  BY DEF Matched, n
<1>4. PICK first \in 1..l : f[first] = 1
  BY <1>1, <1>3 DEF Matching, n
<1>5. reqs # <<>>
  BY <1>4
<1>6. /\ Head(reqs) = reqs[1] /\ 1 \in 1..l /\ reqs2 \in Seq(Requests) /\ Len(reqs2) = l - 1
      /\ \A k \in 1..(l - 1) : reqs2[k] = reqs[k + 1]
  BY <1>5, HeadTail
<1> HIDE DEF reqs2, l
<1>7. f[1] = 1
  <2>1. CASE first = 1
    BY <1>4, <2>1
  <2>2. CASE first # 1
    <3>1. 1 < first
      BY <1>2, <2>2
    <3>2. f[1] < f[first] /\ f[1] \in 1..n
      BY <1>3, <1>6, <3>1 DEF Matching, InOrder, l
    <3> QED
      BY <1>4, <3>2
  <2> QED
    BY <2>1, <2>2
<1>8. Head(reqs) = Head(q).req
  BY <1>1, <1>3, <1>6, <1>7 DEF Matching, l
<1> DEFINE g == [k \in 1..(l - 1) |-> f[k + 1] - 1]
<1>9. ASSUME NEW k \in 1..(l - 1)
      PROVE  /\ g[k] = f[k + 1] - 1 /\ k + 1 \in 1..l /\ f[k + 1] \in 1..n
             /\ g[k] \in 1..(n - 1) /\ rest[g[k]] = q[f[k + 1]]
  <2>1. k + 1 \in 1..l /\ 1 < k + 1
    BY <1>2
  <2>2. f[k + 1] \in 1..n /\ f[1] < f[k + 1]
    BY <1>3, <1>6, <2>1 DEF Matching, InOrder, l
  <2>3. g[k] = f[k + 1] - 1 /\ g[k] \in 1..(n - 1) /\ g[k] + 1 = f[k + 1]
    BY <1>1, <1>7, <2>2
  <2> QED
    BY <1>1, <2>1, <2>2, <2>3
<1>10. g \in [1..Len(reqs2) -> 1..Len(rest)]
  BY <1>1, <1>6, <1>9
<1> HIDE DEF g
<1>11. InOrder(g, Len(reqs2))
  <2> SUFFICES ASSUME NEW j \in 1..(l - 1), NEW k \in 1..(l - 1), j < k PROVE g[j] < g[k]
    BY <1>6 DEF InOrder
  <2>1. j + 1 \in 1..l /\ k + 1 \in 1..l /\ j + 1 < k + 1
    BY <1>2
  <2>2. f[j + 1] < f[k + 1]
    BY <1>3, <2>1 DEF Matching, InOrder, l
  <2> QED
    BY <1>1, <1>9, <2>2
<1>12. ASSUME NEW k \in 1..Len(reqs2) PROVE rest[g[k]].session = s /\ rest[g[k]].req = reqs2[k]
  <2>1. k \in 1..(l - 1) /\ k + 1 \in 1..l /\ rest[g[k]] = q[f[k + 1]] /\ reqs2[k] = reqs[k + 1]
    BY <1>6, <1>9
  <2>2. q[f[k + 1]].session = s /\ q[f[k + 1]].req = reqs[k + 1]
    BY <1>3, <2>1 DEF Matching, l
  <2> QED
    BY <2>1, <2>2
<1>13. ASSUME NEW p \in 1..Len(rest), rest[p].session = s PROVE \E k \in 1..Len(reqs2) : g[k] = p
  <2>1. p + 1 \in 1..n /\ q[p + 1].session = s /\ p + 1 # 1
    BY <1>1, <1>13
  <2>2. PICK k \in 1..l : f[k] = p + 1
    BY <1>3, <2>1 DEF Matching, n, l
  <2>3. k # 1
    BY <1>7, <2>1, <2>2
  <2>4. k - 1 \in 1..(l - 1) /\ (k - 1) + 1 = k
    BY <1>2, <2>3
  <2>5. g[k - 1] = p
    BY <1>1, <1>9, <2>2, <2>4
  <2> QED
    BY <1>6, <2>4, <2>5
<1>14. Matching(g, rest, reqs2, s)
  BY <1>11, <1>12, <1>13 DEF Matching
<1> QED
  BY <1>5, <1>8, <1>10, <1>14 DEF Matched, rest, reqs2

-----------------------------------------------------------------------------
(***************************************************************************)
(* An orderly client has one request for its sessions at a time: one       *)
(* message at most is for a session in its dictionary.                     *)
(***************************************************************************)
NoDictMsg(q, dict) == \A k \in 1..Len(q) : ~HasSession(dict, q[k].session)

OneAtATime(q, dict, reqs) ==
  \A k \in 1..Len(q) : HasSession(dict, q[k].session) =>
    /\ reqs = <<q[k].req>>
    /\ \A j \in 1..Len(q) : j # k => ~HasSession(dict, q[j].session)

LEMMA OneFewer ==
  ASSUME NEW q, NEW dict, NEW dict2, NEW reqs, \A s : HasSession(dict2, s) => HasSession(dict, s)
  PROVE  /\ NoDictMsg(q, dict) => NoDictMsg(q, dict2)
         /\ OneAtATime(q, dict, reqs) => OneAtATime(q, dict2, reqs)
BY DEF NoDictMsg, OneAtATime

LEMMA OneEmpty ==
  ASSUME NEW q, NEW dict, NEW reqs
  PROVE  /\ NoDictMsg(q, dict) => OneAtATime(q, dict, reqs)
         /\ OneAtATime(q, dict, <<>>) => NoDictMsg(q, dict)
<1>1. \A r : <<>> # <<r>>
  OBVIOUS
<1> QED
  BY <1>1 DEF NoDictMsg, OneAtATime

LEMMA OnePost ==
  ASSUME NEW q \in Seq(Msg), NEW m \in Msg, NEW dict, NEW reqs
  PROVE  /\ NoDictMsg(q, dict) /\ ~HasSession(dict, m.session) => NoDictMsg(Append(q, m), dict)
         /\ OneAtATime(q, dict, reqs) /\ ~HasSession(dict, m.session) => OneAtATime(Append(q, m), dict, reqs)
         /\ NoDictMsg(q, dict) /\ reqs = <<m.req>> => OneAtATime(Append(q, m), dict, reqs)
<1> DEFINE new == Append(q, m)
           n == Len(q)
<1>1. n \in Nat /\ Len(new) = n + 1 /\ new[n + 1] = m /\ \A k \in 1..n : new[k] = q[k]
  BY Appended
<1> HIDE DEF new, n
<1>2. \A k \in 1..Len(new) : k \in 1..n \/ k = n + 1
  BY <1>1
<1>3. ASSUME NoDictMsg(q, dict), ~HasSession(dict, m.session) PROVE NoDictMsg(new, dict)
  BY <1>1, <1>2, <1>3 DEF NoDictMsg, n
<1>4. ASSUME OneAtATime(q, dict, reqs), ~HasSession(dict, m.session) PROVE OneAtATime(new, dict, reqs)
  BY <1>1, <1>2, <1>4 DEF OneAtATime, n
<1>5. ASSUME NoDictMsg(q, dict), reqs = <<m.req>> PROVE OneAtATime(new, dict, reqs)
  BY <1>1, <1>2, <1>5 DEF OneAtATime, NoDictMsg, n
<1> QED
  BY <1>3, <1>4, <1>5 DEF new

LEMMA OneTake ==
  ASSUME NEW q \in Seq(Msg), q # <<>>, NEW dict, NEW reqs, OneAtATime(q, dict, reqs)
  PROVE  /\ OneAtATime(Tail(q), dict, reqs)
         /\ HasSession(dict, Head(q).session) => reqs = <<Head(q).req>> /\ NoDictMsg(Tail(q), dict)
<1> DEFINE rest == Tail(q)
           n == Len(q)
<1>1. /\ n \in Nat /\ Head(q) = q[1] /\ 1 \in 1..n /\ Len(rest) = n - 1
      /\ \A k \in 1..(n - 1) : rest[k] = q[k + 1]
  BY HeadTail
<1> HIDE DEF rest, n
<1>2. \A k \in 1..Len(rest) : rest[k] = q[k + 1] /\ k + 1 \in 1..n /\ k + 1 # 1
  BY <1>1
<1>3. \A j, k \in 1..Len(rest) : j # k => j + 1 # k + 1
  BY <1>1
<1>4. OneAtATime(rest, dict, reqs)
  BY <1>2, <1>3 DEF OneAtATime, n
<1>5. ASSUME HasSession(dict, Head(q).session) PROVE reqs = <<Head(q).req>> /\ NoDictMsg(rest, dict)
  BY <1>1, <1>2, <1>5 DEF OneAtATime, NoDictMsg, n
<1> QED
  BY <1>4, <1>5 DEF rest

-----------------------------------------------------------------------------
(***************************************************************************)
(* The inductive invariant.  A response finds its request by position, so  *)
(* what is told of the right one is that requests and messages stay in     *)
(* step: for tracking always (Synced); for sessions, which share a queue,  *)
(* as long as the client is orderly, because then there is one request at  *)
(* most (OneRequest).                                                      *)
(***************************************************************************)
\* No id is in use for a session and for a notification.
TracesApart == \A n \in NiIds : ~(Used(n) /\ NiUses(n))

\* The session tracked with is in no entity.
TrackingApart ==
  tracking.session # NoSession =>
    \A id \in Ids : mSessionBiDict[id] # NULL =>
      tracking.session \notin {mSessionBiDict[id].trackingSession, mSessionBiDict[id].batchingSession}

\* Unless the session is over: then no message for it is answered.
Synced ==
  tracking.session \in running \/ Coming(msgs, tracking.session)
    => Matched(msgs, tracking.reqs, tracking.session)

\* The response being delivered has its request; after a stop that succeeded
\* the session does not run and will not be started.
Answering ==
  handling # NULL =>
    /\ handling.req = handling.want \/ (handling.queue = "session" /\ ~orderly)
    /\ handling.ok /\ handling.want \in Stops =>
         handling.session \notin running /\ ~Coming(msgs, handling.session)

\* No two ids have one session, none has session 0.
Distinct(dict) ==
  \A id \in Ids : dict[id] # NULL =>
    /\ dict[id].session # NoSession
    /\ \A j \in Ids : j # id /\ dict[j] # NULL => dict[j].session # dict[id].session

\* At most one message for a session of the dictionary, with the one request
\* that waits.
OneRequest ==
  orderly =>
    /\ Len(sessions.reqs) <= 1 /\ Distinct(mSessionBiDict)
    /\ OneAtATime(msgs, mSessionBiDict, sessions.reqs)

\* A session that runs, or will, can be stopped or will be.
Stoppable ==
  orderly =>
    \A s \in SessionIds :
      s \in running \ stuck \/ Coming(msgs, s) => Known(s) \/ StopComing(msgs, s)

ClientInv ==
  /\ ClientTypes /\ StartsFirst(msgs, running) /\ TrackingApart /\ Synced /\ Answering
  /\ OneRequest /\ Stoppable

LEMMA ClientInit == Init => ClientInv
<1> SUFFICES ASSUME Init PROVE ClientInv
  OBVIOUS
<1>1. ClientTypes
  BY TypesInit
<1>2. /\ msgs = <<>> /\ Len(msgs) = 0 /\ running = {} /\ handling = NULL
      /\ mSessionBiDict = [id \in Ids |-> NULL]
      /\ tracking.session = NoSession /\ sessions.reqs = <<>>
  BY DEF Init, Reset
<1>3. \A s : ~Coming(msgs, s)
  BY <1>2 DEF Coming
<1>4. StartsFirst(msgs, running) /\ TrackingApart /\ Synced /\ Answering /\ Stoppable
  BY <1>2, <1>3 DEF StartsFirst, TrackingApart, Synced, Answering, Stoppable
<1>5. OneRequest
  BY <1>2 DEF OneRequest, Distinct, OneAtATime
<1> QED
  BY <1>1, <1>4, <1>5 DEF ClientInv

\* A new session leaves no trace anywhere, of a session or a notification.
Unused(s) == NewSession(s) /\ ~NiUses(s)

LEMMA NewIs ==
  ASSUME ClientTypes, NEW s, Unused(s)
  PROVE  /\ s \in SessionIds /\ s # NoSession /\ s \notin running /\ s # tracking.session
         /\ NotFor(msgs, s) /\ ~Coming(msgs, s)
         /\ handling # NULL /\ handling.want # "niResponse" => handling.session # s
         /\ \A id \in Ids : mSessionBiDict[id] # NULL =>
              s \notin {mSessionBiDict[id].trackingSession, mSessionBiDict[id].batchingSession}
         /\ ~HasSession(mSessionBiDict, s)
<1>1. s \in SessionIds /\ s # NoSession /\ ~Used(s) /\ ~NiUses(s) /\ msgs \in Seq(Msg)
  BY ClientAssumption DEF Unused, NewSession, ClientTypes, Types
<1>2. DOMAIN msgs = 1..Len(msgs)
  BY <1>1
<1>3. NotFor(msgs, s) /\ ~Coming(msgs, s)
  BY <1>1, <1>2 DEF Used, NiUses, NotFor, Coming, IsStart
<1>4. \A id \in Ids : mSessionBiDict[id] # NULL =>
              s \notin {mSessionBiDict[id].trackingSession, mSessionBiDict[id].batchingSession}
  BY <1>1 DEF Used
<1>5. ASSUME NEW id \in Ids, mSessionBiDict[id] # NULL PROVE mSessionBiDict[id].session # s
  <2>1. mSessionBiDict[id] \in Entity
    BY <1>5 DEF ClientTypes, Types
  <2> QED
    BY <1>4, <1>5, <2>1, EntityFields
<1> QED
  BY <1>1, <1>3, <1>4, <1>5 DEF Used, HasSession

\* Sessions of the dictionary are sessions, and not the one tracked with.
LEMMA DictSessions ==
  ASSUME ClientTypes, TrackingApart
  PROVE  /\ \A s : HasSession(mSessionBiDict, s) => s \in SomeSession
         /\ tracking.session # NoSession => ~HasSession(mSessionBiDict, tracking.session)
<1>1. \A id \in Ids : mSessionBiDict[id] # NULL => mSessionBiDict[id] \in Entity
  BY DEF ClientTypes, Types
<1> QED
  BY <1>1, EntityFields DEF HasSession, TrackingApart

\* A call posts a message.
LEMMA PostSafe ==
  ASSUME ClientInv, NEW m \in Msg, msgs' = Append(msgs, m),
         UNCHANGED <<running, handling>>, orderly' => orderly,
         m.cmd = "start" => Unused(m.session)
  PROVE  StartsFirst(msgs', running') /\ Answering'
<1>1. msgs \in Seq(Msg) /\ ClientTypes /\ StartsFirst(msgs, running)
  BY DEF ClientInv, ClientTypes, Types
<1>2. m.cmd = "start" => /\ m.session \notin running /\ NotFor(msgs, m.session)
                         /\ handling # NULL /\ handling.want # "niResponse" => handling.session # m.session
  BY <1>1, NewIs
<1>3. StartsFirst(msgs', running)
  BY <1>1, <1>2, PostStarts
<1>4. Coming(msgs', handling.session) <=> Coming(msgs, handling.session) \/ IsStart(m, handling.session)
  BY <1>1, PostComing
<1>5. Answering'
  BY <1>2, <1>4 DEF ClientInv, Answering, IsStart, Stops
<1> QED
  BY <1>3, <1>5

LEMMA NoneRuns ==
  ASSUME ClientTypes
  PROVE  NoSession \notin running /\ ~Coming(msgs, NoSession)
BY ClientAssumption DEF ClientTypes, Types, MsgsOK, MsgOK, Coming, IsStart

\* A message that is not for the session the client tracks with.
LEMMA OtherSynced ==
  ASSUME ClientInv, NEW m \in Msg, msgs' = Append(msgs, m), UNCHANGED <<tracking, running>>,
         m.cmd = "start" => m.session \in SessionIds,
         m.session # tracking.session \/ tracking.session = NoSession
  PROVE  Synced'
<1>1. msgs \in Seq(Msg) /\ tracking.reqs \in Seq(Requests)
  BY QueueOps DEF ClientInv, ClientTypes, Types
<1>2. Coming(msgs', tracking.session) <=> Coming(msgs, tracking.session) \/ IsStart(m, tracking.session)
  BY <1>1, PostComing
<1>3. CASE tracking.session = NoSession
  <2>1. tracking.session \notin running /\ ~Coming(msgs', tracking.session)
    BY <1>2, <1>3, NoneRuns, ClientAssumption DEF ClientInv, IsStart
  <2> QED
    BY <2>1 DEF Synced
<1>4. CASE m.session # tracking.session
  <2>1. Coming(msgs', tracking.session) <=> Coming(msgs, tracking.session)
    BY <1>2, <1>4 DEF IsStart
  <2>2. Matched(msgs, tracking.reqs, tracking.session) => Matched(msgs', tracking.reqs, tracking.session)
    BY <1>1, <1>4, MatchedOther
  <2> QED
    BY <2>1, <2>2 DEF ClientInv, Synced
<1> QED
  BY <1>3, <1>4

LEMMA StartTrackingSafe ==
  ASSUME ClientInv, ClientTypes', apart', NEW s \in SessionIds, StartTracking(s)
  PROVE  ClientInv'
<1> DEFINE m == Message("start", s, "startTracking")
<1>1. m \in Msg /\ m.cmd = "start" /\ m.session = s /\ m.req = "startTracking" /\ m.req \in Requests
  BY MessageMade DEF Requests
<1>2. /\ ~mTracking /\ Unused(s) /\ msgs' = Append(msgs, m)
      /\ tracking' = Push(Reset(s), "startTracking") /\ mTracking'
      /\ UNCHANGED <<sessions, niResponse, mSessionBiDict, running, stuck, handling, orderly>>
  BY DEF StartTracking, Post, BeginsSession, Unused
<1> HIDE DEF m
<1>3. /\ s \notin running /\ NotFor(msgs, s) /\ ~HasSession(mSessionBiDict, s)
      /\ \A id \in Ids : mSessionBiDict[id] # NULL =>
           s \notin {mSessionBiDict[id].trackingSession, mSessionBiDict[id].batchingSession}
  BY <1>2, NewIs DEF ClientInv
<1>4. tracking'.session = s /\ tracking'.reqs = Append(<<>>, m.req)
  <2>1. Reset(s) \in Queue /\ Reset(s).session = s /\ Reset(s).reqs = <<>>
    BY QueueMade
  <2> QED
    BY <1>1, <1>2, <2>1, QueueOps
<1>5. StartsFirst(msgs', running') /\ Answering'
  BY <1>1, <1>2, PostSafe
<1>6. TrackingApart'
  BY <1>2, <1>3, <1>4 DEF TrackingApart
<1>7. msgs \in Seq(Msg) /\ <<>> \in Seq(Requests)
  BY DEF ClientInv, ClientTypes, Types
<1>8. Synced'
  <2>1. Matched(msgs, <<>>, s)
    BY <1>3, <1>7, MatchedNone
  <2>2. Matched(msgs', Append(<<>>, m.req), s)
    BY <1>1, <1>2, <1>7, <2>1, MatchedPost
  <2> QED
    BY <1>4, <2>2 DEF Synced
<1>9. OneRequest'
  BY <1>1, <1>2, <1>3, <1>7, OnePost DEF ClientInv, OneRequest
<1>10. Stoppable'
  <2> SUFFICES ASSUME orderly, NEW t \in SessionIds, t \in running \ stuck \/ Coming(msgs', t)
               PROVE  Known(t)' \/ StopComing(msgs', t)
    BY <1>2 DEF Stoppable
  <2>1. CASE t = s
    BY <1>2, <1>4, <2>1 DEF Known
  <2>2. CASE t # s
    <3>1. Coming(msgs', t) => Coming(msgs, t)
      BY <1>1, <1>2, <1>7, <2>2, PostComing DEF IsStart
    <3>2. Known(t) \/ StopComing(msgs, t)
      BY <3>1 DEF ClientInv, Stoppable
    <3>3. StopComing(msgs, t) => StopComing(msgs', t)
      BY <1>1, <1>2, <1>7, <2>2, PostComing DEF IsStart
    <3>4. Known(t) => Known(t)'
      BY <1>2 DEF Known
    <3> QED
      BY <3>2, <3>3, <3>4
  <2> QED
    BY <2>1, <2>2
<1> QED
  BY <1>5, <1>6, <1>8, <1>9, <1>10 DEF ClientInv

\* stopTracking(), updateTrackingOptions(): the message and the request are
\* for the session the client tracks with.
LEMMA OfTrackingSafe ==
  ASSUME ClientInv, ClientTypes', StopTracking \/ UpdateTrackingOptions
  PROVE  ClientInv'
<1> DEFINE t == tracking.session
<1>1. PICK cmd \in {"stop", "update"}, r \in {"stopTracking", "updateTracking"} :
        /\ t # NoSession /\ Post(Message(cmd, t, r)) /\ tracking' = Push(tracking, r)
        /\ cmd = "stop" \/ UNCHANGED mTracking
        /\ UNCHANGED <<sessions, niResponse, mSessionBiDict, running, stuck, handling, orderly>>
  BY DEF StopTracking, UpdateTrackingOptions
<1>2. /\ msgs \in Seq(Msg) /\ tracking \in Queue /\ t \in SessionIds /\ r \in Requests
      /\ tracking.reqs \in Seq(Requests)
  BY <1>1, QueueOps DEF ClientInv, ClientTypes, Types, QueuesOK, SomeSession, Requests
<1> DEFINE m == Message(cmd, t, r)
<1>3. m \in Msg /\ m.cmd = cmd /\ m.session = t /\ m.req = r
  BY <1>2, MessageMade
<1>4. /\ msgs' = Append(msgs, m) /\ tracking'.session = t /\ tracking'.reqs = Append(tracking.reqs, m.req)
  BY <1>1, <1>2, <1>3, QueueOps DEF Post
<1> HIDE DEF m
<1>5. \A s : ~IsStart(m, s)
  BY <1>1, <1>3 DEF IsStart
<1>6. \A s : Coming(msgs', s) <=> Coming(msgs, s)
  BY <1>2, <1>3, <1>4, <1>5, PostComing
<1>7. StartsFirst(msgs', running') /\ Answering'
  BY <1>1, <1>3, <1>4, PostSafe
<1>8. TrackingApart'
  BY <1>1, <1>4 DEF ClientInv, TrackingApart
<1>9. Synced'
  <2>1. Matched(msgs, tracking.reqs, t) => Matched(msgs', tracking'.reqs, t)
    BY <1>2, <1>3, <1>4, MatchedPost
  <2>2. Coming(msgs', t) <=> Coming(msgs, t)
    BY <1>6
  <2> QED
    BY <1>1, <1>4, <2>1, <2>2 DEF ClientInv, Synced
<1>10. OneRequest'
  <2>1. ~HasSession(mSessionBiDict, m.session)
    BY <1>1, <1>3, DictSessions DEF ClientInv
  <2> QED
    BY <1>1, <1>2, <1>3, <1>4, <2>1, OnePost DEF ClientInv, OneRequest
<1>11. Stoppable'
  <2> SUFFICES ASSUME orderly, NEW s \in SessionIds, s \in running \ stuck \/ Coming(msgs', s)
               PROVE  Known(s)' \/ StopComing(msgs', s)
    BY <1>1 DEF Stoppable
  <2>1. Known(s) \/ StopComing(msgs, s)
    BY <1>6 DEF ClientInv, Stoppable
  <2>2. StopComing(msgs, s) => StopComing(msgs', s)
    BY <1>2, <1>3, <1>4, <1>5, PostComing
  <2>3. ASSUME s = t, cmd = "stop" PROVE StopComing(msgs', s)
    <3>1. IsStop(m, s)
      BY <1>3, <2>3 DEF IsStop
    <3> QED
      BY <1>2, <1>3, <1>4, <3>1, PostComing
  <2>4. ASSUME Known(s), ~(s = t /\ cmd = "stop") PROVE Known(s)'
    BY <1>1, <1>4, <2>4 DEF Known
  <2> QED
    BY <2>1, <2>2, <2>3, <2>4
<1> QED
  BY <1>7, <1>8, <1>9, <1>10, <1>11 DEF ClientInv

\* An id with no trace of a session is in no entity.
LEMMA UnusedSession ==
  ASSUME ClientTypes, NEW n, ~Used(n)
  PROVE  ~HasSession(mSessionBiDict, n)
<1>1. \A id \in Ids : mSessionBiDict[id] # NULL => mSessionBiDict[id] \in Entity
  BY DEF ClientTypes, Types
<1> QED
  BY <1>1, EntityFields DEF HasSession, Used

LEMMA NiSafe ==
  ASSUME ClientInv, ClientTypes', apart', NEW n \in NiIds, GnssNiResponse(n)
  PROVE  ClientInv'
<1> DEFINE m == Message("ni", n, "niResponse")
<1>1. m \in Msg /\ m.cmd = "ni" /\ m.session = n
  BY MessageMade DEF Requests
<1>2. msgs' = Append(msgs, m)
      /\ UNCHANGED <<mTracking, tracking, sessions, mSessionBiDict, running, stuck, handling, orderly>>
  BY DEF GnssNiResponse, Post
<1> HIDE DEF m
<1>3. n # tracking.session /\ ~HasSession(mSessionBiDict, n) /\ msgs \in Seq(Msg)
  BY UnusedSession DEF GnssNiResponse, BeginsNi, Used, ClientInv, ClientTypes, Types
<1>4. StartsFirst(msgs', running') /\ Answering'
  BY <1>1, <1>2, PostSafe
<1>5. Synced'
  BY <1>1, <1>2, <1>3, OtherSynced
<1>6. TrackingApart'
  BY <1>2 DEF ClientInv, TrackingApart
<1>7. OneRequest'
  BY <1>1, <1>2, <1>3, OnePost DEF ClientInv, OneRequest
<1>8. Stoppable'
  <2> SUFFICES ASSUME orderly, NEW s \in SessionIds, s \in running \ stuck \/ Coming(msgs', s)
               PROVE  Known(s)' \/ StopComing(msgs', s)
    BY <1>2 DEF Stoppable
  <2>1. ~IsStart(m, s)
    BY <1>1 DEF IsStart
  <2>2. (Coming(msgs', s) <=> Coming(msgs, s)) /\ (StopComing(msgs, s) => StopComing(msgs', s))
    BY <1>1, <1>2, <1>3, <2>1, PostComing
  <2>3. Known(s)' <=> Known(s)
    BY <1>2 DEF Known
  <2> QED
    BY <2>2, <2>3 DEF ClientInv, Stoppable
<1> QED
  BY <1>4, <1>5, <1>6, <1>7, <1>8 DEF ClientInv

-----------------------------------------------------------------------------
(***************************************************************************)
(* Session calls.                                                          *)
(***************************************************************************)
\* A session call that posts one message; one of an orderly client comes
\* when no request waits, and adds the session it starts to the dictionary.
LEMMA SessionSafe ==
  ASSUME ClientInv, ClientTypes', NEW m \in Msg, msgs' = Append(msgs, m),
         UNCHANGED <<mTracking, tracking, running, stuck, handling>>,
         m.cmd = "start" => Unused(m.session),
         m.session # tracking.session \/ tracking.session = NoSession,
         TrackingApart', orderly' => orderly,
         orderly' => /\ sessions.reqs = <<>> /\ sessions'.reqs = <<m.req>>
                     /\ Distinct(mSessionBiDict')
                     /\ \A s : HasSession(mSessionBiDict', s)
                               <=> HasSession(mSessionBiDict, s) \/ IsStart(m, s)
  PROVE  ClientInv'
<1>1. msgs \in Seq(Msg) /\ ClientTypes
  BY DEF ClientInv, ClientTypes, Types
<1>2. StartsFirst(msgs', running') /\ Answering'
  BY PostSafe
<1>3. m.cmd = "start" => m.session \in SessionIds /\ NotFor(msgs, m.session)
  BY <1>1, NewIs
<1>4. Synced'
  BY <1>3, OtherSynced
<1>5. OneRequest'
  <2> SUFFICES ASSUME orderly'
               PROVE  /\ Len(sessions'.reqs) <= 1 /\ Distinct(mSessionBiDict')
                      /\ OneAtATime(msgs', mSessionBiDict', sessions'.reqs)
    BY DEF OneRequest
  <2>1. NoDictMsg(msgs, mSessionBiDict)
    <3>1. OneAtATime(msgs, mSessionBiDict, <<>>)
      BY DEF ClientInv, OneRequest
    <3> QED
      BY <3>1, OneEmpty
  <2>2. NoDictMsg(msgs, mSessionBiDict')
    BY <1>3, <2>1 DEF NoDictMsg, NotFor, IsStart
  <2>3. OneAtATime(msgs', mSessionBiDict', sessions'.reqs)
    BY <1>1, <2>2, OnePost
  <2>4. Len(<<m.req>>) <= 1
    OBVIOUS
  <2> QED
    BY <2>3, <2>4
<1>6. Stoppable'
  <2> SUFFICES ASSUME orderly', NEW s \in SessionIds, s \in running \ stuck \/ Coming(msgs', s)
               PROVE  Known(s)' \/ StopComing(msgs', s)
    BY DEF Stoppable
  <2>1. CASE IsStart(m, s)
    BY <2>1 DEF Known
  <2>2. CASE ~IsStart(m, s)
    <3>1. (Coming(msgs', s) <=> Coming(msgs, s)) /\ (StopComing(msgs, s) => StopComing(msgs', s))
      BY <1>1, <2>2, PostComing
    <3>2. Known(s) => Known(s)'
      BY DEF Known
    <3> QED
      BY <3>1, <3>2 DEF ClientInv, Stoppable
  <2> QED
    BY <2>1, <2>2
<1> QED
  BY <1>2, <1>4, <1>5, <1>6 DEF ClientInv

\* A call of a client that is not orderly, with no message.
LEMMA NoMessageSafe ==
  ASSUME ClientInv, ClientTypes', UNCHANGED <<mTracking, tracking, msgs, running, stuck, handling>>,
         TrackingApart', ~orderly'
  PROVE  ClientInv'
BY DEF ClientInv, Synced, Answering, OneRequest, Stoppable

\* The dictionary after a session took an id.
LEMMA NewEntitySafe ==
  ASSUME ClientInv, NEW id \in Ids, NEW mode \in {"ON_FIX", "ON_FULL"}, NEW s, Unused(s),
         mSessionBiDict' = [mSessionBiDict EXCEPT ![id] = NewEntity(mode, s)], UNCHANGED tracking
  PROVE  /\ TrackingApart'
         /\ Distinct(mSessionBiDict) => Distinct(mSessionBiDict')
         /\ mSessionBiDict'[id] # NULL /\ mSessionBiDict'[id].session = s
         /\ \A i \in Ids \ {id} : mSessionBiDict'[i] = mSessionBiDict[i]
<1>1. /\ s \in SessionIds /\ s # NoSession /\ s # tracking.session
      /\ ~HasSession(mSessionBiDict, s)
  BY NewIs DEF ClientInv
<1>2. /\ NewEntity(mode, s) \in Entity /\ NewEntity(mode, s).session = s
      /\ NewEntity(mode, s).trackingSession \in {s, NoSession}
      /\ NewEntity(mode, s).batchingSession \in {s, NoSession}
  BY <1>1, EntityMade DEF NewEntity
<1>3. /\ mSessionBiDict'[id] = NewEntity(mode, s) /\ mSessionBiDict'[id] # NULL
      /\ \A i \in Ids \ {id} : mSessionBiDict'[i] = mSessionBiDict[i]
  BY <1>2, EntityFields DEF ClientInv, ClientTypes, Types
<1>4. TrackingApart'
  BY <1>1, <1>2, <1>3 DEF ClientInv, TrackingApart
<1>5. ASSUME Distinct(mSessionBiDict) PROVE Distinct(mSessionBiDict')
  <2>1. \A i \in Ids \ {id} : mSessionBiDict[i] # NULL => mSessionBiDict[i].session # s
    BY <1>1 DEF HasSession
  <2> QED
    BY <1>1, <1>2, <1>3, <1>5, <2>1 DEF Distinct
<1> QED
  BY <1>2, <1>3, <1>4, <1>5

LEMMA StartSessionSafe ==
  ASSUME ClientInv, ClientTypes', apart', NEW id \in Ids, NEW mode \in SessionModes, NEW s \in SessionIds,
         StartSession(id, mode, s)
  PROVE  ClientInv'
<1>1. /\ mSessionBiDict[id] = NULL /\ Unused(s) /\ mode \in {"NONE", "ON_FULL", "ON_FIX"}
      /\ mSessionBiDict' = [mSessionBiDict EXCEPT ![id] = NewEntity(mode, s)]
      /\ UNCHANGED <<mTracking, tracking, running, stuck, handling>>
      /\ orderly' = (orderly /\ (mode # "NONE") /\ sessions.reqs = <<>> /\ handling = NULL)
      /\ sessions \in Queue
  BY ClientAssumption DEF StartSession, SessionCall, ClientInv, ClientTypes, Types, BeginsSession, Unused
<1>2. CASE mode = "NONE"
  <2>1. NewEntity(mode, s) = ZeroEntity
    BY <1>2 DEF NewEntity
  <2>2. TrackingApart'
    BY <1>1, <2>1 DEF ClientInv, ClientTypes, Types, TrackingApart, ZeroEntity
  <2>3. UNCHANGED msgs
    BY <1>2 DEF StartSession
  <2> QED
    BY <1>1, <1>2, <2>2, <2>3, NoMessageSafe
<1>3. CASE mode # "NONE"
  <2> DEFINE r == Kind("start", mode)
             m == Message("start", s, r)
  <2>1. mode \in {"ON_FIX", "ON_FULL"} /\ r \in Requests
    BY <1>1, <1>3, KindMade
  <2>2. msgs' = Append(msgs, m) /\ sessions' = Push(AfterStart(mode, s), r)
    BY <1>3 DEF StartSession, Post
  <2>3. m \in Msg /\ m.cmd = "start" /\ m.session = s /\ m.req = r
    BY <2>1, MessageMade
  <2> HIDE DEF m, r
  <2>4. s # tracking.session
    BY <1>1, NewIs DEF ClientInv
  <2>5. /\ TrackingApart' /\ (Distinct(mSessionBiDict) => Distinct(mSessionBiDict'))
        /\ mSessionBiDict'[id] # NULL /\ mSessionBiDict'[id].session = s
        /\ \A i \in Ids \ {id} : mSessionBiDict'[i] = mSessionBiDict[i]
    BY <1>1, <2>1, NewEntitySafe
  <2>6. \A t : HasSession(mSessionBiDict', t) <=> HasSession(mSessionBiDict, t) \/ IsStart(m, t)
    BY <1>1, <2>3, <2>5 DEF HasSession, IsStart
  <2>7. sessions.reqs = <<>> => sessions'.reqs = <<m.req>>
    <3>1. AfterStart(mode, s) \in Queue /\ AfterStart(mode, s).reqs = sessions.reqs
      BY <1>1, QueueOps DEF AfterStart
    <3>2. sessions'.reqs = Append(sessions.reqs, r)
      BY <2>1, <2>2, <3>1, QueueOps
    <3> QED
      BY <2>3, <3>2
  <2>8. orderly' => orderly /\ sessions.reqs = <<>> /\ Distinct(mSessionBiDict)
    BY <1>1 DEF ClientInv, OneRequest
  <2> QED
    BY <1>1, <2>2, <2>3, <2>4, <2>5, <2>6, <2>7, <2>8, SessionSafe
<1> QED
  BY <1>2, <1>3

LEMMA InPlaceSafe ==
  ASSUME ClientInv, ClientTypes', NEW id \in Ids,
         StopSession(id) \/ \E mode \in SessionModes : UpdateInPlace(id, mode)
  PROVE  ClientInv'
<1>1. PICK call \in {"stop", "update"} :
        /\ SessionCall(TRUE) /\ mSessionBiDict[id] # NULL /\ GetExtById(id).sessionMode # "NONE"
        /\ Post(Message(call, GetExtById(id).session, Kind(call, GetExtById(id).sessionMode)))
        /\ sessions' = Push(sessions, Kind(call, GetExtById(id).sessionMode))
        /\ UNCHANGED <<mTracking, tracking, niResponse, mSessionBiDict, running, stuck, handling>>
  BY DEF StopSession, UpdateInPlace
<1> DEFINE e == GetExtById(id)
           r == Kind(call, e.sessionMode)
           m == Message(call, e.session, r)
<1>2. e = mSessionBiDict[id] /\ e.session \in SessionIds /\ e.sessionMode \in {"ON_FIX", "ON_FULL"}
  BY <1>1, EntityFound, EntityFields DEF ClientInv, ClientTypes
<1>3. r \in Requests
  BY <1>2, KindMade
<1>4. m \in Msg /\ m.cmd = call /\ m.session = e.session /\ m.req = r
  BY <1>2, <1>3, MessageMade
<1>5. msgs' = Append(msgs, m) /\ sessions' = Push(sessions, r) /\ sessions \in Queue
  BY <1>1 DEF Post, ClientInv, ClientTypes, Types
<1> HIDE DEF m, r, e
<1>6. HasSession(mSessionBiDict, m.session)
  BY <1>1, <1>2, <1>4 DEF HasSession
<1>7. m.session # tracking.session \/ tracking.session = NoSession
  BY <1>6, DictSessions DEF ClientInv
<1>8. TrackingApart' /\ \A s : ~IsStart(m, s)
  BY <1>1, <1>4 DEF ClientInv, TrackingApart, IsStart
<1>9. orderly' => orderly /\ sessions.reqs = <<>> /\ Distinct(mSessionBiDict)
  BY <1>1 DEF SessionCall, ClientInv, OneRequest
<1>10. sessions.reqs = <<>> => sessions'.reqs = <<m.req>>
  BY <1>3, <1>4, <1>5, QueueOps
<1> QED
  BY <1>1, <1>4, <1>5, <1>7, <1>8, <1>9, <1>10, SessionSafe

LEMMA GetBatchedSafe ==
  ASSUME ClientInv, ClientTypes', NEW id \in Ids, GetBatchedLocations(id)
  PROVE  ClientInv'
<1> DEFINE e == IF mSessionBiDict[id] = NULL THEN ZeroEntity ELSE GetExtById(id)
           m == Message("get", e.batchingSession, "getBatched")
<1>1. /\ SessionCall(mSessionBiDict[id] # NULL)
      /\ Post(m) /\ sessions' = Push(sessions, "getBatched")
      /\ mSessionBiDict' = [mSessionBiDict EXCEPT ![id] = IF @ = NULL THEN ZeroEntity ELSE @]
      /\ UNCHANGED <<mTracking, tracking, niResponse, running, stuck, handling>>
  BY DEF GetBatchedLocations
<1>2. /\ e \in Entity /\ (e = ZeroEntity \/ (mSessionBiDict[id] # NULL /\ e = mSessionBiDict[id]))
      /\ ZeroEntity.batchingSession = NoSession
      /\ mSessionBiDict \in [Ids -> Entity \cup {NULL}] /\ sessions \in Queue
  BY EntityFound, EntityMade DEF ClientInv, ClientTypes, Types, ZeroEntity
<1>3. e.batchingSession # tracking.session \/ tracking.session = NoSession
  BY <1>2 DEF ClientInv, TrackingApart
<1>4. e.batchingSession \in SomeSession
  BY <1>2, EntityFields
<1> HIDE DEF e
<1>5. m \in Msg /\ m.cmd = "get" /\ m.session = e.batchingSession /\ m.req = "getBatched"
  BY <1>4, MessageMade DEF SomeSession, Requests
<1> HIDE DEF m
<1>6. \A i \in Ids : mSessionBiDict'[i] = mSessionBiDict[i]
                   \/ (mSessionBiDict[i] = NULL /\ mSessionBiDict'[i] = ZeroEntity)
  BY <1>1, <1>2
<1>7. TrackingApart'
  BY <1>1, <1>6 DEF ClientInv, TrackingApart, ZeroEntity
<1>8. orderly' => /\ orderly /\ sessions.reqs = <<>> /\ Distinct(mSessionBiDict)
                  /\ mSessionBiDict[id] # NULL
  BY <1>1 DEF SessionCall, ClientInv, OneRequest
<1>9. mSessionBiDict[id] # NULL => mSessionBiDict' = mSessionBiDict
  BY <1>1, <1>2
<1>10. \A s : ~IsStart(m, s)
  BY <1>5 DEF IsStart
<1>11. sessions.reqs = <<>> => sessions'.reqs = <<m.req>>
  BY <1>1, <1>2, <1>5, QueueOps DEF Requests
<1>12. msgs' = Append(msgs, m)
  BY <1>1 DEF Post
<1> QED
  BY <1>1, <1>3, <1>5, <1>7, <1>8, <1>9, <1>10, <1>11, <1>12, SessionSafe

LEMMA ModeNoneSafe ==
  ASSUME ClientInv, ClientTypes', NEW id \in Ids,
         UpdateToNone(id) \/ \E mode \in SessionModes : UpdateFromNone(id, mode)
  PROVE  ClientInv'
<1> DEFINE e == GetExtById(id)
<1>1. /\ mSessionBiDict[id] # NULL /\ ~orderly'
      /\ UNCHANGED <<mTracking, tracking, msgs, running, stuck, handling>>
      /\ \E mode, s : mSessionBiDict' =
           [mSessionBiDict EXCEPT ![id] = [e EXCEPT !.sessionMode = mode, !.session = s]]
  BY DEF UpdateToNone, UpdateFromNone, SessionCall
<1>2. /\ e \in Entity /\ (e = mSessionBiDict[id] \/ e = ZeroEntity)
      /\ mSessionBiDict \in [Ids -> Entity \cup {NULL}]
  BY <1>1, EntityFound DEF ClientInv, ClientTypes, Types
<1>3. /\ e.trackingSession \in {mSessionBiDict[id].trackingSession, NoSession}
      /\ e.batchingSession \in {mSessionBiDict[id].batchingSession, NoSession}
  BY <1>2 DEF ZeroEntity
<1> HIDE DEF e
<1>4. /\ mSessionBiDict'[id].trackingSession = e.trackingSession
      /\ mSessionBiDict'[id].batchingSession = e.batchingSession
      /\ \A i \in Ids \ {id} : mSessionBiDict'[i] = mSessionBiDict[i]
  BY <1>1, <1>2 DEF Entity
<1>5. TrackingApart'
  BY <1>1, <1>3, <1>4 DEF ClientInv, TrackingApart
<1> QED
  BY <1>1, <1>5, NoMessageSafe

\* The session that is given up is stopped, the one that takes its place
\* started.
LEMMA BySwitchSafe ==
  ASSUME ClientInv, ClientTypes', apart', NEW id \in Ids, NEW mode \in SessionModes, NEW s \in SessionIds,
         UpdateBySwitch(id, mode, s)
  PROVE  ClientInv'
<1> DEFINE e == GetExtById(id)
           r == Kind("update", mode)
           stop == Message("stop", e.session, "none")
           start == Message("start", s, r)
           q == Append(msgs, stop)
<1>1. /\ SessionCall(TRUE) /\ Unused(s) /\ mSessionBiDict[id] # NULL
      /\ {mode, e.sessionMode} = {"ON_FIX", "ON_FULL"}
      /\ msgs' = msgs \o <<stop, start>>
      /\ sessions' = IF mode = "ON_FULL" THEN Push([sessions EXCEPT !.session = s], r)
                     ELSE Push([sessions EXCEPT !.session = NoSession], r)
      /\ mSessionBiDict' = [mSessionBiDict EXCEPT ![id] = NewEntity(mode, s)]
      /\ UNCHANGED <<mTracking, tracking, running, stuck, handling>>
  BY DEF UpdateBySwitch, BeginsSession, Unused
<1>2. /\ e = mSessionBiDict[id] /\ e.session \in SessionIds
      /\ mode \in {"ON_FIX", "ON_FULL"} /\ r \in Requests
      /\ msgs \in Seq(Msg) /\ sessions \in Queue
  BY <1>1, EntityFound, KindMade DEF ClientInv, ClientTypes, Types
<1> HIDE DEF e, r
<1>3. /\ stop \in Msg /\ stop.cmd = "stop" /\ stop.session = e.session
      /\ start \in Msg /\ start.cmd = "start" /\ start.session = s /\ start.req = r
  BY <1>2, MessageMade
<1> HIDE DEF stop, start
<1>4. q \in Seq(Msg) /\ msgs' = Append(q, start)
  BY <1>1, <1>2, <1>3, Twice
<1>5. /\ s # tracking.session /\ s \notin running /\ NotFor(msgs, s) /\ ~HasSession(mSessionBiDict, s)
      /\ handling # NULL /\ handling.want # "niResponse" => handling.session # s
  BY <1>1, NewIs DEF ClientInv
<1>6. HasSession(mSessionBiDict, e.session) /\ e.session # s
  BY <1>1, <1>2, <1>5 DEF HasSession
<1>7. e.session # tracking.session
  BY <1>2, <1>6, DictSessions, ClientAssumption DEF ClientInv
<1>8. /\ TrackingApart' /\ (Distinct(mSessionBiDict) => Distinct(mSessionBiDict'))
      /\ mSessionBiDict'[id] # NULL /\ mSessionBiDict'[id].session = s
      /\ \A i \in Ids \ {id} : mSessionBiDict'[i] = mSessionBiDict[i]
  BY <1>1, <1>2, NewEntitySafe
<1> HIDE DEF q
<1>9. /\ NotFor(q, s) /\ Len(<<r>>) <= 1
      /\ \A t : t # s => (Coming(msgs', t) => Coming(msgs, t))
  <2>1. \A t : ~IsStart(stop, t)
    BY <1>3 DEF IsStart
  <2>2. \A t : t # s => ~IsStart(start, t)
    BY <1>3 DEF IsStart
  <2>3. ASSUME NEW t, t # s, Coming(msgs', t) PROVE Coming(msgs, t)
    <3>1. Coming(q, t)
      BY <1>3, <1>4, <2>2, <2>3, PostComing
    <3> QED
      BY <1>2, <1>3, <2>1, <3>1, PostComing DEF q
  <2>4. NotFor(q, s)
    BY <1>2, <1>3, <1>5, <1>6, PostComing DEF q
  <2>5. Len(<<r>>) <= 1
    OBVIOUS
  <2> QED
    BY <2>3, <2>4, <2>5
<1>10. \A t : t # s => /\ Coming(msgs, t) => Coming(msgs', t)
                       /\ t = e.session \/ StopComing(msgs, t) => StopComing(msgs', t)
  <2> SUFFICES ASSUME NEW t, t # s
               PROVE  /\ Coming(msgs, t) => Coming(msgs', t)
                      /\ t = e.session \/ StopComing(msgs, t) => StopComing(msgs', t)
    OBVIOUS
  <2>1. ~IsStart(stop, t) /\ ~IsStart(start, t) /\ (t = e.session => IsStop(stop, t))
    BY <1>3 DEF IsStart, IsStop
  <2>2. /\ Coming(msgs, t) => Coming(q, t)
        /\ t = e.session \/ StopComing(msgs, t) => StopComing(q, t)
    BY <1>2, <1>3, <2>1, PostComing DEF q
  <2>3. /\ Coming(q, t) => Coming(msgs', t)
        /\ StopComing(q, t) => StopComing(msgs', t)
    BY <1>3, <1>4, <2>1, PostComing
  <2> QED
    BY <2>2, <2>3
<1>11. StartsFirst(msgs', running')
  <2>1. StartsFirst(q, running)
    BY <1>2, <1>3, PostStarts DEF ClientInv, q
  <2>2. StartsFirst(msgs', running)
    BY <1>3, <1>4, <1>5, <1>9, <2>1, PostStarts
  <2> QED
    BY <1>1, <2>2
<1>12. Synced'
  <2>1. tracking.reqs \in Seq(Requests)
    BY QueueOps DEF ClientInv, ClientTypes, Types
  <2>2. /\ Coming(msgs', tracking.session) => Coming(msgs, tracking.session)
        /\ Coming(msgs, tracking.session) => Coming(msgs', tracking.session)
    BY <1>5, <1>9, <1>10
  <2>3. Matched(msgs, tracking.reqs, tracking.session) => Matched(q, tracking.reqs, tracking.session)
    BY <1>2, <1>3, <1>7, <2>1, MatchedOther DEF q
  <2>4. Matched(q, tracking.reqs, tracking.session) => Matched(msgs', tracking.reqs, tracking.session)
    BY <1>3, <1>4, <1>5, <2>1, MatchedOther
  <2> QED
    BY <1>1, <2>2, <2>3, <2>4 DEF ClientInv, Synced
<1>13. orderly' => orderly /\ sessions.reqs = <<>> /\ Distinct(mSessionBiDict)
  BY <1>1 DEF SessionCall, ClientInv, OneRequest
<1>14. Answering'
  <2>1. handling # NULL /\ handling.want # "niResponse"
          => (Coming(msgs', handling.session) => Coming(msgs, handling.session))
    BY <1>5, <1>9
  <2>2. orderly' => orderly
    BY <1>13
  <2> QED
    BY <1>1, <2>1, <2>2 DEF ClientInv, Answering, Stops
<1>15. OneRequest'
  <2> SUFFICES ASSUME orderly'
               PROVE  /\ Len(sessions'.reqs) <= 1 /\ Distinct(mSessionBiDict')
                      /\ OneAtATime(msgs', mSessionBiDict', sessions'.reqs)
    BY DEF OneRequest
  <2>1. sessions'.reqs = <<start.req>> /\ Len(<<start.req>>) <= 1
    <3>1. sessions'.reqs = Append(sessions.reqs, r)
      BY <1>1, <1>2, Retitled DEF SessionCall
    <3>2. Append(<<>>, r) = <<r>>
      OBVIOUS
    <3> QED
      BY <1>3, <1>9, <1>13, <3>1, <3>2
  <2>2. NoDictMsg(msgs, mSessionBiDict)
    <3>1. OneAtATime(msgs, mSessionBiDict, <<>>)
      BY <1>13 DEF ClientInv, OneRequest
    <3> QED
      BY <3>1, OneEmpty
  <2>3. \A t : HasSession(mSessionBiDict', t)
             => t = s \/ (HasSession(mSessionBiDict, t) /\ t # e.session)
    BY <1>1, <1>2, <1>8, <1>13 DEF HasSession, Distinct
  <2>4. NoDictMsg(msgs, mSessionBiDict')
    BY <1>5, <2>2, <2>3 DEF NoDictMsg, NotFor
  <2>5. ~HasSession(mSessionBiDict', stop.session)
    BY <1>3, <1>6, <2>3
  <2>6. NoDictMsg(q, mSessionBiDict')
    BY <1>2, <1>3, <2>4, <2>5, OnePost DEF q
  <2>7. OneAtATime(msgs', mSessionBiDict', sessions'.reqs)
    BY <1>3, <1>4, <2>1, <2>6, OnePost
  <2> QED
    BY <1>8, <1>13, <2>1, <2>7
<1>16. Stoppable'
  <2> SUFFICES ASSUME orderly', NEW t \in SessionIds, t \in running \ stuck \/ Coming(msgs', t)
               PROVE  Known(t)' \/ StopComing(msgs', t)
    BY <1>1 DEF Stoppable
  <2>1. CASE t = s
    BY <1>8, <2>1 DEF Known, HasSession
  <2>2. CASE t = e.session
    BY <1>6, <1>10, <2>2
  <2>3. CASE t # s /\ t # e.session
    <3>1. Known(t) \/ StopComing(msgs, t)
      BY <1>9, <1>13, <2>3 DEF ClientInv, Stoppable
    <3>2. HasSession(mSessionBiDict, t) => HasSession(mSessionBiDict', t)
      BY <1>2, <1>8, <2>3 DEF HasSession
    <3>3. Known(t) => Known(t)'
      BY <1>1, <3>2 DEF Known
    <3> QED
      BY <1>10, <2>3, <3>1, <3>3
  <2> QED
    BY <2>1, <2>2, <2>3
<1> QED
  BY <1>8, <1>11, <1>12, <1>14, <1>15, <1>16 DEF ClientInv

-----------------------------------------------------------------------------
(***************************************************************************)
(* The MsgTask thread.                                                     *)
(***************************************************************************)
\* What an answer means for the sessions: only the message's own session
\* starts or stops.
LEMMA AnswerRuns ==
  ASSUME ClientInv, NEW m \in Msg, MsgOK(m), NEW ok \in BOOLEAN, Answered(m, ok)
  PROVE  /\ running' \subseteq running \cup {m.session}
         /\ \A s : s # m.session => /\ s \in running' <=> s \in running
                                    /\ s \in stuck' <=> s \in stuck
         /\ m.cmd = "ni" \/ m.cmd = "start" \/ m.session \in running
         /\ m.cmd # "ni" => m.session \in SessionIds
         /\ m.cmd = "ni" => m.session \in NiIds /\ UNCHANGED <<running, stuck>>
         /\ m.cmd = "stop" => m.session \notin running' \ stuck'
         /\ m.cmd = "stop" /\ ok => m.session \notin running'
         /\ m.cmd \in {"update", "get"} => UNCHANGED <<running, stuck>>
<1>1. running \subseteq SessionIds /\ m.cmd \in {"start", "stop", "update", "get", "ni"}
  BY DEF ClientInv, ClientTypes, Types, Msg
<1> QED
  BY <1>1, ClientAssumption DEF Answered, MsgOK

\* The first message is for a session or for a notification, and no id is
\* used for both: one for a notification is for no session the client knows,
\* one for a session not for the notification it responds to.
LEMMA HeadApart ==
  ASSUME ClientTypes, TracesApart, msgs # <<>>
  PROVE  /\ Head(msgs).cmd = "ni" => /\ Head(msgs).session # tracking.session
                                     /\ ~HasSession(mSessionBiDict, Head(msgs).session)
         /\ Head(msgs).cmd # "ni" /\ Head(msgs).session # NoSession
              => ~(niResponse.session = Head(msgs).session /\ niResponse.reqs # <<>>)
<1> DEFINE m == Head(msgs)
<1>1. /\ m = msgs[1] /\ 1 \in DOMAIN msgs /\ niResponse.session \in NiIds \cup {NoSession}
      /\ MsgOK(m)
  <2>1. msgs \in Seq(Msg) /\ \A k \in 1..Len(msgs) : MsgOK(msgs[k])
    BY DEF ClientTypes, Types, MsgsOK
  <2> QED
    BY <2>1, HeadTail DEF ClientTypes, QueuesOK
<1> HIDE DEF m
<1>2. ASSUME m.cmd = "ni"
      PROVE  m.session # tracking.session /\ ~HasSession(mSessionBiDict, m.session)
  <2>1. m.session \in NiIds /\ NiUses(m.session)
    BY <1>1, <1>2 DEF NiUses, MsgOK
  <2>2. ~Used(m.session)
    BY <2>1 DEF TracesApart
  <2> QED
    BY <2>2, UnusedSession DEF Used
<1>3. ASSUME m.cmd # "ni", m.session # NoSession, niResponse.session = m.session, niResponse.reqs # <<>>
      PROVE  FALSE
  <2>1. m.session \in NiIds /\ NiUses(m.session)
    BY <1>1, <1>3 DEF NiUses
  <2>2. Used(m.session)
    BY <1>1, <1>3 DEF Used
  <2> QED
    BY <2>1, <2>2 DEF TracesApart
<1> QED
  BY <1>2, <1>3 DEF m

\* An answer to a message for the session the client tracks with is told to
\* the first request in its queue, which is the one of that message.
LEMMA TrackingAnswered ==
  ASSUME ClientInv, TracesApart, msgs # <<>>, NEW ok \in BOOLEAN, Answered(Head(msgs), ok),
         Head(msgs).session = tracking.session
  PROVE  /\ tracking.reqs # <<>> /\ Head(tracking.reqs) = Head(msgs).req
         /\ Matched(Tail(msgs), Tail(tracking.reqs), tracking.session)
<1>1. /\ msgs \in Seq(Msg) /\ tracking.reqs \in Seq(Requests) /\ tracking.session \in SomeSession
      /\ \A k \in 1..Len(msgs) : MsgOK(msgs[k])
  BY QueueOps DEF ClientInv, ClientTypes, Types, MsgsOK, QueuesOK
<1>2. Head(msgs) \in Msg /\ Head(msgs) = msgs[1] /\ 1 \in 1..Len(msgs)
  BY <1>1, HeadTail
<1>3. MsgOK(Head(msgs))
  BY <1>1, <1>2
<1>4. Head(msgs).cmd = "start" \/ tracking.session \in running
  BY <1>1, <1>2, <1>3, AnswerRuns, HeadApart DEF ClientInv
<1>5. Head(msgs).cmd = "start" => Coming(msgs, tracking.session)
  BY <1>2 DEF Coming, IsStart
<1>6. Matched(msgs, tracking.reqs, tracking.session)
  BY <1>4, <1>5 DEF ClientInv, Synced
<1> QED
  BY <1>1, <1>6, MatchedTake

LEMMA ProcSafe ==
  ASSUME ClientInv, TracesApart, ClientTypes', ProcMsg
  PROVE  ClientInv'
<1> DEFINE m == Head(msgs)
           t == tracking.session
<1>1. /\ handling = NULL /\ msgs # <<>> /\ msgs' = Tail(msgs) /\ m \in Msg /\ MsgOK(m)
      /\ UNCHANGED <<mTracking, mSessionBiDict, orderly>>
      /\ (\E ok \in BOOLEAN : Answered(m, ok)) \/ Unanswered(m)
  BY Processed DEF ClientInv
<1>2. /\ msgs \in Seq(Msg) /\ {tracking, sessions, niResponse} \subseteq Queue
      /\ tracking.reqs \in Seq(Requests)
  BY QueueOps DEF ClientInv, ClientTypes, Types
<1>3. /\ ~Coming(msgs', m.session)
      /\ \A s : Coming(msgs', s) => Coming(msgs, s)
      /\ \A s : StopComing(msgs, s) /\ ~IsStop(m, s) => StopComing(msgs', s)
      /\ running' \subseteq running \cup {m.session} => StartsFirst(msgs', running')
  BY <1>1, <1>2, TakeComing DEF ClientInv
<1>4. /\ \A reqs : OneAtATime(msgs, mSessionBiDict, reqs) => OneAtATime(msgs', mSessionBiDict, reqs)
      /\ \A reqs : OneAtATime(msgs, mSessionBiDict, reqs) /\ HasSession(mSessionBiDict, m.session)
                    => reqs = <<m.req>> /\ NoDictMsg(msgs', mSessionBiDict)
  BY <1>1, <1>2, OneTake
<1>5. m.session # t /\ Matched(msgs, tracking.reqs, t) => Matched(msgs', tracking.reqs, t)
  BY <1>1, <1>2, MatchedSkip
<1>6. ASSUME NEW ok \in BOOLEAN, Answered(m, ok), m.session = t
      PROVE  /\ tracking.reqs # <<>> /\ Head(tracking.reqs) = m.req
             /\ Matched(msgs', Tail(tracking.reqs), t)
  BY <1>1, <1>6, TrackingAnswered
<1>9. m.cmd # "ni" /\ m.session # NoSession => ~(niResponse.session = m.session /\ niResponse.reqs # <<>>)
  BY <1>1, HeadApart DEF ClientInv
<1> HIDE DEF m
<1>7. CASE Unanswered(m)
  <2>1. /\ UNCHANGED <<tracking, sessions, niResponse, running, stuck, handling>>
        /\ m.session \notin running
    BY <1>7 DEF Unanswered
  <2>2. StartsFirst(msgs', running') /\ TrackingApart' /\ Answering'
    BY <1>1, <1>3, <2>1 DEF ClientInv, TrackingApart, Answering
  <2>3. Synced'
    BY <1>3, <1>5, <2>1 DEF ClientInv, Synced
  <2>4. OneRequest'
    BY <1>1, <1>4, <2>1 DEF ClientInv, OneRequest
  <2>5. Stoppable'
    <3> SUFFICES ASSUME orderly, NEW s \in SessionIds, s \in running \ stuck \/ Coming(msgs', s)
                 PROVE  Known(s)' \/ StopComing(msgs', s)
      BY <1>1, <2>1 DEF Stoppable
    <3>1. s # m.session /\ ~IsStop(m, s)
      BY <1>3, <2>1 DEF IsStop
    <3>2. Known(s) \/ StopComing(msgs, s)
      BY <1>3 DEF ClientInv, Stoppable
    <3>3. Known(s)' <=> Known(s)
      BY <1>1, <2>1 DEF Known
    <3> QED
      BY <1>3, <3>1, <3>2, <3>3
  <2> QED
    BY <2>2, <2>3, <2>4, <2>5 DEF ClientInv
<1>8. ASSUME NEW ok \in BOOLEAN, Answered(m, ok) PROVE ClientInv'
  <2>1. /\ running' \subseteq running \cup {m.session}
        /\ \A s : s # m.session => /\ s \in running' <=> s \in running
                                   /\ s \in stuck' <=> s \in stuck
        /\ m.cmd = "ni" \/ m.cmd = "start" \/ m.session \in running
        /\ m.cmd # "ni" => m.session \in SessionIds
        /\ m.cmd = "ni" => m.session \in NiIds /\ UNCHANGED <<running, stuck>>
        /\ m.cmd = "stop" => m.session \notin running' \ stuck'
        /\ m.cmd = "stop" /\ ok => m.session \notin running'
        /\ m.cmd \in {"update", "get"} => UNCHANGED <<running, stuck>>
    BY <1>1, <1>8, AnswerRuns
  <2>2. \/ TakenTracking(m.session, m.req, ok) \/ TakenNi(m.session, m.req, ok)
        \/ TakenSession(m.session, m.req, ok) \/ TakenNone(m.session)
    BY <1>8, Taken DEF Answered
  <2>3. m.session = t => TakenTracking(m.session, m.req, ok)
    BY <1>6, <1>8, <2>2 DEF TakenNi, TakenSession, TakenNone
  <2>4. tracking'.session = t /\ (m.session # t => UNCHANGED tracking)
        /\ (m.session = t => tracking'.reqs = Tail(tracking.reqs))
    BY <1>2, <2>2, <2>3, PopTypes DEF TakenTracking, TakenNi, TakenSession, TakenNone
  <2>5. StartsFirst(msgs', running') /\ TrackingApart'
    BY <1>1, <1>3, <2>1, <2>4 DEF ClientInv, TrackingApart
  <2>6. Synced'
    <3>1. CASE m.session = t
      BY <1>6, <1>8, <2>4, <3>1 DEF Synced
    <3>2. CASE m.session # t
      BY <1>3, <1>5, <2>1, <2>4, <3>2 DEF ClientInv, Synced
    <3> QED
      BY <3>1, <3>2
  <2>7. ASSUME NEW req, NEW queue, handling' = Told(m.session, m.req, ok, req, queue),
               req = m.req \/ (queue = "session" /\ ~orderly)
        PROVE  Answering'
    <3>1. /\ handling'.session = m.session /\ handling'.ok = ok /\ handling'.want = m.req
          /\ handling'.req = req /\ handling'.queue = queue
      BY <2>7 DEF Told
    <3>2. ok /\ m.req \in Stops => m.session \notin running'
      BY <1>1, <2>1 DEF MsgOK
    <3> QED
      BY <1>1, <1>3, <2>7, <3>1, <3>2 DEF Answering
  <2>8. Answering'
    <3>1. CASE TakenTracking(m.session, m.req, ok)
      BY <1>6, <1>8, <2>7, <3>1 DEF TakenTracking
    <3>2. CASE TakenNi(m.session, m.req, ok)
      <4>1. niResponse.session \in NiIds /\ Head(niResponse.reqs) = "niResponse"
        <5>1. Head(niResponse.reqs) = niResponse.reqs[1] /\ 1 \in 1..Len(niResponse.reqs)
          BY <1>2, <3>2, PopTypes, HeadTail DEF TakenNi
        <5>2. m.session # NoSession
          BY <2>1, ClientAssumption
        <5> QED
          BY <3>2, <5>1, <5>2 DEF TakenNi, ClientInv, ClientTypes, QueuesOK
      <4>2. m.cmd = "ni"
        BY <1>9, <2>1, <3>2, ClientAssumption DEF TakenNi
      <4>3. m.req = "niResponse"
        BY <1>1, <4>2 DEF MsgOK
      <4> QED
        BY <2>7, <3>2, <4>1, <4>3 DEF TakenNi
    <3>3. CASE TakenSession(m.session, m.req, ok)
      <4>1. orderly => Head(sessions.reqs) = m.req
        <5>1. orderly => sessions.reqs = <<m.req>>
          BY <1>4, <3>3 DEF TakenSession, ClientInv, OneRequest
        <5>2. Head(<<m.req>>) = m.req
          OBVIOUS
        <5> QED
          BY <5>1, <5>2
      <4> QED
        BY <2>7, <3>3, <4>1 DEF TakenSession
    <3>4. CASE TakenNone(m.session)
      BY <1>1, <3>4 DEF TakenNone, Answering
    <3> QED
      BY <2>2, <3>1, <3>2, <3>3, <3>4
  <2>9. OneRequest'
    <3>1. CASE TakenSession(m.session, m.req, ok)
      <4> SUFFICES ASSUME orderly
                   PROVE  /\ Len(sessions'.reqs) <= 1 /\ OneAtATime(msgs', mSessionBiDict, sessions'.reqs)
        BY <1>1 DEF ClientInv, OneRequest
      <4>1. sessions.reqs = <<m.req>> /\ NoDictMsg(msgs', mSessionBiDict)
        BY <1>4, <3>1 DEF TakenSession, ClientInv, OneRequest
      <4>2. sessions'.reqs = <<>>
        <5>1. sessions'.reqs = Tail(sessions.reqs)
          BY <1>2, <3>1, PopTypes DEF TakenSession
        <5> QED
          BY <4>1, <5>1
      <4>3. Len(<<>>) <= 1
        OBVIOUS
      <4> QED
        BY <4>1, <4>2, <4>3, OneEmpty
    <3>2. CASE UNCHANGED sessions
      BY <1>1, <1>4, <3>2 DEF ClientInv, OneRequest
    <3> QED
      BY <2>2, <3>1, <3>2 DEF TakenTracking, TakenNi, TakenNone
  <2>10. Stoppable'
    <3> SUFFICES ASSUME orderly, NEW s \in SessionIds, s \in running' \ stuck' \/ Coming(msgs', s)
                 PROVE  Known(s)' \/ StopComing(msgs', s)
      BY <1>1 DEF Stoppable
    <3>1. Known(s)' <=> Known(s)
      BY <1>1, <2>4 DEF Known
    <3>2. ~IsStop(m, s)
      BY <1>3, <2>1 DEF IsStop
    <3>3. s \in running \ stuck \/ Coming(msgs, s)
      <4>1. CASE s # m.session
        BY <1>3, <2>1, <4>1
      <4>2. CASE s = m.session
        <5>1. s \in running' \ stuck' /\ m.cmd # "stop"
          BY <1>3, <2>1, <4>2
        <5>2. CASE m.cmd = "start"
          <6>1. m = msgs[1] /\ 1 \in 1..Len(msgs)
            BY <1>1, <1>2, HeadTail DEF m
          <6> QED
            BY <4>2, <5>2, <6>1 DEF Coming, IsStart
        <5>3. CASE m.cmd \in {"update", "get", "ni"}
          BY <2>1, <5>1, <5>3
        <5> QED
          BY <1>1, <5>1, <5>2, <5>3 DEF Msg
      <4> QED
        BY <4>1, <4>2
    <3>4. Known(s) \/ StopComing(msgs, s)
      BY <3>3 DEF ClientInv, Stoppable
    <3> QED
      BY <1>3, <3>1, <3>2, <3>4
  <2> QED
    BY <2>5, <2>6, <2>8, <2>9, <2>10 DEF ClientInv
<1> QED
  BY <1>1, <1>7, <1>8

\* The response is served: a session that was stopped leaves the dictionary.
LEMMA ResponseSafe ==
  ASSUME ClientInv, ClientTypes', OnResponse
  PROVE  ClientInv'
<1> DEFINE h == handling
           gone == h.req \in Stops /\ h.ok
<1>1. /\ h # NULL /\ handling' = NULL
      /\ IF gone THEN RemoveSession(h.session) ELSE UNCHANGED mSessionBiDict
      /\ UNCHANGED <<mTracking, tracking, sessions, niResponse, msgs, running, stuck, orderly>>
  BY DEF OnResponse, Stops
<1>2. ASSUME NEW id \in Ids
      PROVE  /\ mSessionBiDict'[id] = NULL \/ mSessionBiDict'[id] = mSessionBiDict[id]
             /\ mSessionBiDict[id] # NULL /\ (mSessionBiDict[id].session # h.session \/ ~gone)
                  => mSessionBiDict'[id] = mSessionBiDict[id]
  BY <1>1 DEF RemoveSession
<1>3. StartsFirst(msgs', running') /\ TrackingApart' /\ Synced' /\ Answering'
  BY <1>1, <1>2 DEF ClientInv, TrackingApart, Synced, Answering
<1>4. OneRequest'
  <2>1. \A s : HasSession(mSessionBiDict', s) => HasSession(mSessionBiDict, s)
    BY <1>2 DEF HasSession
  <2>2. OneAtATime(msgs, mSessionBiDict, sessions.reqs) => OneAtATime(msgs, mSessionBiDict', sessions.reqs)
    BY <2>1, OneFewer
  <2>3. Distinct(mSessionBiDict) => Distinct(mSessionBiDict')
    BY <1>2 DEF Distinct
  <2> QED
    BY <1>1, <2>2, <2>3 DEF ClientInv, OneRequest
<1>5. Stoppable'
  <2> SUFFICES ASSUME orderly, NEW s \in SessionIds, s \in running \ stuck \/ Coming(msgs, s)
               PROVE  Known(s)' \/ StopComing(msgs, s)
    BY <1>1 DEF Stoppable
  <2>1. Known(s) \/ StopComing(msgs, s)
    BY DEF ClientInv, Stoppable
  <2>2. ~gone \/ s # h.session
    BY <1>1 DEF ClientInv, Answering
  <2>3. HasSession(mSessionBiDict, s) => HasSession(mSessionBiDict', s)
    BY <1>2, <2>2 DEF HasSession
  <2> QED
    BY <1>1, <2>1, <2>3 DEF Known
<1> QED
  BY <1>1, <1>3, <1>4, <1>5 DEF ClientInv

-----------------------------------------------------------------------------
(***************************************************************************)
(* The ids in use: a trace of a session, or of a notification, comes only  *)
(* with a call that begins one, so as long as those find the id free, no   *)
(* id is in use for both.                                                  *)
(***************************************************************************)
QueueHas(n) == \E i \in 1..Len(msgs) : msgs[i].cmd # "ni" /\ msgs[i].session = n
DictHas(n)  == \E id \in Ids : mSessionBiDict[id] # NULL /\
                 n \in {mSessionBiDict[id].trackingSession, mSessionBiDict[id].batchingSession}
NiQueued(n) == \E i \in 1..Len(msgs) : msgs[i].cmd = "ni" /\ msgs[i].session = n

LEMMA TracesAre ==
  ASSUME ClientTypes, NEW n
  PROVE  /\ Used(n) <=> \/ n \in running \/ n = tracking.session \/ n = sessions.session
                        \/ QueueHas(n) \/ DictHas(n)
                        \/ handling # NULL /\ handling.want # "niResponse" /\ handling.session = n
         /\ NiUses(n) <=> (niResponse.session = n /\ niResponse.reqs # <<>>) \/ NiQueued(n)
<1>1. DOMAIN msgs = 1..Len(msgs)
  BY DEF ClientTypes, Types
<1> QED
  BY <1>1 DEF Used, NiUses, QueueHas, DictHas, NiQueued

\* The same after a step.
LEMMA TracesAfter ==
  ASSUME ClientTypes', NEW n
  PROVE  /\ Used(n)' <=> \/ n \in running' \/ n = tracking'.session \/ n = sessions'.session
                         \/ QueueHas(n)' \/ DictHas(n)'
                         \/ handling' # NULL /\ handling'.want # "niResponse" /\ handling'.session = n
         /\ NiUses(n)' <=> (niResponse'.session = n /\ niResponse'.reqs # <<>>) \/ NiQueued(n)'
<1>1. DOMAIN msgs' = 1..Len(msgs')
  BY DEF ClientTypes, Types
<1> QED
  BY <1>1 DEF Used, NiUses, QueueHas, DictHas, NiQueued

LEMMA PostTraces ==
  ASSUME ClientTypes, NEW m \in Msg, msgs' = Append(msgs, m), NEW n
  PROVE  /\ QueueHas(n)' => QueueHas(n) \/ (m.cmd # "ni" /\ m.session = n)
         /\ NiQueued(n)' => NiQueued(n) \/ (m.cmd = "ni" /\ m.session = n)
<1> DEFINE l == Len(msgs)
<1>1. l \in Nat /\ Len(msgs') = l + 1 /\ msgs'[l + 1] = m /\ \A k \in 1..l : msgs'[k] = msgs[k]
  BY Appended DEF ClientTypes, Types
<1> HIDE DEF l
<1>2. \A k \in 1..Len(msgs') : k \in 1..l \/ k = l + 1
  BY <1>1
<1> QED
  BY <1>1, <1>2 DEF QueueHas, NiQueued, l

\* A call for a session posts a message, or none, and may begin a session s:
\* what it leaves of an id was there before, but of s.
LEMMA CallTraces ==
  ASSUME ClientTypes, ClientTypes', NEW n, NEW s,
         UNCHANGED <<niResponse, running, handling>>,
         tracking'.session \in {tracking.session, s}, sessions'.session \in {sessions.session, NoSession, s},
         DictHas(n)' => DictHas(n) \/ n \in {s, NoSession},
         QueueHas(n)' => QueueHas(n) \/ DictHas(n) \/ n \in {s, NoSession, tracking.session},
         NiQueued(n)' => NiQueued(n)
  PROVE  /\ Used(n)' => Used(n) \/ n \in {s, NoSession}
         /\ NiUses(n)' => NiUses(n)
<1>1. Used(n)' <=> \/ n \in running' \/ n = tracking'.session \/ n = sessions'.session
                   \/ QueueHas(n)' \/ DictHas(n)'
                   \/ handling' # NULL /\ handling'.want # "niResponse" /\ handling'.session = n
  BY TracesAfter
<1>2. NiUses(n)' <=> (niResponse'.session = n /\ niResponse'.reqs # <<>>) \/ NiQueued(n)'
  BY TracesAfter
<1> QED
  BY <1>1, <1>2, TracesAre

\* The call began s, if any: it found it free.
LEMMA CallApart ==
  ASSUME ClientTypes, ClientTypes', TracesApart, NEW s, ~NiUses(s),
         \A n \in NiIds : /\ Used(n)' => Used(n) \/ n \in {s, NoSession}
                          /\ NiUses(n)' => NiUses(n)
  PROVE  TracesApart'
BY ClientAssumption DEF TracesApart

LEMMA NoSessionNotNi ==
  ASSUME ClientTypes, TracesApart
  PROVE  \E s : ~NiUses(s) /\ s \notin NiIds
<1>1. \A n : NiQueued(n) => n \in NiIds
  BY DEF ClientTypes, MsgsOK, MsgOK, NiQueued
<1>2. niResponse.session \in NiIds \cup {NoSession}
  BY DEF ClientTypes, QueuesOK
<1>3. PICK s : s \notin NiIds \cup {NoSession}
  BY NoSetContainsEverything
<1> QED
  BY <1>1, <1>2, <1>3, TracesAre

\* Calls that begin no session.
LEMMA QuietApart ==
  ASSUME ClientTypes, ClientTypes', TracesApart,
         UNCHANGED <<niResponse, running, handling>>,
         tracking'.session = tracking.session, sessions'.session \in {sessions.session, NoSession},
         \A n : DictHas(n)' => DictHas(n) \/ n = NoSession,
         \/ UNCHANGED msgs
         \/ \E m \in Msg : /\ msgs' = Append(msgs, m) /\ m.cmd # "ni"
                           /\ DictHas(m.session) \/ m.session \in {NoSession, tracking.session}
  PROVE  TracesApart'
<1>1. ASSUME NEW n
      PROVE  /\ QueueHas(n)' => QueueHas(n) \/ DictHas(n) \/ n \in {NoSession, tracking.session}
             /\ NiQueued(n)' => NiQueued(n)
  <2>1. CASE UNCHANGED msgs
    BY <2>1 DEF QueueHas, NiQueued
  <2>2. ASSUME NEW m \in Msg, msgs' = Append(msgs, m), m.cmd # "ni",
               DictHas(m.session) \/ m.session \in {NoSession, tracking.session}
        PROVE  /\ QueueHas(n)' => QueueHas(n) \/ DictHas(n) \/ n \in {NoSession, tracking.session}
               /\ NiQueued(n)' => NiQueued(n)
    BY <2>2, PostTraces
  <2> QED
    BY <2>1, <2>2
<1>2. PICK s : ~NiUses(s) /\ s \notin NiIds
  BY NoSessionNotNi
<1>3. ASSUME NEW n \in NiIds
      PROVE  (Used(n)' => Used(n) \/ n \in {s, NoSession}) /\ (NiUses(n)' => NiUses(n))
  BY <1>1, CallTraces
<1> QED
  BY <1>2, <1>3, CallApart

LEMMA StartTrackingApart ==
  ASSUME ClientTypes, ClientTypes', TracesApart, apart', NEW s \in SessionIds, StartTracking(s)
  PROVE  TracesApart'
<1> DEFINE m == Message("start", s, "startTracking")
<1>1. m \in Msg /\ m.cmd = "start" /\ m.session = s
  BY MessageMade DEF Requests
<1>2. /\ msgs' = Append(msgs, m) /\ tracking' = Push(Reset(s), "startTracking") /\ ~NiUses(s)
      /\ UNCHANGED <<sessions, niResponse, mSessionBiDict, running, handling>>
  BY DEF StartTracking, Post, BeginsSession
<1> HIDE DEF m
<1>3. tracking'.session = s
  <2>1. Reset(s) \in Queue /\ Reset(s).session = s
    BY QueueMade
  <2> QED
    BY <1>2, <2>1, QueueOps DEF Requests
<1>4. ASSUME NEW n
      PROVE  /\ QueueHas(n)' => QueueHas(n) \/ n = s
             /\ NiQueued(n)' => NiQueued(n)
             /\ DictHas(n)' => DictHas(n)
  BY <1>1, <1>2, PostTraces DEF DictHas
<1>5. ASSUME NEW n \in NiIds
      PROVE  (Used(n)' => Used(n) \/ n \in {s, NoSession}) /\ (NiUses(n)' => NiUses(n))
  BY <1>2, <1>3, <1>4, CallTraces
<1> QED
  BY <1>2, <1>5, CallApart

LEMMA OfTrackingApart ==
  ASSUME ClientTypes, ClientTypes', TracesApart, StopTracking \/ UpdateTrackingOptions
  PROVE  TracesApart'
<1>1. PICK cmd \in {"stop", "update"}, r \in {"stopTracking", "updateTracking"} :
        /\ Post(Message(cmd, tracking.session, r)) /\ tracking' = Push(tracking, r)
        /\ UNCHANGED <<sessions, niResponse, mSessionBiDict, running, handling>>
  BY DEF StopTracking, UpdateTrackingOptions
<1> DEFINE m == Message(cmd, tracking.session, r)
<1>2. tracking \in Queue /\ tracking.session \in SomeSession /\ r \in Requests
  BY DEF ClientTypes, Types, QueuesOK, Requests
<1>3. m \in Msg /\ m.cmd # "ni" /\ m.session = tracking.session /\ tracking'.session = tracking.session
  <2>1. Message(cmd, tracking.session, r).cmd = cmd /\ Message(cmd, tracking.session, r).session = tracking.session
    BY DEF Message
  <2>2. Push(tracking, r).session = tracking.session
    BY <1>2, QueueOps
  <2>3. m \in Msg
    BY <1>2, MessageMade DEF SomeSession
  <2> QED
    BY <1>1, <2>1, <2>2, <2>3
<1>4. msgs' = Append(msgs, m)
  BY <1>1 DEF Post
<1> HIDE DEF m
<1>5. \A n : DictHas(n)' => DictHas(n)
  BY <1>1 DEF DictHas
<1> QED
  BY <1>1, <1>3, <1>4, <1>5, QuietApart

LEMMA NiTracesApart ==
  ASSUME ClientTypes, ClientTypes', TracesApart, apart', NEW n \in NiIds, GnssNiResponse(n)
  PROVE  TracesApart'
<1> DEFINE m == Message("ni", n, "niResponse")
<1>1. m \in Msg /\ m.cmd = "ni" /\ m.session = n
  BY MessageMade DEF Requests
<1>2. /\ msgs' = Append(msgs, m) /\ niResponse' = Push(Reset(n), "niResponse") /\ ~Used(n)
      /\ UNCHANGED <<tracking, sessions, mSessionBiDict, running, handling>>
  BY DEF GnssNiResponse, Post, BeginsNi
<1> HIDE DEF m
<1>3. niResponse'.session = n
  <2>1. Reset(n) \in Queue /\ Reset(n).session = n
    BY QueueMade
  <2> QED
    BY <1>2, <2>1, QueueOps DEF Requests
<1>4. ASSUME NEW k \in NiIds
      PROVE  (Used(k)' => Used(k)) /\ (NiUses(k)' => NiUses(k) \/ k = n)
  <2>1. /\ QueueHas(k)' => QueueHas(k)
        /\ NiQueued(k)' => NiQueued(k) \/ k = n
        /\ DictHas(k)' => DictHas(k)
    BY <1>1, <1>2, PostTraces DEF DictHas
  <2>2. Used(k)' <=> \/ k \in running' \/ k = tracking'.session \/ k = sessions'.session
                     \/ QueueHas(k)' \/ DictHas(k)'
                     \/ handling' # NULL /\ handling'.want # "niResponse" /\ handling'.session = k
    BY TracesAfter
  <2>3. NiUses(k)' <=> (niResponse'.session = k /\ niResponse'.reqs # <<>>) \/ NiQueued(k)'
    BY TracesAfter
  <2> QED
    BY <1>2, <1>3, <2>1, <2>2, <2>3, TracesAre
<1> QED
  BY <1>2, <1>4 DEF TracesApart

\* The dictionary and the queue after a call that begins the session s.
LEMMA NewEntityTraces ==
  ASSUME ClientTypes, NEW id \in Ids, NEW mode \in {"NONE", "ON_FULL", "ON_FIX"}, NEW s \in SessionIds,
         mSessionBiDict' = [mSessionBiDict EXCEPT ![id] = NewEntity(mode, s)], NEW n
  PROVE  DictHas(n)' => DictHas(n) \/ n \in {s, NoSession}
<1>1. /\ NewEntity(mode, s).trackingSession \in {s, NoSession}
      /\ NewEntity(mode, s).batchingSession \in {s, NoSession}
  BY DEF NewEntity, ZeroEntity
<1>2. \A i \in Ids : mSessionBiDict'[i] = IF i = id THEN NewEntity(mode, s) ELSE mSessionBiDict[i]
  BY DEF ClientTypes, Types
<1> QED
  BY <1>1, <1>2 DEF DictHas

LEMMA StartSessionApart ==
  ASSUME ClientTypes, ClientTypes', TracesApart, apart',
         NEW id \in Ids, NEW mode \in SessionModes, NEW s \in SessionIds, StartSession(id, mode, s)
  PROVE  TracesApart'
<1>1. /\ mode \in {"NONE", "ON_FULL", "ON_FIX"} /\ ~NiUses(s) /\ sessions \in Queue
      /\ mSessionBiDict' = [mSessionBiDict EXCEPT ![id] = NewEntity(mode, s)]
      /\ UNCHANGED <<tracking, niResponse, running, handling>>
  BY ClientAssumption DEF StartSession, BeginsSession, ClientTypes, Types
<1>2. /\ sessions'.session \in {sessions.session, s}
      /\ \A n : (QueueHas(n)' => QueueHas(n) \/ n = s) /\ (NiQueued(n)' => NiQueued(n))
  <2>1. CASE mode = "NONE"
    BY <2>1 DEF StartSession, QueueHas, NiQueued
  <2>2. CASE mode # "NONE"
    <3> DEFINE r == Kind("start", mode)
               m == Message("start", s, r)
    <3>1. r \in Requests
      BY <1>1, <2>2, KindMade
    <3>2. msgs' = Append(msgs, m) /\ sessions' = Push(AfterStart(mode, s), r)
      BY <2>2 DEF StartSession, Post
    <3>3. m \in Msg /\ m.cmd = "start" /\ m.session = s
      BY <3>1, MessageMade
    <3>4. AfterStart(mode, s) \in Queue /\ AfterStart(mode, s).session \in {sessions.session, s}
      BY <1>1, QueueOps DEF AfterStart
    <3> HIDE DEF m, r
    <3>5. sessions'.session \in {sessions.session, s}
      BY <3>1, <3>2, <3>4, QueueOps
    <3> QED
      BY <3>2, <3>3, <3>5, PostTraces
  <2> QED
    BY <2>1, <2>2
<1>3. ASSUME NEW n \in NiIds
      PROVE  (Used(n)' => Used(n) \/ n \in {s, NoSession}) /\ (NiUses(n)' => NiUses(n))
  <2>1. DictHas(n)' => DictHas(n) \/ n \in {s, NoSession}
    BY <1>1, NewEntityTraces
  <2> QED
    BY <1>1, <1>2, <2>1, CallTraces
<1> QED
  BY <1>1, <1>3, CallApart

LEMMA BySwitchApart ==
  ASSUME ClientTypes, ClientTypes', TracesApart, apart',
         NEW id \in Ids, NEW mode \in SessionModes, NEW s \in SessionIds, UpdateBySwitch(id, mode, s)
  PROVE  TracesApart'
<1> DEFINE e == GetExtById(id)
           r == Kind("update", mode)
           stop == Message("stop", e.session, "none")
           start == Message("start", s, r)
           q == Append(msgs, stop)
<1>1. /\ mSessionBiDict[id] # NULL /\ {mode, e.sessionMode} = {"ON_FIX", "ON_FULL"} /\ ~NiUses(s)
      /\ msgs' = msgs \o <<stop, start>>
      /\ sessions' = IF mode = "ON_FULL" THEN Push([sessions EXCEPT !.session = s], r)
                     ELSE Push([sessions EXCEPT !.session = NoSession], r)
      /\ mSessionBiDict' = [mSessionBiDict EXCEPT ![id] = NewEntity(mode, s)]
      /\ UNCHANGED <<tracking, niResponse, running, handling>>
  BY DEF UpdateBySwitch, BeginsSession
<1>2. /\ e = mSessionBiDict[id] /\ e.session \in SessionIds
      /\ e.session \in {e.trackingSession, e.batchingSession}
      /\ mode \in {"ON_FIX", "ON_FULL"} /\ r \in Requests
      /\ msgs \in Seq(Msg) /\ sessions \in Queue
  BY <1>1, EntityFound, EntityFields, KindMade DEF ClientTypes, Types
<1>3. DictHas(e.session)
  BY <1>1, <1>2 DEF DictHas
<1> HIDE DEF e, r
<1>4. /\ stop \in Msg /\ stop.cmd = "stop" /\ stop.session = e.session
      /\ start \in Msg /\ start.cmd = "start" /\ start.session = s
  BY <1>2, MessageMade
<1> HIDE DEF stop, start
<1>5. msgs' = Append(q, start)
  BY <1>1, <1>2, <1>4, Twice
<1>6. ASSUME NEW n
      PROVE  /\ QueueHas(n)' => QueueHas(n) \/ n \in {s, e.session}
             /\ NiQueued(n)' => NiQueued(n)
  <2>1. /\ Len(msgs) \in Nat /\ Len(msgs') = Len(msgs) + 2
        /\ msgs'[Len(msgs) + 1] = stop /\ msgs'[Len(msgs) + 2] = start
        /\ \A k \in 1..Len(msgs) : msgs'[k] = msgs[k]
    BY <1>2, <1>4, <1>5
  <2>2. \A k \in 1..Len(msgs') : k \in 1..Len(msgs) \/ k = Len(msgs) + 1 \/ k = Len(msgs) + 2
    BY <2>1
  <2> QED
    BY <1>4, <2>1, <2>2 DEF QueueHas, NiQueued
<1>7. sessions'.session \in {NoSession, s}
  <2>1. PICK x \in {NoSession, s} : sessions' = Push([sessions EXCEPT !.session = x], r)
    BY <1>1
  <2>2. [sessions EXCEPT !.session = x] \in Queue /\ [sessions EXCEPT !.session = x].session = x
    BY <1>2, QueueOps
  <2> QED
    BY <1>2, <2>1, <2>2, QueueOps
<1>8. ASSUME NEW n \in NiIds
      PROVE  (Used(n)' => Used(n) \/ n \in {s, NoSession}) /\ (NiUses(n)' => NiUses(n))
  <2>1. DictHas(n)' => DictHas(n) \/ n \in {s, NoSession}
    BY <1>1, <1>2, NewEntityTraces
  <2>2. QueueHas(n)' => QueueHas(n) \/ DictHas(n) \/ n \in {s, NoSession, tracking.session}
    BY <1>3, <1>6
  <2> QED
    BY <1>1, <1>6, <1>7, <2>1, <2>2, CallTraces
<1> QED
  BY <1>1, <1>8, CallApart

LEMMA InPlaceApart ==
  ASSUME ClientTypes, ClientTypes', TracesApart, NEW id \in Ids,
         StopSession(id) \/ \E mode \in SessionModes : UpdateInPlace(id, mode)
  PROVE  TracesApart'
<1>1. PICK call \in {"stop", "update"} :
        /\ mSessionBiDict[id] # NULL /\ GetExtById(id).sessionMode # "NONE"
        /\ Post(Message(call, GetExtById(id).session, Kind(call, GetExtById(id).sessionMode)))
        /\ sessions' = Push(sessions, Kind(call, GetExtById(id).sessionMode))
        /\ UNCHANGED <<tracking, niResponse, mSessionBiDict, running, handling>>
  BY DEF StopSession, UpdateInPlace
<1> DEFINE e == GetExtById(id)
           r == Kind(call, e.sessionMode)
           m == Message(call, e.session, r)
<1>2. /\ e = mSessionBiDict[id] /\ e.session \in SessionIds /\ e.sessionMode \in {"ON_FIX", "ON_FULL"}
      /\ e.session \in {e.trackingSession, e.batchingSession}
  BY <1>1, EntityFound, EntityFields DEF ClientTypes
<1>3. DictHas(e.session)
  BY <1>1, <1>2 DEF DictHas
<1>4. r \in Requests
  BY <1>2, KindMade
<1>5. m \in Msg /\ m.cmd = call /\ m.session = e.session
  BY <1>2, <1>4, MessageMade
<1>6. msgs' = Append(msgs, m) /\ sessions' = Push(sessions, r) /\ sessions \in Queue
  BY <1>1 DEF Post, ClientTypes, Types
<1> HIDE DEF m, r, e
<1>7. sessions'.session = sessions.session
  BY <1>4, <1>6, QueueOps
<1>8. \A n : DictHas(n)' => DictHas(n)
  BY <1>1 DEF DictHas
<1> QED
  BY <1>1, <1>3, <1>5, <1>6, <1>7, <1>8, QuietApart

LEMMA ModeNoneApart ==
  ASSUME ClientTypes, ClientTypes', TracesApart, NEW id \in Ids,
         UpdateToNone(id) \/ \E mode \in SessionModes : UpdateFromNone(id, mode)
  PROVE  TracesApart'
<1> DEFINE e == GetExtById(id)
<1>1. /\ mSessionBiDict[id] # NULL
      /\ UNCHANGED <<tracking, niResponse, msgs, running, handling>>
      /\ \E mode, s : mSessionBiDict' =
           [mSessionBiDict EXCEPT ![id] = [e EXCEPT !.sessionMode = mode, !.session = s]]
  BY DEF UpdateToNone, UpdateFromNone
<1>2. /\ e \in Entity /\ (e = mSessionBiDict[id] \/ e = ZeroEntity)
      /\ mSessionBiDict \in [Ids -> Entity \cup {NULL}] /\ sessions \in Queue
  BY <1>1, EntityFound DEF ClientTypes, Types
<1>3. sessions'.session = sessions.session
  <2>1. CASE UpdateToNone(id)
    BY <2>1 DEF UpdateToNone
  <2>2. ASSUME NEW mode \in SessionModes, UpdateFromNone(id, mode)
        PROVE  sessions'.session = sessions.session
    <3>1. sessions' = Push(sessions, Kind("update", mode)) /\ mode \in {"ON_FIX", "ON_FULL"}
      BY <2>2, ClientAssumption DEF UpdateFromNone
    <3>2. Kind("update", mode) \in Requests
      BY <3>1, KindMade
    <3> QED
      BY <1>2, <3>1, <3>2, QueueOps
  <2> QED
    BY <2>1, <2>2
<1>4. /\ e.trackingSession \in {mSessionBiDict[id].trackingSession, NoSession}
      /\ e.batchingSession \in {mSessionBiDict[id].batchingSession, NoSession}
  BY <1>2 DEF ZeroEntity
<1> HIDE DEF e
<1>5. /\ mSessionBiDict'[id].trackingSession = e.trackingSession
      /\ mSessionBiDict'[id].batchingSession = e.batchingSession
      /\ \A i \in Ids \ {id} : mSessionBiDict'[i] = mSessionBiDict[i]
  BY <1>1, <1>2 DEF Entity
<1>6. \A n : DictHas(n)' => DictHas(n) \/ n = NoSession
  BY <1>1, <1>4, <1>5 DEF DictHas
<1> QED
  BY <1>1, <1>3, <1>6, QuietApart

LEMMA GetBatchedApart ==
  ASSUME ClientTypes, ClientTypes', TracesApart, NEW id \in Ids, GetBatchedLocations(id)
  PROVE  TracesApart'
<1> DEFINE e == IF mSessionBiDict[id] = NULL THEN ZeroEntity ELSE GetExtById(id)
           m == Message("get", e.batchingSession, "getBatched")
<1>1. /\ Post(m) /\ sessions' = Push(sessions, "getBatched")
      /\ mSessionBiDict' = [mSessionBiDict EXCEPT ![id] = IF @ = NULL THEN ZeroEntity ELSE @]
      /\ UNCHANGED <<tracking, niResponse, running, handling>>
  BY DEF GetBatchedLocations
<1>2. /\ e \in Entity /\ (e = ZeroEntity \/ (mSessionBiDict[id] # NULL /\ e = mSessionBiDict[id]))
      /\ ZeroEntity.batchingSession = NoSession
      /\ mSessionBiDict \in [Ids -> Entity \cup {NULL}] /\ sessions \in Queue
  BY EntityFound, EntityMade DEF ClientTypes, Types, ZeroEntity
<1>3. DictHas(e.batchingSession) \/ e.batchingSession = NoSession
  BY <1>2 DEF DictHas
<1>4. e.batchingSession \in SomeSession
  BY <1>2, EntityFields
<1> HIDE DEF e
<1>5. m \in Msg /\ m.cmd = "get" /\ m.session = e.batchingSession
  BY <1>4, MessageMade DEF SomeSession, Requests
<1>6. msgs' = Append(msgs, m)
  BY <1>1 DEF Post
<1> HIDE DEF m
<1>7. \A i \in Ids : mSessionBiDict'[i] = mSessionBiDict[i]
                   \/ (mSessionBiDict[i] = NULL /\ mSessionBiDict'[i] = ZeroEntity)
  BY <1>1, <1>2
<1>8. \A n : DictHas(n)' => DictHas(n) \/ n = NoSession
  BY <1>7 DEF DictHas, ZeroEntity
<1>9. sessions'.session = sessions.session
  BY <1>1, <1>2, QueueOps DEF Requests
<1> QED
  BY <1>1, <1>3, <1>5, <1>6, <1>8, <1>9, QuietApart

\* The MsgTask thread moves the trace of a message to the session and to the
\* response.
LEMMA ProcApart ==
  ASSUME ClientTypes, ClientTypes', TracesApart, ProcMsg
  PROVE  TracesApart'
<1> DEFINE m == Head(msgs)
<1>1. /\ handling = NULL /\ m \in Msg /\ MsgOK(m) /\ m = msgs[1] /\ 1 \in 1..Len(msgs)
      /\ \A k \in 1..Len(msgs') : msgs'[k] = msgs[k + 1] /\ k + 1 \in 1..Len(msgs)
      /\ UNCHANGED mSessionBiDict
      /\ (\E ok \in BOOLEAN : Answered(m, ok)) \/ Unanswered(m)
  BY Processed
<1>2. {tracking, sessions, niResponse} \subseteq Queue
  BY DEF ClientTypes, Types
<1> HIDE DEF m
<1>3. m.cmd # "ni" => QueueHas(m.session)
  BY <1>1 DEF QueueHas
<1>4. ASSUME NEW ok \in BOOLEAN, Answered(m, ok)
      PROVE  /\ running' \subseteq running \cup (IF m.cmd = "ni" THEN {} ELSE {m.session})
             /\ tracking'.session = tracking.session /\ sessions'.session = sessions.session
             /\ niResponse'.session = niResponse.session
             /\ niResponse'.reqs # <<>> => niResponse.reqs # <<>>
             /\ handling' = NULL \/ (handling'.session = m.session /\ handling'.want = m.req)
  <2>1. running' \subseteq running \cup (IF m.cmd = "ni" THEN {} ELSE {m.session})
    BY <1>4 DEF Answered
  <2>2. \/ TakenTracking(m.session, m.req, ok) \/ TakenNi(m.session, m.req, ok)
        \/ TakenSession(m.session, m.req, ok) \/ TakenNone(m.session)
    BY <1>4, Taken DEF Answered
  <2>3. CASE TakenTracking(m.session, m.req, ok)
    BY <1>2, <2>1, <2>3, PopTypes DEF TakenTracking, Told
  <2>4. CASE TakenNi(m.session, m.req, ok)
    BY <1>2, <2>1, <2>4, PopTypes DEF TakenNi, Told
  <2>5. CASE TakenSession(m.session, m.req, ok)
    BY <1>2, <2>1, <2>5, PopTypes DEF TakenSession, Told
  <2>6. CASE TakenNone(m.session)
    BY <1>1, <2>1, <2>6 DEF TakenNone
  <2> QED
    BY <2>2, <2>3, <2>4, <2>5, <2>6
<1>5. /\ running' \subseteq running \cup (IF m.cmd = "ni" THEN {} ELSE {m.session})
      /\ tracking'.session = tracking.session /\ sessions'.session = sessions.session
      /\ niResponse'.session = niResponse.session
      /\ niResponse'.reqs # <<>> => niResponse.reqs # <<>>
      /\ handling' = NULL \/ (handling'.session = m.session /\ handling'.want = m.req)
  <2>1. CASE Unanswered(m)
    BY <1>1, <2>1 DEF Unanswered
  <2> QED
    BY <1>1, <1>4, <2>1
<1>6. handling' # NULL /\ handling'.want # "niResponse" => m.cmd # "ni"
  BY <1>1, <1>5 DEF MsgOK
<1>7. ASSUME NEW n \in NiIds PROVE (Used(n)' => Used(n)) /\ (NiUses(n)' => NiUses(n))
  <2>1. Used(n)' <=> \/ n \in running' \/ n = tracking'.session \/ n = sessions'.session
                     \/ QueueHas(n)' \/ DictHas(n)'
                     \/ handling' # NULL /\ handling'.want # "niResponse" /\ handling'.session = n
    BY TracesAfter
  <2>2. NiUses(n)' <=> (niResponse'.session = n /\ niResponse'.reqs # <<>>) \/ NiQueued(n)'
    BY TracesAfter
  <2>3. (QueueHas(n)' => QueueHas(n)) /\ (NiQueued(n)' => NiQueued(n)) /\ (DictHas(n)' => DictHas(n))
    BY <1>1 DEF QueueHas, NiQueued, DictHas
  <2>4. Used(n)' => Used(n)
    BY <1>3, <1>5, <1>6, <2>1, <2>3, TracesAre
  <2>5. NiUses(n)' => NiUses(n)
    BY <1>5, <2>2, <2>3, TracesAre
  <2> QED
    BY <2>4, <2>5
<1> QED
  BY <1>7 DEF TracesApart

LEMMA ResponseApart ==
  ASSUME ClientTypes, ClientTypes', TracesApart, OnResponse
  PROVE  TracesApart'
<1>1. /\ handling' = NULL /\ UNCHANGED <<tracking, sessions, niResponse, msgs, running>>
      /\ RemoveSession(handling.session) \/ UNCHANGED mSessionBiDict
  BY DEF OnResponse
<1>2. \A id \in Ids : mSessionBiDict'[id] = NULL \/ mSessionBiDict'[id] = mSessionBiDict[id]
  BY <1>1 DEF RemoveSession
<1>3. ASSUME NEW n \in NiIds PROVE (Used(n)' => Used(n)) /\ (NiUses(n)' => NiUses(n))
  BY <1>1, <1>2 DEF Used, NiUses
<1> QED
  BY <1>3 DEF TracesApart

LEMMA ApartKept ==
  ASSUME ClientTypes, TracesApart, apart', [Next]_vars
  PROVE  TracesApart'
<1>1. ClientTypes'
  BY TypesStep
<1>2. ASSUME NEW s \in SessionIds, StartTracking(s) PROVE TracesApart'
  BY <1>1, <1>2, StartTrackingApart
<1>3. CASE StopTracking \/ UpdateTrackingOptions
  BY <1>1, <1>3, OfTrackingApart
<1>4. ASSUME NEW n \in NiIds, GnssNiResponse(n) PROVE TracesApart'
  BY <1>1, <1>4, NiTracesApart
<1>5. ASSUME NEW id \in Ids, NEW mode \in SessionModes, NEW s \in SessionIds,
             StartSession(id, mode, s) \/ UpdateBySwitch(id, mode, s)
      PROVE  TracesApart'
  BY <1>1, <1>5, StartSessionApart, BySwitchApart
<1>6. ASSUME NEW id \in Ids, NEW mode \in SessionModes,
             UpdateInPlace(id, mode) \/ UpdateFromNone(id, mode) \/ UpdateToNone(id)
      PROVE  TracesApart'
  BY <1>1, <1>6, InPlaceApart, ModeNoneApart
<1>7. ASSUME NEW id \in Ids, StopSession(id) \/ GetBatchedLocations(id) PROVE TracesApart'
  BY <1>1, <1>7, InPlaceApart, GetBatchedApart
<1>8. CASE ProcMsg \/ OnResponse
  BY <1>1, <1>8, ProcApart, ResponseApart
<1>9. CASE UNCHANGED vars
  BY <1>9 DEF vars, TracesApart, Used, NiUses
<1> QED
  BY <1>2, <1>3, <1>4, <1>5, <1>6, <1>7, <1>8, <1>9 DEF Next

-----------------------------------------------------------------------------
LEMMA ClientStep ==
  ASSUME ClientInv, TracesApart, apart', [Next]_vars
  PROVE  ClientInv'
<1>1. ClientTypes'
  BY TypesStep DEF ClientInv
<1>2. ASSUME NEW s \in SessionIds, StartTracking(s) PROVE ClientInv'
  BY <1>1, <1>2, StartTrackingSafe
<1>3. CASE StopTracking \/ UpdateTrackingOptions
  BY <1>1, <1>3, OfTrackingSafe
<1>4. ASSUME NEW n \in NiIds, GnssNiResponse(n) PROVE ClientInv'
  BY <1>1, <1>4, NiSafe
<1>5. ASSUME NEW id \in Ids, NEW mode \in SessionModes, NEW s \in SessionIds,
             StartSession(id, mode, s) \/ UpdateBySwitch(id, mode, s)
      PROVE  ClientInv'
  BY <1>1, <1>5, StartSessionSafe, BySwitchSafe
<1>6. ASSUME NEW id \in Ids, NEW mode \in SessionModes,
             UpdateInPlace(id, mode) \/ UpdateFromNone(id, mode) \/ UpdateToNone(id)
      PROVE  ClientInv'
  BY <1>1, <1>6, InPlaceSafe, ModeNoneSafe
<1>7. ASSUME NEW id \in Ids, StopSession(id) \/ GetBatchedLocations(id) PROVE ClientInv'
  BY <1>1, <1>7, InPlaceSafe, GetBatchedSafe
<1>8. CASE ProcMsg
  BY <1>1, <1>8, ProcSafe
<1>9. CASE OnResponse
  BY <1>1, <1>9, ResponseSafe
<1>10. CASE UNCHANGED vars
  BY <1>1, <1>10 DEF vars, ClientInv, TrackingApart, Synced, Answering, OneRequest, Stoppable, Known
<1> QED
  BY <1>2, <1>3, <1>4, <1>5, <1>6, <1>7, <1>8, <1>9, <1>10 DEF Next

\* The inductive invariant: as long as no id was in use for a session and a
\* notification at the same time, none is, and requests and messages are in
\* step.
ApartInv == apart => ClientInv /\ TracesApart

LEMMA ApartInvInit == Init => ApartInv
<1> SUFFICES ASSUME Init PROVE ClientInv /\ TracesApart
  BY DEF ApartInv
<1>1. ~\E n \in NiIds : NiUses(n)
  BY ClientAssumption DEF Init, Reset, NiUses
<1> QED
  BY <1>1, ClientInit DEF TracesApart

THEOREM Invariant == Spec => []ApartInv
<1>1. ClientTypes /\ ApartInv /\ [Next]_vars => ApartInv'
  <2> SUFFICES ASSUME ClientTypes, ApartInv, [Next]_vars, apart' PROVE ClientInv' /\ TracesApart'
    BY DEF ApartInv
  <2>1. ClientInv /\ TracesApart
    BY ApartStep DEF ApartInv
  <2> QED
    BY <2>1, ClientStep, ApartKept
<1> QED
  BY <1>1, ApartInvInit, TypesAlways, PTL DEF Spec

\* The request that is told of a response is the one the response is for, as
\* long as no id was in use for a session and a notification at the same
\* time: for tracking and notifications always, for sessions while the client
\* is orderly.  The two counters of the code let an id be in use for both;
\* then ResponseMatches fails.
THEOREM ResponsesMatch == Spec => []ApartMatches
<1>1. ApartInv => ApartMatches
  BY DEF ApartInv, ClientInv, Answering, ApartMatches, ResponseMatches
<1> QED
  BY <1>1, Invariant, PTL

\* A session that runs can be stopped as long as the client is orderly, and no
\* notification took its id: it is tracked with or in the dictionary, or its
\* stop is on the way, or was refused.
THEOREM NoneLost == Spec => []OrderlyLosesNone
<1>1. ASSUME ApartInv PROVE OrderlyLosesNone
  <2> SUFFICES ASSUME orderly, apart, NEW s \in running \ stuck,
                      \A i \in DOMAIN msgs : msgs[i].cmd = "ni" \/ msgs[i].session # s
               PROVE  Known(s)
    BY DEF OrderlyLosesNone, NoLostSession
  <2>1. ClientInv
    BY <1>1 DEF ApartInv
  <2>2. s \in SessionIds /\ DOMAIN msgs = 1..Len(msgs)
    BY <2>1 DEF ClientInv, ClientTypes, Types
  <2>3. ~StopComing(msgs, s)
    BY <2>2 DEF StopComing, IsStop
  <2> QED
    BY <2>1, <2>2, <2>3 DEF ClientInv, Stoppable
<1> QED
  BY <1>1, Invariant, PTL

=============================================================================
