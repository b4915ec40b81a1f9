--------------------------- MODULE LocationClient ---------------------------
(***************************************************************************)
(* The requests of one client and the responses to them                    *)
(* (location/LocationAPIClientBase.cpp and .h), with the adapters that     *)
(* answer: GnssAdapter for tracking, an FLP adapter outside this tree for  *)
(* batching.                                                               *)
(*                                                                         *)
(* The client's calls hold mMutex from the call of the LocationAPI to the  *)
(* push of the request, so each is one step.  It posts a message for the   *)
(* MsgTask thread, which handles it and calls back with a response: the    *)
(* request is taken from a queue under mMutex (ProcMsg), and served after  *)
(* it is released (OnResponse), with calls of the client in between.       *)
(*                                                                         *)
(* A request is taken by its position in a queue.  What the properties ask *)
(* is whether it is the one the response is for; to tell, a message        *)
(* carries the request it was posted with ("req").                         *)
(***************************************************************************)
EXTENDS Naturals, Sequences

CONSTANTS
  Ids,         \* the client's ids of its sessions
  SessionIds,  \* session ids of the adapters (an id is used again when no
               \* trace of it is left: it stands for a new one)
  NiIds,       \* ids of NI notifications, which the client responds to: the
               \* adapter counts them apart from sessions, so one may be both
  SessionModes,\* modes the client uses: subset of {"NONE", "ON_FULL", "ON_FIX"}
  NoSession,   \* session id 0
  MaxMsgs,     \* bound: the client waits while that many messages are queued
  MaxReqs      \* bound: or that many of its requests are without a response

ASSUME ClientAssumption ==
  /\ NoSession \notin SessionIds \cup NiIds
  /\ SessionModes \subseteq {"NONE", "ON_FULL", "ON_FIX"}
  /\ MaxMsgs \in Nat /\ MaxReqs \in Nat \ {0}

NULL == [none |-> TRUE]

VARIABLES
  mTracking,
  tracking,    \* mRequestQueues[REQUEST_TRACKING]: its session, its requests
  sessions,    \* mRequestQueues[REQUEST_SESSION]
  niResponse,  \* mRequestQueues[REQUEST_NIRESPONSE]
  mSessionBiDict, \* the session entity of each id, or NULL
  msgs,        \* messages of the client for the adapters, in order
  running,     \* sessions the adapters run
  stuck,       \* for the properties: sessions an adapter refused to stop
  handling,    \* the response the MsgTask thread is delivering, or NULL
  orderly,     \* for the properties: so far the client has waited for the
               \* response to a session call before the next one, has not used
               \* mode NONE, and asked for locations of its sessions only
  apart        \* for the properties: so far no id was in use for a session and
               \* for a notification at the same time

vars == <<mTracking, tracking, sessions, niResponse, mSessionBiDict, msgs, running, stuck, handling,
          orderly, apart>>

Requests == {"startTracking", "stopTracking", "updateTracking", "startBatching", "stopBatching",
             "updateBatching", "getBatched", "niResponse"}

Queue   == [session : SessionIds \cup NiIds \cup {NoSession}, reqs : Seq(Requests)]

\* The session it is stored under is the one of its mode.
Entity ==
  {e \in [session : SessionIds \cup {NoSession}, trackingSession : SessionIds \cup {NoSession},
          batchingSession : SessionIds \cup {NoSession}, sessionMode : {"NONE", "ON_FULL", "ON_FIX"}] :
     e.session = IF e.sessionMode = "ON_FULL" THEN e.batchingSession ELSE e.trackingSession}

\* req is "none" for a message the client pushes no request for.
Msg == [cmd : {"start", "stop", "update", "get", "ni"}, session : SessionIds \cup NiIds \cup {NoSession},
        req : Requests \cup {"none"}]

ZeroEntity == [session |-> NoSession, trackingSession |-> NoSession, batchingSession |-> NoSession, sessionMode |-> "NONE"]

-----------------------------------------------------------------------------
(***************************************************************************)
(* Request queues and the dictionary.  An entity of session 0 is stored,   *)
(* but getExtById() finds nothing for it.                                  *)
(***************************************************************************)
Push(q, req)      == [q EXCEPT !.reqs = Append(@, req)]
Reset(session)    == [session |-> session, reqs |-> <<>>]
GetExtById(id)    == IF mSessionBiDict[id].session = NoSession THEN ZeroEntity ELSE mSessionBiDict[id]
HasSession(dict, session) == \E id \in Ids : dict[id] # NULL /\ dict[id].session = session

RemoveSession(session) ==
  mSessionBiDict' = [id \in Ids |->
    IF mSessionBiDict[id] # NULL /\ mSessionBiDict[id].session = session
      THEN NULL ELSE mSessionBiDict[id]]

Post(m) == Len(msgs) < MaxMsgs /\ msgs' = Append(msgs, m)

Message(cmd, session, req) == [cmd |-> cmd, session |-> session, req |-> req]

\* Where there is a trace of a session, and of a notification.
Used(s) ==
  \/ s \in running \cup {tracking.session, sessions.session}
  \/ \E i \in DOMAIN msgs : msgs[i].cmd # "ni" /\ msgs[i].session = s
  \/ \E id \in Ids : mSessionBiDict[id] # NULL /\
       s \in {mSessionBiDict[id].trackingSession, mSessionBiDict[id].batchingSession}
  \/ handling # NULL /\ handling.want # "niResponse" /\ handling.session = s

NiUses(n) ==
  \/ niResponse.session = n /\ niResponse.reqs # <<>>
  \/ \E i \in DOMAIN msgs : msgs[i].cmd = "ni" /\ msgs[i].session = n

\* A session, or a notification, begins to use its id.
BeginsSession(s) == apart' = (apart /\ ~NiUses(s))
BeginsNi(n)      == apart' = (apart /\ ~Used(n))

\* generateSessionId()
NewSession(s) == s \in SessionIds /\ ~Used(s)

-----------------------------------------------------------------------------
(***************************************************************************)
(* Tracking.                                                               *)
(***************************************************************************)
\* Fault: the requests of the previous session stay in the queue.
StartTrackingKeeps(s) ==
  /\ ~mTracking /\ NewSession(s)
  /\ Post(Message("start", s, "startTracking"))
  /\ tracking' = [session |-> s, reqs |-> Append(tracking.reqs, "startTracking")]
  /\ mTracking' = TRUE
  /\ UNCHANGED <<sessions, niResponse, mSessionBiDict, running, stuck, handling, orderly>>
  /\ BeginsSession(s)

\* A second start, while mTracking, does nothing.
StartTracking(s) ==
  /\ ~mTracking /\ NewSession(s)
  /\ Post(Message("start", s, "startTracking"))
  /\ tracking' = Push(Reset(s), "startTracking")
  /\ mTracking' = TRUE
  /\ UNCHANGED <<sessions, niResponse, mSessionBiDict, running, stuck, handling, orderly>>
  /\ BeginsSession(s)

StopTracking ==
  /\ tracking.session # NoSession /\ Len(tracking.reqs) < MaxReqs
  /\ tracking' = Push(tracking, "stopTracking")
  /\ Post(Message("stop", tracking.session, "stopTracking"))
  /\ mTracking' = FALSE
  /\ UNCHANGED <<sessions, niResponse, mSessionBiDict, running, stuck, handling, orderly, apart>>

UpdateTrackingOptions ==
  /\ tracking.session # NoSession /\ Len(tracking.reqs) < MaxReqs
  /\ tracking' = Push(tracking, "updateTracking")
  /\ Post(Message("update", tracking.session, "updateTracking"))
  /\ UNCHANGED <<mTracking, sessions, niResponse, mSessionBiDict, running, stuck, handling, orderly, apart>>

GnssNiResponse(id) ==
  /\ Post(Message("ni", id, "niResponse"))
  /\ niResponse' = Push(Reset(id), "niResponse")
  /\ UNCHANGED <<mTracking, tracking, sessions, mSessionBiDict, running, stuck, handling, orderly>>
  /\ BeginsNi(id)

-----------------------------------------------------------------------------
(***************************************************************************)
(* Sessions: an id of the client stands for a tracking session (ON_FIX) or *)
(* a batching session (ON_FULL); an update may switch from one to the      *)
(* other.                                                                  *)
(***************************************************************************)
SessionCall(isOrderly) ==
  /\ Len(sessions.reqs) < MaxReqs
  /\ orderly' = (orderly /\ isOrderly /\ sessions.reqs = <<>> /\ handling = NULL)

Kind(call, mode) == CASE mode = "ON_FIX"  -> (CASE call = "start"  -> "startTracking"
                                                [] call = "stop"   -> "stopTracking"
                                                [] call = "update" -> "updateTracking")
                      [] mode = "ON_FULL" -> (CASE call = "start"  -> "startBatching"
                                                [] call = "stop"   -> "stopBatching"
                                                [] call = "update" -> "updateBatching")

\* Fault: the session of a batching entity is its tracking session.
NewEntityTracking(mode, s) ==
  [session |-> IF mode = "ON_FIX" THEN s ELSE NoSession,
   trackingSession |-> IF mode = "ON_FIX" THEN s ELSE NoSession,
   batchingSession |-> IF mode = "ON_FULL" THEN s ELSE NoSession,
   sessionMode |-> mode]

NewEntity(mode, s) ==
  CASE mode = "ON_FIX"  -> [session |-> s, trackingSession |-> s, batchingSession |-> NoSession,
                            sessionMode |-> mode]
    [] mode = "ON_FULL" -> [session |-> s, trackingSession |-> NoSession, batchingSession |-> s,
                            sessionMode |-> mode]
    [] mode = "NONE"    -> ZeroEntity

\* The queue's session is the last batching session started.
AfterStart(mode, s) ==
  IF mode = "ON_FULL" THEN [sessions EXCEPT !.session = s] ELSE sessions

\* An id that is in the dictionary gets LOCATION_ERROR_ALREADY_STARTED.
StartSession(id, mode, s) ==
  /\ SessionCall(mode # "NONE") /\ mSessionBiDict[id] = NULL /\ NewSession(s)
  /\ mSessionBiDict' = [mSessionBiDict EXCEPT ![id] = NewEntity(mode, s)]
  /\ IF mode = "NONE" THEN UNCHANGED <<msgs, sessions>>
     ELSE /\ Post(Message("start", s, Kind("start", mode)))
          /\ sessions' = Push(AfterStart(mode, s), Kind("start", mode))
  /\ UNCHANGED <<mTracking, tracking, niResponse, running, stuck, handling>>
  /\ BeginsSession(s)

\* The entity stays in the dictionary until the response.
StopSession(id) ==
  /\ SessionCall(TRUE) /\ mSessionBiDict[id] # NULL
  /\ LET e == GetExtById(id) IN
       /\ e.sessionMode # "NONE"
       /\ Post(Message("stop", e.session, Kind("stop", e.sessionMode)))
       /\ sessions' = Push(sessions, Kind("stop", e.sessionMode))
  /\ UNCHANGED <<mTracking, tracking, niResponse, mSessionBiDict, running, stuck, handling, apart>>

\* Same mode: the adapter updates the session.
UpdateInPlace(id, mode) ==
  /\ SessionCall(TRUE) /\ mSessionBiDict[id] # NULL
  /\ mode # "NONE" /\ GetExtById(id).sessionMode = mode
  /\ Post(Message("update", GetExtById(id).session, Kind("update", mode)))
  /\ sessions' = Push(sessions, Kind("update", mode))
  /\ UNCHANGED <<mTracking, tracking, niResponse, mSessionBiDict, running, stuck, handling, apart>>

\* Fault: the entity of the old session stays in the dictionary.
UpdateBySwitchKeeps(id, mode, s) ==
  /\ SessionCall(TRUE) /\ mSessionBiDict[id] # NULL /\ NewSession(s)
  /\ LET e == GetExtById(id) IN
       /\ {mode, e.sessionMode} = {"ON_FIX", "ON_FULL"}
       /\ Len(msgs) < MaxMsgs
       /\ msgs' = msgs \o <<Message("stop", e.session, "none"), Message("start", s, Kind("update", mode))>>
       /\ sessions' = Push(AfterStart(mode, s), Kind("update", mode))
  /\ UNCHANGED <<mTracking, tracking, niResponse, mSessionBiDict, running, stuck, handling>>
  /\ BeginsSession(s)

\* Other mode: the old session is stopped, without a request for it, and a
\* new one takes its place.
UpdateBySwitch(id, mode, s) ==
  /\ SessionCall(TRUE) /\ mSessionBiDict[id] # NULL /\ NewSession(s)
  /\ LET e == GetExtById(id) IN
       /\ {mode, e.sessionMode} = {"ON_FIX", "ON_FULL"}
       /\ Len(msgs) < MaxMsgs
       /\ msgs' = msgs \o <<Message("stop", e.session, "none"), Message("start", s, Kind("update", mode))>>
       /\ sessions' = IF mode = "ON_FULL" THEN Push([sessions EXCEPT !.session = s], Kind("update", mode))
                      ELSE Push([sessions EXCEPT !.session = NoSession], Kind("update", mode))
  /\ mSessionBiDict' = [mSessionBiDict EXCEPT ![id] = NewEntity(mode, s)]
  /\ UNCHANGED <<mTracking, tracking, niResponse, running, stuck, handling>>
  /\ BeginsSession(s)

\* From mode NONE: a request is pushed, the adapters are not called.
UpdateFromNone(id, mode) ==
  /\ SessionCall(FALSE) /\ mSessionBiDict[id] # NULL /\ mode # "NONE"
  /\ LET e == GetExtById(id) IN
       /\ e.sessionMode = "NONE"
       /\ mSessionBiDict' = [mSessionBiDict EXCEPT ![id] =
            [e EXCEPT !.sessionMode = mode,
                      !.session = IF mode = "ON_FIX" THEN e.trackingSession ELSE e.batchingSession]]
  /\ sessions' = Push(sessions, Kind("update", mode))
  /\ UNCHANGED <<mTracking, tracking, niResponse, msgs, running, stuck, handling, apart>>

\* To mode NONE: the sessions are left alone, a batching session forgotten.
UpdateToNone(id) ==
  /\ SessionCall(FALSE) /\ mSessionBiDict[id] # NULL
  /\ mSessionBiDict' = [mSessionBiDict EXCEPT ![id] =
       [GetExtById(id) EXCEPT !.sessionMode = "NONE", !.session = GetExtById(id).trackingSession]]
  /\ UNCHANGED <<mTracking, tracking, sessions, niResponse, msgs, running, stuck, handling, apart>>

\* getExtById() of an id that is not there stores it, with session 0.
GetBatchedLocations(id) ==
  /\ SessionCall(mSessionBiDict[id] # NULL) /\ sessions.session # NoSession
  /\ LET e == IF mSessionBiDict[id] = NULL THEN ZeroEntity ELSE GetExtById(id) IN
       Post(Message("get", e.batchingSession, "getBatched"))
  /\ sessions' = Push(sessions, "getBatched")
  /\ mSessionBiDict' = [mSessionBiDict EXCEPT ![id] = IF @ = NULL THEN ZeroEntity ELSE @]
  /\ UNCHANGED <<mTracking, tracking, niResponse, running, stuck, handling, apart>>

-----------------------------------------------------------------------------
(***************************************************************************)
(* The adapters.  A start, and an NI response, is always answered; a call  *)
(* for a session that does not run is not answered at all.  An adapter may *)
(* refuse.                                                                 *)
(***************************************************************************)
Pop(q) == [q EXCEPT !.reqs = Tail(@)]

\* getRequestBySession(): the queue whose session it is, else the dictionary.
TakeRequest(session, want, ok) ==
  IF tracking.session = session /\ tracking.reqs # <<>> THEN
       /\ tracking' = Pop(tracking)
       /\ handling' = [session |-> session, ok |-> ok, want |-> want, req |-> Head(tracking.reqs),
                     queue |-> "tracking"]
       /\ UNCHANGED <<sessions, niResponse>>
  ELSE IF tracking.session # session /\ niResponse.session = session /\ niResponse.reqs # <<>> THEN
       /\ niResponse' = Pop(niResponse)
       /\ handling' = [session |-> session, ok |-> ok, want |-> want, req |-> Head(niResponse.reqs),
                     queue |-> "ni"]
       /\ UNCHANGED <<tracking, sessions>>
  ELSE IF HasSession(mSessionBiDict, session) /\ sessions.reqs # <<>> THEN
       /\ sessions' = Pop(sessions)
       /\ handling' = [session |-> session, ok |-> ok, want |-> want, req |-> Head(sessions.reqs),
                     queue |-> "session"]
       /\ UNCHANGED <<tracking, niResponse>>
  ELSE UNCHANGED <<tracking, sessions, niResponse, handling>>

ProcMsg ==
  /\ handling = NULL /\ msgs # <<>> /\ msgs' = Tail(msgs)
  /\ LET m == Head(msgs) IN
       \/ m.cmd = "start" /\ \E ok \in BOOLEAN :
            /\ running' = IF ok THEN running \cup {m.session} ELSE running
            /\ TakeRequest(m.session, m.req, ok) /\ UNCHANGED stuck
       \/ m.cmd = "stop" /\ m.session \in running /\ \E ok \in BOOLEAN :
            /\ running' = IF ok THEN running \ {m.session} ELSE running
            /\ stuck' = IF ok THEN stuck \ {m.session} ELSE stuck \cup {m.session}
            /\ TakeRequest(m.session, m.req, ok)
       \/ m.cmd \in {"update", "get"} /\ m.session \in running /\ \E ok \in BOOLEAN :
            TakeRequest(m.session, m.req, ok) /\ UNCHANGED <<running, stuck>>
       \/ m.cmd \in {"stop", "update", "get"} /\ m.session \notin running
            /\ UNCHANGED <<tracking, sessions, niResponse, running, stuck, handling>>
       \/ m.cmd = "ni" /\ \E ok \in BOOLEAN :
            TakeRequest(m.session, m.req, ok) /\ UNCHANGED <<running, stuck>>
  /\ UNCHANGED <<mTracking, mSessionBiDict, orderly, apart>>

OnResponse ==
  /\ handling # NULL /\ handling' = NULL
  /\ IF handling.req \in {"stopTracking", "stopBatching"} /\ handling.ok
       THEN RemoveSession(handling.session) ELSE UNCHANGED mSessionBiDict
  /\ UNCHANGED <<mTracking, tracking, sessions, niResponse, msgs, running, stuck, orderly, apart>>

-----------------------------------------------------------------------------
Init ==
  /\ mTracking = FALSE
  /\ tracking = Reset(NoSession) /\ sessions = Reset(NoSession) /\ niResponse = Reset(NoSession)
  /\ mSessionBiDict = [id \in Ids |-> NULL]
  /\ msgs = <<>>
  /\ running = {}
  /\ stuck = {}
  /\ handling = NULL
  /\ orderly = TRUE
  /\ apart = TRUE

Next ==
  \/ \E s \in SessionIds : StartTracking(s)
  \/ StopTracking \/ UpdateTrackingOptions
  \/ \E n \in NiIds : GnssNiResponse(n)
  \/ \E id \in Ids, mode \in SessionModes :
       \/ \E s \in SessionIds : StartSession(id, mode, s) \/ UpdateBySwitch(id, mode, s)
       \/ UpdateInPlace(id, mode) \/ UpdateFromNone(id, mode)
       \/ mode = "NONE" /\ UpdateToNone(id)
  \/ \E id \in Ids : StopSession(id) \/ GetBatchedLocations(id)
  \/ ProcMsg \/ OnResponse

Spec == Init /\ [][Next]_vars

-----------------------------------------------------------------------------
Handling == [session : SessionIds \cup NiIds, ok : BOOLEAN, want : Requests \cup {"none"}, req : Requests,
             queue : {"tracking", "ni", "session"}]

TypeOK ==
  /\ mTracking \in BOOLEAN
  /\ {tracking, sessions, niResponse} \subseteq Queue
  /\ Len(tracking.reqs) <= MaxReqs /\ Len(sessions.reqs) <= MaxReqs
  /\ mSessionBiDict \in [Ids -> Entity \cup {NULL}]
  /\ msgs \in Seq(Msg)
  /\ running \subseteq SessionIds /\ stuck \subseteq running
  /\ handling \in Handling \cup {NULL}
  /\ orderly \in BOOLEAN /\ apart \in BOOLEAN

(***************************************************************************)
(* The session id is "used in the responseCallback to match command with   *)
(* response" (LocationAPI.h): the request that is told of a response is    *)
(* the one the response is for.  For sessions, which share a queue, when   *)
(* the client is orderly.                                                  *)
(*                                                                         *)
(* ResponseMatches is false: getRequestBySession() looks notifications and *)
(* sessions up by one id, which two counters give out.  It is true as long *)
(* as no id is in use for both (ApartMatches).                             *)
(***************************************************************************)
ResponseMatches ==
  handling # NULL =>
    handling.req = handling.want \/ (handling.queue = "session" /\ ~orderly)

ApartMatches == apart => ResponseMatches

(***************************************************************************)
(* A session an adapter runs, with no message for it on the way, can still *)
(* be stopped: the client tracks with it, or has it in its dictionary;     *)
(* unless the adapter refused to stop it.                                  *)
(***************************************************************************)
Known(s) ==
  \/ mTracking /\ tracking.session = s
  \/ HasSession(mSessionBiDict, s)

NoLostSession ==
  \A s \in running \ stuck :
    (\A i \in DOMAIN msgs : msgs[i].cmd = "ni" \/ msgs[i].session # s) => Known(s)

\* It holds for an orderly client, as long as no notification has the id of a
\* session: the response to one would be taken for a response to its stop.
OrderlyLosesNone == orderly /\ apart => NoLostSession

=============================================================================
