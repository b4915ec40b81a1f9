------------------------------ MODULE NiSession ------------------------------
(***************************************************************************)
(* Network initiated (NI) requests of the modem: GnssAdapter's two         *)
(* NiSession records, one for SUPL and one for emergency SUPL, shared by   *)
(* the MsgTask thread, which handles the modem's notifications and the     *)
(* client's responses, and one NI thread per request, which waits for the  *)
(* response or times out (gnss/GnssAdapter.cpp, GnssAdapter.h).            *)
(*                                                                         *)
(* The handlers of the MsgTask thread read a session without its lock, so  *)
(* a response is handled in the steps the other thread can come between;   *)
(* what a thread does while it holds the lock is one step.  A request is   *)
(* known by the reqID it gets; the length of the wait is not modelled.     *)
(***************************************************************************)
EXTENDS Integers

CONSTANT MaxRequests    \* bound: NI requests the modem makes

ASSUME NiAssumption == MaxRequests \in Nat

Requests  == 1..MaxRequests
NULL      == 0
Sessions  == {"supl", "es"}

Responses == {"ACCEPT", "DENY", "NO_RESPONSE", "IGNORE"}

(***************************************************************************)
(* A response and, for the properties, the request whose notification it   *)
(* was given to ("from", NULL for a timeout).                              *)
(***************************************************************************)
Answer   == [resp : Responses \cup {"none"}, from : Requests \cup {NULL}]
NoAnswer == [resp |-> "none", from |-> NULL]

NiSessions == [rawRequest : Requests \cup {NULL},
               reqID      : Requests \cup {NULL},
               respRecvd  : BOOLEAN,
               answer     : Answer]

VARIABLES
  session,       \* mNiData.session and mNiData.sessionEs
  reqIDCounter,  \* mNiData.reqIDCounter
  hasClient,     \* a client with a gnssNiCb is registered
  responded,     \* notifications the client has responded to
  handler,       \* where the MsgTask thread is in a response handler
  kind,          \* the session each request was given
  thread,        \* where the NI thread of each request is
  taken          \* what that thread took from the session as the answer

vars == <<session, reqIDCounter, hasClient, responded, handler, kind, thread, taken>>

Idle == [step |-> "idle", slot |-> "supl", answer |-> NoAnswer]

Notified == {r \in Requests : r <= reqIDCounter}

-----------------------------------------------------------------------------
(***************************************************************************)
(* requestNiNotify().  A notification that finds no client, or its session *)
(* busy, changes nothing and is no action; if the thread cannot be created *)
(* the request stays in the session.                                       *)
(***************************************************************************)
\* Fault: a request in progress is not looked for.
AlwaysFree(s) == s = "supl" => session["es"].rawRequest = NULL

Free(s) ==
  /\ session[s].rawRequest = NULL
  /\ s = "supl" => session["es"].rawRequest = NULL

RequestNiNotify(s) ==
  /\ handler = Idle
  /\ hasClient
  /\ Free(s)
  /\ reqIDCounter < MaxRequests
  /\ reqIDCounter' = reqIDCounter + 1
  /\ session' = [session EXCEPT ![s].rawRequest = reqIDCounter',
                                ![s].reqID = reqIDCounter']
  /\ kind' = [kind EXCEPT ![reqIDCounter'] = s]
  /\ \E created \in {"created", "failed"} :
       thread' = [thread EXCEPT ![reqIDCounter'] = created]
  /\ UNCHANGED <<hasClient, responded, handler, taken>>

-----------------------------------------------------------------------------
(***************************************************************************)
(* gnssNiResponseCommand(client, id, response), on the MsgTask thread.     *)
(***************************************************************************)
Active(s, r) == session[s].reqID = r /\ session[s].rawRequest # NULL

\* The session is looked up, without the lock.
MatchResponse(r, resp) ==
  /\ handler = Idle
  /\ r \in Notified \ responded
  /\ responded' = responded \cup {r}
  /\ handler' =
       CASE ~hasClient -> Idle                       \* LOCATION_ERROR_ID_UNKNOWN
         [] hasClient /\ Active("es", r) ->
              [step   |-> IF resp = "ACCEPT" THEN "accepted" ELSE "matched",
               slot   |-> "es",
               answer |-> [resp |-> resp, from |-> r]]
         [] hasClient /\ ~Active("es", r) /\ Active("supl", r) ->
              [step |-> "matched", slot |-> "supl", answer |-> [resp |-> resp, from |-> r]]
         [] OTHER -> Idle
  /\ UNCHANGED <<session, reqIDCounter, hasClient, kind, thread, taken>>

\* An accepted emergency request looks for a SUPL one, again without the lock.
LookForSupl ==
  /\ handler.step = "accepted"
  /\ handler' = [handler EXCEPT !.step =
                   IF session["supl"].rawRequest # NULL THEN "ignoring" ELSE "matched"]
  /\ UNCHANGED <<session, reqIDCounter, hasClient, responded, kind, thread, taken>>

\* The answer that a locked section of the handler leaves in session s.
Respond(s, resp) ==
  session' = [session EXCEPT
                ![s].respRecvd = TRUE,
                ![s].answer = [resp |-> resp, from |-> handler.answer.from]]

IgnoreSupl ==
  /\ handler.step = "ignoring"
  /\ Respond("supl", "IGNORE")
  /\ handler' = [handler EXCEPT !.step = "matched"]
  /\ UNCHANGED <<reqIDCounter, hasClient, responded, kind, thread, taken>>

RecordResponse ==
  /\ handler.step = "matched"
  /\ Respond(handler.slot, handler.answer.resp)
  /\ handler' = Idle
  /\ UNCHANGED <<reqIDCounter, hasClient, responded, kind, thread, taken>>

-----------------------------------------------------------------------------
(***************************************************************************)
(* niThreadProc(), the NI thread of request r.                             *)
(***************************************************************************)
\* The thread takes the lock and finds no response yet.
NiThreadWaits(r) ==
  /\ thread[r] = "created"
  /\ ~session[kind[r]].respRecvd
  /\ thread' = [thread EXCEPT ![r] = "waiting"]
  /\ UNCHANGED <<session, reqIDCounter, hasClient, responded, handler, kind, taken>>

\* Fault: the flag is not reset for the next session.
FaultyLeaveSession(r, answer) ==
  LET s == kind[r]
  IN  /\ session' = [session EXCEPT ![s].rawRequest = NULL, ![s].answer = answer]
      /\ taken' = IF session[s].rawRequest # NULL
                  THEN [taken EXCEPT ![r] = answer]
                  ELSE taken

\* The locked section after the wait, with the answer the wait ended with.
LeaveSession(r, answer) ==
  LET s == kind[r]
  IN  /\ session' = [session EXCEPT ![s].respRecvd = FALSE,
                                    ![s].rawRequest = NULL,
                                    ![s].answer = answer]
      /\ taken' = IF session[s].rawRequest # NULL
                  THEN [taken EXCEPT ![r] = answer]
                  ELSE taken

NiThreadAnswered(r) ==
  /\ thread[r] \in {"created", "waiting"}
  /\ session[kind[r]].respRecvd
  /\ LeaveSession(r, session[kind[r]].answer)
  /\ thread' = [thread EXCEPT ![r] = "unlocked"]
  /\ UNCHANGED <<reqIDCounter, hasClient, responded, handler, kind>>

\* Fault: the thread goes on waiting after the timeout.
FaultyTimesOut(r) ==
  /\ thread[r] = "waiting"
  /\ session' = [session EXCEPT ![kind[r]].answer = [resp |-> "NO_RESPONSE", from |-> NULL]]
  /\ UNCHANGED <<reqIDCounter, hasClient, responded, handler, kind, thread, taken>>

\* pthread_cond_timedwait() returns ETIMEDOUT, whether or not a response came.
NiThreadTimesOut(r) ==
  /\ thread[r] = "waiting"
  /\ LeaveSession(r, [resp |-> "NO_RESPONSE", from |-> NULL])
  /\ thread' = [thread EXCEPT ![r] = "unlocked"]
  /\ UNCHANGED <<reqIDCounter, hasClient, responded, handler, kind>>

\* Fault: the identifier is invalidated with -1.
FaultyReset(r) ==
  /\ thread[r] = "unlocked"
  /\ session' = [session EXCEPT ![kind[r]].reqID = -1]
  /\ thread' = [thread EXCEPT ![r] =
                  IF taken[r].resp \in {"none", "IGNORE"} THEN "done" ELSE "posted"]
  /\ UNCHANGED <<reqIDCounter, hasClient, responded, handler, kind, taken>>

\* After the lock is released: the identifier is cleared, the answer posted.
NiThreadResets(r) ==
  /\ thread[r] = "unlocked"
  /\ session' = [session EXCEPT ![kind[r]].reqID = NULL]
  /\ thread' = [thread EXCEPT ![r] =
                  IF taken[r].resp \in {"none", "IGNORE"} THEN "done" ELSE "posted"]
  /\ UNCHANGED <<reqIDCounter, hasClient, responded, handler, kind, taken>>

\* gnssNiResponseCommand(response, rawRequest): the modem is informed.
InformNiResponse(r) ==
  /\ handler = Idle
  /\ thread[r] = "posted"
  /\ thread' = [thread EXCEPT ![r] = "done"]
  /\ UNCHANGED <<session, reqIDCounter, hasClient, responded, handler, kind, taken>>

-----------------------------------------------------------------------------
\* addClientCommand() and removeClientCommand() of the client with a gnssNiCb.
ChangeClient ==
  /\ handler = Idle
  /\ hasClient' = ~hasClient
  /\ UNCHANGED <<session, reqIDCounter, responded, handler, kind, thread, taken>>

Init ==
  /\ session = [s \in Sessions |->
                  [rawRequest |-> NULL, reqID |-> NULL, respRecvd |-> FALSE,
                   answer |-> NoAnswer]]
  /\ reqIDCounter = 0
  /\ hasClient = FALSE
  /\ responded = {}
  /\ handler = Idle
  /\ kind = [r \in Requests |-> "supl"]
  /\ thread = [r \in Requests |-> "none"]
  /\ taken = [r \in Requests |-> NoAnswer]

\* The rest of a response handler, once it has begun.
HandlerStep == LookForSupl \/ IgnoreSupl \/ RecordResponse

NiThread(r) ==
  \/ NiThreadWaits(r)
  \/ NiThreadAnswered(r)
  \/ NiThreadTimesOut(r)
  \/ NiThreadResets(r)

Next ==
  \/ \E s \in Sessions : RequestNiNotify(s)
  \/ \E r \in Requests, resp \in {"ACCEPT", "DENY"} : MatchResponse(r, resp)
  \/ HandlerStep
  \/ \E r \in Requests : NiThread(r) \/ InformNiResponse(r)
  \/ ChangeClient

Spec == Init /\ [][Next]_vars

(***************************************************************************)
(* Fairness: the MsgTask thread finishes the handler it is in and handles  *)
(* the answers posted to it, and the NI threads run; a wait ends at the    *)
(* latest with its timeout.                                                *)
(***************************************************************************)
Fairness ==
  /\ WF_vars(HandlerStep)
  /\ \A r \in Requests : WF_vars(NiThread(r)) /\ WF_vars(InformNiResponse(r))

FairSpec == Spec /\ Fairness
-----------------------------------------------------------------------------
(***************************************************************************)
(* Properties                                                              *)
(***************************************************************************)
\* Every variable has its type.
TypeOK ==
  /\ session \in [Sessions -> NiSessions]
  /\ reqIDCounter \in 0..MaxRequests
  /\ hasClient \in BOOLEAN
  /\ responded \subseteq Requests
  /\ handler \in [step   : {"idle", "accepted", "ignoring", "matched"},
                  slot   : Sessions,
                  answer : Answer]
  /\ kind \in [Requests -> Sessions]
  /\ thread \in [Requests ->
       {"none", "failed", "created", "waiting", "unlocked", "posted", "done"}]
  /\ taken \in [Requests -> Answer]

\* The requests of session s whose thread has not left it yet.
Owners(s) == {r \in Requests : kind[r] = s /\ thread[r] \in {"created", "waiting"}}

(***************************************************************************)
(* Although neither thread locks what it checks first, a session belongs   *)
(* to the thread of the request it holds: no second thread waits on it,    *)
(* none waits on an empty one, and a request is held without a thread only *)
(* when the thread could not be created (GnssAdapter.cpp:2277-2322).  So   *)
(* the raw request is sent or freed exactly once.                          *)
(***************************************************************************)
OneThreadPerSession ==
  \A s \in Sessions :
    LET r == session[s].rawRequest
    IN  IF r = NULL THEN Owners(s) = {}
        ELSE kind[r] = s /\ (Owners(s) = {r} \/ (Owners(s) = {} /\ thread[r] = "failed"))

(***************************************************************************)
(* What the modem is told as the user's answer was given by the user to a  *)
(* request of the same session, to that request or to an earlier one, and  *)
(* one response of the user answers at most one request, whatever the      *)
(* order of response, timeout and reset (GnssAdapter.cpp:1725, 2216-2247). *)
(***************************************************************************)
AnswersAreReal ==
  \A r \in Requests : taken[r].resp \in {"ACCEPT", "DENY"} =>
    /\ taken[r].from \in responded
    /\ kind[taken[r].from] = kind[r]
    /\ taken[r].from <= r
    /\ \A q \in Requests \ {r} :
         taken[q].resp \in {"ACCEPT", "DENY"} => taken[q].from # taken[r].from

(***************************************************************************)
(* Every request that got a thread is finished: answered to the modem, or  *)
(* ignored for an accepted emergency request ("to timeout to clear up the  *)
(* notification status", GnssAdapter.cpp:2309).                            *)
(***************************************************************************)
EveryNiEnds ==
  \A r \in Requests : thread[r] = "created" ~> thread[r] = "done"

(***************************************************************************)
(* GnssAdapter.cpp:2228: "Reset the user response flag for the next        *)
(* session": so the answer of one request is not that of the next.         *)
(***************************************************************************)
AnswerIsForItsRequest ==
  \A r \in Requests : taken[r].resp \in {"ACCEPT", "DENY"} => taken[r].from = r
=============================================================================
