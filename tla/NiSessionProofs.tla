--------------------------- MODULE NiSessionProofs ---------------------------
(***************************************************************************)
(* Proofs about NiSession, for any number of requests.                     *)
(***************************************************************************)
EXTENDS NiSession, TLAPS

Raw(s)      == session[s].rawRequest
IsUsers(a)  == a.resp \in {"ACCEPT", "DENY"}

(***************************************************************************)
(* The inductive invariant.  The sessions and the threads: what a thread   *)
(* waits for is in its session, what a session holds has a thread (or none *)
(* could be created), and it is the youngest request of its kind.          *)
(***************************************************************************)
WaitingOwnsSession ==
  \A r \in Requests : thread[r] \in {"created", "waiting"} => Raw(kind[r]) = r

HeldHasThread ==
  \A s \in Sessions : Raw(s) # NULL =>
    /\ kind[Raw(s)] = s
    /\ thread[Raw(s)] \in {"failed", "created", "waiting"}

HeldIsYoungest ==
  \A s \in Sessions : Raw(s) # NULL =>
    /\ Raw(s) <= reqIDCounter
    /\ \A q \in Notified : kind[q] = s => q <= Raw(s)

IdIsOfKind ==
  \A s \in Sessions : session[s].reqID # NULL =>
    session[s].reqID \in Notified /\ kind[session[s].reqID] = s

FutureIsUnused ==
  \A r \in Requests : r > reqIDCounter => thread[r] = "none" /\ taken[r] = NoAnswer

SessionInv ==
  /\ WaitingOwnsSession
  /\ HeldHasThread
  /\ HeldIsYoungest
  /\ IdIsOfKind
  /\ FutureIsUnused

(***************************************************************************)
(* The answers: a response of the user is in one place at a time, in the   *)
(* handler, in the session of the request it was given to, or with the     *)
(* thread that took it.                                                    *)
(***************************************************************************)
NotTaken(a) == \A q \in Requests : IsUsers(taken[q]) => taken[q].from # a.from

GivenTo(a, s) == a.from \in responded /\ kind[a.from] = s

HandlerHolds ==
  handler.step # "idle" =>
    /\ IsUsers(handler.answer)
    /\ GivenTo(handler.answer, handler.slot)
    /\ NotTaken(handler.answer)
    /\ \A s \in Sessions : session[s].respRecvd /\ IsUsers(session[s].answer) =>
         session[s].answer.from # handler.answer.from

SessionHolds ==
  \A s \in Sessions : session[s].respRecvd /\ IsUsers(session[s].answer) =>
    GivenTo(session[s].answer, s) /\ NotTaken(session[s].answer)

AnswerInv ==
  /\ responded \subseteq Notified
  /\ HandlerHolds
  /\ SessionHolds
  /\ AnswersAreReal

NiInv == TypeOK /\ SessionInv /\ AnswerInv
-----------------------------------------------------------------------------
(***************************************************************************)
(* What the three ways to write a session leave in it.                     *)
(***************************************************************************)
\* Writing one session leaves the other as it is (mNiData's two records).
LEMMA OneSessionWritten ==
  ASSUME session \in [Sessions -> NiSessions],
         NEW s \in Sessions, NEW new \in NiSessions,
         session' = [session EXCEPT ![s] = new]
  PROVE  /\ session' \in [Sessions -> NiSessions]
         /\ session'[s] = new
         /\ \A t \in Sessions \ {s} : session'[t] = session[t]
  OBVIOUS

\* requestNiNotify() writes the request and its identifier.
LEMMA RequestWritten ==
  ASSUME TypeOK, NEW s \in Sessions, RequestNiNotify(s)
  PROVE  /\ reqIDCounter' \in Requests
         /\ session' \in [Sessions -> NiSessions]
         /\ session'[s].rawRequest = reqIDCounter'
         /\ session'[s].reqID = reqIDCounter'
         /\ session'[s].respRecvd = session[s].respRecvd
         /\ session'[s].answer = session[s].answer
         /\ \A t \in Sessions \ {s} : session'[t] = session[t]
<1> DEFINE new == [session[s] EXCEPT !.rawRequest = reqIDCounter',
                                     !.reqID = reqIDCounter']
<1>1. reqIDCounter' \in Requests
  BY NiAssumption DEF RequestNiNotify, TypeOK, Requests
<1>2. session[s] \in NiSessions
  BY DEF TypeOK
<1>3. new \in NiSessions
  BY ONLY <1>1, <1>2 DEF NiSessions
<1>4. session' = [session EXCEPT ![s] = new]
  BY DEF RequestNiNotify, TypeOK
<1>5. new.rawRequest = reqIDCounter' /\ new.reqID = reqIDCounter' /\ new.respRecvd = session[s].respRecvd
      /\ new.answer = session[s].answer
  BY ONLY <1>2 DEF NiSessions
<1> HIDE DEF new
<1> QED BY <1>1, <1>3, <1>4, <1>5, OneSessionWritten DEF TypeOK

\* The response handler sets the flag and the answer.
LEMMA ResponseWritten ==
  ASSUME TypeOK, NEW s \in Sessions, NEW resp \in Responses \cup {"none"},
         Respond(s, resp)
  PROVE  /\ session' \in [Sessions -> NiSessions]
         /\ session'[s].rawRequest = session[s].rawRequest
         /\ session'[s].reqID = session[s].reqID
         /\ session'[s].respRecvd = TRUE
         /\ session'[s].answer = [resp |-> resp, from |-> handler.answer.from]
         /\ \A t \in Sessions \ {s} : session'[t] = session[t]
<1> DEFINE a   == [resp |-> resp, from |-> handler.answer.from]
           new == [session[s] EXCEPT !.respRecvd = TRUE, !.answer = a]
<1>1. a \in Answer
  BY DEF TypeOK, Answer
<1>2. session[s] \in NiSessions
  BY DEF TypeOK
<1>3. new \in NiSessions
  BY ONLY <1>1, <1>2 DEF NiSessions
<1>4. session' = [session EXCEPT ![s] = new]
  BY DEF Respond, TypeOK
<1>5. new.rawRequest = session[s].rawRequest /\ new.reqID = session[s].reqID
      /\ new.respRecvd = TRUE /\ new.answer = a
  BY ONLY <1>2 DEF NiSessions
<1> HIDE DEF new
<1> QED BY <1>3, <1>4, <1>5, OneSessionWritten DEF TypeOK

\* niThreadProc() empties the session and takes the answer if it had a request.
LEMMA SessionLeft ==
  ASSUME TypeOK, NEW r \in Requests, NEW a \in Answer, LeaveSession(r, a)
  PROVE  /\ session' \in [Sessions -> NiSessions]
         /\ session'[kind[r]].rawRequest = NULL
         /\ session'[kind[r]].respRecvd = FALSE
         /\ session'[kind[r]].reqID = session[kind[r]].reqID
         /\ \A t \in Sessions \ {kind[r]} : session'[t] = session[t]
         /\ taken' \in [Requests -> Answer]
         /\ taken'[r] = a \/ taken' = taken
         /\ Raw(kind[r]) # NULL => taken'[r] = a
         /\ \A q \in Requests \ {r} : taken'[q] = taken[q]
<1> DEFINE s   == kind[r]
           new == [session[s] EXCEPT !.respRecvd = FALSE, !.rawRequest = NULL, !.answer = a]
<1>1. s \in Sessions
  BY DEF TypeOK
<1>2. session[s] \in NiSessions
  BY <1>1 DEF TypeOK
<1>3. new \in NiSessions
  BY ONLY <1>2 DEF NiSessions
<1>4. session' = [session EXCEPT ![s] = new]
  BY <1>1 DEF LeaveSession, TypeOK
<1>5. new.rawRequest = NULL /\ new.respRecvd = FALSE /\ new.reqID = session[s].reqID
  BY ONLY <1>2 DEF NiSessions
<1>6. /\ taken' = IF session[s].rawRequest # NULL THEN [taken EXCEPT ![r] = a] ELSE taken
      /\ taken \in [Requests -> Answer]
  BY DEF LeaveSession, TypeOK
<1>7. /\ taken' \in [Requests -> Answer]
      /\ taken'[r] = a \/ taken' = taken
      /\ Raw(s) # NULL => taken'[r] = a
      /\ \A q \in Requests \ {r} : taken'[q] = taken[q]
  BY ONLY <1>6, r \in Requests, a \in Answer DEF Raw
<1> HIDE DEF new
<1> QED BY <1>1, <1>3, <1>4, <1>5, <1>7, OneSessionWritten DEF TypeOK

\* The thread clears the identifier only.
LEMMA IdCleared ==
  ASSUME TypeOK, NEW r \in Requests, NiThreadResets(r)
  PROVE  /\ session' \in [Sessions -> NiSessions]
         /\ \A s \in Sessions : /\ session'[s].rawRequest = session[s].rawRequest
                                /\ session'[s].reqID \in {session[s].reqID, NULL}
                                /\ session'[s].respRecvd = session[s].respRecvd
                                /\ session'[s].answer = session[s].answer
<1> DEFINE s   == kind[r]
           new == [session[s] EXCEPT !.reqID = NULL]
<1>1. s \in Sessions
  BY DEF TypeOK
<1>2. session[s] \in NiSessions
  BY <1>1 DEF TypeOK
<1>3. new \in NiSessions
  BY ONLY <1>2 DEF NiSessions
<1>4. session' = [session EXCEPT ![s] = new]
  BY <1>1 DEF NiThreadResets, TypeOK
<1>5. new.rawRequest = session[s].rawRequest /\ new.respRecvd = session[s].respRecvd
      /\ new.answer = session[s].answer /\ new.reqID = NULL
  BY ONLY <1>2 DEF NiSessions
<1> HIDE DEF new
<1> QED BY <1>1, <1>3, <1>4, <1>5, OneSessionWritten DEF TypeOK

-----------------------------------------------------------------------------
\* The initial state has a type (NiData is zeroed when the adapter is made).
LEMMA NiTypeInit == Init => TypeOK
<1> SUFFICES ASSUME Init PROVE TypeOK
  OBVIOUS
<1>1. NoAnswer \in Answer
  BY DEF NoAnswer, Answer
<1>2. session \in [Sessions -> NiSessions]
  <2> DEFINE empty == [rawRequest |-> NULL, reqID |-> NULL, respRecvd |-> FALSE,
                       answer |-> NoAnswer]
  <2>1. empty \in NiSessions
    BY <1>1 DEF NiSessions
  <2>2. session = [s \in Sessions |-> empty]
    BY DEF Init
  <2> HIDE DEF empty
  <2> QED BY <2>1, <2>2
<1>3. handler \in [step   : {"idle", "accepted", "ignoring", "matched"},
                   slot   : Sessions,
                   answer : Answer]
  BY <1>1 DEF Init, Idle, Sessions
<1>4. /\ kind \in [Requests -> Sessions]
      /\ thread \in [Requests ->
           {"none", "failed", "created", "waiting", "unlocked", "posted", "done"}]
      /\ taken \in [Requests -> Answer]
  BY <1>1 DEF Init, Sessions
<1>5. reqIDCounter \in 0..MaxRequests /\ hasClient \in BOOLEAN /\ responded \subseteq Requests
  <2>1. reqIDCounter = 0 /\ hasClient = FALSE /\ responded = {}
    BY DEF Init
  <2>2. reqIDCounter \in 0..MaxRequests
    BY <2>1, NiAssumption
  <2>3. hasClient \in BOOLEAN /\ responded \subseteq Requests
    BY <2>1
  <2> QED BY <2>2, <2>3
<1> QED BY <1>2, <1>3, <1>4, <1>5 DEF TypeOK

\* Every step of the MsgTask thread and of the NI threads keeps the types.
LEMMA NiTypeStep == TypeOK /\ [Next]_vars => TypeOK'
<1> SUFFICES ASSUME TypeOK, [Next]_vars PROVE TypeOK'
  OBVIOUS
<1>0. Idle \in [step   : {"idle", "accepted", "ignoring", "matched"},
                slot   : Sessions,
                answer : Answer]
  BY DEF Idle, Sessions, NoAnswer, Answer, Responses, NULL
<1>1. ASSUME NEW s \in Sessions, RequestNiNotify(s) PROVE TypeOK'
  <2>1. reqIDCounter' \in Requests /\ session' \in [Sessions -> NiSessions]
    BY <1>1, RequestWritten
  <2>2. kind' \in [Requests -> Sessions]
    BY <1>1, <2>1 DEF RequestNiNotify, TypeOK
  <2>3. thread' \in [Requests ->
          {"none", "failed", "created", "waiting", "unlocked", "posted", "done"}]
    BY <1>1, <2>1 DEF RequestNiNotify, TypeOK
  <2> QED BY <1>1, <2>1, <2>2, <2>3, NiAssumption DEF RequestNiNotify, TypeOK, Requests
<1>2. ASSUME NEW r \in Requests, NEW resp \in {"ACCEPT", "DENY"}, MatchResponse(r, resp)
      PROVE  TypeOK'
  <2>1. [resp |-> resp, from |-> r] \in Answer
    BY DEF Answer, Responses
  <2>2. responded' \subseteq Requests
    BY <1>2 DEF MatchResponse, TypeOK
  <2>3. handler' \in [step   : {"idle", "accepted", "ignoring", "matched"},
                      slot   : Sessions,
                      answer : Answer]
    BY <1>0, <1>2, <2>1 DEF MatchResponse, Sessions
  <2> QED BY <1>2, <2>2, <2>3 DEF MatchResponse, TypeOK
<1>3. CASE LookForSupl
  BY <1>3 DEF LookForSupl, TypeOK
<1>4. CASE IgnoreSupl
  <2>1. session' \in [Sessions -> NiSessions]
    BY <1>4, ResponseWritten DEF IgnoreSupl, Sessions, Responses
  <2> QED BY <1>4, <2>1 DEF IgnoreSupl, TypeOK
<1>5. CASE RecordResponse
  <2>1. handler.slot \in Sessions
    BY DEF TypeOK
  <2>2. session' \in [Sessions -> NiSessions]
    BY <1>5, <2>1, ResponseWritten DEF RecordResponse, TypeOK, Answer
  <2> QED BY <1>0, <1>5, <2>2 DEF RecordResponse, TypeOK
<1>6. ASSUME NEW r \in Requests, NiThreadWaits(r) PROVE TypeOK'
  BY <1>6 DEF NiThreadWaits, TypeOK
<1>7. ASSUME NEW r \in Requests, NiThreadAnswered(r) PROVE TypeOK'
  <2>1. session[kind[r]].answer \in Answer
    BY DEF TypeOK, NiSessions
  <2> QED BY <1>7, <2>1, SessionLeft DEF NiThreadAnswered, TypeOK
<1>8. ASSUME NEW r \in Requests, NiThreadTimesOut(r) PROVE TypeOK'
  <2>1. [resp |-> "NO_RESPONSE", from |-> NULL] \in Answer
    BY DEF Answer, Responses
  <2> QED BY <1>8, <2>1, SessionLeft DEF NiThreadTimesOut, TypeOK
<1>9. ASSUME NEW r \in Requests, NiThreadResets(r) PROVE TypeOK'
  BY <1>9, IdCleared DEF NiThreadResets, TypeOK
<1>10. ASSUME NEW r \in Requests, InformNiResponse(r) PROVE TypeOK'
  BY <1>10 DEF InformNiResponse, TypeOK
<1>11. CASE ChangeClient
  BY <1>11 DEF ChangeClient, TypeOK
<1>12. CASE UNCHANGED vars
  BY <1>12 DEF vars, TypeOK
<1> QED
  BY <1>1, <1>2, <1>3, <1>4, <1>5, <1>6, <1>7, <1>8, <1>9, <1>10, <1>11, <1>12
  DEF Next, HandlerStep, NiThread

(***************************************************************************)
(* Every variable of the NI sessions keeps its type, in every interleaving *)
(* of the MsgTask thread and the NI threads.                               *)
(***************************************************************************)
THEOREM NiTypeCorrect == Spec => []TypeOK
<1> QED BY NiTypeInit, NiTypeStep, PTL DEF Spec

-----------------------------------------------------------------------------
(***************************************************************************)
(* The sessions and their threads.                                         *)
(***************************************************************************)
\* SessionInv gives the property of the runs.
LEMMA SessionInvImplies == SessionInv /\ TypeOK => OneThreadPerSession
<1> SUFFICES ASSUME SessionInv, TypeOK, NEW s \in Sessions
             PROVE  LET r == session[s].rawRequest
                    IN  IF r = NULL THEN Owners(s) = {}
                        ELSE /\ kind[r] = s
                             /\ \/ Owners(s) = {r}
                                \/ Owners(s) = {} /\ thread[r] = "failed"
  BY DEF OneThreadPerSession
<1>1. \A r \in Owners(s) : r \in Requests /\ r = Raw(s)
  BY DEF SessionInv, WaitingOwnsSession, Owners
<1>2. Raw(s) \in Requests \cup {NULL}
  BY DEF TypeOK, NiSessions, Raw
<1>3. NULL \notin Requests
  BY NiAssumption DEF NULL, Requests
<1>4. CASE Raw(s) = NULL
  BY <1>1, <1>3, <1>4 DEF Raw
<1>5. CASE Raw(s) # NULL
  <2>1. kind[Raw(s)] = s /\ thread[Raw(s)] \in {"failed", "created", "waiting"}
    BY <1>5 DEF SessionInv, HeldHasThread
  <2>2. CASE thread[Raw(s)] = "failed"
    <3>1. Owners(s) = {}
      BY <1>1, <2>2 DEF Owners
    <3> QED BY <1>5, <2>1, <2>2, <3>1 DEF Raw
  <2>3. CASE thread[Raw(s)] \in {"created", "waiting"}
    <3>1. Raw(s) \in Owners(s)
      BY <1>2, <1>5, <2>1, <2>3 DEF Owners
    <3>2. Owners(s) = {Raw(s)}
      BY <1>1, <3>1
    <3> QED BY <1>5, <2>1, <3>2 DEF Raw
  <2> QED BY <2>1, <2>2, <2>3
<1> QED BY <1>4, <1>5

\* A step that moves no request in or out of a session keeps SessionInv.
LEMMA SessionInvKept ==
  ASSUME TypeOK, SessionInv,
         \A s \in Sessions : /\ session'[s].rawRequest = session[s].rawRequest
                             /\ session'[s].reqID \in {session[s].reqID, NULL},
         kind' = kind, reqIDCounter' = reqIDCounter, taken' = taken,
         \A r \in Requests :
           \/ thread'[r] = thread[r]
           \/ thread[r] = "created" /\ thread'[r] = "waiting"
           \/ thread[r] = "unlocked" /\ thread'[r] \in {"posted", "done"}
           \/ thread[r] = "posted" /\ thread'[r] = "done"
  PROVE  SessionInv'
<1>1. \A s \in Sessions : Raw(s)' = Raw(s) /\ Raw(s) \in Requests \cup {NULL}
  BY DEF Raw, TypeOK, NiSessions
<1>2. WaitingOwnsSession'
  BY <1>1 DEF SessionInv, WaitingOwnsSession, TypeOK
<1>3. HeldHasThread'
  <2> SUFFICES ASSUME NEW s \in Sessions, Raw(s) # NULL
               PROVE  /\ kind[Raw(s)] = s
                      /\ thread'[Raw(s)] \in {"failed", "created", "waiting"}
    BY <1>1 DEF HeldHasThread
  <2>1. Raw(s) \in Requests
    BY <1>1
  <2> QED BY <2>1 DEF SessionInv, HeldHasThread
<1>4. HeldIsYoungest'
  BY <1>1 DEF SessionInv, HeldIsYoungest, Notified
<1>5. FutureIsUnused'
  BY DEF SessionInv, FutureIsUnused
<1>6. IdIsOfKind'
  BY DEF SessionInv, IdIsOfKind, Notified
<1> QED BY <1>2, <1>3, <1>4, <1>5, <1>6 DEF SessionInv

\* A new request is the youngest and finds its session empty.
LEMMA SessionInvRequest ==
  ASSUME TypeOK, SessionInv,
         NEW s \in Sessions, RequestNiNotify(s)
  PROVE  SessionInv'
<1> DEFINE new == reqIDCounter'
<1>0. Requests \subseteq Nat /\ NULL = 0
  BY NiAssumption DEF Requests, NULL
<1>1. new \in Requests /\ new = reqIDCounter + 1 /\ reqIDCounter \in Nat
  <2>1. new \in Requests
    BY RequestWritten
  <2>2. new = reqIDCounter + 1
    BY DEF RequestNiNotify
  <2>3. reqIDCounter \in Nat
    BY NiAssumption DEF TypeOK
  <2> QED BY <2>1, <2>2, <2>3
<1>2. /\ Raw(s) = NULL /\ Raw(s)' = new
      /\ \A t \in Sessions \ {s} : Raw(t)' = Raw(t)
      /\ \A t \in Sessions : Raw(t) \in Requests \cup {NULL}
  <2>1. Raw(s) = NULL
    BY DEF Raw, RequestNiNotify, Free
  <2>2. Raw(s)' = new /\ \A t \in Sessions \ {s} : Raw(t)' = Raw(t)
    BY RequestWritten DEF Raw
  <2>3. \A t \in Sessions : Raw(t) \in Requests \cup {NULL}
    BY DEF Raw, TypeOK, NiSessions
  <2> QED BY <2>1, <2>2, <2>3
<1>3. /\ kind'[new] = s
      /\ \A r \in Requests \ {new} : kind'[r] = kind[r] /\ thread'[r] = thread[r]
      /\ thread'[new] \in {"created", "failed"}
      /\ taken' = taken
  BY <1>1 DEF RequestNiNotify, TypeOK
<1>4. \A t \in Sessions : Raw(t) # NULL => Raw(t) # new /\ Raw(t) <= reqIDCounter
  BY <1>0, <1>1, <1>2 DEF SessionInv, HeldIsYoungest
<1> HIDE DEF new
<1>5. WaitingOwnsSession'
  <2> SUFFICES ASSUME NEW r \in Requests, thread'[r] \in {"created", "waiting"}
               PROVE  session'[kind'[r]].rawRequest = r
    BY DEF WaitingOwnsSession, Raw
  <2>1. CASE r = new
    BY <1>2, <1>3, <2>1 DEF Raw
  <2>2. CASE r # new
    <3>1. kind[r] \in Sessions /\ Raw(kind[r]) = r /\ kind'[r] = kind[r]
      BY <1>3, <2>2 DEF SessionInv, WaitingOwnsSession, TypeOK
    <3>2. NULL \notin Requests
      BY NiAssumption DEF NULL, Requests
    <3>3. kind[r] # s
      BY <1>2, <3>1, <3>2
    <3> QED BY <1>2, <3>1, <3>3 DEF Raw
  <2> QED BY <2>1, <2>2
<1>6. HeldHasThread'
  <2> SUFFICES ASSUME NEW t \in Sessions, Raw(t)' # NULL
               PROVE  /\ kind'[Raw(t)'] = t
                      /\ thread'[Raw(t)'] \in {"failed", "created", "waiting"}
    BY DEF HeldHasThread, Raw
  <2>1. CASE t = s
    BY <1>2, <1>3, <2>1
  <2>2. CASE t # s
    BY <1>2, <1>3, <1>4, <2>2 DEF SessionInv, HeldHasThread
  <2> QED BY <2>1, <2>2
<1>7. HeldIsYoungest'
  <2> SUFFICES ASSUME NEW t \in Sessions, Raw(t)' # NULL
               PROVE  /\ Raw(t)' <= new
                      /\ \A q \in Requests : q <= new /\ kind'[q] = t => q <= Raw(t)'
    <3>1. HeldIsYoungest' <=>
            \A t \in Sessions : Raw(t)' # NULL =>
              /\ Raw(t)' <= new
              /\ \A q \in Notified' : kind'[q] = t => q <= Raw(t)'
      BY DEF HeldIsYoungest, new, Raw
    <3>2. Notified' = {q \in Requests : q <= new}
      BY DEF Notified, new
    <3> QED BY <3>1, <3>2
  <2>1. CASE t = s
    BY <1>0, <1>1, <1>2, <2>1 DEF Raw
  <2>2. CASE t # s
    <3>1. Raw(t)' = Raw(t) /\ Raw(t) \in Requests /\ Raw(t) <= reqIDCounter
      BY <1>2, <1>4, <2>2
    <3>2. ASSUME NEW q \in Requests, q <= new, kind'[q] = t PROVE q <= Raw(t)
      <4>1. q # new
        BY <1>3, <2>2, <3>2
      <4>2. q \in Notified /\ kind[q] = t
        BY <1>0, <1>1, <1>3, <3>2, <4>1 DEF Notified
      <4> QED BY <1>2, <2>2, <4>2 DEF SessionInv, HeldIsYoungest
    <3>3. Raw(t) \in Nat
      BY <1>0, <3>1
    <3>4. Raw(t) <= new
      BY <1>1, <3>1, <3>3
    <3>5. Raw(t)' <= new
      BY <3>1, <3>4
    <3>6. \A q \in Requests : q <= new /\ kind'[q] = t => q <= Raw(t)'
      BY <3>1, <3>2
    <3> QED BY <3>5, <3>6
  <2> QED BY <2>1, <2>2
<1>8. FutureIsUnused'
  <2> SUFFICES ASSUME NEW r \in Requests, r > new
               PROVE  thread'[r] = "none" /\ taken[r] = NoAnswer
    BY <1>3 DEF FutureIsUnused, new
  <2>1. r # new /\ r > reqIDCounter
    BY <1>0, <1>1
  <2> QED BY <1>3, <2>1 DEF SessionInv, FutureIsUnused
<1>9. IdIsOfKind'
  <2> SUFFICES ASSUME NEW t \in Sessions, session'[t].reqID # NULL
               PROVE  /\ session'[t].reqID \in Requests /\ session'[t].reqID <= new
                      /\ kind'[session'[t].reqID] = t
    BY DEF IdIsOfKind, Notified, new
  <2>1. CASE t = s
    <3>1. session'[t].reqID = new
      BY <2>1, RequestWritten DEF new
    <3> QED BY <1>0, <1>1, <1>3, <2>1, <3>1
  <2>2. CASE t # s
    <3> DEFINE id == session[t].reqID
    <3>1. session'[t].reqID = id
      BY <2>2, RequestWritten
    <3>2. id \in Requests /\ id <= reqIDCounter /\ kind[id] = t
      BY <3>1 DEF SessionInv, IdIsOfKind, Notified
    <3> HIDE DEF id
    <3>3. id # new /\ id <= new
      BY <1>0, <1>1, <3>2
    <3> QED BY <1>3, <3>1, <3>2, <3>3
  <2> QED BY <2>1, <2>2
<1> QED BY <1>5, <1>6, <1>7, <1>8, <1>9 DEF SessionInv

\* A thread that leaves empties the session it owned.
LEMMA SessionInvLeave ==
  ASSUME TypeOK, SessionInv,
         NEW r \in Requests, NEW a \in Answer, LeaveSession(r, a),
         thread[r] \in {"created", "waiting"},
         thread' = [thread EXCEPT ![r] = "unlocked"],
         kind' = kind, reqIDCounter' = reqIDCounter
  PROVE  SessionInv'
<1> DEFINE s == kind[r]
<1>1. /\ s \in Sessions
      /\ Raw(s) = r /\ Raw(s)' = NULL
      /\ \A t \in Sessions \ {s} : Raw(t)' = Raw(t)
      /\ \A t \in Sessions : Raw(t) \in Requests \cup {NULL}
      /\ \A q \in Requests \ {r} : thread'[q] = thread[q] /\ taken'[q] = taken[q]
      /\ thread'[r] = "unlocked"
  <2>1. s \in Sessions
    BY DEF TypeOK
  <2>2. Raw(s) = r
    BY DEF SessionInv, WaitingOwnsSession
  <2>3. /\ Raw(s)' = NULL
        /\ \A t \in Sessions \ {s} : Raw(t)' = Raw(t)
        /\ \A q \in Requests \ {r} : taken'[q] = taken[q]
    BY SessionLeft DEF Raw
  <2>4. \A t \in Sessions : Raw(t) \in Requests \cup {NULL}
    BY DEF Raw, TypeOK, NiSessions
  <2>5. thread'[r] = "unlocked" /\ \A q \in Requests \ {r} : thread'[q] = thread[q]
    BY DEF TypeOK
  <2> QED BY <2>1, <2>2, <2>3, <2>4, <2>5
<1>2. WaitingOwnsSession'
  <2> SUFFICES ASSUME NEW q \in Requests, thread'[q] \in {"created", "waiting"}
               PROVE  session'[kind[q]].rawRequest = q
    BY DEF WaitingOwnsSession, Raw
  <2>1. q # r /\ kind[q] \in Sessions /\ Raw(kind[q]) = q
    BY <1>1 DEF SessionInv, WaitingOwnsSession, TypeOK
  <2> QED BY <1>1, <2>1 DEF Raw
<1>3. HeldHasThread'
  <2> SUFFICES ASSUME NEW t \in Sessions, Raw(t)' # NULL
               PROVE  /\ kind[Raw(t)'] = t
                      /\ thread'[Raw(t)'] \in {"failed", "created", "waiting"}
    BY DEF HeldHasThread, Raw
  <2>1. t # s /\ Raw(t)' = Raw(t)
    BY <1>1
  <2>2. kind[Raw(t)] = t /\ thread[Raw(t)] \in {"failed", "created", "waiting"}
    BY <2>1 DEF SessionInv, HeldHasThread
  <2> QED BY <1>1, <2>1, <2>2
<1>4. HeldIsYoungest'
  BY <1>1 DEF SessionInv, HeldIsYoungest, Notified, Raw
<1>5. FutureIsUnused'
  BY <1>1 DEF SessionInv, FutureIsUnused
<1>6. IdIsOfKind'
  <2>1. \A t \in Sessions : session'[t].reqID = session[t].reqID
    BY SessionLeft
  <2> QED BY <2>1 DEF SessionInv, IdIsOfKind, Notified
<1> QED BY <1>2, <1>3, <1>4, <1>5, <1>6 DEF SessionInv

\* Every step keeps the sessions and their threads together.
LEMMA SessionInvStep ==
  TypeOK /\ SessionInv /\ [Next]_vars
    => SessionInv'
<1> SUFFICES ASSUME TypeOK, SessionInv, [Next]_vars
             PROVE  SessionInv'
  OBVIOUS
<1> DEFINE Kept == SessionInv'
<1>1. ASSUME NEW s \in Sessions, RequestNiNotify(s) PROVE Kept
  BY <1>1, SessionInvRequest
<1>2. ASSUME NEW r \in Requests, NEW resp \in {"ACCEPT", "DENY"}, MatchResponse(r, resp)
      PROVE  Kept
  BY <1>2, SessionInvKept DEF MatchResponse
<1>3. CASE LookForSupl
  BY <1>3, SessionInvKept DEF LookForSupl
<1>4. CASE IgnoreSupl
  <2>1. \A s \in Sessions : /\ session'[s].rawRequest = session[s].rawRequest
                            /\ session'[s].reqID = session[s].reqID
    BY <1>4, ResponseWritten DEF IgnoreSupl, Sessions, Responses
  <2> QED BY <1>4, <2>1, SessionInvKept DEF IgnoreSupl
<1>5. CASE RecordResponse
  <2>1. \A s \in Sessions : /\ session'[s].rawRequest = session[s].rawRequest
                            /\ session'[s].reqID = session[s].reqID
    BY <1>5, ResponseWritten DEF RecordResponse, TypeOK, Answer
  <2> QED BY <1>5, <2>1, SessionInvKept DEF RecordResponse
<1>6. ASSUME NEW r \in Requests, NiThreadWaits(r) PROVE Kept
  BY <1>6, SessionInvKept DEF NiThreadWaits, TypeOK
<1>7. ASSUME NEW r \in Requests, NiThreadAnswered(r) PROVE Kept
  <2>1. session[kind[r]].answer \in Answer
    BY DEF TypeOK, NiSessions
  <2> QED BY <1>7, <2>1, SessionInvLeave DEF NiThreadAnswered
<1>8. ASSUME NEW r \in Requests, NiThreadTimesOut(r) PROVE Kept
  <2>1. [resp |-> "NO_RESPONSE", from |-> NULL] \in Answer
    BY DEF Answer, Responses
  <2> QED BY <1>8, <2>1, SessionInvLeave DEF NiThreadTimesOut
<1>9. ASSUME NEW r \in Requests, NiThreadResets(r) PROVE Kept
  <2>1. \A s \in Sessions : /\ session'[s].rawRequest = session[s].rawRequest
                            /\ session'[s].reqID \in {session[s].reqID, NULL}
    BY <1>9, IdCleared
  <2> QED BY <1>9, <2>1, SessionInvKept DEF NiThreadResets, TypeOK
<1>10. ASSUME NEW r \in Requests, InformNiResponse(r) PROVE Kept
  BY <1>10, SessionInvKept DEF InformNiResponse, TypeOK
<1>11. CASE ChangeClient
  BY <1>11, SessionInvKept DEF ChangeClient
<1>12. CASE UNCHANGED vars
  BY <1>12, SessionInvKept DEF vars
<1> QED
  BY <1>1, <1>2, <1>3, <1>4, <1>5, <1>6, <1>7, <1>8, <1>9, <1>10, <1>11, <1>12
  DEF Next, HandlerStep, NiThread

\* Both sessions are empty at first.
LEMMA SessionInvInit == Init => SessionInv
  BY DEF Init, SessionInv, WaitingOwnsSession, HeldHasThread, HeldIsYoungest,
         IdIsOfKind, FutureIsUnused, Raw, Sessions

(***************************************************************************)
(* A session belongs to the one thread of the request it holds, although   *)
(* requestNiNotify() takes no lock (GnssAdapter.cpp:2277-2322).            *)
(***************************************************************************)
THEOREM OneThreadPerSessionAlways == Spec => []OneThreadPerSession
<1> DEFINE IInv == TypeOK /\ SessionInv
<1>1. Init => IInv
  BY NiTypeInit, SessionInvInit
<1>2. IInv /\ [Next]_vars => IInv'
  BY NiTypeStep, SessionInvStep
<1>3. IInv => OneThreadPerSession
  BY SessionInvImplies
<1> HIDE DEF IInv
<1> QED BY <1>1, <1>2, <1>3, PTL DEF Spec

-----------------------------------------------------------------------------
(***************************************************************************)
(* The answers.                                                            *)
(***************************************************************************)
\* A step that moves no answer of the user keeps AnswerInv.
LEMMA AnswerInvKept ==
  ASSUME TypeOK, AnswerInv,
         handler'.step # "idle" => handler.step # "idle"
           /\ handler'.answer = handler.answer /\ handler'.slot = handler.slot,
         \A s \in Sessions :
           session'[s].respRecvd /\ IsUsers(session'[s].answer) =>
             session[s].respRecvd /\ session'[s].answer = session[s].answer,
         taken' = taken, responded' = responded, kind' = kind, reqIDCounter' = reqIDCounter
  PROVE  AnswerInv'
<1>1. (responded \subseteq Notified)'
  BY DEF AnswerInv, Notified
<1>2. HandlerHolds'
  <2> SUFFICES ASSUME handler'.step # "idle"
               PROVE  /\ IsUsers(handler.answer)
                      /\ GivenTo(handler.answer, handler.slot)
                      /\ NotTaken(handler.answer)
                      /\ \A s \in Sessions :
                           session'[s].respRecvd /\ IsUsers(session'[s].answer) =>
                             session'[s].answer.from # handler.answer.from
    BY DEF HandlerHolds, IsUsers, GivenTo, NotTaken
  <2> QED BY DEF AnswerInv, HandlerHolds
<1>3. SessionHolds'
  <2> SUFFICES ASSUME NEW s \in Sessions,
                      session'[s].respRecvd, IsUsers(session'[s].answer)
               PROVE  GivenTo(session'[s].answer, s) /\ NotTaken(session'[s].answer)
    BY DEF SessionHolds, IsUsers, GivenTo, NotTaken
  <2> QED BY DEF AnswerInv, SessionHolds
<1>4. AnswersAreReal'
  BY DEF AnswerInv, AnswersAreReal
<1> QED BY <1>1, <1>2, <1>3, <1>4 DEF AnswerInv

\* A new request has no answer yet, and no answer was given to it.
LEMMA AnswerInvRequest ==
  ASSUME TypeOK, SessionInv, AnswerInv, NEW s \in Sessions, RequestNiNotify(s)
  PROVE  AnswerInv'
<1> DEFINE new == reqIDCounter'
<1>0. Requests \subseteq Nat /\ reqIDCounter \in Nat
  BY NiAssumption DEF Requests, TypeOK
<1>1. /\ new \in Requests
      /\ new = reqIDCounter + 1
      /\ responded' = responded /\ handler' = handler /\ taken' = taken
      /\ handler.step = "idle"
  BY RequestWritten DEF RequestNiNotify, Idle
<1>2. /\ kind' \in [Requests -> Sessions]
      /\ \A q \in Requests \ {new} : kind'[q] = kind[q]
  BY <1>1 DEF RequestNiNotify, TypeOK
<1>3. \A q \in Notified : q \in Requests /\ q # new
  BY <1>0, <1>1 DEF Notified
<1>4. \A q \in responded : q \in Notified /\ kind'[q] = kind[q]
  BY <1>2, <1>3 DEF AnswerInv
<1>5. \A t \in Sessions : /\ session'[t].respRecvd = session[t].respRecvd
                          /\ session'[t].answer = session[t].answer
  BY RequestWritten
<1>6. (responded \subseteq Notified)'
  <2>1. \A q \in Notified : q <= new
    BY <1>0, <1>1 DEF Notified
  <2> QED BY <1>1, <1>4, <2>1 DEF Notified
<1>7. HandlerHolds'
  BY <1>1 DEF HandlerHolds
<1>8. SessionHolds'
  <2> SUFFICES ASSUME NEW t \in Sessions,
                      session[t].respRecvd, IsUsers(session[t].answer)
               PROVE  /\ session[t].answer.from \in responded
                      /\ kind'[session[t].answer.from] = t
                      /\ NotTaken(session[t].answer)
    BY <1>1, <1>5 DEF SessionHolds, IsUsers, GivenTo, NotTaken
  <2> QED BY <1>4 DEF AnswerInv, SessionHolds, GivenTo
<1>9. AnswersAreReal'
  <2> SUFFICES ASSUME NEW r \in Requests, taken[r].resp \in {"ACCEPT", "DENY"}
               PROVE  /\ taken[r].from \in responded
                      /\ kind'[taken[r].from] = kind'[r]
                      /\ taken[r].from <= r
                      /\ \A q \in Requests \ {r} :
                           taken[q].resp \in {"ACCEPT", "DENY"} =>
                             taken[q].from # taken[r].from
    BY <1>1 DEF AnswersAreReal
  <2>1. r # new
    <3>1. ~(r > reqIDCounter)
      BY DEF SessionInv, FutureIsUnused, NoAnswer
    <3> QED BY <1>0, <1>1, <3>1
  <2> QED BY <1>2, <1>4, <2>1 DEF AnswerInv, AnswersAreReal
<1> QED BY <1>6, <1>7, <1>8, <1>9 DEF AnswerInv

\* A response enters the handler once, and is in no other place then.
LEMMA AnswerInvMatch ==
  ASSUME TypeOK, SessionInv, AnswerInv,
         NEW r \in Requests, NEW resp \in {"ACCEPT", "DENY"}, MatchResponse(r, resp)
  PROVE  AnswerInv'
<1> DEFINE a == [resp |-> resp, from |-> r]
<1>1. /\ r \in Notified /\ r \notin responded
      /\ responded' = responded \cup {r}
      /\ session' = session /\ reqIDCounter' = reqIDCounter
      /\ kind' = kind /\ taken' = taken
  BY DEF MatchResponse
<1>2. \A q \in Requests : IsUsers(taken[q]) => taken[q].from # r
  BY <1>1 DEF AnswerInv, AnswersAreReal, IsUsers
<1>3. \A s \in Sessions : session[s].respRecvd /\ IsUsers(session[s].answer) =>
        session[s].answer.from # r
  BY <1>1 DEF AnswerInv, SessionHolds, GivenTo
<1>4. \A s \in Sessions : Active(s, r) => kind[r] = s
  <2>1. r # NULL
    BY NiAssumption DEF Requests, NULL
  <2> QED BY <2>1 DEF SessionInv, IdIsOfKind, Active
<1>5. handler'.step # "idle" =>
        handler'.answer = a /\ handler'.slot \in Sessions /\ kind[r] = handler'.slot
  BY <1>4 DEF MatchResponse, Idle, Sessions
<1>6. a.resp \in {"ACCEPT", "DENY"} /\ a.from = r
  OBVIOUS
<1> HIDE DEF a
<1>7. (responded \subseteq Notified)'
  BY <1>1 DEF AnswerInv, Notified
<1>8. HandlerHolds'
  <2> SUFFICES ASSUME handler'.step # "idle"
               PROVE  /\ IsUsers(handler'.answer)
                      /\ handler'.answer.from \in responded'
                      /\ kind[handler'.answer.from] = handler'.slot
                      /\ \A q \in Requests :
                           IsUsers(taken[q]) => taken[q].from # handler'.answer.from
                      /\ \A s \in Sessions :
                           session[s].respRecvd /\ IsUsers(session[s].answer) =>
                             session[s].answer.from # handler'.answer.from
    BY <1>1 DEF HandlerHolds, IsUsers, GivenTo, NotTaken
  <2>1. IsUsers(handler'.answer)
    BY <1>5, <1>6 DEF IsUsers
  <2> QED BY <1>1, <1>2, <1>3, <1>5, <1>6, <2>1
<1>9. SessionHolds'
  BY <1>1 DEF AnswerInv, SessionHolds, IsUsers, GivenTo, NotTaken
<1>10. AnswersAreReal'
  BY <1>1 DEF AnswerInv, AnswersAreReal
<1> QED BY <1>7, <1>8, <1>9, <1>10 DEF AnswerInv

\* The response moves from the handler to the session it was matched with.
LEMMA AnswerInvRecord ==
  ASSUME TypeOK, AnswerInv, RecordResponse
  PROVE  AnswerInv'
<1> DEFINE a == handler.answer
           s == handler.slot
<1>1. /\ s \in Sessions /\ handler.step # "idle"
      /\ handler'.step = "idle" /\ responded' = responded /\ reqIDCounter' = reqIDCounter
      /\ kind' = kind /\ taken' = taken
  BY DEF RecordResponse, Idle, TypeOK
<1>2. IsUsers(a) /\ GivenTo(a, s) /\ NotTaken(a)
  BY <1>1 DEF AnswerInv, HandlerHolds
<1>3. /\ session'[s].answer = a
      /\ \A t \in Sessions \ {s} : session'[t] = session[t]
  <2>1. a \in Answer
    BY DEF TypeOK
  <2>2. a = [resp |-> a.resp, from |-> a.from]
    BY ONLY <2>1 DEF Answer
  <2>3. a.resp \in Responses \cup {"none"}
    BY ONLY <2>1 DEF Answer
  <2> QED BY <1>1, <2>2, <2>3, ResponseWritten DEF RecordResponse
<1>4. (responded \subseteq Notified)'
  BY <1>1 DEF AnswerInv, Notified
<1>5. HandlerHolds'
  BY <1>1 DEF HandlerHolds
<1> HIDE DEF a, s
<1>6. SessionHolds'
  <2> SUFFICES ASSUME NEW t \in Sessions,
                      session'[t].respRecvd, IsUsers(session'[t].answer)
               PROVE  GivenTo(session'[t].answer, t) /\ NotTaken(session'[t].answer)
    BY <1>1 DEF SessionHolds, IsUsers, GivenTo, NotTaken
  <2>1. CASE t = s
    BY <1>2, <1>3, <2>1
  <2>2. CASE t # s
    BY <1>3, <2>2 DEF AnswerInv, SessionHolds
  <2> QED BY <2>1, <2>2
<1>7. AnswersAreReal'
  BY <1>1 DEF AnswerInv, AnswersAreReal
<1> QED BY <1>4, <1>5, <1>6, <1>7 DEF AnswerInv

\* The thread takes the answer out of the session: the flag is reset with it.
LEMMA AnswerInvLeave ==
  ASSUME TypeOK, SessionInv, AnswerInv,
         NEW r \in Requests, NEW a \in Answer, LeaveSession(r, a),
         thread[r] \in {"created", "waiting"},
         \/ ~IsUsers(a)
         \/ session[kind[r]].respRecvd /\ a = session[kind[r]].answer,
         handler' = handler, responded' = responded, kind' = kind,
         reqIDCounter' = reqIDCounter
  PROVE  AnswerInv'
<1> DEFINE s == kind[r]
<1>0. Requests \subseteq Nat
  BY NiAssumption DEF Requests
<1>1. /\ s \in Sessions /\ Raw(s) = r
      /\ session'[s].respRecvd = FALSE
      /\ \A t \in Sessions \ {s} : session'[t] = session[t]
      /\ taken'[r] = a \/ taken' = taken
      /\ Raw(s) # NULL => taken'[r] = a
      /\ \A q \in Requests \ {r} : taken'[q] = taken[q]
  <2>1. s \in Sessions
    BY DEF TypeOK
  <2>2. Raw(s) = r
    BY DEF SessionInv, WaitingOwnsSession
  <2> QED BY <2>1, <2>2, SessionLeft
<1>2. taken'[r] = a
  <2>1. r # NULL
    BY NiAssumption DEF Requests, NULL
  <2> QED BY <1>1, <2>1
<1>3. ASSUME IsUsers(a)
      PROVE  /\ a.from \in responded /\ kind[a.from] = s
             /\ session[s].respRecvd /\ a = session[s].answer
             /\ \A q \in Requests : IsUsers(taken[q]) => taken[q].from # a.from
  BY <1>1, <1>3 DEF AnswerInv, SessionHolds, GivenTo, NotTaken
<1>4. (responded \subseteq Notified)'
  BY DEF AnswerInv, Notified
<1>5. HandlerHolds'
  <2> SUFFICES ASSUME handler.step # "idle"
               PROVE  /\ IsUsers(handler.answer)
                      /\ GivenTo(handler.answer, handler.slot)
                      /\ \A q \in Requests :
                           IsUsers(taken'[q]) => taken'[q].from # handler.answer.from
                      /\ \A t \in Sessions :
                           session'[t].respRecvd /\ IsUsers(session'[t].answer) =>
                             session'[t].answer.from # handler.answer.from
    BY DEF HandlerHolds, IsUsers, GivenTo, NotTaken
  <2>1. ASSUME NEW q \in Requests, IsUsers(taken'[q])
        PROVE  taken'[q].from # handler.answer.from
    <3>1. CASE q = r
      BY <1>1, <1>2, <1>3, <2>1, <3>1 DEF AnswerInv, HandlerHolds
    <3>2. CASE q # r
      BY <1>1, <2>1, <3>2 DEF AnswerInv, HandlerHolds, NotTaken
    <3> QED BY <3>1, <3>2
  <2>2. ASSUME NEW t \in Sessions, session'[t].respRecvd, IsUsers(session'[t].answer)
        PROVE  session'[t].answer.from # handler.answer.from
    <3>1. t # s
      BY <1>1, <2>2
    <3> QED BY <1>1, <2>2, <3>1 DEF AnswerInv, HandlerHolds
  <2> QED BY <2>1, <2>2 DEF AnswerInv, HandlerHolds
<1>6. SessionHolds'
  <2> SUFFICES ASSUME NEW t \in Sessions,
                      session'[t].respRecvd, IsUsers(session'[t].answer)
               PROVE  /\ GivenTo(session'[t].answer, t)
                      /\ \A q \in Requests :
                           IsUsers(taken'[q]) => taken'[q].from # session'[t].answer.from
    BY DEF SessionHolds, IsUsers, GivenTo, NotTaken
  <2>1. t # s
    BY <1>1
  <2>2. session'[t] = session[t]
    BY <1>1, <2>1
  <2>3. GivenTo(session[t].answer, t) /\ NotTaken(session[t].answer)
    BY <2>2 DEF AnswerInv, SessionHolds
  <2>4. ASSUME NEW q \in Requests, IsUsers(taken'[q])
        PROVE  taken'[q].from # session[t].answer.from
    <3>1. CASE q = r
      BY <1>2, <1>3, <2>1, <2>3, <2>4, <3>1 DEF GivenTo
    <3>2. CASE q # r
      BY <1>1, <2>3, <2>4, <3>2 DEF NotTaken
    <3> QED BY <3>1, <3>2
  <2> QED BY <2>2, <2>3, <2>4
<1>7. AnswersAreReal'
  <2> SUFFICES ASSUME NEW p \in Requests, IsUsers(taken'[p])
               PROVE  /\ taken'[p].from \in responded
                      /\ kind[taken'[p].from] = kind[p]
                      /\ taken'[p].from <= p
                      /\ \A q \in Requests \ {p} :
                           IsUsers(taken'[q]) => taken'[q].from # taken'[p].from
    BY DEF AnswersAreReal, IsUsers
  <2>1. CASE p = r
    <3>1. IsUsers(a) /\ taken'[p] = a
      BY <1>2, <2>1
    <3>2. a.from <= r
      <4>1. a.from \in Notified
        BY <1>3, <3>1 DEF AnswerInv
      <4>2. Raw(s) # NULL
        BY <1>1, NiAssumption DEF Requests, NULL
      <4> QED BY <1>1, <1>3, <3>1, <4>1, <4>2 DEF SessionInv, HeldIsYoungest
    <3>3. \A q \in Requests \ {r} : IsUsers(taken'[q]) => taken'[q].from # a.from
      BY <1>1, <1>3, <3>1
    <3> QED BY <1>3, <2>1, <3>1, <3>2, <3>3
  <2>2. CASE p # r
    <3>1. taken'[p] = taken[p] /\ IsUsers(taken[p])
      BY <1>1, <2>2
    <3>2. /\ taken[p].from \in responded
          /\ kind[taken[p].from] = kind[p]
          /\ taken[p].from <= p
          /\ \A q \in Requests \ {p} : IsUsers(taken[q]) => taken[q].from # taken[p].from
      BY <3>1 DEF AnswerInv, AnswersAreReal, IsUsers
    <3>3. ASSUME NEW q \in Requests \ {p}, IsUsers(taken'[q])
          PROVE  taken'[q].from # taken[p].from
      <4>1. CASE q = r
        BY <1>2, <1>3, <3>1, <3>3, <4>1
      <4>2. CASE q # r
        BY <1>1, <3>2, <3>3, <4>2
      <4> QED BY <4>1, <4>2
    <3> QED BY <3>1, <3>2, <3>3
  <2> QED BY <2>1, <2>2
<1> QED BY <1>4, <1>5, <1>6, <1>7 DEF AnswerInv

\* Every step leaves each response of the user in at most one place.
LEMMA AnswerInvStep ==
  TypeOK /\ SessionInv /\ AnswerInv /\ [Next]_vars => AnswerInv'
<1> SUFFICES ASSUME TypeOK, SessionInv, AnswerInv, [Next]_vars PROVE AnswerInv'
  OBVIOUS
<1>1. ASSUME NEW s \in Sessions, RequestNiNotify(s) PROVE AnswerInv'
  BY <1>1, AnswerInvRequest
<1>2. ASSUME NEW r \in Requests, NEW resp \in {"ACCEPT", "DENY"}, MatchResponse(r, resp)
      PROVE  AnswerInv'
  BY <1>2, AnswerInvMatch
<1>3. CASE LookForSupl
  <2>1. handler.step # "idle" /\ handler'.answer = handler.answer
        /\ handler'.slot = handler.slot
    BY <1>3 DEF LookForSupl, TypeOK
  <2> QED BY <1>3, <2>1, AnswerInvKept DEF LookForSupl
<1>4. CASE IgnoreSupl
  <2>1. handler.step # "idle" /\ handler'.answer = handler.answer
        /\ handler'.slot = handler.slot
    BY <1>4 DEF IgnoreSupl, TypeOK
  <2>2. /\ session'["supl"].answer.resp = "IGNORE"
        /\ session'["es"] = session["es"]
    BY <1>4, ResponseWritten DEF IgnoreSupl, Sessions, Responses
  <2>3. \A s \in Sessions :
          session'[s].respRecvd /\ IsUsers(session'[s].answer) =>
            session[s].respRecvd /\ session'[s].answer = session[s].answer
    BY <2>2 DEF Sessions, IsUsers
  <2> QED BY <1>4, <2>1, <2>3, AnswerInvKept DEF IgnoreSupl
<1>5. CASE RecordResponse
  BY <1>5, AnswerInvRecord
<1>6. ASSUME NEW r \in Requests, NiThreadWaits(r) PROVE AnswerInv'
  BY <1>6, AnswerInvKept DEF NiThreadWaits
<1>7. ASSUME NEW r \in Requests, NiThreadAnswered(r) PROVE AnswerInv'
  <2>1. session[kind[r]].answer \in Answer
    BY DEF TypeOK, NiSessions
  <2> QED BY <1>7, <2>1, AnswerInvLeave DEF NiThreadAnswered
<1>8. ASSUME NEW r \in Requests, NiThreadTimesOut(r) PROVE AnswerInv'
  <2> DEFINE a == [resp |-> "NO_RESPONSE", from |-> NULL]
  <2>1. a \in Answer /\ ~IsUsers(a)
    BY DEF Answer, Responses, IsUsers
  <2> QED BY <1>8, <2>1, AnswerInvLeave DEF NiThreadTimesOut
<1>9. ASSUME NEW r \in Requests, NiThreadResets(r) PROVE AnswerInv'
  <2>1. \A s \in Sessions : /\ session'[s].respRecvd = session[s].respRecvd
                            /\ session'[s].answer = session[s].answer
    BY <1>9, IdCleared
  <2> QED BY <1>9, <2>1, AnswerInvKept DEF NiThreadResets
<1>10. ASSUME NEW r \in Requests, InformNiResponse(r) PROVE AnswerInv'
  BY <1>10, AnswerInvKept DEF InformNiResponse
<1>11. CASE ChangeClient
  BY <1>11, AnswerInvKept DEF ChangeClient
<1>12. CASE UNCHANGED vars
  BY <1>12, AnswerInvKept DEF vars
<1> QED
  BY <1>1, <1>2, <1>3, <1>4, <1>5, <1>6, <1>7, <1>8, <1>9, <1>10, <1>11, <1>12
  DEF Next, HandlerStep, NiThread

\* There is no answer at first.
LEMMA AnswerInvInit == Init => AnswerInv
  BY DEF Init, AnswerInv, HandlerHolds, SessionHolds, AnswersAreReal, Idle, NoAnswer, Sessions

(***************************************************************************)
(* What the modem is told as the user's answer was given to a request of   *)
(* the same session, this one or an earlier one, and is told once          *)
(* (GnssAdapter.cpp:1725-1749 and 2216-2247 in any interleaving).          *)
(***************************************************************************)
THEOREM AnswersAreRealAlways == Spec => []AnswersAreReal
<1>1. Init => NiInv
  BY NiTypeInit, SessionInvInit, AnswerInvInit DEF NiInv
<1>2. NiInv /\ [Next]_vars => NiInv'
  BY NiTypeStep, SessionInvStep, AnswerInvStep DEF NiInv
<1>3. NiInv => AnswersAreReal
  BY DEF NiInv, AnswerInv
<1> QED BY <1>1, <1>2, <1>3, PTL DEF Spec
=============================================================================
