---------------------------- MODULE GnssTracking ----------------------------
(***************************************************************************)
(* Time based tracking: the clients of the LocationAPI, GnssAdapter's      *)
(* clients and tracking sessions, and the one engine they share            *)
(* (location/LocationAPI.cpp, gnss/GnssAdapter.cpp, core/LocApiBase.cpp).  *)
(*                                                                         *)
(* Clients call the LocationAPI on their own threads; a call posts one     *)
(* message.  The MsgTask thread handles the messages in order, one handler *)
(* to a step.  The engine belongs to the modem: it may refuse a command,   *)
(* and it may go down and come back, with the commands of the clients      *)
(* queued before and after.                                                *)
(***************************************************************************)
EXTENDS Naturals, FiniteSets, Sequences

CONSTANTS
  Clients,        \* instances of LocationAPI
  Sessions,       \* ids of tracking sessions (an id is used again when no
                  \* trace of it is left: it stands for a new one)
  Owner,          \* the client each id is generated for
  Intervals,      \* values of LocationOptions.minInterval
  Modes,          \* values of LocationOptions.mode
  CallbackSets,   \* sets of callbacks that are registered
  MayRegister,    \* those each client may register
  NULL,
  MaxQueue        \* bound: callers wait while that many messages are queued

\* Options of a session; those of a caller may have size zero (NULL).
Options   == [minInterval : Intervals, mode : Modes]
Callbacks == {"tracking", "measurements", "sv", "ni"}

\* The removal of a client: its sessions that are still to be stopped.
Removal   == [client : Clients, todo : SUBSET Sessions]

ASSUME TrackingAssumption ==
  /\ Owner \in [Sessions -> Clients]
  /\ Intervals \subseteq Nat
  /\ \A cbs \in CallbackSets : cbs \subseteq Callbacks \cup {"batching"}
  /\ MayRegister \in [Clients -> SUBSET CallbackSets]
  /\ NULL \notin Options /\ NULL \notin CallbackSets /\ NULL \notin Removal
  /\ \A cbs \in SUBSET Callbacks : cbs # NULL
  /\ MaxQueue \in Nat

VARIABLES
  clientData,  \* LocationAPI's gData.clientData: the callbacks of each instance
  mClientData, \* GnssAdapter's mClientData
  mTrackingSessions,
  mEvtMask,    \* the adapter's event mask
  msgs,        \* the MsgTask queue
  engine,      \* the modem: up or down, the fix it runs, the events it reports
  fix,         \* for the properties: what became of the fix when the engine
               \* went down: "kept" (or started again), "lost", "abandoned"
  stopFailed,  \* for the properties: sessions the engine refused to stop
  dropped,     \* for the properties: instances that had callbacks of the gnss
               \* interface, and have exchanged them for others
  removing     \* the client the MsgTask thread is removing, and its sessions
               \* still to be stopped

vars == <<clientData, mClientData, mTrackingSessions, mEvtMask, msgs, engine, fix, stopFailed,
          dropped, removing>>

Active == {s \in Sessions : mTrackingSessions[s] # NULL}

\* The options with the smallest interval of some sessions.
Smallest(S) == CHOOSE s \in S : \A r \in S :
                 mTrackingSessions[s].minInterval <= mTrackingSessions[r].minInterval

IsGnssClient(cbs) == cbs \cap {"ni", "tracking", "measurements"} # {}

-----------------------------------------------------------------------------
(***************************************************************************)
(* Messages and the calls of the LocationAPI that post them.  The FLP and  *)
(* geofence interfaces are not loaded: every call is for the gnss one.     *)
(***************************************************************************)
Msg == [type : {"addClient"}, client : Clients, cbs : SUBSET Callbacks]
         \cup [type : {"removeClient"}, client : Clients]
         \cup [type : {"start", "update"}, session : Sessions, options : Options \cup {NULL}]
         \cup [type : {"stop"}, session : Sessions]
         \cup [type : {"open"}, mask : SUBSET Callbacks]
         \cup [type : {"ssr", "restart"}]

Post(m) == Len(msgs) < MaxQueue /\ msgs' = Append(msgs, m)

Queued(s) == \E i \in DOMAIN msgs : msgs[i].type \in {"start", "update", "stop"} /\ msgs[i].session = s

CreateInstance(c, cbs) ==
  /\ clientData[c] = NULL
  /\ clientData' = [clientData EXCEPT ![c] = cbs]
  /\ dropped' = IF IsGnssClient(cbs) THEN dropped \ {c} ELSE dropped
  /\ IF IsGnssClient(cbs)
       THEN Post([type |-> "addClient", client |-> c, cbs |-> cbs \cap Callbacks])
       ELSE UNCHANGED msgs
  /\ UNCHANGED <<mClientData, mTrackingSessions, mEvtMask, engine, fix, stopFailed, removing>>

UpdateCallbacks(c, cbs) ==
  /\ clientData[c] # NULL
  /\ clientData' = [clientData EXCEPT ![c] = cbs]
  /\ dropped' = IF IsGnssClient(cbs) THEN dropped \ {c}
                ELSE IF IsGnssClient(clientData[c]) THEN dropped \cup {c} ELSE dropped
  /\ IF IsGnssClient(cbs)
       THEN Post([type |-> "addClient", client |-> c, cbs |-> cbs \cap Callbacks])
       ELSE UNCHANGED msgs
  /\ UNCHANGED <<mClientData, mTrackingSessions, mEvtMask, engine, fix, stopFailed, removing>>

\* Fault: the client is not removed from the interface.
DestroyForgets(c) ==
  /\ clientData[c] # NULL
  /\ clientData' = [clientData EXCEPT ![c] = NULL]
  /\ UNCHANGED <<mClientData, mTrackingSessions, mEvtMask, msgs, engine, fix, stopFailed, dropped, removing>>

\* The interfaces are those of the callbacks registered last.
Destroy(c) ==
  /\ clientData[c] # NULL
  /\ clientData' = [clientData EXCEPT ![c] = NULL]
  /\ IF IsGnssClient(clientData[c])
       THEN Post([type |-> "removeClient", client |-> c])
       ELSE UNCHANGED msgs
  /\ UNCHANGED <<mClientData, mTrackingSessions, mEvtMask, engine, fix, stopFailed, dropped, removing>>

StartTracking(s, options) ==
  /\ clientData[Owner[s]] # NULL
  /\ mTrackingSessions[s] = NULL /\ ~Queued(s)
  /\ Post([type |-> "start", session |-> s, options |-> options])
  /\ UNCHANGED <<clientData, mClientData, mTrackingSessions, mEvtMask, engine, fix, stopFailed, dropped, removing>>

\* A client has the ids of its sessions, and of those whose start is queued.
UpdateTrackingOptions(s, options) ==
  /\ clientData[Owner[s]] # NULL
  /\ mTrackingSessions[s] # NULL \/ Queued(s)
  /\ Post([type |-> "update", session |-> s, options |-> options])
  /\ UNCHANGED <<clientData, mClientData, mTrackingSessions, mEvtMask, engine, fix, stopFailed, dropped, removing>>

StopTracking(s) ==
  /\ clientData[Owner[s]] # NULL
  /\ mTrackingSessions[s] # NULL \/ Queued(s)
  /\ Post([type |-> "stop", session |-> s])
  /\ UNCHANGED <<clientData, mClientData, mTrackingSessions, mEvtMask, engine, fix, stopFailed, dropped, removing>>

-----------------------------------------------------------------------------
(***************************************************************************)
(* The engine.  mLocApi->startFix() and stopFix() answer at once whether   *)
(* they succeeded ("ok"); an engine that is down refuses, and one that     *)
(* refuses leaves everything as it was.  The ULP proxy is the base class,  *)
(* which handles nothing itself.                                           *)
(***************************************************************************)
RunFix(options, ok) ==
  /\ ok \in BOOLEAN /\ (ok => engine.up)
  /\ engine' = IF ok THEN [engine EXCEPT !.fix = options] ELSE engine
  /\ fix' = IF ok THEN "kept" ELSE fix

StartFix(options, ok) == RunFix(options, ok)
StopFix(ok)           == RunFix(NULL, ok)
LeaveFix(ok)          == ok = TRUE /\ UNCHANGED <<engine, fix>>

-----------------------------------------------------------------------------
(***************************************************************************)
(* Multiplexing: the engine runs one fix for all the sessions.             *)
(***************************************************************************)
StartMultiplex(options, ok) ==
  IF Active = {} \/ options.minInterval < mTrackingSessions[Smallest(Active)].minInterval
    THEN StartFix(options, ok)
    ELSE LeaveFix(ok)

\* Fault: a session that slows down never gives the engine to the next one.
UpdateMultiplexKeeps(s, options, ok) ==
  IF Active = {s} \/ options.minInterval < mTrackingSessions[Smallest(Active \ {s})].minInterval
    THEN StartFix(options, ok)
    ELSE LeaveFix(ok)

UpdateMultiplex(s, options, ok) ==
  IF Active = {s} THEN StartFix(options, ok)
  ELSE LET other == mTrackingSessions[Smallest(Active \ {s})] IN
       IF options.minInterval < other.minInterval THEN StartFix(options, ok)
       ELSE IF mTrackingSessions[s].minInterval < other.minInterval THEN StartFix(other, ok)
       ELSE LeaveFix(ok)

StopMultiplex(s, ok) ==
  IF Active = {s} THEN StopFix(ok)
  ELSE LET other == mTrackingSessions[Smallest(Active \ {s})] IN
       IF mTrackingSessions[s].minInterval < other.minInterval THEN StartFix(other, ok)
       ELSE LeaveFix(ok)

-----------------------------------------------------------------------------
(***************************************************************************)
(* Handlers of the MsgTask thread.  Responses to the client are left out.  *)
(***************************************************************************)
Handle(type) == removing = NULL /\ msgs # <<>> /\ Head(msgs).type = type
Done         == msgs' = Tail(msgs)

EventMask(data) == UNION {data[c] : c \in {d \in Clients : data[d] # NULL}}

\* The mask is computed, and LocApiBase takes it, when the message is posted.
UpdateClientsEventMask(data) ==
  /\ mEvtMask' = EventMask(data)
  /\ msgs' = Append(Tail(msgs), [type |-> "open", mask |-> EventMask(data)])

AddClient ==
  /\ Handle("addClient")
  /\ LET m == Head(msgs)  data == [mClientData EXCEPT ![m.client] = m.cbs] IN
       mClientData' = data /\ UpdateClientsEventMask(data)
  /\ UNCHANGED <<clientData, mTrackingSessions, engine, fix, stopFailed, dropped, removing>>

EraseSession(s) ==
  /\ mTrackingSessions' = [mTrackingSessions EXCEPT ![s] = NULL]
  /\ stopFailed' = stopFailed \ {s}

\* Fault: a session the engine refused to stop is erased as well.
KeepSessionErases(s) ==
  /\ mTrackingSessions' = [mTrackingSessions EXCEPT ![s] = NULL]
  /\ stopFailed' = stopFailed \cup {s}

KeepSession(s) ==
  /\ UNCHANGED mTrackingSessions
  /\ stopFailed' = stopFailed \cup {s}

SessionsOf(c) == {s \in Active : Owner[s] = c}

\* Fault: the sessions of the client are not stopped.
RemoveClientOnly ==
  /\ Handle("removeClient")
  /\ removing' = [client |-> Head(msgs).client, todo |-> {}]
  /\ UNCHANGED <<clientData, mClientData, mTrackingSessions, mEvtMask, msgs, engine, fix, stopFailed, dropped>>

\* The removal of a client: stopClientSessions() stops its sessions one after
\* the other, and goes on when the engine refuses; eraseClient() ends it.
RemoveClient ==
  /\ Handle("removeClient")
  /\ removing' = [client |-> Head(msgs).client, todo |-> SessionsOf(Head(msgs).client)]
  /\ UNCHANGED <<clientData, mClientData, mTrackingSessions, mEvtMask, msgs, engine, fix, stopFailed, dropped>>

StopClientSession(s) ==
  /\ removing # NULL /\ s \in removing.todo
  /\ removing' = [removing EXCEPT !.todo = @ \ {s}]
  /\ \E ok \in BOOLEAN :
       StopMultiplex(s, ok) /\ IF ok THEN EraseSession(s) ELSE KeepSession(s)
  /\ UNCHANGED <<clientData, mClientData, mEvtMask, msgs, dropped>>

EraseClient ==
  /\ removing # NULL /\ removing.todo = {}
  /\ removing' = NULL
  /\ LET data == [mClientData EXCEPT ![removing.client] = NULL] IN
       mClientData' = data /\ UpdateClientsEventMask(data)
  /\ UNCHANGED <<clientData, mTrackingSessions, engine, fix, stopFailed, dropped>>

\* A start without callbacks, or with options of size zero, only gets an error.
MayTrack(c) == mClientData[c] # NULL /\ mClientData[c] \cap {"tracking", "measurements"} # {}

ProcStart ==
  /\ Handle("start") /\ Done
  /\ LET m == Head(msgs) IN
       IF MayTrack(Owner[m.session]) /\ m.options # NULL
         THEN \E ok \in BOOLEAN :
                /\ StartMultiplex(m.options, ok)
                /\ mTrackingSessions' =
                     IF ok THEN [mTrackingSessions EXCEPT ![m.session] = m.options]
                     ELSE mTrackingSessions
         ELSE UNCHANGED <<mTrackingSessions, engine, fix>>
  /\ UNCHANGED <<clientData, mClientData, mEvtMask, stopFailed, dropped, removing>>

ProcUpdate ==
  /\ Handle("update") /\ Done
  /\ LET m == Head(msgs) IN
       IF m.session \in Active /\ m.options # NULL
         THEN \E ok \in BOOLEAN :
                /\ UpdateMultiplex(m.session, m.options, ok)
                /\ mTrackingSessions' =
                     IF ok THEN [mTrackingSessions EXCEPT ![m.session] = m.options]
                     ELSE mTrackingSessions
         ELSE UNCHANGED <<mTrackingSessions, engine, fix>>
  /\ UNCHANGED <<clientData, mClientData, mEvtMask, stopFailed, dropped, removing>>

ProcStop ==
  /\ Handle("stop") /\ Done
  /\ LET s == Head(msgs).session IN
       IF s \in Active
         THEN \E ok \in BOOLEAN :
                StopMultiplex(s, ok) /\ IF ok THEN EraseSession(s) ELSE KeepSession(s)
         ELSE UNCHANGED <<mTrackingSessions, engine, fix, stopFailed>>
  /\ UNCHANGED <<clientData, mClientData, mEvtMask, dropped, removing>>

Register(mask) ==
  engine' = IF engine.up THEN [engine EXCEPT !.mask = mask] ELSE engine

ProcOpen ==
  /\ Handle("open") /\ Done
  /\ Register(Head(msgs).mask)
  /\ UNCHANGED <<clientData, mClientData, mTrackingSessions, mEvtMask, fix, stopFailed, dropped, removing>>

\* Fault: the connection is opened again with no events registered.
ProcSsrForgets ==
  /\ Handle("ssr") /\ Done
  /\ UNCHANGED <<clientData, mClientData, mTrackingSessions, mEvtMask, engine, fix, stopFailed, dropped, removing>>

ProcSsr ==
  /\ Handle("ssr") /\ Done
  /\ Register(mEvtMask)
  /\ UNCHANGED <<clientData, mClientData, mTrackingSessions, mEvtMask, fix, stopFailed, dropped, removing>>

\* restartSessions() ignores the result of startFix().
RestartSessions ==
  /\ Handle("restart") /\ Done
  /\ IF Active = {}
       THEN UNCHANGED engine /\ fix' = IF engine.up THEN "kept" ELSE fix
       ELSE \E ok \in BOOLEAN :
              \/ ok /\ StartFix(mTrackingSessions[Smallest(Active)], ok)
              \/ ~ok /\ UNCHANGED engine /\ fix' = IF engine.up /\ fix = "lost" THEN "abandoned" ELSE fix
  /\ UNCHANGED <<clientData, mClientData, mTrackingSessions, mEvtMask, stopFailed, dropped, removing>>

-----------------------------------------------------------------------------
(***************************************************************************)
(* The modem's engine goes down, and comes up without fix and events.      *)
(***************************************************************************)
EngineDown ==
  /\ engine.up
  /\ engine' = [up |-> FALSE, fix |-> NULL, mask |-> {}]
  /\ fix' = "lost"
  /\ UNCHANGED <<clientData, mClientData, mTrackingSessions, mEvtMask, msgs, stopFailed, dropped, removing>>

\* Fault: the sessions are not restarted.
EngineUpOnly ==
  /\ ~engine.up /\ Len(msgs) < MaxQueue
  /\ engine' = [engine EXCEPT !.up = TRUE]
  /\ msgs' = Append(msgs, [type |-> "ssr"])
  /\ UNCHANGED <<clientData, mClientData, mTrackingSessions, mEvtMask, fix, stopFailed, dropped, removing>>

\* LocApiBase posts the renegotiation, then the adapter its restart.
EngineUp ==
  /\ ~engine.up /\ Len(msgs) < MaxQueue
  /\ engine' = [engine EXCEPT !.up = TRUE]
  /\ msgs' = msgs \o <<[type |-> "ssr"], [type |-> "restart"]>>
  /\ UNCHANGED <<clientData, mClientData, mTrackingSessions, mEvtMask, fix, stopFailed, dropped, removing>>

-----------------------------------------------------------------------------
Init ==
  /\ clientData = [c \in Clients |-> NULL]
  /\ mClientData = [c \in Clients |-> NULL]
  /\ mTrackingSessions = [s \in Sessions |-> NULL]
  /\ mEvtMask = {}
  /\ msgs = <<>>
  /\ engine = [up |-> TRUE, fix |-> NULL, mask |-> {}]
  /\ fix = "kept"
  /\ stopFailed = {}
  /\ dropped = {}
  /\ removing = NULL

Call ==
  \/ \E c \in Clients : \E cbs \in MayRegister[c] : CreateInstance(c, cbs) \/ UpdateCallbacks(c, cbs)
  \/ \E c \in Clients : Destroy(c)
  \/ \E s \in Sessions, options \in Options \cup {NULL} :
       StartTracking(s, options) \/ UpdateTrackingOptions(s, options)
  \/ \E s \in Sessions : StopTracking(s)

Proc ==
  \/ AddClient \/ RemoveClient \/ EraseClient
  \/ \E s \in Sessions : StopClientSession(s)
  \/ ProcStart \/ ProcUpdate \/ ProcStop
  \/ ProcOpen \/ ProcSsr \/ RestartSessions

Next == Call \/ Proc \/ EngineDown \/ EngineUp

Spec     == Init /\ [][Next]_vars
\* The MsgTask thread runs; clients and the engine need do nothing.
FairSpec == Spec /\ WF_vars(Proc)

-----------------------------------------------------------------------------
TypeOK ==
  /\ clientData \in [Clients -> CallbackSets \cup {NULL}]
  /\ mClientData \in [Clients -> (SUBSET Callbacks) \cup {NULL}]
  /\ mTrackingSessions \in [Sessions -> Options \cup {NULL}]
  /\ mEvtMask \in SUBSET Callbacks
  /\ msgs \in Seq(Msg)
  /\ engine \in [up : BOOLEAN, fix : Options \cup {NULL}, mask : SUBSET Callbacks]
  /\ fix \in {"kept", "lost", "abandoned"}
  /\ stopFailed \subseteq Active
  /\ dropped \subseteq Clients
  /\ removing \in Removal \cup {NULL}

(***************************************************************************)
(* startTrackingMultiplex(), updateTrackingMultiplex(),                    *)
(* stopTrackingMultiplex() and restartSessions() compare with different    *)
(* sessions and may fail half way; together they keep the engine at the    *)
(* smallest interval of the sessions, and off without one, unless an       *)
(* engine restart lost the fix and it has not been started again.          *)
(***************************************************************************)
EngineServesSessions ==
  fix = "kept" =>
    /\ Active = {} <=> engine.fix = NULL
    /\ Active # {} => engine.fix.minInterval = mTrackingSessions[Smallest(Active)].minInterval

(***************************************************************************)
(* stopClientSessions() leaves no session of a client that is removed, but *)
(* one the engine refused to stop.                                         *)
(***************************************************************************)
NoOrphanSession ==
  \A s \in Active : mClientData[Owner[s]] = NULL => s \in stopFailed

(***************************************************************************)
(* LocationAPI's table and the adapter's: once the messages of a destroyed *)
(* instance are handled, the adapter has forgotten the client, and calls   *)
(* none of its callbacks; but one that had exchanged its callbacks for     *)
(* others that are not of the gnss interface is known for ever, as only    *)
(* the interfaces of the last callbacks are told (~LocationAPI()).         *)
(***************************************************************************)
ClientMsg(c) == \E i \in DOMAIN msgs : msgs[i].type \in {"addClient", "removeClient"} /\ msgs[i].client = c

DestroyedIsForgotten ==
  \A c \in Clients : clientData[c] = NULL /\ ~ClientMsg(c) =>
    (mClientData[c] # NULL <=> c \in dropped)

(***************************************************************************)
(* updateClientsEventMask() and LocSsrMsg: an engine that is up reports    *)
(* the events the clients have callbacks for, once no message that would   *)
(* change them is queued, also after a restart.                            *)
(***************************************************************************)
EventsWanted ==
  engine.up /\ (\A i \in DOMAIN msgs : msgs[i].type \notin {"open", "ssr"}) =>
    engine.mask = EventMask(mClientData)

(***************************************************************************)
(* handleEngineUpEvent(): the fix a restart of the engine lost is started  *)
(* again, unless the engine goes down again or refuses.                    *)
(***************************************************************************)
FixRestarted == engine.up /\ fix = "lost" ~> ~engine.up \/ fix # "lost"

=============================================================================
