---------------------------- MODULE GnssControl ----------------------------
(***************************************************************************)
(* The control session and the gps lock: the GNSS service of the HAL       *)
(* (android/Gnss.cpp), the control client it owns                          *)
(* (location/LocationAPIClientBase.cpp) and the adapter's handlers of      *)
(* enable, disable and the configuration (gnss/GnssAdapter.cpp).           *)
(*                                                                         *)
(* The service calls the control client on the one binder thread of the    *)
(* HAL; each call posts messages.  The MsgTask thread handles them in      *)
(* order, and then tells the control client the response, which takes a    *)
(* request out of a queue by its session and its position.  The engine may *)
(* refuse what it is told.                                                 *)
(*                                                                         *)
(* Of the configuration two items are told apart: the lock, which the      *)
(* control session overrules, and the SUPL server, whose name is a string  *)
(* that each caller allocates.  The other items stand for one more.        *)
(***************************************************************************)
EXTENDS Naturals, Sequences, FiniteSets

CONSTANTS
  Locks,      \* values of GnssConfigGpsLock
  NoLock,     \* GNSS_CONFIG_GPS_LOCK_NONE
  Servers,    \* names of SUPL servers
  LongServers,\* those of them that do not fit in MAX_URL_LEN with their port
  NoServer,   \* the empty name
  SessionIds, \* session ids of the adapter (an id is used again when no
              \* trace of it is left: it stands for a new one)
  NoSession,  \* session id 0
  NULL,
  MaxMsgs     \* bound: the service waits while that many messages are queued

Configs == [lock : Locks \cup {NULL}, server : Servers \cup {NoServer, NULL}]

ASSUME ControlAssumption ==
  /\ NoLock \in Locks /\ NULL \notin Locks \cup Servers \cup {NoServer}
  /\ LongServers \subseteq Servers /\ NoServer \notin Servers /\ NoSession \notin SessionIds
  /\ NULL \notin Configs /\ NULL \notin SessionIds \cup {NoSession}
  /\ "config" \notin SessionIds \cup {NoSession}
  /\ MaxMsgs \in Nat

VARIABLES
  mApi,           \* Gnss: whether its client, with the control client, is made
  mPendingConfig, \* Gnss: what was configured before, or NULL
  mEnabled,       \* the control client
  mConfig,        \* the control client: the last configuration, NULL at first
  control,        \* its queue CTRL_REQUEST_CONTROL: session and requests
  configReqs,     \* how many requests its queue CTRL_REQUEST_CONFIG has
  msgs,           \* the MsgTask queue
  responding,     \* the response the MsgTask thread is to tell next, or NULL
  mPowerVoteId,   \* GnssAdapter
  GPS_LOCK,       \* ContextBase::mGps_conf.GPS_LOCK
  AGPS_CONFIG_INJECT, \* mGps_conf.AGPS_CONFIG_INJECT, read from gps.conf once
  engine,         \* the modem: lock and server it was told, NULL before; and
                  \* whether it holds the power vote
  refused,        \* for the properties: items whose last value it did not
                  \* take, or the adapter did not tell it, with an error
  wanted          \* for the properties: lock and server the callers want, and
                  \* whether they named the server before the client was made

service == <<mApi, mPendingConfig, wanted>>
client  == <<mEnabled, mConfig, control, configReqs>>
adapter == <<mPowerVoteId, GPS_LOCK, AGPS_CONFIG_INJECT, engine, refused>>
vars    == <<service, client, adapter, msgs, responding>>

Msg == [type : {"enable", "disable"}, session : SessionIds]
         \cup [type : {"config"}, config : Configs]

Used(s) ==
  \/ s \in {control.session, mPowerVoteId, responding}
  \/ \E i \in DOMAIN msgs : msgs[i].type # "config" /\ msgs[i].session = s

\* generateSessionId()
NewSession(s) == s \in SessionIds /\ ~Used(s)

-----------------------------------------------------------------------------
(***************************************************************************)
(* The control client.  Its calls hold mMutex until the request is pushed, *)
(* and a response waits for it.                                            *)
(***************************************************************************)
\* locAPIEnable(): what it appends to the queue of messages.
Enable(queue, s) ==
  IF mEnabled THEN msgs' = queue /\ UNCHANGED <<mEnabled, control>>
  ELSE /\ msgs' = Append(queue, [type |-> "enable", session |-> s])
       /\ control' = [session |-> s, reqs |-> <<"enable">>]
       /\ mEnabled' = TRUE

\* Fault: the session is forgotten with its requests.
DisableResets ==
  IF mEnabled
    THEN /\ control' = [session |-> control.session, reqs |-> <<"disable">>]
         /\ msgs' = Append(msgs, [type |-> "disable", session |-> control.session])
         /\ mEnabled' = FALSE
    ELSE UNCHANGED <<control, msgs, mEnabled>>

\* Fault: whether the client is enabled is not looked at.
DisableUnchecked ==
  /\ control' = [control EXCEPT !.reqs = Append(@, "disable")]
  /\ msgs' = Append(msgs, [type |-> "disable", session |-> control.session])
  /\ mEnabled' = FALSE

\* locAPIDisable()
Disable ==
  IF mEnabled
    THEN /\ control' = [control EXCEPT !.reqs = Append(@, "disable")]
         /\ msgs' = Append(msgs, [type |-> "disable", session |-> control.session])
         /\ mEnabled' = FALSE
    ELSE UNCHANGED <<control, msgs, mEnabled>>

\* A name is compared by its address, and each caller allocates its own.
Identical(config) == config = mConfig /\ config.server = NULL

\* locAPIGnssUpdateConfig()
UpdateConfig(config) ==
  IF Identical(config) THEN UNCHANGED <<mConfig, configReqs, msgs>>
  ELSE /\ mConfig' = config
       /\ msgs' = Append(msgs, [type |-> "config", config |-> config])
       /\ configReqs' = configReqs + 1

-----------------------------------------------------------------------------
(***************************************************************************)
(* The service.  getApi() makes the client when the first callback object  *)
(* is set, and gives it what was configured before.  mPendingConfig never  *)
(* gets the name of a server: it is copied only over one that is there.    *)
(***************************************************************************)
GetApi ==
  /\ mApi' = TRUE
  /\ mPendingConfig' = NULL
  /\ IF mPendingConfig = NULL THEN UNCHANGED <<mConfig, configReqs>>
     ELSE mConfig' = mPendingConfig /\ configReqs' = configReqs + 1

Pending == IF mPendingConfig = NULL THEN msgs
           ELSE Append(msgs, [type |-> "config", config |-> mPendingConfig])

SetCallback(s) ==
  /\ Len(msgs) < MaxMsgs
  /\ NewSession(s)
  /\ GetApi /\ Enable(Pending, s)
  /\ UNCHANGED <<adapter, responding, wanted>>

SetGnssNiCb ==
  /\ Len(msgs) < MaxMsgs
  /\ GetApi /\ msgs' = Pending
  /\ UNCHANGED <<mEnabled, control, adapter, responding, wanted>>

Cleanup ==
  /\ Len(msgs) < MaxMsgs
  /\ mApi /\ Disable
  /\ UNCHANGED <<service, mConfig, configReqs, adapter, responding>>

\* The items of both; of a server only that one was set.
Merged(config) ==
  LET old == IF mPendingConfig = NULL THEN [lock |-> NULL, server |-> NULL] ELSE mPendingConfig IN
  [lock   |-> IF config.lock # NULL THEN config.lock ELSE old.lock,
   server |-> IF config.server # NULL THEN NoServer ELSE old.server]

UpdateConfiguration(config) ==
  /\ Len(msgs) < MaxMsgs
  /\ IF mApi
       THEN UpdateConfig(config) /\ UNCHANGED mPendingConfig
       ELSE mPendingConfig' = Merged(config) /\ UNCHANGED <<mConfig, configReqs, msgs>>
  /\ wanted' = [lock   |-> IF config.lock # NULL THEN config.lock ELSE wanted.lock,
                server |-> IF config.server = NULL THEN wanted.server ELSE config.server,
                early  |-> IF config.server = NULL THEN wanted.early ELSE ~mApi]
  /\ UNCHANGED <<mApi, mEnabled, control, adapter, responding>>

SetGpsLock(l) == UpdateConfiguration([lock |-> l, server |-> NULL])
SetServer(v)  == UpdateConfiguration([lock |-> NULL, server |-> v])
SetOther      == UpdateConfiguration([lock |-> NULL, server |-> NULL])

-----------------------------------------------------------------------------
(***************************************************************************)
(* The adapter's handlers.                                                 *)
(***************************************************************************)
Handle(type) ==
  /\ responding = NULL
  /\ msgs # <<>> /\ Head(msgs).type = type /\ msgs' = Tail(msgs)

\* mLocApi->setGpsLock(), which the engine may refuse, with the power vote.
TellLock(value, vote, ok) ==
  /\ engine' = [engine EXCEPT !.lock = IF ok THEN value ELSE @, !.vote = vote]
  /\ refused' = IF ok THEN refused \ {"lock"} ELSE refused \cup {"lock"}

\* The result of setGpsLock() is ignored here and in disable.
ProcEnable ==
  /\ Handle("enable")
  /\ responding' = Head(msgs).session
  /\ IF mPowerVoteId # NoSession THEN UNCHANGED adapter
     ELSE /\ mPowerVoteId' = Head(msgs).session
          /\ \E ok \in BOOLEAN : TellLock(NoLock, TRUE, ok)
          /\ UNCHANGED <<GPS_LOCK, AGPS_CONFIG_INJECT>>
  /\ UNCHANGED <<service, client>>

ProcDisable ==
  /\ Handle("disable")
  /\ responding' = Head(msgs).session
  /\ IF mPowerVoteId # Head(msgs).session THEN UNCHANGED adapter
     ELSE /\ mPowerVoteId' = NoSession
          /\ \E ok \in BOOLEAN : TellLock(GPS_LOCK, FALSE, ok)
          /\ UNCHANGED <<GPS_LOCK, AGPS_CONFIG_INJECT>>
  /\ UNCHANGED <<service, client>>

\* A server is told, mLocApi->setServer(), where gps.conf lets the HAL configure
\* the engine (else the caller hears of success), unless its name is too long.
TellItems(config, lock) ==
  LET server == config.server # NULL /\ AGPS_CONFIG_INJECT IN
  \E okLock \in BOOLEAN, okServer \in IF config.server \in LongServers THEN {FALSE} ELSE BOOLEAN :
    /\ engine' = [engine EXCEPT !.lock   = IF lock /\ okLock THEN config.lock ELSE @,
                                !.server = IF server /\ okServer THEN config.server ELSE @]
    /\ refused' = (refused \ ((IF lock THEN {"lock"} ELSE {}) \cup (IF server THEN {"server"} ELSE {})))
                    \cup (IF lock /\ ~okLock THEN {"lock"} ELSE {})
                    \cup (IF server /\ ~okServer THEN {"server"} ELSE {})

\* Fault: the lock is told although a session is under way.
TellConfigAlways(config) == TellItems(config, config.lock # NULL)

TellConfig(config) == TellItems(config, config.lock # NULL /\ mPowerVoteId = NoSession)

ProcConfig ==
  /\ Handle("config")
  /\ responding' = "config"
  /\ LET config == Head(msgs).config IN
       /\ GPS_LOCK' = IF config.lock # NULL THEN config.lock ELSE GPS_LOCK
       /\ TellConfig(config)
  /\ UNCHANGED <<service, client, mPowerVoteId, AGPS_CONFIG_INJECT>>

\* onCtrlResponseCb(): the queue whose session it is.
OnCtrlResponse ==
  /\ responding \in SessionIds /\ responding' = NULL
  /\ control' = IF control.session = responding /\ control.reqs # <<>>
                  THEN [control EXCEPT !.reqs = Tail(@)] ELSE control
  /\ UNCHANGED <<service, mEnabled, mConfig, configReqs, adapter, msgs>>

\* onCtrlCollectiveResponseCb()
OnCtrlCollectiveResponse ==
  /\ responding = "config" /\ responding' = NULL
  /\ configReqs' = IF configReqs = 0 THEN 0 ELSE configReqs - 1
  /\ UNCHANGED <<service, mEnabled, mConfig, control, adapter, msgs>>

-----------------------------------------------------------------------------
Init ==
  /\ mApi = FALSE /\ mPendingConfig = NULL
  /\ mEnabled = FALSE /\ mConfig = NULL
  /\ control = [session |-> NoSession, reqs |-> <<>>]
  /\ configReqs = 0
  /\ msgs = <<>> /\ responding = NULL
  /\ mPowerVoteId = NoSession
  /\ GPS_LOCK \in Locks /\ AGPS_CONFIG_INJECT \in BOOLEAN
  /\ engine = [lock |-> NULL, server |-> NULL, vote |-> FALSE]
  /\ refused = {}
  /\ wanted = [lock |-> GPS_LOCK, server |-> NULL, early |-> FALSE]

Call ==
  \/ \E s \in SessionIds : SetCallback(s)
  \/ SetGnssNiCb \/ Cleanup
  \/ \E l \in Locks : SetGpsLock(l)
  \/ \E v \in Servers : SetServer(v)
  \/ SetOther

Proc ==
  \/ ProcEnable \/ ProcDisable \/ ProcConfig
  \/ OnCtrlResponse \/ OnCtrlCollectiveResponse

Next == Call \/ Proc

Spec == Init /\ [][Next]_vars

-----------------------------------------------------------------------------
Requests == {"enable", "disable"}

TypeOK ==
  /\ mApi \in BOOLEAN
  /\ mPendingConfig \in Configs \cup {NULL}
  /\ mEnabled \in BOOLEAN
  /\ mConfig \in Configs \cup {NULL}
  /\ control \in [session : SessionIds \cup {NoSession}, reqs : Seq(Requests)]
  /\ configReqs \in Nat
  /\ msgs \in Seq(Msg)
  /\ responding \in SessionIds \cup {"config", NULL}
  /\ mPowerVoteId \in SessionIds \cup {NoSession}
  /\ GPS_LOCK \in Locks /\ AGPS_CONFIG_INJECT \in BOOLEAN
  /\ engine \in [lock : Locks \cup {NULL}, server : Servers \cup {NoServer, NULL}, vote : BOOLEAN]
  /\ refused \subseteq {"lock", "server"}
  /\ wanted \in [lock : Locks, server : Servers \cup {NoServer, NULL}, early : BOOLEAN]

(***************************************************************************)
(* enable() and disable() in any order, several of each queued, by way of  *)
(* three places that keep a session: the adapter never answers             *)
(* ALREADY_STARTED or ID_UNKNOWN to the control client (VotesTaken), once  *)
(* they are handled it votes for the session the client would disable,     *)
(* exactly when the client is enabled (VoteFollows), and the client's      *)
(* queue has the requests that are not answered yet, in order, by whose    *)
(* position responses are matched (RequestsMatch).                         *)
(***************************************************************************)
VotesTaken ==
  msgs # <<>> => /\ Head(msgs).type = "enable"  => mPowerVoteId = NoSession
                 /\ Head(msgs).type = "disable" => mPowerVoteId = Head(msgs).session

VoteFollows ==
  (\A i \in DOMAIN msgs : msgs[i].type = "config") =>
    mPowerVoteId = IF mEnabled THEN control.session ELSE NoSession

ForSession(m, s) == m.type # "config" /\ m.session = s

\* How many of the first i messages are for the session.
Place(queue, s, i) == Cardinality({j \in 1..i : ForSession(queue[j], s)})

RequestsMatch ==
  LET s == control.session
      answering == IF responding = s THEN 1 ELSE 0 IN
  /\ Len(control.reqs) = answering + Place(msgs, s, Len(msgs))
  /\ \A i \in 1..Len(msgs) :
       ForSession(msgs[i], s) => control.reqs[answering + Place(msgs, s, i)] = msgs[i].type

SessionsAgree == VotesTaken /\ VoteFollows /\ RequestsMatch

(***************************************************************************)
(* "Configures how GPS is locked when GPS is disabled" (GnssConfigGpsLock, *)
(* LocationAPI.h): whether it was set before the client was made, while    *)
(* enabled or after, and not overwritten by an earlier one: with no        *)
(* message queued, the engine is not locked while the service is enabled,  *)
(* and else has the lock set last; unless it refused it.                   *)
(***************************************************************************)
LockFollows ==
  msgs = <<>> /\ mPendingConfig = NULL /\ "lock" \notin refused /\ engine.lock # NULL =>
    engine.lock = IF mEnabled THEN NoLock ELSE wanted.lock

(***************************************************************************)
(* locAPIGnssUpdateConfig() drops a configuration that is identical to the *)
(* previous call, and mPendingConfig merges several: where the HAL may     *)
(* configure the engine, it ends with the server named last, unless that   *)
(* was refused or too long (and the caller told so).  The code loses one   *)
(* name, as the property says: a server named last before the client was   *)
(* made reaches the engine as the empty name.                              *)
(***************************************************************************)
NamedLast(w) == IF w.early THEN NoServer ELSE w.server

ServerFollows ==
  msgs = <<>> /\ mPendingConfig = NULL /\ "server" \notin refused =>
    engine.server = IF AGPS_CONFIG_INJECT THEN NamedLast(wanted) ELSE NULL

(***************************************************************************)
(* What was configured last reaches the engine, as LockFollows and         *)
(* ServerFollows say.                                                      *)
(***************************************************************************)
EngineFollows == LockFollows /\ ServerFollows

=============================================================================
