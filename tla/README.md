# TLA+ verification of the Qualcomm GPS HAL

This directory holds the TLA+ models of the GNSS HAL of this repository, the
TLC configurations that check them and the TLAPS proofs about them. The
repository keeps one copy of the HAL per chip (`msm8084`, `msm8909`,
`msm8960`, `msm8994`, `msm8996`, `msm8998`, and a `core`/`utils`/`loc_api` at
the top). The tree that is modelled is `src/msm8909w_3100`, the newest, and
paths below are relative to it. One module, `SyncCall`, models a file of the
older trees: `src/loc_api/libloc_api-rpc-50001/libloc_api-rpc-glue/src/loc_api_sync_call.c`,
of which msm8084, msm8909, msm8994 and msm8996 have the same copy. So the share
of the repository that is mapped is small by the nature of the repository: the
copies repeat each other, and most of the rest is data conversion.

## 1. Inventory

The process has one **MsgTask thread** that runs `LocMsg::proc()` of the
messages posted to it, one at a time and in order. Almost all state belongs to
it. The other threads are the modem's callback threads (they only post
messages), the clients' binder threads (post messages, or hold the locks of
the client base), the **timer threads**, the XTRA socket thread, and one
**NI thread** per network initiated request.

| Component | State | Operations | Hard behaviour | What makes it correct |
|---|---|---|---|---|
| AGPS manager (`gnss/Agps.*`) | three state machines (AGNSS, INTERNET, DS) with a subscriber list each; retry counter and timers of the DS machine | request and release of an ATL by the modem; open, failed, closed by the framework; opened, closed by the DS client; retry | requests, releases and reports cross; subscribers that wait for the close; retry and fallback to SUPL; the emergency PDN setting changes while handles are open | every request is answered; an open ATL is told its end; no data connection is left behind |
| NI sessions (`gnss/GnssAdapter.*`) | two session records (SUPL, emergency SUPL), a counter of ids | notification of the modem, response of the client, timeout | the MsgTask thread reads the session without its lock; the NI thread resets it after unlocking | a request is answered once, with an answer given to it |
| Clients and tracking (`gnss/GnssAdapter.cpp` 924-1884) | clients and their callbacks, tracking sessions, engine mode and interval, power vote | add and remove a client, start, update, stop a session, engine up and down, enable, disable | one engine shared by several sessions; responses of the engine arrive later; engine restart | the engine runs at the smallest interval exactly while a session is active; each command is answered |
| Control and configuration (`android/Gnss.cpp`, `GnssAdapter.cpp` 421-733, 849-922) | whether the API is made, the configuration that waits for it; the control client's session and last configuration; the adapter's power vote and lock | enable, disable, lock and SUPL server; callbacks set, cleanup, death of the framework | the configuration may come before the API; requests of one session are answered later; the engine may refuse; identical configurations are dropped | both ends agree on the session; the engine ends with the lock and the server that were asked last |
| Reports (`GnssAdapter.cpp`) | SV and NMEA masks | position, SV, NMEA, measurement and ODCPI fan-out | no control | - |
| LocationAPI (`location/LocationAPI.cpp`, `gnss/location_gnss.cpp`) | table of clients, loaded interfaces | create, destroy, dispatch to the right interface | clients destroyed with calls under way | a call reaches the interfaces its client registered with |
| Client base (`location/LocationAPIClientBase.*`) | request queues per command, session dictionaries | the client's calls and the responses to them | responses are matched to requests by position in the queue | each call gets the response to it |
| OS status observer (`core/SystemStatusOsObserver.*`) | client to items, item to clients, cached requests, reference counts of turn on | subscribe, update, request once, unsubscribe, notify, turn on, off | the framework object arrives late and may be set again; two indexes must agree | a subscriber gets what it asked for; the framework is subscribed for exactly what is wanted |
| XTRA observer (`gnss/XtraSystemStatusObserver.cpp`) | last known states | its subscription and the output to a socket | a client of the observer above | - |
| LocApi base (`core/LocApiBase.cpp`, `LocAdapterBase.cpp`) | adapters, event mask | add, remove an adapter, open, close, engine up, down | the mask is computed when a message is posted | the engine reports what some adapter wants |
| Timers (`utils/LocTimer.cpp`, `LocHeap.cpp`) | heap of timers, the one armed in the kernel | start, stop, expire | stop while the expiry runs; two containers | a timer fires once, or never after a stop |
| Message task (`utils/MsgTask.cpp`, `msg_q.c`, `LocThread.cpp`) | queue | send, receive, destroy | teardown while the thread waits | FIFO, each message once |
| System status reports, NMEA, configuration files, logging | report caches | parsing, formatting | no concurrency | - |
| HIDL services (`android/`) | callbacks of the framework | forwarding; `Gnss.cpp` keeps the state above | the AGNSS service reports always with the SUPL type | - |
| Synchronous calls of the older trees (`loc_api_sync_call.c`) | slots for calls in progress, a lock each | call, answer by the RPC thread, timeout | the answer may come before the caller waits, after it has given up, or never; slots are tried, not waited for | a slot has one call; an answer has one receiver; no call that waits is passed over |

The modem's side (`LocApiBase`'s subclass) calls `GnssAdapter::requestATL`,
`requestSuplES`, `releaseATL`, `requestNiNotifyEvent` from its own thread;
each posts one message. The framework's side calls
`dataConnOpenCommand`, `dataConnFailedCommand`, `dataConnClosedCommand`
through `AGnss.cpp`; the DS client, if the library is there, calls
`reportDataCallOpened/Closed`. The DS machine's retries come back to it
as messages it posts to itself, from the MsgTask thread (fallback) or from a
timer thread (retry).

The hazards, each at its line, are in `PROJECT.json`. The parts without a
model yet keep theirs there with a note.

## 2. Plan

| Order | Module | Contents | State |
|---|---|---|---|
| 1 | `Agps`, `AtlContract`, `MCAgps`, `AgpsProofs` | the AGPS manager, what it promises to the modem, proofs | done |
| 2 | `NiSession`, `NiSessionProofs` | the two NI sessions and their threads, proofs | done |
| 3 | `GnssTracking`, `MCTracking`, `GnssTrackingProofs` | clients, multiplexed tracking sessions, engine restart, event mask, from the LocationAPI to the engine; proofs | done |
| 4 | `LocationClient`, `MCClient`, `LocationClientProofs` | request queues and session dictionary of the client base, with the responses of the adapters; proofs | done |
| 5 | `OsObserver`, `MCObserver`, `OsObserverProofs` | the OS status observer with its framework; proofs | done |
| 6 | `LocHeap`, `LocTimer`, `MCTimer`, `LocTimerProofs` | the bodies of the heap's methods; start, stop and expiry over three threads; proofs, also that the heap keeps its contract | done |
| 7 | `GnssControl`, `MCControl`, `GnssControlProofs` | the HAL service, the control client and the adapter's control handlers; proofs | done |
| 8 | `SyncCall`, `SyncCallProofs` | the synchronous calls of the older trees, proofs | done |
| - | `MsgTask` | the queue and its teardown | not done: `MsgTask::destroy` is called nowhere in the tree. Were it called, it would write `mThread` after it has unblocked the thread |
| - | `LocApiMasks` | event masks of several adapters | not done: the tree has one adapter |

Every invariant that a passing run checks is now a theorem too (section 11), and
so is the refinement `ContractSpec`. The liveness properties stay with TLC.

## 3. Agps

### Correspondence

| TLA+ | Code |
|---|---|
| `nif[m].state`, `.subs`, `.waits`, `.inactive`, `.ahead` | `mState`, `mSubscriberList`, `mWaitForCloseComplete`, `mIsInactive`, the order of the list |
| `dsReady` | `mDsNif` is not NULL |
| `emergencyPdn` | `USE_EMERGENCY_PDN_FOR_EMERGENCY_SUPL` |
| `mRetries`, `timers` | `DSStateMachine::mRetries`, timers armed by `loc_timer_start` |
| `posted` | `AgpsMsgRequestATL` messages in the adapter's queue |
| `conn[m]` | the outside world: what the machine's data connection was last asked or said |
| `atl[h]`, `released` | the outside world: what the modem was last told of `h`, and whether it released it |
| `ModemRequestATL`, `ModemReleaseATL` | `AgpsManager::requestATL`, `releaseATL` with all they call |
| `ProcRequestATL` | `AgpsMsgRequestATL::proc` |
| `ReportAtl...`, `ReportDataCall...` | the methods of those names; `Granted`, `Released`, `Denied` are the event handlers |
| `RetryCallback` | `delay_callback`, `DSStateMachine::retryCallback` on a timer thread |
| `InitAgps`, `UpdateEmergencyPdn` | the framework registers again; `gnssUpdateConfig` |

One action is one handler: handlers run one at a time on the MsgTask thread.
A handler that notifies several subscribers does it in list order; only the
order in which the DS machine posts fallbacks can be observed, and it is kept
(`ListOrders`). Where the code calls the DS client, the outcome is free:
accepted, busy, unsupported, another error. `loc_timer_start` may fail.

Abstracted: APN, bearer and IP type of a report; the `isSuccess` flag of a
close (the code ignores it); `WWAN` types other than the three the switch in
`getAgpsStateMachine` tells apart.

Assumed: the modem uses a handle for one ATL; a report for a type whose
machine is not there does not happen (`reportAtl...` calls a method of a NULL
pointer in that case).

### Runs

| Run | Bounds | Shows |
|---|---|---|
| `agps_base` | 3 handles, requests of all types, SUPL reports, setting off | what the modem was told agrees with the lists (`ModemView`); the manager implements `AtlContract` (`ContractSpec`); every request but one for WWAN_ANY is answered (`EveryRequestAnswered`), and that one waits until it is given up (`WwanAnyWaits`) |
| `agps_es` | 3 handles (symmetric), all types, setting changes, 4 retries | with the DS machine: the retries stay within their limit (`TypeOK`), lists agree with states (`ListMatchesState`), an open ATL is tracked, a request is never forgotten, no connection is left |

Three handles are enough for the cases that a list can tell apart: an active
subscriber, an inactive one that waits for the close, and a newcomer, on one
machine; or one on each machine. Retries are bounded by the code's own limit
of 4, timers by the retries that arm them and the queue by the handles. No
other bound is needed: the state spaces are finite without one.

Symmetry is used in `agps_es` only, which checks invariants only.

`FrameworkTypes` are the types the framework's reports carry. `AGnss.cpp` (69,
80, 100) gives `LOC_AGPS_TYPE_SUPL` whatever was asked for, so `agps_base`,
whose properties are about what becomes of a request, has that one.
`GnssAdapter::dataConnOpenCommand` and its like take any type; `agps_es`, whose
invariants are to hold for any caller, has the reports for WWAN_ANY too.

### The contract

`AtlContract` is what the modem may rely on: a status for a handle that has
none, then open or failed once, closed at the latest on release, never open
afterwards. It has one step: each handle moves along an edge of a small graph
and one new handle at most appears. Its one surprising edge is closed to
failed: a denial is told to the inactive subscribers too, which were told
"closed" on their release (`Agps.cpp:281-289`). `Agps` implements it
(`Contract == INSTANCE AtlContract WITH ...`, `ContractSpec == Contract!Spec`)
when the emergency PDN is off. With it on it does not: while the DS machine
waits in RELEASED for its retry timer, a release tells the modem "closed" but
leaves the subscriber in the list (`Agps.cpp:116-123`), and the retry starts a
data call for it (568-579), whose success is reported for the released handle.
Nothing forbids this; such a handle is tracked until its end (`OpenIsTracked`).

### Fairness

`FairSpec` adds weak fairness of the thread that takes the queue and of the
timers, which the threads justify, and of the outside world: the framework
answers a request or a release with a report of type SUPL, the one type it can
report through `AGnss.cpp`, and the DS client reports about a call it accepted.
The code relies on the latter two: it has no timeout of its own for either. So
nothing is assumed of the internet machine: a request for WWAN_ANY puts it in
PENDING, asks the framework for a connection, and no report reaches it. Liveness is checked for the setting
off; with the DS machine a request may wait for ever (a call refused with an
error other than busy or unsupported leaves the subscriber in RELEASED until
somebody else asks).

## 4. NiSession

### Correspondence

| TLA+ | Code |
|---|---|
| `session["supl"]`, `session["es"]` | `mNiData.session`, `mNiData.sessionEs`: `rawRequest`, `reqID`, `respRecvd`, and `answer` for `resp` |
| `reqIDCounter` | `mNiData.reqIDCounter` |
| `hasClient` | some client has a `gnssNiCb` |
| `handler` | where the MsgTask thread is in `MsgGnssNiResponse::proc` |
| `thread[r]`, `taken[r]` | the NI thread of request `r` and its local `resp`, `rawRequest` |
| `RequestNiNotify` | `requestNiNotify`, one step: what it reads can only become free meanwhile |
| `MatchResponse`, `LookForSupl`, `IgnoreSupl`, `RecordResponse` | the response handler: an unlocked look-up, an unlocked test, two locked sections |
| `NiThreadWaits`, `NiThreadAnswered`, `NiThreadTimesOut`, `NiThreadResets` | `niThreadProc`: the locked sections and what follows the unlock |
| `InformNiResponse` | the message posted to the MsgTask thread that informs the modem |

`answer.from` is a history component: the request the response was given to.
A timeout may overwrite a response that has come, because
`pthread_cond_timedwait` may return `ETIMEDOUT` after the flag was set. The
client responds at most once to a notification; it may be removed at any time,
and a response then is refused. A notification that finds no client (its
payload is lost) or its session busy (its payload is freed) changes no state
of the model and is no action. Not modelled: the length of the wait
(`respTimeLeft`), the wrap of the 32 bit counter, a NULL payload.

### Runs

| Run | Bounds | Shows |
|---|---|---|
| `ni_base` | 3 requests | one thread per session, each response of the user used for one request of its session, every request ends |
| `ni_stale` | 3 requests | violation: the flag is not reset for the next session when a response is recorded after the timeout |

Three requests give two in a row on one session while the other is busy, which
is what the two sessions can do to each other and what a session can inherit
from the one before.

Fairness: the MsgTask thread finishes the handler it is in and handles the
answers posted to it, and the NI threads run; a wait ends at its timeout. No
fairness is assumed of the modem or of the client. A request whose thread
could not be created never ends (the code only logs it), so `EveryNiEnds` is
about those that have one.

## 5. GnssTracking

The path of a tracking session from the `LocationAPI` to the engine, with the
clients, `GnssAdapter` and `LocApiBase` in one module, because what must agree
is kept in all of them.

### Correspondence

| TLA+ | Code |
|---|---|
| `clientData[c]` | `gData.clientData`: the callbacks of each `LocationAPI` instance |
| `mClientData`, `mTrackingSessions`, `mEvtMask` | the adapter's members of those names; a session is its options or `NULL` |
| `engine` | the modem: up or down, the fix it runs, the events it reports |
| `removing` | the loop of `stopClientSessions` while the MsgTask thread is in `removeClientCommand`'s message |
| `CreateInstance`, `UpdateCallbacks`, `Destroy`, `StartTracking`, `UpdateTrackingOptions`, `StopTracking` | the calls of `LocationAPI`, each of which posts one message at most |
| `AddClient`, `RemoveClient`, `ProcStart`, `ProcUpdate`, `ProcStop` | the messages' `proc()`, with `startTrackingMultiplex`, `updateTrackingMultiplex`, `stopTrackingMultiplex` and the response to the caller |
| `StopClientSession`, `EraseClient` | a turn of that loop, and what follows it: a step of its own because the engine may go down between |
| `ProcOpen`, `ProcSsr`, `RestartSessions` | `LocOpenMsg`, `LocSsrMsg`, the `handleEngineUpEvent` message |
| `EngineDown`, `EngineUp` | `LocApiBase::handleEngineDownEvent`, `handleEngineUpEvent` |

An engine command may be refused in any handler (`ok`). Options are an
interval and a mode. `fix` and `stopFailed` are history variables: what
became of the fix when the engine went down, and which sessions the engine
refused to stop. Callers give `NULL` options where the code tests `size == 0`.
The FLP and geofence interfaces are not loaded: their libraries are not in the
tree.

What the code does, seen while modelling, and in the model:

- a stop or update of an unknown id gets no response (the comments at
  `GnssAdapter.cpp:1492-1494` and `1569-1571` say so; `LocationAPI.h:801` and
  `808` list `ID_UNKNOWN`);
- `~LocationAPI` tells only the interfaces of the callbacks registered last.
  An instance that drops its gnss callbacks and is destroyed stays in the
  adapter for ever, and nothing in the code keeps an instance from that.
  `DestroyedIsForgotten` says that these, and no others, are known after they
  were destroyed: `dropped` is a history variable with the instances whose gnss
  callbacks were exchanged for others.

### Run and bounds

`tracking_base`: 2 clients, 2 sessions of one and 1 of the other, 2 intervals,
2 messages in the queue. The engine runs the smallest interval of the sessions
and is off without any (`EngineServesSessions`); no session is left of a
client that is gone but one the engine refused to stop (`NoOrphanSession`); the
adapter forgets destroyed instances but those that had dropped their callbacks
(`DestroyedIsForgotten`; the first client may exchange its callbacks for others,
the second keeps them); an engine that is up reports the events wanted (`EventsWanted`);
a fix lost in a restart is started again (`FixRestarted`).

Three sessions with two intervals are what the multiplexing can tell apart:
a session, another that is smaller or larger than it, and one that makes the
others a set. Two messages are a command queued before and one after an
engine restart. The proofs below need none of these bounds.

Fairness: the MsgTask thread runs. Nothing is assumed of the engine or of the
clients.

## 6. LocationClient

### Correspondence

| TLA+ | Code |
|---|---|
| `mTracking`, `tracking`, `sessions`, `niResponse` | `mTracking`, and the `RequestQueue`s REQUEST_TRACKING, REQUEST_SESSION, REQUEST_NIRESPONSE: a session and a list of requests |
| `mSessionBiDict` | the dictionary of that name: `SessionEntity` by id |
| `msgs`, `running` | the adapters: messages in order, sessions they run |
| `handling` | the response the MsgTask thread has taken a request for and not yet told: `onResponseCb` releases `mMutex` in between |
| `StartTracking` ... `GetBatchedLocations` | `locAPIStartTracking` ... `locAPIGetBatchedLocations`; `locAPIUpdateSessionOptions` is four actions, for the same mode, a switch of mode, from and to NONE |
| `ProcMsg`, `OnResponse` | the adapter's handler with `getRequestBySession`, and the request's `onResponse` |

A message carries the request it was posted for (`req`), which the code does
not have: it lets `ResponseMatches` say that the request taken by position is
the right one. An adapter answers a start and an NI response always, a stop or
an update only of a session it runs.

`orderly` is the client's part of the contract: it waits for the response to
a session call before the next, does not use mode NONE, and asks for locations
of its own sessions. Without it the code mixes responses up: requests of all
sessions share one queue, the stop that is part of a switch of mode has no
request, and a start in mode NONE enters the dictionary without a session and
cannot be stopped. A start that fails leaves its id in the dictionary, and the
next start of it is answered ALREADY_STARTED.

The adapter counts ids of notifications from 1 (`GnssAdapter.cpp:2303`) and
those of sessions from 2 (`core/LocAdapterBase.cpp:53-61`), so `NiIds` and
`SessionIds` may share members, and here they are the same. `getRequestBySession`
looks at the tracking queue first and stops at a queue with the id
(`LocationAPIClientBase.cpp:912-926`). When a notification has the number of
the tracking session, the response to `locAPIGnssNiResponse` takes the request
of a start, a stop or an update of that session, which is told a result before
it is handled; its own response then finds none. `apart` is a history variable:
so far no id was in use for a session and a notification at once.

### Runs and bounds

`client_ids`: violation. With one range for both, a response is not matched
with its command (`ResponseMatches`), although `LocationAPI.h:787-789` says that
the session id is used to match them.

`client_base`: one id, 3 numbers for sessions and notifications, 2 messages and
2 unanswered requests; states where an id came into use for both are not
explored further (`Apart`). Until then each response is told to the request it
is for, for tracking and NI always and for sessions of an orderly client
(`ApartMatches`), and a session that runs can still be stopped
(`OrderlyLosesNone`). Three ids are the one of the tracking client, the one an
update gives up, and the one it takes, with a notification among them; two
messages are one that is old and one that is new to the queue that was reset.
Safety only.

`LocationClientProofs` proves the three for any ids of one range or two, any
sessions and queue lengths.

## 7. OsObserver

### Correspondence

| TLA+ | Code |
|---|---|
| `subscriptionObj`, `mSubscribeReqCache`, `mReqDataCache` | the members of those names of `SystemStatusOsObserver` |
| `replay` | the cached requests the loops of `setSubscriptionObj` have yet to post, which `Before` puts in the order of the maps |
| `mClientIndex`, `mDataItemIndex`, `cached` | `ClientIndex`, `DataItemIndex` (with the order of its lists), `mDataItemCache` |
| `framework` | the OS: what it is subscribed for and what it was asked once |
| `Subscribe`, `RequestData`, `UpdateSubscription`, `Unsubscribe`, `UnsubscribeAll`, `Notify` | the calls, each of which caches or posts |
| `HandleSubscribe` ... `HandleNotify` | the messages' `proc()` |
| `Found`, `Removed` | `DataItemIndex::remove` with its `set_intersection` on a list that is not sorted |

`wanted`, `fresh` and `early` are history variables: what the clients want by
their calls, who was told the latest value, and who gave up items before the
cached requests were posted. Values are not kept: a notification has a value
that differs from the cached one or not.

What the code does, and is in the model: `unsubscribeAll` stops half way
(`ClientIndex::remove` returns 0); a client behind a larger one in a list is
not found and not removed; an update leaves the items given up in the data
item index; the answer to a `requestData` of an item whose value has not
changed is not told; an item that was asked for with `requestData` and is
subscribed to later never reaches the framework, which is why
`FrameworkServesClients` is about the other items. The caches are never
cleared, so a second subscription object would have them posted again; the
model gives one object.

### Run and bounds

`observer_base`: 2 clients, one item to subscribe to and one to ask for, 2
messages. Both indexes hold what each client wants (`SubscribersServed`), the
framework is subscribed for what some client is listed for
(`FrameworkServesClients`), and each subscriber was told the latest value
(`ToldLatest`). Two clients give the two orders in a list; items are
independent of each other in the code, and one of each kind is enough. The
VIEW leaves out the caches once the object is set, and what an early client
wants: neither is read again. Safety only.

## 8. LocHeap and LocTimer

### Correspondence

| TLA+ | Code |
|---|---|
| `LocHeap`: `Push`, `Pop`, `Remove`, `CheckNodes` | the bodies of `LocHeapNode::push`, `pop`, `remove`, `checkNodes` |
| `Pushed`, `Popped`, `Removed`, `Heaps` | constants: the functions of what these methods return on a tree or a subtree, and the trees that `checkNodes` finds sorted, the empty one too |
| `HeapCode` | that the constants are what the bodies define |
| `mTimer[t]`, `delegate[d]` | `LocTimer::mTimer`; a `LocTimerDelegate`'s client and time, `NULL` once deleted |
| `heap`, `kernel`, `poll` | `LocTimerContainer`'s heap, its timer fd, and `LocTimerPollTask` between `epoll_wait` and the end of `expire` |
| `task` | where the MsgTask thread is: arming, expiring, or calling a client back |
| `Start`, `Stop` | `LocTimer::start`, `stop` with the lock held |
| `PollWait`, `PollExpire` | the poll thread |
| `ProcPush`, `ProcRemove`, `ArmTimer`, `ProcExpire`, `PopNext`, `CallBack`, `ExpireEnds` | the messages' `proc()`, cut where another thread can come between |

The methods of the heap call themselves on subtrees, and operators that call
themselves are nothing the provers could use. So the body of a method is an
operator that takes the function of what it calls as a parameter, the function
is a constant, and `HeapAssumption` has its equation for each heap and data
(`Pushed[h, e] = Push(h, e, Pushed)`), and that a heap is what `checkNodes`
finds sorted. For TLC, `MCTimer` has the functions that call themselves
(`HeapPush[tree, data] == Push(tree, data, HeapPush)`) and the sorted trees of
the delegates; the `.cfg` gives them to the constants, and TLC evaluates
`HeapAssumption` of them.

`HeapContract` is what the timers need of the heap: an operation on a sorted
heap makes a sorted heap, with the data added, the top one taken out, or the
given one taken out although `remove` leaves subtrees out of its search. That
the bodies keep it is `HeapKept`.

Time is a counter that the handlers read; an address of a deleted delegate is
used again. A timer may be stopped and started at any step. What the code
does, and is in the model: the branch of `updateSoonestTime` that would disarm
the kernel timer is not reached when the last timer is removed, so it stays
armed and expires for nobody; the handler of an expiry pops the first timer
without comparing its time (`LocTimer.cpp:368`); and a delegate stops its
client, not itself, from a pointer read without the lock
(`LocTimer.cpp:528-530`).

### Runs and bounds

`timer_base`: 3 timers and 3 delegates, delays 0 and 1, the clock stops at 1.
The heap is always one of `Heaps` (`TypeOK`), each delegate is deleted once and not while it is held,
the delegate of a running timer is on its way or in the heap, the kernel timer
is armed for the soonest timer when nobody is at work, and every timer ends.
Three timers are a heap with both children; a delay that has passed and one
that has not are what the comparisons tell apart. `HeapKept` is about
constants, so it is evaluated in the initial state, for each sorted tree of up
to three delegates and each operation on it; the theorem `HeapAlwaysKept` has
it for trees of every size.

`timer_early`: violation. A comment says that only timers older than now are
expired; a timer stopped and started again at the wrong moment is called back
before its time. 2 timers, delays 0 and 2.

Fairness (`FairSpec`): the clock ticks, the poll thread and the MsgTask
thread run. Clients need do nothing. Timers differ in name only, so
`EveryTimerEnds` is stated for one of them.

## 9. GnssControl

### Correspondence

| TLA+ | Code |
|---|---|
| `mApi`, `mPendingConfig` | `Gnss::mApi` (with `getGnssInterface`, which makes the control client), `Gnss::mPendingConfig` |
| `mEnabled`, `mConfig`, `control`, `configReqs` | `LocationAPIControlClient`: its members and its two request queues |
| `mPowerVoteId`, `GPS_LOCK`, `AGPS_CONFIG_INJECT`, `engine` | the adapter; the configuration, of which the last item is read from `gps.conf` once; what the modem was told |
| `TellItems` | what `MsgGnssUpdateConfig` tells the modem: a server only where `AGPS_CONFIG_INJECT` is set (else nothing, with SUCCESS, `GnssAdapter.cpp:678`), and not one whose name does not fit with its port (`LongServers`, 692-696), which is answered with an error |
| `SetCallback`, `SetGnssNiCb`, `Cleanup` | `Gnss::setCallback`, `setGnssNiCb`, `cleanup`; the first two make the API |
| `SetGpsLock`, `SetServer`, `SetOther` | the setters of `GnssConfiguration` and `AGnss`, through `Gnss::updateConfiguration` |
| `ProcEnable`, `ProcDisable`, `ProcConfig` | `MsgEnableGnss`, `MsgDisableGnss`, `MsgGnssUpdateConfig` |
| `OnCtrlResponse` | the control callback of enable and disable: a step of its own, because it waits for the client's mutex |

The HAL's binder calls come on one thread, so a setter that makes the API and
posts its messages is one step. `refused` (items whose last value the engine
refused, or the adapter answered with an error) and `wanted` (what the callers
want, and whether they named the server before the client was made, `early`) are
history variables.

What the code does, and is in the model: a configuration equal to the last one
is dropped with SUCCESS even when the engine refused it (`EngineFollows` leaves
out refused items, so no property catches this); the host name of a server set
before the client is made is lost, and the empty name is sent (`Gnss.cpp:160`,
`NoServer`), which `EngineFollows` states of exactly those names (`NamedLast`);
the result of `setGpsLock` is not looked at in enable and disable.

### Run and bounds

`control_base`: 3 locks (none and two others), 2 servers, one of them with too
long a name, 4 session ids, 3 messages, `AGPS_CONFIG_INJECT` set or not. `SessionsAgree`: the adapter never sees an enable while enabled or a
disable of another session, its vote follows the client, and the queue of
requests is what is not answered yet, in order. `EngineFollows`: the engine
ends with the lock asked last, whether it came before, during or after the
service was enabled, and with the server named last where the HAL may
configure it, the empty one if that was lost, and with none where it may not. Four session ids are one in each
place that can hold one; two locks other than none and two servers are a value
and a later one. Safety only.

## 10. SyncCall

### Correspondence

| TLA+ | Code |
|---|---|
| `slot[i]` | `loc_sync_data.slots[i]`: the owner of its mutex, `in_use`, `signal_sent`, what it waits for, the answer |
| `caller[c]` | where a thread is in `loc_api_sync_ioctl` and its locals |
| `cb` | where the RPC thread is in `loc_api_callback_process_sync_call` |
| `requests` | what the modem has and may still answer |
| `LockASlot`, `NoSlot`, `SaveCallback`, `LocIoctl`, `LockSlot`, `Signalled`, `TimesOut`, `Leave` | `loc_lock_a_slot` (one slot to a step), `loc_set_slot_in_use` and `loc_api_save_callback`, the call of `loc_ioctl` (which may fail), `loc_api_wait_callback` |
| `LockNext`, `CheckSlot`, `SearchEnds` | the loop of the RPC thread |

A step begins or ends where a mutex is taken or released; `Put` and `Become`
write a slot and a thread. A wait may time out at any time, also after the
signal was sent (the code tests the timeout first, and the answer is lost). A
request carries its call,
which the code does not have. What the code does, and is in the model: a late
answer goes to a later call of the same client and kind; a call can be refused
while a slot is free, because its mutex is tried and not waited for. Not in
the model: the timeout's fraction of a second, which is truncated; the flag
`not_available`, which nothing sets; the destruction of the table, which
nothing calls.

### Run and bounds

`sync_base`: 2 threads, 2 keys, 2 slots, 3 calls. A slot has one call
(`SlotExclusive`), an answer is received once and by a call of its kind
(`AnswerOnce`), an answer to a call that goes on is not passed over
(`NoAnswerDropped`), and every call returns (`EveryCallEnds`). Three calls by
two threads give a call that times out, the next one of the same thread, and
one beside it; the answer to each may come at any time. The number of calls is
bounded, so the system stops when they are used up and deadlock is not
checked.

Fairness: each calling thread and the RPC thread run; weak fairness is enough
for the mutexes because the number of calls, and with it of times a mutex is
taken, is bounded. The modem need not answer.

## 11. Proofs

All constants are arbitrary: any finite set of handles and any number of
retries in `AgpsProofs`, of requests in `NiSessionProofs`, any clients,
sessions, intervals and queue length in `GnssTrackingProofs`, any ids, sessions
and queue lengths in `LocationClientProofs`, any timers, delegates, delays and
heaps in `LocTimerProofs`, any threads, keys, slots and calls in `SyncCallProofs`, any clients, items and queue length
in `OsObserverProofs`, any locks, servers, session ids and queue length in
`GnssControlProofs`. The assumptions are those of the modules
(`AgpsAssumption`, `NiAssumption`, `TrackingAssumption`, `ClientAssumption`,
`TimerAssumption`, `SyncAssumption`, `ObserverAssumption`,
`ControlAssumption`), which say only that the constants are of their types,
and `HeapAssumption`, which says that the heap's operations are the code's;
TLC evaluates them on every run. One hypothesis says more and is named in
the theorems that need it: `NoEmergencyPdn`.

**AgpsProofs**

- `TypeCorrect`: `TypeOK`, in particular that `mRetries` stays within its limit.
- `ListMatchesStateAlways`: `ListMatchesState` is inductive with `TypeOK`. The
  well-formedness of the lists (order, inactive subscribers wait for the
  close) is part of it because the handlers test one by the other.
- `NoConnectionLeakedAlways`: needs the lists, because the connection is given
  up when the last active subscriber goes.
- `OpenIsTrackedAlways`: inductive with `ListMatchesState`: a list that goes
  from ACQUIRED to RELEASED without a word has nobody in it.
- `NoRequestForgottenAlways`: by the inductive invariant `RequestInv`, which
  adds that a released handle is answered, that an inactive subscriber was
  released, and that a handle the modem has not asked for is in no list and no
  message: without that a request could find its handle inactive and be lost
  with the next close.
- `ModemViewAlways`, `ContractKept`: by `ViewInv`, which adds that a released
  handle was told its end and that the DS machine, its queue and its timers
  are empty. Both are under `NoEmergencyPdn` (the setting is off, or the modem
  asks for no emergency ATL), which `agps_base` satisfies. It is needed:
  with the DS machine a handle may be listed by two machines, and a late retry
  opens a released one (section 3). A handler works on one machine, so
  both are proved once for a step that tells some handles of one machine
  (`OneMachineView`), and then handler by handler: each one is a step of
  the contract or leaves `atl` and `released` alone.

**NiSessionProofs**

- `NiTypeCorrect`.
- `OneThreadPerSessionAlways`: by `SessionInv`,
  which ties what a thread waits for to what its session holds, and adds that
  a request held is the youngest of its kind.
- `AnswersAreRealAlways`: by `NiInv`, which adds `AnswerInv`: a response of
  the user is in one place at a time, in the handler, in its session or with
  the thread that took it. The property alone is not inductive: it says
  nothing of a response that has not been taken.

**GnssTrackingProofs**

The inductive invariant `IInv` is about the sessions and the engine. Its parts:

- `Fresh`: an id with a message queued to start it has no session and no other
  such message, so a start never meets a session of the same id;
- `ServesInv`: the engine's fix is the smallest interval of the sessions, for
  an engine whose fix was not lost (with `FixInv`: else it runs none); it gives
  `EngineServes`;
- `RemovalInv`: while a client is removed, its sessions are those still to be
  stopped or refused; it gives `NoOrphan`.

Three more are inductive with it, each about what is on its way in the
queue:

- `MaskInv`: the last message queued that carries an event mask carries the
  one of `mClientData`; it gives `EventsAreWanted`;
- `ClientInv`: the last message queued about an instance that is gone removes
  it, unless the instance is in `dropped`, which the adapter knows until it is
  told otherwise; it gives `DestroyedForgotten`;
- `RestartInv`: an engine that is up with its fix lost has its restart queued.
  The restart of an earlier time up may be handled while the engine is down,
  and then does nothing, but the next time up posts another. It gives
  `LostFixHasRestart`, which is what `FixRestarted` takes besides fairness.

**LocationClientProofs**

`ClientInv` is inductive. A response finds its request by position, so its
parts keep the requests and the messages of a session in step:

- `StartsFirst`: a session is started once, before its other messages;
- `Synced`: the requests of the tracking queue are, in order, those of the
  messages for the session tracked with, as long as it runs or will; when it
  does not, no response will take one of them. `TrackingApart` says that no
  entity of the dictionary has that session;
- `Answering`: the response being delivered has its request, and after a stop
  that succeeded its session does not come back while `mMutex` is released;
- `OneRequest`: an orderly client has one session request at most, and the one
  message for a session of its dictionary is for it;
- `Stoppable`: a session that runs, or will, is known to the client or has its
  stop under way, unless the stop was refused.

The parts that are about responses hold while `apart` does, a state of the
model and no assumption: a step that takes an id in use for the other kind ends
it (section 6 has what happens then). `ResponsesMatch` (`ApartMatches`) and
`NoneLost` follow; `TypeCorrect` needs none of this.

**LocTimerProofs**

First the heap (`HeapAlwaysKept`). A subtree is smaller than its tree, and a set
of numbers has a least one (`LeastNat`, from the well-foundedness of `<`), so a
set of heaps that has the empty one, and a heap whenever it has its subtrees,
has all of them (`HeapInduction`). Each method is such an induction:
`PushKept`, `PopKept` and `RemoveKept` say what it returns, what that holds and
its size, and the step (`PushStep`, `PopStep`, `RemoveStep`) has a case per
branch of the method's body. `HeapOrder` (nothing in a heap is sooner than its
top) is why `remove` may leave a subtree out. The sizes are part of it, because
`checkNodes` counts them.

With that (`ContractKept`) `TimerInv` is inductive: with `TypeOK`,

- `Owned`, `InHeap`: a timer's delegate is its own, and the heap holds
  delegates that exist, with their times;
- `InMsgs`: a delegate has at most one push queued and at most one removal,
  the push first; it has a removal queued exactly when it has lost its client,
  so it is deleted once;
- `NotDropped`, `Firing`: the delegate of a timer that runs is queued, in the
  heap or being expired, and while it is expired it gets no other client;
- `Arming`, `Armed`: the kernel timer is armed for the soonest timer or
  sooner, unless an expiry is on its way, at the end of which it will be. The
  disjunction (`Alarm`) is what the disarming by the poll thread needs: it
  may come after the MsgTask thread has armed the timer again.

`TypeCorrect`, `OneDeletion`, `NoneDropped` and `SoonestArmed` follow.

**SyncCallProofs**

`SyncInv` is inductive: with `TypeOK`, `SlotExclusive` and `NoAnswerDropped`,

- `LockInv`: a thread that works on a slot has its lock, a slot just
  found is not in use, and a call that succeeds was signalled;
- `CallInv`: a request that is known to the modem or the RPC thread, of a call
  that goes on, was sent by it, under its key;
- `AnswerInv`: an answer is in one place at most: with the modem, with the RPC
  thread, in one slot, or returned. `AnswerOnce` is the part of it a caller sees.

`SlotsExclusive`, `AnswersOnce` and `NoneDropped` follow.

**OsObserverProofs**

`ObserverInv` is inductive: with `TypeOK`, `FrameworkServesClients` and
`ToldLatest`,

- `RequestsOK`: a `requestData` in the caches, about to be posted or queued
  names `RequestItems` only, so its handler, which tells the framework but does
  not subscribe it, lists nobody for the items `FrameworkServesClients` is about;
- `BothIndexes`: what a client has in its index, the index of the items has
  too. The converse fails (an update and `unsubscribeAll` leave clients
  there), but this half is what a notification needs to reach every
  subscriber: `HandleNotify` goes by the index of the items first.

`TypeCorrect`, `FrameworkServes` and `LatestTold` follow. That a list names a
client once is part of the types, because a removal takes one entry out.

`ServedAlways` is `SubscribersServed`, by `ServedInv`. The property is about
the end, when every request was handled; the invariant says what the messages
still queued will have made of the indexes by then. A message adds an item
for a client, drops it or leaves it, and the last that does either decides
(`Pending`). So a client wants an item exactly when a cached request not yet
posted asks for it (`ToReplay`) or the queue leaves it there (`OnTheWay`);
before the object comes nothing was queued and the caches have it all
(`Untouched`). A cached request only asks (`OnlyAsk`), so when it is posted
after newer calls it takes nothing away: that is why the clients that gave up
items before then (`early`) are left out.

**GnssControlProofs**

`ControlInv` is inductive: with `TypeOK` and `RequestsMatch` (which a session
id that is new keeps, `MatchFresh`),

- `StartInv`: before the client is made nothing is queued, and what the callers
  want is what waits, or else what the engine and the configuration have;
- `VoteInv`: along the queue, each enable or disable takes the vote as the one
  before it leaves it (`Chain`), the first as the adapter has it, and the last
  leaves it as the client is;
- `ConfigInv`: the last lock queued is the one wanted, or it has arrived; the
  same for the server (`NamedLast`), unless it was refused or there is no
  `AGPS_CONFIG_INJECT` (`Excused`); in that case no server ever arrives
  (`Untold`). A lock that is dropped as
  identical is the one wanted, so dropping it is safe, and a named server is
  never dropped;
- `EngineInv`: the engine's lock is what the vote and the configuration say.

`TypeCorrect`, `SessionsAgreeAlways` and `EngineFollowsAlways` follow. What is
said of the last message of a kind (`Ends`) holds through lemmas on appending a
message and taking the first.

Each proof has a lemma per kind of step. For records, a first group of lemmas
says what each way to write a session, a slot or a thread leaves in every
field.

**Only model-checked**

- Liveness, which is beyond them: `EveryRequestAnswered`, `EveryNiEnds`,
  `FixRestarted`, `EveryTimerEnds`, `EveryCallEnds`. What the first, the third
  and the fourth need of every state is proved (`NoRequestForgottenAlways`,
  `LostFixHasRestart`, `NoneDropped` with `SoonestArmed`).
- The three violations (`client_ids`, `ni_stale`, `timer_early`) are
  traces that TLC finds.

## 12. What is not modelled

In the modelled parts:

- `AgpsManager::handleModemSSR` has no caller in this tree.
- `loc_timer_start` returns a handle and its caller tests it as an error code
  (`Agps.cpp:633`); both outcomes make the caller return a non-zero value, and
  the state is the same.
- `deleteSubscriber` goes on comparing with the subscriber it has just deleted
  (`Agps.cpp:434`): the model assumes that no other one matches.
- `retryCallback` walks the list on a timer thread without synchronisation
  (`Agps.cpp:568`): the model runs it atomically.
- NI sessions after an engine restart: a comment in `niThreadProc` refers to
  a reset (`loc_eng_ni_reset_on_engine_restart`) that this tree does not have.
- Tracking: the ULP proxy, whose base class handles nothing, and the
  configuration sent again after a restart.
- Client base: geofences (the same queues and dictionary once more, for a
  library that is not in the tree) and callbacks after the destructor.
- OS observer: `turnOn` and `turnOff`, for an action object nothing supplies.
- Timers: the second container, the C wrapper (whose objects delete
  themselves), the deletion of a `LocTimer`, failed `epoll` calls, the width
  of time.
- Control: the deletion of aiding data, the lookup of the server's address and
  the C2K server, the other configuration items (set in the same way), the
  lock told to XTRA.

Other parts: the message task (the models take from it that messages are
handled one at a time, once, in order), reports, system status, NMEA,
configuration files and logging have data and no control; the XTRA observer is
one client of `OsObserver`. The rest of the older trees (`loc_eng.cpp`, its
adapters and HALs) is the former form of what is modelled here, once per chip.

## 13. How to run

`tlc -workers 2 -config AgpsBase.cfg MCAgps` and so on for the runs of
`PROJECT.json`; `NiSession` and `SyncCall` are run without an MC module.
`tlapm AgpsProofs.tla`, and the same for `NiSessionProofs`,
`GnssTrackingProofs`, `LocationClientProofs`, `LocTimerProofs`,
`SyncCallProofs`, `OsObserverProofs` and `GnssControlProofs`. The operators named `Faulty...` and
those commented "Fault:" are wrong versions of an operator that a property is
known to catch; no specification uses them.
