----------------------------- MODULE OsObserver -----------------------------
(***************************************************************************)
(* The OS status observer: subscriptions of clients to data items of the   *)
(* OS (core/SystemStatusOsObserver.cpp, core/data-items/common).           *)
(*                                                                         *)
(* Clients call on their own threads.  Until the OS library gives its      *)
(* subscription object, subscribe and requestData are cached; then a call  *)
(* posts a message, and the MsgTask thread handles the messages in order.  *)
(* The observer keeps who wants what twice, by client and by data item,    *)
(* and asks the framework for an item when its first client comes.         *)
(*                                                                         *)
(* Lists of data items are sets: callers pass them sorted, as the set      *)
(* algorithms of the code need.  The lists of clients are in the order the *)
(* clients came, which the same algorithms are not made for.               *)
(***************************************************************************)
EXTENDS Naturals, Sequences, SequencesExt

CONSTANTS
  Clients,        \* IDataItemObserver pointers: numbers, as they are compared
  SubscribeItems, \* data items clients subscribe to
  RequestItems,   \* data items they ask for with requestData
  MaxMsgs         \* bound: callers wait while that many messages are queued

ASSUME ObserverAssumption == Clients \subseteq Nat /\ MaxMsgs \in Nat

Items == SubscribeItems \cup RequestItems

VARIABLES
  subscriptionObj,    \* whether the OS library has given its object
  mSubscribeReqCache,
  mReqDataCache,
  replay,             \* cached requests setSubscriptionObj() has yet to post
  msgs,               \* the MsgTask queue
  mClientIndex,       \* items of each client
  mDataItemIndex,     \* clients of each item, in the order of their arrival
  cached,             \* items in mDataItemCache
  framework,          \* the OS: items it is subscribed for, items it was asked for once
  fresh,              \* for the properties: the clients that were told the
                      \* cached value of an item they subscribe to
  wanted,             \* for the properties: the items each client wants, by its calls
  early               \* for the properties: clients that gave up items before
                      \* their cached requests were posted

vars == <<subscriptionObj, mSubscribeReqCache, mReqDataCache, replay, msgs, mClientIndex,
          mDataItemIndex, cached, framework, fresh, wanted, early>>

Index == <<mClientIndex, mDataItemIndex, cached, framework, fresh>>

Msg == [type : {"subscribe", "update", "requestData", "unsubscribe", "unsubscribeAll"},
        client : Clients, items : SUBSET Items]
         \cup [type : {"notify"}, item : Items]

Request(type, c, items) == [type |-> type, client |-> c, items |-> items]
Post(m) == Len(msgs) < MaxMsgs /\ msgs' = Append(msgs, m)

-----------------------------------------------------------------------------
(***************************************************************************)
(* Calls of the clients.                                                   *)
(***************************************************************************)
\* cacheObserverRequest()
Cached(cache, c, items) == [cache EXCEPT ![c] = @ \cup items]

Want(c, items) == wanted' = [wanted EXCEPT ![c] = items]

Subscribe(c, items) ==
  /\ IF subscriptionObj
       THEN Post(Request("subscribe", c, items)) /\ UNCHANGED mSubscribeReqCache
       ELSE mSubscribeReqCache' = Cached(mSubscribeReqCache, c, items) /\ UNCHANGED msgs
  /\ Want(c, wanted[c] \cup items)
  /\ UNCHANGED <<subscriptionObj, mReqDataCache, replay, Index, early>>

RequestData(c, items) ==
  /\ IF subscriptionObj
       THEN Post(Request("requestData", c, items)) /\ UNCHANGED mReqDataCache
       ELSE mReqDataCache' = Cached(mReqDataCache, c, items) /\ UNCHANGED msgs
  /\ Want(c, wanted[c] \cup items)
  /\ UNCHANGED <<subscriptionObj, mSubscribeReqCache, replay, Index, early>>

\* Without the object these calls do nothing; the cache keeps what it has.
GiveUp(type, c, items, left) ==
  /\ IF subscriptionObj THEN Post(Request(type, c, items)) ELSE UNCHANGED msgs
  /\ Want(c, left)
  /\ early' = IF ~subscriptionObj \/ \E r \in replay : r.client = c
                THEN early \cup {c} ELSE early
  /\ UNCHANGED <<subscriptionObj, mSubscribeReqCache, mReqDataCache, replay, Index>>

UpdateSubscription(c, items) == GiveUp("update", c, items, items)
Unsubscribe(c, items)        == GiveUp("unsubscribe", c, items, wanted[c] \ items)
UnsubscribeAll(c)            == GiveUp("unsubscribeAll", c, {}, {})

-----------------------------------------------------------------------------
(***************************************************************************)
(* The OS library gives its object, once: the cached requests are posted,  *)
(* in the order of the maps, between calls of the clients.                 *)
(***************************************************************************)
Requests(type, cache) == {Request(type, c, cache[c]) : c \in {d \in Clients : cache[d] # {}}}

Before(r, q) ==
  \/ r.type = "subscribe" /\ q.type = "requestData"
  \/ r.type = q.type /\ r.client < q.client

\* Fault: the requestData cache is not posted.
SetSubscriptionObjPartly ==
  /\ ~subscriptionObj
  /\ subscriptionObj' = TRUE
  /\ replay' = Requests("subscribe", mSubscribeReqCache)
  /\ UNCHANGED <<mSubscribeReqCache, mReqDataCache, msgs, Index, wanted, early>>

SetSubscriptionObj ==
  /\ ~subscriptionObj
  /\ subscriptionObj' = TRUE
  /\ replay' = Requests("subscribe", mSubscribeReqCache) \cup Requests("requestData", mReqDataCache)
  /\ UNCHANGED <<mSubscribeReqCache, mReqDataCache, msgs, Index, wanted, early>>

Replay ==
  /\ \E r \in replay :
       /\ \A q \in replay \ {r} : Before(r, q)
       /\ replay' = replay \ {r}
       /\ Post(r)
  /\ UNCHANGED <<subscriptionObj, mSubscribeReqCache, mReqDataCache, Index, wanted, early>>

\* notify(), called by the OS with a value of an item.
Notify(i) ==
  /\ i \in framework.subscribed \cup framework.requested
  /\ Post([type |-> "notify", item |-> i])
  /\ UNCHANGED <<subscriptionObj, mSubscribeReqCache, mReqDataCache, replay, Index, wanted, early>>

-----------------------------------------------------------------------------
(***************************************************************************)
(* DataItemIndex.  add() leaves a client in its place, or puts it last.    *)
(* remove() looks for it with set_intersection(), which finds it only      *)
(* after smaller ones.                                                     *)
(***************************************************************************)
\* Fault: a client is listed once more.
AddedAlways(list, c) == Append(list, c)

Added(list, c)   == IF Contains(list, c) THEN list ELSE Append(list, c)
Found(list, c)   == \E k \in DOMAIN list : list[k] = c /\ \A j \in 1..(k-1) : list[j] < c
Removed(list, c) == IF Found(list, c) THEN RemoveAt(list, CHOOSE k \in DOMAIN list : list[k] = c) ELSE list

AddToDataItems(c, items) ==
  mDataItemIndex' = [i \in Items |->
    IF i \in items THEN Added(mDataItemIndex[i], c) ELSE mDataItemIndex[i]]

YetToSubscribe(items) == {i \in items : mDataItemIndex[i] = <<>>}

Tell(c, items)   == {<<c, i>> : i \in items \cap cached}
Forget(c, items) == {c} \X items

-----------------------------------------------------------------------------
(***************************************************************************)
(* Handlers of the MsgTask thread.                                         *)
(***************************************************************************)
Handle(type) == msgs # <<>> /\ Head(msgs).type = type /\ msgs' = Tail(msgs)

Caller == <<subscriptionObj, mSubscribeReqCache, mReqDataCache, replay, wanted, early>>

FrameworkSubscribe(items)   == framework' = [framework EXCEPT !.subscribed = @ \cup items]
FrameworkUnsubscribe(items) == framework' = [framework EXCEPT !.subscribed = @ \ items]

HandleSubscribe ==
  /\ Handle("subscribe")
  /\ LET c == Head(msgs).client  l == Head(msgs).items IN
       /\ mClientIndex' = [mClientIndex EXCEPT ![c] = @ \cup l]
       /\ fresh' = fresh \cup Tell(c, l)
       /\ AddToDataItems(c, l)
       /\ FrameworkSubscribe(YetToSubscribe(l))
  /\ UNCHANGED <<Caller, cached>>

\* Fault: items that are new to the client get no first response.
HandleUpdateSilently ==
  /\ Handle("update")
  /\ LET c == Head(msgs).client  l == Head(msgs).items IN
       /\ mClientIndex' = [mClientIndex EXCEPT ![c] = l]
       /\ fresh' = fresh \ Forget(c, mClientIndex[c] \ l)
       /\ AddToDataItems(c, l)
       /\ FrameworkSubscribe(YetToSubscribe(l))
  /\ UNCHANGED <<Caller, cached>>

\* The client still has items (the list is not empty), so the items it gave
\* up stay in the data item index.
HandleUpdate ==
  /\ Handle("update")
  /\ LET c == Head(msgs).client  l == Head(msgs).items IN
       /\ mClientIndex' = [mClientIndex EXCEPT ![c] = l]
       /\ fresh' = (fresh \ Forget(c, mClientIndex[c] \ l)) \cup Tell(c, l \ mClientIndex[c])
       /\ AddToDataItems(c, l)
       /\ FrameworkSubscribe(YetToSubscribe(l))
  /\ UNCHANGED <<Caller, cached>>

\* The framework is asked once for the items, not to report them.
HandleRequestData ==
  /\ Handle("requestData")
  /\ LET c == Head(msgs).client  l == Head(msgs).items IN
       /\ mClientIndex' = [mClientIndex EXCEPT ![c] = @ \cup l]
       /\ AddToDataItems(c, l)
       /\ framework' = [framework EXCEPT !.requested = @ \cup l]
  /\ UNCHANGED <<Caller, cached, fresh>>

RemoveFromIndexes(c, l) ==
  /\ mClientIndex' = [mClientIndex EXCEPT ![c] = @ \ l]
  /\ fresh' = fresh \ Forget(c, l)
  /\ mDataItemIndex' = [i \in Items |->
       IF i \in l THEN Removed(mDataItemIndex[i], c) ELSE mDataItemIndex[i]]

\* Fault: other clients of the item are not looked for.
HandleUnsubscribeForAll ==
  /\ Handle("unsubscribe")
  /\ RemoveFromIndexes(Head(msgs).client, Head(msgs).items)
  /\ FrameworkUnsubscribe(Head(msgs).items)
  /\ UNCHANGED <<Caller, cached>>

HandleUnsubscribe ==
  /\ Handle("unsubscribe")
  /\ RemoveFromIndexes(Head(msgs).client, Head(msgs).items)
  /\ FrameworkUnsubscribe({i \in Head(msgs).items : mDataItemIndex'[i] = <<>>})
  /\ UNCHANGED <<Caller, cached>>

\* ClientIndex::remove() returns 0, and the handler ends there.
HandleUnsubscribeAll ==
  /\ Handle("unsubscribeAll")
  /\ LET c == Head(msgs).client IN
       /\ mClientIndex' = [mClientIndex EXCEPT ![c] = {}]
       /\ fresh' = fresh \ Forget(c, Items)
  /\ UNCHANGED <<Caller, mDataItemIndex, cached, framework>>

\* A value that differs from the cached one is passed on, to the clients that
\* have the item in both indexes.
HandleNotify ==
  /\ Handle("notify")
  /\ LET i == Head(msgs).item IN
       \E differs \in BOOLEAN :
       IF differs \/ i \notin cached
         THEN /\ cached' = cached \cup {i}
              /\ fresh' = {p \in fresh : p[2] # i} \cup
                   {<<c, i>> : c \in {d \in ToSet(mDataItemIndex[i]) : i \in mClientIndex[d]}}
         ELSE UNCHANGED <<cached, fresh>>
  /\ UNCHANGED <<Caller, mClientIndex, mDataItemIndex, framework>>

-----------------------------------------------------------------------------
Init ==
  /\ subscriptionObj = FALSE
  /\ mSubscribeReqCache = [c \in Clients |-> {}]
  /\ mReqDataCache = [c \in Clients |-> {}]
  /\ replay = {} /\ msgs = <<>>
  /\ mClientIndex = [c \in Clients |-> {}]
  /\ mDataItemIndex = [i \in Items |-> <<>>]
  /\ cached = {}
  /\ framework = [subscribed |-> {}, requested |-> {}]
  /\ fresh = {}
  /\ wanted = [c \in Clients |-> {}]
  /\ early = {}

Call(c) ==
  \/ \E items \in SUBSET SubscribeItems \ {{}} :
       Subscribe(c, items) \/ UpdateSubscription(c, items) \/ Unsubscribe(c, items)
  \/ \E items \in SUBSET RequestItems \ {{}} : RequestData(c, items)
  \/ UnsubscribeAll(c)

Handler ==
  \/ HandleSubscribe \/ HandleUpdate \/ HandleRequestData
  \/ HandleUnsubscribe \/ HandleUnsubscribeAll \/ HandleNotify

Next ==
  \/ \E c \in Clients : Call(c)
  \/ SetSubscriptionObj \/ Replay
  \/ \E i \in Items : Notify(i)
  \/ Handler

Spec == Init /\ [][Next]_vars

-----------------------------------------------------------------------------
ItemSets == [Clients -> SUBSET Items]

TypeOK ==
  /\ subscriptionObj \in BOOLEAN
  /\ {mSubscribeReqCache, mReqDataCache, mClientIndex, wanted} \subseteq ItemSets
  /\ replay \subseteq Msg /\ msgs \in Seq(Msg)
  /\ mDataItemIndex \in [Items -> Seq(Clients)]
  /\ \A i \in Items : IsInjective(mDataItemIndex[i])
  /\ cached \subseteq Items
  /\ framework \in [subscribed : SUBSET Items, requested : SUBSET Items]
  /\ fresh \subseteq Clients \X Items
  /\ early \subseteq Clients

\* Every request of the clients was handled.
Drained ==
  subscriptionObj /\ replay = {} /\ \A i \in DOMAIN msgs : msgs[i].type = "notify"

(***************************************************************************)
(* Whether its calls came before the object was given, or while the cached *)
(* ones were posted: a client has the items it wants, in both indexes,     *)
(* unless it gave up items before its cached requests were posted.         *)
(***************************************************************************)
SubscribersServed ==
  Drained => \A c \in Clients \ early :
    /\ mClientIndex[c] = wanted[c]
    /\ \A i \in wanted[c] : c \in ToSet(mDataItemIndex[i])

(***************************************************************************)
(* subscribe(), updateSubscription() and unsubscribe() keep the framework  *)
(* subscribed for exactly the items some client is listed for, although    *)
(* each looks at part of the indexes; items of requestData aside.          *)
(***************************************************************************)
FrameworkServesClients ==
  \A i \in SubscribeItems \ RequestItems : i \in framework.subscribed <=> mDataItemIndex[i] # <<>>

(***************************************************************************)
(* First responses and notifications together: a client that subscribes to *)
(* an item the observer has a value of was told the latest one.            *)
(***************************************************************************)
ToldLatest ==
  \A c \in Clients, i \in (SubscribeItems \ RequestItems) \cap cached :
    i \in mClientIndex[c] => <<c, i>> \in fresh

=============================================================================
