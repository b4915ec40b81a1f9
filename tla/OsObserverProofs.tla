-------------------------- MODULE OsObserverProofs --------------------------
(***************************************************************************)
(* Proofs about OsObserver, for any clients and data items.                *)
(***************************************************************************)
EXTENDS OsObserver, SequenceTheorems, TLAPS

-----------------------------------------------------------------------------
(***************************************************************************)
(* Sequences: queues and lists of clients.                                 *)
(***************************************************************************)
LEMMA Appended ==
  ASSUME NEW S, NEW q \in Seq(S), NEW m \in S
  PROVE  /\ Append(q, m) \in Seq(S) /\ Len(q) \in Nat
         /\ Len(Append(q, m)) = Len(q) + 1 /\ Append(q, m)[Len(q) + 1] = m
         /\ \A i \in 1..Len(q) : Append(q, m)[i] = q[i]
OBVIOUS

LEMMA HeadTail ==
  ASSUME NEW S, NEW q \in Seq(S), q # <<>>
  PROVE  /\ Head(q) \in S /\ Head(q) = q[1] /\ 1 \in 1..Len(q)
         /\ Tail(q) \in Seq(S) /\ Len(q) \in Nat /\ Len(Tail(q)) = Len(q) - 1
         /\ \A i \in 1..(Len(q) - 1) : Tail(q)[i] = q[i + 1]
OBVIOUS

LEMMA AddedList ==
  ASSUME NEW S, NEW list \in Seq(S), IsInjective(list), NEW c \in S
  PROVE  /\ Added(list, c) \in Seq(S) /\ Added(list, c) # <<>> /\ IsInjective(Added(list, c))
         /\ ToSet(list) \subseteq ToSet(Added(list, c)) /\ c \in ToSet(Added(list, c))
<1>1. DOMAIN list = 1..Len(list) /\ Len(list) \in Nat
  OBVIOUS
<1>2. CASE Contains(list, c)
  <2>1. PICK k \in 1..Len(list) : list[k] = c
    BY <1>2 DEF Contains
  <2>2. list # <<>>
    BY <2>1
  <2> QED
    BY <1>1, <1>2, <2>1, <2>2 DEF Added, ToSet
<1>3. CASE ~Contains(list, c)
  <2> DEFINE new == Append(list, c)
  <2>1. /\ new \in Seq(S) /\ Len(new) = Len(list) + 1 /\ new[Len(list) + 1] = c
        /\ \A k \in 1..Len(list) : new[k] = list[k]
    BY Appended
  <2>2. DOMAIN new = 1..(Len(list) + 1) /\ new # <<>>
    BY <2>1
  <2>3. \A k \in 1..Len(list) : list[k] # c
    BY <1>3 DEF Contains
  <2> HIDE DEF new
  <2>4. \A k \in DOMAIN new : k \in 1..Len(list) \/ k = Len(list) + 1
    BY <1>1, <2>2
  <2>5. ASSUME NEW a \in DOMAIN new, NEW b \in DOMAIN new, new[a] = new[b] PROVE a = b
    <3>1. CASE a \in 1..Len(list) /\ b \in 1..Len(list)
      BY <1>1, <2>1, <2>5, <3>1 DEF IsInjective
    <3>2. CASE a = Len(list) + 1 \/ b = Len(list) + 1
      BY <2>1, <2>3, <2>4, <2>5, <3>2
    <3> QED
      BY <2>4, <3>1, <3>2
  <2>6. ToSet(list) \subseteq ToSet(new) /\ c \in ToSet(new)
    BY <1>1, <2>1, <2>2 DEF ToSet
  <2>7. Added(list, c) = new
    BY <1>3 DEF Added, new
  <2>8. IsInjective(new)
    BY <2>5 DEF IsInjective
  <2> QED
    BY <2>1, <2>2, <2>6, <2>7, <2>8
<1> QED
  BY <1>2, <1>3

LEMMA AtRemoved ==
  ASSUME NEW S, NEW list \in Seq(S), NEW k \in 1..Len(list)
  PROVE  /\ RemoveAt(list, k) \in Seq(S) /\ Len(RemoveAt(list, k)) = Len(list) - 1
         /\ \A j \in 1..(Len(list) - 1) :
              RemoveAt(list, k)[j] = IF j < k THEN list[j] ELSE list[j + 1]
<1> DEFINE n == Len(list)
           low == SubSeq(list, 1, k - 1)
           high == SubSeq(list, k + 1, n)
           new == low \o high
<1>1. n \in Nat /\ k \in Nat /\ k >= 1 /\ k <= n
  OBVIOUS
<1>2. low \in Seq(S) /\ Len(low) = k - 1 /\ \A j \in 1..(k - 1) : low[j] = list[j]
  OBVIOUS
<1>3. high \in Seq(S) /\ Len(high) = n - k /\ \A j \in 1..(n - k) : high[j] = list[k + j]
  <2>1. /\ high \in Seq(S)
        /\ Len(high) = IF k + 1 <= n THEN n - (k + 1) + 1 ELSE 0
        /\ \A j \in 1..(n - (k + 1) + 1) : high[j] = list[(k + 1) + j - 1]
    BY <1>1, SubSeqProperties
  <2>2. Len(high) = n - k /\ n - (k + 1) + 1 = n - k
    BY <1>1, <2>1
  <2> HIDE DEF high
  <2>3. ASSUME NEW j \in 1..(n - k) PROVE high[j] = list[k + j]
    <3>1. (k + 1) + j - 1 = k + j
      BY <1>1
    <3>2. j \in 1..(n - (k + 1) + 1)
      BY <1>1, <2>2
    <3> QED
      BY <2>1, <3>1, <3>2
  <2> QED
    BY <2>1, <2>2, <2>3
<1> HIDE DEF low, high, n
<1>4. /\ new \in Seq(S) /\ Len(new) = Len(low) + Len(high)
      /\ \A j \in 1..(Len(low) + Len(high)) : new[j] = IF j <= Len(low) THEN low[j] ELSE high[j - Len(low)]
  BY <1>2, <1>3, ConcatProperties
<1> HIDE DEF new
<1>5. Len(low) + Len(high) = n - 1
  BY <1>1, <1>2, <1>3
<1>6. ASSUME NEW j \in 1..(n - 1) PROVE new[j] = IF j < k THEN list[j] ELSE list[j + 1]
  <2>1. CASE j < k
    <3>1. j \in 1..(k - 1) /\ j <= k - 1
      BY <1>1, <2>1
    <3>2. new[j] = low[j]
      BY <1>2, <1>4, <1>5, <3>1
    <3> QED
      BY <1>2, <2>1, <3>1, <3>2
  <2>2. CASE ~(j < k)
    <3>1. j - (k - 1) \in 1..(n - k) /\ k + (j - (k - 1)) = j + 1 /\ ~(j <= k - 1)
      BY <1>1, <2>2
    <3>2. new[j] = high[j - (k - 1)]
      BY <1>2, <1>4, <1>5, <3>1
    <3> QED
      BY <1>3, <2>2, <3>1, <3>2
  <2> QED
    BY <2>1, <2>2
<1>7. RemoveAt(list, k) = new
  BY DEF RemoveAt, new, low, high, n
<1> QED
  BY <1>4, <1>5, <1>6, <1>7 DEF n

LEMMA RemovedList ==
  ASSUME NEW S, NEW list \in Seq(S), IsInjective(list), NEW c
  PROVE  /\ Removed(list, c) \in Seq(S) /\ IsInjective(Removed(list, c))
         /\ ToSet(list) \ {c} \subseteq ToSet(Removed(list, c))
         /\ list = <<>> => Removed(list, c) = <<>>
<1> DEFINE n == Len(list)
           k == CHOOSE k \in DOMAIN list : list[k] = c
           new == RemoveAt(list, k)
<1>1. DOMAIN list = 1..n /\ n \in Nat
  OBVIOUS
<1>2. CASE ~Found(list, c)
  BY <1>2 DEF Removed
<1>3. CASE Found(list, c)
  <2>1. k \in 1..n /\ list[k] = c
    BY <1>1, <1>3 DEF Found
  <2> HIDE DEF k
  <2>2. /\ new \in Seq(S) /\ Len(new) = n - 1
        /\ \A j \in 1..(n - 1) : new[j] = IF j < k THEN list[j] ELSE list[j + 1]
    BY <2>1, AtRemoved
  <2>3. DOMAIN new = 1..(n - 1)
    BY <2>2
  <2> HIDE DEF new
  <2>4. ASSUME NEW a \in DOMAIN new, NEW b \in DOMAIN new, new[a] = new[b] PROVE a = b
    <3> DEFINE at(j) == IF j < k THEN j ELSE j + 1
    <3>1. at(a) \in DOMAIN list /\ at(b) \in DOMAIN list
      BY <1>1, <2>1, <2>3
    <3>2. list[at(a)] = list[at(b)]
      BY <2>2, <2>3, <2>4
    <3>3. at(a) = at(b)
      BY <3>1, <3>2 DEF IsInjective
    <3> QED
      BY <1>1, <2>1, <2>3, <3>3
  <2>5. ASSUME NEW d \in ToSet(list) \ {c} PROVE d \in ToSet(new)
    <3>1. PICK j \in 1..n : list[j] = d
      BY <1>1, <2>5 DEF ToSet
    <3>2. j # k
      BY <2>1, <2>5, <3>1
    <3> DEFINE i == IF j < k THEN j ELSE j - 1
    <3>3. i \in 1..(n - 1) /\ new[i] = d
      BY <1>1, <2>1, <2>2, <3>1, <3>2
    <3> QED
      BY <2>3, <3>3 DEF ToSet
  <2>6. Removed(list, c) = new /\ list # <<>>
    BY <1>3, <2>1 DEF Removed, new, k
  <2> QED
    BY <2>2, <2>4, <2>5, <2>6 DEF IsInjective
<1> QED
  BY <1>2, <1>3

-----------------------------------------------------------------------------
(***************************************************************************)
(* Requests and messages.                                                  *)
(***************************************************************************)
Asking == {"subscribe", "update", "requestData", "unsubscribe", "unsubscribeAll"}

LEMMA MsgFields ==
  ASSUME NEW m \in Msg
  PROVE  /\ m.type \in Asking \cup {"notify"}
         /\ m.type = "notify" => m.item \in Items
         /\ m.type \in Asking => m.client \in Clients /\ m.items \in SUBSET Items
BY DEF Msg, Asking

LEMMA RequestMade ==
  ASSUME NEW type \in Asking, NEW c \in Clients, NEW items \in SUBSET Items
  PROVE  /\ Request(type, c, items) \in Msg
         /\ Request(type, c, items).type = type /\ Request(type, c, items).items = items
BY DEF Request, Msg, Asking

\* requestData is called for RequestItems only.
DataOnly(m) == m.type = "requestData" => m.items \subseteq RequestItems

LEMMA RequestsMade ==
  ASSUME NEW type \in Asking, NEW cache \in ItemSets,
         type = "requestData" => \A c \in Clients : cache[c] \subseteq RequestItems
  PROVE  Requests(type, cache) \subseteq Msg /\ \A r \in Requests(type, cache) : DataOnly(r)
<1> SUFFICES ASSUME NEW c \in Clients
             PROVE  Request(type, c, cache[c]) \in Msg /\ DataOnly(Request(type, c, cache[c]))
  BY DEF Requests
<1>1. cache[c] \in SUBSET Items
  BY DEF ItemSets
<1> QED
  BY <1>1, RequestMade DEF DataOnly

-----------------------------------------------------------------------------
(***************************************************************************)
(* The inductive invariant: what a client has in its index, the index of   *)
(* data items has too (an update and unsubscribeAll leave more there).     *)
(***************************************************************************)
RequestsOK ==
  /\ \A c \in Clients : mReqDataCache[c] \subseteq RequestItems
  /\ \A r \in replay : DataOnly(r)
  /\ \A k \in 1..Len(msgs) : DataOnly(msgs[k])

BothIndexes == \A c \in Clients : \A i \in mClientIndex[c] : c \in ToSet(mDataItemIndex[i])

ObserverInv == TypeOK /\ RequestsOK /\ BothIndexes /\ FrameworkServesClients /\ ToldLatest

LEMMA ObserverInit == Init => ObserverInv
<1> SUFFICES ASSUME Init PROVE ObserverInv
  OBVIOUS
<1>1. TypeOK
  <2>1. [c \in Clients |-> {}] \in ItemSets /\ [i \in Items |-> <<>>] \in [Items -> Seq(Clients)]
    BY DEF ItemSets
  <2>2. \A i \in Items : mDataItemIndex[i] = <<>> /\ IsInjective(mDataItemIndex[i])
    BY DEF Init, IsInjective
  <2>3. subscriptionObj \in BOOLEAN
    BY DEF Init
  <2>5. <<>> \in Seq(Msg)
    OBVIOUS
  <2>4. framework \in [subscribed : SUBSET Items, requested : SUBSET Items]
    BY DEF Init
  <2> QED
    BY <2>1, <2>2, <2>3, <2>4, <2>5 DEF Init, TypeOK
<1>2. RequestsOK
  BY DEF Init, RequestsOK
<1>3. BothIndexes
  BY DEF Init, BothIndexes
<1>4. FrameworkServesClients
  BY DEF Init, FrameworkServesClients, Items
<1>5. ToldLatest
  BY DEF Init, ToldLatest
<1> QED
  BY <1>1, <1>2, <1>3, <1>4, <1>5 DEF ObserverInv

-----------------------------------------------------------------------------
(***************************************************************************)
(* Calls: they change no index.                                            *)
(***************************************************************************)
LEMMA CallStep ==
  ASSUME ObserverInv, UNCHANGED Index,
         subscriptionObj' \in BOOLEAN, {mSubscribeReqCache', mReqDataCache', wanted'} \subseteq ItemSets,
         early' \subseteq Clients, replay' \subseteq Msg, msgs' \in Seq(Msg),
         \A c \in Clients : mReqDataCache'[c] \subseteq RequestItems,
         \A r \in replay' : DataOnly(r),
         \A k \in 1..Len(msgs') : DataOnly(msgs'[k])
  PROVE  ObserverInv'
<1>1. TypeOK'
  BY DEF ObserverInv, TypeOK, Index
<1>2. RequestsOK'
  BY DEF RequestsOK, DataOnly
<1>3. BothIndexes' /\ FrameworkServesClients' /\ ToldLatest'
  BY DEF ObserverInv, Index, BothIndexes, FrameworkServesClients, ToldLatest
<1> QED
  BY <1>1, <1>2, <1>3 DEF ObserverInv

LEMMA PostStep ==
  ASSUME ObserverInv, NEW m \in Msg, DataOnly(m), Post(m)
  PROVE  msgs' \in Seq(Msg) /\ \A k \in 1..Len(msgs') : DataOnly(msgs'[k])
<1>1. msgs \in Seq(Msg) /\ msgs' = Append(msgs, m) /\ \A k \in 1..Len(msgs) : DataOnly(msgs[k])
  BY DEF ObserverInv, TypeOK, RequestsOK, Post
<1>2. /\ msgs' \in Seq(Msg) /\ Len(msgs) \in Nat /\ Len(msgs') = Len(msgs) + 1
      /\ msgs'[Len(msgs) + 1] = m /\ \A k \in 1..Len(msgs) : msgs'[k] = msgs[k]
  BY <1>1, Appended
<1>3. ASSUME NEW k \in 1..Len(msgs') PROVE DataOnly(msgs'[k])
  <2>1. k \in 1..Len(msgs) \/ k = Len(msgs) + 1
    BY <1>2
  <2> QED
    BY <1>1, <1>2, <2>1
<1> QED
  BY <1>2, <1>3

LEMMA CacheGrows ==
  ASSUME NEW cache \in ItemSets, NEW c \in Clients, NEW items \in SUBSET Items
  PROVE  Cached(cache, c, items) \in ItemSets /\ [cache EXCEPT ![c] = items] \in ItemSets
BY DEF Cached, ItemSets

LEMMA GiveUpStep ==
  ASSUME ObserverInv, NEW c \in Clients, NEW type \in Asking \ {"requestData"},
         NEW items \in SUBSET Items, NEW left \in SUBSET Items, GiveUp(type, c, items, left)
  PROVE  ObserverInv'
<1>1. Request(type, c, items) \in Msg /\ DataOnly(Request(type, c, items))
  BY RequestMade DEF DataOnly
<1>2. msgs' \in Seq(Msg) /\ \A k \in 1..Len(msgs') : DataOnly(msgs'[k])
  BY <1>1, PostStep DEF GiveUp, ObserverInv, TypeOK, RequestsOK
<1>3. wanted' \in ItemSets
  BY CacheGrows DEF GiveUp, Want, ObserverInv, TypeOK
<1>4. UNCHANGED <<subscriptionObj, mSubscribeReqCache, mReqDataCache, replay, Index>>
      /\ early' \subseteq Clients
  BY DEF GiveUp, ObserverInv, TypeOK
<1> QED
  BY <1>2, <1>3, <1>4, CallStep DEF ObserverInv, TypeOK, RequestsOK

LEMMA ClientStep ==
  ASSUME ObserverInv, NEW c \in Clients, Call(c)
  PROVE  ObserverInv'
<1> USE DEF ObserverInv, TypeOK, RequestsOK
<1>1. ASSUME NEW items \in SUBSET SubscribeItems, Subscribe(c, items) PROVE ObserverInv'
  <2>1. items \in SUBSET Items /\ wanted[c] \cup items \in SUBSET Items
    BY DEF Items, ItemSets
  <2>2. Request("subscribe", c, items) \in Msg /\ DataOnly(Request("subscribe", c, items))
    BY <2>1, RequestMade DEF DataOnly, Asking
  <2>3. msgs' \in Seq(Msg) /\ \A k \in 1..Len(msgs') : DataOnly(msgs'[k])
    BY <1>1, <2>2, PostStep DEF Subscribe
  <2>4. mSubscribeReqCache' \in ItemSets /\ wanted' \in ItemSets
    <3>1. Cached(mSubscribeReqCache, c, items) \in ItemSets
      BY <2>1, CacheGrows
    <3>2. [wanted EXCEPT ![c] = wanted[c] \cup items] \in ItemSets
      BY <2>1, CacheGrows
    <3> QED
      BY <1>1, <3>1, <3>2 DEF Subscribe, Want
  <2> QED
    BY <1>1, <2>3, <2>4, CallStep DEF Subscribe
<1>2. ASSUME NEW items \in SUBSET RequestItems, RequestData(c, items) PROVE ObserverInv'
  <2>1. items \in SUBSET Items /\ wanted[c] \cup items \in SUBSET Items
    BY DEF Items, ItemSets
  <2>2. Request("requestData", c, items) \in Msg /\ DataOnly(Request("requestData", c, items))
    BY <2>1, RequestMade DEF DataOnly, Asking
  <2>3. msgs' \in Seq(Msg) /\ \A k \in 1..Len(msgs') : DataOnly(msgs'[k])
    BY <1>2, <2>2, PostStep DEF RequestData
  <2>4. mReqDataCache' \in ItemSets /\ wanted' \in ItemSets
    <3>1. Cached(mReqDataCache, c, items) \in ItemSets
      BY <2>1, CacheGrows
    <3>2. [wanted EXCEPT ![c] = wanted[c] \cup items] \in ItemSets
      BY <2>1, CacheGrows
    <3> QED
      BY <1>2, <3>1, <3>2 DEF RequestData, Want
  <2>5. \A d \in Clients : mReqDataCache'[d] \subseteq RequestItems
    BY <1>2 DEF RequestData, Cached, ItemSets
  <2> QED
    BY <1>2, <2>3, <2>4, <2>5, CallStep DEF RequestData
<1>3. ASSUME NEW items \in SUBSET SubscribeItems, UpdateSubscription(c, items) PROVE ObserverInv'
  BY <1>3, GiveUpStep DEF UpdateSubscription, Items, Asking
<1>4. ASSUME NEW items \in SUBSET SubscribeItems, Unsubscribe(c, items) PROVE ObserverInv'
  <2>1. items \in SUBSET Items /\ wanted[c] \ items \in SUBSET Items
    BY DEF Items, ItemSets
  <2> QED
    BY <1>4, <2>1, GiveUpStep DEF Unsubscribe, Asking
<1>5. ASSUME UnsubscribeAll(c) PROVE ObserverInv'
  <2>1. {} \in SUBSET Items /\ "unsubscribeAll" \in Asking \ {"requestData"}
    BY DEF Asking
  <2>2. GiveUp("unsubscribeAll", c, {}, {})
    BY <1>5 DEF UnsubscribeAll
  <2> HIDE DEF ObserverInv, TypeOK, RequestsOK
  <2> QED
    BY <2>1, <2>2, GiveUpStep
<1> QED
  BY <1>1, <1>2, <1>3, <1>4, <1>5 DEF Call

LEMMA ObjectStep ==
  ASSUME ObserverInv, SetSubscriptionObj
  PROVE  ObserverInv'
<1> USE DEF ObserverInv, TypeOK, RequestsOK
<1>1. Requests("subscribe", mSubscribeReqCache) \subseteq Msg
      /\ \A r \in Requests("subscribe", mSubscribeReqCache) : DataOnly(r)
  BY RequestsMade DEF Asking
<1>2. Requests("requestData", mReqDataCache) \subseteq Msg
      /\ \A r \in Requests("requestData", mReqDataCache) : DataOnly(r)
  BY RequestsMade DEF Asking
<1>3. replay' \subseteq Msg /\ \A r \in replay' : DataOnly(r)
  BY <1>1, <1>2 DEF SetSubscriptionObj
<1> QED
  BY <1>3, CallStep DEF SetSubscriptionObj

LEMMA ReplayStep ==
  ASSUME ObserverInv, Replay
  PROVE  ObserverInv'
<1> USE DEF ObserverInv, TypeOK, RequestsOK
<1>1. PICK r \in replay : replay' = replay \ {r} /\ Post(r)
  BY DEF Replay
<1>2. msgs' \in Seq(Msg) /\ \A k \in 1..Len(msgs') : DataOnly(msgs'[k])
  BY <1>1, PostStep
<1> QED
  BY <1>1, <1>2, CallStep DEF Replay

LEMMA NotifyStep ==
  ASSUME ObserverInv, NEW i \in Items, Notify(i)
  PROVE  ObserverInv'
<1> USE DEF ObserverInv, TypeOK, RequestsOK
<1> DEFINE m == [type |-> "notify", item |-> i]
<1>1. m \in Msg /\ DataOnly(m)
  BY DEF Msg, DataOnly
<1>2. msgs' \in Seq(Msg) /\ \A k \in 1..Len(msgs') : DataOnly(msgs'[k])
  BY <1>1, PostStep DEF Notify
<1> QED
  BY <1>2, CallStep DEF Notify

-----------------------------------------------------------------------------
(***************************************************************************)
(* Handlers: what each does to the two indexes and the framework.          *)
(***************************************************************************)
LEMMA TakeStep ==
  ASSUME ObserverInv, msgs # <<>>, msgs' = Tail(msgs)
  PROVE  /\ Head(msgs) \in Msg /\ DataOnly(Head(msgs))
         /\ msgs' \in Seq(Msg) /\ \A k \in 1..Len(msgs') : DataOnly(msgs'[k])
<1>1. msgs \in Seq(Msg) /\ \A k \in 1..Len(msgs) : DataOnly(msgs[k])
  BY DEF ObserverInv, TypeOK, RequestsOK
<1>2. /\ Head(msgs) \in Msg /\ Head(msgs) = msgs[1] /\ 1 \in 1..Len(msgs)
      /\ msgs' \in Seq(Msg) /\ Len(msgs) \in Nat /\ Len(msgs') = Len(msgs) - 1
      /\ \A k \in 1..(Len(msgs) - 1) : msgs'[k] = msgs[k + 1]
  BY <1>1, HeadTail
<1>3. ASSUME NEW k \in 1..Len(msgs') PROVE DataOnly(msgs'[k])
  <2>1. k + 1 \in 1..Len(msgs) /\ msgs'[k] = msgs[k + 1]
    BY <1>2
  <2> QED
    BY <1>1, <2>1
<1>4. DataOnly(Head(msgs))
  BY <1>1, <1>2
<1> QED
  BY <1>1, <1>2, <1>3, <1>4

IndexOK(index) == index \in [Items -> Seq(Clients)] /\ \A i \in Items : IsInjective(index[i])
OsOK(os)       == os \in [subscribed : SUBSET Items, requested : SUBSET Items]

LEMMA HandlerStep ==
  ASSUME ObserverInv, UNCHANGED Caller,
         msgs' \in Seq(Msg), \A k \in 1..Len(msgs') : DataOnly(msgs'[k]),
         mClientIndex' \in ItemSets, IndexOK(mDataItemIndex'), OsOK(framework'),
         cached' \subseteq Items, fresh' \subseteq Clients \X Items,
         BothIndexes', FrameworkServesClients', ToldLatest'
  PROVE  ObserverInv'
<1>1. TypeOK'
  BY DEF ObserverInv, TypeOK, Caller, IndexOK, OsOK
<1>2. RequestsOK'
  BY DEF ObserverInv, RequestsOK, DataOnly, Caller
<1> QED
  BY <1>1, <1>2 DEF ObserverInv

LEMMA AddStep ==
  ASSUME ObserverInv, NEW c \in Clients, NEW l \in SUBSET Items, AddToDataItems(c, l)
  PROVE  /\ IndexOK(mDataItemIndex')
         /\ \A i \in Items : ToSet(mDataItemIndex[i]) \subseteq ToSet(mDataItemIndex'[i])
         /\ \A i \in l : c \in ToSet(mDataItemIndex'[i]) /\ mDataItemIndex'[i] # <<>>
         /\ \A i \in Items \ l : mDataItemIndex'[i] = mDataItemIndex[i]
<1>1. \A i \in Items : mDataItemIndex[i] \in Seq(Clients) /\ IsInjective(mDataItemIndex[i])
  BY DEF ObserverInv, TypeOK
<1>2. /\ \A i \in l : mDataItemIndex'[i] = Added(mDataItemIndex[i], c)
      /\ \A i \in Items \ l : mDataItemIndex'[i] = mDataItemIndex[i]
      /\ mDataItemIndex' = [i \in Items |-> mDataItemIndex'[i]]
  BY DEF AddToDataItems
<1>3. ASSUME NEW i \in l
      PROVE  /\ mDataItemIndex'[i] \in Seq(Clients) /\ IsInjective(mDataItemIndex'[i])
             /\ ToSet(mDataItemIndex[i]) \subseteq ToSet(mDataItemIndex'[i])
             /\ c \in ToSet(mDataItemIndex'[i]) /\ mDataItemIndex'[i] # <<>>
  BY <1>1, <1>2, AddedList
<1>4. \A i \in Items : mDataItemIndex'[i] \in Seq(Clients) /\ IsInjective(mDataItemIndex'[i])
  BY <1>1, <1>2, <1>3
<1>5. IndexOK(mDataItemIndex')
  BY <1>2, <1>4 DEF IndexOK
<1> QED
  BY <1>2, <1>3, <1>5

\* The items nobody was listed for are those the framework is not subscribed
\* for.
LEMMA SubscribeStep ==
  ASSUME ObserverInv, NEW c \in Clients, NEW l \in SUBSET Items, AddToDataItems(c, l),
         FrameworkSubscribe(YetToSubscribe(l))
  PROVE  OsOK(framework') /\ FrameworkServesClients'
<1>1. framework'.subscribed = framework.subscribed \cup YetToSubscribe(l) /\ OsOK(framework')
  BY DEF FrameworkSubscribe, YetToSubscribe, ObserverInv, TypeOK, OsOK
<1>2. /\ \A i \in l : mDataItemIndex'[i] # <<>>
      /\ \A i \in Items \ l : mDataItemIndex'[i] = mDataItemIndex[i]
  BY AddStep
<1>3. ASSUME NEW i \in SubscribeItems \ RequestItems
      PROVE  i \in framework'.subscribed <=> mDataItemIndex'[i] # <<>>
  <2>1. i \in Items /\ (i \in framework.subscribed <=> mDataItemIndex[i] # <<>>)
    BY DEF ObserverInv, FrameworkServesClients, Items
  <2> QED
    BY <1>1, <1>2, <2>1 DEF YetToSubscribe
<1> QED
  BY <1>1, <1>3 DEF FrameworkServesClients

LEMMA SubscribeHandled == ObserverInv /\ HandleSubscribe => ObserverInv'
<1> SUFFICES ASSUME ObserverInv, HandleSubscribe PROVE ObserverInv'
  OBVIOUS
<1> DEFINE c == Head(msgs).client
           l == Head(msgs).items
<1>1. /\ Handle("subscribe") /\ AddToDataItems(c, l) /\ FrameworkSubscribe(YetToSubscribe(l))
      /\ mClientIndex' = [mClientIndex EXCEPT ![c] = @ \cup l]
      /\ fresh' = fresh \cup Tell(c, l) /\ UNCHANGED <<Caller, cached>>
  BY DEF HandleSubscribe
<1>2. c \in Clients /\ l \in SUBSET Items
      /\ msgs' \in Seq(Msg) /\ \A k \in 1..Len(msgs') : DataOnly(msgs'[k])
  <2>1. /\ Head(msgs) \in Msg /\ DataOnly(Head(msgs)) /\ msgs' \in Seq(Msg)
        /\ \A k \in 1..Len(msgs') : DataOnly(msgs'[k])
    BY <1>1, TakeStep DEF Handle
  <2>2. Head(msgs).type = "subscribe"
    BY <1>1 DEF Handle
  <2> QED
    BY <2>1, <2>2, MsgFields DEF Asking
<1> HIDE DEF c, l
<1>3. mClientIndex' \in ItemSets /\ fresh' \subseteq Clients \X Items /\ cached' \subseteq Items
  BY <1>1, <1>2 DEF ObserverInv, TypeOK, ItemSets, Tell
<1>4. BothIndexes'
  <2> SUFFICES ASSUME NEW d \in Clients, NEW i \in mClientIndex'[d] PROVE d \in ToSet(mDataItemIndex'[i])
    BY DEF BothIndexes
  <2>1. i \in mClientIndex[d] \/ (d = c /\ i \in l)
    BY <1>1, <1>2 DEF ObserverInv, TypeOK, ItemSets
  <2>2. i \in Items
    BY <1>3 DEF ItemSets
  <2> QED
    BY <1>1, <1>2, <2>1, <2>2, AddStep DEF ObserverInv, BothIndexes
<1>5. ToldLatest'
  <2> SUFFICES ASSUME NEW d \in Clients, NEW i \in (SubscribeItems \ RequestItems) \cap cached,
                      i \in mClientIndex'[d]
               PROVE  <<d, i>> \in fresh'
    BY <1>1 DEF ToldLatest
  <2>1. i \in mClientIndex[d] \/ (d = c /\ i \in l)
    BY <1>1, <1>2 DEF ObserverInv, TypeOK, ItemSets
  <2> QED
    BY <1>1, <2>1 DEF ObserverInv, ToldLatest, Tell
<1> QED
  BY <1>1, <1>2, <1>3, <1>4, <1>5, AddStep, SubscribeStep, HandlerStep

LEMMA UpdateHandled == ObserverInv /\ HandleUpdate => ObserverInv'
<1> SUFFICES ASSUME ObserverInv, HandleUpdate PROVE ObserverInv'
  OBVIOUS
<1> DEFINE c == Head(msgs).client
           l == Head(msgs).items
<1>1. /\ Handle("update") /\ AddToDataItems(c, l) /\ FrameworkSubscribe(YetToSubscribe(l))
      /\ mClientIndex' = [mClientIndex EXCEPT ![c] = l]
      /\ fresh' = (fresh \ Forget(c, mClientIndex[c] \ l)) \cup Tell(c, l \ mClientIndex[c])
      /\ UNCHANGED <<Caller, cached>>
  BY DEF HandleUpdate
<1>2. c \in Clients /\ l \in SUBSET Items
      /\ msgs' \in Seq(Msg) /\ \A k \in 1..Len(msgs') : DataOnly(msgs'[k])
  <2>1. /\ Head(msgs) \in Msg /\ DataOnly(Head(msgs)) /\ msgs' \in Seq(Msg)
        /\ \A k \in 1..Len(msgs') : DataOnly(msgs'[k])
    BY <1>1, TakeStep DEF Handle
  <2>2. Head(msgs).type = "update"
    BY <1>1 DEF Handle
  <2> QED
    BY <2>1, <2>2, MsgFields DEF Asking
<1> HIDE DEF c, l
<1>3. mClientIndex' \in ItemSets /\ fresh' \subseteq Clients \X Items /\ cached' \subseteq Items
  BY <1>1, <1>2 DEF ObserverInv, TypeOK, ItemSets, Tell
<1>4. /\ mClientIndex'[c] = l
      /\ \A d \in Clients \ {c} : mClientIndex'[d] = mClientIndex[d]
  BY <1>1, <1>2 DEF ObserverInv, TypeOK, ItemSets
<1>5. BothIndexes'
  <2> SUFFICES ASSUME NEW d \in Clients, NEW i \in mClientIndex'[d] PROVE d \in ToSet(mDataItemIndex'[i])
    BY DEF BothIndexes
  <2>1. i \in Items
    BY <1>3 DEF ItemSets
  <2> QED
    BY <1>1, <1>2, <1>4, <2>1, AddStep DEF ObserverInv, BothIndexes
<1>6. ToldLatest'
  <2> SUFFICES ASSUME NEW d \in Clients, NEW i \in (SubscribeItems \ RequestItems) \cap cached,
                      i \in mClientIndex'[d]
               PROVE  <<d, i>> \in fresh'
    BY <1>1 DEF ToldLatest
  <2>1. CASE d = c /\ i \notin mClientIndex[c]
    BY <1>1, <1>4, <2>1 DEF Tell
  <2>2. CASE d # c \/ i \in mClientIndex[c]
    <3>1. <<d, i>> \in fresh
      BY <1>4, <2>2 DEF ObserverInv, ToldLatest
    <3>2. <<d, i>> \notin Forget(c, mClientIndex[c] \ l)
      BY <1>4, <2>2 DEF Forget
    <3> QED
      BY <1>1, <3>1, <3>2
  <2> QED
    BY <2>1, <2>2
<1> QED
  BY <1>1, <1>2, <1>3, <1>5, <1>6, AddStep, SubscribeStep, HandlerStep

LEMMA RequestDataHandled == ObserverInv /\ HandleRequestData => ObserverInv'
<1> SUFFICES ASSUME ObserverInv, HandleRequestData PROVE ObserverInv'
  OBVIOUS
<1> DEFINE c == Head(msgs).client
           l == Head(msgs).items
<1>1. /\ Handle("requestData") /\ AddToDataItems(c, l)
      /\ mClientIndex' = [mClientIndex EXCEPT ![c] = @ \cup l]
      /\ framework' = [framework EXCEPT !.requested = @ \cup l]
      /\ UNCHANGED <<Caller, cached, fresh>>
  BY DEF HandleRequestData
<1>2. c \in Clients /\ l \in SUBSET Items /\ l \subseteq RequestItems
      /\ msgs' \in Seq(Msg) /\ \A k \in 1..Len(msgs') : DataOnly(msgs'[k])
  <2>1. /\ Head(msgs) \in Msg /\ DataOnly(Head(msgs)) /\ msgs' \in Seq(Msg)
        /\ \A k \in 1..Len(msgs') : DataOnly(msgs'[k])
    BY <1>1, TakeStep DEF Handle
  <2>2. Head(msgs).type = "requestData"
    BY <1>1 DEF Handle
  <2> QED
    BY <2>1, <2>2, MsgFields DEF Asking, DataOnly
<1> HIDE DEF c, l
<1>3. mClientIndex' \in ItemSets /\ fresh' \subseteq Clients \X Items /\ cached' \subseteq Items
  BY <1>1, <1>2 DEF ObserverInv, TypeOK, ItemSets
<1>4. OsOK(framework') /\ framework'.subscribed = framework.subscribed
  BY <1>1, <1>2 DEF ObserverInv, TypeOK, OsOK
<1>5. \A d \in Clients : \A i \in mClientIndex'[d] : i \in mClientIndex[d] \/ (d = c /\ i \in l)
  BY <1>1, <1>2 DEF ObserverInv, TypeOK, ItemSets
<1>6. BothIndexes'
  <2> SUFFICES ASSUME NEW d \in Clients, NEW i \in mClientIndex'[d] PROVE d \in ToSet(mDataItemIndex'[i])
    BY DEF BothIndexes
  <2>1. i \in Items
    BY <1>3 DEF ItemSets
  <2> QED
    BY <1>1, <1>2, <1>5, <2>1, AddStep DEF ObserverInv, BothIndexes
<1>7. ToldLatest'
  BY <1>1, <1>2, <1>5 DEF ObserverInv, ToldLatest
<1>8. FrameworkServesClients'
  BY <1>1, <1>2, <1>4, AddStep DEF ObserverInv, FrameworkServesClients, Items
<1> QED
  BY <1>1, <1>2, <1>3, <1>4, <1>6, <1>7, <1>8, AddStep, HandlerStep

LEMMA UnsubscribeHandled == ObserverInv /\ HandleUnsubscribe => ObserverInv'
<1> SUFFICES ASSUME ObserverInv, HandleUnsubscribe PROVE ObserverInv'
  OBVIOUS
<1> DEFINE c == Head(msgs).client
           l == Head(msgs).items
<1>1. /\ Handle("unsubscribe") /\ RemoveFromIndexes(c, l)
      /\ FrameworkUnsubscribe({i \in l : mDataItemIndex'[i] = <<>>})
      /\ UNCHANGED <<Caller, cached>>
  BY DEF HandleUnsubscribe
<1>2. c \in Clients /\ l \in SUBSET Items
      /\ msgs' \in Seq(Msg) /\ \A k \in 1..Len(msgs') : DataOnly(msgs'[k])
  <2>1. /\ Head(msgs) \in Msg /\ DataOnly(Head(msgs)) /\ msgs' \in Seq(Msg)
        /\ \A k \in 1..Len(msgs') : DataOnly(msgs'[k])
    BY <1>1, TakeStep DEF Handle
  <2>2. Head(msgs).type = "unsubscribe"
    BY <1>1 DEF Handle
  <2> QED
    BY <2>1, <2>2, MsgFields DEF Asking
<1> HIDE DEF c, l
<1>3. mClientIndex' \in ItemSets /\ fresh' \subseteq Clients \X Items /\ cached' \subseteq Items
  BY <1>1, <1>2 DEF ObserverInv, TypeOK, ItemSets, RemoveFromIndexes
<1>4. /\ mClientIndex'[c] = mClientIndex[c] \ l
      /\ \A d \in Clients \ {c} : mClientIndex'[d] = mClientIndex[d]
  BY <1>1, <1>2 DEF ObserverInv, TypeOK, ItemSets, RemoveFromIndexes
<1>5. /\ \A i \in l : mDataItemIndex'[i] = Removed(mDataItemIndex[i], c)
      /\ \A i \in Items \ l : mDataItemIndex'[i] = mDataItemIndex[i]
      /\ mDataItemIndex' = [i \in Items |-> mDataItemIndex'[i]]
  BY <1>1, <1>2 DEF RemoveFromIndexes
<1>6. \A i \in Items : mDataItemIndex[i] \in Seq(Clients) /\ IsInjective(mDataItemIndex[i])
  BY DEF ObserverInv, TypeOK
<1>7. ASSUME NEW i \in l
      PROVE  /\ mDataItemIndex'[i] \in Seq(Clients) /\ IsInjective(mDataItemIndex'[i])
             /\ ToSet(mDataItemIndex[i]) \ {c} \subseteq ToSet(mDataItemIndex'[i])
             /\ mDataItemIndex[i] = <<>> => mDataItemIndex'[i] = <<>>
  BY <1>2, <1>5, <1>6, RemovedList
<1>8. IndexOK(mDataItemIndex')
  <2>1. \A i \in Items : mDataItemIndex'[i] \in Seq(Clients) /\ IsInjective(mDataItemIndex'[i])
    BY <1>5, <1>6, <1>7
  <2> QED
    BY <1>5, <2>1 DEF IndexOK
<1>9. BothIndexes'
  <2> SUFFICES ASSUME NEW d \in Clients, NEW i \in mClientIndex'[d] PROVE d \in ToSet(mDataItemIndex'[i])
    BY DEF BothIndexes
  <2>1. i \in Items /\ d \in ToSet(mDataItemIndex[i]) /\ ~(d = c /\ i \in l)
    BY <1>3, <1>4 DEF ItemSets, ObserverInv, BothIndexes
  <2> QED
    BY <1>5, <1>7, <2>1
<1>10. ToldLatest'
  <2> SUFFICES ASSUME NEW d \in Clients, NEW i \in (SubscribeItems \ RequestItems) \cap cached,
                      i \in mClientIndex'[d]
               PROVE  <<d, i>> \in fresh'
    BY <1>1 DEF ToldLatest
  <2>1. i \in mClientIndex[d] /\ ~(d = c /\ i \in l)
    BY <1>4
  <2>2. <<d, i>> \in fresh /\ <<d, i>> \notin Forget(c, l)
    BY <2>1 DEF ObserverInv, ToldLatest, Forget
  <2> QED
    BY <1>1, <2>2 DEF RemoveFromIndexes
<1>11. OsOK(framework') /\ FrameworkServesClients'
  <2>1. /\ framework'.subscribed = framework.subscribed \ {i \in l : mDataItemIndex'[i] = <<>>}
        /\ OsOK(framework')
    BY <1>1 DEF FrameworkUnsubscribe, ObserverInv, TypeOK, OsOK
  <2>2. ASSUME NEW i \in SubscribeItems \ RequestItems
        PROVE  i \in framework'.subscribed <=> mDataItemIndex'[i] # <<>>
    <3>1. i \in Items /\ (i \in framework.subscribed <=> mDataItemIndex[i] # <<>>)
      BY DEF ObserverInv, FrameworkServesClients, Items
    <3> QED
      BY <1>5, <1>7, <2>1, <3>1
  <2> QED
    BY <2>1, <2>2 DEF FrameworkServesClients
<1> QED
  BY <1>1, <1>2, <1>3, <1>8, <1>9, <1>10, <1>11, HandlerStep

LEMMA UnsubscribeAllHandled == ObserverInv /\ HandleUnsubscribeAll => ObserverInv'
<1> SUFFICES ASSUME ObserverInv, HandleUnsubscribeAll PROVE ObserverInv'
  OBVIOUS
<1> DEFINE c == Head(msgs).client
<1>1. /\ Handle("unsubscribeAll") /\ mClientIndex' = [mClientIndex EXCEPT ![c] = {}]
      /\ fresh' = fresh \ Forget(c, Items)
      /\ UNCHANGED <<Caller, mDataItemIndex, cached, framework>>
  BY DEF HandleUnsubscribeAll
<1>2. c \in Clients
      /\ msgs' \in Seq(Msg) /\ \A k \in 1..Len(msgs') : DataOnly(msgs'[k])
  <2>1. /\ Head(msgs) \in Msg /\ DataOnly(Head(msgs)) /\ msgs' \in Seq(Msg)
        /\ \A k \in 1..Len(msgs') : DataOnly(msgs'[k])
    BY <1>1, TakeStep DEF Handle
  <2>2. Head(msgs).type = "unsubscribeAll"
    BY <1>1 DEF Handle
  <2> QED
    BY <2>1, <2>2, MsgFields DEF Asking
<1> HIDE DEF c
<1>3. mClientIndex' \in ItemSets /\ fresh' \subseteq Clients \X Items /\ cached' \subseteq Items
  BY <1>1, <1>2 DEF ObserverInv, TypeOK, ItemSets
<1>4. /\ mClientIndex'[c] = {}
      /\ \A d \in Clients \ {c} : mClientIndex'[d] = mClientIndex[d]
  BY <1>1, <1>2 DEF ObserverInv, TypeOK, ItemSets
<1>5. BothIndexes' /\ IndexOK(mDataItemIndex') /\ OsOK(framework') /\ FrameworkServesClients'
  BY <1>1, <1>4 DEF ObserverInv, TypeOK, BothIndexes, IndexOK, OsOK, FrameworkServesClients
<1>6. ToldLatest'
  BY <1>1, <1>4 DEF ObserverInv, ToldLatest, Forget
<1> QED
  BY <1>1, <1>2, <1>3, <1>5, <1>6, HandlerStep

LEMMA NotifyHandled == ObserverInv /\ HandleNotify => ObserverInv'
<1> SUFFICES ASSUME ObserverInv, HandleNotify PROVE ObserverInv'
  OBVIOUS
<1> DEFINE i == Head(msgs).item
           told == {<<c, i>> : c \in {d \in ToSet(mDataItemIndex[i]) : i \in mClientIndex[d]}}
<1>1. /\ Handle("notify") /\ UNCHANGED <<Caller, mClientIndex, mDataItemIndex, framework>>
      /\ \/ cached' = cached \cup {i} /\ fresh' = {p \in fresh : p[2] # i} \cup told
         \/ UNCHANGED <<cached, fresh>>
  BY DEF HandleNotify
<1>2. i \in Items
      /\ msgs' \in Seq(Msg) /\ \A k \in 1..Len(msgs') : DataOnly(msgs'[k])
  <2>1. /\ Head(msgs) \in Msg /\ DataOnly(Head(msgs)) /\ msgs' \in Seq(Msg)
        /\ \A k \in 1..Len(msgs') : DataOnly(msgs'[k])
    BY <1>1, TakeStep DEF Handle
  <2>2. Head(msgs).type = "notify"
    BY <1>1 DEF Handle
  <2> QED
    BY <2>1, <2>2, MsgFields
<1>3. mDataItemIndex[i] \in Seq(Clients)
  BY <1>2 DEF ObserverInv, TypeOK
<1>4. ToSet(mDataItemIndex[i]) \subseteq Clients
  BY <1>3 DEF ToSet
<1> HIDE DEF i
<1>5. told \subseteq Clients \X Items
  BY <1>2, <1>4
<1>6. ASSUME NEW d \in Clients, i \in mClientIndex[d] PROVE <<d, i>> \in told
  BY <1>6 DEF ObserverInv, BothIndexes
<1> HIDE DEF told
<1>7. fresh' \subseteq Clients \X Items /\ cached' \subseteq Items
  BY <1>1, <1>2, <1>5 DEF ObserverInv, TypeOK
<1>8. ToldLatest'
  <2>1. CASE UNCHANGED <<cached, fresh>>
    BY <1>1, <2>1 DEF ObserverInv, ToldLatest
  <2>2. CASE cached' = cached \cup {i} /\ fresh' = {p \in fresh : p[2] # i} \cup told
    <3> SUFFICES ASSUME NEW d \in Clients, NEW j \in (SubscribeItems \ RequestItems) \cap cached',
                        j \in mClientIndex[d]
                 PROVE  <<d, j>> \in fresh'
      BY <1>1 DEF ToldLatest
    <3>1. CASE j = i
      BY <1>6, <2>2, <3>1
    <3>2. CASE j # i
      <4>1. <<d, j>> \in fresh /\ <<d, j>>[2] = j
        BY <2>2, <3>2 DEF ObserverInv, ToldLatest
      <4> QED
        BY <2>2, <3>2, <4>1
    <3> QED
      BY <3>1, <3>2
  <2> QED
    BY <1>1, <2>1, <2>2
<1>9. /\ mClientIndex' \in ItemSets /\ IndexOK(mDataItemIndex') /\ OsOK(framework')
      /\ BothIndexes' /\ FrameworkServesClients'
  BY <1>1 DEF ObserverInv, TypeOK, IndexOK, OsOK, BothIndexes, FrameworkServesClients
<1> QED
  BY <1>1, <1>2, <1>7, <1>8, <1>9, HandlerStep

-----------------------------------------------------------------------------
(***************************************************************************)
(* Every state has the invariant.                                          *)
(***************************************************************************)
LEMMA ObserverStep == ObserverInv /\ [Next]_vars => ObserverInv'
<1> SUFFICES ASSUME ObserverInv, [Next]_vars PROVE ObserverInv'
  OBVIOUS
<1>1. ASSUME NEW c \in Clients, Call(c) PROVE ObserverInv'
  BY <1>1, ClientStep
<1>2. CASE SetSubscriptionObj
  BY <1>2, ObjectStep
<1>3. CASE Replay
  BY <1>3, ReplayStep
<1>4. ASSUME NEW i \in Items, Notify(i) PROVE ObserverInv'
  BY <1>4, NotifyStep
<1>5. CASE Handler
  BY <1>5, SubscribeHandled, UpdateHandled, RequestDataHandled, UnsubscribeHandled,
     UnsubscribeAllHandled, NotifyHandled DEF Handler
<1>6. CASE UNCHANGED vars
  <2>1. UNCHANGED <<subscriptionObj, mSubscribeReqCache, mReqDataCache, wanted, early, replay, msgs, Index>>
    BY <1>6 DEF vars, Index
  <2> QED
    BY <2>1, CallStep DEF ObserverInv, TypeOK, RequestsOK
<1> QED
  BY <1>1, <1>2, <1>3, <1>4, <1>5, <1>6 DEF Next

\* The inductive invariant of the observer.
THEOREM Invariant == Spec => []ObserverInv
<1>1. ObserverInv /\ [Next]_vars => ObserverInv'
  BY ObserverStep
<1> QED
  BY <1>1, ObserverInit, PTL DEF Spec

\* The observer's variables have their types: in particular no client is
\* twice in the list of an item.
THEOREM TypeCorrect == Spec => []TypeOK
<1>1. ObserverInv => TypeOK
  BY DEF ObserverInv
<1> QED
  BY <1>1, Invariant, PTL

\* The framework is subscribed for exactly the items some client is listed
\* for, whatever the handlers of subscriptions find in the indexes.
THEOREM FrameworkServes == Spec => []FrameworkServesClients
<1>1. ObserverInv => FrameworkServesClients
  BY DEF ObserverInv
<1> QED
  BY <1>1, Invariant, PTL

\* First responses and notifications leave no subscriber with an old value.
THEOREM LatestTold == Spec => []ToldLatest
<1>1. ObserverInv => ToldLatest
  BY DEF ObserverInv
<1> QED
  BY <1>1, Invariant, PTL

-----------------------------------------------------------------------------
(***************************************************************************)
(* What a client wants is what its messages will have made of its index    *)
(* once they are handled: a message adds an item for a client, drops it,   *)
(* or leaves it, and the last one that does either decides.                *)
(***************************************************************************)
Adds(m, c, i) ==
  m.type \in {"subscribe", "update", "requestData"} /\ m.client = c /\ i \in m.items

Drops(m, c, i) ==
  \/ m.type = "update" /\ m.client = c /\ i \notin m.items
  \/ m.type = "unsubscribe" /\ m.client = c /\ i \in m.items
  \/ m.type = "unsubscribeAll" /\ m.client = c

Kept(q, k, c, i) == \A j \in 1..Len(q) : j > k => ~Drops(q[j], c, i)

Pending(q, index, c, i) ==
  \/ \E k \in 1..Len(q) : Adds(q[k], c, i) /\ Kept(q, k, c, i)
  \/ i \in index[c] /\ Kept(q, 0, c, i)

ToReplay(c, i) == \E r \in replay : r.client = c /\ i \in r.items

Untouched ==
  /\ msgs = <<>> /\ replay = {}
  /\ \A c \in Clients : mClientIndex[c] = {}
  /\ framework.subscribed = {} /\ framework.requested = {}
  /\ \A c \in Clients \ early : wanted[c] = mSubscribeReqCache[c] \cup mReqDataCache[c]

OnTheWay ==
  \A c \in Clients \ early, i \in Items :
    i \in wanted[c] <=> ToReplay(c, i) \/ Pending(msgs, mClientIndex, c, i)

OnlyAsk == \A r \in replay : r.type \in {"subscribe", "requestData"}

ServedInv == OnlyAsk /\ (~subscriptionObj => Untouched) /\ (subscriptionObj => OnTheWay)

LEMMA PendingPosted ==
  ASSUME NEW q \in Seq(Msg), NEW m \in Msg, NEW index, NEW c, NEW i
  PROVE  Pending(Append(q, m), index, c, i)
           <=> Adds(m, c, i) \/ (Pending(q, index, c, i) /\ ~Drops(m, c, i))
<1> DEFINE new == Append(q, m)
           n == Len(q)
<1>1. /\ n \in Nat /\ Len(new) = n + 1 /\ new[n + 1] = m
      /\ \A k \in 1..n : new[k] = q[k]
  BY Appended
<1> HIDE DEF new, n
<1>2. ASSUME NEW k \in 0..n PROVE Kept(new, k, c, i) <=> Kept(q, k, c, i) /\ ~Drops(m, c, i)
  <2>1. ASSUME Kept(new, k, c, i) PROVE Kept(q, k, c, i) /\ ~Drops(m, c, i)
    <3>1. n + 1 \in 1..Len(new) /\ n + 1 > k
      BY <1>1
    <3>2. \A j \in 1..n : j \in 1..Len(new) /\ new[j] = q[j]
      BY <1>1
    <3> QED
      BY <1>1, <2>1, <3>1, <3>2 DEF Kept, n
  <2>2. ASSUME Kept(q, k, c, i), ~Drops(m, c, i) PROVE Kept(new, k, c, i)
    <3> SUFFICES ASSUME NEW j \in 1..Len(new), j > k PROVE ~Drops(new[j], c, i)
      BY DEF Kept
    <3>1. CASE j = n + 1
      BY <1>1, <2>2, <3>1
    <3>2. CASE j # n + 1
      <4>1. j \in 1..n /\ new[j] = q[j]
        BY <1>1, <3>2
      <4> QED
        BY <2>2, <4>1 DEF Kept, n
    <3> QED
      BY <3>1, <3>2
  <2> QED
    BY <2>1, <2>2
<1>3. Kept(new, n + 1, c, i)
  BY <1>1 DEF Kept
<1>4. ASSUME Pending(new, index, c, i)
      PROVE  Adds(m, c, i) \/ (Pending(q, index, c, i) /\ ~Drops(m, c, i))
  <2>1. CASE i \in index[c] /\ Kept(new, 0, c, i)
    BY <1>1, <1>2, <2>1 DEF Pending
  <2>2. ASSUME NEW k \in 1..Len(new), Adds(new[k], c, i), Kept(new, k, c, i)
        PROVE  Adds(m, c, i) \/ (Pending(q, index, c, i) /\ ~Drops(m, c, i))
    <3>1. CASE k = n + 1
      BY <1>1, <2>2, <3>1
    <3>2. CASE k # n + 1
      <4>1. k \in 1..n /\ k \in 0..n /\ new[k] = q[k]
        BY <1>1, <3>2
      <4> QED
        BY <1>2, <2>2, <4>1 DEF Pending, n
    <3> QED
      BY <3>1, <3>2
  <2> QED
    BY <1>4, <2>1, <2>2 DEF Pending
<1>5. ASSUME Adds(m, c, i) PROVE Pending(new, index, c, i)
  <2>1. n + 1 \in 1..Len(new)
    BY <1>1
  <2> QED
    BY <1>1, <1>3, <1>5, <2>1 DEF Pending
<1>6. ASSUME Pending(q, index, c, i), ~Drops(m, c, i) PROVE Pending(new, index, c, i)
  <2>1. CASE i \in index[c] /\ Kept(q, 0, c, i)
    BY <1>1, <1>2, <1>6, <2>1 DEF Pending
  <2>2. ASSUME NEW k \in 1..n, Adds(q[k], c, i), Kept(q, k, c, i) PROVE Pending(new, index, c, i)
    <3>1. k \in 0..n /\ k \in 1..Len(new) /\ new[k] = q[k]
      BY <1>1
    <3> QED
      BY <1>2, <1>6, <2>2, <3>1 DEF Pending
  <2> QED
    BY <1>6, <2>1, <2>2 DEF Pending, n
<1> QED
  BY <1>4, <1>5, <1>6 DEF new

LEMMA PendingHandled ==
  ASSUME NEW q \in Seq(Msg), q # <<>>, NEW index, NEW index2, NEW c, NEW i,
         i \in index2[c] <=> Adds(Head(q), c, i) \/ (i \in index[c] /\ ~Drops(Head(q), c, i))
  PROVE  Pending(Tail(q), index2, c, i) <=> Pending(q, index, c, i)
<1> DEFINE rest == Tail(q)
           n == Len(q)
<1>1. /\ n \in Nat /\ Head(q) = q[1] /\ 1 \in 1..n /\ Len(rest) = n - 1
      /\ \A k \in 1..(n - 1) : rest[k] = q[k + 1]
  BY HeadTail
<1> HIDE DEF rest, n
<1>2. ASSUME NEW k \in 0..(n - 1) PROVE Kept(rest, k, c, i) <=> Kept(q, k + 1, c, i)
  <2>1. ASSUME Kept(rest, k, c, i), NEW j \in 1..n, j > k + 1 PROVE ~Drops(q[j], c, i)
    <3>1. j - 1 \in 1..Len(rest) /\ j - 1 > k /\ rest[j - 1] = q[j]
      BY <1>1, <2>1
    <3> QED
      BY <2>1, <3>1 DEF Kept
  <2>2. ASSUME Kept(q, k + 1, c, i), NEW j \in 1..Len(rest), j > k PROVE ~Drops(rest[j], c, i)
    <3>1. j + 1 \in 1..n /\ j + 1 > k + 1 /\ rest[j] = q[j + 1]
      BY <1>1, <2>2
    <3> QED
      BY <2>2, <3>1 DEF Kept, n
  <2> QED
    BY <2>1, <2>2 DEF Kept, n
<1>3. Kept(q, 0, c, i) <=> Kept(q, 1, c, i) /\ ~Drops(Head(q), c, i)
  <2>1. \A j \in 1..n : j > 0 /\ (j > 1 \/ j = 1)
    BY <1>1
  <2> QED
    BY <1>1, <2>1 DEF Kept, n
<1>4. Kept(rest, 0, c, i) <=> Kept(q, 1, c, i)
  BY <1>1, <1>2
<1>5. ASSUME Pending(rest, index2, c, i) PROVE Pending(q, index, c, i)
  <2>1. CASE i \in index2[c] /\ Kept(rest, 0, c, i)
    BY <1>1, <1>3, <1>4, <2>1 DEF Pending, n
  <2>2. ASSUME NEW k \in 1..Len(rest), Adds(rest[k], c, i), Kept(rest, k, c, i)
        PROVE  Pending(q, index, c, i)
    <3>1. k \in 0..(n - 1) /\ k + 1 \in 1..n /\ rest[k] = q[k + 1]
      BY <1>1
    <3> QED
      BY <1>2, <2>2, <3>1 DEF Pending, n
  <2> QED
    BY <1>5, <2>1, <2>2 DEF Pending
<1>6. ASSUME Pending(q, index, c, i) PROVE Pending(rest, index2, c, i)
  <2>1. CASE i \in index[c] /\ Kept(q, 0, c, i)
    BY <1>3, <1>4, <2>1 DEF Pending
  <2>2. ASSUME NEW k \in 1..n, Adds(q[k], c, i), Kept(q, k, c, i)
        PROVE  Pending(rest, index2, c, i)
    <3>1. CASE k = 1
      BY <1>1, <1>4, <2>2, <3>1 DEF Pending
    <3>2. CASE k # 1
      <4>1. k - 1 \in 0..(n - 1) /\ k - 1 \in 1..Len(rest) /\ (k - 1) + 1 = k
        BY <1>1, <3>2
      <4>2. rest[k - 1] = q[k]
        BY <1>1, <4>1
      <4> QED
        BY <1>2, <2>2, <4>1, <4>2 DEF Pending
    <3> QED
      BY <3>1, <3>2
  <2> QED
    BY <1>6, <2>1, <2>2 DEF Pending, n
<1> QED
  BY <1>5, <1>6 DEF rest

LEMMA ServedInit == Init => ServedInv
BY DEF Init, ServedInv, OnlyAsk, Untouched

\* A call, or the OS, posts a message that makes of what a client wants what
\* the call makes of it; no client with requests yet to be posted gives up
\* items but those the property leaves out.
LEMMA PostServed ==
  ASSUME ObserverInv, ServedInv, subscriptionObj,
         NEW m \in Msg, Post(m), UNCHANGED <<subscriptionObj, replay, mClientIndex>>,
         early \subseteq early',
         \A c \in Clients \ early', i \in Items :
           /\ i \in wanted'[c] <=> Adds(m, c, i) \/ (i \in wanted[c] /\ ~Drops(m, c, i))
           /\ ToReplay(c, i) => ~Drops(m, c, i)
  PROVE  ServedInv'
<1>1. msgs \in Seq(Msg) /\ msgs' = Append(msgs, m)
  BY DEF ObserverInv, TypeOK, Post
<1> SUFFICES ASSUME NEW c \in Clients \ early', NEW i \in Items
             PROVE  i \in wanted'[c] <=> ToReplay(c, i)' \/ Pending(msgs', mClientIndex', c, i)
  BY DEF ServedInv, OnlyAsk, OnTheWay
<1>2. i \in wanted[c] <=> ToReplay(c, i) \/ Pending(msgs, mClientIndex, c, i)
  BY DEF ServedInv, OnTheWay
<1>3. Pending(msgs', mClientIndex, c, i)
        <=> Adds(m, c, i) \/ (Pending(msgs, mClientIndex, c, i) /\ ~Drops(m, c, i))
  BY <1>1, PendingPosted
<1>4. ToReplay(c, i)' <=> ToReplay(c, i)
  BY DEF ToReplay
<1>5. mClientIndex' = mClientIndex
  OBVIOUS
<1>6. /\ i \in wanted'[c] <=> Adds(m, c, i) \/ (i \in wanted[c] /\ ~Drops(m, c, i))
      /\ ToReplay(c, i) => ~Drops(m, c, i)
  OBVIOUS
<1> QED
  BY <1>2, <1>3, <1>4, <1>5, <1>6

LEMMA RequestFields ==
  ASSUME NEW type, NEW c, NEW items
  PROVE  /\ Request(type, c, items).type = type /\ Request(type, c, items).client = c
         /\ Request(type, c, items).items = items
BY DEF Request

LEMMA AskServed ==
  ASSUME ObserverInv, ServedInv, NEW c \in Clients, NEW items \in SUBSET Items,
         Subscribe(c, items) \/ RequestData(c, items)
  PROVE  ServedInv'
<1>1. wanted' = [wanted EXCEPT ![c] = wanted[c] \cup items] /\ wanted \in ItemSets
      /\ UNCHANGED <<subscriptionObj, replay, Index, early>>
  BY DEF Subscribe, RequestData, Want, ObserverInv, TypeOK
<1>2. wanted'[c] = wanted[c] \cup items /\ \A d \in Clients \ {c} : wanted'[d] = wanted[d]
  BY <1>1 DEF ItemSets
<1>3. CASE subscriptionObj
  <2>1. PICK type \in {"subscribe", "requestData"} : Post(Request(type, c, items))
    BY <1>3 DEF Subscribe, RequestData
  <2> DEFINE m == Request(type, c, items)
  <2>2. m \in Msg /\ m.type = type /\ m.client = c /\ m.items = items
    BY <2>1, RequestMade, RequestFields DEF Asking
  <2>3. Post(m)
    BY <2>1
  <2> HIDE DEF m
  <2>4. \A d \in Clients, i \in Items : (Adds(m, d, i) <=> d = c /\ i \in items) /\ ~Drops(m, d, i)
    BY <2>1, <2>2 DEF Adds, Drops
  <2>5. \A d \in Clients \ early', i \in Items :
           /\ i \in wanted'[d] <=> Adds(m, d, i) \/ (i \in wanted[d] /\ ~Drops(m, d, i))
           /\ ToReplay(d, i) => ~Drops(m, d, i)
    BY <1>2, <2>4
  <2>6. UNCHANGED <<subscriptionObj, replay, mClientIndex>> /\ early \subseteq early'
    BY <1>1 DEF Index
  <2> QED
    BY <1>3, <2>2, <2>3, <2>5, <2>6, PostServed
<1>4. CASE ~subscriptionObj
  <2>1. \/ /\ mSubscribeReqCache' = [mSubscribeReqCache EXCEPT ![c] = @ \cup items]
           /\ UNCHANGED <<msgs, mReqDataCache>>
        \/ /\ mReqDataCache' = [mReqDataCache EXCEPT ![c] = @ \cup items]
           /\ UNCHANGED <<msgs, mSubscribeReqCache>>
    BY <1>4 DEF Subscribe, RequestData, Cached
  <2>2. \A d \in Clients : mSubscribeReqCache'[d] \cup mReqDataCache'[d]
           = IF d = c THEN mSubscribeReqCache[d] \cup mReqDataCache[d] \cup items
             ELSE mSubscribeReqCache[d] \cup mReqDataCache[d]
    BY <2>1 DEF ObserverInv, TypeOK, ItemSets
  <2>3. Untouched
    BY <1>4 DEF ServedInv
  <2>4. \A d \in Clients \ early' : wanted'[d] = mSubscribeReqCache'[d] \cup mReqDataCache'[d]
    BY <1>1, <1>2, <2>2, <2>3 DEF Untouched
  <2>5. UNCHANGED <<msgs, replay, mClientIndex, framework, subscriptionObj>>
    BY <1>1, <2>1 DEF Index
  <2>6. Untouched'
    BY <2>3, <2>4, <2>5 DEF Untouched
  <2> QED
    BY <1>4, <2>5, <2>6 DEF ServedInv, OnlyAsk
<1> QED
  BY <1>3, <1>4

LEMMA GiveUpServed ==
  ASSUME ObserverInv, ServedInv, NEW c \in Clients, NEW type \in Asking, NEW items \in SUBSET Items,
         NEW left \in SUBSET Items, GiveUp(type, c, items, left),
         \A m \in Msg, i \in Items :
           (m.type = type /\ m.client = c /\ m.items = items)
             => (i \in left <=> Adds(m, c, i) \/ (i \in wanted[c] /\ ~Drops(m, c, i)))
  PROVE  ServedInv'
<1>1. /\ UNCHANGED <<subscriptionObj, mSubscribeReqCache, mReqDataCache, replay, Index>>
      /\ wanted' = [wanted EXCEPT ![c] = left] /\ wanted \in ItemSets
      /\ early \subseteq early'
      /\ ~subscriptionObj => c \in early' /\ UNCHANGED msgs
      /\ (\E r \in replay : r.client = c) => c \in early'
  BY DEF GiveUp, Want, ObserverInv, TypeOK
<1>2. wanted'[c] = left /\ \A d \in Clients \ {c} : wanted'[d] = wanted[d]
  BY <1>1 DEF ItemSets
<1>3. CASE subscriptionObj
  <2> DEFINE m == Request(type, c, items)
  <2>1. m \in Msg /\ m.type = type /\ m.client = c /\ m.items = items
    BY RequestMade, RequestFields
  <2>2. Post(m)
    BY <1>3 DEF GiveUp
  <2> HIDE DEF m
  <2>3. \A i \in Items : i \in left <=> Adds(m, c, i) \/ (i \in wanted[c] /\ ~Drops(m, c, i))
    BY <2>1
  <2>4. \A d \in Clients \ {c}, i \in Items : ~Adds(m, d, i) /\ ~Drops(m, d, i)
    BY <2>1 DEF Adds, Drops
  <2>5. ASSUME NEW d \in Clients \ early', NEW i \in Items
        PROVE  /\ i \in wanted'[d] <=> Adds(m, d, i) \/ (i \in wanted[d] /\ ~Drops(m, d, i))
               /\ ToReplay(d, i) => ~Drops(m, d, i)
    <3>1. CASE d = c
      BY <1>1, <1>2, <2>3, <3>1 DEF ToReplay
    <3>2. CASE d # c
      BY <1>2, <2>4, <3>2
    <3> QED
      BY <3>1, <3>2
  <2>6. UNCHANGED <<subscriptionObj, replay, mClientIndex>>
    BY <1>1 DEF Index
  <2> QED
    BY <1>1, <1>3, <2>1, <2>2, <2>5, <2>6, PostServed
<1>4. CASE ~subscriptionObj
  <2>1. Untouched /\ c \in early' /\ UNCHANGED msgs
    BY <1>1, <1>4 DEF ServedInv
  <2>2. \A d \in Clients \ early' : wanted'[d] = mSubscribeReqCache'[d] \cup mReqDataCache'[d]
    BY <1>1, <1>2, <2>1 DEF Untouched
  <2>3. UNCHANGED <<replay, mClientIndex, framework, subscriptionObj>>
    BY <1>1 DEF Index
  <2>4. Untouched'
    BY <2>1, <2>2, <2>3 DEF Untouched
  <2> QED
    BY <1>4, <2>3, <2>4 DEF ServedInv, OnlyAsk
<1> QED
  BY <1>3, <1>4

LEMMA ClientServed ==
  ASSUME ObserverInv, ServedInv, NEW c \in Clients, Call(c)
  PROVE  ServedInv'
<1>1. ASSUME NEW items \in SUBSET SubscribeItems, Subscribe(c, items) PROVE ServedInv'
  BY <1>1, AskServed DEF Items
<1>2. ASSUME NEW items \in SUBSET RequestItems, RequestData(c, items) PROVE ServedInv'
  BY <1>2, AskServed DEF Items
<1>3. ASSUME NEW items \in SUBSET SubscribeItems, UpdateSubscription(c, items) PROVE ServedInv'
  <2>1. items \in SUBSET Items /\ "update" \in Asking /\ GiveUp("update", c, items, items)
    BY <1>3 DEF Items, Asking, UpdateSubscription
  <2>2. \A m \in Msg, i \in Items :
           (m.type = "update" /\ m.client = c /\ m.items = items)
             => (i \in items <=> Adds(m, c, i) \/ (i \in wanted[c] /\ ~Drops(m, c, i)))
    BY DEF Adds, Drops
  <2> QED
    BY <2>1, <2>2, GiveUpServed
<1>4. ASSUME NEW items \in SUBSET SubscribeItems, Unsubscribe(c, items) PROVE ServedInv'
  <2>1. /\ items \in SUBSET Items /\ "unsubscribe" \in Asking /\ wanted[c] \ items \in SUBSET Items
        /\ GiveUp("unsubscribe", c, items, wanted[c] \ items)
    BY <1>4 DEF Items, Asking, Unsubscribe, ObserverInv, TypeOK, ItemSets
  <2>2. \A m \in Msg, i \in Items :
           (m.type = "unsubscribe" /\ m.client = c /\ m.items = items)
             => (i \in wanted[c] \ items <=> Adds(m, c, i) \/ (i \in wanted[c] /\ ~Drops(m, c, i)))
    BY DEF Adds, Drops
  <2> QED
    BY <2>1, <2>2, GiveUpServed
<1>5. ASSUME UnsubscribeAll(c) PROVE ServedInv'
  <2>1. "unsubscribeAll" \in Asking /\ {} \in SUBSET Items /\ GiveUp("unsubscribeAll", c, {}, {})
    BY <1>5 DEF Asking, UnsubscribeAll
  <2>2. \A m \in Msg, i \in Items :
           (m.type = "unsubscribeAll" /\ m.client = c /\ m.items = {})
             => (i \in {} <=> Adds(m, c, i) \/ (i \in wanted[c] /\ ~Drops(m, c, i)))
    BY DEF Adds, Drops
  <2> QED
    BY <2>1, <2>2, GiveUpServed
<1> QED
  BY <1>1, <1>2, <1>3, <1>4, <1>5 DEF Call

\* The object comes: what was cached is yet to be posted.
LEMMA ObjectServed ==
  ASSUME ObserverInv, ServedInv, SetSubscriptionObj
  PROVE  ServedInv'
<1>1. /\ ~subscriptionObj /\ subscriptionObj' /\ Untouched
      /\ replay' = Requests("subscribe", mSubscribeReqCache) \cup Requests("requestData", mReqDataCache)
      /\ UNCHANGED <<msgs, Index, wanted, early>>
  BY DEF SetSubscriptionObj, ServedInv
<1>5. OnlyAsk'
  BY <1>1 DEF OnlyAsk, Requests, Request
<1> SUFFICES ASSUME NEW c \in Clients \ early, NEW i \in Items
             PROVE  i \in wanted[c] <=> ToReplay(c, i)' \/ Pending(msgs', mClientIndex', c, i)
  BY <1>1, <1>5 DEF ServedInv, OnTheWay
<1>2. ~Pending(msgs', mClientIndex', c, i)
  <2>1. Len(msgs') = 0 /\ mClientIndex'[c] = {}
    BY <1>1 DEF Untouched, Index
  <2> QED
    BY <2>1 DEF Pending
<1>3. ASSUME ToReplay(c, i)' PROVE i \in wanted[c]
  <2>1. PICK r \in replay' : r.client = c /\ i \in r.items
    BY <1>3 DEF ToReplay
  <2>2. PICK d \in Clients : \/ r = Request("subscribe", d, mSubscribeReqCache[d])
                             \/ r = Request("requestData", d, mReqDataCache[d])
    BY <1>1, <2>1 DEF Requests
  <2>3. d = c /\ (i \in mSubscribeReqCache[c] \/ i \in mReqDataCache[c])
    BY <2>1, <2>2, RequestFields
  <2> QED
    BY <1>1, <2>3 DEF Untouched
<1>4. ASSUME i \in wanted[c] PROVE ToReplay(c, i)'
  <2>1. i \in mSubscribeReqCache[c] \/ i \in mReqDataCache[c]
    BY <1>1, <1>4 DEF Untouched
  <2>2. CASE i \in mSubscribeReqCache[c]
    <3>1. Request("subscribe", c, mSubscribeReqCache[c]) \in replay'
      BY <1>1, <2>2 DEF Requests
    <3> QED
      BY <2>2, <3>1, RequestFields DEF ToReplay
  <2>3. CASE i \in mReqDataCache[c]
    <3>1. Request("requestData", c, mReqDataCache[c]) \in replay'
      BY <1>1, <2>3 DEF Requests
    <3> QED
      BY <2>3, <3>1, RequestFields DEF ToReplay
  <2> QED
    BY <2>1, <2>2, <2>3
<1> QED
  BY <1>2, <1>3, <1>4

\* A cached request is posted: it only adds.
LEMMA ReplayServed ==
  ASSUME ObserverInv, ServedInv, Replay
  PROVE  ServedInv'
<1>1. PICK r \in replay : replay' = replay \ {r} /\ Post(r)
  BY DEF Replay
<1>2. /\ r \in Msg /\ msgs \in Seq(Msg) /\ msgs' = Append(msgs, r)
      /\ UNCHANGED <<subscriptionObj, mClientIndex, wanted, early>>
      /\ r.type \in {"subscribe", "requestData"} /\ subscriptionObj /\ OnTheWay
  BY <1>1 DEF ObserverInv, TypeOK, Post, Replay, Index, ServedInv, OnlyAsk, Untouched
<1>3. OnlyAsk'
  BY <1>1 DEF ServedInv, OnlyAsk
<1> SUFFICES ASSUME NEW c \in Clients \ early, NEW i \in Items
             PROVE  i \in wanted[c] <=> ToReplay(c, i)' \/ Pending(msgs', mClientIndex, c, i)
  BY <1>2, <1>3 DEF ServedInv, OnTheWay
<1>4. i \in wanted[c] <=> ToReplay(c, i) \/ Pending(msgs, mClientIndex, c, i)
  BY <1>2 DEF OnTheWay
<1>5. Pending(msgs', mClientIndex, c, i)
        <=> Adds(r, c, i) \/ (Pending(msgs, mClientIndex, c, i) /\ ~Drops(r, c, i))
  BY <1>2, PendingPosted
<1>6. ~Drops(r, c, i) /\ (Adds(r, c, i) <=> r.client = c /\ i \in r.items)
  BY <1>2 DEF Adds, Drops
<1>7. ToReplay(c, i) <=> ToReplay(c, i)' \/ (r.client = c /\ i \in r.items)
  BY <1>1 DEF ToReplay
<1> QED
  BY <1>4, <1>5, <1>6, <1>7

LEMMA NotifyServed ==
  ASSUME ObserverInv, ServedInv, NEW i \in Items, Notify(i)
  PROVE  ServedInv'
<1> DEFINE m == [type |-> "notify", item |-> i]
<1>1. m \in Msg /\ m.type = "notify"
  BY DEF Msg
<1>2. Post(m) /\ UNCHANGED <<subscriptionObj, replay, mClientIndex, wanted, early>>
  BY DEF Notify, Index
<1>3. subscriptionObj
  BY DEF Notify, ServedInv, Untouched
<1> HIDE DEF m
<1>4. \A d \in Clients, j \in Items : ~Adds(m, d, j) /\ ~Drops(m, d, j)
  BY <1>1 DEF Adds, Drops
<1>5. /\ early \subseteq early'
      /\ \A d \in Clients \ early', j \in Items :
           /\ j \in wanted'[d] <=> Adds(m, d, j) \/ (j \in wanted[d] /\ ~Drops(m, d, j))
           /\ ToReplay(d, j) => ~Drops(m, d, j)
  BY <1>2, <1>4
<1> QED
  BY <1>1, <1>2, <1>3, <1>5, PostServed

\* A handler makes of the index of each client what its message says.
LEMMA HandledServed ==
  ASSUME ObserverInv, ServedInv, msgs # <<>>, msgs' = Tail(msgs), UNCHANGED Caller,
         \A c \in Clients, i \in Items :
           i \in mClientIndex'[c]
             <=> Adds(Head(msgs), c, i) \/ (i \in mClientIndex[c] /\ ~Drops(Head(msgs), c, i))
  PROVE  ServedInv'
<1>1. /\ msgs \in Seq(Msg) /\ subscriptionObj /\ OnTheWay /\ OnlyAsk
      /\ UNCHANGED <<subscriptionObj, replay, wanted, early>>
  BY DEF ObserverInv, TypeOK, ServedInv, Untouched, Caller
<1> SUFFICES ASSUME NEW c \in Clients \ early, NEW i \in Items
             PROVE  i \in wanted[c] <=> ToReplay(c, i) \/ Pending(msgs', mClientIndex', c, i)
  BY <1>1 DEF ServedInv, OnTheWay, OnlyAsk, ToReplay
<1>2. Pending(msgs', mClientIndex', c, i) <=> Pending(msgs, mClientIndex, c, i)
  BY <1>1, PendingHandled
<1> QED
  BY <1>1, <1>2 DEF OnTheWay

LEMMA HandlerServed ==
  ASSUME ObserverInv, ServedInv, Handler
  PROVE  ServedInv'
<1> DEFINE m == Head(msgs)
<1>1. /\ msgs # <<>> /\ msgs' = Tail(msgs) /\ UNCHANGED Caller
  BY DEF Handler, HandleSubscribe, HandleUpdate, HandleRequestData, HandleUnsubscribe,
         HandleUnsubscribeAll, HandleNotify, Handle, Caller
<1>2. /\ m \in Msg /\ mClientIndex \in ItemSets
  BY <1>1, TakeStep DEF ObserverInv, TypeOK
<1>3. m.type \in Asking => m.client \in Clients
  BY <1>2, MsgFields
<1>4. \/ /\ m.type \in {"subscribe", "requestData"}
         /\ mClientIndex' = [mClientIndex EXCEPT ![m.client] = @ \cup m.items]
      \/ /\ m.type = "update"
         /\ mClientIndex' = [mClientIndex EXCEPT ![m.client] = m.items]
      \/ /\ m.type = "unsubscribe"
         /\ mClientIndex' = [mClientIndex EXCEPT ![m.client] = @ \ m.items]
      \/ /\ m.type = "unsubscribeAll"
         /\ mClientIndex' = [mClientIndex EXCEPT ![m.client] = {}]
      \/ m.type = "notify" /\ mClientIndex' = mClientIndex
  BY DEF Handler, HandleSubscribe, HandleUpdate, HandleRequestData, HandleUnsubscribe,
         HandleUnsubscribeAll, HandleNotify, Handle, RemoveFromIndexes
<1> HIDE DEF m
<1>5. ASSUME NEW c \in Clients, NEW i \in Items
      PROVE  i \in mClientIndex'[c]
               <=> Adds(m, c, i) \/ (i \in mClientIndex[c] /\ ~Drops(m, c, i))
  <2>1. CASE m.type \in {"subscribe", "requestData"}
    BY <1>2, <1>3, <1>4, <2>1 DEF Adds, Drops, ItemSets, Asking
  <2>2. CASE m.type = "update"
    BY <1>2, <1>3, <1>4, <2>2 DEF Adds, Drops, ItemSets, Asking
  <2>3. CASE m.type = "unsubscribe"
    BY <1>2, <1>3, <1>4, <2>3 DEF Adds, Drops, ItemSets, Asking
  <2>4. CASE m.type = "unsubscribeAll"
    BY <1>2, <1>3, <1>4, <2>4 DEF Adds, Drops, ItemSets, Asking
  <2>5. CASE m.type = "notify"
    BY <1>2, <1>3, <1>4, <2>5 DEF Adds, Drops, ItemSets, Asking
  <2> QED
    BY <1>4, <2>1, <2>2, <2>3, <2>4, <2>5
<1> QED
  BY <1>1, <1>5, HandledServed DEF m

LEMMA ServedStep == ObserverInv /\ ServedInv /\ [Next]_vars => ServedInv'
<1> SUFFICES ASSUME ObserverInv, ServedInv, [Next]_vars PROVE ServedInv'
  OBVIOUS
<1>1. ASSUME NEW c \in Clients, Call(c) PROVE ServedInv'
  BY <1>1, ClientServed
<1>2. CASE SetSubscriptionObj
  BY <1>2, ObjectServed
<1>3. CASE Replay
  BY <1>3, ReplayServed
<1>4. ASSUME NEW i \in Items, Notify(i) PROVE ServedInv'
  BY <1>4, NotifyServed
<1>5. CASE Handler
  BY <1>5, HandlerServed
<1>6. CASE UNCHANGED vars
  BY <1>6 DEF vars, ServedInv, OnlyAsk, Untouched, OnTheWay, ToReplay
<1> QED
  BY <1>1, <1>2, <1>3, <1>4, <1>5, <1>6 DEF Next

\* Once no request is on its way, the index has what the client wants.
LEMMA DrainedServed == ObserverInv /\ ServedInv => SubscribersServed
<1> SUFFICES ASSUME ObserverInv, ServedInv, Drained, NEW c \in Clients \ early
             PROVE  /\ mClientIndex[c] = wanted[c]
                    /\ \A i \in wanted[c] : c \in ToSet(mDataItemIndex[i])
  BY DEF SubscribersServed
<1>1. /\ OnTheWay /\ replay = {} /\ \A k \in 1..Len(msgs) : msgs[k].type = "notify"
      /\ msgs \in Seq(Msg) /\ mClientIndex[c] \in SUBSET Items /\ wanted[c] \in SUBSET Items
  BY DEF Drained, ServedInv, ObserverInv, TypeOK, ItemSets
<1>2. \A k \in 1..Len(msgs), i \in Items : ~Adds(msgs[k], c, i) /\ ~Drops(msgs[k], c, i)
  BY <1>1 DEF Adds, Drops
<1>3. \A i \in Items : i \in wanted[c] <=> i \in mClientIndex[c]
  BY <1>1, <1>2 DEF OnTheWay, ToReplay, Pending, Kept
<1> QED
  BY <1>1, <1>3 DEF ObserverInv, BothIndexes

\* However its calls, the coming of the object, the posting of the cached
\* requests and the handlers interleave: a client that gave up nothing before
\* its cached requests were posted has the items it wants, in both indexes,
\* once its requests are handled.
THEOREM ServedAlways == Spec => []SubscribersServed
<1>1. Init => ObserverInv /\ ServedInv
  BY ObserverInit, ServedInit
<1>2. ObserverInv /\ ServedInv /\ [Next]_vars => (ObserverInv /\ ServedInv)'
  BY ObserverStep, ServedStep
<1>3. ObserverInv /\ ServedInv => SubscribersServed
  BY DrainedServed
<1> QED
  BY <1>1, <1>2, <1>3, PTL DEF Spec

=============================================================================
