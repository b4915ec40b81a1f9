--------------------------- MODULE LocTimerProofs ---------------------------
(***************************************************************************)
(* Proofs about LocTimer, for any timers, delegates and delays, queues of  *)
(* any length, and heaps of any size (HeapAssumption).                     *)
(***************************************************************************)
EXTENDS LocTimer, FiniteSetTheorems, WellFoundedInduction, TLAPS

-----------------------------------------------------------------------------
(***************************************************************************)
(* Types.                                                                  *)
(***************************************************************************)
Ticking == [client : Timers \cup {NULL}, time : Time]

LEMMA Ticks ==
  ASSUME TypeOK, NEW d \in Delegates, delegate[d] # NULL
  PROVE  /\ delegate[d] \in Ticking /\ delegate[d].time \in Time
         /\ delegate[d].client \in Timers \cup {NULL} /\ Ranked(d) \in Entry
         /\ Ranked(d).id = d /\ Ranked(d).time = delegate[d].time
BY DEF TypeOK, Ticking, Ranked, Entry

LEMMA TicksMade ==
  ASSUME NEW t \in Timers, NEW time \in Time
  PROVE  LET e == [client |-> t, time |-> time] IN
           e \in Ticking /\ e # NULL /\ e.client = t /\ e.time = time
BY DEF Ticking, NULL

LEMMA TicksFor ==
  ASSUME NEW e \in Ticking
  PROVE  LET none == [e EXCEPT !.client = NULL] IN
           none \in Ticking /\ none # NULL /\ none.client = NULL /\ none.time = e.time
BY DEF Ticking, NULL

LEMMA TaskIs ==
  ASSUME TypeOK
  PROVE  /\ task.pc \in {"idle", "arming", "expiring", "firing"}
         /\ task = Idle <=> task.pc = "idle"
         /\ task.pc \in {"arming", "expiring", "firing"} => task.time \in Time
         /\ task.pc = "firing" => task.timer \in Delegates /\ task.client \in Timers \cup {NULL}
BY DEF TypeOK, Idle

LEMMA Entries ==
  ASSUME NEW e \in Entry
  PROVE  e.id \in Delegates /\ e.time \in Time /\ e = [id |-> e.id, time |-> e.time]
BY DEF Entry

LEMMA Times == Time \subseteq Nat /\ Never \notin Time
BY TimerAssumption DEF Time, Never

-----------------------------------------------------------------------------
\* The functions of two arguments, as operators.
PushOf(h, e)   == Pushed[h, e]
RemoveOf(h, e) == Removed[h, e]

(***************************************************************************)
(* Induction over heaps: the size of a subtree is smaller.                 *)
(***************************************************************************)
\* A set of numbers has a smallest.
LEMMA LeastNat ==
  ASSUME NEW T \in SUBSET Nat, T # {}
  PROVE  \E x \in T : \A y \in T : x <= y
<1>1. IsWellFoundedOn(OpToRel(<, Nat), Nat)
  BY NatLessThanWellFounded
<1>2. \E x \in T : \A y \in T : ~ (<<y, x>> \in OpToRel(<, Nat))
  BY <1>1, WFMin, Zenon
<1>3. \E x \in T : \A y \in T : ~(y < x)
  BY <1>2 DEF OpToRel
<1> QED
  BY <1>3

\* The parts of a heap.
LEMMA HeapParts ==
  ASSUME NEW h \in Heaps, h # NULL
  PROVE  /\ h.data \in Entry /\ h.size \in Nat /\ h.left \in Heaps /\ h.right \in Heaps
         /\ h \in [data : Entry, size : Nat, left : Heaps, right : Heaps]
         /\ h.left # NULL => ~OutRanks(h.left.data, h.data)
         /\ h.right # NULL => ~OutRanks(h.right.data, h.data)
         /\ h.size = 1 + Size(h.left) + Size(h.right)
         /\ Apart(h)
<1>1. h \in [data : Entry, size : Nat, left : Heaps, right : Heaps]
  BY HeapAssumption, Zenon DEF HeapCode
<1>2. CheckNodes(h, Heaps) /\ Apart(h)
  BY HeapAssumption, Zenon DEF HeapCode
<1>3. /\ h.left # NULL => ~OutRanks(h.left.data, h.data)
      /\ h.right # NULL => ~OutRanks(h.right.data, h.data)
      /\ h.size = 1 + Size(h.left) + Size(h.right)
  BY <1>2 DEF CheckNodes
<1>4. h.data \in Entry /\ h.size \in Nat /\ h.left \in Heaps /\ h.right \in Heaps
  BY <1>1
<1> QED
  BY <1>1, <1>2, <1>3, <1>4

LEMMA HeapHeld ==
  /\ NULL \in Heaps /\ HeldBy[NULL] = {}
  /\ \A h \in Heaps : h # NULL => HeldBy[h] = {h.data} \cup HeldBy[h.left] \cup HeldBy[h.right]
<1>1. ASSUME NEW h \in Heaps \cup {NULL} PROVE h \in Heaps /\ HeldBy[h] = Held(h, HeldBy)
  BY HeapAssumption, Zenon DEF HeapCode
<1> QED
  BY <1>1 DEF Held

LEMMA HeapSize ==
  ASSUME NEW h \in Heaps
  PROVE  /\ Size(h) \in Nat
         /\ h # NULL => Size(h.left) < Size(h) /\ Size(h.right) < Size(h)
<1>1. ASSUME NEW g \in Heaps PROVE Size(g) \in Nat
  BY <1>1, HeapParts DEF Size
<1>2. h # NULL => Size(h) = 1 + Size(h.left) + Size(h.right) /\ h.left \in Heaps /\ h.right \in Heaps
  BY HeapParts DEF Size
<1> QED
  BY <1>1, <1>2

LEMMA HeapInduction ==
  ASSUME NEW S, NULL \in S,
         \A h \in Heaps : h # NULL /\ h.left \in S /\ h.right \in S => h \in S
  PROVE  Heaps \subseteq S
<1> DEFINE T == {Size(h) : h \in Heaps \ S}
<1> SUFFICES ASSUME T # {} PROVE FALSE
  OBVIOUS
<1>1. T \in SUBSET Nat
  BY HeapSize
<1>2. PICK n \in T : \A m \in T : n <= m
  BY <1>1, LeastNat
<1>3. PICK h \in Heaps \ S : Size(h) = n
  BY <1>2
<1>4. h # NULL /\ h.left \in Heaps /\ h.right \in Heaps /\ Size(h) \in Nat
      /\ Size(h.left) \in Nat /\ Size(h.right) \in Nat /\ Size(h.left) < Size(h) /\ Size(h.right) < Size(h)
  BY HeapParts, HeapSize
<1>5. h.left \in S /\ h.right \in S
  BY <1>2, <1>3, <1>4
<1> QED
  BY <1>3, <1>4, <1>5

(***************************************************************************)
(* A heap from its top and its subtrees.                                   *)
(***************************************************************************)
LEMMA JoinedHeap ==
  ASSUME NEW e \in Entry, NEW l \in Heaps, NEW r \in Heaps,
         l # NULL => ~OutRanks(l.data, e), r # NULL => ~OutRanks(r.data, e),
         \A f \in HeldBy[l] \cup HeldBy[r] : f.id # e.id,
         \A f \in HeldBy[l], g \in HeldBy[r] : f.id # g.id
  PROVE  LET tree == Joined(e, l, r) IN
           /\ tree \in Heaps /\ tree # NULL /\ tree.data = e
           /\ HeldBy[tree] = {e} \cup HeldBy[l] \cup HeldBy[r]
           /\ Size(tree) = 1 + Size(l) + Size(r)
<1> DEFINE tree == Joined(e, l, r)
<1>1. /\ tree.data = e /\ tree.left = l /\ tree.right = r /\ tree.size = 1 + Size(l) + Size(r)
      /\ tree # NULL
  BY DEF Joined, NULL
<1> HIDE DEF tree
<1>2. CheckNodes(tree, Heaps)
  BY <1>1 DEF CheckNodes
<1>3. Apart(tree)
  BY <1>1 DEF Apart
<1>4. CheckNodes(tree, Heaps) /\ Apart(tree) => tree \in Heaps
  BY HeapAssumption, Zenon DEF HeapCode, tree
<1> QED
  BY <1>1, <1>2, <1>3, <1>4, HeapHeld DEF tree, Size

\* A record is what its fields are.
LEMMA JoinedIs ==
  ASSUME NEW tree, NEW e, NEW l, NEW r,
         tree \in [data : {e}, size : {1 + Size(l) + Size(r)}, left : {l}, right : {r}]
  PROVE  tree = Joined(e, l, r)
BY DEF Joined

\* The top of a heap.
LEMMA HeapOrder ==
  ASSUME NEW h \in Heaps
  PROVE  /\ HeldBy[h] \subseteq Entry
         /\ h # NULL => h.data \in HeldBy[h] /\ \A e \in HeldBy[h] : h.data.time <= e.time
<1> DEFINE S == {g \in Heaps : /\ HeldBy[g] \subseteq Entry
                               /\ g # NULL => g.data \in HeldBy[g] /\ \A e \in HeldBy[g] : g.data.time <= e.time}
<1>1. NULL \in S
  BY HeapHeld
<1>2. ASSUME NEW g \in Heaps, g # NULL, g.left \in S, g.right \in S PROVE g \in S
  <2>1. /\ g.data \in Entry /\ g.left \in Heaps /\ g.right \in Heaps
        /\ g.left # NULL => ~OutRanks(g.left.data, g.data)
        /\ g.right # NULL => ~OutRanks(g.right.data, g.data)
        /\ HeldBy[g] = {g.data} \cup HeldBy[g.left] \cup HeldBy[g.right]
    BY <1>2, HeapParts, HeapHeld
  <2>2. ASSUME NEW sub \in {g.left, g.right}, NEW e \in HeldBy[sub]
        PROVE  g.data.time <= e.time
    <3>1. sub # NULL /\ sub \in S
      BY <1>2, <2>2, HeapHeld
    <3>2. sub.data \in Entry /\ e \in Entry /\ sub.data.time <= e.time
      BY <2>2, <3>1
    <3>3. g.data.time \in Nat /\ sub.data.time \in Nat /\ e.time \in Nat
      BY <2>1, <3>2, Entries, Times
    <3>4. ~(sub.data.time < g.data.time)
      BY <2>1, <2>2, <3>1 DEF OutRanks
    <3> QED
      BY <3>2, <3>3, <3>4
  <2>3. g.data.time <= g.data.time
    BY <2>1, Entries, Times
  <2> QED
    BY <1>2, <2>1, <2>2, <2>3
<1>3. Heaps \subseteq S
  <2> HIDE DEF S
  <2> QED
    BY <1>1, <1>2, HeapInduction
<1> QED
  BY <1>3

\* What is known of a heap and its subtrees.
LEMMA HeapIs ==
  ASSUME NEW h \in Heaps, h # NULL
  PROVE  /\ h.data \in Entry /\ h.left \in Heaps /\ h.right \in Heaps
         /\ Size(h.left) \in Nat /\ Size(h.right) \in Nat
         /\ Size(h) = h.size /\ h.size = 1 + Size(h.left) + Size(h.right)
         /\ HeldBy[h] = {h.data} \cup HeldBy[h.left] \cup HeldBy[h.right]
         /\ HeldBy[h.left] \subseteq Entry /\ HeldBy[h.right] \subseteq Entry
         /\ \A f \in HeldBy[h.left] \cup HeldBy[h.right] : f.id # h.data.id /\ h.data.time <= f.time
         /\ \A f \in HeldBy[h.left], g \in HeldBy[h.right] : f.id # g.id
<1>1. /\ h.data \in Entry /\ h.left \in Heaps /\ h.right \in Heaps /\ Apart(h)
      /\ h.size = 1 + Size(h.left) + Size(h.right)
  BY HeapParts
<1>2. Size(h.left) \in Nat /\ Size(h.right) \in Nat /\ Size(h) = h.size
  BY <1>1, HeapSize DEF Size
<1>3. /\ HeldBy[h] = {h.data} \cup HeldBy[h.left] \cup HeldBy[h.right]
      /\ HeldBy[h.left] \subseteq Entry /\ HeldBy[h.right] \subseteq Entry
  BY <1>1, HeapHeld, HeapOrder
<1>4. \A f \in HeldBy[h.left] \cup HeldBy[h.right] : h.data.time <= f.time
  BY <1>3, HeapOrder
<1> QED
  BY <1>1, <1>2, <1>3, <1>4 DEF Apart

(***************************************************************************)
(* push().                                                                 *)
(***************************************************************************)
PushKept(h) ==
  \A e \in Entry : (\A f \in HeldBy[h] : f.id # e.id) =>
    /\ PushOf(h, e) \in Heaps /\ PushOf(h, e) # NULL
    /\ HeldBy[PushOf(h, e)] = HeldBy[h] \cup {e} /\ Size(PushOf(h, e)) = Size(h) + 1

LEMMA PushInto ==
  ASSUME NEW h \in Heaps, NEW e \in Entry
  PROVE  LET swap  == OutRanks(e, h.data)
             upper == IF swap THEN e ELSE h.data
             lower == IF swap THEN h.data ELSE e
         IN /\ h = NULL => PushOf(h, e) = Node(e)
            /\ h # NULL /\ ToTheLeft(h) => PushOf(h, e) \in
                 [data : {upper}, size : {h.size + 1}, left : {PushOf(h.left, lower)}, right : {h.right}]
            /\ h # NULL /\ ~ToTheLeft(h) => PushOf(h, e) \in
                 [data : {upper}, size : {h.size + 1}, left : {h.left}, right : {PushOf(h.right, lower)}]
<1> DEFINE swap  == OutRanks(e, h.data)
           upper == IF swap THEN e ELSE h.data
           lower == IF swap THEN h.data ELSE e
<1>1. PushOf(h, e) = Push(h, e, Pushed)
  BY HeapAssumption, Zenon DEF HeapCode, PushOf
<1>2. /\ h = NULL => PushOf(h, e) = Node(e)
      /\ h # NULL /\ ToTheLeft(h) =>
           PushOf(h, e) = [h EXCEPT !.size = h.size + 1, !.data = upper, !.left = PushOf(h.left, lower)]
      /\ h # NULL /\ ~ToTheLeft(h) =>
           PushOf(h, e) = [h EXCEPT !.size = h.size + 1, !.data = upper, !.right = PushOf(h.right, lower)]
  BY <1>1 DEF Push, PushOf
<1>3. h # NULL => h \in [data : Entry, size : Nat, left : Heaps, right : Heaps]
  BY HeapParts
<1> HIDE DEF upper, lower
<1>4. h # NULL /\ ToTheLeft(h) => PushOf(h, e) \in
        [data : {upper}, size : {h.size + 1}, left : {PushOf(h.left, lower)}, right : {h.right}]
  BY <1>2, <1>3
<1>5. h # NULL /\ ~ToTheLeft(h) => PushOf(h, e) \in
        [data : {upper}, size : {h.size + 1}, left : {h.left}, right : {PushOf(h.right, lower)}]
  BY <1>2, <1>3
<1> QED
  BY <1>2, <1>4, <1>5 DEF upper, lower

LEMMA PushStep ==
  ASSUME NEW h \in Heaps, h # NULL, PushKept(h.left), PushKept(h.right)
  PROVE  PushKept(h)
<1> SUFFICES ASSUME NEW e \in Entry, \A f \in HeldBy[h] : f.id # e.id
             PROVE  /\ PushOf(h, e) \in Heaps /\ PushOf(h, e) # NULL
                    /\ HeldBy[PushOf(h, e)] = HeldBy[h] \cup {e} /\ Size(PushOf(h, e)) = Size(h) + 1
  BY DEF PushKept
<1> DEFINE upper == IF OutRanks(e, h.data) THEN e ELSE h.data
           lower == IF OutRanks(e, h.data) THEN h.data ELSE e
           l == h.left
           r == h.right
<1>1. /\ h.data \in Entry /\ l \in Heaps /\ r \in Heaps /\ Size(l) \in Nat /\ Size(r) \in Nat
      /\ Size(h) = 1 + Size(l) + Size(r) /\ HeldBy[h] = {h.data} \cup HeldBy[l] \cup HeldBy[r]
      /\ \A f \in HeldBy[l] \cup HeldBy[r] : f.id # h.data.id /\ f.id # e.id /\ h.data.time <= f.time
      /\ \A f \in HeldBy[l], g \in HeldBy[r] : f.id # g.id
      /\ HeldBy[l] \subseteq Entry /\ HeldBy[r] \subseteq Entry /\ e.id # h.data.id
  BY HeapIs
<1>2. /\ upper \in Entry /\ lower \in Entry /\ {upper, lower} = {h.data, e} /\ upper.id # lower.id
      /\ ~OutRanks(lower, upper) /\ \A f \in HeldBy[l] \cup HeldBy[r] : ~OutRanks(f, upper)
      /\ \A f \in HeldBy[l] \cup HeldBy[r] : f.id # upper.id /\ f.id # lower.id
  <2>1. h.data.time \in Nat /\ e.time \in Nat /\ \A f \in HeldBy[l] \cup HeldBy[r] : f.time \in Nat
    BY <1>1, Entries, Times
  <2> QED
    BY <1>1, <2>1 DEF OutRanks
<1>3. /\ ToTheLeft(h) => PushOf(h, e) \in
           [data : {upper}, size : {h.size + 1}, left : {PushOf(l, lower)}, right : {r}]
      /\ ~ToTheLeft(h) => PushOf(h, e) \in
           [data : {upper}, size : {h.size + 1}, left : {l}, right : {PushOf(r, lower)}]
  BY PushInto
<1> HIDE DEF upper, lower
<1>4. ASSUME NEW sub \in {l, r}
      PROVE  /\ PushOf(sub, lower) \in Heaps /\ PushOf(sub, lower) # NULL
             /\ HeldBy[PushOf(sub, lower)] = HeldBy[sub] \cup {lower}
             /\ Size(PushOf(sub, lower)) = Size(sub) + 1
             /\ ~OutRanks(PushOf(sub, lower).data, upper)
  <2>1. /\ PushOf(sub, lower) \in Heaps /\ PushOf(sub, lower) # NULL
        /\ HeldBy[PushOf(sub, lower)] = HeldBy[sub] \cup {lower}
        /\ Size(PushOf(sub, lower)) = Size(sub) + 1
    BY <1>1, <1>2 DEF PushKept
  <2>2. PushOf(sub, lower).data \in HeldBy[sub] \cup {lower}
    BY <2>1, HeapOrder
  <2> QED
    BY <1>2, <2>1, <2>2
<1>5. /\ l # NULL => ~OutRanks(l.data, upper)
      /\ r # NULL => ~OutRanks(r.data, upper)
  BY <1>1, <1>2, HeapOrder
<1>6. CASE ToTheLeft(h)
  <2> DEFINE sub == PushOf(l, lower)
  <2>1. /\ sub \in Heaps /\ HeldBy[sub] = HeldBy[l] \cup {lower} /\ Size(sub) = Size(l) + 1
        /\ ~OutRanks(sub.data, upper)
    BY <1>4
  <2> HIDE DEF sub
  <2>2. PushOf(h, e) = Joined(upper, sub, r)
    <3>1. h.size + 1 = 1 + Size(sub) + Size(r)
      BY <1>1, <2>1 DEF Size
    <3>2. PushOf(h, e) \in [data : {upper}, size : {1 + Size(sub) + Size(r)}, left : {sub}, right : {r}]
      BY <1>3, <1>6, <3>1 DEF sub
    <3> QED
      BY <3>2, JoinedIs
  <2>3. /\ Joined(upper, sub, r) \in Heaps /\ Joined(upper, sub, r) # NULL
        /\ HeldBy[Joined(upper, sub, r)] = {upper} \cup HeldBy[sub] \cup HeldBy[r]
        /\ Size(Joined(upper, sub, r)) = 1 + Size(sub) + Size(r)
    BY <1>1, <1>2, <1>5, <2>1, JoinedHeap
  <2> QED
    BY <1>1, <1>2, <2>1, <2>2, <2>3
<1>7. CASE ~ToTheLeft(h)
  <2> DEFINE sub == PushOf(r, lower)
  <2>1. /\ sub \in Heaps /\ HeldBy[sub] = HeldBy[r] \cup {lower} /\ Size(sub) = Size(r) + 1
        /\ ~OutRanks(sub.data, upper)
    BY <1>4
  <2> HIDE DEF sub
  <2>2. PushOf(h, e) = Joined(upper, l, sub)
    <3>1. h.size + 1 = 1 + Size(l) + Size(sub)
      BY <1>1, <2>1 DEF Size
    <3>2. PushOf(h, e) \in [data : {upper}, size : {1 + Size(l) + Size(sub)}, left : {l}, right : {sub}]
      BY <1>3, <1>7, <3>1 DEF sub
    <3> QED
      BY <3>2, JoinedIs
  <2>3. /\ Joined(upper, l, sub) \in Heaps /\ Joined(upper, l, sub) # NULL
        /\ HeldBy[Joined(upper, l, sub)] = {upper} \cup HeldBy[l] \cup HeldBy[sub]
        /\ Size(Joined(upper, l, sub)) = 1 + Size(l) + Size(sub)
    BY <1>1, <1>2, <1>5, <2>1, JoinedHeap
  <2> QED
    BY <1>1, <1>2, <2>1, <2>2, <2>3
<1> QED
  BY <1>6, <1>7

LEMMA PushNull == PushKept(NULL)
<1> SUFFICES ASSUME NEW e \in Entry
             PROVE  /\ PushOf(NULL, e) \in Heaps /\ PushOf(NULL, e) # NULL
                    /\ HeldBy[PushOf(NULL, e)] = HeldBy[NULL] \cup {e} /\ Size(PushOf(NULL, e)) = Size(NULL) + 1
  BY DEF PushKept
<1>1. NULL \in Heaps /\ HeldBy[NULL] = {} /\ Size(NULL) = 0
  BY HeapHeld DEF Size
<1>2. PushOf(NULL, e) = Node(e)
  BY <1>1, PushInto
<1>3. Node(e) = Joined(e, NULL, NULL)
  BY <1>1 DEF Node, Joined
<1>4. LET tree == Joined(e, NULL, NULL) IN
        /\ tree \in Heaps /\ tree # NULL /\ HeldBy[tree] = {e} /\ Size(tree) = 1
  BY <1>1, JoinedHeap
<1> QED
  BY <1>1, <1>2, <1>3, <1>4

LEMMA PushAll == \A h \in Heaps : PushKept(h)
<1> DEFINE S == {h \in Heaps : PushKept(h)}
<1>1. NULL \in S
  BY PushNull, HeapHeld
<1>2. \A h \in Heaps : h # NULL /\ h.left \in S /\ h.right \in S => h \in S
  BY PushStep
<1>3. Heaps \subseteq S
  <2> HIDE DEF S
  <2> QED
    BY <1>1, <1>2, HeapInduction
<1> QED
  BY <1>3

(***************************************************************************)
(* pop().                                                                  *)
(***************************************************************************)
PopKept(h) ==
  h # NULL => Popped[h] \in Heaps /\ HeldBy[Popped[h]] = HeldBy[h] \ {h.data} /\ Size(Popped[h]) = Size(h) - 1

LEMMA PopInto ==
  ASSUME NEW h \in Heaps, h # NULL
  PROVE  LET l == h.left  r == h.right
             fromLeft == l # NULL /\ (r = NULL \/ OutRanks(l.data, r.data))
         IN /\ l = NULL /\ r = NULL => Popped[h] = NULL
            /\ fromLeft => Popped[h] \in [data : {l.data}, size : {h.size - 1}, left : {Popped[l]}, right : {r}]
            /\ ~fromLeft /\ r # NULL =>
                 Popped[h] \in [data : {r.data}, size : {h.size - 1}, left : {l}, right : {Popped[r]}]
<1> DEFINE l == h.left
           r == h.right
           fromLeft == l # NULL /\ (r = NULL \/ OutRanks(l.data, r.data))
<1>1. Popped[h] = Pop(h, Popped)
  BY HeapAssumption, Zenon DEF HeapCode
<1>2. /\ l = NULL /\ r = NULL => Popped[h] = NULL
      /\ fromLeft => Popped[h] = [h EXCEPT !.size = h.size - 1, !.data = l.data, !.left = Popped[l]]
      /\ ~fromLeft /\ r # NULL => Popped[h] = [h EXCEPT !.size = h.size - 1, !.data = r.data, !.right = Popped[r]]
  BY <1>1 DEF Pop
<1>3. h \in [data : Entry, size : Nat, left : Heaps, right : Heaps]
  BY HeapParts
<1> HIDE DEF fromLeft
<1>4. fromLeft => Popped[h] \in [data : {l.data}, size : {h.size - 1}, left : {Popped[l]}, right : {r}]
  BY <1>2, <1>3
<1>5. ~fromLeft /\ r # NULL => Popped[h] \in [data : {r.data}, size : {h.size - 1}, left : {l}, right : {Popped[r]}]
  BY <1>2, <1>3
<1> QED
  BY <1>2, <1>4, <1>5 DEF fromLeft

\* The subtree whose top goes up.
LEMMA PopRaised ==
  ASSUME NEW sub \in Heaps, sub # NULL, PopKept(sub)
  PROVE  /\ sub.data \in Entry /\ Popped[sub] \in Heaps /\ Size(Popped[sub]) = Size(sub) - 1
         /\ HeldBy[sub] = {sub.data} \cup HeldBy[Popped[sub]]
         /\ \A f \in HeldBy[Popped[sub]] : f.id # sub.data.id
         /\ Popped[sub] # NULL => ~OutRanks(Popped[sub].data, sub.data)
<1>1. Popped[sub] \in Heaps /\ HeldBy[Popped[sub]] = HeldBy[sub] \ {sub.data} /\ Size(Popped[sub]) = Size(sub) - 1
  BY DEF PopKept
<1>2. /\ sub.data \in Entry /\ HeldBy[sub] = {sub.data} \cup HeldBy[Popped[sub]]
      /\ \A f \in HeldBy[Popped[sub]] : f.id # sub.data.id /\ sub.data.time <= f.time /\ f \in Entry
  BY <1>1, HeapIs
<1>3. Popped[sub] # NULL => ~OutRanks(Popped[sub].data, sub.data)
  <2> SUFFICES ASSUME Popped[sub] # NULL PROVE ~OutRanks(Popped[sub].data, sub.data)
    OBVIOUS
  <2>1. Popped[sub].data \in HeldBy[Popped[sub]]
    BY <1>1, HeapOrder
  <2>2. /\ sub.data.time <= Popped[sub].data.time
        /\ sub.data.time \in Nat /\ Popped[sub].data.time \in Nat
    BY <1>2, <2>1, Entries, Times
  <2> QED
    BY <2>2 DEF OutRanks
<1> QED
  BY <1>1, <1>2, <1>3

LEMMA PopStep ==
  ASSUME NEW h \in Heaps, h # NULL, PopKept(h.left), PopKept(h.right)
  PROVE  PopKept(h)
<1> DEFINE l == h.left
           r == h.right
           fromLeft == l # NULL /\ (r = NULL \/ OutRanks(l.data, r.data))
<1>1. /\ h.data \in Entry /\ l \in Heaps /\ r \in Heaps /\ Size(l) \in Nat /\ Size(r) \in Nat
      /\ Size(h) = h.size /\ h.size = 1 + Size(l) + Size(r)
      /\ HeldBy[l] \cup HeldBy[r] = HeldBy[h] \ {h.data}
      /\ \A f \in HeldBy[l], g \in HeldBy[r] : f.id # g.id
  BY HeapIs
<1>2. CASE l = NULL /\ r = NULL
  <2>1. Popped[h] = NULL
    BY <1>2, PopInto
  <2> QED
    BY <1>1, <1>2, <2>1, HeapHeld DEF PopKept, Size
<1>3. CASE fromLeft
  <2> DEFINE sub == Popped[l]
  <2>1. /\ l.data \in Entry /\ sub \in Heaps /\ Size(sub) = Size(l) - 1
        /\ HeldBy[l] = {l.data} \cup HeldBy[sub] /\ \A f \in HeldBy[sub] : f.id # l.data.id
        /\ sub # NULL => ~OutRanks(sub.data, l.data)
    BY <1>1, <1>3, PopRaised
  <2>2. r # NULL => ~OutRanks(r.data, l.data)
    <3>1. r # NULL => r.data.time \in Nat /\ l.data.time \in Nat
      BY <1>1, <2>1, HeapIs, Entries, Times
    <3> QED
      BY <1>3, <3>1 DEF OutRanks
  <2>3. Popped[h] \in [data : {l.data}, size : {h.size - 1}, left : {sub}, right : {r}]
    BY <1>3, PopInto
  <2> HIDE DEF sub
  <2>4. h.size - 1 = 1 + Size(sub) + Size(r)
    BY <1>1, <2>1
  <2>5. Popped[h] = Joined(l.data, sub, r)
    BY <2>3, <2>4, JoinedIs
  <2>6. /\ Joined(l.data, sub, r) \in Heaps
        /\ HeldBy[Joined(l.data, sub, r)] = {l.data} \cup HeldBy[sub] \cup HeldBy[r]
        /\ Size(Joined(l.data, sub, r)) = 1 + Size(sub) + Size(r)
    BY <1>1, <2>1, <2>2, JoinedHeap
  <2> QED
    BY <1>1, <2>1, <2>4, <2>5, <2>6 DEF PopKept
<1>4. CASE ~fromLeft /\ r # NULL
  <2> DEFINE sub == Popped[r]
  <2>1. /\ r.data \in Entry /\ sub \in Heaps /\ Size(sub) = Size(r) - 1
        /\ HeldBy[r] = {r.data} \cup HeldBy[sub] /\ \A f \in HeldBy[sub] : f.id # r.data.id
        /\ sub # NULL => ~OutRanks(sub.data, r.data)
    BY <1>1, <1>4, PopRaised
  <2>2. l # NULL => ~OutRanks(l.data, r.data)
    BY <1>4
  <2>3. Popped[h] \in [data : {r.data}, size : {h.size - 1}, left : {l}, right : {sub}]
    BY <1>4, PopInto
  <2> HIDE DEF sub
  <2>4. h.size - 1 = 1 + Size(l) + Size(sub)
    BY <1>1, <2>1
  <2>5. Popped[h] = Joined(r.data, l, sub)
    BY <2>3, <2>4, JoinedIs
  <2>6. /\ Joined(r.data, l, sub) \in Heaps
        /\ HeldBy[Joined(r.data, l, sub)] = {r.data} \cup HeldBy[l] \cup HeldBy[sub]
        /\ Size(Joined(r.data, l, sub)) = 1 + Size(l) + Size(sub)
    BY <1>1, <2>1, <2>2, JoinedHeap
  <2> QED
    BY <1>1, <2>1, <2>4, <2>5, <2>6 DEF PopKept
<1> QED
  BY <1>2, <1>3, <1>4

LEMMA PopAll == \A h \in Heaps : PopKept(h)
<1> DEFINE S == {h \in Heaps : PopKept(h)}
<1>1. NULL \in S
  BY HeapHeld DEF PopKept
<1>2. \A h \in Heaps : h # NULL /\ h.left \in S /\ h.right \in S => h \in S
  BY PopStep
<1>3. Heaps \subseteq S
  <2> HIDE DEF S
  <2> QED
    BY <1>1, <1>2, HeapInduction
<1> QED
  BY <1>3

(***************************************************************************)
(* remove().                                                               *)
(***************************************************************************)
RemoveKept(h) ==
  \A e \in Entry :
    /\ RemoveOf(h, e) \in Heaps /\ HeldBy[RemoveOf(h, e)] = HeldBy[h] \ {e}
    /\ IF e \in HeldBy[h] THEN Size(RemoveOf(h, e)) = Size(h) - 1 ELSE RemoveOf(h, e) = h

LEMMA RemoveInto ==
  ASSUME NEW h \in Heaps, h # NULL, NEW e \in Entry
  PROVE  LET l == h.left  r == h.right
             below   == h.data # e /\ ~OutRanks(e, h.data)
             inLeft  == l # NULL /\ RemoveOf(l, e) # l
             inRight == r # NULL /\ RemoveOf(r, e) # r
         IN /\ h.data = e => RemoveOf(h, e) = Popped[h]
            /\ h.data # e /\ OutRanks(e, h.data) => RemoveOf(h, e) = h
            /\ below /\ inLeft =>
                 RemoveOf(h, e) \in [data : {h.data}, size : {h.size - 1}, left : {RemoveOf(l, e)}, right : {r}]
            /\ below /\ ~inLeft /\ inRight =>
                 RemoveOf(h, e) \in [data : {h.data}, size : {h.size - 1}, left : {l}, right : {RemoveOf(r, e)}]
            /\ below /\ ~inLeft /\ ~inRight => RemoveOf(h, e) = h
<1> DEFINE l == h.left
           r == h.right
           below   == h.data # e /\ ~OutRanks(e, h.data)
           inLeft  == l # NULL /\ RemoveOf(l, e) # l
           inRight == r # NULL /\ RemoveOf(r, e) # r
<1>1. RemoveOf(h, e) = Remove(h, e, Popped, Removed)
  BY HeapAssumption, Zenon DEF HeapCode, RemoveOf
<1>2. /\ h.data = e => RemoveOf(h, e) = Popped[h]
      /\ h.data # e /\ OutRanks(e, h.data) => RemoveOf(h, e) = h
      /\ below => RemoveOf(h, e) = RemoveBelow(h, e, Removed)
  BY <1>1 DEF Remove
<1>3. /\ below /\ inLeft => RemoveOf(h, e) = [h EXCEPT !.size = h.size - 1, !.left = RemoveOf(l, e)]
      /\ below /\ ~inLeft /\ inRight => RemoveOf(h, e) = [h EXCEPT !.size = h.size - 1, !.right = RemoveOf(r, e)]
      /\ below /\ ~inLeft /\ ~inRight => RemoveOf(h, e) = h
  BY <1>1 DEF Remove, RemoveBelow, RemoveOf
<1>4. h \in [data : Entry, size : Nat, left : Heaps, right : Heaps]
  BY HeapParts
<1> HIDE DEF below, inLeft, inRight
<1>5. below /\ inLeft =>
        RemoveOf(h, e) \in [data : {h.data}, size : {h.size - 1}, left : {RemoveOf(l, e)}, right : {r}]
  BY <1>3, <1>4
<1>6. below /\ ~inLeft /\ inRight =>
        RemoveOf(h, e) \in [data : {h.data}, size : {h.size - 1}, left : {l}, right : {RemoveOf(r, e)}]
  BY <1>3, <1>4
<1> QED
  BY <1>2, <1>3, <1>5, <1>6 DEF below, inLeft, inRight

LEMMA RemoveStep ==
  ASSUME NEW h \in Heaps, h # NULL, RemoveKept(h.left), RemoveKept(h.right)
  PROVE  RemoveKept(h)
<1> SUFFICES ASSUME NEW e \in Entry
             PROVE  /\ RemoveOf(h, e) \in Heaps /\ HeldBy[RemoveOf(h, e)] = HeldBy[h] \ {e}
                    /\ IF e \in HeldBy[h] THEN Size(RemoveOf(h, e)) = Size(h) - 1 ELSE RemoveOf(h, e) = h
  BY DEF RemoveKept
<1> DEFINE l == h.left
           r == h.right
           below == h.data # e /\ ~OutRanks(e, h.data)
<1>1. /\ h.data \in Entry /\ l \in Heaps /\ r \in Heaps /\ Size(l) \in Nat /\ Size(r) \in Nat
      /\ Size(h) = h.size /\ h.size = 1 + Size(l) + Size(r)
      /\ HeldBy[h] = {h.data} \cup HeldBy[l] \cup HeldBy[r]
      /\ HeldBy[l] \subseteq Entry /\ HeldBy[r] \subseteq Entry
      /\ \A f \in HeldBy[l] \cup HeldBy[r] : f.id # h.data.id /\ h.data.time <= f.time
      /\ \A f \in HeldBy[l], g \in HeldBy[r] : f.id # g.id
  BY HeapIs
<1>2. /\ l # NULL => ~OutRanks(l.data, h.data)
      /\ r # NULL => ~OutRanks(r.data, h.data)
  BY HeapParts
<1>3. ASSUME NEW sub \in {l, r}, e \in HeldBy[sub]
      PROVE  /\ sub # NULL /\ RemoveOf(sub, e) # sub /\ RemoveOf(sub, e) \in Heaps
             /\ HeldBy[RemoveOf(sub, e)] = HeldBy[sub] \ {e} /\ Size(RemoveOf(sub, e)) = Size(sub) - 1
             /\ RemoveOf(sub, e) # NULL => ~OutRanks(RemoveOf(sub, e).data, h.data)
             /\ below
  <2>1. /\ sub # NULL /\ RemoveOf(sub, e) # sub /\ RemoveOf(sub, e) \in Heaps
        /\ HeldBy[RemoveOf(sub, e)] = HeldBy[sub] \ {e} /\ Size(RemoveOf(sub, e)) = Size(sub) - 1
    BY <1>3, HeapHeld DEF RemoveKept
  <2>2. RemoveOf(sub, e) # NULL => RemoveOf(sub, e).data \in HeldBy[sub]
    BY <2>1, HeapOrder
  <2>3. h.data.time \in Nat /\ \A f \in HeldBy[sub] : f.time \in Nat /\ h.data.time <= f.time
    BY <1>1, Entries, Times
  <2>4. \A f \in HeldBy[sub] : ~OutRanks(f, h.data)
    BY <2>3 DEF OutRanks
  <2> QED
    BY <1>1, <1>3, <2>1, <2>2, <2>4
<1>4. ASSUME NEW sub \in {l, r}, e \notin HeldBy[sub]
      PROVE  RemoveOf(sub, e) = sub
  BY <1>4 DEF RemoveKept
<1>5. CASE h.data = e
  <2>1. RemoveOf(h, e) = Popped[h]
    BY <1>5, RemoveInto
  <2>2. /\ Popped[h] \in Heaps /\ HeldBy[Popped[h]] = HeldBy[h] \ {h.data} /\ Size(Popped[h]) = Size(h) - 1
    BY PopAll DEF PopKept
  <2> QED
    BY <1>1, <1>5, <2>1, <2>2
<1>6. CASE e \in HeldBy[l]
  <2> DEFINE sub == RemoveOf(l, e)
  <2>1. /\ l # NULL /\ sub # l /\ sub \in Heaps /\ HeldBy[sub] = HeldBy[l] \ {e} /\ Size(sub) = Size(l) - 1
        /\ sub # NULL => ~OutRanks(sub.data, h.data)
        /\ below
    BY <1>3, <1>6
  <2>2. RemoveOf(h, e) \in [data : {h.data}, size : {h.size - 1}, left : {sub}, right : {r}]
    BY <2>1, RemoveInto
  <2> HIDE DEF sub
  <2>3. h.size - 1 = 1 + Size(sub) + Size(r)
    BY <1>1, <2>1
  <2>4. RemoveOf(h, e) = Joined(h.data, sub, r)
    BY <2>2, <2>3, JoinedIs
  <2>5. /\ Joined(h.data, sub, r) \in Heaps
        /\ HeldBy[Joined(h.data, sub, r)] = {h.data} \cup HeldBy[sub] \cup HeldBy[r]
        /\ Size(Joined(h.data, sub, r)) = 1 + Size(sub) + Size(r)
    BY <1>1, <1>2, <2>1, JoinedHeap
  <2> QED
    BY <1>1, <1>6, <2>1, <2>3, <2>4, <2>5
<1>7. CASE e \in HeldBy[r]
  <2> DEFINE sub == RemoveOf(r, e)
  <2>1. /\ r # NULL /\ sub # r /\ sub \in Heaps /\ HeldBy[sub] = HeldBy[r] \ {e} /\ Size(sub) = Size(r) - 1
        /\ sub # NULL => ~OutRanks(sub.data, h.data)
        /\ below
    BY <1>3, <1>7
  <2>2. e \notin HeldBy[l] /\ RemoveOf(l, e) = l
    BY <1>1, <1>4, <1>7
  <2>3. RemoveOf(h, e) \in [data : {h.data}, size : {h.size - 1}, left : {l}, right : {sub}]
    BY <2>1, <2>2, RemoveInto
  <2> HIDE DEF sub
  <2>4. h.size - 1 = 1 + Size(l) + Size(sub)
    BY <1>1, <2>1
  <2>5. RemoveOf(h, e) = Joined(h.data, l, sub)
    BY <2>3, <2>4, JoinedIs
  <2>6. /\ Joined(h.data, l, sub) \in Heaps
        /\ HeldBy[Joined(h.data, l, sub)] = {h.data} \cup HeldBy[l] \cup HeldBy[sub]
        /\ Size(Joined(h.data, l, sub)) = 1 + Size(l) + Size(sub)
    BY <1>1, <1>2, <2>1, JoinedHeap
  <2> QED
    BY <1>1, <1>7, <2>1, <2>2, <2>4, <2>5, <2>6
<1>8. CASE e \notin HeldBy[h]
  <2>1. h.data # e /\ RemoveOf(l, e) = l /\ RemoveOf(r, e) = r
    BY <1>1, <1>4, <1>8
  <2>2. RemoveOf(h, e) = h
    BY <2>1, RemoveInto
  <2> QED
    BY <1>8, <2>2
<1> QED
  BY <1>1, <1>5, <1>6, <1>7, <1>8

LEMMA RemoveNull == RemoveKept(NULL)
<1> SUFFICES ASSUME NEW e \in Entry
             PROVE  /\ RemoveOf(NULL, e) \in Heaps /\ HeldBy[RemoveOf(NULL, e)] = HeldBy[NULL] \ {e}
                    /\ e \notin HeldBy[NULL] /\ RemoveOf(NULL, e) = NULL
  BY DEF RemoveKept
<1>1. RemoveOf(NULL, e) = Remove(NULL, e, Popped, Removed)
  BY HeapAssumption, Zenon DEF HeapCode, RemoveOf
<1>2. RemoveOf(NULL, e) = NULL
  BY <1>1 DEF Remove
<1> QED
  BY <1>2, HeapHeld

LEMMA RemoveAll == \A h \in Heaps : RemoveKept(h)
<1> DEFINE S == {h \in Heaps : RemoveKept(h)}
<1>1. NULL \in S
  BY RemoveNull, HeapHeld
<1>2. \A h \in Heaps : h # NULL /\ h.left \in S /\ h.right \in S => h \in S
  BY RemoveStep
<1>3. Heaps \subseteq S
  <2> HIDE DEF S
  <2> QED
    BY <1>1, <1>2, HeapInduction
<1> QED
  BY <1>3

(***************************************************************************)
(* The contract.                                                           *)
(***************************************************************************)
LEMMA ContractKept == HeapContract
<1>1. HeapHolds(NULL, {})
  BY HeapHeld DEF HeapHolds
<1>2. ASSUME NEW h \in Heaps
      PROVE  /\ HeldBy[h] \subseteq Entry
             /\ \A e \in Entry :
                  /\ (\A f \in HeldBy[h] : f.id # e.id) =>
                       PushOf(h, e) # NULL /\ HeapHolds(PushOf(h, e), HeldBy[h] \cup {e})
                  /\ HeapHolds(RemoveOf(h, e), HeldBy[h] \ {e})
  BY PushAll, RemoveAll, HeapOrder DEF PushKept, RemoveKept, HeapHolds
<1>3. ASSUME NEW h \in Heaps, h # NULL
      PROVE  /\ h.data \in HeldBy[h] /\ \A e \in HeldBy[h] : ~OutRanks(e, h.data)
             /\ HeapHolds(Popped[h], HeldBy[h] \ {h.data})
  <2>1. /\ h.data \in HeldBy[h] /\ HeldBy[h] \subseteq Entry
        /\ \A e \in HeldBy[h] : h.data.time <= e.time
    BY <1>3, HeapOrder
  <2>2. h.data.time \in Nat /\ \A e \in HeldBy[h] : e.time \in Nat
    BY <2>1, Entries, Times
  <2>3. HeapHolds(Popped[h], HeldBy[h] \ {h.data})
    BY <1>3, PopAll DEF PopKept, HeapHolds
  <2> QED
    BY <2>1, <2>2, <2>3 DEF OutRanks
<1> QED
  BY <1>1, <1>2, <1>3, Zenon DEF HeapContract, PushOf, RemoveOf

-----------------------------------------------------------------------------
(***************************************************************************)
(* The heap, as its contract says.                                         *)
(***************************************************************************)
LEMMA HeapTop ==
  ASSUME NEW h \in Heaps
  PROVE  /\ HeldBy[h] \subseteq Entry
         /\ h # NULL => /\ h.data \in HeldBy[h] /\ h.data \in Entry
                        /\ \A e \in HeldBy[h] : h.data.time <= e.time
<1>1. HeldBy[h] \subseteq Entry
  BY ContractKept DEF HeapContract
<1>2. ASSUME h # NULL
      PROVE  h.data \in HeldBy[h] /\ \A e \in HeldBy[h] : ~OutRanks(e, h.data)
  BY <1>2, ContractKept DEF HeapContract
<1>3. ASSUME h # NULL, NEW e \in HeldBy[h] PROVE h.data.time <= e.time
  <2>1. h.data.time \in Nat /\ e.time \in Nat
    BY <1>1, <1>2, <1>3, Entries, Times
  <2> QED
    BY <1>2, <1>3, <2>1 DEF OutRanks
<1> QED
  BY <1>1, <1>2, <1>3

LEMMA HeapPushed ==
  ASSUME NEW h \in Heaps, NEW e \in Entry, \A f \in HeldBy[h] : f.id # e.id
  PROVE  PushOf(h, e) # NULL /\ PushOf(h, e) \in Heaps /\ HeldBy[PushOf(h, e)] = HeldBy[h] \cup {e}
BY ContractKept, Zenon DEF HeapContract, HeapHolds, PushOf

LEMMA HeapRemoved ==
  ASSUME NEW h \in Heaps, NEW e \in Entry
  PROVE  RemoveOf(h, e) \in Heaps /\ HeldBy[RemoveOf(h, e)] = HeldBy[h] \ {e}
BY ContractKept, Zenon DEF HeapContract, HeapHolds, RemoveOf

LEMMA HeapPopped ==
  ASSUME NEW h \in Heaps, h # NULL
  PROVE  Popped[h] \in Heaps /\ HeldBy[Popped[h]] = HeldBy[h] \ {h.data}
BY ContractKept DEF HeapContract, HeapHolds

LEMMA HeapEmpty == NULL \in Heaps /\ HeldBy[NULL] = {}
BY ContractKept DEF HeapContract, HeapHolds

-----------------------------------------------------------------------------
(***************************************************************************)
(* The messages about a delegate: it is pushed once, then removed once.    *)
(***************************************************************************)
IsPush(m, d)   == m.type = "push" /\ m.timer = d
IsRemove(m, d) == m.type = "remove" /\ m.timer = d

PushIn(q, d)   == \E i \in 1..Len(q) : IsPush(q[i], d)
RemoveIn(q, d) == \E i \in 1..Len(q) : IsRemove(q[i], d)
ExpireIn(q)    == \E i \in 1..Len(q) : q[i].type = "expire"

InTurn(q, d) ==
  /\ \A i, j \in 1..Len(q) : IsPush(q[i], d) /\ IsPush(q[j], d) => i = j
  /\ \A i, j \in 1..Len(q) : IsRemove(q[i], d) /\ IsRemove(q[j], d) => i = j
  /\ \A i, j \in 1..Len(q) : IsPush(q[i], d) /\ IsRemove(q[j], d) => i < j

LEMMA Appended ==
  ASSUME NEW S, NEW q \in Seq(S), NEW m \in S
  PROVE  /\ Append(q, m) \in Seq(S) /\ Len(q) \in Nat
         /\ Len(Append(q, m)) = Len(q) + 1 /\ Append(q, m)[Len(q) + 1] = m
         /\ \A i \in 1..Len(q) : Append(q, m)[i] = q[i]
OBVIOUS

LEMMA HeadTail ==
  ASSUME NEW S, NEW q \in Seq(S), q # <<>>
  PROVE  /\ Head(q) \in S /\ Head(q) = q[1] /\ 1 \in 1..Len(q)
         /\ Tail(q) \in Seq(S) /\ Len(q) \in Nat /\ Len(Tail(q)) = Len(q) - 1
         /\ \A i \in 1..(Len(q) - 1) : Tail(q)[i] = q[i + 1]
OBVIOUS

LEMMA Posted ==
  ASSUME NEW q \in Seq(Msg), NEW m \in Msg, NEW d
  PROVE  /\ PushIn(Append(q, m), d) <=> PushIn(q, d) \/ IsPush(m, d)
         /\ RemoveIn(Append(q, m), d) <=> RemoveIn(q, d) \/ IsRemove(m, d)
         /\ ExpireIn(Append(q, m)) <=> ExpireIn(q) \/ m.type = "expire"
         /\ /\ InTurn(q, d)
            /\ IsPush(m, d) => ~PushIn(q, d) /\ ~RemoveIn(q, d)
            /\ IsRemove(m, d) => ~RemoveIn(q, d)
            => InTurn(Append(q, m), d)
<1> DEFINE new == Append(q, m)
           n == Len(q)
<1>1. n \in Nat /\ Len(new) = n + 1 /\ new[n + 1] = m /\ \A k \in 1..n : new[k] = q[k]
  BY Appended
<1> HIDE DEF new, n
<1>2. \A k \in 1..Len(new) : k \in 1..n \/ k = n + 1
  BY <1>1
<1>3. \A k \in 1..n : k \in 1..Len(new) /\ k < n + 1
  BY <1>1
<1>4. n + 1 \in 1..Len(new)
  BY <1>1
<1>5. PushIn(new, d) <=> PushIn(q, d) \/ IsPush(m, d)
  BY <1>1, <1>2, <1>3, <1>4 DEF PushIn, n
<1>6. RemoveIn(new, d) <=> RemoveIn(q, d) \/ IsRemove(m, d)
  BY <1>1, <1>2, <1>3, <1>4 DEF RemoveIn, n
<1>7. ExpireIn(new) <=> ExpireIn(q) \/ m.type = "expire"
  BY <1>1, <1>2, <1>3, <1>4 DEF ExpireIn, n
<1>8. ASSUME InTurn(q, d), IsPush(m, d) => ~PushIn(q, d) /\ ~RemoveIn(q, d),
             IsRemove(m, d) => ~RemoveIn(q, d)
      PROVE  InTurn(new, d)
  <2>1. ~(IsPush(m, d) /\ IsRemove(m, d))
    BY DEF IsPush, IsRemove
  <2>2. \A i \in 1..n : /\ IsPush(m, d) => ~IsPush(q[i], d) /\ ~IsRemove(q[i], d)
                        /\ IsRemove(m, d) => ~IsRemove(q[i], d)
    BY <1>8 DEF PushIn, RemoveIn, n
  <2>3. ASSUME NEW i \in 1..Len(new), NEW j \in 1..Len(new)
        PROVE  /\ IsPush(new[i], d) /\ IsPush(new[j], d) => i = j
               /\ IsRemove(new[i], d) /\ IsRemove(new[j], d) => i = j
               /\ IsPush(new[i], d) /\ IsRemove(new[j], d) => i < j
    <3>1. CASE i \in 1..n /\ j \in 1..n
      BY <1>1, <1>8, <3>1 DEF InTurn, n
    <3>2. CASE i = n + 1 \/ j = n + 1
      BY <1>1, <1>2, <1>3, <2>1, <2>2, <3>2
    <3> QED
      BY <1>2, <3>1, <3>2
  <2> QED
    BY <2>3 DEF InTurn
<1> QED
  BY <1>5, <1>6, <1>7, <1>8 DEF new

LEMMA Taken ==
  ASSUME NEW q \in Seq(Msg), q # <<>>, NEW d
  PROVE  /\ PushIn(q, d) <=> PushIn(Tail(q), d) \/ IsPush(Head(q), d)
         /\ RemoveIn(q, d) <=> RemoveIn(Tail(q), d) \/ IsRemove(Head(q), d)
         /\ ExpireIn(q) <=> ExpireIn(Tail(q)) \/ Head(q).type = "expire"
         /\ InTurn(q, d) =>
              /\ InTurn(Tail(q), d)
              /\ IsPush(Head(q), d) => ~PushIn(Tail(q), d)
              /\ IsRemove(Head(q), d) => ~PushIn(Tail(q), d) /\ ~RemoveIn(Tail(q), d)
<1> DEFINE rest == Tail(q)
           n == Len(q)
           m == Head(q)
<1>1. /\ n \in Nat /\ m = q[1] /\ 1 \in 1..n /\ Len(rest) = n - 1
      /\ \A k \in 1..(n - 1) : rest[k] = q[k + 1]
  BY HeadTail
<1> HIDE DEF rest, n, m
<1>2. \A k \in 1..Len(rest) : rest[k] = q[k + 1] /\ k + 1 \in 1..n /\ k + 1 # 1 /\ ~(k + 1 < 1)
  BY <1>1
<1>3. \A k \in 1..n : k = 1 \/ (k - 1 \in 1..Len(rest) /\ rest[k - 1] = q[k])
  BY <1>1
<1>4. PushIn(q, d) <=> PushIn(rest, d) \/ IsPush(m, d)
  BY <1>1, <1>2, <1>3 DEF PushIn, n
<1>5. RemoveIn(q, d) <=> RemoveIn(rest, d) \/ IsRemove(m, d)
  BY <1>1, <1>2, <1>3 DEF RemoveIn, n
<1>6. ExpireIn(q) <=> ExpireIn(rest) \/ m.type = "expire"
  BY <1>1, <1>2, <1>3 DEF ExpireIn, n
<1>7. ASSUME InTurn(q, d)
      PROVE  /\ InTurn(rest, d)
             /\ IsPush(m, d) => ~PushIn(rest, d)
             /\ IsRemove(m, d) => ~PushIn(rest, d) /\ ~RemoveIn(rest, d)
  <2>1. ASSUME NEW i \in 1..Len(rest), NEW j \in 1..Len(rest)
        PROVE  /\ IsPush(rest[i], d) /\ IsPush(rest[j], d) => i = j
               /\ IsRemove(rest[i], d) /\ IsRemove(rest[j], d) => i = j
               /\ IsPush(rest[i], d) /\ IsRemove(rest[j], d) => i < j
    <3>1. i + 1 = j + 1 => i = j
      OBVIOUS
    <3>2. i + 1 < j + 1 => i < j
      OBVIOUS
    <3> QED
      BY <1>2, <1>7, <3>1, <3>2 DEF InTurn, n
  <2>2. ASSUME NEW i \in 1..Len(rest)
        PROVE  /\ IsPush(m, d) => ~IsPush(rest[i], d)
               /\ IsRemove(m, d) => ~IsPush(rest[i], d) /\ ~IsRemove(rest[i], d)
    BY <1>1, <1>2, <1>7 DEF InTurn, n
  <2> QED
    BY <2>1, <2>2 DEF InTurn, PushIn, RemoveIn
<1> QED
  BY <1>4, <1>5, <1>6, <1>7 DEF rest, m

-----------------------------------------------------------------------------
(***************************************************************************)
(* The inductive invariant: first the delegates, then the alarm.           *)
(***************************************************************************)
\* The delegate that ticks for a timer has it for a client.
Owned ==
  \A t \in Timers : mTimer[t] # NULL => delegate[mTimer[t]] # NULL /\ delegate[mTimer[t]].client = t

\* The heap holds delegates with their times.
InHeap == \A e \in HeldBy[heap] : delegate[e.id] # NULL /\ e.time = delegate[e.id].time

\* A delegate that is not in the heap yet has its push on the way; one that
\* has lost its client, and only such a one, its removal.
InMsgs ==
  \A d \in Delegates :
    /\ InTurn(msgs, d)
    /\ PushIn(msgs, d) => delegate[d] # NULL /\ \A e \in HeldBy[heap] : e.id # d
    /\ RemoveIn(msgs, d) => delegate[d] # NULL /\ delegate[d].client = NULL
    /\ delegate[d] # NULL /\ delegate[d].client = NULL => RemoveIn(msgs, d)

OnItsWay(d, h, q, at) ==
  \/ \E e \in HeldBy[h] : e.id = d
  \/ PushIn(q, d)
  \/ at.pc = "firing" /\ at.timer = d

NotDropped == \A t \in Timers : mTimer[t] # NULL => OnItsWay(mTimer[t], heap, msgs, task)

\* While a delegate is expired it may lose its client, not get another.
Firing ==
  task.pc = "firing" =>
    delegate[task.timer] # NULL /\ delegate[task.timer].client \in {NULL, task.client}

DelegatesInv == Owned /\ InHeap /\ InMsgs /\ NotDropped /\ Firing

Arming == task.pc = "arming" => heap # NULL /\ task.time = heap.data.time

\* An expiry is on its way, at whose end the kernel timer is armed.
Alarm == poll # "waiting" \/ task.pc \in {"expiring", "firing"} \/ ExpireIn(msgs)

Armed ==
  heap # NULL /\ ~Alarm =>
    kernel.polled /\ (task.pc = "idle" => kernel.armed # Never /\ kernel.armed <= heap.data.time)

TimerInv == TypeOK /\ DelegatesInv /\ Arming /\ Armed

LEMMA TimerInit == Init => TimerInv
<1> SUFFICES ASSUME Init PROVE TimerInv
  OBVIOUS
<1>1. /\ now = 0 /\ mTimer = [t \in Timers |-> NULL] /\ delegate = [d \in Delegates |-> NULL]
      /\ heap = NULL /\ msgs = <<>> /\ Len(msgs) = 0
      /\ kernel = [armed |-> Never, polled |-> FALSE] /\ poll = "waiting" /\ task = Idle /\ task.pc = "idle"
  BY DEF Init, Idle
<1>2. heap \in Heaps /\ HeldBy[heap] = {}
  BY <1>1, HeapEmpty
<1>3. \A d : ~PushIn(msgs, d) /\ ~RemoveIn(msgs, d) /\ InTurn(msgs, d)
  BY <1>1 DEF PushIn, RemoveIn, InTurn
<1>4. TypeOK
  BY <1>1, <1>2, TimerAssumption DEF TypeOK, Time
<1>5. DelegatesInv
  BY <1>1, <1>2, <1>3 DEF DelegatesInv, Owned, InHeap, InMsgs, NotDropped, Firing
<1>6. Arming /\ Armed
  BY <1>1 DEF Arming, Armed
<1> QED
  BY <1>4, <1>5, <1>6 DEF TimerInv

-----------------------------------------------------------------------------
(***************************************************************************)
(* Clients start and stop timers.                                          *)
(***************************************************************************)
\* A message of a client leaves the alarm as it is.
LEMMA AlarmKept ==
  ASSUME TimerInv, NEW m \in Msg, m.type # "expire", msgs' = Append(msgs, m),
         UNCHANGED <<heap, kernel, poll, task>>
  PROVE  Arming' /\ Armed'
<1>1. ExpireIn(msgs') <=> ExpireIn(msgs)
  BY Posted DEF TimerInv, TypeOK
<1> QED
  BY <1>1 DEF TimerInv, Arming, Armed, Alarm

LEMMA StartSafe ==
  ASSUME TimerInv, NEW t \in Timers, NEW delay \in Delays, Start(t, delay)
  PROVE  TimerInv'
<1> DEFINE d == CHOOSE d \in Free : TRUE
           m == [type |-> "push", timer |-> d]
           e == [client |-> t, time |-> now + delay]
<1>1. d \in Delegates /\ delegate[d] = NULL
  BY DEF Start, Free
<1>2. /\ mTimer' = [mTimer EXCEPT ![t] = d]
      /\ delegate' = [delegate EXCEPT ![d] = e]
      /\ msgs' = Append(msgs, m)
      /\ UNCHANGED <<now, heap, kernel, poll, task>>
  BY DEF Start
<1> HIDE DEF d
<1>3. now + delay \in Time
  BY TimerAssumption DEF Start, Time, TimerInv, TypeOK
<1>4. e \in Ticking /\ e # NULL /\ e.client = t /\ e.time = now + delay
  BY <1>3, TicksMade
<1>5. m \in Msg /\ m.type = "push" /\ m.timer = d
  BY <1>1 DEF Msg
<1> HIDE DEF m, e
<1>6. /\ delegate'[d] = e /\ \A d2 \in Delegates : d2 # d => delegate'[d2] = delegate[d2]
      /\ mTimer'[t] = d /\ \A t2 \in Timers : t2 # t => mTimer'[t2] = mTimer[t2]
      /\ delegate' \in [Delegates -> Ticking \cup {NULL}]
      /\ mTimer' \in [Timers -> Delegates \cup {NULL}]
      /\ msgs' \in Seq(Msg)
  BY <1>1, <1>2, <1>4, <1>5 DEF TimerInv, TypeOK, Ticking
<1>7. TypeOK'
  BY <1>2, <1>6 DEF TimerInv, TypeOK, Ticking
<1>8. \A t2 \in Timers : mTimer[t2] # NULL => mTimer[t2] \in Delegates /\ mTimer[t2] # d
  BY <1>1 DEF TimerInv, TypeOK, DelegatesInv, Owned
<1>9. \A f \in HeldBy[heap] : f.id # d
  BY <1>1 DEF TimerInv, DelegatesInv, InHeap
<1>10. ~PushIn(msgs, d) /\ ~RemoveIn(msgs, d)
  BY <1>1 DEF TimerInv, DelegatesInv, InMsgs
<1>11. Owned'
  BY <1>4, <1>6, <1>8 DEF TimerInv, DelegatesInv, Owned
<1>12. InHeap'
  <2>1. \A f \in HeldBy[heap] : f.id \in Delegates
    BY HeapTop, Entries DEF TimerInv, TypeOK
  <2> QED
    BY <1>2, <1>6, <1>9, <2>1 DEF TimerInv, DelegatesInv, InHeap
<1>13. ASSUME NEW d2 \in Delegates
       PROVE  /\ PushIn(msgs', d2) <=> PushIn(msgs, d2) \/ d2 = d
              /\ RemoveIn(msgs', d2) <=> RemoveIn(msgs, d2)
              /\ InTurn(msgs', d2)
  <2>1. (IsPush(m, d2) <=> d2 = d) /\ ~IsRemove(m, d2)
    BY <1>5 DEF IsPush, IsRemove
  <2>2. InTurn(msgs, d2) /\ msgs \in Seq(Msg)
    BY DEF TimerInv, TypeOK, DelegatesInv, InMsgs
  <2> QED
    BY <1>2, <1>5, <1>10, <2>1, <2>2, Posted
<1>14. InMsgs'
  <2> SUFFICES ASSUME NEW d2 \in Delegates
               PROVE  /\ InTurn(msgs', d2)
                      /\ PushIn(msgs', d2) => delegate'[d2] # NULL /\ \A f \in HeldBy[heap'] : f.id # d2
                      /\ RemoveIn(msgs', d2) => delegate'[d2] # NULL /\ delegate'[d2].client = NULL
                      /\ delegate'[d2] # NULL /\ delegate'[d2].client = NULL => RemoveIn(msgs', d2)
    BY DEF InMsgs
  <2>1. CASE d2 = d
    BY <1>2, <1>4, <1>6, <1>9, <1>10, <1>13, <2>1, TimerAssumption
  <2>2. CASE d2 # d
    BY <1>2, <1>6, <1>13, <2>2 DEF TimerInv, DelegatesInv, InMsgs
  <2> QED
    BY <2>1, <2>2
<1>15. NotDropped'
  BY <1>1, <1>2, <1>6, <1>8, <1>13 DEF TimerInv, DelegatesInv, NotDropped, OnItsWay
<1>16. Firing'
  BY <1>1, <1>2, <1>6, TaskIs DEF TimerInv, DelegatesInv, Firing
<1> QED
  BY <1>2, <1>5, <1>7, <1>11, <1>12, <1>14, <1>15, <1>16, AlarmKept DEF TimerInv, DelegatesInv

\* What is left to say of a timer that is stopped: who still holds it.
LEMMA Destroyed ==
  ASSUME TimerInv, NEW t \in Timers, Destroy(t), UNCHANGED <<now, heap>>
  PROVE  /\ delegate' \in [Delegates -> Ticking \cup {NULL}]
         /\ mTimer' \in [Timers -> Delegates \cup {NULL}]
         /\ msgs' \in Seq(Msg)
         /\ mTimer'[t] = NULL /\ \A t2 \in Timers : t2 # t => mTimer'[t2] = mTimer[t2]
         /\ Owned' /\ InHeap' /\ InMsgs'
         /\ \A d \in Delegates : /\ PushIn(msgs', d) <=> PushIn(msgs, d)
                                 /\ delegate[d] # NULL =>
                                      /\ delegate'[d] # NULL
                                      /\ delegate'[d].client \in {delegate[d].client, NULL}
         /\ ExpireIn(msgs') <=> ExpireIn(msgs)
<1> DEFINE d == mTimer[t]
           m == [type |-> "remove", timer |-> d]
           e == delegate[d]
           none == [e EXCEPT !.client = NULL]
<1>1. /\ d # NULL /\ mTimer' = [mTimer EXCEPT ![t] = NULL]
      /\ delegate' = [delegate EXCEPT ![d] = none]
      /\ msgs' = Append(msgs, m)
  BY DEF Destroy
<1>2. d \in Delegates /\ delegate[d] # NULL /\ delegate[d].client = t
  BY <1>1 DEF TimerInv, TypeOK, DelegatesInv, Owned
<1>3. e \in Ticking
  BY <1>2, Ticks DEF TimerInv
<1> HIDE DEF e
<1>4. none \in Ticking /\ none # NULL /\ none.client = NULL /\ none.time = delegate[d].time
  BY <1>3, TicksFor DEF e
<1>5. m \in Msg /\ m.type = "remove" /\ m.timer = d
  BY <1>2 DEF Msg
<1> HIDE DEF d, m, none
<1>6. /\ delegate'[d] = none /\ \A d2 \in Delegates : d2 # d => delegate'[d2] = delegate[d2]
      /\ mTimer'[t] = NULL /\ \A t2 \in Timers : t2 # t => mTimer'[t2] = mTimer[t2]
      /\ delegate' \in [Delegates -> Ticking \cup {NULL}]
      /\ mTimer' \in [Timers -> Delegates \cup {NULL}]
      /\ msgs' \in Seq(Msg)
  BY <1>1, <1>2, <1>4, <1>5 DEF TimerInv, TypeOK, Ticking
<1>7. \A t2 \in Timers : t2 # t /\ mTimer[t2] # NULL => mTimer[t2] # d /\ mTimer[t2] \in Delegates
  BY <1>2 DEF TimerInv, TypeOK, DelegatesInv, Owned
<1>8. Owned'
  BY <1>6, <1>7 DEF TimerInv, DelegatesInv, Owned
<1>9. InHeap'
  <2>1. \A f \in HeldBy[heap] : f.id \in Delegates
    BY HeapTop, Entries DEF TimerInv, TypeOK
  <2> QED
    BY <1>2, <1>4, <1>6, <2>1 DEF TimerInv, DelegatesInv, InHeap
<1>10. ~RemoveIn(msgs, d)
  BY <1>2, TimerAssumption DEF TimerInv, DelegatesInv, InMsgs
<1>11. ASSUME NEW d2 \in Delegates
       PROVE  /\ PushIn(msgs', d2) <=> PushIn(msgs, d2)
              /\ RemoveIn(msgs', d2) <=> RemoveIn(msgs, d2) \/ d2 = d
              /\ InTurn(msgs', d2)
  <2>1. (IsRemove(m, d2) <=> d2 = d) /\ ~IsPush(m, d2)
    BY <1>5 DEF IsPush, IsRemove
  <2>2. InTurn(msgs, d2) /\ msgs \in Seq(Msg)
    BY DEF TimerInv, TypeOK, DelegatesInv, InMsgs
  <2> QED
    BY <1>1, <1>5, <1>10, <2>1, <2>2, Posted
<1>12. InMsgs'
  BY <1>2, <1>4, <1>6, <1>11 DEF TimerInv, DelegatesInv, InMsgs
<1>13. ExpireIn(msgs') <=> ExpireIn(msgs)
  BY <1>1, <1>5, Posted DEF TimerInv, TypeOK
<1>14. \A d2 \in Delegates : delegate[d2] # NULL =>
         delegate'[d2] # NULL /\ delegate'[d2].client \in {delegate[d2].client, NULL}
  BY <1>4, <1>6
<1> QED
  BY <1>6, <1>8, <1>9, <1>11, <1>12, <1>13, <1>14

LEMMA StopSafe ==
  ASSUME TimerInv, NEW t \in Timers, Stop(t)
  PROVE  TimerInv'
<1>1. Destroy(t) /\ UNCHANGED <<now, heap, kernel, poll, task>>
  BY DEF Stop
<1>2. TypeOK'
  BY <1>1, Destroyed DEF TimerInv, TypeOK, Ticking
<1>3. Owned' /\ InHeap' /\ InMsgs'
  BY <1>1, Destroyed
<1>4. NotDropped'
  <2> SUFFICES ASSUME NEW u \in Timers, mTimer'[u] # NULL
               PROVE  OnItsWay(mTimer'[u], heap', msgs', task')
    BY DEF NotDropped
  <2>1. u # t /\ mTimer'[u] = mTimer[u] /\ mTimer[u] \in Delegates
    BY <1>1, Destroyed DEF TimerInv, TypeOK
  <2>2. OnItsWay(mTimer[u], heap, msgs, task)
    BY <2>1 DEF TimerInv, DelegatesInv, NotDropped
  <2>3. PushIn(msgs', mTimer[u]) <=> PushIn(msgs, mTimer[u])
    BY <1>1, <2>1, Destroyed
  <2> QED
    BY <1>1, <2>1, <2>2, <2>3 DEF OnItsWay
<1>5. Firing'
  BY <1>1, Destroyed, TaskIs DEF TimerInv, DelegatesInv, Firing
<1>6. ExpireIn(msgs') <=> ExpireIn(msgs)
  BY <1>1, Destroyed
<1>7. Arming' /\ Armed'
  BY <1>1, <1>6 DEF TimerInv, Arming, Armed, Alarm
<1> QED
  BY <1>2, <1>3, <1>4, <1>5, <1>7 DEF TimerInv, DelegatesInv

-----------------------------------------------------------------------------
(***************************************************************************)
(* The poll thread, and the clock.                                         *)
(***************************************************************************)
\* A step that leaves the delegates alone, and adds no message about them.
LEMMA DelegatesKept ==
  ASSUME TimerInv, UNCHANGED <<mTimer, delegate, heap, task>>,
         msgs' = msgs \/ \E m \in Msg : m.type = "expire" /\ msgs' = Append(msgs, m)
  PROVE  DelegatesInv'
<1>1. ASSUME NEW d \in Delegates
      PROVE  /\ PushIn(msgs', d) <=> PushIn(msgs, d)
             /\ RemoveIn(msgs', d) <=> RemoveIn(msgs, d)
             /\ InTurn(msgs', d)
  <2>1. InTurn(msgs, d) /\ msgs \in Seq(Msg)
    BY DEF TimerInv, TypeOK, DelegatesInv, InMsgs
  <2>2. CASE msgs' = msgs
    BY <2>1, <2>2
  <2>3. ASSUME NEW m \in Msg, m.type = "expire", msgs' = Append(msgs, m)
        PROVE  /\ PushIn(msgs', d) <=> PushIn(msgs, d)
               /\ RemoveIn(msgs', d) <=> RemoveIn(msgs, d)
               /\ InTurn(msgs', d)
    <3>1. ~IsPush(m, d) /\ ~IsRemove(m, d)
      BY <2>3 DEF IsPush, IsRemove
    <3> QED
      BY <2>1, <2>3, <3>1, Posted
  <2> QED
    BY <2>2, <2>3
<1>2. InMsgs'
  BY <1>1 DEF TimerInv, DelegatesInv, InMsgs
<1>3. NotDropped'
  <2> SUFFICES ASSUME NEW t \in Timers, mTimer[t] # NULL
               PROVE  OnItsWay(mTimer[t], heap, msgs', task)
    BY DEF NotDropped
  <2>1. mTimer[t] \in Delegates /\ OnItsWay(mTimer[t], heap, msgs, task)
    BY DEF TimerInv, TypeOK, DelegatesInv, NotDropped
  <2> QED
    BY <1>1, <2>1 DEF OnItsWay
<1> QED
  BY <1>2, <1>3 DEF TimerInv, DelegatesInv, Owned, InHeap, Firing

LEMMA PollSafe ==
  ASSUME TimerInv, PollTask
  PROVE  TimerInv'
<1>1. UNCHANGED <<now, mTimer, delegate, heap, task>>
  BY DEF PollTask, PollWait, PollExpire
<1> DEFINE m == [type |-> "expire"]
<1>2. m \in Msg /\ m.type = "expire"
  BY DEF Msg
<1> HIDE DEF m
<1>3. \/ poll' \in {"disarming", "posting"} /\ msgs' = msgs
      \/ poll' = "waiting" /\ msgs' = Append(msgs, m)
  BY DEF PollTask, PollWait, PollExpire, m
<1>4. msgs' \in Seq(Msg) /\ kernel' \in [armed : Time \cup {Never}, polled : BOOLEAN]
  <2>1. msgs' \in Seq(Msg)
    BY <1>2, <1>3, Appended DEF TimerInv, TypeOK
  <2>2. kernel \in [armed : Time \cup {Never}, polled : BOOLEAN]
    BY DEF TimerInv, TypeOK
  <2>3. \/ kernel' = kernel \/ kernel' = [kernel EXCEPT !.armed = Never]
        \/ kernel' = [kernel EXCEPT !.polled = FALSE]
    BY DEF PollTask, PollWait, PollExpire
  <2> QED
    BY <2>1, <2>2, <2>3
<1>5. TypeOK'
  BY <1>1, <1>3, <1>4 DEF TimerInv, TypeOK
<1>6. DelegatesInv'
  BY <1>1, <1>2, <1>3, DelegatesKept
<1>7. Alarm'
  <2>1. CASE poll' # "waiting"
    BY <2>1 DEF Alarm
  <2>2. CASE msgs' = Append(msgs, m)
    BY <1>2, <2>2, Posted DEF Alarm, TimerInv, TypeOK
  <2> QED
    BY <1>3, <2>1, <2>2
<1>8. Arming' /\ Armed'
  BY <1>1, <1>7 DEF TimerInv, Arming, Armed
<1> QED
  BY <1>5, <1>6, <1>8 DEF TimerInv

LEMMA TickSafe ==
  ASSUME TimerInv, Tick
  PROVE  TimerInv'
<1>1. UNCHANGED <<mTimer, delegate, heap, msgs, kernel, poll, task>> /\ now' \in Time
  BY TimerAssumption DEF Tick, TimerInv, TypeOK, Time
<1>2. TypeOK'
  BY <1>1 DEF TimerInv, TypeOK
<1>3. DelegatesInv'
  BY <1>1, DelegatesKept
<1> QED
  BY <1>1, <1>2, <1>3 DEF TimerInv, Arming, Armed, Alarm

-----------------------------------------------------------------------------
(***************************************************************************)
(* The MsgTask thread.                                                     *)
(***************************************************************************)
\* The thread takes a message, which is about one delegate at most.
LEMMA Handled ==
  ASSUME TimerInv, NEW type, Handle(type)
  PROVE  /\ task = Idle /\ task.pc = "idle" /\ msgs \in Seq(Msg) /\ msgs # <<>> /\ msgs' = Tail(msgs)
         /\ Head(msgs) \in Msg /\ Head(msgs).type = type /\ msgs' \in Seq(Msg)
         /\ type # "expire" => Head(msgs).timer \in Delegates
<1>1. task = Idle /\ msgs \in Seq(Msg) /\ msgs # <<>> /\ msgs' = Tail(msgs) /\ Head(msgs).type = type
  BY DEF Handle, TimerInv, TypeOK
<1>2. Head(msgs) \in Msg /\ msgs' \in Seq(Msg)
  BY <1>1, HeadTail
<1>3. type # "expire" => Head(msgs).timer \in Delegates
  BY <1>1, <1>2 DEF Msg
<1>4. task.pc = "idle"
  BY <1>1 DEF Idle
<1> QED
  BY <1>1, <1>2, <1>3, <1>4

\* Whatever the heap has become: the kernel timer is armed for its top if it
\* was, or if that top is not new.
LEMMA Updated ==
  ASSUME TimerInv, heap' \in Heaps, NEW isNew \in BOOLEAN, UpdateSoonestTime(heap', isNew),
         ~isNew /\ heap' # NULL => heap # NULL /\ (~Alarm' => ~Alarm)
                                   /\ task.pc = "idle" /\ heap.data.time <= heap'.data.time
  PROVE  /\ kernel' \in [armed : Time \cup {Never}, polled : BOOLEAN]
         /\ task' \in {Idle} \cup [pc : {"arming"}, time : Time]
         /\ task'.pc \in {"idle", "arming"}
         /\ Arming' /\ Armed'
<1>1. kernel \in [armed : Time \cup {Never}, polled : BOOLEAN] /\ heap \in Heaps
  BY DEF TimerInv, TypeOK
<1>2. CASE heap' # NULL /\ isNew
  <2>1. kernel' = [kernel EXCEPT !.polled = TRUE] /\ task' = [pc |-> "arming", time |-> heap'.data.time]
    BY <1>2 DEF UpdateSoonestTime
  <2>2. heap'.data.time \in Time
    BY <1>2, HeapTop, Entries
  <2>3. /\ kernel' \in [armed : Time \cup {Never}, polled : BOOLEAN] /\ kernel'.polled
        /\ task' \in [pc : {"arming"}, time : Time] /\ task'.pc = "arming" /\ task'.time = heap'.data.time
    BY <1>1, <2>1, <2>2
  <2> QED
    BY <1>2, <2>3 DEF Arming, Armed
<1>3. CASE ~(heap' # NULL /\ isNew)
  <2>1. kernel' = kernel /\ task' = Idle /\ task'.pc = "idle"
    BY <1>3 DEF UpdateSoonestTime, Idle
  <2>2. Arming'
    BY <2>1 DEF Arming
  <2>3. ASSUME heap' # NULL, ~Alarm'
        PROVE  kernel.polled /\ kernel.armed # Never /\ kernel.armed <= heap'.data.time
    <3>1. kernel.polled /\ kernel.armed # Never /\ kernel.armed <= heap.data.time
          /\ heap # NULL /\ heap.data.time <= heap'.data.time
      BY <1>3, <2>3 DEF TimerInv, Armed
    <3>2. heap.data.time \in Nat /\ heap'.data.time \in Nat /\ kernel.armed \in Nat
      BY <1>1, <2>3, <3>1, HeapTop, Entries, Times
    <3> QED
      BY <3>1, <3>2
  <2>4. Armed'
    BY <2>1, <2>3 DEF Armed
  <2> QED
    BY <1>1, <2>1, <2>2, <2>4
<1> QED
  BY <1>2, <1>3

LEMMA ProcPushSafe ==
  ASSUME TimerInv, ProcPush
  PROVE  TimerInv'
<1> DEFINE d == Head(msgs).timer
           isNew == heap = NULL \/ OutRanks(heap'.data, heap.data)
<1>1. /\ task = Idle /\ task.pc = "idle" /\ msgs \in Seq(Msg) /\ msgs # <<>> /\ msgs' = Tail(msgs)
      /\ Head(msgs) \in Msg /\ Head(msgs).type = "push" /\ d \in Delegates /\ msgs' \in Seq(Msg)
  <2>1. Handle("push")
    BY Zenon DEF ProcPush
  <2> QED
    BY <2>1, Handled
<1>2. heap' = PushOf(heap, Ranked(d)) /\ UpdateSoonestTime(heap', isNew) /\ UNCHANGED <<now, mTimer, delegate, poll>>
  BY Zenon DEF ProcPush, PushOf
<1>3. \A d2 : (IsPush(Head(msgs), d2) <=> d2 = d) /\ ~IsRemove(Head(msgs), d2)
  BY <1>1 DEF IsPush, IsRemove
<1> HIDE DEF d, isNew
<1>4. PushIn(msgs, d)
  BY <1>1, <1>3, Taken
<1>5. delegate[d] # NULL /\ \A e \in HeldBy[heap] : e.id # d
  BY <1>1, <1>4 DEF TimerInv, DelegatesInv, InMsgs
<1>6. /\ Ranked(d) \in Entry /\ Ranked(d).id = d /\ Ranked(d).time = delegate[d].time /\ heap \in Heaps
      /\ HeldBy[heap] \subseteq Entry
  BY <1>1, <1>5, Ticks, HeapTop DEF TimerInv, TypeOK
<1>7. heap' # NULL /\ heap' \in Heaps /\ HeldBy[heap'] = HeldBy[heap] \cup {Ranked(d)}
  BY <1>2, <1>5, <1>6, HeapPushed
<1>8. ASSUME NEW d2 \in Delegates
      PROVE  /\ PushIn(msgs, d2) => PushIn(msgs', d2) \/ d2 = d
             /\ PushIn(msgs', d2) => PushIn(msgs, d2) /\ d2 # d
             /\ RemoveIn(msgs', d2) <=> RemoveIn(msgs, d2)
             /\ InTurn(msgs', d2)
  <2>1. InTurn(msgs, d2)
    BY DEF TimerInv, DelegatesInv, InMsgs
  <2> QED
    BY <1>1, <1>3, <2>1, Taken
<1>9. \A e \in HeldBy[heap'] : e \in HeldBy[heap] \/ (e.id = d /\ e.time = delegate[d].time)
  BY <1>6, <1>7
<1>10. InHeap'
  BY <1>2, <1>5, <1>9 DEF TimerInv, DelegatesInv, InHeap
<1>11. InMsgs'
  BY <1>2, <1>8, <1>9 DEF TimerInv, DelegatesInv, InMsgs
<1>12. NotDropped'
  <2> SUFFICES ASSUME NEW t \in Timers, mTimer[t] # NULL
               PROVE  OnItsWay(mTimer[t], heap', msgs', task')
    BY <1>2 DEF NotDropped
  <2>1. mTimer[t] \in Delegates /\ OnItsWay(mTimer[t], heap, msgs, task)
    BY DEF TimerInv, TypeOK, DelegatesInv, NotDropped
  <2>2. \E e \in HeldBy[heap'] : e.id = d
    BY <1>6, <1>7
  <2> QED
    BY <1>1, <1>7, <1>8, <2>1, <2>2 DEF OnItsWay
<1>13. ExpireIn(msgs') <=> ExpireIn(msgs)
  BY <1>1, Taken
<1>14. /\ kernel' \in [armed : Time \cup {Never}, polled : BOOLEAN]
       /\ task' \in {Idle} \cup [pc : {"arming"}, time : Time]
       /\ task'.pc \in {"idle", "arming"}
       /\ Arming' /\ Armed'
  <2>1. isNew \in BOOLEAN
    BY DEF isNew
  <2>2. ~isNew => heap # NULL /\ heap.data.time <= heap'.data.time
    <3>1. heap'.data \in Entry /\ (heap # NULL => heap.data \in Entry)
      BY <1>6, <1>7, HeapTop
    <3>2. heap'.data.time \in Nat /\ (heap # NULL => heap.data.time \in Nat)
      BY <3>1, Entries, Times
    <3> QED
      BY <3>2 DEF isNew, OutRanks
  <2>3. ~Alarm' => ~Alarm
    BY <1>1, <1>2, <1>13 DEF Alarm
  <2> QED
    BY <1>1, <1>2, <1>7, <2>1, <2>2, <2>3, Updated
<1>15. TypeOK'
  BY <1>1, <1>2, <1>7, <1>14 DEF TimerInv, TypeOK
<1>16. Owned' /\ Firing'
  BY <1>2, <1>14 DEF TimerInv, DelegatesInv, Owned, Firing
<1> QED
  BY <1>10, <1>11, <1>12, <1>14, <1>15, <1>16 DEF TimerInv, DelegatesInv

LEMMA ProcRemoveSafe ==
  ASSUME TimerInv, ProcRemove
  PROVE  TimerInv'
<1> DEFINE d == Head(msgs).timer
           isNew == heap # NULL /\ heap.data = Ranked(d)
<1>1. /\ task = Idle /\ task.pc = "idle" /\ msgs \in Seq(Msg) /\ msgs # <<>> /\ msgs' = Tail(msgs)
      /\ Head(msgs) \in Msg /\ Head(msgs).type = "remove" /\ d \in Delegates /\ msgs' \in Seq(Msg)
  <2>1. Handle("remove")
    BY Zenon DEF ProcRemove
  <2> QED
    BY <2>1, Handled
<1>2. /\ heap' = RemoveOf(heap, Ranked(d)) /\ UpdateSoonestTime(heap', isNew)
      /\ delegate' = [delegate EXCEPT ![d] = NULL] /\ UNCHANGED <<now, mTimer, poll>>
  BY Zenon DEF ProcRemove, RemoveOf
<1>3. \A d2 : (IsRemove(Head(msgs), d2) <=> d2 = d) /\ ~IsPush(Head(msgs), d2)
  BY <1>1 DEF IsPush, IsRemove
<1> HIDE DEF d, isNew
<1>4. RemoveIn(msgs, d)
  BY <1>1, <1>3, Taken
<1>5. delegate[d] # NULL /\ delegate[d].client = NULL
  BY <1>1, <1>4 DEF TimerInv, DelegatesInv, InMsgs
<1>6. /\ Ranked(d) \in Entry /\ heap \in Heaps /\ HeldBy[heap] \subseteq Entry
      /\ Ranked(d) = [id |-> d, time |-> delegate[d].time]
  BY <1>1, <1>5, Ticks, HeapTop DEF TimerInv, TypeOK, Ranked
<1>7. heap' \in Heaps /\ HeldBy[heap'] = HeldBy[heap] \ {Ranked(d)}
  BY <1>2, <1>6, HeapRemoved
<1>8. ASSUME NEW d2 \in Delegates
      PROVE  /\ PushIn(msgs', d2) <=> PushIn(msgs, d2) /\ d2 # d
             /\ RemoveIn(msgs', d2) <=> RemoveIn(msgs, d2) /\ d2 # d
             /\ InTurn(msgs', d2)
  <2>1. InTurn(msgs, d2)
    BY DEF TimerInv, DelegatesInv, InMsgs
  <2>2. CASE d2 = d
    BY <1>1, <1>3, <2>1, <2>2, Taken
  <2>3. CASE d2 # d
    BY <1>1, <1>3, <2>1, <2>3, Taken
  <2> QED
    BY <2>2, <2>3
<1>9. /\ \A e \in HeldBy[heap] : e.id # d <=> e \in HeldBy[heap']
      /\ \A e \in HeldBy[heap'] : e \in HeldBy[heap] /\ e.id # d /\ e.id \in Delegates
  <2>1. ASSUME NEW e \in HeldBy[heap], e.id = d PROVE e = Ranked(d)
    <3>1. e = [id |-> e.id, time |-> e.time] /\ e.time = delegate[d].time
      BY <1>6, <2>1, Entries DEF TimerInv, DelegatesInv, InHeap
    <3> QED
      BY <1>6, <2>1, <3>1
  <2>2. Ranked(d).id = d
    BY <1>6
  <2> QED
    BY <1>6, <1>7, <2>1, <2>2, Entries
<1>10. /\ delegate'[d] = NULL /\ \A d2 \in Delegates : d2 # d => delegate'[d2] = delegate[d2]
       /\ delegate' \in [Delegates -> Ticking \cup {NULL}]
  BY <1>1, <1>2 DEF TimerInv, TypeOK, Ticking
<1>11. \A t \in Timers : mTimer[t] # NULL => mTimer[t] \in Delegates /\ mTimer[t] # d
  BY <1>5, TimerAssumption DEF TimerInv, TypeOK, DelegatesInv, Owned
<1>12. Owned'
  BY <1>2, <1>10, <1>11 DEF TimerInv, DelegatesInv, Owned
<1>13. InHeap'
  BY <1>9, <1>10 DEF TimerInv, DelegatesInv, InHeap
<1>14. InMsgs'
  <2> SUFFICES ASSUME NEW d2 \in Delegates
               PROVE  /\ InTurn(msgs', d2)
                      /\ PushIn(msgs', d2) => delegate'[d2] # NULL /\ \A f \in HeldBy[heap'] : f.id # d2
                      /\ RemoveIn(msgs', d2) => delegate'[d2] # NULL /\ delegate'[d2].client = NULL
                      /\ delegate'[d2] # NULL /\ delegate'[d2].client = NULL => RemoveIn(msgs', d2)
    BY DEF InMsgs
  <2>1. CASE d2 = d
    BY <1>8, <1>10, <2>1
  <2>2. CASE d2 # d
    BY <1>8, <1>9, <1>10, <2>2 DEF TimerInv, DelegatesInv, InMsgs
  <2> QED
    BY <2>1, <2>2
<1>15. NotDropped'
  <2> SUFFICES ASSUME NEW t \in Timers, mTimer[t] # NULL
               PROVE  OnItsWay(mTimer[t], heap', msgs', task')
    BY <1>2 DEF NotDropped
  <2>1. OnItsWay(mTimer[t], heap, msgs, task)
    BY DEF TimerInv, DelegatesInv, NotDropped
  <2> QED
    BY <1>1, <1>8, <1>9, <1>11, <2>1 DEF OnItsWay
<1>16. ExpireIn(msgs') <=> ExpireIn(msgs)
  BY <1>1, Taken
<1>17. /\ kernel' \in [armed : Time \cup {Never}, polled : BOOLEAN]
       /\ task' \in {Idle} \cup [pc : {"arming"}, time : Time]
       /\ task'.pc \in {"idle", "arming"}
       /\ Arming' /\ Armed'
  <2>1. isNew \in BOOLEAN
    BY DEF isNew
  <2>2. heap' # NULL => heap # NULL /\ heap.data.time <= heap'.data.time
    <3> SUFFICES ASSUME heap' # NULL PROVE heap # NULL /\ heap.data.time <= heap'.data.time
      OBVIOUS
    <3>1. heap'.data \in HeldBy[heap]
      BY <1>7, HeapTop
    <3>2. heap # NULL
      BY <3>1, HeapEmpty
    <3> QED
      BY <1>6, <3>1, <3>2, HeapTop
  <2>3. ~Alarm' => ~Alarm
    BY <1>1, <1>2, <1>16 DEF Alarm
  <2> QED
    BY <1>1, <1>2, <1>7, <2>1, <2>2, <2>3, Updated
<1>18. TypeOK'
  BY <1>1, <1>2, <1>7, <1>10, <1>17 DEF TimerInv, TypeOK, Ticking
<1>19. Firing'
  BY <1>17 DEF Firing
<1> QED
  BY <1>12, <1>13, <1>14, <1>15, <1>17, <1>18, <1>19 DEF TimerInv, DelegatesInv

\* The top is popped, and is now what is expired.
LEMMA FireSafe ==
  ASSUME TimerInv, heap # NULL, NEW time \in Time, Fire(time), task.pc # "firing",
         UNCHANGED <<now, mTimer, delegate, kernel, poll>>,
         msgs' = msgs \/ (msgs # <<>> /\ Head(msgs).type = "expire" /\ msgs' = Tail(msgs))
  PROVE  TimerInv'
<1> DEFINE d == heap.data.id
<1>1. /\ heap' = Popped[heap]
      /\ task' = [pc |-> "firing", time |-> time, timer |-> d, client |-> delegate[d].client]
  BY DEF Fire
<1>2. heap \in Heaps /\ heap.data \in HeldBy[heap] /\ d \in Delegates /\ HeldBy[heap] \subseteq Entry
  BY HeapTop, Entries DEF TimerInv, TypeOK
<1> HIDE DEF d
<1>3. delegate[d] # NULL /\ delegate[d].client \in Timers \cup {NULL}
  BY <1>2, Ticks DEF TimerInv, DelegatesInv, InHeap, d
<1>4. heap' \in Heaps /\ HeldBy[heap'] = HeldBy[heap] \ {heap.data}
  BY <1>1, <1>2, HeapPopped
<1>5. ASSUME NEW d2 \in Delegates
      PROVE  /\ PushIn(msgs', d2) <=> PushIn(msgs, d2)
             /\ RemoveIn(msgs', d2) <=> RemoveIn(msgs, d2)
             /\ InTurn(msgs', d2)
  <2>1. InTurn(msgs, d2) /\ msgs \in Seq(Msg)
    BY DEF TimerInv, TypeOK, DelegatesInv, InMsgs
  <2>2. CASE msgs' = msgs
    BY <2>1, <2>2
  <2>3. CASE msgs # <<>> /\ Head(msgs).type = "expire" /\ msgs' = Tail(msgs)
    <3>1. ~IsPush(Head(msgs), d2) /\ ~IsRemove(Head(msgs), d2)
      BY <2>3 DEF IsPush, IsRemove
    <3> QED
      BY <2>1, <2>3, <3>1, Taken
  <2> QED
    BY <2>2, <2>3
<1>6. msgs' \in Seq(Msg)
  <2>1. msgs \in Seq(Msg)
    BY DEF TimerInv, TypeOK
  <2>2. msgs # <<>> => Tail(msgs) \in Seq(Msg)
    BY <2>1, HeadTail
  <2> QED
    BY <2>1, <2>2
<1>7. /\ task' \in [pc : {"firing"}, time : Time, timer : Delegates, client : Timers \cup {NULL}]
      /\ task'.pc = "firing" /\ task'.timer = d /\ task'.client = delegate[d].client
  BY <1>1, <1>2, <1>3
<1>8. TypeOK'
  BY <1>4, <1>6, <1>7 DEF TimerInv, TypeOK
<1>9. InMsgs'
  BY <1>4, <1>5 DEF TimerInv, DelegatesInv, InMsgs
<1>10. Owned' /\ InHeap' /\ Firing'
  BY <1>3, <1>4, <1>7 DEF TimerInv, DelegatesInv, Owned, InHeap, Firing
<1>11. NotDropped'
  <2> SUFFICES ASSUME NEW t \in Timers, mTimer[t] # NULL
               PROVE  OnItsWay(mTimer[t], heap', msgs', task')
    BY DEF NotDropped
  <2>1. mTimer[t] \in Delegates /\ OnItsWay(mTimer[t], heap, msgs, task)
    BY DEF TimerInv, TypeOK, DelegatesInv, NotDropped
  <2>2. \A e \in HeldBy[heap] : e \in HeldBy[heap'] \/ e.id = d
    BY <1>4 DEF d
  <2> QED
    BY <1>5, <1>7, <2>1, <2>2 DEF OnItsWay
<1>12. Arming' /\ Armed'
  BY <1>7 DEF Arming, Armed, Alarm
<1> QED
  BY <1>8, <1>9, <1>10, <1>11, <1>12 DEF TimerInv, DelegatesInv

LEMMA PopNextSafe ==
  ASSUME TimerInv, PopNext
  PROVE  TimerInv'
<1>1. heap # NULL /\ task.pc = "expiring" /\ task.time \in Time
  BY TaskIs DEF PopNext, Expired, TimerInv
<1> QED
  BY <1>1, FireSafe DEF PopNext

LEMMA ProcExpireSafe ==
  ASSUME TimerInv, ProcExpire
  PROVE  TimerInv'
<1>1. /\ task = Idle /\ task.pc = "idle" /\ msgs \in Seq(Msg) /\ msgs # <<>> /\ msgs' = Tail(msgs)
      /\ Head(msgs).type = "expire" /\ msgs' \in Seq(Msg)
      /\ UNCHANGED <<now, mTimer, delegate, kernel, poll>> /\ now \in Time
  BY Handled DEF ProcExpire, TimerInv, TypeOK
<1>2. CASE heap # NULL
  BY <1>1, <1>2, FireSafe DEF ProcExpire
<1>3. CASE heap = NULL
  <2>1. heap' = NULL /\ heap' = heap /\ task' = task
    BY <1>3 DEF ProcExpire
  <2>2. TypeOK'
    BY <1>1, <2>1 DEF TimerInv, TypeOK
  <2>3. ASSUME NEW d \in Delegates
        PROVE  /\ PushIn(msgs', d) <=> PushIn(msgs, d)
               /\ RemoveIn(msgs', d) <=> RemoveIn(msgs, d)
               /\ InTurn(msgs', d)
    <3>1. InTurn(msgs, d) /\ ~IsPush(Head(msgs), d) /\ ~IsRemove(Head(msgs), d)
      BY <1>1 DEF TimerInv, DelegatesInv, InMsgs, IsPush, IsRemove
    <3> QED
      BY <1>1, <3>1, Taken
  <2>4. InMsgs'
    BY <1>1, <2>1, <2>3 DEF TimerInv, DelegatesInv, InMsgs
  <2>5. NotDropped'
    <3> SUFFICES ASSUME NEW t \in Timers, mTimer[t] # NULL
                 PROVE  OnItsWay(mTimer[t], heap, msgs', task)
      BY <1>1, <2>1 DEF NotDropped
    <3>1. mTimer[t] \in Delegates /\ OnItsWay(mTimer[t], heap, msgs, task)
      BY DEF TimerInv, TypeOK, DelegatesInv, NotDropped
    <3> QED
      BY <2>3, <3>1 DEF OnItsWay
  <2>6. Owned' /\ InHeap' /\ Firing' /\ Arming' /\ Armed'
    BY <1>1, <2>1 DEF TimerInv, DelegatesInv, Owned, InHeap, Firing, Arming, Armed
  <2> QED
    BY <2>2, <2>4, <2>5, <2>6 DEF TimerInv, DelegatesInv
<1> QED
  BY <1>2, <1>3

\* The thread goes on to something that expires no delegate.
LEMMA NotFiring ==
  ASSUME TimerInv, task.pc # "firing", task'.pc # "firing", UNCHANGED <<mTimer, delegate, heap, msgs>>
  PROVE  DelegatesInv'
<1>1. NotDropped'
  BY DEF TimerInv, DelegatesInv, NotDropped, OnItsWay
<1> QED
  BY <1>1 DEF TimerInv, DelegatesInv, Owned, InHeap, InMsgs, Firing

LEMMA ArmSafe ==
  ASSUME TimerInv, ArmTimer
  PROVE  TimerInv'
<1>1. /\ task.pc = "arming" /\ task' = Idle /\ task'.pc = "idle" /\ heap # NULL /\ task.time = heap.data.time
      /\ kernel' = [kernel EXCEPT !.armed = task.time] /\ UNCHANGED <<now, mTimer, delegate, heap, msgs, poll>>
  BY DEF ArmTimer, Idle, TimerInv, Arming
<1>2. task.time \in Time /\ kernel \in [armed : Time \cup {Never}, polled : BOOLEAN]
  BY <1>1, TaskIs DEF TimerInv, TypeOK
<1>3. /\ kernel' \in [armed : Time \cup {Never}, polled : BOOLEAN]
      /\ kernel'.armed = task.time /\ kernel'.polled = kernel.polled
  BY <1>1, <1>2
<1>4. TypeOK'
  BY <1>1, <1>3 DEF TimerInv, TypeOK
<1>5. DelegatesInv'
  BY <1>1, NotFiring
<1>6. Arming'
  BY <1>1 DEF Arming
<1>7. Armed'
  <2>1. kernel'.armed # Never /\ kernel'.armed <= heap.data.time
    BY <1>1, <1>2, <1>3, Times
  <2>2. ~Alarm' => ~Alarm
    BY <1>1 DEF Alarm
  <2> QED
    BY <1>1, <1>3, <2>1, <2>2 DEF TimerInv, Armed
<1> QED
  BY <1>4, <1>5, <1>6, <1>7 DEF TimerInv

LEMMA ExpireEndsSafe ==
  ASSUME TimerInv, ExpireEnds
  PROVE  TimerInv'
<1>1. /\ task.pc = "expiring" /\ UpdateSoonestTime(heap', TRUE) /\ heap' \in Heaps
      /\ UNCHANGED <<now, mTimer, delegate, heap, msgs, poll>>
  BY DEF ExpireEnds, TimerInv, TypeOK
<1>2. /\ kernel' \in [armed : Time \cup {Never}, polled : BOOLEAN]
      /\ task' \in {Idle} \cup [pc : {"arming"}, time : Time]
      /\ task'.pc \in {"idle", "arming"}
      /\ Arming' /\ Armed'
  BY <1>1, Updated
<1>3. TypeOK'
  BY <1>1, <1>2 DEF TimerInv, TypeOK
<1>4. DelegatesInv'
  BY <1>1, <1>2, NotFiring
<1> QED
  BY <1>2, <1>3, <1>4 DEF TimerInv

\* A timer whose delegate is expired has been stopped, or is stopped now.
LEMMA CallBackSafe ==
  ASSUME TimerInv, CallBack
  PROVE  TimerInv'
<1> DEFINE c == task.client
<1>1. /\ task.pc = "firing" /\ task' = [pc |-> "expiring", time |-> task.time]
      /\ UNCHANGED <<now, heap, kernel, poll>>
  BY DEF CallBack
<1>2. /\ task.time \in Time /\ task.timer \in Delegates /\ c \in Timers \cup {NULL}
      /\ delegate[task.timer] # NULL /\ delegate[task.timer].client \in {NULL, c}
  BY <1>1, TaskIs DEF TimerInv, DelegatesInv, Firing
<1>3. task' \in [pc : {"arming", "expiring"}, time : Time] /\ task'.pc = "expiring"
  BY <1>1, <1>2
<1> HIDE DEF c
<1>4. Arming' /\ Armed' /\ Firing'
  BY <1>3 DEF Arming, Armed, Alarm, Firing
<1>5. \A t \in Timers : mTimer[t] = task.timer => t = c /\ mTimer[t] # NULL
  BY <1>2, TimerAssumption DEF TimerInv, DelegatesInv, Owned
<1>6. CASE c # NULL /\ mTimer[c] # NULL
  <2>1. c \in Timers /\ Destroy(c)
    BY <1>2, <1>6 DEF CallBack, c
  <2>2. Owned' /\ InHeap' /\ InMsgs'
    BY <1>1, <2>1, Destroyed
  <2>3. TypeOK'
    BY <1>1, <1>3, <2>1, Destroyed DEF TimerInv, TypeOK, Ticking
  <2>4. NotDropped'
    <3> SUFFICES ASSUME NEW t \in Timers, mTimer'[t] # NULL
                 PROVE  OnItsWay(mTimer'[t], heap', msgs', task')
      BY DEF NotDropped
    <3>1. t # c /\ mTimer'[t] = mTimer[t] /\ mTimer[t] \in Delegates
      BY <1>1, <2>1, Destroyed DEF TimerInv, TypeOK
    <3>2. OnItsWay(mTimer[t], heap, msgs, task) /\ mTimer[t] # task.timer
      BY <1>5, <3>1 DEF TimerInv, DelegatesInv, NotDropped
    <3>3. PushIn(msgs', mTimer[t]) <=> PushIn(msgs, mTimer[t])
      BY <1>1, <2>1, <3>1, Destroyed
    <3> QED
      BY <1>1, <3>1, <3>2, <3>3 DEF OnItsWay
  <2> QED
    BY <1>4, <2>2, <2>3, <2>4 DEF TimerInv, DelegatesInv
<1>7. CASE ~(c # NULL /\ mTimer[c] # NULL)
  <2>1. UNCHANGED <<mTimer, delegate, msgs>>
    BY <1>7 DEF CallBack, c
  <2>2. TypeOK'
    BY <1>1, <1>3, <2>1 DEF TimerInv, TypeOK
  <2>3. NotDropped'
    <3> SUFFICES ASSUME NEW t \in Timers, mTimer[t] # NULL
                 PROVE  OnItsWay(mTimer[t], heap, msgs, task')
      BY <1>1, <2>1 DEF NotDropped
    <3>1. OnItsWay(mTimer[t], heap, msgs, task)
      BY DEF TimerInv, DelegatesInv, NotDropped
    <3>2. mTimer[t] # task.timer
      BY <1>2, <1>5, <1>7, TimerAssumption
    <3> QED
      BY <3>1, <3>2 DEF OnItsWay
  <2>4. Owned' /\ InHeap' /\ InMsgs'
    BY <1>1, <2>1 DEF TimerInv, DelegatesInv, Owned, InHeap, InMsgs
  <2> QED
    BY <1>4, <2>2, <2>3, <2>4 DEF TimerInv, DelegatesInv
<1> QED
  BY <1>6, <1>7

-----------------------------------------------------------------------------
(***************************************************************************)
(* The theorems.                                                           *)
(***************************************************************************)
LEMMA TimerStep == TimerInv /\ [Next]_vars => TimerInv'
<1> SUFFICES ASSUME TimerInv, [Next]_vars PROVE TimerInv'
  OBVIOUS
<1>1. ASSUME NEW t \in Timers, NEW delay \in Delays, Start(t, delay) PROVE TimerInv'
  BY <1>1, StartSafe
<1>2. ASSUME NEW t \in Timers, Stop(t) PROVE TimerInv'
  BY <1>2, StopSafe
<1>3. CASE PollTask \/ Tick
  BY <1>3, PollSafe, TickSafe
<1>4. CASE ProcPush \/ ProcRemove \/ ProcExpire
  BY <1>4, ProcPushSafe, ProcRemoveSafe, ProcExpireSafe
<1>5. CASE ArmTimer \/ CallBack \/ PopNext \/ ExpireEnds
  BY <1>5, ArmSafe, CallBackSafe, PopNextSafe, ExpireEndsSafe
<1>6. CASE UNCHANGED vars
  BY <1>6 DEF vars, TimerInv, TypeOK, DelegatesInv, Owned, InHeap, InMsgs, NotDropped, OnItsWay, Firing,
                   Arming, Armed, Alarm
<1> QED
  BY <1>1, <1>2, <1>3, <1>4, <1>5, <1>6 DEF Next, Client, MsgTask

\* The inductive invariant: the heap takes part in it by its contract alone.
THEOREM Invariant == Spec => []TimerInv
<1>1. TimerInv /\ [Next]_vars => TimerInv'
  BY TimerStep
<1>2. Init => TimerInv
  BY TimerInit
<1> QED
  BY <1>1, <1>2, PTL DEF Spec

\* The variables have their types: in particular the heap is one that
\* checkNodes() finds sorted, after any pushes, pops and removals.
THEOREM TypeCorrect == Spec => []TypeOK
<1>1. TimerInv => TypeOK
  BY DEF TimerInv
<1> QED
  BY <1>1, Invariant, PTL

\* "all timers are deleted here, and only here" (MsgTimerRemove): nothing
\* holds a deleted delegate, and one without a client is deleted by exactly
\* one message.
THEOREM OneDeletion == Spec => []DeletedOnce
<1>1. ASSUME TimerInv PROVE DeletedOnce
  <2>1. /\ TypeOK /\ InHeap /\ InMsgs /\ heap \in Heaps /\ msgs \in Seq(Msg) /\ DOMAIN msgs = 1..Len(msgs)
        /\ HeldBy[heap] \subseteq Entry
    BY <1>1, HeapTop DEF TimerInv, TypeOK, DelegatesInv
  <2>2. ASSUME NEW e \in HeldBy[heap] PROVE delegate[e.id] # NULL /\ e = Ranked(e.id)
    <3>1. e = [id |-> e.id, time |-> e.time] /\ delegate[e.id] # NULL /\ e.time = delegate[e.id].time
      BY <2>1, <2>2, Entries DEF InHeap
    <3> QED
      BY <3>1 DEF Ranked
  <2>3. ASSUME NEW d \in Delegates
        PROVE  IF delegate[d] = NULL
                 THEN Queued("push", d) \cup Queued("remove", d) = {}
                 ELSE Cardinality(Queued("remove", d)) = IF delegate[d].client = NULL THEN 1 ELSE 0
    <3>1. CASE delegate[d] = NULL
      <4>1. ~PushIn(msgs, d) /\ ~RemoveIn(msgs, d)
        BY <2>1, <2>3, <3>1 DEF InMsgs
      <4> QED
        BY <2>1, <3>1, <4>1 DEF Queued, PushIn, RemoveIn, IsPush, IsRemove
    <3>2. CASE delegate[d] # NULL /\ delegate[d].client = NULL
      <4>1. RemoveIn(msgs, d) /\ InTurn(msgs, d)
        BY <2>1, <2>3, <3>2 DEF InMsgs
      <4>2. PICK i \in 1..Len(msgs) : IsRemove(msgs[i], d)
        BY <4>1 DEF RemoveIn
      <4>3. Queued("remove", d) = {i}
        BY <2>1, <4>1, <4>2 DEF Queued, InTurn, IsRemove
      <4> QED
        BY <3>2, <4>3, FS_Singleton
    <3>3. CASE delegate[d] # NULL /\ delegate[d].client # NULL
      <4>1. ~RemoveIn(msgs, d)
        BY <2>1, <2>3, <3>3 DEF InMsgs
      <4>2. Queued("remove", d) = {}
        BY <2>1, <4>1 DEF Queued, RemoveIn, IsRemove
      <4> QED
        BY <3>3, <4>2, FS_EmptySet
    <3> QED
      BY <3>1, <3>2, <3>3
  <2> QED
    BY <2>2, <2>3 DEF DeletedOnce
<1> QED
  BY <1>1, Invariant, PTL

\* The delegate of a timer that runs is in the heap, on its way to it, or
\* being expired: no order of the three threads drops it.
THEOREM NoneDropped == Spec => []NoTimerDropped
<1>1. ASSUME TimerInv PROVE NoTimerDropped
  <2> SUFFICES ASSUME NEW t \in Timers, mTimer[t] # NULL
               PROVE  /\ delegate[mTimer[t]] # NULL /\ delegate[mTimer[t]].client = t
                      /\ \/ Ranked(mTimer[t]) \in HeldBy[heap]
                         \/ Queued("push", mTimer[t]) # {}
                         \/ task.pc = "firing" /\ task.timer = mTimer[t]
    BY DEF NoTimerDropped
  <2>1. /\ delegate[mTimer[t]] # NULL /\ delegate[mTimer[t]].client = t
        /\ OnItsWay(mTimer[t], heap, msgs, task)
        /\ DOMAIN msgs = 1..Len(msgs) /\ HeldBy[heap] \subseteq Entry
    BY <1>1, HeapTop DEF TimerInv, TypeOK, DelegatesInv, Owned, NotDropped
  <2>2. ASSUME NEW e \in HeldBy[heap], e.id = mTimer[t] PROVE Ranked(mTimer[t]) \in HeldBy[heap]
    <3>1. e = [id |-> e.id, time |-> e.time] /\ e.time = delegate[e.id].time
      BY <1>1, <2>1, <2>2, Entries DEF TimerInv, DelegatesInv, InHeap
    <3> QED
      BY <2>2, <3>1 DEF Ranked
  <2>3. PushIn(msgs, mTimer[t]) => Queued("push", mTimer[t]) # {}
    BY <2>1 DEF PushIn, IsPush, Queued
  <2> QED
    BY <2>1, <2>2, <2>3 DEF OnItsWay
<1> QED
  BY <1>1, Invariant, PTL

\* Whenever the poll thread and the MsgTask thread are at rest, the kernel
\* timer is armed and polled for the soonest timer, or sooner.
THEOREM SoonestArmed == Spec => []ArmedForSoonest
<1>1. ASSUME TimerInv PROVE ArmedForSoonest
  <2> SUFFICES ASSUME heap # NULL, task = Idle, poll = "waiting", \A i \in DOMAIN msgs : msgs[i].type # "expire"
               PROVE  kernel.polled /\ kernel.armed # Never /\ kernel.armed <= heap.data.time
    BY DEF ArmedForSoonest
  <2>1. DOMAIN msgs = 1..Len(msgs) /\ task.pc = "idle"
    BY <1>1 DEF TimerInv, TypeOK, Idle
  <2>2. ~Alarm
    BY <2>1 DEF Alarm, ExpireIn
  <2> QED
    BY <1>1, <2>1, <2>2 DEF TimerInv, Armed
<1> QED
  BY <1>1, Invariant, PTL

\* push(), pop() and remove() keep the heap sorted and lose nothing: what
\* LocHeap's bodies do to any sorted heap, of any size, keeps the contract.
THEOREM HeapAlwaysKept == Spec => []HeapKept
<1>1. HeapKept
  BY ContractKept DEF HeapKept
<1> QED
  BY <1>1, PTL
=============================================================================
