------------------------- MODULE GnssControlProofs -------------------------
(***************************************************************************)
(* Proofs about GnssControl, for any locks, servers and sessions.          *)
(***************************************************************************)
EXTENDS GnssControl, FiniteSetTheorems, TLAPS

-----------------------------------------------------------------------------
(***************************************************************************)
(* Queues.  Ends(q, M, x): x is the last message of q that is in M.        *)
(***************************************************************************)
None(q, M)    == \A k \in 1..Len(q) : q[k] \notin M
Ends(q, M, x) == x \in M /\ \E i \in 1..Len(q) : q[i] = x /\ \A k \in (i+1)..Len(q) : q[k] \notin M

LEMMA Appended ==
  ASSUME NEW S, NEW q \in Seq(S), NEW m \in S
  PROVE  /\ Append(q, m) \in Seq(S) /\ Len(q) \in Nat
         /\ Len(Append(q, m)) = Len(q) + 1 /\ Append(q, m)[Len(q) + 1] = m
         /\ \A i \in 1..Len(q) : Append(q, m)[i] = q[i]
         /\ Append(q, m) # <<>>
OBVIOUS

LEMMA HeadTail ==
  ASSUME NEW S, NEW q \in Seq(S), q # <<>>
  PROVE  /\ Head(q) \in S /\ Head(q) = q[1] /\ 1 \in 1..Len(q)
         /\ Tail(q) \in Seq(S) /\ Len(q) \in Nat /\ Len(Tail(q)) = Len(q) - 1
         /\ \A i \in 1..(Len(q) - 1) : Tail(q)[i] = q[i + 1]
OBVIOUS

LEMMA Empty == ASSUME NEW M PROVE None(<<>>, M) /\ \A x : ~Ends(<<>>, M, x)
BY DEF None, Ends

\* What an appended message does to the last one of a kind.
LEMMA EndsAppended ==
  ASSUME NEW S, NEW q \in Seq(S), NEW m \in S, NEW M
  PROVE  /\ m \in M => ~None(Append(q, m), M) /\ \A x : Ends(Append(q, m), M, x) => x = m
         /\ m \notin M => /\ None(Append(q, m), M) => None(q, M)
                          /\ \A x : Ends(Append(q, m), M, x) => Ends(q, M, x)
<1> DEFINE n == Len(q)
           r == Append(q, m)
<1>1. /\ n \in Nat /\ Len(r) = n + 1 /\ r[n + 1] = m
      /\ \A i \in 1..n : r[i] = q[i]
  BY Appended
<1> HIDE DEF r, n
<1>2. n + 1 \in 1..(n + 1) /\ \A k \in 1..n : k \in 1..(n + 1)
  BY <1>1
<1>3. ASSUME m \in M PROVE ~None(r, M) /\ \A x : Ends(r, M, x) => x = m
  <2>1. ~None(r, M)
    BY <1>1, <1>2, <1>3 DEF None
  <2>2. ASSUME NEW x, Ends(r, M, x) PROVE x = m
    <3>1. PICK i \in 1..(n + 1) : r[i] = x /\ \A k \in (i+1)..(n + 1) : r[k] \notin M
      BY <1>1, <2>2 DEF Ends
    <3>2. i = n + 1
      BY <1>1, <1>3, <3>1
    <3> QED
      BY <1>1, <3>1, <3>2
  <2> QED
    BY <2>1, <2>2
<1>4. ASSUME m \notin M
      PROVE  (None(r, M) => None(q, M)) /\ \A x : Ends(r, M, x) => Ends(q, M, x)
  <2>1. None(r, M) => None(q, M)
    BY <1>1, <1>2 DEF None, n
  <2>2. ASSUME NEW x, Ends(r, M, x) PROVE Ends(q, M, x)
    <3>1. PICK i \in 1..(n + 1) : r[i] = x /\ \A k \in (i+1)..(n + 1) : r[k] \notin M
      BY <1>1, <2>2 DEF Ends
    <3>2. i \in 1..n
      BY <1>1, <1>4, <2>2, <3>1 DEF Ends
    <3>3. q[i] = x /\ \A k \in (i+1)..n : q[k] \notin M
      BY <1>1, <3>1, <3>2
    <3> QED
      BY <2>2, <3>2, <3>3 DEF Ends, n
  <2> QED
    BY <2>1, <2>2
<1> QED
  BY <1>3, <1>4 DEF r

\* What the removal of the first message does to the last one of a kind.
LEMMA EndsTail ==
  ASSUME NEW S, NEW q \in Seq(S), q # <<>>, NEW M
  PROVE  /\ \A x : Ends(Tail(q), M, x) => Ends(q, M, x)
         /\ None(Tail(q), M) => IF Head(q) \in M THEN Ends(q, M, Head(q)) ELSE None(q, M)
<1> DEFINE n == Len(q)
           t == Tail(q)
<1>1. /\ n \in Nat /\ 1 \in 1..n /\ Head(q) = q[1] /\ Len(t) = n - 1
      /\ \A i \in 1..(n - 1) : t[i] = q[i + 1]
  BY HeadTail
<1> HIDE DEF t, n
<1>2. \A k \in 2..n : k - 1 \in 1..(n - 1) /\ q[k] = t[k - 1]
  BY <1>1
<1>3. ASSUME NEW x, Ends(t, M, x) PROVE Ends(q, M, x)
  <2>1. PICK i \in 1..(n - 1) : t[i] = x /\ \A k \in (i+1)..(n - 1) : t[k] \notin M
    BY <1>1, <1>3 DEF Ends
  <2>2. i + 1 \in 1..n /\ q[i + 1] = x
    BY <1>1, <2>1
  <2>3. ASSUME NEW k \in ((i + 1) + 1)..n PROVE q[k] \notin M
    <3>1. k \in 2..n /\ k - 1 \in (i+1)..(n - 1)
      BY <1>1, <2>1
    <3> QED
      BY <1>2, <2>1, <3>1
  <2> QED
    BY <1>3, <2>2, <2>3 DEF Ends, n
<1>4. ASSUME None(t, M) PROVE IF Head(q) \in M THEN Ends(q, M, Head(q)) ELSE None(q, M)
  <2>1. \A k \in 2..n : q[k] \notin M
    BY <1>1, <1>2, <1>4 DEF None
  <2>2. CASE Head(q) \in M
    BY <1>1, <2>1, <2>2 DEF Ends, n
  <2>3. CASE Head(q) \notin M
    BY <1>1, <2>1, <2>3 DEF None, n
  <2> QED
    BY <2>2, <2>3
<1> QED
  BY <1>3, <1>4 DEF t

-----------------------------------------------------------------------------
(***************************************************************************)
(* The power vote.  A control message takes the vote as the message before *)
(* it leaves it, and the last one leaves it as the client is.              *)
(***************************************************************************)
ControlMsgs == {m \in Msg : m.type # "config"}

After(m)    == IF m.type = "enable" THEN m.session ELSE NoSession
Takes(m, v) == IF m.type = "enable" THEN v = NoSession ELSE v = m.session

Chain(q, v) == \A i \in 1..Len(q) : q[i] \in ControlMsgs =>
  /\ (\A k \in 1..(i-1) : q[k] \notin ControlMsgs) => Takes(q[i], v)
  /\ \A j \in 1..(i-1) :
       q[j] \in ControlMsgs /\ (\A k \in (j+1)..(i-1) : q[k] \notin ControlMsgs) =>
         Takes(q[i], After(q[j]))

VoteOK(q, v, left) ==
  /\ Chain(q, v)
  /\ \A x : Ends(q, ControlMsgs, x) => After(x) = left
  /\ None(q, ControlMsgs) => v = left

LEMMA VoteConfig ==
  ASSUME NEW q \in Seq(Msg), NEW v, NEW left, VoteOK(q, v, left),
         NEW m \in Msg \ ControlMsgs
  PROVE  VoteOK(Append(q, m), v, left)
<1> DEFINE r == Append(q, m)
           n == Len(q)
<1>1. /\ n \in Nat /\ Len(r) = n + 1 /\ r[n + 1] = m
      /\ \A i \in 1..n : r[i] = q[i]
  BY Appended
<1>2. /\ None(r, ControlMsgs) => None(q, ControlMsgs)
      /\ \A x : Ends(r, ControlMsgs, x) => Ends(q, ControlMsgs, x)
  BY EndsAppended
<1> HIDE DEF r, n
<1>3. Chain(r, v)
  <2> SUFFICES ASSUME NEW i \in 1..(n + 1), r[i] \in ControlMsgs
               PROVE  /\ (\A k \in 1..(i-1) : r[k] \notin ControlMsgs) => Takes(r[i], v)
                      /\ \A j \in 1..(i-1) :
                           r[j] \in ControlMsgs /\ (\A k \in (j+1)..(i-1) : r[k] \notin ControlMsgs) =>
                             Takes(r[i], After(r[j]))
    BY <1>1 DEF Chain
  <2>1. i \in 1..n
    BY <1>1
  <2>2. r[i] = q[i] /\ \A k \in 1..(i-1) : r[k] = q[k]
    BY <1>1, <2>1
  <2>3. /\ (\A k \in 1..(i-1) : q[k] \notin ControlMsgs) => Takes(q[i], v)
        /\ \A j \in 1..(i-1) :
             q[j] \in ControlMsgs /\ (\A k \in (j+1)..(i-1) : q[k] \notin ControlMsgs) =>
               Takes(q[i], After(q[j]))
    BY <2>1, <2>2 DEF Chain, VoteOK, n
  <2>4. \A j \in 1..(i-1) : \A k \in (j+1)..(i-1) : k \in 1..(i-1)
    BY <2>1, <1>1
  <2> QED
    BY <2>2, <2>3, <2>4
<1> QED
  BY <1>2, <1>3 DEF VoteOK, r

LEMMA VoteControl ==
  ASSUME NEW q \in Seq(Msg), NEW v, NEW left, VoteOK(q, v, left),
         NEW m \in ControlMsgs, Takes(m, left)
  PROVE  VoteOK(Append(q, m), v, After(m))
<1> DEFINE r == Append(q, m)
           n == Len(q)
<1>0. m \in Msg
  BY DEF ControlMsgs
<1>1. /\ n \in Nat /\ Len(r) = n + 1 /\ r[n + 1] = m
      /\ \A i \in 1..n : r[i] = q[i]
  BY <1>0, Appended
<1>2. ~None(r, ControlMsgs) /\ \A x : Ends(r, ControlMsgs, x) => x = m
  BY <1>0, EndsAppended
<1> HIDE DEF r, n
<1>3. Chain(r, v)
  <2> SUFFICES ASSUME NEW i \in 1..(n + 1), r[i] \in ControlMsgs
               PROVE  /\ (\A k \in 1..(i-1) : r[k] \notin ControlMsgs) => Takes(r[i], v)
                      /\ \A j \in 1..(i-1) :
                           r[j] \in ControlMsgs /\ (\A k \in (j+1)..(i-1) : r[k] \notin ControlMsgs) =>
                             Takes(r[i], After(r[j]))
    BY <1>1 DEF Chain
  <2>1. \A k \in 1..(i-1) : k \in 1..n /\ r[k] = q[k]
    BY <1>1
  <2>2. \A j \in 1..(i-1) : \A k \in (j+1)..(i-1) : k \in 1..(i-1)
    BY <1>1
  <2>3. CASE i = n + 1
    <3>1. r[i] = m /\ i - 1 = n
      BY <1>1, <2>3
    <3>2. (\A k \in 1..(i-1) : r[k] \notin ControlMsgs) => None(q, ControlMsgs)
      BY <2>1, <3>1 DEF None, n
    <3>3. ASSUME NEW j \in 1..(i-1), r[j] \in ControlMsgs,
                 \A k \in (j+1)..(i-1) : r[k] \notin ControlMsgs
          PROVE  Ends(q, ControlMsgs, r[j])
      BY <2>1, <2>2, <3>1, <3>3 DEF Ends, n
    <3>4. (\A k \in 1..(i-1) : r[k] \notin ControlMsgs) => Takes(r[i], v)
      BY <3>1, <3>2 DEF VoteOK
    <3>5. ASSUME NEW j \in 1..(i-1), r[j] \in ControlMsgs,
                 \A k \in (j+1)..(i-1) : r[k] \notin ControlMsgs
          PROVE  Takes(r[i], After(r[j]))
      BY <3>1, <3>3, <3>5 DEF VoteOK
    <3> QED
      BY <3>4, <3>5
  <2>4. CASE i \in 1..n
    <3>1. r[i] = q[i]
      BY <1>1, <2>4
    <3>2. /\ (\A k \in 1..(i-1) : q[k] \notin ControlMsgs) => Takes(q[i], v)
          /\ \A j \in 1..(i-1) :
               q[j] \in ControlMsgs /\ (\A k \in (j+1)..(i-1) : q[k] \notin ControlMsgs) =>
                 Takes(q[i], After(q[j]))
      BY <2>4, <3>1 DEF Chain, VoteOK, n
    <3> QED
      BY <2>1, <2>2, <3>1, <3>2
  <2> QED
    BY <1>1, <2>3, <2>4
<1> QED
  BY <1>2, <1>3 DEF VoteOK, r

LEMMA VoteTail ==
  ASSUME NEW q \in Seq(Msg), q # <<>>, NEW v, NEW left, VoteOK(q, v, left)
  PROVE  /\ Head(q) \in ControlMsgs => Takes(Head(q), v)
         /\ VoteOK(Tail(q), IF Head(q) \in ControlMsgs THEN After(Head(q)) ELSE v, left)
<1> DEFINE t == Tail(q)
           n == Len(q)
           w == IF Head(q) \in ControlMsgs THEN After(Head(q)) ELSE v
<1>1. /\ n \in Nat /\ 1 \in 1..n /\ Head(q) = q[1] /\ Len(t) = n - 1
      /\ \A i \in 1..(n - 1) : t[i] = q[i + 1]
  BY HeadTail
<1>2. /\ \A x : Ends(t, ControlMsgs, x) => Ends(q, ControlMsgs, x)
      /\ None(t, ControlMsgs) =>
           IF Head(q) \in ControlMsgs THEN Ends(q, ControlMsgs, Head(q)) ELSE None(q, ControlMsgs)
  BY EndsTail
<1> HIDE DEF t, n
<1>3. Head(q) \in ControlMsgs => Takes(Head(q), v)
  <2>1. 1..(1 - 1) = {}
    OBVIOUS
  <2> QED
    BY <1>1, <2>1 DEF VoteOK, Chain, n
<1>4. Chain(t, w)
  <2> SUFFICES ASSUME NEW i \in 1..(n - 1), t[i] \in ControlMsgs
               PROVE  /\ (\A k \in 1..(i-1) : t[k] \notin ControlMsgs) => Takes(t[i], w)
                      /\ \A j \in 1..(i-1) :
                           t[j] \in ControlMsgs /\ (\A k \in (j+1)..(i-1) : t[k] \notin ControlMsgs) =>
                             Takes(t[i], After(t[j]))
    BY <1>1 DEF Chain
  <2>1. i + 1 \in 1..n /\ t[i] = q[i + 1] /\ (i + 1) - 1 = i
    BY <1>1
  <2>2. /\ (\A k \in 1..i : q[k] \notin ControlMsgs) => Takes(t[i], v)
        /\ \A j \in 1..i :
             q[j] \in ControlMsgs /\ (\A k \in (j+1)..i : q[k] \notin ControlMsgs) =>
               Takes(t[i], After(q[j]))
    BY <2>1 DEF Chain, VoteOK, n
  <2>3. \A k \in 2..i : k - 1 \in 1..(i-1) /\ q[k] = t[k - 1]
    BY <1>1
  <2>4. ASSUME \A k \in 1..(i-1) : t[k] \notin ControlMsgs PROVE Takes(t[i], w)
    <3>1. \A k \in 2..i : q[k] \notin ControlMsgs
      BY <2>3, <2>4
    <3>2. CASE Head(q) \in ControlMsgs
      <4>1. 1 \in 1..i /\ (1 + 1)..i = 2..i
        BY <2>1
      <4> QED
        BY <1>1, <2>2, <3>1, <3>2, <4>1
    <3>3. CASE Head(q) \notin ControlMsgs
      <4>1. \A k \in 1..i : k = 1 \/ k \in 2..i
        BY <2>1
      <4> QED
        BY <1>1, <2>2, <3>1, <3>3, <4>1
    <3> QED
      BY <3>2, <3>3
  <2>5. ASSUME NEW j \in 1..(i-1), t[j] \in ControlMsgs,
               \A k \in (j+1)..(i-1) : t[k] \notin ControlMsgs
        PROVE  Takes(t[i], After(t[j]))
    <3>1. j + 1 \in 1..i /\ t[j] = q[j + 1]
      BY <1>1, <2>1
    <3>2. \A k \in ((j + 1) + 1)..i : k \in 2..i /\ k - 1 \in (j+1)..(i-1)
      BY <2>1
    <3>3. \A k \in ((j + 1) + 1)..i : q[k] \notin ControlMsgs
      BY <2>3, <2>5, <3>2
    <3> QED
      BY <2>2, <2>5, <3>1, <3>3
  <2> QED
    BY <2>4, <2>5
<1>5. None(t, ControlMsgs) => w = left
  BY <1>2 DEF VoteOK
<1> QED
  BY <1>2, <1>3, <1>4, <1>5 DEF VoteOK, t

-----------------------------------------------------------------------------
(***************************************************************************)
(* Places in the queue.                                                    *)
(***************************************************************************)
Counted(q, s, i) == {j \in 1..i : ForSession(q[j], s)}

LEMMA CountedFinite ==
  ASSUME NEW q, NEW s, NEW i \in Nat
  PROVE  IsFiniteSet(Counted(q, s, i)) /\ Place(q, s, i) = Cardinality(Counted(q, s, i))
         /\ Place(q, s, i) \in Nat
<1>1. IsFiniteSet(1..i)
  BY FS_Interval
<1>2. Counted(q, s, i) \in SUBSET (1..i)
  BY DEF Counted
<1>3. IsFiniteSet(Counted(q, s, i))
  BY <1>1, <1>2, FS_Subset
<1> QED
  BY <1>3, FS_CardinalityType DEF Place, Counted

LEMMA PlaceAppended ==
  ASSUME NEW q \in Seq(Msg), NEW s, NEW m \in Msg
  PROVE  /\ \A i \in 1..Len(q) : Place(Append(q, m), s, i) = Place(q, s, i)
         /\ Place(Append(q, m), s, Len(q) + 1) =
              IF ForSession(m, s) THEN Place(q, s, Len(q)) + 1 ELSE Place(q, s, Len(q))
<1> DEFINE n == Len(q)
           r == Append(q, m)
<1>1. /\ n \in Nat /\ r[n + 1] = m
      /\ \A i \in 1..n : r[i] = q[i]
  BY Appended
<1> HIDE DEF n, r
<1>2. ASSUME NEW i \in 0..n PROVE Counted(r, s, i) = Counted(q, s, i)
  BY <1>1 DEF Counted
<1>3. ASSUME NEW i \in 1..n PROVE Place(r, s, i) = Place(q, s, i)
  BY <1>1, <1>2, CountedFinite
<1>4. n \in 0..n /\ n + 1 \in Nat /\ n + 1 \notin Counted(q, s, n)
  BY <1>1 DEF Counted
<1>5. Counted(r, s, n + 1) = IF ForSession(m, s) THEN Counted(q, s, n) \cup {n + 1} ELSE Counted(q, s, n)
  <2>1. \A j \in 1..(n + 1) : j \in 1..n \/ j = n + 1
    BY <1>1
  <2>2. \A j \in 1..n : j \in 1..(n + 1)
    BY <1>1
  <2>3. n + 1 \in 1..(n + 1)
    BY <1>1
  <2> QED
    BY <1>1, <2>1, <2>2, <2>3 DEF Counted
<1>6. Place(r, s, n + 1) = IF ForSession(m, s) THEN Place(q, s, n) + 1 ELSE Place(q, s, n)
  <2>1. IsFiniteSet(Counted(q, s, n)) /\ Place(q, s, n) = Cardinality(Counted(q, s, n))
    BY <1>1, CountedFinite
  <2>2. Cardinality(Counted(q, s, n) \cup {n + 1}) = Cardinality(Counted(q, s, n)) + 1
    BY <1>4, <2>1, FS_AddElement
  <2>3. Place(r, s, n + 1) = Cardinality(Counted(r, s, n + 1))
    BY <1>4, CountedFinite
  <2> QED
    BY <1>5, <2>1, <2>2, <2>3
<1> QED
  BY <1>3, <1>6 DEF n, r

LEMMA PlaceTail ==
  ASSUME NEW q \in Seq(Msg), q # <<>>, NEW s, NEW i \in 0..(Len(q) - 1)
  PROVE  Place(q, s, i + 1) =
           IF ForSession(Head(q), s) THEN Place(Tail(q), s, i) + 1 ELSE Place(Tail(q), s, i)
<1> DEFINE n == Len(q)
           t == Tail(q)
           A == Counted(t, s, i)
           B == Counted(q, s, i + 1)
           f == [j \in A |-> j + 1]
<1>1. /\ n \in Nat /\ 1 \in 1..n /\ Head(q) = q[1]
      /\ \A j \in 1..(n - 1) : t[j] = q[j + 1]
  BY HeadTail
<1> HIDE DEF n, t
<1>2. i \in Nat /\ i <= n - 1
  BY <1>1 DEF n
<1>3. \A j \in 2..(i + 1) : j - 1 \in 1..i /\ q[j] = t[j - 1] /\ (j - 1) + 1 = j
  BY <1>1, <1>2
<1>4. \A j \in 1..i : j + 1 \in 2..(i + 1) /\ q[j + 1] = t[j]
  BY <1>1, <1>2
<1>5. \A j \in 1..(i + 1) : j # 1 => j \in 2..(i + 1)
  BY <1>2
<1>6. \A j \in 2..(i + 1) : j # 1 /\ j \in 1..(i + 1)
  BY <1>2
<1>7. /\ IsFiniteSet(A) /\ Place(t, s, i) = Cardinality(A) /\ Cardinality(A) \in Nat
      /\ IsFiniteSet(B) /\ Place(q, s, i + 1) = Cardinality(B) /\ Cardinality(B) \in Nat
  BY <1>2, CountedFinite
<1>8. f \in Bijection(A, B \ {1})
  <2>1. A \subseteq 1..i
    BY DEF Counted
  <2>2. ASSUME NEW j \in A PROVE f[j] \in B \ {1}
    BY <1>4, <1>6, <2>1, <2>2 DEF Counted
  <2>3. ASSUME NEW j \in A, NEW k \in A, f[j] = f[k] PROVE j = k
    BY <1>2, <2>1, <2>3
  <2>4. ASSUME NEW k \in B \ {1} PROVE \E j \in A : f[j] = k
    <3>1. k \in 2..(i + 1) /\ ForSession(q[k], s)
      BY <1>5, <2>4 DEF Counted
    <3>2. k - 1 \in A /\ (k - 1) + 1 = k
      BY <1>3, <3>1 DEF Counted
    <3> QED
      BY <3>2
  <2>5. f \in [A -> B \ {1}]
    BY <2>2
  <2> HIDE DEF f, A, B
  <2>6. DOMAIN f = A
    BY <2>5
  <2> QED
    BY <2>3, <2>4, <2>5, <2>6 DEF Bijection, Injection, Surjection, IsInjective
<1>9. Cardinality(B \ {1}) = Cardinality(A)
  BY <1>7, <1>8, FS_Bijection DEF ExistsBijection
<1>10. Cardinality(B \ {1}) = IF 1 \in B THEN Cardinality(B) - 1 ELSE Cardinality(B)
  BY <1>7, FS_RemoveElement
<1>11. 1 \in B <=> ForSession(Head(q), s)
  BY <1>1, <1>2 DEF Counted
<1> HIDE DEF A, B
<1> QED
  BY <1>7, <1>9, <1>10, <1>11 DEF t

-----------------------------------------------------------------------------
(***************************************************************************)
(* The requests of the control client: RequestsMatch for any queue q,      *)
(* session s and requests, of which a are answered but not told.           *)
(***************************************************************************)
MatchOK(q, s, reqs, a) ==
  /\ Len(reqs) = a + Place(q, s, Len(q))
  /\ \A i \in 1..Len(q) : ForSession(q[i], s) => reqs[a + Place(q, s, i)] = q[i].type

LEMMA MatchAppended ==
  ASSUME NEW q \in Seq(Msg), NEW s, NEW reqs \in Seq(Requests), NEW a \in Nat,
         MatchOK(q, s, reqs, a), NEW m \in Msg
  PROVE  /\ ~ForSession(m, s) => MatchOK(Append(q, m), s, reqs, a)
         /\ ForSession(m, s) /\ m.type \in Requests => MatchOK(Append(q, m), s, Append(reqs, m.type), a)
<1> DEFINE n == Len(q)
           r == Append(q, m)
<1>1. /\ n \in Nat /\ Len(r) = n + 1 /\ r[n + 1] = m
      /\ \A i \in 1..n : r[i] = q[i]
  BY Appended
<1>2. /\ \A i \in 1..n : Place(r, s, i) = Place(q, s, i)
      /\ Place(r, s, n + 1) = IF ForSession(m, s) THEN Place(q, s, n) + 1 ELSE Place(q, s, n)
  BY PlaceAppended
<1>3. \A i \in 1..(n + 1) : i \in 1..n \/ i = n + 1
  BY <1>1
<1>4. /\ Len(reqs) = a + Place(q, s, n)
      /\ \A i \in 1..n : ForSession(q[i], s) => reqs[a + Place(q, s, i)] = q[i].type
  BY DEF MatchOK
<1>5. Place(q, s, n) \in Nat /\ \A i \in 1..n : Place(q, s, i) \in Nat
  BY <1>1, CountedFinite
<1> HIDE DEF n, r
<1>6. CASE ~ForSession(m, s)
  BY <1>1, <1>2, <1>3, <1>4, <1>6 DEF MatchOK, r
<1>7. CASE ForSession(m, s) /\ m.type \in Requests
  <2> DEFINE new == Append(reqs, m.type)
  <2>1. /\ Len(new) = Len(reqs) + 1 /\ new[Len(reqs) + 1] = m.type
        /\ \A k \in 1..Len(reqs) : new[k] = reqs[k]
    BY <1>7, Appended
  <2> HIDE DEF new
  <2>2. Len(new) = a + Place(r, s, n + 1)
    BY <1>2, <1>4, <1>5, <1>7, <2>1
  <2>3. ASSUME NEW i \in 1..n, ForSession(q[i], s) PROVE a + Place(q, s, i) \in 1..Len(reqs)
    <3>1. i \in Nat /\ i <= n /\ i >= 1
      BY <1>1
    <3>2. Counted(q, s, i) \in SUBSET Counted(q, s, n) /\ i \in Counted(q, s, i)
      BY <1>1, <2>3, <3>1 DEF Counted
    <3>3. Place(q, s, i) <= Place(q, s, n)
      BY <1>1, <3>1, <3>2, CountedFinite, FS_Subset
    <3>4. Place(q, s, i) # 0
      BY <3>1, <3>2, CountedFinite, FS_EmptySet
    <3> QED
      BY <1>4, <1>5, <3>3, <3>4
  <2>4. ASSUME NEW i \in 1..(n + 1), ForSession(r[i], s) PROVE new[a + Place(r, s, i)] = r[i].type
    <3>1. CASE i \in 1..n
      BY <1>1, <1>2, <1>4, <2>1, <2>3, <2>4, <3>1
    <3>2. CASE i = n + 1
      <4>1. a + Place(r, s, i) = Len(reqs) + 1
        BY <1>2, <1>4, <1>5, <1>7, <3>2
      <4> QED
        BY <1>1, <2>1, <3>2, <4>1
    <3> QED
      BY <1>3, <3>1, <3>2
  <2> QED
    BY <1>1, <1>7, <2>2, <2>4 DEF MatchOK, r, new
<1> QED
  BY <1>6, <1>7

\* The message of a session of which there is no other.
LEMMA MatchFresh ==
  ASSUME NEW q \in Seq(Msg), NEW s, \A i \in 1..Len(q) : ~ForSession(q[i], s),
         NEW m \in Msg, ForSession(m, s), m.type \in Requests
  PROVE  MatchOK(Append(q, m), s, <<m.type>>, 0)
<1>1. Len(q) \in Nat
  OBVIOUS
<1>2. \A i \in 0..Len(q) : Counted(q, s, i) = {}
  BY <1>1 DEF Counted
<1>3. Place(q, s, Len(q)) = 0
  BY <1>1, <1>2, CountedFinite, FS_EmptySet
<1>4. MatchOK(q, s, <<>>, 0)
  BY <1>3 DEF MatchOK
<1>5. <<>> \in Seq(Requests) /\ 0 \in Nat /\ Append(<<>>, m.type) = <<m.type>>
  OBVIOUS
<1>6. MatchOK(Append(q, m), s, Append(<<>>, m.type), 0)
  BY <1>4, <1>5, MatchAppended
<1> QED
  BY <1>5, <1>6

LEMMA MatchTail ==
  ASSUME NEW q \in Seq(Msg), q # <<>>, NEW s, NEW reqs, MatchOK(q, s, reqs, 0)
  PROVE  MatchOK(Tail(q), s, reqs, IF ForSession(Head(q), s) THEN 1 ELSE 0)
<1> DEFINE n == Len(q)
           t == Tail(q)
           a == IF ForSession(Head(q), s) THEN 1 ELSE 0
<1>1. /\ n \in Nat /\ 1 \in 1..n /\ Len(t) = n - 1
      /\ \A i \in 1..(n - 1) : t[i] = q[i + 1]
  BY HeadTail
<1>2. ASSUME NEW i \in 0..(n - 1) PROVE Place(q, s, i + 1) = a + Place(t, s, i) /\ Place(t, s, i) \in Nat
  <2>1. i \in Nat
    OBVIOUS
  <2>2. Place(q, s, i + 1) = IF ForSession(Head(q), s) THEN Place(t, s, i) + 1 ELSE Place(t, s, i)
    BY PlaceTail
  <2>3. Place(t, s, i) \in Nat
    BY <2>1, CountedFinite
  <2> QED
    BY <2>2, <2>3
<1>3. /\ Len(reqs) = 0 + Place(q, s, n)
      /\ \A i \in 1..n : ForSession(q[i], s) => reqs[0 + Place(q, s, i)] = q[i].type
  BY DEF MatchOK
<1> HIDE DEF n, t
<1>4. n - 1 \in 0..(n - 1) /\ (n - 1) + 1 = n
  BY <1>1
<1>5. Len(reqs) = a + Place(t, s, n - 1)
  BY <1>2, <1>3, <1>4
<1>6. ASSUME NEW i \in 1..(n - 1), ForSession(t[i], s) PROVE reqs[a + Place(t, s, i)] = t[i].type
  <2>1. i + 1 \in 1..n /\ i \in 0..(n - 1) /\ t[i] = q[i + 1]
    BY <1>1
  <2>2. 0 + Place(q, s, i + 1) = a + Place(t, s, i)
    BY <1>2, <2>1
  <2> QED
    BY <1>3, <1>6, <2>1, <2>2
<1> QED
  BY <1>1, <1>5, <1>6 DEF MatchOK, t

LEMMA MatchTold ==
  ASSUME NEW q \in Seq(Msg), NEW s, NEW reqs \in Seq(Requests), MatchOK(q, s, reqs, 1)
  PROVE  reqs # <<>> /\ MatchOK(q, s, Tail(reqs), 0)
<1> DEFINE n == Len(q)
<1>1. n \in Nat /\ Place(q, s, n) \in Nat /\ \A i \in 1..n : Place(q, s, i) \in Nat
  BY CountedFinite
<1>2. Len(reqs) = 1 + Place(q, s, n)
  BY DEF MatchOK
<1>3. reqs # <<>> /\ Len(Tail(reqs)) = 0 + Place(q, s, n)
      /\ \A k \in 1..Place(q, s, n) : Tail(reqs)[k] = reqs[k + 1]
  BY <1>1, <1>2
<1>4. ASSUME NEW i \in 1..n, ForSession(q[i], s) PROVE Tail(reqs)[0 + Place(q, s, i)] = q[i].type
  <2>1. i \in Nat /\ i <= n /\ i >= 1
    BY <1>1
  <2>2. Counted(q, s, i) \in SUBSET Counted(q, s, n) /\ i \in Counted(q, s, i)
    BY <1>1, <1>4, <2>1 DEF Counted
  <2>3. Place(q, s, i) <= Place(q, s, n)
    BY <1>1, <2>1, <2>2, CountedFinite, FS_Subset
  <2>4. Place(q, s, i) # 0
    BY <2>1, <2>2, CountedFinite, FS_EmptySet
  <2>5. Place(q, s, i) \in 1..Place(q, s, n) /\ 0 + Place(q, s, i) = Place(q, s, i)
    BY <1>1, <2>3, <2>4
  <2>6. reqs[1 + Place(q, s, i)] = q[i].type
    BY <1>4 DEF MatchOK
  <2>7. Place(q, s, i) + 1 = 1 + Place(q, s, i)
    BY <2>5
  <2> QED
    BY <1>3, <2>5, <2>6, <2>7
<1> QED
  BY <1>3, <1>4 DEF MatchOK

-----------------------------------------------------------------------------
(***************************************************************************)
(* The configuration.  The last message queued with a lock has the one     *)
(* wanted; without one, it has arrived.  Of a server the same, unless it   *)
(* was refused (Excused), or the HAL may not configure the engine: then    *)
(* nothing is claimed here, and Untold says that no server arrives.        *)
(***************************************************************************)
LockMsgs   == {m \in Msg : m.type = "config" /\ m.config.lock # NULL}
ServerMsgs == {m \in Msg : m.type = "config" /\ m.config.server # NULL}

LockOK(q, lock, w) ==
  /\ \A x : Ends(q, LockMsgs, x) => x.config.lock = w
  /\ None(q, LockMsgs) => lock = w

ServerOK(q, server, no, w) ==
  /\ \A x : Ends(q, ServerMsgs, x) => x.config.server = w
  /\ None(q, ServerMsgs) => "server" \in no \/ server = w

Excused(inject, no) == IF inject THEN no ELSE {"server"}

ConfigMsg(config)   == [type |-> "config", config |-> config]
ControlMsg(type, s) == [type |-> type, session |-> s]

LEMMA MsgFields ==
  ASSUME NEW m \in Msg
  PROVE  /\ m.type \in Requests \cup {"config"}
         /\ m.type \in Requests <=> m.type # "config"
         /\ m.type = "config" => m.config \in Configs
         /\ m.type # "config" => m.session \in SessionIds /\ m \in ControlMsgs
                                /\ m \notin LockMsgs /\ m \notin ServerMsgs
         /\ m.type = "config" => m \notin ControlMsgs
BY DEF Msg, Requests, ControlMsgs, LockMsgs, ServerMsgs

LEMMA ConfigMade ==
  ASSUME NEW config \in Configs
  PROVE  /\ ConfigMsg(config) \in Msg \ ControlMsgs
         /\ ConfigMsg(config).config = config
         /\ ConfigMsg(config) \in LockMsgs <=> config.lock # NULL
         /\ ConfigMsg(config) \in ServerMsgs <=> config.server # NULL
         /\ \A s : ~ForSession(ConfigMsg(config), s)
<1>1. ConfigMsg(config) \in Msg
  BY DEF ConfigMsg, Msg
<1>2. ConfigMsg(config).type = "config" /\ ConfigMsg(config).config = config
  BY DEF ConfigMsg
<1> QED
  BY <1>1, <1>2 DEF ControlMsgs, LockMsgs, ServerMsgs, ForSession

LEMMA ControlMade ==
  ASSUME NEW type \in Requests, NEW s \in SessionIds
  PROVE  /\ ControlMsg(type, s) \in ControlMsgs /\ ControlMsg(type, s) \in Msg
         /\ ControlMsg(type, s) \notin LockMsgs /\ ControlMsg(type, s) \notin ServerMsgs
         /\ ControlMsg(type, s).type = type /\ ControlMsg(type, s).session = s
         /\ ForSession(ControlMsg(type, s), s)
<1>1. ControlMsg(type, s) \in Msg
  BY DEF ControlMsg, Msg, Requests
<1>2. ControlMsg(type, s).type = type /\ ControlMsg(type, s).session = s /\ type # "config"
  BY DEF ControlMsg, Requests
<1> QED
  BY <1>1, <1>2 DEF ControlMsgs, LockMsgs, ServerMsgs, ForSession

LEMMA ConfigPosted ==
  ASSUME NEW q \in Seq(Msg), NEW config \in Configs,
         NEW lock, NEW l, LockOK(q, lock, l),
         NEW server, NEW no, NEW v, ServerOK(q, server, no, v)
  PROVE  /\ LockOK(Append(q, ConfigMsg(config)), lock, IF config.lock # NULL THEN config.lock ELSE l)
         /\ ServerOK(Append(q, ConfigMsg(config)), server, no,
                     IF config.server # NULL THEN config.server ELSE v)
<1> DEFINE m == ConfigMsg(config)
<1>1. /\ m \in Msg /\ m.config = config
      /\ m \in LockMsgs <=> config.lock # NULL
      /\ m \in ServerMsgs <=> config.server # NULL
  BY ConfigMade
<1> HIDE DEF m
<1>2. LockOK(Append(q, m), lock, IF config.lock # NULL THEN config.lock ELSE l)
  BY <1>1, EndsAppended DEF LockOK
<1>3. ServerOK(Append(q, m), server, no, IF config.server # NULL THEN config.server ELSE v)
  BY <1>1, EndsAppended DEF ServerOK
<1> QED
  BY <1>2, <1>3 DEF m

LEMMA ControlPosted ==
  ASSUME NEW q \in Seq(Msg), NEW m \in Msg, m \notin LockMsgs, m \notin ServerMsgs,
         NEW lock, NEW l, LockOK(q, lock, l),
         NEW server, NEW no, NEW v, ServerOK(q, server, no, v)
  PROVE  LockOK(Append(q, m), lock, l) /\ ServerOK(Append(q, m), server, no, v)
<1>1. LockOK(Append(q, m), lock, l)
  BY EndsAppended DEF LockOK
<1>2. ServerOK(Append(q, m), server, no, v)
  BY EndsAppended DEF ServerOK
<1> QED
  BY <1>1, <1>2

LEMMA LockTaken ==
  ASSUME NEW q \in Seq(Msg), q # <<>>, NEW lock, NEW l, LockOK(q, lock, l)
  PROVE  LockOK(Tail(q), IF Head(q) \in LockMsgs THEN Head(q).config.lock ELSE lock, l)
BY EndsTail DEF LockOK

LEMMA ServerTaken ==
  ASSUME NEW q \in Seq(Msg), q # <<>>,
         NEW server, NEW no, NEW v, ServerOK(q, server, no, v),
         NEW next, NEW refusing,
         IF Head(q) \in ServerMsgs THEN "server" \in refusing \/ next = Head(q).config.server
         ELSE next = server /\ ("server" \in refusing <=> "server" \in no)
  PROVE  ServerOK(Tail(q), next, refusing, v)
BY EndsTail DEF ServerOK

-----------------------------------------------------------------------------
(***************************************************************************)
(* The inductive invariant.                                                *)
(***************************************************************************)
Held == IF mEnabled THEN control.session ELSE NoSession

\* Before the client is made nothing is queued, and what was configured waits.
StartInv ==
  /\ mPendingConfig # NULL => ~mApi /\ mPendingConfig.server \in {NULL, NoServer}
  /\ ~mApi =>
       /\ msgs = <<>> /\ mConfig = NULL
       /\ engine.lock = NULL /\ engine.server = NULL
       /\ wanted.lock = IF mPendingConfig # NULL /\ mPendingConfig.lock # NULL
                          THEN mPendingConfig.lock ELSE GPS_LOCK
       /\ NamedLast(wanted) = IF mPendingConfig # NULL THEN mPendingConfig.server ELSE NULL

VoteInv ==
  /\ mEnabled => control.session \in SessionIds
  /\ VoteOK(msgs, mPowerVoteId, Held)

\* A lock that is dropped as identical is the one wanted.
ConfigInv ==
  /\ mConfig # NULL /\ mConfig.lock # NULL => mConfig.lock = wanted.lock
  /\ mApi => /\ LockOK(msgs, GPS_LOCK, wanted.lock)
             /\ ServerOK(msgs, engine.server, Excused(AGPS_CONFIG_INJECT, refused), NamedLast(wanted))

EngineInv ==
  \/ "lock" \in refused \/ engine.lock = NULL
  \/ engine.lock = IF mPowerVoteId # NoSession THEN NoLock ELSE GPS_LOCK

ControlInv == TypeOK /\ StartInv /\ VoteInv /\ RequestsMatch /\ ConfigInv /\ EngineInv

Answering == IF responding = control.session THEN 1 ELSE 0

LEMMA RequestsMatchIs == RequestsMatch <=> MatchOK(msgs, control.session, control.reqs, Answering)
BY DEF RequestsMatch, MatchOK, Answering

LEMMA ControlInit == Init => ControlInv
<1> SUFFICES ASSUME Init PROVE ControlInv
  OBVIOUS
<1>1. TypeOK
  <2>1. <<>> \in Seq(Requests) /\ <<>> \in Seq(Msg)
    OBVIOUS
  <2>2. control \in [session : SessionIds \cup {NoSession}, reqs : Seq(Requests)]
    BY <2>1 DEF Init
  <2>3. /\ engine \in [lock : Locks \cup {NULL}, server : Servers \cup {NoServer, NULL}, vote : BOOLEAN]
        /\ wanted \in [lock : Locks, server : Servers \cup {NoServer, NULL}, early : BOOLEAN]
    BY DEF Init
  <2> QED
    BY <2>1, <2>2, <2>3 DEF Init, TypeOK
<1>2. StartInv
  BY DEF Init, StartInv, NamedLast
<1>3. VoteInv
  <2>1. Chain(msgs, mPowerVoteId)
    BY DEF Init, Chain
  <2> QED
    BY <2>1, Empty DEF Init, VoteInv, VoteOK, Held
<1>4. RequestsMatch
  <2>1. Counted(<<>>, NoSession, 0) = {}
    BY DEF Counted
  <2>2. Place(<<>>, NoSession, 0) = 0
    BY <2>1, CountedFinite, FS_EmptySet
  <2>3. responding # control.session
    BY ControlAssumption DEF Init
  <2> QED
    BY <2>2, <2>3 DEF Init, RequestsMatch
<1>5. ConfigInv
  BY DEF Init, ConfigInv
<1>6. EngineInv
  BY DEF Init, EngineInv
<1> QED
  BY <1>1, <1>2, <1>3, <1>4, <1>5, <1>6 DEF ControlInv

-----------------------------------------------------------------------------
(***************************************************************************)
(* Calls of the service.                                                   *)
(***************************************************************************)
\* The queue with the configuration that waited, if there was one.
LEMMA PendingPosted ==
  ASSUME ControlInv
  PROVE  /\ Pending \in Seq(Msg)
         /\ VoteOK(Pending, mPowerVoteId, Held)
         /\ MatchOK(Pending, control.session, control.reqs, Answering)
         /\ LockOK(Pending, GPS_LOCK, wanted.lock)
         /\ ServerOK(Pending, engine.server, Excused(AGPS_CONFIG_INJECT, refused), NamedLast(wanted))
         /\ \A s : (\A i \in 1..Len(msgs) : ~ForSession(msgs[i], s)) =>
                   \A i \in 1..Len(Pending) : ~ForSession(Pending[i], s)
<1>1. /\ msgs \in Seq(Msg) /\ VoteOK(msgs, mPowerVoteId, Held)
      /\ MatchOK(msgs, control.session, control.reqs, Answering)
      /\ control.reqs \in Seq(Requests) /\ Answering \in Nat
  BY RequestsMatchIs DEF ControlInv, TypeOK, VoteInv, Answering
<1>2. LockOK(msgs, GPS_LOCK, IF mPendingConfig = NULL THEN wanted.lock ELSE GPS_LOCK)
  <2>1. CASE mApi
    BY <2>1 DEF ControlInv, ConfigInv, StartInv
  <2>2. CASE ~mApi
    <3>1. msgs = <<>> /\ (mPendingConfig = NULL => wanted.lock = GPS_LOCK)
      BY <2>2 DEF ControlInv, StartInv
    <3> QED
      BY <3>1, Empty DEF LockOK
  <2> QED
    BY <2>1, <2>2
<1>3. ServerOK(msgs, engine.server, Excused(AGPS_CONFIG_INJECT, refused), IF mPendingConfig = NULL THEN NamedLast(wanted) ELSE engine.server)
  <2>1. CASE mApi
    BY <2>1 DEF ControlInv, ConfigInv, StartInv
  <2>2. CASE ~mApi
    <3>1. msgs = <<>> /\ (mPendingConfig = NULL => NamedLast(wanted) = engine.server)
      BY <2>2 DEF ControlInv, StartInv
    <3> QED
      BY <3>1, Empty DEF ServerOK
  <2> QED
    BY <2>1, <2>2
<1>4. CASE mPendingConfig = NULL
  BY <1>1, <1>2, <1>3, <1>4 DEF Pending
<1>5. CASE mPendingConfig # NULL
  <2> DEFINE m == ConfigMsg(mPendingConfig)
  <2>1. mPendingConfig \in Configs
    BY <1>5 DEF ControlInv, TypeOK
  <2>2. m \in Msg \ ControlMsgs /\ \A s : ~ForSession(m, s)
    BY <2>1, ConfigMade
  <2>3. ~mApi
    BY <1>5 DEF ControlInv, StartInv
  <2>4. /\ wanted.lock = IF mPendingConfig.lock # NULL THEN mPendingConfig.lock ELSE GPS_LOCK
        /\ NamedLast(wanted) = mPendingConfig.server /\ engine.server = NULL
    BY <1>5, <2>3 DEF ControlInv, StartInv
  <2>5. Pending = Append(msgs, m)
    BY <1>5 DEF Pending, ConfigMsg
  <2> HIDE DEF m
  <2>6. VoteOK(Pending, mPowerVoteId, Held)
    BY <1>1, <2>2, <2>5, VoteConfig
  <2>7. MatchOK(Pending, control.session, control.reqs, Answering)
    BY <1>1, <2>2, <2>5, MatchAppended
  <2>8. /\ LockOK(Append(msgs, m), GPS_LOCK, IF mPendingConfig.lock # NULL THEN mPendingConfig.lock ELSE GPS_LOCK)
        /\ ServerOK(Append(msgs, m), engine.server, Excused(AGPS_CONFIG_INJECT, refused),
                    IF mPendingConfig.server # NULL THEN mPendingConfig.server ELSE engine.server)
    BY <1>1, <1>2, <1>3, <1>5, <2>1, ConfigPosted DEF m
  <2>9. LockOK(Pending, GPS_LOCK, wanted.lock) /\ ServerOK(Pending, engine.server, Excused(AGPS_CONFIG_INJECT, refused), NamedLast(wanted))
    BY <2>4, <2>5, <2>8
  <2>10. /\ Pending \in Seq(Msg) /\ Len(msgs) \in Nat /\ Len(Pending) = Len(msgs) + 1
         /\ Pending[Len(msgs) + 1] = m /\ \A i \in 1..Len(msgs) : Pending[i] = msgs[i]
    BY <1>1, <2>2, <2>5, Appended
  <2>11. \A i \in 1..Len(Pending) : i \in 1..Len(msgs) \/ i = Len(msgs) + 1
    BY <2>10
  <2> QED
    BY <2>2, <2>6, <2>7, <2>9, <2>10, <2>11
<1> QED
  BY <1>4, <1>5

\* What getApi() leaves, whatever is posted after the configuration.
LEMMA ApiMade ==
  ASSUME ControlInv, GetApi, UNCHANGED <<adapter, wanted>>
  PROVE  /\ mApi' /\ mPendingConfig' = NULL /\ StartInv' /\ EngineInv'
         /\ mConfig' \in Configs \cup {NULL} /\ configReqs' \in Nat
         /\ mConfig' # NULL /\ mConfig'.lock # NULL => mConfig'.lock = wanted'.lock
<1>1. mApi' /\ mPendingConfig' = NULL
  BY DEF GetApi
<1>2. StartInv' /\ EngineInv'
  BY <1>1 DEF ControlInv, StartInv, EngineInv, adapter
<1>3. CASE mPendingConfig = NULL
  BY <1>1, <1>2, <1>3 DEF GetApi, ControlInv, TypeOK, ConfigInv
<1>4. CASE mPendingConfig # NULL
  <2>1. mConfig' = mPendingConfig /\ configReqs' = configReqs + 1 /\ ~mApi
    BY <1>4 DEF GetApi, ControlInv, StartInv
  <2>2. mPendingConfig.lock # NULL => mPendingConfig.lock = wanted.lock
    BY <1>4, <2>1 DEF ControlInv, StartInv
  <2> QED
    BY <1>1, <1>2, <2>1, <2>2 DEF ControlInv, TypeOK
<1> QED
  BY <1>3, <1>4

LEMMA NiCbStep == ControlInv /\ SetGnssNiCb => ControlInv'
<1> SUFFICES ASSUME ControlInv, SetGnssNiCb PROVE ControlInv'
  OBVIOUS
<1>1. /\ GetApi /\ msgs' = Pending
      /\ UNCHANGED <<mEnabled, control, adapter, responding, wanted>>
  BY DEF SetGnssNiCb
<1>2. /\ mApi' /\ mPendingConfig' = NULL /\ StartInv' /\ EngineInv'
      /\ mConfig' \in Configs \cup {NULL} /\ configReqs' \in Nat
      /\ mConfig' # NULL /\ mConfig'.lock # NULL => mConfig'.lock = wanted'.lock
  BY <1>1, ApiMade
<1>3. /\ Pending \in Seq(Msg) /\ VoteOK(Pending, mPowerVoteId, Held)
      /\ MatchOK(Pending, control.session, control.reqs, Answering)
      /\ LockOK(Pending, GPS_LOCK, wanted.lock)
      /\ ServerOK(Pending, engine.server, Excused(AGPS_CONFIG_INJECT, refused), NamedLast(wanted))
  BY PendingPosted
<1>4. TypeOK'
  BY <1>1, <1>2, <1>3 DEF ControlInv, TypeOK, adapter
<1>5. VoteInv'
  BY <1>1, <1>3 DEF ControlInv, VoteInv, Held, adapter
<1>6. RequestsMatch'
  BY <1>1, <1>3 DEF RequestsMatch, MatchOK, Answering
<1>7. ConfigInv'
  BY <1>1, <1>2, <1>3 DEF ConfigInv, adapter
<1> QED
  BY <1>2, <1>4, <1>5, <1>6, <1>7 DEF ControlInv

LEMMA CallbackStep ==
  ASSUME ControlInv, NEW s \in SessionIds, SetCallback(s) PROVE ControlInv'
<1> DEFINE m == ControlMsg("enable", s)
<1>1. /\ NewSession(s) /\ GetApi /\ Enable(Pending, s)
      /\ UNCHANGED <<adapter, responding, wanted>>
  BY DEF SetCallback
<1>2. /\ mApi' /\ mPendingConfig' = NULL /\ StartInv' /\ EngineInv'
      /\ mConfig' \in Configs \cup {NULL} /\ configReqs' \in Nat
      /\ mConfig' # NULL /\ mConfig'.lock # NULL => mConfig'.lock = wanted'.lock
  BY <1>1, ApiMade
<1>3. /\ Pending \in Seq(Msg) /\ VoteOK(Pending, mPowerVoteId, Held)
      /\ MatchOK(Pending, control.session, control.reqs, Answering)
      /\ LockOK(Pending, GPS_LOCK, wanted.lock)
      /\ ServerOK(Pending, engine.server, Excused(AGPS_CONFIG_INJECT, refused), NamedLast(wanted))
      /\ \A r : (\A i \in 1..Len(msgs) : ~ForSession(msgs[i], r)) =>
                \A i \in 1..Len(Pending) : ~ForSession(Pending[i], r)
  BY PendingPosted
<1>4. CASE mEnabled
  <2>1. msgs' = Pending /\ UNCHANGED <<mEnabled, control>>
    BY <1>1, <1>4 DEF Enable
  <2>2. TypeOK'
    BY <1>1, <1>2, <1>3, <2>1 DEF ControlInv, TypeOK, adapter
  <2>3. VoteInv'
    BY <1>1, <1>3, <2>1 DEF ControlInv, VoteInv, Held, adapter
  <2>4. RequestsMatch'
    BY <1>1, <1>3, <2>1 DEF RequestsMatch, MatchOK, Answering
  <2>5. ConfigInv'
    BY <1>1, <1>2, <1>3, <2>1 DEF ConfigInv, adapter
  <2> QED
    BY <1>2, <2>2, <2>3, <2>4, <2>5 DEF ControlInv
<1>5. CASE ~mEnabled
  <2>1. /\ msgs' = Append(Pending, m) /\ mEnabled' = TRUE
        /\ control' = [session |-> s, reqs |-> <<"enable">>]
    BY <1>1, <1>5 DEF Enable, ControlMsg
  <2>2. /\ m \in ControlMsgs /\ m \in Msg /\ m \notin LockMsgs /\ m \notin ServerMsgs
        /\ m.type = "enable" /\ m.session = s /\ ForSession(m, s)
    BY ControlMade DEF Requests
  <2> HIDE DEF m
  <2>3. control'.session = s /\ control'.reqs = <<"enable">>
        /\ control' \in [session : SessionIds \cup {NoSession}, reqs : Seq(Requests)]
    BY <2>1 DEF Requests
  <2>4. msgs' \in Seq(Msg)
    BY <1>3, <2>1, <2>2, Appended
  <2>5. TypeOK'
    BY <1>1, <1>2, <2>1, <2>3, <2>4 DEF ControlInv, TypeOK, adapter
  <2>6. VoteInv'
    <3>1. Takes(m, Held) /\ After(m) = s
      BY <1>5, <2>2 DEF Takes, After, Held
    <3>2. VoteOK(msgs', mPowerVoteId, s)
      BY <1>3, <2>1, <2>2, <3>1, VoteControl
    <3> QED
      BY <1>1, <2>1, <2>3, <3>2 DEF VoteInv, Held, adapter
  <2>7. RequestsMatch'
    <3>1. responding # s /\ \A i \in 1..Len(msgs) : ~ForSession(msgs[i], s)
      BY <1>1 DEF NewSession, Used, ForSession, ControlInv, TypeOK
    <3>2. MatchOK(msgs', s, <<"enable">>, 0)
      BY <1>3, <2>1, <2>2, <3>1, MatchFresh DEF Requests
    <3>3. responding' # s
      BY <1>1, <3>1
    <3> QED
      BY <2>3, <3>2, <3>3 DEF RequestsMatch, MatchOK
  <2>8. ConfigInv'
    <3>1. LockOK(msgs', GPS_LOCK, wanted.lock) /\ ServerOK(msgs', engine.server, Excused(AGPS_CONFIG_INJECT, refused), NamedLast(wanted))
      BY <1>3, <2>1, <2>2, ControlPosted
    <3> QED
      BY <1>1, <1>2, <3>1 DEF ConfigInv, adapter
  <2> QED
    BY <1>2, <2>5, <2>6, <2>7, <2>8 DEF ControlInv
<1> QED
  BY <1>4, <1>5 DEF ControlInv, TypeOK

LEMMA CleanupStep == ControlInv /\ Cleanup => ControlInv'
<1> SUFFICES ASSUME ControlInv, Cleanup PROVE ControlInv'
  OBVIOUS
<1> DEFINE s == control.session
           m == ControlMsg("disable", s)
<1>1. mApi /\ Disable /\ UNCHANGED <<service, mConfig, configReqs, adapter, responding>>
  BY DEF Cleanup
<1>2. CASE ~mEnabled
  <2>1. UNCHANGED <<control, msgs, mEnabled>>
    BY <1>1, <1>2 DEF Disable
  <2>2. UNCHANGED vars
    BY <1>1, <2>1 DEF vars, service, client
  <2> QED
    BY <2>2 DEF ControlInv, TypeOK, StartInv, VoteInv, Held, RequestsMatch, ConfigInv, EngineInv,
       vars, service, client, adapter, Place
<1>3. CASE mEnabled
  <2>1. /\ control' = [control EXCEPT !.reqs = Append(@, "disable")]
        /\ msgs' = Append(msgs, m) /\ mEnabled' = FALSE
    BY <1>1, <1>3 DEF Disable, ControlMsg
  <2>2. s \in SessionIds
    BY <1>3 DEF ControlInv, VoteInv
  <2>3. /\ m \in ControlMsgs /\ m \in Msg /\ m \notin LockMsgs /\ m \notin ServerMsgs
        /\ m.type = "disable" /\ m.session = s /\ ForSession(m, s)
    BY <2>2, ControlMade DEF Requests
  <2> HIDE DEF m
  <2>4. /\ msgs \in Seq(Msg) /\ control.reqs \in Seq(Requests)
        /\ control \in [session : SessionIds \cup {NoSession}, reqs : Seq(Requests)]
    BY DEF ControlInv, TypeOK
  <2>5. Append(control.reqs, "disable") \in Seq(Requests)
    BY <2>4, Appended DEF Requests
  <2>6. /\ control'.session = s /\ control'.reqs = Append(control.reqs, "disable")
        /\ control' \in [session : SessionIds \cup {NoSession}, reqs : Seq(Requests)]
    BY <2>1, <2>4, <2>5
  <2>7. msgs' \in Seq(Msg) /\ msgs' # <<>>
    BY <2>1, <2>3, <2>4, Appended
  <2>8. TypeOK'
    <3>1. UNCHANGED <<mApi, mPendingConfig, mConfig, configReqs, responding, mPowerVoteId,
                      GPS_LOCK, AGPS_CONFIG_INJECT, engine, refused, wanted>>
      BY <1>1 DEF service, adapter
    <3>2. mEnabled' \in BOOLEAN
      BY <2>1
    <3> QED
      BY <2>6, <2>7, <3>1, <3>2 DEF ControlInv, TypeOK
  <2>9. StartInv' /\ EngineInv'
    BY <1>1 DEF ControlInv, StartInv, EngineInv, service, adapter
  <2>10. VoteInv'
    <3>1. Takes(m, Held) /\ After(m) = NoSession
      BY <1>3, <2>3 DEF Takes, After, Held
    <3>2. VoteOK(msgs', mPowerVoteId, NoSession)
      BY <2>1, <2>3, <2>4, <3>1, VoteControl DEF ControlInv, VoteInv
    <3> QED
      BY <1>1, <2>1, <3>2 DEF VoteInv, Held, adapter
  <2>11. RequestsMatch'
    <3>1. MatchOK(msgs, s, control.reqs, Answering) /\ Answering \in Nat
      BY RequestsMatchIs DEF ControlInv, Answering
    <3>2. MatchOK(msgs', s, Append(control.reqs, "disable"), Answering)
      BY <2>1, <2>3, <2>4, <3>1, MatchAppended DEF Requests
    <3>3. Answering' = Answering
      BY <1>1, <2>6 DEF Answering
    <3> QED
      BY <2>6, <3>2, <3>3 DEF RequestsMatch, MatchOK, Answering
  <2>12. ConfigInv'
    <3>1. LockOK(msgs', GPS_LOCK, wanted.lock) /\ ServerOK(msgs', engine.server, Excused(AGPS_CONFIG_INJECT, refused), NamedLast(wanted))
      BY <1>1, <2>1, <2>3, <2>4, ControlPosted DEF ControlInv, ConfigInv
    <3> QED
      BY <1>1, <3>1 DEF ControlInv, ConfigInv, service, adapter
  <2> QED
    BY <2>8, <2>9, <2>10, <2>11, <2>12 DEF ControlInv
<1> QED
  BY <1>2, <1>3 DEF ControlInv, TypeOK

LEMMA UpdateStep ==
  ASSUME ControlInv, NEW config \in Configs, UpdateConfiguration(config)
  PROVE  ControlInv'
<1> DEFINE lock == IF config.lock # NULL THEN config.lock ELSE wanted.lock
<1>1. /\ IF mApi THEN UpdateConfig(config) /\ UNCHANGED mPendingConfig
               ELSE mPendingConfig' = Merged(config) /\ UNCHANGED <<mConfig, configReqs, msgs>>
      /\ wanted' = [lock   |-> lock,
                    server |-> IF config.server = NULL THEN wanted.server ELSE config.server,
                    early  |-> IF config.server = NULL THEN wanted.early ELSE ~mApi]
      /\ UNCHANGED <<mApi, mEnabled, control, adapter, responding>>
  BY DEF UpdateConfiguration
<1>2. /\ config.lock \in Locks \cup {NULL} /\ config.server \in Servers \cup {NoServer, NULL}
      /\ config # NULL
  BY ControlAssumption DEF Configs
<1>3. /\ wanted.lock \in Locks /\ wanted.server \in Servers \cup {NoServer, NULL} /\ wanted.early \in BOOLEAN
      /\ msgs \in Seq(Msg) /\ control.reqs \in Seq(Requests)
      /\ mApi \in BOOLEAN /\ configReqs \in Nat
  BY DEF ControlInv, TypeOK
<1>4. /\ wanted'.lock = lock
      /\ wanted'.server = IF config.server = NULL THEN wanted.server ELSE config.server
      /\ wanted'.early = IF config.server = NULL THEN wanted.early ELSE ~mApi
      /\ wanted' \in [lock : Locks, server : Servers \cup {NoServer, NULL}, early : BOOLEAN]
  BY <1>1, <1>2, <1>3
<1>5. EngineInv'
  BY <1>1 DEF ControlInv, EngineInv, adapter
<1>6. CASE ~mApi
  <2>1. mPendingConfig' = Merged(config) /\ UNCHANGED <<mConfig, configReqs, msgs>>
    BY <1>1, <1>6
  <2>2. mPendingConfig = NULL \/ mPendingConfig \in Configs
    BY DEF ControlInv, TypeOK
  <2> DEFINE old == IF mPendingConfig = NULL THEN [lock |-> NULL, server |-> NULL] ELSE mPendingConfig
  <2>3. old \in Configs
    BY <2>2 DEF Configs
  <2>4. /\ wanted.lock = IF old.lock # NULL THEN old.lock ELSE GPS_LOCK
        /\ NamedLast(wanted) = old.server
        /\ old.server \in {NULL, NoServer}
    BY <1>6 DEF ControlInv, StartInv
  <2>5. old.lock \in Locks \cup {NULL}
    BY <2>3 DEF Configs
  <2>6. Merged(config) = [lock   |-> IF config.lock # NULL THEN config.lock ELSE old.lock,
                          server |-> IF config.server # NULL THEN NoServer ELSE old.server]
    BY DEF Merged
  <2> HIDE DEF old
  <2>7. /\ Merged(config) \in Configs /\ Merged(config) # NULL
        /\ Merged(config).lock = IF config.lock # NULL THEN config.lock ELSE old.lock
        /\ Merged(config).server = IF config.server # NULL THEN NoServer ELSE old.server
    <3>1. Merged(config) \in Configs
      BY <1>2, <2>4, <2>5, <2>6 DEF Configs
    <3> QED
      BY <2>6, <3>1, ControlAssumption
  <2>8. TypeOK'
    BY <1>1, <1>4, <2>1, <2>7 DEF ControlInv, TypeOK, adapter
  <2>9. StartInv'
    <3>1. wanted'.lock = IF Merged(config).lock # NULL THEN Merged(config).lock ELSE GPS_LOCK
      BY <1>4, <2>4, <2>7
    <3>2. NamedLast(wanted') = Merged(config).server /\ Merged(config).server \in {NULL, NoServer}
      BY <1>4, <1>6, <2>4, <2>7 DEF NamedLast
    <3> QED
      BY <1>1, <1>6, <2>1, <2>7, <3>1, <3>2 DEF ControlInv, StartInv, adapter
  <2>10. VoteInv'
    BY <1>1, <2>1 DEF ControlInv, VoteInv, Held, adapter
  <2>11. RequestsMatch'
    BY <1>1, <2>1 DEF ControlInv, RequestsMatch, Place
  <2>12. ConfigInv'
    BY <1>1, <1>6, <2>1 DEF ControlInv, StartInv, ConfigInv
  <2> QED
    BY <1>5, <2>8, <2>9, <2>10, <2>11, <2>12 DEF ControlInv
<1>7. CASE mApi
  <2>1. UpdateConfig(config) /\ UNCHANGED <<mPendingConfig, mApi>>
    BY <1>1, <1>7
  <2>2. NamedLast(wanted') = IF config.server # NULL THEN config.server ELSE NamedLast(wanted)
    BY <1>4, <1>7 DEF NamedLast
  <2>3. StartInv'
    BY <1>7, <2>1 DEF ControlInv, StartInv
  <2>4. CASE Identical(config)
    <3>1. UNCHANGED <<mConfig, configReqs, msgs>>
      BY <2>1, <2>4 DEF UpdateConfig
    <3>2. config.server = NULL /\ config = mConfig
      BY <2>4 DEF Identical
    <3>3. wanted'.lock = wanted.lock /\ NamedLast(wanted') = NamedLast(wanted)
      BY <1>2, <1>4, <2>2, <3>2 DEF ControlInv, ConfigInv
    <3>4. TypeOK'
      BY <1>1, <1>4, <2>1, <3>1 DEF ControlInv, TypeOK, adapter
    <3>5. VoteInv'
      BY <1>1, <3>1 DEF ControlInv, VoteInv, Held, adapter
    <3>6. RequestsMatch'
      BY <1>1, <3>1 DEF ControlInv, RequestsMatch, Place
    <3>7. ConfigInv'
      BY <1>1, <3>1, <3>3 DEF ControlInv, ConfigInv, adapter
    <3> QED
      BY <1>5, <2>3, <3>4, <3>5, <3>6, <3>7 DEF ControlInv
  <2>5. CASE ~Identical(config)
    <3> DEFINE m == ConfigMsg(config)
    <3>1. mConfig' = config /\ msgs' = Append(msgs, m) /\ configReqs' = configReqs + 1
      BY <2>1, <2>5 DEF UpdateConfig, ConfigMsg
    <3>2. m \in Msg \ ControlMsgs /\ \A s : ~ForSession(m, s)
      BY ConfigMade
    <3>3. /\ LockOK(Append(msgs, m), GPS_LOCK, lock)
          /\ ServerOK(Append(msgs, m), engine.server, Excused(AGPS_CONFIG_INJECT, refused),
                      IF config.server # NULL THEN config.server ELSE NamedLast(wanted))
      BY <1>3, <1>7, ConfigPosted DEF ControlInv, ConfigInv
    <3> HIDE DEF m
    <3>4. msgs' \in Seq(Msg)
      BY <1>3, <3>1, <3>2, Appended
    <3>5. TypeOK'
      BY <1>1, <1>3, <1>4, <2>1, <3>1, <3>4 DEF ControlInv, TypeOK, adapter
    <3>6. VoteInv'
      <4>1. VoteOK(msgs', mPowerVoteId, Held)
        BY <1>3, <3>1, <3>2, VoteConfig DEF ControlInv, VoteInv
      <4> QED
        BY <1>1, <4>1 DEF ControlInv, VoteInv, Held, adapter
    <3>7. RequestsMatch'
      <4>1. MatchOK(msgs, control.session, control.reqs, Answering) /\ Answering \in Nat
        BY RequestsMatchIs DEF ControlInv, Answering
      <4>2. MatchOK(msgs', control.session, control.reqs, Answering)
        BY <1>3, <3>1, <3>2, <4>1, MatchAppended
      <4> QED
        BY <1>1, <4>2 DEF RequestsMatch, MatchOK, Answering
    <3>8. ConfigInv'
      BY <1>1, <1>4, <2>2, <3>1, <3>3 DEF ConfigInv, adapter
    <3> QED
      BY <1>5, <2>3, <3>5, <3>6, <3>7, <3>8 DEF ControlInv
  <2> QED
    BY <2>4, <2>5
<1> QED
  BY <1>3, <1>6, <1>7

-----------------------------------------------------------------------------
(***************************************************************************)
(* Handlers and responses.                                                 *)
(***************************************************************************)
LEMMA TakeStep ==
  ASSUME ControlInv, responding = NULL, msgs # <<>>, msgs' = Tail(msgs),
         UNCHANGED <<service, client>>, NEW h, h = Head(msgs)
  PROVE  /\ h \in Msg /\ msgs' \in Seq(Msg) /\ mApi /\ StartInv'
         /\ h \in ControlMsgs => Takes(h, mPowerVoteId)
         /\ VoteOK(msgs', IF h \in ControlMsgs THEN After(h) ELSE mPowerVoteId, Held)
         /\ MatchOK(msgs', control.session, control.reqs,
                    IF ForSession(h, control.session) THEN 1 ELSE 0)
         /\ LockOK(msgs', IF h \in LockMsgs THEN h.config.lock ELSE GPS_LOCK, wanted.lock)
<1>1. msgs \in Seq(Msg) /\ mApi /\ control.session # NULL
  BY ControlAssumption DEF ControlInv, TypeOK, StartInv
<1>2. h \in Msg /\ msgs' \in Seq(Msg)
  BY <1>1, HeadTail
<1>3. StartInv'
  BY <1>1 DEF ControlInv, StartInv, service
<1>4. /\ h \in ControlMsgs => Takes(h, mPowerVoteId)
      /\ VoteOK(msgs', IF h \in ControlMsgs THEN After(h) ELSE mPowerVoteId, Held)
  BY <1>1, VoteTail DEF ControlInv, VoteInv
<1>5. MatchOK(msgs, control.session, control.reqs, 0)
  BY <1>1, RequestsMatchIs DEF ControlInv, Answering
<1>6. MatchOK(msgs', control.session, control.reqs, IF ForSession(h, control.session) THEN 1 ELSE 0)
  BY <1>1, <1>5, MatchTail
<1>7. LockOK(msgs', IF h \in LockMsgs THEN h.config.lock ELSE GPS_LOCK, wanted.lock)
  BY <1>1, LockTaken DEF ControlInv, ConfigInv
<1> QED
  BY <1>1, <1>2, <1>3, <1>4, <1>6, <1>7

\* Enable and disable: the vote is taken, and the engine told the lock l.
LEMMA VoteStep ==
  ASSUME ControlInv, NEW type \in Requests, Handle(type), responding' = Head(msgs).session,
         NEW ok \in BOOLEAN, NEW vote \in BOOLEAN, NEW l \in Locks, TellLock(l, vote, ok),
         mPowerVoteId' = After(Head(msgs)),
         l = IF mPowerVoteId' # NoSession THEN NoLock ELSE GPS_LOCK,
         UNCHANGED <<GPS_LOCK, AGPS_CONFIG_INJECT, service, client>>
  PROVE  ControlInv'
<1> DEFINE h == Head(msgs)
<1>1. responding = NULL /\ msgs # <<>> /\ msgs' = Tail(msgs) /\ h.type = type
  BY DEF Handle
<1>2. type # "config"
  BY DEF Requests
<1>3. /\ h \in Msg /\ msgs' \in Seq(Msg) /\ mApi /\ StartInv'
      /\ VoteOK(msgs', IF h \in ControlMsgs THEN After(h) ELSE mPowerVoteId, Held)
      /\ MatchOK(msgs', control.session, control.reqs,
                 IF ForSession(h, control.session) THEN 1 ELSE 0)
      /\ LockOK(msgs', IF h \in LockMsgs THEN h.config.lock ELSE GPS_LOCK, wanted.lock)
  BY <1>1, TakeStep
<1>4. h.session \in SessionIds /\ h \in ControlMsgs /\ h \notin LockMsgs /\ h \notin ServerMsgs
  BY <1>1, <1>2, <1>3, MsgFields
<1>5. /\ engine' = [engine EXCEPT !.lock = IF ok THEN l ELSE @, !.vote = vote]
      /\ refused' = IF ok THEN refused \ {"lock"} ELSE refused \cup {"lock"}
  BY DEF TellLock
<1>6. engine \in [lock : Locks \cup {NULL}, server : Servers \cup {NoServer, NULL}, vote : BOOLEAN]
  BY DEF ControlInv, TypeOK
<1>7. /\ engine' \in [lock : Locks \cup {NULL}, server : Servers \cup {NoServer, NULL}, vote : BOOLEAN]
      /\ ok => engine'.lock = l
      /\ engine'.server = engine.server
  BY <1>5, <1>6
<1>8. ok \/ "lock" \in refused'
  BY <1>5
<1>9. ServerOK(msgs', engine'.server, Excused(AGPS_CONFIG_INJECT, refused'), NamedLast(wanted))
  <2>1. "server" \in Excused(AGPS_CONFIG_INJECT, refused') <=> "server" \in Excused(AGPS_CONFIG_INJECT, refused)
    BY <1>5 DEF Excused
  <2>2. msgs \in Seq(Msg) /\ ServerOK(msgs, engine.server, Excused(AGPS_CONFIG_INJECT, refused), NamedLast(wanted))
    BY <1>3 DEF ControlInv, TypeOK, ConfigInv
  <2>3. ServerOK(Tail(msgs), engine'.server, Excused(AGPS_CONFIG_INJECT, refused'), NamedLast(wanted))
    BY <1>1, <1>4, <1>7, <2>1, <2>2, ServerTaken
  <2> QED
    BY <1>1, <2>3
<1> HIDE DEF h
<1>10. TypeOK'
  <2>1. mPowerVoteId' \in SessionIds \cup {NoSession}
    BY <1>4 DEF After, h
  <2>2. refused' \subseteq {"lock", "server"}
    BY <1>5 DEF ControlInv, TypeOK
  <2>3. responding' \in SessionIds
    BY <1>4 DEF h
  <2> QED
    BY <1>3, <1>7, <2>1, <2>2, <2>3 DEF ControlInv, TypeOK, service, client
<1>11. VoteInv'
  BY <1>3, <1>4 DEF ControlInv, VoteInv, Held, client, h
<1>12. RequestsMatch'
  <2>1. responding' = control.session <=> ForSession(h, control.session)
    BY <1>1, <1>2 DEF ForSession, h
  <2> QED
    BY <1>3, <2>1 DEF RequestsMatch, MatchOK, client
<1>13. ConfigInv'
  BY <1>3, <1>4, <1>9 DEF ControlInv, ConfigInv, service, client
<1>14. EngineInv'
  BY <1>7, <1>8 DEF EngineInv
<1> QED
  BY <1>3, <1>10, <1>11, <1>12, <1>13, <1>14 DEF ControlInv

LEMMA EnableStep == ControlInv /\ ProcEnable => ControlInv'
<1> SUFFICES ASSUME ControlInv, ProcEnable PROVE ControlInv'
  OBVIOUS
<1>1. /\ Handle("enable") /\ responding' = Head(msgs).session
      /\ UNCHANGED <<service, client>>
  BY DEF ProcEnable
<1>2. /\ responding = NULL /\ msgs # <<>> /\ msgs' = Tail(msgs)
      /\ Head(msgs).type = "enable"
  BY <1>1 DEF Handle
<1>3. Head(msgs) \in Msg /\ (Head(msgs) \in ControlMsgs => Takes(Head(msgs), mPowerVoteId))
  BY <1>1, <1>2, TakeStep
<1>4. Head(msgs).session \in SessionIds /\ Head(msgs) \in ControlMsgs
  BY <1>2, <1>3, MsgFields
<1>5. mPowerVoteId = NoSession
  BY <1>2, <1>3, <1>4 DEF Takes
<1>6. PICK ok \in BOOLEAN : TellLock(NoLock, TRUE, ok)
  BY <1>5 DEF ProcEnable
<1>7. mPowerVoteId' = Head(msgs).session /\ UNCHANGED <<GPS_LOCK, AGPS_CONFIG_INJECT>>
  BY <1>5 DEF ProcEnable
<1>8. mPowerVoteId' = After(Head(msgs)) /\ mPowerVoteId' # NoSession
  BY <1>2, <1>4, <1>7, ControlAssumption DEF After
<1>9. NoLock \in Locks /\ "enable" \in Requests /\ TRUE \in BOOLEAN
  BY ControlAssumption DEF Requests
<1> QED
  BY <1>1, <1>6, <1>7, <1>8, <1>9, VoteStep

LEMMA DisableStep == ControlInv /\ ProcDisable => ControlInv'
<1> SUFFICES ASSUME ControlInv, ProcDisable PROVE ControlInv'
  OBVIOUS
<1>1. /\ Handle("disable") /\ responding' = Head(msgs).session
      /\ UNCHANGED <<service, client>>
  BY DEF ProcDisable
<1>2. /\ responding = NULL /\ msgs # <<>> /\ msgs' = Tail(msgs)
      /\ Head(msgs).type = "disable"
  BY <1>1 DEF Handle
<1>3. Head(msgs) \in Msg /\ (Head(msgs) \in ControlMsgs => Takes(Head(msgs), mPowerVoteId))
  BY <1>1, <1>2, TakeStep
<1>4. Head(msgs) \in ControlMsgs
  BY <1>2, <1>3, MsgFields
<1>5. mPowerVoteId = Head(msgs).session
  BY <1>2, <1>3, <1>4 DEF Takes
<1>6. PICK ok \in BOOLEAN : TellLock(GPS_LOCK, FALSE, ok)
  BY <1>5 DEF ProcDisable
<1>7. mPowerVoteId' = NoSession /\ UNCHANGED <<GPS_LOCK, AGPS_CONFIG_INJECT>>
  BY <1>5 DEF ProcDisable
<1>8. mPowerVoteId' = After(Head(msgs))
  BY <1>2, <1>7 DEF After
<1>9. GPS_LOCK \in Locks /\ "disable" \in Requests /\ FALSE \in BOOLEAN
  BY DEF Requests, ControlInv, TypeOK
<1> QED
  BY <1>1, <1>6, <1>7, <1>8, <1>9, VoteStep

LEMMA ConfigStep == ControlInv /\ ProcConfig => ControlInv'
<1> SUFFICES ASSUME ControlInv, ProcConfig PROVE ControlInv'
  OBVIOUS
<1> DEFINE h == Head(msgs)
           config == h.config
           lock == config.lock # NULL /\ mPowerVoteId = NoSession
           server == config.server # NULL /\ AGPS_CONFIG_INJECT
<1>1. /\ Handle("config") /\ responding' = "config"
      /\ GPS_LOCK' = IF config.lock # NULL THEN config.lock ELSE GPS_LOCK
      /\ TellConfig(config)
      /\ UNCHANGED <<service, client, mPowerVoteId, AGPS_CONFIG_INJECT>>
  BY DEF ProcConfig
<1>2. responding = NULL /\ msgs # <<>> /\ msgs' = Tail(msgs) /\ h.type = "config"
  BY <1>1 DEF Handle
<1>3. /\ h \in Msg /\ msgs' \in Seq(Msg) /\ mApi /\ StartInv'
      /\ VoteOK(msgs', IF h \in ControlMsgs THEN After(h) ELSE mPowerVoteId, Held)
      /\ MatchOK(msgs', control.session, control.reqs,
                 IF ForSession(h, control.session) THEN 1 ELSE 0)
      /\ LockOK(msgs', IF h \in LockMsgs THEN h.config.lock ELSE GPS_LOCK, wanted.lock)
  BY <1>1, <1>2, TakeStep
<1>4. /\ config \in Configs /\ h \notin ControlMsgs /\ ~ForSession(h, control.session)
      /\ h \in LockMsgs <=> config.lock # NULL
      /\ h \in ServerMsgs <=> config.server # NULL
  BY <1>2, <1>3, MsgFields DEF ForSession, LockMsgs, ServerMsgs
<1>5. config.lock \in Locks \cup {NULL} /\ config.server \in Servers \cup {NoServer, NULL}
  BY <1>4 DEF Configs
<1>6. PICK okLock \in BOOLEAN, okServer \in IF config.server \in LongServers THEN {FALSE} ELSE BOOLEAN :
        /\ engine' = [engine EXCEPT !.lock   = IF lock /\ okLock THEN config.lock ELSE @,
                                    !.server = IF server /\ okServer THEN config.server ELSE @]
        /\ refused' = (refused \ ((IF lock THEN {"lock"} ELSE {}) \cup (IF server THEN {"server"} ELSE {})))
                        \cup (IF lock /\ ~okLock THEN {"lock"} ELSE {})
                        \cup (IF server /\ ~okServer THEN {"server"} ELSE {})
  BY <1>1 DEF TellConfig, TellItems
<1>7. engine \in [lock : Locks \cup {NULL}, server : Servers \cup {NoServer, NULL}, vote : BOOLEAN]
  BY DEF ControlInv, TypeOK
<1> HIDE DEF config, h
<1>8. /\ engine' \in [lock : Locks \cup {NULL}, server : Servers \cup {NoServer, NULL}, vote : BOOLEAN]
      /\ engine'.lock = IF lock /\ okLock THEN config.lock ELSE engine.lock
      /\ engine'.server = IF server /\ okServer THEN config.server ELSE engine.server
  BY <1>5, <1>6, <1>7
<1>9. /\ "lock" \in refused' <=> IF lock THEN ~okLock ELSE "lock" \in refused
      /\ "server" \in refused' <=> IF server THEN ~okServer ELSE "server" \in refused
  BY <1>6
<1>10. TypeOK'
  <2>1. refused' \subseteq {"lock", "server"}
    BY <1>6 DEF ControlInv, TypeOK
  <2>2. GPS_LOCK' \in Locks
    BY <1>1, <1>5 DEF ControlInv, TypeOK
  <2> QED
    BY <1>1, <1>3, <1>8, <2>1, <2>2 DEF ControlInv, TypeOK, service, client
<1>11. VoteInv'
  BY <1>1, <1>3, <1>4 DEF ControlInv, VoteInv, Held, client
<1>12. RequestsMatch'
  <2>1. responding' # control.session
    BY <1>1, ControlAssumption DEF ControlInv, TypeOK
  <2> QED
    BY <1>1, <1>3, <1>4, <2>1 DEF RequestsMatch, MatchOK, client
<1>13. ConfigInv'
  <2>1. LockOK(msgs', GPS_LOCK', wanted.lock)
    BY <1>1, <1>3, <1>4 DEF config
  <2>2. msgs \in Seq(Msg) /\ ServerOK(msgs, engine.server, Excused(AGPS_CONFIG_INJECT, refused), NamedLast(wanted))
    BY <1>3 DEF ControlInv, TypeOK, ConfigInv
  <2> DEFINE before == Excused(AGPS_CONFIG_INJECT, refused)
             after  == Excused(AGPS_CONFIG_INJECT, refused')
  <2>3. IF h \in ServerMsgs THEN "server" \in after \/ engine'.server = h.config.server
        ELSE engine'.server = engine.server /\ ("server" \in after <=> "server" \in before)
    BY <1>4, <1>8, <1>9 DEF config, Excused
  <2>4. ServerOK(msgs, engine.server, before, NamedLast(wanted))
    BY <2>2
  <2> HIDE DEF before, after
  <2>5. ServerOK(Tail(msgs), engine'.server, after, NamedLast(wanted))
    BY <1>2, <2>2, <2>3, <2>4, ServerTaken DEF h
  <2> QED
    BY <1>1, <1>2, <2>1, <2>5 DEF after, ControlInv, ConfigInv, service, client
<1>14. EngineInv'
  <2>1. \/ "lock" \in refused \/ engine.lock = NULL
        \/ engine.lock = IF mPowerVoteId # NoSession THEN NoLock ELSE GPS_LOCK
    BY DEF ControlInv, EngineInv
  <2>2. CASE lock
    BY <1>1, <1>8, <1>9, <2>2 DEF EngineInv
  <2>3. CASE ~lock
    BY <1>1, <1>8, <1>9, <2>1, <2>3 DEF EngineInv
  <2> QED
    BY <2>2, <2>3
<1> QED
  BY <1>3, <1>10, <1>11, <1>12, <1>13, <1>14 DEF ControlInv

LEMMA ResponseStep == ControlInv /\ (OnCtrlResponse \/ OnCtrlCollectiveResponse) => ControlInv'
<1> SUFFICES ASSUME ControlInv, OnCtrlResponse \/ OnCtrlCollectiveResponse PROVE ControlInv'
  OBVIOUS
<1>1. /\ responding' = NULL
      /\ UNCHANGED <<service, mEnabled, mConfig, adapter, msgs>>
      /\ configReqs' \in Nat
      /\ control' = IF responding = control.session /\ control.reqs # <<>>
                      THEN [control EXCEPT !.reqs = Tail(@)] ELSE control
  <2>1. CASE OnCtrlResponse
    BY <2>1, ControlAssumption DEF OnCtrlResponse, ControlInv, TypeOK
  <2>2. CASE OnCtrlCollectiveResponse
    <3>1. /\ responding = "config" /\ responding' = NULL
          /\ UNCHANGED <<service, mEnabled, mConfig, control, adapter, msgs>>
          /\ configReqs' = IF configReqs = 0 THEN 0 ELSE configReqs - 1
      BY <2>2 DEF OnCtrlCollectiveResponse
    <3>2. responding # control.session
      BY <3>1, ControlAssumption DEF ControlInv, TypeOK
    <3>3. configReqs' \in Nat
      BY <3>1 DEF ControlInv, TypeOK
    <3> QED
      BY <3>1, <3>2, <3>3, ControlAssumption
  <2> QED
    BY <2>1, <2>2
<1>2. /\ control \in [session : SessionIds \cup {NoSession}, reqs : Seq(Requests)]
      /\ MatchOK(msgs, control.session, control.reqs, Answering)
      /\ msgs \in Seq(Msg)
  BY RequestsMatchIs DEF ControlInv, TypeOK
<1>3. /\ control'.session = control.session
      /\ control' \in [session : SessionIds \cup {NoSession}, reqs : Seq(Requests)]
      /\ MatchOK(msgs, control.session, control'.reqs, 0)
  <2>1. CASE responding = control.session
    <3>1. control.reqs # <<>> /\ MatchOK(msgs, control.session, Tail(control.reqs), 0)
      BY <1>2, <2>1, MatchTold DEF Answering
    <3>2. Tail(control.reqs) \in Seq(Requests)
      BY <1>2, <3>1, HeadTail
    <3>3. control' = [control EXCEPT !.reqs = Tail(control.reqs)]
      BY <1>1, <2>1, <3>1
    <3>4. /\ control'.session = control.session /\ control'.reqs = Tail(control.reqs)
          /\ control' \in [session : SessionIds \cup {NoSession}, reqs : Seq(Requests)]
      BY <1>2, <3>2, <3>3
    <3> QED
      BY <3>1, <3>4
  <2>2. CASE responding # control.session
    BY <1>1, <1>2, <2>2 DEF Answering
  <2> QED
    BY <2>1, <2>2
<1>4. TypeOK'
  BY <1>1, <1>3 DEF ControlInv, TypeOK, service, adapter
<1>5. StartInv' /\ ConfigInv' /\ EngineInv'
  BY <1>1 DEF ControlInv, StartInv, ConfigInv, EngineInv, service, adapter
<1>6. VoteInv'
  BY <1>1, <1>3 DEF ControlInv, VoteInv, Held, adapter
<1>7. RequestsMatch'
  <2>1. responding' # control.session
    BY <1>1, <1>2, ControlAssumption
  <2> QED
    BY <1>1, <1>3, <2>1 DEF RequestsMatch, MatchOK
<1> QED
  BY <1>4, <1>5, <1>6, <1>7 DEF ControlInv

-----------------------------------------------------------------------------
(***************************************************************************)
(* Every state has the invariant.                                          *)
(***************************************************************************)
LEMMA ControlStep == ControlInv /\ [Next]_vars => ControlInv'
<1> SUFFICES ASSUME ControlInv, [Next]_vars PROVE ControlInv'
  OBVIOUS
<1>1. ASSUME NEW s \in SessionIds, SetCallback(s) PROVE ControlInv'
  BY <1>1, CallbackStep
<1>2. CASE SetGnssNiCb
  BY <1>2, NiCbStep
<1>3. CASE Cleanup
  BY <1>3, CleanupStep
<1>4. ASSUME NEW l \in Locks, SetGpsLock(l) PROVE ControlInv'
  <2>1. [lock |-> l, server |-> NULL] \in Configs
    BY DEF Configs
  <2> QED
    BY <1>4, <2>1, UpdateStep DEF SetGpsLock
<1>5. ASSUME NEW v \in Servers, SetServer(v) PROVE ControlInv'
  <2>1. [lock |-> NULL, server |-> v] \in Configs
    BY DEF Configs
  <2> QED
    BY <1>5, <2>1, UpdateStep DEF SetServer
<1>6. CASE SetOther
  <2>1. [lock |-> NULL, server |-> NULL] \in Configs
    BY DEF Configs
  <2> QED
    BY <1>6, <2>1, UpdateStep DEF SetOther
<1>7. CASE Proc
  BY <1>7, EnableStep, DisableStep, ConfigStep, ResponseStep DEF Proc
<1>8. CASE UNCHANGED vars
  BY <1>8 DEF ControlInv, TypeOK, StartInv, VoteInv, Held, RequestsMatch, ConfigInv, EngineInv,
     vars, service, client, adapter, Place
<1> QED
  BY <1>1, <1>2, <1>3, <1>4, <1>5, <1>6, <1>7, <1>8 DEF Next, Call

\* The inductive invariant of the control session and the configuration.
THEOREM Invariant == Spec => []ControlInv
<1>1. ControlInv /\ [Next]_vars => ControlInv'
  BY ControlStep
<1> QED
  BY <1>1, ControlInit, PTL DEF Spec

\* The variables of the control session have their types.
THEOREM TypeCorrect == Spec => []TypeOK
<1>1. ControlInv => TypeOK
  BY DEF ControlInv
<1> QED
  BY <1>1, Invariant, PTL

LEMMA InvVotesTaken == ControlInv => VotesTaken
<1> SUFFICES ASSUME ControlInv, msgs # <<>>
             PROVE  /\ Head(msgs).type = "enable"  => mPowerVoteId = NoSession
                    /\ Head(msgs).type = "disable" => mPowerVoteId = Head(msgs).session
  BY DEF VotesTaken
<1>1. msgs \in Seq(Msg) /\ VoteOK(msgs, mPowerVoteId, Held)
  BY DEF ControlInv, TypeOK, VoteInv
<1>2. Head(msgs) \in Msg /\ (Head(msgs) \in ControlMsgs => Takes(Head(msgs), mPowerVoteId))
  BY <1>1, HeadTail, VoteTail
<1> QED
  BY <1>2, MsgFields DEF Takes

LEMMA InvVoteFollows == ControlInv => VoteFollows
<1> SUFFICES ASSUME ControlInv, \A i \in DOMAIN msgs : msgs[i].type = "config"
             PROVE  mPowerVoteId = Held
  BY DEF VoteFollows, Held
<1>1. msgs \in Seq(Msg) /\ VoteOK(msgs, mPowerVoteId, Held)
  BY DEF ControlInv, TypeOK, VoteInv
<1>2. None(msgs, ControlMsgs)
  BY <1>1 DEF None, ControlMsgs
<1> QED
  BY <1>1, <1>2 DEF VoteOK

\* The client, the adapter and the queue between them agree on the session,
\* and responses come to the requests they answer.
THEOREM SessionsAgreeAlways == Spec => []SessionsAgree
<1>1. ControlInv => SessionsAgree
  BY InvVotesTaken, InvVoteFollows DEF ControlInv, SessionsAgree
<1> QED
  BY <1>1, Invariant, PTL

\* Where the HAL may not configure the engine, no server reaches it.
Untold == AGPS_CONFIG_INJECT \/ engine.server = NULL

LEMMA UntoldStep == TypeOK /\ Untold /\ [Next]_vars => Untold'
<1> SUFFICES ASSUME TypeOK, Untold, [Next]_vars PROVE Untold'
  OBVIOUS
<1>1. /\ AGPS_CONFIG_INJECT' = AGPS_CONFIG_INJECT
      /\ engine'.server = engine.server \/ AGPS_CONFIG_INJECT
  <2>1. engine \in [lock : Locks \cup {NULL}, server : Servers \cup {NoServer, NULL}, vote : BOOLEAN]
    BY DEF TypeOK
  <2>2. ASSUME NEW l, NEW vote, NEW ok, TellLock(l, vote, ok) PROVE engine'.server = engine.server
    BY <2>1, <2>2 DEF TellLock
  <2>3. CASE ProcEnable
    BY <2>2, <2>3 DEF ProcEnable, adapter
  <2>4. CASE ProcDisable
    BY <2>2, <2>4 DEF ProcDisable, adapter
  <2>5. CASE ProcConfig
    <3>1. TellConfig(Head(msgs).config) /\ AGPS_CONFIG_INJECT' = AGPS_CONFIG_INJECT
      BY <2>5 DEF ProcConfig
    <3>2. ASSUME NEW config, NEW lock, TellItems(config, lock), ~AGPS_CONFIG_INJECT
          PROVE  engine'.server = engine.server
      BY <2>1, <3>2 DEF TellItems
    <3> QED
      BY <3>1, <3>2 DEF TellConfig
  <2>6. CASE OnCtrlResponse \/ OnCtrlCollectiveResponse
    BY <2>6 DEF OnCtrlResponse, OnCtrlCollectiveResponse, adapter
  <2>7. CASE Call
    BY <2>7 DEF Call, SetCallback, SetGnssNiCb, Cleanup, SetGpsLock, SetServer, SetOther,
       UpdateConfiguration, adapter
  <2>8. CASE UNCHANGED vars
    BY <2>8 DEF vars, adapter
  <2> QED
    BY <2>3, <2>4, <2>5, <2>6, <2>7, <2>8 DEF Next, Proc
<1> QED
  BY <1>1 DEF Untold

LEMMA UntoldAlways == Spec => []Untold
<1>1. Init => Untold
  BY DEF Init, Untold
<1>2. ControlInv => TypeOK
  BY DEF ControlInv
<1> QED
  BY <1>1, <1>2, UntoldStep, Invariant, PTL DEF Spec

\* The engine ends with the lock asked for last, and with the server: but for
\* the name the service loses, and where it may not be told of one.
THEOREM EngineFollowsAlways == Spec => []EngineFollows
<1>1. ControlInv /\ Untold => EngineFollows
  <2> SUFFICES ASSUME ControlInv, Untold, msgs = <<>>, mPendingConfig = NULL
               PROVE  /\ "lock" \notin refused /\ engine.lock # NULL =>
                           engine.lock = IF mEnabled THEN NoLock ELSE wanted.lock
                      /\ "server" \notin refused =>
                           engine.server = IF AGPS_CONFIG_INJECT THEN NamedLast(wanted) ELSE NULL
    BY DEF EngineFollows, LockFollows, ServerFollows
  <2>1. CASE ~mApi
    BY <2>1 DEF ControlInv, StartInv
  <2>2. CASE mApi
    <3>1. /\ None(msgs, LockMsgs) /\ None(msgs, ServerMsgs) /\ None(msgs, ControlMsgs)
      BY Empty
    <3>2. /\ GPS_LOCK = wanted.lock
          /\ "server" \in Excused(AGPS_CONFIG_INJECT, refused) \/ engine.server = NamedLast(wanted)
      BY <2>2, <3>1 DEF ControlInv, ConfigInv, LockOK, ServerOK
    <3>3. mPowerVoteId # NoSession <=> mEnabled
      BY <3>1, ControlAssumption DEF ControlInv, VoteInv, VoteOK, Held
    <3>4. "server" \notin refused =>
            engine.server = IF AGPS_CONFIG_INJECT THEN NamedLast(wanted) ELSE NULL
      BY <3>2 DEF Excused, Untold
    <3> QED
      BY <3>2, <3>3, <3>4 DEF ControlInv, EngineInv
  <2> QED
    BY <2>1, <2>2
<1> QED
  BY <1>1, Invariant, UntoldAlways, PTL

=============================================================================
