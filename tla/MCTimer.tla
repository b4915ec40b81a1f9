------------------------------ MODULE MCTimer ------------------------------
(***************************************************************************)
(* LocTimer with the heaps of some delegates, and the methods of LocHeap   *)
(* as functions that call themselves.                                      *)
(***************************************************************************)
EXTENDS LocTimer

\* The trees of some entries whose top is a highest of them, and so on down.
TreesOf(all) ==
  LET Tops(entries) == {e \in entries : \A f \in entries : ~OutRanks(f, e)}
      trees[entries \in SUBSET all] ==
        IF entries = {} THEN {NULL}
        ELSE UNION {
          {[data |-> top, size |-> Cardinality(entries), left |-> l, right |-> r] :
             l \in trees[left], r \in trees[(entries \ {top}) \ left]} :
          <<top, left>> \in {<<e, part>> \in Tops(entries) \X SUBSET entries : e \notin part}}
  IN trees[all]

\* A delegate is in a heap once.
EntrySets == {{[id |-> d, time |-> f[d]] : d \in DOMAIN f} : f \in UNION {[ds -> Time] : ds \in SUBSET Delegates}}

SortedTrees == {tree : tree \in UNION {TreesOf(entries) : entries \in EntrySets}}

\* TLC keeps the value of a definition, and not that of what a cfg names.
SortedHeaps == SortedTrees

\* The methods on these heaps.
HeapPush[tree \in SortedHeaps, data \in Entry]   == Push(tree, data, HeapPush)
HeapPop[tree \in SortedHeaps \ {NULL}]           == Pop(tree, HeapPop)
HeapRemove[tree \in SortedHeaps, data \in Entry] == Remove(tree, data, HeapPop, HeapRemove)
HeapHeld[tree \in SortedHeaps]                   == Held(tree, HeapHeld)
=============================================================================
