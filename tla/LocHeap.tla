------------------------------ MODULE LocHeap ------------------------------
(***************************************************************************)
(* The heap of timers (utils/LocHeap.cpp): a tree sorted from top to       *)
(* bottom only.  push() moves data down to the smaller subtree, pop()      *)
(* moves it up along the higher ranking child, remove() looks for the node *)
(* by address and leaves out subtrees that cannot hold it.                 *)
(*                                                                         *)
(* The methods call themselves on subtrees.  An operator here is the body  *)
(* of one, and has as a parameter the function of what it calls: pushed is *)
(* what push() makes of each heap and data, and so on.                     *)
(***************************************************************************)
EXTENDS Integers

NULL == [none |-> TRUE]

Node(data) == [data |-> data, size |-> 1, left |-> NULL, right |-> NULL]

\* LocTimerDelegate::ranks(): the sooner time ranks higher.
OutRanks(d, e) == d.time < e.time

\* The new node goes to the left.
ToTheLeft(tree) == tree.left = NULL \/ (tree.right # NULL /\ tree.left.size <= tree.right.size)

\* Fault: the data of the node is not swapped with the data pushed.
PushUnsorted(tree, data, pushed) ==
  IF tree = NULL THEN Node(data)
  ELSE IF ToTheLeft(tree) THEN [tree EXCEPT !.size = @ + 1, !.left = pushed[@, data]]
                          ELSE [tree EXCEPT !.size = @ + 1, !.right = pushed[@, data]]

Push(tree, data, pushed) ==
  IF tree = NULL THEN Node(data)
  ELSE LET swap  == OutRanks(data, tree.data)
           upper == IF swap THEN data ELSE tree.data
           lower == IF swap THEN tree.data ELSE data
       IN IF ToTheLeft(tree)
            THEN [tree EXCEPT !.size = @ + 1, !.data = upper, !.left = pushed[@, lower]]
            ELSE [tree EXCEPT !.size = @ + 1, !.data = upper, !.right = pushed[@, lower]]

\* The tree without its top.
Pop(tree, popped) ==
  CASE tree.left = NULL /\ tree.right = NULL -> NULL
    [] tree.left # NULL /\ (tree.right = NULL \/ OutRanks(tree.left.data, tree.right.data)) ->
         [tree EXCEPT !.size = @ - 1, !.data = tree.left.data, !.left = popped[@]]
    [] OTHER ->
         [tree EXCEPT !.size = @ - 1, !.data = tree.right.data, !.right = popped[@]]

\* The subtrees are looked through, the left one first.
RemoveBelow(tree, data, removed) ==
  IF tree.left # NULL /\ removed[tree.left, data] # tree.left
    THEN [tree EXCEPT !.size = @ - 1, !.left = removed[@, data]]
  ELSE IF tree.right # NULL /\ removed[tree.right, data] # tree.right
    THEN [tree EXCEPT !.size = @ - 1, !.right = removed[@, data]]
  ELSE tree

\* Fault: a node of equal rank ends the search too.
RemoveHigher(tree, data, popped, removed) ==
  CASE tree = NULL -> NULL
    [] tree # NULL /\ tree.data = data -> popped[tree]
    [] tree # NULL /\ tree.data # data /\ OutRanks(tree.data, data) -> RemoveBelow(tree, data, removed)
    [] OTHER -> tree

\* Data that outranks a node is not below it.
Remove(tree, data, popped, removed) ==
  IF tree = NULL THEN NULL
  ELSE IF tree.data = data THEN popped[tree]
  ELSE IF OutRanks(data, tree.data) THEN tree
  ELSE RemoveBelow(tree, data, removed)

-----------------------------------------------------------------------------
(***************************************************************************)
(* What the tree holds, and checkNodes().                                  *)
(***************************************************************************)
Held(tree, held) ==
  IF tree = NULL THEN {} ELSE {tree.data} \cup held[tree.left] \cup held[tree.right]

Size(tree) == IF tree = NULL THEN 0 ELSE tree.size

CheckNodes(tree, sorted) ==
  tree # NULL =>
    /\ \A sub \in {tree.left, tree.right} :
         sub # NULL => ~OutRanks(sub.data, tree.data) /\ sub \in sorted
    /\ tree.size = 1 + Size(tree.left) + Size(tree.right)
=============================================================================
