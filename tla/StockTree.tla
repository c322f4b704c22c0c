------------------------------ MODULE StockTree ------------------------------
(***************************************************************************)
(* The binary search tree both stock servers keep their stocks in: built   *)
(* by main's loop over stock.txt and insert_Node, searched by find_stock,  *)
(* written out in V-L-R order by setShowString and save_new_FILE.          *)
(*                                                                         *)
(* A line of stock.txt is a record [id, stock].  The price is left out: it *)
(* is read once with its id and travels with it, unchanged.  A tree is a   *)
(* record of a root and three functions on the ids that have a node.       *)
(***************************************************************************)
EXTENDS Integers, Sequences, SequencesExt, TLC

CONSTANT NULL      \* the null pointer

ASSUME NullAssumption == NULL \notin Int

NoTree == [root |-> NULL, stock |-> <<>>, left |-> <<>>, right |-> <<>>]

Ids(t) == DOMAIN t.stock

Leaf(t, line) ==
  [t EXCEPT !.stock = (line.id :> line.stock) @@ @,
            !.left  = (line.id :> NULL) @@ @,
            !.right = (line.id :> NULL) @@ @]

(***************************************************************************)
(* The node at which the descent for `id' ends: the node of `id' itself,   *)
(* or the one whose missing child is where `id' would be.                  *)
(***************************************************************************)
Descent(t, id) ==
  LET child(n) == IF id < n THEN t.left[n] ELSE t.right[n]
      at[n \in Ids(t)] ==
        IF id = n \/ child(n) = NULL THEN n ELSE at[child(n)]
  IN  at[t.root]

find_stock(t, id) ==
  IF t.root # NULL /\ Descent(t, id) = id THEN id ELSE NULL

\* A second line with an id the tree holds is ignored: the first one wins.
insert_Node(t, line) ==
  LET p    == Descent(t, line.id)
      grow == Leaf(t, line)
  IN  IF p = line.id THEN t
      ELSE IF line.id < p THEN [grow EXCEPT !.left[p] = line.id]
      ELSE [grow EXCEPT !.right[p] = line.id]

\* One turn of main's fscanf loop: the first line fills ROOT.
LoadLine(t, line) ==
  IF t.root = NULL THEN [Leaf(t, line) EXCEPT !.root = line.id]
  ELSE insert_Node(t, line)

\* Mutants: the walk is L, V, R; it leaves out the right children.
PreOrder_Sorted(t) ==
  LET visit[n \in Ids(t) \cup {NULL}] ==
        IF n = NULL THEN <<>>
        ELSE visit[t.left[n]] \o <<n>> \o visit[t.right[n]]
  IN  visit[t.root]

PreOrder_NoRight(t) ==
  LET visit[n \in Ids(t) \cup {NULL}] ==
        IF n = NULL THEN <<>> ELSE <<n>> \o visit[t.left[n]]
  IN  visit[t.root]

\* The nodes in the order the recursive walks visit them: V, L, R.
PreOrder(t) ==
  LET visit[n \in Ids(t) \cup {NULL}] ==
        IF n = NULL THEN <<>>
        ELSE <<n>> \o visit[t.left[n]] \o visit[t.right[n]]
  IN  visit[t.root]

\* The lines save_new_FILE writes.
save_new_FILE(t) ==
  LET order == PreOrder(t)
  IN  [k \in DOMAIN order |-> [id |-> order[k], stock |-> t.stock[order[k]]]]

Load(file) == FoldLeft(LoadLine, NoTree, file)
==============================================================================
