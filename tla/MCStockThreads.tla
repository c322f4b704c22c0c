---------------------------- MODULE MCStockThreads ----------------------------
(* Instances of StockThreads.  The ids come from loading a stock.txt into  *)
(* the tree of StockTree: 2 1 3 makes a root with two children.            *)
EXTENDS StockThreads, TLC

CONSTANTS c1, c2, c3

T == INSTANCE StockTree WITH NULL <- NoOne

VLR1 == <<1>>
VLR2 == <<2, 1>>
VLR3 == <<2, 1, 3>>

\* What the loader of main makes of these lines keeps their order.
ASSUME LoadedOrder ==
  \A ids \in {VLR1, VLR2, VLR3} :
    LET tree == T!Load([k \in DOMAIN ids |-> [id |-> ids[k], stock |-> 1]])
    IN  T!PreOrder(tree) = ids /\ \A i \in 0..4 :
          T!find_stock(tree, i) # NoOne <=> \E k \in DOMAIN ids : ids[k] = i

StockOf(ids) == [i \in {ids[k] : k \in DOMAIN ids} |-> 1]
Stock1 == StockOf(VLR1)

Rq(cmd, id, count) == [cmd |-> cmd, id |-> id, count |-> count]

\* An item that exists and one that does not (exit is in MCStockSigint).
Trades == {Rq("buy", 1, 1), Rq("sell", 1, 1), Rq("buy", 9, 1)}
===============================================================================
