----------------------------- MODULE MCStockEvents -----------------------------
(* Instances of StockEvents: one item, bought, sold and shown.             *)
EXTENDS StockEvents, TLC

CONSTANTS c1, c2, c3

MCStock == 1 :> 1
Rq(cmd, id, count) == [cmd |-> cmd, id |-> id, count |-> count]
BuyAndLeave == {Rq("buy", 1, 1), Rq("exit", 0, 0)}
Commanded == {Rq("buy", 1, 1), Rq("sell", 1, 1), Rq("buy", 9, 1),
              Rq("show", 0, 0), Rq("exit", 0, 0)}
Perms == Permutations(Clients)
===============================================================================
