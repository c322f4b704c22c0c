----------------------------- MODULE MCStockSigint -----------------------------
(* Instances of StockSigint: two clients, two items; 2 is the root, 1 its  *)
(* child.  The first client may also ask for a show.                       *)
EXTENDS StockSigint, TLC

CONSTANTS c1, c2

MCVLR == <<2, 1>>
MCStock == 1 :> 1 @@ 2 :> 1
MCRequests == {[cmd |-> "buy", id |-> 1, count |-> 1],
               [cmd |-> "sell", id |-> 2, count |-> 1],
               [cmd |-> "show", id |-> 0, count |-> 0],
               [cmd |-> "exit", id |-> 0, count |-> 0]}
===============================================================================
