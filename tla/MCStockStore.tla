----------------------------- MODULE MCStockStore -----------------------------
(* Instances of StockStore: every file of up to four lines over four ids,  *)
(* repeated ids included.                                                  *)
EXTENDS StockStore

MCIds == 1..4
MCFiles ==
  {[k \in 1..n |-> [id |-> f[k], stock |-> k]] :
     <<n, f>> \in {<<m, g>> \in (1..4) \X [1..4 -> MCIds] :
                     \A k \in 1..4 : k > m => g[k] = 1}}
===============================================================================
