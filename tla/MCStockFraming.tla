--------------------------- MODULE MCStockFraming ---------------------------
(* StockFraming for TLC: see StockFraming.cfg for the sizes.               *)
EXTENDS StockFraming
=============================================================================
