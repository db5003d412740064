---------------------------- MODULE MCStockWatch ----------------------------
(***************************************************************************)
(* Instances of StockWatch for TLC.                                         *)
(***************************************************************************)
EXTENDS StockWatch, TLC

ProductionOrder(needed, priority, deadline) ==
  [needed |-> needed, priority |-> priority, deadline |-> deadline]

(* Orders that fill the stock exactly, of the priorities served first, in    *)
(* between and last.                                                        *)
SomeOrders == {ProductionOrder(3, "high", 1), ProductionOrder(4, "medium", 2),
               ProductionOrder(17, "CRITICAL", 1)}
=============================================================================
