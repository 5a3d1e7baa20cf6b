---------------------------- MODULE MCStockOpname ----------------------------
(***************************************************************************)
(* Instances of StockOpname for TLC: one warehouse, a product that has     *)
(* stock and one that a count may find, counts that agree with the system  *)
(* quantity, exceed it and fall short of it, two opnames.                  *)
(***************************************************************************)
EXTENDS StockOpname

CONSTANTS w1

MCProducts == {1, 2}
MCWarehouses == {w1}

Adjust(w, product, qty) ==
    [op |-> "ADJUST", from |-> w, to |-> w, date |-> 1,
     lines |-> <<[product |-> product, qty |-> qty]>>]

\* A receipt of product 1, the product the system knows.
MCRequests == {Adjust(w1, 1, 1)}

Count(product, qty) == [product |-> product, qty_counted |-> qty]

\* A product counted short, and a product found that the system does not have; in
\* a second opname both counts agree with the system.
MCItems == { <<Count(1, 0)>>, <<Count(2, 1)>> }

\* Counts that differ from the system quantity.
FoundItems == { <<Count(2, 1)>> }
=============================================================================
