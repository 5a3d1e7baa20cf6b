----------------------------- MODULE MCInventory -----------------------------
(***************************************************************************)
(* Instances of Inventory for TLC: two products, two warehouses, and a     *)
(* choice of requests in which locks collide, lines repeat a product,      *)
(* lines arrive unsorted and stock runs out.                               *)
(***************************************************************************)
EXTENDS Inventory

CONSTANTS w1, w2

MCProducts == {1, 2}
MCWarehouses == {w1, w2}

On(product, qty) == [product |-> product, qty |-> qty]

Transfer(from, to, lines) ==
    [op |-> "TRANSFER", from |-> from, to |-> to, date |-> 1, lines |-> lines]
Adjust(w, lines) ==
    [op |-> "ADJUST", from |-> w, to |-> w, date |-> 1, lines |-> lines]
Record(w, date, line) ==
    [op |-> "RECORD", from |-> w, to |-> w, date |-> date, lines |-> <<line>>]

\* Transfers and adjustments over both products, movements that wait for one, all
\* of one date.
MCRequests ==
    { Transfer(w1, w2, <<On(2, 1), On(1, 1)>>),
      Transfer(w1, w2, <<On(1, 1), On(1, 1)>>),
      Transfer(w1, w1, <<On(1, 1)>>),
      Adjust(w1, <<On(1, 1), On(2, 1)>>),
      Adjust(w1, <<On(1, -1), On(2, 0)>>),
      Record(w2, 1, On(2, -1)) }
=============================================================================
