-------------------------------- MODULE MCPos --------------------------------
(***************************************************************************)
(* Instances of Pos for TLC: checkouts that contend for a product of which *)
(* there is one, so that one of them may run out of stock half-way.        *)
(***************************************************************************)
EXTENDS Pos

CONSTANTS w1, k1

MCWarehouses == {w1}
MCPrice == [p \in Products |-> p]

Buy(product, qty) == [product |-> product, qty |-> qty]

\* Price 1 for product 1, 2 for product 2: one checkout is paid with change, the
\* other is not paid in full.
MCCheckouts ==
    { [items |-> <<Buy(1, 1)>>, paid |-> 2],
      [items |-> <<Buy(2, 1), Buy(1, 1)>>, paid |-> 2] }
=============================================================================
