------------------------------- MODULE MCSales -------------------------------
(***************************************************************************)
(* Sales for TLC: an order of two products, a POS sale with two lines of   *)
(* one of them.  The ids k1 and w1 are in two tables each.                 *)
(***************************************************************************)
EXTENDS Sales

Item(p, q) == [product |-> p, qty |-> q]
Share(i, q) == [line |-> i, qty |-> q]
MCOrderBodies == {<<Item(1, 2), Item(2, 1)>>, <<Item(1, 2)>>}
MCDeliveries ==
    {[lines |-> << >>, date |-> 2], [lines |-> <<Share(1, 1)>>, date |-> 1],
     [lines |-> <<Share(1, 1), Share(1, 1)>>, date |-> 2]}
MCSaleLines == <<Item(1, 1), Item(1, 2)>>
MCReturnBodies ==
    {[lines |-> <<Item(1, 2)>>, date |-> 1],
     [lines |-> <<Item(1, 1), Item(1, 1)>>, date |-> 3],
     [lines |-> <<Item(3, 1)>>, date |-> 1]}
=============================================================================
