---------------------------- MODULE MCProcurement ----------------------------
(***************************************************************************)
(* Purchasing for TLC: Procurement, and the two that come before an order, *)
(* purchase requests and approval requests.  They share no state: a        *)
(* behaviour is one of the three.  One of Procurement has one order of two *)
(* lines.  The first can be received in two halves, the second at once.    *)
(***************************************************************************)
EXTENDS Procurement, Approvals, PurchaseRequests

CONSTANTS u1, u2

VARIABLE part   \* which of the three

MCOrders == {[p \in Products |-> 20]}

MCLine(p, q) == [product |-> p, qty |-> q]
MCReceipts == { [product |-> 1, qty |-> 10, date |-> 1],
                [product |-> 1, qty |-> 10, date |-> 2],
                [product |-> 2, qty |-> 20, date |-> 1] }
MCReturns == { [lines |-> <<MCLine(1, 6)>>, date |-> 2],
               [lines |-> <<MCLine(1, 6), MCLine(1, 6)>>, date |-> 1] }

Sym == Permutations(Users)

MCInit ==
    /\ Init /\ PrInit /\ ApInit
    /\ part \in {"orders", "requests", "approvals"}

MCNext ==
    /\ \/ part = "orders" /\ Next /\ UNCHANGED <<prVars, apVars>>
       \/ part = "requests" /\ PrNext /\ UNCHANGED <<vars, apVars>>
       \/ part = "approvals" /\ ApNext /\ UNCHANGED <<vars, prVars>>
    /\ UNCHANGED part

MCSpec == MCInit /\ [][MCNext]_<<vars, prVars, apVars, part>>
=============================================================================
