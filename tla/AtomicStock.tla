----------------------------- MODULE AtomicStock -----------------------------
(***************************************************************************)
(* What InventoryService promises: it answers one request after another.   *)
(* A request that is answered "ok" has taken its whole effect on the stock *)
(* in one step, one that is answered "error" has taken none, and no effect *)
(* overdraws the stock.                                                    *)
(***************************************************************************)
EXTENDS Integers

CONSTANTS
    Places,         \* products in warehouses
    Sessions, Requests,
    Change(_, _),   \* what a request changes at a place
    NoRequest       \* of a session that has nothing to do

VARIABLES stock, asked, answer

abstractVars == <<stock, asked, answer>>

AbstractInit ==
    /\ stock = [k \in Places |-> 0]
    /\ asked = [s \in Sessions |-> NoRequest]
    /\ answer = [s \in Sessions |-> "none"]

Ask(s, r) ==
    /\ asked[s] = NoRequest
    /\ asked' = [asked EXCEPT ![s] = r]
    /\ answer' = [answer EXCEPT ![s] = "none"]
    /\ UNCHANGED stock

Answer(s, a) ==
    /\ asked' = [asked EXCEPT ![s] = NoRequest]
    /\ answer' = [answer EXCEPT ![s] = a]

Grant(s) ==
    /\ asked[s] \in Requests
    /\ \A k \in Places : stock[k] + Change(asked[s], k) >= 0
    /\ stock' = [k \in Places |-> stock[k] + Change(asked[s], k)]
    /\ Answer(s, "ok")

\* Also of a request that is refused as it arrives.
Refuse(s) ==
    /\ Answer(s, "error")
    /\ UNCHANGED stock

AbstractNext ==
    \E s \in Sessions :
        \/ \E r \in Requests : Ask(s, r)
        \/ Grant(s) \/ Refuse(s)

AbstractSpec == AbstractInit /\ [][AbstractNext]_abstractVars
=============================================================================
