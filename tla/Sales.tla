-------------------------------- MODULE Sales --------------------------------
(***************************************************************************)
(* Sales orders (SalesOrderService: approve, fulfill, createReturn) and    *)
(* the returns of the point of sale (POSService.createSalesReturn), which  *)
(* give stock back to the same ledger.                                     *)
(*                                                                         *)
(* fulfill and createReturn try up to three times a transaction that reads *)
(* the order, locks the products in order with NOWAIT, and then writes.    *)
(* The order is read before the lock: another delivery may commit in       *)
(* between.  createSalesReturn locks nothing.  Once a transaction holds    *)
(* its products the rest of it is one step: only createSalesReturn could   *)
(* write to them then, and it only adds stock.                             *)
(*                                                                         *)
(* create inserts the branch as the warehouse and the customer as the      *)
(* author of the order: the foreign keys of the table let that pass only   *)
(* where ids of different tables coincide.  There is one warehouse that    *)
(* goods leave from, and no prices: the total of an order is its quantity. *)
(***************************************************************************)
EXTENDS StockLedger, Sequences, SequencesExt, FiniteSetsExt

CONSTANTS
    Products,           \* numbers, so that sort() has an order
    Users, Customers, Branches, Warehouses,     \* ids, by table
    Ordering, Delivering, Returning,    \* sessions, by what they serve
    OrderBodies,        \* lines of create: sequences of [product, qty]
    Deliveries,         \* bodies of fulfill: [lines, date]; a line is [line, qty]
    SaleLines,          \* the lines of a POS sale: sequence of [product, qty]
    ReturnBodies,       \* bodies of returns: [lines, date]; a line is [product, qty]
    CreditLimit, FirstStock,
    MaxOrders, MaxDeliveries, MaxReturns    \* bounds

Line == [product : Products, qty : Nat \ {0}]
Part == [line : Nat, qty : Nat \ {0}]      \* of a delivery

Clerks == Ordering \cup Delivering \cup Returning
MaxAttempts == 3
Nobody == "nobody"

\* CreateSODTO, FulfillmentDTO and SalesReturnDTO ask for positive quantities, and all
\* but FulfillmentDTO for a line.
ASSUME SalesAssumption ==
    /\ Products \subseteq Nat /\ FirstStock \in Nat
    /\ OrderBodies \subseteq Seq(Line) \ {<< >>}
    /\ \A b \in Deliveries : b.lines \in Seq(Part) /\ b.date \in Nat \ {NoDate}
    /\ SaleLines \in Seq(Line)
    /\ \A b \in ReturnBodies : b.lines \in Seq(Line) /\ b.date \in Nat \ {NoDate}

VARIABLES orders, deliveries, returns, ledger, rowLock, call, history
vars == <<orders, deliveries, returns, ledger, rowLock, call, history>>

OrderDoc(o) == <<"order", o>>
SaleDoc == <<"sale", 0>>

OrderLine == [product : Products, ordered : Nat \ {0}, delivered : Nat]
SalesOrder == [status : {"PENDING_APPROVAL", "APPROVED", "FULFILLED"},
               creator : Users, lines : Seq(OrderLine)]
Delivery == [order : Nat, lines : Seq(Part)]
Return == [document : {"order", "sale"} \X Nat, lines : Seq(Line)]

NoCall == [step |-> "none"]

\* The rows that the services write, and a product lock belongs to a call under way.
TypeOK ==
    /\ orders \in Seq(SalesOrder) /\ deliveries \in Seq(Delivery) /\ returns \in Seq(Return)
    /\ \A d \in DOMAIN deliveries : deliveries[d].order \in DOMAIN orders
    /\ \A r \in DOMAIN returns :
          returns[r].document \in {SaleDoc} \cup {OrderDoc(o) : o \in DOMAIN orders}
    /\ ledger \in [Products -> Ledgers]
    /\ \A p \in Products : rowLock[p] \in {Nobody} \cup {c \in Clerks : call[c].step # "none"}

Init ==
    /\ orders = << >> /\ deliveries = << >> /\ returns = << >>
    /\ ledger = [p \in Products |-> AppendRow(EmptyLedger, FirstStock, FirstStock, 1)]
    /\ rowLock = [p \in Products |-> Nobody]
    /\ call = [c \in Clerks |-> NoCall]
    /\ history = {}

Free(c) == call[c].step = "none"
In(c, step) == call[c].step = step
Unlocks(c) == rowLock' = [p \in Products |-> IF rowLock[p] = c THEN Nobody ELSE rowLock[p]]
Ends(c) == call' = [call EXCEPT ![c] = NoCall] /\ Unlocks(c)

\* Remembered: the document r is about is being worked on by another call.
Begins(c, r) ==
    /\ call' = [call EXCEPT ![c] = r]
    /\ history' = history \cup
          (IF \E other \in Clerks \ {c} : ~Free(other) /\ call[other].document = r.document
           THEN {r.document} ELSE {})

ProductsIn(lines) == {l.product : l \in ToSet(lines)}
Quantity(lines, p) ==
    SumFunction([i \in DOMAIN lines |-> IF lines[i].product = p THEN lines[i].qty ELSE 0])

-----------------------------------------------------------------------------
(* Orders *)

\* BR-SAL-003, against a balance that no order changes.
Create(c, customer, branch, body) ==
    /\ Free(c) /\ Len(orders) < MaxOrders
    /\ SumFunction([i \in DOMAIN body |-> body[i].qty]) <= CreditLimit
    /\ branch \in Warehouses /\ customer \in Users
    /\ orders' = Append(orders,
          [status |-> "PENDING_APPROVAL", creator |-> customer,
           lines |-> [i \in DOMAIN body |->
                        [product |-> body[i].product, ordered |-> body[i].qty, delivered |-> 0]]])
    /\ UNCHANGED <<deliveries, returns, ledger, rowLock, call, history>>

\* Not by the author of the order.
ApproveRead(c, o, u) ==
    /\ Free(c)
    /\ orders[o].status = "PENDING_APPROVAL" /\ orders[o].creator # u
    /\ Begins(c, [step |-> "approve", document |-> OrderDoc(o), order |-> o])
    /\ UNCHANGED <<orders, deliveries, returns, ledger, rowLock>>

Approve(c) ==
    /\ In(c, "approve")
    /\ orders' = [orders EXCEPT ![call[c].order].status = "APPROVED"]
    /\ Ends(c)
    /\ UNCHANGED <<deliveries, returns, ledger, history>>

-----------------------------------------------------------------------------
(* Delivery *)

Rest(line) == line.ordered - line.delivered

\* No lines in the body: all that is left, in any order, since only sums are taken of it.
LinesToFulfill(order, body) ==
    LET open == {i \in DOMAIN order.lines : Rest(order.lines[i]) > 0}
        left == SetToSeq(open)
    IN  IF body.lines # << >> THEN body.lines
        ELSE [n \in 1..Cardinality(open) |-> [line |-> left[n], qty |-> Rest(order.lines[left[n]])]]

ProductsOf(order, lines) == {order.lines[l.line].product : l \in ToSet(lines)}

FulfillRead(c, o, body) ==
    /\ Free(c) /\ Len(deliveries) < MaxDeliveries
    /\ orders[o].status \in {"APPROVED", "FULFILLED"}
    /\ \A l \in ToSet(body.lines) : l.line \in DOMAIN orders[o].lines
    /\ LET lines == LinesToFulfill(orders[o], body) IN
       Begins(c, [step |-> "lock", op |-> "fulfill", document |-> OrderDoc(o), order |-> o,
                  seen |-> orders[o], body |-> body, lines |-> lines, attempt |-> 1,
                  products |-> ProductsOf(orders[o], lines)])
    /\ UNCHANGED <<orders, deliveries, returns, ledger, rowLock>>

\* FOR UPDATE NOWAIT on the next product of the sorted list.
LockNext(c) ==
    LET left == {p \in call[c].products : rowLock[p] # c} IN
    /\ In(c, "lock") /\ left # {}
    /\ rowLock[Min(left)] = Nobody
    /\ rowLock' = [rowLock EXCEPT ![Min(left)] = c]
    /\ UNCHANGED <<orders, deliveries, returns, ledger, call, history>>

\* The product is locked: the transaction is rolled back and tried again from its
\* beginning, or the error returned after the third attempt.
LockFails(c) ==
    LET left == {p \in call[c].products : rowLock[p] # c} IN
    /\ In(c, "lock") /\ left # {}
    /\ rowLock[Min(left)] \notin {Nobody, c}
    /\ IF call[c].attempt < MaxAttempts
       THEN /\ call' = [call EXCEPT ![c] =
                  [call[c] EXCEPT !.step = "retry", !.attempt = call[c].attempt + 1]]
            /\ Unlocks(c)
       ELSE Ends(c)
    /\ UNCHANGED <<orders, deliveries, returns, ledger, history>>

\* The next attempt reads the order again.
Retry(c) ==
    LET o == call[c].order
        lines == IF call[c].op = "return" THEN call[c].lines
                 ELSE LinesToFulfill(orders[o], call[c].body)
        products == IF call[c].op = "return" THEN call[c].products
                    ELSE ProductsOf(orders[o], lines)
    IN  /\ In(c, "retry")
        /\ IF call[c].op = "fulfill" /\ orders[o].status \notin {"APPROVED", "FULFILLED"}
           THEN Ends(c)
           ELSE /\ call' = [call EXCEPT ![c] =
                      [call[c] EXCEPT !.step = "lock", !.seen = orders[o],
                                      !.lines = lines, !.products = products]]
                /\ UNCHANGED rowLock
        /\ UNCHANGED <<orders, deliveries, returns, ledger, history>>

Locked(c, op) ==
    /\ In(c, "lock") /\ call[c].op = op
    /\ \A p \in call[c].products : rowLock[p] = c

\* Mutant: what was delivered before is not taken off.
WithinOrderWhole(seen, lines) ==
    \A l \in ToSet(lines) : l.qty <= seen.lines[l.line].ordered

\* Every line by itself, against the order as it was read.
WithinOrder(seen, lines) ==
    \A l \in ToSet(lines) : l.qty <= Rest(seen.lines[l.line])

Delivered(lines, order, p) ==
    SumFunction([n \in DOMAIN lines |->
        IF order.lines[lines[n].line].product = p THEN lines[n].qty ELSE 0])
OnLine(lines, i) ==
    SumFunction([n \in DOMAIN lines |-> IF lines[n].line = i THEN lines[n].qty ELSE 0])

\* A line sees the rows of the lines before it: together they need their sum.
StockSuffices(order, lines) ==
    \A p \in Products : Delivered(lines, order, p) > 0 => ledger[p].sum >= Delivered(lines, order, p)

\* Of the lines of this delivery only.
AllFulfilled(seen, lines) ==
    \A l \in ToSet(lines) : l.qty >= Rest(seen.lines[l.line])

Fulfill(c) ==
    LET o == call[c].order
        lines == call[c].lines
        seen == call[c].seen
    IN  /\ Locked(c, "fulfill")
        /\ WithinOrder(seen, lines) /\ StockSuffices(seen, lines)
        /\ deliveries' = Append(deliveries, [order |-> o, lines |-> lines])
        /\ ledger' = [p \in Products |->
              LET q == Delivered(lines, seen, p) IN
              IF p \in ProductsOf(seen, lines)
              THEN AppendRow(ledger[p], -q, ledger[p].sum - q, call[c].body.date)
              ELSE ledger[p]]
        /\ orders' = [orders EXCEPT ![o] =
              [status |-> IF AllFulfilled(seen, lines) THEN "FULFILLED" ELSE orders[o].status,
               creator |-> orders[o].creator,
               lines |-> [i \in DOMAIN orders[o].lines |->
                  [orders[o].lines[i] EXCEPT
                      !.delivered = orders[o].lines[i].delivered + OnLine(lines, i)]]]]
        /\ history' = history \cup
              (IF \E i, j \in DOMAIN lines : i # j /\ lines[i].line = lines[j].line
               THEN {<<"lineTwice", o>>} ELSE {})
        /\ Ends(c)
        /\ UNCHANGED returns

FulfillRefused(c) ==
    /\ Locked(c, "fulfill")
    /\ ~(WithinOrder(call[c].seen, call[c].lines) /\ StockSuffices(call[c].seen, call[c].lines))
    /\ Ends(c)
    /\ UNCHANGED <<orders, deliveries, returns, ledger, history>>

-----------------------------------------------------------------------------
(* Returns *)

\* createReturn: an order in any status, any quantity of its products.
ReturnToOrderRead(c, o, body) ==
    /\ Free(c) /\ Len(returns) < MaxReturns
    /\ Begins(c, [step |-> "lock", op |-> "return", document |-> OrderDoc(o), order |-> o,
                  seen |-> orders[o], body |-> body, lines |-> body.lines, attempt |-> 1,
                  products |-> ProductsIn(body.lines)])
    /\ UNCHANGED <<orders, deliveries, returns, ledger, rowLock>>

\* The rows of a return, the last of them with the running quantity of its product.
GivesBack(body, running) ==
    ledger' = [p \in Products |->
        IF p \in ProductsIn(body.lines)
        THEN AppendRow(ledger[p], Quantity(body.lines, p), running[p], body.date)
        ELSE ledger[p]]

\* Added to the row written last.
AfterLast(body) == [p \in Products |-> ledger[p].running + Quantity(body.lines, p)]

InOrder(order, body) ==
    \A l \in ToSet(body.lines) : \E i \in DOMAIN order.lines : order.lines[i].product = l.product

ReturnToOrder(c) ==
    /\ Locked(c, "return") /\ InOrder(call[c].seen, call[c].body)
    /\ Len(returns) < MaxReturns
    /\ returns' = Append(returns, [document |-> call[c].document, lines |-> call[c].lines])
    /\ GivesBack(call[c].body, AfterLast(call[c].body))
    /\ Ends(c)
    /\ UNCHANGED <<orders, deliveries, history>>

ReturnToOrderRefused(c) ==
    /\ Locked(c, "return") /\ ~InOrder(call[c].seen, call[c].body)
    /\ Ends(c)
    /\ UNCHANGED <<orders, deliveries, returns, ledger, history>>

Returned(document, p) ==
    SumFunction([r \in DOMAIN returns |->
        IF returns[r].document = document THEN Quantity(returns[r].lines, p) ELSE 0])

LastQty(lines, p) == lines[Max({i \in DOMAIN lines : lines[i].product = p})].qty

\* loadReferenceSaleLines: of several lines of a product the last one stays.
SoldQty(p) == LastQty(SaleLines, p)

\* Mutant: earlier returns are not added.
ReturnableWhole(body) ==
    \A l \in ToSet(body.lines) :
        /\ l.product \in ProductsIn(SaleLines)
        /\ l.qty <= SoldQty(l.product)

\* validateReturnQuantities, every line by itself.
Returnable(body) ==
    \A l \in ToSet(body.lines) :
        /\ l.product \in ProductsIn(SaleLines)
        /\ l.qty + Returned(SaleDoc, l.product) <= SoldQty(l.product)

\* createSalesReturn of a POS sale.
ReturnSaleRead(c, body) ==
    /\ Free(c) /\ Len(returns) < MaxReturns
    /\ Returnable(body)
    /\ Begins(c, [step |-> "saleReturn", document |-> SaleDoc, body |-> body])
    /\ UNCHANGED <<orders, deliveries, returns, ledger, rowLock>>

\* createSalesReturn of an order: the quantity it compares with is not a number, and
\* nothing is refused but a product that is not in the order.
ReturnOrderedRead(c, o, body) ==
    /\ Free(c) /\ Len(returns) < MaxReturns
    /\ InOrder(orders[o], body)
    /\ Begins(c, [step |-> "saleReturn", document |-> OrderDoc(o), body |-> body])
    /\ UNCHANGED <<orders, deliveries, returns, ledger, rowLock>>

\* Added to the row that is last by date, which is the one of the line before unless the
\* return is dated before it.
AfterLatest(body) == [p \in Products |->
    ledger[p].datedRunning + (IF body.date >= ledger[p].date THEN Quantity(body.lines, p)
                              ELSE LastQty(body.lines, p))]

ReturnSale(c) ==
    LET body == call[c].body IN
    /\ In(c, "saleReturn")
    /\ Len(returns) < MaxReturns
    /\ returns' = Append(returns, [document |-> call[c].document, lines |-> body.lines])
    /\ GivesBack(body, AfterLatest(body))
    /\ history' = history
          \cup {<<"byDate", p>> : p \in ProductsIn(body.lines)}
          \cup (IF \E i, j \in DOMAIN body.lines :
                     i # j /\ body.lines[i].product = body.lines[j].product
                THEN {<<"productTwice", 0>>} ELSE {})
    /\ Ends(c)
    /\ UNCHANGED <<orders, deliveries>>

\* An error of the database or the service: the transaction is rolled back.
CallFails(c) ==
    /\ ~Free(c) /\ Ends(c)
    /\ UNCHANGED <<orders, deliveries, returns, ledger, history>>

-----------------------------------------------------------------------------
Order(c) ==
    \/ \E cu \in Customers, b \in Branches, body \in OrderBodies : Create(c, cu, b, body)
    \/ \E o \in DOMAIN orders, u \in Users : ApproveRead(c, o, u)

Deliver(c) == \E o \in DOMAIN orders, body \in Deliveries : FulfillRead(c, o, body)

GiveBack(c) ==
    \E body \in ReturnBodies :
        \/ ReturnSaleRead(c, body)
        \/ \E o \in DOMAIN orders : ReturnToOrderRead(c, o, body) \/ ReturnOrderedRead(c, o, body)

Step(c) ==
    \/ Approve(c)
    \/ LockNext(c) \/ LockFails(c) \/ Retry(c)
    \/ Fulfill(c) \/ FulfillRefused(c)
    \/ ReturnToOrder(c) \/ ReturnToOrderRefused(c) \/ ReturnSale(c)
    \/ CallFails(c)

Next ==
    \/ \E c \in Ordering : Order(c)
    \/ \E c \in Delivering : Deliver(c)
    \/ \E c \in Returning : GiveBack(c)
    \/ \E c \in Clerks : Step(c)

Spec == Init /\ [][Next]_vars

-----------------------------------------------------------------------------
(* Properties *)

\* BR-INV-001: no order of deliveries and returns takes the stock below zero.
StockNonNegative == \A p \in Products : ledger[p].sum >= 0

\* The running quantity written last is the stock, while createSalesReturn, which takes it
\* from the row last by date, has not written for the product.
RunningIsBalance ==
    \A p \in Products : <<"byDate", p>> \in history \/ ledger[p].running = ledger[p].sum

\* Two calls have met at the order, or a delivery of it named a line twice.
Odd(o) == {OrderDoc(o), <<"lineTwice", o>>} \cap history # {}

\* qty_delivered is what the deliveries of the order say, over any retries and however
\* calls meet; and it is within the order, unless two calls meet at it or a body names a
\* line twice.
DeliveredTo(o, i) ==
    SumFunction([d \in DOMAIN deliveries |->
        IF deliveries[d].order = o THEN OnLine(deliveries[d].lines, i) ELSE 0])
DeliveredWithinOrder ==
    \A o \in DOMAIN orders : \A i \in DOMAIN orders[o].lines :
        /\ orders[o].lines[i].delivered = DeliveredTo(o, i)
        /\ Odd(o) \/ orders[o].lines[i].delivered <= orders[o].lines[i].ordered

\* An order all of whose lines are delivered is FULFILLED, also when it was delivered in
\* parts; with the same exceptions: parts of one line are looked at one by one, and none
\* of them ends the order.  (The converse is not so: a delivery of one line in full makes
\* the order FULFILLED.)
DeliveredIsFulfilled ==
    \A o \in DOMAIN orders :
        Odd(o) \/ orders[o].status = "FULFILLED"
               \/ \E i \in DOMAIN orders[o].lines : Rest(orders[o].lines[i]) # 0

\* No more of a POS sale comes back than was sold, over any number of returns, unless two
\* of them meet or a body names a product twice.
ReturnedWithinSold ==
    {SaleDoc, <<"productTwice", 0>>} \cap history # {} \/
    \A p \in Products : Returned(SaleDoc, p) <= Quantity(SaleLines, p)

\* What fulfill promises: a delivery is within the stock and within the order, and the
\* last one ends the order.
DeliveriesHold ==
    TypeOK /\ StockNonNegative /\ RunningIsBalance /\ DeliveredWithinOrder /\ DeliveredIsFulfilled
=============================================================================
