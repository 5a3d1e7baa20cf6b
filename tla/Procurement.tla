----------------------------- MODULE Procurement -----------------------------
(***************************************************************************)
(* Purchase orders, the goods receipts that fill them and the returns to   *)
(* the supplier: PurchaseOrderService, GoodsReceiptService and             *)
(* PurchaseReturnService, served to concurrent sessions.                   *)
(*                                                                         *)
(* Every handler reads and checks first and writes in a transaction of its *)
(* own, by id: what it checked may have changed.  The transaction of       *)
(* confirm is cut where another one can come between: it reads the order   *)
(* line, updates it (a row lock until COMMIT), works out the status of the *)
(* order, updates the order (another row lock), reads the stock, commits.  *)
(*                                                                         *)
(* Of the data there is one warehouse, one line per receipt, and no        *)
(* prices: an amount is a quantity.  Left out are the checks that refuse a *)
(* call before it has changed anything and do not depend on this state:    *)
(* suppliers, products, units, permissions, reasons, the warehouse lock    *)
(* and the fiscal period.                                                  *)
(***************************************************************************)
EXTENDS StockLedger, JournalEngine, FiniteSets, SequencesExt

CONSTANTS
    Products, Users,
    Buying, Receiving, Returning,   \* sessions that serve orders, receipts, returns
    OrderBodies,    \* quantities ordered: functions from Products to Nat
    ReceiptBodies,  \* what a receipt says: [product, qty, date]
    ReturnBodies,   \* what a return says: [lines, date], a line is [product, qty]
    MaxOrders, MaxReceipts, MaxReturns  \* bounds

Line == [product : Products, qty : Nat]

\* GoodsReceiptSchema asks for positive quantities.
ASSUME ProcurementAssumption ==
    /\ OrderBodies \subseteq [Products -> Nat]
    /\ ReceiptBodies \subseteq [product : Products, qty : Nat \ {0}, date : Nat \ {NoDate}]
    /\ \A b \in ReturnBodies : b.lines \in Seq(Line) /\ b.date \in Nat \ {NoDate}

Sessions == Buying \cup Receiving \cup Returning

VARIABLES orders, receipts, returns, ledger, journal, call, history

vars == <<orders, receipts, returns, ledger, journal, call, history>>

OrderStatus == {"DRAFT", "PENDING_APPROVAL", "APPROVED", "REJECTED",
                "PARTIALLY_RECEIVED", "FULLY_RECEIVED", "CANCELLED", "CLOSED"}
NoUser == "none"

Order == [status : OrderStatus, creator : Users, approver : Users \cup {NoUser},
          ordered : [Products -> Nat], received : [Products -> Nat]]
Receipt == [order : Nat, product : Products, qty : Nat \ {0}, date : Nat \ {NoDate},
            status : {"DRAFT", "CONFIRMED"}, deleted : BOOLEAN, counted : BOOLEAN]
Return == [receipt : Nat, lines : Seq(Line)]

NoCall == [step |-> "none"]

\* The rows and calls the services can produce; a session holds a row lock alone.
TypeOK ==
    /\ orders \in Seq(Order) /\ receipts \in Seq(Receipt) /\ returns \in Seq(Return)
    /\ ledger \in [Products -> Ledgers]
    /\ \A s \in Sessions : call[s].step \in
          {"none", "order", "draft", "confirm", "line", "status", "posting", "drop",
           "return", "returning"}
    /\ \A s, o \in Sessions :
          s # o /\ call[s].step = "posting" /\ call[o].step = "posting"
            => call[s].order # call[o].order
    /\ history \subseteq {"sameOrder", "sameProduct", "backDated", "lineTwice"}

Init ==
    /\ orders = << >> /\ receipts = << >> /\ returns = << >>
    /\ ledger = [p \in Products |-> EmptyLedger]
    /\ journal = << >>
    /\ call = [s \in Sessions |-> NoCall]
    /\ history = {}

Free(s) == call[s] = NoCall
Ends(s) == call' = [call EXCEPT ![s] = NoCall]

\* A call begins: remembered when it is beside another one for the same order, or
\* for the stock of the same product.
Begins(s, c) ==
    LET others == {call[o] : o \in Sessions \ {s}} IN
    /\ call' = [call EXCEPT ![s] = c]
    /\ history' = history
          \cup (IF \E d \in others : "order" \in DOMAIN d /\ d.order = c.order
                THEN {"sameOrder"} ELSE {})
          \cup (IF "products" \in DOMAIN c
                   /\ \E d \in others : "products" \in DOMAIN d
                                        /\ d.products \cap c.products # {}
                THEN {"sameProduct"} ELSE {})

-----------------------------------------------------------------------------
(* Purchase orders *)

VALID_TRANSITIONS ==
    [DRAFT |-> {"PENDING_APPROVAL"},
     PENDING_APPROVAL |-> {"APPROVED", "REJECTED"},
     REJECTED |-> {"DRAFT"},
     APPROVED |-> {"PARTIALLY_RECEIVED", "FULLY_RECEIVED", "CANCELLED"},
     PARTIALLY_RECEIVED |-> {"FULLY_RECEIVED"},
     FULLY_RECEIVED |-> {"CLOSED"},
     CANCELLED |-> {},
     CLOSED |-> {}]

validateTransition(from, to) == to \in VALID_TRANSITIONS[from]

CreateOrder(s, u, b) ==
    /\ Free(s)
    /\ Len(orders) < MaxOrders
    /\ orders' = Append(orders, [status |-> "DRAFT", creator |-> u, approver |-> NoUser,
                                 ordered |-> b, received |-> [p \in Products |-> 0]])
    /\ UNCHANGED <<receipts, returns, ledger, journal, call, history>>

OrderCall(s, o, to, approver) ==
    /\ Free(s)
    /\ validateTransition(orders[o].status, to)
    /\ Begins(s, [step |-> "order", order |-> o, to |-> to, approver |-> approver])
    /\ UNCHANGED <<orders, receipts, returns, ledger, journal>>

Submit(s, o) == OrderCall(s, o, "PENDING_APPROVAL", NoUser)
\* SOD-001: not by its creator.
Approve(s, o, u) == orders[o].creator # u /\ OrderCall(s, o, "APPROVED", u)
Reject(s, o) == OrderCall(s, o, "REJECTED", NoUser)
Revise(s, o) == OrderCall(s, o, "DRAFT", NoUser)
Close(s, o) == OrderCall(s, o, "CLOSED", NoUser)

ConfirmedReceipts(o) == {g \in DOMAIN receipts : receipts[g].order = o
                                                 /\ receipts[g].status = "CONFIRMED"}

\* Mutant: an order is cancelled whatever was received for it.
CancelAnyway(s, o) ==
    /\ Free(s)
    /\ orders[o].status \in {"APPROVED", "PARTIALLY_RECEIVED"}
    /\ Begins(s, [step |-> "order", order |-> o, to |-> "CANCELLED",
                  approver |-> NoUser])
    /\ UNCHANGED <<orders, receipts, returns, ledger, journal>>

Cancel(s, o) ==
    ConfirmedReceipts(o) = {} /\ OrderCall(s, o, "CANCELLED", NoUser)

\* Row locks of confirm's transaction: on the order line from its update, on the
\* order from its own update.
LineLocked(o, p) ==
    \E s \in Sessions : call[s].step \in {"status", "posting"}
                        /\ call[s].order = o /\ call[s].products = {p}

OrderLocked(o) == \E s \in Sessions : call[s].step = "posting" /\ call[s].order = o

\* purchaseOrder.update({ where: { id } }): the status read before is not asked for.
OrderUpdate(s) ==
    LET c == call[s] IN
    /\ c.step = "order"
    /\ ~OrderLocked(c.order)
    /\ orders' = [orders EXCEPT ![c.order].status = c.to,
          ![c.order].approver = IF c.to = "APPROVED" THEN c.approver
                                ELSE orders[c.order].approver]
    /\ Ends(s)
    /\ UNCHANGED <<receipts, returns, ledger, journal, history>>

-----------------------------------------------------------------------------
(* Goods receipts *)

Receivable(o) == orders[o].status \in {"APPROVED", "PARTIALLY_RECEIVED"}

NewReceipt(o, b, counted) ==
    [order |-> o, product |-> b.product, qty |-> b.qty, date |-> b.date,
     status |-> "DRAFT", deleted |-> FALSE, counted |-> counted]

Draft(s, o, b, counted) ==
    /\ Len(receipts) < MaxReceipts
    /\ Begins(s, [step |-> "draft", order |-> o, received |-> orders[o].received[b.product],
                  receipt |-> NewReceipt(o, b, counted)])
    /\ UNCHANGED <<orders, receipts, returns, ledger, journal>>

\* GoodsReceiptService.create (BR-PUR-003).  The policy is REJECT: no tolerance.
ReceiptCheck(s, o, b) ==
    /\ Free(s)
    /\ Receivable(o)
    /\ orders[o].ordered[b.product] > 0
    /\ orders[o].received[b.product] + b.qty <= orders[o].ordered[b.product]
    /\ Draft(s, o, b, FALSE)

\* PurchaseOrderService.receiveGoods: the receipt is counted at once.
ReceiveGoodsCheck(s, o, b) ==
    /\ Free(s)
    /\ Receivable(o)
    /\ b.qty <= orders[o].ordered[b.product] - orders[o].received[b.product]
    /\ Draft(s, o, b, TRUE)

\* The lines of an order once the quantity is added to the one read.
Filled(o, p, received) == [orders[o].received EXCEPT ![p] = received]

\* The transaction of either.
DraftCreate(s) ==
    LET c == call[s]
        g == c.receipt
    IN  /\ c.step = "draft"
        /\ Len(receipts) < MaxReceipts
        /\ g.counted => ~LineLocked(c.order, g.product)
        /\ receipts' = Append(receipts, g)
        /\ orders' = IF g.counted
                     THEN [orders EXCEPT ![c.order].received =
                           Filled(c.order, g.product, c.received + g.qty)]
                     ELSE orders
        /\ Ends(s)
        /\ UNCHANGED <<returns, ledger, journal, history>>

\* A call of confirm, with what it will have read and worked out.
Confirming(g) ==
    [step |-> "confirm", order |-> receipts[g].order, receipt |-> g,
     products |-> {receipts[g].product}, received |-> 0, status |-> "DRAFT", running |-> 0]

\* Mutant: the status is not checked.
ConfirmCheckAgain(s, g) ==
    /\ Free(s)
    /\ ~receipts[g].deleted
    /\ Begins(s, Confirming(g))
    /\ UNCHANGED <<orders, receipts, returns, ledger, journal>>

\* confirm: the checks before its transaction.
ConfirmCheck(s, g) ==
    /\ Free(s)
    /\ receipts[g].status = "DRAFT" /\ ~receipts[g].deleted
    /\ Begins(s, Confirming(g))
    /\ UNCHANGED <<orders, receipts, returns, ledger, journal>>

\* The transaction reads the order line ...
ConfirmReadLine(s) ==
    LET c == call[s] IN
    /\ c.step = "confirm"
    /\ call' = [call EXCEPT ![s].step = "line",
          ![s].received = orders[c.order].received[receipts[c.receipt].product]]
    /\ UNCHANGED <<orders, receipts, returns, ledger, journal, history>>

\* What the transaction of s sees of the order lines once it has updated its own.
SeenLines(s) ==
    LET c == call[s]
        g == receipts[c.receipt]
    IN  Filled(c.order, g.product, c.received + g.qty)

FilledStatus(o, received) ==
    IF \A p \in Products : received[p] >= orders[o].ordered[p] THEN "FULLY_RECEIVED"
    ELSE IF \E p \in Products : received[p] > 0 THEN "PARTIALLY_RECEIVED"
    ELSE orders[o].status

\* ... updates it, and works out the new status of the order from all lines ...
ConfirmUpdateLine(s) ==
    LET c == call[s]
        g == receipts[c.receipt]
    IN  /\ c.step = "line"
        /\ ~LineLocked(c.order, g.product)
        /\ call' = [call EXCEPT ![s].step = "status",
              ![s].status = FilledStatus(c.order, SeenLines(s))]
        /\ UNCHANGED <<orders, receipts, returns, ledger, journal, history>>

\* ... updates the order, and reads the row of the stock that is last by date ...
ConfirmUpdateOrder(s) ==
    LET c == call[s] IN
    /\ c.step = "status"
    /\ ~OrderLocked(c.order)
    /\ call' = [call EXCEPT ![s].step = "posting",
          ![s].running = ledger[receipts[c.receipt].product].datedRunning]
    /\ UNCHANGED <<orders, receipts, returns, ledger, journal, history>>

\* Whether a row of this date is not the last one of its product by date.
BackDated(p, d) == IF d < ledger[p].date THEN {"backDated"} ELSE {}

\* ... and commits, with the ledger row and the journal entry of the receipt.
ConfirmCommit(s) ==
    LET c == call[s]
        g == receipts[c.receipt]
        p == g.product
    IN  /\ c.step = "posting"
        /\ orders' = [orders EXCEPT ![c.order].status = c.status,
                                   ![c.order].received = SeenLines(s)]
        /\ receipts' = [receipts EXCEPT ![c.receipt].status = "CONFIRMED"]
        /\ ledger' = [ledger EXCEPT ![p] = AppendRow(ledger[p], g.qty, c.running + g.qty, g.date)]
        /\ journal' = ProcessEvent(journal, "GOODS_RECEIPT", <<"GR", c.receipt>>, g.qty)
        /\ history' = history \cup BackDated(p, g.date)
        /\ Ends(s)
        /\ UNCHANGED returns

\* cancel of a receipt: DRAFT when read ...
DropCheck(s, g) ==
    /\ Free(s)
    /\ receipts[g].status = "DRAFT" /\ ~receipts[g].deleted
    /\ Begins(s, [step |-> "drop", order |-> receipts[g].order, receipt |-> g])
    /\ UNCHANGED <<orders, receipts, returns, ledger, journal>>

\* ... and deleted, whatever it is by then.  A quantity receiveGoods has counted stays.
DropReceipt(s) ==
    /\ call[s].step = "drop"
    /\ receipts' = [receipts EXCEPT ![call[s].receipt].deleted = TRUE]
    /\ Ends(s)
    /\ UNCHANGED <<orders, returns, ledger, journal, history>>

-----------------------------------------------------------------------------
(* Returns to the supplier *)

LinesQty(lines, p) ==
    SumFunction([i \in DOMAIN lines |-> IF lines[i].product = p THEN lines[i].qty ELSE 0])
ProductsIn(lines) == {l.product : l \in ToSet(lines)}

\* What earlier returns took of a receipt.
Returned(g, p) ==
    SumFunction([r \in DOMAIN returns |->
        IF returns[r].receipt = g THEN LinesQty(returns[r].lines, p) ELSE 0])

\* Each line of a return is compared alone with what the receipt has left.
Returnable(g, l) ==
    l.product = receipts[g].product /\ l.qty <= receipts[g].qty - Returned(g, l.product)

\* createReturn, g = 0 when no receipt is named: nothing is compared then.
ReturnCheck(s, g, b) ==
    /\ Free(s)
    /\ Len(returns) < MaxReturns
    /\ g # 0 => /\ receipts[g].status = "CONFIRMED" /\ ~receipts[g].deleted
                /\ \A l \in ToSet(b.lines) : Returnable(g, l)
    /\ Begins(s, [step |-> "return", order |-> IF g = 0 THEN 0 ELSE receipts[g].order,
                  products |-> ProductsIn(b.lines), receipt |-> g,
                  lines |-> b.lines, date |-> b.date,
                  running |-> [p \in Products |-> 0]])
    /\ UNCHANGED <<orders, receipts, returns, ledger, journal>>

\* The transaction reads the row written last, without a lock; its own rows are seen
\* by its later lines.
ReturnRead(s) ==
    LET c == call[s] IN
    /\ c.step = "return"
    /\ \A p \in c.products : LinesQty(c.lines, p) <= ledger[p].running
    /\ call' = [call EXCEPT ![s].step = "returning",
          ![s].running = [p \in Products |->
                            IF p \in c.products THEN ledger[p].running ELSE 0]]
    /\ UNCHANGED <<orders, receipts, returns, ledger, journal, history>>

ReturnRefused(s) ==
    /\ call[s].step = "return"
    /\ \E p \in call[s].products : LinesQty(call[s].lines, p) > ledger[p].running
    /\ Ends(s)
    /\ UNCHANGED <<orders, receipts, returns, ledger, journal, history>>

ReturnCommit(s) ==
    LET c == call[s]
        qty(p) == LinesQty(c.lines, p)
    IN  /\ c.step = "returning"
        /\ Len(returns) < MaxReturns
        /\ returns' = Append(returns, [receipt |-> c.receipt, lines |-> c.lines])
        /\ ledger' = [p \in Products |->
              IF p \in c.products
              THEN AppendRow(ledger[p], -qty(p), c.running[p] - qty(p), c.date)
              ELSE ledger[p]]
        /\ journal' = ProcessEvent(journal, "STOCK_ADJUSTMENT_NEGATIVE",
                                   <<"PURCHASE_RETURN", Len(returns) + 1>>,
                                   SumFunction([i \in DOMAIN c.lines |-> c.lines[i].qty]))
        /\ history' = history \cup (UNION {BackDated(p, c.date) : p \in c.products})
              \cup (IF Cardinality(c.products) < Len(c.lines) THEN {"lineTwice"} ELSE {})
        /\ Ends(s)
        /\ UNCHANGED <<orders, receipts>>

\* A statement of a call fails; a transaction under way is rolled back.
CallFails(s) ==
    /\ ~Free(s)
    /\ Ends(s)
    /\ UNCHANGED <<orders, receipts, returns, ledger, journal, history>>

-----------------------------------------------------------------------------
OrderStep(s) ==
    \/ \E u \in Users, b \in OrderBodies : CreateOrder(s, u, b)
    \/ \E o \in DOMAIN orders :
          \/ Submit(s, o) \/ Reject(s, o) \/ Revise(s, o) \/ Cancel(s, o) \/ Close(s, o)
          \/ \E u \in Users : Approve(s, o, u)

ReceiptStep(s) ==
    \/ \E o \in DOMAIN orders, b \in ReceiptBodies :
          ReceiptCheck(s, o, b) \/ ReceiveGoodsCheck(s, o, b)
    \/ \E g \in DOMAIN receipts : ConfirmCheck(s, g) \/ DropCheck(s, g)

ReturnStep(s) ==
    \E g \in {0} \cup DOMAIN receipts, b \in ReturnBodies : ReturnCheck(s, g, b)

Serve(s) ==
    \/ OrderUpdate(s) \/ DraftCreate(s) \/ DropReceipt(s)
    \/ ConfirmReadLine(s) \/ ConfirmUpdateLine(s) \/ ConfirmUpdateOrder(s) \/ ConfirmCommit(s)
    \/ ReturnRead(s) \/ ReturnRefused(s) \/ ReturnCommit(s)
    \/ CallFails(s)

Next ==
    \/ \E s \in Buying : OrderStep(s)
    \/ \E s \in Receiving : ReceiptStep(s)
    \/ \E s \in Returning : ReturnStep(s)
    \/ \E s \in Sessions : Serve(s)

Spec == Init /\ [][Next]_vars

-----------------------------------------------------------------------------
(* Properties *)

IsConfirmed(g) == receipts[g].status = "CONFIRMED"

\* What a receipt brings into stock, and what it adds to the line of its order.
Brings(row, p) == IF row.status = "CONFIRMED" /\ row.product = p THEN row.qty ELSE 0
CountsFor(row, o, p) ==
    IF row.order # o \/ row.product # p THEN 0
    ELSE (IF row.status = "CONFIRMED" THEN row.qty ELSE 0) + (IF row.counted THEN row.qty ELSE 0)

\* qty_received adds up: after drafts, cancelled drafts, failures and confirmations an
\* order line has received what its confirmed receipts say, and what receiveGoods has
\* counted before.  Two calls for one order at a time are excepted: each writes the
\* sum it worked out from its own read.
ReceivedAddsUp ==
    "sameOrder" \notin history => \A o \in DOMAIN orders, p \in Products :
        orders[o].received[p] =
            SumFunction([g \in DOMAIN receipts |-> CountsFor(receipts[g], o, p)])

\* The ledger agrees with the documents: stock is what confirmed receipts brought and
\* returns took, unless calls for one order met (a receipt confirmed twice comes in
\* twice).
StockFollowsDocuments ==
    "sameOrder" \notin history => \A p \in Products :
        ledger[p].sum = SumFunction([g \in DOMAIN receipts |-> Brings(receipts[g], p)])
                        - SumFunction([r \in DOMAIN returns |-> LinesQty(returns[r].lines, p)])

\* A receipt is in the journal once when it is CONFIRMED and not at all before, also
\* when two calls confirm it at the same time: the row lock on the order line makes the
\* second one see the entry of the first.
ReceiptPostedOnce ==
    \A g \in DOMAIN receipts :
        Cardinality({i \in DOMAIN journal : journal[i].reference = <<"GR", g>>})
          = IF IsConfirmed(g) THEN 1 ELSE 0

\* running_qty is the balance as long as nothing is dated before what is there, and no
\* two calls move the stock of a product at the same time.
RunningIsBalance ==
    history \cap {"sameProduct", "backDated"} = {} =>
        \A p \in Products : ledger[p].running = ledger[p].sum

\* No receipt is sent back more than once over, over any number of returns, unless two
\* returns meet or one return names a line twice.
ReturnsWithinReceipt ==
    history \cap {"sameOrder", "lineTwice"} = {} =>
        \A g \in DOMAIN receipts : Returned(g, receipts[g].product) <= receipts[g].qty

\* "Only allowed if no Goods Receipt has been confirmed yet": a cancelled order has no
\* confirmed receipt, unless a confirmation was under way when it was cancelled.
CancelledHasNoGoods ==
    "sameOrder" \notin history => \A o \in DOMAIN orders :
        orders[o].status = "CANCELLED" => ConfirmedReceipts(o) = {}

\* Goods are only where a receipt and a live order say so: what was sent back had come,
\* and what was cancelled has received nothing.
GoodsHold == ReturnsWithinReceipt /\ CancelledHasNoGoods

\* A receipt counts once, wherever it counts: on the line of its order, in the ledger
\* and its running quantity, in the journal.
ReceiptCountsOnce ==
    TypeOK /\ ReceivedAddsUp /\ StockFollowsDocuments /\ ReceiptPostedOnce /\ RunningIsBalance
=============================================================================
