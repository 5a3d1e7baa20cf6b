--------------------------------- MODULE Pos ---------------------------------
(***************************************************************************)
(* POSService: cashier shifts, the checkout of processFullTransaction and  *)
(* voidTransaction, served to concurrent sessions.                         *)
(*                                                                         *)
(* A checkout is not one database transaction but a chain of them: create  *)
(* the sale, add every item (up to three attempts each, under a NOWAIT     *)
(* lock on the product), take the payment.  Every link reads the sale and  *)
(* its version anew, and what earlier links committed stays when a later   *)
(* one throws.  A void reads the sale, locks its products, and writes the  *)
(* stock back.                                                             *)
(*                                                                         *)
(* Left out: prices, discounts and tax (an amount is qty times Price), the *)
(* customer's credit check and the permission checks, which refuse a call  *)
(* before it has changed anything, and hold, resume and forceCloseShift    *)
(* as interleaved calls: no route reaches them, so they are single steps.  *)
(***************************************************************************)
EXTENDS StockTx, SequencesExt, JournalEngine

CONSTANTS
    Cashiers,
    Checkouts,          \* bodies of POST transactions: [items, paid]
    Price,              \* what one unit of a product costs, tax included
    InitialStock,       \* on hand of every product in every warehouse
    Cashing,            \* sessions that serve shifts and checkouts
    Voiding,            \* sessions that serve voids
    Unrouted,           \* sessions that call what no route reaches
    PeriodOpen,         \* whether a fiscal period is OPEN
    MaxShifts, MaxSales,    \* bounds
    MaxVersion          \* bound: a sale of this version is not voided or held again

ASSUME PosAssumption ==
    /\ Cashing \cup Voiding \cup Unrouted \subseteq Sessions
    /\ Checkouts \subseteq [items : Seq([product : Products, qty : Nat \ {0}]), paid : Nat]
    /\ Price \in [Products -> Nat]
    /\ InitialStock \in Nat
    /\ PeriodOpen \in BOOLEAN

Attempts == 3       \* for (let attempt = 1; attempt <= 3; attempt++)
Today == 1          \* movement_date: new Date()

VARIABLES
    shifts,         \* shifts, by id
    sales,          \* pos_transactions with lines, payment and journal entries, by id
    call,           \* what a session serves
    overlapped      \* history: whether two calls worked on one sale at the same time

posVars == <<shifts, sales, call, overlapped>>
vars == <<stockVars, posVars>>

Item == [product : Products, qty : Nat \ {0}]
Entry ==
    [event : {"POS_SALE", "POS_SALE_COGS", "POS_SALE_REVERSAL", "POS_SALE_COGS_REVERSAL"},
     reference : {"POS_TRANSACTION", "POS_VOID"}, amount : Nat, status : {"POSTED"},
     auto : {TRUE}]
Sale ==
    [shift : Nat, status : {"OPEN", "HELD", "COMPLETED", "VOIDED", "CANCELLED"},
     version : Nat, lines : Seq(Item), total : Nat, paid : Nat, change : Int,
     journal : Seq(Entry)]
Shift ==
    [cashier : Cashiers, warehouse : Warehouses, status : {"OPEN", "CLOSED"},
     expected : Int]

NoCall == [step |-> "none"]
Steps == {"none", "opening", "closing", "item", "add", "pay", "settle", "void",
          "lock", "write", "commit"}

TypeOK ==
    /\ StockTypeOK
    /\ shifts \in Seq(Shift)
    /\ sales \in Seq(Sale)
    /\ \A s \in Sessions :
          /\ call[s].step \in Steps
          /\ "attempt" \in DOMAIN call[s] => call[s].attempt \in 1..Attempts
          /\ "sale" \in DOMAIN call[s] => call[s].sale \in DOMAIN sales
    /\ overlapped \in BOOLEAN

Init ==
    /\ ledger = [k \in Keys |-> AppendRow(EmptyLedger, InitialStock, InitialStock, Today)]
    /\ rowLock = [p \in Products |-> NoSession]
    /\ own = [s \in Sessions |-> [k \in Keys |-> NoRows]]
    /\ shifts = << >>
    /\ sales = << >>
    /\ call = [s \in Sessions |-> NoCall]
    /\ overlapped = FALSE

Free(s) == call[s] = NoCall
Ends(s) == call' = [call EXCEPT ![s] = NoCall]
Goes(s, step) == call' = [call EXCEPT ![s].step = step]

\* Mutant: the statements before the exception are kept.
ThrowKeepsRows(s) == CommitRows(s, Today) /\ Ends(s) /\ UNCHANGED <<shifts, sales, overlapped>>

\* An exception leaves the handler.  What it committed before stays.
Throw(s) == Rollback(s) /\ Ends(s) /\ UNCHANGED <<shifts, sales, overlapped>>

-----------------------------------------------------------------------------
(* Shifts *)

OpenShiftOf(k) == \E i \in DOMAIN shifts : shifts[i].cashier = k /\ shifts[i].status = "OPEN"

\* openShift finds no open shift of the cashier ...
OpenShiftCheck(s, k, w) ==
    /\ Free(s)
    /\ Len(shifts) < MaxShifts
    /\ ~OpenShiftOf(k)
    /\ call' = [call EXCEPT ![s] = [step |-> "opening", cashier |-> k, warehouse |-> w]]
    /\ UNCHANGED <<stockVars, shifts, sales, overlapped>>

\* ... and creates one, also if another call has done so since.
OpenShiftCreate(s) ==
    /\ call[s].step = "opening"
    /\ shifts' = Append(shifts, [cashier |-> call[s].cashier,
                                 warehouse |-> call[s].warehouse,
                                 status |-> "OPEN", expected |-> 0])
    /\ Ends(s)
    /\ UNCHANGED <<stockVars, sales, overlapped>>

SalesOf(i) == {t \in DOMAIN sales : sales[t].shift = i}

\* Cash that the completed sales of a shift brought in.
CashIn(i) ==
    SumFunctionOnSet([t \in DOMAIN sales |-> sales[t].paid - sales[t].change],
                     {t \in SalesOf(i) : sales[t].status = "COMPLETED"})

\* closeShift adds up the completed sales ...
CloseShiftRead(s, i) ==
    /\ Free(s)
    /\ shifts[i].status = "OPEN"
    /\ call' = [call EXCEPT ![s] = [step |-> "closing", shift |-> i, expected |-> CashIn(i)]]
    /\ UNCHANGED <<stockVars, shifts, sales, overlapped>>

\* ... and writes what it read, whatever was sold since.
CloseShiftWrite(s) ==
    /\ call[s].step = "closing"
    /\ shifts' = [shifts EXCEPT ![call[s].shift] =
                     [@ EXCEPT !.status = "CLOSED", !.expected = call[s].expected]]
    /\ Ends(s)
    /\ UNCHANGED <<stockVars, sales, overlapped>>

\* forceCloseShift cancels the open sales of the shift.  Their stock is not returned.
ForceCloseShift(s, i) ==
    /\ Free(s)
    /\ shifts[i].status # "CLOSED"
    /\ sales' = [t \in DOMAIN sales |->
                    IF t \in SalesOf(i) /\ sales[t].status = "OPEN"
                    THEN [sales[t] EXCEPT !.status = "CANCELLED"] ELSE sales[t]]
    /\ shifts' = [shifts EXCEPT ![i] =
                     [@ EXCEPT !.status = "CLOSED", !.expected = CashIn(i)]]
    /\ UNCHANGED <<stockVars, call, overlapped>>

-----------------------------------------------------------------------------
(* Checkout: createTransaction, addItem for every item, applyPayment *)

NewSale(i) ==
    [shift |-> i, status |-> "OPEN", version |-> 1, lines |-> << >>, total |-> 0,
     paid |-> 0, change |-> 0, journal |-> << >>]

\* createTransaction: the only place that looks at the status of the shift.
CreateSale(s, i, r) ==
    /\ Free(s)
    /\ Len(sales) < MaxSales
    /\ shifts[i].status = "OPEN"
    /\ sales' = Append(sales, NewSale(i))
    /\ call' = [call EXCEPT ![s] =
          [step |-> "item", op |-> "SALE", sale |-> Len(sales) + 1, items |-> r.items,
           paid |-> r.paid, change |-> 0, next |-> 1, attempt |-> 1, version |-> 1]]
    /\ UNCHANGED <<stockVars, shifts, overlapped>>

\* The next item, with the version the sale has now; or, after the last one, the
\* payment.
NextLink(s) ==
    LET c == call[s] IN
    /\ c.step = "item"
    /\ call' = [call EXCEPT ![s] =
          [c EXCEPT !.step = IF c.next <= Len(c.items) THEN "add" ELSE "pay",
                    !.attempt = 1,
                    !.version = sales[c.sale].version]]
    /\ UNCHANGED <<stockVars, shifts, sales, overlapped>>

\* Both addItem and applyPayment ask for an OPEN sale of the version read before.
SaleAsExpected(s) ==
    LET sale == sales[call[s].sale]
    IN  sale.status = "OPEN" /\ sale.version = call[s].version

AddRead(s) ==
    /\ call[s].step = "add"
    /\ SaleAsExpected(s)
    /\ Goes(s, "lock")
    /\ UNCHANGED <<stockVars, shifts, sales, overlapped>>

LinkRefused(s) ==
    /\ call[s].step \in {"add", "pay"}
    /\ ~SaleAsExpected(s)
    /\ Throw(s)

ItemOf(s) == call[s].items[call[s].next]
WarehouseOf(s) == shifts[sales[call[s].sale].shift].warehouse
ItemKey(s) == <<ItemOf(s).product, WarehouseOf(s)>>

\* The stock check and the ledger row, under the lock on the product.
AddWrite(s) ==
    LET k == ItemKey(s) IN
    /\ call[s].step = "write" /\ call[s].op = "SALE"
    /\ OnHand(s, k) >= ItemOf(s).qty
    /\ WriteRows(s, [j \in {k} |-> [delta |-> -ItemOf(s).qty,
                                    running |-> OnHand(s, k) - ItemOf(s).qty]])
    /\ Goes(s, "commit")
    /\ UNCHANGED <<ledger, rowLock, shifts, sales, overlapped>>

AddRefused(s) ==
    /\ call[s].step = "write" /\ call[s].op = "SALE"
    /\ OnHand(s, ItemKey(s)) < ItemOf(s).qty
    /\ Throw(s)

\* Mutant: the total is set, not incremented.
AddCommitSetsTotal(s) ==
    LET sale == sales[call[s].sale] IN
    /\ call[s].step = "commit" /\ call[s].op = "SALE"
    /\ CommitRows(s, Today)
    /\ sales' = [sales EXCEPT ![call[s].sale] =
          [sale EXCEPT !.lines = Append(@, ItemOf(s)),
                       !.total = ItemOf(s).qty * Price[ItemOf(s).product],
                       !.version = @ + 1]]
    /\ call' = [call EXCEPT ![s] = [call[s] EXCEPT !.step = "item", !.next = @ + 1]]
    /\ UNCHANGED <<shifts, overlapped>>

\* COMMIT of addItem: the line, the increments of the totals, the version.
AddCommit(s) ==
    LET sale == sales[call[s].sale] IN
    /\ call[s].step = "commit" /\ call[s].op = "SALE"
    /\ CommitRows(s, Today)
    /\ sales' = [sales EXCEPT ![call[s].sale] =
          [sale EXCEPT !.lines = Append(@, ItemOf(s)),
                       !.total = @ + ItemOf(s).qty * Price[ItemOf(s).product],
                       !.version = @ + 1]]
    /\ call' = [call EXCEPT ![s] = [call[s] EXCEPT !.step = "item", !.next = @ + 1]]
    /\ UNCHANGED <<shifts, overlapped>>

\* applyPayment reads the sale.  Payments below its total are refused.
PayRead(s) ==
    LET total == sales[call[s].sale].total IN
    /\ call[s].step = "pay"
    /\ SaleAsExpected(s)
    /\ call[s].paid >= total
    /\ call' = [call EXCEPT ![s] =
          [@ EXCEPT !.step = "settle", !.change = call[s].paid - total]]
    /\ UNCHANGED <<stockVars, shifts, sales, overlapped>>

PayRefused(s) ==
    /\ call[s].step = "pay"
    /\ SaleAsExpected(s)
    /\ call[s].paid < sales[call[s].sale].total
    /\ Throw(s)

\* addItem writes rows of reference_type POS; the cost of goods sold is summed over
\* rows of reference_type POS_TRANSACTION.
RowReference == "POS"
CogsReference == "POS_TRANSACTION"
Cogs(sale) == IF RowReference = CogsReference THEN Len(sale.lines) ELSE 0

\* The cost of what a sale takes, posted after the entry of the sale and under the
\* same reference.
WithCogs(journal, event, reference, cogs) ==
    IF cogs > 0 THEN ProcessEvent(journal, event, reference, cogs) ELSE journal

SaleJournal(sale) ==
    IF PeriodOpen
    THEN WithCogs(ProcessEvent(sale.journal, "POS_SALE", "POS_TRANSACTION", sale.total),
                  "POS_SALE_COGS", "POS_TRANSACTION", Cogs(sale))
    ELSE sale.journal

\* Writes the payment and the journal over whatever the sale has become.
PayCommit(s) ==
    LET sale == sales[call[s].sale] IN
    /\ call[s].step = "settle"
    /\ sales' = [sales EXCEPT ![call[s].sale] =
          [sale EXCEPT !.status = "COMPLETED",
                       !.paid = call[s].paid,
                       !.change = call[s].change,
                       !.version = @ + 1,
                       !.journal = SaleJournal(sale)]]
    /\ Ends(s)
    /\ UNCHANGED <<stockVars, shifts, overlapped>>

\* holdTransaction and resumeTransaction.
SetHeld(s, t, from, to) ==
    /\ Free(s)
    /\ sales[t].version < MaxVersion
    /\ sales[t].status = from
    /\ sales' = [sales EXCEPT ![t] = [sales[t] EXCEPT !.status = to, !.version = @ + 1]]
    /\ UNCHANGED <<stockVars, shifts, call, overlapped>>

Hold(s, t) == SetHeld(s, t, "OPEN", "HELD")
Resume(s, t) == SetHeld(s, t, "HELD", "OPEN")

-----------------------------------------------------------------------------
(* voidTransaction *)

WorksOn(o, t) == "sale" \in DOMAIN call[o] /\ call[o].sale = t

\* The supervisor is not the cashier: SOD-003 refuses the call otherwise.  The body
\* gives no version (it is optional); one given would only refuse more calls.
StartVoid(s, t) ==
    /\ Free(s)
    /\ sales[t].version < MaxVersion
    /\ call' = [call EXCEPT ![s] =
          [step |-> "void", op |-> "VOID", sale |-> t, seen |-> sales[t], attempt |-> 1]]
    /\ overlapped' = (overlapped \/ \E o \in Sessions : WorksOn(o, t))
    /\ UNCHANGED <<stockVars, shifts, sales>>

\* An attempt reads the sale with its lines ...
VoidRead(s) ==
    /\ call[s].step = "void"
    /\ sales[call[s].sale].status # "VOIDED"
    /\ call' = [call EXCEPT ![s] = [@ EXCEPT !.step = "lock", !.seen = sales[call[s].sale]]]
    /\ UNCHANGED <<stockVars, shifts, sales, overlapped>>

VoidRefused(s) ==
    /\ call[s].step = "void"
    /\ sales[call[s].sale].status = "VOIDED"
    /\ Throw(s)

QtyOf(lines, p) ==
    SumFunction([i \in DOMAIN lines |-> IF lines[i].product = p THEN lines[i].qty ELSE 0])

ProductsIn(lines) == {l.product : l \in ToSet(lines)}

\* One row per line, on top of the newest running_qty; here the lines of a product
\* are taken together.
VoidRows(s) ==
    LET lines == call[s].seen.lines IN
    [k \in ProductsIn(lines) \X {WarehouseOf(s)} |->
        [delta |-> QtyOf(lines, k[1]),
         running |-> LatestRunning(s, k) + QtyOf(lines, k[1])]]

\* ... and, when it has the locks, puts back what it read.
VoidWrite(s) ==
    /\ call[s].step = "write" /\ call[s].op = "VOID"
    /\ WriteRows(s, VoidRows(s))
    /\ Goes(s, "commit")
    /\ UNCHANGED <<ledger, rowLock, shifts, sales, overlapped>>

\* Reverses what the sale that was read had posted, if that was COMPLETED.
VoidJournal(s) ==
    LET seen == call[s].seen
        journal == sales[call[s].sale].journal
    IN  IF PeriodOpen /\ seen.status = "COMPLETED"
        THEN WithCogs(ProcessEvent(journal, "POS_SALE_REVERSAL", "POS_VOID", seen.total),
                      "POS_SALE_COGS_REVERSAL", "POS_VOID", Cogs(seen))
        ELSE journal

\* Mutant: a sale is voided, its journal entry stays.
VoidCommitUnreversed(s) ==
    LET sale == sales[call[s].sale] IN
    /\ call[s].step = "commit" /\ call[s].op = "VOID"
    /\ CommitRows(s, Today)
    /\ sales' = [sales EXCEPT ![call[s].sale] =
                    [sale EXCEPT !.status = "VOIDED", !.version = @ + 1]]
    /\ Ends(s)
    /\ UNCHANGED <<shifts, overlapped>>

\* COMMIT: VOIDED, the stock back, the journal reversed.
VoidCommit(s) ==
    LET sale == sales[call[s].sale] IN
    /\ call[s].step = "commit" /\ call[s].op = "VOID"
    /\ CommitRows(s, Today)
    /\ sales' = [sales EXCEPT ![call[s].sale] =
          [sale EXCEPT !.status = "VOIDED", !.version = @ + 1, !.journal = VoidJournal(s)]]
    /\ Ends(s)
    /\ UNCHANGED <<shifts, overlapped>>

-----------------------------------------------------------------------------
(* SELECT ... FOR UPDATE NOWAIT and the attempts, of addItem and voidTransaction *)

ToLock(s) ==
    (IF call[s].op = "SALE" THEN {ItemOf(s).product} ELSE ProductsIn(call[s].seen.lines))
      \ Held(s)

\* productIds.sort()
NextToLock(s) == {p \in ToLock(s) : \A q \in ToLock(s) : p <= q}

LockProduct(s) ==
    /\ call[s].step = "lock"
    /\ \E p \in NextToLock(s) : AcquireRow(s, p)
    /\ UNCHANGED <<ledger, own, posVars>>

LocksTaken(s) ==
    /\ call[s].step = "lock"
    /\ ToLock(s) = {}
    /\ Goes(s, "write")
    /\ UNCHANGED <<stockVars, shifts, sales, overlapped>>

\* "could not obtain lock": rolled back, and tried again up to the third attempt.
LockRefused(s) ==
    /\ call[s].step = "lock"
    /\ \E p \in NextToLock(s) : rowLock[p] # NoSession
    /\ \/ /\ call[s].attempt < Attempts
          /\ Rollback(s)
          /\ call' = [call EXCEPT ![s] =
                [call[s] EXCEPT !.step = IF call[s].op = "SALE" THEN "add" ELSE "void",
                                !.attempt = @ + 1]]
          /\ UNCHANGED <<shifts, sales, overlapped>>
       \/ /\ call[s].attempt = Attempts
          /\ Throw(s)

\* A statement or its transaction fails (connection lost, Prisma's limit of 5 s), or
\* the product, the payment method or an account of the journal is not found.
TxFails(s) == ~Free(s) /\ Throw(s)

-----------------------------------------------------------------------------
ShiftStep(s) ==
    \/ \E k \in Cashiers, w \in Warehouses : OpenShiftCheck(s, k, w)
    \/ OpenShiftCreate(s)
    \/ \E i \in DOMAIN shifts : CloseShiftRead(s, i)
    \/ CloseShiftWrite(s)

StartSale(s) == \E i \in DOMAIN shifts, r \in Checkouts : CreateSale(s, i, r)

\* The links of a checkout or a void that has begun.
Serve(s) ==
    \/ NextLink(s) \/ LinkRefused(s)
    \/ AddRead(s) \/ AddWrite(s) \/ AddRefused(s) \/ AddCommit(s)
    \/ PayRead(s) \/ PayRefused(s) \/ PayCommit(s)
    \/ VoidRead(s) \/ VoidRefused(s) \/ VoidWrite(s) \/ VoidCommit(s)
    \/ LockProduct(s) \/ LocksTaken(s) \/ LockRefused(s)

\* The operations of the service that no route reaches.
UnroutedStep(s) ==
    \/ \E i \in DOMAIN shifts : ForceCloseShift(s, i)
    \/ \E t \in DOMAIN sales : Hold(s, t) \/ Resume(s, t)

Next ==
    \/ \E s \in Cashing : ShiftStep(s) \/ StartSale(s)
    \/ \E s \in Voiding, t \in DOMAIN sales : StartVoid(s, t)
    \/ \E s \in Unrouted : UnroutedStep(s)
    \/ \E s \in Sessions : Serve(s) \/ TxFails(s)

Spec == Init /\ [][Next]_vars

-----------------------------------------------------------------------------
(* Properties *)

\* What the sales of a status in S took of a product from a warehouse.
Taken(S, k) ==
    SumFunction([t \in DOMAIN sales |->
        IF sales[t].status \in S /\ shifts[sales[t].shift].warehouse = k[2]
        THEN QtyOf(sales[t].lines, k[1]) ELSE 0])

NotVoided == {"OPEN", "HELD", "COMPLETED", "CANCELLED"}

\* Stock leaves with the lines of sales and comes back with voids, and only so:
\* what is missing of the initial stock is in the lines of sales not voided, after
\* retries, refusals and failures half-way through a checkout.  A void beside
\* another call for the same sale is excepted: two voids that read the sale before
\* either commits return its stock twice, and a payment that read it OPEN completes
\* it after the void.
SalesTakeStock ==
    ~overlapped => \A k \in Keys : InitialStock - ledger[k].sum = Taken(NotVoided, k)

AmountOf(lines) ==
    SumFunction([i \in DOMAIN lines |-> lines[i].qty * Price[lines[i].product]])

\* A completed sale is paid: its total is the sum of its lines, the payment covers
\* it, and the change is the rest.
CompletedIsPaid ==
    \A t \in DOMAIN sales : sales[t].status = "COMPLETED" =>
        LET sale == sales[t] IN
        /\ sale.total = AmountOf(sale.lines)
        /\ sale.paid = sale.total + sale.change /\ sale.change >= 0

\* The journal agrees with the sales: the revenue that stands for a sale is its total
\* while it is COMPLETED and nothing otherwise, after voids, retries and failures;
\* with the same exception.
JournalFollowsSales ==
    PeriodOpen /\ ~overlapped => \A t \in DOMAIN sales :
        Standing(sales[t].journal, "POS_SALE") - Standing(sales[t].journal, "POS_SALE_REVERSAL")
          = IF sales[t].status = "COMPLETED" THEN sales[t].total ELSE 0

\* The stock is what the sales and voids left of it, never below zero, and its running
\* quantity says so.
SoldFromStock == TypeOK /\ StockNonNegative /\ RunningIsBalance /\ SalesTakeStock
=============================================================================
