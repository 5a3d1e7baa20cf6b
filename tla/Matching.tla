------------------------------- MODULE Matching -------------------------------
(***************************************************************************)
(* ThreeWayMatchingService between InvoiceService and the receipts of one  *)
(* purchase order: a supplier invoice is matched with order and receipts   *)
(* when it is created and when it is posted.  Quantities are integers, and *)
(* the tolerance is a percentage.                                          *)
(***************************************************************************)
EXTENDS Integers, Sequences, FiniteSetsExt, SequencesExt

CONSTANTS
    Products,           \* of the order, and one that is not in it
    Ordered, Price,     \* of the products in the order
    Tolerance,
    Invoices,
    InvoiceLines        \* the sequences of [product, qty, price] that suppliers send

VARIABLES
    received,           \* quantities of the confirmed receipts
    invoice,            \* [status, lines] of each invoice
    clerk               \* the invoice that createPurchaseInvoice or post works on

matchVars == <<received, invoice, clerk>>

InOrder == DOMAIN Ordered
Idle == [pc |-> "idle"]
NoInvoice == [status |-> "absent", lines |-> << >>]

MatchInit ==
    /\ received = [p \in Products |-> 0]
    /\ invoice = [i \in Invoices |-> NoInvoice]
    /\ clerk = Idle

-----------------------------------------------------------------------------
(* validate *)

Within(n, limit) == 100 * n <= (100 + Tolerance) * limit

Amount(lines) == FoldSeq(LAMBDA l, acc : acc + l.qty * l.price, 0, lines)
OrderAmount == FoldSet(LAMBDA p, acc : acc + Ordered[p] * Price[p], 0, InOrder)

\* Mutant: the receipts are not looked at.
LineViolationsOrderOnly(line) ==
    IF line.product \notin InOrder THEN {"unknown"}
    ELSE IF Within(line.qty, Ordered[line.product]) THEN {} ELSE {"order"}

\* What is wrong with a line: each is looked at by itself.
LineViolations(line) ==
    IF line.product \notin InOrder THEN {"unknown"}
    ELSE {v \in {"order", "receipts"} :
            ~Within(line.qty, IF v = "order" THEN Ordered[line.product]
                              ELSE received[line.product])}

\* isValid.
Valid(lines) ==
    /\ \A k \in DOMAIN lines : LineViolations(lines[k]) = {}
    /\ Within(Amount(lines), OrderAmount)

-----------------------------------------------------------------------------
(* Actions *)

\* The confirmation of a receipt.  Drafts made at once may together exceed the tolerance
\* of the order (see Procurement); that nothing comes once more than the order has come
\* is a bound of the model.
Receive(p, n) ==
    /\ p \in InOrder /\ received[p] <= Ordered[p]
    /\ received' = [received EXCEPT ![p] = @ + n]
    /\ UNCHANGED <<invoice, clerk>>

\* createPurchaseInvoice: matched, then written.
CreateCheck(i, lines) ==
    /\ clerk = Idle /\ invoice[i] = NoInvoice
    /\ Valid(lines)
    /\ clerk' = [pc |-> "create", invoice |-> i, lines |-> lines]
    /\ UNCHANGED <<received, invoice>>

CreateInvoice ==
    /\ clerk.pc = "create"
    /\ invoice' = [invoice EXCEPT ![clerk.invoice] = [status |-> "DRAFT", lines |-> clerk.lines]]
    /\ clerk' = Idle
    /\ UNCHANGED received

\* post: matched again.
PostCheck(i) ==
    /\ clerk = Idle /\ invoice[i].status = "DRAFT"
    /\ Valid(invoice[i].lines)
    /\ clerk' = [pc |-> "post", invoice |-> i]
    /\ UNCHANGED <<received, invoice>>

PostInvoice ==
    /\ clerk.pc = "post"
    /\ invoice' = [invoice EXCEPT ![clerk.invoice].status = "OPEN"]
    /\ clerk' = Idle
    /\ UNCHANGED received

MatchNext ==
    \/ \E p \in Products, n \in 1..2 : Receive(p, n)
    \/ \E i \in Invoices :
          \/ \E lines \in InvoiceLines : CreateCheck(i, lines)
          \/ PostCheck(i)
    \/ CreateInvoice \/ PostInvoice

-----------------------------------------------------------------------------
(* Properties *)

LinesFor(lines, p) == {k \in DOMAIN lines : lines[k].product = p}

BilledIn(lines, p) ==
    SumFunction([k \in DOMAIN lines |-> IF k \in LinesFor(lines, p) THEN lines[k].qty ELSE 0])

Billed(p) == SumFunction([i \in Invoices |-> BilledIn(invoice[i].lines, p)])

LinesOf(p) == SumFunction([i \in Invoices |-> Cardinality(LinesFor(invoice[i].lines, p))])

\* What is billed of a product stays within the tolerance of what was received for every
\* line that bills it: invoices, and lines of one invoice, are not added up.
BilledPerLine ==
    \A p \in Products :
        IF p \in InOrder
        THEN Within(Billed(p), LinesOf(p) * received[p])
        ELSE Billed(p) = 0

=============================================================================
