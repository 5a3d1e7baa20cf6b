------------------------------- MODULE Billing -------------------------------
(***************************************************************************)
(* Invoices, payments and the notes that correct them: InvoiceService,     *)
(* PaymentService, CreditNoteService, DebitNoteService, and the two        *)
(* operations of the ledgers that settle an invoice (recordSupplierPayment *)
(* of APService, writeOffAR of ARService).                                 *)
(*                                                                         *)
(* Every operation reads the rows it is about, checks them, and writes new *)
(* values worked out from what it read; no row is locked.  A call is two   *)
(* steps: Read (with what it saw) and Write.  The update of a row by the   *)
(* Write steps waits for an earlier one to commit, which the atomic Write  *)
(* stands for.                                                             *)
(*                                                                         *)
(* Amounts are whole cents.  A fiscal period is OPEN: without one the      *)
(* calls that post are refused.  Master data checks and the three-way      *)
(* match (see Matching) refuse a call before it changes anything.  No code *)
(* makes an invoice OVERDUE, so writeOff, which asks for it, never gets    *)
(* past its check and has no action.                                       *)
(***************************************************************************)
EXTENDS JournalEngine, SequencesExt, FiniteSetsExt

CONSTANTS
    Users,
    Invoicing, Correcting, Settling, Paying,    \* sessions, by what they serve
    Totals,         \* totals of invoices
    Amounts,        \* amounts of payments, allocations and notes
    MaxInvoices, MaxPayments, MaxAllocations, MaxNotes      \* bounds

ASSUME BillingAssumption == Totals \cup Amounts \subseteq Nat \ {0}

Clerks == Invoicing \cup Correcting \cup Settling \cup Paying

VARIABLES invoices, payments, allocations, notes, journal, call, history
vars == <<invoices, payments, allocations, notes, journal, call, history>>

InvoiceStatus == {"DRAFT", "OPEN", "PARTIAL", "PAID", "DISPUTED", "CANCELLED"}
PaymentStatus == {"DRAFT", "APPROVED", "POSTED", "RECONCILED", "REVERSED"}
Settlements == {"apply", "allocate", "supplier"}

Invoice == [type : {"SALES", "PURCHASE"}, status : InvoiceStatus,
            total : Nat \ {0}, paid : Nat, outstanding : Int]
Payment == [amount : Nat \ {0}, status : PaymentStatus, creator : Users]
Allocation == [invoice : Nat, payment : Nat, amount : Nat \ {0}, op : Settlements]
InvoiceNote == [invoice : Nat, amount : Nat \ {0}]

NoCall == [op |-> "none"]

\* The rows that the services write.
TypeOK ==
    /\ invoices \in Seq(Invoice) /\ payments \in Seq(Payment)
    /\ allocations \in Seq(Allocation) /\ notes \in Seq(InvoiceNote)
    /\ \A a \in DOMAIN allocations : allocations[a].invoice \in DOMAIN invoices
    /\ \A n \in DOMAIN notes : notes[n].invoice \in DOMAIN invoices

Init ==
    /\ invoices = << >> /\ payments = << >>
    /\ allocations = << >> /\ notes = << >>
    /\ journal = << >>
    /\ call = [c \in Clerks |-> NoCall]
    /\ history = {}

Free(c) == call[c].op = "none"
Serves(c, op) == call[c].op = op
Ends(c) == call' = [call EXCEPT ![c] = NoCall]

\* A call has read the rows r.invoice and r.payment (0: none), and passed its checks.
\* Remembered when another call is under way for one of them.
Reads(c, r) ==
    /\ Free(c)
    /\ call' = [call EXCEPT ![c] = r]
    /\ history' = history
          \cup UNION {{<<"invoice", r.invoice>>, <<"payment", r.payment>>}
                        \cap {<<"invoice", call[o].invoice>>, <<"payment", call[o].payment>>} :
                      o \in {o \in Clerks : ~Free(o)}}
    /\ UNCHANGED <<invoices, payments, allocations, notes, journal>>

OnInvoice(op, i, p, amount) ==
    [op |-> op, invoice |-> i, payment |-> p, amount |-> amount, seen |-> invoices[i]]
OnPayment(op, p) ==
    [op |-> op, invoice |-> 0, payment |-> p, amount |-> 0, seen |-> payments[p]]

-----------------------------------------------------------------------------
(* Invoices *)

CreateInvoice(c, type, total) ==
    /\ Free(c)
    /\ Len(invoices) < MaxInvoices
    /\ invoices' = Append(invoices, [type |-> type, status |-> "DRAFT", total |-> total,
                                     paid |-> 0, outstanding |-> total])
    /\ UNCHANGED <<payments, allocations, notes, journal, call, history>>

createSalesInvoice(c, total) == CreateInvoice(c, "SALES", total)
createPurchaseInvoice(c, total) == CreateInvoice(c, "PURCHASE", total)

PostRead(c, i) == invoices[i].status = "DRAFT" /\ Reads(c, OnInvoice("post", i, 0, 0))

Post(c) ==
    LET i == call[c].invoice
        seen == call[c].seen
    IN  /\ Serves(c, "post")
        /\ invoices' = [invoices EXCEPT ![i].status = "OPEN"]
        /\ journal' = ProcessEvent(journal,
              IF seen.type = "SALES" THEN "SALES_INVOICE" ELSE "SUPPLIER_INVOICE",
              <<"INVOICE", i>>, seen.total)
        /\ Ends(c)
        /\ UNCHANGED <<payments, allocations, notes, history>>

Unsettled == {"OPEN", "PARTIAL"}

DisputeRead(c, i) ==
    invoices[i].status \in Unsettled /\ Reads(c, OnInvoice("dispute", i, 0, 0))

\* It looks for allocations in payment_allocations, a table that nothing writes: what
\* refuses an invoice with payments is paid_amount.
CancelRead(c, i) ==
    /\ invoices[i].status \in {"DRAFT", "OPEN"}
    /\ invoices[i].paid = 0
    /\ Reads(c, OnInvoice("cancel", i, 0, 0))

\* dispute and cancel change the status alone; what was posted stays.
SetStatus(c, op, status) ==
    /\ Serves(c, op)
    /\ invoices' = [invoices EXCEPT ![call[c].invoice].status = status]
    /\ Ends(c)
    /\ UNCHANGED <<payments, allocations, notes, journal, history>>

Dispute(c) == SetStatus(c, "dispute", "DISPUTED")
Cancel(c) == SetStatus(c, "cancel", "CANCELLED")

-----------------------------------------------------------------------------
(* What settles an invoice *)

\* newOutstanding <= 0.01: one cent is forgiven.
Cent == 1

Allocated(p) ==
    SumFunction([a \in DOMAIN allocations |->
        IF allocations[a].payment = p THEN allocations[a].amount ELSE 0])

NewAllocation(c) ==
    [invoice |-> call[c].invoice, payment |-> call[c].payment, amount |-> call[c].amount,
     op |-> call[c].op]

\* A payment is allocated to an invoice once: the pair is unique in the table, and a
\* second row of it fails.
Unallocated(c) ==
    \A a \in ToSet(allocations) :
        a.payment = call[c].payment /\ a.payment # 0 => a.invoice # call[c].invoice

\* applyPayment; the amount of the payment is not looked at.
ApplyRead(c, i, p, amount) ==
    /\ Len(allocations) < MaxAllocations
    /\ invoices[i].status \in Unsettled
    /\ amount <= invoices[i].outstanding
    /\ Reads(c, OnInvoice("apply", i, p, amount))

\* What is outstanding is the total less the payments: a note given before is undone,
\* which history remembers.
Apply(c) ==
    LET i == call[c].invoice
        paid == call[c].seen.paid + call[c].amount
        rest == call[c].seen.total - paid
    IN  /\ Serves(c, "apply")
        /\ Unallocated(c)
        /\ allocations' = Append(allocations, NewAllocation(c))
        /\ invoices' = [invoices EXCEPT ![i] =
              [invoices[i] EXCEPT !.paid = paid, !.outstanding = rest,
                        !.status = IF rest <= Cent THEN "PAID" ELSE "PARTIAL"]]
        /\ history' = history \cup (IF \E n \in ToSet(notes) : n.invoice = i
                                    THEN {<<"noteUndone", i>>} ELSE {})
        /\ Ends(c)
        /\ UNCHANGED <<payments, notes, journal>>

\* Mutant: earlier allocations of the payment are not added.
AllocateReadAlone(c, i, p, amount) ==
    /\ Len(allocations) < MaxAllocations
    /\ amount <= payments[p].amount
    /\ amount <= invoices[i].outstanding
    /\ Reads(c, OnInvoice("allocate", i, p, amount))

\* allocateToInvoices, one invoice: any payment, any status of the invoice.
AllocateRead(c, i, p, amount) ==
    /\ Len(allocations) < MaxAllocations
    /\ Allocated(p) + amount <= payments[p].amount
    /\ amount <= invoices[i].outstanding
    /\ Reads(c, OnInvoice("allocate", i, p, amount))

Settle(status, rest, total) ==
    IF rest <= Cent THEN "PAID" ELSE IF rest < total THEN "PARTIAL" ELSE status

Allocate(c) ==
    LET i == call[c].invoice
        seen == call[c].seen
        rest == seen.outstanding - call[c].amount
    IN  /\ Serves(c, "allocate")
        /\ Unallocated(c)
        /\ allocations' = Append(allocations, NewAllocation(c))
        /\ invoices' = [invoices EXCEPT ![i] =
              [invoices[i] EXCEPT !.paid = invoices[i].paid + call[c].amount, !.outstanding = rest,
                        !.status = Settle(seen.status, rest, seen.total)]]
        /\ Ends(c)
        /\ UNCHANGED <<payments, notes, journal, history>>

\* recordSupplierPayment: without a payment row, and of one reference per invoice.
SupplierPaymentRead(c, i, amount) ==
    /\ Len(allocations) < MaxAllocations
    /\ invoices[i].type = "PURCHASE"
    /\ amount <= invoices[i].outstanding
    /\ Reads(c, OnInvoice("supplier", i, 0, amount))

SupplierPayment(c) ==
    LET i == call[c].invoice
        seen == call[c].seen
        rest == seen.outstanding - call[c].amount
    IN  /\ Serves(c, "supplier")
        /\ journal' = ProcessEvent(journal, "PURCHASE_PAYMENT", <<"PURCHASE_INVOICE", i>>,
                                   call[c].amount)
        /\ allocations' = Append(allocations, NewAllocation(c))
        /\ invoices' = [invoices EXCEPT ![i] =
              [invoices[i] EXCEPT !.paid = seen.paid + call[c].amount, !.outstanding = rest,
                        !.status = IF rest = 0 THEN "PAID" ELSE "PARTIAL"]]
        /\ Ends(c)
        /\ UNCHANGED <<payments, notes, history>>

\* writeOffAR: the rest of a sales invoice, as if it were paid.
WriteOffARRead(c, i) ==
    /\ invoices[i].type = "SALES"
    /\ invoices[i].status = "PARTIAL"
    /\ invoices[i].outstanding > 0
    /\ Reads(c, OnInvoice("writeOff", i, 0, 0))

WriteOffAR(c) ==
    LET i == call[c].invoice IN
    /\ Serves(c, "writeOff")
    /\ journal' = ProcessEvent(journal, "WRITE_OFF_AR", <<"SALES_INVOICE", i>>,
                               call[c].seen.outstanding)
    /\ invoices' = [invoices EXCEPT ![i] =
          [invoices[i] EXCEPT !.outstanding = 0, !.status = "PAID"]]
    /\ history' = history \cup {<<"writtenOff", i>>}
    /\ Ends(c)
    /\ UNCHANGED <<payments, allocations, notes>>

\* createCreditNote (sales) and createDebitNote (purchase): up to the total of the
\* invoice, whatever its status and whatever is left to pay.
NoteRead(c, i, amount) ==
    /\ Len(notes) < MaxNotes
    /\ amount <= invoices[i].total
    /\ Reads(c, OnInvoice("note", i, 0, amount))

Note(c) ==
    LET i == call[c].invoice
        seen == call[c].seen
        rest == seen.outstanding - call[c].amount
    IN  /\ Serves(c, "note")
        /\ notes' = Append(notes, [invoice |-> i, amount |-> call[c].amount])
        /\ journal' = ProcessEvent(journal,
              IF seen.type = "SALES" THEN "SALES_RETURN" ELSE "GOODS_RECEIPT",
              <<"NOTE", Len(notes) + 1>>, call[c].amount)
        /\ invoices' = [invoices EXCEPT ![i] =
              [invoices[i] EXCEPT !.outstanding = rest,
                        !.status = IF rest <= 0 THEN "PAID"
                                   ELSE IF rest < seen.total THEN "PARTIAL" ELSE seen.status]]
        /\ Ends(c)
        /\ UNCHANGED <<payments, allocations, history>>

-----------------------------------------------------------------------------
(* Payments *)

CreatePayment(c, u, amount) ==
    /\ Free(c)
    /\ Len(payments) < MaxPayments
    /\ payments' = Append(payments, [amount |-> amount, status |-> "DRAFT", creator |-> u])
    /\ UNCHANGED <<invoices, allocations, notes, journal, call, history>>

\* SOD-002: not by its creator.
ApprovePaymentRead(c, p, u) ==
    /\ payments[p].creator # u
    /\ payments[p].status = "DRAFT"
    /\ Reads(c, OnPayment("approve", p))

ApprovePayment(c) ==
    /\ Serves(c, "approve")
    /\ payments' = [payments EXCEPT ![call[c].payment].status = "APPROVED"]
    /\ Ends(c)
    /\ UNCHANGED <<invoices, allocations, notes, journal, history>>

PostPaymentRead(c, p) ==
    payments[p].status = "APPROVED" /\ Reads(c, OnPayment("postPayment", p))

PostPayment(c) ==
    LET p == call[c].payment IN
    /\ Serves(c, "postPayment")
    /\ payments' = [payments EXCEPT ![p].status = "POSTED"]
    /\ journal' = ProcessEvent(journal, "PAYMENT", <<"PAYMENT", p>>, call[c].seen.amount)
    /\ Ends(c)
    /\ UNCHANGED <<invoices, allocations, notes, history>>

\* reverse: a payment in any status; its entry is looked up if it is POSTED.
ReverseRead(c, p) ==
    LET entries == {e \in DOMAIN journal : journal[e].reference = <<"PAYMENT", p>>
                                           /\ journal[e].status = "POSTED"}
    IN  Reads(c, [op |-> "reverse", invoice |-> 0, payment |-> p, amount |-> 0,
                  seen |-> payments[p],
                  entry |-> IF payments[p].status = "POSTED" /\ entries # {}
                            THEN Min(entries) ELSE 0])

\* The entry is marked REVERSED, and a manual one posted with its sides swapped.
ReversePayment(c) ==
    LET p == call[c].payment
        e == call[c].entry
    IN  /\ Serves(c, "reverse")
        /\ payments' = [payments EXCEPT ![p].status = "REVERSED"]
        /\ journal' = IF e = 0 THEN journal
                      ELSE Append([journal EXCEPT ![e].status = "REVERSED"],
                                  ManualEntry("PAYMENT_REVERSAL", <<"PAYMENT_REVERSAL", p>>,
                                              journal[e].amount))
        /\ Ends(c)
        /\ UNCHANGED <<invoices, allocations, notes, history>>

\* reconcile, and the matches of BankReconciliationService: see BankMatching.
Reconcile(c, p) ==
    /\ Free(c)
    /\ payments[p].status # "RECONCILED"
    /\ payments' = [payments EXCEPT ![p].status = "RECONCILED"]
    /\ UNCHANGED <<invoices, allocations, notes, journal, call, history>>

CallFails(c) ==
    /\ ~Free(c) /\ Ends(c)
    /\ UNCHANGED <<invoices, payments, allocations, notes, journal, history>>

-----------------------------------------------------------------------------
InvoiceStep(c) ==
    \/ \E t \in Totals : createSalesInvoice(c, t) \/ createPurchaseInvoice(c, t)
    \/ \E i \in DOMAIN invoices : PostRead(c, i)

CorrectStep(c) ==
    \E i \in DOMAIN invoices :
        \/ DisputeRead(c, i) \/ CancelRead(c, i) \/ WriteOffARRead(c, i)
        \/ \E a \in Amounts : NoteRead(c, i, a)

SettleStep(c) ==
    \E i \in DOMAIN invoices, a \in Amounts :
        \/ SupplierPaymentRead(c, i, a)
        \/ \E p \in DOMAIN payments : ApplyRead(c, i, p, a) \/ AllocateRead(c, i, p, a)

PaymentStep(c) ==
    \/ \E u \in Users, a \in Amounts : CreatePayment(c, u, a)
    \/ \E p \in DOMAIN payments :
          \/ \E u \in Users : ApprovePaymentRead(c, p, u)
          \/ PostPaymentRead(c, p) \/ ReverseRead(c, p) \/ Reconcile(c, p)

Write(c) ==
    \/ Post(c) \/ Dispute(c) \/ Cancel(c)
    \/ Apply(c) \/ Allocate(c) \/ SupplierPayment(c) \/ WriteOffAR(c) \/ Note(c)
    \/ ApprovePayment(c) \/ PostPayment(c) \/ ReversePayment(c)
    \/ CallFails(c)

Next ==
    \/ \E c \in Invoicing : InvoiceStep(c)
    \/ \E c \in Correcting : CorrectStep(c)
    \/ \E c \in Settling : SettleStep(c)
    \/ \E c \in Paying : PaymentStep(c)
    \/ \E c \in Clerks : Write(c)

Spec == Init /\ [][Next]_vars

-----------------------------------------------------------------------------
(* Properties *)

PaidTo(i) ==
    SumFunction([a \in DOMAIN allocations |->
        IF allocations[a].invoice = i THEN allocations[a].amount ELSE 0])
NotedOn(i) ==
    SumFunction([n \in DOMAIN notes |-> IF notes[n].invoice = i THEN notes[n].amount ELSE 0])

\* paid_amount and outstanding_amount add up: over any sequence of payments, allocations
\* and notes, what is outstanding is the total less what was paid and credited.
\* Excepted are calls that meet at an invoice, a note undone by applyPayment, and an
\* invoice written off.
InvoiceAddsUp ==
    \A i \in DOMAIN invoices :
        /\ <<"invoice", i>> \notin history => invoices[i].paid = PaidTo(i)
        /\ {<<"invoice", i>>, <<"noteUndone", i>>, <<"writtenOff", i>>} \cap history = {}
             => invoices[i].outstanding = invoices[i].total - PaidTo(i) - NotedOn(i)

\* No payment is allocated beyond its amount by allocateToInvoices, over any number of
\* calls, unless two of them meet; applyPayment does not look.
AllocatedWithinPayment ==
    \A p \in DOMAIN payments :
        \/ <<"payment", p>> \in history
        \/ \E a \in ToSet(allocations) : a.payment = p /\ a.op = "apply"
        \/ Allocated(p) <= payments[p].amount

EntriesFor(reference) == {e \in DOMAIN journal : journal[e].reference = reference}
ReversedEntries(reference) == {e \in EntriesFor(reference) : journal[e].status = "REVERSED"}

\* An invoice is in the journal once as soon as it is OPEN, with its total, also when
\* two calls post it at the same time: the update of its row comes first, and makes the
\* second one wait for the entry of the first.
OpenIsPostedOnce ==
    \A i \in DOMAIN invoices :
        LET entries == EntriesFor(<<"INVOICE", i>>) IN
        /\ Cardinality(entries) <= 1
        /\ invoices[i].status = "OPEN" => entries # {}
        /\ invoices[i].status = "DRAFT" => entries = {}
        /\ \A e \in entries : journal[e].amount = invoices[i].total

\* A payment that was reversed has as many reversals as entries marked REVERSED,
\* unless two reversals meet.
ReversalsMatch ==
    \A p \in DOMAIN payments :
        <<"payment", p>> \notin history =>
            Cardinality(EntriesFor(<<"PAYMENT_REVERSAL", p>>))
              = Cardinality(ReversedEntries(<<"PAYMENT", p>>))

\* The amounts of invoices and payments are those of what was allocated and noted.
AmountsAddUp == TypeOK /\ InvoiceAddsUp /\ AllocatedWithinPayment

\* The journal has the invoices that are open, and the reversals of the payments.
JournalFollowsDocuments == OpenIsPostedOnce /\ ReversalsMatch
=============================================================================
