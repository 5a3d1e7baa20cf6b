---------------------------- MODULE BillingProofs -----------------------------
(***************************************************************************)
(* That the amounts of invoices and payments add up, that an open invoice  *)
(* is in the journal once, and that reversals match, for any users,        *)
(* sessions, invoices, payments, notes and amounts.                        *)
(*                                                                         *)
(* Every call writes values that it works out from a row it has read, and  *)
(* locks nothing.  The invariant therefore says of each call under way     *)
(* what it has read: of a row's identity always (Refers), of its amounts   *)
(* as long as no other call has met it at the row (Knows).  Posting needs  *)
(* no such exception: what keeps it right is that no payment or note makes *)
(* an invoice a draft again (Owed), and the test for a repeated event.     *)
(*                                                                         *)
(* Then, in parts of their own: what bills have of a product is within     *)
(* what came, line by line; bank statements and payments are one to one;   *)
(* the reports agree with the journal, and its entries with the factory of *)
(* events.                                                                 *)
(***************************************************************************)
EXTENDS Billing, BackOffice, SumProofs

-----------------------------------------------------------------------------
(* The inductive invariant *)

InvoiceCalls ==
    [op : {"post", "dispute", "cancel", "apply", "allocate", "supplier", "writeOff", "note"},
     invoice : Nat \ {0}, payment : Nat, amount : Nat, seen : Invoice]
PaymentCalls ==
    [op : {"approve", "postPayment"}, invoice : {0}, payment : Nat \ {0}, amount : {0},
     seen : Payment]
ReverseCalls ==
    [op : {"reverse"}, invoice : {0}, payment : Nat \ {0}, amount : {0}, seen : Payment,
     entry : Nat]
Calls == {NoCall} \cup InvoiceCalls \cup PaymentCalls \cup ReverseCalls

OfInvoice(r) == r \in InvoiceCalls
OfPayment(r) == r \in PaymentCalls \cup ReverseCalls
Busy(c) == call[c] # NoCall

References == {"INVOICE", "PURCHASE_INVOICE", "SALES_INVOICE", "NOTE", "PAYMENT",
               "PAYMENT_REVERSAL"} \X Nat
Events == {"SALES_INVOICE", "SUPPLIER_INVOICE", "PURCHASE_PAYMENT", "WRITE_OFF_AR",
           "SALES_RETURN", "GOODS_RECEIPT", "PAYMENT", "PAYMENT_REVERSAL"}
Entry == [event : Events, reference : References, amount : Int,
          status : {"POSTED", "REVERSED"}, auto : BOOLEAN]

TypesOK == TypeOK /\ journal \in Seq(Entry) /\ call \in [Clerks -> Calls]

\* What a call r refers to is there, with what never changes of it.
Refers(r) ==
    /\ OfInvoice(r) =>
          /\ r.invoice \in DOMAIN invoices
          /\ r.seen.total = invoices[r.invoice].total
          /\ r.seen.type = invoices[r.invoice].type
          /\ r.seen.outstanding <= r.seen.total
    /\ r.op \in Settlements \cup {"note"} => r.amount # 0
    /\ r.op \in {"apply", "allocate"} \/ OfPayment(r) => r.payment \in DOMAIN payments
    /\ r.op = "supplier" => r.payment = 0
    /\ r.op = "reverse" /\ r.entry # 0 =>
          /\ r.entry \in DOMAIN journal
          /\ journal[r.entry].reference = <<"PAYMENT", r.payment>>

\* As long as no other call has met it there, what it has read of amounts is still so.
Knows(r) ==
    /\ OfInvoice(r) /\ <<"invoice", r.invoice>> \notin history =>
          /\ r.seen.paid = invoices[r.invoice].paid
          /\ r.seen.outstanding = invoices[r.invoice].outstanding
    /\ r.op = "allocate" /\ <<"payment", r.payment>> \notin history =>
          Allocated(r.payment) + r.amount <= payments[r.payment].amount
    /\ r.op = "reverse" /\ <<"payment", r.payment>> \notin history =>
          r.entry = 0 \/ journal[r.entry].status = "POSTED"

CallOK(c) == Refers(call[c]) /\ Knows(call[c])

OneCall == \A c, d \in Clerks :
    c # d /\ Busy(c) /\ Busy(d) =>
        /\ call[c].invoice = call[d].invoice => <<"invoice", call[c].invoice>> \in history
        /\ call[c].payment = call[d].payment => <<"payment", call[c].payment>> \in history

\* No amount is ever added to what is outstanding.
Owed == \A i \in DOMAIN invoices : invoices[i].outstanding <= invoices[i].total

\* An invoice has one entry from its posting on, which nothing reverses.
PostedAt(i) ==
    /\ \A e, f \in EntriesFor(<<"INVOICE", i>>) : e = f
    /\ \A e \in EntriesFor(<<"INVOICE", i>>) :
          /\ journal[e].status = "POSTED" /\ journal[e].auto
          /\ journal[e].amount = invoices[i].total
    /\ invoices[i].status = "OPEN" => EntriesFor(<<"INVOICE", i>>) # {}
    /\ invoices[i].status = "DRAFT" => EntriesFor(<<"INVOICE", i>>) = {}
PostedInv == \A i \in DOMAIN invoices : PostedAt(i)

\* Allocations and entries are of documents that are there.
Paid == \A a \in DOMAIN allocations : allocations[a].payment \in {0} \cup DOMAIN payments
Places ==
    \A e \in DOMAIN journal : \A n \in Nat :
        /\ journal[e].reference = <<"INVOICE", n>> => n \in DOMAIN invoices
        /\ journal[e].reference \in {<<"PAYMENT", n>>, <<"PAYMENT_REVERSAL", n>>} =>
              n \in DOMAIN payments

IInv ==
    /\ TypesOK /\ (\A c \in Clerks : CallOK(c)) /\ OneCall
    /\ Owed /\ InvoiceAddsUp /\ AllocatedWithinPayment
    /\ Paid /\ Places /\ PostedInv /\ ReversalsMatch

-----------------------------------------------------------------------------
(* What the operators return *)

LEMMA CallKinds ==
    ASSUME NEW r \in Calls
    PROVE  /\ r \in InvoiceCalls <=> r.op \in {"post", "dispute", "cancel", "apply", "allocate",
                                               "supplier", "writeOff", "note"}
           /\ r \in PaymentCalls <=> r.op \in {"approve", "postPayment"}
           /\ r \in ReverseCalls <=> r.op = "reverse"
           /\ r = NoCall <=> r.op = "none"
           /\ r \in InvoiceCalls => /\ r.invoice \in Nat \ {0} /\ r.payment \in Nat
                                    /\ r.amount \in Nat /\ r.seen \in Invoice
           /\ r \in PaymentCalls \cup ReverseCalls =>
                 /\ r.invoice = 0 /\ r.payment \in Nat \ {0} /\ r.seen \in Payment
           /\ r \in ReverseCalls => r.entry \in Nat
<1>1. CASE r = NoCall
  BY <1>1 DEF Calls, InvoiceCalls, PaymentCalls, ReverseCalls, NoCall
<1>2. CASE r \in InvoiceCalls
  BY <1>2 DEF Calls, InvoiceCalls, PaymentCalls, ReverseCalls, NoCall
<1>3. CASE r \in PaymentCalls
  BY <1>3 DEF Calls, InvoiceCalls, PaymentCalls, ReverseCalls, NoCall
<1>4. CASE r \in ReverseCalls
  BY <1>4 DEF Calls, InvoiceCalls, PaymentCalls, ReverseCalls, NoCall
<1> QED BY <1>1, <1>2, <1>3, <1>4 DEF Calls

\* References of different kinds or numbers are different.
LEMMA ReferencesDiffer ==
    /\ \A m, n : /\ <<"INVOICE", m>> = <<"INVOICE", n>> => m = n
                 /\ <<"PAYMENT", m>> = <<"PAYMENT", n>> => m = n
                 /\ <<"PAYMENT_REVERSAL", m>> = <<"PAYMENT_REVERSAL", n>> => m = n
                 /\ <<"INVOICE", m>> # <<"PAYMENT", n>>
                 /\ <<"INVOICE", m>> # <<"PAYMENT_REVERSAL", n>>
                 /\ <<"PAYMENT", m>> # <<"PAYMENT_REVERSAL", n>>
    /\ \A kind \in {"PURCHASE_INVOICE", "SALES_INVOICE", "NOTE"} : \A m, n :
          <<kind, m>> \notin {<<"INVOICE", n>>, <<"PAYMENT", n>>, <<"PAYMENT_REVERSAL", n>>}
    /\ \A n \in Nat : /\ <<"INVOICE", n>> \in References /\ <<"PURCHASE_INVOICE", n>> \in References
                      /\ <<"SALES_INVOICE", n>> \in References /\ <<"NOTE", n>> \in References
                      /\ <<"PAYMENT", n>> \in References /\ <<"PAYMENT_REVERSAL", n>> \in References
    /\ \A m, n : /\ <<"invoice", m>> = <<"invoice", n>> => m = n
                 /\ <<"payment", m>> = <<"payment", n>> => m = n
                 /\ <<"invoice", m>> # <<"payment", n>>
BY DEF References

\* What was paid to an invoice, and allocated of a payment, grows by what is appended.
ToInvoice(i) == [a \in Allocation |-> IF a.invoice = i THEN a.amount ELSE 0]
OfPay(p) == [a \in Allocation |-> IF a.payment = p THEN a.amount ELSE 0]
OfNotes(i) == [n \in InvoiceNote |-> IF n.invoice = i THEN n.amount ELSE 0]

LEMMA AllocationSums ==
    ASSUME NEW rows \in Seq(Allocation), NEW k
    PROVE  /\ ToInvoice(k) \in [Allocation -> Int] /\ OfPay(k) \in [Allocation -> Int]
           /\ SumFunction([a \in DOMAIN rows |-> IF rows[a].invoice = k THEN rows[a].amount ELSE 0])
                = Weigh(rows, ToInvoice(k))
           /\ SumFunction([a \in DOMAIN rows |-> IF rows[a].payment = k THEN rows[a].amount ELSE 0])
                = Weigh(rows, OfPay(k))
           /\ Weigh(rows, ToInvoice(k)) \in Nat /\ Weigh(rows, OfPay(k)) \in Nat
           /\ (\A a \in DOMAIN rows : rows[a].invoice # k) => Weigh(rows, ToInvoice(k)) = 0
           /\ (\A a \in DOMAIN rows : rows[a].payment # k) => Weigh(rows, OfPay(k)) = 0
<1>1. \A a \in DOMAIN rows : rows[a] \in Allocation
  OBVIOUS
<1>2. \A a \in Allocation : a.amount \in Nat
  BY DEF Allocation
<1>3. /\ ToInvoice(k) \in [Allocation -> Int] /\ OfPay(k) \in [Allocation -> Int]
      /\ \A a \in Allocation : ToInvoice(k)[a] >= 0 /\ OfPay(k)[a] >= 0
      /\ \A a \in Allocation : a.invoice # k => ToInvoice(k)[a] = 0
      /\ \A a \in Allocation : a.payment # k => OfPay(k)[a] = 0
  BY <1>2 DEF ToInvoice, OfPay
<1>4. [a \in DOMAIN rows |-> IF rows[a].invoice = k THEN rows[a].amount ELSE 0]
        = [a \in DOMAIN rows |-> ToInvoice(k)[rows[a]]]
  BY <1>1 DEF ToInvoice
<1>5. [a \in DOMAIN rows |-> IF rows[a].payment = k THEN rows[a].amount ELSE 0]
        = [a \in DOMAIN rows |-> OfPay(k)[rows[a]]]
  BY <1>1 DEF OfPay
<1>6. \A a \in DOMAIN rows : ToInvoice(k)[rows[a]] >= 0 /\ OfPay(k)[rows[a]] >= 0
  BY <1>1, <1>3
<1>7. Weigh(rows, ToInvoice(k)) \in Nat /\ Weigh(rows, OfPay(k)) \in Nat
  BY <1>3, <1>6, WeighType
<1>8. ASSUME \A a \in DOMAIN rows : rows[a].invoice # k PROVE Weigh(rows, ToInvoice(k)) = 0
  <2>1. \A a \in DOMAIN rows : ToInvoice(k)[rows[a]] = 0
    <3> TAKE a \in DOMAIN rows
    <3>1. rows[a] \in Allocation /\ rows[a].invoice # k
      BY <1>1, <1>8
    <3> QED BY <1>3, <3>1
  <2> QED BY <1>3, <2>1, WeighType
<1>9. ASSUME \A a \in DOMAIN rows : rows[a].payment # k PROVE Weigh(rows, OfPay(k)) = 0
  <2>1. \A a \in DOMAIN rows : OfPay(k)[rows[a]] = 0
    <3> TAKE a \in DOMAIN rows
    <3>1. rows[a] \in Allocation /\ rows[a].payment # k
      BY <1>1, <1>9
    <3> QED BY <1>3, <3>1
  <2> QED BY <1>3, <2>1, WeighType
<1> QED BY <1>3, <1>4, <1>5, <1>7, <1>8, <1>9 DEF Weigh

LEMMA NoteSums ==
    ASSUME NEW rows \in Seq(InvoiceNote), NEW k
    PROVE  /\ OfNotes(k) \in [InvoiceNote -> Int]
           /\ SumFunction([n \in DOMAIN rows |-> IF rows[n].invoice = k THEN rows[n].amount ELSE 0])
                = Weigh(rows, OfNotes(k))
           /\ Weigh(rows, OfNotes(k)) \in Nat
           /\ (\A n \in DOMAIN rows : rows[n].invoice # k) => Weigh(rows, OfNotes(k)) = 0
<1>1. \A n \in DOMAIN rows : rows[n] \in InvoiceNote
  OBVIOUS
<1>2. \A n \in InvoiceNote : n.amount \in Nat
  BY DEF InvoiceNote
<1>3. /\ OfNotes(k) \in [InvoiceNote -> Int] /\ \A n \in InvoiceNote : OfNotes(k)[n] >= 0
      /\ \A n \in InvoiceNote : n.invoice # k => OfNotes(k)[n] = 0
  BY <1>2 DEF OfNotes
<1>4. [n \in DOMAIN rows |-> IF rows[n].invoice = k THEN rows[n].amount ELSE 0]
        = [n \in DOMAIN rows |-> OfNotes(k)[rows[n]]]
  BY <1>1 DEF OfNotes
<1>5. \A n \in DOMAIN rows : OfNotes(k)[rows[n]] >= 0
  BY <1>1, <1>3
<1>6. Weigh(rows, OfNotes(k)) \in Nat
  BY <1>3, <1>5, WeighType
<1>7. ASSUME \A n \in DOMAIN rows : rows[n].invoice # k PROVE Weigh(rows, OfNotes(k)) = 0
  <2>1. \A n \in DOMAIN rows : OfNotes(k)[rows[n]] = 0
    BY <1>1, <1>3, <1>7
  <2> QED BY <1>3, <2>1, WeighType
<1> QED BY <1>3, <1>4, <1>6, <1>7 DEF Weigh

\* So an invoice that no row is of has been paid and credited nothing.
LEMMA AmountTypes ==
    ASSUME allocations \in Seq(Allocation), notes \in Seq(InvoiceNote), NEW k
    PROVE  /\ PaidTo(k) \in Nat /\ Allocated(k) \in Nat /\ NotedOn(k) \in Nat
           /\ (\A a \in DOMAIN allocations : allocations[a].invoice # k) => PaidTo(k) = 0
           /\ (\A a \in DOMAIN allocations : allocations[a].payment # k) => Allocated(k) = 0
           /\ (\A n \in DOMAIN notes : notes[n].invoice # k) => NotedOn(k) = 0
<1>1. PaidTo(k) = Weigh(allocations, ToInvoice(k)) /\ Allocated(k) = Weigh(allocations, OfPay(k))
  BY AllocationSums DEF PaidTo, Allocated
<1>2. NotedOn(k) = Weigh(notes, OfNotes(k))
  BY NoteSums DEF NotedOn
<1>3. /\ PaidTo(k) \in Nat /\ Allocated(k) \in Nat
      /\ (\A a \in DOMAIN allocations : allocations[a].invoice # k) => PaidTo(k) = 0
      /\ (\A a \in DOMAIN allocations : allocations[a].payment # k) => Allocated(k) = 0
  BY <1>1, AllocationSums
<1>4. NotedOn(k) \in Nat /\ ((\A n \in DOMAIN notes : notes[n].invoice # k) => NotedOn(k) = 0)
  BY <1>2, NoteSums
<1> QED BY <1>3, <1>4

LEMMA AllocationsGrow ==
    ASSUME allocations \in Seq(Allocation), NEW row \in Allocation,
           allocations' = Append(allocations, row), NEW k
    PROVE  /\ PaidTo(k)' = PaidTo(k) + (IF row.invoice = k THEN row.amount ELSE 0)
           /\ Allocated(k)' = Allocated(k) + (IF row.payment = k THEN row.amount ELSE 0)
<1>1. PICK rows : rows = Append(allocations, row)
  OBVIOUS
<1>2. rows \in Seq(Allocation)
  BY <1>1
<1>3. PaidTo(k) = Weigh(allocations, ToInvoice(k)) /\ Allocated(k) = Weigh(allocations, OfPay(k))
  BY AllocationSums DEF PaidTo, Allocated
<1>4. /\ SumFunction([a \in DOMAIN rows |-> IF rows[a].invoice = k THEN rows[a].amount ELSE 0])
           = Weigh(rows, ToInvoice(k))
      /\ SumFunction([a \in DOMAIN rows |-> IF rows[a].payment = k THEN rows[a].amount ELSE 0])
           = Weigh(rows, OfPay(k))
  BY <1>2, AllocationSums
<1>5. allocations' = rows
  BY <1>1
<1>6. PaidTo(k)' = Weigh(rows, ToInvoice(k)) /\ Allocated(k)' = Weigh(rows, OfPay(k))
  BY <1>4, <1>5 DEF PaidTo, Allocated
<1>7. ToInvoice(k) \in [Allocation -> Int] /\ OfPay(k) \in [Allocation -> Int]
  BY AllocationSums
<1>8. /\ Weigh(rows, ToInvoice(k)) = Weigh(allocations, ToInvoice(k)) + ToInvoice(k)[row]
      /\ Weigh(rows, OfPay(k)) = Weigh(allocations, OfPay(k)) + OfPay(k)[row]
  BY <1>1, <1>7, WeighAppend
<1>9. /\ ToInvoice(k)[row] = IF row.invoice = k THEN row.amount ELSE 0
      /\ OfPay(k)[row] = IF row.payment = k THEN row.amount ELSE 0
  BY DEF ToInvoice, OfPay
<1> QED BY <1>3, <1>6, <1>8, <1>9

LEMMA NotesGrow ==
    ASSUME notes \in Seq(InvoiceNote), NEW row \in InvoiceNote,
           notes' = Append(notes, row), NEW k
    PROVE  NotedOn(k)' = NotedOn(k) + (IF row.invoice = k THEN row.amount ELSE 0)
<1>1. PICK rows : rows = Append(notes, row)
  OBVIOUS
<1>2. rows \in Seq(InvoiceNote)
  BY <1>1
<1>3. NotedOn(k) = Weigh(notes, OfNotes(k))
  BY NoteSums DEF NotedOn
<1>4. SumFunction([n \in DOMAIN rows |-> IF rows[n].invoice = k THEN rows[n].amount ELSE 0])
        = Weigh(rows, OfNotes(k))
  BY <1>2, NoteSums
<1>5. notes' = rows
  BY <1>1
<1>6. NotedOn(k)' = Weigh(rows, OfNotes(k))
  BY <1>4, <1>5 DEF NotedOn
<1>7. OfNotes(k) \in [InvoiceNote -> Int]
  BY NoteSums
<1>8. Weigh(rows, OfNotes(k)) = Weigh(notes, OfNotes(k)) + OfNotes(k)[row]
  BY <1>1, <1>7, WeighAppend
<1>9. OfNotes(k)[row] = IF row.invoice = k THEN row.amount ELSE 0
  BY DEF OfNotes
<1> QED BY <1>3, <1>6, <1>8, <1>9

\* An entry at the end of the journal is one more of its reference.
LEMMA AppendEntry ==
    ASSUME journal \in Seq(Entry), NEW row \in Entry, journal' = Append(journal, row),
           NEW n, n = Len(journal) + 1
    PROVE  /\ journal' \in Seq(Entry)
           /\ DOMAIN journal' = DOMAIN journal \cup {n} /\ n \notin DOMAIN journal
           /\ journal'[n] = row /\ \A e \in DOMAIN journal : journal'[e] = journal[e]
           /\ \A r : EntriesFor(r)' = EntriesFor(r) \cup (IF row.reference = r THEN {n} ELSE {})
<1>1. /\ journal' \in Seq(Entry)
      /\ DOMAIN journal' = DOMAIN journal \cup {n} /\ n \notin DOMAIN journal
      /\ journal'[n] = row /\ \A e \in DOMAIN journal : journal'[e] = journal[e]
  OBVIOUS
<1> QED BY <1>1 DEF EntriesFor

\* processEvent posts an entry of its reference, unless there is one, and nothing else.
LEMMA ProcessEventEffect ==
    ASSUME journal \in Seq(Entry), NEW event \in Events, NEW reference \in References,
           NEW amount \in Int, journal' = ProcessEvent(journal, event, reference, amount)
    PROVE  /\ journal' \in Seq(Entry)
           /\ DOMAIN journal \subseteq DOMAIN journal'
           /\ \A e \in DOMAIN journal : journal'[e] = journal[e]
           /\ \A e \in DOMAIN journal' \ DOMAIN journal : journal'[e].reference = reference
           /\ \A r : r # reference => EntriesFor(r)' = EntriesFor(r)
           /\ \A r : ReversedEntries(r)' = ReversedEntries(r)
           /\ \/ EntriesFor(reference)' = EntriesFor(reference) /\ EntriesFor(reference) # {}
              \/ /\ ~AlreadyPosted(journal, reference)
                 /\ \E n : /\ EntriesFor(reference)' = EntriesFor(reference) \cup {n}
                           /\ journal'[n] = AutoEntry(event, reference, amount)
<1>1. CASE AlreadyPosted(journal, reference)
  <2>1. journal' = journal
    BY <1>1 DEF ProcessEvent
  <2>2. EntriesFor(reference) # {}
    BY <1>1 DEF AlreadyPosted, EntriesFor
  <2> QED BY <2>1, <2>2 DEF EntriesFor, ReversedEntries
<1>2. CASE ~AlreadyPosted(journal, reference)
  <2>1. PICK row \in Entry : row = AutoEntry(event, reference, amount)
    BY DEF AutoEntry, Entry
  <2>2. row.reference = reference /\ row.status = "POSTED"
    BY <2>1 DEF AutoEntry
  <2>3. journal' = Append(journal, row)
    BY <1>2, <2>1 DEF ProcessEvent
  <2>4. PICK n : n = Len(journal) + 1
    OBVIOUS
  <2>5. /\ journal' \in Seq(Entry)
        /\ DOMAIN journal' = DOMAIN journal \cup {n} /\ n \notin DOMAIN journal
        /\ journal'[n] = row /\ \A e \in DOMAIN journal : journal'[e] = journal[e]
        /\ \A r : EntriesFor(r)' = EntriesFor(r) \cup (IF row.reference = r THEN {n} ELSE {})
    BY <2>3, <2>4, AppendEntry
  <2>6. \A r : ReversedEntries(r)' = ReversedEntries(r)
    BY <2>2, <2>5 DEF ReversedEntries, EntriesFor
  <2> QED BY <1>2, <2>1, <2>2, <2>5, <2>6
<1> QED BY <1>1, <1>2

\* Entries are finitely many.
LEMMA EntriesFinite ==
    ASSUME journal \in Seq(Entry)
    PROVE  \A r : IsFiniteSet(EntriesFor(r)) /\ IsFiniteSet(ReversedEntries(r))
<1>1. DOMAIN journal = 1..Len(journal) /\ Len(journal) \in Nat
  OBVIOUS
<1>2. IsFiniteSet(DOMAIN journal)
  BY <1>1, FS_Interval
<1>3. \A r : EntriesFor(r) \subseteq DOMAIN journal /\ ReversedEntries(r) \subseteq DOMAIN journal
  BY DEF EntriesFor, ReversedEntries
<1> QED BY <1>2, <1>3, FS_Subset

-----------------------------------------------------------------------------
(* Steps of calls *)

\* What a step at the invoice i0 and the payment p0 leaves to the calls elsewhere.
Keeps(i0, p0) ==
    /\ \A i \in DOMAIN invoices :
          /\ i \in DOMAIN invoices'
          /\ invoices'[i].total = invoices[i].total
          /\ invoices'[i].type = invoices[i].type
          /\ i # i0 => /\ invoices'[i].paid = invoices[i].paid
                       /\ invoices'[i].outstanding = invoices[i].outstanding
    /\ \A p \in DOMAIN payments :
          /\ p \in DOMAIN payments' /\ payments'[p].amount = payments[p].amount
          /\ p # p0 => Allocated(p)' = Allocated(p)
    /\ \A e \in DOMAIN journal :
          /\ e \in DOMAIN journal' /\ journal'[e].reference = journal[e].reference
          /\ journal'[e] = journal[e] \/ journal[e].reference = <<"PAYMENT", p0>>

\* They know what they knew.
LEMMA OthersKnow ==
    ASSUME IInv, NEW d \in Clerks, call'[d] = call[d], history \subseteq history',
           NEW i0, NEW p0, Keeps(i0, p0),
           Busy(d) => /\ call[d].invoice = i0 => <<"invoice", i0>> \in history
                      /\ call[d].payment = p0 => <<"payment", p0>> \in history
    PROVE  CallOK(d)'
<1>1. PICK r \in Calls : r = call[d]
  BY DEF IInv, TypesOK
<1>2. Refers(r) /\ Knows(r)
  BY <1>1 DEF IInv, CallOK
<1>3. r # NoCall => /\ r.invoice = i0 => <<"invoice", i0>> \in history
                    /\ r.payment = p0 => <<"payment", p0>> \in history
  BY <1>1 DEF Busy
<1>4. Refers(r)'
  <2>1. OfInvoice(r) => /\ r.invoice \in DOMAIN invoices'
                        /\ r.seen.total = invoices'[r.invoice].total
                        /\ r.seen.type = invoices'[r.invoice].type
    BY <1>2 DEF Refers, Keeps
  <2>2. \A p \in DOMAIN payments : p \in DOMAIN payments'
    BY DEF Keeps
  <2>3. r.op = "reverse" /\ r.entry # 0 =>
           /\ r.entry \in DOMAIN journal'
           /\ journal'[r.entry].reference = <<"PAYMENT", r.payment>>
    BY <1>2 DEF Refers, Keeps
  <2> QED BY <1>2, <2>1, <2>2, <2>3 DEF Refers, OfInvoice, OfPayment
<1>5. Knows(r)'
  <2>1. ASSUME OfInvoice(r), <<"invoice", r.invoice>> \notin history'
        PROVE  /\ r.seen.paid = invoices'[r.invoice].paid
               /\ r.seen.outstanding = invoices'[r.invoice].outstanding
    <3>1. r # NoCall
      BY <2>1, CallKinds DEF OfInvoice
    <3>2. r.invoice # i0 /\ <<"invoice", r.invoice>> \notin history
      BY <1>3, <2>1, <3>1
    <3>3. r.invoice \in DOMAIN invoices
      BY <1>2, <2>1 DEF Refers
    <3> QED BY <1>2, <2>1, <3>2, <3>3 DEF Knows, Keeps
  <2>2. ASSUME r.op = "allocate", <<"payment", r.payment>> \notin history'
        PROVE  Allocated(r.payment)' + r.amount <= payments'[r.payment].amount
    <3>1. r # NoCall
      BY <2>2, CallKinds
    <3>2. r.payment # p0 /\ <<"payment", r.payment>> \notin history
      BY <1>3, <2>2, <3>1
    <3>3. r.payment \in DOMAIN payments
      BY <1>2, <2>2 DEF Refers
    <3> QED BY <1>2, <2>2, <3>2, <3>3 DEF Knows, Keeps
  <2>3. ASSUME r.op = "reverse", <<"payment", r.payment>> \notin history', r.entry # 0
        PROVE  journal'[r.entry].status = "POSTED"
    <3>1. r # NoCall
      BY <2>3, CallKinds
    <3>2. r.payment # p0 /\ <<"payment", r.payment>> \notin history
      BY <1>3, <2>3, <3>1
    <3>3. r.entry \in DOMAIN journal /\ journal[r.entry].reference = <<"PAYMENT", r.payment>>
      BY <1>2, <2>3 DEF Refers
    <3>4. journal'[r.entry] = journal[r.entry]
      BY <3>2, <3>3, ReferencesDiffer DEF Keeps
    <3> QED BY <1>2, <2>3, <3>2, <3>4 DEF Knows
  <2> QED BY <2>1, <2>2, <2>3 DEF Knows, OfInvoice
<1> QED BY <1>1, <1>4, <1>5 DEF CallOK

\* A call ends, with what it writes.
LEMMA EndStep ==
    ASSUME IInv, NEW c \in Clerks, Busy(c), Ends(c), history \subseteq history',
           Keeps(call[c].invoice, call[c].payment)
    PROVE  call' \in [Clerks -> Calls] /\ (\A d \in Clerks : CallOK(d)') /\ OneCall'
<1>1. /\ call' \in [Clerks -> Calls] /\ call'[c] = NoCall
      /\ \A d \in Clerks : d # c => call'[d] = call[d]
  BY DEF IInv, TypesOK, Ends, Calls
<1>2. ASSUME NEW d \in Clerks PROVE CallOK(d)'
  <2>1. CASE d = c
    <3>1. ~OfInvoice(NoCall) /\ ~OfPayment(NoCall) /\ NoCall.op = "none"
      BY CallKinds DEF Calls, OfInvoice, OfPayment
    <3> QED BY <1>1, <2>1, <3>1 DEF CallOK, Refers, Knows, OfInvoice, OfPayment, Settlements
  <2>2. CASE d # c
    <3>1. call'[d] = call[d]
      BY <1>1, <2>2
    <3>2. Busy(d) =>
             /\ call[d].invoice = call[c].invoice => <<"invoice", call[c].invoice>> \in history
             /\ call[d].payment = call[c].payment => <<"payment", call[c].payment>> \in history
      BY <2>2 DEF IInv, OneCall
    <3> QED BY <3>1, <3>2, OthersKnow
  <2> QED BY <2>1, <2>2
<1>3. OneCall'
  BY <1>1 DEF IInv, OneCall, Busy
<1> QED BY <1>1, <1>2, <1>3

\* A step that no call under way takes.
LEMMA IdleStep ==
    ASSUME IInv, call' = call, history' = history, Keeps(-1, -1)
    PROVE  call' \in [Clerks -> Calls] /\ (\A d \in Clerks : CallOK(d)') /\ OneCall'
<1>1. ASSUME NEW d \in Clerks PROVE CallOK(d)'
  <2>1. call[d] \in Calls
    BY DEF IInv, TypesOK
  <2>2. Busy(d) => call[d].invoice # -1 /\ call[d].payment # -1
    BY <2>1, CallKinds DEF Busy, Calls
  <2> QED BY <2>2, OthersKnow
<1> QED BY <1>1 DEF IInv, TypesOK, OneCall, Busy

-----------------------------------------------------------------------------
(* What writes leave *)

AddsUpAt(i) ==
    /\ <<"invoice", i>> \notin history => invoices[i].paid = PaidTo(i)
    /\ {<<"invoice", i>>, <<"noteUndone", i>>, <<"writtenOff", i>>} \cap history = {}
         => invoices[i].outstanding = invoices[i].total - PaidTo(i) - NotedOn(i)

\* Where an invoice's row and what was paid and credited stay, it adds up as before.
LEMMA AmountsKept ==
    ASSUME IInv, history \subseteq history', NEW i0,
           \A i \in DOMAIN invoices' : i # i0 =>
              /\ i \in DOMAIN invoices
              /\ invoices'[i].total = invoices[i].total
              /\ invoices'[i].paid = invoices[i].paid
              /\ invoices'[i].outstanding = invoices[i].outstanding
              /\ PaidTo(i)' = PaidTo(i) /\ NotedOn(i)' = NotedOn(i),
           i0 \in DOMAIN invoices' => /\ AddsUpAt(i0)'
                                      /\ invoices'[i0].outstanding <= invoices'[i0].total
    PROVE  InvoiceAddsUp' /\ Owed'
<1>1. ASSUME NEW i \in DOMAIN invoices' PROVE AddsUpAt(i)'
  <2>1. CASE i = i0
    BY <2>1
  <2>2. CASE i # i0
    <3>1. i \in DOMAIN invoices /\ AddsUpAt(i)
      BY <2>2 DEF IInv, InvoiceAddsUp, AddsUpAt
    <3> QED BY <2>2, <3>1 DEF AddsUpAt
  <2> QED BY <2>1, <2>2
<1>2. Owed'
  BY DEF IInv, Owed
<1> QED BY <1>1, <1>2 DEF InvoiceAddsUp, AddsUpAt

WithinAt(p) ==
    \/ <<"payment", p>> \in history
    \/ \E a \in ToSet(allocations) : a.payment = p /\ a.op = "apply"
    \/ Allocated(p) <= payments[p].amount

\* So it is with what is allocated of a payment.
LEMMA AllocationsKept ==
    ASSUME IInv, history \subseteq history', NEW p0,
           ToSet(allocations) \subseteq ToSet(allocations'),
           \A p \in DOMAIN payments' : p # p0 =>
              /\ p \in DOMAIN payments
              /\ payments'[p].amount = payments[p].amount /\ Allocated(p)' = Allocated(p),
           p0 \in DOMAIN payments' => WithinAt(p0)'
    PROVE  AllocatedWithinPayment'
<1>1. ASSUME NEW p \in DOMAIN payments' PROVE WithinAt(p)'
  <2>1. CASE p = p0
    BY <2>1
  <2>2. CASE p # p0
    <3>1. p \in DOMAIN payments /\ WithinAt(p)
      BY <2>2 DEF IInv, AllocatedWithinPayment, WithinAt
    <3> QED BY <2>2, <3>1 DEF WithinAt
  <2> QED BY <2>1, <2>2
<1> QED BY <1>1, Zenon DEF AllocatedWithinPayment, WithinAt

LEMMA AllocationsStay ==
    ASSUME IInv, history \subseteq history', allocations' = allocations,
           DOMAIN payments' = DOMAIN payments,
           \A p \in DOMAIN payments : payments'[p].amount = payments[p].amount
    PROVE  AllocatedWithinPayment'
<1>1. \A p : Allocated(p)' = Allocated(p)
  BY DEF Allocated
<1>2. ToSet(allocations') = ToSet(allocations)
  OBVIOUS
<1>3. payments \in Seq(Payment)
  BY DEF IInv, TypesOK, TypeOK
<1>4. -1 \notin DOMAIN payments'
  BY <1>3
<1> QED BY <1>1, <1>2, <1>4, AllocationsKept

\* What no event of an invoice touches stays posted.
LEMMA PostedKept ==
    ASSUME IInv, DOMAIN invoices' = DOMAIN invoices,
           \A i \in DOMAIN invoices :
              /\ invoices'[i].total = invoices[i].total
              /\ invoices'[i].status \in {"OPEN", "DRAFT"} => invoices'[i].status = invoices[i].status
              /\ EntriesFor(<<"INVOICE", i>>)' = EntriesFor(<<"INVOICE", i>>)
              /\ \A e \in EntriesFor(<<"INVOICE", i>>) : journal'[e] = journal[e]
    PROVE  PostedInv'
<1> SUFFICES ASSUME NEW i \in DOMAIN invoices'
             PROVE  PostedAt(i)'
  BY DEF PostedInv
<1>1. PostedAt(i)
  BY DEF IInv, PostedInv
<1>2. PICK entries : entries = EntriesFor(<<"INVOICE", i>>)
  OBVIOUS
<1>3. EntriesFor(<<"INVOICE", i>>)' = entries /\ \A e \in entries : journal'[e] = journal[e]
  BY <1>2
<1> QED BY <1>1, <1>2, <1>3 DEF PostedAt

LEMMA ReversalsKept ==
    ASSUME IInv, history \subseteq history', DOMAIN payments' = DOMAIN payments,
           \A p \in DOMAIN payments :
              /\ EntriesFor(<<"PAYMENT_REVERSAL", p>>)' = EntriesFor(<<"PAYMENT_REVERSAL", p>>)
              /\ ReversedEntries(<<"PAYMENT", p>>)' = ReversedEntries(<<"PAYMENT", p>>)
    PROVE  ReversalsMatch'
BY DEF IInv, ReversalsMatch

JournalOK ==
    /\ journal' \in Seq(Entry)
    /\ \A e \in DOMAIN journal : e \in DOMAIN journal' /\ journal'[e] = journal[e]
    /\ Places' /\ PostedInv' /\ ReversalsMatch'

\* A step that posts nothing, or an event of something else than an invoice.
LEMMA JournalKept ==
    ASSUME IInv, history \subseteq history', journal' = journal,
           DOMAIN payments' = DOMAIN payments, DOMAIN invoices' = DOMAIN invoices,
           \A i \in DOMAIN invoices :
              /\ invoices'[i].total = invoices[i].total
              /\ invoices'[i].status \in {"OPEN", "DRAFT"} => invoices'[i].status = invoices[i].status
    PROVE  JournalOK
<1>1. \A r : EntriesFor(r)' = EntriesFor(r) /\ ReversedEntries(r)' = ReversedEntries(r)
  BY DEF EntriesFor, ReversedEntries
<1>2. PostedInv'
  BY <1>1, PostedKept
<1>3. ReversalsMatch'
  BY <1>1, ReversalsKept
<1>4. Places'
  BY DEF IInv, Places
<1> QED BY <1>2, <1>3, <1>4 DEF JournalOK, IInv, TypesOK

LEMMA OtherEvent ==
    ASSUME IInv, history \subseteq history',
           DOMAIN payments' = DOMAIN payments, DOMAIN invoices' = DOMAIN invoices,
           \A i \in DOMAIN invoices :
              /\ invoices'[i].total = invoices[i].total
              /\ invoices'[i].status \in {"OPEN", "DRAFT"} => invoices'[i].status = invoices[i].status,
           NEW event \in Events, NEW reference \in References, NEW amount \in Int,
           journal' = ProcessEvent(journal, event, reference, amount),
           \A n : reference \notin {<<"INVOICE", n>>, <<"PAYMENT_REVERSAL", n>>},
           \A n : reference = <<"PAYMENT", n>> => n \in DOMAIN payments
    PROVE  JournalOK
<1>1. journal \in Seq(Entry)
  BY DEF IInv, TypesOK
<1>2. /\ journal' \in Seq(Entry)
      /\ DOMAIN journal \subseteq DOMAIN journal'
      /\ \A e \in DOMAIN journal : journal'[e] = journal[e]
      /\ \A e \in DOMAIN journal' \ DOMAIN journal : journal'[e].reference = reference
      /\ \A r : r # reference => EntriesFor(r)' = EntriesFor(r)
      /\ \A r : ReversedEntries(r)' = ReversedEntries(r)
  BY <1>1, ProcessEventEffect
<1>3. \A n : \A e \in EntriesFor(<<"INVOICE", n>>) : journal'[e] = journal[e]
  BY <1>2 DEF EntriesFor
<1>4. \A n : /\ EntriesFor(<<"INVOICE", n>>)' = EntriesFor(<<"INVOICE", n>>)
             /\ EntriesFor(<<"PAYMENT_REVERSAL", n>>)' = EntriesFor(<<"PAYMENT_REVERSAL", n>>)
  BY <1>2
<1>5. PostedInv'
  BY <1>3, <1>4, PostedKept
<1>6. ReversalsMatch'
  BY <1>2, <1>4, ReversalsKept
<1>7. Places'
  <2> SUFFICES ASSUME NEW e \in DOMAIN journal', NEW n \in Nat
               PROVE  /\ journal'[e].reference = <<"INVOICE", n>> => n \in DOMAIN invoices
                      /\ journal'[e].reference \in {<<"PAYMENT", n>>, <<"PAYMENT_REVERSAL", n>>} =>
                            n \in DOMAIN payments
    BY DEF Places
  <2>1. CASE e \in DOMAIN journal
    BY <1>2, <2>1 DEF IInv, Places
  <2>2. CASE e \notin DOMAIN journal
    BY <1>2, <2>2
  <2> QED BY <2>1, <2>2
<1> QED BY <1>2, <1>5, <1>6, <1>7 DEF JournalOK

-----------------------------------------------------------------------------
(* Calls begin *)

\* With what they read now, for nothing has changed since.
LEMMA BeginStep ==
    ASSUME IInv, NEW c \in Clerks, NEW r \in Calls, r # NoCall, Reads(c, r),
           Refers(r), Knows(r)
    PROVE  IInv'
<1>1. /\ call' \in [Clerks -> Calls] /\ call'[c] = r
      /\ \A d \in Clerks : d # c => call'[d] = call[d]
  BY DEF IInv, TypesOK, Reads
<1>2. \A d \in Clerks : Busy(d) <=> ~Free(d)
  BY CallKinds DEF IInv, TypesOK, Busy, Free
<1>3. /\ history \subseteq history'
      /\ \A d \in Clerks : Busy(d) =>
            /\ call[d].invoice = r.invoice => <<"invoice", r.invoice>> \in history'
            /\ call[d].payment = r.payment => <<"payment", r.payment>> \in history'
  <2> SUFFICES ASSUME NEW d \in Clerks, Busy(d)
               PROVE  /\ call[d].invoice = r.invoice => <<"invoice", r.invoice>> \in history'
                      /\ call[d].payment = r.payment => <<"payment", r.payment>> \in history'
    BY DEF Reads
  <2>1. d \in {o \in Clerks : ~Free(o)}
    BY <1>2
  <2>2. {<<"invoice", r.invoice>>, <<"payment", r.payment>>}
           \cap {<<"invoice", call[d].invoice>>, <<"payment", call[d].payment>>} \subseteq history'
    BY <2>1 DEF Reads
  <2> QED BY <2>2
<1>4. UNCHANGED <<invoices, payments, allocations, notes, journal>>
  BY DEF Reads
<1>5. /\ \A k : PaidTo(k)' = PaidTo(k) /\ Allocated(k)' = Allocated(k) /\ NotedOn(k)' = NotedOn(k)
      /\ \A q : EntriesFor(q)' = EntriesFor(q) /\ ReversedEntries(q)' = ReversedEntries(q)
  BY <1>4 DEF PaidTo, Allocated, NotedOn, EntriesFor, ReversedEntries
<1>6. Keeps(-1, -1)
  BY <1>4, <1>5 DEF Keeps
<1>7. ASSUME NEW d \in Clerks PROVE CallOK(d)'
  <2>1. CASE d = c
    <3>1. Refers(r)' /\ Knows(r)'
      BY <1>3, <1>4, <1>5 DEF Refers, Knows, OfInvoice, OfPayment
    <3> QED BY <1>1, <2>1, <3>1 DEF CallOK
  <2>2. CASE d # c
    <3>1. call[d] \in Calls /\ call'[d] = call[d]
      BY <1>1, <2>2 DEF IInv, TypesOK
    <3>2. Busy(d) => call[d].invoice # -1 /\ call[d].payment # -1
      BY <3>1, CallKinds DEF Busy, Calls
    <3> QED BY <1>3, <1>6, <3>1, <3>2, OthersKnow
  <2> QED BY <2>1, <2>2
<1>8. OneCall'
  <2> SUFFICES ASSUME NEW d \in Clerks, NEW e \in Clerks, d # e, Busy(d)', Busy(e)'
               PROVE  /\ call'[d].invoice = call'[e].invoice => <<"invoice", call'[d].invoice>> \in history'
                      /\ call'[d].payment = call'[e].payment => <<"payment", call'[d].payment>> \in history'
    BY DEF OneCall
  <2>1. CASE d = c
    BY <1>1, <1>3, <2>1 DEF Busy
  <2>2. CASE e = c
    BY <1>1, <1>3, <2>2 DEF Busy
  <2>3. CASE d # c /\ e # c
    BY <1>1, <1>3, <2>3 DEF IInv, OneCall, Busy
  <2> QED BY <2>1, <2>2, <2>3
<1>9. InvoiceAddsUp' /\ Owed'
  BY <1>3, <1>4, <1>5 DEF IInv, InvoiceAddsUp, Owed
<1>10. AllocatedWithinPayment'
  BY <1>3, <1>4, AllocationsStay
<1>11. JournalOK
  BY <1>3, <1>4, JournalKept
<1> QED BY <1>1, <1>4, <1>7, <1>8, <1>9, <1>10, <1>11 DEF IInv, TypesOK, TypeOK, Paid, JournalOK

\* A call for an invoice.
LEMMA OnInvoiceReads ==
    ASSUME IInv, NEW c \in Clerks,
           NEW op \in {"post", "dispute", "cancel", "apply", "allocate", "supplier", "writeOff", "note"},
           NEW i \in DOMAIN invoices, NEW p \in {0} \cup DOMAIN payments, NEW amount \in Nat,
           op \in Settlements \cup {"note"} => amount # 0,
           op \in {"apply", "allocate"} => p \in DOMAIN payments,
           op = "supplier" => p = 0,
           op = "allocate" => Allocated(p) + amount <= payments[p].amount,
           Reads(c, OnInvoice(op, i, p, amount))
    PROVE  IInv'
<1>1. i \in Nat \ {0} /\ p \in Nat /\ invoices[i] \in Invoice
  BY DEF IInv, TypesOK, TypeOK
<1>2. PICK r : r = OnInvoice(op, i, p, amount)
  OBVIOUS
<1>3. /\ r.op = op /\ r.invoice = i /\ r.payment = p /\ r.amount = amount /\ r.seen = invoices[i]
      /\ r \in InvoiceCalls
  BY <1>1, <1>2 DEF OnInvoice, InvoiceCalls
<1>4. r \in Calls /\ r # NoCall
  BY <1>3, CallKinds DEF Calls
<1>5. ~OfPayment(r) /\ r.op # "reverse"
  BY <1>3, <1>4, CallKinds DEF OfPayment
<1>6. Refers(r)
  BY <1>3, <1>5 DEF Refers, IInv, Owed
<1>7. Knows(r)
  BY <1>3, <1>5 DEF Knows
<1> QED BY <1>2, <1>4, <1>6, <1>7, BeginStep

\* A call for a payment.
LEMMA OnPaymentReads ==
    ASSUME IInv, NEW c \in Clerks, NEW r \in PaymentCalls \cup ReverseCalls, Reads(c, r),
           r.payment \in DOMAIN payments,
           r.op = "reverse" /\ r.entry # 0 =>
              /\ r.entry \in DOMAIN journal /\ journal[r.entry].reference = <<"PAYMENT", r.payment>>
              /\ journal[r.entry].status = "POSTED"
    PROVE  IInv'
<1>1. r \in Calls
  BY DEF Calls
<1>2. /\ ~OfInvoice(r) /\ r # NoCall
      /\ r.op \in {"approve", "postPayment", "reverse"}
  BY <1>1, CallKinds DEF OfInvoice
<1>3. Refers(r) /\ Knows(r)
  BY <1>2 DEF Refers, Knows, Settlements
<1> QED BY <1>1, <1>2, <1>3, BeginStep

-----------------------------------------------------------------------------
(* Calls write: invoices *)

LEMMA UpdateInvoice ==
    ASSUME invoices \in Seq(Invoice), NEW i \in DOMAIN invoices, NEW row \in Invoice,
           invoices' = [invoices EXCEPT ![i] = row]
    PROVE  /\ invoices' \in Seq(Invoice) /\ DOMAIN invoices' = DOMAIN invoices
           /\ invoices'[i] = row /\ \A j \in DOMAIN invoices : j # i => invoices'[j] = invoices[j]
OBVIOUS

\* A call writes the row of its invoice, and what it settles or credits there.
LEMMA InvoiceWrite ==
    ASSUME IInv, NEW c \in Clerks, OfInvoice(call[c]), Ends(c), history \subseteq history',
           payments' = payments, NEW i, i = call[c].invoice,
           NEW row \in Invoice, invoices' = [invoices EXCEPT ![i] = row],
           row.total = invoices[i].total, row.type = invoices[i].type,
           row.outstanding <= row.total,
           TypeOK', Paid', AddsUpAt(i)',
           \A k : k # i => PaidTo(k)' = PaidTo(k) /\ NotedOn(k)' = NotedOn(k),
           \A p \in DOMAIN payments : p # call[c].payment => Allocated(p)' = Allocated(p),
           AllocatedWithinPayment', JournalOK
    PROVE  IInv'
<1>1. i \in DOMAIN invoices /\ Busy(c)
  BY CallKinds DEF IInv, TypesOK, CallOK, Refers, OfInvoice, Busy
<1>2. /\ DOMAIN invoices' = DOMAIN invoices
      /\ invoices'[i] = row /\ \A j \in DOMAIN invoices : j # i => invoices'[j] = invoices[j]
  BY <1>1, UpdateInvoice DEF IInv, TypesOK, TypeOK
<1>3. Keeps(i, call[c].payment)
  BY <1>2 DEF Keeps, JournalOK
<1>4. call' \in [Clerks -> Calls] /\ (\A d \in Clerks : CallOK(d)') /\ OneCall'
  BY <1>1, <1>3, EndStep
<1>5. InvoiceAddsUp' /\ Owed'
  BY <1>2, AmountsKept
<1> QED BY <1>4, <1>5 DEF IInv, TypesOK, JournalOK

\* One that changes the status alone leaves the amounts.
LEMMA StatusWrite ==
    ASSUME IInv, NEW c \in Clerks, OfInvoice(call[c]), Ends(c),
           UNCHANGED <<payments, allocations, notes, history>>,
           NEW status \in InvoiceStatus,
           invoices' = [invoices EXCEPT ![call[c].invoice].status = status],
           JournalOK
    PROVE  IInv'
<1>1. PICK i : i = call[c].invoice
  OBVIOUS
<1>2. i \in DOMAIN invoices /\ invoices \in Seq(Invoice) /\ invoices[i] \in Invoice
  BY <1>1 DEF IInv, TypesOK, TypeOK, CallOK, Refers
<1>3. PICK row : row = [invoices[i] EXCEPT !.status = status]
  OBVIOUS
<1>4. /\ row \in Invoice /\ row.total = invoices[i].total /\ row.type = invoices[i].type
      /\ row.outstanding = invoices[i].outstanding /\ row.paid = invoices[i].paid
  BY <1>2, <1>3 DEF Invoice
<1>5. invoices' = [invoices EXCEPT ![i] = row]
  BY <1>1, <1>3
<1>6. invoices' \in Seq(Invoice) /\ DOMAIN invoices' = DOMAIN invoices /\ invoices'[i] = row
  BY <1>2, <1>4, <1>5, UpdateInvoice
<1>7. TypeOK' /\ Paid'
  BY <1>6 DEF IInv, TypesOK, TypeOK, Paid
<1>8. \A k : PaidTo(k)' = PaidTo(k) /\ NotedOn(k)' = NotedOn(k) /\ Allocated(k)' = Allocated(k)
  BY DEF PaidTo, NotedOn, Allocated
<1>9. AddsUpAt(i)'
  <2>1. AddsUpAt(i)
    BY <1>2 DEF IInv, InvoiceAddsUp, AddsUpAt
  <2> QED BY <1>4, <1>6, <1>8, <2>1 DEF AddsUpAt
<1>10. AllocatedWithinPayment'
  BY AllocationsStay
<1>11. row.outstanding <= row.total
  BY <1>2, <1>4 DEF IInv, Owed
<1> QED BY <1>1, <1>4, <1>5, <1>7, <1>8, <1>9, <1>10, <1>11, InvoiceWrite

\* Nor do dispute and cancel post anything.
LEMMA SetStatusStep ==
    ASSUME IInv, NEW c \in Clerks, Dispute(c) \/ Cancel(c)
    PROVE  IInv'
<1>1. PICK status \in {"DISPUTED", "CANCELLED"}, op \in {"dispute", "cancel"} : SetStatus(c, op, status)
  BY DEF Dispute, Cancel
<1>2. /\ call[c].op = op /\ Ends(c) /\ UNCHANGED <<payments, allocations, notes, journal, history>>
      /\ invoices' = [invoices EXCEPT ![call[c].invoice].status = status]
  BY <1>1 DEF SetStatus, Serves
<1>3. OfInvoice(call[c])
  BY <1>2, CallKinds DEF IInv, TypesOK, OfInvoice
<1>4. call[c].invoice \in DOMAIN invoices /\ invoices \in Seq(Invoice)
  BY <1>3 DEF IInv, TypesOK, TypeOK, CallOK, Refers
<1>5. /\ DOMAIN invoices' = DOMAIN invoices
      /\ \A i \in DOMAIN invoices :
            /\ invoices'[i].total = invoices[i].total
            /\ invoices'[i].status \in {"OPEN", "DRAFT"} => invoices'[i].status = invoices[i].status
  <2>1. \A i \in DOMAIN invoices : invoices[i] \in Invoice
    BY <1>4
  <2> QED BY <1>2, <1>4, <2>1 DEF Invoice
<1>6. JournalOK
  BY <1>2, <1>5, JournalKept
<1> QED BY <1>2, <1>3, <1>6, StatusWrite DEF InvoiceStatus

\* post: the one entry of the invoice, unless another post has written it.
LEMMA PostStep ==
    ASSUME IInv, NEW c \in Clerks, Post(c)
    PROVE  IInv'
<1>1. /\ call[c].op = "post" /\ Ends(c) /\ UNCHANGED <<payments, allocations, notes, history>>
      /\ invoices' = [invoices EXCEPT ![call[c].invoice].status = "OPEN"]
  BY DEF Post, Serves
<1>2. OfInvoice(call[c])
  BY <1>1, CallKinds DEF IInv, TypesOK, OfInvoice
<1>3. PICK i : i = call[c].invoice
  OBVIOUS
<1>4. PICK total : total = call[c].seen.total
  OBVIOUS
<1>5. /\ i \in DOMAIN invoices /\ invoices \in Seq(Invoice) /\ invoices[i] \in Invoice
      /\ invoices[i].total = total /\ total \in Int /\ i \in Nat
  <2>1. i \in DOMAIN invoices /\ invoices \in Seq(Invoice) /\ invoices[i].total = total
    BY <1>2, <1>3, <1>4 DEF IInv, TypesOK, TypeOK, CallOK, Refers
  <2>2. invoices[i] \in Invoice /\ i \in Nat
    BY <2>1
  <2> QED BY <2>1, <2>2 DEF Invoice
<1>6. /\ DOMAIN invoices' = DOMAIN invoices /\ invoices'[i].total = total /\ invoices'[i].status = "OPEN"
      /\ \A j \in DOMAIN invoices : j # i => invoices'[j] = invoices[j]
  BY <1>1, <1>3, <1>5 DEF Invoice
<1>7. PICK event \in {"SALES_INVOICE", "SUPPLIER_INVOICE"} :
         journal' = ProcessEvent(journal, event, <<"INVOICE", i>>, total)
  BY <1>3, <1>4 DEF Post
<1>8. journal \in Seq(Entry) /\ event \in Events /\ <<"INVOICE", i>> \in References
  BY <1>5, ReferencesDiffer DEF IInv, TypesOK, Events
<1>9. /\ journal' \in Seq(Entry)
      /\ DOMAIN journal \subseteq DOMAIN journal'
      /\ \A e \in DOMAIN journal : journal'[e] = journal[e]
      /\ \A e \in DOMAIN journal' \ DOMAIN journal : journal'[e].reference = <<"INVOICE", i>>
      /\ \A r : r # <<"INVOICE", i>> => EntriesFor(r)' = EntriesFor(r)
      /\ \A r : ReversedEntries(r)' = ReversedEntries(r)
      /\ \/ EntriesFor(<<"INVOICE", i>>)' = EntriesFor(<<"INVOICE", i>>) /\ EntriesFor(<<"INVOICE", i>>) # {}
         \/ /\ ~AlreadyPosted(journal, <<"INVOICE", i>>)
            /\ \E n : /\ EntriesFor(<<"INVOICE", i>>)' = EntriesFor(<<"INVOICE", i>>) \cup {n}
                      /\ journal'[n] = AutoEntry(event, <<"INVOICE", i>>, total)
  <2> DEFINE ref == <<"INVOICE", i>>
  <2>1. journal' = ProcessEvent(journal, event, ref, total) /\ ref \in References
    BY <1>7, <1>8
  <2>2. journal \in Seq(Entry) /\ event \in Events /\ total \in Int
    BY <1>5, <1>8
  <2> HIDE DEF ref
  <2>3. /\ journal' \in Seq(Entry)
        /\ DOMAIN journal \subseteq DOMAIN journal'
        /\ \A e \in DOMAIN journal : journal'[e] = journal[e]
        /\ \A e \in DOMAIN journal' \ DOMAIN journal : journal'[e].reference = ref
        /\ \A r : r # ref => EntriesFor(r)' = EntriesFor(r)
        /\ \A r : ReversedEntries(r)' = ReversedEntries(r)
        /\ \/ EntriesFor(ref)' = EntriesFor(ref) /\ EntriesFor(ref) # {}
           \/ /\ ~AlreadyPosted(journal, ref)
              /\ \E n : /\ EntriesFor(ref)' = EntriesFor(ref) \cup {n}
                        /\ journal'[n] = AutoEntry(event, ref, total)
    BY <2>1, <2>2, ProcessEventEffect
  <2> QED BY <2>3 DEF ref
<1>10. \A r : \A e \in EntriesFor(r) : journal'[e] = journal[e]
  BY <1>9 DEF EntriesFor
<1>11. \A j \in DOMAIN invoices : PostedAt(j)
  BY DEF IInv, PostedInv
<1>12. PostedAt(i)'
  <2>1. CASE EntriesFor(<<"INVOICE", i>>) # {}
    <3>1. AlreadyPosted(journal, <<"INVOICE", i>>)
      BY <1>5, <1>11, <2>1 DEF PostedAt, EntriesFor, AlreadyPosted
    <3>2. EntriesFor(<<"INVOICE", i>>)' = EntriesFor(<<"INVOICE", i>>)
      BY <1>9, <3>1
    <3>3. PostedAt(i) /\ \A e \in EntriesFor(<<"INVOICE", i>>) : journal'[e] = journal[e]
      BY <1>5, <1>10, <1>11
    <3>4. PICK entries : entries = EntriesFor(<<"INVOICE", i>>)
      OBVIOUS
    <3>5. /\ \A e, g \in entries : e = g
          /\ \A e \in entries : /\ journal'[e].status = "POSTED" /\ journal'[e].auto
                                /\ journal'[e].amount = total
          /\ entries # {}
      BY <1>5, <2>1, <3>3, <3>4 DEF PostedAt
    <3>6. EntriesFor(<<"INVOICE", i>>)' = entries
      BY <3>2, <3>4
    <3> QED BY <1>6, <3>5, <3>6 DEF PostedAt
  <2>2. CASE EntriesFor(<<"INVOICE", i>>) = {}
    <3>1. PICK n : /\ EntriesFor(<<"INVOICE", i>>)' = {n}
                   /\ journal'[n] = AutoEntry(event, <<"INVOICE", i>>, total)
      BY <1>9, <2>2
    <3>2. journal'[n].status = "POSTED" /\ journal'[n].auto /\ journal'[n].amount = total
      BY <3>1 DEF AutoEntry
    <3> QED BY <1>6, <3>1, <3>2 DEF PostedAt
  <2> QED BY <2>1, <2>2
<1>13. ASSUME NEW j \in DOMAIN invoices, j # i PROVE PostedAt(j)'
  <2>1. EntriesFor(<<"INVOICE", j>>)' = EntriesFor(<<"INVOICE", j>>)
    BY <1>9, <1>13, ReferencesDiffer
  <2> QED BY <1>6, <1>10, <1>11, <1>13, <2>1 DEF PostedAt
<1>14. PostedInv'
  BY <1>6, <1>12, <1>13 DEF PostedInv
<1>15. ReversalsMatch'
  BY <1>1, <1>9, ReferencesDiffer, ReversalsKept
<1>16. Places'
  <2> SUFFICES ASSUME NEW e \in DOMAIN journal', NEW n \in Nat
               PROVE  /\ journal'[e].reference = <<"INVOICE", n>> => n \in DOMAIN invoices'
                      /\ journal'[e].reference \in {<<"PAYMENT", n>>, <<"PAYMENT_REVERSAL", n>>} =>
                            n \in DOMAIN payments'
    BY DEF Places
  <2>1. CASE e \in DOMAIN journal
    BY <1>1, <1>6, <1>9, <2>1 DEF IInv, Places
  <2>2. CASE e \notin DOMAIN journal
    BY <1>5, <1>6, <1>9, <2>2, ReferencesDiffer
  <2> QED BY <2>1, <2>2
<1>17. JournalOK
  BY <1>9, <1>14, <1>15, <1>16 DEF JournalOK
<1> QED BY <1>1, <1>2, <1>17, StatusWrite DEF InvoiceStatus

-----------------------------------------------------------------------------
(* Calls write: what settles an invoice *)

\* The row of an allocation, the amounts of the invoice, and what is left of the payment.
LEMMA Settled ==
    ASSUME IInv, NEW c \in Clerks, call[c].op \in Settlements, Ends(c),
           history \subseteq history', UNCHANGED <<payments, notes>>,
           allocations' = Append(allocations, NewAllocation(c)),
           NEW i, i = call[c].invoice,
           NEW row \in Invoice, invoices' = [invoices EXCEPT ![i] = row],
           row.total = invoices[i].total, row.type = invoices[i].type,
           row.outstanding <= row.total,
           <<"invoice", i>> \notin history' => row.paid = invoices[i].paid + call[c].amount,
           {<<"invoice", i>>, <<"noteUndone", i>>, <<"writtenOff", i>>} \cap history' = {} =>
              row.outstanding = invoices[i].outstanding - call[c].amount,
           JournalOK
    PROVE  IInv'
<1>1. PICK p : p = call[c].payment
  OBVIOUS
<1>2. PICK amount : amount = call[c].amount
  OBVIOUS
<1>3. OfInvoice(call[c]) /\ call[c] \in Calls
  BY CallKinds DEF IInv, TypesOK, OfInvoice, Settlements
<1>4. /\ i \in DOMAIN invoices /\ i \in Nat /\ p \in Nat /\ amount \in Nat \ {0}
      /\ call[c].op \in {"apply", "allocate"} => p \in DOMAIN payments
      /\ call[c].op = "supplier" => p = 0
  <2>1. Refers(call[c])
    BY DEF IInv, CallOK
  <2>2. call[c].invoice \in Nat \ {0} /\ call[c].payment \in Nat /\ call[c].amount \in Nat
    BY <1>3, CallKinds DEF OfInvoice
  <2> QED BY <1>1, <1>2, <1>3, <2>1, <2>2 DEF Refers
<1>5. PICK new \in Allocation : new = NewAllocation(c)
  BY <1>1, <1>2, <1>4 DEF NewAllocation, Allocation
<1>6. new.invoice = i /\ new.payment = p /\ new.amount = amount /\ new.op = call[c].op
  BY <1>1, <1>2, <1>5 DEF NewAllocation
<1>7. /\ invoices \in Seq(Invoice) /\ payments \in Seq(Payment)
      /\ allocations \in Seq(Allocation) /\ notes \in Seq(InvoiceNote)
      /\ \A a \in DOMAIN allocations : /\ allocations[a].invoice \in DOMAIN invoices
                                       /\ allocations[a].payment \in {0} \cup DOMAIN payments
      /\ \A n \in DOMAIN notes : notes[n].invoice \in DOMAIN invoices
  BY DEF IInv, TypesOK, TypeOK, Paid
<1>8. /\ invoices' \in Seq(Invoice) /\ DOMAIN invoices' = DOMAIN invoices
      /\ invoices'[i] = row
  BY <1>4, <1>7, UpdateInvoice
<1>9. PICK n : n = Len(allocations) + 1
  OBVIOUS
<1>10. /\ allocations' \in Seq(Allocation) /\ DOMAIN allocations' = DOMAIN allocations \cup {n}
       /\ allocations'[n] = new /\ \A a \in DOMAIN allocations : allocations'[a] = allocations[a]
  BY <1>5, <1>7, <1>9
<1>11. TypeOK'
  BY <1>4, <1>6, <1>7, <1>8, <1>10 DEF TypeOK
<1>12. Paid'
  <2>1. p \in {0} \cup DOMAIN payments
    BY <1>4 DEF Settlements
  <2> QED BY <1>6, <1>7, <1>10, <2>1 DEF Paid
<1>13. \A k : /\ PaidTo(k)' = PaidTo(k) + (IF i = k THEN amount ELSE 0)
              /\ Allocated(k)' = Allocated(k) + (IF p = k THEN amount ELSE 0)
              /\ NotedOn(k)' = NotedOn(k)
  <2> TAKE k
  <2>1. NotedOn(k)' = NotedOn(k)
    BY DEF NotedOn
  <2> QED BY <1>5, <1>6, <1>7, <2>1, AllocationsGrow
<1>14. \A k : PaidTo(k) \in Nat /\ Allocated(k) \in Nat /\ NotedOn(k) \in Nat
  BY <1>7, AmountTypes
<1>15. \A k : /\ k # i => PaidTo(k)' = PaidTo(k) /\ NotedOn(k)' = NotedOn(k)
              /\ k # p => Allocated(k)' = Allocated(k)
  BY <1>13, <1>14
<1>16. AddsUpAt(i)'
  <2>1. AddsUpAt(i)
    BY <1>4 DEF IInv, InvoiceAddsUp, AddsUpAt
  <2>2. invoices[i] \in Invoice
    BY <1>4, <1>7
  <2>3. invoices[i].total \in Int /\ invoices[i].paid \in Int /\ invoices[i].outstanding \in Int
    BY <2>2 DEF Invoice
  <2>4. <<"invoice", i>> \notin history' => row.paid = PaidTo(i)'
    BY <1>2, <1>4, <1>13, <1>14, <2>1, <2>3 DEF AddsUpAt
  <2>5. ASSUME {<<"invoice", i>>, <<"noteUndone", i>>, <<"writtenOff", i>>} \cap history' = {}
        PROVE  row.outstanding = row.total - PaidTo(i)' - NotedOn(i)'
    <3>1. invoices[i].outstanding = invoices[i].total - PaidTo(i) - NotedOn(i)
      BY <2>1, <2>5 DEF AddsUpAt
    <3>2. row.outstanding = invoices[i].outstanding - amount
      BY <1>2, <2>5
    <3>3. PICK total, paid, noted : total = invoices[i].total /\ paid = PaidTo(i) /\ noted = NotedOn(i)
      OBVIOUS
    <3>4. total \in Int /\ paid \in Int /\ noted \in Int /\ amount \in Int
      BY <1>4, <1>14, <2>3, <3>3
    <3>5. (total - paid - noted) - amount = total - (paid + amount) - noted
      BY <3>4
    <3>6. PaidTo(i)' = paid + amount /\ NotedOn(i)' = noted
      BY <1>13, <3>3
    <3> QED BY <3>1, <3>2, <3>3, <3>5, <3>6
  <2> QED BY <1>8, <2>4, <2>5 DEF AddsUpAt
<1>17. ToSet(allocations) \subseteq ToSet(allocations') /\ new \in ToSet(allocations')
  BY <1>10 DEF ToSet
<1>18. p \in DOMAIN payments' => WithinAt(p)'
  <2>1. CASE call[c].op = "apply"
    BY <1>6, <1>17, <2>1 DEF WithinAt
  <2>2. CASE call[c].op = "allocate"
    <3>1. <<"payment", p>> \notin history => Allocated(p) + amount <= payments[p].amount
      BY <1>1, <1>2, <2>2 DEF IInv, CallOK, Knows
    <3>2. Allocated(p)' = Allocated(p) + amount
      BY <1>13
    <3> QED BY <3>1, <3>2 DEF WithinAt
  <2>3. CASE call[c].op = "supplier"
    BY <1>4, <1>7, <2>3
  <2> QED BY <2>1, <2>2, <2>3 DEF Settlements
<1>19. AllocatedWithinPayment'
  BY <1>15, <1>17, <1>18, AllocationsKept
<1> QED BY <1>1, <1>3, <1>11, <1>12, <1>15, <1>16, <1>19, InvoiceWrite

\* What the write of a call is about.
LEMMA CallReads ==
    ASSUME IInv, NEW c \in Clerks, OfInvoice(call[c]), NEW i, i = call[c].invoice
    PROVE  /\ i \in DOMAIN invoices /\ i \in Nat /\ invoices \in Seq(Invoice) /\ invoices[i] \in Invoice
           /\ call[c].amount \in Nat
           /\ call[c].op \in Settlements \cup {"note"} => call[c].amount # 0
           /\ call[c].seen \in Invoice
           /\ invoices[i].total \in Nat \ {0} /\ invoices[i].paid \in Nat /\ invoices[i].outstanding \in Int
           /\ call[c].seen.paid \in Nat /\ call[c].seen.outstanding \in Int
           /\ call[c].seen.total = invoices[i].total
           /\ call[c].seen.outstanding <= call[c].seen.total
           /\ <<"invoice", i>> \notin history =>
                 /\ call[c].seen.paid = invoices[i].paid
                 /\ call[c].seen.outstanding = invoices[i].outstanding
<1>1. call[c] \in Calls /\ Refers(call[c]) /\ Knows(call[c])
  BY DEF IInv, TypesOK, CallOK
<1>2. i \in DOMAIN invoices /\ invoices \in Seq(Invoice)
  BY <1>1 DEF Refers, IInv, TypesOK, TypeOK
<1>3. invoices[i] \in Invoice /\ i \in Nat
  BY <1>2
<1>4. call[c].amount \in Nat /\ call[c].seen \in Invoice
  BY <1>1, CallKinds DEF OfInvoice
<1>5. /\ invoices[i].total \in Nat \ {0} /\ invoices[i].paid \in Nat /\ invoices[i].outstanding \in Int
      /\ call[c].seen.paid \in Nat /\ call[c].seen.outstanding \in Int
  BY <1>3, <1>4 DEF Invoice
<1> QED BY <1>1, <1>2, <1>3, <1>4, <1>5 DEF Refers, Knows

\* A row that is neither OPEN nor DRAFT again.
LEMMA NotReopened ==
    ASSUME invoices \in Seq(Invoice), NEW i \in DOMAIN invoices, NEW row \in Invoice,
           invoices' = [invoices EXCEPT ![i] = row], row.total = invoices[i].total,
           row.status \in {"PAID", "PARTIAL"}
    PROVE  /\ DOMAIN invoices' = DOMAIN invoices
           /\ \A j \in DOMAIN invoices :
                 /\ invoices'[j].total = invoices[j].total
                 /\ invoices'[j].status \in {"OPEN", "DRAFT"} => invoices'[j].status = invoices[j].status
<1>1. DOMAIN invoices' = DOMAIN invoices /\ invoices'[i] = row
      /\ \A j \in DOMAIN invoices : j # i => invoices'[j] = invoices[j]
  BY UpdateInvoice
<1> QED BY <1>1

\* applyPayment: without a note given before, what was outstanding is what was not paid.
LEMMA ApplyStep ==
    ASSUME IInv, NEW c \in Clerks, Apply(c)
    PROVE  IInv'
<1> DEFINE i == call[c].invoice
           paid == call[c].seen.paid + call[c].amount
           rest == call[c].seen.total - paid
           status == IF rest <= Cent THEN "PAID" ELSE "PARTIAL"
           row == [invoices[i] EXCEPT !.paid = paid, !.outstanding = rest, !.status = status]
<1>1. i = call[c].invoice
  OBVIOUS
<1>2. paid = call[c].seen.paid + call[c].amount /\ rest = call[c].seen.total - paid
  OBVIOUS
<1>3. status = IF rest <= Cent THEN "PAID" ELSE "PARTIAL"
  OBVIOUS
<1>4. row = [invoices[i] EXCEPT !.paid = paid, !.outstanding = rest, !.status = status]
  OBVIOUS
<1>5. /\ call[c].op = "apply" /\ Ends(c) /\ UNCHANGED <<payments, notes, journal>>
      /\ allocations' = Append(allocations, NewAllocation(c))
      /\ invoices' = [invoices EXCEPT ![i] = row]
      /\ history' = history \cup (IF \E n \in ToSet(notes) : n.invoice = i
                                  THEN {<<"noteUndone", i>>} ELSE {})
  BY DEF Apply, Serves
<1> HIDE DEF i, paid, rest, status, row
<1>6. OfInvoice(call[c]) /\ call[c].op \in Settlements
  BY <1>5, CallKinds DEF IInv, TypesOK, OfInvoice, Settlements
<1>7. /\ i \in DOMAIN invoices /\ invoices \in Seq(Invoice) /\ invoices[i] \in Invoice
      /\ call[c].amount \in Nat /\ call[c].amount # 0 /\ call[c].seen.paid \in Nat
      /\ invoices[i].total \in Nat /\ invoices[i].paid \in Nat /\ invoices[i].outstanding \in Int
      /\ call[c].seen.total = invoices[i].total
      /\ <<"invoice", i>> \notin history => call[c].seen.paid = invoices[i].paid
  BY <1>1, <1>6, CallReads
<1>8. paid \in Nat /\ rest \in Int /\ rest <= invoices[i].total /\ status \in {"PAID", "PARTIAL"}
  <2>1. PICK total, before, amount :
           total = invoices[i].total /\ before = call[c].seen.paid /\ amount = call[c].amount
    OBVIOUS
  <2>2. total \in Nat /\ before \in Nat /\ amount \in Nat
    BY <1>7, <2>1
  <2>3. paid = before + amount /\ rest = total - (before + amount)
    BY <1>2, <1>7, <2>1
  <2>4. before + amount \in Nat /\ total - (before + amount) \in Int /\ total - (before + amount) <= total
    BY <2>2
  <2>5. status \in {"PAID", "PARTIAL"}
    BY <1>3
  <2> QED BY <2>1, <2>3, <2>4, <2>5
<1>9. /\ row \in Invoice /\ row.total = invoices[i].total /\ row.type = invoices[i].type
      /\ row.paid = paid /\ row.outstanding = rest /\ row.status = status
  <2>1. status \in InvoiceStatus
    BY <1>8 DEF InvoiceStatus
  <2> QED BY <1>4, <1>7, <1>8, <2>1 DEF Invoice
<1>10. history \subseteq history'
  BY <1>5
<1>11. <<"invoice", i>> \notin history' => row.paid = invoices[i].paid + call[c].amount
  BY <1>2, <1>7, <1>9, <1>10
<1>12. ASSUME {<<"invoice", i>>, <<"noteUndone", i>>, <<"writtenOff", i>>} \cap history' = {}
       PROVE  row.outstanding = invoices[i].outstanding - call[c].amount
  <2>1. \A n \in ToSet(notes) : n.invoice # i
    BY <1>5, <1>12
  <2>2. \A n \in DOMAIN notes : notes[n].invoice # i
    BY <2>1 DEF ToSet
  <2>3. PaidTo(i) \in Nat /\ NotedOn(i) = 0
    BY <2>2, AmountTypes DEF IInv, TypesOK, TypeOK
  <2>4. AddsUpAt(i)
    BY <1>7 DEF IInv, InvoiceAddsUp, AddsUpAt
  <2>5. /\ invoices[i].paid = PaidTo(i)
        /\ invoices[i].outstanding = invoices[i].total - PaidTo(i) - NotedOn(i)
    BY <1>10, <1>12, <2>4 DEF AddsUpAt
  <2>6. call[c].seen.paid = invoices[i].paid
    BY <1>7, <1>10, <1>12
  <2>7. PICK total, before, amount :
           total = invoices[i].total /\ before = invoices[i].paid /\ amount = call[c].amount
    OBVIOUS
  <2>8. total \in Int /\ before \in Int /\ amount \in Int
    BY <1>7, <2>7
  <2>9. invoices[i].outstanding = total - before - 0
    BY <2>3, <2>5, <2>7
  <2>10. row.outstanding = total - (before + amount)
    BY <1>2, <1>7, <1>9, <2>6, <2>7
  <2>11. total - (before + amount) = (total - before - 0) - amount
    BY <2>8
  <2> QED BY <2>7, <2>9, <2>10, <2>11
<1>13. JournalOK
  <2>1. /\ DOMAIN invoices' = DOMAIN invoices
        /\ \A j \in DOMAIN invoices :
              /\ invoices'[j].total = invoices[j].total
              /\ invoices'[j].status \in {"OPEN", "DRAFT"} => invoices'[j].status = invoices[j].status
    BY <1>5, <1>7, <1>8, <1>9, NotReopened
  <2> QED BY <1>5, <1>10, <2>1, JournalKept
<1>14. row.outstanding <= row.total
  BY <1>8, <1>9
<1> QED BY <1>1, <1>5, <1>6, <1>9, <1>10, <1>11, <1>12, <1>13, <1>14, Settled

\* allocateToInvoices: less is outstanding than was, so the invoice is no draft after it.
LEMMA AllocateStep ==
    ASSUME IInv, NEW c \in Clerks, Allocate(c)
    PROVE  IInv'
<1> DEFINE i == call[c].invoice
           paid == invoices[i].paid + call[c].amount
           rest == call[c].seen.outstanding - call[c].amount
           status == Settle(call[c].seen.status, rest, call[c].seen.total)
           row == [invoices[i] EXCEPT !.paid = paid, !.outstanding = rest, !.status = status]
<1>1. i = call[c].invoice
  OBVIOUS
<1>2. paid = invoices[i].paid + call[c].amount /\ rest = call[c].seen.outstanding - call[c].amount
  OBVIOUS
<1>3. status = Settle(call[c].seen.status, rest, call[c].seen.total)
  OBVIOUS
<1>4. row = [invoices[i] EXCEPT !.paid = paid, !.outstanding = rest, !.status = status]
  OBVIOUS
<1>5. /\ call[c].op = "allocate" /\ Ends(c) /\ UNCHANGED <<payments, notes, journal, history>>
      /\ allocations' = Append(allocations, NewAllocation(c))
      /\ invoices' = [invoices EXCEPT ![i] = row]
  BY DEF Allocate, Serves
<1> HIDE DEF i, paid, rest, status, row
<1>6. OfInvoice(call[c]) /\ call[c].op \in Settlements
  BY <1>5, CallKinds DEF IInv, TypesOK, OfInvoice, Settlements
<1>7. /\ i \in DOMAIN invoices /\ invoices \in Seq(Invoice) /\ invoices[i] \in Invoice
      /\ call[c].amount \in Nat /\ call[c].amount # 0 /\ call[c].seen.outstanding \in Int
      /\ invoices[i].total \in Nat /\ invoices[i].paid \in Nat /\ invoices[i].outstanding \in Int
      /\ call[c].seen.total = invoices[i].total
      /\ call[c].seen.outstanding <= call[c].seen.total
      /\ <<"invoice", i>> \notin history => call[c].seen.outstanding = invoices[i].outstanding
  BY <1>1, <1>6, CallReads
<1>8. paid \in Nat /\ rest \in Int /\ rest < invoices[i].total
  <2>1. PICK total, before, left, amount :
           /\ total = invoices[i].total /\ before = invoices[i].paid
           /\ left = call[c].seen.outstanding /\ amount = call[c].amount
    OBVIOUS
  <2>2. total \in Int /\ before \in Nat /\ left \in Int /\ amount \in Nat /\ amount # 0 /\ left <= total
    BY <1>7, <2>1
  <2>3. before + amount \in Nat /\ left - amount \in Int /\ left - amount < total
    BY <2>2
  <2> QED BY <1>2, <2>1, <2>3
<1>9. status \in {"PAID", "PARTIAL"}
  BY <1>3, <1>7, <1>8 DEF Settle
<1>10. /\ row \in Invoice /\ row.total = invoices[i].total /\ row.type = invoices[i].type
       /\ row.paid = paid /\ row.outstanding = rest /\ row.status = status
  <2>1. status \in InvoiceStatus
    BY <1>9 DEF InvoiceStatus
  <2> QED BY <1>4, <1>7, <1>8, <2>1 DEF Invoice
<1>11. JournalOK
  <2>1. /\ DOMAIN invoices' = DOMAIN invoices
        /\ \A j \in DOMAIN invoices :
              /\ invoices'[j].total = invoices[j].total
              /\ invoices'[j].status \in {"OPEN", "DRAFT"} => invoices'[j].status = invoices[j].status
    BY <1>5, <1>7, <1>9, <1>10, NotReopened
  <2> QED BY <1>5, <2>1, JournalKept
<1>12. /\ row.outstanding <= row.total
       /\ row.paid = invoices[i].paid + call[c].amount
       /\ <<"invoice", i>> \notin history' => row.outstanding = invoices[i].outstanding - call[c].amount
  BY <1>2, <1>5, <1>7, <1>8, <1>10
<1> QED BY <1>1, <1>5, <1>6, <1>10, <1>11, <1>12, Settled

\* recordSupplierPayment: the same, with an event of its own reference.
LEMMA SupplierPaymentStep ==
    ASSUME IInv, NEW c \in Clerks, SupplierPayment(c)
    PROVE  IInv'
<1> DEFINE i == call[c].invoice
           paid == call[c].seen.paid + call[c].amount
           rest == call[c].seen.outstanding - call[c].amount
           status == IF rest = 0 THEN "PAID" ELSE "PARTIAL"
           row == [invoices[i] EXCEPT !.paid = paid, !.outstanding = rest, !.status = status]
<1>1. i = call[c].invoice
  OBVIOUS
<1>2. paid = call[c].seen.paid + call[c].amount /\ rest = call[c].seen.outstanding - call[c].amount
  OBVIOUS
<1>3. status = IF rest = 0 THEN "PAID" ELSE "PARTIAL"
  OBVIOUS
<1>4. row = [invoices[i] EXCEPT !.paid = paid, !.outstanding = rest, !.status = status]
  OBVIOUS
<1>5. /\ call[c].op = "supplier" /\ Ends(c) /\ UNCHANGED <<payments, notes, history>>
      /\ allocations' = Append(allocations, NewAllocation(c))
      /\ invoices' = [invoices EXCEPT ![i] = row]
      /\ journal' = ProcessEvent(journal, "PURCHASE_PAYMENT", <<"PURCHASE_INVOICE", i>>, call[c].amount)
  BY DEF SupplierPayment, Serves
<1> HIDE DEF i, paid, rest, status, row
<1>6. OfInvoice(call[c]) /\ call[c].op \in Settlements
  BY <1>5, CallKinds DEF IInv, TypesOK, OfInvoice, Settlements
<1>7. /\ i \in DOMAIN invoices /\ i \in Nat /\ invoices \in Seq(Invoice) /\ invoices[i] \in Invoice
      /\ call[c].amount \in Nat /\ call[c].seen.outstanding \in Int /\ call[c].seen.paid \in Nat
      /\ invoices[i].total \in Nat /\ invoices[i].paid \in Nat /\ invoices[i].outstanding \in Int
      /\ call[c].seen.total = invoices[i].total
      /\ call[c].seen.outstanding <= call[c].seen.total
      /\ <<"invoice", i>> \notin history =>
            /\ call[c].seen.outstanding = invoices[i].outstanding
            /\ call[c].seen.paid = invoices[i].paid
  BY <1>1, <1>6, CallReads
<1>8. paid \in Nat /\ rest \in Int /\ rest <= invoices[i].total /\ status \in {"PAID", "PARTIAL"}
  <2>1. PICK total, before, left, amount :
           /\ total = invoices[i].total /\ before = call[c].seen.paid
           /\ left = call[c].seen.outstanding /\ amount = call[c].amount
    OBVIOUS
  <2>2. total \in Nat /\ before \in Nat /\ left \in Int /\ amount \in Nat /\ left <= total
    BY <1>7, <2>1
  <2>3. paid = before + amount /\ rest = left - amount
    BY <1>2, <2>1
  <2>4. before + amount \in Nat /\ left - amount \in Int /\ left - amount <= total
    BY <2>2
  <2>5. status \in {"PAID", "PARTIAL"}
    BY <1>3
  <2> QED BY <2>1, <2>3, <2>4, <2>5
<1>9. /\ row \in Invoice /\ row.total = invoices[i].total /\ row.type = invoices[i].type
      /\ row.paid = paid /\ row.outstanding = rest /\ row.status = status
  <2>1. status \in InvoiceStatus
    BY <1>8 DEF InvoiceStatus
  <2> QED BY <1>4, <1>7, <1>8, <2>1 DEF Invoice
<1>10. JournalOK
  <2>1. /\ DOMAIN invoices' = DOMAIN invoices
        /\ \A j \in DOMAIN invoices :
              /\ invoices'[j].total = invoices[j].total
              /\ invoices'[j].status \in {"OPEN", "DRAFT"} => invoices'[j].status = invoices[j].status
    BY <1>5, <1>7, <1>8, <1>9, NotReopened
  <2>2. <<"PURCHASE_INVOICE", i>> \in References
    BY <1>7, ReferencesDiffer
  <2>4. "PURCHASE_PAYMENT" \in Events /\ call[c].amount \in Int
    BY <1>7 DEF Events
  <2>3. \A n : <<"PURCHASE_INVOICE", i>> \notin
           {<<"INVOICE", n>>, <<"PAYMENT", n>>, <<"PAYMENT_REVERSAL", n>>}
    BY ReferencesDiffer
  <2> QED BY <1>5, <2>1, <2>2, <2>3, <2>4, OtherEvent
<1>11. /\ row.outstanding <= row.total
       /\ <<"invoice", i>> \notin history' =>
             /\ row.paid = invoices[i].paid + call[c].amount
             /\ row.outstanding = invoices[i].outstanding - call[c].amount
  BY <1>2, <1>5, <1>7, <1>8, <1>9
<1> QED BY <1>1, <1>5, <1>6, <1>9, <1>10, <1>11, Settled

\* writeOffAR: nothing is left of the invoice, which history remembers.
LEMMA WriteOffARStep ==
    ASSUME IInv, NEW c \in Clerks, WriteOffAR(c)
    PROVE  IInv'
<1> DEFINE about == call[c].invoice
           row == [invoices[about] EXCEPT !.outstanding = 0, !.status = "PAID"]
<1>1. PICK i : i = about /\ i = call[c].invoice
  OBVIOUS
<1>2. /\ call[c].op = "writeOff" /\ Ends(c) /\ UNCHANGED <<payments, allocations, notes>>
      /\ invoices' = [invoices EXCEPT ![i] = row]
      /\ history' = history \cup {<<"writtenOff", i>>}
      /\ journal' = ProcessEvent(journal, "WRITE_OFF_AR", <<"SALES_INVOICE", i>>, call[c].seen.outstanding)
  <2>1. /\ call[c].op = "writeOff" /\ Ends(c) /\ UNCHANGED <<payments, allocations, notes>>
        /\ invoices' = [invoices EXCEPT ![about] = row]
        /\ history' = history \cup {<<"writtenOff", about>>}
        /\ journal' = ProcessEvent(journal, "WRITE_OFF_AR", <<"SALES_INVOICE", about>>,
                                   call[c].seen.outstanding)
    BY DEF WriteOffAR, Serves
  <2> HIDE DEF about, row
  <2> QED BY <1>1, <2>1, Zenon
<1>1a. row = [invoices[i] EXCEPT !.outstanding = 0, !.status = "PAID"]
  BY <1>1
<1> HIDE DEF about, row
<1>3. OfInvoice(call[c])
  BY <1>2, CallKinds DEF IInv, TypesOK, OfInvoice
<1>4. /\ i \in DOMAIN invoices /\ i \in Nat /\ invoices \in Seq(Invoice) /\ invoices[i] \in Invoice
      /\ invoices[i].total \in Nat /\ call[c].seen.outstanding \in Int
  BY <1>1, <1>3, CallReads
<1>5. /\ row \in Invoice /\ row.total = invoices[i].total /\ row.type = invoices[i].type
      /\ row.paid = invoices[i].paid /\ row.outstanding = 0 /\ row.status = "PAID"
  <2>1. "PAID" \in InvoiceStatus /\ 0 \in Int
    BY DEF InvoiceStatus
  <2> QED BY <1>1a, <1>4, <2>1 DEF Invoice
<1>6. /\ invoices' \in Seq(Invoice) /\ DOMAIN invoices' = DOMAIN invoices /\ invoices'[i] = row
  BY <1>2, <1>4, <1>5, UpdateInvoice
<1>7. TypeOK' /\ Paid'
  BY <1>2, <1>6 DEF IInv, TypesOK, TypeOK, Paid
<1>8. \A k : PaidTo(k)' = PaidTo(k) /\ NotedOn(k)' = NotedOn(k) /\ Allocated(k)' = Allocated(k)
  BY <1>2 DEF PaidTo, NotedOn, Allocated
<1>9. history \subseteq history' /\ <<"writtenOff", i>> \in history'
  BY <1>2
<1>10. AddsUpAt(i)'
  <2>1. <<"invoice", i>> \notin history => invoices[i].paid = PaidTo(i)
    BY <1>4 DEF IInv, InvoiceAddsUp
  <2>2. <<"invoice", i>> \notin history' => invoices'[i].paid = PaidTo(i)'
    BY <1>5, <1>6, <1>8, <1>9, <2>1
  <2>3. {<<"invoice", i>>, <<"noteUndone", i>>, <<"writtenOff", i>>} \cap history' # {}
    BY <1>9
  <2> QED BY <2>2, <2>3 DEF AddsUpAt
<1>11. AllocatedWithinPayment'
  BY <1>2, <1>9, AllocationsStay
<1>12. JournalOK
  <2>1. /\ DOMAIN invoices' = DOMAIN invoices
        /\ \A j \in DOMAIN invoices :
              /\ invoices'[j].total = invoices[j].total
              /\ invoices'[j].status \in {"OPEN", "DRAFT"} => invoices'[j].status = invoices[j].status
    BY <1>2, <1>4, <1>5, NotReopened
  <2>2. <<"SALES_INVOICE", i>> \in References
    BY <1>4, ReferencesDiffer
  <2>3. "WRITE_OFF_AR" \in Events
    BY DEF Events
  <2>4. \A n : <<"SALES_INVOICE", i>> \notin
           {<<"INVOICE", n>>, <<"PAYMENT", n>>, <<"PAYMENT_REVERSAL", n>>}
    BY ReferencesDiffer
  <2> QED BY <1>2, <1>4, <1>9, <2>1, <2>2, <2>3, <2>4, OtherEvent
<1>13. row.outstanding <= row.total
  BY <1>4, <1>5
<1> QED BY <1>1, <1>2, <1>3, <1>5, <1>7, <1>8, <1>9, <1>10, <1>11, <1>12, <1>13, InvoiceWrite

\* A note credits the invoice, and posts an event of its own.
LEMMA NoteStep ==
    ASSUME IInv, NEW c \in Clerks, Note(c)
    PROVE  IInv'
<1> DEFINE about == call[c].invoice
           amount == call[c].amount
           rest == call[c].seen.outstanding - amount
           status == IF rest <= 0 THEN "PAID"
                     ELSE IF rest < call[c].seen.total THEN "PARTIAL" ELSE call[c].seen.status
           row == [invoices[about] EXCEPT !.outstanding = rest, !.status = status]
           new == [invoice |-> about, amount |-> amount]
           event == IF call[c].seen.type = "SALES" THEN "SALES_RETURN" ELSE "GOODS_RECEIPT"
<1>1. PICK i : i = about /\ i = call[c].invoice
  OBVIOUS
<1>1a. /\ amount = call[c].amount /\ rest = call[c].seen.outstanding - amount
       /\ status = IF rest <= 0 THEN "PAID"
                   ELSE IF rest < call[c].seen.total THEN "PARTIAL" ELSE call[c].seen.status
       /\ row = [invoices[i] EXCEPT !.outstanding = rest, !.status = status]
       /\ new = [invoice |-> i, amount |-> amount]
       /\ event \in {"SALES_RETURN", "GOODS_RECEIPT"}
  BY <1>1
<1>2. /\ call[c].op = "note" /\ Ends(c) /\ UNCHANGED <<payments, allocations, history>>
      /\ invoices' = [invoices EXCEPT ![i] = row]
      /\ notes' = Append(notes, new)
      /\ journal' = ProcessEvent(journal, event, <<"NOTE", Len(notes) + 1>>, amount)
  <2>1. /\ call[c].op = "note" /\ Ends(c) /\ UNCHANGED <<payments, allocations, history>>
        /\ invoices' = [invoices EXCEPT ![about] = row]
        /\ notes' = Append(notes, new)
        /\ journal' = ProcessEvent(journal, event, <<"NOTE", Len(notes) + 1>>, amount)
    BY DEF Note, Serves
  <2> HIDE DEF about, row, new, event, amount
  <2> QED BY <1>1, <2>1, Zenon
<1> HIDE DEF about, amount, rest, status, row, new, event
<1>3. OfInvoice(call[c])
  BY <1>2, CallKinds DEF IInv, TypesOK, OfInvoice
<1>4. PICK total, left, seen : /\ total = invoices[i].total /\ left = invoices[i].outstanding
                               /\ seen = call[c].seen.outstanding
  OBVIOUS
<1>5. /\ i \in DOMAIN invoices /\ i \in Nat /\ invoices \in Seq(Invoice) /\ invoices[i] \in Invoice
      /\ amount \in Nat /\ amount # 0 /\ total \in Nat /\ left \in Int /\ seen \in Int
      /\ call[c].seen.total = total /\ seen <= total
      /\ <<"invoice", i>> \notin history => seen = left
  BY <1>1a, <1>1, <1>2, <1>3, <1>4, CallReads
<1>6. rest = seen - amount
  BY <1>1a, <1>1, <1>4
<1>7. rest \in Int /\ rest < total
  BY <1>5, <1>6
<1>8. status \in {"PAID", "PARTIAL"}
  BY <1>1a, <1>1, <1>5, <1>7
<1>9. /\ row \in Invoice /\ row.total = total /\ row.type = invoices[i].type
      /\ row.paid = invoices[i].paid /\ row.outstanding = rest /\ row.status = status
  BY <1>1a, <1>1, <1>4, <1>5, <1>7, <1>8 DEF Invoice, InvoiceStatus
<1>10. /\ invoices' \in Seq(Invoice) /\ DOMAIN invoices' = DOMAIN invoices /\ invoices'[i] = row
  BY <1>2, <1>5, <1>9, UpdateInvoice
<1>11. new \in InvoiceNote /\ new.invoice = i /\ new.amount = amount
  BY <1>1a, <1>1, <1>5 DEF InvoiceNote
<1>12. /\ notes \in Seq(InvoiceNote) /\ allocations \in Seq(Allocation)
       /\ \A n \in DOMAIN notes : notes[n].invoice \in DOMAIN invoices
  BY DEF IInv, TypesOK, TypeOK
<1>13. PICK m : m = Len(notes) + 1
  OBVIOUS
<1>14. /\ notes' \in Seq(InvoiceNote) /\ DOMAIN notes' = DOMAIN notes \cup {m} /\ notes'[m] = new
       /\ \A n \in DOMAIN notes : notes'[n] = notes[n]
       /\ m \in Nat
  BY <1>2, <1>11, <1>12, <1>13
<1>15. TypeOK' /\ Paid'
  BY <1>2, <1>5, <1>10, <1>11, <1>12, <1>14 DEF IInv, TypesOK, TypeOK, Paid
<1>16. \A k : PaidTo(k)' = PaidTo(k) /\ Allocated(k)' = Allocated(k)
  BY <1>2 DEF PaidTo, Allocated
<1>17. \A k : NotedOn(k)' = NotedOn(k) + (IF i = k THEN amount ELSE 0)
  BY <1>2, <1>11, <1>12, NotesGrow
<1>18. \A k : NotedOn(k) \in Nat /\ PaidTo(k) \in Nat
  BY <1>12, AmountTypes
<1>19. \A k : k # i => NotedOn(k)' = NotedOn(k)
  BY <1>17, <1>18
<1>20. AddsUpAt(i)'
  <2>1. AddsUpAt(i)
    BY <1>5 DEF IInv, InvoiceAddsUp, AddsUpAt
  <2>2. <<"invoice", i>> \notin history' => invoices'[i].paid = PaidTo(i)'
    BY <1>2, <1>9, <1>10, <1>16, <2>1 DEF AddsUpAt
  <2>3. ASSUME {<<"invoice", i>>, <<"noteUndone", i>>, <<"writtenOff", i>>} \cap history' = {}
        PROVE  invoices'[i].outstanding = invoices'[i].total - PaidTo(i)' - NotedOn(i)'
    <3>1. PICK paid, noted : paid = PaidTo(i) /\ noted = NotedOn(i)
      OBVIOUS
    <3>2. paid \in Nat /\ noted \in Nat
      BY <1>18, <3>1
    <3>3. left = total - paid - noted
      BY <1>2, <1>4, <2>1, <2>3, <3>1 DEF AddsUpAt
    <3>4. rest = left - amount
      BY <1>2, <1>5, <1>6, <2>3
    <3>5. rest = total - paid - (noted + amount)
      BY <1>5, <3>2, <3>3, <3>4
    <3>6. PaidTo(i)' = paid /\ NotedOn(i)' = noted + amount
      BY <1>16, <1>17, <3>1
    <3> QED BY <1>9, <1>10, <3>5, <3>6
  <2> QED BY <2>2, <2>3 DEF AddsUpAt
<1>21. AllocatedWithinPayment'
  BY <1>2, AllocationsStay
<1>22. JournalOK
  <2>1. /\ DOMAIN invoices' = DOMAIN invoices
        /\ \A j \in DOMAIN invoices :
              /\ invoices'[j].total = invoices[j].total
              /\ invoices'[j].status \in {"OPEN", "DRAFT"} => invoices'[j].status = invoices[j].status
    BY <1>2, <1>4, <1>5, <1>8, <1>9, NotReopened
  <2>2. <<"NOTE", m>> \in References
    BY <1>14, ReferencesDiffer
  <2>3. event \in Events /\ amount \in Int
    BY <1>1a, <1>1, <1>5 DEF Events
  <2>4. \A n : <<"NOTE", m>> \notin {<<"INVOICE", n>>, <<"PAYMENT", n>>, <<"PAYMENT_REVERSAL", n>>}
    BY ReferencesDiffer
  <2>5. journal' = ProcessEvent(journal, event, <<"NOTE", m>>, amount)
    BY <1>2, <1>13
  <2> QED BY <1>2, <2>1, <2>2, <2>3, <2>4, <2>5, OtherEvent
<1>23. row.outstanding <= row.total
  BY <1>5, <1>7, <1>9
<1> QED BY <1>1, <1>2, <1>3, <1>4, <1>9, <1>15, <1>16, <1>19, <1>20, <1>21, <1>22, <1>23, InvoiceWrite

-----------------------------------------------------------------------------
(* Calls write: payments *)

LEMMA UpdatePayment ==
    ASSUME payments \in Seq(Payment), NEW p \in DOMAIN payments, NEW status \in PaymentStatus,
           payments' = [payments EXCEPT ![p].status = status]
    PROVE  /\ payments' \in Seq(Payment) /\ DOMAIN payments' = DOMAIN payments
           /\ \A q \in DOMAIN payments : payments'[q].amount = payments[q].amount
<1>1. \A q \in DOMAIN payments : payments[q] \in Payment
  OBVIOUS
<1>2. PICK row : row = [payments[p] EXCEPT !.status = status]
  OBVIOUS
<1>3. row \in Payment /\ row.amount = payments[p].amount
  BY <1>1, <1>2 DEF Payment
<1>4. payments' = [payments EXCEPT ![p] = row]
  BY <1>2
<1> QED BY <1>3, <1>4

\* The status of a payment is all that changes of the documents.
LEMMA PaymentWrite ==
    ASSUME IInv, NEW c \in Clerks, OfPayment(call[c]), Ends(c), NEW p, p = call[c].payment,
           UNCHANGED <<invoices, allocations, notes, history>>, NEW status \in PaymentStatus,
           payments' = [payments EXCEPT ![p].status = status],
           journal' \in Seq(Entry),
           \A e \in DOMAIN journal :
              /\ e \in DOMAIN journal' /\ journal'[e].reference = journal[e].reference
              /\ journal'[e] = journal[e] \/ journal[e].reference = <<"PAYMENT", p>>,
           Places', PostedInv', ReversalsMatch'
    PROVE  IInv'
<1>1. p \in DOMAIN payments /\ payments \in Seq(Payment)
  BY DEF IInv, TypesOK, TypeOK, CallOK, Refers
<1>2. /\ payments' \in Seq(Payment) /\ DOMAIN payments' = DOMAIN payments
      /\ \A q \in DOMAIN payments : payments'[q].amount = payments[q].amount
  BY <1>1, UpdatePayment
<1>3. \A k : PaidTo(k)' = PaidTo(k) /\ NotedOn(k)' = NotedOn(k) /\ Allocated(k)' = Allocated(k)
  BY DEF PaidTo, NotedOn, Allocated
<1>4. Keeps(call[c].invoice, p)
  BY <1>2, <1>3 DEF Keeps
<1>5. Busy(c)
  BY CallKinds DEF IInv, TypesOK, OfPayment, Busy
<1>6. call' \in [Clerks -> Calls] /\ (\A d \in Clerks : CallOK(d)') /\ OneCall'
  BY <1>4, <1>5, EndStep
<1>7. InvoiceAddsUp' /\ Owed'
  BY <1>3 DEF IInv, InvoiceAddsUp, Owed
<1>8. AllocatedWithinPayment'
  BY <1>2, AllocationsStay
<1>9. TypeOK' /\ Paid'
  BY <1>2 DEF IInv, TypesOK, TypeOK, Paid
<1> QED BY <1>6, <1>7, <1>8, <1>9 DEF IInv, TypesOK

LEMMA ApprovePaymentStep ==
    ASSUME IInv, NEW c \in Clerks, ApprovePayment(c)
    PROVE  IInv'
<1>1. PICK p : p = call[c].payment
  OBVIOUS
<1>2. /\ call[c].op = "approve" /\ Ends(c)
      /\ UNCHANGED <<invoices, allocations, notes, journal, history>>
      /\ payments' = [payments EXCEPT ![p].status = "APPROVED"]
  BY <1>1 DEF ApprovePayment, Serves
<1>3. OfPayment(call[c])
  BY <1>2, CallKinds DEF IInv, TypesOK, OfPayment
<1>4. DOMAIN payments' = DOMAIN payments
  BY <1>2
<1>5. JournalOK
  BY <1>2, <1>4, JournalKept
<1> QED BY <1>1, <1>2, <1>3, <1>5, PaymentWrite DEF JournalOK, PaymentStatus

LEMMA PostPaymentStep ==
    ASSUME IInv, NEW c \in Clerks, PostPayment(c)
    PROVE  IInv'
<1>1. PICK p : p = call[c].payment
  OBVIOUS
<1>2. /\ call[c].op = "postPayment" /\ Ends(c)
      /\ UNCHANGED <<invoices, allocations, notes, history>>
      /\ payments' = [payments EXCEPT ![p].status = "POSTED"]
      /\ journal' = ProcessEvent(journal, "PAYMENT", <<"PAYMENT", p>>, call[c].seen.amount)
  BY <1>1 DEF PostPayment, Serves
<1>3. OfPayment(call[c]) /\ call[c] \in Calls
  BY <1>2, CallKinds DEF IInv, TypesOK, OfPayment
<1>4. p \in DOMAIN payments /\ p \in Nat /\ call[c].seen \in Payment
  <2>1. p \in DOMAIN payments
    BY <1>1, <1>3 DEF IInv, CallOK, Refers
  <2>2. p \in Nat /\ call[c].seen \in Payment
    BY <1>1, <1>3, CallKinds DEF OfPayment
  <2> QED BY <2>1, <2>2
<1>5. call[c].seen.amount \in Int
  BY <1>4 DEF Payment
<1>6. DOMAIN payments' = DOMAIN payments
  BY <1>2
<1>7. JournalOK
  <2>1. <<"PAYMENT", p>> \in References
    BY <1>4, ReferencesDiffer
  <2>2. "PAYMENT" \in Events
    BY DEF Events
  <2>3. \A n : <<"PAYMENT", p>> \notin {<<"INVOICE", n>>, <<"PAYMENT_REVERSAL", n>>}
    BY ReferencesDiffer
  <2>4. \A n : <<"PAYMENT", p>> = <<"PAYMENT", n>> => n \in DOMAIN payments
    BY <1>4, ReferencesDiffer
  <2> QED BY <1>2, <1>5, <1>6, <2>1, <2>2, <2>3, <2>4, OtherEvent
<1> QED BY <1>1, <1>2, <1>3, <1>7, PaymentWrite DEF JournalOK, PaymentStatus

\* reverse: one entry more is REVERSED, and one more reverses; another reversal that has
\* read the same entry would reverse it again, which history remembers.
LEMMA ReversePaymentStep ==
    ASSUME IInv, NEW c \in Clerks, ReversePayment(c)
    PROVE  IInv'
<1>1. PICK p, e : p = call[c].payment /\ e = call[c].entry
  OBVIOUS
<1>2. /\ call[c].op = "reverse" /\ Ends(c)
      /\ UNCHANGED <<invoices, allocations, notes, history>>
      /\ payments' = [payments EXCEPT ![p].status = "REVERSED"]
      /\ journal' = IF e = 0 THEN journal
                    ELSE Append([journal EXCEPT ![e].status = "REVERSED"],
                                ManualEntry("PAYMENT_REVERSAL", <<"PAYMENT_REVERSAL", p>>,
                                            journal[e].amount))
  BY <1>1 DEF ReversePayment, Serves
<1>3. OfPayment(call[c]) /\ call[c] \in Calls
  BY <1>2, CallKinds DEF IInv, TypesOK, OfPayment
<1>4. DOMAIN payments' = DOMAIN payments
  BY <1>2
<1>5. CASE e = 0
  <2>1. /\ journal' = journal /\ Ends(c) /\ UNCHANGED <<invoices, allocations, notes, history>>
        /\ payments' = [payments EXCEPT ![p].status = "REVERSED"]
    BY <1>2, <1>5
  <2>2. JournalOK
    BY <1>4, <2>1, JournalKept
  <2>3. "REVERSED" \in PaymentStatus
    BY DEF PaymentStatus
  <2> QED BY <1>1, <1>3, <2>1, <2>2, <2>3, PaymentWrite DEF JournalOK
<1>6. CASE e # 0
  <2>1. /\ e \in DOMAIN journal /\ journal[e].reference = <<"PAYMENT", p>>
        /\ <<"payment", p>> \notin history => journal[e].status = "POSTED"
        /\ p \in DOMAIN payments
    BY <1>1, <1>2, <1>3, <1>6 DEF IInv, CallOK, Refers, Knows
  <2>2. journal \in Seq(Entry) /\ journal[e] \in Entry
    BY <2>1 DEF IInv, TypesOK
  <2>3. p \in Nat
    BY <1>1, <1>3, CallKinds DEF OfPayment
  <2>4. PICK new \in Entry :
           /\ new.reference = <<"PAYMENT_REVERSAL", p>> /\ new.status = "POSTED"
           /\ new = ManualEntry("PAYMENT_REVERSAL", <<"PAYMENT_REVERSAL", p>>, journal[e].amount)
    <3>1. journal[e].amount \in Int /\ <<"PAYMENT_REVERSAL", p>> \in References
      BY <2>2, <2>3, ReferencesDiffer DEF Entry
    <3>2. PICK amount \in Int : amount = journal[e].amount
      BY <3>1
    <3>3. PICK posted : posted = AutoEntry("PAYMENT_REVERSAL", <<"PAYMENT_REVERSAL", p>>, amount)
      OBVIOUS
    <3>4. "PAYMENT_REVERSAL" \in Events
      BY DEF Events
    <3>5. /\ posted \in Entry /\ posted.status = "POSTED"
          /\ posted.reference = <<"PAYMENT_REVERSAL", p>>
      BY <3>1, <3>2, <3>3, <3>4 DEF AutoEntry, Entry
    <3>6. PICK new : new = [posted EXCEPT !.auto = FALSE]
      OBVIOUS
    <3>7. /\ new \in Entry /\ new.status = "POSTED"
          /\ new.reference = <<"PAYMENT_REVERSAL", p>>
      BY <3>5, <3>6 DEF Entry
    <3>8. new = ManualEntry("PAYMENT_REVERSAL", <<"PAYMENT_REVERSAL", p>>, amount)
      BY <3>3, <3>6 DEF ManualEntry
    <3> QED BY <3>2, <3>7, <3>8
  <2>5. PICK old \in Entry : old = [journal[e] EXCEPT !.status = "REVERSED"]
    BY <2>2 DEF Entry
  <2>6. old.reference = <<"PAYMENT", p>> /\ old.status = "REVERSED"
    BY <2>1, <2>2, <2>5 DEF Entry
  <2>7. PICK n : n = Len(journal) + 1
    OBVIOUS
  <2>8. /\ journal' \in Seq(Entry) /\ DOMAIN journal' = DOMAIN journal \cup {n}
        /\ n \notin DOMAIN journal /\ journal'[n] = new /\ journal'[e] = old
        /\ \A f \in DOMAIN journal : f # e => journal'[f] = journal[f]
    <3>1. journal' = Append([journal EXCEPT ![e] = old], new)
      BY <1>2, <1>6, <2>4, <2>5
    <3>2. PICK changed : changed = [journal EXCEPT ![e] = old]
      OBVIOUS
    <3>3. /\ changed \in Seq(Entry) /\ Len(changed) = Len(journal)
          /\ DOMAIN changed = DOMAIN journal /\ changed[e] = old
          /\ \A f \in DOMAIN journal : f # e => changed[f] = journal[f]
      BY <2>1, <2>2, <3>2
    <3>4. journal' = Append(changed, new)
      BY <3>1, <3>2
    <3>5. /\ journal' \in Seq(Entry) /\ DOMAIN journal' = DOMAIN changed \cup {n}
          /\ n \notin DOMAIN changed /\ journal'[n] = new
          /\ \A f \in DOMAIN changed : journal'[f] = changed[f]
      BY <2>7, <3>3, <3>4
    <3> QED BY <2>1, <3>3, <3>5
  <2>9. \A f \in DOMAIN journal :
           /\ f \in DOMAIN journal' /\ journal'[f].reference = journal[f].reference
           /\ journal'[f] = journal[f] \/ journal[f].reference = <<"PAYMENT", p>>
    BY <2>1, <2>6, <2>8
  <2>10. \A r : EntriesFor(r)' = EntriesFor(r) \cup (IF r = <<"PAYMENT_REVERSAL", p>> THEN {n} ELSE {})
    BY <2>4, <2>8, <2>9 DEF EntriesFor
  <2>11. \A r : ReversedEntries(r)' = ReversedEntries(r) \cup (IF r = <<"PAYMENT", p>> THEN {e} ELSE {})
    <3> TAKE r
    <3>1. \A f \in DOMAIN journal' :
             journal'[f].reference = r /\ journal'[f].status = "REVERSED"
               <=> \/ f \in DOMAIN journal /\ journal[f].reference = r /\ journal[f].status = "REVERSED"
                   \/ f = e /\ r = <<"PAYMENT", p>>
      BY <2>1, <2>4, <2>6, <2>8
    <3> QED BY <2>1, <2>8, <3>1 DEF ReversedEntries, EntriesFor
  <2>12. PostedInv'
    <3>1. ASSUME NEW i PROVE EntriesFor(<<"INVOICE", i>>)' = EntriesFor(<<"INVOICE", i>>)
      <4>1. <<"INVOICE", i>> # <<"PAYMENT_REVERSAL", p>>
        BY ReferencesDiffer
      <4> QED BY <2>10, <4>1
    <3>2. \A i : \A f \in EntriesFor(<<"INVOICE", i>>) : journal'[f] = journal[f]
      BY <2>1, <2>8, ReferencesDiffer DEF EntriesFor
    <3> QED BY <1>2, <3>1, <3>2, PostedKept
  <2>13. ReversalsMatch'
    <3> SUFFICES ASSUME NEW q \in DOMAIN payments, <<"payment", q>> \notin history
                 PROVE  Cardinality(EntriesFor(<<"PAYMENT_REVERSAL", q>>)')
                          = Cardinality(ReversedEntries(<<"PAYMENT", q>>)')
      BY <1>2, <1>4 DEF ReversalsMatch
    <3>1. Cardinality(EntriesFor(<<"PAYMENT_REVERSAL", q>>)) = Cardinality(ReversedEntries(<<"PAYMENT", q>>))
      BY DEF IInv, ReversalsMatch
    <3>2. CASE q # p
      <4>1. /\ EntriesFor(<<"PAYMENT_REVERSAL", q>>)' = EntriesFor(<<"PAYMENT_REVERSAL", q>>)
            /\ ReversedEntries(<<"PAYMENT", q>>)' = ReversedEntries(<<"PAYMENT", q>>)
        BY <2>10, <2>11, <3>2, ReferencesDiffer
      <4> QED BY <3>1, <4>1
    <3>3. CASE q = p
      <4>1. PICK reversals, reversed : /\ reversals = EntriesFor(<<"PAYMENT_REVERSAL", p>>)
                                       /\ reversed = ReversedEntries(<<"PAYMENT", p>>)
        OBVIOUS
      <4>2. n \notin reversals /\ e \notin reversed
        BY <2>1, <2>8, <3>3, <4>1 DEF EntriesFor, ReversedEntries
      <4>3. IsFiniteSet(reversals) /\ IsFiniteSet(reversed)
        BY <2>2, <4>1, EntriesFinite
      <4>4. /\ Cardinality(reversals \cup {n}) = Cardinality(reversals) + 1
            /\ Cardinality(reversed \cup {e}) = Cardinality(reversed) + 1
        BY <4>2, <4>3, FS_AddElement
      <4>5. /\ EntriesFor(<<"PAYMENT_REVERSAL", p>>)' = reversals \cup {n}
            /\ ReversedEntries(<<"PAYMENT", p>>)' = reversed \cup {e}
        BY <2>10, <2>11, <4>1
      <4> QED BY <3>1, <3>3, <4>1, <4>4, <4>5
    <3> QED BY <3>2, <3>3
  <2>14. Places'
    <3> SUFFICES ASSUME NEW f \in DOMAIN journal', NEW m \in Nat
                 PROVE  /\ journal'[f].reference = <<"INVOICE", m>> => m \in DOMAIN invoices
                        /\ journal'[f].reference \in {<<"PAYMENT", m>>, <<"PAYMENT_REVERSAL", m>>} =>
                              m \in DOMAIN payments
      BY <1>2, <1>4 DEF Places
    <3>1. CASE f \in DOMAIN journal
      BY <2>9, <3>1 DEF IInv, Places
    <3>2. CASE f = n
      BY <2>1, <2>4, <2>8, <3>2, ReferencesDiffer
    <3> QED BY <2>8, <3>1, <3>2
  <2> QED BY <1>1, <1>2, <1>3, <2>8, <2>9, <2>12, <2>13, <2>14, PaymentWrite DEF PaymentStatus
<1> QED BY <1>5, <1>6

-----------------------------------------------------------------------------
(* Documents are created, and all steps *)

LEMMA CreateInvoiceStep ==
    ASSUME IInv, NEW c \in Clerks, NEW type \in {"SALES", "PURCHASE"}, NEW total \in Totals,
           CreateInvoice(c, type, total)
    PROVE  IInv'
<1>1. PICK new : new = [type |-> type, status |-> "DRAFT", total |-> total,
                        paid |-> 0, outstanding |-> total]
  OBVIOUS
<1>2. /\ invoices' = Append(invoices, new)
      /\ UNCHANGED <<payments, allocations, notes, journal, call, history>>
  BY <1>1 DEF CreateInvoice
<1>3. total \in Nat \ {0}
  BY BillingAssumption
<1>4. /\ new \in Invoice /\ new.total = total /\ new.paid = 0 /\ new.outstanding = total
      /\ new.status = "DRAFT"
  BY <1>1, <1>3 DEF Invoice, InvoiceStatus
<1>5. invoices \in Seq(Invoice) /\ allocations \in Seq(Allocation) /\ notes \in Seq(InvoiceNote)
  BY DEF IInv, TypesOK, TypeOK
<1>6. PICK n : n = Len(invoices) + 1
  OBVIOUS
<1>7. /\ invoices' \in Seq(Invoice) /\ DOMAIN invoices' = DOMAIN invoices \cup {n}
      /\ n \notin DOMAIN invoices /\ n \in Nat /\ invoices'[n] = new
      /\ \A i \in DOMAIN invoices : invoices'[i] = invoices[i]
  BY <1>2, <1>4, <1>5, <1>6
<1>8. /\ \A k : PaidTo(k)' = PaidTo(k) /\ Allocated(k)' = Allocated(k) /\ NotedOn(k)' = NotedOn(k)
      /\ \A q : EntriesFor(q)' = EntriesFor(q) /\ ReversedEntries(q)' = ReversedEntries(q)
  BY <1>2 DEF PaidTo, Allocated, NotedOn, EntriesFor, ReversedEntries
<1>9. TypeOK' /\ Paid'
  BY <1>2, <1>7 DEF IInv, TypesOK, TypeOK, Paid
<1>10. Keeps(-1, -1)
  BY <1>2, <1>7, <1>8 DEF Keeps
<1>11. call' \in [Clerks -> Calls] /\ (\A d \in Clerks : CallOK(d)') /\ OneCall'
  BY <1>2, <1>10, IdleStep
<1>12. AddsUpAt(n)'
  <2>1. PaidTo(n) = 0 /\ NotedOn(n) = 0
    BY <1>5, <1>7, AmountTypes DEF IInv, TypesOK, TypeOK
  <2> QED BY <1>3, <1>4, <1>7, <1>8, <2>1 DEF AddsUpAt
<1>13. InvoiceAddsUp' /\ Owed'
  <2>1. history \subseteq history' /\ invoices'[n].outstanding <= invoices'[n].total
    BY <1>2, <1>3, <1>4, <1>7
  <2> QED BY <1>7, <1>8, <1>12, <2>1, AmountsKept
<1>14. AllocatedWithinPayment'
  BY <1>2, AllocationsStay
<1>15. PostedInv'
  <2> SUFFICES ASSUME NEW i \in DOMAIN invoices' PROVE PostedAt(i)'
    BY DEF PostedInv
  <2>1. PICK entries : entries = EntriesFor(<<"INVOICE", i>>)
    OBVIOUS
  <2>2. EntriesFor(<<"INVOICE", i>>)' = entries
    BY <1>8, <2>1
  <2>3. CASE i \in DOMAIN invoices
    <3>1. PostedAt(i)
      BY <2>3 DEF IInv, PostedInv
    <3>2. journal' = journal /\ invoices'[i] = invoices[i]
      BY <1>2, <1>7, <2>3
    <3> QED BY <2>1, <2>2, <3>1, <3>2 DEF PostedAt
  <2>4. CASE i = n
    <3>1. entries = {}
      BY <1>7, <2>1, <2>4 DEF IInv, Places, EntriesFor
    <3> QED BY <1>4, <1>7, <2>2, <2>4, <3>1 DEF PostedAt
  <2> QED BY <1>7, <2>3, <2>4
<1>16. ReversalsMatch'
  BY <1>2, <1>8, ReversalsKept
<1>17. Places'
  BY <1>2, <1>7 DEF IInv, Places
<1> QED BY <1>2, <1>9, <1>11, <1>13, <1>14, <1>15, <1>16, <1>17 DEF IInv, TypesOK

LEMMA CreatePaymentStep ==
    ASSUME IInv, NEW c \in Clerks, NEW u \in Users, NEW amount \in Amounts,
           CreatePayment(c, u, amount)
    PROVE  IInv'
<1>1. PICK new : new = [amount |-> amount, status |-> "DRAFT", creator |-> u]
  OBVIOUS
<1>2. /\ payments' = Append(payments, new)
      /\ UNCHANGED <<invoices, allocations, notes, journal, call, history>>
  BY <1>1 DEF CreatePayment
<1>3. amount \in Nat \ {0}
  BY BillingAssumption
<1>4. new \in Payment /\ new.amount = amount
  BY <1>1, <1>3 DEF Payment, PaymentStatus
<1>5. payments \in Seq(Payment) /\ allocations \in Seq(Allocation) /\ notes \in Seq(InvoiceNote)
  BY DEF IInv, TypesOK, TypeOK
<1>6. PICK n : n = Len(payments) + 1
  OBVIOUS
<1>7. /\ payments' \in Seq(Payment) /\ DOMAIN payments' = DOMAIN payments \cup {n}
      /\ n \notin DOMAIN payments /\ n \in Nat \ {0} /\ payments'[n] = new
      /\ \A p \in DOMAIN payments : payments'[p] = payments[p]
  BY <1>2, <1>4, <1>5, <1>6
<1>8. /\ \A k : PaidTo(k)' = PaidTo(k) /\ Allocated(k)' = Allocated(k) /\ NotedOn(k)' = NotedOn(k)
      /\ \A q : EntriesFor(q)' = EntriesFor(q) /\ ReversedEntries(q)' = ReversedEntries(q)
  BY <1>2 DEF PaidTo, Allocated, NotedOn, EntriesFor, ReversedEntries
<1>9. TypeOK' /\ Paid'
  BY <1>2, <1>7 DEF IInv, TypesOK, TypeOK, Paid
<1>10. Keeps(-1, -1)
  BY <1>2, <1>7, <1>8 DEF Keeps
<1>11. call' \in [Clerks -> Calls] /\ (\A d \in Clerks : CallOK(d)') /\ OneCall'
  BY <1>2, <1>10, IdleStep
<1>12. InvoiceAddsUp' /\ Owed'
  BY <1>2, <1>8 DEF IInv, InvoiceAddsUp, Owed
<1>13. WithinAt(n)'
  <2>1. Allocated(n) = 0
    BY <1>5, <1>7, AmountTypes DEF IInv, Paid
  <2> QED BY <1>3, <1>4, <1>7, <1>8, <2>1 DEF WithinAt
<1>14. AllocatedWithinPayment'
  <2>1. history \subseteq history' /\ ToSet(allocations) \subseteq ToSet(allocations')
    BY <1>2
  <2> QED BY <1>7, <1>8, <1>13, <2>1, AllocationsKept
<1>15. PostedInv'
  BY <1>2, <1>8, PostedKept
<1>16. ReversalsMatch'
  <2> SUFFICES ASSUME NEW p \in DOMAIN payments', <<"payment", p>> \notin history'
               PROVE  Cardinality(EntriesFor(<<"PAYMENT_REVERSAL", p>>)')
                        = Cardinality(ReversedEntries(<<"PAYMENT", p>>)')
    BY DEF ReversalsMatch
  <2>1. CASE p \in DOMAIN payments
    BY <1>2, <1>8, <2>1 DEF IInv, ReversalsMatch
  <2>2. CASE p = n
    <3>1. EntriesFor(<<"PAYMENT_REVERSAL", p>>) = {} /\ ReversedEntries(<<"PAYMENT", p>>) = {}
      BY <1>7, <2>2 DEF IInv, Places, EntriesFor, ReversedEntries
    <3> QED BY <1>8, <3>1
  <2> QED BY <1>7, <2>1, <2>2
<1>17. Places'
  BY <1>2, <1>7 DEF IInv, Places
<1> QED BY <1>2, <1>9, <1>11, <1>12, <1>14, <1>15, <1>16, <1>17 DEF IInv, TypesOK

LEMMA ReconcileStep ==
    ASSUME IInv, NEW c \in Clerks, NEW p \in DOMAIN payments, Reconcile(c, p)
    PROVE  IInv'
<1>1. /\ payments' = [payments EXCEPT ![p].status = "RECONCILED"]
      /\ UNCHANGED <<invoices, allocations, notes, journal, call, history>>
  BY DEF Reconcile
<1>2. /\ payments' \in Seq(Payment) /\ DOMAIN payments' = DOMAIN payments
      /\ \A q \in DOMAIN payments : payments'[q].amount = payments[q].amount
  <2>1. payments \in Seq(Payment) /\ "RECONCILED" \in PaymentStatus
    BY DEF IInv, TypesOK, TypeOK, PaymentStatus
  <2> QED BY <1>1, <2>1, UpdatePayment
<1>3. \A k : PaidTo(k)' = PaidTo(k) /\ NotedOn(k)' = NotedOn(k) /\ Allocated(k)' = Allocated(k)
  BY <1>1 DEF PaidTo, NotedOn, Allocated
<1>4. Keeps(-1, -1)
  BY <1>1, <1>2, <1>3 DEF Keeps
<1>5. call' \in [Clerks -> Calls] /\ (\A d \in Clerks : CallOK(d)') /\ OneCall'
  BY <1>1, <1>4, IdleStep
<1>6. InvoiceAddsUp' /\ Owed'
  BY <1>1, <1>3 DEF IInv, InvoiceAddsUp, Owed
<1>7. AllocatedWithinPayment'
  BY <1>1, <1>2, AllocationsStay
<1>8. JournalOK
  BY <1>1, <1>2, JournalKept
<1>9. TypeOK' /\ Paid'
  BY <1>1, <1>2 DEF IInv, TypesOK, TypeOK, Paid
<1> QED BY <1>1, <1>5, <1>6, <1>7, <1>8, <1>9 DEF IInv, TypesOK, JournalOK

LEMMA CallFailsStep ==
    ASSUME IInv, NEW c \in Clerks, CallFails(c)
    PROVE  IInv'
<1>1. Ends(c) /\ UNCHANGED <<invoices, payments, allocations, notes, journal, history>>
  BY DEF CallFails
<1>2. Busy(c)
  BY DEF CallFails, Free, Busy, NoCall
<1>3. \A k : PaidTo(k)' = PaidTo(k) /\ NotedOn(k)' = NotedOn(k) /\ Allocated(k)' = Allocated(k)
  BY <1>1 DEF PaidTo, NotedOn, Allocated
<1>4. Keeps(call[c].invoice, call[c].payment)
  BY <1>1, <1>3 DEF Keeps
<1>5. call' \in [Clerks -> Calls] /\ (\A d \in Clerks : CallOK(d)') /\ OneCall'
  BY <1>1, <1>2, <1>4, EndStep
<1>6. InvoiceAddsUp' /\ Owed'
  BY <1>1, <1>3 DEF IInv, InvoiceAddsUp, Owed
<1>7. AllocatedWithinPayment'
  BY <1>1, AllocationsStay
<1>8. JournalOK
  BY <1>1, JournalKept
<1>9. TypeOK' /\ Paid'
  BY <1>1 DEF IInv, TypesOK, TypeOK, Paid
<1> QED BY <1>1, <1>5, <1>6, <1>7, <1>8, <1>9 DEF IInv, TypesOK, JournalOK

\* The calls of invoice clerks, and the calls that correct and settle invoices.
LEMMA InvoiceReadSteps ==
    ASSUME IInv, NEW c \in Clerks, InvoiceStep(c) \/ CorrectStep(c) \/ SettleStep(c)
    PROVE  IInv'
<1>1. \A a \in Amounts : a \in Nat /\ a # 0
  BY BillingAssumption
<1>2. CASE \E t \in Totals : createSalesInvoice(c, t) \/ createPurchaseInvoice(c, t)
  BY <1>2, CreateInvoiceStep DEF createSalesInvoice, createPurchaseInvoice
<1>3. ASSUME NEW i \in DOMAIN invoices,
             \/ PostRead(c, i) \/ DisputeRead(c, i) \/ CancelRead(c, i) \/ WriteOffARRead(c, i)
      PROVE  IInv'
  <2>1. PICK op \in {"post", "dispute", "cancel", "writeOff"} : Reads(c, OnInvoice(op, i, 0, 0))
    BY <1>3 DEF PostRead, DisputeRead, CancelRead, WriteOffARRead
  <2> QED BY <2>1, OnInvoiceReads DEF Settlements
<1>4. ASSUME NEW i \in DOMAIN invoices, NEW a \in Amounts, NoteRead(c, i, a) PROVE IInv'
  <2>1. Reads(c, OnInvoice("note", i, 0, a))
    BY <1>4 DEF NoteRead
  <2> QED BY <1>1, <2>1, OnInvoiceReads
<1>5. ASSUME NEW i \in DOMAIN invoices, NEW a \in Amounts, SupplierPaymentRead(c, i, a) PROVE IInv'
  <2>1. Reads(c, OnInvoice("supplier", i, 0, a))
    BY <1>5 DEF SupplierPaymentRead
  <2> QED BY <1>1, <2>1, OnInvoiceReads
<1>6. ASSUME NEW i \in DOMAIN invoices, NEW a \in Amounts, NEW p \in DOMAIN payments,
             ApplyRead(c, i, p, a)
      PROVE  IInv'
  <2>1. Reads(c, OnInvoice("apply", i, p, a))
    BY <1>6 DEF ApplyRead
  <2> QED BY <1>1, <2>1, OnInvoiceReads
<1>7. ASSUME NEW i \in DOMAIN invoices, NEW a \in Amounts, NEW p \in DOMAIN payments,
             AllocateRead(c, i, p, a)
      PROVE  IInv'
  <2>1. Reads(c, OnInvoice("allocate", i, p, a)) /\ Allocated(p) + a <= payments[p].amount
    BY <1>7 DEF AllocateRead
  <2> QED BY <1>1, <2>1, OnInvoiceReads
<1> QED BY <1>2, <1>3, <1>4, <1>5, <1>6, <1>7 DEF InvoiceStep, CorrectStep, SettleStep

LEMMA PaymentReadSteps ==
    ASSUME IInv, NEW c \in Clerks, PaymentStep(c)
    PROVE  IInv'
<1>1. payments \in Seq(Payment) /\ journal \in Seq(Entry)
  BY DEF IInv, TypesOK, TypeOK
<1>2. \A p \in DOMAIN payments : p \in Nat \ {0} /\ payments[p] \in Payment
  BY <1>1
<1>3. ASSUME NEW p \in DOMAIN payments, NEW op \in {"approve", "postPayment"}, Reads(c, OnPayment(op, p))
      PROVE  IInv'
  <2>1. PICK r : r = OnPayment(op, p)
    OBVIOUS
  <2>2. r \in PaymentCalls /\ r.payment = p /\ r.op # "reverse"
    BY <1>2, <2>1 DEF OnPayment, PaymentCalls
  <2> QED BY <1>3, <2>1, <2>2, OnPaymentReads
<1>4. ASSUME NEW p \in DOMAIN payments, ReverseRead(c, p) PROVE IInv'
  <2>1. PICK entries : entries = {e \in DOMAIN journal : journal[e].reference = <<"PAYMENT", p>>
                                                         /\ journal[e].status = "POSTED"}
    OBVIOUS
  <2>2. PICK e : e = IF payments[p].status = "POSTED" /\ entries # {} THEN Min(entries) ELSE 0
    OBVIOUS
  <2>3. e = 0 \/ e \in entries
    <3>1. ASSUME entries # {} PROVE Min(entries) \in entries
      <4>1. entries \subseteq Nat
        BY <1>1, <2>1
      <4>2. \E m \in entries : \A n \in entries : ~(n < m)
        BY <3>1, <4>1, LeastNatural
      <4>3. \E m \in entries : \A n \in entries : m <= n
        BY <4>1, <4>2
      <4> QED BY <4>3 DEF Min
    <3> QED BY <2>2, <3>1
  <2>4. e \in Nat
    BY <1>1, <2>1, <2>3
  <2>5. PICK r : r = [op |-> "reverse", invoice |-> 0, payment |-> p, amount |-> 0,
                      seen |-> payments[p], entry |-> e]
    OBVIOUS
  <2>6. Reads(c, r)
    BY <1>4, <2>1, <2>2, <2>5 DEF ReverseRead
  <2>7. r \in ReverseCalls /\ r.payment = p /\ r.entry = e
    BY <1>2, <2>4, <2>5 DEF ReverseCalls
  <2>8. e # 0 => /\ e \in DOMAIN journal /\ journal[e].reference = <<"PAYMENT", p>>
                 /\ journal[e].status = "POSTED"
    BY <2>1, <2>3
  <2> QED BY <2>6, <2>7, <2>8, OnPaymentReads
<1>5. CASE \E u \in Users, a \in Amounts : CreatePayment(c, u, a)
  BY <1>5, CreatePaymentStep
<1>6. ASSUME NEW p \in DOMAIN payments, NEW u \in Users, ApprovePaymentRead(c, p, u) PROVE IInv'
  BY <1>3, <1>6 DEF ApprovePaymentRead
<1>7. ASSUME NEW p \in DOMAIN payments, PostPaymentRead(c, p) PROVE IInv'
  BY <1>3, <1>7 DEF PostPaymentRead
<1> QED BY <1>4, <1>5, <1>6, <1>7, ReconcileStep DEF PaymentStep

-----------------------------------------------------------------------------
(* The theorems *)

LEMMA InitIInv ==
    ASSUME Init
    PROVE  IInv
<1>1. /\ invoices = << >> /\ payments = << >> /\ allocations = << >> /\ notes = << >>
      /\ journal = << >>
  BY DEF Init
<1>2. \A c \in Clerks : call[c] = NoCall
  BY DEF Init
<1>3. TypesOK
  BY <1>1 DEF TypesOK, TypeOK, Calls, Init
<1>4. ASSUME NEW c \in Clerks PROVE CallOK(c)
  <2>1. ~OfInvoice(NoCall) /\ ~OfPayment(NoCall) /\ NoCall.op = "none"
    BY CallKinds DEF Calls, OfInvoice, OfPayment
  <2> QED BY <1>2, <2>1 DEF CallOK, Refers, Knows, Settlements
<1>5. OneCall
  BY <1>2 DEF OneCall, Busy
<1>6. Owed /\ InvoiceAddsUp /\ AllocatedWithinPayment /\ Paid /\ Places /\ PostedInv /\ ReversalsMatch
  BY <1>1 DEF Owed, InvoiceAddsUp, AllocatedWithinPayment, Paid, Places, PostedInv, ReversalsMatch
<1> QED BY <1>3, <1>4, <1>5, <1>6 DEF IInv

LEMMA StepIInv ==
    ASSUME IInv, [Next]_vars
    PROVE  IInv'
<1>1. CASE UNCHANGED vars
  <2>1. UNCHANGED <<invoices, payments, allocations, notes, journal, call, history>>
    BY <1>1 DEF vars
  <2>2. \A k : PaidTo(k)' = PaidTo(k) /\ NotedOn(k)' = NotedOn(k) /\ Allocated(k)' = Allocated(k)
    BY <2>1 DEF PaidTo, NotedOn, Allocated
  <2>3. Keeps(-1, -1)
    BY <2>1, <2>2 DEF Keeps
  <2>4. call' \in [Clerks -> Calls] /\ (\A d \in Clerks : CallOK(d)') /\ OneCall'
    BY <2>1, <2>3, IdleStep
  <2>5. InvoiceAddsUp' /\ Owed'
    BY <2>1, <2>2 DEF IInv, InvoiceAddsUp, Owed
  <2>6. AllocatedWithinPayment'
    BY <2>1, AllocationsStay
  <2>7. JournalOK
    BY <2>1, JournalKept
  <2>8. TypeOK' /\ Paid'
    BY <2>1 DEF IInv, TypesOK, TypeOK, Paid
  <2> QED BY <2>4, <2>5, <2>6, <2>7, <2>8 DEF IInv, TypesOK, JournalOK
<1>2. ASSUME NEW c \in Clerks, Write(c) PROVE IInv'
  BY <1>2, PostStep, SetStatusStep, ApplyStep, AllocateStep, SupplierPaymentStep, WriteOffARStep,
     NoteStep, ApprovePaymentStep, PostPaymentStep, ReversePaymentStep, CallFailsStep DEF Write
<1>3. CASE Next
  <2>1. Invoicing \subseteq Clerks /\ Correcting \subseteq Clerks /\ Settling \subseteq Clerks
        /\ Paying \subseteq Clerks
    BY DEF Clerks
  <2> QED BY <1>2, <1>3, <2>1, InvoiceReadSteps, PaymentReadSteps DEF Next
<1> QED BY <1>1, <1>3

LEMMA AlwaysIInv == Spec => []IInv
<1>1. Init => IInv
  BY InitIInv
<1>2. IInv /\ [Next]_vars => IInv'
  BY StepIInv
<1> QED BY <1>1, <1>2, PTL DEF Spec

\* What is outstanding of an invoice is its total less what was paid and credited, and no
\* payment is allocated beyond its amount, unless two calls met there, a note was undone by
\* applyPayment, or the invoice was written off: InvoiceService, PaymentService, and the
\* credit and debit notes.
THEOREM AmountsAreRight == Spec => []AmountsAddUp
<1>1. IInv => AmountsAddUp
  BY DEF IInv, TypesOK, AmountsAddUp
<1> QED BY <1>1, AlwaysIInv, PTL

\* An invoice that is open is in the journal once, with its total, whoever posted it at the
\* same time; reversals match the entries they reverse: post of InvoiceService and reverse
\* of PaymentService, by processEvent.
THEOREM JournalIsRight == Spec => []JournalFollowsDocuments
<1>1. ASSUME IInv PROVE JournalFollowsDocuments
  <2>1. ASSUME NEW i \in DOMAIN invoices
        PROVE  LET entries == EntriesFor(<<"INVOICE", i>>) IN
               /\ Cardinality(entries) <= 1
               /\ invoices[i].status = "OPEN" => entries # {}
               /\ invoices[i].status = "DRAFT" => entries = {}
               /\ \A e \in entries : journal[e].amount = invoices[i].total
    <3>1. PICK entries : entries = EntriesFor(<<"INVOICE", i>>)
      OBVIOUS
    <3>2. PostedAt(i)
      BY <1>1 DEF IInv, PostedInv
    <3>3. Cardinality(entries) <= 1
      <4>1. CASE entries = {}
        BY <4>1, FS_EmptySet
      <4>2. CASE entries # {}
        <5>1. PICK e : entries = {e}
          BY <3>1, <3>2, <4>2 DEF PostedAt
        <5>2. Cardinality({e}) = 1
          BY FS_Singleton
        <5> QED BY <5>1, <5>2
      <4> QED BY <4>1, <4>2
    <3> QED BY <3>1, <3>2, <3>3 DEF PostedAt
  <2>2. ReversalsMatch
    BY <1>1 DEF IInv
  <2> QED BY <2>1, <2>2 DEF JournalFollowsDocuments, OpenIsPostedOnce
<1> QED BY <1>1, AlwaysIInv, PTL

-----------------------------------------------------------------------------
(* The composition: a step of BackOffice is one of a module, or none *)

LEMMA OfficeStarts ==
    OfficeInit =>
      /\ Match!MatchInit
      /\ Bank!BankInit
      /\ Rep!RepInit
BY DEF OfficeInit

LEMMA OfficeMoves ==
    [OfficeNext]_officeVars =>
      /\ [Match!MatchNext]_Match!matchVars
      /\ [Bank!BankNext]_Bank!bankVars
      /\ [Rep!RepNext]_Rep!repVars
BY DEF OfficeNext, officeVars, matchVars, bankVars, repVars,
       Match!matchVars, Bank!bankVars, Rep!repVars

-----------------------------------------------------------------------------
(* The three-way match *)

BillLine == [product : Goods, qty : Nat, price : Nat]

\* An order has quantities, and a supplier bills goods.
OrderTypes ==
    /\ DOMAIN Ordered \subseteq Goods /\ Ordered \in [DOMAIN Ordered -> Nat] /\ Tolerance \in Nat
    /\ IsFiniteSet(Bills)
    /\ BillLines \subseteq Seq(BillLine)

\* Each line of a bill was within the tolerance of what had come, and no less has since.
Matched(lines) ==
    /\ lines \in Seq(BillLine)
    /\ \A k \in DOMAIN lines :
          /\ lines[k].product \in DOMAIN Ordered
          /\ Match!Within(lines[k].qty, received[lines[k].product])

MatchInv ==
    /\ received \in [Goods -> Nat]
    /\ DOMAIN bill = Bills /\ bill = [i \in Bills |-> bill[i]]
    /\ \A i \in Bills : Matched(bill[i].lines)
    /\ buyer.pc = "create" => buyer.invoice \in Bills /\ Matched(buyer.lines)
    /\ buyer.pc = "post" => buyer.invoice \in Bills

LEMMA LinesHaveType ==
    ASSUME NEW lines \in Seq(BillLine), NEW k \in DOMAIN lines
    PROVE  lines[k].product \in Goods /\ lines[k].qty \in Nat
<1>1. lines[k] \in BillLine
  OBVIOUS
<1> QED BY <1>1 DEF BillLine

LEMMA SumOfMatch ==
    ASSUME NEW f
    PROVE  Match!SumFunction(f) = SumFunctionOnSet(f, DOMAIN f)
BY DEF Match!SumFunction, SumFunction, Match!SumFunctionOnSet, SumFunctionOnSet,
       Match!FoldFunctionOnSet, FoldFunctionOnSet, Match!MapThenFoldSet, MapThenFoldSet

\* What a bill has of a product.
LEMMA BillIsWithin ==
    ASSUME OrderTypes, received \in [Goods -> Nat], NEW lines, Matched(lines), NEW p \in Goods
    PROVE  /\ Match!BilledIn(lines, p) \in Int
           /\ Cardinality(Match!LinesFor(lines, p)) \in Int
           /\ 100 * Match!BilledIn(lines, p)
                <= ((100 + Tolerance) * received[p]) * Cardinality(Match!LinesFor(lines, p))
           /\ p \notin DOMAIN Ordered => Match!BilledIn(lines, p) = 0
<1> DEFINE D == DOMAIN lines
           T == Match!LinesFor(lines, p)
           f == [k \in D |-> IF k \in T THEN lines[k].qty ELSE 0]
           g == [k \in D |-> IF k \in T THEN 1 ELSE 0]
           b == (100 + Tolerance) * received[p]
<1>1. IsFiniteSet(D)
  <2>1. D = 1..Len(lines) /\ Len(lines) \in Nat
    BY DEF Matched
  <2> QED BY <2>1, FS_Interval
<1>2. T \subseteq D /\ \A k \in T : lines[k].product = p
  BY DEF Match!LinesFor
<1>3. \A k \in D : lines[k].qty \in Nat
  BY LinesHaveType DEF Matched
<1>4. b \in Nat
  BY DEF OrderTypes
<1>5. \A k \in T : 100 * lines[k].qty <= b /\ p \in DOMAIN Ordered
  BY <1>2 DEF Matched, Match!Within
<1>6. Match!BilledIn(lines, p) = SumFunctionOnSet(f, D)
  <2>1. Match!BilledIn(lines, p) = Match!SumFunction(f) /\ DOMAIN f = D
    BY DEF Match!BilledIn
  <2> HIDE DEF f
  <2> QED BY <2>1, SumOfMatch
<1> HIDE DEF b, T
<1>7. \A k \in D : f[k] \in Int /\ g[k] \in Int /\ 100 * f[k] <= b * g[k]
  <2> SUFFICES ASSUME NEW k \in D
               PROVE  f[k] \in Int /\ g[k] \in Int /\ 100 * f[k] <= b * g[k]
    OBVIOUS
  <2>1. CASE k \in T
    <3>1. f[k] = lines[k].qty /\ g[k] = 1 /\ b * 1 = b
      BY <1>4, <2>1
    <3> QED BY <1>3, <1>5, <2>1, <3>1
  <2>2. CASE k \notin T
    <3>1. f[k] = 0 /\ g[k] = 0 /\ b * 0 = 0
      BY <1>4, <2>2
    <3> QED BY <3>1
  <2> QED BY <2>1, <2>2
<1>8. \A k \in D : g[k] = IF k \in T THEN 1 ELSE 0
  OBVIOUS
<1>9. T = {} => \A k \in D : f[k] = 0
  OBVIOUS
<1> HIDE DEF f, g, D
<1>10. SumFunctionOnSet(f, D) \in Int
  BY <1>1, <1>7, SumType
<1>11. SumFunctionOnSet(g, D) = Cardinality(T)
  BY <1>1, <1>2, <1>8, SumOnes
<1>12. 100 * SumFunctionOnSet(f, D) <= b * SumFunctionOnSet(g, D)
  BY <1>1, <1>4, <1>7, SumBounded
<1>13. SumFunctionOnSet(g, D) \in Int
  BY <1>1, <1>7, SumType
<1>14. p \notin DOMAIN Ordered => SumFunctionOnSet(f, D) = 0
  <2>1. p \notin DOMAIN Ordered => T = {}
    BY <1>5
  <2> QED BY <1>1, <1>9, <2>1, SumZero
<1> QED BY <1>6, <1>10, <1>11, <1>12, <1>13, <1>14 DEF b, T

LEMMA MatchedStays ==
    ASSUME OrderTypes, received \in [Goods -> Nat], received' \in [Goods -> Nat],
           \A p \in Goods : received[p] <= received'[p], NEW lines, Matched(lines)
    PROVE  \A k \in DOMAIN lines :
              /\ lines[k].product \in DOMAIN Ordered
              /\ 100 * lines[k].qty <= (100 + Tolerance) * received'[lines[k].product]
<1> SUFFICES ASSUME NEW k \in DOMAIN lines
             PROVE  /\ lines[k].product \in DOMAIN Ordered
                    /\ 100 * lines[k].qty <= (100 + Tolerance) * received'[lines[k].product]
  OBVIOUS
<1>1. PICK p \in Goods : p = lines[k].product
  BY LinesHaveType DEF Matched
<1>2. 100 * lines[k].qty <= (100 + Tolerance) * received[p] /\ lines[k].qty \in Nat
  BY <1>1, LinesHaveType DEF Matched, Match!Within
<1>3. \A a, m, n \in Nat : m <= n => a * m <= a * n
  OBVIOUS
<1>4. (100 + Tolerance) * received[p] <= (100 + Tolerance) * received'[p]
  <2>1. 100 + Tolerance \in Nat /\ received[p] \in Nat /\ received'[p] \in Nat
    BY DEF OrderTypes
  <2> QED BY <1>3, <2>1
<1>5. (100 + Tolerance) * received[p] \in Nat /\ (100 + Tolerance) * received'[p] \in Nat
  BY DEF OrderTypes
<1>6. 100 * lines[k].qty <= (100 + Tolerance) * received'[p]
  BY <1>2, <1>4, <1>5
<1> QED BY <1>1, <1>6 DEF Matched

\* Bills that pass.
LEMMA ValidIsMatched ==
    ASSUME received \in [Goods -> Nat], NEW lines, Match!Valid(lines),
           lines \in Seq(BillLine)
    PROVE  Matched(lines)
<1> SUFFICES ASSUME NEW k \in DOMAIN lines
             PROVE  /\ lines[k].product \in DOMAIN Ordered
                    /\ Match!Within(lines[k].qty, received[lines[k].product])
  BY DEF Matched
<1>1. Match!LineViolations(lines[k]) = {}
  BY DEF Match!Valid
<1>2. lines[k].product \in DOMAIN Ordered
  BY <1>1 DEF Match!LineViolations, Match!InOrder
<1>3. "receipts" \notin Match!LineViolations(lines[k])
  BY <1>1
<1> QED BY <1>2, <1>3 DEF Match!LineViolations, Match!InOrder

LEMMA MatchStep ==
    ASSUME OrderTypes, MatchInv, [Match!MatchNext]_Match!matchVars
    PROVE  MatchInv'
<1>1. ASSUME NEW p \in Goods, NEW n \in 1..2, Match!Receive(p, n) PROVE MatchInv'
  <2>1. /\ received' \in [Goods -> Nat] /\ \A q \in Goods : received[q] <= received'[q]
        /\ UNCHANGED <<bill, buyer>>
    BY <1>1 DEF MatchInv, Match!Receive
  <2>2. ASSUME NEW lines, Matched(lines)
        PROVE  /\ lines \in Seq(BillLine)
               /\ \A k \in DOMAIN lines :
                    /\ lines[k].product \in DOMAIN Ordered
                    /\ 100 * lines[k].qty <= (100 + Tolerance) * received'[lines[k].product]
    BY <2>1, <2>2, MatchedStays DEF MatchInv, Matched
  <2>3. ASSUME NEW i \in Bills PROVE Matched(bill[i].lines)'
    <3>1. Matched(bill[i].lines) /\ bill'[i] = bill[i]
      BY <2>1 DEF MatchInv
    <3> QED BY <2>2, <3>1 DEF Matched, Match!Within
  <2>4. ASSUME buyer.pc = "create" PROVE Matched(buyer.lines)'
    <3>1. Matched(buyer.lines) /\ buyer' = buyer
      BY <2>1, <2>4 DEF MatchInv
    <3> QED BY <2>2, <3>1 DEF Matched, Match!Within
  <2> QED BY <2>1, <2>3, <2>4 DEF MatchInv
<1>2. ASSUME NEW i \in Bills, NEW lines \in BillLines, Match!CreateCheck(i, lines) PROVE MatchInv'
  <2>1. Matched(lines)
    BY <1>2, ValidIsMatched DEF OrderTypes, MatchInv, Match!CreateCheck
  <2>2. buyer' = [pc |-> "create", invoice |-> i, lines |-> lines] /\ UNCHANGED <<received, bill>>
    BY <1>2 DEF Match!CreateCheck
  <2>3. Matched(buyer.lines)'
    BY <2>1, <2>2 DEF Matched, Match!Within
  <2>4. ASSUME NEW j \in Bills PROVE Matched(bill[j].lines)'
    <3>1. PICK ls : ls = bill'[j].lines /\ Matched(ls) /\ received' = received
      BY <2>2 DEF MatchInv
    <3> QED BY <3>1 DEF Matched, Match!Within
  <2> QED BY <2>2, <2>3, <2>4 DEF MatchInv
<1>3. ASSUME Match!CreateInvoice PROVE MatchInv'
  <2> DEFINE new == [status |-> "DRAFT", lines |-> buyer.lines]
  <2>1. /\ buyer.pc = "create" /\ buyer.invoice \in Bills /\ Matched(buyer.lines)
        /\ bill' = [bill EXCEPT ![buyer.invoice] = new] /\ buyer' = Match!Idle /\ UNCHANGED received
    BY <1>3 DEF Match!CreateInvoice, MatchInv
  <2>2. new.lines = buyer.lines
    OBVIOUS
  <2> HIDE DEF new
  <2>3. /\ DOMAIN bill' = Bills /\ bill' = [i \in Bills |-> bill'[i]] /\ bill'[buyer.invoice] = new
        /\ \A i \in Bills \ {buyer.invoice} : bill'[i] = bill[i]
    BY <2>1 DEF MatchInv
  <2>4. ASSUME NEW i \in Bills PROVE Matched(bill[i].lines)'
    <3>1. PICK lines : lines = bill'[i].lines /\ Matched(lines)
      BY <2>1, <2>2, <2>3 DEF MatchInv
    <3> QED BY <2>1, <3>1 DEF Matched, Match!Within
  <2> QED BY <2>1, <2>3, <2>4 DEF MatchInv, Match!Idle
<1>4. ASSUME NEW i \in Bills, Match!PostCheck(i) PROVE MatchInv'
  <2>1. buyer' = [pc |-> "post", invoice |-> i] /\ UNCHANGED <<received, bill>>
    BY <1>4 DEF Match!PostCheck
  <2>2. ASSUME NEW j \in Bills PROVE Matched(bill[j].lines)'
    <3>1. PICK ls : ls = bill'[j].lines /\ Matched(ls) /\ received' = received
      BY <2>1 DEF MatchInv
    <3> QED BY <3>1 DEF Matched, Match!Within
  <2> QED BY <2>1, <2>2 DEF MatchInv
<1>5. ASSUME Match!PostInvoice PROVE MatchInv'
  <2>1. /\ buyer.invoice \in Bills
        /\ bill' = [bill EXCEPT ![buyer.invoice].status = "OPEN"] /\ buyer' = Match!Idle
        /\ UNCHANGED received
    BY <1>5 DEF Match!PostInvoice, MatchInv
  <2>2. /\ DOMAIN bill' = Bills /\ bill' = [i \in Bills |-> bill'[i]]
        /\ \A i \in Bills : bill'[i].lines = bill[i].lines
    BY <2>1 DEF MatchInv
  <2>3. ASSUME NEW i \in Bills PROVE Matched(bill[i].lines)'
    <3>1. PICK lines : lines = bill'[i].lines /\ Matched(lines)
      BY <2>2 DEF MatchInv
    <3> QED BY <2>1, <3>1 DEF Matched, Match!Within
  <2> QED BY <2>1, <2>2, <2>3 DEF MatchInv, Match!Idle
<1>6. CASE UNCHANGED Match!matchVars
  <2>1. UNCHANGED <<received, bill, buyer>>
    BY <1>6 DEF Match!matchVars
  <2>2. ASSUME NEW j \in Bills PROVE Matched(bill[j].lines)'
    <3>1. PICK ls : ls = bill'[j].lines /\ Matched(ls) /\ received' = received
      BY <2>1 DEF MatchInv
    <3> QED BY <3>1 DEF Matched, Match!Within
  <2>3. ASSUME buyer.pc = "create" PROVE Matched(buyer.lines)'
    <3>1. Matched(buyer.lines) /\ buyer' = buyer
      BY <2>1, <2>3 DEF MatchInv
    <3> QED BY <2>1, <3>1 DEF Matched, Match!Within
  <2> QED BY <2>1, <2>2, <2>3 DEF MatchInv
<1> QED BY <1>1, <1>2, <1>3, <1>4, <1>5, <1>6 DEF Match!MatchNext

\* ThreeWayMatchingService: for any order, tolerance, receipts and bills, what suppliers bill
\* of a product stays within the tolerance of what came for every line that bills it.
THEOREM BilledWithinReceipts ==
    ASSUME OrderTypes
    PROVE  OfficeSpec => []BilledPerLine
<1>1. Match!MatchInit => MatchInv
  <2> SUFFICES ASSUME Match!MatchInit PROVE MatchInv
    OBVIOUS
  <2>1. << >> \in Seq(BillLine) /\ DOMAIN << >> = {}
    OBVIOUS
  <2>2. Matched(<< >>)
    BY <2>1 DEF Matched
  <2>3. \A i \in Bills : bill[i].lines = << >>
    BY DEF Match!MatchInit, Match!NoInvoice
  <2> QED BY <2>2, <2>3 DEF Match!MatchInit, Match!NoInvoice, Match!Idle, MatchInv
<1>2. ASSUME MatchInv PROVE Match!BilledPerLine
  <2> SUFFICES ASSUME NEW p \in Goods
               PROVE  IF p \in DOMAIN Ordered
                      THEN Match!Within(Match!Billed(p), Match!LinesOf(p) * received[p])
                      ELSE Match!Billed(p) = 0
    BY DEF Match!BilledPerLine, Match!InOrder
  <2> DEFINE f == [i \in Bills |-> Match!BilledIn(bill[i].lines, p)]
             g == [i \in Bills |-> Cardinality(Match!LinesFor(bill[i].lines, p))]
             b == (100 + Tolerance) * received[p]
  <2>1. Match!Billed(p) = SumFunctionOnSet(f, Bills)
    <3>1. Match!Billed(p) = Match!SumFunction(f) /\ DOMAIN f = Bills
      BY DEF Match!Billed
    <3> HIDE DEF f
    <3> QED BY <3>1, SumOfMatch
  <2>2. Match!LinesOf(p) = SumFunctionOnSet(g, Bills)
    <3>1. Match!LinesOf(p) = Match!SumFunction(g) /\ DOMAIN g = Bills
      BY DEF Match!LinesOf, Match!Cardinality, Cardinality
    <3> HIDE DEF g
    <3> QED BY <3>1, SumOfMatch
  <2>3. \A i \in Bills : /\ f[i] \in Int /\ g[i] \in Int /\ 100 * f[i] <= b * g[i]
                         /\ p \notin DOMAIN Ordered => f[i] = 0
    <3> SUFFICES ASSUME NEW i \in Bills
                 PROVE  /\ f[i] \in Int /\ g[i] \in Int /\ 100 * f[i] <= b * g[i]
                        /\ p \notin DOMAIN Ordered => f[i] = 0
      OBVIOUS
    <3>1. Matched(bill[i].lines) /\ received \in [Goods -> Nat]
      BY <1>2 DEF MatchInv
    <3> QED BY <3>1, BillIsWithin
  <2>4. b \in Int /\ received[p] \in Nat /\ Tolerance \in Nat
    BY <1>2 DEF OrderTypes, MatchInv
  <2>5. IsFiniteSet(Bills)
    BY DEF OrderTypes
  <2> HIDE DEF f, g, b
  <2>6. 100 * SumFunctionOnSet(f, Bills) <= b * SumFunctionOnSet(g, Bills)
    <3>1. \A i \in Bills : f[i] \in Int /\ g[i] \in Int /\ 100 * f[i] <= b * g[i]
      BY <2>3
    <3>2. 100 \in Int
      OBVIOUS
    <3> QED BY <2>4, <2>5, <3>1, <3>2, SumBounded
  <2>7. SumFunctionOnSet(f, Bills) \in Int /\ SumFunctionOnSet(g, Bills) \in Int
    BY <2>3, <2>5, SumType
  <2>8. p \notin DOMAIN Ordered => SumFunctionOnSet(f, Bills) = 0
    BY <2>3, <2>5, SumZero
  <2>9. \A a, r, n \in Int : (a * r) * n = a * (n * r)
    OBVIOUS
  <2>10. b * SumFunctionOnSet(g, Bills)
           = (100 + Tolerance) * (SumFunctionOnSet(g, Bills) * received[p])
    BY <2>4, <2>7, <2>9 DEF b
  <2> QED BY <2>1, <2>2, <2>6, <2>8, <2>10 DEF Match!Within
<1>3. MatchInv /\ [Match!MatchNext]_Match!matchVars => MatchInv'
  BY MatchStep
<1>4. MatchInv => BilledPerLine
  BY <1>2 DEF BilledPerLine
<1> QED BY <1>1, <1>3, <1>4, OfficeStarts, OfficeMoves, PTL DEF OfficeSpec

-----------------------------------------------------------------------------
(* Bank statements *)

\* A payment for each of some statements.
Pairs(ps) ==
    /\ ps \subseteq StatementIds \X PaymentIds
    /\ \A a, b \in ps : a[1] = b[1] => a = b

\* What a call is about to write was posted when it looked, and still is unless it met another.
MatcherOK(c) ==
    /\ matcher[c].at \in {"proposed", "confirm", "write"} => Pairs(matcher[c].pairs)
    /\ matcher[c].at = "write" /\ "beside" \notin meetings => Bank!Confirmable(matcher[c].pairs)

BankInv ==
    /\ matchedTo \in [StatementIds -> SUBSET PaymentIds]
    /\ statusOf \in [PaymentIds -> {"POSTED", "RECONCILED", "REVERSED"}]
    /\ DOMAIN matcher = Matchers /\ matcher = [c \in Matchers |-> matcher[c]]
    /\ \A c \in Matchers : MatcherOK(c)
    /\ \A s \in StatementIds : \A p \in matchedTo[s] : statusOf[p] # "POSTED"
    /\ Bank!StatementsMatch

\* A call reads, or is over.
LEMMA MatcherReads ==
    ASSUME BankInv, NEW c \in Matchers, NEW h, Bank!Holds(c, h), Bank!Rows,
           h.at \in {"proposed", "confirm", "write"} => Pairs(h.pairs),
           h.at = "write" /\ "beside" \notin meetings => Bank!Confirmable(h.pairs)
    PROVE  BankInv'
<1>1. UNCHANGED <<matchedTo, statusOf, meetings>> /\ matcher' = [matcher EXCEPT ![c] = h]
  BY DEF Bank!Holds, Bank!Rows
<1>2. /\ DOMAIN matcher' = Matchers /\ matcher' = [d \in Matchers |-> matcher'[d]]
      /\ matcher'[c] = h /\ \A d \in Matchers \ {c} : matcher'[d] = matcher[d]
  BY <1>1 DEF BankInv
<1>3. ASSUME NEW d \in Matchers PROVE MatcherOK(d)'
  <2>1. CASE d = c
    BY <1>1, <1>2, <2>1 DEF MatcherOK, Pairs, Bank!Confirmable, Bank!Posted
  <2>2. CASE d # c
    <3>1. MatcherOK(d) /\ matcher'[d] = matcher[d]
      BY <1>2, <2>2 DEF BankInv
    <3> QED BY <1>1, <3>1 DEF MatcherOK, Pairs, Bank!Confirmable, Bank!Posted
  <2> QED BY <2>1, <2>2
<1>4. Bank!StatementsMatch'
  BY <1>1 DEF BankInv, Bank!StatementsMatch, Bank!OneStatementPerPayment, Bank!ReconciledIsMatched
<1> QED BY <1>1, <1>2, <1>3, <1>4 DEF BankInv

LEMMA ProposeStep ==
    ASSUME BankInv, NEW c \in Matchers, Bank!Propose(c)
    PROVE  BankInv'
<1>1. PICK pairs \in [Bank!Unmatched -> Bank!Posted \cup {NoPayment}] :
        /\ Bank!Holds(c, [at |-> "proposed",
                          pairs |-> {<<s, pairs[s]>> : s \in {s \in Bank!Unmatched : pairs[s] # NoPayment}}])
        /\ Bank!Rows
  BY DEF Bank!Propose
<1> DEFINE ps == {<<s, pairs[s]>> : s \in {s \in Bank!Unmatched : pairs[s] # NoPayment}}
           h == [at |-> "proposed", pairs |-> ps]
<1>2. Pairs(ps)
  BY DEF Pairs, Bank!Unmatched, Bank!Posted
<1>3. h.at = "proposed" /\ h.pairs = ps /\ Bank!Holds(c, h)
  BY <1>1
<1> HIDE DEF h, ps
<1> QED BY <1>1, <1>2, <1>3, MatcherReads

LEMMA SelectStep ==
    ASSUME BankInv, NEW c \in Matchers, NEW pairs \in SUBSET (StatementIds \X PaymentIds),
           Bank!Select(c, pairs)
    PROVE  BankInv'
<1> DEFINE h == IF pairs = {} THEN Bank!Free ELSE [at |-> "confirm", pairs |-> pairs]
<1>1. matcher[c].at = "proposed" /\ pairs \subseteq matcher[c].pairs /\ Bank!Holds(c, h) /\ Bank!Rows
  BY DEF Bank!Select
<1>2. Pairs(pairs)
  BY <1>1 DEF BankInv, MatcherOK, Pairs
<1>3. h.at = "rest" \/ (h.at = "confirm" /\ h.pairs = pairs)
  BY DEF Bank!Free
<1> HIDE DEF h
<1> QED BY <1>1, <1>2, <1>3, MatcherReads

LEMMA ConfirmReadStep ==
    ASSUME BankInv, NEW c \in Matchers, Bank!ConfirmRead(c)
    PROVE  BankInv'
<1>1. PICK ps : ps = matcher[c].pairs
  OBVIOUS
<1>2. matcher[c].at = "confirm" /\ Bank!Rows /\ Pairs(ps)
  BY <1>1 DEF Bank!ConfirmRead, BankInv, MatcherOK
<1>3. CASE Bank!Confirmable(ps)
  <2> DEFINE h == [matcher[c] EXCEPT !.at = "write"]
  <2>1. Bank!Holds(c, h)
    BY <1>1, <1>3 DEF Bank!ConfirmRead
  <2>2. h.pairs = ps
    BY <1>1
  <2> HIDE DEF h
  <2> QED BY <1>2, <1>3, <2>1, <2>2, MatcherReads
<1>4. CASE ~Bank!Confirmable(ps)
  <2>1. Bank!Holds(c, Bank!Free) /\ Bank!Free.at = "rest"
    BY <1>1, <1>4 DEF Bank!ConfirmRead, Bank!Free
  <2> QED BY <1>2, <2>1, MatcherReads
<1> QED BY <1>3, <1>4

LEMMA AutoReadStep ==
    ASSUME BankInv, NEW c \in Matchers, Bank!AutoRead(c)
    PROVE  BankInv'
<1>1. PICK pairs \in Bank!AutoPairs :
        /\ Bank!Holds(c, IF pairs = {} THEN Bank!Free ELSE [at |-> "write", pairs |-> pairs])
        /\ Bank!Rows
  BY DEF Bank!AutoRead
<1> DEFINE h == IF pairs = {} THEN Bank!Free ELSE [at |-> "write", pairs |-> pairs]
<1>2. Pairs(pairs) /\ Bank!Confirmable(pairs)
  BY DEF Pairs, Bank!Confirmable, Bank!AutoPairs, Bank!Unmatched, Bank!Posted
<1>3. Bank!Holds(c, h) /\ (h.at = "rest" \/ (h.at = "write" /\ h.pairs = pairs))
  BY <1>1 DEF Bank!Free
<1> HIDE DEF h
<1> QED BY <1>1, <1>2, <1>3, MatcherReads

LEMMA ManualReadStep ==
    ASSUME BankInv, NEW c \in Matchers, NEW s \in StatementIds, NEW p \in PaymentIds,
           Bank!ManualRead(c, s, p)
    PROVE  BankInv'
<1> DEFINE ps == {<<s, p>>}
           h == [at |-> "write", pairs |-> ps]
<1>1. Bank!Holds(c, h) /\ Bank!Rows /\ statusOf[p] = "POSTED"
  BY DEF Bank!ManualRead
<1>2. Pairs(ps) /\ Bank!Confirmable(ps)
  BY <1>1 DEF Pairs, Bank!Confirmable, Bank!Posted
<1>3. h.at = "write" /\ h.pairs = ps
  OBVIOUS
<1> HIDE DEF h, ps
<1> QED BY <1>1, <1>2, <1>3, MatcherReads

\* A call writes its pairs: each payment was at no statement.
LEMMA BankCommitStep ==
    ASSUME BankInv, NEW c \in Matchers, Bank!Commit(c)
    PROVE  BankInv'
<1>1. PICK ps : ps = matcher[c].pairs
  OBVIOUS
<1>2. matcher[c].at = "write" /\ Bank!Write(c, ps) /\ Pairs(ps)
  BY <1>1 DEF Bank!Commit, BankInv, MatcherOK
<1>3. /\ meetings \subseteq meetings'
      /\ \A d \in Matchers \ {c} : matcher[d].at = "write" => "beside" \in meetings'
      /\ \A a \in ps : matchedTo[a[1]] # {} => "stale" \in meetings'
      /\ matcher' = [matcher EXCEPT ![c] = Bank!Free]
  BY <1>2 DEF Bank!Write, Bank!Holds, Bank!Beside
<1>4. "beside" \notin meetings' => Bank!Confirmable(ps)
  BY <1>1, <1>2, <1>3 DEF BankInv, MatcherOK
<1>5. /\ matchedTo' \in [StatementIds -> SUBSET PaymentIds]
      /\ \A a \in ps : a[1] \in StatementIds /\ a[2] \in PaymentIds /\ matchedTo'[a[1]] = {a[2]}
      /\ \A s \in StatementIds : (\A a \in ps : a[1] # s) => matchedTo'[s] = matchedTo[s]
  <2>1. matchedTo' = [s \in StatementIds |->
                        IF \E a \in ps : a[1] = s THEN {(CHOOSE a \in ps : a[1] = s)[2]}
                        ELSE matchedTo[s]]
    BY <1>2 DEF Bank!Write
  <2>2. ASSUME NEW a \in ps PROVE (CHOOSE b \in ps : b[1] = a[1]) = a
    BY <1>2 DEF Pairs
  <2>3. \A a \in ps : a[1] \in StatementIds /\ a[2] \in PaymentIds
    BY <1>2 DEF Pairs
  <2>4. \A a \in ps : matchedTo'[a[1]] = {a[2]}
    BY <2>1, <2>2, <2>3
  <2>5. \A s \in StatementIds : (\A a \in ps : a[1] # s) => matchedTo'[s] = matchedTo[s]
    BY <2>1
  <2>6. \A s \in StatementIds : matchedTo'[s] \in SUBSET PaymentIds
    BY <2>3, <2>4, <2>5 DEF BankInv
  <2>7. matchedTo' = [s \in StatementIds |-> matchedTo'[s]]
    BY <2>1
  <2> QED BY <2>3, <2>4, <2>5, <2>6, <2>7
<1>6. /\ statusOf' \in [PaymentIds -> {"POSTED", "RECONCILED", "REVERSED"}]
      /\ \A a \in ps : statusOf'[a[2]] = "RECONCILED"
      /\ \A p \in PaymentIds : (\A a \in ps : a[2] # p) => statusOf'[p] = statusOf[p]
  BY <1>2 DEF BankInv, Bank!Write, Pairs
<1>7. /\ DOMAIN matcher' = Matchers /\ matcher' = [d \in Matchers |-> matcher'[d]]
      /\ matcher'[c].at = "rest" /\ \A d \in Matchers \ {c} : matcher'[d] = matcher[d]
  BY <1>3 DEF BankInv, Bank!Free
<1>8. ASSUME NEW d \in Matchers PROVE MatcherOK(d)'
  <2>1. CASE d = c
    BY <1>7, <2>1 DEF MatcherOK
  <2>2. CASE d # c
    <3>1. MatcherOK(d) /\ matcher'[d] = matcher[d]
      BY <1>7, <2>2 DEF BankInv
    <3>2. matcher[d].at = "write" => "beside" \in meetings'
      BY <1>3, <2>2
    <3> QED BY <3>1, <3>2 DEF MatcherOK, Pairs
  <2> QED BY <2>1, <2>2
<1>9. ASSUME NEW s \in StatementIds, NEW p \in matchedTo'[s]
      PROVE  (\E a \in ps : a[1] = s /\ a[2] = p)
             \/ (p \in matchedTo[s] /\ \A a \in ps : a[1] # s)
  BY <1>5
<1>10. ASSUME NEW s \in StatementIds, NEW p \in matchedTo'[s] PROVE statusOf'[p] # "POSTED"
  <2>1. p \in PaymentIds
    BY <1>5
  <2>2. CASE \E a \in ps : a[2] = p
    BY <1>6, <2>2
  <2>3. CASE \A a \in ps : a[2] # p
    <3>1. p \in matchedTo[s] /\ statusOf'[p] = statusOf[p]
      BY <1>6, <1>9, <2>1, <2>3
    <3> QED BY <3>1 DEF BankInv
  <2> QED BY <2>2, <2>3
<1>11. "beside" \notin meetings' =>
         \A a \in ps : \A s \in StatementIds : a[2] \notin matchedTo[s]
  <2> SUFFICES ASSUME "beside" \notin meetings', NEW a \in ps, NEW s \in StatementIds
               PROVE  a[2] \notin matchedTo[s]
    OBVIOUS
  <2>1. statusOf[a[2]] = "POSTED"
    BY <1>4 DEF Bank!Confirmable, Bank!Posted
  <2> QED BY <2>1 DEF BankInv
<1>12. Bank!OneStatementPerPayment'
  <2> SUFFICES ASSUME "beside" \notin meetings', NEW s \in StatementIds, NEW t \in StatementIds,
                      NEW p, p \in matchedTo'[s], p \in matchedTo'[t]
               PROVE  s = t
    BY DEF Bank!OneStatementPerPayment
  <2>1. \A a, b \in ps : a[2] = b[2] => a = b
    BY <1>4 DEF Bank!Confirmable
  <2>2. \A u, v \in StatementIds : matchedTo[u] \cap matchedTo[v] # {} => u = v
    BY <1>3 DEF BankInv, Bank!StatementsMatch, Bank!OneStatementPerPayment
  <2>3. (\E a \in ps : a[1] = s /\ a[2] = p) \/ p \in matchedTo[s]
    BY <1>9
  <2>4. (\E a \in ps : a[1] = t /\ a[2] = p) \/ p \in matchedTo[t]
    BY <1>9
  <2>5. ASSUME NEW a \in ps, a[2] = p PROVE p \notin matchedTo[s] /\ p \notin matchedTo[t]
    BY <1>11, <2>5
  <2>6. CASE \E a \in ps : a[2] = p
    BY <2>1, <2>3, <2>4, <2>5, <2>6
  <2>7. CASE \A a \in ps : a[2] # p
    BY <2>2, <2>3, <2>4, <2>7
  <2> QED BY <2>6, <2>7
<1>13. Bank!ReconciledIsMatched'
  <2> SUFFICES ASSUME meetings' = {}, NEW p \in PaymentIds, statusOf'[p] # "REVERSED"
               PROVE  statusOf'[p] = "RECONCILED" <=> \E s \in StatementIds : p \in matchedTo'[s]
    BY DEF Bank!ReconciledIsMatched
  <2>1. meetings = {} /\ \A a \in ps : matchedTo[a[1]] = {}
    BY <1>3
  <2>2. CASE \E a \in ps : a[2] = p
    BY <1>5, <1>6, <2>2
  <2>3. CASE \A a \in ps : a[2] # p
    <3>1. statusOf'[p] = statusOf[p]
      BY <1>6, <2>3
    <3>2. \A s \in StatementIds : p \in matchedTo'[s] <=> p \in matchedTo[s]
      BY <1>5, <2>1, <2>3
    <3>3. statusOf[p] = "RECONCILED" <=> \E s \in StatementIds : p \in matchedTo[s]
      BY <2>1, <3>1 DEF BankInv, Bank!StatementsMatch, Bank!ReconciledIsMatched
    <3> QED BY <3>1, <3>2, <3>3
  <2> QED BY <2>2, <2>3
<1> QED BY <1>5, <1>6, <1>7, <1>8, <1>10, <1>12, <1>13 DEF BankInv, Bank!StatementsMatch

\* A payment is reversed, whatever its status.
LEMMA BankReverseStep ==
    ASSUME BankInv, NEW p \in PaymentIds, Bank!ReversePayment(p)
    PROVE  BankInv'
<1>1. /\ statusOf' = [statusOf EXCEPT ![p] = "REVERSED"] /\ UNCHANGED <<matchedTo, matcher>>
      /\ meetings \subseteq meetings'
      /\ \A d \in Matchers : matcher[d].at = "write" => "beside" \in meetings'
  BY DEF Bank!ReversePayment
<1>2. /\ statusOf' \in [PaymentIds -> {"POSTED", "RECONCILED", "REVERSED"}]
      /\ statusOf'[p] = "REVERSED" /\ \A q \in PaymentIds \ {p} : statusOf'[q] = statusOf[q]
  BY <1>1 DEF BankInv
<1>3. ASSUME NEW d \in Matchers PROVE MatcherOK(d)'
  <2>1. MatcherOK(d) /\ matcher'[d] = matcher[d] /\ (matcher[d].at = "write" => "beside" \in meetings')
    BY <1>1 DEF BankInv
  <2> QED BY <2>1 DEF MatcherOK, Pairs
<1>4. \A s \in StatementIds : \A q \in matchedTo'[s] : statusOf'[q] # "POSTED"
  BY <1>1, <1>2 DEF BankInv
<1>5. Bank!OneStatementPerPayment'
  BY <1>1 DEF BankInv, Bank!StatementsMatch, Bank!OneStatementPerPayment
<1>6. Bank!ReconciledIsMatched'
  <2> SUFFICES ASSUME meetings' = {}, NEW q \in PaymentIds, statusOf'[q] # "REVERSED"
               PROVE  statusOf'[q] = "RECONCILED" <=> \E s \in StatementIds : q \in matchedTo'[s]
    BY DEF Bank!ReconciledIsMatched
  <2>1. meetings = {} /\ statusOf'[q] = statusOf[q]
    BY <1>1, <1>2
  <2> QED BY <1>1, <2>1 DEF BankInv, Bank!StatementsMatch, Bank!ReconciledIsMatched
<1>7. /\ matchedTo' \in [StatementIds -> SUBSET PaymentIds]
      /\ DOMAIN matcher' = Matchers /\ matcher' = [d \in Matchers |-> matcher'[d]]
  BY <1>1 DEF BankInv
<1> QED BY <1>2, <1>3, <1>4, <1>5, <1>6, <1>7 DEF BankInv, Bank!StatementsMatch

LEMMA BankStep ==
    ASSUME BankInv, [Bank!BankNext]_Bank!bankVars
    PROVE  BankInv'
<1>1. CASE UNCHANGED Bank!bankVars
  <2>1. UNCHANGED <<matchedTo, statusOf, matcher, meetings>>
    BY <1>1 DEF Bank!bankVars
  <2>2. ASSUME NEW d \in Matchers PROVE MatcherOK(d)'
    <3>1. MatcherOK(d) /\ matcher'[d] = matcher[d]
      BY <2>1 DEF BankInv
    <3> QED BY <2>1, <3>1 DEF MatcherOK, Pairs, Bank!Confirmable, Bank!Posted
  <2> QED BY <2>1, <2>2 DEF BankInv, Bank!StatementsMatch, Bank!OneStatementPerPayment,
        Bank!ReconciledIsMatched
<1> QED BY <1>1, ProposeStep, SelectStep, ConfirmReadStep, AutoReadStep, ManualReadStep,
        BankCommitStep, BankReverseStep DEF Bank!BankNext

\* Both bank reconciliation services and PaymentService.reverse: for any statements and
\* payments, whatever their amounts, dates and references, matching is one to one, calls
\* that meet and confirmations of a matched statement excepted.
THEOREM StatementsMatchPayments ==
    OfficeSpec => []StatementsMatch
<1>1. ASSUME Bank!BankInit PROVE BankInv
  <2>1. ASSUME NEW c \in Matchers PROVE MatcherOK(c)
    BY <1>1 DEF Bank!BankInit, Bank!Free, MatcherOK
  <2> QED BY <1>1, <2>1 DEF Bank!BankInit, BankInv, Bank!StatementsMatch,
        Bank!OneStatementPerPayment, Bank!ReconciledIsMatched
<1>2. BankInv => StatementsMatch
  BY DEF BankInv, StatementsMatch
<1> QED BY <1>1, <1>2, BankStep, OfficeStarts, OfficeMoves, PTL DEF OfficeSpec

-----------------------------------------------------------------------------
(* Reports *)

\* Events have a template, and amounts are amounts.
ReportTypes ==
    /\ ReportEvents \subseteq {t[1] : t \in Rep!Templates}
    /\ ReportAmounts \subseteq Nat /\ TaxIn \in Nat
    /\ IsFiniteSet(ReportPeriods)

LEMMA SumOfReports ==
    ASSUME NEW f
    PROVE  Rep!SumFunction(f) = SumFunctionOnSet(f, DOMAIN f)
BY DEF Rep!SumFunction, SumFunction, Rep!SumFunctionOnSet, SumFunctionOnSet,
       Rep!FoldFunctionOnSet, FoldFunctionOnSet, Rep!MapThenFoldSet, MapThenFoldSet

LEMMA FourFinite ==
    ASSUME NEW a, NEW b, NEW c, NEW d
    PROVE  IsFiniteSet({a, b, c, d})
<1>1. IsFiniteSet({a}) /\ IsFiniteSet({b}) /\ IsFiniteSet({c}) /\ IsFiniteSet({d})
  BY FS_Singleton
<1>2. IsFiniteSet({a} \cup {b}) /\ IsFiniteSet({c} \cup {d})
  BY <1>1, FS_Union
<1>3. IsFiniteSet(({a} \cup {b}) \cup ({c} \cup {d}))
  BY <1>2, FS_Union
<1>4. ({a} \cup {b}) \cup ({c} \cup {d}) = {a, b, c, d}
  OBVIOUS
<1> QED BY <1>3, <1>4

\* The accounts of each type.
LEMMA TypesAre ==
    /\ Rep!AccountsOf.ASSET = {"petty_cash", "bank", "operating_bank"}
          \cup {"receivables", "inventory", "receipt_clearing"} \cup {"depreciation"}
    /\ Rep!AccountsOf.LIABILITY = {"payables", "tax_payable"}
    /\ Rep!AccountsOf.EQUITY = {"retained_earnings", "income_summary"}
    /\ Rep!AccountsOf.REVENUE = {"sales", "sales_returns"}
    /\ Rep!AccountsOf.OTHER_INCOME = {"other_income", "opname_gain"}
    /\ Rep!AccountsOf.COGS = {"cost_of_sales"}
    /\ Rep!AccountsOf.EXPENSE = {"operating_cost", "depreciation_cost"}
    /\ Rep!AccountsOf.OTHER_EXPENSE
         = {"opname_loss", "bad_debts", "stock_variance", "bank_variance"}
    /\ DOMAIN Rep!AccountsOf = {"ASSET", "LIABILITY", "EQUITY", "REVENUE", "OTHER_INCOME",
                                "COGS", "EXPENSE", "OTHER_EXPENSE"}
BY DEF Rep!AccountsOf, Rep!CashAccounts, Rep!OtherAssets, Rep!OtherCosts

LEMMA ChartIsTypes ==
    Rep!Accounts = Rep!AccountsOf.ASSET \cup Rep!AccountsOf.LIABILITY \cup Rep!AccountsOf.EQUITY
              \cup Rep!AccountsOf.REVENUE \cup Rep!AccountsOf.OTHER_INCOME
              \cup Rep!AccountsOf.COGS \cup Rep!AccountsOf.EXPENSE
              \cup Rep!AccountsOf.OTHER_EXPENSE
<1> DEFINE of == Rep!AccountsOf
<1>1. Rep!Accounts = UNION {of[t] : t \in DOMAIN of}
  BY DEF Rep!Accounts
<1>2. DOMAIN of = {"ASSET", "LIABILITY", "EQUITY", "REVENUE", "OTHER_INCOME",
                   "COGS", "EXPENSE", "OTHER_EXPENSE"}
  BY TypesAre
<1> HIDE DEF of
<1>3. Rep!Accounts = of["ASSET"] \cup of["LIABILITY"] \cup of["EQUITY"] \cup of["REVENUE"]
                \cup of["OTHER_INCOME"] \cup of["COGS"] \cup of["EXPENSE"]
                \cup of["OTHER_EXPENSE"]
  BY <1>1, <1>2
<1> QED BY <1>3 DEF of

LEMMA ChartIs ==
    Rep!Accounts = {"petty_cash", "bank", "operating_bank", "receivables", "inventory",
             "receipt_clearing", "depreciation", "payables", "tax_payable",
             "retained_earnings", "income_summary", "sales", "sales_returns",
             "other_income", "opname_gain", "cost_of_sales", "operating_cost",
             "depreciation_cost", "opname_loss", "bad_debts", "stock_variance",
             "bank_variance"}
BY ChartIsTypes, TypesAre

LEMMA ChartFinite == IsFiniteSet(Rep!Accounts)
<1> DEFINE P == {"petty_cash", "bank", "operating_bank", "receivables"}
           Q == {"inventory", "receipt_clearing", "depreciation", "payables"}
           R == {"tax_payable", "retained_earnings", "income_summary", "sales"}
           S == {"sales_returns", "other_income", "opname_gain", "cost_of_sales"}
           T == {"operating_cost", "depreciation_cost", "opname_loss", "bad_debts"}
           U == {"stock_variance", "bank_variance", "stock_variance", "bank_variance"}
<1>1. Rep!Accounts = ((P \cup Q) \cup (R \cup S)) \cup (T \cup U)
  BY ChartIs
<1>2. /\ IsFiniteSet(P) /\ IsFiniteSet(Q) /\ IsFiniteSet(R) /\ IsFiniteSet(S)
      /\ IsFiniteSet(T) /\ IsFiniteSet(U)
  BY FourFinite
<1> HIDE DEF P, Q, R, S, T, U
<1>3. IsFiniteSet(P \cup Q) /\ IsFiniteSet(R \cup S) /\ IsFiniteSet(T \cup U)
  BY <1>2, FS_Union
<1>4. IsFiniteSet((P \cup Q) \cup (R \cup S))
  BY <1>3, FS_Union
<1> QED BY <1>1, <1>3, <1>4, FS_Union

\* An event has one template.
LEMMA TemplatesDiffer ==
    ASSUME NEW t \in Rep!Templates, NEW u \in Rep!Templates, t[1] = u[1]
    PROVE  t = u
<1> DEFINE OfPurchase == {"GOODS_RECEIPT", "SUPPLIER_INVOICE", "PURCHASE_PAYMENT"}
           OfSales == {"SALES_INVOICE", "SALES_INVOICE_COGS", "POS_SALE", "POS_SALE_COGS"}
           OfSettlement == {"SALES_RETURN", "SALES_RETURN_STOCK", "PAYMENT_RECEIPT"}
           OfStock ==
             {"STOCK_ADJUSTMENT_POSITIVE", "STOCK_ADJUSTMENT_NEGATIVE",
              "STOCK_OPNAME_SURPLUS", "STOCK_OPNAME_DEFICIT"}
           OfClosing ==
             {"PERIOD_CLOSING_REVENUE", "PERIOD_CLOSING_EXPENSE", "PERIOD_CLOSING_NET",
              "DEPRECIATION", "BANK_RECONCILIATION_ADJ", "WRITE_OFF_AR"}
           OfVoid == {"POS_SALE_REVERSAL", "POS_SALE_COGS_REVERSAL"}
           OfCash ==
             {"CASH_IN", "CASH_OUT",
              "EXPENSE_PAYMENT", "TAX_PAYMENT", "INTER_ACCOUNT_TRANSFER"}
<1>1. \A x \in Rep!PurchaseTemplates : x[1] \in OfPurchase
  BY DEF Rep!PurchaseTemplates
<1>2. \A x \in Rep!SalesTemplates : x[1] \in OfSales
  BY DEF Rep!SalesTemplates
<1>3. \A x \in Rep!SettlementTemplates : x[1] \in OfSettlement
  BY DEF Rep!SettlementTemplates
<1>4. \A x \in Rep!StockTemplates : x[1] \in OfStock
  BY DEF Rep!StockTemplates
<1>5. \A x \in Rep!ClosingTemplates : x[1] \in OfClosing
  BY DEF Rep!ClosingTemplates
<1>6. \A x \in Rep!VoidTemplates : x[1] \in OfVoid
  BY DEF Rep!VoidTemplates
<1>7. \A x \in Rep!CashTemplates : x[1] \in OfCash
  BY DEF Rep!CashTemplates
<1>8. \A x, y \in Rep!PurchaseTemplates : x[1] = y[1] => x = y
  BY DEF Rep!PurchaseTemplates
<1>9. \A x, y \in Rep!SalesTemplates : x[1] = y[1] => x = y
  BY DEF Rep!SalesTemplates
<1>10. \A x, y \in Rep!SettlementTemplates : x[1] = y[1] => x = y
  BY DEF Rep!SettlementTemplates
<1>11. \A x, y \in Rep!StockTemplates : x[1] = y[1] => x = y
  BY DEF Rep!StockTemplates
<1>12. \A x, y \in Rep!ClosingTemplates : x[1] = y[1] => x = y
  BY DEF Rep!ClosingTemplates
<1>13. \A x, y \in Rep!VoidTemplates : x[1] = y[1] => x = y
  BY DEF Rep!VoidTemplates
<1>14. \A x, y \in Rep!CashTemplates : x[1] = y[1] => x = y
  BY DEF Rep!CashTemplates
<1>15. /\ OfPurchase \cap (OfSales \cup OfSettlement \cup OfStock \cup OfClosing \cup OfVoid
                           \cup OfCash) = {}
       /\ OfSales \cap (OfSettlement \cup OfStock \cup OfClosing \cup OfVoid \cup OfCash) = {}
       /\ OfSettlement \cap (OfStock \cup OfClosing \cup OfVoid \cup OfCash) = {}
       /\ OfStock \cap (OfClosing \cup OfVoid \cup OfCash) = {}
       /\ OfClosing \cap (OfVoid \cup OfCash) = {}
       /\ OfVoid \cap OfCash = {}
  OBVIOUS
<1>16. \/ t \in Rep!PurchaseTemplates \/ t \in Rep!SalesTemplates \/ t \in Rep!SettlementTemplates
       \/ t \in Rep!StockTemplates \/ t \in Rep!ClosingTemplates \/ t \in Rep!VoidTemplates
       \/ t \in Rep!CashTemplates
  BY DEF Rep!Templates, Rep!FactoryTemplates
<1>17. \/ u \in Rep!PurchaseTemplates \/ u \in Rep!SalesTemplates \/ u \in Rep!SettlementTemplates
       \/ u \in Rep!StockTemplates \/ u \in Rep!ClosingTemplates \/ u \in Rep!VoidTemplates
       \/ u \in Rep!CashTemplates
  BY DEF Rep!Templates, Rep!FactoryTemplates
<1> HIDE DEF OfPurchase, OfSales, OfSettlement, OfStock, OfClosing, OfVoid, OfCash
<1> QED BY <1>1, <1>2, <1>3, <1>4, <1>5, <1>6, <1>7, <1>8, <1>9, <1>10, <1>11, <1>12, <1>13,
           <1>14, <1>15, <1>16, <1>17

LEMMA TemplateIs ==
    ASSUME NEW t \in Rep!Templates
    PROVE  Rep!Template(t[1]) = t
<1> DEFINE u == Rep!Template(t[1])
<1>1. u \in Rep!Templates /\ u[1] = t[1]
  BY DEF Rep!Template
<1> QED BY <1>1, TemplatesDiffer

-----------------------------------------------------------------------------
(* Lines *)

LEMMA DebitIs ==
    ASSUME NEW a \in Rep!Accounts, NEW n \in Int
    PROVE  Rep!Debit(a, n) \in [Rep!Accounts -> Int] /\ Rep!Total(Rep!Debit(a, n)) = n
<1> DEFINE f == Rep!Debit(a, n)
<1>1. f \in [Rep!Accounts -> Int] /\ f[a] = n /\ \A b \in Rep!Accounts \ {a} : f[b] = 0
  BY DEF Rep!Debit
<1>2. Rep!Total(f) = Rep!SumFunction(f)
  BY DEF Rep!Total
<1> HIDE DEF f
<1>3. Rep!SumFunction(f) = SumFunctionOnSet(f, Rep!Accounts)
  BY <1>1, SumOfReports
<1>4. IsFiniteSet({a}) /\ {a} \subseteq Rep!Accounts /\ \A b \in Rep!Accounts : f[b] \in Int
  BY <1>1, FS_Singleton
<1>5. SumFunctionOnSet(f, {a}) = SumFunctionOnSet(f, Rep!Accounts)
  BY <1>1, <1>4, ChartFinite, SumNonZero
<1>6. SumFunctionOnSet(f, {a}) = f[a] + SumFunctionOnSet(f, {a} \ {a})
  BY <1>4, SumRemove
<1>7. {a} \ {a} = {}
  OBVIOUS
<1> QED BY <1>1, <1>2, <1>3, <1>5, <1>6, <1>7, SumEmpty DEF f

LEMMA AndIs ==
    ASSUME NEW f \in [Rep!Accounts -> Int], NEW g \in [Rep!Accounts -> Int]
    PROVE  /\ Rep!And(f, g) \in [Rep!Accounts -> Int]
           /\ Rep!Total(Rep!And(f, g)) = Rep!Total(f) + Rep!Total(g)
<1> DEFINE h == Rep!And(f, g)
<1>1. /\ h \in [Rep!Accounts -> Int]
      /\ \A a \in Rep!Accounts : f[a] \in Int /\ g[a] \in Int /\ h[a] = f[a] + g[a]
  BY DEF Rep!And
<1>2. Rep!Total(f) = Rep!SumFunction(f) /\ Rep!Total(g) = Rep!SumFunction(g)
      /\ Rep!Total(h) = Rep!SumFunction(h)
  BY DEF Rep!Total
<1> HIDE DEF h
<1>3. /\ Rep!SumFunction(f) = SumFunctionOnSet(f, Rep!Accounts)
      /\ Rep!SumFunction(g) = SumFunctionOnSet(g, Rep!Accounts)
      /\ Rep!SumFunction(h) = SumFunctionOnSet(h, Rep!Accounts)
  BY <1>1, SumOfReports
<1>4. SumFunctionOnSet(h, Rep!Accounts)
        = SumFunctionOnSet(f, Rep!Accounts) + SumFunctionOnSet(g, Rep!Accounts)
  BY <1>1, ChartFinite, SumPlus
<1> QED BY <1>1, <1>2, <1>3, <1>4 DEF h

\* A pair of lines balances.
LEMMA PairBalances ==
    ASSUME NEW a \in Rep!Accounts, NEW b \in Rep!Accounts, NEW n \in Int
    PROVE  Rep!Pair(a, b, n) \in [Rep!Accounts -> Int] /\ Rep!Total(Rep!Pair(a, b, n)) = 0
<1> DEFINE f == Rep!Debit(a, n)
           g == Rep!Debit(b, -n)
<1>1. /\ f \in [Rep!Accounts -> Int] /\ Rep!Total(f) = n
      /\ g \in [Rep!Accounts -> Int] /\ Rep!Total(g) = -n
  BY DebitIs
<1>2. Rep!Pair(a, b, n) = Rep!And(f, g)
  BY DEF Rep!Pair, Rep!Credit
<1> HIDE DEF f, g
<1> QED BY <1>1, <1>2, AndIs

LEMMA PosSaleBalances ==
    ASSUME NEW n \in Int, NEW t \in Int, NEW s \in {1, -1}
    PROVE  /\ Rep!PosSaleLines(n, t, s) \in [Rep!Accounts -> Int]
           /\ Rep!Total(Rep!PosSaleLines(n, t, s)) = 0
<1> DEFINE f == Rep!Debit("petty_cash", s * n)
           g == Rep!Debit("sales", -(s * (n - t)))
           h == Rep!Debit("tax_payable", -(s * t))
<1>1. "petty_cash" \in Rep!Accounts /\ "sales" \in Rep!Accounts /\ "tax_payable" \in Rep!Accounts
  BY ChartIs
<1>2. /\ f \in [Rep!Accounts -> Int] /\ Rep!Total(f) = s * n
      /\ g \in [Rep!Accounts -> Int] /\ Rep!Total(g) = -(s * (n - t))
      /\ h \in [Rep!Accounts -> Int] /\ Rep!Total(h) = -(s * t)
  BY <1>1, DebitIs
<1>3. Rep!PosSaleLines(n, t, s) = Rep!And(f, Rep!And(g, h))
  BY DEF Rep!PosSaleLines, Rep!Credit
<1> HIDE DEF f, g, h
<1>4. Rep!And(g, h) \in [Rep!Accounts -> Int]
      /\ Rep!Total(Rep!And(g, h)) = Rep!Total(g) + Rep!Total(h)
  BY <1>2, AndIs
<1>5. /\ Rep!PosSaleLines(n, t, s) \in [Rep!Accounts -> Int]
      /\ Rep!Total(Rep!PosSaleLines(n, t, s)) = Rep!Total(f) + (Rep!Total(g) + Rep!Total(h))
  BY <1>2, <1>3, <1>4, AndIs
<1>6. s * n + (-(s * (n - t)) + -(s * t)) = 0
  OBVIOUS
<1> QED BY <1>2, <1>5, <1>6

\* An event that is posted without lines has a template, with accounts of the chart.
LEMMA EntryBalances ==
    ASSUME ReportTypes, NEW e \in {t[1] : t \in Rep!Templates}, NEW n \in Int
    PROVE  /\ Rep!EntryLines(e, n, TaxIn) \in [Rep!Accounts -> Int]
           /\ Rep!Total(Rep!EntryLines(e, n, TaxIn)) = 0
<1>1. TaxIn \in Int
  BY DEF ReportTypes
<1>2. CASE e \in DOMAIN Rep!PosSales
  <2>1. Rep!PosSales[e] \in {1, -1}
    BY <1>2 DEF Rep!PosSales
  <2>2. Rep!EntryLines(e, n, TaxIn) = Rep!PosSaleLines(n, TaxIn, Rep!PosSales[e])
    BY <1>2 DEF Rep!EntryLines
  <2> QED BY <1>1, <2>1, <2>2, PosSaleBalances
<1>3. CASE e \notin DOMAIN Rep!PosSales
  <2>1. PICK t \in Rep!Templates : t[1] = e
    OBVIOUS
  <2>2. Rep!Template(e) = t
    BY <2>1, TemplateIs
  <2>3. t[2] \in Rep!Accounts /\ t[3] \in Rep!Accounts
    BY DEF Rep!Templates
  <2>4. Rep!EntryLines(e, n, TaxIn) = Rep!Pair(t[2], t[3], n)
    BY <1>3, <2>2 DEF Rep!EntryLines, Rep!TemplateLines
  <2> QED BY <2>3, <2>4, PairBalances
<1> QED BY <1>2, <1>3

LEMMA AndNothing ==
    ASSUME NEW f \in [Rep!Accounts -> Int]
    PROVE  Rep!And(f, [a \in Rep!Accounts |-> 0]) = f
<1>1. Rep!And(f, [a \in Rep!Accounts |-> 0]) = [a \in Rep!Accounts |-> f[a] + 0]
  BY DEF Rep!And
<1>2. \A a \in Rep!Accounts : f[a] + 0 = f[a]
  OBVIOUS
<1>3. f = [a \in Rep!Accounts |-> f[a]]
  OBVIOUS
<1> QED BY <1>1, <1>2, <1>3

\* The events whose tax is told apart, by the factory or by the services.
Taxed == {"SALES_INVOICE", "SALES_RETURN", "POS_SALE"}

LEMMA FactoryPairs ==
    ASSUME NEW t \in Rep!FactoryTemplates, t[1] \notin Taxed, NEW n \in Nat, NEW tax
    PROVE  Rep!Factory(t[1], n, tax) = Rep!Pair(t[2], t[3], n)
<1>1. CASE t \in Rep!PurchaseTemplates
  <2>1. \/ t[1] = "GOODS_RECEIPT" /\ t[2] = "inventory" /\ t[3] = "receipt_clearing"
        \/ t[1] = "SUPPLIER_INVOICE" /\ t[2] = "receipt_clearing" /\ t[3] = "payables"
        \/ t[1] = "PURCHASE_PAYMENT" /\ t[2] = "payables" /\ t[3] = "bank"
    BY <1>1 DEF Rep!PurchaseTemplates, Taxed
  <2> QED BY <2>1 DEF Rep!Factory, Rep!GoodsReceiptEvent, Rep!SupplierInvoiceEvent,
                        Rep!PurchasePaymentEvent
<1>2. CASE t \in Rep!SettlementTemplates
  <2>1. \/ t[1] = "SALES_RETURN_STOCK" /\ t[2] = "inventory" /\ t[3] = "cost_of_sales"
        \/ t[1] = "PAYMENT_RECEIPT" /\ t[2] = "bank" /\ t[3] = "receivables"
    BY <1>2 DEF Rep!SettlementTemplates, Taxed
  <2> QED BY <2>1 DEF Rep!Factory, Rep!SalesReturnStockEvent, Rep!PaymentReceiptEvent
<1>3. CASE t \in Rep!StockTemplates
  <2>1. \/ t[1] = "STOCK_ADJUSTMENT_POSITIVE" /\ t[2] = "inventory" /\ t[3] = "stock_variance"
        \/ t[1] = "STOCK_ADJUSTMENT_NEGATIVE" /\ t[2] = "stock_variance" /\ t[3] = "inventory"
        \/ t[1] = "STOCK_OPNAME_SURPLUS" /\ t[2] = "inventory" /\ t[3] = "opname_gain"
        \/ t[1] = "STOCK_OPNAME_DEFICIT" /\ t[2] = "opname_loss" /\ t[3] = "inventory"
    BY <1>3 DEF Rep!StockTemplates, Taxed
  <2> QED BY <2>1 DEF Rep!Factory, Rep!StockAdjustmentPositiveEvent,
                        Rep!StockAdjustmentNegativeEvent, Rep!StockOpnameSurplusEvent,
                        Rep!StockOpnameDeficitEvent
<1>4. CASE t \in Rep!ClosingTemplates
  <2>1. \/ t[1] = "PERIOD_CLOSING_REVENUE" /\ t[2] = "sales" /\ t[3] = "income_summary"
        \/ t[1] = "PERIOD_CLOSING_EXPENSE" /\ t[2] = "income_summary" /\ t[3] = "operating_cost"
        \/ t[1] = "PERIOD_CLOSING_NET" /\ t[2] = "income_summary" /\ t[3] = "retained_earnings"
        \/ t[1] = "DEPRECIATION" /\ t[2] = "depreciation_cost" /\ t[3] = "depreciation"
        \/ t[1] = "BANK_RECONCILIATION_ADJ" /\ t[2] = "bank_variance" /\ t[3] = "bank"
        \/ t[1] = "WRITE_OFF_AR" /\ t[2] = "bad_debts" /\ t[3] = "receivables"
    BY <1>4 DEF Rep!ClosingTemplates, Taxed
  <2> QED BY <2>1 DEF Rep!Factory, Rep!PeriodClosingRevenueEvent,
                        Rep!PeriodClosingExpenseEvent, Rep!PeriodClosingNetEvent,
                        Rep!DepreciationEvent, Rep!BankReconciliationAdjEvent,
                        Rep!WriteOffAREvent
<1>5. CASE t \in Rep!SalesTemplates
  <2>1. \/ t[1] = "SALES_INVOICE_COGS" /\ t[2] = "cost_of_sales" /\ t[3] = "inventory"
        \/ t[1] = "POS_SALE_COGS" /\ t[2] = "cost_of_sales" /\ t[3] = "inventory"
    BY <1>5 DEF Rep!SalesTemplates, Taxed
  <2> QED BY <2>1 DEF Rep!Factory, Rep!SalesInvoiceCOGSEvent, Rep!POSSaleCOGSEvent
<1> QED BY <1>1, <1>2, <1>3, <1>4, <1>5 DEF Rep!FactoryTemplates

\* What the services post is what the factory builds, the tax of invoices and returns apart.
LEMMA EntriesAreFactory ==
    ASSUME ReportTypes, NEW e \in Rep!FactoryEvents, NEW n \in Nat
    PROVE  Rep!EntryLines(e, n, TaxIn) = Rep!AsFactory(e, n)
<1>1. PICK t \in Rep!FactoryTemplates \cap Rep!Templates : t[1] = e
  BY DEF Rep!FactoryEvents
<1>2. Rep!Template(e) = t
  BY <1>1, TemplateIs
<1>3. TaxIn \in Nat
  BY DEF ReportTypes
<1>4. CASE e \notin Taxed
  <2>1. e \notin DOMAIN Rep!PosSales
    <3>1. DOMAIN Rep!PosSales = {"POS_SALE", "POS_SALE_REVERSAL"}
      BY DEF Rep!PosSales
    <3>2. e # "POS_SALE_REVERSAL"
      BY <1>1 DEF Rep!FactoryTemplates, Rep!PurchaseTemplates, Rep!SalesTemplates,
                  Rep!SettlementTemplates, Rep!StockTemplates, Rep!ClosingTemplates
    <3> QED BY <1>4, <3>1, <3>2 DEF Taxed
  <2>2. Rep!EntryLines(e, n, TaxIn) = Rep!Pair(t[2], t[3], n)
    BY <1>2, <2>1 DEF Rep!EntryLines, Rep!TemplateLines
  <2>3. Rep!Factory(e, n, TaxIn) = Rep!Pair(t[2], t[3], n)
    BY <1>1, <1>4, FactoryPairs
  <2>4. Rep!TaxLeft(e) = [a \in Rep!Accounts |-> 0]
    BY <1>4 DEF Rep!TaxLeft, Taxed
  <2>5. Rep!Pair(t[2], t[3], n) \in [Rep!Accounts -> Int]
    <3>1. t[2] \in Rep!Accounts /\ t[3] \in Rep!Accounts
      BY DEF Rep!Templates
    <3>2. n \in Int
      OBVIOUS
    <3> QED BY <3>1, <3>2, PairBalances
  <2> DEFINE f == Rep!Pair(t[2], t[3], n)
  <2>6. Rep!And(f, [a \in Rep!Accounts |-> 0]) = f
    BY <2>5, AndNothing
  <2> QED BY <2>2, <2>3, <2>4, <2>6 DEF Rep!AsFactory
<1>5. CASE e = "POS_SALE"
  <2>1. Rep!EntryLines(e, n, TaxIn) = Rep!PosSaleLines(n, TaxIn, 1)
    BY <1>5 DEF Rep!EntryLines, Rep!PosSales
  <2>2. Rep!Factory(e, n, TaxIn)
          = Rep!POSSaleEvent(Rep!Debit("petty_cash", n), n - TaxIn, TaxIn)
    BY <1>5 DEF Rep!Factory
  <2>3. Rep!TaxLeft(e) = [a \in Rep!Accounts |-> 0]
    BY <1>5 DEF Rep!TaxLeft
  <2>4. 1 * n = n /\ 1 * TaxIn = TaxIn /\ 1 * (n - TaxIn) = n - TaxIn
    BY <1>3
  <2> DEFINE f == Rep!And(Rep!Debit("petty_cash", n),
                          Rep!And(Rep!Credit("sales", n - TaxIn), Rep!Credit("tax_payable", TaxIn)))
  <2>5. Rep!PosSaleLines(n, TaxIn, 1) = f
    BY <2>4 DEF Rep!PosSaleLines
  <2>6. Rep!POSSaleEvent(Rep!Debit("petty_cash", n), n - TaxIn, TaxIn) = f
    BY DEF Rep!POSSaleEvent
  <2>7. f \in [Rep!Accounts -> Int]
    BY <2>5, <1>3, PosSaleBalances
  <2>8. Rep!And(f, [a \in Rep!Accounts |-> 0]) = f
    BY <2>7, AndNothing
  <2> HIDE DEF f
  <2> QED BY <2>1, <2>2, <2>3, <2>5, <2>6, <2>8 DEF Rep!AsFactory
<1>6. CASE e = "SALES_INVOICE"
  <2>1. t[2] = "receivables" /\ t[3] = "sales"
    <3>1. <<"SALES_INVOICE", "receivables", "sales">> \in Rep!Templates
      BY ChartIs DEF Rep!Templates, Rep!FactoryTemplates, Rep!SalesTemplates
    <3>2. t = <<"SALES_INVOICE", "receivables", "sales">>
      BY <1>1, <1>6, <3>1, TemplatesDiffer
    <3> QED BY <3>2
  <2>2. Rep!EntryLines(e, n, TaxIn) = Rep!Pair("receivables", "sales", n)
    BY <1>2, <1>6, <2>1 DEF Rep!EntryLines, Rep!TemplateLines, Rep!PosSales
  <2>3. Rep!Factory(e, n, TaxIn) = Rep!SalesInvoiceEvent(n - TaxIn, TaxIn)
    BY <1>6 DEF Rep!Factory
  <2>4. Rep!TaxLeft(e) = Rep!Pair("tax_payable", "sales", TaxIn)
    BY <1>6 DEF Rep!TaxLeft
  <2>5. Rep!Pair("receivables", "sales", n)
          = Rep!And(Rep!SalesInvoiceEvent(n - TaxIn, TaxIn),
                    Rep!Pair("tax_payable", "sales", TaxIn))
    BY <1>3 DEF Rep!Pair, Rep!And, Rep!SalesInvoiceEvent, Rep!Debit, Rep!Credit
  <2> QED BY <2>2, <2>3, <2>4, <2>5 DEF Rep!AsFactory
<1>7. CASE e = "SALES_RETURN"
  <2>1. t[2] = "sales_returns" /\ t[3] = "receivables"
    <3>1. <<"SALES_RETURN", "sales_returns", "receivables">> \in Rep!Templates
      BY ChartIs DEF Rep!Templates, Rep!FactoryTemplates, Rep!SettlementTemplates
    <3>2. t = <<"SALES_RETURN", "sales_returns", "receivables">>
      BY <1>1, <1>7, <3>1, TemplatesDiffer
    <3> QED BY <3>2
  <2>2. Rep!EntryLines(e, n, TaxIn) = Rep!Pair("sales_returns", "receivables", n)
    BY <1>2, <1>7, <2>1 DEF Rep!EntryLines, Rep!TemplateLines, Rep!PosSales
  <2>3. Rep!Factory(e, n, TaxIn) = Rep!SalesReturnEvent(n - TaxIn, TaxIn)
    BY <1>7 DEF Rep!Factory
  <2>4. Rep!TaxLeft(e) = Rep!Pair("sales_returns", "tax_payable", TaxIn)
    BY <1>7 DEF Rep!TaxLeft
  <2>5. Rep!Pair("sales_returns", "receivables", n)
          = Rep!And(Rep!SalesReturnEvent(n - TaxIn, TaxIn),
                    Rep!Pair("sales_returns", "tax_payable", TaxIn))
    BY <1>3 DEF Rep!Pair, Rep!And, Rep!SalesReturnEvent, Rep!Debit, Rep!Credit
  <2> QED BY <2>2, <2>3, <2>4, <2>5 DEF Rep!AsFactory
<1> QED BY <1>4, <1>5, <1>6, <1>7 DEF Taxed

-----------------------------------------------------------------------------
(* Net debits *)

Row == [event : ReportEvents \cup {"JE_REVERSAL", "PERIOD_CLOSING"}, period : ReportPeriods,
        net : [Rep!Accounts -> Int], status : {"POSTED", "REVERSED"}]

Term(row, a, ps) == IF row.status = "POSTED" /\ row.period \in ps THEN row.net[a] ELSE 0
NetOn(rows, a, ps) ==
    SumFunctionOnSet([i \in DOMAIN rows |-> Term(rows[i], a, ps)], DOMAIN rows)
IncomeOn(rows, p) ==
    0 - SumFunctionOnSet([a \in Rep!Nominal |-> NetOn(rows, a, {p})], Rep!Nominal)

LEMMA NetIs ==
    ASSUME NEW a, NEW ps
    PROVE  Rep!NetOf(a, ps) = NetOn(booked, a, ps)
<1> DEFINE f == [i \in DOMAIN booked |-> Term(booked[i], a, ps)]
<1>1. Rep!NetOf(a, ps) = Rep!SumFunction(f) /\ DOMAIN f = DOMAIN booked
  BY DEF Rep!NetOf, Term
<1>2. NetOn(booked, a, ps) = SumFunctionOnSet(f, DOMAIN booked)
  BY DEF NetOn
<1> HIDE DEF f
<1> QED BY <1>1, <1>2, SumOfReports

LEMMA NominalAre ==
    /\ Rep!Nominal = {"sales", "sales_returns", "operating_cost", "depreciation_cost",
                      "cost_of_sales"}
    /\ Rep!Nominal \subseteq Rep!Accounts /\ IsFiniteSet(Rep!Nominal)
    /\ "retained_earnings" \in Rep!Accounts \ Rep!Nominal
<1>1. Rep!Nominal = {"sales", "sales_returns", "operating_cost", "depreciation_cost",
                     "cost_of_sales"}
  BY TypesAre DEF Rep!Nominal, Rep!OfType
<1>2. Rep!Nominal \subseteq Rep!Accounts /\ "retained_earnings" \in Rep!Accounts \ Rep!Nominal
  BY <1>1, ChartIs
<1> QED BY <1>1, <1>2, ChartFinite, FS_Subset

LEMMA RowsFinite ==
    ASSUME NEW rows \in Seq(Row)
    PROVE  /\ DOMAIN rows = 1..Len(rows) /\ Len(rows) \in Nat /\ IsFiniteSet(DOMAIN rows)
           /\ \A i \in DOMAIN rows : rows[i] \in Row
<1>1. /\ DOMAIN rows = 1..Len(rows) /\ Len(rows) \in Nat
      /\ \A i \in DOMAIN rows : rows[i] \in Row
  OBVIOUS
<1> QED BY <1>1, FS_Interval

LEMMA TermType ==
    ASSUME NEW row \in Row, NEW a \in Rep!Accounts, NEW ps
    PROVE  Term(row, a, ps) \in Int
BY DEF Term, Row

LEMMA NetType ==
    ASSUME NEW rows \in Seq(Row), NEW a \in Rep!Accounts, NEW ps
    PROVE  NetOn(rows, a, ps) \in Int
<1> DEFINE f == [i \in DOMAIN rows |-> Term(rows[i], a, ps)]
<1>1. \A i \in DOMAIN rows : f[i] \in Int
  BY RowsFinite, TermType
<1> HIDE DEF f
<1>2. SumFunctionOnSet(f, DOMAIN rows) \in Int
  BY <1>1, RowsFinite, SumType
<1> QED BY <1>2 DEF NetOn, f

LEMMA IncomeIs ==
    ASSUME booked \in Seq(Row), NEW p
    PROVE  Rep!NetIncome(p) = IncomeOn(booked, p)
<1> DEFINE f == [a \in Rep!Nominal |-> Rep!NetOf(a, {p})]
           g == [a \in Rep!Nominal |-> NetOn(booked, a, {p})]
<1>1. f = g
  BY NetIs
<1>2. Rep!NetIncome(p) = -Rep!SumFunction(f) /\ DOMAIN f = Rep!Nominal
  BY DEF Rep!NetIncome, Rep!NetOfAll
<1>3. IncomeOn(booked, p) = 0 - SumFunctionOnSet(g, Rep!Nominal)
  BY DEF IncomeOn
<1>4. \A a \in Rep!Nominal : g[a] \in Int
  BY NetType, NominalAre
<1> HIDE DEF f, g
<1>5. SumFunctionOnSet(g, Rep!Nominal) \in Int
  BY <1>4, NominalAre, SumType
<1>6. Rep!NetIncome(p) = -SumFunctionOnSet(g, Rep!Nominal)
  BY <1>1, <1>2, SumOfReports
<1> QED BY <1>3, <1>5, <1>6

LEMMA NetAppend ==
    ASSUME NEW rows \in Seq(Row), NEW row \in Row, NEW a \in Rep!Accounts, NEW ps
    PROVE  NetOn(Append(rows, row), a, ps) = NetOn(rows, a, ps) + Term(row, a, ps)
<1> DEFINE more == Append(rows, row)
           n == Len(rows) + 1
           f == [i \in DOMAIN rows |-> Term(rows[i], a, ps)]
           g == [i \in DOMAIN more |-> Term(more[i], a, ps)]
<1>1. /\ DOMAIN more = (1..Len(rows)) \cup {n} /\ n \notin 1..Len(rows)
      /\ DOMAIN rows = 1..Len(rows)
      /\ more[n] = row /\ \A i \in 1..Len(rows) : more[i] = rows[i] /\ rows[i] \in Row
  OBVIOUS
<1>2. NetOn(more, a, ps) = SumFunctionOnSet(g, DOMAIN more)
      /\ NetOn(rows, a, ps) = SumFunctionOnSet(f, DOMAIN rows)
  BY DEF NetOn
<1>3. g[n] = Term(row, a, ps) /\ g[n] \in Int
      /\ \A i \in 1..Len(rows) : g[i] = f[i] /\ g[i] \in Int
  <2> HIDE DEF more, n
  <2> QED BY <1>1, TermType
<1>4. IsFiniteSet(1..Len(rows))
  BY FS_Interval
<1> HIDE DEF more, n, f, g
<1>5. SumFunctionOnSet(g, DOMAIN more) = SumFunctionOnSet(g, 1..Len(rows)) + g[n]
  <2> DEFINE D == 1..Len(rows)
  <2>1. IsFiniteSet(D) /\ n \notin D /\ DOMAIN more = D \cup {n}
        /\ \A i \in D \cup {n} : g[i] \in Int
    BY <1>1, <1>3, <1>4
  <2> HIDE DEF D
  <2>2. SumFunctionOnSet(g, D \cup {n}) = SumFunctionOnSet(g, D) + g[n]
    BY <2>1, SumInsert
  <2> QED BY <2>1, <2>2 DEF D
<1>6. SumFunctionOnSet(g, 1..Len(rows)) = SumFunctionOnSet(f, 1..Len(rows))
  BY <1>3, <1>4, SumEqual
<1> QED BY <1>1, <1>2, <1>3, <1>5, <1>6 DEF more

\* Marking an entry changes no sum of another period.
LEMMA NetMarked ==
    ASSUME NEW rows \in Seq(Row), NEW marked \in Seq(Row), DOMAIN marked = DOMAIN rows,
           NEW e \in DOMAIN rows, \A i \in DOMAIN rows \ {e} : marked[i] = rows[i],
           marked[e].period = rows[e].period,
           NEW q, q # rows[e].period, NEW a \in Rep!Accounts
    PROVE  NetOn(marked, a, {q}) = NetOn(rows, a, {q})
<1> DEFINE f == [i \in DOMAIN rows |-> Term(rows[i], a, {q})]
           g == [i \in DOMAIN marked |-> Term(marked[i], a, {q})]
<1>1. \A i \in DOMAIN rows : g[i] = f[i]
  BY DEF Term
<1> HIDE DEF f, g
<1>2. SumFunctionOnSet(g, DOMAIN rows) = SumFunctionOnSet(f, DOMAIN rows)
  BY <1>1, RowsFinite, SumEqual
<1> QED BY <1>2 DEF NetOn, f, g

LEMMA IncomeSame ==
    ASSUME NEW rows, NEW more, NEW p,
           \A a \in Rep!Accounts : NetOn(more, a, {p}) = NetOn(rows, a, {p})
    PROVE  IncomeOn(more, p) = IncomeOn(rows, p)
<1> DEFINE f == [a \in Rep!Nominal |-> NetOn(rows, a, {p})]
           g == [a \in Rep!Nominal |-> NetOn(more, a, {p})]
<1>1. f = g
  BY NominalAre
<1> QED BY <1>1 DEF IncomeOn

-----------------------------------------------------------------------------
(* The invariant *)

EntryOK(row) ==
    /\ Rep!Total(row.net) = 0
    /\ row.event \in Rep!FactoryEvents =>
          \E n \in ReportAmounts : row.net = Rep!AsFactory(row.event, n)

\* Every entry balances, and nothing is left of the income of a closed period.
RepInv ==
    /\ booked \in Seq(Row) /\ sealed \subseteq ReportPeriods
    /\ \A i \in DOMAIN booked : EntryOK(booked[i])
    /\ \A p \in sealed : IncomeOn(booked, p) = 0

LEMMA NotOfFactory ==
    "JE_REVERSAL" \notin Rep!FactoryEvents /\ "PERIOD_CLOSING" \notin Rep!FactoryEvents
BY DEF Rep!FactoryEvents, Rep!FactoryTemplates, Rep!PurchaseTemplates, Rep!SalesTemplates,
       Rep!SettlementTemplates, Rep!StockTemplates, Rep!ClosingTemplates

LEMMA EntriesAppend ==
    ASSUME NEW rows \in Seq(Row), \A i \in DOMAIN rows : EntryOK(rows[i]),
           NEW row \in Row, EntryOK(row)
    PROVE  /\ Append(rows, row) \in Seq(Row)
           /\ \A i \in DOMAIN Append(rows, row) : EntryOK(Append(rows, row)[i])
<1> DEFINE more == Append(rows, row)
<1>1. more \in Seq(Row)
  OBVIOUS
<1>2. \A i \in DOMAIN more : more[i] = row \/ (i \in DOMAIN rows /\ more[i] = rows[i])
  OBVIOUS
<1> HIDE DEF more
<1> QED BY <1>1, <1>2 DEF more

\* The entry of an event, in a period that is not closed.
LEMMA EventStep ==
    ASSUME ReportTypes, RepInv, NEW e \in ReportEvents, NEW n \in ReportAmounts,
           NEW p \in ReportPeriods, Rep!PostEvent(e, n, p)
    PROVE  RepInv'
<1> DEFINE net == Rep!EntryLines(e, n, TaxIn)
           row == Rep!Written(e, p, net)
<1>1. /\ booked' = Append(booked, row) /\ sealed' = sealed /\ p \notin sealed
  BY DEF Rep!PostEvent
<1>2. n \in Int /\ n \in Nat /\ e \in {t[1] : t \in Rep!Templates}
  <2>1. n \in Nat
    BY DEF ReportTypes
  <2>2. e \in {t[1] : t \in Rep!Templates}
    BY Zenon DEF ReportTypes
  <2> QED BY <2>1, <2>2
<1>3. net \in [Rep!Accounts -> Int] /\ Rep!Total(net) = 0
  BY <1>2, EntryBalances
<1>4. e \in Rep!FactoryEvents => net = Rep!AsFactory(e, n)
  BY <1>2, EntriesAreFactory
<1> HIDE DEF net
<1>5. /\ row \in Row /\ row.net = net /\ row.event = e /\ row.period = p
  BY <1>3 DEF Rep!Written, Row
<1> HIDE DEF row
<1>6. EntryOK(row)
  BY <1>3, <1>4, <1>5 DEF EntryOK
<1>7. /\ booked \in Seq(Row) /\ sealed \subseteq ReportPeriods
      /\ \A i \in DOMAIN booked : EntryOK(booked[i])
      /\ \A q \in sealed : IncomeOn(booked, q) = 0
  BY DEF RepInv
<1>8. \A q \in sealed : IncomeOn(Append(booked, row), q) = 0
  <2> SUFFICES ASSUME NEW q \in sealed PROVE IncomeOn(Append(booked, row), q) = 0
    OBVIOUS
  <2>1. \A a \in Rep!Accounts : NetOn(Append(booked, row), a, {q}) = NetOn(booked, a, {q})
    <3> SUFFICES ASSUME NEW a \in Rep!Accounts
                 PROVE  NetOn(Append(booked, row), a, {q}) = NetOn(booked, a, {q})
      OBVIOUS
    <3>1. Term(row, a, {q}) = 0
      BY <1>1, <1>5 DEF Term
    <3>2. NetOn(booked, a, {q}) \in Int
      BY <1>7, NetType
    <3> QED BY <1>5, <1>7, <3>1, <3>2, NetAppend
  <2>2. IncomeOn(Append(booked, row), q) = IncomeOn(booked, q)
    BY <2>1, IncomeSame
  <2> QED BY <1>7, <2>2
<1>9. /\ Append(booked, row) \in Seq(Row)
      /\ \A i \in DOMAIN Append(booked, row) : EntryOK(Append(booked, row)[i])
  BY <1>5, <1>6, <1>7, EntriesAppend
<1> QED BY <1>1, <1>7, <1>8, <1>9 DEF RepInv

LEMMA NegatedBalances ==
    ASSUME NEW f \in [Rep!Accounts -> Int], Rep!Total(f) = 0
    PROVE  /\ [a \in Rep!Accounts |-> -f[a]] \in [Rep!Accounts -> Int]
           /\ Rep!Total([a \in Rep!Accounts |-> -f[a]]) = 0
<1> DEFINE g == [a \in Rep!Accounts |-> -f[a]]
<1>1. /\ g \in [Rep!Accounts -> Int]
      /\ \A a \in Rep!Accounts : f[a] \in Int /\ g[a] = (-1) * f[a]
  OBVIOUS
<1>2. Rep!Total(f) = Rep!SumFunction(f) /\ Rep!Total(g) = Rep!SumFunction(g)
  BY DEF Rep!Total
<1> HIDE DEF g
<1>3. /\ Rep!SumFunction(f) = SumFunctionOnSet(f, Rep!Accounts)
      /\ Rep!SumFunction(g) = SumFunctionOnSet(g, Rep!Accounts)
  BY <1>1, SumOfReports
<1>4. SumFunctionOnSet(g, Rep!Accounts) = (-1) * SumFunctionOnSet(f, Rep!Accounts)
  <2>1. -1 \in Int
    OBVIOUS
  <2> DEFINE m == -1
  <2>2. m \in Int /\ \A a \in Rep!Accounts : f[a] \in Int /\ g[a] = m * f[a]
    BY <1>1, <2>1
  <2> HIDE DEF m
  <2>3. SumFunctionOnSet(g, Rep!Accounts) = m * SumFunctionOnSet(f, Rep!Accounts)
    BY <2>2, ChartFinite, SumTimes
  <2> QED BY <2>3 DEF m
<1>5. (-1) * 0 = 0
  OBVIOUS
<1>6. Rep!Total(g) = 0
  BY <1>2, <1>3, <1>4, <1>5
<1> QED BY <1>1, <1>6 DEF g

LEMMA MarkedRow ==
    ASSUME NEW rows \in Seq(Row), NEW e \in DOMAIN rows, NEW marked,
           marked = [rows EXCEPT ![e].status = "REVERSED"]
    PROVE  /\ marked \in Seq(Row) /\ DOMAIN marked = DOMAIN rows
           /\ \A i \in DOMAIN rows \ {e} : marked[i] = rows[i]
           /\ marked[e].period = rows[e].period /\ marked[e].net = rows[e].net
           /\ marked[e].event = rows[e].event
<1> DEFINE row == [rows[e] EXCEPT !.status = "REVERSED"]
<1>1. rows[e] \in Row
  BY RowsFinite
<1>2. row \in Row /\ row.period = rows[e].period /\ row.net = rows[e].net
      /\ row.event = rows[e].event
  BY <1>1 DEF Row
<1>3. marked = [rows EXCEPT ![e] = row]
  OBVIOUS
<1> HIDE DEF row
<1>4. marked \in Seq(Row) /\ DOMAIN marked = DOMAIN rows /\ marked[e] = row
      /\ \A i \in DOMAIN rows \ {e} : marked[i] = rows[i]
  BY <1>2, <1>3
<1> QED BY <1>2, <1>4

LEMMA ReversalStep ==
    ASSUME ReportTypes, RepInv, NEW e \in DOMAIN booked, Rep!Reversal(e)
    PROVE  RepInv'
<1> DEFINE marked == [booked EXCEPT ![e].status = "REVERSED"]
           net == [a \in Rep!Accounts |-> -booked[e].net[a]]
           row == Rep!Written("JE_REVERSAL", booked[e].period, net)
<1>1. booked' = Append(marked, row) /\ sealed' = sealed /\ booked[e].period \notin sealed
  BY DEF Rep!Reversal
<1>2. /\ booked \in Seq(Row) /\ sealed \subseteq ReportPeriods
      /\ \A i \in DOMAIN booked : EntryOK(booked[i])
      /\ \A q \in sealed : IncomeOn(booked, q) = 0
  BY DEF RepInv
<1>3. booked[e] \in Row /\ booked[e].net \in [Rep!Accounts -> Int]
      /\ booked[e].period \in ReportPeriods
  <2>1. booked[e] \in Row
    BY <1>2, RowsFinite
  <2> QED BY <2>1 DEF Row
<1>4. net \in [Rep!Accounts -> Int] /\ Rep!Total(net) = 0
  <2> DEFINE f == booked[e].net
  <2>1. f \in [Rep!Accounts -> Int] /\ Rep!Total(f) = 0
    BY <1>2, <1>3 DEF EntryOK
  <2> HIDE DEF f
  <2>2. /\ [a \in Rep!Accounts |-> -f[a]] \in [Rep!Accounts -> Int]
        /\ Rep!Total([a \in Rep!Accounts |-> -f[a]]) = 0
    BY <2>1, NegatedBalances
  <2> QED BY <2>2 DEF f
<1> HIDE DEF net
<1>5. /\ marked \in Seq(Row) /\ DOMAIN marked = DOMAIN booked
      /\ \A i \in DOMAIN booked \ {e} : marked[i] = booked[i]
      /\ marked[e].period = booked[e].period /\ marked[e].net = booked[e].net
      /\ marked[e].event = booked[e].event
  <2>1. PICK m : m = marked
    OBVIOUS
  <2>2. m = [booked EXCEPT ![e].status = "REVERSED"]
    BY <2>1
  <2> HIDE DEF marked
  <2>3. /\ m \in Seq(Row) /\ DOMAIN m = DOMAIN booked
        /\ \A i \in DOMAIN booked \ {e} : m[i] = booked[i]
        /\ m[e].period = booked[e].period /\ m[e].net = booked[e].net
        /\ m[e].event = booked[e].event
    BY <1>2, <2>2, MarkedRow
  <2> QED BY <2>1, <2>3
<1>6. \A i \in DOMAIN marked : EntryOK(marked[i])
  <2> HIDE DEF marked
  <2> QED BY <1>2, <1>5 DEF EntryOK
<1> HIDE DEF marked
<1>7. row \in Row /\ row.net = net /\ row.event = "JE_REVERSAL" /\ row.period = booked[e].period
  BY <1>3, <1>4 DEF Rep!Written, Row
<1> HIDE DEF row
<1>8. EntryOK(row)
  BY <1>4, <1>7, NotOfFactory DEF EntryOK
<1>9. \A q \in sealed : IncomeOn(Append(marked, row), q) = 0
  <2> SUFFICES ASSUME NEW q \in sealed PROVE IncomeOn(Append(marked, row), q) = 0
    OBVIOUS
  <2>1. q # booked[e].period
    BY <1>1
  <2>2. \A a \in Rep!Accounts : NetOn(Append(marked, row), a, {q}) = NetOn(booked, a, {q})
    <3> SUFFICES ASSUME NEW a \in Rep!Accounts
                 PROVE  NetOn(Append(marked, row), a, {q}) = NetOn(booked, a, {q})
      OBVIOUS
    <3>1. Term(row, a, {q}) = 0
      BY <1>7, <2>1 DEF Term
    <3>2. NetOn(marked, a, {q}) = NetOn(booked, a, {q})
      BY <1>2, <1>5, <2>1, NetMarked
    <3>3. NetOn(marked, a, {q}) \in Int
      BY <1>5, NetType
    <3>4. NetOn(Append(marked, row), a, {q}) = NetOn(marked, a, {q}) + Term(row, a, {q})
      BY <1>5, <1>7, NetAppend
    <3> QED BY <3>1, <3>2, <3>3, <3>4
  <2>3. IncomeOn(Append(marked, row), q) = IncomeOn(booked, q)
    BY <2>2, IncomeSame
  <2> QED BY <1>2, <2>3
<1>10. /\ Append(marked, row) \in Seq(Row)
       /\ \A i \in DOMAIN Append(marked, row) : EntryOK(Append(marked, row)[i])
  BY <1>5, <1>6, <1>7, <1>8, EntriesAppend
<1> QED BY <1>1, <1>2, <1>9, <1>10 DEF RepInv

\* What the closing entry takes from the rows of a period, and from the retained earnings.
Closing(p) ==
    [a \in Rep!Accounts |->
       CASE a \in Rep!Nominal -> -NetOn(booked, a, {p})
         [] a = "retained_earnings" -> -IncomeOn(booked, p)
         [] OTHER -> 0]

LEMMA ClosingBalances ==
    ASSUME RepInv, NEW p
    PROVE  Closing(p) \in [Rep!Accounts -> Int] /\ Rep!Total(Closing(p)) = 0
<1> DEFINE net == Closing(p)
           f == [a \in Rep!Nominal |-> NetOn(booked, a, {p})]
           r == "retained_earnings"
           left == Rep!Nominal \cup {r}
<1>1. \A a \in Rep!Nominal : f[a] = NetOn(booked, a, {p}) /\ f[a] \in Int
  BY NetType, NominalAre DEF RepInv
<1>2. IncomeOn(booked, p) = 0 - SumFunctionOnSet(f, Rep!Nominal)
  BY DEF IncomeOn
<1> HIDE DEF f
<1>3. SumFunctionOnSet(f, Rep!Nominal) \in Int
  BY <1>1, NominalAre, SumType
<1>4. /\ net \in [Rep!Accounts -> Int]
      /\ \A a \in Rep!Nominal : net[a] = -f[a]
      /\ net[r] = SumFunctionOnSet(f, Rep!Nominal)
      /\ \A a \in Rep!Accounts \ left : net[a] = 0
  <2>1. \A n \in Int : -n \in Int /\ -(-n) = n
    OBVIOUS
  <2>2. IncomeOn(booked, p) \in Int
        /\ \A a \in Rep!Nominal : a \in Rep!Accounts /\ NetOn(booked, a, {p}) \in Int
    BY <1>1, <1>2, <1>3, NominalAre
  <2>3. r \in Rep!Accounts /\ r \notin Rep!Nominal
    BY NominalAre
  <2>4. -IncomeOn(booked, p) = SumFunctionOnSet(f, Rep!Nominal)
    BY <1>2, <1>3
  <2>5. net = [a \in Rep!Accounts |->
                 CASE a \in Rep!Nominal -> -NetOn(booked, a, {p})
                   [] a = r -> -IncomeOn(booked, p)
                   [] OTHER -> 0]
    BY DEF Closing
  <2> HIDE DEF net, r
  <2> QED BY <1>1, <2>2, <2>3, <2>4, <2>5
<1>5. Rep!Total(net) = SumFunctionOnSet(net, Rep!Accounts)
  <2> HIDE DEF net
  <2> QED BY <1>4, SumOfReports DEF Rep!Total
<1> HIDE DEF net
<1>6. r \in Rep!Accounts /\ r \notin Rep!Nominal /\ left \subseteq Rep!Accounts
  BY NominalAre
<1> HIDE DEF r
<1>7. SumFunctionOnSet(net, left) = SumFunctionOnSet(net, Rep!Accounts)
  <2>1. \A a \in Rep!Accounts : net[a] \in Int
    BY <1>4
  <2> HIDE DEF left
  <2> QED BY <1>4, <1>6, <2>1, ChartFinite, SumNonZero
<1>8. SumFunctionOnSet(net, left) = SumFunctionOnSet(net, Rep!Nominal) + net[r]
  <2>1. \A a \in Rep!Nominal \cup {r} : net[a] \in Int
    BY <1>4, <1>6
  <2> QED BY <1>6, <2>1, NominalAre, SumInsert
<1>9. SumFunctionOnSet(net, Rep!Nominal) = (-1) * SumFunctionOnSet(f, Rep!Nominal)
  <2> DEFINE m == -1
  <2>1. m \in Int /\ \A a \in Rep!Nominal : f[a] \in Int /\ net[a] = m * f[a]
    BY <1>1, <1>4
  <2> HIDE DEF m
  <2>2. SumFunctionOnSet(net, Rep!Nominal) = m * SumFunctionOnSet(f, Rep!Nominal)
    BY <2>1, NominalAre, SumTimes
  <2> QED BY <2>2 DEF m
<1>10. SumFunctionOnSet(net, Rep!Accounts) = 0
  BY <1>3, <1>4, <1>7, <1>8, <1>9
<1> QED BY <1>4, <1>5, <1>10 DEF net

LEMMA CloseStep ==
    ASSUME ReportTypes, RepInv, NEW p \in ReportPeriods, Rep!ClosePeriod(p)
    PROVE  RepInv'
<1> DEFINE net == Closing(p)
           row == Rep!Written("PERIOD_CLOSING", p, net)
<1>1. /\ booked \in Seq(Row) /\ sealed \subseteq ReportPeriods
      /\ \A i \in DOMAIN booked : EntryOK(booked[i])
      /\ \A q \in sealed : IncomeOn(booked, q) = 0
  BY DEF RepInv
<1>2. net = [a \in Rep!Accounts |->
               CASE a \in Rep!Nominal -> -Rep!NetOf(a, {p})
                 [] a = "retained_earnings" -> -Rep!NetIncome(p)
                 [] OTHER -> 0]
  <2>1. Rep!NetIncome(p) = IncomeOn(booked, p)
    BY <1>1, IncomeIs
  <2>2. \A a \in Rep!Accounts : Rep!NetOf(a, {p}) = NetOn(booked, a, {p})
    BY NetIs
  <2> QED BY <2>1, <2>2 DEF Closing
<1>3. sealed' = sealed \cup {p}
  BY DEF Rep!ClosePeriod
<1>4. CASE IncomeOn(booked, p) = 0
  <2>1. booked' = booked
    BY <1>1, <1>4, IncomeIs DEF Rep!ClosePeriod
  <2> QED BY <1>1, <1>3, <1>4, <2>1 DEF RepInv
<1>5. CASE IncomeOn(booked, p) # 0
  <2>1. booked' = Append(booked, row)
    <3> HIDE DEF net
    <3>1. Rep!NetIncome(p) # 0
      BY <1>1, <1>5, IncomeIs
    <3> QED BY <1>2, <3>1 DEF Rep!ClosePeriod
  <2>2. net \in [Rep!Accounts -> Int] /\ Rep!Total(net) = 0
    BY ClosingBalances
  <2>3. \A a \in Rep!Nominal : net[a] = -NetOn(booked, a, {p})
    BY NominalAre DEF Closing
  <2> HIDE DEF net
  <2>4. row \in Row /\ row.net = net /\ row.event = "PERIOD_CLOSING" /\ row.period = p
        /\ row.status = "POSTED"
    BY <2>2 DEF Rep!Written, Row
  <2> HIDE DEF row
  <2>5. EntryOK(row)
    BY <2>2, <2>4, NotOfFactory DEF EntryOK
  <2>6. \A q \in sealed \ {p} : IncomeOn(Append(booked, row), q) = 0
    <3> SUFFICES ASSUME NEW q \in sealed \ {p} PROVE IncomeOn(Append(booked, row), q) = 0
      OBVIOUS
    <3>1. \A a \in Rep!Accounts : NetOn(Append(booked, row), a, {q}) = NetOn(booked, a, {q})
      <4> SUFFICES ASSUME NEW a \in Rep!Accounts
                   PROVE  NetOn(Append(booked, row), a, {q}) = NetOn(booked, a, {q})
        OBVIOUS
      <4>1. Term(row, a, {q}) = 0
        BY <2>4 DEF Term
      <4>2. NetOn(booked, a, {q}) \in Int
        BY <1>1, NetType
      <4> QED BY <1>1, <2>4, <4>1, <4>2, NetAppend
    <3>2. IncomeOn(Append(booked, row), q) = IncomeOn(booked, q)
      BY <3>1, IncomeSame
    <3> QED BY <1>1, <3>2
  <2>7. IncomeOn(Append(booked, row), p) = 0
    <3> DEFINE f == [a \in Rep!Nominal |-> NetOn(Append(booked, row), a, {p})]
    <3>1. \A a \in Rep!Nominal : f[a] = 0
      <4> SUFFICES ASSUME NEW a \in Rep!Nominal PROVE NetOn(Append(booked, row), a, {p}) = 0
        OBVIOUS
      <4>1. a \in Rep!Accounts
        BY NominalAre
      <4>2. Term(row, a, {p}) = -NetOn(booked, a, {p})
        BY <2>3, <2>4 DEF Term
      <4>3. NetOn(booked, a, {p}) \in Int
        BY <1>1, <4>1, NetType
      <4> QED BY <1>1, <2>4, <4>1, <4>2, <4>3, NetAppend
    <3> HIDE DEF f
    <3>2. SumFunctionOnSet(f, Rep!Nominal) = 0
      BY <3>1, NominalAre, SumZero
    <3>3. IncomeOn(Append(booked, row), p) = 0 - SumFunctionOnSet(f, Rep!Nominal)
      BY DEF IncomeOn, f
    <3> QED BY <3>2, <3>3
  <2>8. /\ Append(booked, row) \in Seq(Row)
        /\ \A i \in DOMAIN Append(booked, row) : EntryOK(Append(booked, row)[i])
    BY <1>1, <2>4, <2>5, EntriesAppend
  <2> QED BY <1>1, <1>3, <2>1, <2>6, <2>7, <2>8 DEF RepInv
<1> QED BY <1>4, <1>5

LEMMA RepStep ==
    ASSUME ReportTypes, RepInv, [Rep!RepNext]_Rep!repVars
    PROVE  RepInv'
<1>1. CASE UNCHANGED Rep!repVars
  BY <1>1 DEF Rep!repVars, RepInv
<1>2. ASSUME NEW e \in ReportEvents, NEW n \in ReportAmounts, NEW p \in ReportPeriods,
             Rep!PostEvent(e, n, p)
      PROVE  RepInv'
  BY <1>2, EventStep
<1>3. ASSUME NEW e \in DOMAIN booked, Rep!Reversal(e) PROVE RepInv'
  BY <1>3, ReversalStep
<1>4. ASSUME NEW p \in ReportPeriods, Rep!ClosePeriod(p) PROVE RepInv'
  BY <1>4, CloseStep
<1> QED BY <1>1, <1>2, <1>3, <1>4 DEF Rep!RepNext

-----------------------------------------------------------------------------
(* What the reports add up *)

Nets(ps) == [a \in Rep!Accounts |-> NetOn(booked, a, ps)]
Part(some, ps) == SumFunctionOnSet(Nets(ps), some)

LEMMA NetsType ==
    ASSUME RepInv, NEW ps
    PROVE  /\ Nets(ps) \in [Rep!Accounts -> Int]
           /\ \A a \in Rep!Accounts : Rep!NetOf(a, ps) = Nets(ps)[a] /\ Nets(ps)[a] \in Int
           /\ \A a \in Rep!Accounts : NetOn(booked, a, ps) = Nets(ps)[a]
<1>1. booked \in Seq(Row)
  BY DEF RepInv
<1> QED BY <1>1, NetIs, NetType DEF Nets

LEMMA PartType ==
    ASSUME RepInv, NEW some, some \subseteq Rep!Accounts, NEW ps
    PROVE  IsFiniteSet(some) /\ Part(some, ps) \in Int
<1>1. IsFiniteSet(some)
  BY ChartFinite, FS_Subset
<1> DEFINE f == Nets(ps)
<1>2. \A a \in some : f[a] \in Int
  BY NetsType
<1> HIDE DEF f
<1>3. SumFunctionOnSet(f, some) \in Int
  BY <1>1, <1>2, SumType
<1> QED BY <1>1, <1>3 DEF Part, f

LEMMA PartInsert ==
    ASSUME RepInv, NEW some, some \subseteq Rep!Accounts, NEW x \in Rep!Accounts, x \notin some,
           NEW ps
    PROVE  Part(some \cup {x}, ps) = Part(some, ps) + Rep!NetOf(x, ps)
<1> DEFINE f == Nets(ps)
<1>1. f[x] = Rep!NetOf(x, ps) /\ \A a \in some \cup {x} : f[a] \in Int
  BY NetsType
<1>2. IsFiniteSet(some)
  BY PartType
<1> HIDE DEF f
<1>3. SumFunctionOnSet(f, some \cup {x}) = SumFunctionOnSet(f, some) + f[x]
  BY <1>1, <1>2, SumInsert
<1> QED BY <1>1, <1>3 DEF Part, f

LEMMA PartUnion ==
    ASSUME RepInv, NEW some, some \subseteq Rep!Accounts, NEW bs, bs \subseteq Rep!Accounts,
           some \cap bs = {}, NEW ps
    PROVE  Part(some \cup bs, ps) = Part(some, ps) + Part(bs, ps)
<1> DEFINE f == Nets(ps)
<1>1. \A a \in some \cup bs : f[a] \in Int
  BY NetsType
<1>2. IsFiniteSet(some) /\ IsFiniteSet(bs)
  BY PartType
<1> HIDE DEF f
<1>3. SumFunctionOnSet(f, some \cup bs) = SumFunctionOnSet(f, some) + SumFunctionOnSet(f, bs)
  BY <1>1, <1>2, SumUnion
<1> QED BY <1>3 DEF Part, f

LEMMA NetOfAllIs ==
    ASSUME RepInv, NEW some, some \subseteq Rep!Accounts, NEW ps
    PROVE  Rep!NetOfAll(some, ps) = Part(some, ps)
<1> DEFINE g == [a \in some |-> Rep!NetOf(a, ps)]
           f == Nets(ps)
<1>1. Rep!NetOfAll(some, ps) = Rep!SumFunction(g) /\ DOMAIN g = some
  BY DEF Rep!NetOfAll
<1>2. \A a \in some : g[a] = f[a]
  BY NetsType
<1>3. IsFiniteSet(some)
  BY PartType
<1> HIDE DEF f, g
<1>4. SumFunctionOnSet(g, some) = SumFunctionOnSet(f, some)
  BY <1>2, <1>3, SumEqual
<1> QED BY <1>1, <1>4, SumOfReports DEF Part, f

LEMMA DebitBalances ==
    ASSUME RepInv, NEW some, some \subseteq Rep!Accounts, NEW ps,
           \A a \in some : Rep!Normal(a) = "DEBIT"
    PROVE  Rep!SumOf(some, ps) = Part(some, ps)
<1> DEFINE g == [a \in some |-> Rep!AccountBalance(a, ps)]
           f == Nets(ps)
<1>1. Rep!SumOf(some, ps) = Rep!SumFunction(g) /\ DOMAIN g = some
  BY DEF Rep!SumOf
<1>2. \A a \in some : g[a] = f[a]
  BY NetsType DEF Rep!AccountBalance
<1>3. IsFiniteSet(some)
  BY PartType
<1> HIDE DEF f, g
<1>4. SumFunctionOnSet(g, some) = SumFunctionOnSet(f, some)
  BY <1>2, <1>3, SumEqual
<1> QED BY <1>1, <1>4, SumOfReports DEF Part, f

LEMMA CreditBalances ==
    ASSUME RepInv, NEW some, some \subseteq Rep!Accounts, NEW ps,
           \A a \in some : Rep!Normal(a) = "CREDIT"
    PROVE  Rep!SumOf(some, ps) = -Part(some, ps)
<1> DEFINE g == [a \in some |-> Rep!AccountBalance(a, ps)]
           f == Nets(ps)
           m == -1
<1>1. Rep!SumOf(some, ps) = Rep!SumFunction(g) /\ DOMAIN g = some
  BY DEF Rep!SumOf
<1>2. m \in Int /\ \A a \in some : f[a] \in Int /\ g[a] = m * f[a]
  <2>1. \A a \in some : f[a] \in Int /\ g[a] = -f[a]
    BY NetsType DEF Rep!AccountBalance
  <2>2. \A n \in Int : -n = (-1) * n
    OBVIOUS
  <2>3. \A a \in some : f[a] \in Int /\ g[a] = (-1) * f[a]
    <3> SUFFICES ASSUME NEW a \in some PROVE f[a] \in Int /\ g[a] = (-1) * f[a]
      OBVIOUS
    <3> HIDE DEF f, g
    <3>1. f[a] \in Int /\ g[a] = -f[a]
      BY <2>1
    <3>2. -f[a] = (-1) * f[a]
      BY <2>2, <3>1
    <3> QED BY <3>1, <3>2
  <2>4. -1 \in Int
    OBVIOUS
  <2> HIDE DEF f, g
  <2> QED BY <2>3, <2>4
<1>3. IsFiniteSet(some) /\ Part(some, ps) \in Int
  BY PartType
<1> HIDE DEF f, g, m
<1>4. SumFunctionOnSet(g, some) = m * SumFunctionOnSet(f, some)
  BY <1>2, <1>3, SumTimes
<1>5. Rep!SumOf(some, ps) = m * Part(some, ps)
  BY <1>1, <1>4, SumOfReports DEF Part, f
<1>6. \A n \in Int : -n = (-1) * n
  OBVIOUS
<1> QED BY <1>3, <1>5, <1>6 DEF m

\* One account more.
LEMMA SumOfInsert ==
    ASSUME RepInv, NEW some, some \subseteq Rep!Accounts, NEW x \in Rep!Accounts, x \notin some,
           NEW ps
    PROVE  Rep!SumOf(some \cup {x}, ps) = Rep!SumOf(some, ps) + Rep!AccountBalance(x, ps)
<1> DEFINE g == [a \in some |-> Rep!AccountBalance(a, ps)]
           h == [a \in some \cup {x} |-> Rep!AccountBalance(a, ps)]
<1>1. /\ Rep!SumOf(some, ps) = Rep!SumFunction(g) /\ DOMAIN g = some
      /\ Rep!SumOf(some \cup {x}, ps) = Rep!SumFunction(h) /\ DOMAIN h = some \cup {x}
  BY DEF Rep!SumOf
<1>2. \A a \in some \cup {x} : h[a] = Rep!AccountBalance(a, ps) /\ h[a] \in Int
  <2>1. \A a \in Rep!Accounts : Rep!AccountBalance(a, ps) \in Int
    BY NetsType DEF Rep!AccountBalance
  <2> QED BY <2>1
<1>3. \A a \in some : g[a] = h[a]
  OBVIOUS
<1>4. IsFiniteSet(some)
  BY PartType
<1> HIDE DEF g, h
<1>5. SumFunctionOnSet(h, some \cup {x}) = SumFunctionOnSet(h, some) + h[x]
  BY <1>2, <1>4, SumInsert
<1>6. SumFunctionOnSet(g, some) = SumFunctionOnSet(h, some)
  BY <1>3, <1>4, SumEqual
<1>7. /\ Rep!SumOf(some, ps) = SumFunctionOnSet(g, some)
      /\ Rep!SumOf(some \cup {x}, ps) = SumFunctionOnSet(h, some \cup {x})
  BY <1>1, SumOfReports
<1> QED BY <1>2, <1>5, <1>6, <1>7

\* The side that is normal for each account.
LEMMA NormalsAre ==
    /\ \A a \in {"petty_cash", "bank", "operating_bank", "receivables", "inventory",
                 "receipt_clearing", "cost_of_sales", "operating_cost", "depreciation_cost",
                 "sales_returns"} : Rep!Normal(a) = "DEBIT"
    /\ \A a \in {"depreciation", "payables", "tax_payable", "retained_earnings",
                 "income_summary", "sales"} : Rep!Normal(a) = "CREDIT"
BY TypesAre DEF Rep!Normal

\* The balances of each type, and the accounts that are against the balance of theirs.
LEMMA BalancesOfTypes ==
    ASSUME RepInv, NEW ps
    PROVE  /\ Rep!SumOf(Rep!OfType("ASSET"), ps)
                = Part(Rep!OfType("ASSET"), ps) - 2 * Rep!NetOf("depreciation", ps)
           /\ Rep!SumOf(Rep!OfType("LIABILITY"), ps) = -Part(Rep!OfType("LIABILITY"), ps)
           /\ Rep!SumOf(Rep!OfType("EQUITY"), ps) = -Part(Rep!OfType("EQUITY"), ps)
           /\ Rep!SumOf(Rep!OfType("REVENUE"), ps)
                = -Part(Rep!OfType("REVENUE"), ps) + 2 * Rep!NetOf("sales_returns", ps)
           /\ Rep!SumOf(Rep!OfType("COGS"), ps) = Part(Rep!OfType("COGS"), ps)
           /\ Rep!SumOf(Rep!OfType("EXPENSE"), ps) = Part(Rep!OfType("EXPENSE"), ps)
<1>1. Rep!SumOf(Rep!OfType("ASSET"), ps)
        = Part(Rep!OfType("ASSET"), ps) - 2 * Rep!NetOf("depreciation", ps)
  <2> DEFINE some == {"petty_cash", "bank", "operating_bank", "receivables", "inventory",
                    "receipt_clearing"}
             x == "depreciation"
  <2>1. Rep!OfType("ASSET") = some \cup {x}
    BY TypesAre DEF Rep!OfType
  <2>2. some \subseteq Rep!Accounts /\ x \in Rep!Accounts /\ x \notin some
    BY ChartIs
  <2>3. (\A a \in some : Rep!Normal(a) = "DEBIT") /\ Rep!Normal(x) = "CREDIT"
    BY NormalsAre
  <2> HIDE DEF some, x
  <2>4. Rep!AccountBalance(x, ps) = -Rep!NetOf(x, ps) /\ Rep!NetOf(x, ps) \in Int
    BY <2>2, <2>3, NetsType DEF Rep!AccountBalance
  <2>5. Rep!SumOf(some \cup {x}, ps) = Part(some, ps) + Rep!AccountBalance(x, ps)
    <3>1. Rep!SumOf(some, ps) = Part(some, ps)
      BY <2>2, <2>3, DebitBalances
    <3>2. Rep!SumOf(some \cup {x}, ps) = Rep!SumOf(some, ps) + Rep!AccountBalance(x, ps)
      BY <2>2, SumOfInsert
    <3> QED BY <3>1, <3>2
  <2>6. Part(some \cup {x}, ps) = Part(some, ps) + Rep!NetOf(x, ps)
    BY <2>2, PartInsert
  <2>7. Part(some, ps) \in Int
    BY <2>2, PartType
  <2>8. Rep!SumOf(some \cup {x}, ps) = Part(some \cup {x}, ps) - 2 * Rep!NetOf(x, ps)
    <3>1. \A s, n \in Int : s + (-n) = (s + n) - 2 * n
      OBVIOUS
    <3> QED BY <2>4, <2>5, <2>6, <2>7, <3>1
  <2> QED BY <2>1, <2>8 DEF x
<1>2. Rep!SumOf(Rep!OfType("LIABILITY"), ps) = -Part(Rep!OfType("LIABILITY"), ps)
  <2> DEFINE some == Rep!OfType("LIABILITY")
  <2>1. some \subseteq Rep!Accounts /\ \A a \in some : Rep!Normal(a) = "CREDIT"
    BY TypesAre, ChartIs, NormalsAre DEF Rep!OfType
  <2> HIDE DEF some
  <2>2. Rep!SumOf(some, ps) = -Part(some, ps)
    BY <2>1, CreditBalances
  <2> QED BY <2>2 DEF some
<1>3. Rep!SumOf(Rep!OfType("EQUITY"), ps) = -Part(Rep!OfType("EQUITY"), ps)
  <2> DEFINE some == Rep!OfType("EQUITY")
  <2>1. some \subseteq Rep!Accounts /\ \A a \in some : Rep!Normal(a) = "CREDIT"
    BY TypesAre, ChartIs, NormalsAre DEF Rep!OfType
  <2> HIDE DEF some
  <2>2. Rep!SumOf(some, ps) = -Part(some, ps)
    BY <2>1, CreditBalances
  <2> QED BY <2>2 DEF some
<1>4. Rep!SumOf(Rep!OfType("REVENUE"), ps)
        = -Part(Rep!OfType("REVENUE"), ps) + 2 * Rep!NetOf("sales_returns", ps)
  <2> DEFINE some == {"sales"}
             x == "sales_returns"
  <2>1. Rep!OfType("REVENUE") = some \cup {x}
    BY TypesAre DEF Rep!OfType
  <2>2. some \subseteq Rep!Accounts /\ x \in Rep!Accounts /\ x \notin some
    BY ChartIs
  <2>3. (\A a \in some : Rep!Normal(a) = "CREDIT") /\ Rep!Normal(x) = "DEBIT"
    BY NormalsAre
  <2> HIDE DEF some, x
  <2>4. Rep!AccountBalance(x, ps) = Rep!NetOf(x, ps) /\ Rep!NetOf(x, ps) \in Int
    BY <2>2, <2>3, NetsType DEF Rep!AccountBalance
  <2>5. Rep!SumOf(some \cup {x}, ps) = -Part(some, ps) + Rep!AccountBalance(x, ps)
    <3>1. Rep!SumOf(some, ps) = -Part(some, ps)
      BY <2>2, <2>3, CreditBalances
    <3>2. Rep!SumOf(some \cup {x}, ps) = Rep!SumOf(some, ps) + Rep!AccountBalance(x, ps)
      BY <2>2, SumOfInsert
    <3> QED BY <3>1, <3>2
  <2>6. Part(some \cup {x}, ps) = Part(some, ps) + Rep!NetOf(x, ps)
    BY <2>2, PartInsert
  <2>7. Part(some, ps) \in Int
    BY <2>2, PartType
  <2>8. Rep!SumOf(some \cup {x}, ps) = -Part(some \cup {x}, ps) + 2 * Rep!NetOf(x, ps)
    <3>1. \A s, n \in Int : -s + n = -(s + n) + 2 * n
      OBVIOUS
    <3> QED BY <2>4, <2>5, <2>6, <2>7, <3>1
  <2> QED BY <2>1, <2>8 DEF x
<1>5. Rep!SumOf(Rep!OfType("COGS"), ps) = Part(Rep!OfType("COGS"), ps)
  <2> DEFINE some == Rep!OfType("COGS")
  <2>1. some \subseteq Rep!Accounts /\ \A a \in some : Rep!Normal(a) = "DEBIT"
    BY TypesAre, ChartIs, NormalsAre DEF Rep!OfType
  <2> HIDE DEF some
  <2>2. Rep!SumOf(some, ps) = Part(some, ps)
    BY <2>1, DebitBalances
  <2> QED BY <2>2 DEF some
<1>6. Rep!SumOf(Rep!OfType("EXPENSE"), ps) = Part(Rep!OfType("EXPENSE"), ps)
  <2> DEFINE some == Rep!OfType("EXPENSE")
  <2>1. some \subseteq Rep!Accounts /\ \A a \in some : Rep!Normal(a) = "DEBIT"
    BY TypesAre, ChartIs, NormalsAre DEF Rep!OfType
  <2> HIDE DEF some
  <2>2. Rep!SumOf(some, ps) = Part(some, ps)
    BY <2>1, DebitBalances
  <2> QED BY <2>2 DEF some
<1> QED BY <1>1, <1>2, <1>3, <1>4, <1>5, <1>6

\* The journal balances, over any periods: each of its entries does.
LEMMA JournalBalances ==
    ASSUME RepInv, NEW ps
    PROVE  Part(Rep!Accounts, ps) = 0
<1> DEFINE D == DOMAIN booked
           m == [a \in Rep!Accounts |-> [i \in D |-> Term(booked[i], a, ps)]]
           row == Nets(ps)
           w == [i \in D |-> [a \in Rep!Accounts |-> Term(booked[i], a, ps)]]
           column == [i \in D |-> SumFunctionOnSet(w[i], Rep!Accounts)]
<1>1. booked \in Seq(Row) /\ \A i \in D : EntryOK(booked[i])
  BY DEF RepInv
<1>2. IsFiniteSet(D) /\ \A i \in D : booked[i] \in Row
  BY <1>1, RowsFinite
<1>3. \A a \in Rep!Accounts, i \in D : m[a][i] = Term(booked[i], a, ps) /\ m[a][i] \in Int
                                      /\ w[i][a] = m[a][i]
  BY <1>2, TermType
<1>4. \A a \in Rep!Accounts : row[a] = SumFunctionOnSet(m[a], D)
  BY DEF Nets, NetOn
<1>5. \A i \in D : column[i] = 0
  <2> SUFFICES ASSUME NEW i \in D PROVE SumFunctionOnSet(w[i], Rep!Accounts) = 0
    OBVIOUS
  <2> DEFINE net == booked[i].net
             f == w[i]
  <2>1. net \in [Rep!Accounts -> Int] /\ Rep!Total(net) = 0
    BY <1>1, <1>2 DEF Row, EntryOK
  <2>2. SumFunctionOnSet(net, Rep!Accounts) = 0
    <3>1. Rep!Total(net) = Rep!SumFunction(net)
      BY DEF Rep!Total
    <3> HIDE DEF net
    <3> QED BY <2>1, <3>1, SumOfReports
  <2>3. \A a \in Rep!Accounts : f[a] = Term(booked[i], a, ps)
    BY <1>3
  <2>4. CASE booked[i].status = "POSTED" /\ booked[i].period \in ps
    <3>1. \A a \in Rep!Accounts : f[a] = net[a]
      BY <2>3, <2>4 DEF Term
    <3> HIDE DEF f, net
    <3>2. SumFunctionOnSet(f, Rep!Accounts) = SumFunctionOnSet(net, Rep!Accounts)
      BY <3>1, ChartFinite, SumEqual
    <3>3. SumFunctionOnSet(f, Rep!Accounts) = 0
      BY <2>2, <3>2
    <3> QED BY <3>3 DEF f
  <2>5. CASE ~(booked[i].status = "POSTED" /\ booked[i].period \in ps)
    <3>1. \A a \in Rep!Accounts : f[a] = 0
      BY <2>3, <2>5 DEF Term
    <3> HIDE DEF f
    <3>2. SumFunctionOnSet(f, Rep!Accounts) = 0
      BY <3>1, ChartFinite, SumZero
    <3> QED BY <3>2 DEF f
  <2> QED BY <2>4, <2>5
<1>6. \A i \in D : column[i] = SumFunctionOnSet(w[i], Rep!Accounts)
  OBVIOUS
<1> HIDE DEF D, m, w, row, column
<1>7. SumFunctionOnSet(row, Rep!Accounts) = SumFunctionOnSet(column, D)
  <2> DEFINE S == Rep!Accounts
  <2>1. IsFiniteSet(S) /\ IsFiniteSet(D)
    BY <1>2, ChartFinite
  <2>2. Transposed(m, w, S, D)
    BY <1>3 DEF Transposed
  <2>3. AddsUp(row, m, S, D) /\ AddsUp(column, w, D, S)
    BY <1>4, <1>6 DEF AddsUp
  <2> HIDE DEF S
  <2>5. SumFunctionOnSet(row, S) = SumFunctionOnSet(column, D)
    BY <2>1, <2>2, <2>3, SumSwap
  <2> QED BY <2>5 DEF S
<1>8. SumFunctionOnSet(column, D) = 0
  BY <1>2, <1>5, SumZero
<1> QED BY <1>7, <1>8 DEF Part, row

\* All that is in the journal, by type.
LEMMA TypesBalance ==
    ASSUME RepInv, NEW ps
    PROVE  Part(Rep!OfType("ASSET"), ps) + Part(Rep!OfType("LIABILITY"), ps)
             + Part(Rep!OfType("EQUITY"), ps) + Part(Rep!OfType("REVENUE"), ps)
             + Part(Rep!OfType("COGS"), ps) + Part(Rep!OfType("EXPENSE"), ps)
             + Part(Rep!OfType("OTHER_INCOME") \cup Rep!OfType("OTHER_EXPENSE"), ps) = 0
<1> DEFINE A == Rep!OfType("ASSET")
           L == Rep!OfType("LIABILITY")
           Q == Rep!OfType("EQUITY")
           R == Rep!OfType("REVENUE")
           C == Rep!OfType("COGS")
           E == Rep!OfType("EXPENSE")
           O == Rep!OfType("OTHER_INCOME") \cup Rep!OfType("OTHER_EXPENSE")
<1>1. Rep!Accounts = (((((A \cup L) \cup Q) \cup R) \cup C) \cup E) \cup O
  BY ChartIsTypes DEF Rep!OfType
<1>2. /\ A \cap L = {} /\ (A \cup L) \cap Q = {} /\ ((A \cup L) \cup Q) \cap R = {}
      /\ (((A \cup L) \cup Q) \cup R) \cap C = {}
      /\ ((((A \cup L) \cup Q) \cup R) \cup C) \cap E = {}
      /\ (((((A \cup L) \cup Q) \cup R) \cup C) \cup E) \cap O = {}
  BY TypesAre DEF Rep!OfType
<1> HIDE DEF A, L, Q, R, C, E, O
<1> DEFINE P(S) == Part(S, ps)
           AL == A \cup L
           ALQ == AL \cup Q
           ALQR == ALQ \cup R
           ALQRC == ALQR \cup C
           ALQRCE == ALQRC \cup E
<1>3. /\ A \subseteq Rep!Accounts /\ L \subseteq Rep!Accounts /\ Q \subseteq Rep!Accounts
      /\ R \subseteq Rep!Accounts /\ C \subseteq Rep!Accounts /\ E \subseteq Rep!Accounts
      /\ O \subseteq Rep!Accounts /\ AL \subseteq Rep!Accounts /\ ALQ \subseteq Rep!Accounts
      /\ ALQR \subseteq Rep!Accounts /\ ALQRC \subseteq Rep!Accounts
      /\ ALQRCE \subseteq Rep!Accounts
  BY <1>1
<1>4. P(AL) = P(A) + P(L)
  BY <1>2, <1>3, PartUnion
<1>5. P(ALQ) = P(AL) + P(Q)
  <2> HIDE DEF AL
  <2>1. AL \cap Q = {}
    BY <1>2 DEF AL
  <2> QED BY <1>3, <2>1, PartUnion
<1>6. P(ALQR) = P(ALQ) + P(R)
  <2>1. ALQ \cap R = {}
    BY <1>2
  <2> HIDE DEF ALQ
  <2> QED BY <1>3, <2>1, PartUnion
<1>7. P(ALQRC) = P(ALQR) + P(C)
  <2>1. ALQR \cap C = {}
    BY <1>2
  <2> HIDE DEF ALQR
  <2> QED BY <1>3, <2>1, PartUnion
<1>8. P(ALQRCE) = P(ALQRC) + P(E)
  <2>1. ALQRC \cap E = {}
    BY <1>2
  <2> HIDE DEF ALQRC
  <2> QED BY <1>3, <2>1, PartUnion
<1>9. P(ALQRCE \cup O) = P(ALQRCE) + P(O)
  <2>1. ALQRCE \cap O = {}
    BY <1>2
  <2> HIDE DEF ALQRCE
  <2> QED BY <1>3, <2>1, PartUnion
<1>10. P(ALQRCE \cup O) = 0
  BY <1>1, JournalBalances
<1> HIDE DEF AL, ALQ, ALQR, ALQRC, ALQRCE
<1>11. /\ P(A) \in Int /\ P(L) \in Int /\ P(Q) \in Int /\ P(R) \in Int /\ P(C) \in Int
       /\ P(E) \in Int /\ P(O) \in Int
  BY <1>3, PartType
<1>12. P(A) + P(L) + P(Q) + P(R) + P(C) + P(E) + P(O) = 0
  <2> HIDE DEF P
  <2> QED BY <1>4, <1>5, <1>6, <1>7, <1>8, <1>9, <1>10, <1>11
<1> QED BY <1>12 DEF A, L, Q, R, C, E, O

-----------------------------------------------------------------------------
(* The reports *)

\* getIncomeStatement over any periods: the net of the rows to close, and the sales
\* returns that it counts the wrong way.
LEMMA IncomeReported ==
    ASSUME RepInv, NEW ps
    PROVE  Rep!Income(ps) = 2 * Rep!NetOf("sales_returns", ps) - Part(Rep!OfType("REVENUE"), ps)
                              - Part(Rep!OfType("COGS"), ps) - Part(Rep!OfType("EXPENSE"), ps)
<1> DEFINE r == Part(Rep!OfType("REVENUE"), ps)
           c == Part(Rep!OfType("COGS"), ps)
           e == Part(Rep!OfType("EXPENSE"), ps)
           n == Rep!NetOf("sales_returns", ps)
<1>1. /\ Rep!SumOf(Rep!OfType("REVENUE"), ps) = -r + 2 * n
      /\ Rep!SumOf(Rep!OfType("COGS"), ps) = c
      /\ Rep!SumOf(Rep!OfType("EXPENSE"), ps) = e
  BY BalancesOfTypes
<1>2. r \in Int /\ c \in Int /\ e \in Int
  <2>1. /\ Rep!OfType("REVENUE") \subseteq Rep!Accounts
        /\ Rep!OfType("COGS") \subseteq Rep!Accounts
        /\ Rep!OfType("EXPENSE") \subseteq Rep!Accounts
    BY ChartIsTypes DEF Rep!OfType
  <2> QED BY <2>1, PartType
<1>3. n \in Int
  <2>1. "sales_returns" \in Rep!Accounts
    BY ChartIs
  <2> QED BY <2>1, NetsType
<1>4. Rep!Income(ps) = (-r + 2 * n) - c - e
  BY <1>1 DEF Rep!Income
<1> HIDE DEF r, c, e, n
<1>5. (-r + 2 * n) - c - e = 2 * n - r - c - e
  BY <1>2, <1>3
<1> QED BY <1>4, <1>5 DEF r, c, e, n

LEMMA IncomeIsEarned ==
    ASSUME RepInv
    PROVE  Rep!IncomeUntilClosed
<1> SUFFICES ASSUME NEW p \in ReportPeriods
             PROVE  /\ Rep!Income({p})
                         = 2 * Rep!AccountBalance("sales_returns", {p}) + Rep!NetIncome(p)
                    /\ p \in sealed => Rep!NetIncome(p) = 0
  BY DEF Rep!IncomeUntilClosed
<1> DEFINE R == Rep!OfType("REVENUE")
           C == Rep!OfType("COGS")
           E == Rep!OfType("EXPENSE")
           n == Rep!NetOf("sales_returns", {p})
<1>1. p \in sealed => Rep!NetIncome(p) = 0
  BY IncomeIs DEF RepInv
<1>2. Rep!AccountBalance("sales_returns", {p}) = n
  BY NormalsAre DEF Rep!AccountBalance
<1>3. Rep!Income({p}) = 2 * n - Part(R, {p}) - Part(C, {p}) - Part(E, {p})
  BY IncomeReported
<1>4. n \in Int
  <2>1. "sales_returns" \in Rep!Accounts
    BY ChartIs
  <2> QED BY <2>1, NetsType
<1>5. Rep!NetIncome(p) = -(Part(R, {p}) + Part(E, {p}) + Part(C, {p}))
  <2>1. /\ R \subseteq Rep!Accounts /\ E \subseteq Rep!Accounts /\ C \subseteq Rep!Accounts
        /\ R \cup E \subseteq Rep!Accounts
    BY ChartIsTypes DEF Rep!OfType
  <2>2. R \cap E = {} /\ (R \cup E) \cap C = {}
    BY TypesAre DEF Rep!OfType
  <2>3. Rep!Nominal = (R \cup E) \cup C
    BY DEF Rep!Nominal
  <2> HIDE DEF R, C, E
  <2>4. Part(R \cup E, {p}) = Part(R, {p}) + Part(E, {p})
    BY <2>1, <2>2, PartUnion
  <2> DEFINE RE == R \cup E
  <2>5. RE \subseteq Rep!Accounts /\ RE \cap C = {}
    BY <2>1, <2>2
  <2> HIDE DEF RE
  <2>6. Part(RE \cup C, {p}) = Part(RE, {p}) + Part(C, {p})
    BY <2>1, <2>5, PartUnion
  <2>7. Rep!NetOfAll(Rep!Nominal, {p}) = Part(Rep!Nominal, {p})
    BY NominalAre, NetOfAllIs
  <2> QED BY <2>3, <2>4, <2>6, <2>7 DEF Rep!NetIncome, RE
<1>6. Part(R, {p}) \in Int /\ Part(C, {p}) \in Int /\ Part(E, {p}) \in Int
  <2>1. R \subseteq Rep!Accounts /\ E \subseteq Rep!Accounts /\ C \subseteq Rep!Accounts
    BY ChartIsTypes DEF Rep!OfType
  <2> HIDE DEF R, C, E
  <2> QED BY <2>1, PartType
<1>7. \A r, c, e, m \in Int : 2 * m - r - c - e = 2 * m + (-(r + e + c))
  OBVIOUS
<1> HIDE DEF R, C, E, n
<1> QED BY <1>1, <1>2, <1>3, <1>4, <1>5, <1>6, <1>7

LEMMA SheetBalances ==
    ASSUME RepInv
    PROVE  Rep!SheetGapExplained
<1> DEFINE ps == ReportPeriods
           A == Rep!OfType("ASSET")
           L == Rep!OfType("LIABILITY")
           Q == Rep!OfType("EQUITY")
           R == Rep!OfType("REVENUE")
           C == Rep!OfType("COGS")
           E == Rep!OfType("EXPENSE")
           O == Rep!OfType("OTHER_INCOME") \cup Rep!OfType("OTHER_EXPENSE")
           d == Rep!NetOf("depreciation", ps)
           s == Rep!NetOf("sales_returns", ps)
           P(S) == Part(S, ps)
<1>1. /\ Rep!SumOf(A, ps) = P(A) - 2 * d /\ Rep!SumOf(L, ps) = -P(L)
      /\ Rep!SumOf(Q, ps) = -P(Q)
  BY BalancesOfTypes
<1>2. Rep!Income(ps) = 2 * s - P(R) - P(C) - P(E)
  BY IncomeReported
<1>3. P(A) + P(L) + P(Q) + P(R) + P(C) + P(E) + P(O) = 0
  BY TypesBalance
<1>4. /\ A \subseteq Rep!Accounts /\ L \subseteq Rep!Accounts /\ Q \subseteq Rep!Accounts
      /\ R \subseteq Rep!Accounts /\ C \subseteq Rep!Accounts /\ E \subseteq Rep!Accounts
      /\ O \subseteq Rep!Accounts
  BY ChartIsTypes DEF Rep!OfType
<1>5. /\ P(A) \in Int /\ P(L) \in Int /\ P(Q) \in Int /\ P(R) \in Int /\ P(C) \in Int
      /\ P(E) \in Int /\ P(O) \in Int
  <2> HIDE DEF A, L, Q, R, C, E, O
  <2> QED BY <1>4, PartType
<1>6. "depreciation" \in Rep!Accounts /\ "sales_returns" \in Rep!Accounts
  BY ChartIs
<1>7. d \in Int /\ s \in Int
  BY <1>6, NetsType
<1>8. Rep!NetOfAll(O, ps) = P(O)
  <2> HIDE DEF O
  <2> QED BY <1>4, NetOfAllIs
<1>9. Rep!NetOfAll({"depreciation", "sales_returns"}, ps) = d + s
  <2> DEFINE x == "depreciation"
             y == "sales_returns"
  <2>1. x # y /\ x \in Rep!Accounts /\ y \in Rep!Accounts
    BY <1>6
  <2>2. {x, y} = ({} \cup {x}) \cup {y}
    OBVIOUS
  <2> HIDE DEF x, y
  <2>3. Part({}, ps) = 0
    BY SumEmpty DEF Part
  <2>4. Part({} \cup {x}, ps) = Part({}, ps) + Rep!NetOf(x, ps)
    BY <2>1, PartInsert
  <2> DEFINE X == {} \cup {x}
  <2>5. X \subseteq Rep!Accounts /\ y \notin X
    BY <2>1
  <2> HIDE DEF X
  <2>6. Part(X \cup {y}, ps) = Part(X, ps) + Rep!NetOf(y, ps)
    BY <2>1, <2>5, PartInsert
  <2>7. X \cup {y} \subseteq Rep!Accounts
    BY <2>1, <2>5
  <2>8. Rep!NetOfAll(X \cup {y}, ps) = Part(X \cup {y}, ps)
    BY <2>7, NetOfAllIs
  <2>9. Rep!NetOf(x, ps) \in Int
    BY <2>1, NetsType
  <2> QED BY <2>2, <2>3, <2>4, <2>6, <2>8, <2>9 DEF X, x, y
<1>10. Rep!SheetGapExplained
         <=> Rep!SumOf(A, ps) - (Rep!SumOf(L, ps) + (Rep!SumOf(Q, ps) + Rep!Income(ps)))
               = -Rep!NetOfAll(O, ps)
                   - 2 * Rep!NetOfAll({"depreciation", "sales_returns"}, ps)
  BY DEF Rep!SheetGapExplained, Rep!BalanceSheet
<1>11. \A a, l, q, r, c, e, o, m, n \in Int :
          a + l + q + r + c + e + o = 0 =>
            (a - 2 * m) - (-l + (-q + (2 * n - r - c - e))) = -o - 2 * (m + n)
  OBVIOUS
<1> HIDE DEF A, L, Q, R, C, E, O, d, s, P
<1>12. (P(A) - 2 * d) - (-P(L) + (-P(Q) + (2 * s - P(R) - P(C) - P(E))))
         = -P(O) - 2 * (d + s)
  BY <1>3, <1>5, <1>7, <1>11
<1> QED BY <1>1, <1>2, <1>8, <1>9, <1>10, <1>12

\* One period of a set counts.
LEMMA TermOfPeriods ==
    ASSUME ReportTypes, NEW row \in Row, NEW a \in Rep!Accounts
    PROVE  Term(row, a, ReportPeriods)
             = SumFunctionOnSet([p \in ReportPeriods |-> Term(row, a, {p})], ReportPeriods)
<1> DEFINE q == row.period
           f == [p \in ReportPeriods |-> Term(row, a, {p})]
<1>1. q \in ReportPeriods /\ IsFiniteSet(ReportPeriods)
  BY DEF Row, ReportTypes
<1>2. \A p \in ReportPeriods : f[p] \in Int
  BY TermType
<1>3. Term(row, a, ReportPeriods) = f[q]
  BY <1>1 DEF Term
<1>4. \A p \in ReportPeriods \ {q} : f[p] = 0
  BY DEF Term
<1>5. IsFiniteSet({q}) /\ {q} \subseteq ReportPeriods /\ {q} \ {q} = {}
  BY <1>1, FS_Singleton
<1> HIDE DEF f, q
<1>6. SumFunctionOnSet(f, {q}) = SumFunctionOnSet(f, ReportPeriods)
  BY <1>1, <1>2, <1>4, <1>5, SumNonZero
<1>7. SumFunctionOnSet(f, {q}) = f[q] + SumFunctionOnSet(f, {q} \ {q})
  <2>1. q \in {q} /\ \A p \in {q} : f[p] \in Int
    BY <1>1, <1>2
  <2> QED BY <1>5, <2>1, SumRemove
<1>8. f[q] \in Int
  BY <1>1, <1>2
<1>9. SumFunctionOnSet(f, {q} \ {q}) = 0
  BY <1>5, SumEmpty
<1>10. Term(row, a, ReportPeriods) = SumFunctionOnSet(f, ReportPeriods)
  BY <1>3, <1>6, <1>7, <1>8, <1>9
<1> QED BY <1>10 DEF f

\* The net of an account is the sum of its nets, period by period.
LEMMA NetOfPeriods ==
    ASSUME ReportTypes, RepInv, NEW a \in Rep!Accounts
    PROVE  NetOn(booked, a, ReportPeriods)
             = SumFunctionOnSet([p \in ReportPeriods |-> NetOn(booked, a, {p})], ReportPeriods)
<1> DEFINE D == DOMAIN booked
           Y == ReportPeriods
           m == [i \in D |-> [p \in Y |-> Term(booked[i], a, {p})]]
           w == [p \in Y |-> [i \in D |-> Term(booked[i], a, {p})]]
           row == [i \in D |-> Term(booked[i], a, Y)]
           column == [p \in Y |-> NetOn(booked, a, {p})]
<1>1. booked \in Seq(Row) /\ IsFiniteSet(Y)
  BY DEF RepInv, ReportTypes
<1>2. IsFiniteSet(D) /\ \A i \in D : booked[i] \in Row
  BY <1>1, RowsFinite
<1>3. Transposed(m, w, D, Y)
  BY <1>2, TermType DEF Transposed
<1>4. AddsUp(row, m, D, Y)
  BY <1>2, TermOfPeriods DEF AddsUp
<1>5. AddsUp(column, w, Y, D)
  BY DEF AddsUp, NetOn
<1>6. NetOn(booked, a, Y) = SumFunctionOnSet(row, D)
  BY DEF NetOn
<1> HIDE DEF D, Y, m, w, row, column
<1>7. SumFunctionOnSet(row, D) = SumFunctionOnSet(column, Y)
  BY <1>1, <1>2, <1>3, <1>4, <1>5, SumSwap
<1>8. NetOn(booked, a, Y) = SumFunctionOnSet(column, Y)
  BY <1>6, <1>7
<1> QED BY <1>8 DEF column, Y

\* So is the net of many.
LEMMA PartOfPeriods ==
    ASSUME ReportTypes, RepInv, NEW some, some \subseteq Rep!Accounts
    PROVE  Part(some, ReportPeriods)
             = SumFunctionOnSet([p \in ReportPeriods |-> Part(some, {p})], ReportPeriods)
<1> DEFINE Y == ReportPeriods
           m == [a \in some |-> [p \in Y |-> NetOn(booked, a, {p})]]
           w == [p \in Y |-> Nets({p})]
           row == Nets(Y)
           column == [p \in Y |-> Part(some, {p})]
<1>1. IsFiniteSet(some) /\ IsFiniteSet(Y)
  BY PartType DEF ReportTypes
<1>2. Transposed(m, w, some, Y)
  BY NetsType DEF Transposed
<1>3. AddsUp(row, m, some, Y)
  BY NetsType, NetOfPeriods DEF AddsUp
<1>4. AddsUp(column, w, Y, some)
  BY DEF AddsUp, Part
<1>5. Part(some, Y) = SumFunctionOnSet(row, some)
  BY DEF Part
<1> HIDE DEF Y, m, w, row, column
<1>6. SumFunctionOnSet(row, some) = SumFunctionOnSet(column, Y)
  <2>1. IsFiniteSet(some)
    BY <1>1
  <2>2. IsFiniteSet(Y)
    BY <1>1
  <2>3. Transposed(m, w, some, Y)
    BY <1>2
  <2>4. AddsUp(row, m, some, Y)
    BY <1>3
  <2>5. AddsUp(column, w, Y, some)
    BY <1>4
  <2> QED BY <2>1, <2>2, <2>3, <2>4, <2>5, SumSwap
<1>7. Part(some, Y) = SumFunctionOnSet(column, Y)
  BY <1>5, <1>6
<1> QED BY <1>7 DEF column, Y

LEMMA CashIsSame ==
    ASSUME ReportTypes, RepInv
    PROVE  Rep!CashAgrees
<1> DEFINE cash == Rep!CashAccounts
           x == "receipt_clearing"
<1>1. /\ Rep!OfCategory({"CASH"}) = cash
      /\ Rep!OfCategory({"CASH", "CLEARING"}) = cash \cup {x}
  <2>1. cash \subseteq Rep!Accounts /\ x \in Rep!Accounts /\ x \notin cash
    BY ChartIs DEF Rep!CashAccounts
  <2>2. \A a : /\ a \in cash => Rep!Category(a) = "CASH"
               /\ a = x => Rep!Category(a) = "CLEARING"
               /\ a \notin cash \cup {x} => Rep!Category(a) = "none"
    BY <2>1 DEF Rep!Category
  <2> HIDE DEF cash, x
  <2> QED BY <2>1, <2>2 DEF Rep!OfCategory
<1>2. cash \subseteq Rep!Accounts /\ x \in Rep!Accounts /\ x \notin cash
      /\ cash \cup {x} \subseteq Rep!Accounts
  BY ChartIs DEF Rep!CashAccounts
<1>3. \A a \in cash \cup {x} : Rep!Normal(a) = "DEBIT"
  BY NormalsAre DEF Rep!CashAccounts
<1> HIDE DEF cash, x
<1>4. \A ps : Part(cash, ps) \in Int /\ Rep!NetOf(x, ps) \in Int
              /\ Part(cash \cup {x}, ps) = Part(cash, ps) + Rep!NetOf(x, ps)
  BY <1>2, PartType, PartInsert, NetsType
<1>5. Rep!DashboardCash = Part(cash, ReportPeriods)
  BY <1>1, <1>2, <1>3, DebitBalances DEF Rep!DashboardCash
<1>6. Rep!CashPosition = Part(cash \cup {x}, ReportPeriods)
  <2> DEFINE more == cash \cup {x}
  <2>1. more \subseteq Rep!Accounts /\ \A a \in more : Rep!Normal(a) = "DEBIT"
    BY <1>2, <1>3
  <2> HIDE DEF more
  <2>2. Rep!SumOf(more, ReportPeriods) = Part(more, ReportPeriods)
    BY <2>1, DebitBalances
  <2> QED BY <1>1, <2>2 DEF Rep!CashPosition, more
<1>7. \A p : Rep!CashFlow(p) = Part(cash, {p})
  BY <1>1, <1>2, NetOfAllIs DEF Rep!CashFlow
<1>8. \A p : Rep!CashFlowStatement(p) = Part(cash \cup {x}, {p})
  <2> DEFINE more == cash \cup {x}
  <2>1. more \subseteq Rep!Accounts
    BY <1>2
  <2> HIDE DEF more
  <2>2. \A p : Rep!NetOfAll(more, {p}) = Part(more, {p})
    BY <2>1, NetOfAllIs
  <2> QED BY <1>1, <2>2 DEF Rep!CashFlowStatement, more
<1>9. Rep!CashPosition - Rep!DashboardCash = Rep!AccountBalance(x, ReportPeriods)
  <2>1. Rep!AccountBalance(x, ReportPeriods) = Rep!NetOf(x, ReportPeriods)
    BY <1>3 DEF Rep!AccountBalance
  <2>2. PICK m, n : m = Part(cash, ReportPeriods) /\ n = Rep!NetOf(x, ReportPeriods)
    OBVIOUS
  <2>3. m \in Int /\ n \in Int /\ Part(cash \cup {x}, ReportPeriods) = m + n
    BY <1>4, <2>2
  <2>4. Rep!DashboardCash = m /\ Rep!CashPosition = m + n
    BY <1>5, <1>6, <2>2, <2>3
  <2>5. (m + n) - m = n
    BY <2>3
  <2> QED BY <2>1, <2>2, <2>4, <2>5
<1>10. Rep!DashboardCash = Rep!SumFunction([p \in ReportPeriods |-> Rep!CashFlow(p)])
  <2> DEFINE f == [p \in ReportPeriods |-> Rep!CashFlow(p)]
             g == [p \in ReportPeriods |-> Part(cash, {p})]
  <2>1. f = g /\ DOMAIN f = ReportPeriods
    BY <1>7
  <2>2. Part(cash, ReportPeriods) = SumFunctionOnSet(g, ReportPeriods)
    BY <1>2, PartOfPeriods
  <2> HIDE DEF f, g
  <2>3. Rep!SumFunction(f) = SumFunctionOnSet(f, ReportPeriods)
    BY <2>1, SumOfReports
  <2>4. Rep!DashboardCash = Rep!SumFunction(f)
    BY <1>5, <2>1, <2>2, <2>3
  <2> QED BY <2>4 DEF f
<1>11. \A p \in ReportPeriods :
          Rep!CashFlowStatement(p) - Rep!CashFlow(p) = Rep!NetOf(x, {p})
  <2> SUFFICES ASSUME NEW p \in ReportPeriods
               PROVE  Rep!CashFlowStatement(p) - Rep!CashFlow(p) = Rep!NetOf(x, {p})
    OBVIOUS
  <2>1. PICK m, n : m = Part(cash, {p}) /\ n = Rep!NetOf(x, {p})
    OBVIOUS
  <2>2. Rep!CashFlow(p) = m
    BY <1>7, <2>1
  <2>3. m \in Int /\ n \in Int /\ Part(cash \cup {x}, {p}) = m + n
    BY <1>4, <2>1
  <2>4. Rep!CashFlowStatement(p) = m + n
    BY <1>8, <2>3
  <2>5. (m + n) - m = n
    BY <2>3
  <2> QED BY <2>1, <2>2, <2>4, <2>5
<1> QED BY <1>9, <1>10, <1>11 DEF Rep!CashAgrees, x

LEMMA RepInvHolds ==
    ASSUME ReportTypes
    PROVE  OfficeSpec => []RepInv
<1>1. Rep!RepInit => RepInv
  <2>1. << >> \in Seq(Row) /\ DOMAIN << >> = {}
    OBVIOUS
  <2> QED BY <2>1 DEF Rep!RepInit, RepInv
<1>2. RepInv /\ [Rep!RepNext]_Rep!repVars => RepInv'
  BY RepStep
<1> QED BY <1>1, <1>2, OfficeStarts, OfficeMoves, PTL DEF OfficeSpec

\* ReportingService, CashBankService and AccountingService: for any events, amounts, tax and
\* periods, and a journal of any length, the balance sheet balances but for the gaps that are
\* named, income is what was earned until the period is closed, and the reports agree on cash.
THEOREM ReportsAgreeWithJournal ==
    ASSUME ReportTypes
    PROVE  OfficeSpec => []ReportsAgree
<1>1. RepInv => ReportsAgree
  BY SheetBalances, IncomeIsEarned, CashIsSame DEF ReportsAgree, Rep!ReportsAgree
<1> QED BY <1>1, RepInvHolds, PTL

\* JournalEventFactory: every entry that is posted balances, and those of its events are what
\* it builds, but for the tax of invoices and returns.
THEOREM EntriesAsFactory ==
    ASSUME ReportTypes
    PROVE  OfficeSpec => []FactoryAgrees
<1>1. RepInv => FactoryAgrees
  <2>1. \A e \in Rep!FactoryEvents, n \in ReportAmounts :
           Rep!EntryLines(e, n, TaxIn) = Rep!AsFactory(e, n)
    BY EntriesAreFactory DEF ReportTypes
  <2> QED BY <2>1 DEF FactoryAgrees, Rep!FactoryAgrees, RepInv, EntryOK
<1> QED BY <1>1, RepInvHolds, PTL
=============================================================================
