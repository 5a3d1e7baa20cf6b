------------------------------ MODULE PosProofs ------------------------------
(***************************************************************************)
(* That the point of sale keeps stock, payments and journal in step, for   *)
(* any products, cashiers, sessions and sales.                             *)
(*                                                                         *)
(* The properties speak of what is committed.  The inductive invariant     *)
(* IInv adds what the calls under way rely on (SessionOK): what they refer *)
(* to exists, the products they write are locked by them, the rows they    *)
(* have written fit the committed balance, a checkout's sale is not        *)
(* completed behind its back; that a sale has one checkout (OneCheckout);  *)
(* and, as long as no void met another call for its sale, that it has one  *)
(* call (OneCall), which has read the sale as it is (SeesOK), so that what *)
(* is posted follows its status (JournalInv).                              *)
(***************************************************************************)
EXTENDS Pos, SumProofs

CheckoutCalls ==
    [step : {"item", "add", "lock", "write", "commit", "pay", "settle"}, op : {"SALE"},
     sale : Nat, items : Seq(Item), paid : Nat, change : Int, next : Nat \ {0},
     attempt : 1..Attempts, version : Nat]
VoidCalls ==
    [step : {"void", "lock", "write", "commit"}, op : {"VOID"}, sale : Nat, seen : Sale,
     attempt : 1..Attempts]
OpeningCalls == [step : {"opening"}, cashier : Cashiers, warehouse : Warehouses]
ClosingCalls == [step : {"closing"}, shift : Nat, expected : Int]
Calls == {NoCall} \cup CheckoutCalls \cup VoidCalls \cup OpeningCalls \cup ClosingCalls

Checks(s) == call[s] \in CheckoutCalls
Voids(s) == call[s] \in VoidCalls
Busy(s) == Checks(s) \/ Voids(s)
SaleOf(s) == sales[call[s].sale]

CallsTypeOK ==
    /\ StockTypeOK
    /\ shifts \in Seq(Shift)
    /\ sales \in Seq(Sale)
    /\ call \in [Sessions -> Calls]
    /\ overlapped \in BOOLEAN

Places == \A t \in DOMAIN sales : sales[t].shift \in DOMAIN shifts

\* What a call refers to exists.
Refers(s) ==
    /\ Busy(s) => call[s].sale \in DOMAIN sales
    /\ call[s].step = "closing" => call[s].shift \in DOMAIN shifts
    /\ Checks(s) /\ call[s].step \in {"add", "lock", "write", "commit"} =>
          call[s].next \in DOMAIN call[s].items

\* The products that a call locks, the stock it touches and how it moves that.
Needs(s) == IF Checks(s) THEN {ItemOf(s).product} ELSE ProductsIn(call[s].seen.lines)
Touches(s) == Needs(s) \X {WarehouseOf(s)}
Moves(s, p) == IF Checks(s) THEN -ItemOf(s).qty ELSE QtyOf(call[s].seen.lines, p)

\* The products are the call's own from the last lock to its end.
LocksOK(s) == Busy(s) /\ call[s].step \in {"write", "commit"} =>
                  \A p \in Needs(s) : rowLock[p] = s

\* The rows that a call has written and not committed fit the committed ones.
Commits(s, k) == Busy(s) /\ call[s].step = "commit" /\ k \in Touches(s)
RowsOK(s) ==
    \A k \in Keys :
        IF Commits(s, k)
        THEN /\ own[s][k] = [wrote |-> TRUE, delta |-> Moves(s, k[1]),
                             running |-> ledger[k].sum + Moves(s, k[1])]
             /\ ledger[k].sum + Moves(s, k[1]) >= 0
        ELSE own[s][k] = NoRows

\* A checkout is over when its sale is paid; when it settles, it has read the total
\* as it is.
SettlesOK(s) ==
    Checks(s) =>
        /\ SaleOf(s).status # "COMPLETED"
        /\ call[s].step = "settle" =>
              call[s].paid = SaleOf(s).total + call[s].change /\ call[s].change >= 0

\* As long as nothing met, a sale that is checked out is not voided, and a void has
\* read its sale as it is, but for a hold.
SeesOK(s) ==
    ~overlapped =>
        /\ Checks(s) => SaleOf(s).status # "VOIDED"
        /\ Voids(s) /\ call[s].step # "void" =>
              LET seen == call[s].seen IN
              /\ SaleOf(s).status # "VOIDED"
              /\ seen.lines = SaleOf(s).lines /\ seen.total = SaleOf(s).total
              /\ seen.status = "COMPLETED" <=> SaleOf(s).status = "COMPLETED"

SessionOK(s) == Refers(s) /\ LocksOK(s) /\ RowsOK(s) /\ SettlesOK(s) /\ SeesOK(s)

\* A sale has one checkout, and one call as long as nothing met.
OneCheckout ==
    \A s, o \in Sessions : Checks(s) /\ Checks(o) /\ call[s].sale = call[o].sale => s = o
OneCall ==
    ~overlapped => \A s, o \in Sessions :
        Busy(s) /\ Busy(o) /\ call[s].sale = call[o].sale => s = o

\* The total of a sale is that of its lines.
TotalInv == \A t \in DOMAIN sales : sales[t].total = AmountOf(sales[t].lines)

SaleEntry(amount) == AutoEntry("POS_SALE", "POS_TRANSACTION", amount)
ReversalEntry(amount) == AutoEntry("POS_SALE_REVERSAL", "POS_VOID", amount)

\* What a sale has posted, as long as nothing met.
JournalOK(sale) ==
    /\ sale.status = "COMPLETED" => sale.journal = <<SaleEntry(sale.total)>>
    /\ sale.status \in {"OPEN", "HELD", "CANCELLED"} => sale.journal = << >>
    /\ sale.status = "VOIDED" =>
          \/ sale.journal = << >>
          \/ \E a \in Nat : sale.journal = <<SaleEntry(a), ReversalEntry(a)>>
JournalInv == PeriodOpen /\ ~overlapped => \A t \in DOMAIN sales : JournalOK(sales[t])

IInv ==
    /\ CallsTypeOK /\ Places /\ \A s \in Sessions : SessionOK(s)
    /\ OneCheckout /\ OneCall
    /\ StockNonNegative /\ RunningIsBalance /\ SalesTakeStock
    /\ TotalInv /\ CompletedIsPaid /\ JournalInv

-----------------------------------------------------------------------------
(* Lines and entries, added up. *)

\* The quantity of a product, and the amount, of lines: natural numbers.
LEMMA LinesType ==
    ASSUME NEW lines \in Seq(Item), NEW p
    PROVE  /\ QtyOf(lines, p) \in Nat /\ AmountOf(lines) \in Nat
           /\ p \notin ProductsIn(lines) => QtyOf(lines, p) = 0
<1> DEFINE q == [i \in DOMAIN lines |-> IF lines[i].product = p THEN lines[i].qty ELSE 0]
           a == [i \in DOMAIN lines |-> lines[i].qty * Price[lines[i].product]]
<1>1. IsFiniteSet(DOMAIN lines) /\ DOMAIN q = DOMAIN lines /\ DOMAIN a = DOMAIN lines
  BY FS_Interval
<1>2. \A i \in DOMAIN lines : q[i] \in Nat /\ a[i] \in Nat
  <2> SUFFICES ASSUME NEW i \in DOMAIN lines PROVE q[i] \in Nat /\ a[i] \in Nat
    OBVIOUS
  <2>1. lines[i] \in Item
    OBVIOUS
  <2>2. lines[i].qty \in Nat /\ Price[lines[i].product] \in Nat
    BY <2>1, PosAssumption DEF Item
  <2> QED BY <2>2
<1>3. p \notin ProductsIn(lines) => \A i \in DOMAIN lines : q[i] = 0
  BY DEF ProductsIn, ToSet
<1> HIDE DEF q, a
<1>4. SumFunction(q) \in Nat /\ SumFunction(a) \in Nat
  BY <1>1, <1>2, SumNatural DEF SumFunction
<1>5. p \notin ProductsIn(lines) => SumFunction(q) = 0
  BY <1>1, <1>3, SumZero DEF SumFunction
<1> QED BY <1>4, <1>5 DEF QtyOf, AmountOf, q, a

\* No lines.
LEMMA NoLines ==
    ASSUME NEW p
    PROVE  QtyOf(<< >>, p) = 0 /\ AmountOf(<< >>) = 0
BY SumEmpty DEF QtyOf, AmountOf, SumFunction

\* One line more.
LEMMA LineAdded ==
    ASSUME NEW lines \in Seq(Item), NEW l \in Item, NEW p
    PROVE  /\ QtyOf(Append(lines, l), p)
                = QtyOf(lines, p) + (IF l.product = p THEN l.qty ELSE 0)
           /\ AmountOf(Append(lines, l)) = AmountOf(lines) + l.qty * Price[l.product]
<1> DEFINE longer == Append(lines, l)
           Q(ls) == [i \in DOMAIN ls |-> IF ls[i].product = p THEN ls[i].qty ELSE 0]
           A(ls) == [i \in DOMAIN ls |-> ls[i].qty * Price[ls[i].product]]
<1>1. \A m \in Item : m.qty \in Nat /\ m.qty * Price[m.product] \in Nat
  <2> SUFFICES ASSUME NEW m \in Item PROVE m.qty \in Nat /\ m.qty * Price[m.product] \in Nat
    OBVIOUS
  <2>1. m.qty \in Nat /\ Price[m.product] \in Nat
    BY PosAssumption DEF Item
  <2> QED BY <2>1
<1>2. /\ Q(lines) \in Seq(Int) /\ A(lines) \in Seq(Int)
      /\ Q(longer) = Append(Q(lines), IF l.product = p THEN l.qty ELSE 0)
      /\ A(longer) = Append(A(lines), l.qty * Price[l.product])
  <2>1. \A i \in 1..Len(lines) : lines[i] \in Item /\ longer[i] = lines[i]
    OBVIOUS
  <2>2. DOMAIN lines = 1..Len(lines) /\ DOMAIN longer = 1..(Len(lines) + 1)
        /\ longer[Len(lines) + 1] = l
    OBVIOUS
  <2> HIDE DEF longer
  <2>3. Q(lines) \in Seq(Int) /\ A(lines) \in Seq(Int)
        /\ Len(Q(lines)) = Len(lines) /\ Len(A(lines)) = Len(lines)
    BY <1>1, <2>1, <2>2
  <2> QED BY <1>1, <2>1, <2>2, <2>3
<1>3. (IF l.product = p THEN l.qty ELSE 0) \in Int /\ l.qty * Price[l.product] \in Int
  BY <1>1
<1> QED BY <1>2, <1>3, SumAppend DEF QtyOf, AmountOf

\* Journals of one entry and of two.
LEMMA ShortJournals ==
    ASSUME NEW x, NEW y
    PROVE  <<x>> = Append(<< >>, x) /\ <<x, y>> = Append(<<x>>, y)
OBVIOUS

\* One entry more.
LEMMA EntryAdded ==
    ASSUME NEW journal \in Seq(Entry), NEW e \in Entry, NEW event
    PROVE  Standing(Append(journal, e), event)
             = Standing(journal, event) + (IF e.event = event THEN e.amount ELSE 0)
<1> DEFINE longer == Append(journal, e)
           V(j) == [i \in DOMAIN j |-> IF j[i].event = event /\ j[i].status = "POSTED"
                                       THEN j[i].amount ELSE 0]
           v == IF e.event = event THEN e.amount ELSE 0
<1>1. \A m \in Entry : m.amount \in Int /\ m.status = "POSTED"
  BY DEF Entry
<1>2. /\ \A i \in 1..Len(journal) : journal[i] \in Entry /\ longer[i] = journal[i]
      /\ DOMAIN journal = 1..Len(journal) /\ DOMAIN longer = 1..(Len(journal) + 1)
      /\ longer[Len(journal) + 1] = e
  OBVIOUS
<1>3. V(journal) \in Seq(Int) /\ V(longer) = Append(V(journal), v)
  <2> HIDE DEF longer
  <2>1. V(journal) \in Seq(Int) /\ Len(V(journal)) = Len(journal)
    BY <1>1, <1>2
  <2> QED BY <1>1, <1>2, <2>1
<1>4. v \in Int
  BY <1>1
<1> QED BY <1>3, <1>4, SumAppend DEF Standing

\* What no entries, an entry of a sale, and that and its reversal amount to.
LEMMA Journals ==
    ASSUME NEW a \in Nat
    PROVE  /\ \A event : Standing(<< >>, event) = 0
           /\ Standing(<<SaleEntry(a)>>, "POS_SALE") = a
           /\ Standing(<<SaleEntry(a)>>, "POS_SALE_REVERSAL") = 0
           /\ Standing(<<SaleEntry(a), ReversalEntry(a)>>, "POS_SALE") = a
           /\ Standing(<<SaleEntry(a), ReversalEntry(a)>>, "POS_SALE_REVERSAL") = a
<1> DEFINE x == SaleEntry(a)
           y == ReversalEntry(a)
<1>1. \A event : Standing(<< >>, event) = 0
  BY SumEmpty DEF Standing, SumFunction
<1>2. /\ x \in Entry /\ x.event = "POS_SALE" /\ x.amount = a
      /\ y \in Entry /\ y.event = "POS_SALE_REVERSAL" /\ y.amount = a
  <2>1. x.event = "POS_SALE" /\ x.amount = a
    BY DEF SaleEntry, AutoEntry
  <2>2. y.event = "POS_SALE_REVERSAL" /\ y.amount = a
    BY DEF ReversalEntry, AutoEntry
  <2>3. x \in Entry
    BY DEF SaleEntry, AutoEntry, Entry
  <2>4. y \in Entry
    BY DEF ReversalEntry, AutoEntry, Entry
  <2> QED BY <2>1, <2>2, <2>3, <2>4
<1> HIDE DEF x, y
<1>3. << >> \in Seq(Entry) /\ <<x>> \in Seq(Entry)
  BY <1>2
<1>4. <<x>> = Append(<< >>, x) /\ <<x, y>> = Append(<<x>>, y)
  BY ShortJournals
<1>5. Standing(<<x>>, "POS_SALE") = a /\ Standing(<<x>>, "POS_SALE_REVERSAL") = 0
  <2>1. \A event : Standing(Append(<< >>, x), event)
                     = Standing(<< >>, event) + (IF x.event = event THEN x.amount ELSE 0)
    BY <1>2, <1>3, EntryAdded
  <2> QED BY <1>1, <1>2, <1>4, <2>1
<1>6. Standing(<<x, y>>, "POS_SALE") = a /\ Standing(<<x, y>>, "POS_SALE_REVERSAL") = a
  <2>1. \A event : Standing(Append(<<x>>, y), event)
                     = Standing(<<x>>, event) + (IF y.event = event THEN y.amount ELSE 0)
    BY <1>2, <1>3, EntryAdded
  <2>2. Standing(Append(<<x>>, y), "POS_SALE") = a
        /\ Standing(Append(<<x>>, y), "POS_SALE_REVERSAL") = a
    BY <1>2, <1>5, <2>1
  <2> QED BY <1>4, <2>2
<1> QED BY <1>1, <1>5, <1>6 DEF x, y

\* There are finitely many sales.
LEMMA SalesFinite ==
    ASSUME CallsTypeOK
    PROVE  IsFiniteSet(DOMAIN sales) /\ DOMAIN sales = 1..Len(sales) /\ Len(sales) \in Nat
<1>1. DOMAIN sales = 1..Len(sales) /\ Len(sales) \in Nat
  BY DEF CallsTypeOK
<1> QED BY <1>1, FS_Interval

\* The cash of a shift is an integer.
LEMMA CashType ==
    ASSUME CallsTypeOK, NEW i
    PROVE  CashIn(i) \in Int
<1> DEFINE cash == [t \in DOMAIN sales |-> sales[t].paid - sales[t].change]
           S == {t \in SalesOf(i) : sales[t].status = "COMPLETED"}
<1>1. IsFiniteSet(S)
  <2>1. S \subseteq DOMAIN sales
    BY DEF SalesOf
  <2> HIDE DEF S
  <2> QED BY <2>1, SalesFinite, FS_Subset
<1>2. \A t \in S : cash[t] \in Int
  <2> SUFFICES ASSUME NEW t \in S PROVE cash[t] \in Int
    OBVIOUS
  <2>1. t \in DOMAIN sales /\ sales[t] \in Sale
    BY DEF SalesOf, CallsTypeOK
  <2>2. sales[t].paid \in Nat /\ sales[t].change \in Int
    BY <2>1 DEF Sale
  <2> QED BY <2>1, <2>2
<1> HIDE DEF cash, S
<1>3. SumFunctionOnSet(cash, S) \in Int
  BY <1>1, <1>2, SumType
<1> QED BY <1>3 DEF CashIn, cash, S

-----------------------------------------------------------------------------
(* Calls *)

\* A call's step and operation say what it is.
LEMMA CallKinds ==
    ASSUME CallsTypeOK, NEW s \in Sessions
    PROVE  /\ call[s] \in Calls
           /\ ~(Checks(s) /\ Voids(s))
           /\ Free(s) => ~Busy(s) /\ call[s].step = "none"
           /\ call[s].step \in {"item", "add", "pay", "settle"} => Checks(s)
           /\ call[s].step = "void" => Voids(s)
           /\ call[s].step \in {"lock", "write", "commit"} =>
                 (Checks(s) /\ call[s].op = "SALE") \/ (Voids(s) /\ call[s].op = "VOID")
           /\ call[s].step = "opening" => call[s] \in OpeningCalls
           /\ call[s].step = "closing" => call[s] \in ClosingCalls
           /\ Busy(s) => call[s].sale \in Nat /\ call[s].step \notin {"none", "opening", "closing"}
           /\ \A t : WorksOn(s, t) <=> Busy(s) /\ call[s].sale = t
<1>1. call[s] \in Calls
  BY DEF CallsTypeOK
<1>2. CASE call[s] \in CheckoutCalls
  BY <1>2 DEF Calls, CheckoutCalls, VoidCalls, OpeningCalls, ClosingCalls, NoCall, Checks, Voids, Busy, Free, WorksOn
<1>3. CASE call[s] \in VoidCalls
  BY <1>3 DEF Calls, CheckoutCalls, VoidCalls, OpeningCalls, ClosingCalls, NoCall, Checks, Voids, Busy, Free, WorksOn
<1>4. CASE call[s] \in OpeningCalls
  BY <1>4 DEF Calls, CheckoutCalls, VoidCalls, OpeningCalls, ClosingCalls, NoCall, Checks, Voids, Busy, Free, WorksOn
<1>5. CASE call[s] \in ClosingCalls
  BY <1>5 DEF Calls, CheckoutCalls, VoidCalls, OpeningCalls, ClosingCalls, NoCall, Checks, Voids, Busy, Free, WorksOn
<1>6. CASE call[s] = NoCall
  BY <1>6 DEF Calls, CheckoutCalls, VoidCalls, OpeningCalls, ClosingCalls, NoCall, Checks, Voids, Busy, Free, WorksOn
<1> QED BY <1>1, <1>2, <1>3, <1>4, <1>5, <1>6 DEF Calls

\* A call that locks, writes or commits touches stock by whole quantities.
LEMMA NeedsType ==
    ASSUME CallsTypeOK, Places, NEW s \in Sessions, Refers(s),
           Busy(s), call[s].step \in {"lock", "write", "commit"}
    PROVE  /\ Checks(s) => ItemOf(s) \in Item
           /\ Needs(s) \subseteq Products
           /\ WarehouseOf(s) \in Warehouses
           /\ \A p : Moves(s, p) \in Int
           /\ Voids(s) => \A p : Moves(s, p) \in Nat
           /\ Voids(s) => \A p : p \notin Needs(s) => QtyOf(call[s].seen.lines, p) = 0
<1>1. Checks(s) => ItemOf(s) \in Item
  BY DEF Refers, Checks, CheckoutCalls, ItemOf
<1>2. Voids(s) => call[s].seen.lines \in Seq(Item) /\ ~Checks(s)
  BY CallKinds DEF Voids, VoidCalls, Sale
<1>3. WarehouseOf(s) \in Warehouses
  <2>1. call[s].sale \in DOMAIN sales
    BY DEF Refers
  <2>2. SaleOf(s).shift \in DOMAIN shifts
    BY <2>1 DEF Places, SaleOf
  <2>3. shifts[SaleOf(s).shift] \in Shift
    BY <2>2 DEF CallsTypeOK
  <2> QED BY <2>3 DEF Shift, WarehouseOf, SaleOf
<1>4. Needs(s) \subseteq Products
  <2>1. CASE Checks(s)
    BY <1>1, <2>1 DEF Needs, Item
  <2>2. CASE Voids(s)
    <3>1. \A i \in DOMAIN call[s].seen.lines : call[s].seen.lines[i].product \in Products
      <4> SUFFICES ASSUME NEW i \in DOMAIN call[s].seen.lines
                   PROVE  call[s].seen.lines[i].product \in Products
        OBVIOUS
      <4>1. call[s].seen.lines[i] \in Item
        BY <1>2, <2>2
      <4> QED BY <4>1 DEF Item
    <3> QED BY <1>2, <2>2, <3>1 DEF Needs, ProductsIn, ToSet
  <2> QED BY <2>1, <2>2 DEF Busy
<1>5. Voids(s) => \A p : Moves(s, p) \in Nat
  BY <1>2, LinesType DEF Moves
<1>6. Checks(s) => \A p : Moves(s, p) \in Int
  BY <1>1 DEF Moves, Item
<1>7. Voids(s) => \A p : p \notin Needs(s) => QtyOf(call[s].seen.lines, p) = 0
  BY <1>2, LinesType DEF Needs
<1> QED BY <1>1, <1>3, <1>4, <1>5, <1>6, <1>7 DEF Busy

\* What every step leaves alone: the calls of other sessions, and where a sale is sold.
OthersKept(s) == \A o \in Sessions \ {s} : call'[o] = call[o]
PlacesKept ==
    /\ DOMAIN sales \subseteq DOMAIN sales'
    /\ \A t \in DOMAIN sales : sales'[t].shift = sales[t].shift
    /\ DOMAIN shifts \subseteq DOMAIN shifts'
    /\ \A i \in DOMAIN shifts : shifts'[i].warehouse = shifts[i].warehouse

\* What a sale keeps for a call that has read it.
Alike(sale, new) ==
    /\ new.lines = sale.lines /\ new.total = sale.total
    /\ new.status = "COMPLETED" <=> sale.status = "COMPLETED"
    /\ new.status = "VOIDED" => sale.status = "VOIDED"

\* A call becomes another one.
LEMMA CallChanged ==
    ASSUME CallsTypeOK, NEW s \in Sessions, NEW c \in Calls,
           call' = [call EXCEPT ![s] = c]
    PROVE  call' \in [Sessions -> Calls] /\ call'[s] = c /\ OthersKept(s)
BY DEF CallsTypeOK, OthersKept

\* What a call relies on stays when others change neither its locks and rows nor, as
\* far as it has read it, its sale.
LEMMA Bystander ==
    ASSUME CallsTypeOK, Places, NEW o \in Sessions, SessionOK(o), call'[o] = call[o],
           PlacesKept, own'[o] = own[o],
           \A p \in Products : rowLock[p] = o => rowLock'[p] = o,
           \A k \in Keys : Commits(o, k) => ledger'[k] = ledger[k],
           Checks(o) => /\ SaleOf(o)'.status # "COMPLETED"
                        /\ SaleOf(o)'.total = SaleOf(o).total,
           overlapped => overlapped',
           ~overlapped' /\ Busy(o) => Alike(SaleOf(o), SaleOf(o)')
    PROVE  SessionOK(o)'
<1>1. /\ Checks(o)' <=> Checks(o)
      /\ Voids(o)' <=> Voids(o)
      /\ Busy(o)' <=> Busy(o)
  BY DEF Checks, Voids, Busy
<1>2. Busy(o) => call[o].sale \in DOMAIN sales
  BY DEF SessionOK, Refers
<1>3. /\ Needs(o)' = Needs(o)
      /\ \A p : Moves(o, p)' = Moves(o, p)
      /\ Busy(o) => WarehouseOf(o)' = WarehouseOf(o)
  <2>1. Needs(o)' = Needs(o)
    BY <1>1 DEF Needs, ItemOf
  <2>2. \A p : Moves(o, p)' = Moves(o, p)
    BY <1>1 DEF Moves, ItemOf, QtyOf
  <2>3. Busy(o) => WarehouseOf(o)' = WarehouseOf(o)
    BY <1>2 DEF WarehouseOf, PlacesKept, Places
  <2> QED BY <2>1, <2>2, <2>3
<1>4. \A k : Commits(o, k)' <=> Commits(o, k)
  BY <1>1, <1>3 DEF Commits, Touches
<1>5. Refers(o)'
  BY <1>1 DEF SessionOK, Refers, PlacesKept
<1>6. LocksOK(o)'
  <2>1. Busy(o) /\ call[o].step \in {"write", "commit"} => Needs(o) \subseteq Products
    <3> SUFFICES ASSUME Busy(o), call[o].step \in {"write", "commit"}
                 PROVE  Needs(o) \subseteq Products
      OBVIOUS
    <3>1. Refers(o)
      BY DEF SessionOK
    <3> QED BY <3>1, NeedsType
  <2> QED BY <1>1, <1>3, <2>1 DEF SessionOK, LocksOK
<1>7. RowsOK(o)'
  BY <1>3, <1>4 DEF SessionOK, RowsOK
<1>8. SettlesOK(o)'
  BY <1>1 DEF SessionOK, SettlesOK
<1>9. SeesOK(o)'
  <2>1. CASE overlapped'
    BY <2>1 DEF SeesOK
  <2>2. CASE ~overlapped'
    <3> DEFINE sale == SaleOf(o)
               new == SaleOf(o)'
    <3>1. ~overlapped /\ SeesOK(o)
      BY <2>2 DEF SessionOK
    <3>2. Checks(o) => sale.status # "VOIDED"
      BY <3>1 DEF SeesOK
    <3>3. Voids(o) /\ call[o].step # "void" =>
            /\ sale.status # "VOIDED"
            /\ call[o].seen.lines = sale.lines /\ call[o].seen.total = sale.total
            /\ call[o].seen.status = "COMPLETED" <=> sale.status = "COMPLETED"
      BY <3>1 DEF SeesOK
    <3>4. Busy(o) => Alike(sale, new)
      BY <2>2
    <3> HIDE DEF sale, new
    <3>5. Checks(o)' => new.status # "VOIDED"
      BY <1>1, <3>2, <3>4 DEF Alike, Busy
    <3>6. Voids(o)' /\ call[o].step # "void" =>
            /\ new.status # "VOIDED"
            /\ call[o].seen.lines = new.lines /\ call[o].seen.total = new.total
            /\ call[o].seen.status = "COMPLETED" <=> new.status = "COMPLETED"
      BY <1>1, <3>3, <3>4 DEF Alike, Busy
    <3> QED BY <3>5, <3>6 DEF SeesOK, new
  <2> QED BY <2>1, <2>2
<1> QED BY <1>5, <1>6, <1>7, <1>8, <1>9 DEF SessionOK

\* A session that changes its call stays with its sale.
LEMMA SameSale ==
    ASSUME IInv, NEW s \in Sessions, OthersKept(s), overlapped => overlapped',
           Checks(s)' => Checks(s),
           Busy(s)' => Busy(s) /\ call'[s].sale = call[s].sale
    PROVE  OneCheckout' /\ OneCall'
<1>1. \A o \in Sessions \ {s} :
         /\ call'[o] = call[o]
         /\ Checks(o)' <=> Checks(o)
         /\ Busy(o)' <=> Busy(o)
  BY DEF OthersKept, Checks, Busy, Voids
<1>2. OneCheckout'
  <2> SUFFICES ASSUME NEW o \in Sessions, NEW q \in Sessions, Checks(o)', Checks(q)',
                      call'[o].sale = call'[q].sale
               PROVE  o = q
    BY DEF OneCheckout
  <2>1. Checks(o) /\ Checks(q) /\ call[o].sale = call[q].sale
    BY <1>1 DEF Busy
  <2> QED BY <2>1 DEF IInv, OneCheckout
<1>3. OneCall'
  <2> SUFFICES ASSUME ~overlapped', NEW o \in Sessions, NEW q \in Sessions,
                      Busy(o)', Busy(q)', call'[o].sale = call'[q].sale
               PROVE  o = q
    BY DEF OneCall
  <2>1. Busy(o) /\ Busy(q) /\ call[o].sale = call[q].sale
    BY <1>1
  <2> QED BY <2>1 DEF IInv, OneCall
<1> QED BY <1>2, <1>3

\* What a step that leaves sales and ledger alone has to show: what it does for the
\* session that takes it.
LEMMA QuietStep ==
    ASSUME IInv, NEW s \in Sessions, OthersKept(s), CallsTypeOK',
           sales' = sales, ledger' = ledger, overlapped => overlapped',
           DOMAIN shifts \subseteq DOMAIN shifts',
           \A i \in DOMAIN shifts : shifts'[i].warehouse = shifts[i].warehouse,
           \A o \in Sessions \ {s} :
              /\ own'[o] = own[o]
              /\ \A p \in Products : rowLock[p] = o => rowLock'[p] = o,
           SessionOK(s)', OneCheckout', OneCall'
    PROVE  IInv'
<1>1. PlacesKept /\ Places'
  BY DEF PlacesKept, Places, IInv
<1>2. \A o \in Sessions : SessionOK(o)'
  <2> SUFFICES ASSUME NEW o \in Sessions \ {s} PROVE SessionOK(o)'
    OBVIOUS
  <2>1. call'[o] = call[o] /\ SessionOK(o)
    BY DEF OthersKept, IInv
  <2>2. SaleOf(o)' = SaleOf(o)
    BY <2>1 DEF SaleOf
  <2>3. Checks(o) => SaleOf(o)'.status # "COMPLETED" /\ SaleOf(o)'.total = SaleOf(o).total
    BY <2>1, <2>2 DEF SessionOK, SettlesOK
  <2>4. Alike(SaleOf(o), SaleOf(o)')
    BY <2>2 DEF Alike
  <2> QED BY <1>1, <2>1, <2>3, <2>4, Bystander DEF IInv
<1>3. StockNonNegative' /\ RunningIsBalance'
  BY DEF IInv, StockNonNegative, RunningIsBalance
<1>4. TotalInv' /\ CompletedIsPaid'
  BY DEF IInv, TotalInv, CompletedIsPaid, AmountOf
<1>5. JournalInv'
  BY DEF IInv, JournalInv
<1>6. \A k \in Keys : Taken(NotVoided, k)' = Taken(NotVoided, k)
  <2> SUFFICES ASSUME NEW k \in Keys PROVE Taken(NotVoided, k)' = Taken(NotVoided, k)
    OBVIOUS
  <2>1. \A t \in DOMAIN sales : shifts'[sales[t].shift].warehouse = shifts[sales[t].shift].warehouse
    BY DEF IInv, Places
  <2> QED BY <2>1 DEF Taken, QtyOf, NotVoided
<1>7. SalesTakeStock'
  BY <1>6 DEF IInv, SalesTakeStock
<1> QED BY <1>1, <1>2, <1>3, <1>4, <1>5, <1>7 DEF IInv

-----------------------------------------------------------------------------
(* The steps that leave sales and ledger alone *)

\* A session that serves no sale, or neither writes nor commits, and has no rows.
LEMMA IdleOK ==
    ASSUME CallsTypeOK, NEW s \in Sessions, ~Busy(s), \A k \in Keys : own[s][k] = NoRows,
           call[s].step = "closing" => call[s].shift \in DOMAIN shifts
    PROVE  SessionOK(s)
BY DEF SessionOK, Refers, LocksOK, RowsOK, Commits, SettlesOK, SeesOK, Busy

\* A session that has not written yet has no rows.
LEMMA NotWritten ==
    ASSUME IInv, NEW s \in Sessions, call[s].step # "commit"
    PROVE  \A k \in Keys : own[s][k] = NoRows
BY DEF IInv, SessionOK, RowsOK, Commits

\* An exception: the locks and the rows are gone, and so is the call.
LEMMA ThrowStep ==
    ASSUME IInv, NEW s \in Sessions, Throw(s)
    PROVE  IInv'
<1>1. call' \in [Sessions -> Calls] /\ call'[s] = NoCall /\ OthersKept(s)
  BY CallChanged DEF Throw, Ends, IInv, Calls
<1>2. /\ StockTypeOK' /\ ledger' = ledger
      /\ \A k \in Keys : own'[s][k] = NoRows
      /\ \A o \in Sessions \ {s} : own'[o] = own[o]
      /\ \A p \in Products, o \in Sessions \ {s} : rowLock[p] = o => rowLock'[p] = o
  BY RollbackEffect DEF IInv, CallsTypeOK, Throw
<1>3. shifts' = shifts /\ sales' = sales /\ overlapped' = overlapped
  BY DEF Throw
<1>4. CallsTypeOK'
  BY <1>1, <1>2, <1>3 DEF IInv, CallsTypeOK
<1>5. ~Checks(s)' /\ ~Busy(s)' /\ call'[s].step = "none"
  BY <1>1 DEF Checks, Voids, Busy, NoCall, CheckoutCalls, VoidCalls
<1>6. SessionOK(s)'
  BY <1>2, <1>5 DEF SessionOK, Refers, LocksOK, RowsOK, Commits, SettlesOK, SeesOK, Busy
<1>7. OneCheckout' /\ OneCall'
  BY <1>1, <1>3, <1>5, SameSale
<1> QED BY <1>1, <1>2, <1>3, <1>4, <1>6, <1>7, QuietStep

\* A session begins, or goes on with, something that is no call for a sale, and only
\* shifts change.
LEMMA ShiftCallStep ==
    ASSUME IInv, NEW s \in Sessions, NEW c \in {NoCall} \cup OpeningCalls \cup ClosingCalls,
           call' = [call EXCEPT ![s] = c], UNCHANGED <<stockVars, sales, overlapped>>,
           call[s].step # "commit", shifts' \in Seq(Shift),
           DOMAIN shifts \subseteq DOMAIN shifts',
           \A i \in DOMAIN shifts : shifts'[i].warehouse = shifts[i].warehouse,
           c.step = "closing" => c.shift \in DOMAIN shifts
    PROVE  IInv'
<1>1. call' \in [Sessions -> Calls] /\ call'[s] = c /\ OthersKept(s)
  BY CallChanged DEF IInv, Calls
<1>2. CallsTypeOK'
  BY <1>1 DEF IInv, CallsTypeOK, StockTypeOK, stockVars, Keys
<1>3. ~Checks(s)' /\ ~Voids(s)' /\ ~Busy(s)'
  BY <1>1 DEF Checks, Voids, Busy, NoCall, CheckoutCalls, VoidCalls, OpeningCalls, ClosingCalls
<1>4. \A k \in Keys : own'[s][k] = NoRows
  BY NotWritten DEF stockVars
<1>5. SessionOK(s)'
  BY <1>1, <1>3, <1>4 DEF SessionOK, Refers, LocksOK, RowsOK, Commits, SettlesOK, SeesOK, Busy
<1>6. OneCheckout' /\ OneCall'
  BY <1>1, <1>3, SameSale
<1> QED BY <1>1, <1>2, <1>5, <1>6, QuietStep DEF stockVars

\* openShift has found no open shift.
LEMMA OpenShiftCheckStep ==
    ASSUME IInv, NEW s \in Sessions, NEW k \in Cashiers, NEW w \in Warehouses,
           OpenShiftCheck(s, k, w)
    PROVE  IInv'
<1> DEFINE c == [step |-> "opening", cashier |-> k, warehouse |-> w]
<1>1. c \in OpeningCalls /\ c.step = "opening"
  BY DEF OpeningCalls
<1>2. call[s].step # "commit"
  BY CallKinds DEF OpenShiftCheck, IInv
<1> HIDE DEF c
<1> QED BY <1>1, <1>2, ShiftCallStep DEF OpenShiftCheck, IInv, CallsTypeOK, c

\* openShift creates the shift.
LEMMA OpenShiftCreateStep ==
    ASSUME IInv, NEW s \in Sessions, OpenShiftCreate(s)
    PROVE  IInv'
<1> DEFINE new == [cashier |-> call[s].cashier, warehouse |-> call[s].warehouse,
                   status |-> "OPEN", expected |-> 0]
<1>1. call[s] \in OpeningCalls
  BY CallKinds DEF OpenShiftCreate, IInv
<1>2. new \in Shift
  BY <1>1 DEF OpeningCalls, Shift
<1> HIDE DEF new
<1>3. shifts \in Seq(Shift) /\ shifts' = Append(shifts, new)
  BY DEF OpenShiftCreate, IInv, CallsTypeOK, new
<1>4. /\ shifts' \in Seq(Shift) /\ DOMAIN shifts \subseteq DOMAIN shifts'
      /\ \A i \in DOMAIN shifts : shifts'[i] = shifts[i]
  BY <1>2, <1>3
<1>5. NoCall.step # "closing" /\ call[s].step # "commit"
  BY DEF NoCall, OpenShiftCreate
<1> QED BY <1>4, <1>5, ShiftCallStep DEF OpenShiftCreate, Ends

\* closeShift adds up the cash.
LEMMA CloseShiftReadStep ==
    ASSUME IInv, NEW s \in Sessions, NEW i \in DOMAIN shifts, CloseShiftRead(s, i)
    PROVE  IInv'
<1> DEFINE c == [step |-> "closing", shift |-> i, expected |-> CashIn(i)]
<1>1. CashIn(i) \in Int
  BY CashType DEF IInv
<1>2. c \in ClosingCalls /\ c.shift \in DOMAIN shifts
  BY <1>1 DEF ClosingCalls, IInv, CallsTypeOK
<1>3. call[s].step # "commit"
  BY CallKinds DEF CloseShiftRead, IInv
<1> HIDE DEF c
<1> QED BY <1>2, <1>3, ShiftCallStep DEF CloseShiftRead, IInv, CallsTypeOK, c

\* closeShift stores the expected balance it added up.
LEMMA CloseShiftWriteStep ==
    ASSUME IInv, NEW s \in Sessions, CloseShiftWrite(s)
    PROVE  IInv'
<1>1. call[s] \in ClosingCalls /\ call[s].shift \in DOMAIN shifts
  BY CallKinds DEF CloseShiftWrite, IInv, SessionOK, Refers
<1>2. shifts \in Seq(Shift) /\ call[s].expected \in Int
  BY <1>1 DEF IInv, CallsTypeOK, ClosingCalls
<1>3. /\ shifts' \in Seq(Shift) /\ DOMAIN shifts \subseteq DOMAIN shifts'
      /\ \A i \in DOMAIN shifts : shifts'[i].warehouse = shifts[i].warehouse
  <2> DEFINE i == call[s].shift
             new == [shifts[i] EXCEPT !.status = "CLOSED", !.expected = call[s].expected]
  <2>1. shifts[i] \in Shift
    BY <1>1, <1>2
  <2>2. new \in Shift /\ new.warehouse = shifts[i].warehouse
    BY <1>2, <2>1 DEF Shift
  <2>3. shifts' = [shifts EXCEPT ![i] = new]
    BY DEF CloseShiftWrite
  <2>4. i \in DOMAIN shifts
    BY <1>1
  <2> HIDE DEF new, i
  <2>5. shifts' \in Seq(Shift) /\ DOMAIN shifts' = DOMAIN shifts
    BY <1>2, <2>2, <2>3, <2>4
  <2>6. \A j \in DOMAIN shifts : shifts'[j] = IF j = i THEN new ELSE shifts[j]
    BY <2>3
  <2> QED BY <2>2, <2>5, <2>6
<1>4. NoCall.step # "closing" /\ call[s].step # "commit"
  BY DEF NoCall, CloseShiftWrite
<1> QED BY <1>3, <1>4, ShiftCallStep DEF CloseShiftWrite, Ends

\* The next step of a checkout, up to the write.
LEMMA LinkStep ==
    ASSUME IInv, NEW s \in Sessions, NEW c \in CheckoutCalls, Checks(s),
           call' = [call EXCEPT ![s] = c],
           UNCHANGED <<stockVars, shifts, sales, overlapped>>,
           call[s].step # "commit", c.step # "commit", c.sale = call[s].sale,
           c.step \in {"add", "lock", "write"} => c.next \in DOMAIN c.items,
           c.step = "write" => rowLock[c.items[c.next].product] = s,
           c.step = "settle" => c.paid = SaleOf(s).total + c.change /\ c.change >= 0
    PROVE  IInv'
<1>1. call' \in [Sessions -> Calls] /\ call'[s] = c /\ OthersKept(s)
  BY CallChanged DEF IInv, Calls
<1>2. CallsTypeOK'
  BY <1>1 DEF IInv, CallsTypeOK, StockTypeOK, stockVars, Keys
<1>3. Checks(s)' /\ Busy(s)' /\ ~Voids(s)'
  BY <1>1, <1>2, CallKinds DEF Checks, Busy, Voids, VoidCalls, CheckoutCalls
<1>4. \A k \in Keys : own'[s][k] = NoRows
  BY NotWritten DEF stockVars
<1>5. SaleOf(s)' = SaleOf(s) /\ SessionOK(s)
  BY <1>1 DEF SaleOf, IInv
<1>6. Refers(s)'
  <2>1. call[s].sale \in DOMAIN sales
    BY <1>5 DEF SessionOK, Refers, Busy
  <2> QED BY <1>1, <1>3, <2>1 DEF Refers, Checks, CheckoutCalls
<1>7. LocksOK(s)'
  BY <1>1, <1>3 DEF LocksOK, Needs, ItemOf, stockVars
<1>8. RowsOK(s)'
  BY <1>1, <1>4 DEF RowsOK, Commits
<1>9. SettlesOK(s)' /\ SeesOK(s)'
  <2>1. SettlesOK(s) /\ SeesOK(s) /\ overlapped' = overlapped
    BY <1>5 DEF SessionOK
  <2>2. SettlesOK(s)'
    BY <1>1, <1>3, <1>5, <2>1 DEF SettlesOK
  <2>3. SeesOK(s)'
    BY <1>3, <1>5, <2>1 DEF SeesOK
  <2> QED BY <2>2, <2>3
<1>10. OneCheckout' /\ OneCall'
  BY <1>1, <1>3, SameSale DEF Busy
<1> QED BY <1>1, <1>2, <1>6, <1>7, <1>8, <1>9, <1>10, QuietStep DEF stockVars, SessionOK

\* A checkout goes on with its next item, or with the payment.
LEMMA NextLinkStep ==
    ASSUME IInv, NEW s \in Sessions, NextLink(s)
    PROVE  IInv'
<1> DEFINE now == call[s]
           step == IF now.next <= Len(now.items) THEN "add" ELSE "pay"
           version == sales[now.sale].version
           c == [now EXCEPT !.step = step, !.attempt = 1, !.version = version]
<1>1. Checks(s) /\ now \in CheckoutCalls /\ now.step = "item"
  BY CallKinds DEF NextLink, IInv, Checks
<1>2. now.sale \in DOMAIN sales
  BY <1>1 DEF IInv, SessionOK, Refers, Busy
<1>3. version \in Nat
  <2>1. sales[now.sale] \in Sale
    BY <1>2 DEF IInv, CallsTypeOK
  <2> QED BY <2>1 DEF Sale
<1>4. call' = [call EXCEPT ![s] = c] /\ UNCHANGED <<stockVars, shifts, sales, overlapped>>
  BY DEF NextLink
<1> HIDE DEF now
<1>5. now.items \in Seq(Item) /\ now.next \in Nat \ {0}
  BY <1>1 DEF CheckoutCalls
<1>6. c \in CheckoutCalls /\ c.sale = now.sale /\ c.items = now.items /\ c.next = now.next
      /\ c.step = step /\ step \in {"add", "pay"}
  <2>1. step \in {"add", "pay"} /\ 1 \in 1..Attempts
    BY DEF Attempts
  <2> HIDE DEF step, version
  <2> QED BY <1>1, <1>3, <2>1 DEF CheckoutCalls
<1>7. c.step = "add" => c.next \in DOMAIN c.items
  <2> HIDE DEF c
  <2> QED BY <1>5, <1>6
<1> HIDE DEF c
<1> QED BY <1>1, <1>4, <1>6, <1>7, LinkStep DEF now

\* addTransactionLines reads the sale.
LEMMA AddReadStep ==
    ASSUME IInv, NEW s \in Sessions, AddRead(s)
    PROVE  IInv'
<1> DEFINE now == call[s]
           c == [now EXCEPT !.step = "lock"]
<1>1. Checks(s) /\ now \in CheckoutCalls /\ now.step = "add"
  BY CallKinds DEF AddRead, IInv, Checks, Voids, VoidCalls
<1>2. now.next \in DOMAIN now.items
  BY <1>1 DEF IInv, SessionOK, Refers
<1>3. call' = [call EXCEPT ![s] = c] /\ UNCHANGED <<stockVars, shifts, sales, overlapped>>
  BY DEF AddRead, Goes
<1> HIDE DEF now
<1>4. c \in CheckoutCalls /\ c.sale = now.sale /\ c.items = now.items /\ c.next = now.next
      /\ c.step = "lock"
  BY <1>1 DEF CheckoutCalls
<1> HIDE DEF c
<1> QED BY <1>1, <1>2, <1>3, <1>4, LinkStep DEF now

\* completeTransaction reads the sale.
LEMMA PayReadStep ==
    ASSUME IInv, NEW s \in Sessions, PayRead(s)
    PROVE  IInv'
<1> DEFINE now == call[s]
           change == now.paid - SaleOf(s).total
           c == [now EXCEPT !.step = "settle", !.change = change]
<1>1. Checks(s) /\ now \in CheckoutCalls /\ now.step = "pay"
  BY CallKinds DEF PayRead, IInv, Checks
<1>2. now.sale \in DOMAIN sales
  BY <1>1 DEF IInv, SessionOK, Refers, Busy
<1>3. SaleOf(s).total \in Nat
  <2>1. SaleOf(s) \in Sale
    BY <1>2 DEF IInv, CallsTypeOK, SaleOf
  <2> QED BY <2>1 DEF Sale
<1>4. /\ call' = [call EXCEPT ![s] = c] /\ UNCHANGED <<stockVars, shifts, sales, overlapped>>
      /\ now.paid >= SaleOf(s).total
  BY DEF PayRead, SaleOf
<1> HIDE DEF now
<1>5. now.paid \in Nat
  BY <1>1 DEF CheckoutCalls
<1>6. c \in CheckoutCalls /\ c.sale = now.sale /\ c.paid = now.paid
      /\ c.change = change /\ c.step = "settle"
  <2>1. change \in Int
    BY <1>3, <1>5
  <2> HIDE DEF change
  <2> QED BY <1>1, <2>1 DEF CheckoutCalls
<1>7. c.paid = SaleOf(s).total + c.change /\ c.change >= 0
  <2> HIDE DEF c
  <2> QED BY <1>3, <1>4, <1>5, <1>6
<1> HIDE DEF c
<1> QED BY <1>1, <1>4, <1>6, <1>7, LinkStep DEF now

\* The next step of a void, up to the write.
LEMMA VoidLinkStep ==
    ASSUME IInv, NEW s \in Sessions, NEW c \in VoidCalls, Voids(s),
           call' = [call EXCEPT ![s] = c],
           UNCHANGED <<stockVars, shifts, sales, overlapped>>,
           call[s].step # "commit", c.step \in {"lock", "write"}, c.sale = call[s].sale,
           c.step = "write" => \A p \in ProductsIn(c.seen.lines) : rowLock[p] = s,
           ~overlapped =>
              /\ SaleOf(s).status # "VOIDED"
              /\ c.seen.lines = SaleOf(s).lines /\ c.seen.total = SaleOf(s).total
              /\ c.seen.status = "COMPLETED" <=> SaleOf(s).status = "COMPLETED"
    PROVE  IInv'
<1>1. call' \in [Sessions -> Calls] /\ call'[s] = c /\ OthersKept(s)
  BY CallChanged DEF IInv, Calls
<1>2. CallsTypeOK'
  BY <1>1 DEF IInv, CallsTypeOK, StockTypeOK, stockVars, Keys
<1>3. Voids(s)' /\ Busy(s)' /\ ~Checks(s)'
  BY <1>1, <1>2, CallKinds DEF Checks, Busy, Voids, VoidCalls, CheckoutCalls
<1>4. \A k \in Keys : own'[s][k] = NoRows
  BY NotWritten DEF stockVars
<1>5. SaleOf(s)' = SaleOf(s) /\ SessionOK(s) /\ overlapped' = overlapped
  BY <1>1 DEF SaleOf, IInv
<1>6. Refers(s)'
  <2>1. call[s].sale \in DOMAIN sales
    BY <1>5 DEF SessionOK, Refers, Busy
  <2> QED BY <1>1, <1>3, <2>1 DEF Refers
<1>7. LocksOK(s)'
  BY <1>1, <1>3 DEF LocksOK, Needs, stockVars
<1>8. RowsOK(s)'
  BY <1>1, <1>4 DEF RowsOK, Commits
<1>9. SettlesOK(s)' /\ SeesOK(s)'
  BY <1>1, <1>3, <1>5 DEF SettlesOK, SeesOK
<1>10. OneCheckout' /\ OneCall'
  BY <1>1, <1>3, <1>5, SameSale DEF Busy
<1> QED BY <1>1, <1>2, <1>6, <1>7, <1>8, <1>9, <1>10, QuietStep DEF stockVars, SessionOK

\* voidTransaction reads the sale.
LEMMA VoidReadStep ==
    ASSUME IInv, NEW s \in Sessions, VoidRead(s)
    PROVE  IInv'
<1> DEFINE now == call[s]
           sale == SaleOf(s)
           c == [now EXCEPT !.step = "lock", !.seen = sale]
<1>1. Voids(s) /\ now \in VoidCalls /\ now.step = "void"
  BY CallKinds DEF VoidRead, IInv, Voids
<1>2. now.sale \in DOMAIN sales
  BY <1>1 DEF IInv, SessionOK, Refers, Busy
<1>3. sale \in Sale
  BY <1>2 DEF IInv, CallsTypeOK, SaleOf
<1>4. /\ call' = [call EXCEPT ![s] = c] /\ UNCHANGED <<stockVars, shifts, sales, overlapped>>
      /\ sale.status # "VOIDED"
  BY DEF VoidRead, SaleOf
<1>5. c \in VoidCalls /\ c.sale = now.sale /\ c.seen = sale /\ c.step = "lock"
  <2> HIDE DEF now, sale
  <2> QED BY <1>1, <1>3 DEF VoidCalls
<1> HIDE DEF c
<1> QED BY <1>1, <1>4, <1>5, VoidLinkStep

\* A call holds every lock it needs.
LEMMA LocksTakenStep ==
    ASSUME IInv, NEW s \in Sessions, LocksTaken(s)
    PROVE  IInv'
<1> DEFINE now == call[s]
           c == [now EXCEPT !.step = "write"]
<1>1. /\ now.step = "lock" /\ SessionOK(s) /\ CallsTypeOK /\ Places
      /\ call' = [call EXCEPT ![s] = c] /\ UNCHANGED <<stockVars, shifts, sales, overlapped>>
  BY DEF LocksTaken, Goes, IInv
<1>2. (Checks(s) /\ now.op = "SALE") \/ (Voids(s) /\ now.op = "VOID" /\ ~Checks(s))
  BY <1>1, CallKinds
<1>3. Needs(s) \subseteq Products
  BY <1>1, <1>2, NeedsType DEF SessionOK, Busy
<1>4. \A p \in Needs(s) : rowLock[p] = s
  BY <1>2, <1>3 DEF LocksTaken, ToLock, Held, Needs
<1>5. CASE Checks(s)
  <2>1. now \in CheckoutCalls /\ now.next \in DOMAIN now.items
    BY <1>1, <1>5 DEF Checks, SessionOK, Refers
  <2>2. rowLock[now.items[now.next].product] = s
    BY <1>4, <1>5 DEF Needs, ItemOf
  <2>3. c \in CheckoutCalls /\ c.sale = now.sale /\ c.items = now.items /\ c.next = now.next
        /\ c.step = "write"
    <3> HIDE DEF now
    <3> QED BY <2>1 DEF CheckoutCalls
  <2> HIDE DEF c
  <2> QED BY <1>1, <1>5, <2>1, <2>2, <2>3, LinkStep
<1>6. CASE Voids(s) /\ ~Checks(s)
  <2>1. now \in VoidCalls
    BY <1>6 DEF Voids
  <2>2. \A p \in ProductsIn(now.seen.lines) : rowLock[p] = s
    BY <1>4, <1>6 DEF Needs
  <2>3. c \in VoidCalls /\ c.sale = now.sale /\ c.seen = now.seen /\ c.step = "write"
    <3> HIDE DEF now
    <3> QED BY <2>1 DEF VoidCalls
  <2>4. ~overlapped =>
           /\ SaleOf(s).status # "VOIDED"
           /\ now.seen.lines = SaleOf(s).lines /\ now.seen.total = SaleOf(s).total
           /\ now.seen.status = "COMPLETED" <=> SaleOf(s).status = "COMPLETED"
    BY <1>1, <1>6 DEF SessionOK, SeesOK
  <2> HIDE DEF c
  <2> QED BY <1>1, <1>6, <2>2, <2>3, <2>4, VoidLinkStep
<1> QED BY <1>2, <1>5, <1>6

\* A void begins: from here on, another call for the sale has met it.
LEMMA StartVoidStep ==
    ASSUME IInv, NEW s \in Sessions, NEW t \in DOMAIN sales, StartVoid(s, t)
    PROVE  IInv'
<1> DEFINE c == [step |-> "void", op |-> "VOID", sale |-> t, seen |-> sales[t], attempt |-> 1]
<1>1. sales[t] \in Sale /\ t \in Nat
  BY DEF IInv, CallsTypeOK
<1>2. c \in VoidCalls /\ c.step = "void" /\ c.sale = t
  BY <1>1 DEF VoidCalls, Attempts
<1>3. /\ Free(s) /\ UNCHANGED <<stockVars, shifts, sales>>
      /\ call' = [call EXCEPT ![s] = c]
      /\ overlapped' = (overlapped \/ \E o \in Sessions : WorksOn(o, t))
  BY DEF StartVoid
<1> HIDE DEF c
<1>4. call' \in [Sessions -> Calls] /\ call'[s] = c /\ OthersKept(s)
  BY <1>2, <1>3, CallChanged DEF IInv, Calls
<1>5. ~Busy(s) /\ call[s].step = "none"
  BY <1>3, CallKinds DEF IInv
<1>6. CallsTypeOK'
  BY <1>3, <1>4 DEF IInv, CallsTypeOK, StockTypeOK, stockVars, Keys
<1>7. Voids(s)' /\ Busy(s)' /\ ~Checks(s)'
  BY <1>2, <1>4 DEF Checks, Busy, Voids, VoidCalls, CheckoutCalls
<1>8. SessionOK(s)'
  <2>1. \A k \in Keys : own'[s][k] = NoRows
    BY <1>3, <1>5, NotWritten DEF stockVars
  <2>2. Refers(s)'
    BY <1>2, <1>3, <1>4, <1>7 DEF Refers
  <2>3. LocksOK(s)' /\ RowsOK(s)'
    BY <1>2, <1>4, <2>1 DEF LocksOK, RowsOK, Commits
  <2>4. SettlesOK(s)' /\ SeesOK(s)'
    BY <1>2, <1>4, <1>7 DEF SettlesOK, SeesOK
  <2> QED BY <2>2, <2>3, <2>4 DEF SessionOK
<1>9. \A o \in Sessions \ {s} :
         /\ call'[o] = call[o]
         /\ Checks(o)' <=> Checks(o)
         /\ Busy(o)' <=> Busy(o)
  BY <1>4 DEF OthersKept, Checks, Busy, Voids
<1>10. OneCheckout'
  <2> SUFFICES ASSUME NEW o \in Sessions, NEW q \in Sessions, Checks(o)', Checks(q)',
                      call'[o].sale = call'[q].sale
               PROVE  o = q
    BY DEF OneCheckout
  <2> QED BY <1>7, <1>9 DEF IInv, OneCheckout
<1>11. OneCall'
  <2> SUFFICES ASSUME ~overlapped', NEW o \in Sessions, NEW q \in Sessions,
                      Busy(o)', Busy(q)', call'[o].sale = call'[q].sale
               PROVE  o = q
    BY DEF OneCall
  <2>1. ~overlapped /\ \A r \in Sessions : ~WorksOn(r, t)
    BY <1>3
  <2>2. \A r \in Sessions : Busy(r) => call[r].sale # t
    BY <2>1, CallKinds DEF IInv
  <2> QED BY <1>2, <1>4, <1>9, <2>1, <2>2 DEF IInv, OneCall
<1>12. overlapped => overlapped'
  BY <1>3
<1> QED BY <1>3, <1>4, <1>6, <1>8, <1>10, <1>11, <1>12, QuietStep DEF stockVars

\* A call locks a product.
LEMMA LockProductStep ==
    ASSUME IInv, NEW s \in Sessions, LockProduct(s)
    PROVE  IInv'
<1>1. /\ call' = call /\ sales' = sales /\ shifts' = shifts /\ ledger' = ledger
      /\ own' = own /\ overlapped' = overlapped /\ call[s].step = "lock"
  BY DEF LockProduct, posVars
<1>2. PICK p \in NextToLock(s) : AcquireRow(s, p)
  BY DEF LockProduct
<1>3. p \in Products
  <2>1. call[s].step = "lock" /\ SessionOK(s) /\ CallsTypeOK /\ Places
    BY <1>1 DEF IInv
  <2>2. (Checks(s) /\ call[s].op = "SALE") \/ (Voids(s) /\ call[s].op = "VOID" /\ ~Checks(s))
    BY <2>1, CallKinds
  <2>3. Needs(s) \subseteq Products
    BY <2>1, <2>2, NeedsType DEF SessionOK, Busy
  <2>4. p \in Needs(s)
    BY <2>2 DEF NextToLock, ToLock, Needs
  <2> QED BY <2>3, <2>4
<1>4. StockTypeOK' /\ \A q \in Products, o \in Sessions : rowLock[q] = o => rowLock'[q] = o
  BY <1>1, <1>2, <1>3, AcquireRowEffect DEF IInv, CallsTypeOK
<1>5. CallsTypeOK' /\ OthersKept(s)
  BY <1>1, <1>4 DEF IInv, CallsTypeOK, OthersKept
<1>6. (Checks(s)' <=> Checks(s)) /\ (Busy(s)' <=> Busy(s))
  BY <1>1 DEF Checks, Voids, Busy
<1>7. OneCheckout' /\ OneCall'
  BY <1>1, <1>5, <1>6, SameSale
<1>8. SessionOK(s)'
  <2>1. SaleOf(s)' = SaleOf(s) /\ SessionOK(s)
    BY <1>1 DEF SaleOf, IInv
  <2>2. \A o \in Sessions : rowLock[p] = o => rowLock'[p] = o
    BY <1>3, <1>4
  <2>3. /\ Refers(s)' <=> Refers(s)
        /\ LocksOK(s)'
        /\ SettlesOK(s)' <=> SettlesOK(s)
        /\ SeesOK(s)' <=> SeesOK(s)
    BY <1>1, <1>6, <2>1 DEF Refers, LocksOK, SettlesOK, SeesOK, Checks, Voids, Busy
  <2>4. RowsOK(s)'
    BY <1>1, NotWritten DEF RowsOK, Commits
  <2> QED BY <2>1, <2>3, <2>4 DEF SessionOK
<1> QED BY <1>1, <1>4, <1>5, <1>7, <1>8, QuietStep

\* NOWAIT: the attempt is rolled back, and begins again or is the last one.
LEMMA LockRefusedStep ==
    ASSUME IInv, NEW s \in Sessions, LockRefused(s)
    PROVE  IInv'
<1> DEFINE now == call[s]
           step == IF now.op = "SALE" THEN "add" ELSE "void"
           attempt == now.attempt + 1
           c == [now EXCEPT !.step = step, !.attempt = attempt]
<1>1. CASE Throw(s)
  BY <1>1, ThrowStep
<1>2. CASE /\ now.attempt < Attempts /\ Rollback(s) /\ UNCHANGED <<shifts, sales, overlapped>>
           /\ call' = [call EXCEPT ![s] = c]
  <2>1. /\ StockTypeOK' /\ ledger' = ledger
        /\ \A k \in Keys : own'[s][k] = NoRows
        /\ \A o \in Sessions \ {s} : own'[o] = own[o]
        /\ \A p \in Products, o \in Sessions \ {s} : rowLock[p] = o => rowLock'[p] = o
    BY <1>2, RollbackEffect DEF IInv, CallsTypeOK
  <2>2. (Checks(s) /\ now.op = "SALE") \/ (Voids(s) /\ now.op = "VOID" /\ ~Checks(s))
    BY CallKinds DEF IInv, LockRefused
  <2>3. SessionOK(s)
    BY DEF IInv
  <2>4. /\ Checks(s) => c \in CheckoutCalls /\ c.step = "add" /\ c.items = now.items
                        /\ c.next = now.next
        /\ Voids(s) => c \in VoidCalls /\ c.step = "void"
        /\ c.sale = now.sale
    <3>1. CASE Checks(s) /\ now.op = "SALE"
      <4>1. now \in CheckoutCalls /\ step = "add" /\ ~Voids(s)
        BY <3>1, CallKinds DEF Checks, IInv
      <4>2. attempt \in 1..Attempts
        BY <1>2, <4>1 DEF CheckoutCalls, Attempts
      <4> HIDE DEF now, step, attempt
      <4> QED BY <4>1, <4>2 DEF CheckoutCalls
    <3>2. CASE Voids(s) /\ now.op = "VOID" /\ ~Checks(s)
      <4>1. now \in VoidCalls /\ step = "void"
        BY <3>2 DEF Voids
      <4>2. attempt \in 1..Attempts
        BY <1>2, <4>1 DEF VoidCalls, Attempts
      <4> HIDE DEF now, step, attempt
      <4> QED BY <3>2, <4>1, <4>2 DEF VoidCalls
    <3> QED BY <2>2, <3>1, <3>2
  <2> HIDE DEF c
  <2>5. call' \in [Sessions -> Calls] /\ call'[s] = c /\ OthersKept(s)
    BY <1>2, <2>2, <2>4, CallChanged DEF IInv, Calls
  <2>6. CallsTypeOK'
    BY <1>2, <2>1, <2>5 DEF IInv, CallsTypeOK
  <2>7. Busy(s)' /\ (Checks(s)' <=> Checks(s)) /\ (Voids(s)' <=> Voids(s))
    BY <2>2, <2>4, <2>5, <2>6, CallKinds DEF Checks, Voids, Busy, VoidCalls, CheckoutCalls
  <2>8. OneCheckout' /\ OneCall'
    BY <1>2, <2>2, <2>4, <2>5, <2>7, SameSale DEF Busy
  <2>9. SessionOK(s)'
    <3>1. SaleOf(s)' = SaleOf(s)
      BY <1>2, <2>4, <2>5 DEF SaleOf
    <3>2. call[s].sale \in DOMAIN sales /\ Refers(s) /\ call[s].step = "lock"
      BY <2>2, <2>3 DEF SessionOK, Refers, Busy, LockRefused
    <3>3. Refers(s)'
      BY <1>2, <2>2, <2>4, <2>5, <2>7, <3>2 DEF Refers
    <3>4. call'[s].step \in {"add", "void"}
      BY <2>2, <2>4, <2>5
    <3>5. LocksOK(s)' /\ RowsOK(s)'
      BY <2>1, <3>4 DEF LocksOK, RowsOK, Commits
    <3>6. SettlesOK(s)'
      BY <2>3, <2>7, <3>1, <3>4 DEF SessionOK, SettlesOK
    <3>7. SeesOK(s)'
      <4>1. Voids(s)' => call'[s].step = "void"
        BY <2>4, <2>5, <2>7
      <4>2. SeesOK(s) /\ overlapped' = overlapped
        BY <1>2, <2>3 DEF SessionOK
      <4> QED BY <2>7, <3>1, <4>1, <4>2 DEF SeesOK
    <3> QED BY <3>3, <3>5, <3>6, <3>7 DEF SessionOK
  <2> QED BY <1>2, <2>1, <2>5, <2>6, <2>8, <2>9, QuietStep
<1> QED BY <1>1, <1>2 DEF LockRefused

\* Rows are written on what the session sees: its product is locked.
LEMMA RowsWritten ==
    ASSUME IInv, NEW s \in Sessions, Busy(s), call[s].step = "write", NEW rows,
           NEW c \in Calls, call' = [call EXCEPT ![s] = c], c = [call[s] EXCEPT !.step = "commit"],
           UNCHANGED <<ledger, rowLock, shifts, sales, overlapped>>, WriteRows(s, rows),
           DOMAIN rows = Touches(s),
           \A k \in Touches(s) :
              /\ rows[k] = [delta |-> Moves(s, k[1]), running |-> ledger[k].sum + Moves(s, k[1])]
              /\ ledger[k].sum + Moves(s, k[1]) >= 0
    PROVE  IInv'
<1>1. call' \in [Sessions -> Calls] /\ call'[s] = c /\ OthersKept(s)
  BY CallChanged DEF IInv
<1>2. SessionOK(s) /\ CallsTypeOK /\ Places
  BY DEF IInv
<1>3. /\ Needs(s) \subseteq Products /\ WarehouseOf(s) \in Warehouses
      /\ \A p : Moves(s, p) \in Int
  BY <1>2, NeedsType DEF SessionOK
<1>4. Touches(s) \subseteq Keys
  BY <1>3 DEF Touches, Keys
<1>5. RowsType(rows)
  <2> SUFFICES ASSUME NEW k \in Touches(s)
               PROVE  rows[k].delta \in Int /\ rows[k].running \in Int
    BY <1>4 DEF RowsType
  <2>1. ledger[k] \in Ledgers
    BY <1>2, <1>4 DEF CallsTypeOK, StockTypeOK
  <2>2. ledger[k].sum \in Int /\ Moves(s, k[1]) \in Int
    BY <1>3, <2>1 DEF Ledgers
  <2> QED BY <2>2
<1>6. /\ StockTypeOK' /\ \A o \in Sessions \ {s} : own'[o] = own[o]
      /\ \A k \in DOMAIN rows :
            own'[s][k] = [wrote |-> TRUE, delta |-> own[s][k].delta + rows[k].delta,
                          running |-> rows[k].running]
      /\ \A k \in Keys \ DOMAIN rows : own'[s][k] = own[s][k]
  BY <1>2, <1>5, WriteRowsEffect DEF CallsTypeOK
<1>7. CallsTypeOK'
  BY <1>1, <1>6 DEF IInv, CallsTypeOK
<1>8. /\ c.step = "commit" /\ c.sale = call[s].sale
      /\ Checks(s) => c \in CheckoutCalls /\ c.items = call[s].items /\ c.next = call[s].next
      /\ Voids(s) => c \in VoidCalls /\ c.seen = call[s].seen
  <2>1. CASE Checks(s)
    <3>1. call[s] \in CheckoutCalls /\ ~Voids(s)
      BY <1>2, <2>1, CallKinds DEF Checks
    <3>2. c \in CheckoutCalls /\ c.step = "commit" /\ c.sale = call[s].sale
          /\ c.items = call[s].items /\ c.next = call[s].next
      BY <3>1 DEF CheckoutCalls
    <3> QED BY <3>1, <3>2
  <2>2. CASE Voids(s)
    <3>1. call[s] \in VoidCalls /\ ~Checks(s)
      BY <1>2, <2>2, CallKinds DEF Voids
    <3>2. c \in VoidCalls /\ c.step = "commit" /\ c.sale = call[s].sale /\ c.seen = call[s].seen
      BY <3>1 DEF VoidCalls
    <3> QED BY <3>1, <3>2
  <2> QED BY <2>1, <2>2 DEF Busy
<1>9. Busy(s)' /\ (Checks(s)' <=> Checks(s)) /\ (Voids(s)' <=> Voids(s))
  <2>1. CheckoutCalls \cap VoidCalls = {}
    BY DEF CheckoutCalls, VoidCalls
  <2> QED BY <1>1, <1>8, <2>1 DEF Checks, Voids, Busy
<1>10. /\ Needs(s)' = Needs(s) /\ WarehouseOf(s)' = WarehouseOf(s)
       /\ \A p : Moves(s, p)' = Moves(s, p)
  BY <1>1, <1>8, <1>9 DEF Needs, WarehouseOf, Moves, ItemOf, QtyOf, Busy
<1>11. SaleOf(s)' = SaleOf(s)
  BY <1>1, <1>8 DEF SaleOf
<1>12. Refers(s)'
  BY <1>1, <1>2, <1>8, <1>9 DEF Refers, SessionOK
<1>13. LocksOK(s)'
  BY <1>2, <1>9, <1>10 DEF LocksOK, SessionOK
<1>14. RowsOK(s)'
  <2> SUFFICES ASSUME NEW k \in Keys
               PROVE  IF Commits(s, k)'
                      THEN /\ own'[s][k] = [wrote |-> TRUE, delta |-> Moves(s, k[1])',
                                            running |-> ledger'[k].sum + Moves(s, k[1])']
                           /\ ledger'[k].sum + Moves(s, k[1])' >= 0
                      ELSE own'[s][k] = NoRows
    BY DEF RowsOK
  <2>1. Commits(s, k)' <=> k \in Touches(s)
    BY <1>1, <1>8, <1>9, <1>10 DEF Commits, Touches
  <2>2. own[s][k] = NoRows
    BY NotWritten
  <2>3. CASE k \in Touches(s)
    <3>1. rows[k].delta = Moves(s, k[1]) /\ rows[k].running = ledger[k].sum + Moves(s, k[1])
      BY <2>3
    <3>2. own[s][k].delta + rows[k].delta = Moves(s, k[1])
      BY <1>3, <2>2, <3>1 DEF NoRows
    <3>3. own'[s][k] = [wrote |-> TRUE, delta |-> Moves(s, k[1]),
                        running |-> ledger[k].sum + Moves(s, k[1])]
      BY <1>6, <2>3, <3>1, <3>2
    <3> QED BY <1>10, <2>1, <2>3, <3>3
  <2>4. CASE k \notin Touches(s)
    BY <1>6, <2>1, <2>2, <2>4
  <2> QED BY <2>3, <2>4
<1>15. SettlesOK(s)'
  BY <1>1, <1>2, <1>8, <1>9, <1>11 DEF SettlesOK, SessionOK
<1>16. SeesOK(s)'
  <2>1. SeesOK(s) /\ overlapped' = overlapped
    BY <1>2 DEF SessionOK
  <2>2. call[s].step # "void" /\ (Voids(s) => call'[s].seen = call[s].seen)
    BY <1>1, <1>8
  <2> QED BY <1>9, <1>11, <2>1, <2>2 DEF SeesOK
<1>17. OneCheckout' /\ OneCall'
  BY <1>1, <1>8, <1>9, SameSale
<1> QED BY <1>1, <1>6, <1>7, <1>12, <1>13, <1>14, <1>15, <1>16, <1>17, QuietStep DEF SessionOK

\* An item writes its stock row.
LEMMA AddWriteStep ==
    ASSUME IInv, NEW s \in Sessions, AddWrite(s)
    PROVE  IInv'
<1> DEFINE k == ItemKey(s)
           q == ItemOf(s).qty
           c == [call[s] EXCEPT !.step = "commit"]
           rows == [j \in {k} |-> [delta |-> -q, running |-> OnHand(s, k) - q]]
<1>1. /\ call[s].step = "write" /\ call[s].op = "SALE" /\ OnHand(s, k) >= q
      /\ WriteRows(s, rows) /\ call' = [call EXCEPT ![s] = c]
      /\ UNCHANGED <<ledger, rowLock, shifts, sales, overlapped>>
  BY DEF AddWrite, Goes
<1>2. Checks(s) /\ Busy(s) /\ CallsTypeOK /\ Places /\ Refers(s)
  BY <1>1, CallKinds DEF IInv, Voids, VoidCalls, Busy, SessionOK
<1>3. c \in Calls
  BY <1>2 DEF Checks, CheckoutCalls, Calls
<1>4. /\ ItemOf(s) \in Item /\ WarehouseOf(s) \in Warehouses
      /\ Touches(s) = {k} /\ k[1] = ItemOf(s).product /\ Moves(s, k[1]) = -q
  BY <1>1, <1>2, NeedsType DEF Touches, Needs, Moves, ItemKey
<1>5. q \in Nat /\ k \in Keys
  BY <1>4 DEF Item, ItemKey, Keys
<1>6. ledger[k].sum \in Int
  BY <1>2, <1>5 DEF CallsTypeOK, StockTypeOK, Ledgers
<1>7. OnHand(s, k) = ledger[k].sum
  <2>1. own[s][k] = NoRows
    BY <1>1, <1>5, NotWritten
  <2> QED BY <1>6, <2>1 DEF OnHand, NoRows
<1>8. DOMAIN rows = Touches(s) /\ \A j \in Touches(s) :
         /\ rows[j] = [delta |-> Moves(s, j[1]), running |-> ledger[j].sum + Moves(s, j[1])]
         /\ ledger[j].sum + Moves(s, j[1]) >= 0
  <2>1. rows[k] = [delta |-> -q, running |-> OnHand(s, k) - q] /\ DOMAIN rows = {k}
    OBVIOUS
  <2> HIDE DEF rows, k, q
  <2>2. OnHand(s, k) - q = ledger[k].sum + (-q)
    BY <1>5, <1>6, <1>7
  <2>3. rows[k] = [delta |-> Moves(s, k[1]), running |-> ledger[k].sum + Moves(s, k[1])]
    BY <1>4, <2>1, <2>2
  <2>4. ledger[k].sum + Moves(s, k[1]) >= 0
    BY <1>1, <1>4, <1>5, <1>6, <1>7
  <2> QED BY <1>4, <2>1, <2>3, <2>4
<1> HIDE DEF rows
<1> QED BY <1>1, <1>2, <1>3, <1>8, RowsWritten

\* A void writes its stock rows.
LEMMA VoidWriteStep ==
    ASSUME IInv, NEW s \in Sessions, VoidWrite(s)
    PROVE  IInv'
<1> DEFINE c == [call[s] EXCEPT !.step = "commit"]
           lines == call[s].seen.lines
           rows == VoidRows(s)
<1>1. /\ call[s].step = "write" /\ call[s].op = "VOID"
      /\ WriteRows(s, rows) /\ call' = [call EXCEPT ![s] = c]
      /\ UNCHANGED <<ledger, rowLock, shifts, sales, overlapped>>
  BY DEF VoidWrite, Goes
<1>2. Voids(s) /\ ~Checks(s) /\ Busy(s) /\ CallsTypeOK /\ Places /\ Refers(s)
  BY <1>1, CallKinds DEF IInv, Checks, CheckoutCalls, Busy, SessionOK
<1>3. c \in Calls
  BY <1>2 DEF Voids, VoidCalls, Calls
<1>4. /\ Needs(s) \subseteq Products /\ WarehouseOf(s) \in Warehouses
      /\ \A p : Moves(s, p) \in Nat /\ Moves(s, p) = QtyOf(lines, p)
  BY <1>1, <1>2, NeedsType DEF Moves
<1>5. Touches(s) \subseteq Keys /\ Touches(s) = ProductsIn(lines) \X {WarehouseOf(s)}
  BY <1>2, <1>4 DEF Touches, Needs, Keys
<1>6. DOMAIN rows = Touches(s) /\ \A j \in Touches(s) :
         /\ rows[j] = [delta |-> Moves(s, j[1]), running |-> ledger[j].sum + Moves(s, j[1])]
         /\ ledger[j].sum + Moves(s, j[1]) >= 0
  <2>1. DOMAIN rows = Touches(s)
    BY <1>5 DEF VoidRows
  <2> SUFFICES ASSUME NEW j \in Touches(s)
               PROVE  /\ rows[j] = [delta |-> Moves(s, j[1]),
                                    running |-> ledger[j].sum + Moves(s, j[1])]
                      /\ ledger[j].sum + Moves(s, j[1]) >= 0
    BY <2>1
  <2>2. j \in Keys /\ ledger[j].running = ledger[j].sum /\ ledger[j].sum >= 0
    BY <1>5 DEF IInv, RunningIsBalance, StockNonNegative
  <2>3. ledger[j].sum \in Int
    BY <1>2, <2>2 DEF CallsTypeOK, StockTypeOK, Ledgers
  <2>4. LatestRunning(s, j) = ledger[j].sum
    <3>1. own[s][j] = NoRows
      BY <1>1, <2>2, NotWritten
    <3> QED BY <2>2, <3>1 DEF LatestRunning, NoRows
  <2>5. rows[j] = [delta |-> QtyOf(lines, j[1]),
                   running |-> LatestRunning(s, j) + QtyOf(lines, j[1])]
    BY <1>5 DEF VoidRows
  <2> HIDE DEF rows, lines
  <2>6. rows[j] = [delta |-> Moves(s, j[1]), running |-> ledger[j].sum + Moves(s, j[1])]
    BY <1>4, <2>4, <2>5
  <2>7. ledger[j].sum + Moves(s, j[1]) >= 0
    BY <1>4, <2>2, <2>3
  <2> QED BY <2>6, <2>7
<1> HIDE DEF rows
<1> QED BY <1>1, <1>2, <1>3, <1>6, RowsWritten

-----------------------------------------------------------------------------
(* Commits *)

\* The rows of a call become the balance; no other call has rows of these products.
LEMMA CommitStock ==
    ASSUME IInv, NEW s \in Sessions, Busy(s), call[s].step = "commit", CommitRows(s, Today)
    PROVE  /\ StockTypeOK' /\ StockNonNegative' /\ RunningIsBalance'
           /\ \A k \in Keys :
                 ledger'[k].sum = ledger[k].sum + (IF k \in Touches(s) THEN Moves(s, k[1]) ELSE 0)
           /\ \A k \in Keys : own'[s][k] = NoRows
           /\ \A o \in Sessions \ {s} :
                 /\ own'[o] = own[o]
                 /\ \A p \in Products : rowLock[p] = o => rowLock'[p] = o
                 /\ \A k \in Keys : Commits(o, k) => ledger'[k] = ledger[k]
<1>1. SessionOK(s) /\ CallsTypeOK /\ Places /\ StockTypeOK
  BY DEF IInv, CallsTypeOK
<1>2. /\ StockTypeOK'
      /\ \A k \in Keys : own[s][k].wrote =>
            ledger'[k] = AppendRow(ledger[k], own[s][k].delta, own[s][k].running, Today)
      /\ \A k \in Keys : ~own[s][k].wrote => ledger'[k] = ledger[k]
      /\ \A k \in Keys : own'[s][k] = NoRows
      /\ \A o \in Sessions \ {s} : own'[o] = own[o]
      /\ \A p \in Products, o \in Sessions \ {s} : rowLock[p] = o => rowLock'[p] = o
  BY <1>1, CommitRowsEffect DEF Today
<1>3. /\ Needs(s) \subseteq Products /\ \A p : Moves(s, p) \in Int
      /\ \A p \in Needs(s) : rowLock[p] = s
  BY <1>1, NeedsType DEF SessionOK, LocksOK
<1>4. ASSUME NEW k \in Keys, k \in Touches(s)
      PROVE  /\ ledger'[k].sum = ledger[k].sum + Moves(s, k[1])
             /\ ledger'[k].running = ledger'[k].sum /\ ledger'[k].sum >= 0
  <2>1. /\ own[s][k] = [wrote |-> TRUE, delta |-> Moves(s, k[1]),
                        running |-> ledger[k].sum + Moves(s, k[1])]
        /\ ledger[k].sum + Moves(s, k[1]) >= 0
    BY <1>1, <1>4 DEF SessionOK, RowsOK, Commits
  <2>2. ledger'[k] = AppendRow(ledger[k], own[s][k].delta, own[s][k].running, Today)
    BY <1>2, <2>1
  <2> QED BY <2>1, <2>2 DEF AppendRow
<1>5. ASSUME NEW k \in Keys, k \notin Touches(s)
      PROVE  ledger'[k] = ledger[k]
  <2>1. own[s][k] = NoRows
    BY <1>1, <1>5 DEF SessionOK, RowsOK, Commits
  <2> QED BY <1>2, <2>1 DEF NoRows
<1>6. StockNonNegative' /\ RunningIsBalance'
  BY <1>4, <1>5 DEF IInv, StockNonNegative, RunningIsBalance
<1>7. \A k \in Keys :
         ledger'[k].sum = ledger[k].sum + (IF k \in Touches(s) THEN Moves(s, k[1]) ELSE 0)
  <2> SUFFICES ASSUME NEW k \in Keys
               PROVE  ledger'[k].sum
                        = ledger[k].sum + (IF k \in Touches(s) THEN Moves(s, k[1]) ELSE 0)
    OBVIOUS
  <2>1. ledger[k].sum \in Int
    BY <1>1 DEF StockTypeOK, Ledgers
  <2> QED BY <1>4, <1>5, <2>1
<1>8. ASSUME NEW o \in Sessions \ {s}, NEW k \in Keys, Commits(o, k)
      PROVE  ledger'[k] = ledger[k]
  <2>1. SessionOK(o) /\ Busy(o) /\ call[o].step = "commit" /\ k \in Touches(o)
    BY <1>8 DEF IInv, Commits
  <2>2. k[1] \in Needs(o) /\ rowLock[k[1]] = o
    BY <2>1 DEF Touches, SessionOK, LocksOK
  <2>3. k[1] \notin Needs(s)
    BY <1>3, <2>2
  <2> QED BY <1>5, <2>3 DEF Touches
<1> QED BY <1>2, <1>6, <1>7, <1>8

\* What a sale takes of a product from a warehouse.
TakenBy(sale, k) ==
    IF sale.status \in NotVoided /\ shifts[sale.shift].warehouse = k[2]
    THEN QtyOf(sale.lines, k[1]) ELSE 0

\* What a sale takes of a product is an integer.
LEMMA TakenType ==
    ASSUME NEW sale \in Sale, NEW k
    PROVE  TakenBy(sale, k) \in Nat
<1>1. sale.lines \in Seq(Item)
  BY DEF Sale
<1> QED BY <1>1, LinesType DEF TakenBy

\* Another sale in the place of one.
LEMMA TakenChanged ==
    ASSUME CallsTypeOK, NEW t \in DOMAIN sales, NEW new \in Sale,
           sales' = [sales EXCEPT ![t] = new], shifts' = shifts
    PROVE  \A k \in Keys :
              Taken(NotVoided, k)'
                = Taken(NotVoided, k) - TakenBy(sales[t], k) + TakenBy(new, k)
<1> SUFFICES ASSUME NEW k \in Keys
             PROVE  Taken(NotVoided, k)'
                      = Taken(NotVoided, k) - TakenBy(sales[t], k) + TakenBy(new, k)
  OBVIOUS
<1> DEFINE D == DOMAIN sales
           f == [u \in D |-> TakenBy(sales[u], k)]
           g == [u \in D |-> TakenBy(sales'[u], k)]
<1>1. Taken(NotVoided, k) = SumFunctionOnSet(f, D)
  BY DEF Taken, TakenBy, SumFunction
<1>2. Taken(NotVoided, k)' = SumFunctionOnSet(g, D)
  BY DEF Taken, TakenBy, SumFunction, NotVoided, QtyOf
<1>3. sales'[t] = new /\ \A u \in D \ {t} : sales'[u] = sales[u]
  OBVIOUS
<1>4. \A u \in D : sales[u] \in Sale /\ sales'[u] \in Sale
  BY <1>3 DEF CallsTypeOK
<1>5. \A u \in D : f[u] \in Int /\ g[u] \in Int
  BY <1>4, TakenType
<1>6. (\A u \in D \ {t} : g[u] = f[u]) /\ f[t] = TakenBy(sales[t], k) /\ g[t] = TakenBy(new, k)
  BY <1>3
<1>7. IsFiniteSet(D)
  BY SalesFinite
<1> HIDE DEF f, g, D
<1>8. SumFunctionOnSet(g, D) = SumFunctionOnSet(f, D) - f[t] + g[t]
  BY <1>5, <1>6, <1>7, SumChange DEF D
<1> QED BY <1>1, <1>2, <1>6, <1>8

\* Stock moves by what one sale takes more or less.
LEMMA StockTaken ==
    ASSUME CallsTypeOK, SalesTakeStock, NEW t \in DOMAIN sales, NEW new \in Sale,
           sales' = [sales EXCEPT ![t] = new], shifts' = shifts, overlapped' = overlapped,
           ~overlapped => \A k \in Keys :
              ledger'[k].sum = ledger[k].sum + TakenBy(sales[t], k) - TakenBy(new, k)
    PROVE  SalesTakeStock'
<1>1. CASE overlapped
  BY <1>1 DEF SalesTakeStock
<1>2. CASE ~overlapped
  <2>1. \A k \in Keys : Taken(NotVoided, k)'
           = Taken(NotVoided, k) - TakenBy(sales[t], k) + TakenBy(new, k)
    BY TakenChanged
  <2>2. \A k \in Keys :
           /\ InitialStock - ledger[k].sum = Taken(NotVoided, k)
           /\ ledger'[k].sum = ledger[k].sum + TakenBy(sales[t], k) - TakenBy(new, k)
    BY <1>2 DEF SalesTakeStock
  <2>3. \A k \in Keys : ledger[k].sum \in Int
    BY DEF CallsTypeOK, StockTypeOK, Ledgers
  <2>4. \A k \in Keys : TakenBy(sales[t], k) \in Int /\ TakenBy(new, k) \in Int
    <3>1. sales[t] \in Sale
      BY DEF CallsTypeOK
    <3> QED BY <3>1, TakenType
  <2>5. \A k \in Keys : InitialStock - ledger'[k].sum = Taken(NotVoided, k)'
    <3> SUFFICES ASSUME NEW k \in Keys
                 PROVE  InitialStock - ledger'[k].sum = Taken(NotVoided, k)'
      OBVIOUS
    <3> DEFINE a == TakenBy(sales[t], k)
               b == TakenBy(new, k)
               l == ledger[k].sum
    <3>1. Taken(NotVoided, k)' = Taken(NotVoided, k) - a + b
      BY <2>1
    <3>2. InitialStock - l = Taken(NotVoided, k) /\ ledger'[k].sum = l + a - b
      BY <2>2
    <3>3. l \in Int /\ a \in Int /\ b \in Int /\ InitialStock \in Int
      BY <2>3, <2>4, PosAssumption
    <3> HIDE DEF a, b, l
    <3>4. InitialStock - (l + a - b) = (InitialStock - l) - a + b
      BY <3>3
    <3> QED BY <3>1, <3>2, <3>4
  <2> QED BY <2>5 DEF SalesTakeStock
<1> QED BY <1>1, <1>2

\* One sale becomes another: how the balance moves, what the other calls see of it,
\* and what holds of it.
StockMoved(t, new) ==
    ~overlapped => \A k \in Keys :
        ledger'[k].sum = ledger[k].sum + TakenBy(sales[t], k) - TakenBy(new, k)
OthersUnmoved(s, t, new) ==
    \A o \in Sessions \ {s} :
        /\ own'[o] = own[o]
        /\ \A p \in Products : rowLock[p] = o => rowLock'[p] = o
        /\ \A k \in Keys : Commits(o, k) => ledger'[k] = ledger[k]
        /\ Checks(o) /\ call[o].sale = t =>
              new.status # "COMPLETED" /\ new.total = sales[t].total
        /\ ~overlapped /\ Busy(o) /\ call[o].sale = t => Alike(sales[t], new)
PaidOK(sale) ==
    /\ sale.total = AmountOf(sale.lines)
    /\ sale.status = "COMPLETED" => sale.paid = sale.total + sale.change /\ sale.change >= 0
    /\ PeriodOpen /\ ~overlapped => JournalOK(sale)

\* What a step that changes one sale has to show.
LEMMA SaleStep ==
    ASSUME IInv, NEW s \in Sessions, OthersKept(s), call' \in [Sessions -> Calls],
           NEW t \in DOMAIN sales, NEW new \in Sale, sales' = [sales EXCEPT ![t] = new],
           new.shift = sales[t].shift, shifts' = shifts, overlapped' = overlapped,
           StockTypeOK', StockNonNegative', RunningIsBalance',
           StockMoved(t, new), OthersUnmoved(s, t, new), PaidOK(new),
           SessionOK(s)', OneCheckout', OneCall'
    PROVE  IInv'
<1>1. sales'[t] = new /\ (\A u \in DOMAIN sales \ {t} : sales'[u] = sales[u])
      /\ DOMAIN sales' = DOMAIN sales
  OBVIOUS
<1>2. CallsTypeOK' /\ CallsTypeOK /\ Places
  <2>1. sales \in Seq(Sale)
    BY DEF IInv, CallsTypeOK
  <2>2. sales' \in Seq(Sale)
    BY <2>1
  <2> QED BY <2>2 DEF IInv, CallsTypeOK
<1>3. PlacesKept /\ Places'
  BY <1>1 DEF PlacesKept, Places, IInv
<1>4. \A o \in Sessions : SessionOK(o)'
  <2> SUFFICES ASSUME NEW o \in Sessions \ {s} PROVE SessionOK(o)'
    OBVIOUS
  <2>1. call'[o] = call[o] /\ SessionOK(o)
    BY DEF OthersKept, IInv
  <2>2. Busy(o) => call[o].sale \in DOMAIN sales
    BY <2>1 DEF SessionOK, Refers
  <2>3. Busy(o) => SaleOf(o)' = IF call[o].sale = t THEN new ELSE SaleOf(o)
    BY <1>1, <2>1, <2>2 DEF SaleOf
  <2>4. Checks(o) => SaleOf(o)'.status # "COMPLETED" /\ SaleOf(o)'.total = SaleOf(o).total
    BY <2>1, <2>3 DEF SessionOK, SettlesOK, SaleOf, Busy, OthersUnmoved
  <2>5. ~overlapped' /\ Busy(o) => Alike(SaleOf(o), SaleOf(o)')
    BY <2>3 DEF Alike, SaleOf, OthersUnmoved
  <2>6. /\ own'[o] = own[o]
        /\ \A p \in Products : rowLock[p] = o => rowLock'[p] = o
        /\ \A k \in Keys : Commits(o, k) => ledger'[k] = ledger[k]
    BY DEF OthersUnmoved
  <2> QED BY <1>2, <1>3, <2>1, <2>4, <2>5, <2>6, Bystander
<1>5. TotalInv'
  BY <1>1 DEF IInv, TotalInv, AmountOf, PaidOK
<1>6. CompletedIsPaid'
  BY <1>1, <1>5 DEF IInv, CompletedIsPaid, TotalInv, PaidOK
<1>7. JournalInv'
  BY <1>1 DEF IInv, JournalInv, PaidOK
<1>8. SalesTakeStock'
  BY <1>2, StockTaken DEF IInv, StockMoved
<1> QED BY <1>2, <1>3, <1>4, <1>5, <1>6, <1>7, <1>8 DEF IInv

\* What a call for a sale knows of it and of the others.
LEMMA SaleFacts ==
    ASSUME IInv, NEW s \in Sessions, Busy(s)
    PROVE  /\ call[s].sale \in DOMAIN sales /\ SaleOf(s) \in Sale
           /\ SaleOf(s).total = AmountOf(SaleOf(s).lines)
           /\ SessionOK(s) /\ CallsTypeOK /\ Places /\ Refers(s)
           /\ Checks(s) => SaleOf(s).status # "COMPLETED"
           /\ Checks(s) /\ ~overlapped => SaleOf(s).status # "VOIDED"
           /\ PeriodOpen /\ ~overlapped => JournalOK(SaleOf(s))
           /\ \A o \in Sessions \ {s} :
                 /\ Checks(s) /\ Checks(o) => call[o].sale # call[s].sale
                 /\ ~overlapped /\ Busy(o) => call[o].sale # call[s].sale
<1>1. SessionOK(s) /\ CallsTypeOK /\ Places /\ Refers(s) /\ SettlesOK(s) /\ SeesOK(s)
  BY DEF IInv, SessionOK
<1>2. call[s].sale \in DOMAIN sales
  BY <1>1 DEF Refers
<1>3. SaleOf(s) \in Sale /\ SaleOf(s).total = AmountOf(SaleOf(s).lines)
  BY <1>1, <1>2 DEF CallsTypeOK, SaleOf, IInv, TotalInv
<1>4. PeriodOpen /\ ~overlapped => JournalOK(SaleOf(s))
  BY <1>2 DEF IInv, JournalInv, SaleOf
<1>5. Checks(s) => SaleOf(s).status # "COMPLETED"
  BY <1>1 DEF SettlesOK
<1>6. Checks(s) /\ ~overlapped => SaleOf(s).status # "VOIDED"
  BY <1>1 DEF SeesOK
<1>7. \A o \in Sessions \ {s} :
         /\ Checks(s) /\ Checks(o) => call[o].sale # call[s].sale
         /\ ~overlapped /\ Busy(o) => call[o].sale # call[s].sale
  BY DEF IInv, OneCheckout, OneCall
<1> QED BY <1>1, <1>2, <1>3, <1>4, <1>5, <1>6, <1>7

\* An item commits: its stock and its line.
LEMMA AddCommitStep ==
    ASSUME IInv, NEW s \in Sessions, AddCommit(s)
    PROVE  IInv'
<1> DEFINE t == call[s].sale
           sale == SaleOf(s)
           item == ItemOf(s)
           new == [sale EXCEPT !.lines = Append(@, item),
                               !.total = @ + item.qty * Price[item.product],
                               !.version = @ + 1]
           c == [call[s] EXCEPT !.step = "item", !.next = @ + 1]
<1>1. /\ call[s].step = "commit" /\ call[s].op = "SALE" /\ CommitRows(s, Today)
      /\ sales' = [sales EXCEPT ![t] = new] /\ call' = [call EXCEPT ![s] = c]
      /\ shifts' = shifts /\ overlapped' = overlapped
  BY DEF AddCommit, SaleOf
<1>2. Checks(s) /\ Busy(s) /\ ~Voids(s)
  BY <1>1, CallKinds DEF IInv, Voids, VoidCalls, Busy
<1>3. /\ t \in DOMAIN sales /\ sale \in Sale /\ sale.total = AmountOf(sale.lines)
      /\ SessionOK(s) /\ CallsTypeOK /\ Places /\ Refers(s)
      /\ sale.status # "COMPLETED"
      /\ ~overlapped => sale.status # "VOIDED"
      /\ PeriodOpen /\ ~overlapped => JournalOK(sale)
      /\ \A o \in Sessions \ {s} :
            /\ Checks(o) => call[o].sale # t
            /\ ~overlapped /\ Busy(o) => call[o].sale # t
  BY <1>2, SaleFacts
<1>4. item \in Item /\ WarehouseOf(s) = shifts[sale.shift].warehouse
  BY <1>1, <1>2, <1>3, NeedsType DEF WarehouseOf, SaleOf
<1>5. item.qty \in Nat /\ item.product \in Products /\ item.qty * Price[item.product] \in Nat
  <2>1. item.qty \in Nat /\ item.product \in Products
    BY <1>4 DEF Item
  <2>2. Price[item.product] \in Nat
    BY <2>1, PosAssumption
  <2> QED BY <2>1, <2>2
<1>6. /\ sale.lines \in Seq(Item) /\ sale.total \in Nat /\ sale.version \in Nat
      /\ sale.status \in {"OPEN", "HELD", "COMPLETED", "VOIDED", "CANCELLED"}
  BY <1>3 DEF Sale
<1>7. /\ AmountOf(Append(sale.lines, item))
           = AmountOf(sale.lines) + item.qty * Price[item.product]
      /\ \A p : QtyOf(Append(sale.lines, item), p)
                  = QtyOf(sale.lines, p) + (IF item.product = p THEN item.qty ELSE 0)
  BY <1>4, <1>6, LineAdded
<1>8. /\ new \in Sale /\ new.shift = sale.shift /\ new.status = sale.status
      /\ new.lines = Append(sale.lines, item) /\ new.journal = sale.journal
      /\ new.total = sale.total + item.qty * Price[item.product]
  <2> DEFINE amount == item.qty * Price[item.product]
  <2>1. Append(sale.lines, item) \in Seq(Item) /\ sale.total + amount \in Nat
        /\ sale.version + 1 \in Nat
    BY <1>4, <1>5, <1>6
  <2> HIDE DEF sale, item, amount
  <2> QED BY <1>3, <2>1 DEF Sale, amount
<1>9. /\ StockTypeOK' /\ StockNonNegative' /\ RunningIsBalance'
      /\ \A k \in Keys :
            ledger'[k].sum = ledger[k].sum + (IF k \in Touches(s) THEN Moves(s, k[1]) ELSE 0)
      /\ \A k \in Keys : own'[s][k] = NoRows
      /\ \A o \in Sessions \ {s} :
            /\ own'[o] = own[o]
            /\ \A p \in Products : rowLock[p] = o => rowLock'[p] = o
            /\ \A k \in Keys : Commits(o, k) => ledger'[k] = ledger[k]
  BY <1>1, <1>2, CommitStock
<1>10. c \in CheckoutCalls /\ c.step = "item" /\ c.sale = t
  <2>1. call[s] \in CheckoutCalls
    BY <1>2 DEF Checks
  <2>2. call[s].next + 1 \in Nat \ {0}
    BY <2>1 DEF CheckoutCalls
  <2> QED BY <2>1, <2>2 DEF CheckoutCalls
<1> HIDE DEF c, new
<1>11. call' \in [Sessions -> Calls] /\ call'[s] = c /\ OthersKept(s)
  BY <1>1, <1>3, <1>10, CallChanged DEF Calls
<1>12. Checks(s)' /\ Busy(s)' /\ ~Voids(s)'
  BY <1>10, <1>11 DEF Checks, Busy, Voids, VoidCalls, CheckoutCalls
<1>13. SaleOf(s)' = new
  BY <1>1, <1>3, <1>10, <1>11 DEF SaleOf
<1>14. SessionOK(s)'
  <2>1. Refers(s)'
    BY <1>1, <1>3, <1>10, <1>11, <1>12 DEF Refers
  <2>2. LocksOK(s)' /\ RowsOK(s)'
    BY <1>9, <1>10, <1>11 DEF LocksOK, RowsOK, Commits
  <2>3. SettlesOK(s)' /\ SeesOK(s)'
    BY <1>1, <1>3, <1>8, <1>10, <1>11, <1>12, <1>13 DEF SettlesOK, SeesOK
  <2> QED BY <2>1, <2>2, <2>3 DEF SessionOK
<1>15. OneCheckout' /\ OneCall'
  BY <1>1, <1>2, <1>10, <1>11, <1>12, SameSale
<1>16. ASSUME ~overlapped, NEW k \in Keys
       PROVE  ledger'[k].sum = ledger[k].sum + TakenBy(sale, k) - TakenBy(new, k)
  <2> DEFINE here == shifts[sale.shift].warehouse = k[2]
             q == QtyOf(sale.lines, k[1])
             more == IF item.product = k[1] THEN item.qty ELSE 0
  <2>1. sale.status \in NotVoided
    BY <1>3, <1>6, <1>16 DEF NotVoided
  <2>2. TakenBy(sale, k) = IF here THEN q ELSE 0
    BY <2>1 DEF TakenBy
  <2>3. TakenBy(new, k) = IF here THEN q + more ELSE 0
    BY <1>7, <1>8, <2>1 DEF TakenBy
  <2>4. ledger'[k].sum = ledger[k].sum + (IF here /\ item.product = k[1] THEN -item.qty ELSE 0)
    <3>1. k \in Touches(s) <=> here /\ item.product = k[1]
      BY <1>2, <1>4 DEF Touches, Needs, Keys
    <3>2. Moves(s, k[1]) = -item.qty
      BY <1>2 DEF Moves
    <3> QED BY <1>9, <3>1, <3>2
  <2>5. q \in Int /\ more \in Int /\ ledger[k].sum \in Int /\ item.qty \in Int
    BY <1>3, <1>5, <1>6, LinesType DEF CallsTypeOK, StockTypeOK, Ledgers
  <2> HIDE DEF q, here
  <2> QED BY <2>2, <2>3, <2>4, <2>5
<1>17. sale = sales[t]
  BY DEF SaleOf
<1>18. StockMoved(t, new)
  BY <1>16, <1>17 DEF StockMoved
<1>19. OthersUnmoved(s, t, new)
  BY <1>3, <1>9 DEF OthersUnmoved
<1>20. PaidOK(new)
  <2>1. new.total = AmountOf(new.lines)
    BY <1>3, <1>7, <1>8
  <2>2. new.status # "COMPLETED" /\ (PeriodOpen /\ ~overlapped => JournalOK(new))
    BY <1>3, <1>8 DEF JournalOK
  <2> QED BY <2>1, <2>2 DEF PaidOK
<1> HIDE DEF t, sale, item
<1> QED BY <1>1, <1>3, <1>8, <1>9, <1>11, <1>14, <1>15, <1>17, <1>18, <1>19, <1>20, SaleStep

\* The first event of a reference is posted; cost of goods sold never is.
LEMMA EventPosted ==
    ASSUME NEW journal \in Seq(Entry), NEW amount \in Nat, NEW sale,
           NEW event \in {"POS_SALE", "POS_SALE_REVERSAL"},
           NEW reference \in {"POS_TRANSACTION", "POS_VOID"}, NEW cogs
    PROVE  LET after == WithCogs(ProcessEvent(journal, event, reference, amount),
                                 cogs, reference, Cogs(sale))
               e == AutoEntry(event, reference, amount)
           IN  /\ after \in Seq(Entry)
               /\ (\A i \in DOMAIN journal : journal[i].reference # reference) =>
                     after = Append(journal, e)
<1> DEFINE posted == ProcessEvent(journal, event, reference, amount)
           e == AutoEntry(event, reference, amount)
<1>1. WithCogs(posted, cogs, reference, Cogs(sale)) = posted
  BY DEF WithCogs, Cogs, RowReference, CogsReference
<1>2. e \in Entry
  BY DEF AutoEntry, Entry
<1> HIDE DEF e
<1>3. Append(journal, e) \in Seq(Entry)
  BY <1>2
<1>4. posted = journal \/ posted = Append(journal, e)
  BY DEF ProcessEvent, e
<1>5. (\A i \in DOMAIN journal : journal[i].reference # reference) => posted = Append(journal, e)
  BY DEF ProcessEvent, AlreadyPosted, e
<1> QED BY <1>1, <1>3, <1>4, <1>5 DEF e

\* The payment commits: the sale is completed and posted.
LEMMA PayCommitStep ==
    ASSUME IInv, NEW s \in Sessions, PayCommit(s)
    PROVE  IInv'
<1> DEFINE t == call[s].sale
           sale == SaleOf(s)
           journal == SaleJournal(sale)
           version == sale.version + 1
           paid == call[s].paid
           change == call[s].change
           new == [sale EXCEPT !.status = "COMPLETED", !.paid = paid, !.change = change,
                               !.version = version, !.journal = journal]
<1>1. /\ call[s].step = "settle" /\ sales' = [sales EXCEPT ![t] = new]
      /\ call' = [call EXCEPT ![s] = NoCall]
      /\ ledger' = ledger /\ rowLock' = rowLock /\ own' = own
      /\ shifts' = shifts /\ overlapped' = overlapped
  BY DEF PayCommit, SaleOf, Ends, stockVars
<1>2. Checks(s) /\ Busy(s)
  BY <1>1, CallKinds DEF IInv, Busy
<1>3. /\ t \in DOMAIN sales /\ sale \in Sale /\ sale.total = AmountOf(sale.lines)
      /\ SessionOK(s) /\ CallsTypeOK /\ Places /\ Refers(s)
      /\ sale.status # "COMPLETED"
      /\ ~overlapped => sale.status # "VOIDED"
      /\ PeriodOpen /\ ~overlapped => JournalOK(sale)
      /\ \A o \in Sessions \ {s} :
            /\ Checks(o) => call[o].sale # t
            /\ ~overlapped /\ Busy(o) => call[o].sale # t
  BY <1>2, SaleFacts
<1>4. call[s].paid = sale.total + call[s].change /\ call[s].change >= 0
  BY <1>1, <1>2, <1>3 DEF SessionOK, SettlesOK
<1>5. /\ sale.total \in Nat /\ sale.version \in Nat /\ sale.journal \in Seq(Entry)
      /\ sale.status \in {"OPEN", "HELD", "COMPLETED", "VOIDED", "CANCELLED"}
      /\ paid \in Nat /\ change \in Int
  BY <1>2, <1>3 DEF Sale, Checks, CheckoutCalls
<1>6. /\ journal \in Seq(Entry)
      /\ PeriodOpen /\ ~overlapped => journal = <<SaleEntry(sale.total)>>
  <2> DEFINE e == SaleEntry(sale.total)
             after == WithCogs(ProcessEvent(sale.journal, "POS_SALE", "POS_TRANSACTION", sale.total),
                               "POS_SALE_COGS", "POS_TRANSACTION", Cogs(sale))
  <2>1. /\ after \in Seq(Entry)
        /\ (\A i \in DOMAIN sale.journal : sale.journal[i].reference # "POS_TRANSACTION") =>
              after = Append(sale.journal, e)
    BY <1>5, EventPosted DEF SaleEntry
  <2>2. journal = IF PeriodOpen THEN after ELSE sale.journal
    BY DEF SaleJournal
  <2> HIDE DEF after, e
  <2>3. PeriodOpen /\ ~overlapped => sale.journal = << >>
    BY <1>3, <1>5 DEF JournalOK
  <2>4. Append(<< >>, e) = <<e>>
    BY ShortJournals
  <2> QED BY <1>5, <2>1, <2>2, <2>3, <2>4 DEF e
<1>7. /\ new \in Sale /\ new.shift = sale.shift /\ new.status = "COMPLETED"
      /\ new.lines = sale.lines /\ new.total = sale.total /\ new.journal = journal
      /\ new.paid = paid /\ new.change = change
  <2>1. version \in Nat
    BY <1>5
  <2> HIDE DEF sale, journal, version, paid, change
  <2> QED BY <1>3, <1>5, <1>6, <2>1 DEF Sale
<1> HIDE DEF new
<1>8. call' \in [Sessions -> Calls] /\ call'[s] = NoCall /\ OthersKept(s)
  BY <1>1, <1>3, CallChanged DEF Calls
<1>9. ~Checks(s)' /\ ~Voids(s)' /\ ~Busy(s)'
  BY <1>8 DEF Checks, Busy, Voids, VoidCalls, CheckoutCalls, NoCall
<1>10. SessionOK(s)'
  <2>1. \A k \in Keys : own'[s][k] = NoRows
    BY <1>1, NotWritten
  <2> QED BY <1>8, <1>9, <2>1 DEF SessionOK, Refers, LocksOK, RowsOK, Commits, SettlesOK, SeesOK, NoCall
<1>11. OneCheckout' /\ OneCall'
  BY <1>1, <1>8, <1>9, SameSale
<1>12. StockTypeOK' /\ StockNonNegative' /\ RunningIsBalance'
  BY <1>1, <1>3 DEF IInv, CallsTypeOK, StockTypeOK, StockNonNegative, RunningIsBalance, Keys
<1>13. sale = sales[t]
  BY DEF SaleOf
<1>14. StockMoved(t, new)
  <2>1. ~overlapped => \A k \in Keys : TakenBy(new, k) = TakenBy(sale, k)
    BY <1>3, <1>5, <1>7 DEF TakenBy, NotVoided
  <2>2. \A k \in Keys : ledger[k].sum \in Int /\ TakenBy(sale, k) \in Nat
    BY <1>3, TakenType DEF CallsTypeOK, StockTypeOK, Ledgers
  <2>3. ASSUME ~overlapped, NEW k \in Keys
        PROVE  ledger'[k].sum = ledger[k].sum + TakenBy(sale, k) - TakenBy(new, k)
    BY <1>1, <2>1, <2>2, <2>3
  <2> QED BY <1>13, <2>3 DEF StockMoved
<1>15. OthersUnmoved(s, t, new)
  BY <1>1, <1>3 DEF OthersUnmoved
<1>16. PaidOK(new)
  <2>1. PeriodOpen /\ ~overlapped => JournalOK(new)
    BY <1>6, <1>7 DEF JournalOK
  <2> QED BY <1>3, <1>4, <1>7, <2>1 DEF PaidOK
<1> HIDE DEF t, sale, journal
<1> QED BY <1>1, <1>3, <1>7, <1>8, <1>10, <1>11, <1>12, <1>13, <1>14, <1>15, <1>16, SaleStep

\* A void commits: the stock is back and the sale reversed.
LEMMA VoidCommitStep ==
    ASSUME IInv, NEW s \in Sessions, VoidCommit(s)
    PROVE  IInv'
<1> DEFINE t == call[s].sale
           seen == call[s].seen
           sale == SaleOf(s)
           journal == VoidJournal(s)
           version == sale.version + 1
           new == [sale EXCEPT !.status = "VOIDED", !.version = version, !.journal = journal]
<1>1. /\ call[s].step = "commit" /\ call[s].op = "VOID" /\ CommitRows(s, Today)
      /\ sales' = [sales EXCEPT ![t] = new] /\ call' = [call EXCEPT ![s] = NoCall]
      /\ shifts' = shifts /\ overlapped' = overlapped
  BY DEF VoidCommit, SaleOf, Ends
<1>2. Voids(s) /\ Busy(s) /\ ~Checks(s)
  BY <1>1, CallKinds DEF IInv, Checks, CheckoutCalls, Busy
<1>3. /\ t \in DOMAIN sales /\ sale \in Sale /\ sale.total = AmountOf(sale.lines)
      /\ SessionOK(s) /\ CallsTypeOK /\ Places /\ Refers(s)
      /\ PeriodOpen /\ ~overlapped => JournalOK(sale)
      /\ \A o \in Sessions \ {s} :
            ~overlapped /\ Busy(o) => call[o].sale # t
  BY <1>2, SaleFacts
<1>4. ~overlapped =>
         /\ sale.status # "VOIDED"
         /\ seen.lines = sale.lines /\ seen.total = sale.total
         /\ seen.status = "COMPLETED" <=> sale.status = "COMPLETED"
  BY <1>1, <1>2, <1>3 DEF SessionOK, SeesOK
<1>5. /\ sale.total \in Nat /\ sale.version \in Nat /\ sale.journal \in Seq(Entry)
      /\ sale.status \in {"OPEN", "HELD", "COMPLETED", "VOIDED", "CANCELLED"}
      /\ seen.total \in Nat /\ seen.lines \in Seq(Item)
  BY <1>2, <1>3 DEF Sale, Voids, VoidCalls
<1>6. /\ journal \in Seq(Entry)
      /\ PeriodOpen /\ ~overlapped =>
            \/ journal = << >>
            \/ \E a \in Nat : journal = <<SaleEntry(a), ReversalEntry(a)>>
  <2> DEFINE e == ReversalEntry(seen.total)
             x == SaleEntry(sale.total)
             after == WithCogs(ProcessEvent(sale.journal, "POS_SALE_REVERSAL", "POS_VOID", seen.total),
                               "POS_SALE_COGS_REVERSAL", "POS_VOID", Cogs(seen))
  <2>1. /\ after \in Seq(Entry)
        /\ (\A i \in DOMAIN sale.journal : sale.journal[i].reference # "POS_VOID") =>
              after = Append(sale.journal, e)
    <3>1. sale.journal \in Seq(Entry) /\ seen.total \in Nat
      BY <1>5
    <3> HIDE DEF sale, seen
    <3> QED BY <3>1, EventPosted DEF ReversalEntry
  <2>2. journal = IF PeriodOpen /\ seen.status = "COMPLETED" THEN after ELSE sale.journal
    BY DEF VoidJournal, SaleOf
  <2>3. x.reference = "POS_TRANSACTION"
    BY DEF SaleEntry, AutoEntry
  <2> HIDE DEF after, e, x
  <2>4. ASSUME PeriodOpen, ~overlapped, seen.status = "COMPLETED"
        PROVE  journal = <<x, e>>
    <3>1. sale.journal = <<x>>
      BY <1>3, <1>4, <2>4 DEF JournalOK, x
    <3>2. Append(<<x>>, e) = <<x, e>>
      BY ShortJournals
    <3>3. \A i \in DOMAIN sale.journal : sale.journal[i].reference # "POS_VOID"
      BY <2>3, <3>1
    <3> QED BY <2>1, <2>2, <2>4, <3>1, <3>2, <3>3
  <2>5. ASSUME PeriodOpen, ~overlapped, seen.status # "COMPLETED"
        PROVE  journal = << >>
    BY <1>3, <1>4, <1>5, <2>2, <2>5 DEF JournalOK
  <2>6. ~overlapped => seen.total = sale.total
    BY <1>4
  <2> QED BY <1>5, <2>1, <2>2, <2>4, <2>5, <2>6 DEF e, x
<1>7. /\ new \in Sale /\ new.shift = sale.shift /\ new.status = "VOIDED"
      /\ new.lines = sale.lines /\ new.total = sale.total /\ new.journal = journal
  <2>1. version \in Nat
    BY <1>5
  <2> HIDE DEF sale, journal, version
  <2> QED BY <1>3, <1>5, <1>6, <2>1 DEF Sale
<1> HIDE DEF new
<1>8. call' \in [Sessions -> Calls] /\ call'[s] = NoCall /\ OthersKept(s)
  BY <1>1, <1>3, CallChanged DEF Calls
<1>9. ~Checks(s)' /\ ~Voids(s)' /\ ~Busy(s)'
  BY <1>8 DEF Checks, Busy, Voids, VoidCalls, CheckoutCalls, NoCall
<1>10. /\ StockTypeOK' /\ StockNonNegative' /\ RunningIsBalance'
       /\ \A k \in Keys :
             ledger'[k].sum = ledger[k].sum + (IF k \in Touches(s) THEN Moves(s, k[1]) ELSE 0)
       /\ \A k \in Keys : own'[s][k] = NoRows
       /\ \A o \in Sessions \ {s} :
             /\ own'[o] = own[o]
             /\ \A p \in Products : rowLock[p] = o => rowLock'[p] = o
             /\ \A k \in Keys : Commits(o, k) => ledger'[k] = ledger[k]
  BY <1>1, <1>2, CommitStock
<1>11. SessionOK(s)'
  BY <1>8, <1>9, <1>10 DEF SessionOK, Refers, LocksOK, RowsOK, Commits, SettlesOK, SeesOK, NoCall
<1>12. OneCheckout' /\ OneCall'
  BY <1>1, <1>8, <1>9, SameSale
<1>13. sale = sales[t]
  BY DEF SaleOf
<1>14. ASSUME ~overlapped, NEW k \in Keys
       PROVE  ledger'[k].sum = ledger[k].sum + TakenBy(sale, k) - TakenBy(new, k)
  <2> DEFINE here == shifts[sale.shift].warehouse = k[2]
             q == QtyOf(sale.lines, k[1])
  <2>1. sale.status \in NotVoided /\ new.status \notin NotVoided
    BY <1>4, <1>5, <1>7, <1>14 DEF NotVoided
  <2>2. TakenBy(sale, k) = IF here THEN q ELSE 0
    BY <2>1 DEF TakenBy
  <2>3. TakenBy(new, k) = 0
    BY <2>1 DEF TakenBy
  <2>4. ledger'[k].sum = ledger[k].sum + (IF here THEN q ELSE 0)
    <3>1. Needs(s) = ProductsIn(sale.lines) /\ Moves(s, k[1]) = q
      BY <1>2, <1>4, <1>14 DEF Needs, Moves
    <3>2. k[1] \notin Needs(s) => q = 0
      BY <1>1, <1>2, <1>3, <1>4, <1>14, NeedsType
    <3>3. k \in Touches(s) <=> here /\ k[1] \in Needs(s)
      BY DEF Touches, Keys, WarehouseOf, SaleOf
    <3>4. k \in Touches(s) => ledger'[k].sum = ledger[k].sum + q
      BY <1>10, <3>1
    <3>5. k \notin Touches(s) => ledger'[k].sum = ledger[k].sum + 0
      BY <1>10
    <3> QED BY <3>2, <3>3, <3>4, <3>5
  <2>5. q \in Int /\ ledger[k].sum \in Int
    BY <1>3, <1>4, <1>5, <1>14, LinesType DEF CallsTypeOK, StockTypeOK, Ledgers
  <2> HIDE DEF q, here
  <2> QED BY <2>2, <2>3, <2>4, <2>5
<1>15. StockMoved(t, new)
  BY <1>13, <1>14 DEF StockMoved
<1>16. OthersUnmoved(s, t, new)
  BY <1>3, <1>7, <1>10, <1>13 DEF OthersUnmoved
<1>17. PaidOK(new)
  <2>1. PeriodOpen /\ ~overlapped => JournalOK(new)
    BY <1>6, <1>7 DEF JournalOK
  <2> QED BY <1>3, <1>7, <2>1 DEF PaidOK
<1> HIDE DEF t, sale, journal
<1> QED BY <1>1, <1>3, <1>7, <1>8, <1>10, <1>11, <1>12, <1>13, <1>15, <1>16, <1>17, SaleStep

-----------------------------------------------------------------------------
(* Holds, closed shifts and new sales *)

\* A session that is free stays so while sales and shifts change.
LEMMA FreeOK ==
    ASSUME IInv, NEW s \in Sessions, Free(s), call' = call, own' = own
    PROVE  SessionOK(s)' /\ OthersKept(s) /\ ~Busy(s)' /\ ~Checks(s)'
<1>1. ~Busy(s) /\ call[s].step = "none"
  BY CallKinds DEF IInv
<1>2. ~Busy(s)' /\ ~Checks(s)' /\ call'[s].step = "none"
  BY <1>1 DEF Busy, Checks, Voids
<1>3. \A k \in Keys : own'[s][k] = NoRows
  BY <1>1, NotWritten
<1>4. SessionOK(s)'
  BY <1>2, <1>3 DEF SessionOK, Refers, LocksOK, RowsOK, Commits, SettlesOK, SeesOK, Busy
<1> QED BY <1>2, <1>4 DEF OthersKept

\* A sale is held or resumed.
LEMMA SetHeldStep ==
    ASSUME IInv, NEW s \in Sessions, NEW t \in DOMAIN sales,
           NEW from \in {"OPEN", "HELD"}, NEW to \in {"OPEN", "HELD"}, SetHeld(s, t, from, to)
    PROVE  IInv'
<1> DEFINE sale == sales[t]
           version == sale.version + 1
           new == [sale EXCEPT !.status = to, !.version = version]
<1>1. /\ Free(s) /\ sale.status = from /\ sales' = [sales EXCEPT ![t] = new]
      /\ call' = call /\ ledger' = ledger /\ rowLock' = rowLock /\ own' = own
      /\ shifts' = shifts /\ overlapped' = overlapped
  BY DEF SetHeld, stockVars
<1>2. CallsTypeOK /\ sale \in Sale /\ sale.total = AmountOf(sale.lines)
      /\ (PeriodOpen /\ ~overlapped => JournalOK(sale))
  BY DEF IInv, CallsTypeOK, TotalInv, JournalInv
<1>3. version \in Nat
  BY <1>2 DEF Sale
<1>4. /\ new \in Sale /\ new.shift = sale.shift /\ new.status = to
      /\ new.lines = sale.lines /\ new.total = sale.total /\ new.journal = sale.journal
  <2> HIDE DEF sale, version
  <2> QED BY <1>2, <1>3 DEF Sale
<1> HIDE DEF new
<1>5. SessionOK(s)' /\ OthersKept(s) /\ ~Busy(s)' /\ ~Checks(s)'
  BY <1>1, FreeOK
<1>6. OneCheckout' /\ OneCall'
  BY <1>1, <1>5, SameSale
<1>7. StockTypeOK' /\ StockNonNegative' /\ RunningIsBalance'
  BY <1>1, <1>2 DEF IInv, CallsTypeOK, StockTypeOK, StockNonNegative, RunningIsBalance, Keys
<1>8. StockMoved(t, new)
  <2>1. \A k \in Keys : TakenBy(new, k) = TakenBy(sale, k)
    BY <1>1, <1>4 DEF TakenBy, NotVoided
  <2>2. \A k \in Keys : ledger[k].sum \in Int /\ TakenBy(sale, k) \in Nat
    BY <1>2, TakenType DEF CallsTypeOK, StockTypeOK, Ledgers
  <2>3. ASSUME NEW k \in Keys
        PROVE  ledger'[k].sum = ledger[k].sum + TakenBy(sale, k) - TakenBy(new, k)
    BY <1>1, <2>1, <2>2
  <2> QED BY <2>3 DEF StockMoved
<1>9. OthersUnmoved(s, t, new)
  <2>1. new.status # "COMPLETED" /\ sale.status # "COMPLETED" /\ new.status # "VOIDED"
    BY <1>1, <1>4
  <2> QED BY <1>1, <1>4, <2>1 DEF OthersUnmoved, Alike
<1>10. PaidOK(new)
  BY <1>1, <1>2, <1>4 DEF PaidOK, JournalOK
<1>11. call' \in [Sessions -> Calls]
  BY <1>1, <1>2 DEF CallsTypeOK
<1> HIDE DEF version
<1> QED BY <1>1, <1>4, <1>5, <1>6, <1>7, <1>8, <1>9, <1>10, <1>11, SaleStep

\* A shift is closed by force: its sales not completed are cancelled.
LEMMA ForceCloseShiftStep ==
    ASSUME IInv, NEW s \in Sessions, NEW i \in DOMAIN shifts, ForceCloseShift(s, i)
    PROVE  IInv'
<1> DEFINE closed == [shifts[i] EXCEPT !.status = "CLOSED", !.expected = CashIn(i)]
<1>1. /\ Free(s) /\ shifts' = [shifts EXCEPT ![i] = closed]
      /\ call' = call /\ ledger' = ledger /\ rowLock' = rowLock /\ own' = own
      /\ overlapped' = overlapped
  BY DEF ForceCloseShift, stockVars
<1>2. CallsTypeOK /\ Places /\ shifts \in Seq(Shift) /\ sales \in Seq(Sale)
  BY DEF IInv, CallsTypeOK
<1>3. /\ shifts' \in Seq(Shift) /\ DOMAIN shifts' = DOMAIN shifts
      /\ \A j \in DOMAIN shifts : shifts'[j].warehouse = shifts[j].warehouse
  <2>1. CashIn(i) \in Int /\ shifts[i] \in Shift
    BY <1>2, CashType
  <2>2. closed \in Shift /\ closed.warehouse = shifts[i].warehouse
    BY <2>1 DEF Shift
  <2> HIDE DEF closed
  <2>3. shifts' \in Seq(Shift) /\ DOMAIN shifts' = DOMAIN shifts
    BY <1>1, <1>2, <2>2
  <2>4. \A j \in DOMAIN shifts : shifts'[j] = IF j = i THEN closed ELSE shifts[j]
    BY <1>1
  <2> QED BY <2>2, <2>3, <2>4
<1>4. /\ DOMAIN sales' = DOMAIN sales
      /\ \A t \in DOMAIN sales :
            \/ sales'[t] = sales[t]
            \/ /\ sales[t].status = "OPEN"
               /\ sales'[t] = [sales[t] EXCEPT !.status = "CANCELLED"]
  BY DEF ForceCloseShift
<1>5. \A t \in DOMAIN sales : sales[t] \in Sale
  BY <1>2
<1>6. ASSUME NEW t \in DOMAIN sales
      PROVE  /\ sales'[t] \in Sale /\ sales'[t].shift = sales[t].shift
             /\ Alike(sales[t], sales'[t])
             /\ sales'[t].status \in NotVoided <=> sales[t].status \in NotVoided
             /\ sales'[t].paid = sales[t].paid /\ sales'[t].change = sales[t].change
             /\ JournalOK(sales[t]) => JournalOK(sales'[t])
  <2>1. CASE sales'[t] = sales[t]
    BY <1>5, <2>1 DEF Alike
  <2>2. CASE sales[t].status = "OPEN" /\ sales'[t] = [sales[t] EXCEPT !.status = "CANCELLED"]
    <3> DEFINE old == sales[t]
               new == sales'[t]
    <3>1. /\ new \in Sale /\ new.shift = old.shift /\ new.status = "CANCELLED"
          /\ new.lines = old.lines /\ new.total = old.total /\ new.paid = old.paid
          /\ new.change = old.change /\ new.journal = old.journal /\ old.status = "OPEN"
      BY <1>5, <2>2 DEF Sale
    <3> HIDE DEF old, new
    <3>2. Alike(old, new) /\ (JournalOK(old) => JournalOK(new))
          /\ new.status \in NotVoided /\ old.status \in NotVoided
      BY <3>1 DEF Alike, JournalOK, NotVoided
    <3> QED BY <3>1, <3>2 DEF old, new
  <2> QED BY <1>4, <2>1, <2>2
<1>7. sales' \in Seq(Sale)
  <2>1. DOMAIN sales' = 1..Len(sales) /\ Len(sales) \in Nat
    BY <1>2, <1>4
  <2>2. sales' = [t \in 1..Len(sales) |-> sales'[t]]
    BY <2>1 DEF ForceCloseShift
  <2>3. \A t \in 1..Len(sales) : sales'[t] \in Sale
    BY <1>4, <1>6, <2>1
  <2> QED BY <2>1, <2>2, <2>3
<1>8. CallsTypeOK'
  BY <1>1, <1>2, <1>3, <1>7 DEF CallsTypeOK, StockTypeOK, Keys
<1>9. PlacesKept /\ Places'
  BY <1>2, <1>3, <1>4, <1>6 DEF PlacesKept, Places
<1>10. SessionOK(s)' /\ OthersKept(s) /\ ~Busy(s)' /\ ~Checks(s)'
  BY <1>1, FreeOK
<1>11. \A o \in Sessions : SessionOK(o)'
  <2> SUFFICES ASSUME NEW o \in Sessions PROVE SessionOK(o)'
    OBVIOUS
  <2>1. SessionOK(o)
    BY DEF IInv
  <2>2. Busy(o) => call[o].sale \in DOMAIN sales
    BY <2>1 DEF SessionOK, Refers
  <2>3. Busy(o) => Alike(SaleOf(o), SaleOf(o)')
    BY <1>1, <1>6, <2>2 DEF SaleOf
  <2>4. Checks(o) => SaleOf(o)'.status # "COMPLETED" /\ SaleOf(o)'.total = SaleOf(o).total
    BY <2>1, <2>3 DEF SessionOK, SettlesOK, Alike, Busy
  <2> QED BY <1>1, <1>2, <1>9, <2>1, <2>3, <2>4, Bystander
<1>12. OneCheckout' /\ OneCall'
  BY <1>1, <1>10, SameSale
<1>13. StockNonNegative' /\ RunningIsBalance'
  BY <1>1 DEF IInv, StockNonNegative, RunningIsBalance
<1>14. TotalInv' /\ CompletedIsPaid'
  BY <1>4, <1>6 DEF IInv, TotalInv, CompletedIsPaid, Alike, AmountOf
<1>15. JournalInv'
  BY <1>1, <1>4, <1>6 DEF IInv, JournalInv
<1>16. \A k \in Keys : Taken(NotVoided, k)' = Taken(NotVoided, k)
  <2> SUFFICES ASSUME NEW k \in Keys PROVE Taken(NotVoided, k)' = Taken(NotVoided, k)
    OBVIOUS
  <2>1. \A t \in DOMAIN sales :
           /\ sales'[t].lines = sales[t].lines /\ sales'[t].shift = sales[t].shift
           /\ sales'[t].status \in NotVoided <=> sales[t].status \in NotVoided
           /\ shifts'[sales[t].shift].warehouse = shifts[sales[t].shift].warehouse
    BY <1>2, <1>3, <1>6 DEF Alike, Places
  <2>2. [t \in DOMAIN sales' |->
            IF sales'[t].status \in NotVoided /\ shifts'[sales'[t].shift].warehouse = k[2]
            THEN QtyOf(sales'[t].lines, k[1]) ELSE 0]
          = [t \in DOMAIN sales |->
               IF sales[t].status \in NotVoided /\ shifts[sales[t].shift].warehouse = k[2]
               THEN QtyOf(sales[t].lines, k[1]) ELSE 0]
    BY <1>4, <2>1
  <2> QED BY <2>2 DEF Taken, QtyOf, NotVoided
<1>17. SalesTakeStock'
  BY <1>1, <1>16 DEF IInv, SalesTakeStock
<1> QED BY <1>8, <1>9, <1>11, <1>12, <1>13, <1>14, <1>15, <1>17 DEF IInv

\* A new sale takes nothing.
LEMMA TakenByNew ==
    ASSUME CallsTypeOK, Places, NEW i \in DOMAIN shifts, sales' = Append(sales, NewSale(i)),
           shifts' = shifts
    PROVE  \A k \in Keys : Taken(NotVoided, k)' = Taken(NotVoided, k)
<1> SUFFICES ASSUME NEW k \in Keys
             PROVE  Taken(NotVoided, k)' = Taken(NotVoided, k)
  OBVIOUS
<1> DEFINE D == DOMAIN sales
           n == Len(sales) + 1
           f == [u \in D |-> TakenBy(sales[u], k)]
           g == [u \in D \cup {n} |-> TakenBy(sales'[u], k)]
<1>1. /\ DOMAIN sales' = D \cup {n} /\ n \notin D /\ sales'[n] = NewSale(i)
      /\ \A u \in D : sales'[u] = sales[u]
  BY DEF CallsTypeOK
<1>2. Taken(NotVoided, k) = SumFunctionOnSet(f, D)
  BY DEF Taken, TakenBy, SumFunction
<1>3. Taken(NotVoided, k)' = SumFunctionOnSet(g, D \cup {n})
  BY <1>1 DEF Taken, TakenBy, SumFunction, NotVoided, QtyOf
<1>4. TakenBy(NewSale(i), k) = 0
  BY NoLines DEF TakenBy, NewSale
<1>5. \A u \in D : f[u] \in Int /\ g[u] = f[u]
  <2> SUFFICES ASSUME NEW u \in D PROVE f[u] \in Int /\ g[u] = f[u]
    OBVIOUS
  <2>1. sales[u] \in Sale
    BY DEF CallsTypeOK
  <2> QED BY <1>1, <2>1, TakenType
<1>6. g[n] = 0
  BY <1>1, <1>4
<1>7. IsFiniteSet(D)
  BY SalesFinite
<1> HIDE DEF f, g, D, n
<1>8. SumFunctionOnSet(g, D \cup {n}) = SumFunctionOnSet(g, D) + 0
  BY <1>1, <1>5, <1>6, <1>7, SumInsert
<1>9. SumFunctionOnSet(g, D) = SumFunctionOnSet(f, D)
  BY <1>5, <1>7, SumEqual
<1>10. SumFunctionOnSet(f, D) \in Int
  BY <1>5, <1>7, SumType
<1> QED BY <1>2, <1>3, <1>8, <1>9, <1>10

\* A checkout creates its sale.
LEMMA CreateSaleStep ==
    ASSUME IInv, NEW s \in Sessions, NEW i \in DOMAIN shifts, NEW r \in Checkouts,
           CreateSale(s, i, r)
    PROVE  IInv'
<1> DEFINE n == Len(sales) + 1
           c == [step |-> "item", op |-> "SALE", sale |-> n, items |-> r.items,
                 paid |-> r.paid, change |-> 0, next |-> 1, attempt |-> 1, version |-> 1]
           new == NewSale(i)
<1>1. /\ Free(s) /\ sales' = Append(sales, new) /\ call' = [call EXCEPT ![s] = c]
      /\ ledger' = ledger /\ rowLock' = rowLock /\ own' = own
      /\ shifts' = shifts /\ overlapped' = overlapped
  BY DEF CreateSale, stockVars
<1>2. CallsTypeOK /\ Places /\ sales \in Seq(Sale) /\ shifts \in Seq(Shift) /\ n \in Nat
  BY DEF IInv, CallsTypeOK
<1>3. r.items \in Seq(Item) /\ r.paid \in Nat
  BY PosAssumption DEF Item
<1>4. c \in CheckoutCalls /\ c.step = "item" /\ c.sale = n
  <2> HIDE DEF n
  <2> QED BY <1>2, <1>3 DEF CheckoutCalls, Attempts
<1>5. new \in Sale /\ new.status = "OPEN" /\ new.shift = i /\ new.lines = << >>
      /\ new.total = 0 /\ new.journal = << >>
  BY <1>2 DEF NewSale, Sale
<1> HIDE DEF c, new
<1>6. /\ sales' \in Seq(Sale) /\ DOMAIN sales' = DOMAIN sales \cup {n} /\ n \notin DOMAIN sales
      /\ sales'[n] = new /\ \A t \in DOMAIN sales : sales'[t] = sales[t]
  BY <1>1, <1>2, <1>5
<1>7. call' \in [Sessions -> Calls] /\ call'[s] = c /\ OthersKept(s)
  BY <1>1, <1>2, <1>4, CallChanged DEF Calls
<1>8. CallsTypeOK'
  BY <1>1, <1>2, <1>6, <1>7 DEF CallsTypeOK, StockTypeOK, Keys
<1>9. PlacesKept /\ Places'
  BY <1>1, <1>2, <1>5, <1>6 DEF PlacesKept, Places
<1>10. Checks(s)' /\ Busy(s)' /\ ~Voids(s)' /\ call'[s].sale = n /\ SaleOf(s)' = new
  BY <1>4, <1>6, <1>7 DEF Checks, Busy, Voids, VoidCalls, CheckoutCalls, SaleOf
<1>11. SessionOK(s)'
  <2>1. ~Busy(s) /\ call[s].step = "none"
    BY <1>1, <1>2, CallKinds
  <2>2. \A k \in Keys : own'[s][k] = NoRows
    BY <1>1, <2>1, NotWritten
  <2>3. Refers(s)'
    BY <1>4, <1>6, <1>7, <1>10 DEF Refers
  <2>4. LocksOK(s)' /\ RowsOK(s)'
    BY <1>4, <1>7, <2>2 DEF LocksOK, RowsOK, Commits
  <2>5. SettlesOK(s)' /\ SeesOK(s)'
    BY <1>4, <1>5, <1>7, <1>10 DEF SettlesOK, SeesOK
  <2> QED BY <2>3, <2>4, <2>5 DEF SessionOK
<1>12. \A o \in Sessions \ {s} :
          /\ call'[o] = call[o] /\ SessionOK(o)
          /\ Checks(o)' <=> Checks(o)
          /\ Busy(o)' <=> Busy(o)
          /\ Busy(o) => call[o].sale \in DOMAIN sales
  BY <1>7 DEF OthersKept, Checks, Busy, Voids, IInv, SessionOK, Refers
<1>13. \A o \in Sessions : SessionOK(o)'
  <2> SUFFICES ASSUME NEW o \in Sessions \ {s} PROVE SessionOK(o)'
    BY <1>11
  <2>1. Busy(o) => SaleOf(o)' = SaleOf(o)
    BY <1>6, <1>12 DEF SaleOf
  <2>2. Busy(o) => Alike(SaleOf(o), SaleOf(o)')
    BY <2>1 DEF Alike
  <2>3. Checks(o) => SaleOf(o)'.status # "COMPLETED" /\ SaleOf(o)'.total = SaleOf(o).total
    BY <1>12, <2>1 DEF SessionOK, SettlesOK, Busy
  <2> QED BY <1>1, <1>2, <1>9, <1>12, <2>2, <2>3, Bystander
<1>14. OneCheckout'
  <2> SUFFICES ASSUME NEW o \in Sessions, NEW q \in Sessions, Checks(o)', Checks(q)',
                      call'[o].sale = call'[q].sale
               PROVE  o = q
    BY DEF OneCheckout
  <2>1. Busy(o)' /\ Busy(q)'
    BY DEF Busy
  <2> QED BY <1>6, <1>10, <1>12, <2>1 DEF IInv, OneCheckout
<1>15. OneCall'
  <2> SUFFICES ASSUME ~overlapped', NEW o \in Sessions, NEW q \in Sessions,
                      Busy(o)', Busy(q)', call'[o].sale = call'[q].sale
               PROVE  o = q
    BY DEF OneCall
  <2> QED BY <1>1, <1>6, <1>10, <1>12 DEF IInv, OneCall
<1>16. StockNonNegative' /\ RunningIsBalance'
  BY <1>1 DEF IInv, StockNonNegative, RunningIsBalance
<1>17. TotalInv'
  <2>1. AmountOf(new.lines) = 0
    BY <1>5, NoLines
  <2> QED BY <1>5, <1>6, <2>1 DEF IInv, TotalInv, AmountOf
<1>18. CompletedIsPaid'
  BY <1>5, <1>6 DEF IInv, CompletedIsPaid, AmountOf
<1>19. JournalInv'
  BY <1>1, <1>5, <1>6 DEF IInv, JournalInv, JournalOK
<1>20. SalesTakeStock'
  <2>1. \A k \in Keys : Taken(NotVoided, k)' = Taken(NotVoided, k)
    BY <1>1, <1>2, TakenByNew DEF new
  <2> QED BY <1>1, <2>1 DEF IInv, SalesTakeStock
<1> QED BY <1>8, <1>9, <1>13, <1>14, <1>15, <1>16, <1>17, <1>18, <1>19, <1>20 DEF IInv

-----------------------------------------------------------------------------
(* The theorems *)

\* The invariant holds at the start.
LEMMA InitIInv == Init => IInv
<1> SUFFICES ASSUME Init PROVE IInv
  OBVIOUS
<1>1. /\ shifts = << >> /\ sales = << >> /\ overlapped = FALSE
      /\ call = [s \in Sessions |-> NoCall]
      /\ own = [s \in Sessions |-> [k \in Keys |-> NoRows]]
      /\ rowLock = [p \in Products |-> NoSession]
      /\ ledger = [k \in Keys |-> AppendRow(EmptyLedger, InitialStock, InitialStock, Today)]
  BY DEF Init
<1>2. \A k \in Keys : /\ ledger[k] \in Ledgers /\ ledger[k].sum = InitialStock
                      /\ ledger[k].running = InitialStock
  BY <1>1, PosAssumption DEF AppendRow, EmptyLedger, Ledgers, Today, NoDate
<1>3. StockTypeOK
  BY <1>1, <1>2 DEF StockTypeOK, OwnRows, NoRows
<1>4. CallsTypeOK
  <2>1. NoCall \in Calls
    BY DEF Calls
  <2>2. call \in [Sessions -> Calls]
    BY <1>1, <2>1
  <2>3. shifts \in Seq(Shift) /\ sales \in Seq(Sale)
    BY <1>1
  <2> QED BY <1>1, <1>3, <2>2, <2>3 DEF CallsTypeOK
<1>5. Places /\ TotalInv /\ CompletedIsPaid /\ JournalInv
  BY <1>1 DEF Places, TotalInv, CompletedIsPaid, JournalInv
<1>6. \A s \in Sessions : SessionOK(s) /\ ~Busy(s) /\ ~Checks(s)
  <2> SUFFICES ASSUME NEW s \in Sessions PROVE SessionOK(s) /\ ~Busy(s) /\ ~Checks(s)
    OBVIOUS
  <2>1. Free(s) /\ call[s].step = "none"
    BY <1>1 DEF Free, NoCall
  <2>2. ~Busy(s) /\ \A k \in Keys : own[s][k] = NoRows
    BY <1>1, <1>4, <2>1, CallKinds
  <2> QED BY <1>4, <2>1, <2>2, IdleOK DEF Busy
<1>7. OneCheckout /\ OneCall
  BY <1>6 DEF OneCheckout, OneCall
<1>8. StockNonNegative /\ RunningIsBalance
  BY <1>2, PosAssumption DEF StockNonNegative, RunningIsBalance
<1>9. SalesTakeStock
  <2>1. \A k \in Keys : Taken(NotVoided, k) = 0
    BY <1>1, SumEmpty DEF Taken, SumFunction
  <2> QED BY <1>2, <2>1, PosAssumption DEF SalesTakeStock
<1> QED BY <1>4, <1>5, <1>6, <1>7, <1>8, <1>9 DEF IInv

\* A session whose state stays is as it was.
LEMMA Unmoved ==
    ASSUME IInv, NEW s \in Sessions, PlacesKept, Places',
           call' = call, sales' = sales, ledger' = ledger, own' = own, rowLock' = rowLock,
           shifts' = shifts, overlapped' = overlapped
    PROVE  SessionOK(s)'
<1>1. SaleOf(s)' = SaleOf(s) /\ SessionOK(s)
  BY DEF SaleOf, IInv
<1>2. Checks(s) => SaleOf(s)'.status # "COMPLETED" /\ SaleOf(s)'.total = SaleOf(s).total
  BY <1>1 DEF SessionOK, SettlesOK
<1>3. Alike(SaleOf(s), SaleOf(s)')
  BY <1>1 DEF Alike
<1> QED BY <1>1, <1>2, <1>3, Bystander DEF IInv

\* Every step keeps the invariant: one step per action.
LEMMA NextIInv == IInv /\ [Next]_vars => IInv'
<1> SUFFICES ASSUME IInv, [Next]_vars PROVE IInv'
  OBVIOUS
<1>1. ASSUME NEW s \in Sessions, ShiftStep(s)
      PROVE  IInv'
  BY <1>1, OpenShiftCheckStep, OpenShiftCreateStep, CloseShiftReadStep, CloseShiftWriteStep
     DEF ShiftStep
<1>2. ASSUME NEW s \in Sessions, StartSale(s)
      PROVE  IInv'
  BY <1>2, CreateSaleStep DEF StartSale
<1>3. ASSUME NEW s \in Sessions, UnroutedStep(s)
      PROVE  IInv'
  BY <1>3, ForceCloseShiftStep, SetHeldStep DEF UnroutedStep, Hold, Resume
<1>4. ASSUME NEW s \in Sessions, Serve(s)
      PROVE  IInv'
  <2>1. CASE LinkRefused(s) \/ AddRefused(s) \/ PayRefused(s) \/ VoidRefused(s)
    BY <2>1, ThrowStep DEF LinkRefused, AddRefused, PayRefused, VoidRefused
  <2>2. CASE NextLink(s) \/ AddRead(s) \/ AddWrite(s) \/ AddCommit(s) \/ PayRead(s) \/ PayCommit(s)
    BY <2>2, NextLinkStep, AddReadStep, AddWriteStep, AddCommitStep, PayReadStep, PayCommitStep
  <2>3. CASE VoidRead(s) \/ VoidWrite(s) \/ VoidCommit(s)
    BY <2>3, VoidReadStep, VoidWriteStep, VoidCommitStep
  <2>4. CASE LockProduct(s) \/ LocksTaken(s) \/ LockRefused(s)
    BY <2>4, LockProductStep, LocksTakenStep, LockRefusedStep
  <2> QED BY <1>4, <2>1, <2>2, <2>3, <2>4 DEF Serve
<1>5. ASSUME NEW s \in Sessions, TxFails(s)
      PROVE  IInv'
  BY <1>5, ThrowStep DEF TxFails
<1>6. ASSUME NEW s \in Sessions, NEW t \in DOMAIN sales, StartVoid(s, t)
      PROVE  IInv'
  BY <1>6, StartVoidStep
<1>7. CASE UNCHANGED vars
  <2>1. /\ ledger' = ledger /\ rowLock' = rowLock /\ own' = own /\ shifts' = shifts
        /\ sales' = sales /\ call' = call /\ overlapped' = overlapped
    BY <1>7 DEF vars, stockVars, posVars
  <2>2. CallsTypeOK' /\ Places'
    BY <2>1 DEF IInv, CallsTypeOK, StockTypeOK, Places
  <2>3. \A s \in Sessions :
           SaleOf(s)' = SaleOf(s) /\ (Checks(s)' <=> Checks(s)) /\ (Voids(s)' <=> Voids(s))
    BY <2>1 DEF SaleOf, Checks, Voids
  <2>4. \A s \in Sessions : SessionOK(s)'
    BY <2>1, <2>2, Unmoved DEF IInv, PlacesKept
  <2>5. OneCheckout' /\ OneCall'
    BY <2>1, <2>3 DEF IInv, OneCheckout, OneCall, Busy
  <2>6. StockNonNegative' /\ RunningIsBalance'
    BY <2>1 DEF IInv, StockNonNegative, RunningIsBalance
  <2>7. TotalInv' /\ CompletedIsPaid'
    BY <2>1 DEF IInv, TotalInv, CompletedIsPaid, AmountOf
  <2>8. JournalInv'
    BY <2>1 DEF IInv, JournalInv
  <2>9. SalesTakeStock'
    BY <2>1 DEF IInv, SalesTakeStock, Taken, QtyOf
  <2> QED BY <2>2, <2>4, <2>5, <2>6, <2>7, <2>8, <2>9 DEF IInv
<1>8. Cashing \subseteq Sessions /\ Voiding \subseteq Sessions /\ Unrouted \subseteq Sessions
  BY PosAssumption
<1> QED BY <1>1, <1>2, <1>3, <1>4, <1>5, <1>6, <1>7, <1>8 DEF Next

\* The invariant holds from the start.
LEMMA Invariance == Spec => []IInv
BY InitIInv, NextIInv, PTL DEF Spec

\* A call is at a step of its kind, in an attempt of the three, for a sale there is.
LEMMA TypesHold == IInv => TypeOK
<1> SUFFICES ASSUME IInv PROVE TypeOK
  OBVIOUS
<1>1. ASSUME NEW s \in Sessions
      PROVE  /\ call[s].step \in Steps
             /\ "attempt" \in DOMAIN call[s] => call[s].attempt \in 1..Attempts
             /\ "sale" \in DOMAIN call[s] => call[s].sale \in DOMAIN sales
  <2>1. call[s] \in Calls /\ (Busy(s) => call[s].sale \in DOMAIN sales)
    BY DEF IInv, CallsTypeOK, SessionOK, Refers
  <2>2. CASE call[s] \in CheckoutCalls
    BY <2>1, <2>2 DEF CheckoutCalls, Steps, Busy, Checks
  <2>3. CASE call[s] \in VoidCalls
    BY <2>1, <2>3 DEF VoidCalls, Steps, Busy, Voids
  <2>4. CASE call[s] \in OpeningCalls
    BY <2>4 DEF OpeningCalls, Steps
  <2>5. CASE call[s] \in ClosingCalls
    BY <2>5 DEF ClosingCalls, Steps
  <2>6. CASE call[s] = NoCall
    BY <2>6 DEF NoCall, Steps
  <2> QED BY <2>1, <2>2, <2>3, <2>4, <2>5, <2>6 DEF Calls
<1> QED BY <1>1 DEF IInv, CallsTypeOK, TypeOK

\* What a sale has posted is its revenue, or nothing.
LEMMA EntriesAmount ==
    ASSUME NEW sale \in Sale, JournalOK(sale)
    PROVE  Standing(sale.journal, "POS_SALE") - Standing(sale.journal, "POS_SALE_REVERSAL")
             = IF sale.status = "COMPLETED" THEN sale.total ELSE 0
<1>1. sale.total \in Nat /\ sale.status \in {"OPEN", "HELD", "COMPLETED", "VOIDED", "CANCELLED"}
  BY DEF Sale
<1>2. CASE sale.journal = << >> /\ sale.status # "COMPLETED"
  <2>1. \A event : Standing(<< >>, event) = 0
    BY Journals
  <2> QED BY <1>2, <2>1
<1>3. CASE sale.status = "COMPLETED"
  <2> DEFINE a == sale.total
             j == <<SaleEntry(a)>>
  <2>1. a \in Nat /\ sale.journal = j
    BY <1>1, <1>3 DEF JournalOK
  <2> HIDE DEF a
  <2>2. Standing(j, "POS_SALE") = a /\ Standing(j, "POS_SALE_REVERSAL") = 0
    BY <2>1, Journals
  <2> HIDE DEF j
  <2>3. Standing(sale.journal, "POS_SALE") - Standing(sale.journal, "POS_SALE_REVERSAL") = a
    BY <2>1, <2>2
  <2> QED BY <1>3, <2>3 DEF a
<1>4. CASE sale.status = "VOIDED" /\ sale.journal # << >>
  <2>1. PICK a \in Nat : sale.journal = <<SaleEntry(a), ReversalEntry(a)>>
    BY <1>4 DEF JournalOK
  <2> DEFINE j == <<SaleEntry(a), ReversalEntry(a)>>
  <2>2. Standing(j, "POS_SALE") = a /\ Standing(j, "POS_SALE_REVERSAL") = a
    BY Journals
  <2> HIDE DEF j
  <2>3. Standing(sale.journal, "POS_SALE") - Standing(sale.journal, "POS_SALE_REVERSAL") = 0
    BY <2>1, <2>2 DEF j
  <2> QED BY <1>4, <2>3
<1> QED BY <1>1, <1>2, <1>3, <1>4 DEF JournalOK

\* The journal agrees with the sales.
LEMMA JournalHolds == IInv => JournalFollowsSales
<1> SUFFICES ASSUME IInv, PeriodOpen, ~overlapped, NEW t \in DOMAIN sales
             PROVE  Standing(sales[t].journal, "POS_SALE")
                      - Standing(sales[t].journal, "POS_SALE_REVERSAL")
                      = IF sales[t].status = "COMPLETED" THEN sales[t].total ELSE 0
  BY DEF JournalFollowsSales
<1>1. sales[t] \in Sale /\ JournalOK(sales[t])
  BY DEF IInv, CallsTypeOK, JournalInv
<1> QED BY <1>1, EntriesAmount

\* Stock is what sales and voids left of it, never negative, however the checkouts and
\* voids of any number of sessions retry, fail and interleave
\* (PosService.addTransactionLines, completeTransaction, voidTransaction).
THEOREM StockIsSold == Spec => []SoldFromStock
<1>1. IInv => SoldFromStock
  BY TypesHold DEF IInv, SoldFromStock
<1> QED BY <1>1, Invariance, PTL

\* A completed sale is paid in full, whoever else touches it (PosService.completeTransaction).
THEOREM SalesArePaid == Spec => []CompletedIsPaid
<1>1. IInv => CompletedIsPaid
  BY DEF IInv
<1> QED BY <1>1, Invariance, PTL

\* Revenue stands in the journal for the completed sales and for no other, as long as
\* no void meets another call for its sale (completeTransaction, voidTransaction).
THEOREM RevenueIsSales == Spec => []JournalFollowsSales
BY Invariance, JournalHolds, PTL

=============================================================================
