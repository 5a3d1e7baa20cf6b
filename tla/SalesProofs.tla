----------------------------- MODULE SalesProofs ------------------------------
(***************************************************************************)
(* That deliveries are within the stock and within the order, that the     *)
(* last one ends the order, and that no more of a sale comes back than was *)
(* sold: for any clerks, products, orders, deliveries and returns.         *)
(*                                                                         *)
(* A delivery checks the order it read before it took its locks, a return  *)
(* the returns that were there before its transaction wrote.  The          *)
(* invariant therefore says of each call under way that, as long as no     *)
(* other call has met it at its document, what it has read is still so     *)
(* (Reads), over the attempts that read the order again.                   *)
(***************************************************************************)
EXTENDS Sales, SumProofs

-----------------------------------------------------------------------------
(* The inductive invariant *)

Documents == {"order", "sale"} \X Nat

ApproveCalls == [step : {"approve"}, document : Documents, order : Nat]
FulfillCalls ==
    [step : {"lock", "retry"}, op : {"fulfill"}, document : Documents, order : Nat,
     seen : SalesOrder, body : Deliveries, lines : Seq(Part), attempt : Nat,
     products : SUBSET Products]
ReturnCalls ==
    [step : {"lock", "retry"}, op : {"return"}, document : Documents, order : Nat,
     seen : SalesOrder, body : ReturnBodies, lines : Seq(Line), attempt : Nat,
     products : SUBSET Products]
GiveCalls == [step : {"saleReturn"}, document : Documents, body : ReturnBodies]
Calls == {NoCall} \cup ApproveCalls \cup FulfillCalls \cup ReturnCalls \cup GiveCalls

Busy(c) == call[c] # NoCall
Fulfills(c) == call[c] \in FulfillCalls
Returns(c) == call[c] \in ReturnCalls

TypesOK ==
    /\ TypeOK
    /\ rowLock \in [Products -> {Nobody} \cup Clerks]
    /\ call \in [Clerks -> Calls]

\* The document of a call is one that is there; the lines of a delivery are of its order.
LinesFit(lines, order) == \A n \in DOMAIN lines : lines[n].line \in DOMAIN order.lines
Refers(c) ==
    /\ call[c].step \in {"approve", "lock", "retry"} =>
          call[c].order \in DOMAIN orders /\ call[c].document = OrderDoc(call[c].order)
    /\ call[c].step = "saleReturn" =>
          call[c].document \in {SaleDoc} \cup {OrderDoc(o) : o \in DOMAIN orders}
    /\ Fulfills(c) =>
          /\ DOMAIN call[c].seen.lines = DOMAIN orders[call[c].order].lines
          /\ LinesFit(call[c].lines, orders[call[c].order])
          /\ LinesFit(call[c].body.lines, orders[call[c].order])
    /\ Returns(c) => call[c].lines = call[c].body.lines

\* The rows of the tables, without the locks.
RowsOK ==
    /\ orders \in Seq(SalesOrder) /\ deliveries \in Seq(Delivery) /\ returns \in Seq(Return)
    /\ \A d \in DOMAIN deliveries : deliveries[d].order \in DOMAIN orders
    /\ \A r \in DOMAIN returns :
          returns[r].document \in {SaleDoc} \cup {OrderDoc(o) : o \in DOMAIN orders}
    /\ ledger \in [Products -> Ledgers]

\* No other call has met c at its document: what c has read is still so.
Alone(c) == call[c].document \notin history
Reads(c) ==
    /\ call[c].step = "approve" => orders[call[c].order].status = "PENDING_APPROVAL"
    /\ Fulfills(c) /\ call[c].step = "lock" => call[c].seen = orders[call[c].order]
    /\ call[c].step = "saleReturn" /\ call[c].document = SaleDoc => Returnable(call[c].body)

\* An order leaves PENDING_APPROVAL for good; what is delivered is of an approved order.
Approved(c) ==
    Fulfills(c) /\ call[c].step = "lock" => orders[call[c].order].status # "PENDING_APPROVAL"

CallOK(c) == Refers(c) /\ Approved(c) /\ (Busy(c) /\ Alone(c) => Reads(c))

OneCall == \A c, d \in Clerks :
    c # d /\ Busy(c) /\ Busy(d) /\ call[c].document = call[d].document
        => call[c].document \in history

PendingIsWhole == \A o \in DOMAIN orders :
    /\ orders[o].lines # << >>
    /\ orders[o].status = "PENDING_APPROVAL" =>
          \A i \in DOMAIN orders[o].lines : orders[o].lines[i].delivered = 0

IInv ==
    /\ TypesOK /\ \A c \in Clerks : CallOK(c)
    /\ OneCall /\ PendingIsWhole
    /\ StockNonNegative /\ RunningIsBalance
    /\ DeliveredWithinOrder /\ DeliveredIsFulfilled /\ ReturnedWithinSold

-----------------------------------------------------------------------------
(* What the operators return *)

\* Lines are of products, and positive.
LEMMA LinesHave ==
    ASSUME NEW lines \in Seq(Line)
    PROVE  /\ ProductsIn(lines) \in SUBSET Products
           /\ ProductsIn(lines) = {lines[i].product : i \in DOMAIN lines}
           /\ \A i \in DOMAIN lines : lines[i].product \in Products /\ lines[i].qty \in Nat \ {0}
<1>1. \A i \in DOMAIN lines : lines[i] \in Line
  OBVIOUS
<1>2. \A i \in DOMAIN lines : lines[i].product \in Products /\ lines[i].qty \in Nat \ {0}
  BY <1>1 DEF Line
<1>3. ProductsIn(lines) = {lines[i].product : i \in DOMAIN lines}
  BY DEF ProductsIn, ToSet
<1> QED BY <1>2, <1>3

\* The quantity of a product is the sum of its lines: of the one line, if there is one.
LEMMA QuantityType ==
    ASSUME NEW lines \in Seq(Line), NEW p
    PROVE  /\ Quantity(lines, p) \in Nat
           /\ p \notin ProductsIn(lines) => Quantity(lines, p) = 0
           /\ \A i \in DOMAIN lines : lines[i].product = p => lines[i].qty <= Quantity(lines, p)
           /\ \A i \in DOMAIN lines :
                 lines[i].product = p /\ (\A j \in DOMAIN lines : lines[j].product = p => j = i)
                     => Quantity(lines, p) = lines[i].qty
<1> DEFINE f == [i \in DOMAIN lines |-> IF lines[i].product = p THEN lines[i].qty ELSE 0]
           D == DOMAIN lines
<1>1. /\ DOMAIN f = D /\ IsFiniteSet(D)
      /\ \A i \in D : f[i] \in Nat /\ (lines[i].product = p => f[i] = lines[i].qty)
                                   /\ (lines[i].product # p => f[i] = 0)
  <2>1. D = 1..Len(lines) /\ Len(lines) \in Nat
    OBVIOUS
  <2>2. IsFiniteSet(D)
    BY <2>1, FS_Interval
  <2> QED BY <2>2, LinesHave
<1>2. Quantity(lines, p) = SumFunctionOnSet(f, D)
  BY <1>1 DEF Quantity, SumFunction
<1>3. \A i \in D : f[i] \in Int
  BY <1>1
<1>4. p \notin ProductsIn(lines) => \A i \in D : f[i] = 0
  BY <1>1, LinesHave
<1> HIDE DEF f, D
<1>5. Quantity(lines, p) \in Nat
  BY <1>1, <1>2, SumNatural
<1>6. p \notin ProductsIn(lines) => Quantity(lines, p) = 0
  BY <1>1, <1>2, <1>4, SumZero
<1>7. ASSUME NEW i \in D, lines[i].product = p
      PROVE  /\ lines[i].qty <= Quantity(lines, p)
             /\ (\A j \in D : lines[j].product = p => j = i) => Quantity(lines, p) = lines[i].qty
  <2>1. IsFiniteSet(D \ {i}) /\ \A j \in D \ {i} : f[j] \in Nat
    BY <1>1, FS_RemoveElement
  <2>2. SumFunctionOnSet(f, D \ {i}) \in Nat
    BY <2>1, SumNatural
  <2>3. SumFunctionOnSet(f, D) = f[i] + SumFunctionOnSet(f, D \ {i})
    BY <1>1, <1>3, SumRemove
  <2>4. (\A j \in D : lines[j].product = p => j = i) => \A j \in D \ {i} : f[j] = 0
    BY <1>1
  <2>5. (\A j \in D : lines[j].product = p => j = i) => SumFunctionOnSet(f, D \ {i}) = 0
    BY <2>1, <2>4, SumZero
  <2>6. f[i] = lines[i].qty /\ f[i] \in Nat
    BY <1>1, <1>7
  <2> QED BY <1>2, <2>2, <2>3, <2>5, <2>6
<1> QED BY <1>5, <1>6, <1>7 DEF D

\* So it is with the parts of a delivery and the lines of its order.
LEMMA OnLineType ==
    ASSUME NEW lines \in Seq(Part), NEW k
    PROVE  /\ OnLine(lines, k) \in Nat
           /\ (\A i \in DOMAIN lines : lines[i].line # k) => OnLine(lines, k) = 0
           /\ \A i \in DOMAIN lines :
                 lines[i].line = k /\ (\A j \in DOMAIN lines : lines[j].line = k => j = i)
                     => OnLine(lines, k) = lines[i].qty
<1> DEFINE f == [i \in DOMAIN lines |-> IF lines[i].line = k THEN lines[i].qty ELSE 0]
           D == DOMAIN lines
<1>1. /\ DOMAIN f = D /\ IsFiniteSet(D)
      /\ \A i \in D : f[i] \in Nat /\ (lines[i].line = k => f[i] = lines[i].qty)
                                   /\ (lines[i].line # k => f[i] = 0)
  <2>1. D = 1..Len(lines) /\ Len(lines) \in Nat
    OBVIOUS
  <2>2. IsFiniteSet(D)
    BY <2>1, FS_Interval
  <2>3. \A i \in D : lines[i] \in Part
    OBVIOUS
  <2> QED BY <2>2, <2>3 DEF Part
<1>2. OnLine(lines, k) = SumFunctionOnSet(f, D)
  BY <1>1 DEF OnLine, SumFunction
<1>3. \A i \in D : f[i] \in Int
  BY <1>1
<1> HIDE DEF f, D
<1>5. OnLine(lines, k) \in Nat
  BY <1>1, <1>2, SumNatural
<1>6. (\A i \in D : lines[i].line # k) => OnLine(lines, k) = 0
  BY <1>1, <1>2, SumZero
<1>7. ASSUME NEW i \in D, lines[i].line = k, \A j \in D : lines[j].line = k => j = i
      PROVE  OnLine(lines, k) = lines[i].qty
  <2>1. IsFiniteSet(D \ {i})
    BY <1>1, FS_RemoveElement
  <2>2. SumFunctionOnSet(f, D) = f[i] + SumFunctionOnSet(f, D \ {i})
    BY <1>1, <1>3, SumRemove
  <2>3. \A j \in D \ {i} : f[j] = 0
    BY <1>1, <1>7
  <2>4. SumFunctionOnSet(f, D \ {i}) = 0
    BY <2>1, <2>3, SumZero
  <2>5. f[i] = lines[i].qty /\ f[i] \in Nat
    BY <1>1, <1>7
  <2> QED BY <1>2, <2>2, <2>4, <2>5
<1> QED BY <1>5, <1>6, <1>7 DEF D

LEMMA DeliveredType ==
    ASSUME NEW lines \in Seq(Part), NEW order, NEW p
    PROVE  Delivered(lines, order, p) \in Nat
<1> DEFINE f == [n \in DOMAIN lines |->
                    IF order.lines[lines[n].line].product = p THEN lines[n].qty ELSE 0]
           D == DOMAIN lines
<1>1. \A i \in D : lines[i] \in Part
  OBVIOUS
<1>2. D = 1..Len(lines) /\ Len(lines) \in Nat
  OBVIOUS
<1>3. DOMAIN f = D /\ IsFiniteSet(D) /\ \A i \in D : f[i] \in Nat
  BY <1>1, <1>2, FS_Interval DEF Part
<1>4. Delivered(lines, order, p) = SumFunctionOnSet(f, D)
  BY <1>3 DEF Delivered, SumFunction
<1> HIDE DEF f, D
<1> QED BY <1>3, <1>4, SumNatural

\* The last of several lines of a product is one of them.
LEMMA LastQtyType ==
    ASSUME NEW lines \in Seq(Line), NEW p \in ProductsIn(lines)
    PROVE  LastQty(lines, p) \in Nat /\ LastQty(lines, p) <= Quantity(lines, p)
<1> DEFINE S == {i \in DOMAIN lines : lines[i].product = p}
<1>1. Len(lines) \in Nat /\ S \subseteq 1..Len(lines) /\ S # {}
  BY LinesHave
<1>2. \E x \in S : \A y \in S : x >= y
  <2> HIDE DEF S
  <2> QED BY <1>1, GreatestNatural
<1>3. Max(S) \in S
  BY <1>2 DEF Max
<1>4. LastQty(lines, p) = lines[Max(S)].qty
  BY DEF LastQty
<1> QED BY <1>3, <1>4, LinesHave, QuantityType

\* What is left of an order is a part of each line that is open.
LEMMA LinesToFulfillType ==
    ASSUME NEW order \in SalesOrder, NEW body \in Deliveries, LinesFit(body.lines, order)
    PROVE  /\ LinesToFulfill(order, body) \in Seq(Part)
           /\ LinesFit(LinesToFulfill(order, body), order)
           /\ ProductsOf(order, LinesToFulfill(order, body)) \in SUBSET Products
<1> DEFINE open == {i \in DOMAIN order.lines : Rest(order.lines[i]) > 0}
           left == SetToSeq(open)
           rest == [n \in 1..Cardinality(open) |->
                       [line |-> left[n], qty |-> Rest(order.lines[left[n]])]]
           lines == LinesToFulfill(order, body)
<1>1. order.lines \in Seq(OrderLine) /\ body.lines \in Seq(Part)
  BY SalesAssumption DEF SalesOrder
<1>2. /\ DOMAIN order.lines = 1..Len(order.lines) /\ Len(order.lines) \in Nat
      /\ \A i \in DOMAIN order.lines : order.lines[i] \in OrderLine
  BY <1>1
<1>3. IsFiniteSet(open) /\ open \subseteq Nat
  <2>1. IsFiniteSet(DOMAIN order.lines)
    BY <1>2, FS_Interval
  <2> QED BY <1>2, <2>1, FS_Subset
<1>4. \A i \in open : i \in DOMAIN order.lines /\ Rest(order.lines[i]) \in Nat \ {0}
  BY <1>2 DEF OrderLine, Rest
<1>5. lines = IF body.lines # << >> THEN body.lines ELSE rest
  BY DEF LinesToFulfill
<1> HIDE DEF open
<1>6. Cardinality(open) \in Nat /\ left \in [1..Cardinality(open) -> open]
  <2>1. PICK n \in Nat : ExistsBijection(1..n, open)
    BY <1>3, FS_NatBijection
  <2>2. Cardinality(open) = n
    BY <2>1, FS_CountingElements
  <2>3. \E f \in [1..Cardinality(open) -> open] : IsInjective(f)
    BY <2>1, <2>2 DEF ExistsBijection, Bijection, Injection, IsInjective
  <2> QED BY <2>2, <2>3 DEF SetToSeq
<1> HIDE DEF left
<1>7. \A n \in 1..Cardinality(open) :
         rest[n] \in Part /\ rest[n].line \in DOMAIN order.lines
  BY <1>3, <1>4, <1>6 DEF Part
<1>8. rest \in Seq(Part) /\ LinesFit(rest, order)
  BY <1>6, <1>7 DEF LinesFit
<1>9. lines \in Seq(Part) /\ LinesFit(lines, order)
  BY <1>1, <1>5, <1>8
<1> HIDE DEF lines
<1>10. ProductsOf(order, lines) \in SUBSET Products
  BY <1>2, <1>9 DEF ProductsOf, ToSet, LinesFit, OrderLine
<1> QED BY <1>9, <1>10 DEF lines

\* What the deliveries of an order say of a line, and the returns for a document of a
\* product, add up row by row.
ToLine(o, i) == [d \in Delivery |-> IF d.order = o THEN OnLine(d.lines, i) ELSE 0]
FromDoc(doc, p) == [r \in Return |-> IF r.document = doc THEN Quantity(r.lines, p) ELSE 0]

LEMMA DeliverySums ==
    ASSUME NEW rows \in Seq(Delivery), NEW o, NEW i
    PROVE  /\ ToLine(o, i) \in [Delivery -> Int]
           /\ \A d \in Delivery : ToLine(o, i)[d] >= 0
           /\ SumFunction([d \in DOMAIN rows |->
                 IF rows[d].order = o THEN OnLine(rows[d].lines, i) ELSE 0]) = Weigh(rows, ToLine(o, i))
<1>1. \A d \in Delivery : OnLine(d.lines, i) \in Nat
  BY OnLineType DEF Delivery
<1>2. ToLine(o, i) \in [Delivery -> Int] /\ \A d \in Delivery : ToLine(o, i)[d] >= 0
  BY <1>1 DEF ToLine
<1>3. \A d \in DOMAIN rows : rows[d] \in Delivery
  OBVIOUS
<1>4. [d \in DOMAIN rows |-> IF rows[d].order = o THEN OnLine(rows[d].lines, i) ELSE 0]
        = [d \in DOMAIN rows |-> ToLine(o, i)[rows[d]]]
  BY <1>3 DEF ToLine
<1> QED BY <1>2, <1>4 DEF Weigh

LEMMA ReturnSums ==
    ASSUME NEW rows \in Seq(Return), NEW doc, NEW p
    PROVE  /\ FromDoc(doc, p) \in [Return -> Int]
           /\ \A r \in Return : FromDoc(doc, p)[r] >= 0
           /\ SumFunction([r \in DOMAIN rows |->
                 IF rows[r].document = doc THEN Quantity(rows[r].lines, p) ELSE 0])
                = Weigh(rows, FromDoc(doc, p))
<1>1. \A r \in Return : Quantity(r.lines, p) \in Nat
  BY QuantityType DEF Return
<1>2. FromDoc(doc, p) \in [Return -> Int] /\ \A r \in Return : FromDoc(doc, p)[r] >= 0
  BY <1>1 DEF FromDoc
<1>3. \A r \in DOMAIN rows : rows[r] \in Return
  OBVIOUS
<1>4. [r \in DOMAIN rows |-> IF rows[r].document = doc THEN Quantity(rows[r].lines, p) ELSE 0]
        = [r \in DOMAIN rows |-> FromDoc(doc, p)[rows[r]]]
  BY <1>3 DEF FromDoc
<1> QED BY <1>2, <1>4 DEF Weigh

\* A call's step says what it is, and what it has.
LEMMA CallKinds ==
    ASSUME NEW r \in Calls
    PROVE  /\ r # NoCall <=> r.step # "none"
           /\ r.step = "approve" <=> r \in ApproveCalls
           /\ r.step \in {"lock", "retry"} <=> r \in FulfillCalls \cup ReturnCalls
           /\ r.step = "saleReturn" <=> r \in GiveCalls
           /\ r \in FulfillCalls <=> r.step \in {"lock", "retry"} /\ r.op = "fulfill"
           /\ r \in ReturnCalls <=> r.step \in {"lock", "retry"} /\ r.op = "return"
           /\ r # NoCall => r.document \in Documents
           /\ r \in FulfillCalls \cup ReturnCalls => r.order \in Nat /\ r.seen \in SalesOrder
<1>1. CASE r = NoCall
  BY <1>1 DEF Calls, ApproveCalls, FulfillCalls, ReturnCalls, GiveCalls, NoCall
<1>2. CASE r \in ApproveCalls
  BY <1>2 DEF Calls, ApproveCalls, FulfillCalls, ReturnCalls, GiveCalls, NoCall
<1>3. CASE r \in FulfillCalls
  BY <1>3 DEF Calls, ApproveCalls, FulfillCalls, ReturnCalls, GiveCalls, NoCall
<1>4. CASE r \in ReturnCalls
  BY <1>4 DEF Calls, ApproveCalls, FulfillCalls, ReturnCalls, GiveCalls, NoCall
<1>5. CASE r \in GiveCalls
  BY <1>5 DEF Calls, ApproveCalls, FulfillCalls, ReturnCalls, GiveCalls, NoCall
<1> QED BY <1>1, <1>2, <1>3, <1>4, <1>5 DEF Calls

\* A row in the ledger.
LEMMA RowType ==
    ASSUME NEW l \in Ledgers, NEW q \in Int, NEW running \in Int, NEW date \in Nat
    PROVE  /\ AppendRow(l, q, running, date) \in Ledgers
           /\ AppendRow(l, q, running, date).sum = l.sum + q
           /\ AppendRow(l, q, running, date).running = running
BY DEF AppendRow, Ledgers

\* The two kinds of documents are different, whatever their numbers.
LEMMA DocumentsDiffer ==
    /\ \A o : OrderDoc(o) # SaleDoc /\ OrderDoc(o) # <<"productTwice", 0>>
              /\ SaleDoc # <<"lineTwice", o>> /\ SaleDoc # <<"byDate", o>>
    /\ \A o, p : /\ OrderDoc(o) = OrderDoc(p) => o = p
                        /\ OrderDoc(o) # <<"lineTwice", p>> /\ OrderDoc(o) # <<"byDate", p>>
                        /\ <<"lineTwice", o>> # <<"byDate", p>>
    /\ \A o : <<"lineTwice", o>> # <<"productTwice", 0>> /\ <<"byDate", o>> # <<"productTwice", 0>>
    /\ SaleDoc # <<"productTwice", 0>>
    /\ SaleDoc \in Documents /\ \A o \in Nat : OrderDoc(o) \in Documents
BY DEF OrderDoc, SaleDoc, Documents

-----------------------------------------------------------------------------
(* Steps of calls *)

\* What a write of the call c leaves to the calls at other documents.
Keeps(c) ==
    /\ \A o \in DOMAIN orders :
          /\ o \in DOMAIN orders'
          /\ DOMAIN orders'[o].lines = DOMAIN orders[o].lines
          /\ orders[o].status # "PENDING_APPROVAL" => orders'[o].status # "PENDING_APPROVAL"
          /\ OrderDoc(o) # call[c].document => orders'[o] = orders[o]
    /\ call[c].document # SaleDoc => \A p : Returned(SaleDoc, p)' = Returned(SaleDoc, p)

\* They read what they read.
LEMMA OthersRead ==
    ASSUME IInv, NEW c \in Clerks, NEW d \in Clerks, c # d, Busy(c), Busy(d),
           call'[d] = call[d], history \subseteq history', Keeps(c)
    PROVE  CallOK(d)'
<1>1. call[d] \in Calls /\ CallOK(d) /\ call[c] \in Calls
  BY DEF IInv, TypesOK
<1>2. Refers(d)'
  <2>1. call[d].step \in {"approve", "lock", "retry"} => call[d].order \in DOMAIN orders'
    BY <1>1 DEF CallOK, Refers, Keeps
  <2>2. \A o \in DOMAIN orders : o \in DOMAIN orders' /\ DOMAIN orders'[o].lines = DOMAIN orders[o].lines
    BY DEF Keeps
  <2> QED BY <1>1, <2>1, <2>2, CallKinds DEF CallOK, Refers, Fulfills, Returns, LinesFit
<1>3. Approved(d)'
  BY <1>1, CallKinds DEF CallOK, Approved, Refers, Fulfills, Keeps
<1>4. ASSUME (Busy(d) /\ Alone(d))' PROVE Reads(d)'
  <2>1. Alone(d) /\ Reads(d)
    BY <1>1, <1>4 DEF Alone, CallOK
  <2>2. call[d].document # call[c].document
    BY <2>1 DEF IInv, OneCall, Alone
  <2>3. call[d].step \in {"approve", "lock", "retry"} =>
           orders'[call[d].order] = orders[call[d].order]
    BY <1>1, <2>2 DEF CallOK, Refers, Keeps
  <2>4. call[d].document = SaleDoc => \A p : Returned(SaleDoc, p)' = Returned(SaleDoc, p)
    BY <2>2 DEF Keeps
  <2> QED BY <1>1, <2>1, <2>3, <2>4, CallKinds DEF Reads, Fulfills, Returnable
<1> QED BY <1>2, <1>3, <1>4 DEF CallOK

\* A call ends: its locks go, and nobody else notices.
LEMMA EndStep ==
    ASSUME IInv, NEW c \in Clerks, Busy(c), Ends(c), history \subseteq history',
           RowsOK', Keeps(c)
    PROVE  TypesOK' /\ (\A d \in Clerks : CallOK(d)') /\ OneCall'
<1>1. /\ call' \in [Clerks -> Calls] /\ call'[c] = NoCall
      /\ \A d \in Clerks : d # c => call'[d] = call[d]
  BY DEF IInv, TypesOK, Ends, Calls
<1>2. rowLock' \in [Products -> {Nobody} \cup Clerks]
  BY DEF IInv, TypesOK, Ends, Unlocks
<1>3. \A p \in Products : rowLock'[p] \in {Nobody} \cup {d \in Clerks : call'[d].step # "none"}
  <2> TAKE p \in Products
  <2>1. rowLock[p] \in {Nobody} \cup {d \in Clerks : call[d].step # "none"}
    BY DEF IInv, TypesOK, TypeOK
  <2> QED BY <1>1, <2>1 DEF Ends, Unlocks
<1>4. TypesOK'
  BY <1>1, <1>2, <1>3 DEF TypesOK, TypeOK, RowsOK
<1>5. \A d \in Clerks : ~Busy(d)' => CallOK(d)'
  BY DEF CallOK, Refers, Approved, Busy, NoCall, Fulfills, Returns, FulfillCalls, ReturnCalls
<1>6. ASSUME NEW d \in Clerks, Busy(d)' PROVE CallOK(d)'
  BY <1>1, <1>6, OthersRead DEF Busy
<1>7. OneCall'
  BY <1>1 DEF IInv, OneCall, Busy
<1> QED BY <1>4, <1>5, <1>6, <1>7

\* Nothing but the calls, the locks and the history changes.
Untouched == UNCHANGED <<orders, deliveries, returns, ledger>>

LEMMA UntouchedKeeps ==
    ASSUME IInv, Untouched, NEW c
    PROVE  Keeps(c) /\ RowsOK'
BY DEF Untouched, Keeps, Returned, IInv, TypesOK, TypeOK, RowsOK

LEMMA UntouchedHolds ==
    ASSUME IInv, Untouched, history \subseteq history'
    PROVE  /\ PendingIsWhole' /\ StockNonNegative' /\ RunningIsBalance'
           /\ DeliveredWithinOrder' /\ DeliveredIsFulfilled' /\ ReturnedWithinSold'
<1>1. PendingIsWhole' /\ StockNonNegative' /\ RunningIsBalance'
  BY DEF IInv, Untouched, PendingIsWhole, StockNonNegative, RunningIsBalance
<1>2. \A o : Odd(o) => Odd(o)'
  BY DEF Odd
<1>3. \A o, i : DeliveredTo(o, i)' = DeliveredTo(o, i)
  BY DEF Untouched, DeliveredTo
<1>4. \A p : Returned(SaleDoc, p)' = Returned(SaleDoc, p)
  BY DEF Untouched, Returned
<1>5. DeliveredWithinOrder' /\ DeliveredIsFulfilled'
  BY <1>2, <1>3 DEF IInv, Untouched, DeliveredWithinOrder, DeliveredIsFulfilled
<1>6. ReturnedWithinSold'
  BY <1>4 DEF IInv, ReturnedWithinSold
<1> QED BY <1>1, <1>5, <1>6

\* A call ends without having written.
LEMMA EndsUnwritten ==
    ASSUME IInv, NEW c \in Clerks, Busy(c), Ends(c), Untouched, UNCHANGED history
    PROVE  IInv'
<1>1. history \subseteq history'
  OBVIOUS
<1>2. TypesOK' /\ (\A d \in Clerks : CallOK(d)') /\ OneCall'
  BY <1>1, EndStep, UntouchedKeeps
<1> QED BY <1>1, <1>2, UntouchedHolds DEF IInv

\* A call begins, with what it has read.
LEMMA BeginStep ==
    ASSUME IInv, NEW c \in Clerks, Free(c), NEW r \in Calls, r # NoCall, Begins(c, r),
           Untouched, UNCHANGED rowLock, CallOK(c)'
    PROVE  IInv'
<1>1. /\ call' \in [Clerks -> Calls] /\ call'[c] = r
      /\ \A d \in Clerks : d # c => call'[d] = call[d]
      /\ history \subseteq history'
  BY DEF IInv, TypesOK, Begins
<1>2. r.step # "none" /\ call[c].step = "none"
  BY CallKinds DEF Free
<1>3. TypesOK'
  <2>1. \A p \in Products : rowLock'[p] \in {Nobody} \cup {d \in Clerks : call'[d].step # "none"}
    BY <1>1, <1>2 DEF IInv, TypesOK, TypeOK
  <2> QED BY <1>1, <2>1 DEF IInv, TypesOK, TypeOK, Untouched
<1>4. ASSUME NEW d \in Clerks, d # c PROVE CallOK(d)'
  BY <1>1, <1>4 DEF IInv, CallOK, Refers, Approved, Reads, Alone, Busy, Fulfills, Returns,
        LinesFit, Returnable, Returned, Untouched
<1>5. OneCall'
  <2> SUFFICES ASSUME NEW d \in Clerks, NEW e \in Clerks, d # e, Busy(d)', Busy(e)',
                      call'[d].document = call'[e].document
               PROVE  call'[d].document \in history'
    BY DEF OneCall
  <2>1. \A x \in Clerks : x # c /\ Busy(x)' => Busy(x) /\ ~Free(x)
    BY <1>1, CallKinds DEF IInv, TypesOK, Busy, Free
  <2>2. CASE d # c /\ e # c
    BY <1>1, <2>1, <2>2 DEF IInv, OneCall
  <2>3. CASE d = c \/ e = c
    <3>1. \E x \in Clerks \ {c} : ~Free(x) /\ call[x].document = r.document
      BY <1>1, <2>1, <2>3
    <3> QED BY <1>1, <2>3, <3>1 DEF Begins
  <2> QED BY <2>2, <2>3
<1> QED BY <1>1, <1>3, <1>4, <1>5, UntouchedHolds DEF IInv

\* A call goes on to another attempt, or to its locks.
LEMMA GoesOn ==
    ASSUME IInv, NEW c \in Clerks, Busy(c), NEW r \in Calls, r # NoCall,
           r.document = call[c].document, call' = [call EXCEPT ![c] = r],
           Untouched, UNCHANGED history, Unlocks(c) \/ UNCHANGED rowLock, CallOK(c)'
    PROVE  IInv'
<1>1. /\ call' \in [Clerks -> Calls] /\ call'[c] = r
      /\ \A d \in Clerks : d # c => call'[d] = call[d]
      /\ history \subseteq history'
  BY DEF IInv, TypesOK
<1>2. r.step # "none"
  BY CallKinds
<1>3. TypesOK'
  <2>1. rowLock' \in [Products -> {Nobody} \cup Clerks]
    BY DEF IInv, TypesOK, Unlocks
  <2>2. \A p \in Products : rowLock'[p] \in {Nobody} \cup {d \in Clerks : call'[d].step # "none"}
    <3> TAKE p \in Products
    <3>1. rowLock[p] \in {Nobody} \cup {d \in Clerks : call[d].step # "none"}
      BY DEF IInv, TypesOK, TypeOK
    <3> QED BY <1>1, <1>2, <3>1 DEF Unlocks
  <2> QED BY <1>1, <2>1, <2>2 DEF IInv, TypesOK, TypeOK, Untouched
<1>4. ASSUME NEW d \in Clerks, d # c PROVE CallOK(d)'
  BY <1>1, <1>4 DEF IInv, CallOK, Refers, Approved, Reads, Alone, Busy, Fulfills, Returns,
        LinesFit, Returnable, Returned, Untouched
<1>5. OneCall'
  BY <1>1 DEF IInv, OneCall, Busy
<1> QED BY <1>1, <1>3, <1>4, <1>5, UntouchedHolds DEF IInv

-----------------------------------------------------------------------------
(* Reading and locking *)

LEMMA ApproveReadStep ==
    ASSUME IInv, NEW c \in Clerks, NEW o \in DOMAIN orders, NEW u, ApproveRead(c, o, u)
    PROVE  IInv'
<1> DEFINE r == [step |-> "approve", document |-> OrderDoc(o), order |-> o]
<1>1. Free(c) /\ Begins(c, r) /\ Untouched /\ UNCHANGED rowLock
      /\ orders[o].status = "PENDING_APPROVAL"
  BY DEF ApproveRead, Untouched
<1>2. o \in Nat
  BY DEF IInv, TypesOK, TypeOK
<1>3. r \in ApproveCalls /\ r \in Calls /\ r # NoCall
  BY <1>2, DocumentsDiffer DEF Calls, ApproveCalls, NoCall
<1>4. call'[c] = r
  BY <1>1 DEF IInv, TypesOK, Begins
<1>5. CallOK(c)'
  BY <1>1, <1>3, <1>4, CallKinds DEF CallOK, Refers, Approved, Reads, Fulfills, Returns, Untouched
<1> HIDE DEF r
<1> QED BY <1>1, <1>3, <1>5, BeginStep

LEMMA FulfillReadStep ==
    ASSUME IInv, NEW c \in Clerks, NEW o \in DOMAIN orders, NEW body \in Deliveries,
           FulfillRead(c, o, body)
    PROVE  IInv'
<1> DEFINE lines == LinesToFulfill(orders[o], body)
           r == [step |-> "lock", op |-> "fulfill", document |-> OrderDoc(o), order |-> o,
                 seen |-> orders[o], body |-> body, lines |-> lines, attempt |-> 1,
                 products |-> ProductsOf(orders[o], lines)]
<1>1. /\ Free(c) /\ Begins(c, r) /\ Untouched /\ UNCHANGED rowLock
      /\ orders[o].status \in {"APPROVED", "FULFILLED"} /\ LinesFit(body.lines, orders[o])
  BY DEF FulfillRead, Untouched, LinesFit, ToSet
<1>2. o \in Nat /\ orders[o] \in SalesOrder
  BY DEF IInv, TypesOK, TypeOK
<1>3. /\ lines \in Seq(Part) /\ LinesFit(lines, orders[o])
      /\ ProductsOf(orders[o], lines) \in SUBSET Products
  BY <1>1, <1>2, LinesToFulfillType
<1> HIDE DEF lines
<1>4. r \in FulfillCalls /\ r \in Calls /\ r # NoCall
  BY <1>2, <1>3, DocumentsDiffer DEF Calls, FulfillCalls, NoCall
<1>5. call'[c] = r
  BY <1>1 DEF IInv, TypesOK, Begins
<1>6. CallOK(c)'
  BY <1>1, <1>3, <1>4, <1>5, CallKinds
     DEF CallOK, Refers, Approved, Reads, Fulfills, Returns, Untouched, LinesFit
<1> HIDE DEF r
<1> QED BY <1>1, <1>4, <1>6, BeginStep

LEMMA ReturnToOrderReadStep ==
    ASSUME IInv, NEW c \in Clerks, NEW o \in DOMAIN orders, NEW body \in ReturnBodies,
           ReturnToOrderRead(c, o, body)
    PROVE  IInv'
<1> DEFINE r == [step |-> "lock", op |-> "return", document |-> OrderDoc(o), order |-> o,
                 seen |-> orders[o], body |-> body, lines |-> body.lines, attempt |-> 1,
                 products |-> ProductsIn(body.lines)]
<1>1. Free(c) /\ Begins(c, r) /\ Untouched /\ UNCHANGED rowLock
  BY DEF ReturnToOrderRead, Untouched
<1>2. /\ o \in Nat /\ orders[o] \in SalesOrder
      /\ body.lines \in Seq(Line) /\ ProductsIn(body.lines) \in SUBSET Products
  BY SalesAssumption, LinesHave DEF IInv, TypesOK, TypeOK
<1>3. r \in ReturnCalls /\ r \in Calls /\ r # NoCall
  BY <1>2, DocumentsDiffer DEF Calls, ReturnCalls, NoCall
<1>4. call'[c] = r
  BY <1>1 DEF IInv, TypesOK, Begins
<1>5. CallOK(c)'
  BY <1>1, <1>3, <1>4, CallKinds DEF CallOK, Refers, Approved, Reads, Fulfills, Returns, Untouched
<1> HIDE DEF r
<1> QED BY <1>1, <1>3, <1>5, BeginStep

LEMMA ReturnSaleReadStep ==
    ASSUME IInv, NEW c \in Clerks, NEW body \in ReturnBodies, ReturnSaleRead(c, body)
    PROVE  IInv'
<1> DEFINE r == [step |-> "saleReturn", document |-> SaleDoc, body |-> body]
<1>1. Free(c) /\ Begins(c, r) /\ Untouched /\ UNCHANGED rowLock /\ Returnable(body)
  BY DEF ReturnSaleRead, Untouched
<1>2. r \in GiveCalls /\ r \in Calls /\ r # NoCall
  BY DocumentsDiffer DEF Calls, GiveCalls, NoCall
<1>3. call'[c] = r
  BY <1>1 DEF IInv, TypesOK, Begins
<1>4. CallOK(c)'
  BY <1>1, <1>2, <1>3, CallKinds
     DEF CallOK, Refers, Approved, Reads, Fulfills, Returns, Untouched, Returnable, Returned
<1> HIDE DEF r
<1> QED BY <1>1, <1>2, <1>4, BeginStep

LEMMA ReturnOrderedReadStep ==
    ASSUME IInv, NEW c \in Clerks, NEW o \in DOMAIN orders, NEW body \in ReturnBodies,
           ReturnOrderedRead(c, o, body)
    PROVE  IInv'
<1> DEFINE r == [step |-> "saleReturn", document |-> OrderDoc(o), body |-> body]
<1>1. Free(c) /\ Begins(c, r) /\ Untouched /\ UNCHANGED rowLock
  BY DEF ReturnOrderedRead, Untouched
<1>2. o \in Nat
  BY DEF IInv, TypesOK, TypeOK
<1>3. r \in GiveCalls /\ r \in Calls /\ r # NoCall
  BY <1>2, DocumentsDiffer DEF Calls, GiveCalls, NoCall
<1>4. call'[c] = r
  BY <1>1 DEF IInv, TypesOK, Begins
<1>5. CallOK(c)'
  BY <1>1, <1>3, <1>4, CallKinds, DocumentsDiffer
     DEF CallOK, Refers, Approved, Reads, Fulfills, Returns, Untouched
<1> HIDE DEF r
<1> QED BY <1>1, <1>3, <1>5, BeginStep

\* A lock is taken by a call under way.
LEMMA LockNextStep ==
    ASSUME IInv, NEW c \in Clerks, LockNext(c)
    PROVE  IInv'
<1>1. Untouched /\ UNCHANGED <<call, history>> /\ call[c].step = "lock"
  BY DEF LockNext, Untouched, In
<1>2. PICK p : rowLock' = [rowLock EXCEPT ![p] = c]
  BY DEF LockNext
<1>3. TypesOK'
  <2>1. rowLock' \in [Products -> {Nobody} \cup Clerks]
    BY <1>2 DEF IInv, TypesOK
  <2>2. \A q \in Products : rowLock'[q] \in {Nobody} \cup {d \in Clerks : call'[d].step # "none"}
    BY <1>1, <1>2 DEF IInv, TypesOK, TypeOK
  <2> QED BY <1>1, <2>1, <2>2 DEF IInv, TypesOK, TypeOK, Untouched
<1>4. (\A d \in Clerks : CallOK(d)') /\ OneCall'
  BY <1>1 DEF IInv, CallOK, Refers, Approved, Reads, Alone, Busy, Fulfills, Returns, LinesFit,
        Returnable, Returned, Untouched, OneCall
<1> QED BY <1>1, <1>3, <1>4, UntouchedHolds DEF IInv

\* Another attempt of the same call.
LEMMA Again ==
    ASSUME NEW x
    PROVE  LET r == [x EXCEPT !.step = "retry", !.attempt = x.attempt + 1]
           IN  /\ x \in FulfillCalls => r \in FulfillCalls
               /\ x \in ReturnCalls => r \in ReturnCalls
<1> DEFINE r == [x EXCEPT !.step = "retry", !.attempt = x.attempt + 1]
<1>1. ASSUME x \in FulfillCalls PROVE r \in FulfillCalls
  <2>1. x.attempt + 1 \in Nat
    BY <1>1 DEF FulfillCalls
  <2> QED BY <1>1, <2>1 DEF FulfillCalls
<1>2. ASSUME x \in ReturnCalls PROVE r \in ReturnCalls
  <2>1. x.attempt + 1 \in Nat
    BY <1>2 DEF ReturnCalls
  <2> QED BY <1>2, <2>1 DEF ReturnCalls
<1> QED BY <1>1, <1>2

\* NOWAIT: all locks go, and the next attempt will read the order again.
LEMMA LockFailsStep ==
    ASSUME IInv, NEW c \in Clerks, LockFails(c)
    PROVE  IInv'
<1>1. Untouched /\ UNCHANGED history /\ call[c].step = "lock" /\ Unlocks(c)
  BY DEF LockFails, Untouched, In, Ends
<1>2. call[c] \in Calls /\ Busy(c) /\ CallOK(c)
      /\ (Fulfills(c) \/ Returns(c))
  BY <1>1, CallKinds DEF IInv, TypesOK, Busy, Fulfills, Returns
<1>3. CASE Ends(c)
  BY <1>1, <1>2, <1>3, EndsUnwritten
<1>4. CASE call' = [call EXCEPT ![c] =
                [call[c] EXCEPT !.step = "retry", !.attempt = call[c].attempt + 1]]
  <2> DEFINE r == [call[c] EXCEPT !.step = "retry", !.attempt = call[c].attempt + 1]
  <2>1. Fulfills(c) => r \in FulfillCalls
    BY Again DEF Fulfills
  <2>2. Returns(c) => r \in ReturnCalls
    BY Again DEF Returns
  <2>3. r \in Calls
    BY <1>2, <2>1, <2>2 DEF Calls
  <2>4. /\ r.step = "retry" /\ r.document = call[c].document /\ r.order = call[c].order
        /\ r.lines = call[c].lines /\ r.body = call[c].body /\ r.seen = call[c].seen /\ r.op = call[c].op
    BY <1>2, <2>1, <2>2 DEF Fulfills, Returns, FulfillCalls, ReturnCalls
  <2>5. call'[c] = r
    BY <1>4 DEF IInv, TypesOK
  <2> HIDE DEF r
  <2>6. r # NoCall
    BY <2>4 DEF NoCall
  <2>7. CallOK(c)'
    BY <1>1, <1>2, <2>3, <2>4, <2>5, CallKinds
       DEF CallOK, Refers, Approved, Reads, Fulfills, Returns, Untouched, LinesFit
  <2>8. call' = [call EXCEPT ![c] = r]
    BY <1>4 DEF r
  <2> QED BY <1>1, <1>2, <2>3, <2>4, <2>6, <2>7, <2>8, GoesOn
<1> QED BY <1>3, <1>4 DEF LockFails

\* The next attempt has read the order as it is.
LEMMA RetryStep ==
    ASSUME IInv, NEW c \in Clerks, Retry(c)
    PROVE  IInv'
<1> DEFINE o == call[c].order
           lines == IF call[c].op = "return" THEN call[c].lines
                    ELSE LinesToFulfill(orders[o], call[c].body)
           products == IF call[c].op = "return" THEN call[c].products
                       ELSE ProductsOf(orders[o], lines)
           r == [call[c] EXCEPT !.step = "lock", !.seen = orders[o],
                                !.lines = lines, !.products = products]
<1>1. Untouched /\ UNCHANGED history /\ call[c].step = "retry"
  BY DEF Retry, Untouched, In
<1>2. call[c] \in Calls /\ Busy(c) /\ CallOK(c) /\ (Fulfills(c) \/ Returns(c))
  BY <1>1, CallKinds DEF IInv, TypesOK, Busy, Fulfills, Returns
<1>3. o \in DOMAIN orders /\ orders[o] \in SalesOrder
  BY <1>1, <1>2 DEF IInv, TypesOK, TypeOK, CallOK, Refers
<1>4. CASE Ends(c)
  BY <1>1, <1>2, <1>4, EndsUnwritten
<1>5. CASE /\ ~(call[c].op = "fulfill" /\ orders[o].status \notin {"APPROVED", "FULFILLED"})
           /\ call' = [call EXCEPT ![c] = r] /\ UNCHANGED rowLock
  <2>1. Fulfills(c) => /\ r \in FulfillCalls /\ LinesFit(lines, orders[o])
                       /\ orders[o].status # "PENDING_APPROVAL"
    <3> SUFFICES ASSUME Fulfills(c)
                 PROVE  r \in FulfillCalls /\ LinesFit(lines, orders[o])
                        /\ orders[o].status # "PENDING_APPROVAL"
      OBVIOUS
    <3>1. call[c] \in FulfillCalls /\ call[c].op = "fulfill" /\ LinesFit(call[c].body.lines, orders[o])
      BY <1>2 DEF CallOK, Refers, Fulfills, FulfillCalls
    <3>2. lines = LinesToFulfill(orders[o], call[c].body) /\ products = ProductsOf(orders[o], lines)
      BY <3>1
    <3>3. call[c].body \in Deliveries
      BY <3>1 DEF FulfillCalls
    <3>4. lines \in Seq(Part) /\ LinesFit(lines, orders[o]) /\ products \in SUBSET Products
      BY <1>3, <3>1, <3>2, <3>3, LinesToFulfillType
    <3> HIDE DEF lines, products
    <3> QED BY <1>3, <1>5, <3>1, <3>4 DEF FulfillCalls
  <2>2. Returns(c) => r \in ReturnCalls /\ lines = call[c].lines
    BY <1>3 DEF Returns, ReturnCalls
  <2> HIDE DEF lines, products
  <2>3. r \in Calls
    BY <1>2, <2>1, <2>2 DEF Calls
  <2>4. /\ r.step = "lock" /\ r.document = call[c].document /\ r.order = o
        /\ r.lines = lines /\ r.body = call[c].body /\ r.seen = orders[o] /\ r.op = call[c].op
    BY <1>2, <2>1, <2>2 DEF Fulfills, Returns, FulfillCalls, ReturnCalls
  <2>5. call'[c] = r
    BY <1>5 DEF IInv, TypesOK
  <2> HIDE DEF r
  <2>6. r # NoCall
    BY <2>4 DEF NoCall
  <2>7. CallOK(c)'
    BY <1>1, <1>2, <1>3, <2>1, <2>2, <2>3, <2>4, <2>5, CallKinds
       DEF CallOK, Refers, Approved, Reads, Fulfills, Returns, Untouched, LinesFit
  <2> QED BY <1>1, <1>2, <1>5, <2>3, <2>4, <2>6, <2>7, GoesOn
<1> QED BY <1>4, <1>5 DEF Retry

\* What is refused or fails leaves nothing.
LEMMA RefusedStep ==
    ASSUME IInv, NEW c \in Clerks, FulfillRefused(c) \/ ReturnToOrderRefused(c) \/ CallFails(c)
    PROVE  IInv'
<1>1. Untouched /\ UNCHANGED history /\ Ends(c)
  BY DEF FulfillRefused, ReturnToOrderRefused, CallFails, Untouched
<1>2. call[c] \in Calls
  BY DEF IInv, TypesOK
<1>3. call[c].step # "none"
  BY DEF FulfillRefused, ReturnToOrderRefused, CallFails, Locked, In, Free
<1>4. Busy(c)
  BY <1>2, <1>3, CallKinds DEF Busy
<1> QED BY <1>1, <1>4, EndsUnwritten

-----------------------------------------------------------------------------
(* Orders *)

\* A new order has nothing delivered, and no call is at it.
LEMMA CreateStep ==
    ASSUME IInv, NEW c \in Clerks, NEW customer, NEW branch, NEW body \in OrderBodies,
           Create(c, customer, branch, body)
    PROVE  IInv'
<1> DEFINE row == [status |-> "PENDING_APPROVAL", creator |-> customer,
                   lines |-> [i \in DOMAIN body |->
                      [product |-> body[i].product, ordered |-> body[i].qty, delivered |-> 0]]]
<1>1. /\ orders' = Append(orders, row) /\ customer \in Users
      /\ UNCHANGED <<deliveries, returns, ledger, rowLock, call, history>>
  BY DEF Create
<1>2. /\ body \in Seq(Line) /\ body # << >>
      /\ \A i \in DOMAIN body : body[i] \in Line
  BY SalesAssumption
<1>3. /\ row \in SalesOrder /\ row.lines # << >> /\ row.status = "PENDING_APPROVAL"
      /\ \A i \in DOMAIN row.lines : row.lines[i].delivered = 0 /\ row.lines[i].ordered \in Nat \ {0}
      /\ 1 \in DOMAIN row.lines
  <2>1. DOMAIN body = 1..Len(body) /\ Len(body) \in Nat \ {0}
    BY <1>2
  <2>2. \A i \in DOMAIN body :
           [product |-> body[i].product, ordered |-> body[i].qty, delivered |-> 0] \in OrderLine
    BY <1>2 DEF Line, OrderLine
  <2>3. row.lines \in Seq(OrderLine) /\ Len(row.lines) = Len(body)
    BY <2>1, <2>2
  <2> QED BY <1>1, <1>2, <2>1, <2>2, <2>3 DEF SalesOrder, Line
<1> HIDE DEF row
<1>4. PICK n \in Nat : n = Len(orders) + 1
  BY DEF IInv, TypesOK, TypeOK
<1>5. /\ orders \in Seq(SalesOrder) /\ orders' \in Seq(SalesOrder)
      /\ DOMAIN orders' = DOMAIN orders \cup {n} /\ n \notin DOMAIN orders
      /\ orders'[n] = row /\ \A o \in DOMAIN orders : orders'[o] = orders[o]
  BY <1>1, <1>3, <1>4 DEF IInv, TypesOK, TypeOK
<1>6. TypesOK'
  <2>1. RowsOK'
    BY <1>1, <1>5 DEF RowsOK, IInv, TypesOK, TypeOK
  <2> QED BY <1>1, <2>1 DEF RowsOK, IInv, TypesOK, TypeOK
<1>7. \A d \in Clerks : CallOK(d)'
  BY <1>1, <1>5, CallKinds DEF IInv, TypesOK, CallOK, Refers, Approved, Reads, Alone, Busy, Fulfills, Returns,
       LinesFit, Returnable, Returned
<1>8. OneCall' /\ PendingIsWhole' /\ StockNonNegative' /\ RunningIsBalance'
  BY <1>1, <1>3, <1>5 DEF IInv, OneCall, Busy, PendingIsWhole, StockNonNegative, RunningIsBalance
<1>9. \A o, i : DeliveredTo(o, i)' = DeliveredTo(o, i)
  BY <1>1 DEF DeliveredTo
<1>10. \A i : DeliveredTo(n, i) = 0
  <2> TAKE i
  <2>1. /\ deliveries \in Seq(Delivery)
        /\ \A d \in DOMAIN deliveries : deliveries[d] \in Delivery /\ deliveries[d].order # n
    BY <1>5 DEF IInv, TypesOK, TypeOK
  <2>2. \A d \in DOMAIN deliveries : ToLine(n, i)[deliveries[d]] = 0
    BY <2>1 DEF ToLine
  <2>3. ToLine(n, i) \in [Delivery -> Int] /\ DeliveredTo(n, i) = Weigh(deliveries, ToLine(n, i))
    BY <2>1, DeliverySums DEF DeliveredTo
  <2> QED BY <2>1, <2>2, <2>3, WeighType
<1>11. \A o : Odd(o)' = Odd(o)
  BY <1>1 DEF Odd
<1>12. DeliveredWithinOrder'
  <2>1. \A i \in DOMAIN row.lines : row.lines[i].delivered <= row.lines[i].ordered
    BY <1>3
  <2> QED BY <1>3, <1>5, <1>9, <1>10, <1>11, <2>1 DEF IInv, DeliveredWithinOrder
<1>13. DeliveredIsFulfilled'
  <2>1. Rest(row.lines[1]) # 0
    BY <1>3 DEF Rest
  <2> QED BY <1>3, <1>5, <1>11, <2>1 DEF IInv, DeliveredIsFulfilled
<1>14. ReturnedWithinSold'
  BY <1>1 DEF IInv, ReturnedWithinSold, Returned
<1> QED BY <1>6, <1>7, <1>8, <1>12, <1>13, <1>14 DEF IInv

\* The order that is approved has nothing delivered, unless calls met at it.
LEMMA ApproveStep ==
    ASSUME IInv, NEW c \in Clerks, Approve(c)
    PROVE  IInv'
<1>1. /\ call[c].step = "approve" /\ Ends(c)
      /\ orders' = [orders EXCEPT ![call[c].order].status = "APPROVED"]
      /\ UNCHANGED <<deliveries, returns, ledger, history>>
  BY DEF Approve, In
<1>2. call[c] \in Calls /\ Busy(c) /\ CallOK(c)
  BY <1>1, CallKinds DEF IInv, TypesOK, Busy
<1>3. PICK o : o = call[c].order /\ o \in DOMAIN orders /\ call[c].document = OrderDoc(o)
  BY <1>1, <1>2 DEF CallOK, Refers
<1>4. PICK x : x = [orders[o] EXCEPT !.status = "APPROVED"]
  OBVIOUS
<1>5. /\ orders \in Seq(SalesOrder) /\ orders[o] \in SalesOrder
  BY <1>3 DEF IInv, TypesOK, TypeOK
<1>6. x \in SalesOrder /\ x.lines = orders[o].lines /\ x.status = "APPROVED"
  BY <1>4, <1>5 DEF SalesOrder
<1>7. orders' = [orders EXCEPT ![o] = x]
  BY <1>1, <1>3, <1>4, <1>5
<1>8. /\ orders' \in Seq(SalesOrder) /\ DOMAIN orders' = DOMAIN orders
      /\ orders'[o] = x /\ \A k \in DOMAIN orders : k # o => orders'[k] = orders[k]
  BY <1>3, <1>5, <1>6, <1>7
<1>9. RowsOK'
  BY <1>1, <1>8 DEF RowsOK, IInv, TypesOK, TypeOK
<1>10. Keeps(c)
  <2>1. \A p : Returned(SaleDoc, p)' = Returned(SaleDoc, p)
    BY <1>1 DEF Returned
  <2> QED BY <1>3, <1>6, <1>8, <2>1, DocumentsDiffer DEF Keeps
<1>11. TypesOK' /\ (\A d \in Clerks : CallOK(d)') /\ OneCall'
  BY <1>1, <1>2, <1>9, <1>10, EndStep
<1>12. PendingIsWhole' /\ StockNonNegative' /\ RunningIsBalance'
  BY <1>1, <1>6, <1>8 DEF IInv, PendingIsWhole, StockNonNegative, RunningIsBalance
<1>13. DeliveredWithinOrder'
  <2>1. /\ \A k : Odd(k)' = Odd(k)
        /\ \A k, i : DeliveredTo(k, i)' = DeliveredTo(k, i)
        /\ \A k \in DOMAIN orders : orders'[k].lines = orders[k].lines
    BY <1>1, <1>6, <1>8 DEF Odd, DeliveredTo
  <2> QED BY <1>8, <2>1 DEF IInv, DeliveredWithinOrder
<1>14. Odd(o) \/ \E i \in DOMAIN x.lines : Rest(x.lines[i]) # 0
  <2>1. CASE ~Alone(c)
    BY <1>3, <2>1 DEF Odd, Alone
  <2>2. CASE Alone(c)
    <3>1. orders[o].status = "PENDING_APPROVAL"
      BY <1>1, <1>2, <1>3, <2>2 DEF CallOK, Reads
    <3>2. x.lines \in Seq(OrderLine) /\ x.lines # << >>
          /\ \A i \in DOMAIN x.lines : x.lines[i].delivered = 0
      BY <1>3, <1>6, <3>1 DEF IInv, PendingIsWhole, SalesOrder
    <3>3. 1 \in DOMAIN x.lines /\ x.lines[1] \in OrderLine /\ x.lines[1].delivered = 0
      BY <3>2
    <3>4. Rest(x.lines[1]) # 0
      BY <3>3 DEF Rest, OrderLine
    <3> QED BY <3>3, <3>4
  <2> QED BY <2>1, <2>2
<1>15. DeliveredIsFulfilled'
  <2>1. \A k : Odd(k)' = Odd(k)
    BY <1>1 DEF Odd
  <2> QED BY <1>3, <1>8, <1>14, <2>1 DEF IInv, DeliveredIsFulfilled
<1>16. ReturnedWithinSold'
  BY <1>1 DEF IInv, ReturnedWithinSold, Returned
<1> QED BY <1>11, <1>12, <1>13, <1>15, <1>16 DEF IInv

-----------------------------------------------------------------------------
(* Deliveries *)

\* A delivery adds its parts to the lines of its order, and to nothing else.
LEMMA DeliveredToGrows ==
    ASSUME IInv, NEW o, NEW lines \in Seq(Part), [order |-> o, lines |-> lines] \in Delivery,
           deliveries' = Append(deliveries, [order |-> o, lines |-> lines])
    PROVE  \A k, i : DeliveredTo(k, i)' = DeliveredTo(k, i) + (IF k = o THEN OnLine(lines, i) ELSE 0)
<1> TAKE k, i
<1> DEFINE row == [order |-> o, lines |-> lines]
<1>1. deliveries \in Seq(Delivery) /\ deliveries' \in Seq(Delivery)
  BY DEF IInv, TypesOK, TypeOK
<1>2. ToLine(k, i) \in [Delivery -> Int]
  BY <1>1, DeliverySums
<1>3. DeliveredTo(k, i) = Weigh(deliveries, ToLine(k, i))
  BY <1>1, DeliverySums DEF DeliveredTo
<1>4. DeliveredTo(k, i)' = Weigh(deliveries', ToLine(k, i))
  BY <1>1, DeliverySums DEF DeliveredTo
<1>5. ToLine(k, i)[row] = IF k = o THEN OnLine(lines, i) ELSE 0
  BY DEF ToLine
<1> HIDE DEF row
<1>6. Weigh(Append(deliveries, row), ToLine(k, i)) = Weigh(deliveries, ToLine(k, i)) + ToLine(k, i)[row]
  BY <1>1, <1>2, WeighAppend DEF row
<1> QED BY <1>3, <1>4, <1>5, <1>6 DEF row

\* A delivery whose call was alone at its order, and names a line once, is within it; and
\* if nothing is left, each of its parts was all that had been left.
LEMMA DeliveryFits ==
    ASSUME NEW order \in SalesOrder, NEW lines \in Seq(Part), LinesFit(lines, order),
           WithinOrder(order, lines),
           \A m, n \in DOMAIN lines : lines[m].line = lines[n].line => m = n
    PROVE  /\ \A i \in DOMAIN order.lines :
                 order.lines[i].delivered <= order.lines[i].ordered =>
                     order.lines[i].delivered + OnLine(lines, i) <= order.lines[i].ordered
           /\ (\A i \in DOMAIN order.lines :
                  order.lines[i].ordered - (order.lines[i].delivered + OnLine(lines, i)) = 0)
                     => AllFulfilled(order, lines)
<1>1. \A i \in DOMAIN order.lines : order.lines[i] \in OrderLine
  BY DEF SalesOrder
<1>2. \A n \in DOMAIN lines :
         /\ lines[n] \in Part /\ lines[n].line \in DOMAIN order.lines
         /\ OnLine(lines, lines[n].line) = lines[n].qty
         /\ lines[n].qty <= Rest(order.lines[lines[n].line])
  <2> TAKE n \in DOMAIN lines
  <2>1. OnLine(lines, lines[n].line) = lines[n].qty
    BY OnLineType
  <2>2. lines[n].qty <= Rest(order.lines[lines[n].line])
    BY DEF WithinOrder, ToSet
  <2> QED BY <2>1, <2>2 DEF LinesFit
<1>3. ASSUME NEW i \in DOMAIN order.lines, order.lines[i].delivered <= order.lines[i].ordered
      PROVE  order.lines[i].delivered + OnLine(lines, i) <= order.lines[i].ordered
  <2>1. CASE \E n \in DOMAIN lines : lines[n].line = i
    BY <1>1, <1>2, <2>1 DEF Rest, OrderLine, Part
  <2>2. CASE \A n \in DOMAIN lines : lines[n].line # i
    <3>1. OnLine(lines, i) = 0
      BY <2>2, OnLineType
    <3> QED BY <1>1, <1>3, <3>1 DEF OrderLine
  <2> QED BY <2>1, <2>2
<1>4. ASSUME \A i \in DOMAIN order.lines :
                order.lines[i].ordered - (order.lines[i].delivered + OnLine(lines, i)) = 0
      PROVE  AllFulfilled(order, lines)
  <2>1. ASSUME NEW n \in DOMAIN lines PROVE lines[n].qty >= Rest(order.lines[lines[n].line])
    <3>1. PICK i \in DOMAIN order.lines : i = lines[n].line
      BY <1>2, <2>1
    <3>2. order.lines[i].ordered - (order.lines[i].delivered + lines[n].qty) = 0
      BY <1>2, <1>4, <2>1, <3>1
    <3> QED BY <1>1, <1>2, <2>1, <3>1, <3>2 DEF Rest, OrderLine, Part
  <2> QED BY <2>1 DEF AllFulfilled, ToSet
<1> QED BY <1>3, <1>4

\* A delivery.
LEMMA FulfillStep ==
    ASSUME IInv, NEW c \in Clerks, Fulfill(c)
    PROVE  IInv'
<1>1. PICK o, lines, seen : o = call[c].order /\ lines = call[c].lines /\ seen = call[c].seen
  OBVIOUS
<1> DEFINE qty(p) == Delivered(lines, seen, p)
           twice == \E i, j \in DOMAIN lines : i # j /\ lines[i].line = lines[j].line
           added == [i \in DOMAIN orders[o].lines |->
                       [orders[o].lines[i] EXCEPT
                          !.delivered = orders[o].lines[i].delivered + OnLine(lines, i)]]
           row == [status |-> IF AllFulfilled(seen, lines) THEN "FULFILLED" ELSE orders[o].status,
                   creator |-> orders[o].creator, lines |-> added]
<1>2. /\ call[c].step = "lock" /\ call[c].op = "fulfill"
      /\ WithinOrder(seen, lines) /\ StockSuffices(seen, lines)
      /\ deliveries' = Append(deliveries, [order |-> o, lines |-> lines])
      /\ ledger' = [p \in Products |->
            IF p \in ProductsOf(seen, lines)
            THEN AppendRow(ledger[p], -qty(p), ledger[p].sum - qty(p), call[c].body.date)
            ELSE ledger[p]]
      /\ orders' = [orders EXCEPT ![o] = row]
      /\ history' = history \cup (IF twice THEN {<<"lineTwice", o>>} ELSE {})
      /\ Ends(c) /\ UNCHANGED returns
  BY <1>1 DEF Fulfill, Locked, In
<1>3. call[c] \in Calls /\ Busy(c) /\ CallOK(c) /\ call[c] \in FulfillCalls /\ Fulfills(c)
  BY <1>2, CallKinds DEF IInv, TypesOK, Busy, Fulfills
<1>4. /\ o \in DOMAIN orders /\ call[c].document = OrderDoc(o) /\ LinesFit(lines, orders[o])
      /\ lines \in Seq(Part) /\ call[c].body \in Deliveries
      /\ orders[o].status # "PENDING_APPROVAL"
      /\ Alone(c) => seen = orders[o]
  BY <1>1, <1>2, <1>3 DEF CallOK, Refers, Approved, Reads, FulfillCalls
<1>5. /\ orders \in Seq(SalesOrder) /\ orders[o] \in SalesOrder /\ o \in Nat
      /\ deliveries \in Seq(Delivery) /\ ledger \in [Products -> Ledgers]
      /\ call[c].body.date \in Nat
  BY <1>4, SalesAssumption DEF IInv, TypesOK, TypeOK
<1>6. \A p : qty(p) \in Nat
  BY <1>4, DeliveredType
<1>7. \A i : OnLine(lines, i) \in Nat
  BY <1>4, OnLineType
<1>8. /\ row \in SalesOrder /\ DOMAIN row.lines = DOMAIN orders[o].lines
      /\ \A i \in DOMAIN orders[o].lines :
            /\ row.lines[i].delivered = orders[o].lines[i].delivered + OnLine(lines, i)
            /\ row.lines[i].ordered = orders[o].lines[i].ordered
      /\ row.status = IF AllFulfilled(seen, lines) THEN "FULFILLED" ELSE orders[o].status
  <2>1. /\ orders[o].lines \in Seq(OrderLine) /\ DOMAIN orders[o].lines = 1..Len(orders[o].lines)
        /\ \A i \in DOMAIN orders[o].lines : orders[o].lines[i] \in OrderLine
    BY <1>5 DEF SalesOrder
  <2>2. \A i \in DOMAIN orders[o].lines :
           /\ added[i] \in OrderLine
           /\ added[i].delivered = orders[o].lines[i].delivered + OnLine(lines, i)
           /\ added[i].ordered = orders[o].lines[i].ordered
    <3> TAKE i \in DOMAIN orders[o].lines
    <3>1. PICK x \in OrderLine : x = orders[o].lines[i]
      BY <2>1
    <3>2. PICK n \in Nat : n = OnLine(lines, i)
      BY <1>7
    <3>3. added[i] = [x EXCEPT !.delivered = x.delivered + n]
      BY <3>1, <3>2
    <3>4. x.delivered + n \in Nat
      BY DEF OrderLine
    <3> HIDE DEF added
    <3> QED BY <3>1, <3>2, <3>3, <3>4 DEF OrderLine
  <2>3. added = [i \in DOMAIN orders[o].lines |-> added[i]]
    OBVIOUS
  <2>4. added \in Seq(OrderLine) /\ DOMAIN added = DOMAIN orders[o].lines
    <3> HIDE DEF added
    <3>1. added \in [1..Len(orders[o].lines) -> OrderLine] /\ Len(orders[o].lines) \in Nat
      <4>1. \A i \in 1..Len(orders[o].lines) : added[i] \in OrderLine
        BY <2>1, <2>2
      <4>2. added = [i \in 1..Len(orders[o].lines) |-> added[i]]
        BY <2>1, <2>3
      <4>3. Len(orders[o].lines) \in Nat
        BY <2>1
      <4> QED BY <4>1, <4>2, <4>3
    <3>2. added \in Seq(OrderLine) /\ DOMAIN added = 1..Len(orders[o].lines)
      BY <3>1
    <3> QED BY <2>1, <3>2
  <2> HIDE DEF added
  <2> QED BY <1>5, <2>2, <2>4 DEF SalesOrder
<1>9. \A p \in Products :
         /\ ledger'[p] \in Ledgers /\ ledger'[p].sum >= 0
         /\ ledger[p].running = ledger[p].sum => ledger'[p].running = ledger'[p].sum
  <2> TAKE p \in Products
  <2>1. ledger[p] \in Ledgers /\ ledger[p].sum >= 0 /\ ledger[p].sum \in Int
    BY <1>5 DEF IInv, StockNonNegative, Ledgers
  <2>2. CASE p \in ProductsOf(seen, lines)
    <3>1. ledger'[p] = AppendRow(ledger[p], -qty(p), ledger[p].sum - qty(p), call[c].body.date)
      BY <1>2, <2>2
    <3>2. qty(p) \in Nat /\ (qty(p) > 0 => ledger[p].sum >= qty(p))
      BY <1>2, <1>6 DEF StockSuffices
    <3> HIDE DEF qty
    <3>3. /\ ledger'[p] \in Ledgers /\ ledger'[p].sum = ledger[p].sum + (-qty(p))
          /\ ledger'[p].running = ledger[p].sum - qty(p)
      BY <1>5, <2>1, <3>1, <3>2, RowType
    <3> QED BY <2>1, <3>2, <3>3
  <2>3. CASE p \notin ProductsOf(seen, lines)
    BY <1>2, <2>1, <2>3
  <2> QED BY <2>2, <2>3
<1>10. DOMAIN ledger' = Products /\ ledger' = [p \in Products |-> ledger'[p]]
  BY <1>2
<1> HIDE DEF row, added, qty
<1>11. /\ orders' \in Seq(SalesOrder) /\ DOMAIN orders' = DOMAIN orders
       /\ orders'[o] = row /\ \A k \in DOMAIN orders : k # o => orders'[k] = orders[k]
  BY <1>2, <1>4, <1>5, <1>8
<1>12. [order |-> o, lines |-> lines] \in Delivery
  BY <1>4, <1>5 DEF Delivery
<1>13. RowsOK'
  <2>1. \A d \in DOMAIN deliveries' : deliveries'[d].order \in DOMAIN orders'
    BY <1>2, <1>4, <1>5, <1>11, <1>12 DEF IInv, TypesOK, TypeOK
  <2>2. deliveries' \in Seq(Delivery)
    BY <1>2, <1>5, <1>12
  <2>3. ledger' \in [Products -> Ledgers]
    BY <1>9, <1>10
  <2> QED BY <1>2, <1>11, <2>1, <2>2, <2>3 DEF RowsOK, IInv, TypesOK, TypeOK
<1>14. Keeps(c)
  <2>1. \A p : Returned(SaleDoc, p)' = Returned(SaleDoc, p)
    BY <1>2 DEF Returned
  <2> QED BY <1>4, <1>8, <1>11, <2>1, DocumentsDiffer DEF Keeps
<1>15. history \subseteq history'
  BY <1>2
<1>16. TypesOK' /\ (\A d \in Clerks : CallOK(d)') /\ OneCall'
  BY <1>2, <1>3, <1>13, <1>14, <1>15, EndStep
<1>17. PendingIsWhole'
  <2>1. row.status # "PENDING_APPROVAL" /\ row.lines # << >>
    <3>1. row.status # "PENDING_APPROVAL"
      BY <1>4, <1>8
    <3>2. orders[o].lines # << >> /\ orders[o].lines \in Seq(OrderLine) /\ row.lines \in Seq(OrderLine)
      BY <1>4, <1>5, <1>8 DEF IInv, PendingIsWhole, SalesOrder
    <3>3. 1 \in DOMAIN orders[o].lines
      BY <3>2
    <3> QED BY <1>8, <3>1, <3>2, <3>3
  <2> QED BY <1>11, <2>1 DEF IInv, PendingIsWhole
<1>18. StockNonNegative' /\ RunningIsBalance'
  BY <1>9, <1>15 DEF IInv, StockNonNegative, RunningIsBalance
<1>19. \A k, i : DeliveredTo(k, i)' = DeliveredTo(k, i) + (IF k = o THEN OnLine(lines, i) ELSE 0)
  BY <1>2, <1>4, <1>12, DeliveredToGrows
<1>20. \A k : Odd(k) => Odd(k)'
  BY <1>15 DEF Odd
<1>21. Odd(o)' \/
         /\ seen = orders[o] /\ ~Odd(o)
         /\ \A m, n \in DOMAIN lines : lines[m].line = lines[n].line => m = n
  BY <1>2, <1>4, <1>20 DEF Odd, Alone
<1>22. \A k \in DOMAIN orders : \A i \in DOMAIN orders[k].lines :
          orders[k].lines[i] \in OrderLine /\ DeliveredTo(k, i) = orders[k].lines[i].delivered
  <2>1. \A k \in DOMAIN orders : orders[k].lines \in Seq(OrderLine)
    <3> TAKE k \in DOMAIN orders
    <3>1. PICK x \in SalesOrder : x = orders[k]
      BY <1>5
    <3> QED BY <3>1 DEF SalesOrder
  <2>2. \A k \in DOMAIN orders : \A i \in DOMAIN orders[k].lines : orders[k].lines[i] \in OrderLine
    BY <2>1
  <2>3. \A k \in DOMAIN orders : \A i \in DOMAIN orders[k].lines :
           orders[k].lines[i].delivered = DeliveredTo(k, i)
    BY Zenon DEF IInv, DeliveredWithinOrder
  <2> QED BY <2>2, <2>3
<1>23. DeliveredWithinOrder'
  <2> SUFFICES ASSUME NEW k \in DOMAIN orders', NEW i \in DOMAIN orders'[k].lines
               PROVE  /\ orders'[k].lines[i].delivered = DeliveredTo(k, i)'
                      /\ Odd(k)' \/ orders'[k].lines[i].delivered <= orders'[k].lines[i].ordered
    BY DEF DeliveredWithinOrder
  <2>1. CASE k # o
    <3>1. DeliveredTo(k, i)' = DeliveredTo(k, i)
      BY <1>11, <1>19, <1>22, <2>1 DEF OrderLine
    <3> QED BY <1>11, <1>20, <2>1, <3>1 DEF IInv, DeliveredWithinOrder
  <2>2. CASE k = o
    <3>1. /\ i \in DOMAIN orders[o].lines
          /\ orders'[k].lines[i].delivered = orders[o].lines[i].delivered + OnLine(lines, i)
          /\ orders'[k].lines[i].ordered = orders[o].lines[i].ordered
      BY <1>8, <1>11, <2>2
    <3>2. orders'[k].lines[i].delivered = DeliveredTo(k, i)'
      BY <1>4, <1>19, <1>22, <2>2, <3>1
    <3>3. ASSUME ~Odd(k)' PROVE orders'[k].lines[i].delivered <= orders'[k].lines[i].ordered
      <4>1. /\ seen = orders[o] /\ ~Odd(o)
            /\ \A m, n \in DOMAIN lines : lines[m].line = lines[n].line => m = n
        BY <1>21, <2>2, <3>3
      <4>2. orders[o].lines[i].delivered <= orders[o].lines[i].ordered
        BY <1>4, <3>1, <4>1 DEF IInv, DeliveredWithinOrder
      <4>3. WithinOrder(orders[o], lines)
        BY <1>2, <4>1
      <4> QED BY <1>4, <1>5, <3>1, <4>1, <4>2, <4>3, DeliveryFits
    <3> QED BY <3>2, <3>3
  <2> QED BY <2>1, <2>2
<1>24. DeliveredIsFulfilled'
  <2> SUFFICES ASSUME NEW k \in DOMAIN orders', ~Odd(k)',
                      \A i \in DOMAIN orders'[k].lines : Rest(orders'[k].lines[i]) = 0
               PROVE  orders'[k].status = "FULFILLED"
    BY DEF DeliveredIsFulfilled
  <2>1. CASE k # o
    BY <1>11, <1>20, <2>1 DEF IInv, DeliveredIsFulfilled
  <2>2. CASE k = o
    <3>1. /\ seen = orders[o]
          /\ \A m, n \in DOMAIN lines : lines[m].line = lines[n].line => m = n
      BY <1>21, <2>2
    <3>2. WithinOrder(orders[o], lines)
      BY <1>2, <3>1
    <3>3. \A i \in DOMAIN orders[o].lines :
             orders[o].lines[i].ordered - (orders[o].lines[i].delivered + OnLine(lines, i)) = 0
      BY <1>8, <1>11, <2>2 DEF Rest
    <3>4. AllFulfilled(seen, lines)
      BY <1>4, <1>5, <3>1, <3>2, <3>3, DeliveryFits
    <3> QED BY <1>8, <1>11, <2>2, <3>4
  <2> QED BY <2>1, <2>2
<1>25. ReturnedWithinSold'
  <2>1. \A p : Returned(SaleDoc, p)' = Returned(SaleDoc, p)
    BY <1>2 DEF Returned
  <2> QED BY <1>15, <2>1 DEF IInv, ReturnedWithinSold
<1> QED BY <1>16, <1>17, <1>18, <1>23, <1>24, <1>25 DEF IInv


-----------------------------------------------------------------------------
(* Returns *)

\* What any return writes: stock comes back, and the returns of its document grow by
\* what its lines say.
LEMMA ReturnWrites ==
    ASSUME IInv, NEW c \in Clerks, Busy(c), NEW body \in ReturnBodies, NEW doc,
           doc \in {SaleDoc} \cup {OrderDoc(o) : o \in DOMAIN orders},
           doc = call[c].document, NEW running,
           \A p \in Products : p \in ProductsIn(body.lines) => running[p] \in Int,
           returns' = Append(returns, [document |-> doc, lines |-> body.lines]),
           GivesBack(body, running), Ends(c), UNCHANGED <<orders, deliveries>>,
           history \subseteq history'
    PROVE  /\ TypesOK' /\ (\A d \in Clerks : CallOK(d)') /\ OneCall'
           /\ PendingIsWhole' /\ StockNonNegative'
           /\ DeliveredWithinOrder' /\ DeliveredIsFulfilled'
           /\ \A p \in Products :
                 ledger'[p] = IF p \in ProductsIn(body.lines)
                              THEN AppendRow(ledger[p], Quantity(body.lines, p), running[p], body.date)
                              ELSE ledger[p]
           /\ \A p : /\ Returned(SaleDoc, p) \in Nat
                     /\ Returned(SaleDoc, p)' = Returned(SaleDoc, p)
                           + (IF doc = SaleDoc THEN Quantity(body.lines, p) ELSE 0)
<1> DEFINE row == [document |-> doc, lines |-> body.lines]
<1>1. body.lines \in Seq(Line) /\ body.date \in Nat
  BY SalesAssumption
<1>2. /\ returns \in Seq(Return) /\ orders \in Seq(SalesOrder) /\ DOMAIN orders \subseteq Nat
      /\ ledger \in [Products -> Ledgers]
  BY DEF IInv, TypesOK, TypeOK
<1>3. doc \in Documents
  BY <1>2, DocumentsDiffer
<1>4. row \in Return
  BY <1>1, <1>3 DEF Return, Documents
<1>5. \A p : Returned(SaleDoc, p) \in Nat /\
             Returned(SaleDoc, p)' = Returned(SaleDoc, p)
                + (IF doc = SaleDoc THEN Quantity(body.lines, p) ELSE 0)
  <2> TAKE p
  <2>1. FromDoc(SaleDoc, p) \in [Return -> Int] /\ \A r \in Return : FromDoc(SaleDoc, p)[r] >= 0
    BY <1>2, ReturnSums
  <2>2. FromDoc(SaleDoc, p)[row] = IF doc = SaleDoc THEN Quantity(body.lines, p) ELSE 0
    BY <1>4 DEF FromDoc
  <2> HIDE DEF row
  <2>3. returns' = Append(returns, row) /\ returns' \in Seq(Return)
    BY <1>2, <1>4 DEF row
  <2>4. Returned(SaleDoc, p) = Weigh(returns, FromDoc(SaleDoc, p))
    BY <1>2, ReturnSums DEF Returned
  <2>5. Returned(SaleDoc, p)' = Weigh(returns', FromDoc(SaleDoc, p))
    BY <2>3, ReturnSums DEF Returned
  <2>6. Weigh(returns', FromDoc(SaleDoc, p))
          = Weigh(returns, FromDoc(SaleDoc, p)) + FromDoc(SaleDoc, p)[row]
    BY <1>2, <1>4, <2>1, <2>3, WeighAppend
  <2>7. Weigh(returns, FromDoc(SaleDoc, p)) \in Nat
    BY <1>2, <2>1, WeighType
  <2> QED BY <2>2, <2>4, <2>5, <2>6, <2>7
<1>6. \A p \in Products :
         /\ ledger'[p] = IF p \in ProductsIn(body.lines)
                         THEN AppendRow(ledger[p], Quantity(body.lines, p), running[p], body.date)
                         ELSE ledger[p]
         /\ ledger'[p] \in Ledgers /\ ledger'[p].sum >= 0
  <2> TAKE p \in Products
  <2>1. ledger'[p] = IF p \in ProductsIn(body.lines)
                     THEN AppendRow(ledger[p], Quantity(body.lines, p), running[p], body.date)
                     ELSE ledger[p]
    BY DEF GivesBack
  <2>2. ledger[p] \in Ledgers /\ ledger[p].sum >= 0 /\ ledger[p].sum \in Int
    BY <1>2 DEF IInv, StockNonNegative, Ledgers
  <2>3. Quantity(body.lines, p) \in Nat
    BY <1>1, QuantityType
  <2>4. PICK new : new = AppendRow(ledger[p], Quantity(body.lines, p), running[p], body.date)
    OBVIOUS
  <2>5. ASSUME p \in ProductsIn(body.lines)
        PROVE  new \in Ledgers /\ new.sum = ledger[p].sum + Quantity(body.lines, p)
    <3>1. PICK q \in Int : q = Quantity(body.lines, p)
      BY <2>3
    <3>2. PICK n \in Int : n = running[p]
      BY <2>5
    <3>3. new = AppendRow(ledger[p], q, n, body.date)
      BY <2>4, <3>1, <3>2
    <3> QED BY <1>1, <2>2, <3>1, <3>3, RowType
  <2>6. CASE p \in ProductsIn(body.lines)
    <3>1. ledger'[p] = new /\ new.sum = ledger[p].sum + Quantity(body.lines, p) /\ new \in Ledgers
      BY <2>1, <2>4, <2>5, <2>6
    <3>2. new.sum >= 0
      BY <2>2, <2>3, <3>1
    <3> QED BY <2>1, <3>1, <3>2
  <2>7. CASE p \notin ProductsIn(body.lines)
    BY <2>1, <2>2, <2>7
  <2> QED BY <2>6, <2>7
<1>7. ledger' = [p \in Products |-> ledger'[p]]
  BY DEF GivesBack
<1>8. RowsOK'
  <2>1. returns' \in Seq(Return)
    BY <1>2, <1>4
  <2>2. \A r \in DOMAIN returns' :
           returns'[r].document \in {SaleDoc} \cup {OrderDoc(o) : o \in DOMAIN orders}
    BY <1>2, <1>4 DEF IInv, TypesOK, TypeOK
  <2>3. ledger' \in [Products -> Ledgers]
    BY <1>6, <1>7
  <2> QED BY <2>1, <2>2, <2>3 DEF RowsOK, IInv, TypesOK, TypeOK
<1>9. Keeps(c)
  BY <1>5 DEF Keeps
<1>10. TypesOK' /\ (\A d \in Clerks : CallOK(d)') /\ OneCall'
  BY <1>8, <1>9, EndStep
<1>11. PendingIsWhole' /\ StockNonNegative'
  BY <1>6 DEF IInv, PendingIsWhole, StockNonNegative
<1>12. \A o : Odd(o) => Odd(o)'
  BY DEF Odd
<1>13. \A o, i : DeliveredTo(o, i)' = DeliveredTo(o, i)
  BY DEF DeliveredTo
<1>14. DeliveredWithinOrder' /\ DeliveredIsFulfilled'
  BY <1>12, <1>13 DEF IInv, DeliveredWithinOrder, DeliveredIsFulfilled
<1> QED BY <1>5, <1>6, <1>10, <1>11, <1>14

\* A return against an order, through the locks: it adds to the row written last.
LEMMA ReturnToOrderStep ==
    ASSUME IInv, NEW c \in Clerks, ReturnToOrder(c)
    PROVE  IInv'
<1>1. PICK body, doc : body = call[c].body /\ doc = call[c].document
  OBVIOUS
<1> DEFINE running == AfterLast(body)
<1>2. /\ call[c].step = "lock" /\ call[c].op = "return"
      /\ returns' = Append(returns, [document |-> doc, lines |-> call[c].lines])
      /\ GivesBack(body, running) /\ Ends(c) /\ UNCHANGED <<orders, deliveries, history>>
  BY <1>1 DEF ReturnToOrder, Locked, In
<1>3. call[c] \in Calls /\ Busy(c) /\ CallOK(c) /\ call[c] \in ReturnCalls /\ Returns(c)
  BY <1>2, CallKinds DEF IInv, TypesOK, Busy, Returns
<1>4. /\ body \in ReturnBodies /\ call[c].lines = body.lines
      /\ doc \in {OrderDoc(o) : o \in DOMAIN orders} /\ doc # SaleDoc
  BY <1>1, <1>2, <1>3, DocumentsDiffer DEF CallOK, Refers, ReturnCalls
<1>5. /\ body.lines \in Seq(Line) /\ body.date \in Nat /\ ledger \in [Products -> Ledgers]
  BY <1>4, SalesAssumption DEF IInv, TypesOK, TypeOK
<1>6. \A p \in Products : /\ ledger[p] \in Ledgers /\ ledger[p].running \in Int /\ ledger[p].sum \in Int
                          /\ Quantity(body.lines, p) \in Nat
  BY <1>5, QuantityType DEF Ledgers
<1>7. running \in [Products -> Int] /\ \A p \in Products :
         running[p] = ledger[p].running + Quantity(body.lines, p)
  BY <1>6 DEF AfterLast
<1> HIDE DEF running
<1>8. /\ TypesOK' /\ (\A d \in Clerks : CallOK(d)') /\ OneCall'
      /\ PendingIsWhole' /\ StockNonNegative'
      /\ DeliveredWithinOrder' /\ DeliveredIsFulfilled'
      /\ \A p \in Products :
            ledger'[p] = IF p \in ProductsIn(body.lines)
                         THEN AppendRow(ledger[p], Quantity(body.lines, p), running[p], body.date)
                         ELSE ledger[p]
      /\ \A p : /\ Returned(SaleDoc, p) \in Nat
                /\ Returned(SaleDoc, p)' = Returned(SaleDoc, p)
                      + (IF doc = SaleDoc THEN Quantity(body.lines, p) ELSE 0)
  <2>1. returns' = Append(returns, [document |-> doc, lines |-> body.lines])
    BY <1>2, <1>4
  <2>2. history \subseteq history' /\ doc \in {SaleDoc} \cup {OrderDoc(o) : o \in DOMAIN orders}
    BY <1>2, <1>4
  <2> QED BY <1>1, <1>2, <1>3, <1>4, <1>7, <2>1, <2>2, ReturnWrites
<1>9. RunningIsBalance'
  <2> SUFFICES ASSUME NEW p \in Products, ledger[p].running = ledger[p].sum
               PROVE  ledger'[p].running = ledger'[p].sum
    BY <1>2 DEF RunningIsBalance, IInv
  <2>1. PICK row : row = AppendRow(ledger[p], Quantity(body.lines, p), running[p], body.date)
    OBVIOUS
  <2>2. running[p] \in Int /\ Quantity(body.lines, p) \in Int
    BY <1>6, <1>7
  <2>3. row.running = running[p] /\ row.sum = ledger[p].sum + Quantity(body.lines, p)
    BY <1>5, <1>6, <2>1, <2>2, RowType
  <2> QED BY <1>7, <1>8, <2>1, <2>3
<1>10. ReturnedWithinSold'
  <2>1. \A p : Returned(SaleDoc, p)' = Returned(SaleDoc, p)
    BY <1>4, <1>8
  <2> QED BY <1>2, <2>1 DEF IInv, ReturnedWithinSold
<1> QED BY <1>8, <1>9, <1>10 DEF IInv

\* A return at the point of sale: of a call that was alone, with each product on one line,
\* it stays within what was sold.
LEMMA ReturnSaleStep ==
    ASSUME IInv, NEW c \in Clerks, ReturnSale(c)
    PROVE  IInv'
<1>1. PICK body, doc : body = call[c].body /\ doc = call[c].document
  OBVIOUS
<1> DEFINE running == AfterLatest(body)
           twice == \E i, j \in DOMAIN body.lines :
                       i # j /\ body.lines[i].product = body.lines[j].product
<1>2. /\ call[c].step = "saleReturn"
      /\ returns' = Append(returns, [document |-> doc, lines |-> body.lines])
      /\ GivesBack(body, running) /\ Ends(c) /\ UNCHANGED <<orders, deliveries>>
      /\ history' = history
            \cup {<<"byDate", p>> : p \in ProductsIn(body.lines)}
            \cup (IF twice THEN {<<"productTwice", 0>>} ELSE {})
  BY <1>1 DEF ReturnSale, In
<1>3. call[c] \in Calls /\ Busy(c) /\ CallOK(c) /\ call[c] \in GiveCalls
  BY <1>2, CallKinds DEF IInv, TypesOK, Busy
<1>4. /\ body \in ReturnBodies
      /\ doc \in {SaleDoc} \cup {OrderDoc(o) : o \in DOMAIN orders}
      /\ Alone(c) /\ doc = SaleDoc => Returnable(body)
  BY <1>1, <1>2, <1>3 DEF CallOK, Refers, Reads, GiveCalls
<1>5. body.lines \in Seq(Line) /\ body.date \in Nat /\ ledger \in [Products -> Ledgers]
  BY <1>4, SalesAssumption DEF IInv, TypesOK, TypeOK
<1>6. history \subseteq history'
  BY <1>2
<1>7. \A p \in Products : p \in ProductsIn(body.lines) => running[p] \in Int
  <2> SUFFICES ASSUME NEW p \in Products, p \in ProductsIn(body.lines)
               PROVE  running[p] \in Int
    OBVIOUS
  <2>1. Quantity(body.lines, p) \in Nat /\ LastQty(body.lines, p) \in Nat
    BY <1>5, QuantityType, LastQtyType
  <2>2. ledger[p].datedRunning \in Int
    BY <1>5 DEF Ledgers
  <2> QED BY <2>1, <2>2 DEF AfterLatest
<1> HIDE DEF running
<1>8. /\ TypesOK' /\ (\A d \in Clerks : CallOK(d)') /\ OneCall'
      /\ PendingIsWhole' /\ StockNonNegative'
      /\ DeliveredWithinOrder' /\ DeliveredIsFulfilled'
      /\ \A p \in Products :
            ledger'[p] = IF p \in ProductsIn(body.lines)
                         THEN AppendRow(ledger[p], Quantity(body.lines, p), running[p], body.date)
                         ELSE ledger[p]
      /\ \A p : /\ Returned(SaleDoc, p) \in Nat
                /\ Returned(SaleDoc, p)' = Returned(SaleDoc, p)
                      + (IF doc = SaleDoc THEN Quantity(body.lines, p) ELSE 0)
  BY <1>1, <1>2, <1>3, <1>4, <1>6, <1>7, ReturnWrites
<1>9. RunningIsBalance'
  <2> SUFFICES ASSUME NEW p \in Products, <<"byDate", p>> \notin history'
               PROVE  ledger'[p].running = ledger'[p].sum
    BY DEF RunningIsBalance
  <2>1. p \notin ProductsIn(body.lines) /\ <<"byDate", p>> \notin history
    BY <1>2
  <2> QED BY <1>8, <2>1 DEF IInv, RunningIsBalance
<1>10. ReturnedWithinSold'
  <2> SUFFICES ASSUME SaleDoc \notin history', <<"productTwice", 0>> \notin history',
                      NEW p \in Products
               PROVE  Returned(SaleDoc, p)' <= Quantity(SaleLines, p)
    BY DEF ReturnedWithinSold
  <2>1. Returned(SaleDoc, p) <= Quantity(SaleLines, p)
    BY <1>6 DEF IInv, ReturnedWithinSold
  <2>2. Quantity(SaleLines, p) \in Nat /\ Quantity(body.lines, p) \in Nat
    BY <1>5, QuantityType, SalesAssumption
  <2>3. CASE doc # SaleDoc \/ p \notin ProductsIn(body.lines)
    <3>1. p \notin ProductsIn(body.lines) => Quantity(body.lines, p) = 0
      BY <1>5, QuantityType
    <3> QED BY <1>8, <2>1, <2>3, <3>1
  <2>4. CASE doc = SaleDoc /\ p \in ProductsIn(body.lines)
    <3>1. Returnable(body)
      BY <1>1, <1>4, <1>6, <2>4 DEF Alone
    <3>2. PICK i \in DOMAIN body.lines : body.lines[i].product = p
      BY <1>5, <2>4, LinesHave
    <3>3. \A j \in DOMAIN body.lines : body.lines[j].product = p => j = i
      BY <1>2, <3>2
    <3>4. Quantity(body.lines, p) = body.lines[i].qty
      BY <1>5, <3>2, <3>3, QuantityType
    <3>5. /\ p \in ProductsIn(SaleLines)
          /\ body.lines[i].qty + Returned(SaleDoc, p) <= SoldQty(p)
      BY <3>1, <3>2 DEF Returnable, ToSet
    <3>6. SoldQty(p) \in Nat /\ SoldQty(p) <= Quantity(SaleLines, p)
      BY <3>5, LastQtyType, SalesAssumption DEF SoldQty
    <3>7. Returned(SaleDoc, p)' = Returned(SaleDoc, p) + Quantity(body.lines, p)
      BY <1>8, <2>4
    <3>8. Returned(SaleDoc, p) \in Nat
      BY <1>8
    <3> QED BY <2>2, <3>4, <3>5, <3>6, <3>7, <3>8
  <2> QED BY <2>3, <2>4
<1> QED BY <1>8, <1>9, <1>10 DEF IInv

-----------------------------------------------------------------------------
(* The theorems *)

LEMMA IInvInit == Init => IInv
<1> SUFFICES ASSUME Init PROVE IInv
  OBVIOUS
<1>1. /\ orders = << >> /\ deliveries = << >> /\ returns = << >> /\ history = {}
      /\ rowLock = [p \in Products |-> Nobody] /\ call = [c \in Clerks |-> NoCall]
      /\ ledger = [p \in Products |-> AppendRow(EmptyLedger, FirstStock, FirstStock, 1)]
  BY DEF Init
<1>2. \A p \in Products : ledger[p] \in Ledgers /\ ledger[p].sum = FirstStock
                          /\ ledger[p].running = FirstStock
  <2>1. FirstStock \in Int /\ EmptyLedger \in Ledgers /\ EmptyLedger.sum = 0 /\ 1 \in Nat
    BY SalesAssumption DEF EmptyLedger, Ledgers, NoDate
  <2> QED BY <1>1, <2>1, RowType
<1>3. \A c \in Clerks : ~Busy(c) /\ CallOK(c)
  BY <1>1 DEF CallOK, Refers, Approved, Busy, NoCall, Fulfills, Returns, FulfillCalls, ReturnCalls
<1>4. TypesOK
  <2>1. orders \in Seq(SalesOrder) /\ deliveries \in Seq(Delivery) /\ returns \in Seq(Return)
        /\ DOMAIN deliveries = {} /\ DOMAIN returns = {}
    BY <1>1
  <2>2. ledger \in [Products -> Ledgers]
    BY <1>1, <1>2
  <2> QED BY <1>1, <2>1, <2>2 DEF TypesOK, TypeOK, Calls
<1>5. OneCall
  BY <1>3 DEF OneCall
<1>6. PendingIsWhole /\ DeliveredWithinOrder /\ DeliveredIsFulfilled
  BY <1>1 DEF PendingIsWhole, DeliveredWithinOrder, DeliveredIsFulfilled
<1>7. StockNonNegative /\ RunningIsBalance
  BY <1>2, SalesAssumption DEF StockNonNegative, RunningIsBalance
<1>8. ReturnedWithinSold
  <2> SUFFICES ASSUME NEW p \in Products PROVE Returned(SaleDoc, p) <= Quantity(SaleLines, p)
    BY DEF ReturnedWithinSold
  <2>1. FromDoc(SaleDoc, p) \in [Return -> Int] /\ returns \in Seq(Return)
    BY <1>4, ReturnSums DEF TypesOK, TypeOK
  <2>2. Returned(SaleDoc, p) = Weigh(returns, FromDoc(SaleDoc, p))
    BY <2>1, ReturnSums DEF Returned
  <2>3. Weigh(returns, FromDoc(SaleDoc, p)) = 0
    <3>1. \A r \in DOMAIN returns : FromDoc(SaleDoc, p)[returns[r]] = 0
      BY <1>1
    <3> QED BY <2>1, <3>1, WeighType
  <2>4. Quantity(SaleLines, p) \in Nat
    BY QuantityType, SalesAssumption
  <2> QED BY <2>2, <2>3, <2>4
<1> QED BY <1>3, <1>4, <1>5, <1>6, <1>7, <1>8 DEF IInv

LEMMA IInvStep == IInv /\ [Next]_vars => IInv'
<1> SUFFICES ASSUME IInv, [Next]_vars PROVE IInv'
  OBVIOUS
<1>1. ASSUME NEW c \in Clerks, Order(c) PROVE IInv'
  BY <1>1, CreateStep, ApproveReadStep DEF Order
<1>2. ASSUME NEW c \in Clerks, Deliver(c) PROVE IInv'
  BY <1>2, FulfillReadStep DEF Deliver
<1>3. ASSUME NEW c \in Clerks, GiveBack(c) PROVE IInv'
  BY <1>3, ReturnSaleReadStep, ReturnToOrderReadStep, ReturnOrderedReadStep DEF GiveBack
<1>4. ASSUME NEW c \in Clerks, Step(c) PROVE IInv'
  BY <1>4, ApproveStep, LockNextStep, LockFailsStep, RetryStep, FulfillStep, ReturnToOrderStep,
     ReturnSaleStep, RefusedStep DEF Step
<1>5. CASE UNCHANGED vars
  <2>1. Untouched /\ UNCHANGED <<rowLock, call, history>> /\ history \subseteq history'
    BY <1>5 DEF vars, Untouched
  <2>2. TypesOK' /\ (\A d \in Clerks : CallOK(d)') /\ OneCall'
    BY <2>1 DEF IInv, TypesOK, TypeOK, CallOK, Refers, Approved, Reads, Alone, Busy, Fulfills,
          Returns, LinesFit, Returnable, Returned, Untouched, OneCall
  <2> QED BY <2>1, <2>2, UntouchedHolds DEF IInv
<1> QED BY <1>1, <1>2, <1>3, <1>4, <1>5 DEF Next, Clerks

\* fulfill: no delivery, over its retries and beside returns and other deliveries, takes
\* stock below zero, and each adds to its order what it took; an order is delivered within
\* its quantities, and FULFILLED once nothing is left, unless calls meet at it or a body
\* names one of its lines twice.
THEOREM DeliveriesAreHeld == Spec => []DeliveriesHold
<1>1. IInv => DeliveriesHold
  BY DEF IInv, TypesOK, DeliveriesHold
<1> QED BY <1>1, IInvInit, IInvStep, PTL DEF Spec

\* createSalesReturn: over any number of returns of a sale no more of a product comes back
\* than was sold, unless two of them meet or a body names a product on two lines.
THEOREM ReturnsWithinSold == Spec => []ReturnedWithinSold
<1>1. IInv => ReturnedWithinSold
  BY DEF IInv
<1> QED BY <1>1, IInvInit, IInvStep, PTL DEF Spec

=============================================================================
