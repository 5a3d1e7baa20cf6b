-------------------------- MODULE ProcurementProofs ---------------------------
(***************************************************************************)
(* That a receipt counts once on its order, in the ledger and in the       *)
(* journal, and that goods are only where a receipt and a live order say   *)
(* so, for any users, sessions, products, orders, receipts and returns.    *)
(*                                                                         *)
(* The handlers write by id what they worked out from their own reads, so  *)
(* the invariant says what each call under way has read (Reads, Knows):    *)
(* as long as no two calls met at an order, or at the stock of a product,  *)
(* it is still so.  The row locks of confirm and the test for a repeated   *)
(* event keep the journal right even when calls meet (PostedOnce).         *)
(*                                                                         *)
(* Of the two documents that come before a purchase order, below:          *)
(*                                                                         *)
(* That the approvers decide a request, for any number of approvers and    *)
(* sessions.  ApprovalsDecide is not inductive: it does not say what the   *)
(* calls under way have read.  MeetInv does, as long as no approver has    *)
(* made two calls at a time: a step that was read PENDING still is, one    *)
(* that was read APPROVED stays so.  AloneInv says, as long as no two      *)
(* calls have met at all, that a call has read the steps as they are.      *)
(*                                                                         *)
(* That a purchase request that is decided stays as it is, for any number  *)
(* of clerks, requests and sets of lines, but for a call that has read it  *)
(* before.  What the updates by id rest on is BegunInv: a call under way   *)
(* has read a status that its operation asks for.  So a call that changes  *)
(* a request and has read it as it is now has read one that is not yet     *)
(* decided.                                                                *)
(***************************************************************************)
EXTENDS Procurement, Approvals, PurchaseRequests, SumProofs

-----------------------------------------------------------------------------
(* The inductive invariant *)

OrderCalls == [step : {"order"}, order : Nat, to : OrderStatus, approver : Users \cup {NoUser}]
DraftCalls == [step : {"draft"}, order : Nat, received : Nat, receipt : Receipt]
ConfirmCalls ==
    [step : {"confirm", "line", "status", "posting"}, order : Nat, receipt : Nat,
     products : SUBSET Products, received : Nat, status : OrderStatus, running : Int]
DropCalls == [step : {"drop"}, order : Nat, receipt : Nat]
ReturnCalls ==
    [step : {"return", "returning"}, order : Nat, products : SUBSET Products,
     receipt : Nat, lines : Seq(Line), date : Nat \ {NoDate},
     running : [Products -> Int]]
Calls == {NoCall} \cup OrderCalls \cup DraftCalls \cup ConfirmCalls \cup DropCalls \cup ReturnCalls

Busy(s) == call[s] # NoCall
Confirms(s) == call[s].step \in {"confirm", "line", "status", "posting"}
Returns(s) == call[s].step \in {"return", "returning"}
MovesStock(s) == Confirms(s) \/ Returns(s)

References == {"GR", "PURCHASE_RETURN"} \X Nat
Entry == [event : {"GOODS_RECEIPT", "STOCK_ADJUSTMENT_NEGATIVE"}, reference : References,
          amount : Nat, status : {"POSTED"}, auto : {TRUE}]

TypesOK ==
    /\ orders \in Seq(Order) /\ receipts \in Seq(Receipt) /\ returns \in Seq(Return)
    /\ ledger \in [Products -> Ledgers]
    /\ journal \in Seq(Entry)
    /\ call \in [Sessions -> Calls]
    /\ history \subseteq {"sameOrder", "sameProduct", "backDated", "lineTwice"}

\* Rows name rows that are there.
Places ==
    /\ \A g \in DOMAIN receipts : receipts[g].order \in DOMAIN orders
    /\ \A r \in DOMAIN returns : returns[r].receipt \in {0} \cup DOMAIN receipts

\* So do calls.
Refers(s) ==
    /\ call[s].step \in {"order", "draft"} => call[s].order \in DOMAIN orders
    /\ call[s].step = "draft" =>
          call[s].receipt.order = call[s].order /\ call[s].receipt.status = "DRAFT"
    /\ Confirms(s) \/ call[s].step = "drop" =>
          /\ call[s].receipt \in DOMAIN receipts
          /\ call[s].order = receipts[call[s].receipt].order
    /\ Confirms(s) => call[s].products = {receipts[call[s].receipt].product}
    /\ call[s].step \in {"status", "posting"} =>
          call[s].status \in {"PARTIALLY_RECEIVED", "FULLY_RECEIVED"}
    /\ Returns(s) =>
          /\ call[s].products = ProductsIn(call[s].lines)
          /\ call[s].receipt \in {0} \cup DOMAIN receipts
          /\ call[s].receipt # 0 => call[s].order = receipts[call[s].receipt].order

\* No calls met at an order: what a call has read of it is still so.
Alone == "sameOrder" \notin history
Reads(s) ==
    /\ call[s].step = "order" /\ call[s].to = "CANCELLED" => ConfirmedReceipts(call[s].order) = {}
    /\ call[s].step = "draft" =>
          call[s].received = orders[call[s].order].received[call[s].receipt.product]
    /\ Confirms(s) => ~IsConfirmed(call[s].receipt)
    /\ call[s].step \in {"line", "status", "posting"} =>
          call[s].received = orders[call[s].order].received[receipts[call[s].receipt].product]
    /\ Returns(s) /\ call[s].receipt # 0 =>
          \A i \in DOMAIN call[s].lines : Returnable(call[s].receipt, call[s].lines[i])

\* No calls met at the stock of a product, no row came behind its date: what a call has
\* read of it is still so.
Calm == history \cap {"sameProduct", "backDated"} = {}
Knows(s) ==
    /\ call[s].step = "posting" =>
          call[s].running = ledger[receipts[call[s].receipt].product].sum
    /\ call[s].step = "returning" =>
          \A p \in call[s].products : call[s].running[p] = ledger[p].sum

SessionOK(s) == Refers(s) /\ (Alone => Reads(s)) /\ (Calm => Knows(s))

\* One call at an order, as long as no calls met; one of a transaction's at an order's
\* row in any case.
OneCall == Alone => \A s, t \in Sessions :
    s # t /\ Busy(s) /\ Busy(t) => call[s].order # call[t].order
OneMover == Calm => \A s, t \in Sessions :
    s # t /\ MovesStock(s) /\ MovesStock(t) => call[s].products \cap call[t].products = {}
OnePoster == \A s, t \in Sessions :
    s # t /\ call[s].step = "posting" /\ call[t].step = "posting" => call[s].order # call[t].order

\* The ledger's running quantities.
RunningInv ==
    Calm => \A p \in Products :
        ledger[p].running = ledger[p].sum /\ ledger[p].datedRunning = ledger[p].sum

\* The entries of a receipt.
EntriesOf(g) == {i \in DOMAIN journal : journal[i].reference = <<"GR", g>>}
PostedOnce ==
    /\ \A g \in DOMAIN receipts : IF IsConfirmed(g) THEN \E i : EntriesOf(g) = {i} ELSE EntriesOf(g) = {}
    /\ \A g \in Nat \ DOMAIN receipts : EntriesOf(g) = {}

IInv ==
    /\ TypesOK /\ Places /\ \A s \in Sessions : SessionOK(s)
    /\ OneCall /\ OneMover /\ OnePoster
    /\ ReceivedAddsUp /\ StockFollowsDocuments /\ PostedOnce /\ RunningInv
    /\ ReturnsWithinReceipt /\ CancelledHasNoGoods


-----------------------------------------------------------------------------
(* Calls *)

\* A call's step says what it is, and what it has.
LEMMA CallKinds ==
    ASSUME TypesOK, NEW s \in Sessions
    PROVE  /\ call[s] \in Calls
           /\ Busy(s) <=> call[s].step # "none"
           /\ call[s].step = "order" <=> call[s] \in OrderCalls
           /\ call[s].step = "draft" <=> call[s] \in DraftCalls
           /\ Confirms(s) <=> call[s] \in ConfirmCalls
           /\ call[s].step = "drop" <=> call[s] \in DropCalls
           /\ Returns(s) <=> call[s] \in ReturnCalls
           /\ "order" \in DOMAIN call[s] <=> Busy(s)
           /\ "products" \in DOMAIN call[s] <=> MovesStock(s)
           /\ Busy(s) => call[s].order \in Nat
<1>1. call[s] \in Calls
  BY DEF TypesOK
<1>2. CASE call[s] = NoCall
  BY <1>2 DEF Calls, OrderCalls, DraftCalls, ConfirmCalls, DropCalls, ReturnCalls, NoCall, Busy, Confirms, Returns, MovesStock
<1>3. CASE call[s] \in OrderCalls
  BY <1>3 DEF Calls, OrderCalls, DraftCalls, ConfirmCalls, DropCalls, ReturnCalls, NoCall, Busy, Confirms, Returns, MovesStock
<1>4. CASE call[s] \in DraftCalls
  BY <1>4 DEF Calls, OrderCalls, DraftCalls, ConfirmCalls, DropCalls, ReturnCalls, NoCall, Busy, Confirms, Returns, MovesStock
<1>5. CASE call[s] \in ConfirmCalls
  BY <1>5 DEF Calls, OrderCalls, DraftCalls, ConfirmCalls, DropCalls, ReturnCalls, NoCall, Busy, Confirms, Returns, MovesStock
<1>6. CASE call[s] \in DropCalls
  BY <1>6 DEF Calls, OrderCalls, DraftCalls, ConfirmCalls, DropCalls, ReturnCalls, NoCall, Busy, Confirms, Returns, MovesStock
<1>7. CASE call[s] \in ReturnCalls
  BY <1>7 DEF Calls, OrderCalls, DraftCalls, ConfirmCalls, DropCalls, ReturnCalls, NoCall, Busy, Confirms, Returns, MovesStock
<1> QED BY <1>1, <1>2, <1>3, <1>4, <1>5, <1>6, <1>7 DEF Calls

\* A call that begins alone for its order meets nobody there, nor one that begins alone
\* for its products.
LEMMA BeginsAlone ==
    ASSUME TypesOK, NEW s \in Sessions, NEW c \in Calls \ {NoCall}, Begins(s, c)
    PROVE  /\ call' = [call EXCEPT ![s] = c]
           /\ history \subseteq history' /\ history' \subseteq history \cup {"sameOrder", "sameProduct"}
           /\ Alone' => \A t \in Sessions : t # s /\ Busy(t) => call[t].order # c.order
           /\ Calm' /\ "products" \in DOMAIN c =>
                 \A t \in Sessions : t # s /\ MovesStock(t) => call[t].products \cap c.products = {}
<1> DEFINE others == {call[o] : o \in Sessions \ {s}}
<1>1. call' = [call EXCEPT ![s] = c]
  BY DEF Begins
<1>2. /\ history \subseteq history' /\ history' \subseteq history \cup {"sameOrder", "sameProduct"}
      /\ (\E d \in others : "order" \in DOMAIN d /\ d.order = c.order) => "sameOrder" \in history'
      /\ "products" \in DOMAIN c
         /\ (\E d \in others : "products" \in DOMAIN d /\ d.products \cap c.products # {})
            => "sameProduct" \in history'
  BY DEF Begins
<1>3. \A t \in Sessions : t # s => call[t] \in others
  OBVIOUS
<1>4. ASSUME Alone', NEW t \in Sessions, t # s, Busy(t) PROVE call[t].order # c.order
  <2>1. "order" \in DOMAIN call[t]
    BY <1>4, CallKinds
  <2> HIDE DEF others
  <2> QED BY <1>2, <1>3, <1>4, <2>1 DEF Alone
<1>5. ASSUME Calm', "products" \in DOMAIN c, NEW t \in Sessions, t # s, MovesStock(t)
      PROVE  call[t].products \cap c.products = {}
  <2>1. "products" \in DOMAIN call[t]
    BY <1>5, CallKinds
  <2> HIDE DEF others
  <2> QED BY <1>2, <1>3, <1>5, <2>1 DEF Calm
<1> QED BY <1>1, <1>2, <1>4, <1>5

-----------------------------------------------------------------------------
(* Steps that leave the documents alone *)

Documents == <<orders, receipts, returns, ledger, journal>>

\* What is said of the documents stays true while more may be excepted.
LEMMA DocumentsStay ==
    ASSUME IInv, UNCHANGED Documents, history \subseteq history',
           history' \subseteq {"sameOrder", "sameProduct", "backDated", "lineTwice"},
           call' \in [Sessions -> Calls]
    PROVE  /\ TypesOK' /\ Places'
           /\ ReceivedAddsUp' /\ StockFollowsDocuments' /\ PostedOnce' /\ RunningInv'
           /\ ReturnsWithinReceipt' /\ CancelledHasNoGoods'
<1>1. UNCHANGED <<orders, receipts, returns, ledger, journal>>
  BY DEF Documents
<1>2. TypesOK' /\ Places'
  BY <1>1 DEF IInv, TypesOK, Places
<1>3. ReceivedAddsUp'
  BY <1>1 DEF IInv, ReceivedAddsUp
<1>4. StockFollowsDocuments'
  BY <1>1 DEF IInv, StockFollowsDocuments
<1>5. PostedOnce'
  BY <1>1 DEF IInv, PostedOnce, EntriesOf, IsConfirmed
<1>6. RunningInv'
  BY <1>1 DEF IInv, RunningInv, Calm
<1>7. ReturnsWithinReceipt'
  BY <1>1 DEF IInv, ReturnsWithinReceipt, Returned
<1>8. CancelledHasNoGoods'
  BY <1>1 DEF IInv, CancelledHasNoGoods, ConfirmedReceipts
<1> QED BY <1>2, <1>3, <1>4, <1>5, <1>6, <1>7, <1>8

\* So does what a bystander has read.
LEMMA BystanderStays ==
    ASSUME IInv, UNCHANGED Documents, history \subseteq history',
           NEW t \in Sessions, call'[t] = call[t]
    PROVE  SessionOK(t)'
<1>1. UNCHANGED <<orders, receipts, returns, ledger, journal>> /\ SessionOK(t)
  BY DEF Documents, IInv
<1>2. Refers(t)'
  BY <1>1 DEF SessionOK, Refers, Confirms, Returns
<1>3. Reads(t) => Reads(t)'
  BY <1>1 DEF Reads, Confirms, Returns, Returnable, Returned, ConfirmedReceipts, IsConfirmed
<1>4. Knows(t) => Knows(t)'
  BY <1>1 DEF Knows
<1>5. (Alone' => Alone) /\ (Calm' => Calm)
  BY DEF Alone, Calm
<1> QED BY <1>1, <1>2, <1>3, <1>4, <1>5 DEF SessionOK

\* A call begins.
LEMMA BeginStep ==
    ASSUME IInv, NEW s \in Sessions, Free(s), NEW c \in Calls,
           c.step \in {"order", "draft", "confirm", "drop", "return"},
           Begins(s, c), UNCHANGED Documents,
           Refers(s)', Alone' => Reads(s)'
    PROVE  IInv'
<1>1. TypesOK /\ OneCall /\ OneMover /\ OnePoster
  BY DEF IInv
<1>2. c # NoCall /\ c \in Calls \ {NoCall}
  BY DEF NoCall
<1>3. /\ call' = [call EXCEPT ![s] = c]
      /\ history \subseteq history' /\ history' \subseteq history \cup {"sameOrder", "sameProduct"}
      /\ Alone' => \A t \in Sessions : t # s /\ Busy(t) => call[t].order # c.order
      /\ Calm' /\ "products" \in DOMAIN c =>
            \A t \in Sessions : t # s /\ MovesStock(t) => call[t].products \cap c.products = {}
  BY <1>1, <1>2, BeginsAlone
<1>4. /\ call' \in [Sessions -> Calls] /\ call'[s] = c
      /\ \A t \in Sessions : t # s => call'[t] = call[t]
  BY <1>1, <1>3 DEF TypesOK
<1>5. history' \subseteq {"sameOrder", "sameProduct", "backDated", "lineTwice"}
  BY <1>1, <1>3 DEF TypesOK
<1>6. (Alone' => Alone) /\ (Calm' => Calm)
  BY <1>3 DEF Alone, Calm
<1>7. \A t \in Sessions : SessionOK(t)'
  <2>1. SessionOK(s)'
    <3>1. Knows(s)'
      BY <1>4 DEF Knows
    <3> QED BY <3>1 DEF SessionOK
  <2>2. \A t \in Sessions : t # s => SessionOK(t)'
    BY <1>3, <1>4, BystanderStays
  <2> QED BY <2>1, <2>2
<1>8. OneCall'
  BY <1>1, <1>3, <1>4, <1>6 DEF OneCall, Busy
<1>9. OneMover'
  <2>1. MovesStock(s)' => "products" \in DOMAIN c
    <3>1. c.step \in {"confirm", "line", "status", "posting"} => c \in ConfirmCalls
      BY DEF Calls, OrderCalls, DraftCalls, ConfirmCalls, DropCalls, ReturnCalls, NoCall
    <3>2. c.step \in {"return", "returning"} => c \in ReturnCalls
      BY DEF Calls, OrderCalls, DraftCalls, ConfirmCalls, DropCalls, ReturnCalls, NoCall
    <3> QED BY <1>4, <3>1, <3>2 DEF MovesStock, Confirms, Returns, ConfirmCalls, ReturnCalls
  <2>2. \A t \in Sessions : t # s => (MovesStock(t)' <=> MovesStock(t))
    BY <1>4 DEF MovesStock, Confirms, Returns
  <2> QED BY <1>1, <1>3, <1>4, <1>6, <2>1, <2>2 DEF OneMover
<1>10. OnePoster'
  BY <1>1, <1>4 DEF OnePoster
<1> QED BY <1>3, <1>4, <1>5, <1>7, <1>8, <1>9, <1>10, DocumentsStay DEF IInv

\* A call goes on, or ends, and the documents are as they were.
LEMMA GoesOnStep ==
    ASSUME IInv, NEW s \in Sessions, NEW c \in Calls,
           call' = [call EXCEPT ![s] = c], history' = history, UNCHANGED Documents,
           c # NoCall => Busy(s) /\ c.order = call[s].order,
           MovesStock(s)' => MovesStock(s) /\ c.products = call[s].products,
           c.step = "posting" => ~OrderLocked(c.order),
           c # NoCall => SessionOK(s)'
    PROVE  IInv'
<1>1. TypesOK /\ OneCall /\ OneMover /\ OnePoster
  BY DEF IInv
<1>2. /\ call' \in [Sessions -> Calls] /\ call'[s] = c
      /\ \A t \in Sessions : t # s => call'[t] = call[t]
  BY <1>1 DEF TypesOK
<1>3. history \subseteq history'
      /\ history' \subseteq {"sameOrder", "sameProduct", "backDated", "lineTwice"}
  BY <1>1 DEF TypesOK
<1>4. (Alone' <=> Alone) /\ (Calm' <=> Calm)
  BY DEF Alone, Calm
<1>5. \A t \in Sessions : SessionOK(t)'
  <2>1. c = NoCall => SessionOK(s)'
    BY <1>2 DEF SessionOK, Refers, Reads, Knows, Confirms, Returns, NoCall
  <2>2. \A t \in Sessions : t # s => SessionOK(t)'
    BY <1>2, <1>3, BystanderStays
  <2> QED BY <2>1, <2>2
<1>6. OneCall'
  BY <1>1, <1>2, <1>4 DEF OneCall, Busy
<1>7. OneMover'
  <2>1. \A t \in Sessions : t # s => (MovesStock(t)' <=> MovesStock(t))
    BY <1>2 DEF MovesStock, Confirms, Returns
  <2> QED BY <1>1, <1>2, <1>4, <2>1 DEF OneMover
<1>8. OnePoster'
  BY <1>1, <1>2 DEF OnePoster, OrderLocked
<1> QED BY <1>2, <1>3, <1>5, <1>6, <1>7, <1>8, DocumentsStay DEF IInv

-----------------------------------------------------------------------------
(* Calls that begin *)

\* Orders and receipts have their types.
LEMMA RowTypes ==
    ASSUME IInv
    PROVE  /\ \A o \in DOMAIN orders :
                 /\ o \in Nat /\ orders[o] \in Order
                 /\ orders[o].received \in [Products -> Nat]
                 /\ orders[o].ordered \in [Products -> Nat]
           /\ \A g \in DOMAIN receipts :
                 /\ g \in Nat \ {0} /\ receipts[g] \in Receipt
                 /\ receipts[g].order \in DOMAIN orders /\ receipts[g].product \in Products
                 /\ receipts[g].qty \in Nat \ {0} /\ receipts[g].date \in Nat \ {NoDate}
<1>1. orders \in Seq(Order) /\ receipts \in Seq(Receipt)
      /\ \A g \in DOMAIN receipts : receipts[g].order \in DOMAIN orders
  BY DEF IInv, TypesOK, Places
<1>2. \A o \in DOMAIN orders : o \in Nat /\ orders[o] \in Order
  BY <1>1
<1>3. \A g \in DOMAIN receipts : g \in Nat \ {0} /\ receipts[g] \in Receipt
  BY <1>1
<1>4. \A x \in Order : x.received \in [Products -> Nat] /\ x.ordered \in [Products -> Nat]
  BY DEF Order
<1>5. \A x \in Receipt : x.product \in Products /\ x.qty \in Nat \ {0} /\ x.date \in Nat \ {NoDate}
  BY DEF Receipt
<1> QED BY <1>1, <1>2, <1>3, <1>4, <1>5

\* submit, approve, reject, revise, cancel and close read an order.
LEMMA OrderCallStep ==
    ASSUME IInv, NEW s \in Sessions, NEW o \in DOMAIN orders, NEW to \in OrderStatus,
           NEW a \in Users \cup {NoUser}, OrderCall(s, o, to, a),
           to = "CANCELLED" => ConfirmedReceipts(o) = {}
    PROVE  IInv'
<1> DEFINE c == [step |-> "order", order |-> o, to |-> to, approver |-> a]
<1>1. Free(s) /\ Begins(s, c) /\ UNCHANGED Documents
  BY DEF OrderCall, Documents
<1>2. o \in Nat /\ TypesOK
  BY RowTypes DEF IInv
<1>3. c \in OrderCalls /\ c \in Calls /\ c # NoCall
  BY <1>2 DEF Calls, OrderCalls, NoCall
<1>4. c.step = "order" /\ c.order = o /\ c.to = to
  OBVIOUS
<1>5. UNCHANGED <<orders, receipts>>
  BY <1>1 DEF Documents
<1> HIDE DEF c
<1>6. call'[s] = c
  BY <1>1, <1>2 DEF Begins, TypesOK
<1>7. Refers(s)'
  BY <1>4, <1>5, <1>6 DEF Refers, Confirms, Returns
<1>8. Reads(s)'
  BY <1>4, <1>5, <1>6 DEF Reads, Confirms, Returns, ConfirmedReceipts
<1> QED BY <1>1, <1>3, <1>4, <1>7, <1>8, BeginStep

\* create and receiveGoods read an order.
LEMMA DraftStep ==
    ASSUME IInv, NEW s \in Sessions, NEW o \in DOMAIN orders, NEW b \in ReceiptBodies,
           NEW counted \in BOOLEAN, Free(s), Draft(s, o, b, counted)
    PROVE  IInv'
<1> DEFINE g == NewReceipt(o, b, counted)
           n == orders[o].received[b.product]
           c == [step |-> "draft", order |-> o, received |-> n, receipt |-> g]
<1>1. Begins(s, c) /\ UNCHANGED Documents
  BY DEF Draft, Documents
<1>2. o \in Nat /\ TypesOK /\ orders[o].received \in [Products -> Nat]
  BY RowTypes DEF IInv
<1>3. b \in [product : Products, qty : Nat \ {0}, date : Nat \ {NoDate}]
  BY ProcurementAssumption
<1>4. g \in Receipt /\ g.order = o /\ g.status = "DRAFT" /\ g.product = b.product
  BY <1>2, <1>3 DEF NewReceipt, Receipt
<1>5. n \in Nat
  BY <1>2, <1>3
<1> HIDE DEF g, n
<1>6. c \in DraftCalls /\ c \in Calls /\ c # NoCall
  BY <1>2, <1>4, <1>5 DEF Calls, DraftCalls, NoCall
<1>7. c.step = "draft" /\ c.order = o /\ c.received = n /\ c.receipt = g
  OBVIOUS
<1>8. UNCHANGED <<orders, receipts>>
  BY <1>1 DEF Documents
<1> HIDE DEF c
<1>9. call'[s] = c
  BY <1>1, <1>2 DEF Begins, TypesOK
<1>10. Refers(s)'
  BY <1>4, <1>7, <1>8, <1>9 DEF Refers, Confirms, Returns
<1>11. Reads(s)'
  BY <1>4, <1>7, <1>8, <1>9 DEF Reads, Confirms, Returns, n
<1> QED BY <1>1, <1>6, <1>7, <1>10, <1>11, BeginStep

\* confirm reads a receipt.
LEMMA ConfirmCheckStep ==
    ASSUME IInv, NEW s \in Sessions, NEW g \in DOMAIN receipts, ConfirmCheck(s, g)
    PROVE  IInv'
<1> DEFINE c == Confirming(g)
<1>1. /\ Free(s) /\ receipts[g].status = "DRAFT"
      /\ Begins(s, c) /\ UNCHANGED Documents
  BY DEF ConfirmCheck, Documents
<1>2. /\ g \in Nat /\ receipts[g].order \in Nat /\ receipts[g].product \in Products
      /\ TypesOK
  BY RowTypes DEF IInv
<1>3. c \in ConfirmCalls
  <2>1. "DRAFT" \in OrderStatus
    BY DEF OrderStatus
  <2> QED BY <1>2, <2>1 DEF Confirming, ConfirmCalls
<1>4. /\ c.step = "confirm" /\ c.order = receipts[g].order /\ c.receipt = g
      /\ c.products = {receipts[g].product}
  BY DEF Confirming
<1>5. UNCHANGED <<orders, receipts>>
  BY <1>1 DEF Documents
<1> HIDE DEF c
<1>6. call'[s] = c /\ c \in Calls
  BY <1>1, <1>2, <1>3 DEF Begins, TypesOK, Calls
<1>7. Refers(s)'
  BY <1>4, <1>5, <1>6 DEF Refers, Confirms, Returns
<1>8. Reads(s)'
  BY <1>1, <1>4, <1>5, <1>6 DEF Reads, Confirms, Returns, IsConfirmed
<1> QED BY <1>1, <1>4, <1>6, <1>7, <1>8, BeginStep

\* cancel reads a receipt.
LEMMA DropCheckStep ==
    ASSUME IInv, NEW s \in Sessions, NEW g \in DOMAIN receipts, DropCheck(s, g)
    PROVE  IInv'
<1> DEFINE c == [step |-> "drop", order |-> receipts[g].order, receipt |-> g]
<1>1. Free(s) /\ Begins(s, c) /\ UNCHANGED Documents
  BY DEF DropCheck, Documents
<1>2. g \in Nat /\ receipts[g].order \in Nat /\ TypesOK
  BY RowTypes DEF IInv
<1>3. c \in Calls /\ c.step = "drop" /\ c.order = receipts[g].order /\ c.receipt = g
  BY <1>2 DEF Calls, DropCalls
<1>4. UNCHANGED <<orders, receipts>>
  BY <1>1 DEF Documents
<1> HIDE DEF c
<1>5. call'[s] = c
  BY <1>1, <1>2 DEF Begins, TypesOK
<1>6. Refers(s)'
  BY <1>3, <1>4, <1>5 DEF Refers, Confirms, Returns
<1>7. Reads(s)'
  BY <1>3, <1>4, <1>5 DEF Reads, Confirms, Returns
<1> QED BY <1>1, <1>3, <1>6, <1>7, BeginStep

\* The products of lines.
LEMMA LinesProducts ==
    ASSUME NEW lines \in Seq(Line)
    PROVE  /\ ProductsIn(lines) \in SUBSET Products
           /\ ProductsIn(lines) = {lines[i].product : i \in DOMAIN lines}
           /\ \A i \in DOMAIN lines : lines[i].product \in Products /\ lines[i].qty \in Nat
<1>1. \A i \in DOMAIN lines : lines[i] \in Line
  OBVIOUS
<1>2. \A i \in DOMAIN lines : lines[i].product \in Products /\ lines[i].qty \in Nat
  BY <1>1 DEF Line
<1>3. ProductsIn(lines) = {lines[i].product : i \in DOMAIN lines}
  BY DEF ProductsIn, ToSet
<1> QED BY <1>2, <1>3

\* createReturn reads a receipt, or none.
LEMMA ReturnCheckStep ==
    ASSUME IInv, NEW s \in Sessions, NEW g \in {0} \cup DOMAIN receipts,
           NEW b \in ReturnBodies, ReturnCheck(s, g, b)
    PROVE  IInv'
<1> DEFINE o == IF g = 0 THEN 0 ELSE receipts[g].order
           none == [p \in Products |-> 0]
           c == [step |-> "return", order |-> o, products |-> ProductsIn(b.lines),
                 receipt |-> g, lines |-> b.lines, date |-> b.date, running |-> none]
<1>1. /\ Free(s) /\ Begins(s, c) /\ UNCHANGED Documents
      /\ g # 0 => \A l \in ToSet(b.lines) : Returnable(g, l)
  BY DEF ReturnCheck, Documents
<1>2. g \in Nat /\ o \in Nat /\ TypesOK
  BY RowTypes DEF IInv
<1>3. b.lines \in Seq(Line) /\ b.date \in Nat \ {NoDate}
  BY ProcurementAssumption
<1>4. ProductsIn(b.lines) \in SUBSET Products
  BY <1>3, LinesProducts
<1>5. none \in [Products -> Int]
  OBVIOUS
<1> HIDE DEF o, none
<1>6. c \in ReturnCalls
  BY <1>2, <1>3, <1>4, <1>5 DEF ReturnCalls
<1>7. /\ c.step = "return" /\ c.order = o /\ c.receipt = g /\ c.lines = b.lines
      /\ c.products = ProductsIn(b.lines)
  OBVIOUS
<1>8. UNCHANGED <<orders, receipts, returns>>
  BY <1>1 DEF Documents
<1> HIDE DEF c
<1>9. call'[s] = c /\ c \in Calls
  BY <1>1, <1>2, <1>6 DEF Begins, TypesOK, Calls
<1>10. Refers(s)'
  BY <1>7, <1>8, <1>9 DEF Refers, Confirms, Returns, o
<1>11. Reads(s)'
  <2>1. g # 0 => \A i \in DOMAIN b.lines : Returnable(g, b.lines[i])'
    BY <1>1, <1>8 DEF ToSet, Returnable, Returned
  <2> QED BY <1>7, <1>8, <1>9, <2>1 DEF Reads, Confirms, Returns
<1> QED BY <1>1, <1>7, <1>9, <1>10, <1>11, BeginStep

-----------------------------------------------------------------------------
(* Calls that go on, or end without a change *)

\* The transaction of confirm reads the line.
LEMMA ConfirmReadLineStep ==
    ASSUME IInv, NEW s \in Sessions, ConfirmReadLine(s)
    PROVE  IInv'
<1> DEFINE g == call[s].receipt
           o == call[s].order
           n == orders[o].received[receipts[g].product]
           d == [call[s] EXCEPT !.step = "line", !.received = n]
<1>1. /\ call[s].step = "confirm" /\ UNCHANGED Documents /\ history' = history
      /\ call' = [call EXCEPT ![s].step = "line", ![s].received = n]
  BY DEF ConfirmReadLine, Documents
<1>2. TypesOK /\ SessionOK(s) /\ call \in [Sessions -> Calls]
  BY DEF IInv, TypesOK
<1>3. Confirms(s) /\ Busy(s) /\ call[s] \in ConfirmCalls /\ MovesStock(s)
  BY <1>1, <1>2, CallKinds DEF Confirms, MovesStock
<1>4. /\ g \in DOMAIN receipts /\ o = receipts[g].order /\ call[s].products = {receipts[g].product}
      /\ Alone => ~IsConfirmed(g)
  BY <1>2, <1>3 DEF SessionOK, Refers, Reads
<1>5. n \in Nat
  BY <1>4, RowTypes
<1>6. call' = [call EXCEPT ![s] = d] /\ d.received = n
  BY <1>1, <1>3 DEF ConfirmCalls
<1>7. /\ d \in ConfirmCalls /\ d \in Calls /\ d # NoCall
      /\ d.step = "line" /\ d.order = o /\ d.receipt = g /\ d.products = call[s].products
  <2>1. /\ d \in ConfirmCalls /\ d.step = "line" /\ d.order = call[s].order
        /\ d.receipt = call[s].receipt /\ d.products = call[s].products
    <3> HIDE DEF g, o, n
    <3> QED BY <1>3, <1>5 DEF ConfirmCalls
  <2> QED BY <2>1 DEF Calls, ConfirmCalls, NoCall
<1>8. UNCHANGED <<orders, receipts, returns>> /\ (Alone' <=> Alone)
  BY <1>1 DEF Documents, Alone
<1> HIDE DEF d
<1>9. call'[s] = d
  BY <1>2, <1>6
<1>10. SessionOK(s)'
  <2>1. Refers(s)'
    BY <1>4, <1>7, <1>8, <1>9 DEF Refers, Confirms, Returns
  <2>2. Alone' => Reads(s)'
    BY <1>4, <1>6, <1>7, <1>8, <1>9 DEF Reads, Confirms, Returns, IsConfirmed
  <2>3. Knows(s)'
    BY <1>7, <1>9 DEF Knows
  <2> QED BY <2>1, <2>2, <2>3 DEF SessionOK
<1>11. d.order = call[s].order /\ d.step # "posting"
  BY <1>7 DEF o
<1> HIDE DEF g, o, n
<1> QED BY <1>1, <1>3, <1>6, <1>7, <1>10, <1>11, GoesOnStep

\* The status worked out is that of an order that has received something.
LEMMA FilledSome ==
    ASSUME NEW o, NEW received, NEW p \in Products, received[p] > 0
    PROVE  FilledStatus(o, received) \in {"PARTIALLY_RECEIVED", "FULLY_RECEIVED"}
BY DEF FilledStatus

\* It updates the line and works out the status.
LEMMA ConfirmUpdateLineStep ==
    ASSUME IInv, NEW s \in Sessions, ConfirmUpdateLine(s)
    PROVE  IInv'
<1> DEFINE g == call[s].receipt
           o == call[s].order
           p == receipts[g].product
           x == FilledStatus(o, SeenLines(s))
           d == [call[s] EXCEPT !.step = "status", !.status = x]
<1>1. /\ call[s].step = "line" /\ UNCHANGED Documents /\ history' = history
      /\ call' = [call EXCEPT ![s].step = "status", ![s].status = x]
  BY DEF ConfirmUpdateLine, Documents
<1>2. TypesOK /\ SessionOK(s) /\ call \in [Sessions -> Calls]
  BY DEF IInv, TypesOK
<1>3. Confirms(s) /\ Busy(s) /\ call[s] \in ConfirmCalls /\ MovesStock(s)
  BY <1>1, <1>2, CallKinds DEF Confirms, MovesStock
<1>4. /\ g \in DOMAIN receipts /\ o = receipts[g].order /\ call[s].products = {p}
      /\ Alone => ~IsConfirmed(g) /\ call[s].received = orders[o].received[p]
  BY <1>1, <1>2, <1>3 DEF SessionOK, Refers, Reads
<1>5. x \in {"PARTIALLY_RECEIVED", "FULLY_RECEIVED"}
  <2>1. o \in DOMAIN orders /\ receipts[g].qty \in Nat \ {0} /\ p \in Products
    BY <1>4, RowTypes
  <2>2. call[s].received \in Nat /\ orders[o].received \in [Products -> Nat]
    BY <1>3, <2>1, RowTypes DEF ConfirmCalls
  <2>3. SeenLines(s) = [orders[o].received EXCEPT ![p] = call[s].received + receipts[g].qty]
    BY DEF SeenLines, Filled
  <2> HIDE DEF g, o, p
  <2>4. SeenLines(s)[p] = call[s].received + receipts[g].qty
    BY <2>1, <2>2, <2>3
  <2>5. SeenLines(s)[p] > 0
    BY <2>1, <2>2, <2>4
  <2> QED BY <2>1, <2>5, FilledSome
<1> HIDE DEF x
<1>6. call' = [call EXCEPT ![s] = d] /\ d.status = x /\ d.received = call[s].received
  BY <1>1, <1>3 DEF ConfirmCalls
<1>7. /\ d \in ConfirmCalls /\ d \in Calls /\ d # NoCall
      /\ d.step = "status" /\ d.order = o /\ d.receipt = g /\ d.products = call[s].products
  <2>1. /\ d \in ConfirmCalls /\ d.step = "status" /\ d.order = call[s].order
        /\ d.receipt = call[s].receipt /\ d.products = call[s].products
    <3> HIDE DEF g, o, p
    <3> QED BY <1>3, <1>5 DEF ConfirmCalls, OrderStatus
  <2> QED BY <2>1 DEF Calls, ConfirmCalls, NoCall
<1>8. UNCHANGED <<orders, receipts, returns>> /\ (Alone' <=> Alone)
  BY <1>1 DEF Documents, Alone
<1> HIDE DEF d
<1>9. call'[s] = d
  BY <1>2, <1>6
<1>10. SessionOK(s)'
  <2>1. Refers(s)'
    BY <1>4, <1>5, <1>6, <1>7, <1>8, <1>9 DEF Refers, Confirms, Returns
  <2>2. Alone' => Reads(s)'
    BY <1>4, <1>6, <1>7, <1>8, <1>9 DEF Reads, Confirms, Returns, IsConfirmed
  <2>3. Knows(s)'
    BY <1>7, <1>9 DEF Knows
  <2> QED BY <2>1, <2>2, <2>3 DEF SessionOK
<1> QED BY <1>1, <1>3, <1>6, <1>7, <1>10, GoesOnStep

\* It updates the order, which nobody else has locked, and reads the stock.
LEMMA ConfirmUpdateOrderStep ==
    ASSUME IInv, NEW s \in Sessions, ConfirmUpdateOrder(s)
    PROVE  IInv'
<1> DEFINE g == call[s].receipt
           o == call[s].order
           p == receipts[g].product
           r == ledger[p].datedRunning
           d == [call[s] EXCEPT !.step = "posting", !.running = r]
<1>1. /\ call[s].step = "status" /\ UNCHANGED Documents /\ history' = history
      /\ call' = [call EXCEPT ![s].step = "posting", ![s].running = r]
      /\ ~OrderLocked(o)
  BY DEF ConfirmUpdateOrder, Documents
<1>2. TypesOK /\ SessionOK(s) /\ RunningInv /\ call \in [Sessions -> Calls]
  BY DEF IInv, TypesOK
<1>3. Confirms(s) /\ Busy(s) /\ call[s] \in ConfirmCalls /\ MovesStock(s)
  BY <1>1, <1>2, CallKinds DEF Confirms, MovesStock
<1>4. /\ g \in DOMAIN receipts /\ o = receipts[g].order /\ call[s].products = {p}
      /\ call[s].status \in {"PARTIALLY_RECEIVED", "FULLY_RECEIVED"}
      /\ Alone => ~IsConfirmed(g) /\ call[s].received = orders[o].received[p]
  BY <1>1, <1>2, <1>3 DEF SessionOK, Refers, Reads
<1>5. p \in Products /\ r \in Int /\ (Calm => r = ledger[p].sum)
  <2>1. p \in Products
    BY <1>4, RowTypes
  <2>2. ledger[p] \in Ledgers
    BY <1>2, <2>1 DEF TypesOK
  <2> QED BY <1>2, <2>1, <2>2 DEF Ledgers, RunningInv
<1> HIDE DEF r
<1>6. call' = [call EXCEPT ![s] = d] /\ d.running = r /\ d.received = call[s].received
      /\ d.status = call[s].status
  BY <1>1, <1>3 DEF ConfirmCalls
<1>7. /\ d \in ConfirmCalls /\ d \in Calls /\ d # NoCall
      /\ d.step = "posting" /\ d.order = o /\ d.receipt = g /\ d.products = call[s].products
  <2>1. /\ d \in ConfirmCalls /\ d.step = "posting" /\ d.order = call[s].order
        /\ d.receipt = call[s].receipt /\ d.products = call[s].products
    <3> HIDE DEF g, o, p
    <3> QED BY <1>3, <1>5 DEF ConfirmCalls
  <2> QED BY <2>1 DEF Calls, ConfirmCalls, NoCall
<1>8. UNCHANGED <<orders, receipts, returns, ledger>> /\ (Alone' <=> Alone) /\ (Calm' <=> Calm)
  BY <1>1 DEF Documents, Alone, Calm
<1> HIDE DEF d
<1>9. call'[s] = d
  BY <1>2, <1>6
<1>10. SessionOK(s)'
  <2>1. Refers(s)'
    BY <1>4, <1>6, <1>7, <1>8, <1>9 DEF Refers, Confirms, Returns
  <2>2. Alone' => Reads(s)'
    BY <1>4, <1>6, <1>7, <1>8, <1>9 DEF Reads, Confirms, Returns, IsConfirmed
  <2>3. Calm' => Knows(s)'
    BY <1>5, <1>6, <1>7, <1>8, <1>9 DEF Knows
  <2> QED BY <2>1, <2>2, <2>3 DEF SessionOK
<1> QED BY <1>1, <1>3, <1>6, <1>7, <1>10, GoesOnStep

\* A return reads the stock.
LEMMA ReturnReadStep ==
    ASSUME IInv, NEW s \in Sessions, ReturnRead(s)
    PROVE  IInv'
<1> DEFINE c == call[s]
           r == [p \in Products |-> IF p \in c.products THEN ledger[p].running ELSE 0]
           d == [c EXCEPT !.step = "returning", !.running = r]
<1>1. /\ call[s].step = "return" /\ UNCHANGED Documents /\ history' = history
      /\ call' = [call EXCEPT ![s].step = "returning", ![s].running = r]
  BY DEF ReturnRead, Documents
<1>2. TypesOK /\ SessionOK(s) /\ RunningInv /\ call \in [Sessions -> Calls]
  BY DEF IInv, TypesOK
<1>3. Returns(s) /\ Busy(s) /\ c \in ReturnCalls /\ MovesStock(s)
  BY <1>1, <1>2, CallKinds DEF Returns, MovesStock
<1>4. /\ c.products = ProductsIn(c.lines) /\ c.receipt \in {0} \cup DOMAIN receipts
      /\ c.receipt # 0 => c.order = receipts[c.receipt].order
      /\ Alone /\ c.receipt # 0 => \A i \in DOMAIN c.lines : Returnable(c.receipt, c.lines[i])
  BY <1>2, <1>3 DEF SessionOK, Refers, Reads
<1>5. r \in [Products -> Int] /\ (Calm => \A p \in c.products : r[p] = ledger[p].sum)
  <2>1. \A p \in Products : ledger[p] \in Ledgers /\ ledger[p].running \in Int
    BY <1>2 DEF TypesOK, Ledgers
  <2>2. c.products \subseteq Products
    BY <1>3 DEF ReturnCalls
  <2> HIDE DEF c
  <2> QED BY <1>2, <2>1, <2>2 DEF RunningInv
<1> HIDE DEF r
<1>6. /\ call' = [call EXCEPT ![s] = d]
      /\ d \in ReturnCalls /\ d.step = "returning" /\ d.running = r
      /\ d.order = c.order /\ d.receipt = c.receipt /\ d.products = c.products /\ d.lines = c.lines
  BY <1>1, <1>3, <1>5 DEF ReturnCalls
<1>7. d \in Calls /\ d # NoCall
  BY <1>6 DEF Calls, NoCall, ReturnCalls
<1>8. UNCHANGED <<orders, receipts, returns, ledger>> /\ (Alone' <=> Alone) /\ (Calm' <=> Calm)
  BY <1>1 DEF Documents, Alone, Calm
<1> HIDE DEF d
<1>9. call'[s] = d
  BY <1>2, <1>6
<1> HIDE DEF c
<1>10. SessionOK(s)'
  <2>1. Refers(s)'
    BY <1>4, <1>6, <1>8, <1>9 DEF Refers, Confirms, Returns
  <2>2. Alone' => Reads(s)'
    <3>1. \A g, l : Returnable(g, l)' <=> Returnable(g, l)
      BY <1>8 DEF Returnable, Returned
    <3> QED BY <1>4, <1>6, <1>8, <1>9, <3>1 DEF Reads, Confirms, Returns
  <2>3. Calm' => Knows(s)'
    BY <1>5, <1>6, <1>8, <1>9 DEF Knows
  <2> QED BY <2>1, <2>2, <2>3 DEF SessionOK
<1> QED BY <1>1, <1>3, <1>6, <1>7, <1>10, GoesOnStep DEF c

\* A call that is refused, or fails, is over.
LEMMA EndStep ==
    ASSUME IInv, NEW s \in Sessions, ReturnRefused(s) \/ CallFails(s)
    PROVE  IInv'
<1>1. Ends(s) /\ UNCHANGED Documents /\ history' = history
  BY DEF ReturnRefused, CallFails, Documents
<1>2. call' = [call EXCEPT ![s] = NoCall] /\ NoCall \in Calls /\ NoCall.step = "none"
  BY <1>1 DEF Ends, Calls, NoCall
<1>3. ~MovesStock(s)'
  BY <1>2 DEF IInv, TypesOK, MovesStock, Confirms, Returns
<1> QED BY <1>1, <1>2, <1>3, GoesOnStep

-----------------------------------------------------------------------------
(* What lines, receipts and returns add up to *)

\* The quantity of a product on lines.
LEMMA LinesQtyType ==
    ASSUME NEW lines \in Seq(Line), NEW p
    PROVE  /\ LinesQty(lines, p) \in Nat
           /\ p \notin ProductsIn(lines) => LinesQty(lines, p) = 0
<1> DEFINE W == [l \in Line |-> IF l.product = p THEN l.qty ELSE 0]
<1>1. \A l \in Line : l.qty \in Nat
  BY DEF Line
<1>2. W \in [Line -> Int] /\ \A l \in Line : W[l] >= 0
  BY <1>1
<1>3. \A i \in DOMAIN lines : lines[i] \in Line
  OBVIOUS
<1>4. LinesQty(lines, p) = Weigh(lines, W)
  <2>1. [i \in DOMAIN lines |-> IF lines[i].product = p THEN lines[i].qty ELSE 0]
          = [i \in DOMAIN lines |-> W[lines[i]]]
    BY <1>3
  <2> QED BY <2>1 DEF LinesQty, Weigh
<1>5. p \notin ProductsIn(lines) => \A i \in DOMAIN lines : W[lines[i]] = 0
  BY <1>3, LinesProducts
<1> HIDE DEF W
<1> QED BY <1>2, <1>3, <1>4, <1>5, WeighType

\* Lines of one product that name it once are one line at most.
LEMMA OneLineQty ==
    ASSUME NEW lines \in Seq(Line), NEW p, \A i \in DOMAIN lines : lines[i].product = p,
           ~(Cardinality(ProductsIn(lines)) < Len(lines))
    PROVE  \/ LinesQty(lines, p) = 0
           \/ 1 \in DOMAIN lines /\ LinesQty(lines, p) = lines[1].qty
<1>1. ProductsIn(lines) \subseteq {p}
  BY LinesProducts
<1>2. Cardinality(ProductsIn(lines)) <= 1
  <2>1. IsFiniteSet({p}) /\ Cardinality({p}) = 1
    BY FS_Singleton
  <2> QED BY <1>1, <2>1, FS_Subset
<1>3. Len(lines) \in Nat /\ DOMAIN lines = 1..Len(lines)
  OBVIOUS
<1>4. Cardinality(ProductsIn(lines)) \in Nat
  <2>1. IsFiniteSet(ProductsIn(lines))
    BY <1>1, FS_Singleton, FS_Subset
  <2> QED BY <2>1, FS_CardinalityType
<1>5. Len(lines) <= 1
  BY <1>2, <1>3, <1>4
<1> DEFINE q == [i \in DOMAIN lines |-> IF lines[i].product = p THEN lines[i].qty ELSE 0]
<1>6. LinesQty(lines, p) = SumFunctionOnSet(q, DOMAIN lines)
  BY DEF LinesQty, SumFunction
<1>7. CASE Len(lines) = 0
  <2>1. DOMAIN lines = {}
    BY <1>3, <1>7
  <2> HIDE DEF q
  <2> QED BY <1>6, <2>1, SumEmpty
<1>8. CASE Len(lines) = 1
  <2>1. DOMAIN lines = {} \cup {1} /\ 1 \in DOMAIN lines
    BY <1>3, <1>8
  <2>2. q[1] = lines[1].qty /\ lines[1].qty \in Nat
    BY <2>1, LinesProducts
  <2>3. SumFunctionOnSet(q, {} \cup {1}) = SumFunctionOnSet(q, {}) + q[1]
    <3> HIDE DEF q
    <3>1. IsFiniteSet({}) /\ 1 \notin {} /\ \A y \in {} \cup {1} : q[y] \in Int
      BY <2>2, FS_EmptySet
    <3> QED BY <3>1, SumInsert
  <2> HIDE DEF q
  <2> QED BY <1>6, <2>1, <2>2, <2>3, SumEmpty
<1> QED BY <1>3, <1>5, <1>7, <1>8

CountsW(o, p) == [row \in Receipt |-> CountsFor(row, o, p)]
BringsW(p) == [row \in Receipt |-> Brings(row, p)]
TakesW(p) == [r \in Return |-> LinesQty(r.lines, p)]
FromW(g, p) == [r \in Return |-> IF r.receipt = g THEN LinesQty(r.lines, p) ELSE 0]

\* The sums over receipts.
LEMMA ReceiptSums ==
    ASSUME NEW rows \in Seq(Receipt), NEW p, NEW o
    PROVE  /\ CountsW(o, p) \in [Receipt -> Int] /\ BringsW(p) \in [Receipt -> Int]
           /\ SumFunction([g \in DOMAIN rows |-> CountsFor(rows[g], o, p)]) = Weigh(rows, CountsW(o, p))
           /\ SumFunction([g \in DOMAIN rows |-> Brings(rows[g], p)]) = Weigh(rows, BringsW(p))
<1>1. \A row \in Receipt : CountsFor(row, o, p) \in Int /\ Brings(row, p) \in Int
  BY DEF Receipt, CountsFor, Brings
<1>2. CountsW(o, p) \in [Receipt -> Int] /\ BringsW(p) \in [Receipt -> Int]
  BY <1>1 DEF CountsW, BringsW
<1>3. \A g \in DOMAIN rows : rows[g] \in Receipt
  OBVIOUS
<1>4. /\ [g \in DOMAIN rows |-> CountsFor(rows[g], o, p)] = [g \in DOMAIN rows |-> CountsW(o, p)[rows[g]]]
      /\ [g \in DOMAIN rows |-> Brings(rows[g], p)] = [g \in DOMAIN rows |-> BringsW(p)[rows[g]]]
  BY <1>3 DEF CountsW, BringsW
<1> QED BY <1>2, <1>4 DEF Weigh

\* The sums over returns.
LEMMA ReturnSums ==
    ASSUME NEW rows \in Seq(Return), NEW p, NEW g
    PROVE  /\ TakesW(p) \in [Return -> Int] /\ FromW(g, p) \in [Return -> Int]
           /\ \A r \in Return : FromW(g, p)[r] >= 0
           /\ SumFunction([r \in DOMAIN rows |-> LinesQty(rows[r].lines, p)]) = Weigh(rows, TakesW(p))
           /\ SumFunction([r \in DOMAIN rows |->
                 IF rows[r].receipt = g THEN LinesQty(rows[r].lines, p) ELSE 0]) = Weigh(rows, FromW(g, p))
<1>1. \A r \in Return : LinesQty(r.lines, p) \in Nat
  BY LinesQtyType DEF Return
<1>2. TakesW(p) \in [Return -> Int] /\ FromW(g, p) \in [Return -> Int]
      /\ \A r \in Return : FromW(g, p)[r] >= 0
  BY <1>1 DEF TakesW, FromW
<1>3. \A r \in DOMAIN rows : rows[r] \in Return
  OBVIOUS
<1>4. /\ [r \in DOMAIN rows |-> LinesQty(rows[r].lines, p)] = [r \in DOMAIN rows |-> TakesW(p)[rows[r]]]
      /\ [r \in DOMAIN rows |-> IF rows[r].receipt = g THEN LinesQty(rows[r].lines, p) ELSE 0]
           = [r \in DOMAIN rows |-> FromW(g, p)[rows[r]]]
  BY <1>3 DEF TakesW, FromW
<1> QED BY <1>2, <1>4 DEF Weigh

-----------------------------------------------------------------------------
(* Steps that write the documents *)

\* What a call has read of its order and its receipts is still so.
OrderStays(t) ==
    Alone' /\ Busy(t) =>
        /\ call[t].order \in DOMAIN orders =>
              orders'[call[t].order].received = orders[call[t].order].received
        /\ \A g \in DOMAIN receipts : receipts[g].order = call[t].order =>
              /\ receipts'[g].status = receipts[g].status
              /\ \A p : Returned(g, p)' = Returned(g, p)
        /\ \A o : o = call[t].order /\ ConfirmedReceipts(o) = {} => ConfirmedReceipts(o)' = {}

\* So is what it has read of the stock of its products.
StockStays(t) ==
    Calm' /\ MovesStock(t) => \A p \in call[t].products : ledger'[p].sum = ledger[p].sum

\* A row keeps what it is for.
RowsStay ==
    /\ DOMAIN orders \subseteq DOMAIN orders' /\ DOMAIN receipts \subseteq DOMAIN receipts'
    /\ \A g \in DOMAIN receipts :
          /\ receipts'[g].order = receipts[g].order
          /\ receipts'[g].product = receipts[g].product
          /\ receipts'[g].qty = receipts[g].qty

LEMMA Bystander ==
    ASSUME IInv, NEW t \in Sessions, call'[t] = call[t], history \subseteq history',
           RowsStay, OrderStays(t), StockStays(t)
    PROVE  SessionOK(t)'
<1>1. SessionOK(t) /\ (Alone' => Alone) /\ (Calm' => Calm) /\ TypesOK
  BY DEF IInv, Alone, Calm
<1>2. call[t].step = "none" \/ Busy(t)
  BY <1>1, CallKinds
<1>3. Refers(t)'
  BY <1>1 DEF SessionOK, Refers, Confirms, Returns, RowsStay
<1>4. Alone' => Reads(t)'
  <2> SUFFICES ASSUME Alone' PROVE Reads(t)'
    OBVIOUS
  <2>1. Reads(t) /\ Refers(t)
    BY <1>1 DEF SessionOK
  <2>2. CASE call[t].step = "none"
    BY <2>2 DEF Reads, Confirms, Returns
  <2>3. CASE Busy(t)
    <3>1. /\ call[t].order \in DOMAIN orders =>
                orders'[call[t].order].received = orders[call[t].order].received
          /\ \A g \in DOMAIN receipts : receipts[g].order = call[t].order =>
                /\ receipts'[g].status = receipts[g].status
                /\ \A p : Returned(g, p)' = Returned(g, p)
          /\ \A o : o = call[t].order /\ ConfirmedReceipts(o) = {} => ConfirmedReceipts(o)' = {}
      BY <2>3 DEF OrderStays
    <3>2. \A g \in DOMAIN receipts : receipts[g].order \in DOMAIN orders
      BY DEF IInv, Places
    <3>3. (call[t].step = "order" /\ call[t].to = "CANCELLED" => ConfirmedReceipts(call[t].order) = {})'
      BY <2>1, <3>1 DEF Reads
    <3>4. (call[t].step = "draft" =>
             call[t].received = orders[call[t].order].received[call[t].receipt.product])'
      BY <2>1, <3>1 DEF Reads, Refers
    <3>5. /\ (Confirms(t) => ~IsConfirmed(call[t].receipt))'
          /\ (call[t].step \in {"line", "status", "posting"} =>
                call[t].received = orders[call[t].order].received[receipts[call[t].receipt].product])'
      BY <2>1, <3>1, <3>2 DEF Reads, Refers, Confirms, IsConfirmed, RowsStay
    <3>6. (Returns(t) /\ call[t].receipt # 0 =>
             \A i \in DOMAIN call[t].lines : Returnable(call[t].receipt, call[t].lines[i]))'
      <4> SUFFICES ASSUME Returns(t), call[t].receipt # 0
                   PROVE  \A i \in DOMAIN call[t].lines :
                              Returnable(call[t].receipt, call[t].lines[i])'
        BY DEF Returns
      <4>1. /\ call[t].receipt \in DOMAIN receipts
            /\ receipts[call[t].receipt].order = call[t].order
        BY <2>1 DEF Refers
      <4>2. \A l : Returnable(call[t].receipt, l) => Returnable(call[t].receipt, l)'
        BY <3>1, <4>1 DEF Returnable, RowsStay
      <4> QED BY <2>1, <4>2 DEF Reads
    <3> QED BY <3>3, <3>4, <3>5, <3>6 DEF Reads
  <2> QED BY <1>2, <2>2, <2>3
<1>5. Calm' => Knows(t)'
  <2> SUFFICES ASSUME Calm' PROVE Knows(t)'
    OBVIOUS
  <2>1. Knows(t) /\ Refers(t)
    BY <1>1 DEF SessionOK
  <2>2. call[t].step = "posting" =>
          call[t].receipt \in DOMAIN receipts /\ receipts[call[t].receipt].product \in call[t].products
    BY <2>1 DEF Refers, Confirms
  <2> QED BY <2>1, <2>2 DEF Knows, StockStays, MovesStock, Confirms, Returns, RowsStay
<1> QED BY <1>3, <1>4, <1>5 DEF SessionOK

\* The call that writes is over then.
LEMMA CallOver ==
    ASSUME IInv, NEW s \in Sessions, Ends(s), history \subseteq history'
    PROVE  /\ call' \in [Sessions -> Calls] /\ SessionOK(s)'
           /\ \A t \in Sessions : t # s => call'[t] = call[t]
           /\ OneCall' /\ OneMover' /\ OnePoster'
<1>1. TypesOK /\ OneCall /\ OneMover /\ OnePoster
      /\ (Alone' => Alone) /\ (Calm' => Calm)
  BY DEF IInv, Alone, Calm
<1>2. NoCall \in Calls /\ NoCall.step = "none"
  BY DEF Calls, NoCall
<1>3. /\ call' \in [Sessions -> Calls] /\ call'[s] = NoCall
      /\ \A t \in Sessions : t # s => call'[t] = call[t]
  BY <1>1, <1>2 DEF Ends, TypesOK
<1>4. SessionOK(s)'
  BY <1>2, <1>3 DEF SessionOK, Refers, Reads, Knows, Confirms, Returns
<1>5. OneCall'
  BY <1>1, <1>3 DEF OneCall, Busy
<1>6. OneMover'
  BY <1>1, <1>2, <1>3 DEF OneMover, MovesStock, Confirms, Returns
<1>7. OnePoster'
  BY <1>1, <1>2, <1>3 DEF OnePoster
<1> QED BY <1>3, <1>4, <1>5, <1>6, <1>7

\* The sums that the properties are about, in the form of the lemmas.
LEMMA SumForms ==
    ASSUME TypesOK
    PROVE  /\ ReceivedAddsUp <=> (Alone => \A o \in DOMAIN orders, p \in Products :
                 orders[o].received[p] = Weigh(receipts, CountsW(o, p)))
           /\ StockFollowsDocuments <=> (Alone => \A p \in Products :
                 ledger[p].sum = Weigh(receipts, BringsW(p)) - Weigh(returns, TakesW(p)))
           /\ \A g, p : Returned(g, p) = Weigh(returns, FromW(g, p))
           /\ ReturnsWithinReceipt <=> (history \cap {"sameOrder", "lineTwice"} = {} =>
                 \A g \in DOMAIN receipts :
                     Weigh(returns, FromW(g, receipts[g].product)) <= receipts[g].qty)
<1>1. receipts \in Seq(Receipt) /\ returns \in Seq(Return)
  BY DEF TypesOK
<1>2. \A o, p : SumFunction([g \in DOMAIN receipts |-> CountsFor(receipts[g], o, p)])
                  = Weigh(receipts, CountsW(o, p))
  BY <1>1, ReceiptSums
<1>3. \A p : SumFunction([g \in DOMAIN receipts |-> Brings(receipts[g], p)])
                  = Weigh(receipts, BringsW(p))
  BY <1>1, ReceiptSums
<1>4. \A p : SumFunction([r \in DOMAIN returns |-> LinesQty(returns[r].lines, p)])
                  = Weigh(returns, TakesW(p))
  BY <1>1, ReturnSums
<1>5. \A g, p : Returned(g, p) = Weigh(returns, FromW(g, p))
  BY <1>1, ReturnSums DEF Returned
<1>6. ReturnsWithinReceipt <=> (history \cap {"sameOrder", "lineTwice"} = {} =>
        \A g \in DOMAIN receipts :
            Weigh(returns, FromW(g, receipts[g].product)) <= receipts[g].qty)
  BY <1>5 DEF ReturnsWithinReceipt
<1> QED BY <1>2, <1>3, <1>4, <1>5, <1>6 DEF ReceivedAddsUp, StockFollowsDocuments, Alone

\* And after a step.
LEMMA SumFormsNext ==
    ASSUME TypesOK'
    PROVE  /\ ReceivedAddsUp' <=> (Alone' => \A o \in DOMAIN orders', p \in Products :
                 orders'[o].received[p] = Weigh(receipts', CountsW(o, p)))
           /\ StockFollowsDocuments' <=> (Alone' => \A p \in Products :
                 ledger'[p].sum = Weigh(receipts', BringsW(p)) - Weigh(returns', TakesW(p)))
           /\ \A g, p : Returned(g, p)' = Weigh(returns', FromW(g, p))
           /\ ReturnsWithinReceipt' <=> (history' \cap {"sameOrder", "lineTwice"} = {} =>
                 \A g \in DOMAIN receipts' :
                     Weigh(returns', FromW(g, receipts'[g].product)) <= receipts'[g].qty)
<1>1. receipts' \in Seq(Receipt) /\ returns' \in Seq(Return)
  BY DEF TypesOK
<1>2. \A o, p : SumFunction([g \in DOMAIN receipts' |-> CountsFor(receipts'[g], o, p)])
                  = Weigh(receipts', CountsW(o, p))
  BY <1>1, ReceiptSums
<1>3. \A p : SumFunction([g \in DOMAIN receipts' |-> Brings(receipts'[g], p)])
                  = Weigh(receipts', BringsW(p))
  BY <1>1, ReceiptSums
<1>4. \A p : SumFunction([r \in DOMAIN returns' |-> LinesQty(returns'[r].lines, p)])
                  = Weigh(returns', TakesW(p))
  BY <1>1, ReturnSums
<1>5. \A g, p : Returned(g, p)' = Weigh(returns', FromW(g, p))
  BY <1>1, ReturnSums DEF Returned
<1>6. ReturnsWithinReceipt' <=> (history' \cap {"sameOrder", "lineTwice"} = {} =>
        \A g \in DOMAIN receipts' :
            Weigh(returns', FromW(g, receipts'[g].product)) <= receipts'[g].qty)
  BY <1>5 DEF ReturnsWithinReceipt
<1> QED BY <1>2, <1>3, <1>4, <1>5, <1>6 DEF ReceivedAddsUp, StockFollowsDocuments, Alone

\* An order is created: no receipt is for it yet.
LEMMA CreateOrderStep ==
    ASSUME IInv, NEW s \in Sessions, NEW u \in Users, NEW b \in OrderBodies,
           CreateOrder(s, u, b)
    PROVE  IInv'
<1> DEFINE q == Len(orders) + 1
           new == [status |-> "DRAFT", creator |-> u, approver |-> NoUser,
                   ordered |-> b, received |-> [p \in Products |-> 0]]
<1>1. /\ orders' = Append(orders, new)
      /\ UNCHANGED <<receipts, returns, ledger, journal, call, history>>
  BY DEF CreateOrder
<1>2. TypesOK /\ Places
  BY DEF IInv
<1>3. new \in Order /\ \A p \in Products : new.received[p] = 0
  BY ProcurementAssumption DEF Order, OrderStatus
<1> HIDE DEF new
<1>4. /\ q \in Nat /\ q \notin DOMAIN orders /\ DOMAIN orders' = DOMAIN orders \cup {q}
      /\ orders'[q] = new /\ \A o \in DOMAIN orders : orders'[o] = orders[o]
  BY <1>1, <1>2 DEF TypesOK
<1>5. TypesOK' /\ Places'
  BY <1>1, <1>2, <1>3, <1>4 DEF TypesOK, Places
<1>6. \A t \in Sessions : SessionOK(t)'
  <2>1. RowsStay
    BY <1>1, <1>4 DEF RowsStay
  <2>2. \A t \in Sessions : OrderStays(t) /\ StockStays(t)
    BY <1>1, <1>4 DEF OrderStays, StockStays, ConfirmedReceipts, Returned
  <2> QED BY <1>1, <2>1, <2>2, Bystander
<1>7. OneCall' /\ OneMover' /\ OnePoster'
  BY <1>1 DEF IInv, OneCall, OneMover, OnePoster, Alone, Calm, Busy, MovesStock, Confirms, Returns
<1>8. ReceivedAddsUp'
  <2>1. ASSUME Alone', NEW o \in DOMAIN orders', NEW p \in Products
        PROVE  orders'[o].received[p] = Weigh(receipts', CountsW(o, p))
    <3>1. Alone /\ receipts' = receipts /\ receipts \in Seq(Receipt)
      BY <1>1, <1>2, <2>1 DEF Alone, TypesOK
    <3>2. CASE o = q
      <4>1. \A g \in DOMAIN receipts : receipts[g] \in Receipt /\ receipts[g].order # o
        BY <1>4, <3>2, RowTypes
      <4>2. \A g \in DOMAIN receipts : CountsW(o, p)[receipts[g]] = 0
        BY <4>1 DEF CountsW, CountsFor
      <4>3. Weigh(receipts, CountsW(o, p)) = 0
        <5>1. CountsW(o, p) \in [Receipt -> Int]
          BY <3>1, ReceiptSums
        <5> QED BY <3>1, <4>2, <5>1, WeighType
      <4> QED BY <1>3, <1>4, <3>1, <3>2, <4>3
    <3>3. CASE o # q
      BY <1>2, <1>4, <3>1, <3>3, SumForms DEF IInv
    <3> QED BY <3>2, <3>3
  <2> QED BY <1>5, <2>1, SumFormsNext
<1>9. StockFollowsDocuments' /\ PostedOnce' /\ RunningInv' /\ ReturnsWithinReceipt'
  BY <1>1 DEF IInv, StockFollowsDocuments, PostedOnce, EntriesOf, IsConfirmed, RunningInv, Calm,
              ReturnsWithinReceipt, Returned
<1>10. CancelledHasNoGoods'
  <2>1. ASSUME NEW o \in DOMAIN orders', orders'[o].status = "CANCELLED"
        PROVE  o \in DOMAIN orders /\ orders[o].status = "CANCELLED"
    BY <1>4, <2>1 DEF new
  <2> QED BY <1>1, <2>1 DEF IInv, CancelledHasNoGoods, ConfirmedReceipts
<1> QED BY <1>5, <1>6, <1>7, <1>8, <1>9, <1>10 DEF IInv

\* An order's row is updated: its status, and who approved it.
LEMMA OrderUpdateStep ==
    ASSUME IInv, NEW s \in Sessions, OrderUpdate(s)
    PROVE  IInv'
<1> DEFINE c == call[s]
           q == c.order
           a == IF c.to = "APPROVED" THEN c.approver ELSE orders[q].approver
<1>1. /\ c.step = "order" /\ Ends(s)
      /\ orders' = [orders EXCEPT ![q].status = c.to, ![q].approver = a]
      /\ UNCHANGED <<receipts, returns, ledger, journal, history>>
  BY DEF OrderUpdate
<1>2. TypesOK /\ Places /\ SessionOK(s)
  BY DEF IInv
<1>3. c \in OrderCalls /\ q \in DOMAIN orders /\ Busy(s)
  BY <1>1, <1>2, CallKinds DEF SessionOK, Refers
<1>4. /\ DOMAIN orders' = DOMAIN orders /\ orders' \in Seq(Order)
      /\ orders'[q].status = c.to
      /\ \A o \in DOMAIN orders : o # q => orders'[o] = orders[o]
      /\ \A o \in DOMAIN orders : orders'[o].received = orders[o].received
  <2> DEFINE x == [orders[q] EXCEPT !.status = c.to, !.approver = a]
  <2>1. orders \in Seq(Order) /\ orders[q] \in Order
    BY <1>2, <1>3 DEF TypesOK
  <2>2. c.to \in OrderStatus /\ a \in Users \cup {NoUser}
    BY <1>3, <2>1 DEF OrderCalls, Order
  <2>3. orders' = [orders EXCEPT ![q] = x]
    <3> HIDE DEF c, a
    <3> QED BY <1>1, <1>3, <2>1 DEF Order
  <2>4. x \in Order /\ x.status = c.to /\ x.received = orders[q].received
    <3> HIDE DEF c, a
    <3> QED BY <2>1, <2>2 DEF Order
  <2> HIDE DEF x
  <2> QED BY <1>3, <2>1, <2>3, <2>4
<1>5. /\ call' \in [Sessions -> Calls] /\ SessionOK(s)'
      /\ \A t \in Sessions : t # s => call'[t] = call[t]
      /\ OneCall' /\ OneMover' /\ OnePoster'
  BY <1>1, CallOver
<1>6. TypesOK' /\ Places'
  BY <1>1, <1>2, <1>4, <1>5 DEF TypesOK, Places
<1>7. \A t \in Sessions : SessionOK(t)'
  <2>1. RowsStay
    BY <1>1, <1>4 DEF RowsStay
  <2>2. \A t \in Sessions : StockStays(t)
    BY <1>1 DEF StockStays
  <2>3. ASSUME NEW t \in Sessions PROVE OrderStays(t)
    <3>1. \A o : ConfirmedReceipts(o)' = ConfirmedReceipts(o)
      BY <1>1 DEF ConfirmedReceipts
    <3>2. \A g, p : Returned(g, p)' = Returned(g, p)
      BY <1>1 DEF Returned
    <3> HIDE DEF c, q, a
    <3>3. receipts' = receipts
      BY <1>1
    <3> QED BY <1>4, <3>1, <3>2, <3>3 DEF OrderStays
  <2> QED BY <1>1, <1>5, <2>1, <2>2, <2>3, Bystander
<1>8. ReceivedAddsUp'
  BY <1>1, <1>4 DEF IInv, ReceivedAddsUp
<1>9. StockFollowsDocuments' /\ PostedOnce' /\ RunningInv' /\ ReturnsWithinReceipt'
  BY <1>1 DEF IInv, StockFollowsDocuments, PostedOnce, EntriesOf, IsConfirmed, RunningInv, Calm,
              ReturnsWithinReceipt, Returned
<1>10. CancelledHasNoGoods'
  <2> SUFFICES ASSUME Alone', NEW o \in DOMAIN orders', orders'[o].status = "CANCELLED"
               PROVE  ConfirmedReceipts(o)' = {}
    BY DEF CancelledHasNoGoods, Alone
  <2>1. Alone /\ o \in DOMAIN orders /\ receipts' = receipts
    BY <1>1, <1>4 DEF Alone
  <2>2. ConfirmedReceipts(o) = {}
    <3>1. CASE o = q
      BY <1>1, <1>2, <1>4, <2>1, <3>1 DEF SessionOK, Reads
    <3>2. CASE o # q
      BY <1>4, <2>1, <3>2 DEF IInv, CancelledHasNoGoods, Alone
    <3> QED BY <3>1, <3>2
  <2> QED BY <2>1, <2>2 DEF ConfirmedReceipts
<1> QED BY <1>6, <1>7, <1>5, <1>8, <1>9, <1>10 DEF IInv

\* What the received quantities of an order become.
LEMMA FilledType ==
    ASSUME IInv, NEW o \in DOMAIN orders, NEW p \in Products, NEW n \in Nat
    PROVE  /\ Filled(o, p, n) \in [Products -> Nat]
           /\ Filled(o, p, n)[p] = n
           /\ \A x \in Products : x # p => Filled(o, p, n)[x] = orders[o].received[x]
<1>1. orders[o].received \in [Products -> Nat]
  BY RowTypes
<1> QED BY <1>1 DEF Filled

\* A receipt is created, and counted or not; no entry and no return is about it yet.
LEMMA DraftCreateStep ==
    ASSUME IInv, NEW s \in Sessions, DraftCreate(s)
    PROVE  IInv'
<1> DEFINE o == call[s].order
           g == call[s].receipt
           f == Filled(o, g.product, call[s].received + g.qty)
<1>n. PICK n \in Nat \ {0} : n = Len(receipts) + 1
  BY DEF IInv, TypesOK
<1>1. /\ call[s].step = "draft" /\ Ends(s)
      /\ receipts' = Append(receipts, g)
      /\ orders' = IF g.counted THEN [orders EXCEPT ![o].received = f] ELSE orders
      /\ UNCHANGED <<returns, ledger, journal, history>>
  BY DEF DraftCreate
<1>2. TypesOK /\ Places /\ SessionOK(s) /\ OneCall /\ (Alone' <=> Alone) /\ (Calm' <=> Calm)
  BY <1>1 DEF IInv, Alone, Calm
<1>3. /\ call[s] \in DraftCalls /\ o \in DOMAIN orders /\ Busy(s)
      /\ g.order = o /\ g.status = "DRAFT"
      /\ Alone => call[s].received = orders[o].received[g.product]
  BY <1>1, <1>2, CallKinds DEF SessionOK, Refers, Reads
<1>4. /\ g \in Receipt /\ g.product \in Products /\ g.qty \in Nat /\ g.counted \in BOOLEAN
      /\ call[s].received \in Nat
  BY <1>3 DEF DraftCalls, Receipt
<1>5. /\ f \in [Products -> Nat] /\ f[g.product] = call[s].received + g.qty
      /\ \A x \in Products : x # g.product => f[x] = orders[o].received[x]
  <2>1. call[s].received + g.qty \in Nat
    BY <1>4
  <2> HIDE DEF o, g
  <2> QED BY <1>3, <1>4, <2>1, FilledType
<1>6. /\ call' \in [Sessions -> Calls] /\ SessionOK(s)'
      /\ \A t \in Sessions : t # s => call'[t] = call[t]
      /\ OneCall' /\ OneMover' /\ OnePoster'
  BY <1>1, CallOver
<1> HIDE DEF f
<1>7. /\ orders' \in Seq(Order) /\ DOMAIN orders' = DOMAIN orders
      /\ \A i \in DOMAIN orders : i # o => orders'[i] = orders[i]
      /\ \A i \in DOMAIN orders : orders'[i].status = orders[i].status
      /\ orders'[o].received = IF g.counted THEN f ELSE orders[o].received
  <2> DEFINE x == [orders[o] EXCEPT !.received = f]
  <2>1. orders \in Seq(Order) /\ orders[o] \in Order
    BY <1>2, <1>3 DEF TypesOK
  <2>2. CASE ~g.counted
    BY <1>1, <2>1, <2>2
  <2>3. CASE g.counted
    <3>1. orders' = [orders EXCEPT ![o] = x]
      <4> HIDE DEF o, g
      <4> QED BY <1>1, <2>3
    <3>2. x \in Order /\ x.received = f /\ x.status = orders[o].status
      <4> HIDE DEF o, g
      <4> QED BY <1>5, <2>1 DEF Order
    <3> HIDE DEF x
    <3> QED BY <1>3, <2>1, <2>3, <3>1, <3>2
  <2> QED BY <1>4, <2>2, <2>3
<1> HIDE DEF g, o
<1>8. /\ n \in Nat \ {0} /\ n \notin DOMAIN receipts /\ DOMAIN receipts' = DOMAIN receipts \cup {n}
      /\ receipts' \in Seq(Receipt)
      /\ receipts'[n] = g /\ \A i \in DOMAIN receipts : receipts'[i] = receipts[i]
  BY <1>1, <1>2, <1>4, <1>n DEF TypesOK
<1>9. TypesOK' /\ Places'
  BY <1>1, <1>2, <1>3, <1>6, <1>7, <1>8 DEF TypesOK, Places
<1>10. \A i : ConfirmedReceipts(i)' = ConfirmedReceipts(i)
  BY <1>3, <1>8 DEF ConfirmedReceipts
<1>11. \A t \in Sessions : SessionOK(t)'
  <2>1. RowsStay
    BY <1>7, <1>8 DEF RowsStay
  <2>2. \A t \in Sessions : StockStays(t)
    BY <1>1 DEF StockStays
  <2>3. ASSUME NEW t \in Sessions, t # s PROVE OrderStays(t)
    <3>1. Alone' /\ Busy(t) => call[t].order # o
      BY <1>2, <1>3, <2>3 DEF OneCall, o
    <3>2. \A i, p : Returned(i, p)' = Returned(i, p)
      BY <1>1 DEF Returned
    <3> QED BY <1>7, <1>8, <1>10, <3>1, <3>2 DEF OrderStays
  <2> QED BY <1>1, <1>6, <2>1, <2>2, <2>3, Bystander
<1>12. ReceivedAddsUp'
  <2>1. ASSUME Alone', NEW i \in DOMAIN orders', NEW p \in Products
        PROVE  orders'[i].received[p] = Weigh(receipts', CountsW(i, p))
    <3>1. Alone /\ i \in DOMAIN orders /\ receipts \in Seq(Receipt)
      BY <1>2, <1>7, <2>1 DEF TypesOK
    <3>2. orders[i].received[p] = Weigh(receipts, CountsW(i, p)) /\ orders[i].received[p] \in Nat
      BY <1>2, <3>1, SumForms, RowTypes DEF IInv
    <3>3. CountsW(i, p) \in [Receipt -> Int]
      BY <3>1, ReceiptSums
    <3>4. Weigh(receipts', CountsW(i, p)) = orders[i].received[p] + CountsW(i, p)[g]
      BY <1>1, <1>4, <3>1, <3>2, <3>3, WeighAppend
    <3>5. CountsW(i, p)[g] = IF o = i /\ g.product = p /\ g.counted THEN g.qty ELSE 0
      BY <1>3, <1>4 DEF CountsW, CountsFor
    <3>6. CASE i # o
      BY <1>7, <3>1, <3>2, <3>4, <3>5, <3>6
    <3>7. CASE i = o
      BY <1>3, <1>4, <1>5, <1>7, <3>1, <3>2, <3>4, <3>5, <3>7
    <3> QED BY <3>6, <3>7
  <2> QED BY <1>9, <2>1, SumFormsNext
<1>13. StockFollowsDocuments'
  <2>1. ASSUME Alone', NEW p \in Products
        PROVE  ledger'[p].sum = Weigh(receipts', BringsW(p)) - Weigh(returns', TakesW(p))
    <3>1. Alone /\ receipts \in Seq(Receipt) /\ BringsW(p) \in [Receipt -> Int]
      BY <1>2, <2>1, ReceiptSums DEF TypesOK
    <3>2. Weigh(receipts', BringsW(p)) = Weigh(receipts, BringsW(p)) + BringsW(p)[g]
      BY <1>1, <1>4, <3>1, WeighAppend
    <3>3. BringsW(p)[g] = 0
      BY <1>3, <1>4 DEF BringsW, Brings
    <3>4. Weigh(receipts, BringsW(p)) \in Int
      BY <3>1, WeighType
    <3>5. ledger[p].sum = Weigh(receipts, BringsW(p)) - Weigh(returns, TakesW(p))
      BY <1>2, <3>1, SumForms DEF IInv
    <3> QED BY <1>1, <3>2, <3>3, <3>4, <3>5
  <2> QED BY <1>9, <2>1, SumFormsNext
<1>14. PostedOnce'
  <2>1. \A i : EntriesOf(i)' = EntriesOf(i)
    BY <1>1 DEF EntriesOf
  <2>2. ~IsConfirmed(n)' /\ \A i \in DOMAIN receipts : IsConfirmed(i)' <=> IsConfirmed(i)
    BY <1>3, <1>8 DEF IsConfirmed
  <2>3. /\ \A i \in DOMAIN receipts :
              IF IsConfirmed(i) THEN \E j : EntriesOf(i) = {j} ELSE EntriesOf(i) = {}
        /\ \A i \in Nat \ DOMAIN receipts : EntriesOf(i) = {}
    BY DEF IInv, PostedOnce
  <2> QED BY <1>8, <2>1, <2>2, <2>3 DEF PostedOnce
<1>15. RunningInv'
  BY <1>1, <1>2 DEF IInv, RunningInv
<1>16. ReturnsWithinReceipt'
  <2> SUFFICES ASSUME history' \cap {"sameOrder", "lineTwice"} = {}, NEW i \in DOMAIN receipts'
               PROVE  Weigh(returns', FromW(i, receipts'[i].product)) <= receipts'[i].qty
    BY <1>9, SumFormsNext
  <2>1. CASE i \in DOMAIN receipts
    BY <1>1, <1>2, <1>8, <2>1, SumForms DEF IInv
  <2>2. CASE i = n
    <3>1. returns \in Seq(Return) /\ FromW(n, g.product) \in [Return -> Int]
      BY <1>2, ReturnSums DEF TypesOK
    <3>2. \A r \in DOMAIN returns : returns[r].receipt # n /\ returns[r] \in Return
      BY <1>2, <1>8, <3>1 DEF Places
    <3>3. \A r \in DOMAIN returns : FromW(n, g.product)[returns[r]] = 0
      BY <3>2 DEF FromW
    <3>4. Weigh(returns, FromW(n, g.product)) = 0
      BY <3>1, <3>3, WeighType
    <3> QED BY <1>1, <1>4, <1>8, <2>2, <3>4
  <2> QED BY <1>8, <2>1, <2>2
<1>17. CancelledHasNoGoods'
  BY <1>2, <1>7, <1>10 DEF IInv, CancelledHasNoGoods, Alone
<1> QED BY <1>6, <1>9, <1>11, <1>12, <1>13, <1>14, <1>15, <1>16, <1>17 DEF IInv

\* A receipt is deleted: it says what it said before.
LEMMA DropReceiptStep ==
    ASSUME IInv, NEW s \in Sessions, DropReceipt(s)
    PROVE  IInv'
<1> DEFINE g == call[s].receipt
           x == [receipts[g] EXCEPT !.deleted = TRUE]
<1>1. /\ call[s].step = "drop" /\ Ends(s)
      /\ receipts' = [receipts EXCEPT ![g].deleted = TRUE]
      /\ UNCHANGED <<orders, returns, ledger, journal, history>>
  BY DEF DropReceipt
<1>2. TypesOK /\ Places /\ SessionOK(s) /\ (Alone' <=> Alone) /\ (Calm' <=> Calm)
  BY <1>1 DEF IInv, Alone, Calm
<1>3. g \in DOMAIN receipts /\ receipts \in Seq(Receipt) /\ receipts[g] \in Receipt
  BY <1>1, <1>2 DEF SessionOK, Refers, TypesOK
<1>4. /\ call' \in [Sessions -> Calls] /\ SessionOK(s)'
      /\ \A t \in Sessions : t # s => call'[t] = call[t]
      /\ OneCall' /\ OneMover' /\ OnePoster'
  BY <1>1, CallOver
<1> HIDE DEF g
<1>5. /\ x \in Receipt /\ x.order = receipts[g].order /\ x.product = receipts[g].product
      /\ x.qty = receipts[g].qty /\ x.status = receipts[g].status
      /\ x.counted = receipts[g].counted
  BY <1>3 DEF Receipt
<1>6. receipts' = [receipts EXCEPT ![g] = x]
  BY <1>1, <1>3
<1> HIDE DEF x
<1>7. /\ DOMAIN receipts' = DOMAIN receipts /\ receipts' \in Seq(Receipt)
      /\ \A i \in DOMAIN receipts :
            /\ receipts'[i].order = receipts[i].order /\ receipts'[i].product = receipts[i].product
            /\ receipts'[i].qty = receipts[i].qty /\ receipts'[i].status = receipts[i].status
  <2>1. receipts'[g] = x /\ \A i \in DOMAIN receipts : i # g => receipts'[i] = receipts[i]
    BY <1>3, <1>6
  <2> QED BY <1>3, <1>5, <1>6, <2>1
<1>8. TypesOK' /\ Places'
  BY <1>1, <1>2, <1>4, <1>7 DEF TypesOK, Places
<1>9. \A i : ConfirmedReceipts(i)' = ConfirmedReceipts(i)
  BY <1>7 DEF ConfirmedReceipts
<1>10. \A t \in Sessions : SessionOK(t)'
  <2>1. RowsStay
    BY <1>1, <1>7 DEF RowsStay
  <2>2. \A t \in Sessions : StockStays(t)
    BY <1>1 DEF StockStays
  <2>3. ASSUME NEW t \in Sessions PROVE OrderStays(t)
    <3>1. \A i, p : Returned(i, p)' = Returned(i, p)
      BY <1>1 DEF Returned
    <3> QED BY <1>1, <1>7, <1>9, <3>1 DEF OrderStays
  <2> QED BY <1>1, <1>4, <2>1, <2>2, <2>3, Bystander
<1>11. \A i, p : /\ Weigh(receipts', CountsW(i, p)) = Weigh(receipts, CountsW(i, p))
                 /\ Weigh(receipts', BringsW(p)) = Weigh(receipts, BringsW(p))
  <2> SUFFICES ASSUME NEW i, NEW p
               PROVE  /\ Weigh(receipts', CountsW(i, p)) = Weigh(receipts, CountsW(i, p))
                      /\ Weigh(receipts', BringsW(p)) = Weigh(receipts, BringsW(p))
    OBVIOUS
  <2>1. CountsW(i, p) \in [Receipt -> Int] /\ BringsW(p) \in [Receipt -> Int]
    BY <1>3, ReceiptSums
  <2>2. CountsW(i, p)[x] = CountsW(i, p)[receipts[g]] /\ BringsW(p)[x] = BringsW(p)[receipts[g]]
    BY <1>3, <1>5 DEF CountsW, CountsFor, BringsW, Brings
  <2>3. Weigh(receipts, CountsW(i, p)) \in Int /\ Weigh(receipts, BringsW(p)) \in Int
    BY <1>3, <2>1, WeighType
  <2>4. CountsW(i, p)[x] \in Int /\ BringsW(p)[x] \in Int
    BY <1>5, <2>1
  <2>5. ASSUME NEW W \in [Receipt -> Int]
        PROVE  Weigh(receipts', W) = Weigh(receipts, W) - W[receipts[g]] + W[x]
    <3>1. Weigh([receipts EXCEPT ![g] = x], W) = Weigh(receipts, W) - W[receipts[g]] + W[x]
      BY <1>3, <1>5, WeighChange
    <3> QED BY <1>6, <3>1
  <2> QED BY <2>1, <2>2, <2>3, <2>4, <2>5
<1>12. ReceivedAddsUp' /\ StockFollowsDocuments'
  <2>1. /\ Alone => \A i \in DOMAIN orders, p \in Products :
               orders[i].received[p] = Weigh(receipts, CountsW(i, p))
        /\ Alone => \A p \in Products :
               ledger[p].sum = Weigh(receipts, BringsW(p)) - Weigh(returns, TakesW(p))
    BY <1>2, SumForms DEF IInv
  <2>2. Alone' => \A i \in DOMAIN orders', p \in Products :
          orders'[i].received[p] = Weigh(receipts', CountsW(i, p))
    BY <1>1, <1>2, <1>11, <2>1
  <2>3. Alone' => \A p \in Products :
          ledger'[p].sum = Weigh(receipts', BringsW(p)) - Weigh(returns', TakesW(p))
    BY <1>1, <1>2, <1>11, <2>1
  <2> QED BY <1>8, <2>2, <2>3, SumFormsNext
<1>13. PostedOnce'
  <2>1. \A i : EntriesOf(i)' = EntriesOf(i)
    BY <1>1 DEF EntriesOf
  <2>2. \A i \in DOMAIN receipts : IsConfirmed(i)' <=> IsConfirmed(i)
    BY <1>7 DEF IsConfirmed
  <2>3. /\ \A i \in DOMAIN receipts :
              IF IsConfirmed(i) THEN \E j : EntriesOf(i) = {j} ELSE EntriesOf(i) = {}
        /\ \A i \in Nat \ DOMAIN receipts : EntriesOf(i) = {}
    BY DEF IInv, PostedOnce
  <2> QED BY <1>7, <2>1, <2>2, <2>3 DEF PostedOnce
<1>14. RunningInv'
  BY <1>1, <1>2 DEF IInv, RunningInv
<1>15. ReturnsWithinReceipt'
  BY <1>1, <1>2, <1>7, <1>8, SumForms, SumFormsNext DEF IInv
<1>16. CancelledHasNoGoods'
  BY <1>1, <1>2, <1>9 DEF IInv, CancelledHasNoGoods, Alone
<1> QED BY <1>4, <1>8, <1>10, <1>12, <1>13, <1>14, <1>15, <1>16 DEF IInv

\* An event is posted: the entries of other documents are as they were, and its own
\* document has an entry, a new one only when it had none.
LEMMA PostStep ==
    ASSUME TypesOK, NEW event \in {"GOODS_RECEIPT", "STOCK_ADJUSTMENT_NEGATIVE"},
           NEW ref \in References, NEW amount \in Nat,
           journal' = ProcessEvent(journal, event, ref, amount)
    PROVE  /\ journal' \in Seq(Entry)
           /\ \A g : <<"GR", g>> # ref => EntriesOf(g)' = EntriesOf(g)
           /\ \A g : <<"GR", g>> = ref =>
                 IF EntriesOf(g) = {} THEN \E i : EntriesOf(g)' = {i} ELSE EntriesOf(g)' = EntriesOf(g)
<1> DEFINE new == AutoEntry(event, ref, amount)
<1>1. journal \in Seq(Entry)
  BY DEF TypesOK
<1>2. new \in Entry /\ new.reference = ref
  BY DEF AutoEntry, Entry
<1>3. \A e \in Entry : e.status = "POSTED" /\ e.auto = TRUE
  BY DEF Entry
<1>4. AlreadyPosted(journal, ref) <=> \E i \in DOMAIN journal : journal[i].reference = ref
  BY <1>1, <1>3 DEF AlreadyPosted
<1>5. CASE AlreadyPosted(journal, ref)
  <2>1. journal' = journal
    BY <1>5 DEF ProcessEvent
  <2>2. \A g : EntriesOf(g)' = EntriesOf(g)
    BY <2>1 DEF EntriesOf
  <2>3. \A g : <<"GR", g>> = ref => EntriesOf(g) # {}
    BY <1>4, <1>5 DEF EntriesOf
  <2> QED BY <1>1, <2>1, <2>2, <2>3
<1>6. CASE ~AlreadyPosted(journal, ref)
  <2>1. journal' = Append(journal, new)
    BY <1>6 DEF ProcessEvent
  <2> HIDE DEF new
  <2>2. PICK n \in Nat : n = Len(journal) + 1
    BY <1>1
  <2>3. /\ journal' \in Seq(Entry) /\ DOMAIN journal' = DOMAIN journal \cup {n} /\ journal'[n] = new
        /\ n \notin DOMAIN journal /\ \A i \in DOMAIN journal : journal'[i] = journal[i]
    BY <1>1, <1>2, <2>1, <2>2
  <2>4. \A g : <<"GR", g>> # ref => EntriesOf(g)' = EntriesOf(g)
    BY <1>2, <2>3 DEF EntriesOf
  <2>5. \A g : <<"GR", g>> = ref => EntriesOf(g) = {} /\ EntriesOf(g)' = {n}
    BY <1>2, <1>4, <1>6, <2>3 DEF EntriesOf
  <2> QED BY <2>3, <2>4, <2>5
<1> QED BY <1>5, <1>6

\* The transaction of confirm commits.
LEMMA ConfirmCommitStep ==
    ASSUME IInv, NEW s \in Sessions, ConfirmCommit(s)
    PROVE  IInv'
<1>p. PICK o, g, p :
        o = call[s].order /\ g = call[s].receipt /\ p = receipts[g].product
  OBVIOUS
<1>f. PICK f : f = SeenLines(s)
  OBVIOUS
<1> DEFINE c == call[s]
           row == receipts[g]
           x == [orders[o] EXCEPT !.status = c.status, !.received = f]
           y == [row EXCEPT !.status = "CONFIRMED"]
           l == AppendRow(ledger[p], row.qty, c.running + row.qty, row.date)
<1>1. /\ c.step = "posting" /\ Ends(s)
      /\ orders' = [orders EXCEPT ![o].status = c.status, ![o].received = f]
      /\ receipts' = [receipts EXCEPT ![g].status = "CONFIRMED"]
      /\ ledger' = [ledger EXCEPT ![p] = l]
      /\ journal' = ProcessEvent(journal, "GOODS_RECEIPT", <<"GR", g>>, row.qty)
      /\ history' = history \cup BackDated(p, row.date)
      /\ returns' = returns
  BY <1>p, <1>f DEF ConfirmCommit
<1>2. TypesOK /\ Places /\ SessionOK(s) /\ OneCall /\ OneMover
  BY DEF IInv
<1>3. /\ history \subseteq history' /\ (Alone' <=> Alone) /\ (Calm' => Calm /\ ~(row.date < ledger[p].date))
      /\ history' \subseteq {"sameOrder", "sameProduct", "backDated", "lineTwice"}
      /\ history' \cap {"sameOrder", "lineTwice"} = {} => history \cap {"sameOrder", "lineTwice"} = {}
  BY <1>1, <1>2 DEF BackDated, Alone, Calm, TypesOK
<1>4. Confirms(s) /\ c \in ConfirmCalls /\ Busy(s) /\ MovesStock(s)
  BY <1>1, <1>2, CallKinds DEF Confirms, MovesStock
<1>5. /\ g \in DOMAIN receipts /\ o = row.order /\ c.products = {p} /\ o \in DOMAIN orders
      /\ c.status \in {"PARTIALLY_RECEIVED", "FULLY_RECEIVED"}
      /\ Alone => ~IsConfirmed(g) /\ c.received = orders[o].received[p]
      /\ Calm => c.running = ledger[p].sum
  BY <1>p, <1>1, <1>2, <1>4 DEF SessionOK, Refers, Reads, Knows, Places
<1>6. /\ g \in Nat /\ row \in Receipt /\ row.qty \in Nat \ {0} /\ p \in Products
      /\ row.date \in Nat /\ orders[o] \in Order /\ orders[o].received \in [Products -> Nat]
  BY <1>p, <1>5, RowTypes
<1>7. c.received \in Nat /\ c.running \in Int
  BY <1>4 DEF ConfirmCalls
<1>8. /\ f \in [Products -> Nat] /\ f[p] = c.received + row.qty
      /\ \A i \in Products : i # p => f[i] = orders[o].received[i]
  <2>1. c.received + row.qty \in Nat
    BY <1>6, <1>7
  <2>2. f = Filled(o, p, c.received + row.qty)
    BY <1>p, <1>f DEF SeenLines
  <2> HIDE DEF c, row
  <2> QED BY <1>5, <1>6, <2>1, <2>2, FilledType
<1>9. /\ call' \in [Sessions -> Calls] /\ SessionOK(s)'
      /\ \A t \in Sessions : t # s => call'[t] = call[t]
      /\ OneCall' /\ OneMover' /\ OnePoster'
  BY <1>1, <1>3, CallOver
<1>10. PICK status : status = c.status
  OBVIOUS
<1>11. /\ orders' \in Seq(Order) /\ DOMAIN orders' = DOMAIN orders
       /\ orders'[o].received = f /\ orders'[o].status # "CANCELLED"
       /\ \A i \in DOMAIN orders : i # o => orders'[i] = orders[i]
  <2>1. orders \in Seq(Order)
    BY <1>2 DEF TypesOK
  <2> HIDE DEF c
  <2>2. orders' = [orders EXCEPT ![o] = x]
    BY <1>1, <1>5, <1>6, <2>1 DEF Order
  <2>3. x \in Order /\ x.received = f /\ x.status = c.status
    BY <1>5, <1>6, <1>8 DEF Order, OrderStatus
  <2> HIDE DEF x
  <2> QED BY <1>5, <2>1, <2>2, <2>3
<1>12. /\ y \in Receipt /\ y.order = o /\ y.product = p /\ y.qty = row.qty
       /\ y.status = "CONFIRMED" /\ y.counted = row.counted
  BY <1>p, <1>5, <1>6 DEF Receipt
<1>13. receipts' = [receipts EXCEPT ![g] = y] /\ receipts \in Seq(Receipt)
  BY <1>1, <1>2, <1>5 DEF TypesOK
<1> HIDE DEF x, y
<1>14. /\ DOMAIN receipts' = DOMAIN receipts /\ receipts' \in Seq(Receipt) /\ receipts'[g] = y
       /\ \A i \in DOMAIN receipts : i # g => receipts'[i] = receipts[i]
  BY <1>5, <1>12, <1>13
<1>15. /\ ledger' \in [Products -> Ledgers] /\ ledger'[p] = l /\ l.sum = ledger[p].sum + row.qty
       /\ \A i \in Products : i # p => ledger'[i] = ledger[i]
       /\ Calm' => l.running = ledger[p].sum + row.qty /\ l.datedRunning = ledger[p].sum + row.qty
  <2>1. ledger \in [Products -> Ledgers] /\ ledger[p] \in Ledgers
    BY <1>2, <1>6 DEF TypesOK
  <2>2. /\ l \in Ledgers /\ l.sum = ledger[p].sum + row.qty /\ l.running = c.running + row.qty
        /\ ~(row.date < ledger[p].date) => l.datedRunning = c.running + row.qty
    <3> HIDE DEF c, row
    <3> QED BY <1>6, <1>7, <2>1 DEF AppendRow, Ledgers
  <2> HIDE DEF l
  <2> QED BY <1>1, <1>3, <1>5, <1>6, <2>1, <2>2
<1>16. /\ journal' \in Seq(Entry)
       /\ \A i : i # g => EntriesOf(i)' = EntriesOf(i)
       /\ IF EntriesOf(g) = {} THEN \E i : EntriesOf(g)' = {i} ELSE EntriesOf(g)' = EntriesOf(g)
  <2>1. <<"GR", g>> \in References /\ \A i : i # g => <<"GR", i>> # <<"GR", g>>
    BY <1>6 DEF References
  <2>2. row.qty \in Nat
    BY <1>6
  <2> HIDE DEF row
  <2> QED BY <1>1, <1>2, <2>1, <2>2, PostStep
<1> HIDE DEF l
<1>17. TypesOK' /\ Places'
  BY <1>1, <1>2, <1>3, <1>5, <1>9, <1>11, <1>12, <1>14, <1>15, <1>16 DEF TypesOK, Places
<1>18. \A i : i # o => ConfirmedReceipts(i)' = ConfirmedReceipts(i)
  BY <1>5, <1>12, <1>14 DEF ConfirmedReceipts
<1>19. RowsStay
  BY <1>p, <1>5, <1>11, <1>12, <1>14 DEF RowsStay
<1>20. \A t \in Sessions : SessionOK(t)'
  <2>1. ASSUME NEW t \in Sessions, t # s PROVE StockStays(t)
    <3>1. Calm' /\ MovesStock(t) => call[t].products \cap {p} = {}
      BY <1>3, <1>4, <1>5, <1>2, <2>1 DEF OneMover
    <3>2. MovesStock(t) => call[t].products \subseteq Products
      BY <1>2, CallKinds DEF MovesStock, ConfirmCalls, ReturnCalls
    <3> QED BY <1>15, <3>1, <3>2 DEF StockStays
  <2>2. ASSUME NEW t \in Sessions, t # s PROVE OrderStays(t)
    <3>1. Alone' /\ Busy(t) => call[t].order # o
      BY <1>p, <1>2, <1>3, <1>4, <2>2 DEF OneCall
    <3>2. \A i, q : Returned(i, q)' = Returned(i, q)
      BY <1>1 DEF Returned
    <3> QED BY <1>5, <1>11, <1>14, <1>18, <3>1, <3>2 DEF OrderStays
  <2> QED BY <1>3, <1>9, <1>19, <2>1, <2>2, Bystander
<1>21. ASSUME NEW W \in [Receipt -> Int]
       PROVE  Weigh(receipts', W) = Weigh(receipts, W) - W[row] + W[y]
  <2>1. g \in DOMAIN receipts /\ y \in Receipt /\ receipts \in Seq(Receipt)
    BY <1>5, <1>12, <1>13
  <2>2. Weigh([receipts EXCEPT ![g] = y], W) = Weigh(receipts, W) - W[receipts[g]] + W[y]
    BY <2>1, WeighChange
  <2> QED BY <1>13, <2>2
<1>22. Alone => row.status = "DRAFT"
  BY <1>5, <1>6 DEF IsConfirmed, Receipt
<1>23. ReceivedAddsUp'
  <2>1. ASSUME Alone', NEW i \in DOMAIN orders', NEW q \in Products
        PROVE  orders'[i].received[q] = Weigh(receipts', CountsW(i, q))
    <3>1. Alone /\ i \in DOMAIN orders /\ CountsW(i, q) \in [Receipt -> Int]
      BY <1>3, <1>11, <1>13, <2>1, ReceiptSums
    <3>2. orders[i].received[q] = Weigh(receipts, CountsW(i, q)) /\ orders[i].received[q] \in Nat
      BY <1>2, <3>1, SumForms, RowTypes DEF IInv
    <3>3. CountsW(i, q)[row] \in Int /\ CountsW(i, q)[y] \in Int
      BY <1>6, <1>12, <3>1
    <3>4. CountsW(i, q)[y] = IF o = i /\ p = q THEN CountsW(i, q)[row] + row.qty ELSE CountsW(i, q)[row]
      BY <1>p, <1>5, <1>6, <1>12, <1>22, <3>1 DEF CountsW, CountsFor, Receipt
    <3>5. Weigh(receipts', CountsW(i, q))
            = IF o = i /\ p = q THEN orders[i].received[q] + row.qty ELSE orders[i].received[q]
      BY <1>6, <1>21, <3>1, <3>2, <3>3, <3>4
    <3>6. orders'[i].received[q]
            = IF o = i /\ p = q THEN orders[i].received[q] + row.qty ELSE orders[i].received[q]
      BY <1>5, <1>8, <1>11, <3>1
    <3> QED BY <3>5, <3>6
  <2> QED BY <1>17, <2>1, SumFormsNext
<1>24. StockFollowsDocuments'
  <2>1. ASSUME Alone', NEW q \in Products
        PROVE  ledger'[q].sum = Weigh(receipts', BringsW(q)) - Weigh(returns', TakesW(q))
    <3>1. Alone /\ BringsW(q) \in [Receipt -> Int]
      BY <1>3, <1>13, <2>1, ReceiptSums
    <3>2. BringsW(q)[row] = 0 /\ BringsW(q)[y] = IF p = q THEN row.qty ELSE 0
      BY <1>p, <1>5, <1>6, <1>12, <1>22, <3>1 DEF BringsW, Brings
    <3>3. Weigh(receipts, BringsW(q)) \in Int /\ Weigh(returns, TakesW(q)) \in Int
      BY <1>2, <1>13, <3>1, WeighType, ReturnSums DEF TypesOK
    <3>4. ledger[q].sum = Weigh(receipts, BringsW(q)) - Weigh(returns, TakesW(q))
      BY <1>2, <3>1, SumForms DEF IInv
    <3>5. ledger'[q].sum = ledger[q].sum + IF p = q THEN row.qty ELSE 0
      <4>1. ledger[q].sum \in Int
        BY <3>3, <3>4
      <4> QED BY <1>15, <4>1
    <3>6. Weigh(receipts', BringsW(q)) = Weigh(receipts, BringsW(q)) + IF p = q THEN row.qty ELSE 0
      BY <1>6, <1>21, <3>1, <3>2, <3>3
    <3> QED BY <1>1, <1>6, <3>3, <3>4, <3>5, <3>6
  <2> QED BY <1>17, <2>1, SumFormsNext
<1>25. PostedOnce'
  <2>1. IsConfirmed(g)' /\ \A i \in DOMAIN receipts : i # g => (IsConfirmed(i)' <=> IsConfirmed(i))
    BY <1>12, <1>14 DEF IsConfirmed
  <2>2. /\ \A i \in DOMAIN receipts :
              IF IsConfirmed(i) THEN \E j : EntriesOf(i) = {j} ELSE EntriesOf(i) = {}
        /\ \A i \in Nat \ DOMAIN receipts : EntriesOf(i) = {}
    BY DEF IInv, PostedOnce
  <2>3. \E j : EntriesOf(g)' = {j}
    BY <1>5, <1>16, <2>2
  <2> QED BY <1>5, <1>14, <1>16, <2>1, <2>2, <2>3 DEF PostedOnce
<1>26. RunningInv'
  BY <1>3, <1>15 DEF IInv, RunningInv
<1>27. ReturnsWithinReceipt'
  BY <1>1, <1>2, <1>3, <1>14, <1>17, <1>19, SumForms, SumFormsNext DEF IInv, RowsStay
<1>28. CancelledHasNoGoods'
  BY <1>3, <1>11, <1>18 DEF IInv, CancelledHasNoGoods, Alone
<1> QED BY <1>9, <1>17, <1>20, <1>23, <1>24, <1>25, <1>26, <1>27, <1>28 DEF IInv

\* A ledger with one row more.
LEMMA RowAppended ==
    ASSUME NEW l \in Ledgers, NEW delta \in Int, NEW running \in Int, NEW date \in Nat
    PROVE  /\ AppendRow(l, delta, running, date) \in Ledgers
           /\ AppendRow(l, delta, running, date).sum = l.sum + delta
           /\ AppendRow(l, delta, running, date).running = running
           /\ ~(date < l.date) => AppendRow(l, delta, running, date).datedRunning = running
BY DEF AppendRow, Ledgers

\* The transaction of a return commits.
LEMMA ReturnCommitStep ==
    ASSUME IInv, NEW s \in Sessions, ReturnCommit(s)
    PROVE  IInv'
<1>p. PICK o, g, lines, products, running, date :
        /\ o = call[s].order /\ g = call[s].receipt /\ lines = call[s].lines
        /\ products = call[s].products /\ running = call[s].running /\ date = call[s].date
  OBVIOUS
<1>n. PICK n, amount : /\ n = Len(returns) + 1
                       /\ amount = SumFunction([i \in DOMAIN lines |-> lines[i].qty])
  OBVIOUS
<1> DEFINE l(q) == AppendRow(ledger[q], -LinesQty(lines, q), running[q] - LinesQty(lines, q), date)
           new == [receipt |-> g, lines |-> lines]
<1>1. /\ call[s].step = "returning" /\ Ends(s)
      /\ returns' = Append(returns, new)
      /\ ledger' = [q \in Products |-> IF q \in products THEN l(q) ELSE ledger[q]]
      /\ journal' = ProcessEvent(journal, "STOCK_ADJUSTMENT_NEGATIVE", <<"PURCHASE_RETURN", n>>, amount)
      /\ UNCHANGED <<orders, receipts>>
  BY <1>p, <1>n DEF ReturnCommit
<1>h. history' = history \cup (UNION {BackDated(q, date) : q \in products})
            \cup (IF Cardinality(products) < Len(lines) THEN {"lineTwice"} ELSE {})
  BY <1>p DEF ReturnCommit
<1>2. TypesOK /\ Places /\ SessionOK(s) /\ OneCall /\ OneMover
  BY DEF IInv
<1>3. /\ history \subseteq history' /\ (Alone' <=> Alone)
      /\ Calm' => Calm /\ \A q \in products : ~(date < ledger[q].date)
      /\ history' \subseteq {"sameOrder", "sameProduct", "backDated", "lineTwice"}
      /\ history' \cap {"sameOrder", "lineTwice"} = {} =>
            history \cap {"sameOrder", "lineTwice"} = {} /\ ~(Cardinality(products) < Len(lines))
  <2>1. \A q : BackDated(q, date) \subseteq {"backDated"}
               /\ (date < ledger[q].date => "backDated" \in BackDated(q, date))
    BY DEF BackDated
  <2>2. \A q \in products : BackDated(q, date) \subseteq history'
    BY <1>h
  <2>3. /\ history \subseteq history'
        /\ history' \subseteq history \cup {"backDated", "lineTwice"}
        /\ Cardinality(products) < Len(lines) => "lineTwice" \in history'
    <3> DEFINE late == UNION {BackDated(q, date) : q \in products}
               twice == IF Cardinality(products) < Len(lines) THEN {"lineTwice"} ELSE {}
    <3>1. history' = history \cup late \cup twice
      BY <1>h
    <3>2. late \subseteq {"backDated"}
      BY <2>1
    <3>3. twice \subseteq {"lineTwice"} /\ (Cardinality(products) < Len(lines) => "lineTwice" \in twice)
      OBVIOUS
    <3> HIDE DEF late, twice
    <3> QED BY <3>1, <3>2, <3>3
  <2> QED BY <1>2, <2>1, <2>2, <2>3 DEF Alone, Calm, TypesOK
<1>4. Returns(s) /\ call[s] \in ReturnCalls /\ Busy(s) /\ MovesStock(s)
  BY <1>1, <1>2, CallKinds DEF Returns, MovesStock
<1>5. /\ lines \in Seq(Line) /\ products \subseteq Products /\ running \in [Products -> Int]
      /\ date \in Nat /\ g \in Nat
  BY <1>p, <1>4 DEF ReturnCalls
<1>6. /\ products = ProductsIn(lines) /\ g \in {0} \cup DOMAIN receipts
      /\ g # 0 => o = receipts[g].order
      /\ Alone /\ g # 0 => \A i \in DOMAIN lines : Returnable(g, lines[i])
      /\ Calm => \A q \in products : running[q] = ledger[q].sum
  BY <1>p, <1>1, <1>2, <1>4 DEF SessionOK, Refers, Reads, Knows
<1>7. \A q : LinesQty(lines, q) \in Nat /\ (q \notin products => LinesQty(lines, q) = 0)
  BY <1>5, <1>6, LinesQtyType
<1>8. /\ call' \in [Sessions -> Calls] /\ SessionOK(s)'
      /\ \A t \in Sessions : t # s => call'[t] = call[t]
      /\ OneCall' /\ OneMover' /\ OnePoster'
  BY <1>1, <1>3, CallOver
<1>9. new \in Return /\ new.receipt = g /\ new.lines = lines
  BY <1>5 DEF Return
<1> HIDE DEF new
<1>10. /\ returns \in Seq(Return) /\ returns' \in Seq(Return) /\ n \in Nat
       /\ \A r \in DOMAIN returns' :
             returns'[r] = new \/ (r \in DOMAIN returns /\ returns'[r] = returns[r])
  <2>1. returns \in Seq(Return)
    BY <1>2 DEF TypesOK
  <2>2. n \in Nat /\ DOMAIN Append(returns, new) = DOMAIN returns \cup {n}
    BY <1>n, <2>1
  <2>3. /\ Append(returns, new) \in Seq(Return) /\ Append(returns, new)[n] = new
        /\ \A r \in DOMAIN returns : Append(returns, new)[r] = returns[r]
    BY <1>9, <1>n, <2>1
  <2>4. returns' = Append(returns, new)
    BY <1>1
  <2> QED BY <2>1, <2>2, <2>3, <2>4
<1>11. /\ ledger' \in [Products -> Ledgers]
       /\ \A q \in Products : ledger'[q].sum = ledger[q].sum - LinesQty(lines, q) /\ ledger[q].sum \in Int
       /\ \A q \in Products : q \notin products => ledger'[q] = ledger[q]
       /\ Calm' => \A q \in products : /\ ledger'[q].running = ledger'[q].sum
                                       /\ ledger'[q].datedRunning = ledger'[q].sum
  <2>1. \A q \in Products : ledger[q] \in Ledgers
    BY <1>2 DEF TypesOK
  <2>2. \A q \in Products : ledger[q].sum \in Int
    BY <2>1 DEF Ledgers
  <2>3. ASSUME NEW q \in Products
        PROVE  /\ l(q) \in Ledgers /\ l(q).sum = ledger[q].sum - LinesQty(lines, q)
               /\ l(q).running = running[q] - LinesQty(lines, q)
               /\ ~(date < ledger[q].date) => l(q).datedRunning = running[q] - LinesQty(lines, q)
    <3>1. ledger[q] \in Ledgers /\ LinesQty(lines, q) \in Nat /\ running[q] \in Int
      BY <1>5, <1>7, <2>1
    <3>2. PICK k \in Nat : k = LinesQty(lines, q)
      BY <3>1
    <3>3. PICK m \in Int : m = running[q]
      BY <3>1
    <3>4. l(q) = AppendRow(ledger[q], -k, m - k, date)
      BY <3>2, <3>3
    <3> HIDE DEF l
    <3>5. -k \in Int /\ m - k \in Int /\ ledger[q].sum + (-k) = ledger[q].sum - k
      BY <2>2, <3>2, <3>3
    <3>6. /\ l(q) \in Ledgers /\ l(q).sum = ledger[q].sum + (-k) /\ l(q).running = m - k
          /\ ~(date < ledger[q].date) => l(q).datedRunning = m - k
      BY <1>5, <3>1, <3>4, <3>5, RowAppended
    <3> QED BY <3>2, <3>3, <3>5, <3>6
  <2> HIDE DEF l
  <2>4. \A q \in Products : ledger'[q] = IF q \in products THEN l(q) ELSE ledger[q]
    BY <1>1
  <2>5. ledger' \in [Products -> Ledgers]
    BY <1>1, <2>1, <2>3
  <2>6. ASSUME NEW q \in Products PROVE ledger'[q].sum = ledger[q].sum - LinesQty(lines, q)
    BY <1>7, <2>2, <2>3, <2>4
  <2>7. ASSUME Calm', NEW q \in products
        PROVE  ledger'[q].running = ledger'[q].sum /\ ledger'[q].datedRunning = ledger'[q].sum
    <3>1. q \in Products /\ running[q] = ledger[q].sum /\ ~(date < ledger[q].date)
      BY <1>3, <1>5, <1>6, <2>7
    <3> QED BY <2>3, <2>4, <3>1
  <2> QED BY <2>2, <2>4, <2>5, <2>6, <2>7
<1>12. journal' \in Seq(Entry) /\ \A i : EntriesOf(i)' = EntriesOf(i)
  <2>1. amount \in Nat
    <3> DEFINE W == [line \in Line |-> line.qty]
    <3>1. W \in [Line -> Int] /\ \A i \in DOMAIN lines : W[lines[i]] = lines[i].qty /\ W[lines[i]] >= 0
      <4>1. \A x \in Line : x.qty \in Nat
        BY DEF Line
      <4>2. \A i \in DOMAIN lines : lines[i] \in Line
        BY <1>5
      <4> QED BY <4>1, <4>2
    <3>2. amount = Weigh(lines, W)
      <4>1. [i \in DOMAIN lines |-> lines[i].qty] = [i \in DOMAIN lines |-> W[lines[i]]]
        BY <3>1
      <4> HIDE DEF W
      <4> QED BY <1>n, <4>1 DEF Weigh
    <3> HIDE DEF W
    <3> QED BY <1>5, <3>1, <3>2, WeighType
  <2>2. <<"PURCHASE_RETURN", n>> \in References /\ \A i : <<"GR", i>> # <<"PURCHASE_RETURN", n>>
    BY <1>10 DEF References
  <2> QED BY <1>1, <1>2, <2>1, <2>2, PostStep
<1>13. TypesOK' /\ Places'
  BY <1>1, <1>2, <1>3, <1>6, <1>8, <1>9, <1>10, <1>11, <1>12 DEF TypesOK, Places
<1>14. \A W \in [Return -> Int] : Weigh(returns', W) = Weigh(returns, W) + W[new] /\ Weigh(returns, W) \in Int
  BY <1>1, <1>9, <1>10, WeighAppend, WeighType
<1>15. /\ \A i, q : FromW(i, q) \in [Return -> Int]
       /\ \A i, q : FromW(i, q)[new] = IF i = g THEN LinesQty(lines, q) ELSE 0
       /\ \A q : TakesW(q) \in [Return -> Int] /\ TakesW(q)[new] = LinesQty(lines, q)
  <2>1. /\ \A i, q : FromW(i, q) \in [Return -> Int]
        /\ \A q : TakesW(q) \in [Return -> Int]
    BY <1>10, ReturnSums
  <2>2. \A i, q : FromW(i, q)[new] = IF i = g THEN LinesQty(lines, q) ELSE 0
    BY <1>9 DEF FromW
  <2>3. \A q : TakesW(q)[new] = LinesQty(lines, q)
    BY <1>9 DEF TakesW
  <2> QED BY <2>1, <2>2, <2>3
<1>16. \A i, q : i # g => Weigh(returns', FromW(i, q)) = Weigh(returns, FromW(i, q))
  BY <1>14, <1>15
<1>17. \A i : ConfirmedReceipts(i)' = ConfirmedReceipts(i)
  BY <1>1 DEF ConfirmedReceipts
<1>18. \A t \in Sessions : SessionOK(t)'
  <2>1. RowsStay
    BY <1>1 DEF RowsStay
  <2>2. ASSUME NEW t \in Sessions, t # s PROVE StockStays(t)
    <3>1. Calm' /\ MovesStock(t) => call[t].products \cap products = {}
      BY <1>p, <1>2, <1>3, <1>4, <2>2 DEF OneMover
    <3>2. MovesStock(t) => call[t].products \subseteq Products
      BY <1>2, CallKinds DEF MovesStock, ConfirmCalls, ReturnCalls
    <3> QED BY <1>11, <3>1, <3>2 DEF StockStays
  <2>3. ASSUME NEW t \in Sessions, t # s PROVE OrderStays(t)
    <3>1. Alone' /\ Busy(t) => call[t].order # o
      BY <1>p, <1>2, <1>3, <1>4, <2>3 DEF OneCall
    <3>2. \A i, q : i # g => Returned(i, q)' = Returned(i, q)
      BY <1>2, <1>13, <1>16, SumForms, SumFormsNext
    <3>3. \A i \in DOMAIN receipts : receipts[i].order # o => i # g
      BY <1>6, RowTypes
    <3> QED BY <1>1, <1>17, <3>1, <3>2, <3>3 DEF OrderStays
  <2> QED BY <1>3, <1>8, <2>1, <2>2, <2>3, Bystander
<1>19. ReceivedAddsUp'
  BY <1>1, <1>3 DEF IInv, ReceivedAddsUp, Alone
<1>20. StockFollowsDocuments'
  <2>1. ASSUME Alone', NEW q \in Products
        PROVE  ledger'[q].sum = Weigh(receipts', BringsW(q)) - Weigh(returns', TakesW(q))
    <3>1. ledger[q].sum = Weigh(receipts, BringsW(q)) - Weigh(returns, TakesW(q))
      BY <1>2, <1>3, <2>1, SumForms DEF IInv
    <3>2. Weigh(receipts, BringsW(q)) \in Int
      BY <1>2, ReceiptSums, WeighType DEF TypesOK
    <3>3. Weigh(returns', TakesW(q)) = Weigh(returns, TakesW(q)) + LinesQty(lines, q)
          /\ Weigh(returns, TakesW(q)) \in Int
      BY <1>14, <1>15
    <3>4. ledger'[q].sum = ledger[q].sum - LinesQty(lines, q) /\ LinesQty(lines, q) \in Nat
      BY <1>7, <1>11
    <3> QED BY <1>1, <3>1, <3>2, <3>3, <3>4
  <2> QED BY <1>13, <2>1, SumFormsNext
<1>21. PostedOnce'
  BY <1>1, <1>12 DEF IInv, PostedOnce, IsConfirmed
<1>22. RunningInv'
  BY <1>3, <1>11 DEF IInv, RunningInv
<1>23. ReturnsWithinReceipt'
  <2> SUFFICES ASSUME history' \cap {"sameOrder", "lineTwice"} = {}, NEW i \in DOMAIN receipts'
               PROVE  Weigh(returns', FromW(i, receipts'[i].product)) <= receipts'[i].qty
    BY <1>13, SumFormsNext
  <2>1. /\ i \in DOMAIN receipts /\ receipts' = receipts /\ i # 0 /\ receipts[i].qty \in Nat
        /\ history \cap {"sameOrder", "lineTwice"} = {} /\ ~(Cardinality(products) < Len(lines))
        /\ Alone
    BY <1>1, <1>3, RowTypes DEF Alone
  <2>2. Weigh(returns, FromW(i, receipts[i].product)) <= receipts[i].qty
    BY <1>2, <2>1, SumForms DEF IInv
  <2>3. PICK q : q = receipts[i].product
    OBVIOUS
  <2>4. CASE i # g
    BY <1>16, <2>1, <2>2, <2>4
  <2>5. CASE i = g
    <3>1. \A j \in DOMAIN lines : Returnable(g, lines[j])
      BY <1>6, <2>1, <2>5
    <3>2. \A j \in DOMAIN lines : /\ lines[j].product = q
                                  /\ lines[j].qty <= receipts[g].qty - Weigh(returns, FromW(g, q))
      BY <1>2, <2>3, <2>5, <3>1, SumForms DEF Returnable
    <3>3. \/ LinesQty(lines, q) = 0
          \/ 1 \in DOMAIN lines /\ LinesQty(lines, q) = lines[1].qty
      BY <1>5, <1>6, <2>1, <3>2, OneLineQty
    <3>4. Weigh(returns', FromW(g, q)) = Weigh(returns, FromW(g, q)) + LinesQty(lines, q)
          /\ Weigh(returns, FromW(g, q)) \in Int /\ LinesQty(lines, q) \in Nat
      BY <1>7, <1>14, <1>15
    <3> QED BY <2>1, <2>2, <2>3, <2>5, <3>2, <3>3, <3>4
  <2> QED BY <2>4, <2>5
<1>24. CancelledHasNoGoods'
  BY <1>1, <1>3, <1>17 DEF IInv, CancelledHasNoGoods, Alone
<1> QED BY <1>8, <1>13, <1>18, <1>19, <1>20, <1>21, <1>22, <1>23, <1>24 DEF IInv

-----------------------------------------------------------------------------
(* The invariant holds *)

LEMMA InitIInv == Init => IInv
<1> SUFFICES ASSUME Init PROVE IInv
  OBVIOUS
<1>1. /\ orders = << >> /\ receipts = << >> /\ returns = << >> /\ journal = << >>
      /\ ledger = [p \in Products |-> EmptyLedger]
      /\ call = [s \in Sessions |-> NoCall] /\ history = {}
  BY DEF Init
<1>2. EmptyLedger \in Ledgers /\ EmptyLedger.running = 0 /\ EmptyLedger.sum = 0
      /\ EmptyLedger.datedRunning = 0
  BY DEF EmptyLedger, Ledgers, NoDate
<1>3. NoCall \in Calls /\ NoCall.step = "none"
  BY DEF Calls, NoCall
<1>4. TypesOK
  BY <1>1, <1>2, <1>3 DEF TypesOK
<1>5. /\ DOMAIN orders = {} /\ DOMAIN receipts = {} /\ DOMAIN returns = {} /\ DOMAIN journal = {}
  BY <1>1
<1>6. Places
  BY <1>5 DEF Places
<1>7. \A s \in Sessions : SessionOK(s)
  BY <1>1, <1>3 DEF SessionOK, Refers, Reads, Knows, Confirms, Returns
<1>8. OneCall /\ OneMover /\ OnePoster
  BY <1>1, <1>3 DEF OneCall, OneMover, OnePoster, Busy, MovesStock, Confirms, Returns
<1>9. ReceivedAddsUp
  BY <1>5 DEF ReceivedAddsUp
<1>10. StockFollowsDocuments
  <2>1. \A p : Weigh(receipts, BringsW(p)) = 0 /\ Weigh(returns, TakesW(p)) = 0
    <3>1. receipts \in Seq(Receipt) /\ returns \in Seq(Return)
      BY <1>4 DEF TypesOK
    <3>2. \A p : BringsW(p) \in [Receipt -> Int] /\ TakesW(p) \in [Return -> Int]
      BY <3>1, ReceiptSums, ReturnSums
    <3> QED BY <1>5, <3>1, <3>2, WeighType
  <2>2. \A p \in Products : ledger[p].sum = 0
    BY <1>1, <1>2
  <2> QED BY <1>4, <2>1, <2>2, SumForms
<1>11. PostedOnce
  BY <1>5 DEF PostedOnce, EntriesOf
<1>12. RunningInv
  BY <1>1, <1>2 DEF RunningInv
<1>13. ReturnsWithinReceipt /\ CancelledHasNoGoods
  BY <1>5 DEF ReturnsWithinReceipt, CancelledHasNoGoods
<1> QED BY <1>4, <1>6, <1>7, <1>8, <1>9, <1>10, <1>11, <1>12, <1>13 DEF IInv

\* The handlers of an order.
LEMMA OrderStepIInv ==
    ASSUME IInv, NEW s \in Sessions, OrderStep(s)
    PROVE  IInv'
<1>1. CASE \E u \in Users, b \in OrderBodies : CreateOrder(s, u, b)
  BY <1>1, CreateOrderStep
<1>2. ASSUME NEW o \in DOMAIN orders,
             \/ Submit(s, o) \/ Reject(s, o) \/ Revise(s, o) \/ Cancel(s, o) \/ Close(s, o)
             \/ \E u \in Users : Approve(s, o, u)
      PROVE  IInv'
  <2>1. {"PENDING_APPROVAL", "APPROVED", "REJECTED", "DRAFT", "CLOSED", "CANCELLED"} \subseteq OrderStatus
    BY DEF OrderStatus
  <2>2. CASE Submit(s, o)
    BY <2>1, <2>2, OrderCallStep DEF Submit
  <2>3. CASE Reject(s, o)
    BY <2>1, <2>3, OrderCallStep DEF Reject
  <2>4. CASE Revise(s, o)
    BY <2>1, <2>4, OrderCallStep DEF Revise
  <2>5. CASE Cancel(s, o)
    BY <2>1, <2>5, OrderCallStep DEF Cancel
  <2>6. CASE Close(s, o)
    BY <2>1, <2>6, OrderCallStep DEF Close
  <2>7. ASSUME NEW u \in Users, Approve(s, o, u) PROVE IInv'
    BY <2>1, <2>7, OrderCallStep DEF Approve
  <2> QED BY <1>2, <2>2, <2>3, <2>4, <2>5, <2>6, <2>7
<1> QED BY <1>1, <1>2 DEF OrderStep

LEMMA NextIInv == IInv /\ [Next]_vars => IInv'
<1> SUFFICES ASSUME IInv, [Next]_vars PROVE IInv'
  OBVIOUS
<1>1. Buying \subseteq Sessions /\ Receiving \subseteq Sessions /\ Returning \subseteq Sessions
  BY DEF Sessions
<1>2. ASSUME NEW s \in Buying, OrderStep(s) PROVE IInv'
  BY <1>1, <1>2, OrderStepIInv
<1>3. ASSUME NEW s \in Receiving, ReceiptStep(s) PROVE IInv'
  <2>1. s \in Sessions
    BY <1>1
  <2>2. ASSUME NEW o \in DOMAIN orders, NEW b \in ReceiptBodies,
               ReceiptCheck(s, o, b) \/ ReceiveGoodsCheck(s, o, b)
        PROVE  IInv'
    <3>1. PICK counted \in BOOLEAN : Free(s) /\ Draft(s, o, b, counted)
      BY <2>2 DEF ReceiptCheck, ReceiveGoodsCheck
    <3> QED BY <2>1, <3>1, DraftStep
  <2>3. ASSUME NEW g \in DOMAIN receipts, ConfirmCheck(s, g) \/ DropCheck(s, g) PROVE IInv'
    BY <2>1, <2>3, ConfirmCheckStep, DropCheckStep
  <2> QED BY <1>3, <2>2, <2>3 DEF ReceiptStep
<1>4. ASSUME NEW s \in Returning, ReturnStep(s) PROVE IInv'
  <2>1. PICK g \in {0} \cup DOMAIN receipts, b \in ReturnBodies : ReturnCheck(s, g, b)
    BY <1>4 DEF ReturnStep
  <2> QED BY <1>1, <2>1, ReturnCheckStep
<1>5. ASSUME NEW s \in Sessions, Serve(s) PROVE IInv'
  <2>1. CASE OrderUpdate(s)
    BY <2>1, OrderUpdateStep
  <2>2. CASE DraftCreate(s)
    BY <2>2, DraftCreateStep
  <2>3. CASE DropReceipt(s)
    BY <2>3, DropReceiptStep
  <2>4. CASE ConfirmReadLine(s)
    BY <2>4, ConfirmReadLineStep
  <2>5. CASE ConfirmUpdateLine(s)
    BY <2>5, ConfirmUpdateLineStep
  <2>6. CASE ConfirmUpdateOrder(s)
    BY <2>6, ConfirmUpdateOrderStep
  <2>7. CASE ConfirmCommit(s)
    BY <2>7, ConfirmCommitStep
  <2>8. CASE ReturnRead(s)
    BY <2>8, ReturnReadStep
  <2>9. CASE ReturnRefused(s) \/ CallFails(s)
    BY <2>9, EndStep
  <2>10. CASE ReturnCommit(s)
    BY <2>10, ReturnCommitStep
  <2> QED BY <1>5, <2>1, <2>2, <2>3, <2>4, <2>5, <2>6, <2>7, <2>8, <2>9, <2>10 DEF Serve
<1>6. CASE UNCHANGED vars
  <2>1. UNCHANGED <<orders, receipts, returns, ledger, journal>> /\ history' = history /\ call' = call
        /\ UNCHANGED Documents
    BY <1>6 DEF vars, Documents
  <2>2. /\ TypesOK' /\ Places' /\ ReceivedAddsUp' /\ StockFollowsDocuments' /\ PostedOnce' /\ RunningInv'
        /\ ReturnsWithinReceipt' /\ CancelledHasNoGoods'
    BY <2>1, DocumentsStay DEF IInv, TypesOK
  <2>3. \A s \in Sessions : SessionOK(s)'
    BY <2>1, BystanderStays
  <2>4. OneCall' /\ OneMover' /\ OnePoster'
    BY <2>1 DEF IInv, OneCall, OneMover, OnePoster, Alone, Calm, Busy, MovesStock, Confirms, Returns
  <2> QED BY <2>2, <2>3, <2>4 DEF IInv
<1> QED BY <1>2, <1>3, <1>4, <1>5, <1>6 DEF Next

LEMMA SpecIInv == Spec => []IInv
BY InitIInv, NextIInv, PTL DEF Spec

-----------------------------------------------------------------------------
(* What it says of receipts and goods *)

\* The rows and calls have their types, and a row lock has one holder.
LEMMA IInvTypeOK == IInv => TypeOK
<1> SUFFICES ASSUME IInv PROVE TypeOK
  OBVIOUS
<1>1. TypesOK /\ OnePoster
  BY DEF IInv
<1>2. ASSUME NEW s \in Sessions
      PROVE  call[s].step \in {"none", "order", "draft", "confirm", "line", "status", "posting",
                               "drop", "return", "returning"}
  <2>1. call[s] \in Calls
    BY <1>1 DEF TypesOK
  <2> QED BY <2>1 DEF Calls, NoCall, OrderCalls, DraftCalls, ConfirmCalls, DropCalls, ReturnCalls
<1> QED BY <1>1, <1>2 DEF TypesOK, OnePoster, TypeOK

\* The entries of a receipt, counted.
LEMMA IInvPostedOnce == IInv => ReceiptPostedOnce
<1> SUFFICES ASSUME IInv, NEW g \in DOMAIN receipts
             PROVE  Cardinality(EntriesOf(g)) = IF IsConfirmed(g) THEN 1 ELSE 0
  BY DEF ReceiptPostedOnce, EntriesOf
<1>1. IF IsConfirmed(g) THEN \E i : EntriesOf(g) = {i} ELSE EntriesOf(g) = {}
  BY DEF IInv, PostedOnce
<1> QED BY <1>1, FS_Singleton, FS_EmptySet

\* For any users, sessions, products and documents: a receipt counts once on its order's
\* line, in the ledger and in the journal, through drafts, cancelled drafts, failures and
\* confirmations, as GoodsReceiptService.confirm and receiveGoods write them.
THEOREM ReceiptsCountOnce == Spec => []ReceiptCountsOnce
<1>1. IInv => ReceiptCountsOnce
  <2>1. IInv => RunningIsBalance
    BY DEF IInv, RunningInv, Calm, RunningIsBalance
  <2> QED BY <2>1, IInvTypeOK, IInvPostedOnce DEF IInv, ReceiptCountsOnce
<1> QED BY <1>1, SpecIInv, PTL

\* For any users, sessions, products and documents: no receipt is sent back more than
\* once over, over any number of returns (createReturn), and an order that was cancelled
\* has no confirmed receipt (PurchaseOrderService.cancel).
THEOREM GoodsAreHeld == Spec => []GoodsHold
<1>1. IInv => GoodsHold
  BY DEF IInv, GoodsHold
<1> QED BY <1>1, SpecIInv, PTL

-----------------------------------------------------------------------------
(* Approval requests *)

Status == {"PENDING", "APPROVED", "REJECTED"}
ApCalls == [at : {"step", "all"}, by : Approvers, seen : [Approvers -> Status]]
            \cup [at : {"reject"}, by : Approvers]

ApTypeOK ==
    /\ request \in Status
    /\ steps \in [Approvers -> Status]
    /\ desk \in [Desks -> {AtRest} \cup ApCalls]
    /\ met \subseteq {"steps", "self", "lost"}

Serving(d) == desk[d] # AtRest

OneCallEach ==
    \A d, e \in Desks : Serving(d) /\ Serving(e) /\ d # e => desk[d].by # desk[e].by
StillPending ==
    \A d \in Desks : desk[d].at \in {"step", "reject"} => steps[desk[d].by] = "PENDING"
OwnApproved ==
    \A d \in Desks : desk[d].at = "all" => steps[desk[d].by] = "APPROVED"
SeenStays ==
    \A d \in Desks : desk[d].at \in {"step", "all"} =>
        \A a \in Approvers : desk[d].seen[a] = "APPROVED" => steps[a] = "APPROVED"
RequestFollows ==
    /\ request = "APPROVED" => \A a \in Approvers : steps[a] = "APPROVED"
    /\ request = "REJECTED" => \E a \in Approvers : steps[a] = "REJECTED"

MeetInv ==
    "self" \notin met =>
        OneCallEach /\ StillPending /\ OwnApproved /\ SeenStays /\ RequestFollows

OneAtDesk == \A d, e \in Desks : Serving(d) /\ Serving(e) => d = e
SeenIsCurrent ==
    \A d \in Desks :
        /\ desk[d].at = "step" => steps = desk[d].seen
        /\ desk[d].at = "all" => steps = [desk[d].seen EXCEPT ![desk[d].by] = "APPROVED"]
Decided == (\A d \in Desks : ~Serving(d)) /\ steps = Approved => request = "APPROVED"

AloneInv == met = {} => OneAtDesk /\ SeenIsCurrent /\ Decided

ApInv == ApTypeOK /\ MeetInv /\ AloneInv

-----------------------------------------------------------------------------
\* A request waits and every session is at rest, to begin with.
LEMMA TypeInit == ApInit => ApTypeOK
  BY DEF ApInit, ApTypeOK, Status, AtRest

\* What sitting down at a desk leaves of the types.
LEMMA SitsType ==
  ASSUME ApTypeOK, NEW d \in Desks, NEW c \in ApCalls, Sits(d, c)
  PROVE  desk' \in [Desks -> {AtRest} \cup ApCalls] /\ met' \subseteq {"steps", "self", "lost"}
  BY DEF ApTypeOK, Sits

\* What the point that a call has reached says of the record that it carries.
LEMMA CallFields ==
  ASSUME ApTypeOK, NEW d \in Desks
  PROVE  /\ desk[d] # AtRest => desk[d] \in ApCalls /\ desk[d].by \in Approvers
         /\ desk[d].at \in {"step", "all"} =>
               desk[d] \in [at : {"step", "all"}, by : Approvers, seen : [Approvers -> Status]]
         /\ desk[d].at = "reject" => desk[d] \in [at : {"reject"}, by : Approvers]
         /\ desk[d].at \in {"step", "all", "reject"} <=> desk[d] # AtRest
  BY DEF ApTypeOK, ApCalls, AtRest

\* Every operation keeps the types.
LEMMA TypeStep == ApTypeOK /\ [ApNext]_apVars => ApTypeOK'
<1> SUFFICES ASSUME ApTypeOK, [ApNext]_apVars PROVE ApTypeOK'
  OBVIOUS
<1>1. ASSUME NEW d \in Desks, NEW a \in Approvers, ApproveRead(d, a) PROVE ApTypeOK'
  <2>1. [at |-> "step", by |-> a, seen |-> steps] \in ApCalls
    BY DEF ApTypeOK, ApCalls
  <2> QED
    BY <1>1, <2>1, SitsType DEF ApproveRead, ApTypeOK
<1>2. ASSUME NEW d \in Desks, NEW a \in Approvers, RejectRead(d, a) PROVE ApTypeOK'
  <2>1. [at |-> "reject", by |-> a] \in ApCalls
    BY DEF ApCalls
  <2> QED
    BY <1>2, <2>1, SitsType DEF RejectRead, ApTypeOK
<1>3. ASSUME NEW d \in Desks, ApproveStep(d) PROVE ApTypeOK'
  <2>1. desk[d] \in [at : {"step", "all"}, by : Approvers, seen : [Approvers -> Status]]
    BY <1>3, CallFields DEF ApproveStep
  <2>2. [desk[d] EXCEPT !.at = "all"] \in ApCalls
    BY <2>1 DEF ApCalls
  <2> QED
    BY <1>3, <2>1, <2>2 DEF ApproveStep, ApTypeOK, Status
<1>4. ASSUME NEW d \in Desks, ApproveRequest(d) PROVE ApTypeOK'
  BY <1>4 DEF ApproveRequest, ApTypeOK, Status
<1>5. ASSUME NEW d \in Desks, RejectBoth(d) PROVE ApTypeOK'
  BY <1>5 DEF RejectBoth, ApTypeOK, Status
<1>6. ASSUME NEW d \in Desks, ApFails(d) PROVE ApTypeOK'
  BY <1>6 DEF ApFails, ApTypeOK
<1>7. CASE UNCHANGED apVars
  BY <1>7 DEF apVars, ApTypeOK
<1> QED
  BY <1>1, <1>2, <1>3, <1>4, <1>5, <1>6, <1>7 DEF ApNext

-----------------------------------------------------------------------------
\* What the history says of the calls that a new one met.
LEMMA SitsMeet ==
  ASSUME ApTypeOK, NEW d \in Desks, NEW c, Sits(d, c)
  PROVE  /\ "self" \notin met' =>
               "self" \notin met /\ \A e \in Desks : Serving(e) => desk[e].by # c.by
         /\ met' = {} => met = {} /\ \A e \in Desks : ~Serving(e)
         /\ desk[d] = AtRest
         /\ desk'[d] = c /\ \A e \in Desks \ {d} : desk'[e] = desk[e]
<1>1. ASSUME NEW e \in Desks, Serving(e)
      PROVE  (IF desk[e].by = c.by THEN "self" ELSE "steps") \in met'
  BY <1>1 DEF Sits, Serving
<1>2. met \subseteq met'
  BY DEF Sits
<1> QED
  BY <1>1, <1>2 DEF Sits, ApTypeOK

\* The end of a call leaves its session at rest, and the others as they are.
LEMMA Rests ==
  ASSUME ApTypeOK, NEW d \in Desks, desk' = [desk EXCEPT ![d] = AtRest]
  PROVE  /\ desk'[d] = AtRest /\ ~Serving(d)'
         /\ desk'[d].at \notin {"step", "all", "reject"}
         /\ \A e \in Desks \ {d} : desk'[e] = desk[e]
  BY DEF ApTypeOK, AtRest, Serving

\* The step that is approved, and the session that goes on.
LEMMA StepApproved ==
  ASSUME ApTypeOK, NEW d \in Desks, ApproveStep(d)
  PROVE  /\ Serving(d) /\ desk[d].by \in Approvers
         /\ steps'[desk[d].by] = "APPROVED"
         /\ \A a \in Approvers \ {desk[d].by} : steps'[a] = steps[a]
         /\ desk'[d].at = "all" /\ desk'[d].by = desk[d].by /\ desk'[d].seen = desk[d].seen
         /\ Serving(d)' /\ \A e \in Desks \ {d} : desk'[e] = desk[e]
<1>1. desk[d] \in [at : {"step", "all"}, by : Approvers, seen : [Approvers -> Status]]
  BY CallFields DEF ApproveStep
<1>2. desk'[d] = [desk[d] EXCEPT !.at = "all"]
  BY DEF ApproveStep, ApTypeOK
<1>3. /\ desk'[d].at = "all" /\ desk'[d].by = desk[d].by /\ desk'[d].seen = desk[d].seen
  BY <1>1, <1>2
<1>4. Serving(d) /\ Serving(d)'
  BY <1>3 DEF ApproveStep, Serving, AtRest
<1> QED
  BY <1>1, <1>3, <1>4 DEF ApproveStep, ApTypeOK

\* Nobody has called, to begin with.
LEMMA InvInit ==
  ASSUME Approvers # {}, ApInit
  PROVE  ApInv
<1>1. \A d \in Desks : ~Serving(d) /\ desk[d].at \notin {"step", "all", "reject"}
  BY DEF ApInit, Serving, AtRest
<1>2. steps # Approved
  <2>1. PICK a \in Approvers : TRUE
    OBVIOUS
  <2>2. steps[a] = "PENDING" /\ Approved[a] = "APPROVED"
    BY DEF ApInit, Approved
  <2> QED
    BY <2>2
<1>3. RequestFollows
  BY DEF ApInit, RequestFollows
<1> QED
  BY <1>1, <1>2, <1>3, TypeInit DEF ApInv, MeetInv, AloneInv, OneCallEach, StillPending,
     OwnApproved, SeenStays, OneAtDesk, SeenIsCurrent, Decided

-----------------------------------------------------------------------------
\* Every operation keeps what the calls under way have read, as long as no approver
\* makes two at a time.
LEMMA MeetStep == ApTypeOK /\ MeetInv /\ [ApNext]_apVars => MeetInv'
<1> DEFINE Now == OneCallEach /\ StillPending /\ OwnApproved /\ SeenStays /\ RequestFollows
<1> SUFFICES ASSUME ApTypeOK, MeetInv, [ApNext]_apVars, "self" \notin met' PROVE Now'
  BY DEF MeetInv
<1> USE DEF Now
<1>1. ASSUME NEW d \in Desks, NEW c \in ApCalls, Sits(d, c), UNCHANGED <<request, steps>>,
             c.at \in {"step", "reject"}, steps[c.by] = "PENDING",
             c.at = "step" => c.seen = steps
      PROVE  Now'
  <2>1. Now /\ \A e \in Desks : Serving(e) => desk[e].by # c.by
    BY <1>1, SitsMeet DEF MeetInv
  <2>2. desk'[d] = c /\ \A e \in Desks \ {d} : desk'[e] = desk[e]
    BY <1>1, SitsMeet
  <2>3. OneCallEach'
    BY <2>1, <2>2 DEF OneCallEach, Serving
  <2>4. StillPending' /\ OwnApproved' /\ SeenStays'
    BY <1>1, <2>1, <2>2 DEF StillPending, OwnApproved, SeenStays
  <2>5. RequestFollows'
    BY <1>1, <2>1 DEF RequestFollows
  <2> QED
    BY <2>3, <2>4, <2>5
<1>2. ASSUME NEW d \in Desks, NEW a \in Approvers, ApproveRead(d, a) PROVE Now'
  <2> DEFINE c == [at |-> "step", by |-> a, seen |-> steps]
  <2>1. c \in ApCalls /\ c.at = "step" /\ c.by = a /\ c.seen = steps
    BY DEF ApTypeOK, ApCalls
  <2>2. Sits(d, c) /\ UNCHANGED <<request, steps>> /\ steps[a] = "PENDING"
    BY <1>2 DEF ApproveRead
  <2> HIDE DEF c
  <2> QED
    BY <1>1, <2>1, <2>2
<1>3. ASSUME NEW d \in Desks, NEW a \in Approvers, RejectRead(d, a) PROVE Now'
  <2> DEFINE c == [at |-> "reject", by |-> a]
  <2>1. c \in ApCalls /\ c.at = "reject" /\ c.by = a
    BY DEF ApCalls
  <2>2. Sits(d, c) /\ UNCHANGED <<request, steps>> /\ steps[a] = "PENDING"
    BY <1>3 DEF RejectRead
  <2> HIDE DEF c
  <2> QED
    BY <1>1, <2>1, <2>2
<1>4. ASSUME NEW d \in Desks, ApproveStep(d) PROVE Now'
  <2>1. Now /\ steps[desk[d].by] = "PENDING"
    BY <1>4 DEF ApproveStep, MeetInv, StillPending
  <2>2. \A e \in Desks \ {d} : Serving(e) => desk[e].by \in Approvers \ {desk[d].by}
    BY <1>4, <2>1, StepApproved, CallFields DEF OneCallEach, Serving
  <2>3. OneCallEach'
    BY <1>4, <2>1, StepApproved DEF OneCallEach, Serving
  <2>4. StillPending'
    BY <1>4, <2>1, <2>2, StepApproved, CallFields DEF StillPending, Serving
  <2>5. OwnApproved'
    BY <1>4, <2>1, <2>2, StepApproved, CallFields DEF OwnApproved, Serving
  <2>6. SeenStays'
    BY <1>4, <2>1, StepApproved DEF SeenStays, ApproveStep
  <2>7. RequestFollows'
    BY <1>4, <2>1, StepApproved DEF RequestFollows, ApproveStep
  <2> QED
    BY <2>3, <2>4, <2>5, <2>6, <2>7
<1>5. ASSUME NEW d \in Desks, desk' = [desk EXCEPT ![d] = AtRest], UNCHANGED steps, Now
      PROVE  OneCallEach' /\ StillPending' /\ OwnApproved' /\ SeenStays'
  <2>1. /\ ~Serving(d)' /\ desk'[d].at \notin {"step", "all", "reject"}
        /\ \A e \in Desks \ {d} : desk'[e] = desk[e]
    BY <1>5, Rests
  <2>2. OneCallEach'
    BY <1>5, <2>1 DEF OneCallEach, Serving
  <2>3. StillPending' /\ OwnApproved'
    BY <1>5, <2>1 DEF StillPending, OwnApproved
  <2>4. SeenStays'
    BY <1>5, <2>1 DEF SeenStays
  <2> QED
    BY <2>2, <2>3, <2>4
<1>6. ASSUME NEW d \in Desks, ApproveRequest(d) PROVE Now'
  <2>1. Now
    BY <1>6 DEF ApproveRequest, MeetInv
  <2>2. ASSUME AllApproved(d), NEW a \in Approvers PROVE steps[a] = "APPROVED"
    <3>1. desk[d].seen \in [Approvers -> Status]
      BY <1>6, CallFields DEF ApproveRequest
    <3>2. [desk[d].seen EXCEPT ![desk[d].by] = "APPROVED"][a] = "APPROVED"
      BY <2>2 DEF AllApproved, Approved
    <3>3. CASE a = desk[d].by
      BY <1>6, <2>1, <3>3 DEF ApproveRequest, OwnApproved
    <3>4. CASE a # desk[d].by
      BY <1>6, <2>1, <3>1, <3>2, <3>4 DEF ApproveRequest, SeenStays
    <3> QED
      BY <3>3, <3>4
  <2>3. RequestFollows'
    BY <1>6, <2>1, <2>2 DEF ApproveRequest, RequestFollows
  <2> QED
    BY <1>5, <1>6, <2>1, <2>3 DEF ApproveRequest
<1>7. ASSUME NEW d \in Desks, RejectBoth(d) PROVE Now'
  <2>1. Now /\ steps[desk[d].by] = "PENDING" /\ Serving(d) /\ desk[d].by \in Approvers
    BY <1>7, CallFields DEF RejectBoth, MeetInv, StillPending, Serving
  <2>2. /\ steps'[desk[d].by] = "REJECTED"
        /\ \A a \in Approvers \ {desk[d].by} : steps'[a] = steps[a]
    BY <1>7, <2>1 DEF RejectBoth, ApTypeOK
  <2>3. \A e \in Desks \ {d} : Serving(e) => desk[e].by \in Approvers \ {desk[d].by}
    BY <2>1, CallFields DEF OneCallEach, Serving
  <2>4. /\ ~Serving(d)' /\ desk'[d].at \notin {"step", "all", "reject"}
        /\ \A e \in Desks \ {d} : desk'[e] = desk[e]
    BY <1>7, Rests DEF RejectBoth
  <2>5. OneCallEach'
    BY <2>1, <2>4 DEF OneCallEach, Serving
  <2>6. StillPending' /\ OwnApproved'
    <3>1. ASSUME NEW e \in Desks, desk'[e].at \in {"step", "all", "reject"}
          PROVE  desk'[e] = desk[e] /\ steps'[desk[e].by] = steps[desk[e].by]
      BY <2>2, <2>3, <2>4, <3>1, CallFields DEF Serving
    <3> QED
      BY <2>1, <3>1 DEF StillPending, OwnApproved
  <2>7. SeenStays'
    <3>1. ASSUME NEW e \in Desks, desk'[e].at \in {"step", "all"}, NEW a \in Approvers,
                 desk'[e].seen[a] = "APPROVED"
          PROVE  steps'[a] = "APPROVED"
      <4>1. desk'[e] = desk[e]
        BY <2>4, <3>1
      <4>2. steps[a] = "APPROVED"
        BY <2>1, <3>1, <4>1 DEF SeenStays
      <4> QED
        BY <2>1, <2>2, <4>2
    <3> QED
      BY <3>1 DEF SeenStays
  <2>8. RequestFollows'
    BY <1>7, <2>1, <2>2 DEF RejectBoth, RequestFollows
  <2> QED
    BY <2>5, <2>6, <2>7, <2>8
<1>8. ASSUME NEW d \in Desks, ApFails(d) PROVE Now'
  <2>1. Now
    BY <1>8 DEF ApFails, MeetInv
  <2>2. RequestFollows'
    BY <1>8, <2>1 DEF ApFails, RequestFollows
  <2> QED
    BY <1>5, <1>8, <2>1, <2>2 DEF ApFails
<1>9. CASE UNCHANGED apVars
  BY <1>9 DEF apVars, MeetInv, OneCallEach, StillPending, OwnApproved, SeenStays,
     RequestFollows, Serving
<1> QED
  BY <1>2, <1>3, <1>4, <1>6, <1>7, <1>8, <1>9 DEF ApNext

\* Every operation keeps what a call on its own has read, and decides the request with
\* the last approval.
LEMMA AloneStep == ApInv /\ [ApNext]_apVars => AloneInv'
<1> DEFINE Now == OneAtDesk /\ SeenIsCurrent /\ Decided
<1> SUFFICES ASSUME ApInv, [ApNext]_apVars, met' = {} PROVE Now'
  BY DEF AloneInv
<1> USE DEF Now
<1>1. ApTypeOK
  BY DEF ApInv
<1>2. ASSUME NEW d \in Desks, NEW c, Sits(d, c), UNCHANGED <<request, steps>>, c # AtRest,
             c.at \in {"step", "reject"}, c.at = "step" => c.seen = steps
      PROVE  Now'
  <2>1. /\ \A e \in Desks : ~Serving(e)
        /\ desk'[d] = c /\ \A e \in Desks \ {d} : desk'[e] = desk[e]
    BY <1>1, <1>2, SitsMeet
  <2>2. OneAtDesk' /\ Decided'
    BY <1>2, <2>1 DEF OneAtDesk, Decided, Serving
  <2>3. \A e \in Desks \ {d} : desk'[e].at \notin {"step", "all"}
    BY <1>1, <2>1, CallFields DEF Serving
  <2>4. SeenIsCurrent'
    BY <1>2, <2>1, <2>3 DEF SeenIsCurrent
  <2> QED
    BY <2>2, <2>4
<1>3. ASSUME NEW d \in Desks, NEW a \in Approvers, ApproveRead(d, a) PROVE Now'
  <2> DEFINE c == [at |-> "step", by |-> a, seen |-> steps]
  <2>1. c # AtRest /\ c.at = "step" /\ c.seen = steps
    BY DEF AtRest
  <2>2. Sits(d, c) /\ UNCHANGED <<request, steps>>
    BY <1>3 DEF ApproveRead
  <2> HIDE DEF c
  <2> QED
    BY <1>2, <2>1, <2>2
<1>4. ASSUME NEW d \in Desks, NEW a \in Approvers, RejectRead(d, a) PROVE Now'
  <2> DEFINE c == [at |-> "reject", by |-> a]
  <2>1. c # AtRest /\ c.at = "reject"
    BY DEF AtRest
  <2>2. Sits(d, c) /\ UNCHANGED <<request, steps>>
    BY <1>4 DEF RejectRead
  <2> HIDE DEF c
  <2> QED
    BY <1>2, <2>1, <2>2
<1>5. ASSUME met = {}
      PROVE  Now /\ StillPending
  BY <1>5 DEF ApInv, AloneInv, MeetInv
<1>6. ASSUME NEW d \in Desks, Serving(d), met = {}
      PROVE  \A e \in Desks \ {d} : desk[e] = AtRest
  BY <1>5, <1>6 DEF OneAtDesk, Serving
<1>7. AtRest.at \notin {"step", "all", "reject"}
  BY DEF AtRest
<1>8. ASSUME NEW d \in Desks, ApproveStep(d) PROVE Now'
  <2>1. met = {} /\ steps = desk[d].seen
    BY <1>5, <1>8 DEF ApproveStep, SeenIsCurrent
  <2>2. \A e \in Desks \ {d} : desk'[e] = AtRest
    BY <1>1, <1>6, <1>8, <2>1, StepApproved
  <2>3. OneAtDesk' /\ Decided'
    BY <1>1, <1>8, <2>2, StepApproved DEF OneAtDesk, Decided, Serving
  <2>4. steps' = [desk'[d].seen EXCEPT ![desk'[d].by] = "APPROVED"]
    <3>1. desk'[d].by = desk[d].by /\ desk'[d].seen = desk[d].seen
      BY <1>1, <1>8, StepApproved
    <3> QED
      BY <1>8, <2>1, <3>1 DEF ApproveStep
  <2>5. SeenIsCurrent'
    BY <1>1, <1>7, <1>8, <2>2, <2>4, StepApproved DEF SeenIsCurrent
  <2> QED
    BY <2>3, <2>5
<1>9. ASSUME NEW d \in Desks, Serving(d), met = {}, desk' = [desk EXCEPT ![d] = AtRest],
             steps' = Approved => request' = "APPROVED"
      PROVE  Now'
  <2>1. \A e \in Desks : desk'[e] = AtRest
    BY <1>1, <1>6, <1>9 DEF ApTypeOK
  <2>2. OneAtDesk' /\ SeenIsCurrent'
    BY <1>7, <2>1 DEF OneAtDesk, SeenIsCurrent, Serving
  <2> QED
    BY <1>9, <2>2 DEF Decided
<1>10. ASSUME NEW d \in Desks, ApproveRequest(d) PROVE Now'
  <2>1. met = {} /\ Serving(d)
    BY <1>1, <1>10, CallFields DEF ApproveRequest, Serving
  <2>2. steps = [desk[d].seen EXCEPT ![desk[d].by] = "APPROVED"]
    BY <1>5, <1>10, <2>1 DEF ApproveRequest, SeenIsCurrent
  <2>3. steps' = Approved => request' = "APPROVED"
    BY <1>10, <2>2 DEF ApproveRequest, AllApproved
  <2> QED
    BY <1>9, <1>10, <2>1, <2>3 DEF ApproveRequest
<1>11. ASSUME NEW d \in Desks, desk[d].by \in Approvers, steps'[desk[d].by] # "APPROVED"
       PROVE  steps' # Approved
  BY <1>11 DEF Approved
<1>12. ASSUME NEW d \in Desks, RejectBoth(d) PROVE Now'
  <2>1. met = {} /\ Serving(d) /\ desk[d].by \in Approvers
    BY <1>1, <1>12, CallFields DEF RejectBoth, Serving
  <2>2. steps'[desk[d].by] = "REJECTED"
    BY <1>1, <1>12, <2>1 DEF RejectBoth, ApTypeOK
  <2> QED
    BY <1>9, <1>11, <1>12, <2>1, <2>2 DEF RejectBoth
<1>13. ASSUME NEW d \in Desks, ApFails(d) PROVE Now'
  <2>1. met = {} /\ desk[d].at # "all" /\ Serving(d)
    BY <1>13 DEF ApFails, Serving
  <2>2. desk[d].by \in Approvers /\ steps'[desk[d].by] = "PENDING"
    BY <1>1, <1>5, <1>13, <2>1, CallFields DEF ApFails, StillPending, Serving
  <2> QED
    BY <1>9, <1>11, <1>13, <2>1, <2>2 DEF ApFails
<1>14. CASE UNCHANGED apVars
  BY <1>5, <1>14 DEF apVars, OneAtDesk, SeenIsCurrent, Decided, Serving
<1> QED
  BY <1>3, <1>4, <1>8, <1>10, <1>12, <1>13, <1>14 DEF ApNext

-----------------------------------------------------------------------------
\* The invariant holds throughout, for any number of approvers and sessions.
THEOREM ApprovalsInv ==
  ASSUME Approvers # {}
  PROVE  ApSpec => []ApInv
<1>1. ApInit => ApInv
  BY InvInit
<1>2. ApInv /\ [ApNext]_apVars => ApInv'
  BY TypeStep, MeetStep, AloneStep DEF ApInv
<1> QED
  BY <1>1, <1>2, PTL DEF ApSpec

\* All approvals are needed, and are enough: a request that some session APPROVED had
\* the approval of everybody, and one that everybody has approved, one call at a time,
\* does not stay PENDING.
THEOREM EverybodyDecides ==
  ASSUME Approvers # {}
  PROVE  ApSpec => []ApprovalsDecide
<1>1. ApInv => ApprovalsDecide
  <2> SUFFICES ASSUME ApInv PROVE ApprovalsDecide
    OBVIOUS
  <2>1. ApprovedByAll
    BY DEF ApInv, ApTypeOK, MeetInv, RequestFollows, ApprovedByAll, Approved
  <2>2. AllApprovedDecides
    BY DEF ApInv, AloneInv, Decided, AllApprovedDecides, Serving
  <2> QED
    BY <2>1, <2>2 DEF ApprovalsDecide
<1> QED
  BY <1>1, ApprovalsInv, PTL

\* What one approver has rejected stays REJECTED: the approval of another one that is
\* under way has not read the rejected step as APPROVED.
THEOREM RejectionStays ==
  ASSUME Approvers # {}
  PROVE  ApSpec => RejectedStays
<1>1. ApInv /\ [ApNext]_apVars
        => [request = "REJECTED" /\ "self" \notin met => request' = "REJECTED"]_apVars
  <2> SUFFICES ASSUME ApInv, [ApNext]_apVars, request = "REJECTED", "self" \notin met
               PROVE  request' = "REJECTED" \/ UNCHANGED apVars
    OBVIOUS
  <2>1. ApTypeOK /\ OwnApproved /\ SeenStays
        /\ \E a \in Approvers : steps[a] = "REJECTED"
    BY DEF ApInv, MeetInv, RequestFollows
  <2>2. ASSUME NEW d \in Desks, ApproveRequest(d) PROVE ~AllApproved(d)
    <3>1. PICK a \in Approvers : steps[a] = "REJECTED"
      BY <2>1
    <3>2. a # desk[d].by /\ desk[d].seen[a] # "APPROVED"
      BY <2>1, <2>2, <3>1 DEF ApproveRequest, OwnApproved, SeenStays
    <3>3. desk[d].seen \in [Approvers -> Status]
      BY <2>1, <2>2, CallFields DEF ApproveRequest
    <3> QED
      BY <3>2, <3>3 DEF AllApproved, Approved
  <2> QED
    BY <2>2 DEF ApNext, ApproveRead, RejectRead, ApproveStep, ApproveRequest, RejectBoth,
       ApFails
<1> QED
  BY <1>1, ApprovalsInv, PTL DEF ApSpec, RejectedStays

-----------------------------------------------------------------------------
(* Purchase requests *)

RowStatus == {"DRAFT", "SUBMITTED", "APPROVED", "REJECTED", "CANCELLED"}
Row == [status : RowStatus, deleted : BOOLEAN, lines : Wishes]
Operations == {"update", "delete", "submit", "approve", "reject", "cancel"}
Call == [op : Operations, request : Nat, lines : Wishes, seen : Row]

PrTypeOK == requests \in Seq(Row) /\ asking \in [Clerks -> {NotAsking} \cup Call]

BegunInv ==
    \A c \in Clerks : asking[c] # NotAsking =>
        /\ asking[c].request \in DOMAIN requests
        /\ ~asking[c].seen.deleted
        /\ asking[c].seen.status \in AsksFor[asking[c].op]

PrInv == PrTypeOK /\ BegunInv

\* What an operation asks for is undecided, and for a change of the lines a draft.
LEMMA Asked ==
  ASSUME NEW op \in Operations
  PROVE  /\ DOMAIN AsksFor = Operations
         /\ AsksFor[op] \cap DecidedStatus = {}
         /\ op \in {"update", "delete"} => AsksFor[op] = {"DRAFT"}
  BY DEF AsksFor, Operations, DecidedStatus

\* A call that ends by writing the row that it read: the others stay as they are.
LEMMA Written ==
  ASSUME PrInv, NEW c \in Clerks, asking[c] # NotAsking, NEW row \in Row,
         requests' = [requests EXCEPT ![asking[c].request] = row],
         asking' = [asking EXCEPT ![c] = NotAsking]
  PROVE  /\ PrInv'
         /\ requests'[asking[c].request] = row
         /\ \A r \in DOMAIN requests : r # asking[c].request => requests'[r] = requests[r]
<1>1. requests' \in Seq(Row) /\ DOMAIN requests' = DOMAIN requests
  BY DEF PrInv, PrTypeOK, BegunInv
<1>2. PrTypeOK'
  BY <1>1 DEF PrInv, PrTypeOK
<1>3. BegunInv'
  BY <1>1 DEF PrInv, PrTypeOK, BegunInv
<1> QED
  BY <1>2, <1>3 DEF PrInv, PrTypeOK, BegunInv

\* The row that each operation writes: an update its lines, and every other one leaves
\* the lines alone.
LEMMA PrEnds ==
  ASSUME PrInv, NEW c \in Clerks,
         \/ Update(c) \/ Delete(c)
         \/ PrSubmit(c) \/ PrApprove(c) \/ PrReject(c) \/ PrCancel(c)
  PROVE  /\ asking[c] \in Call /\ asking[c] # NotAsking /\ asking[c].request \in DOMAIN requests
         /\ asking' = [asking EXCEPT ![c] = NotAsking]
         /\ \E row \in Row :
               /\ requests' = [requests EXCEPT ![asking[c].request] = row]
               /\ \/ row.lines = requests[asking[c].request].lines
                  \/ asking[c].op = "update"
<1>1. asking[c] # NotAsking /\ asking[c] \in Call
  <2>1. asking[c].op \in Operations
    BY DEF Update, Delete, SetStatus, PrSubmit, PrApprove, PrReject, PrCancel, Operations
  <2>2. NotAsking.op \notin Operations
    BY DEF NotAsking, Operations
  <2> QED
    BY <2>1, <2>2 DEF PrInv, PrTypeOK
<1> DEFINE r == asking[c].request
           old == requests[r]
<1>2. r \in DOMAIN requests /\ old \in Row
  BY <1>1 DEF PrInv, PrTypeOK, BegunInv
<1>3. CASE Update(c)
  <2> DEFINE row == [old EXCEPT !.lines = asking[c].lines]
  <2>1. row \in Row /\ requests' = [requests EXCEPT ![r] = row]
    BY <1>1, <1>2, <1>3 DEF Update, Call, Row
  <2> QED
    BY <1>1, <1>2, <1>3, <2>1 DEF Update
<1>4. CASE Delete(c)
  <2> DEFINE row == [old EXCEPT !.deleted = TRUE]
  <2>1. row \in Row /\ row.lines = old.lines /\ requests' = [requests EXCEPT ![r] = row]
    BY <1>1, <1>2, <1>4 DEF Delete, Row
  <2> QED
    BY <1>1, <1>2, <1>4, <2>1 DEF Delete
<1>5. ASSUME NEW op \in {"submit", "approve", "reject", "cancel"}, SetStatus(c, op)
      PROVE  /\ asking' = [asking EXCEPT ![c] = NotAsking]
             /\ \E row \in Row : /\ requests' = [requests EXCEPT ![r] = row]
                                 /\ row.lines = old.lines
  <2> DEFINE row == [old EXCEPT !.status = StatusAfter[op]]
  <2>1. StatusAfter[op] \in RowStatus
    BY DEF StatusAfter, RowStatus
  <2>2. row \in Row /\ row.lines = old.lines /\ requests' = [requests EXCEPT ![r] = row]
    BY <1>1, <1>2, <1>5, <2>1 DEF SetStatus, Row
  <2> QED
    BY <1>5, <2>2 DEF SetStatus
<1> QED
  BY <1>1, <1>2, <1>3, <1>4, <1>5 DEF PrSubmit, PrApprove, PrReject, PrCancel

\* Every operation keeps what the calls under way have read.
LEMMA PrStep == PrInv /\ [PrNext]_prVars => PrInv'
<1> SUFFICES ASSUME PrInv, [PrNext]_prVars PROVE PrInv'
  OBVIOUS
<1>1. ASSUME NEW c \in Clerks, NEW w \in Wishes, Create(c, w) PROVE PrInv'
  <2>1. [status |-> "DRAFT", deleted |-> FALSE, lines |-> w] \in Row
    BY DEF Row, RowStatus
  <2>2. requests' \in Seq(Row) /\ DOMAIN requests \subseteq DOMAIN requests'
    BY <1>1, <2>1 DEF Create, PrInv, PrTypeOK
  <2> QED
    BY <1>1, <2>2 DEF Create, PrInv, PrTypeOK, BegunInv
<1>2. ASSUME NEW c \in Clerks, NEW op \in DOMAIN AsksFor, NEW r \in DOMAIN requests,
             NEW w \in Wishes, Begin(c, op, r, w)
      PROVE  PrInv'
  <2> DEFINE asked == [op |-> op, request |-> r, lines |-> w, seen |-> requests[r]]
  <2>1. op \in Operations /\ r \in Nat /\ requests[r] \in Row
    BY DEF AsksFor, Operations, PrInv, PrTypeOK
  <2>2. asked \in Call
    BY <2>1 DEF Call
  <2>3. asking'[c] = asked /\ \A d \in Clerks \ {c} : asking'[d] = asking[d]
    BY <1>2 DEF Begin, PrInv, PrTypeOK
  <2>4. /\ asked.request = r /\ asked.seen = requests[r] /\ asked.op = op
        /\ ~requests[r].deleted /\ requests[r].status \in AsksFor[op]
    BY <1>2 DEF Begin, MayProceed
  <2>5. PrTypeOK'
    BY <1>2, <2>2 DEF Begin, PrInv, PrTypeOK
  <2> HIDE DEF asked
  <2>6. BegunInv'
    BY <1>2, <2>3, <2>4 DEF Begin, PrInv, BegunInv
  <2> QED
    BY <2>5, <2>6 DEF PrInv
<1>3. ASSUME NEW c \in Clerks,
             \/ Update(c) \/ Delete(c)
             \/ PrSubmit(c) \/ PrApprove(c) \/ PrReject(c) \/ PrCancel(c)
      PROVE  PrInv'
  BY <1>3, PrEnds, Written
<1>4. ASSUME NEW c \in Clerks, PrFails(c) PROVE PrInv'
  BY <1>4 DEF PrFails, PrInv, PrTypeOK, BegunInv
<1>5. CASE UNCHANGED prVars
  BY <1>5 DEF prVars, PrInv, PrTypeOK, BegunInv
<1> QED
  BY <1>1, <1>2, <1>3, <1>4, <1>5 DEF PrNext

-----------------------------------------------------------------------------
\* A call under way has read a request whose status its operation asks for.
THEOREM BegunAsAsked == PrSpec => []PrInv
<1>1. PrInit => PrInv
  BY DEF PrInit, PrInv, PrTypeOK, BegunInv
<1> QED
  BY <1>1, PrStep, PTL DEF PrSpec

\* A request that is decided or deleted stays as it is, and the lines of one that is
\* submitted do, but for a call that read it before: for any number of clerks.
THEOREM DecisionsAreFinal == PrSpec => DecidedIsFinal
<1> DEFINE Kept(r) == /\ requests[r].status \in DecidedStatus \/ requests[r].deleted
                            => requests'[r] = requests[r]
                      /\ requests[r].status # "DRAFT" => requests'[r].lines = requests[r].lines
<1>1. ASSUME PrInv, [PrNext]_prVars, NEW r \in DOMAIN requests, ~ReadEarlier(r)
      PROVE  Kept(r)
  <2>1. ASSUME NEW c \in Clerks, NEW w \in Wishes, Create(c, w) PROVE Kept(r)
    BY <1>1, <2>1 DEF Create, PrInv, PrTypeOK
  <2>2. ASSUME NEW c \in Clerks,
               \/ Update(c) \/ Delete(c)
               \/ PrSubmit(c) \/ PrApprove(c) \/ PrReject(c) \/ PrCancel(c)
        PROVE  Kept(r)
    <3> DEFINE asked == asking[c]
    <3>1. asked \in Call /\ asked # NotAsking /\ asked.op \in Operations
      BY <1>1, <2>2, PrEnds DEF Call
    <3>2. PICK row \in Row :
             /\ requests' = [requests EXCEPT ![asked.request] = row]
             /\ row.lines = requests[asked.request].lines \/ asked.op = "update"
      BY <1>1, <2>2, PrEnds
    <3>3. /\ requests'[asked.request] = row
          /\ r # asked.request => requests'[r] = requests[r]
      BY <1>1, <2>2, <3>1, <3>2, PrEnds, Written
    <3>4. CASE asked.request = r
      <4>1. ~requests[r].deleted /\ requests[r].status \in AsksFor[asked.op]
        BY <1>1, <3>1, <3>4 DEF ReadEarlier, PrInv, BegunInv
      <4>2. requests[r].status \notin DecidedStatus
        BY <3>1, <4>1, Asked
      <4>3. asked.op = "update" => requests[r].status = "DRAFT"
        BY <3>1, <4>1, Asked
      <4> QED
        BY <3>2, <3>3, <3>4, <4>1, <4>2, <4>3
    <3>5. CASE asked.request # r
      BY <3>3, <3>5
    <3> QED
      BY <3>4, <3>5
  <2>3. ASSUME UNCHANGED requests PROVE Kept(r)
    BY <2>3
  <2> QED
    BY <1>1, <2>1, <2>2, <2>3 DEF PrNext, prVars, Begin, PrFails
<1>2. PrInv /\ [PrNext]_prVars
        => [\A r \in DOMAIN requests :
              \/ ReadEarlier(r)
              \/ /\ requests[r].status \in DecidedStatus \/ requests[r].deleted
                    => requests'[r] = requests[r]
                 /\ requests[r].status # "DRAFT"
                    => requests'[r].lines = requests[r].lines]_prVars
  BY <1>1
<1> QED
  BY <1>2, BegunAsAsked, PTL DEF PrSpec, DecidedIsFinal
=============================================================================
