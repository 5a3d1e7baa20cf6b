--------------------------- MODULE InventoryProofs ---------------------------
(***************************************************************************)
(* Inventory is type-correct, and its stock is safe: whatever transfers    *)
(* and adjustments clients send, in whatever interleaving, the ledger      *)
(* stays non-negative and the newest running_qty is the balance.  A later  *)
(* part shows the same beside opnames, and what opnames promise.           *)
(*                                                                         *)
(* The invariants are not inductive alone: the check of a line and the     *)
(* commit of its rows are different steps.  What carries the one to the    *)
(* other is OwnInv: a transaction with uncommitted rows of a product holds *)
(* the lock on that product, so its rows are still right when it commits.  *)
(***************************************************************************)
EXTENDS StockOpname, SumProofs, SequenceTheorems

USE DEF Attempts, NoDate

-----------------------------------------------------------------------------
(* Requests *)

\* The lines of a request name products and integral quantities.
LEMMA LineType ==
    ASSUME NEW r \in RequestType, NEW i \in 1..Len(r.lines)
    PROVE  r.lines[i].product \in Products /\ r.lines[i].qty \in Int
<1>1. r.lines \in Seq([product : Products, qty : Int])
  BY DEF RequestType
<1>2. r.lines[i] \in [product : Products, qty : Int]
  BY <1>1, ElementOfSeq
<1> QED BY <1>2

\* A session that is at a line serves a request, and the line is one of it.
LEMMA AtLineFacts ==
    ASSUME TypeOK, NEW s \in Sessions, NEW op \in {"TRANSFER", "ADJUST", "RECORD"},
           AtLine(s, op)
    PROVE  /\ req[s] \in RequestType
           /\ next[s] \in 1..Len(req[s].lines)
           /\ Line(s).product \in Products /\ Line(s).qty \in Int
           /\ SourceKey(s) \in Keys /\ TargetKey(s) \in Keys
           /\ Line(s).product \in ProductsOf(req[s])
<1>1. req[s] \in RequestType
  <2>1. req[s].op # "NONE"
    BY DEF AtLine
  <2> QED BY <2>1 DEF TypeOK, NoRequest
<1>2. next[s] \in 1..Len(req[s].lines)
  <2>1. Len(req[s].lines) \in Nat
    <3>1. req[s].lines \in Seq([product : Products, qty : Int])
      BY <1>1 DEF RequestType
    <3> QED BY <3>1
  <2> QED BY <2>1 DEF AtLine, TypeOK
<1>3. Line(s).product \in Products /\ Line(s).qty \in Int
  BY <1>1, <1>2, LineType DEF Line
<1>4. req[s].from \in Warehouses /\ req[s].to \in Warehouses
  BY <1>1 DEF RequestType
<1> QED BY <1>1, <1>2, <1>3, <1>4 DEF SourceKey, TargetKey, Keys, ProductsOf, Line

\* On-hand quantities are integers.
LEMMA OnHandType ==
    ASSUME StockTypeOK, NEW s \in Sessions, NEW k \in Keys
    PROVE  OnHand(s, k) \in Int
<1>1. ledger[k] \in Ledgers /\ own[s][k] \in OwnRows
  BY DEF StockTypeOK
<1> QED BY <1>1 DEF OnHand, Ledgers, OwnRows

\* The rows a line writes are rows.
LEMMA TransferRowsType ==
    ASSUME TypeOK, NEW s \in Sessions, AtLine(s, "TRANSFER")
    PROVE  RowsType(TransferRows(s))
<1>1. SourceKey(s) \in Keys /\ TargetKey(s) \in Keys /\ Line(s).qty \in Int
  BY AtLineFacts
<1>2. OnHand(s, SourceKey(s)) \in Int /\ OnHand(s, TargetKey(s)) \in Int
  BY <1>1, OnHandType DEF TypeOK
<1>3. \A k \in {SourceKey(s), TargetKey(s)} : OnHand(s, k) \in Int
  BY <1>2
<1>4. DOMAIN TransferRows(s) = {SourceKey(s), TargetKey(s)}
  BY DEF TransferRows
<1> QED BY <1>1, <1>3, <1>4 DEF TransferRows, RowsType

\* As for a transfer.
LEMMA AdjustRowsType ==
    ASSUME TypeOK, NEW s \in Sessions, AtLine(s, "ADJUST")
    PROVE  RowsType(AdjustRows(s))
<1>1. SourceKey(s) \in Keys /\ Line(s).qty \in Int
  BY AtLineFacts
<1>2. OnHand(s, SourceKey(s)) \in Int
  BY <1>1, OnHandType DEF TypeOK
<1>3. DOMAIN AdjustRows(s) \subseteq {SourceKey(s)}
  BY DEF AdjustRows
<1>4. \A k \in DOMAIN AdjustRows(s) :
         AdjustRows(s)[k] = [delta |-> Line(s).qty, running |-> OnHand(s, k) + Line(s).qty]
  BY DEF AdjustRows
<1> QED BY <1>1, <1>2, <1>3, <1>4 DEF RowsType

RecordRows(s) ==
    [k \in {SourceKey(s)} |-> [delta |-> Line(s).qty, running |-> RecordRunning(s)]]

\* And of a movement.
LEMMA RecordRowsType ==
    ASSUME TypeOK, NEW s \in Sessions, AtLine(s, "RECORD")
    PROVE  RowsType(RecordRows(s)) /\ RecordRunning(s) \in Int
<1>1. SourceKey(s) \in Keys /\ Line(s).qty \in Int
  BY AtLineFacts
<1>2. ledger[SourceKey(s)] \in Ledgers
  BY <1>1 DEF TypeOK, StockTypeOK
<1>3. RecordRunning(s) \in Int
  BY <1>1, <1>2 DEF RecordRunning, Ledgers
<1>4. DOMAIN RecordRows(s) = {SourceKey(s)}
  BY DEF RecordRows
<1> QED BY <1>1, <1>3, <1>4 DEF RecordRows, RowsType

-----------------------------------------------------------------------------
(* Type correctness *)

\* The end of a request keeps the session variables typed.
LEMMA FinishType ==
    ASSUME TypeOK, NEW s \in Sessions,
           NEW out \in {"none", "ok", "error"},
           Finish(s, out), StockTypeOK', UNCHANGED is_locked
    PROVE  TypeOK'
BY DEF Finish, TypeOK

\* So does an exception, and a line written.
LEMMA ThrowType ==
    ASSUME TypeOK, NEW s \in Sessions, Throw(s)
    PROVE  TypeOK'
<1>1. StockTypeOK'
  BY RollbackEffect DEF Throw, TypeOK
<1> QED BY <1>1, FinishType DEF Throw

\* So does a line.
LEMMA WriteLineType ==
    ASSUME TypeOK, NEW s \in Sessions, NEW rows, RowsType(rows), WriteLine(s, rows)
    PROVE  TypeOK'
<1>1. StockTypeOK'
  BY WriteRowsEffect DEF WriteLine, TypeOK
<1> QED BY <1>1 DEF WriteLine, TypeOK

\* A session begins to serve a request.
LEMMA StartType ==
    ASSUME TypeOK, NEW s \in Sessions, NEW r \in RequestType, StartServing(s, r)
    PROVE  TypeOK'
BY DEF StartServing, TypeOK, StockTypeOK

\* It serves it.
LEMMA ServeType ==
    ASSUME TypeOK, NEW s \in Sessions, Serve(s) \/ TxFails(s)
    PROVE  TypeOK'
<1>1. CASE ReadWarehouses(s)
  BY <1>1 DEF ReadWarehouses, TypeOK, StockTypeOK
<1>2. CASE LockProduct(s)
  <2>1. PICK p \in NextToLock(s) : AcquireRow(s, p)
    BY <1>2 DEF LockProduct
  <2>2. p \in Products
    <3>1. p \in ProductsOf(req[s])
      BY DEF NextToLock, ToLock
    <3>2. req[s] \in RequestType
      BY <3>1 DEF TypeOK, NoRequest, ProductsOf
    <3> QED BY <3>1, <3>2, LineType DEF ProductsOf
  <2>3. StockTypeOK'
    BY <1>2, <2>1, <2>2, AcquireRowEffect DEF LockProduct, TypeOK
  <2> QED BY <1>2, <2>3 DEF LockProduct, TypeOK
<1>3. CASE LockRefused(s)
  <2>1. CASE attempt[s] < Attempts /\ Rollback(s)
             /\ pc' = [pc EXCEPT ![s] = "begin"]
             /\ attempt' = [attempt EXCEPT ![s] = @ + 1]
             /\ UNCHANGED <<is_locked, req, next, outcome>>
    <3>1. StockTypeOK'
      BY <2>1, RollbackEffect DEF TypeOK
    <3>2. attempt' \in [Sessions -> 0..Attempts]
      BY <2>1 DEF TypeOK
    <3> QED BY <2>1, <3>1, <3>2 DEF TypeOK
  <2>2. CASE Throw(s)
    BY <2>2, ThrowType
  <2> QED BY <1>3, <2>1, <2>2 DEF LockRefused
<1>4. CASE LocksTaken(s)
  BY <1>4 DEF LocksTaken, TypeOK, StockTypeOK
<1>5. CASE TransferLine(s)
  BY <1>5, TransferRowsType, WriteLineType DEF TransferLine
<1>6. CASE AdjustLine(s)
  BY <1>6, AdjustRowsType, WriteLineType DEF AdjustLine
<1>7. CASE RecordLine(s)
  BY <1>7, RecordRowsType, WriteLineType DEF RecordLine, RecordRows
<1>8. CASE Commit(s)
  <2>1. req[s].date \in Nat
    <3>1. CASE req[s] \in RequestType
      BY <3>1 DEF RequestType
    <3>2. CASE req[s] = NoRequest
      BY <3>2 DEF NoRequest
    <3> QED BY <3>1, <3>2 DEF TypeOK
  <2>2. StockTypeOK'
    BY <1>8, <2>1, CommitRowsEffect DEF Commit, TypeOK
  <2> QED BY <1>8, <2>2, FinishType DEF Commit
<1>9. CASE \/ RefuseLockedWarehouse(s) \/ TransferLineRefused(s)
           \/ AdjustLineRefused(s) \/ RecordLineRefused(s) \/ TxFails(s)
  BY <1>9, ThrowType DEF RefuseLockedWarehouse, TransferLineRefused,
     AdjustLineRefused, RecordLineRefused, TxFails
<1> QED BY <1>1, <1>2, <1>3, <1>4, <1>5, <1>6, <1>7, <1>8, <1>9 DEF Serve

\* Every step keeps the variables in their types.
LEMMA TypeStep == TypeOK /\ [Next]_vars => TypeOK'
<1> SUFFICES ASSUME TypeOK, [Next]_vars PROVE TypeOK'
  OBVIOUS
<1>1. ASSUME NEW s \in Sessions, NEW r \in Requests, Issue(s, r) PROVE TypeOK'
  BY <1>1, StartType, RequestsAssumption DEF Issue
<1>2. ASSUME NEW s \in Sessions, NEW r \in Requests, RefuseSameWarehouse(s, r)
      PROVE  TypeOK'
  BY <1>2 DEF RefuseSameWarehouse, TypeOK, StockTypeOK
<1>3. ASSUME NEW w \in Warehouses, LockWarehouse(w) \/ UnlockWarehouse(w)
      PROVE  TypeOK'
  BY <1>3 DEF LockWarehouse, UnlockWarehouse, SetLocked, TypeOK, StockTypeOK
<1>4. CASE UNCHANGED vars
  BY <1>4 DEF vars, TypeOK, StockTypeOK
<1> QED BY <1>1, <1>2, <1>3, <1>4, ServeType DEF Next, Arrive

\* InventoryService keeps its state typed: ledger summaries, row locks, own rows,
\* and at most three attempts for every request, whatever the clients send.
THEOREM TypeCorrect == Spec => []TypeOK
<1>1. Init => TypeOK
  BY DEF Init, TypeOK, StockTypeOK, EmptyLedger, Ledgers, NoRows, OwnRows
<1> QED BY <1>1, TypeStep, PTL DEF Spec

-----------------------------------------------------------------------------
(* Stock safety *)

\* The parts of StockInv that speak of the stock variables alone.
LedgerInv == OwnInv /\ StockNonNegative /\ RunningIsBalance /\ DatedInv

\* A step that writes no row and drops no lock.
LEMMA QuietStep ==
    ASSUME StockTypeOK, LedgerInv, UNCHANGED <<ledger, own>>,
           \A p \in Products, t \in Sessions : rowLock[p] = t => rowLock'[p] = t
    PROVE  LedgerInv'
<1>1. OwnInv'
  <2> SUFFICES ASSUME NEW s \in Sessions, NEW k \in Keys
               PROVE  /\ ~own'[s][k].wrote => own'[s][k].delta = 0
                      /\ own'[s][k].wrote =>
                            /\ rowLock'[k[1]] = s
                            /\ own'[s][k].running = OnHand(s, k)'
                            /\ OnHand(s, k)' >= 0
    BY DEF OwnInv
  <2>1. k[1] \in Products
    BY DEF Keys
  <2> QED BY <2>1 DEF LedgerInv, OwnInv, OnHand
<1> QED BY <1>1 DEF LedgerInv, StockNonNegative, RunningIsBalance, DatedInv

\* An attempt that is rolled back leaves the stock as it was.
LEMMA RollbackStep ==
    ASSUME StockTypeOK, LedgerInv, NEW s \in Sessions, Rollback(s)
    PROVE  LedgerInv'
<1>1. OwnInv'
  <2> SUFFICES ASSUME NEW t \in Sessions, NEW k \in Keys
               PROVE  /\ ~own'[t][k].wrote => own'[t][k].delta = 0
                      /\ own'[t][k].wrote =>
                            /\ rowLock'[k[1]] = t
                            /\ own'[t][k].running = OnHand(t, k)'
                            /\ OnHand(t, k)' >= 0
    BY DEF OwnInv
  <2>1. k[1] \in Products
    BY DEF Keys
  <2>2. CASE t = s
    BY <2>2, RollbackEffect DEF NoRows
  <2>3. CASE t # s
    BY <2>1, <2>3, RollbackEffect DEF LedgerInv, OwnInv, OnHand
  <2> QED BY <2>2, <2>3
<1>2. ledger' = ledger
  BY DEF Rollback
<1> QED BY <1>1, <1>2 DEF LedgerInv, StockNonNegative, RunningIsBalance, DatedInv

\* A line whose rows continue the balance of locked products and keep it
\* non-negative.
LEMMA WriteStep ==
    ASSUME StockTypeOK, LedgerInv, NEW s \in Sessions, NEW rows, RowsType(rows),
           WriteRows(s, rows), UNCHANGED <<ledger, rowLock>>,
           \A k \in DOMAIN rows :
               /\ rowLock[k[1]] = s
               /\ rows[k].running = OnHand(s, k) + rows[k].delta
               /\ rows[k].running >= 0
    PROVE  LedgerInv'
<1>1. OwnInv'
  <2> SUFFICES ASSUME NEW t \in Sessions, NEW k \in Keys
               PROVE  /\ ~own'[t][k].wrote => own'[t][k].delta = 0
                      /\ own'[t][k].wrote =>
                            /\ rowLock'[k[1]] = t
                            /\ own'[t][k].running = OnHand(t, k)'
                            /\ OnHand(t, k)' >= 0
    BY DEF OwnInv
  <2>1. CASE t # s
    <3>1. own'[t] = own[t]
      BY <2>1, WriteRowsEffect
    <3> QED BY <3>1 DEF LedgerInv, OwnInv, OnHand
  <2>2. CASE t = s /\ k \notin DOMAIN rows
    <3>1. own'[s][k] = own[s][k]
      BY <2>2, WriteRowsEffect
    <3> QED BY <2>2, <3>1 DEF LedgerInv, OwnInv, OnHand
  <2>3. CASE t = s /\ k \in DOMAIN rows
    <3>1. own'[s][k] = [wrote |-> TRUE, delta |-> own[s][k].delta + rows[k].delta,
                        running |-> rows[k].running]
      BY <2>3, WriteRowsEffect
    <3>2. /\ ledger[k].sum \in Int /\ own[s][k].delta \in Int
          /\ rows[k].delta \in Int /\ rows[k].running \in Int
      <4>1. ledger[k] \in Ledgers /\ own[s][k] \in OwnRows
        BY DEF StockTypeOK
      <4> QED BY <2>3, <4>1 DEF RowsType, Ledgers, OwnRows
    <3>3. OnHand(s, k)' = OnHand(s, k) + rows[k].delta
      BY <3>1, <3>2 DEF OnHand
    <3> QED BY <2>3, <3>1, <3>3
  <2> QED BY <2>1, <2>2, <2>3
<1> QED BY <1>1 DEF LedgerInv, StockNonNegative, RunningIsBalance, DatedInv

\* COMMIT: the rows were right when they were written, and the locks kept every
\* other transaction from moving the balance under them.
LEMMA CommitStep ==
    ASSUME StockTypeOK, LedgerInv, NEW s \in Sessions, NEW date \in Nat,
           CommitRows(s, date),
           RecordUsed => /\ \A k \in Keys : ledger[k].date <= date
                         /\ \A r \in Requests : date <= r.date
    PROVE  LedgerInv'
<1>1. \A k \in Keys : ledger[k] \in Ledgers /\ own[s][k] \in OwnRows
  BY DEF StockTypeOK
<1>2. \A k \in Keys : own[s][k].wrote =>
         /\ ledger'[k].sum = OnHand(s, k)
         /\ ledger'[k].running = OnHand(s, k)
         /\ OnHand(s, k) >= 0
  <2> SUFFICES ASSUME NEW k \in Keys, own[s][k].wrote
               PROVE  /\ ledger'[k].sum = OnHand(s, k)
                      /\ ledger'[k].running = OnHand(s, k)
                      /\ OnHand(s, k) >= 0
    OBVIOUS
  <2>1. ledger'[k] = AppendRow(ledger[k], own[s][k].delta, own[s][k].running, date)
    BY CommitRowsEffect
  <2>2. own[s][k].running = OnHand(s, k) /\ OnHand(s, k) >= 0
    BY DEF LedgerInv, OwnInv
  <2> QED BY <2>1, <2>2 DEF AppendRow, OnHand
<1>3. \A k \in Keys : ~own[s][k].wrote => ledger'[k] = ledger[k]
  BY CommitRowsEffect
<1>4. StockNonNegative' /\ RunningIsBalance'
  BY <1>2, <1>3 DEF LedgerInv, StockNonNegative, RunningIsBalance
<1>5. DatedInv'
  <2> SUFFICES ASSUME RecordUsed, NEW k \in Keys
               PROVE  /\ ledger'[k].datedRunning = ledger'[k].running
                      /\ \A r \in Requests : ledger'[k].date <= r.date
    BY DEF DatedInv
  <2>1. CASE own[s][k].wrote
    <3>1. ledger'[k] = AppendRow(ledger[k], own[s][k].delta, own[s][k].running, date)
      BY <2>1, CommitRowsEffect
    <3>2. date >= ledger[k].date
      BY <1>1 DEF Ledgers
    <3> QED BY <3>1, <3>2 DEF AppendRow
  <2>2. CASE ~own[s][k].wrote
    BY <2>2, <1>3 DEF LedgerInv, DatedInv
  <2> QED BY <2>1, <2>2
<1>6. OwnInv'
  <2> SUFFICES ASSUME NEW t \in Sessions, NEW k \in Keys
               PROVE  /\ ~own'[t][k].wrote => own'[t][k].delta = 0
                      /\ own'[t][k].wrote =>
                            /\ rowLock'[k[1]] = t
                            /\ own'[t][k].running = OnHand(t, k)'
                            /\ OnHand(t, k)' >= 0
    BY DEF OwnInv
  <2>1. k[1] \in Products
    BY DEF Keys
  <2>2. CASE t = s
    BY <2>2, CommitRowsEffect DEF NoRows
  <2>3. CASE t # s
    <3>1. own'[t] = own[t]
      BY <2>3, CommitRowsEffect
    <3>2. own[t][k].wrote => ~own[s][k].wrote
      BY <2>3 DEF LedgerInv, OwnInv
    <3>3. own[t][k].wrote => ledger'[k] = ledger[k] /\ rowLock'[k[1]] = t
      BY <1>3, <2>1, <2>3, <3>2, CommitRowsEffect DEF LedgerInv, OwnInv
    <3> QED BY <3>1, <3>3 DEF LedgerInv, OwnInv, OnHand
  <2> QED BY <2>2, <2>3
<1> QED BY <1>4, <1>5, <1>6 DEF LedgerInv

\* What a transaction sees of the stock is never negative.
LEMMA OnHandNonNegative ==
    ASSUME StockInv, NEW s \in Sessions, NEW k \in Keys
    PROVE  OnHand(s, k) >= 0
<1>1. ledger[k] \in Ledgers /\ own[s][k] \in OwnRows
  BY DEF StockInv, TypeOK, StockTypeOK
<1>2. CASE own[s][k].wrote
  BY <1>2 DEF StockInv, OwnInv
<1>3. CASE ~own[s][k].wrote
  <2>1. own[s][k].delta = 0 /\ ledger[k].sum >= 0
    BY <1>3 DEF StockInv, OwnInv, StockNonNegative
  <2> QED BY <1>1, <2>1 DEF OnHand, Ledgers
<1> QED BY <1>2, <1>3

\* The rows of each kind of line continue the balance of a locked product.
LEMMA TransferLineStep ==
    ASSUME StockInv, NEW s \in Sessions, TransferLine(s)
    PROVE  LedgerInv'
<1> DEFINE rows == TransferRows(s)
<1>1. /\ SourceKey(s) \in Keys /\ TargetKey(s) \in Keys /\ Line(s).qty \in Int
      /\ Line(s).product \in ProductsOf(req[s]) /\ next[s] \in 1..Len(req[s].lines)
  BY AtLineFacts DEF StockInv, TransferLine
<1>2. rowLock[Line(s).product] = s
  BY <1>1 DEF StockInv, LockInv, TransferLine, AtLine
<1>3. Line(s).qty > 0
  <2>1. ValidRequest(req[s]) /\ req[s].op = "TRANSFER"
    BY DEF StockInv, RequestInv, Servable, TransferLine, AtLine
  <2> QED BY <1>1, <2>1 DEF ValidRequest, Line
<1>4. /\ OnHand(s, SourceKey(s)) \in Int /\ OnHand(s, TargetKey(s)) \in Int
      /\ OnHand(s, TargetKey(s)) >= 0
  <2>1. \A k \in Keys : OnHand(s, k) \in Int
    BY OnHandType DEF StockInv, TypeOK
  <2>2. \A k \in Keys : OnHand(s, k) >= 0
    BY OnHandNonNegative
  <2> QED BY <1>1, <2>1, <2>2
<1>5. \A k \in DOMAIN rows :
         /\ rowLock[k[1]] = s
         /\ rows[k].running = OnHand(s, k) + rows[k].delta
         /\ rows[k].running >= 0
  <2> SUFFICES ASSUME NEW k \in {SourceKey(s), TargetKey(s)}
               PROVE  /\ rowLock[k[1]] = s
                      /\ rows[k].running = OnHand(s, k) + rows[k].delta
                      /\ rows[k].running >= 0
    BY DEF TransferRows
  <2>1. k[1] = Line(s).product
    BY DEF SourceKey, TargetKey
  <2>2. CASE k = SourceKey(s)
    <3>1. rows[k] = [delta |-> -Line(s).qty, running |-> OnHand(s, k) - Line(s).qty]
      BY <2>2 DEF TransferRows
    <3> QED BY <1>1, <1>2, <1>4, <2>1, <2>2, <3>1 DEF TransferLine
  <2>3. CASE k # SourceKey(s)
    <3>1. rows[k] = [delta |-> Line(s).qty, running |-> OnHand(s, k) + Line(s).qty]
      BY <2>3 DEF TransferRows
    <3> QED BY <1>1, <1>2, <1>3, <1>4, <2>1, <2>3, <3>1
  <2> QED BY <2>2, <2>3
<1> QED
  BY <1>5, WriteStep, TransferRowsType
  DEF StockInv, LedgerInv, TypeOK, TransferLine, WriteLine

\* As for a transfer; an adjustment may lower the balance.
LEMMA AdjustLineStep ==
    ASSUME StockInv, NEW s \in Sessions, AdjustLine(s)
    PROVE  LedgerInv'
<1> DEFINE rows == AdjustRows(s)
<1>1. /\ SourceKey(s) \in Keys /\ Line(s).qty \in Int
      /\ Line(s).product \in ProductsOf(req[s])
  BY AtLineFacts DEF StockInv, AdjustLine
<1>2. rowLock[Line(s).product] = s
  BY <1>1 DEF StockInv, LockInv, AdjustLine, AtLine
<1>3. OnHand(s, SourceKey(s)) \in Int /\ OnHand(s, SourceKey(s)) >= 0
  <2>1. OnHand(s, SourceKey(s)) \in Int
    BY <1>1, OnHandType DEF StockInv, TypeOK
  <2>2. \A k \in Keys : OnHand(s, k) >= 0
    BY OnHandNonNegative
  <2> QED BY <1>1, <2>1, <2>2
<1>4. \A k \in DOMAIN rows :
         /\ rowLock[k[1]] = s
         /\ rows[k].running = OnHand(s, k) + rows[k].delta
         /\ rows[k].running >= 0
  <2> SUFFICES ASSUME NEW k \in DOMAIN rows
               PROVE  /\ rowLock[k[1]] = s
                      /\ rows[k].running = OnHand(s, k) + rows[k].delta
                      /\ rows[k].running >= 0
    OBVIOUS
  <2>1. k = SourceKey(s)
    BY DEF AdjustRows
  <2>2. k[1] = Line(s).product
    BY <2>1 DEF SourceKey
  <2>3. rows[k] = [delta |-> Line(s).qty, running |-> OnHand(s, k) + Line(s).qty]
    BY DEF AdjustRows
  <2> QED BY <1>1, <1>2, <1>3, <2>1, <2>2, <2>3 DEF AdjustLine
<1> QED
  BY <1>4, WriteStep, AdjustRowsType
  DEF StockInv, LedgerInv, TypeOK, AdjustLine, WriteLine

\* As for a transfer; the balance is read from the row last by date.
LEMMA RecordLineStep ==
    ASSUME StockInv, NEW s \in Sessions, RecordLine(s)
    PROVE  LedgerInv'
<1> DEFINE rows == RecordRows(s)
<1>1. /\ SourceKey(s) \in Keys /\ Line(s).qty \in Int
      /\ Line(s).product \in ProductsOf(req[s]) /\ next[s] \in 1..Len(req[s].lines)
  BY AtLineFacts DEF StockInv, RecordLine
<1>2. rowLock[Line(s).product] = s
  BY <1>1 DEF StockInv, LockInv, RecordLine, AtLine
<1>3. ValidRequest(req[s]) /\ req[s].op = "RECORD" /\ RecordUsed
  BY DEF StockInv, RequestInv, Servable, RecordLine, AtLine
<1>4. ledger[SourceKey(s)].datedRunning = ledger[SourceKey(s)].sum
  BY <1>1, <1>3 DEF StockInv, DatedInv, RunningIsBalance
<1>5. own[s][SourceKey(s)].delta = 0
  <2>1. next[s] = 1
    <3>1. Len(req[s].lines) = 1
      BY <1>3 DEF ValidRequest
    <3> QED BY <1>1, <3>1
  <2> QED BY <1>1, <2>1 DEF StockInv, FreshInv, OwnInv
<1>6. RecordRunning(s) \in Int /\ RecordRunning(s) = OnHand(s, SourceKey(s)) + Line(s).qty
  <2>1. ledger[SourceKey(s)].sum \in Int
    BY <1>1 DEF StockInv, TypeOK, StockTypeOK, Ledgers
  <2> QED BY <1>1, <1>4, <1>5, <2>1 DEF RecordRunning, OnHand
<1>7. \A k \in DOMAIN rows :
         /\ rowLock[k[1]] = s
         /\ rows[k].running = OnHand(s, k) + rows[k].delta
         /\ rows[k].running >= 0
  <2>1. DOMAIN rows = {SourceKey(s)} /\ SourceKey(s)[1] = Line(s).product
    BY DEF RecordRows, SourceKey
  <2>2. rows[SourceKey(s)] = [delta |-> Line(s).qty, running |-> RecordRunning(s)]
    BY DEF RecordRows
  <2> QED BY <1>2, <1>6, <2>1, <2>2 DEF RecordLine
<1>8. RowsType(rows) /\ WriteRows(s, rows) /\ UNCHANGED <<ledger, rowLock>>
  BY RecordRowsType DEF StockInv, RecordLine, WriteLine, RecordRows
<1> QED BY <1>7, <1>8, WriteStep DEF StockInv, LedgerInv, TypeOK

\* The session part of the invariant.
SessionInv == RequestInv /\ LockInv /\ FreshInv

\* A request that ends frees what the session part speaks of.
LEMMA ThrowStep ==
    ASSUME StockInv, NEW s \in Sessions, Throw(s)
    PROVE  StockInv'
<1>1. TypeOK'
  BY ThrowType DEF StockInv
<1>2. LedgerInv'
  BY RollbackStep DEF StockInv, LedgerInv, TypeOK, Throw
<1>3. RequestInv'
  BY DEF StockInv, TypeOK, RequestInv, Throw, Finish
<1>4. LockInv'
  <2> SUFFICES ASSUME NEW t \in Sessions, pc'[t] = "lines", NEW p \in ProductsOf(req'[t])
               PROVE  rowLock'[p] = t
    BY DEF LockInv, ProductsOf
  <2>1. t # s /\ pc[t] = "lines" /\ req'[t] = req[t]
    BY DEF StockInv, TypeOK, Throw, Finish
  <2>2. rowLock[p] = t
    BY <2>1 DEF StockInv, LockInv
  <2>3. p \in Products
    BY <2>1, LineType DEF StockInv, RequestInv, Servable, ProductsOf
  <2> QED BY <2>1, <2>2, <2>3, RollbackEffect DEF StockInv, TypeOK, Throw
<1>5. FreshInv'
  <2> SUFFICES ASSUME NEW t \in Sessions, pc'[t] # "lines" \/ next'[t] = 1, NEW k \in Keys
               PROVE  ~own'[t][k].wrote
    BY DEF FreshInv
  <2>1. CASE t = s
    BY <2>1, RollbackEffect DEF StockInv, TypeOK, Throw, NoRows
  <2>2. CASE t # s
    <3>1. pc'[t] = pc[t] /\ next'[t] = next[t] /\ own'[t] = own[t]
      BY <2>2, RollbackEffect DEF StockInv, TypeOK, Throw, Finish
    <3> QED BY <3>1 DEF StockInv, FreshInv
  <2> QED BY <2>1, <2>2
<1> QED BY <1>1, <1>2, <1>3, <1>4, <1>5 DEF StockInv, LedgerInv

\* The session part of the invariant, for one session.
SessionOK(t) ==
    /\ pc[t] # "idle" => Servable(req[t])
    /\ pc[t] = "lines" => \A p \in ProductsOf(req[t]) : rowLock[p] = t
    /\ pc[t] # "lines" \/ next[t] = 1 => \A k \in Keys : ~own[t][k].wrote

\* It says the same as the session part, now and after a step.
LEMMA SessionParts == SessionInv <=> \A t \in Sessions : SessionOK(t)
BY DEF SessionInv, RequestInv, LockInv, FreshInv, SessionOK

\* The same of the next state.
LEMMA SessionPartsNext == (\A t \in Sessions : SessionOK(t)') => SessionInv'
BY DEF SessionInv, RequestInv, LockInv, FreshInv, SessionOK, ProductsOf

\* What a step leaves alone stays right: a session whose own variables do not
\* change and that keeps its locks.
LEMMA OtherSession ==
    ASSUME StockInv, NEW t \in Sessions,
           pc'[t] = pc[t], req'[t] = req[t], next'[t] = next[t], own'[t] = own[t],
           \A p \in Products : rowLock[p] = t => rowLock'[p] = t
    PROVE  SessionOK(t)'
<1>1. SessionOK(t)
  BY SessionParts DEF StockInv, SessionInv
<1>2. pc[t] = "lines" => \A p \in ProductsOf(req[t]) : p \in Products
  BY <1>1, LineType DEF SessionOK, Servable, ProductsOf
<1> QED BY <1>1, <1>2 DEF SessionOK, ProductsOf

\* A line processed leaves the session with its locks and past its first line.
LEMMA WriteLineSessions ==
    ASSUME StockInv, NEW s \in Sessions, pc[s] = "lines", NEW rows, RowsType(rows),
           WriteLine(s, rows)
    PROVE  SessionInv'
<1> SUFFICES ASSUME NEW t \in Sessions PROVE SessionOK(t)'
  BY SessionPartsNext
<1>1. CASE t # s
  <2>1. own'[t] = own[t]
    BY <1>1, WriteRowsEffect DEF StockInv, TypeOK, WriteLine
  <2>2. next'[t] = next[t]
    BY <1>1 DEF StockInv, TypeOK, WriteLine
  <2> QED BY <2>1, <2>2, OtherSession DEF WriteLine
<1>2. CASE t = s
  <2>1. next'[s] # 1
    BY DEF StockInv, TypeOK, WriteLine
  <2>2. SessionOK(s)
    BY SessionParts DEF StockInv, SessionInv
  <2> QED BY <1>2, <2>1, <2>2 DEF SessionOK, WriteLine, ProductsOf
<1> QED BY <1>1, <1>2

\* A session begins to serve a request.
LEMMA StartStep ==
    ASSUME StockInv, NEW s \in Sessions, NEW r, Servable(r), StartServing(s, r)
    PROVE  StockInv'
<1>1. TypeOK'
  BY StartType DEF StockInv, Servable
<1> SUFFICES LedgerInv' /\ SessionInv'
  BY <1>1 DEF StockInv, LedgerInv, SessionInv
<1>2. StockTypeOK /\ LedgerInv /\ TypeOK
  BY DEF StockInv, LedgerInv, TypeOK
<1>3. LedgerInv'
  BY <1>2, QuietStep DEF StartServing
<1>4. ASSUME NEW t \in Sessions PROVE SessionOK(t)'
  <2>1. CASE t # s
    BY <1>2, <2>1, OtherSession DEF StartServing, TypeOK
  <2>2. CASE t = s
    <3>1. pc'[s] = "begin" /\ req'[s] = r /\ own' = own
      BY <1>2 DEF StartServing, TypeOK
    <3>2. \A k \in Keys : ~own[s][k].wrote
      BY DEF StartServing, StockInv, FreshInv
    <3> QED BY <2>2, <3>1, <3>2 DEF SessionOK
  <2> QED BY <2>1, <2>2
<1> QED BY <1>3, <1>4, SessionPartsNext

\* A session that serves a request keeps the stock invariant.
LEMMA ServeStep ==
    ASSUME StockInv, NEW s \in Sessions, Serve(s) \/ TxFails(s)
    PROVE  StockInv'
<1>1. TypeOK'
  BY ServeType DEF StockInv
<1> SUFFICES LedgerInv' /\ SessionInv'
  BY <1>1 DEF StockInv, LedgerInv, SessionInv
<1>2. StockTypeOK /\ LedgerInv /\ TypeOK
  BY DEF StockInv, LedgerInv, TypeOK
<1>3. ASSUME ReadWarehouses(s)
      PROVE  LedgerInv' /\ SessionInv'
  <2>1. LedgerInv'
    BY <1>2, <1>3, QuietStep DEF ReadWarehouses
  <2>2. ASSUME NEW t \in Sessions PROVE SessionOK(t)'
    <3>1. CASE t # s
      BY <1>2, <1>3, <3>1, OtherSession DEF ReadWarehouses, TypeOK
    <3>2. CASE t = s
      <4>1. pc[s] = "begin" /\ pc'[s] = "lock"
        BY <1>2, <1>3 DEF ReadWarehouses, TypeOK
      <4>2. SessionOK(s)
        BY SessionParts DEF StockInv, SessionInv
      <4> QED BY <1>3, <3>2, <4>1, <4>2 DEF SessionOK, ReadWarehouses
    <3> QED BY <3>1, <3>2
  <2> QED BY <2>1, <2>2, SessionPartsNext
<1>4. ASSUME LockProduct(s)
      PROVE  LedgerInv' /\ SessionInv'
  <2>1. PICK p \in NextToLock(s) : AcquireRow(s, p)
    BY <1>4 DEF LockProduct
  <2>2. p \in Products
    <3>1. req[s] \in RequestType
      BY <1>4 DEF StockInv, RequestInv, Servable, LockProduct
    <3>2. \A q \in ProductsOf(req[s]) : q \in Products
      BY <3>1, LineType DEF ProductsOf
    <3> QED BY <3>2 DEF NextToLock, ToLock
  <2>3. \A q \in Products, t \in Sessions : rowLock[q] = t => rowLock'[q] = t
    BY <1>2, <1>4, <2>1, <2>2, AcquireRowEffect DEF LockProduct
  <2>4. LedgerInv'
    BY <1>2, <1>4, <2>3, QuietStep DEF LockProduct
  <2>5. \A t \in Sessions : SessionOK(t)'
    BY <1>4, <2>3, OtherSession DEF LockProduct
  <2> QED BY <2>4, <2>5, SessionPartsNext
<1>5. ASSUME LockRefused(s)
      PROVE  LedgerInv' /\ SessionInv'
  <2>1. CASE Throw(s)
    BY <2>1, ThrowStep DEF StockInv, LedgerInv, SessionInv
  <2>2. CASE /\ Rollback(s)
             /\ pc' = [pc EXCEPT ![s] = "begin"]
             /\ UNCHANGED <<req, next>>
    <3>1. LedgerInv'
      BY <1>2, <2>2, RollbackStep
    <3>2. ASSUME NEW t \in Sessions PROVE SessionOK(t)'
      <4>1. CASE t # s
        <5>1. own'[t] = own[t] /\ \A p \in Products : rowLock[p] = t => rowLock'[p] = t
          BY <1>2, <2>2, <4>1, RollbackEffect
        <5>2. pc'[t] = pc[t]
          BY <1>2, <2>2, <4>1 DEF TypeOK
        <5> QED BY <2>2, <5>1, <5>2, OtherSession
      <4>2. CASE t = s
        <5>1. \A k \in Keys : ~own'[s][k].wrote
          BY <1>2, <2>2, RollbackEffect DEF NoRows
        <5>2. Servable(req[s])
          BY <1>5 DEF StockInv, RequestInv, LockRefused
        <5>3. pc'[s] = "begin"
          BY <1>2, <2>2 DEF TypeOK
        <5> QED BY <2>2, <4>2, <5>1, <5>2, <5>3 DEF SessionOK
      <4> QED BY <4>1, <4>2
    <3> QED BY <3>1, <3>2, SessionPartsNext
  <2> QED BY <1>5, <2>1, <2>2 DEF LockRefused
<1>6. ASSUME LocksTaken(s)
      PROVE  LedgerInv' /\ SessionInv'
  <2>1. LedgerInv'
    BY <1>2, <1>6, QuietStep DEF LocksTaken
  <2>2. ASSUME NEW t \in Sessions PROVE SessionOK(t)'
    <3>1. CASE t # s
      BY <1>2, <1>6, <3>1, OtherSession DEF LocksTaken, TypeOK
    <3>2. CASE t = s
      <4>1. pc[s] = "lock" /\ pc'[s] = "lines"
        BY <1>2, <1>6 DEF LocksTaken, TypeOK
      <4>2. SessionOK(s)
        BY SessionParts DEF StockInv, SessionInv
      <4>3. \A p \in ProductsOf(req[s]) : rowLock[p] = s
        BY <1>6 DEF LocksTaken, ToLock, Held
      <4> QED BY <1>6, <3>2, <4>1, <4>2, <4>3 DEF SessionOK, LocksTaken, ProductsOf
    <3> QED BY <3>1, <3>2
  <2> QED BY <2>1, <2>2, SessionPartsNext
<1>7. ASSUME TransferLine(s)
      PROVE  LedgerInv' /\ SessionInv'
  <2>1. SessionInv'
    BY <1>2, <1>7, WriteLineSessions, TransferRowsType DEF TransferLine, AtLine
  <2> QED BY <1>7, <2>1, TransferLineStep
<1>8. ASSUME AdjustLine(s)
       PROVE  LedgerInv' /\ SessionInv'
  <2>1. SessionInv'
    BY <1>2, <1>8, WriteLineSessions, AdjustRowsType DEF AdjustLine, AtLine
  <2> QED BY <1>8, <2>1, AdjustLineStep
<1>9. ASSUME RecordLine(s)
       PROVE  LedgerInv' /\ SessionInv'
  <2>1. RowsType(RecordRows(s)) /\ WriteLine(s, RecordRows(s)) /\ pc[s] = "lines"
    BY <1>2, <1>9, RecordRowsType DEF RecordLine, RecordRows, AtLine
  <2>2. SessionInv'
    BY <2>1, WriteLineSessions
  <2> QED BY <1>9, <2>2, RecordLineStep
<1>10. ASSUME Commit(s)
       PROVE  LedgerInv' /\ SessionInv'
  <2>1. Servable(req[s]) /\ req[s].date \in Nat
    BY <1>10 DEF StockInv, RequestInv, Servable, Commit, RequestType
  <2>2. LedgerInv'
    <3>1. RecordUsed => /\ \A k \in Keys : ledger[k].date <= req[s].date
                        /\ \A r \in Requests : req[s].date <= r.date
      <4>1. RecordUsed => \A r \in Requests : req[s].date = r.date
        BY <2>1 DEF Servable
      <4>2. RecordUsed => Requests # {}
        BY DEF RecordUsed
      <4>3. \A r \in Requests : r.date \in Nat
        BY RequestsAssumption DEF RequestType
      <4> QED BY <2>1, <4>1, <4>2, <4>3 DEF StockInv, DatedInv
    <3> QED BY <1>2, <1>10, <2>1, <3>1, CommitStep DEF Commit
  <2>3. ASSUME NEW t \in Sessions PROVE SessionOK(t)'
    <3>1. CASE t # s
      <4>1. own'[t] = own[t] /\ \A p \in Products : rowLock[p] = t => rowLock'[p] = t
        BY <1>2, <1>10, <2>1, <3>1, CommitRowsEffect DEF Commit
      <4>2. pc'[t] = pc[t] /\ req'[t] = req[t] /\ next'[t] = next[t]
        BY <1>2, <1>10, <3>1 DEF TypeOK, Commit, Finish
      <4> QED BY <4>1, <4>2, OtherSession
    <3>2. CASE t = s
      <4>1. \A k \in Keys : ~own'[s][k].wrote
        BY <1>2, <1>10, <2>1, CommitRowsEffect DEF Commit, NoRows
      <4>2. pc'[s] = "idle"
        BY <1>2, <1>10 DEF TypeOK, Commit, Finish
      <4> QED BY <3>2, <4>1, <4>2 DEF SessionOK
    <3> QED BY <3>1, <3>2
  <2> QED BY <2>2, <2>3, SessionPartsNext
<1>11. ASSUME \/ RefuseLockedWarehouse(s) \/ TransferLineRefused(s)
              \/ AdjustLineRefused(s) \/ RecordLineRefused(s) \/ TxFails(s)
       PROVE  LedgerInv' /\ SessionInv'
  <2>1. Throw(s)
    BY <1>11 DEF RefuseLockedWarehouse, TransferLineRefused, AdjustLineRefused,
       RecordLineRefused, TxFails
  <2>2. StockInv'
    BY <2>1, ThrowStep
  <2> QED BY <2>2 DEF StockInv, LedgerInv, SessionInv
<1> QED
  BY <1>3, <1>4, <1>5, <1>6, <1>7, <1>8, <1>9, <1>10, <1>11 DEF Serve

\* A step of warehouses only.
LEMMA WarehouseStep ==
    ASSUME StockInv, UNCHANGED <<ledger, rowLock, own, pc, attempt, req, next>>, TypeOK'
    PROVE  StockInv'
<1>1. LedgerInv'
  BY QuietStep DEF StockInv, LedgerInv, TypeOK
<1>2. \A t \in Sessions : SessionOK(t)'
  BY OtherSession
<1> QED BY <1>1, <1>2, SessionPartsNext DEF StockInv, LedgerInv, SessionInv

\* Every step keeps the stock invariant.
LEMMA StockStep ==
    ASSUME DatesAgree, StockInv, [Next]_vars
    PROVE  StockInv'
<1>1. TypeOK'
  BY TypeStep DEF StockInv
<1>2. ASSUME NEW s \in Sessions, NEW r \in Requests, Issue(s, r)
      PROVE  StockInv'
  <2>1. Servable(r)
    BY RequestsAssumption DEF Servable, DatesAgree, RecordUsed
  <2> QED BY <1>2, <2>1, StartStep DEF Issue
<1>3. ASSUME NEW s \in Sessions, NEW r \in Requests, RefuseSameWarehouse(s, r)
      PROVE  StockInv'
  BY <1>1, <1>3, WarehouseStep DEF RefuseSameWarehouse
<1>4. ASSUME NEW w \in Warehouses, LockWarehouse(w) \/ UnlockWarehouse(w)
      PROVE  StockInv'
  BY <1>1, <1>4, WarehouseStep DEF LockWarehouse, UnlockWarehouse, SetLocked
<1>5. ASSUME UNCHANGED vars PROVE StockInv'
  BY <1>1, <1>5, WarehouseStep DEF vars
<1> QED BY <1>2, <1>3, <1>4, <1>5, ServeStep DEF Next, Arrive

\* A ledger without rows and idle sessions are a safe beginning.
LEMMA StockInit == Init => StockInv
<1> SUFFICES ASSUME Init PROVE StockInv
  OBVIOUS
<1>1. TypeOK
  BY DEF Init, TypeOK, StockTypeOK, EmptyLedger, Ledgers, NoRows, OwnRows
<1>2. RequestInv /\ LockInv /\ FreshInv
  BY DEF Init, RequestInv, LockInv, FreshInv, NoRows
<1>3. OwnInv
  BY DEF Init, OwnInv, NoRows
<1>4. StockNonNegative /\ RunningIsBalance
  BY DEF Init, StockNonNegative, RunningIsBalance, EmptyLedger
<1>5. DatedInv
  BY RequestsAssumption DEF Init, DatedInv, EmptyLedger, RequestType
<1> QED BY <1>1, <1>2, <1>3, <1>4, <1>5 DEF StockInv

\* BR-INV-001 of transferStock, adjustStock and recordMovement: for any products,
\* warehouses, requests and number of concurrent sessions the on-hand quantities
\* stay non-negative, unless recordMovement is used with differing dates.
THEOREM StockStaysNonNegative ==
    ASSUME DatesAgree
    PROVE  Spec => []StockNonNegative
<1>1. StockInv /\ [Next]_vars => StockInv'
  BY StockStep
<1>2. StockInv => StockNonNegative
  BY DEF StockInv
<1> QED BY <1>1, <1>2, StockInit, PTL DEF Spec

\* Under the same assumption the newest running_qty of every product in every
\* warehouse is the on-hand quantity: no update of the balance is lost.
THEOREM RunningQtyIsBalance ==
    ASSUME DatesAgree
    PROVE  Spec => []RunningIsBalance
<1>1. StockInv /\ [Next]_vars => StockInv'
  BY StockStep
<1>2. StockInv => RunningIsBalance
  BY DEF StockInv
<1> QED BY <1>1, <1>2, StockInit, PTL DEF Spec

-----------------------------------------------------------------------------
(***************************************************************************)
(* Inventory implements AtomicStock.  Every step but three is a stutter:   *)
(* the arrival of a request asks, an exception refuses, and the commit     *)
(* grants.  That the commit grants the whole request and nothing else is   *)
(* DoneInv: the uncommitted rows of a transaction add up to the effect of  *)
(* the lines it has processed.                                             *)
(***************************************************************************)

\* What the first n lines of a request change.
Effect(r, n, k) ==
    SumFunctionOnSet([i \in DOMAIN r.lines |-> LineEffect(r, i, k)], 1..n)

\* What the request of a session has done so far.
Done(s) ==
    /\ pc[s] = "idle" => req[s] = NoRequest
    /\ pc[s] # "idle" => ~SameWarehouse(req[s])
    /\ pc[s] # "lines" => next[s] = 1
    /\ pc[s] = "lines" =>
          /\ next[s] <= Len(req[s].lines) + 1
          /\ \A k \in Keys : own[s][k].delta = Effect(req[s], next[s] - 1, k)

DoneInv == \A s \in Sessions : Done(s)

\* A step that leaves a session alone.
LEMMA DoneKept ==
    ASSUME NEW t \in Sessions, Done(t),
           pc'[t] = pc[t], req'[t] = req[t], next'[t] = next[t], own'[t] = own[t]
    PROVE  Done(t)'
BY DEF Done, SameWarehouse

\* The effect of a line is an integer.
LEMMA LineEffectType ==
    ASSUME NEW r \in RequestType, NEW i \in 1..Len(r.lines), NEW k
    PROVE  LineEffect(r, i, k) \in Int
<1>1. r.lines[i].qty \in Int
  BY LineType
<1> QED BY <1>1 DEF LineEffect

\* The lines of a request are finitely many.
LEMMA LinesFinite ==
    ASSUME NEW r \in RequestType
    PROVE  Len(r.lines) \in Nat /\ DOMAIN r.lines = 1..Len(r.lines)
<1>1. r.lines \in Seq([product : Products, qty : Int])
  BY DEF RequestType
<1> QED BY <1>1

\* The effect of the first lines: none for none of them, and that of a line for one more.
LEMMA EffectStarts == \A r, k : Effect(r, 0, k) = 0
<1> SUFFICES ASSUME NEW r, NEW k PROVE Effect(r, 0, k) = 0
  OBVIOUS
<1>1. 1..0 = {}
  OBVIOUS
<1> QED BY <1>1, SumEmpty DEF Effect

\* One line more.
LEMMA EffectGrows ==
    ASSUME NEW r \in RequestType, NEW i \in 1..Len(r.lines), NEW k
    PROVE  Effect(r, i, k) = Effect(r, i - 1, k) + LineEffect(r, i, k)
<1> DEFINE f == [n \in DOMAIN r.lines |-> LineEffect(r, n, k)]
<1>1. /\ i \in Nat /\ 1..i = 1..(i - 1) \cup {i} /\ i \notin 1..(i - 1)
      /\ 1..i \subseteq DOMAIN r.lines
  BY LinesFinite
<1>2. IsFiniteSet(1..(i - 1))
  BY <1>1, FS_Interval
<1>3. \A n \in DOMAIN r.lines : f[n] = LineEffect(r, n, k) /\ f[n] \in Int
  BY LinesFinite, LineEffectType
<1> HIDE DEF f
<1>4. SumFunctionOnSet(f, 1..(i - 1) \cup {i}) = SumFunctionOnSet(f, 1..(i - 1)) + f[i]
  BY <1>1, <1>2, <1>3, SumInsert
<1> QED BY <1>1, <1>3, <1>4 DEF Effect, f

\* The whole effect is that of all lines.
LEMMA WholeIsEffect ==
    ASSUME NEW r \in RequestType, NEW k
    PROVE  WholeEffect(r, k) = Effect(r, Len(r.lines), k)
BY LinesFinite DEF WholeEffect, Effect, SumFunction

\* A line processed adds its effect to the rows of its session.
LEMMA DoneLine ==
    ASSUME StockInv, DoneInv, NEW s \in Sessions, pc[s] = "lines",
           next[s] \in 1..Len(req[s].lines), NEW rows, RowsType(rows), WriteLine(s, rows),
           \A k \in DOMAIN rows : rows[k].delta = LineEffect(req[s], next[s], k),
           \A k \in Keys \ DOMAIN rows : LineEffect(req[s], next[s], k) = 0
    PROVE  DoneInv'
<1>1. TypeOK /\ req[s] \in RequestType
  BY DEF StockInv, RequestInv, Servable
<1>2. WriteRows(s, rows) /\ UNCHANGED <<ledger, rowLock>> /\ StockTypeOK
  BY <1>1 DEF WriteLine, TypeOK
<1> SUFFICES ASSUME NEW t \in Sessions PROVE Done(t)'
  BY DEF DoneInv
<1>3. CASE t # s
  <2>1. own'[t] = own[t]
    BY <1>2, <1>3, WriteRowsEffect
  <2>2. next'[t] = next[t]
    BY <1>1, <1>3 DEF TypeOK, WriteLine
  <2> QED BY <2>1, <2>2, DoneKept DEF DoneInv, WriteLine
<1>4. CASE t = s
  <2>1. next'[s] = next[s] + 1 /\ pc'[s] = "lines" /\ req'[s] = req[s]
    BY <1>1 DEF TypeOK, WriteLine
  <2>2. next[s] \in Nat /\ Len(req[s].lines) \in Nat
    <3>1. req[s].lines \in Seq([product : Products, qty : Int])
      BY <1>1 DEF RequestType
    <3> QED BY <1>1, <3>1 DEF TypeOK
  <2>3. ASSUME NEW k \in Keys
        PROVE  own'[s][k].delta = Effect(req[s], next[s], k)
    <3>1. Effect(req[s], next[s], k)
            = Effect(req[s], next[s] - 1, k) + LineEffect(req[s], next[s], k)
      BY <1>1, EffectGrows
    <3>2. own[s][k].delta = Effect(req[s], next[s] - 1, k)
      BY DEF DoneInv, Done
    <3>3. own[s][k].delta \in Int
      BY <1>2 DEF StockTypeOK, OwnRows
    <3>4. CASE k \in DOMAIN rows
      <4>1. own'[s][k].delta = own[s][k].delta + rows[k].delta
        <5>1. own'[s][k] = [wrote |-> TRUE, delta |-> own[s][k].delta + rows[k].delta,
                            running |-> rows[k].running]
          BY <1>2, <3>4, WriteRowsEffect
        <5> QED BY <5>1
      <4> QED BY <3>1, <3>2, <3>4, <4>1
    <3>5. CASE k \notin DOMAIN rows
      <4>1. own'[s][k] = own[s][k]
        BY <1>2, <3>5, WriteRowsEffect
      <4> QED BY <3>1, <3>2, <3>3, <3>5, <4>1
    <3> QED BY <3>4, <3>5
  <2>4. next'[s] - 1 = next[s] /\ next'[s] <= Len(req[s].lines) + 1
    BY <2>1, <2>2
  <2>5. ~SameWarehouse(req'[s])
    BY <2>1 DEF DoneInv, Done
  <2>6. \A k \in Keys : own'[s][k].delta = Effect(req'[s], next'[s] - 1, k)
    BY <2>1, <2>3, <2>4
  <2> QED BY <1>4, <2>1, <2>4, <2>5, <2>6 DEF Done, SameWarehouse
<1> QED BY <1>3, <1>4

\* The rows of each kind of line are its effect.
LEMMA DoneTransfer ==
    ASSUME StockInv, DoneInv, NEW s \in Sessions, TransferLine(s)
    PROVE  DoneInv'
<1> DEFINE rows == TransferRows(s)
<1>1. /\ TypeOK /\ pc[s] = "lines" /\ req[s].op = "TRANSFER" /\ req[s] \in RequestType
      /\ next[s] \in 1..Len(req[s].lines) /\ AtLine(s, "TRANSFER")
  BY AtLineFacts DEF StockInv, TransferLine, AtLine
<1>2. req[s].from # req[s].to
  BY <1>1 DEF DoneInv, Done, SameWarehouse
<1>3. \A k \in DOMAIN rows : rows[k].delta = LineEffect(req[s], next[s], k)
  <2> SUFFICES ASSUME NEW k \in {SourceKey(s), TargetKey(s)}
               PROVE  rows[k].delta = LineEffect(req[s], next[s], k)
    BY DEF TransferRows
  <2>1. SourceKey(s) # TargetKey(s)
    BY <1>2 DEF SourceKey, TargetKey
  <2>2. CASE k = SourceKey(s)
    <3>1. rows[k].delta = -Line(s).qty
      BY <2>2 DEF TransferRows
    <3>2. k # <<req[s].lines[next[s]].product, req[s].to>>
      BY <2>1, <2>2 DEF TargetKey, Line
    <3>3. k = <<req[s].lines[next[s]].product, req[s].from>>
      BY <2>2 DEF SourceKey, Line
    <3> QED BY <1>1, <3>1, <3>2, <3>3 DEF LineEffect, Line
  <2>3. CASE k = TargetKey(s)
    <3>1. rows[k].delta = Line(s).qty
      BY <2>1, <2>3 DEF TransferRows
    <3> QED BY <2>3, <3>1 DEF LineEffect, Line, TargetKey
  <2> QED BY <2>2, <2>3
<1>4. \A k \in Keys \ DOMAIN rows : LineEffect(req[s], next[s], k) = 0
  BY DEF TransferRows, LineEffect, SourceKey, TargetKey, Line
<1>5. RowsType(rows) /\ WriteLine(s, rows)
  BY <1>1, TransferRowsType DEF TransferLine
<1> QED BY <1>1, <1>3, <1>4, <1>5, DoneLine

\* Those of an adjustment.
LEMMA DoneAdjust ==
    ASSUME StockInv, DoneInv, NEW s \in Sessions, AdjustLine(s)
    PROVE  DoneInv'
<1> DEFINE rows == AdjustRows(s)
<1>1. /\ TypeOK /\ pc[s] = "lines" /\ req[s].op = "ADJUST" /\ ValidRequest(req[s])
      /\ next[s] \in 1..Len(req[s].lines) /\ AtLine(s, "ADJUST")
  BY AtLineFacts DEF StockInv, RequestInv, Servable, AdjustLine, AtLine
<1>2. req[s].from = req[s].to
  BY <1>1 DEF ValidRequest
<1>3. \A k \in DOMAIN rows : rows[k].delta = LineEffect(req[s], next[s], k)
  BY <1>1, <1>2 DEF AdjustRows, LineEffect, SourceKey, Line
<1>4. \A k \in Keys \ DOMAIN rows : LineEffect(req[s], next[s], k) = 0
  BY <1>1, <1>2 DEF AdjustRows, LineEffect, SourceKey, Line
<1>5. RowsType(rows) /\ WriteLine(s, rows)
  BY <1>1, AdjustRowsType DEF AdjustLine
<1> QED BY <1>1, <1>3, <1>4, <1>5, DoneLine

\* Those of a movement.
LEMMA DoneRecord ==
    ASSUME StockInv, DoneInv, NEW s \in Sessions, RecordLine(s)
    PROVE  DoneInv'
<1> DEFINE rows == RecordRows(s)
<1>1. /\ TypeOK /\ pc[s] = "lines" /\ req[s].op = "RECORD" /\ ValidRequest(req[s])
      /\ next[s] \in 1..Len(req[s].lines) /\ AtLine(s, "RECORD")
  BY AtLineFacts DEF StockInv, RequestInv, Servable, RecordLine, AtLine
<1>2. req[s].from = req[s].to
  BY <1>1 DEF ValidRequest
<1>3. \A k \in DOMAIN rows : rows[k].delta = LineEffect(req[s], next[s], k)
  BY <1>1, <1>2 DEF RecordRows, LineEffect, SourceKey, Line
<1>4. \A k \in Keys \ DOMAIN rows : LineEffect(req[s], next[s], k) = 0
  BY <1>1, <1>2 DEF RecordRows, LineEffect, SourceKey, Line
<1>5. RowsType(rows) /\ WriteLine(s, rows)
  BY <1>1, RecordRowsType DEF RecordLine, RecordRows
<1> QED BY <1>1, <1>3, <1>4, <1>5, DoneLine

\* A request that ends leaves nothing behind.
LEMMA DoneEnds ==
    ASSUME StockInv, DoneInv, NEW s \in Sessions, NEW out, Finish(s, out),
           \A t \in Sessions \ {s} : own'[t] = own[t]
    PROVE  DoneInv'
<1> SUFFICES ASSUME NEW t \in Sessions PROVE Done(t)'
  BY DEF DoneInv
<1>1. TypeOK
  BY DEF StockInv
<1>2. CASE t = s
  <2>1. pc'[s] = "idle" /\ req'[s] = NoRequest /\ next'[s] = 1
    BY <1>1 DEF TypeOK, Finish
  <2> QED BY <1>2, <2>1 DEF Done
<1>3. CASE t # s
  <2>1. pc'[t] = pc[t] /\ req'[t] = req[t] /\ next'[t] = next[t]
    BY <1>1, <1>3 DEF TypeOK, Finish
  <2> QED BY <1>3, <2>1, DoneKept DEF DoneInv
<1> QED BY <1>2, <1>3

\* So does one that throws.
LEMMA DoneThrown ==
    ASSUME StockInv, DoneInv, NEW s \in Sessions, Throw(s)
    PROVE  DoneInv'
<1>1. \A t \in Sessions \ {s} : own'[t] = own[t]
  BY RollbackEffect DEF Throw, StockInv, TypeOK
<1> QED BY <1>1, DoneEnds DEF Throw

\* A session begins to serve a request: it has done nothing of it yet.
LEMMA StartDone ==
    ASSUME StockInv, DoneInv, NEW s \in Sessions, NEW r, ~SameWarehouse(r), StartServing(s, r)
    PROVE  DoneInv'
<1>1. TypeOK /\ StockTypeOK
  BY DEF StockInv, TypeOK
<1> SUFFICES ASSUME NEW t \in Sessions PROVE Done(t)'
  BY DEF DoneInv
<1>2. CASE t = s
  <2>1. pc'[s] = "begin" /\ req'[s] = r /\ next'[s] = 1
    BY <1>1 DEF StartServing, TypeOK
  <2> QED BY <1>2, <2>1 DEF Done, SameWarehouse
<1>3. CASE t # s
  <2>1. pc'[t] = pc[t] /\ req'[t] = req[t] /\ next'[t] = next[t] /\ own'[t] = own[t]
    BY <1>1, <1>3 DEF StartServing, TypeOK
  <2> QED BY <2>1, DoneKept DEF DoneInv
<1> QED BY <1>2, <1>3

\* A step that leaves requests and rows alone.
LEMMA QuietDone ==
    ASSUME DoneInv, UNCHANGED <<own, pc, req, next>>
    PROVE  DoneInv'
BY DoneKept DEF DoneInv

\* A session that serves a request.
LEMMA ServeDone ==
    ASSUME StockInv, DoneInv, NEW s \in Sessions, Serve(s) \/ TxFails(s)
    PROVE  DoneInv'
<1>1. TypeOK /\ StockTypeOK
  BY DEF StockInv, TypeOK
<1>2. ASSUME ReadWarehouses(s) PROVE DoneInv'
  <2> SUFFICES ASSUME NEW t \in Sessions PROVE Done(t)'
    BY DEF DoneInv
  <2>1. CASE t = s
    <3>1. pc[s] = "begin" /\ pc'[s] = "lock" /\ req' = req /\ next' = next
      BY <1>1, <1>2 DEF ReadWarehouses, TypeOK
    <3> QED BY <2>1, <3>1 DEF DoneInv, Done, SameWarehouse
  <2>2. CASE t # s
    <3>1. pc'[t] = pc[t]
      BY <1>1, <1>2, <2>2 DEF ReadWarehouses, TypeOK
    <3> QED BY <1>2, <3>1, DoneKept DEF DoneInv, ReadWarehouses
  <2> QED BY <2>1, <2>2
<1>3. ASSUME LockRefused(s) PROVE DoneInv'
  <2>1. CASE Throw(s)
    BY <2>1, DoneThrown
  <2>2. CASE Rollback(s) /\ pc' = [pc EXCEPT ![s] = "begin"] /\ UNCHANGED <<req, next>>
    <3> SUFFICES ASSUME NEW t \in Sessions PROVE Done(t)'
      BY DEF DoneInv
    <3>1. CASE t = s
      <4>1. pc[s] = "lock" /\ pc'[s] = "begin"
        BY <1>1, <1>3, <2>2 DEF LockRefused, TypeOK
      <4> QED BY <2>2, <3>1, <4>1 DEF DoneInv, Done, SameWarehouse
    <3>2. CASE t # s
      <4>1. pc'[t] = pc[t] /\ own'[t] = own[t]
        BY <1>1, <2>2, <3>2, RollbackEffect DEF TypeOK
      <4> QED BY <2>2, <4>1, DoneKept DEF DoneInv
    <3> QED BY <3>1, <3>2
  <2> QED BY <1>3, <2>1, <2>2 DEF LockRefused
<1>4. ASSUME LocksTaken(s) PROVE DoneInv'
  <2> SUFFICES ASSUME NEW t \in Sessions PROVE Done(t)'
    BY DEF DoneInv
  <2>1. CASE t = s
    <3>1. /\ pc[s] = "lock" /\ pc'[s] = "lines" /\ req' = req /\ next' = next /\ own' = own
          /\ req[s] \in RequestType
      BY <1>1, <1>4 DEF LocksTaken, TypeOK, StockInv, RequestInv, Servable
    <3>2. next'[s] = 1 /\ 1 <= Len(req[s].lines) + 1
      <4>1. req[s].lines \in Seq([product : Products, qty : Int])
        BY <3>1 DEF RequestType
      <4>2. Len(req[s].lines) \in Nat
        BY <4>1
      <4> QED BY <3>1, <4>2 DEF DoneInv, Done
    <3>3. ASSUME NEW k \in Keys
          PROVE  own'[s][k].delta = Effect(req'[s], next'[s] - 1, k)
      <4>1. own[s][k].delta = 0
        BY <3>1 DEF StockInv, FreshInv, OwnInv
      <4>2. Effect(req[s], 0, k) = 0
        BY EffectStarts
      <4>3. next'[s] - 1 = 0
        BY <3>2
      <4> QED BY <3>1, <4>1, <4>2, <4>3
    <3> QED BY <2>1, <3>1, <3>2, <3>3 DEF DoneInv, Done, SameWarehouse
  <2>2. CASE t # s
    <3>1. pc'[t] = pc[t]
      BY <1>1, <1>4, <2>2 DEF LocksTaken, TypeOK
    <3> QED BY <1>4, <3>1, DoneKept DEF DoneInv, LocksTaken
  <2> QED BY <2>1, <2>2
<1>5. ASSUME Commit(s) PROVE DoneInv'
  <2>1. req[s].date \in Nat
    BY <1>5 DEF StockInv, RequestInv, Servable, Commit, RequestType
  <2>2. \A t \in Sessions \ {s} : own'[t] = own[t]
    BY <1>1, <1>5, <2>1, CommitRowsEffect DEF Commit
  <2> QED BY <1>5, <2>2, DoneEnds DEF Commit
<1>6. ASSUME \/ RefuseLockedWarehouse(s) \/ TransferLineRefused(s)
             \/ AdjustLineRefused(s) \/ RecordLineRefused(s) \/ TxFails(s)
      PROVE  DoneInv'
  BY <1>6, DoneThrown DEF RefuseLockedWarehouse, TransferLineRefused, AdjustLineRefused,
     RecordLineRefused, TxFails
<1>7. ASSUME LockProduct(s) PROVE DoneInv'
  BY <1>7, QuietDone DEF LockProduct
<1> QED
  BY <1>2, <1>3, <1>4, <1>5, <1>6, <1>7, DoneTransfer, DoneAdjust, DoneRecord DEF Serve

\* Every step keeps DoneInv.
LEMMA DoneStep ==
    ASSUME StockInv, DoneInv, [Next]_vars
    PROVE  DoneInv'
<1>1. ASSUME NEW s \in Sessions, NEW r \in Requests, Issue(s, r) PROVE DoneInv'
  BY <1>1, StartDone DEF Issue
<1>2. ASSUME NEW s \in Sessions, NEW r \in Requests, RefuseSameWarehouse(s, r)
      PROVE  DoneInv'
  BY <1>2, QuietDone DEF RefuseSameWarehouse
<1>3. ASSUME NEW w \in Warehouses, LockWarehouse(w) \/ UnlockWarehouse(w) PROVE DoneInv'
  BY <1>3, QuietDone DEF LockWarehouse, UnlockWarehouse, SetLocked
<1>4. CASE UNCHANGED vars
  BY <1>4, QuietDone DEF vars
<1> QED BY <1>1, <1>2, <1>3, <1>4, ServeDone DEF Next, Arrive

-----------------------------------------------------------------------------
(* The refinement *)

\* What is served was asked.
AskedInv == \A s \in Sessions : pc[s] # "idle" => req[s] \in Requests

\* Every step keeps that.
LEMMA AskedStep ==
    ASSUME TypeOK, AskedInv, [Next]_vars
    PROVE  AskedInv'
<1>1. ASSUME NEW s \in Sessions, NEW r \in Requests, Issue(s, r) PROVE AskedInv'
  BY <1>1 DEF Issue, StartServing, AskedInv, TypeOK
<1>2. ASSUME NEW s \in Sessions, \E out : Finish(s, out) PROVE AskedInv'
  BY <1>2 DEF Finish, AskedInv, TypeOK
<1>3. ASSUME NEW s \in Sessions, req' = req, pc[s] # "idle",
             pc' = pc \/ pc' = [pc EXCEPT ![s] = "begin"] \/ pc' = [pc EXCEPT ![s] = "lock"]
               \/ pc' = [pc EXCEPT ![s] = "lines"]
      PROVE  AskedInv'
  BY <1>3 DEF AskedInv, TypeOK
<1>4. ASSUME UNCHANGED <<pc, req>> PROVE AskedInv'
  BY <1>4 DEF AskedInv
<1>5. ASSUME NEW s \in Sessions, Serve(s) \/ TxFails(s) PROVE AskedInv'
  <2>1. CASE Throw(s) \/ Commit(s)
    BY <1>2, <2>1 DEF Throw, Commit
  <2>2. CASE ReadWarehouses(s) \/ LocksTaken(s)
    BY <1>3, <2>2 DEF ReadWarehouses, LocksTaken
  <2>3. CASE LockProduct(s) \/ TransferLine(s) \/ AdjustLine(s) \/ RecordLine(s)
    BY <1>4, <2>3 DEF LockProduct, TransferLine, AdjustLine, RecordLine, WriteLine
  <2>4. CASE LockRefused(s)
    BY <1>3, <2>1, <2>4 DEF LockRefused
  <2> QED BY <1>5, <2>1, <2>2, <2>3, <2>4 DEF Serve, TxFails, RefuseLockedWarehouse,
          TransferLineRefused, AdjustLineRefused, RecordLineRefused
<1>6. ASSUME NEW s \in Sessions, NEW r \in Requests, RefuseSameWarehouse(s, r) PROVE AskedInv'
  BY <1>4, <1>6 DEF RefuseSameWarehouse
<1>7. ASSUME NEW w \in Warehouses, LockWarehouse(w) \/ UnlockWarehouse(w) PROVE AskedInv'
  BY <1>4, <1>7 DEF LockWarehouse, UnlockWarehouse, SetLocked
<1>8. CASE UNCHANGED vars
  BY <1>4, <1>8 DEF vars
<1> QED BY <1>1, <1>5, <1>6, <1>7, <1>8 DEF Next, Arrive

\* An exception refuses the request.
LEMMA ThrowRefuses ==
    ASSUME StockInv, NEW s \in Sessions, Throw(s)
    PROVE  Abstract!Refuse(s)
BY DEF Throw, Rollback, Finish, Abstract!Refuse, Abstract!Answer

\* The commit grants it.
LEMMA CommitGrants ==
    ASSUME StockInv, StockInv', DoneInv, AskedInv, NEW s \in Sessions, Commit(s)
    PROVE  Abstract!Grant(s)
<1>1. req[s] \in Requests /\ req[s] \in RequestType /\ StockTypeOK
  BY DEF StockInv, RequestInv, Servable, Commit, TypeOK, AskedInv
<1>2. next[s] - 1 = Len(req[s].lines)
  <2>1. req[s].lines \in Seq([product : Products, qty : Int])
    BY <1>1 DEF RequestType
  <2>2. Len(req[s].lines) \in Nat /\ next[s] \in Nat
    BY <2>1 DEF StockInv, TypeOK
  <2> QED BY <2>2 DEF Commit, DoneInv, Done
<1>3. ASSUME NEW k \in Keys
      PROVE  ledger'[k].sum = ledger[k].sum + WholeEffect(req[s], k) /\ ledger'[k].sum >= 0
  <2>1. own[s][k].delta = WholeEffect(req[s], k)
    BY <1>1, <1>2, WholeIsEffect DEF Commit, DoneInv, Done
  <2>2. req[s].date \in Nat
    BY <1>1 DEF RequestType
  <2>3. ledger[k].sum \in Int
    BY <1>1 DEF StockTypeOK, Ledgers
  <2>4. CASE own[s][k].wrote
    <3>1. ledger'[k] = AppendRow(ledger[k], own[s][k].delta, own[s][k].running, req[s].date)
      BY <1>1, <2>2, <2>4, CommitRowsEffect DEF Commit
    <3> QED BY <2>1, <3>1 DEF AppendRow, StockInv, StockNonNegative
  <2>5. CASE ~own[s][k].wrote
    <3>1. ledger'[k] = ledger[k]
      BY <1>1, <2>2, <2>5, CommitRowsEffect DEF Commit
    <3>2. own[s][k].delta = 0
      BY <2>5 DEF StockInv, OwnInv
    <3> QED BY <2>1, <2>3, <3>1, <3>2 DEF StockInv, StockNonNegative
  <2> QED BY <2>4, <2>5
<1>4. /\ req' = [req EXCEPT ![s] = NoRequest]
      /\ outcome' = [outcome EXCEPT ![s] = "ok"]
  BY DEF Commit, Finish
<1> QED BY <1>1, <1>3, <1>4 DEF Abstract!Grant, Abstract!Answer

\* Every step of Inventory is a step of AtomicStock or none.
LEMMA StepRefines ==
    ASSUME StockInv, StockInv', DoneInv, AskedInv, [Next]_vars
    PROVE  [Abstract!AbstractNext]_(Abstract!abstractVars)
<1>1. CASE UNCHANGED <<ledger, req, outcome>>
  BY <1>1 DEF Abstract!abstractVars
<1>2. ASSUME NEW s \in Sessions, Throw(s) PROVE Abstract!AbstractNext
  BY <1>2, ThrowRefuses DEF Abstract!AbstractNext
<1>3. ASSUME NEW s \in Sessions, NEW r \in Requests, Issue(s, r) PROVE Abstract!AbstractNext
  <2>1. Abstract!Ask(s, r)
    BY <1>3 DEF Issue, StartServing, DoneInv, Done, Abstract!Ask
  <2> QED BY <2>1 DEF Abstract!AbstractNext
<1>4. ASSUME NEW s \in Sessions, NEW r \in Requests, RefuseSameWarehouse(s, r)
      PROVE  Abstract!AbstractNext
  <2>1. req = [req EXCEPT ![s] = NoRequest]
    BY <1>4 DEF RefuseSameWarehouse, DoneInv, Done, StockInv, TypeOK
  <2>2. Abstract!Refuse(s)
    BY <1>4, <2>1 DEF RefuseSameWarehouse, Abstract!Refuse, Abstract!Answer
  <2> QED BY <2>2 DEF Abstract!AbstractNext
<1>5. ASSUME NEW s \in Sessions, Commit(s) PROVE Abstract!AbstractNext
  BY <1>5, CommitGrants DEF Abstract!AbstractNext
<1>6. ASSUME NEW s \in Sessions,
             \/ RefuseLockedWarehouse(s) \/ TransferLineRefused(s)
             \/ AdjustLineRefused(s) \/ RecordLineRefused(s) \/ TxFails(s)
      PROVE  Abstract!AbstractNext
  BY <1>2, <1>6 DEF RefuseLockedWarehouse, TransferLineRefused, AdjustLineRefused,
     RecordLineRefused, TxFails
<1>7. ASSUME NEW s \in Sessions, LockRefused(s)
      PROVE  Abstract!AbstractNext \/ UNCHANGED <<ledger, req, outcome>>
  BY <1>2, <1>7 DEF LockRefused, Rollback
<1>8. ASSUME NEW s \in Sessions,
             \/ ReadWarehouses(s) \/ LockProduct(s) \/ LocksTaken(s)
             \/ TransferLine(s) \/ AdjustLine(s) \/ RecordLine(s)
      PROVE  UNCHANGED <<ledger, req, outcome>>
  BY <1>8 DEF ReadWarehouses, LockProduct, LocksTaken, TransferLine, AdjustLine,
     RecordLine, WriteLine
<1>9. ASSUME NEW w \in Warehouses, LockWarehouse(w) \/ UnlockWarehouse(w)
      PROVE  UNCHANGED <<ledger, req, outcome>>
  BY <1>9 DEF LockWarehouse, UnlockWarehouse, SetLocked
<1>10. CASE UNCHANGED vars
  BY <1>1, <1>10 DEF vars
<1> QED
  BY <1>1, <1>3, <1>4, <1>5, <1>6, <1>7, <1>8, <1>9, <1>10 DEF Next, Arrive, Serve

\* Whatever transfers, adjustments and movements any number of sessions serve at the
\* same time, InventoryService does to the stock what serving them one at a time would
\* do, each in full or not at all, and answers "ok" for the ones it did; unless
\* recordMovement, which no route reaches, is used with differing dates.
THEOREM InventoryIsAtomic ==
    ASSUME DatesAgree
    PROVE  Spec => ServedAtomically
<1>1. Init => StockInv /\ DoneInv /\ AskedInv
  BY StockInit DEF Init, DoneInv, Done, AskedInv
<1>2. StockInv /\ DoneInv /\ AskedInv /\ [Next]_vars => (StockInv /\ DoneInv /\ AskedInv)'
  <2>1. StockInv => TypeOK
    BY DEF StockInv
  <2> QED BY <2>1, StockStep, DoneStep, AskedStep
<1>3. Init => Abstract!AbstractInit
  BY DEF Init, EmptyLedger, Abstract!AbstractInit
<1>4. StockInv /\ StockInv' /\ DoneInv /\ AskedInv /\ [Next]_vars
        => [Abstract!AbstractNext]_(Abstract!abstractVars)
  BY StepRefines
<1> QED
  BY <1>1, <1>2, <1>3, <1>4, PTL DEF Spec, ServedAtomically, Abstract!AbstractSpec

-----------------------------------------------------------------------------
(***************************************************************************)
(* That an opname keeps its warehouse locked, is completed with what was   *)
(* counted posted, and is final then, for any number of opnames, products, *)
(* warehouses and sessions of InventoryService beside it, and for one      *)
(* clerk: two clerks at once may initiate the same warehouse or count an   *)
(* opname that the other completes.                                        *)
(*                                                                         *)
(* The inductive invariant adds to StockInv and DoneInv of Inventory what  *)
(* the clerk's call has read (ClerkInv: it is still so, as nobody else     *)
(* writes opnames), what an open opname has posted (PostedInv: nothing, or *)
(* everything once its adjustment is done) and that two open opnames of a  *)
(* warehouse have met an unlock by hand (AloneInv).                        *)
(***************************************************************************)

\* One clerk serves opnames.
OneClerk == \A c, d \in Clerks : c = d

\* The adjustment of an opname is not dated apart from the movements of recordMovement,
\* which no route reaches.
AdjustmentDated == RecordUsed => \A r \in Requests : r.date = 1

WorksOn(c) == call[c].step \in {"counting", "adjusting", "completing"}

\* What a clerk's call has read is still so.
ReadOK(c) ==
    /\ call[c] # NoCall => c \in Clerks
    /\ WorksOn(c) =>
          /\ call[c].seen = opnames[call[c].opname]
          /\ call[c].seen.status # "COMPLETED"
    /\ call[c].step \in {"adjusting", "completing"} => NothingPending(call[c].seen)
    /\ c \in Clerks /\ pc[c] # "idle" =>
          call[c].step = "adjusting" /\ req[c] = AdjustmentOf(call[c].seen)
ClerkInv == \A c \in Sessions : ReadOK(c)

\* The adjustment of an opname is done: adjustStock has returned, or was not needed.
Settled(c, o) ==
    \/ call[c].step = "adjusting" /\ call[c].opname = o /\ pc[c] = "idle" /\ outcome[c] = "ok"
    \/ call[c].step = "completing" /\ call[c].opname = o

\* Unless a completion failed, an open opname has posted nothing before that and what
\* was counted after it.
PostedOK(o) ==
    opnames[o].status # "COMPLETED" /\ ~history[o].failed =>
        /\ (\A c \in Clerks : ~Settled(c, o)) => \A p \in Products : history[o].posted[p] = 0
        /\ (\E c \in Clerks : Settled(c, o)) => PostedAsCounted(o)
PostedInv == \A o \in DOMAIN opnames : PostedOK(o)

\* Two opnames are open in a warehouse only after an unlock by hand.
Open(o) == opnames[o].status # "COMPLETED"
AloneInv ==
    /\ \A o, q \in DOMAIN opnames :
          Open(o) /\ Open(q) /\ opnames[o].warehouse = opnames[q].warehouse /\ o # q =>
              UnlockedByHand(opnames[o].warehouse)
    /\ \A c \in Clerks, o \in DOMAIN opnames :
          call[c].step = "initiating" /\ Open(o) /\ opnames[o].warehouse = call[c].warehouse =>
              UnlockedByHand(opnames[o].warehouse)

OpnameInv ==
    /\ StockInv /\ DoneInv /\ OpnameTypeOK
    /\ ClerkInv /\ PostedInv /\ AloneInv /\ OpenOpnameLocked

-----------------------------------------------------------------------------
(* Rows in an order of their own *)

\* SetToSeq puts every element of a finite set at one place.
LEMMA SetInOrder ==
    ASSUME NEW S, IsFiniteSet(S)
    PROVE  /\ Cardinality(S) \in Nat
           /\ SetToSeq(S) \in [1..Cardinality(S) -> S]
           /\ \A x, y \in 1..Cardinality(S) : SetToSeq(S)[x] = SetToSeq(S)[y] => x = y
           /\ \A y \in S : \E x \in 1..Cardinality(S) : SetToSeq(S)[x] = y
<1> DEFINE n == Cardinality(S)
           order == SetToSeq(S)
<1>1. n \in Nat /\ ExistsBijection(1..n, S)
  BY FS_CardinalityType
<1>2. PICK b \in [1..n -> S] : IsInjective(b)
  BY <1>1 DEF ExistsBijection, Bijection, Injection
<1>3. order \in [1..n -> S] /\ IsInjective(order)
  BY <1>2 DEF SetToSeq
<1>4. order \in Injection(1..n, S)
  BY <1>3 DEF Injection
<1> HIDE DEF order
<1>5. order \in Surjection(1..n, S)
  <2>1. Cardinality(1..n) = n
    BY <1>1, FS_Interval
  <2> QED BY <1>4, <2>1, FS_Injection
<1>6. /\ \A x, y \in 1..n : order[x] = order[y] => x = y
      /\ \A y \in S : \E x \in 1..n : order[x] = y
  BY <1>3, <1>5 DEF IsInjective, Surjection
<1> QED BY <1>1, <1>3, <1>6 DEF order

\* The places of a sequence are finitely many.
LEMMA PlacesFinite ==
    ASSUME NEW T, NEW rows \in Seq(T), NEW places, places \subseteq DOMAIN rows
    PROVE  IsFiniteSet(places) /\ IsFiniteSet(DOMAIN rows)
<1>1. DOMAIN rows = 1..Len(rows) /\ Len(rows) \in Nat
  OBVIOUS
<1>2. IsFiniteSet(DOMAIN rows)
  <2>1. IsFiniteSet(1..Len(rows))
    BY <1>1, FS_Interval
  <2> QED BY <1>1, <2>1
<1> QED BY <1>2, FS_Subset

\* Rows at some places of a sequence are rows of it, each place once.
LEMMA RowsAtPlaces ==
    ASSUME NEW T, NEW rows \in Seq(T), NEW places, places \subseteq DOMAIN rows
    PROVE  LET n == Cardinality(places)
               order == SetToSeq(places)
           IN  /\ n \in Nat /\ RowsAt(rows, places) \in Seq(T)
               /\ DOMAIN RowsAt(rows, places) = 1..n
               /\ order \in [1..n -> places]
               /\ \A x, y \in 1..n : order[x] = order[y] => x = y
               /\ \A y \in places : \E x \in 1..n : order[x] = y
               /\ \A x \in 1..n : RowsAt(rows, places)[x] = rows[order[x]]
<1> DEFINE n == Cardinality(places)
           order == SetToSeq(places)
<1>1. /\ n \in Nat /\ order \in [1..n -> places]
      /\ \A x, y \in 1..n : order[x] = order[y] => x = y
      /\ \A y \in places : \E x \in 1..n : order[x] = y
  BY PlacesFinite, SetInOrder
<1>2. RowsAt(rows, places) = [x \in DOMAIN order |-> rows[order[x]]]
  BY DEF RowsAt
<1> HIDE DEF n, order
<1>3. DOMAIN order = 1..n /\ \A x \in 1..n : rows[order[x]] \in T
  <2>1. DOMAIN rows = 1..Len(rows) /\ \A i \in 1..Len(rows) : rows[i] \in T
    OBVIOUS
  <2> QED BY <1>1, <2>1
<1>4. RowsAt(rows, places) = [x \in 1..n |-> rows[order[x]]]
  BY <1>2, <1>3
<1>5. RowsAt(rows, places) \in Seq(T)
  BY <1>1, <1>3, <1>4
<1> QED BY <1>1, <1>4, <1>5 DEF n, order

-----------------------------------------------------------------------------
(* Opnames and their lines *)

\* What an opname records when it begins.
LEMMA NewOpnameType ==
    ASSUME StockTypeOK, StockNonNegative, NEW w \in Warehouses
    PROVE  /\ NewOpname(w) \in Opname
           /\ NewOpname(w).warehouse = w /\ NewOpname(w).status = "INITIATED"
<1> DEFINE products == SetToSeq(InStock(w))
           n == Cardinality(InStock(w))
           lines == [i \in DOMAIN products |-> SystemLine(products[i], w)]
<1>1. n \in Nat /\ products \in [1..n -> InStock(w)]
  <2>1. IsFiniteSet(InStock(w))
    BY ProductsFinite, FS_Subset DEF InStock
  <2> QED BY <2>1, SetInOrder
<1>2. NewOpname(w) = [warehouse |-> w, status |-> "INITIATED", lines |-> lines]
  BY DEF NewOpname
<1>3. ASSUME NEW p \in InStock(w) PROVE SystemLine(p, w) \in OpnameLine
  <2>1. p \in Products /\ <<p, w>> \in Keys
    BY DEF InStock, Keys
  <2>2. ledger[<<p, w>>] \in Ledgers /\ ledger[<<p, w>>].sum >= 0
    BY <2>1 DEF StockTypeOK, StockNonNegative
  <2>3. ledger[<<p, w>>].sum \in Nat
    BY <2>2 DEF Ledgers
  <2> QED BY <2>1, <2>3 DEF SystemLine, OpnameLine
<1> HIDE DEF n, products
<1>4. lines = [i \in 1..n |-> SystemLine(products[i], w)]
  BY <1>1
<1>5. lines \in Seq(OpnameLine)
  <2>1. \A i \in 1..n : SystemLine(products[i], w) \in OpnameLine
    BY <1>1, <1>3
  <2> QED BY <1>1, <1>4, <2>1
<1> HIDE DEF lines
<1> QED BY <1>2, <1>5 DEF Opname

\* A counted line is a line.
LEMMA CountedType ==
    ASSUME NEW p \in Products, NEW system \in Nat, NEW qty \in Nat
    PROVE  Counted(p, system, qty) \in OpnameLine
BY DEF Counted, OpnameLine

\* Counts turn lines into lines.
LEMMA CountedLinesType ==
    ASSUME NEW now \in Seq(OpnameLine), NEW seen \in Seq(OpnameLine),
           NEW items \in Seq([product : Products, qty_counted : Nat])
    PROVE  CountedLines(now, seen, items) \in Seq(OpnameLine)
<1> DEFINE Count == [product : Products, qty_counted : Nat]
           unknown == {n \in DOMAIN items :
                          \A l \in ToSet(seen) : l.product # items[n].product}
           new == RowsAt(items, unknown)
           old == [i \in DOMAIN now |->
                      IF /\ i \in DOMAIN seen /\ FirstLineOf(seen, i)
                         /\ ItemsFor(items, now[i].product) # {}
                      THEN Counted(now[i].product, seen[i].qty_system,
                               items[Max(ItemsFor(items, now[i].product))].qty_counted)
                      ELSE now[i]]
           added == [i \in DOMAIN new |-> Counted(new[i].product, 0, new[i].qty_counted)]
<1>1. items \in Seq(Count)
  OBVIOUS
<1>2. /\ DOMAIN items = 1..Len(items) /\ Len(items) \in Nat
      /\ \A n \in DOMAIN items : items[n].qty_counted \in Nat
  <2>1. \A n \in 1..Len(items) : items[n] \in Count
    <3> HIDE DEF Count
    <3> QED BY <1>1, ElementOfSeq
  <2>2. DOMAIN items = 1..Len(items) /\ Len(items) \in Nat
    BY <1>1
  <2> QED BY <2>1, <2>2
<1>3. ASSUME NEW p, ItemsFor(items, p) # {}
      PROVE  items[Max(ItemsFor(items, p))].qty_counted \in Nat
  <2>1. ItemsFor(items, p) \subseteq 1..Len(items)
    BY <1>2 DEF ItemsFor
  <2>2. Max(ItemsFor(items, p)) \in ItemsFor(items, p)
    BY <1>2, <1>3, <2>1, GreatestNatural DEF Max
  <2> QED BY <1>2, <2>1, <2>2
<1>4. /\ DOMAIN now = 1..Len(now) /\ Len(now) \in Nat
      /\ \A i \in DOMAIN now : now[i] \in OpnameLine
      /\ \A i \in DOMAIN seen : seen[i] \in OpnameLine
  OBVIOUS
<1>5. old \in Seq(OpnameLine)
  <2>1. ASSUME NEW i \in DOMAIN now PROVE old[i] \in OpnameLine
    <3>1. now[i].product \in Products /\ (i \in DOMAIN seen => seen[i].qty_system \in Nat)
      BY <1>4 DEF OpnameLine
    <3> QED BY <1>3, <1>4, <3>1, CountedType
  <2>2. old = [i \in 1..Len(now) |-> old[i]] /\ DOMAIN old = DOMAIN now
    BY <1>4
  <2> HIDE DEF old
  <2> QED BY <1>4, <2>1, <2>2
<1>6. added \in Seq(OpnameLine)
  <2>1. new \in Seq(Count)
    BY <1>1, RowsAtPlaces
  <2> HIDE DEF new, Count
  <2>2. /\ DOMAIN new = 1..Len(new) /\ Len(new) \in Nat
        /\ \A i \in DOMAIN new : new[i] \in Count
    BY <2>1, ElementOfSeq
  <2>3. \A i \in DOMAIN new :
           Counted(new[i].product, 0, new[i].qty_counted) \in OpnameLine
    BY <2>2, CountedType DEF Count
  <2> QED BY <2>2, <2>3
<1>7. CountedLines(now, seen, items) = old \o added
  BY DEF CountedLines
<1> HIDE DEF old, added
<1> QED BY <1>5, <1>6, <1>7, ConcatProperties

-----------------------------------------------------------------------------
(* Differences and adjustments *)

\* The lines of an opname name products and integral differences.
LEMMA OpnameLineType ==
    ASSUME NEW opname \in Opname
    PROVE  /\ opname.lines \in Seq(OpnameLine) /\ opname.warehouse \in Warehouses
           /\ DOMAIN opname.lines = 1..Len(opname.lines) /\ Len(opname.lines) \in Nat
           /\ IsFiniteSet(DOMAIN opname.lines)
           /\ \A i \in DOMAIN opname.lines :
                 /\ opname.lines[i] \in OpnameLine
                 /\ opname.lines[i].product \in Products
                 /\ opname.lines[i].qty_difference \in Int
<1>1. opname.lines \in Seq(OpnameLine) /\ opname.warehouse \in Warehouses
  BY DEF Opname
<1>2. DOMAIN opname.lines = 1..Len(opname.lines) /\ Len(opname.lines) \in Nat
  BY <1>1
<1>3. \A i \in DOMAIN opname.lines : opname.lines[i] \in OpnameLine
  BY <1>1, <1>2, ElementOfSeq
<1>4. IsFiniteSet(DOMAIN opname.lines)
  BY <1>1, PlacesFinite
<1> QED BY <1>1, <1>2, <1>3, <1>4 DEF OpnameLine

\* The adjustment of an opname is a request that may be served.
LEMMA AdjustmentType ==
    ASSUME AdjustmentDated, NEW opname \in Opname
    PROVE  Servable(AdjustmentOf(opname)) /\ ~SameWarehouse(AdjustmentOf(opname))
<1> DEFINE places == Discrepancies(opname.lines)
           rows == RowsAt(opname.lines, places)
           n == Cardinality(places)
           lines == [i \in DOMAIN rows |->
                        [product |-> rows[i].product, qty |-> rows[i].qty_difference]]
           r == AdjustmentOf(opname)
<1>1. places \subseteq DOMAIN opname.lines
  BY DEF Discrepancies
<1>2. n \in Nat /\ rows \in Seq(OpnameLine) /\ DOMAIN rows = 1..n
  BY <1>1, OpnameLineType, RowsAtPlaces
<1>3. r = [op |-> "ADJUST", from |-> opname.warehouse, to |-> opname.warehouse,
           date |-> 1, lines |-> lines]
  BY DEF AdjustmentOf
<1> HIDE DEF rows, n
<1>4. lines \in Seq([product : Products, qty : Int])
  <2>1. \A i \in 1..n : rows[i] \in OpnameLine
    BY <1>2
  <2>2. \A i \in 1..n : rows[i].product \in Products /\ rows[i].qty_difference \in Int
    BY <2>1 DEF OpnameLine
  <2> QED BY <1>2, <2>2
<1> HIDE DEF lines
<1>5. r \in RequestType
  BY <1>3, <1>4, OpnameLineType DEF RequestType, NoDate
<1>6. r.op = "ADJUST" /\ r.from = r.to /\ r.date = 1
  BY <1>3
<1> HIDE DEF r
<1>7. ValidRequest(r) /\ ~SameWarehouse(r)
  BY <1>6 DEF ValidRequest, SameWarehouse
<1>8. RecordUsed => \A q \in Requests : r.date = q.date
  BY <1>6 DEF AdjustmentDated
<1> QED BY <1>5, <1>6, <1>7, <1>8 DEF Servable, r

\* What a line of an opname adds to the difference of a product.
LineDifference(opname, p) ==
    [i \in DOMAIN opname.lines |->
        IF opname.lines[i].product = p THEN opname.lines[i].qty_difference ELSE 0]

\* The lines add up to integers.
LEMMA LineDifferenceType ==
    ASSUME NEW opname \in Opname, NEW p
    PROVE  /\ Difference(opname, p)
                = SumFunctionOnSet(LineDifference(opname, p), DOMAIN opname.lines)
           /\ \A i \in DOMAIN opname.lines : LineDifference(opname, p)[i] \in Int
           /\ \A i \in DOMAIN opname.lines : i \notin Discrepancies(opname.lines) =>
                 LineDifference(opname, p)[i] = 0
<1>1. \A i \in DOMAIN opname.lines : opname.lines[i].qty_difference \in Int
  BY OpnameLineType
<1>2. DOMAIN LineDifference(opname, p) = DOMAIN opname.lines
  BY DEF LineDifference
<1>3. Difference(opname, p)
        = SumFunctionOnSet(LineDifference(opname, p), DOMAIN opname.lines)
  BY <1>2 DEF Difference, LineDifference, SumFunction
<1> QED BY <1>1, <1>3 DEF LineDifference, Discrepancies

\* What an adjustment does to the stock is what the opname found.
LEMMA AdjustmentEffect ==
    ASSUME NEW opname \in Opname, NEW p \in Products
    PROVE  WholeEffect(AdjustmentOf(opname), <<p, opname.warehouse>>) = Difference(opname, p)
<1> DEFINE places == Discrepancies(opname.lines)
           rows == RowsAt(opname.lines, places)
           n == Cardinality(places)
           order == SetToSeq(places)
           r == AdjustmentOf(opname)
           k == <<p, opname.warehouse>>
           h == [i \in DOMAIN r.lines |-> LineEffect(r, i, k)]
           f == LineDifference(opname, p)
<1>1. places \subseteq DOMAIN opname.lines /\ opname.lines \in Seq(OpnameLine)
      /\ IsFiniteSet(DOMAIN opname.lines) /\ IsFiniteSet(places)
  BY OpnameLineType, FS_Subset DEF Discrepancies
<1>2. /\ n \in Nat /\ DOMAIN rows = 1..n
      /\ order \in [1..n -> places]
      /\ \A x, y \in 1..n : order[x] = order[y] => x = y
      /\ \A y \in places : \E x \in 1..n : order[x] = y
      /\ \A x \in 1..n : rows[x] = opname.lines[order[x]]
  BY <1>1, RowsAtPlaces
<1>3. /\ r.from = opname.warehouse /\ r.to = opname.warehouse
      /\ r.lines = [i \in DOMAIN rows |->
                       [product |-> rows[i].product, qty |-> rows[i].qty_difference]]
  BY DEF AdjustmentOf
<1>4. \A i \in DOMAIN opname.lines : f[i] \in Int
  BY LineDifferenceType
<1>5. \A i \in DOMAIN opname.lines :
         f[i] = IF opname.lines[i].product = p THEN opname.lines[i].qty_difference ELSE 0
  BY DEF LineDifference
<1> HIDE DEF rows, n, order, r
<1>6. DOMAIN h = 1..n
  BY <1>2, <1>3
<1>7. \A x \in 1..n : order[x] \in places /\ h[x] = f[order[x]]
  <2> SUFFICES ASSUME NEW x \in 1..n PROVE order[x] \in places /\ h[x] = f[order[x]]
    OBVIOUS
  <2>1. order[x] \in places /\ order[x] \in DOMAIN opname.lines
    BY <1>1, <1>2
  <2>2. /\ r.lines[x].product = opname.lines[order[x]].product
        /\ r.lines[x].qty = opname.lines[order[x]].qty_difference
    BY <1>2, <1>3
  <2>3. h[x] = LineEffect(r, x, k)
    BY <1>2, <1>3
  <2>4. LineEffect(r, x, k) = IF r.lines[x].product = p THEN r.lines[x].qty ELSE 0
    BY <1>3 DEF LineEffect
  <2> QED BY <1>5, <2>1, <2>2, <2>3, <2>4
<1> HIDE DEF h, f, places, k
<1>8. SumFunctionOnSet(h, 1..n) = SumFunctionOnSet(f, places)
  <2> DEFINE I == 1..n
  <2>1. IsFiniteSet(I) /\ IsFiniteSet(places)
    BY <1>1, <1>2, FS_Interval
  <2>2. \A y \in places : f[y] \in Int
    BY <1>1, <1>4
  <2>3. \A x, y \in I : order[x] = order[y] => x = y
    BY <1>2
  <2>4. \A y \in places : \E x \in I : order[x] = y
    BY <1>2
  <2>5. order \in [I -> places] /\ \A x \in I : h[x] = f[order[x]]
    BY <1>2, <1>7
  <2> HIDE DEF I
  <2>6. SumFunctionOnSet(h, I) = SumFunctionOnSet(f, places)
    BY <2>1, <2>2, <2>3, <2>4, <2>5, SumRename
  <2> QED BY <2>6 DEF I
<1>9. SumFunctionOnSet(f, places) = SumFunctionOnSet(f, DOMAIN opname.lines)
  <2>1. \A i \in DOMAIN opname.lines : i \notin places => f[i] = 0
    BY LineDifferenceType DEF f, places
  <2> QED BY <1>1, <1>4, <2>1, SumNonZero
<1>10. WholeEffect(r, k) = SumFunctionOnSet(h, 1..n)
  BY <1>6 DEF WholeEffect, SumFunction, h
<1>11. Difference(opname, p) = SumFunctionOnSet(f, DOMAIN opname.lines)
  BY LineDifferenceType DEF f
<1> QED BY <1>8, <1>9, <1>10, <1>11 DEF r, k

\* Without a discrepancy there is no difference.
LEMMA NoDifference ==
    ASSUME NEW opname \in Opname, Discrepancies(opname.lines) = {}, NEW p
    PROVE  Difference(opname, p) = 0
<1>1. \A i \in DOMAIN opname.lines : LineDifference(opname, p)[i] = 0
  BY LineDifferenceType
<1> QED BY <1>1, LineDifferenceType, OpnameLineType, SumZero

\* Lines of the same products with the same differences have the same difference.
LEMMA SameDifference ==
    ASSUME NEW a \in Opname, NEW b \in Opname, NEW p,
           DOMAIN a.lines = DOMAIN b.lines,
           \A i \in DOMAIN a.lines :
               /\ a.lines[i].product = b.lines[i].product
               /\ a.lines[i].qty_difference = b.lines[i].qty_difference
    PROVE  Difference(a, p) = Difference(b, p)
<1>1. \A i \in DOMAIN a.lines : LineDifference(a, p)[i] = LineDifference(b, p)[i]
  BY DEF LineDifference
<1> QED BY <1>1, LineDifferenceType, OpnameLineType, SumEqual

-----------------------------------------------------------------------------
(* The parts of the state *)

\* The variables of StockOpname have their types.
OpnameVarsOK ==
    /\ opnames \in Seq(Opname)
    /\ call \in [Sessions -> Calls]
    /\ \A s \in Sessions : call[s].step \in {"counting", "adjusting", "completing"} =>
          call[s].opname \in DOMAIN opnames
    /\ history \in Seq(History) /\ Len(history) = Len(opnames)

\* The two parts make up the type.
LEMMA OpnameTypeParts == OpnameTypeOK <=> TypeOK /\ OpnameVarsOK
BY DEF OpnameTypeOK, OpnameVarsOK

\* The places of opnames and of their history.
LEMMA OpnameFacts ==
    ASSUME OpnameVarsOK
    PROVE  /\ DOMAIN opnames = 1..Len(opnames) /\ Len(opnames) \in Nat
           /\ DOMAIN history = DOMAIN opnames
           /\ \A o \in DOMAIN opnames :
                 /\ opnames[o] \in Opname /\ history[o] \in History
                 /\ opnames[o].warehouse \in Warehouses
<1>1. /\ DOMAIN opnames = 1..Len(opnames) /\ Len(opnames) \in Nat
      /\ DOMAIN history = 1..Len(opnames)
  BY DEF OpnameVarsOK
<1>2. \A o \in DOMAIN opnames : opnames[o] \in Opname /\ history[o] \in History
  BY <1>1, ElementOfSeq DEF OpnameVarsOK
<1>3. \A o \in DOMAIN opnames : opnames[o].warehouse \in Warehouses
  BY <1>2 DEF Opname
<1> QED BY <1>1, <1>2, <1>3

\* What a call holds at each of its steps.
LEMMA CallFacts ==
    ASSUME OpnameVarsOK, NEW s \in Sessions
    PROVE  /\ call[s] \in Calls
           /\ call[s].step = "initiating" => call[s].warehouse \in Warehouses
           /\ WorksOn(s) =>
                 /\ call[s].opname \in DOMAIN opnames /\ call[s].opname \in Nat
                 /\ call[s].seen \in Opname
           /\ call[s].step = "counting" =>
                 call[s].items \in Seq([product : Products, qty_counted : Nat])
           /\ call[s].step \in {"none", "initiating", "counting", "adjusting", "completing"}
           /\ call[s].step = "none" => call[s] = NoCall
<1>1. call[s] \in Calls
  BY DEF OpnameVarsOK
<1> DEFINE Body == Seq([product : Products, qty_counted : Nat])
<1>2. Calls = {NoCall}
        \cup [step : {"initiating"}, warehouse : Warehouses]
        \cup [step : {"counting"}, opname : Nat, seen : Opname, items : Body]
        \cup [step : {"adjusting", "completing"}, opname : Nat, seen : Opname]
  BY DEF Calls
<1> HIDE DEF Body
<1>3. CASE call[s] = NoCall
  BY <1>1, <1>3 DEF NoCall, WorksOn
<1>4. CASE call[s] \in [step : {"initiating"}, warehouse : Warehouses]
  BY <1>1, <1>4 DEF WorksOn
<1>5. CASE call[s] \in [step : {"counting"}, opname : Nat, seen : Opname, items : Body]
  BY <1>1, <1>5 DEF WorksOn, OpnameVarsOK, Body
<1>6. CASE call[s] \in [step : {"adjusting", "completing"}, opname : Nat, seen : Opname]
  BY <1>1, <1>6 DEF WorksOn, OpnameVarsOK
<1> QED BY <1>1, <1>2, <1>3, <1>4, <1>5, <1>6

\* A session that is no clerk's has no call, and a free clerk serves nothing.
LEMMA IdleSession ==
    ASSUME ClerkInv, NEW s \in Sessions
    PROVE  /\ s \notin Clerks => call[s] = NoCall
           /\ s \in Clerks /\ call[s].step # "adjusting" => pc[s] = "idle"
BY DEF ClerkInv, ReadOK

\* A step that changes the call of one clerk.
LEMMA ClerkStep ==
    ASSUME OneClerk, ClerkInv, NEW c \in Clerks,
           \A s \in Sessions : s # c => call'[s] = call[s], ReadOK(c)'
    PROVE  ClerkInv'
<1> SUFFICES ASSUME NEW s \in Sessions, s # c PROVE ReadOK(s)'
  BY DEF ClerkInv
<1>1. s \notin Clerks
  BY DEF OneClerk
<1>2. call'[s] = NoCall
  BY <1>1, IdleSession
<1> QED BY <1>1, <1>2 DEF ReadOK, WorksOn, NoCall

\* The call of the clerk ends.
LEMMA EndsStep ==
    ASSUME OneClerk, ClerkInv, OpnameVarsOK, NEW c \in Clerks, Ends(c), pc'[c] = "idle"
    PROVE  /\ ClerkInv'
           /\ call' \in [Sessions -> Calls]
           /\ \A s \in Sessions : call'[s] = NoCall
<1>1. c \in Sessions
  BY ClerksAssumption
<1>2. call \in [Sessions -> Calls]
  BY DEF OpnameVarsOK
<1>3. call'[c] = NoCall /\ \A s \in Sessions : s # c => call'[s] = call[s]
  BY <1>1, <1>2 DEF Ends
<1>4. ReadOK(c)'
  BY <1>3 DEF ReadOK, WorksOn, NoCall
<1>5. \A s \in Sessions : s # c => call[s] = NoCall
  BY IdleSession DEF OneClerk
<1>6. call' \in [Sessions -> Calls]
  BY <1>2 DEF Ends, Calls
<1> QED BY <1>3, <1>4, <1>5, <1>6, ClerkStep

-----------------------------------------------------------------------------
(* Steps that open no opname *)

\* Opnames stay what they are but for their counts and the end of their count.
Kept ==
    /\ DOMAIN opnames' = DOMAIN opnames
    /\ \A o \in DOMAIN opnames :
          /\ opnames'[o].warehouse = opnames[o].warehouse
          /\ opnames'[o].status # "COMPLETED" => opnames[o].status # "COMPLETED"
          /\ history[o].unlocked => history'[o].unlocked

\* They stay alone in their warehouses, if nobody begins another.
LEMMA AloneKept ==
    ASSUME AloneInv, Kept,
           \A c \in Clerks : call'[c].step = "initiating" =>
               \/ call[c].step = "initiating" /\ call'[c].warehouse = call[c].warehouse
               \/ \A o \in DOMAIN opnames :
                     Open(o) /\ opnames[o].warehouse = call'[c].warehouse =>
                         UnlockedByHand(opnames[o].warehouse)
    PROVE  AloneInv'
<1>1. \A w : UnlockedByHand(w) => UnlockedByHand(w)'
  BY DEF Kept, UnlockedByHand
<1>2. ASSUME NEW o \in DOMAIN opnames', NEW q \in DOMAIN opnames', Open(o)', Open(q)',
             opnames'[o].warehouse = opnames'[q].warehouse, o # q
      PROVE  UnlockedByHand(opnames[o].warehouse)'
  <2>1. o \in DOMAIN opnames /\ q \in DOMAIN opnames /\ Open(o) /\ Open(q)
        /\ opnames[o].warehouse = opnames[q].warehouse
    BY <1>2 DEF Kept, Open
  <2> QED BY <1>1, <1>2, <2>1 DEF AloneInv, Kept
<1>3. ASSUME NEW c \in Clerks, NEW o \in DOMAIN opnames', call'[c].step = "initiating",
             Open(o)', opnames'[o].warehouse = call'[c].warehouse
      PROVE  UnlockedByHand(opnames[o].warehouse)'
  <2>1. o \in DOMAIN opnames /\ Open(o) /\ opnames[o].warehouse = call'[c].warehouse
    BY <1>3 DEF Kept, Open
  <2>2. UnlockedByHand(opnames[o].warehouse)
    BY <1>3, <2>1 DEF AloneInv
  <2> QED BY <1>1, <2>1, <2>2 DEF Kept
<1> QED BY <1>2, <1>3 DEF AloneInv

\* Their warehouses stay locked, if none is unlocked.
LEMMA LockedKept ==
    ASSUME OpenOpnameLocked, Kept,
           \A o \in DOMAIN opnames :
               Open(o)' /\ is_locked[opnames[o].warehouse] =>
                   \/ is_locked'[opnames[o].warehouse]
                   \/ UnlockedByHand(opnames[o].warehouse)'
    PROVE  OpenOpnameLocked'
<1> SUFFICES ASSUME NEW o \in DOMAIN opnames', opnames'[o].status # "COMPLETED",
                    ~UnlockedByHand(opnames[o].warehouse)'
             PROVE  is_locked'[opnames'[o].warehouse]
  BY DEF OpenOpnameLocked
<1>1. o \in DOMAIN opnames /\ opnames'[o].warehouse = opnames[o].warehouse
      /\ opnames[o].status # "COMPLETED" /\ Open(o)'
  BY DEF Kept, Open
<1>2. ~UnlockedByHand(opnames[o].warehouse)
  <2>1. UnlockedByHand(opnames[o].warehouse) => UnlockedByHand(opnames[o].warehouse)'
    BY <1>1 DEF Kept, UnlockedByHand
  <2> QED BY <2>1
<1>3. is_locked[opnames[o].warehouse]
  BY <1>1, <1>2 DEF OpenOpnameLocked
<1> QED BY <1>1, <1>3

\* What an opname has posted stays right, while what it found and posted stays.
LEMMA PostedKept ==
    ASSUME NEW o \in DOMAIN opnames, PostedOK(o),
           Open(o)' => Open(o),
           history[o].failed => history'[o].failed,
           history'[o].posted = history[o].posted,
           \A c \in Clerks : Settled(c, o)' <=> Settled(c, o),
           \A c \in Clerks : Settled(c, o) =>
               \A p \in Products : Difference(opnames'[o], p) = Difference(opnames[o], p)
    PROVE  PostedOK(o)'
<1> SUFFICES ASSUME Open(o)', ~history'[o].failed
             PROVE  /\ (\A c \in Clerks : ~Settled(c, o)') =>
                          \A p \in Products : history'[o].posted[p] = 0
                    /\ (\E c \in Clerks : Settled(c, o)') => PostedAsCounted(o)'
  BY DEF PostedOK, Open
<1>1. /\ (\A c \in Clerks : ~Settled(c, o)) => \A p \in Products : history[o].posted[p] = 0
      /\ (\E c \in Clerks : Settled(c, o)) => PostedAsCounted(o)
  BY DEF PostedOK, Open
<1>2. CASE \A c \in Clerks : ~Settled(c, o)
  BY <1>1, <1>2
<1>3. CASE \E c \in Clerks : Settled(c, o)
  <2>1. \A p \in Products : history'[o].posted[p] = Difference(opnames'[o], p)
    BY <1>1, <1>3 DEF PostedAsCounted
  <2> QED BY <1>3, <2>1 DEF PostedAsCounted
<1> QED BY <1>2, <1>3

\* The stock is safe if InventoryService does nothing.
LEMMA StockRests ==
    ASSUME StockInv, DoneInv, UNCHANGED vars
    PROVE  StockInv' /\ DoneInv'
<1>1. TypeOK'
  BY DEF StockInv, TypeOK, StockTypeOK, vars
<1> QED BY <1>1, WarehouseStep, QuietDone DEF vars

-----------------------------------------------------------------------------
(* Steps that change a call only *)

\* What a call may be, when it is not ended.
CallOK(m) ==
    /\ m \in Calls
    /\ m.step \in {"counting", "adjusting", "completing"} =>
          /\ m.opname \in DOMAIN opnames
          /\ m.seen = opnames[m.opname] /\ m.seen.status # "COMPLETED"
    /\ m.step \in {"adjusting", "completing"} => NothingPending(m.seen)

\* A clerk's call goes on; it does not begin an opname.
LEMMA CallStep ==
    ASSUME OneClerk, OpnameInv, NEW c \in Clerks, NEW m, CallOK(m),
           call' = [call EXCEPT ![c] = m], UNCHANGED <<is_locked, opnames, history>>,
           StockInv', DoneInv',
           pc'[c] # "idle" => m.step = "adjusting" /\ req'[c] = AdjustmentOf(m.seen),
           m.step = "initiating" =>
               \A o \in DOMAIN opnames :
                   Open(o) /\ opnames[o].warehouse = m.warehouse =>
                       UnlockedByHand(opnames[o].warehouse),
           \A o \in DOMAIN opnames : PostedOK(o)'
    PROVE  OpnameInv'
<1>1. c \in Sessions /\ OpnameVarsOK /\ ClerkInv /\ PostedInv /\ AloneInv /\ OpenOpnameLocked
  BY ClerksAssumption, OpnameTypeParts DEF OpnameInv
<1>2. call'[c] = m /\ \A s \in Sessions : s # c => call'[s] = call[s]
  BY <1>1 DEF OpnameVarsOK
<1>3. OpnameVarsOK'
  <2>1. call' \in [Sessions -> Calls]
    BY <1>1 DEF OpnameVarsOK, CallOK
  <2>2. ASSUME NEW s \in Sessions,
               call'[s].step \in {"counting", "adjusting", "completing"}
        PROVE  call'[s].opname \in DOMAIN opnames
    BY <1>1, <1>2, <2>2 DEF OpnameVarsOK, CallOK
  <2> QED BY <1>1, <2>1, <2>2 DEF OpnameVarsOK
<1>4. ClerkInv'
  <2>1. ReadOK(c)'
    BY <1>2 DEF ReadOK, CallOK, WorksOn
  <2> QED BY <1>1, <1>2, <2>1, ClerkStep
<1>5. Kept
  BY DEF Kept
<1>6. AloneInv'
  <2>1. \A d \in Clerks : d = c
    BY DEF OneClerk
  <2> QED BY <1>1, <1>2, <1>5, <2>1, AloneKept
<1>7. OpenOpnameLocked'
  BY <1>1, <1>5, LockedKept
<1>8. PostedInv'
  BY DEF PostedInv
<1>9. OpnameTypeOK'
  <2>1. TypeOK'
    BY DEF StockInv
  <2> QED BY <1>3, <2>1 DEF OpnameTypeOK, OpnameVarsOK
<1> QED BY <1>4, <1>6, <1>7, <1>8, <1>9 DEF OpnameInv

\* A clerk that settles nothing has settled nothing.
LEMMA NothingSettled ==
    ASSUME OneClerk, OpnameInv, NEW c \in Clerks, \A o : ~Settled(c, o),
           UNCHANGED <<opnames, history>>, \A o : ~Settled(c, o)'
    PROVE  \A o \in DOMAIN opnames : PostedOK(o)'
<1>1. PostedInv /\ \A d \in Clerks : d = c
  BY DEF OpnameInv, OneClerk
<1> SUFFICES ASSUME NEW o \in DOMAIN opnames PROVE PostedOK(o)'
  OBVIOUS
<1>2. PostedOK(o) /\ \A d \in Clerks : ~Settled(d, o) /\ ~Settled(d, o)'
  BY <1>1 DEF PostedInv
<1>3. Open(o)' => Open(o)
  BY DEF Open
<1> QED BY <1>2, <1>3, PostedKept

\* A free clerk has settled nothing.
LEMMA FreeClerkSettles ==
    ASSUME NEW c, FreeClerk(c)
    PROVE  \A o : ~Settled(c, o)
BY DEF FreeClerk, Settled, NoCall

\* initiate has read that the warehouse is not locked.
LEMMA InitiateCheckStep ==
    ASSUME OneClerk, OpnameInv, NEW c \in Clerks, NEW w \in Warehouses, InitiateCheck(c, w)
    PROVE  OpnameInv'
<1> DEFINE m == [step |-> "initiating", warehouse |-> w]
<1>1. CallOK(m) /\ m.step = "initiating" /\ m.warehouse = w
  BY DEF CallOK, Calls
<1>2. call' = [call EXCEPT ![c] = m] /\ UNCHANGED <<is_locked, opnames, history>>
  BY DEF InitiateCheck, vars
<1>3. StockInv' /\ DoneInv'
  BY StockRests DEF OpnameInv, InitiateCheck
<1>4. pc'[c] = "idle" /\ FreeClerk(c)
  BY DEF InitiateCheck, FreeClerk, vars
<1>5. \A o \in DOMAIN opnames :
         Open(o) /\ opnames[o].warehouse = w => UnlockedByHand(opnames[o].warehouse)
  BY DEF InitiateCheck, OpnameInv, OpenOpnameLocked, Open
<1>6. \A o \in DOMAIN opnames : PostedOK(o)'
  <2>1. call'[c].step = "initiating"
    BY <1>2, ClerksAssumption, OpnameTypeParts DEF OpnameInv, OpnameVarsOK
  <2>2. \A o : ~Settled(c, o)'
    BY <2>1 DEF Settled
  <2> QED BY <1>2, <1>4, <2>2, FreeClerkSettles, NothingSettled
<1> HIDE DEF m
<1> QED BY <1>1, <1>2, <1>3, <1>4, <1>5, <1>6, CallStep

\* recordCount has read the opname.
LEMMA CountReadStep ==
    ASSUME OneClerk, OpnameInv, NEW c \in Clerks, NEW o \in DOMAIN opnames, NEW items \in Items,
           CountRead(c, o, items)
    PROVE  OpnameInv'
<1> DEFINE m == [step |-> "counting", opname |-> o, seen |-> opnames[o], items |-> items]
<1>1. CallOK(m) /\ m.step = "counting"
  <2>1. o \in Nat /\ opnames[o] \in Opname
    BY OpnameFacts, OpnameTypeParts DEF OpnameInv
  <2>2. items \in Seq([product : Products, qty_counted : Nat])
    BY ItemsAssumption
  <2>3. m \in Calls
    BY <2>1, <2>2 DEF Calls
  <2> QED BY <2>3 DEF CallOK, CountRead
<1>2. call' = [call EXCEPT ![c] = m] /\ UNCHANGED <<is_locked, opnames, history>>
  BY DEF CountRead, vars
<1>3. StockInv' /\ DoneInv'
  BY StockRests DEF OpnameInv, CountRead
<1>4. pc'[c] = "idle" /\ FreeClerk(c)
  BY DEF CountRead, FreeClerk, vars
<1>5. \A q \in DOMAIN opnames : PostedOK(q)'
  <2>1. call'[c].step = "counting"
    BY <1>2, ClerksAssumption, OpnameTypeParts DEF OpnameInv, OpnameVarsOK
  <2>2. \A q : ~Settled(c, q)'
    BY <2>1 DEF Settled
  <2> QED BY <1>2, <1>4, <2>2, FreeClerkSettles, NothingSettled
<1> HIDE DEF m
<1> QED BY <1>1, <1>2, <1>3, <1>4, <1>5, CallStep

\* finalize found an opname without discrepancies.
LEMMA FinalizeCheckStep ==
    ASSUME OneClerk, OpnameInv, NEW c \in Clerks, NEW o \in DOMAIN opnames, FinalizeCheck(c, o)
    PROVE  OpnameInv'
<1> DEFINE m == [step |-> "completing", opname |-> o, seen |-> opnames[o]]
<1>1. o \in Nat /\ opnames[o] \in Opname
  BY OpnameFacts, OpnameTypeParts DEF OpnameInv
<1>2. CallOK(m) /\ m.step = "completing"
  BY <1>1 DEF CallOK, FinalizeCheck, MayFinalize, Calls
<1>3. call' = [call EXCEPT ![c] = m] /\ UNCHANGED <<is_locked, opnames, history>>
  BY DEF FinalizeCheck, vars
<1>4. StockInv' /\ DoneInv'
  BY StockRests DEF OpnameInv, FinalizeCheck
<1>5. pc'[c] = "idle" /\ FreeClerk(c)
  BY DEF FinalizeCheck, FreeClerk, vars
<1>6. ASSUME NEW q \in DOMAIN opnames PROVE PostedOK(q)'
  <2>1. call'[c] = m
    BY <1>3, ClerksAssumption, OpnameTypeParts DEF OpnameInv, OpnameVarsOK
  <2>2. PostedOK(q) /\ \A d \in Clerks : ~Settled(d, q)
    BY <1>5, FreeClerkSettles DEF OpnameInv, PostedInv, OneClerk
  <2>3. CASE q = o
    <3> SUFFICES ASSUME Open(o), ~history[o].failed PROVE PostedOK(o)'
      BY <1>3, <2>3 DEF PostedOK, Open
    <3>1. \A p \in Products : history[o].posted[p] = 0
      BY <2>2, <2>3 DEF PostedOK, Open
    <3>2. \A p \in Products : Difference(opnames[o], p) = 0
      BY <1>1, NoDifference DEF FinalizeCheck
    <3>3. Settled(c, o)'
      BY <2>1 DEF Settled
    <3>4. PostedAsCounted(o)'
      BY <1>3, <3>1, <3>2 DEF PostedAsCounted
    <3> QED BY <3>3, <3>4 DEF PostedOK
  <2>4. CASE q # o
    <3>1. \A d \in Clerks : ~Settled(d, q)'
      BY <2>1, <2>4 DEF Settled, OneClerk
    <3>2. Open(q)' => Open(q)
      BY <1>3 DEF Open
    <3> QED BY <1>3, <2>2, <3>1, <3>2, PostedKept
  <2> QED BY <2>3, <2>4
<1> HIDE DEF m
<1> QED BY <1>2, <1>3, <1>4, <1>5, <1>6, CallStep

\* finalize found discrepancies and calls adjustStock.
LEMMA FinalizeAdjustStep ==
    ASSUME OneClerk, AdjustmentDated, OpnameInv, NEW c \in Clerks, NEW o \in DOMAIN opnames,
           FinalizeAdjust(c, o)
    PROVE  OpnameInv'
<1> DEFINE m == [step |-> "adjusting", opname |-> o, seen |-> opnames[o]]
<1>1. o \in Nat /\ opnames[o] \in Opname
  BY OpnameFacts, OpnameTypeParts DEF OpnameInv
<1>2. CallOK(m) /\ m.step = "adjusting" /\ m.seen = opnames[o]
  BY <1>1 DEF CallOK, FinalizeAdjust, MayFinalize, Calls
<1>3. call' = [call EXCEPT ![c] = m] /\ UNCHANGED <<is_locked, opnames, history>>
  BY DEF FinalizeAdjust, StartServing
<1>4. c \in Sessions /\ StartServing(c, AdjustmentOf(opnames[o])) /\ FreeClerk(c)
  BY ClerksAssumption DEF FinalizeAdjust
<1>5. StockInv' /\ DoneInv'
  BY <1>1, <1>4, AdjustmentType, StartStep, StartDone DEF OpnameInv
<1>6. pc'[c] = "begin" /\ req'[c] = AdjustmentOf(opnames[o])
  BY <1>4 DEF StartServing, OpnameInv, OpnameTypeOK, TypeOK
<1>7. \A q \in DOMAIN opnames : PostedOK(q)'
  <2>1. call'[c].step = "adjusting"
    BY <1>3, <1>4, OpnameTypeParts DEF OpnameInv, OpnameVarsOK
  <2>2. \A q : ~Settled(c, q)'
    BY <1>6, <2>1 DEF Settled
  <2> QED BY <1>3, <1>4, <2>2, FreeClerkSettles, NothingSettled
<1> HIDE DEF m
<1> QED BY <1>2, <1>3, <1>5, <1>6, <1>7, CallStep

\* A step that ends the call of a clerk who served no opname's adjustment.
LEMMA CallEndStep ==
    ASSUME OneClerk, OpnameInv, NEW c \in Clerks, Ends(c), pc'[c] = "idle",
           StockInv', DoneInv', opnames' \in Seq(Opname), history' \in Seq(History),
           Len(history') = Len(opnames'),
           PostedInv', AloneInv', OpenOpnameLocked'
    PROVE  OpnameInv'
<1>1. ClerkInv /\ OpnameVarsOK
  BY OpnameTypeParts DEF OpnameInv
<1>2. /\ ClerkInv' /\ call' \in [Sessions -> Calls]
      /\ \A s \in Sessions : call'[s] = NoCall
  BY <1>1, EndsStep
<1>3. OpnameTypeOK'
  <2>1. TypeOK'
    BY DEF StockInv
  <2>2. \A s \in Sessions : call'[s].step = "none"
    BY <1>2 DEF NoCall
  <2> QED BY <1>2, <2>1, <2>2 DEF OpnameTypeOK
<1> QED BY <1>2, <1>3 DEF OpnameInv

\* adjustStock returned or threw.
LEMMA AdjustedStep ==
    ASSUME OneClerk, OpnameInv, NEW c \in Clerks, Adjusted(c)
    PROVE  OpnameInv'
<1>1. c \in Sessions /\ OpnameVarsOK /\ ClerkInv /\ PostedInv
  BY ClerksAssumption, OpnameTypeParts DEF OpnameInv
<1>2. /\ call[c].step = "adjusting" /\ pc[c] = "idle"
      /\ UNCHANGED <<is_locked, pc, outcome, opnames, history>>
  BY DEF Adjusted, vars
<1>3. StockInv' /\ DoneInv'
  BY StockRests DEF OpnameInv, Adjusted
<1>4. call[c] \in [step : {"adjusting", "completing"}, opname : Nat, seen : Opname]
  BY <1>1, <1>2, CallFacts DEF Calls, NoCall
<1>5. /\ call[c].opname \in DOMAIN opnames /\ call[c].seen = opnames[call[c].opname]
      /\ call[c].seen.status # "COMPLETED" /\ NothingPending(call[c].seen)
  BY <1>1, <1>2, CallFacts DEF ClerkInv, ReadOK, WorksOn
<1>6. CASE outcome[c] = "ok"
  <2> DEFINE m == [step |-> "completing", opname |-> call[c].opname, seen |-> call[c].seen]
  <2>1. call' = [call EXCEPT ![c] = m]
    <3>1. call' = [call EXCEPT ![c] = [call[c] EXCEPT !.step = "completing"]]
      BY <1>6 DEF Adjusted
    <3>2. [call[c] EXCEPT !.step = "completing"] = m
      BY <1>4
    <3> QED BY <3>1, <3>2
  <2>2. CallOK(m) /\ m.step = "completing"
    BY <1>4, <1>5 DEF CallOK, Calls
  <2>3. call'[c] = m
    BY <1>1, <2>1 DEF OpnameVarsOK
  <2>4. ASSUME NEW o \in DOMAIN opnames PROVE PostedOK(o)'
    <3>1. Settled(c, o)' <=> Settled(c, o)
      BY <1>2, <1>6, <2>3 DEF Settled
    <3>2. \A d \in Clerks : Settled(d, o)' <=> Settled(d, o)
      BY <3>1 DEF OneClerk
    <3>3. Open(o)' => Open(o)
      BY <1>2 DEF Open
    <3> QED BY <1>1, <1>2, <3>2, <3>3, PostedKept DEF PostedInv
  <2> HIDE DEF m
  <2> QED BY <1>2, <1>3, <2>1, <2>2, <2>4, CallStep
<1>7. CASE outcome[c] # "ok"
  <2>1. Ends(c)
    BY <1>7 DEF Adjusted
  <2>2. call' = [call EXCEPT ![c] = NoCall] /\ call'[c] = NoCall
    BY <1>1, <2>1 DEF Ends, OpnameVarsOK
  <2>3. CallOK(NoCall) /\ NoCall.step = "none"
    BY DEF CallOK, Calls, NoCall
  <2>4. \A o : ~Settled(c, o) /\ ~Settled(c, o)'
    BY <1>2, <1>7, <2>2 DEF Settled, NoCall
  <2>5. \A o \in DOMAIN opnames : PostedOK(o)'
    BY <1>2, <2>4, NothingSettled
  <2> QED BY <1>2, <1>3, <2>2, <2>3, <2>5, CallStep
<1> QED BY <1>6, <1>7

-----------------------------------------------------------------------------
(* Steps that write an opname *)

\* A clerk that counts has settled nothing.
LEMMA CountingSettles ==
    ASSUME NEW c, call[c].step \in {"none", "initiating", "counting"}
    PROVE  \A o : ~Settled(c, o)
BY DEF Settled

\* An opname with another status, or other lines.
LEMMA StatusChanged ==
    ASSUME NEW a \in Opname, NEW st \in {"INITIATED", "IN_PROGRESS", "COMPLETED"}
    PROVE  /\ [a EXCEPT !.status = st] \in Opname
           /\ [a EXCEPT !.status = st].warehouse = a.warehouse
           /\ [a EXCEPT !.status = st].status = st
           /\ [a EXCEPT !.status = st].lines = a.lines
BY DEF Opname

\* As above.
LEMMA LinesChanged ==
    ASSUME NEW a \in Opname, NEW ls \in Seq(OpnameLine)
    PROVE  /\ [a EXCEPT !.lines = ls] \in Opname
           /\ [a EXCEPT !.lines = ls].warehouse = a.warehouse
           /\ [a EXCEPT !.lines = ls].status = a.status
           /\ [a EXCEPT !.lines = ls].lines = ls
BY DEF Opname

\* The counts are written.
LEMMA CountWriteEffect ==
    ASSUME OpnameVarsOK, ClerkInv, NEW c \in Sessions, CountWrite(c)
    PROVE  LET o == call[c].opname IN
           /\ o \in DOMAIN opnames /\ opnames[o].status # "COMPLETED"
           /\ opnames' \in Seq(Opname) /\ Len(opnames') = Len(opnames)
           /\ DOMAIN opnames' = DOMAIN opnames
           /\ opnames'[o].warehouse = opnames[o].warehouse
           /\ opnames'[o].status # "COMPLETED"
           /\ \A q \in DOMAIN opnames : q # o => opnames'[q] = opnames[q]
<1> DEFINE o == call[c].opname
           seen == call[c].seen
           lines == CountedLines(opnames[o].lines, seen.lines, call[c].items)
           status == IF seen.status = "INITIATED" THEN "IN_PROGRESS" ELSE opnames[o].status
           half == [opnames[o] EXCEPT !.status = status]
           new == [half EXCEPT !.lines = lines]
<1>1. call[c].step = "counting"
  BY DEF CountWrite
<1>2. /\ o \in DOMAIN opnames /\ o \in Nat /\ seen \in Opname
      /\ call[c].items \in Seq([product : Products, qty_counted : Nat])
      /\ seen = opnames[o] /\ seen.status # "COMPLETED"
  BY <1>1, CallFacts DEF ClerkInv, ReadOK, WorksOn
<1>3. lines \in Seq(OpnameLine)
  <2>1. opnames[o].lines \in Seq(OpnameLine) /\ seen.lines \in Seq(OpnameLine)
    BY <1>2, OpnameLineType
  <2> QED BY <1>2, <2>1, CountedLinesType
<1>4. opnames' = [opnames EXCEPT ![o] = new]
  BY <1>2 DEF CountWrite
<1>5. status \in {"INITIATED", "IN_PROGRESS", "COMPLETED"} /\ status # "COMPLETED"
  BY <1>2 DEF Opname
<1> HIDE DEF lines, status
<1>6. half \in Opname /\ half.warehouse = opnames[o].warehouse /\ half.status = status
  BY <1>2, <1>5, StatusChanged
<1> HIDE DEF half
<1>7. new \in Opname /\ new.status # "COMPLETED" /\ new.warehouse = opnames[o].warehouse
  BY <1>3, <1>5, <1>6, LinesChanged
<1> HIDE DEF new, o, seen
<1>8. opnames' \in Seq(Opname) /\ Len(opnames') = Len(opnames)
      /\ opnames'[o] = new /\ \A q \in DOMAIN opnames : q # o => opnames'[q] = opnames[q]
      /\ DOMAIN opnames' = DOMAIN opnames
  <2>1. opnames \in Seq(Opname)
    BY DEF OpnameVarsOK
  <2> QED BY <1>2, <1>4, <1>7, <2>1
<1> QED BY <1>2, <1>7, <1>8 DEF o, seen

\* Nobody has settled anything once the clerk's call is over.
LEMMA EndedSettles ==
    ASSUME \A s \in Sessions : call'[s] = NoCall
    PROVE  \A o : \A d \in Clerks : ~Settled(d, o)'
BY ClerksAssumption DEF Settled, NoCall

\* recordCount writes what was counted, over an opname that is still open.
LEMMA CountWriteStep ==
    ASSUME OneClerk, OpnameInv, NEW c \in Clerks, CountWrite(c)
    PROVE  OpnameInv'
<1>1. c \in Sessions /\ OpnameVarsOK /\ ClerkInv /\ PostedInv /\ AloneInv /\ OpenOpnameLocked
  BY ClerksAssumption, OpnameTypeParts DEF OpnameInv
<1>2. call[c].step = "counting" /\ Ends(c) /\ UNCHANGED <<vars, history>>
  BY DEF CountWrite
<1>3. pc'[c] = "idle" /\ UNCHANGED is_locked
  BY <1>1, <1>2, IdleSession DEF vars
<1>4. StockInv' /\ DoneInv'
  BY <1>2, StockRests DEF OpnameInv
<1>5. \A s \in Sessions : call'[s] = NoCall
  BY <1>1, <1>2, <1>3, EndsStep
<1> DEFINE o == call[c].opname
<1>6. /\ o \in DOMAIN opnames /\ opnames[o].status # "COMPLETED"
      /\ opnames' \in Seq(Opname) /\ Len(opnames') = Len(opnames)
      /\ DOMAIN opnames' = DOMAIN opnames
      /\ opnames'[o].warehouse = opnames[o].warehouse
      /\ \A q \in DOMAIN opnames : q # o => opnames'[q] = opnames[q]
  BY <1>1, CountWriteEffect
<1> HIDE DEF o
<1>7. Kept
  BY <1>2, <1>6 DEF Kept
<1>8. AloneInv'
  <2>1. \A d \in Clerks : call'[d].step = "none"
    BY <1>5, ClerksAssumption DEF NoCall
  <2> QED BY <1>1, <1>7, <2>1, AloneKept
<1>9. OpenOpnameLocked'
  BY <1>1, <1>3, <1>7, LockedKept
<1>10. PostedInv'
  <2> SUFFICES ASSUME NEW q \in DOMAIN opnames PROVE PostedOK(q)'
    BY <1>6 DEF PostedInv
  <2>1. \A d \in Clerks : ~Settled(d, q) /\ ~Settled(d, q)'
    BY <1>2, <1>5, CountingSettles, EndedSettles DEF OneClerk
  <2>2. Open(q)' => Open(q)
    BY <1>7 DEF Kept, Open
  <2> QED BY <1>1, <1>2, <2>1, <2>2, PostedKept DEF PostedInv
<1>11. history' \in Seq(History) /\ Len(history') = Len(opnames')
  BY <1>1, <1>2, <1>6 DEF OpnameVarsOK
<1> QED BY <1>2, <1>3, <1>4, <1>6, <1>8, <1>9, <1>10, <1>11, CallEndStep

\* A recount is asked for.
LEMMA RequestRecountEffect ==
    ASSUME OpnameVarsOK, NEW c, NEW o \in DOMAIN opnames, NEW p, RequestRecount(c, o, p)
    PROVE  /\ opnames' \in Seq(Opname) /\ Len(opnames') = Len(opnames)
           /\ DOMAIN opnames' = DOMAIN opnames
           /\ \A q \in DOMAIN opnames :
                 /\ opnames'[q].warehouse = opnames[q].warehouse
                 /\ opnames'[q].status = opnames[q].status
                 /\ opnames[q] \in Opname /\ opnames'[q] \in Opname
                 /\ \A r : Difference(opnames'[q], r) = Difference(opnames[q], r)
<1> DEFINE lines == opnames[o].lines
           marked == [i \in DOMAIN lines |->
              IF lines[i].product = p THEN [lines[i] EXCEPT !.status = "PENDING"]
              ELSE lines[i]]
           new == [opnames[o] EXCEPT !.lines = marked]
<1>1. /\ opnames[o] \in Opname /\ lines \in Seq(OpnameLine)
      /\ DOMAIN lines = 1..Len(lines) /\ Len(lines) \in Nat
      /\ \A i \in DOMAIN lines : lines[i] \in OpnameLine
  BY OpnameFacts, OpnameLineType
<1>2. ASSUME NEW l \in OpnameLine
      PROVE  /\ [l EXCEPT !.status = "PENDING"] \in OpnameLine
             /\ [l EXCEPT !.status = "PENDING"].product = l.product
             /\ [l EXCEPT !.status = "PENDING"].qty_difference = l.qty_difference
  BY DEF OpnameLine
<1>3. opnames' = [opnames EXCEPT ![o] = new]
  BY DEF RequestRecount
<1> HIDE DEF lines
<1>4. /\ DOMAIN marked = DOMAIN lines
      /\ \A i \in DOMAIN lines :
            /\ marked[i] \in OpnameLine
            /\ marked[i].product = lines[i].product
            /\ marked[i].qty_difference = lines[i].qty_difference
  BY <1>1, <1>2
<1>5. marked \in Seq(OpnameLine)
  <2>1. marked = [i \in 1..Len(lines) |-> marked[i]]
    BY <1>1
  <2> HIDE DEF marked
  <2> QED BY <1>1, <1>4, <2>1
<1> HIDE DEF marked
<1>6. /\ new \in Opname /\ new.lines = marked
      /\ new.warehouse = opnames[o].warehouse /\ new.status = opnames[o].status
  BY <1>1, <1>5, LinesChanged
<1> HIDE DEF new
<1>7. \A r : Difference(new, r) = Difference(opnames[o], r)
  BY <1>1, <1>4, <1>6, SameDifference DEF lines
<1>8. opnames' \in Seq(Opname) /\ Len(opnames') = Len(opnames)
      /\ opnames'[o] = new /\ \A q \in DOMAIN opnames : q # o => opnames'[q] = opnames[q]
      /\ DOMAIN opnames' = DOMAIN opnames
  <2>1. opnames \in Seq(Opname) /\ DOMAIN opnames = 1..Len(opnames) /\ Len(opnames) \in Nat
    BY OpnameFacts DEF OpnameVarsOK
  <2> QED BY <1>3, <1>6, <2>1
<1>9. \A q \in DOMAIN opnames : opnames[q] \in Opname
  BY OpnameFacts
<1> QED BY <1>6, <1>7, <1>8, <1>9

\* It takes nothing from what an opname found, nor from what it posted.
LEMMA RequestRecountStep ==
    ASSUME OneClerk, OpnameInv, NEW c \in Clerks, NEW o \in DOMAIN opnames, NEW p,
           RequestRecount(c, o, p)
    PROVE  OpnameInv'
<1>1. c \in Sessions /\ OpnameVarsOK /\ ClerkInv /\ PostedInv /\ AloneInv /\ OpenOpnameLocked
  BY ClerksAssumption, OpnameTypeParts DEF OpnameInv
<1>2. FreeClerk(c) /\ UNCHANGED <<vars, call, history>>
  BY DEF RequestRecount
<1>3. UNCHANGED <<is_locked, pc, req, call, history>> /\ call[c] = NoCall /\ pc[c] = "idle"
  BY <1>2 DEF vars, FreeClerk
<1>4. StockInv' /\ DoneInv'
  BY <1>2, StockRests DEF OpnameInv
<1>5. /\ opnames' \in Seq(Opname) /\ Len(opnames') = Len(opnames)
      /\ DOMAIN opnames' = DOMAIN opnames
      /\ \A q \in DOMAIN opnames :
            /\ opnames'[q].warehouse = opnames[q].warehouse
            /\ opnames'[q].status = opnames[q].status
  BY <1>1, RequestRecountEffect
<1>6. Kept
  BY <1>3, <1>5 DEF Kept
<1>7. AloneInv' /\ OpenOpnameLocked'
  BY <1>1, <1>3, <1>6, AloneKept, LockedKept
<1>8. ClerkInv'
  <2>1. ReadOK(c)'
    BY <1>3 DEF ReadOK, WorksOn, NoCall
  <2> QED BY <1>1, <1>3, <2>1, ClerkStep
<1>9. PostedInv'
  <2> SUFFICES ASSUME NEW q \in DOMAIN opnames PROVE PostedOK(q)'
    BY <1>5 DEF PostedInv
  <2>1. \A d \in Clerks : ~Settled(d, q) /\ ~Settled(d, q)'
    BY <1>3 DEF OneClerk, Settled, NoCall
  <2>2. Open(q)' => Open(q)
    BY <1>6 DEF Kept, Open
  <2> QED BY <1>1, <1>3, <2>1, <2>2, PostedKept DEF PostedInv
<1>10. OpnameTypeOK'
  <2>1. TypeOK'
    BY <1>4 DEF StockInv
  <2>2. OpnameVarsOK'
    BY <1>1, <1>3, <1>5 DEF OpnameVarsOK
  <2> QED BY <2>1, <2>2 DEF OpnameTypeOK, OpnameVarsOK
<1> QED BY <1>4, <1>7, <1>8, <1>9, <1>10 DEF OpnameInv

\* initiate locks its warehouse and begins an opname there; another that is open in
\* the warehouse has met an unlock by hand.
LEMMA InitiateWriteStep ==
    ASSUME OneClerk, OpnameInv, NEW c \in Clerks, InitiateWrite(c)
    PROVE  OpnameInv'
<1> DEFINE w == call[c].warehouse
           n == Len(opnames) + 1
<1>1. c \in Sessions /\ OpnameVarsOK /\ ClerkInv /\ PostedInv /\ AloneInv /\ OpenOpnameLocked
      /\ StockInv /\ DoneInv
  BY ClerksAssumption, OpnameTypeParts DEF OpnameInv
<1>2. /\ call[c].step = "initiating" /\ Ends(c)
      /\ is_locked' = [is_locked EXCEPT ![w] = TRUE]
      /\ opnames' = Append(opnames, NewOpname(w))
      /\ history' = Append(history, NoHistory)
      /\ UNCHANGED <<ledger, rowLock, own, pc, attempt, req, next, outcome>>
  BY DEF InitiateWrite
<1>3. w \in Warehouses /\ is_locked \in [Warehouses -> BOOLEAN]
  BY <1>1, <1>2, CallFacts DEF StockInv, TypeOK
<1>4. pc'[c] = "idle"
  BY <1>1, <1>2, IdleSession
<1>5. StockInv' /\ DoneInv'
  <2>1. TypeOK'
    BY <1>1, <1>2, <1>3 DEF StockInv, TypeOK, StockTypeOK
  <2> QED BY <1>1, <1>2, <2>1, WarehouseStep, QuietDone
<1>6. \A s \in Sessions : call'[s] = NoCall
  BY <1>1, <1>2, <1>4, EndsStep
<1>7. /\ NewOpname(w) \in Opname /\ NewOpname(w).warehouse = w
  BY <1>1, <1>3, NewOpnameType DEF StockInv, TypeOK
<1>8. NoHistory \in History /\ NoHistory.posted = [p \in Products |-> 0]
      /\ NoHistory.unlocked = FALSE
  BY DEF NoHistory, History
<1> HIDE DEF w
<1>9. /\ opnames' \in Seq(Opname) /\ Len(opnames') = n /\ DOMAIN opnames' = 1..n
      /\ DOMAIN opnames' = DOMAIN opnames \cup {n} /\ n \notin DOMAIN opnames
      /\ opnames'[n] = NewOpname(w) /\ \A o \in DOMAIN opnames : opnames'[o] = opnames[o]
      /\ history' \in Seq(History) /\ Len(history') = n
      /\ history'[n] = NoHistory /\ \A o \in DOMAIN opnames : history'[o] = history[o]
  <2>1. opnames \in Seq(Opname) /\ history \in Seq(History) /\ Len(history) = Len(opnames)
    BY <1>1 DEF OpnameVarsOK
  <2> HIDE DEF Opname, History
  <2>2. /\ opnames' \in Seq(Opname) /\ Len(opnames') = n /\ DOMAIN opnames' = 1..n
        /\ opnames'[n] = NewOpname(w)
        /\ \A o \in DOMAIN opnames : opnames'[o] = opnames[o]
    BY <1>2, <1>7, <2>1
  <2>3. /\ history' \in Seq(History) /\ Len(history') = n
        /\ history'[n] = NoHistory
        /\ \A o \in DOMAIN opnames : history'[o] = history[o]
    BY <1>2, <1>8, <2>1
  <2>4. DOMAIN opnames = 1..Len(opnames) /\ Len(opnames) \in Nat
    BY <2>1
  <2> QED BY <2>2, <2>3, <2>4
<1> HIDE DEF n
<1>10. \A v : UnlockedByHand(v) => UnlockedByHand(v)'
  BY <1>9 DEF UnlockedByHand
<1>11. \A q \in DOMAIN opnames : Open(q) /\ opnames[q].warehouse = w => UnlockedByHand(w)
  BY <1>1, <1>2 DEF AloneInv, w
<1>12. AloneInv'
  <2>1. ASSUME NEW o \in DOMAIN opnames', NEW q \in DOMAIN opnames', Open(o)', Open(q)',
               opnames'[o].warehouse = opnames'[q].warehouse, o # q
        PROVE  \E v : v = opnames'[o].warehouse /\ UnlockedByHand(v)'
    <3>1. CASE o = n
      <4>1. q \in DOMAIN opnames /\ Open(q) /\ opnames[q].warehouse = w
        BY <1>7, <1>9, <2>1, <3>1 DEF Open
      <4> QED BY <1>7, <1>9, <1>10, <1>11, <3>1, <4>1
    <3>2. CASE q = n
      <4>1. o \in DOMAIN opnames /\ Open(o) /\ opnames[o].warehouse = w
            /\ opnames'[o].warehouse = w
        BY <1>7, <1>9, <2>1, <3>2 DEF Open
      <4> QED BY <1>10, <1>11, <4>1
    <3>3. CASE o # n /\ q # n
      <4>1. o \in DOMAIN opnames /\ q \in DOMAIN opnames /\ Open(o) /\ Open(q)
            /\ opnames'[o].warehouse = opnames[o].warehouse
            /\ opnames[q].warehouse = opnames[o].warehouse
        BY <1>9, <2>1, <3>3 DEF Open
      <4>2. UnlockedByHand(opnames[o].warehouse)
        BY <1>1, <2>1, <4>1 DEF AloneInv
      <4> QED BY <1>10, <4>1, <4>2
    <3> QED BY <3>1, <3>2, <3>3
  <2>2. \A d \in Clerks : call'[d].step # "initiating"
    BY <1>6, ClerksAssumption DEF NoCall
  <2> QED BY <2>1, <2>2 DEF AloneInv, UnlockedByHand
<1>13. OpenOpnameLocked'
  <2> SUFFICES ASSUME NEW o \in DOMAIN opnames', opnames'[o].status # "COMPLETED",
                      NEW v, v = opnames'[o].warehouse, ~UnlockedByHand(v)'
               PROVE  is_locked'[v]
    BY DEF OpenOpnameLocked, UnlockedByHand
  <2>1. CASE o = n
    BY <1>2, <1>3, <1>7, <1>9, <2>1
  <2>2. CASE o # n
    <3>1. o \in DOMAIN opnames /\ opnames[o].status # "COMPLETED"
          /\ v = opnames[o].warehouse
      BY <1>9, <2>2
    <3>2. is_locked[v] /\ v \in Warehouses
      BY <1>1, <1>10, <3>1, OpnameFacts DEF OpenOpnameLocked
    <3> QED BY <1>2, <1>3, <3>2
  <2> QED BY <2>1, <2>2
<1>14. PostedInv'
  <2> SUFFICES ASSUME NEW o \in DOMAIN opnames' PROVE PostedOK(o)'
    BY DEF PostedInv
  <2>1. \A d \in Clerks : ~Settled(d, o) /\ ~Settled(d, o)'
    BY <1>2, <1>6, CountingSettles, EndedSettles DEF OneClerk
  <2>2. CASE o = n
    BY <1>8, <1>9, <2>1, <2>2 DEF PostedOK
  <2>3. CASE o # n
    <3>1. o \in DOMAIN opnames /\ PostedOK(o) /\ (Open(o)' => Open(o))
      BY <1>1, <1>9, <2>3 DEF PostedInv, Open
    <3> QED BY <1>9, <2>1, <3>1, PostedKept
  <2> QED BY <2>2, <2>3
<1> QED BY <1>2, <1>4, <1>5, <1>9, <1>12, <1>13, <1>14, CallEndStep

\* What a clerk that completes an opname has read.
LEMMA CompletingFacts ==
    ASSUME OneClerk, OpnameInv, NEW c \in Clerks, call[c].step = "completing"
    PROVE  LET o == call[c].opname IN
           /\ o \in DOMAIN opnames /\ opnames[o].status # "COMPLETED"
           /\ call[c].seen = opnames[o] /\ NothingPending(opnames[o])
           /\ history[o].failed \/ PostedAsCounted(o)
           /\ pc[c] = "idle"
           /\ \A d \in Clerks, q \in DOMAIN opnames : q # o => ~Settled(d, q)
<1> DEFINE o == call[c].opname
<1>1. c \in Sessions /\ OpnameVarsOK /\ ClerkInv /\ PostedInv
  BY ClerksAssumption, OpnameTypeParts DEF OpnameInv
<1>2. /\ o \in DOMAIN opnames /\ call[c].seen = opnames[o]
      /\ opnames[o].status # "COMPLETED" /\ NothingPending(opnames[o])
  BY <1>1, CallFacts DEF ClerkInv, ReadOK, WorksOn
<1>3. pc[c] = "idle"
  BY <1>1, IdleSession
<1>4. Settled(c, o)
  BY DEF Settled
<1>5. history[o].failed \/ PostedAsCounted(o)
  BY <1>1, <1>2, <1>4 DEF PostedInv, PostedOK
<1>6. \A d \in Clerks, q \in DOMAIN opnames : q # o => ~Settled(d, q)
  BY DEF OneClerk, Settled
<1> QED BY <1>2, <1>3, <1>5, <1>6

\* finalize completes an opname and unlocks its warehouse.
LEMMA CompleteStep ==
    ASSUME OneClerk, OpnameInv, NEW c \in Clerks, Complete(c)
    PROVE  OpnameInv'
<1> DEFINE o == call[c].opname
           w == call[c].seen.warehouse
           new == [opnames[o] EXCEPT !.status = "COMPLETED"]
<1>1. c \in Sessions /\ OpnameVarsOK /\ ClerkInv /\ PostedInv /\ AloneInv /\ OpenOpnameLocked
      /\ StockInv /\ DoneInv
  BY ClerksAssumption, OpnameTypeParts DEF OpnameInv
<1>2. /\ call[c].step = "completing" /\ Ends(c)
      /\ is_locked' = [is_locked EXCEPT ![w] = FALSE]
      /\ opnames' = [opnames EXCEPT ![o] = new]
      /\ UNCHANGED <<ledger, rowLock, own, pc, attempt, req, next, outcome, history>>
  BY DEF Complete
<1>3. /\ o \in DOMAIN opnames /\ opnames[o].status # "COMPLETED"
      /\ w = opnames[o].warehouse /\ pc[c] = "idle"
      /\ \A d \in Clerks, q \in DOMAIN opnames : q # o => ~Settled(d, q)
  BY <1>2, CompletingFacts
<1>4. opnames[o] \in Opname /\ w \in Warehouses /\ is_locked \in [Warehouses -> BOOLEAN]
  BY <1>1, <1>3, OpnameFacts DEF StockInv, TypeOK
<1>5. new \in Opname /\ new.warehouse = w /\ new.status = "COMPLETED"
  BY <1>3, <1>4, StatusChanged
<1> HIDE DEF new, w, o
<1>6. StockInv' /\ DoneInv'
  <2>1. TypeOK'
    BY <1>1, <1>2, <1>4 DEF StockInv, TypeOK, StockTypeOK
  <2> QED BY <1>1, <1>2, <2>1, WarehouseStep, QuietDone
<1>7. \A s \in Sessions : call'[s] = NoCall
  BY <1>1, <1>2, <1>3, EndsStep
<1>8. /\ opnames' \in Seq(Opname) /\ Len(opnames') = Len(opnames)
      /\ opnames'[o] = new /\ \A q \in DOMAIN opnames : q # o => opnames'[q] = opnames[q]
      /\ DOMAIN opnames' = DOMAIN opnames
  <2>1. opnames \in Seq(Opname) /\ DOMAIN opnames = 1..Len(opnames) /\ Len(opnames) \in Nat
    BY <1>1, OpnameFacts DEF OpnameVarsOK
  <2> QED BY <1>2, <1>3, <1>5, <2>1
<1>9. Kept
  BY <1>2, <1>3, <1>5, <1>8 DEF Kept
<1>10. AloneInv'
  <2>1. \A d \in Clerks : call'[d].step = "none"
    BY <1>7, ClerksAssumption DEF NoCall
  <2> QED BY <1>1, <1>9, <2>1, AloneKept
<1>11. OpenOpnameLocked'
  <2>1. ASSUME NEW q \in DOMAIN opnames, Open(q)', is_locked[opnames[q].warehouse]
        PROVE  is_locked'[opnames[q].warehouse] \/ UnlockedByHand(opnames[q].warehouse)'
    <3>1. q # o /\ Open(q)
      BY <1>5, <1>8, <2>1 DEF Open
    <3>2. CASE opnames[q].warehouse # w
      BY <1>1, <1>2, <1>4, <2>1, <3>2, OpnameFacts
    <3>3. CASE opnames[q].warehouse = w
      <4>1. UnlockedByHand(opnames[q].warehouse)
        BY <1>1, <1>3, <3>1, <3>3 DEF AloneInv, Open
      <4> QED BY <1>9, <4>1 DEF Kept, UnlockedByHand
    <3> QED BY <3>2, <3>3
  <2> QED BY <1>1, <1>9, <2>1, LockedKept
<1>12. PostedInv'
  <2> SUFFICES ASSUME NEW q \in DOMAIN opnames PROVE PostedOK(q)'
    BY <1>8 DEF PostedInv
  <2>1. CASE q = o
    BY <1>5, <1>8, <2>1 DEF PostedOK
  <2>2. CASE q # o
    <3>1. \A d \in Clerks : ~Settled(d, q) /\ ~Settled(d, q)'
      BY <1>3, <1>7, <2>2, EndedSettles
    <3>2. PostedOK(q) /\ (Open(q)' => Open(q))
      BY <1>1, <1>8, <2>2 DEF PostedInv, Open
    <3> QED BY <1>2, <3>1, <3>2, PostedKept
  <2> QED BY <2>1, <2>2
<1>13. history' \in Seq(History) /\ Len(history') = Len(opnames')
  BY <1>1, <1>2, <1>8 DEF OpnameVarsOK
<1> QED BY <1>2, <1>3, <1>6, <1>8, <1>10, <1>11, <1>12, <1>13, CallEndStep

\* The completion failed: what was posted is the opname's history.
LEMMA CompleteFailsStep ==
    ASSUME OneClerk, OpnameInv, NEW c \in Clerks, CompleteFails(c)
    PROVE  OpnameInv'
<1> DEFINE o == call[c].opname
           new == [history[o] EXCEPT !.failed = TRUE]
<1>1. c \in Sessions /\ OpnameVarsOK /\ ClerkInv /\ PostedInv /\ AloneInv /\ OpenOpnameLocked
      /\ StockInv /\ DoneInv
  BY ClerksAssumption, OpnameTypeParts DEF OpnameInv
<1>2. /\ call[c].step = "completing" /\ Ends(c)
      /\ history' = [history EXCEPT ![o] = new]
      /\ UNCHANGED <<vars, opnames>>
  BY DEF CompleteFails
<1>3. /\ o \in DOMAIN opnames /\ pc[c] = "idle"
      /\ \A d \in Clerks, q \in DOMAIN opnames : q # o => ~Settled(d, q)
  BY <1>2, CompletingFacts
<1>4. UNCHANGED <<is_locked, pc>>
  BY <1>2 DEF vars
<1>5. history[o] \in History /\ DOMAIN history = DOMAIN opnames
  BY <1>1, <1>3, OpnameFacts
<1>6. new \in History /\ new.failed = TRUE /\ new.unlocked = history[o].unlocked
  BY <1>5 DEF History
<1> HIDE DEF new, o
<1>7. StockInv' /\ DoneInv'
  BY <1>1, <1>2, StockRests
<1>8. \A s \in Sessions : call'[s] = NoCall
  BY <1>1, <1>2, <1>3, <1>4, EndsStep
<1>9. /\ history' \in Seq(History) /\ Len(history') = Len(opnames')
      /\ history'[o] = new /\ \A q \in DOMAIN opnames : q # o => history'[q] = history[q]
  <2>1. history \in Seq(History) /\ Len(history) = Len(opnames)
    BY <1>1 DEF OpnameVarsOK
  <2>2. DOMAIN history = 1..Len(history) /\ Len(history) \in Nat
    BY <2>1
  <2> QED BY <1>2, <1>3, <1>5, <1>6, <2>1, <2>2
<1>10. Kept
  BY <1>2, <1>6, <1>9 DEF Kept
<1>11. AloneInv' /\ OpenOpnameLocked'
  <2>1. \A d \in Clerks : call'[d].step = "none"
    BY <1>8, ClerksAssumption DEF NoCall
  <2> QED BY <1>1, <1>4, <1>10, <2>1, AloneKept, LockedKept
<1>12. PostedInv'
  <2> SUFFICES ASSUME NEW q \in DOMAIN opnames PROVE PostedOK(q)'
    BY <1>2 DEF PostedInv
  <2>1. CASE q = o
    BY <1>6, <1>9, <2>1 DEF PostedOK
  <2>2. CASE q # o
    <3>1. \A d \in Clerks : ~Settled(d, q) /\ ~Settled(d, q)'
      BY <1>3, <1>8, <2>2, EndedSettles
    <3>2. PostedOK(q) /\ (Open(q)' => Open(q))
      BY <1>1, <1>2 DEF PostedInv, Open
    <3> QED BY <1>9, <2>2, <3>1, <3>2, PostedKept
  <2> QED BY <2>1, <2>2
<1> QED BY <1>1, <1>2, <1>3, <1>4, <1>7, <1>9, <1>11, <1>12, CallEndStep DEF OpnameVarsOK

-----------------------------------------------------------------------------
(* Steps beside the clerk *)

\* The sessions of others and the locks set by hand leave opnames alone.
LEMMA BesideStep ==
    ASSUME OpnameInv, StockInv', DoneInv', UNCHANGED <<opnames, call>>,
           history' \in Seq(History), Len(history') = Len(history),
           \A o \in DOMAIN opnames :
               /\ history'[o].posted = history[o].posted
               /\ history'[o].failed = history[o].failed
               /\ history[o].unlocked => history'[o].unlocked,
           \A c \in Clerks : pc'[c] = pc[c] /\ req'[c] = req[c] /\ outcome'[c] = outcome[c],
           OpenOpnameLocked'
    PROVE  OpnameInv'
<1>1. OpnameVarsOK /\ ClerkInv /\ PostedInv /\ AloneInv
  BY OpnameTypeParts DEF OpnameInv
<1>2. OpnameTypeOK'
  <2>1. TypeOK'
    BY DEF StockInv
  <2> QED BY <1>1, <2>1 DEF OpnameTypeOK, OpnameVarsOK
<1>3. ClerkInv'
  BY <1>1 DEF ClerkInv, ReadOK, WorksOn
<1>4. Kept
  BY DEF Kept
<1>5. AloneInv'
  BY <1>1, <1>4, AloneKept
<1>6. PostedInv'
  <2> SUFFICES ASSUME NEW o \in DOMAIN opnames PROVE PostedOK(o)'
    BY DEF PostedInv
  <2>1. \A c \in Clerks : Settled(c, o)' <=> Settled(c, o)
    BY DEF Settled
  <2>2. PostedOK(o) /\ (Open(o)' => Open(o))
    BY <1>1 DEF PostedInv, Open
  <2> QED BY <2>1, <2>2, PostedKept
<1> QED BY <1>2, <1>3, <1>5, <1>6 DEF OpnameInv

\* A warehouse locked by hand.
LEMMA LockByHandStep ==
    ASSUME OpnameInv, NEW w \in Warehouses, LockByHand(w)
    PROVE  OpnameInv'
<1>1. StockInv /\ DoneInv /\ OpenOpnameLocked /\ OpnameVarsOK
  BY OpnameTypeParts DEF OpnameInv
<1>2. /\ is_locked' = [is_locked EXCEPT ![w] = TRUE]
      /\ UNCHANGED <<ledger, rowLock, own, pc, attempt, req, next, outcome>>
      /\ UNCHANGED <<opnames, call, history>>
  BY DEF LockByHand, LockWarehouse, SetLocked, opnameVars
<1>3. is_locked \in [Warehouses -> BOOLEAN]
  BY <1>1 DEF StockInv, TypeOK
<1>4. StockInv' /\ DoneInv'
  <2>1. TypeOK'
    BY <1>1, <1>2 DEF StockInv, TypeOK, StockTypeOK
  <2> QED BY <1>1, <1>2, <2>1, WarehouseStep, QuietDone
<1>5. OpenOpnameLocked'
  <2>1. \A o \in DOMAIN opnames : is_locked[opnames[o].warehouse] => is_locked'[opnames[o].warehouse]
    BY <1>1, <1>2, <1>3, OpnameFacts
  <2>2. Kept
    BY <1>2 DEF Kept
  <2> QED BY <1>1, <2>1, <2>2, LockedKept
<1> QED BY <1>1, <1>2, <1>4, <1>5, BesideStep DEF OpnameVarsOK

\* A warehouse unlocked by hand: its open opnames remember that.
LEMMA UnlockByHandStep ==
    ASSUME OpnameInv, NEW w \in Warehouses, UnlockByHand(w)
    PROVE  OpnameInv'
<1>1. StockInv /\ DoneInv /\ OpenOpnameLocked /\ OpnameVarsOK
  BY OpnameTypeParts DEF OpnameInv
<1> DEFINE met(o) == opnames[o].warehouse = w /\ opnames[o].status # "COMPLETED"
<1>2. /\ is_locked' = [is_locked EXCEPT ![w] = FALSE]
      /\ UNCHANGED <<ledger, rowLock, own, pc, attempt, req, next, outcome>>
      /\ UNCHANGED <<opnames, call>>
      /\ history' = [o \in DOMAIN history |->
                        IF met(o) THEN [history[o] EXCEPT !.unlocked = TRUE] ELSE history[o]]
  BY DEF UnlockByHand, UnlockWarehouse, SetLocked
<1>3. is_locked \in [Warehouses -> BOOLEAN]
  BY <1>1 DEF StockInv, TypeOK
<1>4. StockInv' /\ DoneInv'
  <2>1. TypeOK'
    BY <1>1, <1>2 DEF StockInv, TypeOK, StockTypeOK
  <2> QED BY <1>1, <1>2, <2>1, WarehouseStep, QuietDone
<1>5. /\ DOMAIN history = DOMAIN opnames /\ DOMAIN history = 1..Len(history)
      /\ Len(history) \in Nat
      /\ \A o \in DOMAIN history : history[o] \in History
  BY <1>1, OpnameFacts DEF OpnameVarsOK
<1>6. ASSUME NEW h \in History
      PROVE  /\ [h EXCEPT !.unlocked = TRUE] \in History
             /\ [h EXCEPT !.unlocked = TRUE].posted = h.posted
             /\ [h EXCEPT !.unlocked = TRUE].failed = h.failed
             /\ [h EXCEPT !.unlocked = TRUE].unlocked = TRUE
  BY DEF History
<1> HIDE DEF met
<1>7. \A o \in DOMAIN opnames :
         /\ history'[o] \in History
         /\ history'[o].posted = history[o].posted
         /\ history'[o].failed = history[o].failed
         /\ history[o].unlocked => history'[o].unlocked
         /\ met(o) => history'[o].unlocked
  BY <1>2, <1>5, <1>6
<1>8. history' \in Seq(History) /\ Len(history') = Len(history)
  <2>1. history' = [o \in 1..Len(history) |-> history'[o]]
    BY <1>2, <1>5
  <2> QED BY <1>5, <1>7, <2>1
<1>9. OpenOpnameLocked'
  <2>1. ASSUME NEW o \in DOMAIN opnames, Open(o)', is_locked[opnames[o].warehouse]
        PROVE  is_locked'[opnames[o].warehouse] \/ UnlockedByHand(opnames[o].warehouse)'
    <3>1. CASE opnames[o].warehouse = w
      <4>1. met(o)
        BY <1>2, <2>1, <3>1 DEF met, Open
      <4> QED BY <1>2, <1>7, <4>1 DEF UnlockedByHand
    <3>2. CASE opnames[o].warehouse # w
      BY <1>1, <1>2, <1>3, <2>1, <3>2, OpnameFacts
    <3> QED BY <3>1, <3>2
  <2>2. Kept
    BY <1>2, <1>7 DEF Kept
  <2> QED BY <1>1, <2>1, <2>2, LockedKept
<1> QED BY <1>1, <1>2, <1>4, <1>7, <1>8, <1>9, BesideStep DEF OpnameVarsOK

-----------------------------------------------------------------------------
(* Steps of InventoryService *)

\* A step of a session leaves the others alone, and ends its request by a commit
\* or with an error.
LEMMA ServingFacts ==
    ASSUME TypeOK, NEW s \in Sessions, Serve(s) \/ TxFails(s)
    PROVE  /\ pc[s] # "idle" /\ UNCHANGED is_locked
           /\ \A t \in Sessions : t # s =>
                 pc'[t] = pc[t] /\ req'[t] = req[t] /\ outcome'[t] = outcome[t]
           /\ \/ pc'[s] # "idle" /\ req'[s] = req[s] /\ ~Commit(s)
              \/ Commit(s)
              \/ pc'[s] = "idle" /\ outcome'[s] = "error"
<1>1. CASE Commit(s)
  BY <1>1 DEF Commit, Finish, TypeOK
<1>2. ASSUME Throw(s), pc[s] # "idle"
      PROVE  /\ UNCHANGED is_locked /\ pc'[s] = "idle" /\ outcome'[s] = "error"
             /\ \A t \in Sessions : t # s =>
                   pc'[t] = pc[t] /\ req'[t] = req[t] /\ outcome'[t] = outcome[t]
  BY <1>2 DEF Throw, Finish, TypeOK
<1>3. ASSUME UNCHANGED <<is_locked, req, outcome>>, pc[s] # "idle",
             pc' = pc \/ pc' = [pc EXCEPT ![s] = "begin"] \/ pc' = [pc EXCEPT ![s] = "lock"]
               \/ pc' = [pc EXCEPT ![s] = "lines"]
      PROVE  /\ pc'[s] # "idle" /\ req'[s] = req[s] /\ ~Commit(s)
             /\ \A t \in Sessions : t # s =>
                   pc'[t] = pc[t] /\ req'[t] = req[t] /\ outcome'[t] = outcome[t]
  <2>1. pc'[s] # "idle" /\ \A t \in Sessions : t # s => pc'[t] = pc[t]
    BY <1>3 DEF TypeOK
  <2>2. ~Commit(s)
    BY <2>1 DEF Commit, Finish, TypeOK
  <2> QED BY <1>3, <2>1, <2>2
<1>4. CASE ReadWarehouses(s) \/ LocksTaken(s)
  BY <1>3, <1>4 DEF ReadWarehouses, LocksTaken
<1>5. CASE LockProduct(s) \/ TransferLine(s) \/ AdjustLine(s) \/ RecordLine(s)
  BY <1>3, <1>5 DEF LockProduct, TransferLine, AdjustLine, RecordLine, AtLine, WriteLine
<1>6. CASE LockRefused(s)
  <2>1. CASE Throw(s)
    BY <1>2, <1>6, <2>1 DEF LockRefused
  <2>2. CASE pc' = [pc EXCEPT ![s] = "begin"] /\ UNCHANGED <<is_locked, req, outcome>>
    BY <1>3, <1>6, <2>2 DEF LockRefused
  <2> QED BY <1>6, <2>1, <2>2 DEF LockRefused
<1>7. CASE \/ RefuseLockedWarehouse(s) \/ TransferLineRefused(s)
           \/ AdjustLineRefused(s) \/ RecordLineRefused(s) \/ TxFails(s)
  BY <1>2, <1>7 DEF RefuseLockedWarehouse, TransferLineRefused, AdjustLineRefused,
     RecordLineRefused, TxFails, AtLine
<1> QED BY <1>1, <1>4, <1>5, <1>6, <1>7 DEF Serve

\* A commit writes the whole effect of its request.
LEMMA CommitPosts ==
    ASSUME StockInv, DoneInv, NEW s \in Sessions, Commit(s), NEW k \in Keys
    PROVE  /\ own[s][k].delta = WholeEffect(req[s], k) /\ own[s][k].delta \in Int
           /\ pc[s] = "lines" /\ pc'[s] = "idle" /\ outcome'[s] = "ok"
<1>1. req[s] \in RequestType /\ StockTypeOK /\ pc[s] = "lines"
  BY DEF StockInv, RequestInv, Servable, Commit, TypeOK
<1>2. next[s] - 1 = Len(req[s].lines)
  <2>1. req[s].lines \in Seq([product : Products, qty : Int])
    BY <1>1 DEF RequestType
  <2>2. Len(req[s].lines) \in Nat /\ next[s] \in Nat
    BY <2>1 DEF StockInv, TypeOK
  <2> QED BY <2>2 DEF Commit, DoneInv, Done
<1>3. own[s][k].delta = WholeEffect(req[s], k)
  BY <1>1, <1>2, WholeIsEffect DEF Commit, DoneInv, Done
<1>4. own[s][k].delta \in Int
  BY <1>1 DEF StockTypeOK, OwnRows
<1>5. pc'[s] = "idle" /\ outcome'[s] = "ok"
  BY DEF Commit, Finish, StockInv, TypeOK
<1> QED BY <1>1, <1>3, <1>4, <1>5

\* A session that is no clerk's.
LEMMA OtherSessionStep ==
    ASSUME DatesAgree, OpnameInv, NEW s \in Sessions, s \notin Clerks, InventoryStep(s)
    PROVE  OpnameInv'
<1>1. StockInv /\ DoneInv /\ TypeOK /\ OpenOpnameLocked /\ OpnameVarsOK /\ ClerkInv
  BY OpnameTypeParts DEF OpnameInv
<1>2. call[s] = NoCall
  BY <1>1, IdleSession
<1>3. (Arrive(s) \/ Serve(s) \/ TxFails(s)) /\ UNCHANGED <<opnames, call, history>>
  BY <1>2 DEF InventoryStep, NoCall
<1>4. Next
  BY <1>3 DEF Next
<1>5. StockInv' /\ DoneInv'
  BY <1>1, <1>4, StockStep, DoneStep
<1>6. /\ UNCHANGED is_locked
      /\ \A c \in Clerks : pc'[c] = pc[c] /\ req'[c] = req[c] /\ outcome'[c] = outcome[c]
  <2>1. CASE Arrive(s)
    BY <1>1, <2>1, ClerksAssumption
       DEF Arrive, Issue, StartServing, RefuseSameWarehouse, TypeOK
  <2>2. CASE Serve(s) \/ TxFails(s)
    BY <1>1, <2>2, ServingFacts, ClerksAssumption
  <2> QED BY <1>3, <2>1, <2>2
<1>7. OpenOpnameLocked'
  <2>1. Kept
    BY <1>3 DEF Kept
  <2> QED BY <1>1, <1>6, <2>1, LockedKept
<1> QED BY <1>1, <1>3, <1>5, <1>6, <1>7, BesideStep DEF OpnameVarsOK

\* The adjustment of an opname is committed: its history says so.
LEMMA PostStep ==
    ASSUME OneClerk, OpnameInv, NEW s \in Clerks, InventoryStep(s), Commit(s),
           call[s].step = "adjusting"
    PROVE  /\ history' \in Seq(History) /\ Len(history') = Len(history)
           /\ \A o \in DOMAIN opnames :
                 /\ history'[o].failed = history[o].failed
                 /\ history'[o].unlocked = history[o].unlocked
           /\ PostedInv'
<1> DEFINE o == call[s].opname
           w == call[s].seen.warehouse
           posted == [p \in Products |-> history[o].posted[p] + own[s][<<p, w>>].delta]
           new == [history[o] EXCEPT !.posted = posted]
<1>1. s \in Sessions /\ OpnameVarsOK /\ ClerkInv /\ PostedInv /\ StockInv /\ DoneInv
  BY ClerksAssumption, OpnameTypeParts DEF OpnameInv
<1>2. history' = [history EXCEPT ![o] = new] /\ UNCHANGED <<opnames, call>>
  BY DEF InventoryStep
<1>3. /\ o \in DOMAIN opnames /\ call[s].seen = opnames[o] /\ opnames[o] \in Opname
      /\ opnames[o].status # "COMPLETED" /\ w = opnames[o].warehouse /\ w \in Warehouses
  BY <1>1, CallFacts, OpnameFacts DEF ClerkInv, ReadOK, WorksOn
<1>4. pc[s] = "lines" /\ req[s] = AdjustmentOf(opnames[o])
  BY <1>1, <1>3 DEF ClerkInv, ReadOK, Commit
<1>5. pc'[s] = "idle" /\ outcome'[s] = "ok"
  BY <1>1 DEF Commit, Finish, StockInv, TypeOK
<1>6. ASSUME NEW p \in Products
      PROVE  /\ own[s][<<p, w>>].delta = Difference(opnames[o], p)
             /\ own[s][<<p, w>>].delta \in Int
  <2>1. <<p, w>> \in Keys
    BY <1>3 DEF Keys
  <2>2. /\ own[s][<<p, w>>].delta = WholeEffect(req[s], <<p, w>>)
        /\ own[s][<<p, w>>].delta \in Int
    <3> DEFINE k == <<p, w>>
    <3>1. k \in Keys
      BY <2>1
    <3> HIDE DEF k
    <3>2. own[s][k].delta = WholeEffect(req[s], k) /\ own[s][k].delta \in Int
      BY <1>1, <3>1, CommitPosts
    <3> QED BY <3>2 DEF k
  <2>3. WholeEffect(req[s], <<p, w>>) = Difference(opnames[o], p)
    BY <1>3, <1>4, AdjustmentEffect
  <2> QED BY <2>2, <2>3
<1>7. history[o] \in History /\ DOMAIN history = DOMAIN opnames
  BY <1>1, <1>3, OpnameFacts
<1>8. history[o].posted \in [Products -> Int]
  BY <1>7 DEF History
<1>9. /\ posted \in [Products -> Int]
      /\ \A p \in Products : posted[p] = history[o].posted[p] + own[s][<<p, w>>].delta
  BY <1>6, <1>8
<1> HIDE DEF posted
<1>10. /\ new \in History /\ new.posted = posted
       /\ new.failed = history[o].failed /\ new.unlocked = history[o].unlocked
  BY <1>7, <1>9 DEF History
<1> HIDE DEF new, o, w
<1>11. /\ history' \in Seq(History) /\ Len(history') = Len(history)
       /\ history'[o] = new /\ \A q \in DOMAIN opnames : q # o => history'[q] = history[q]
  <2>1. history \in Seq(History)
    BY <1>1 DEF OpnameVarsOK
  <2>2. DOMAIN history = 1..Len(history) /\ Len(history) \in Nat
    BY <2>1
  <2> QED BY <1>2, <1>3, <1>7, <1>10, <2>1, <2>2
<1>12. \A q : ~Settled(s, q)
  BY <1>4 DEF Settled
<1>13. PostedInv'
  <2> SUFFICES ASSUME NEW q \in DOMAIN opnames PROVE PostedOK(q)'
    BY <1>2 DEF PostedInv
  <2>1. PostedOK(q) /\ (Open(q)' => Open(q)) /\ \A d \in Clerks : ~Settled(d, q)
    BY <1>1, <1>2, <1>12 DEF PostedInv, Open, OneClerk
  <2>2. CASE q = o
    <3> SUFFICES ASSUME ~history'[q].failed PROVE PostedOK(q)'
      BY DEF PostedOK
    <3>1. \A p \in Products : history[q].posted[p] = 0
      BY <1>3, <1>10, <1>11, <2>1, <2>2 DEF PostedOK
    <3>2. \A p \in Products : posted[p] = Difference(opnames[q], p)
      <4> TAKE p \in Products
      <4>1. history[o].posted[p] = 0 /\ q = o
        BY <2>2, <3>1
      <4> DEFINE d == own[s][<<p, w>>].delta
      <4>2. d = Difference(opnames[o], p) /\ d \in Int
        BY <1>6
      <4>3. posted[p] = history[o].posted[p] + d
        BY <1>9
      <4> HIDE DEF d
      <4> QED BY <4>1, <4>2, <4>3
    <3>3. PostedAsCounted(q)'
      BY <1>2, <1>10, <1>11, <2>2, <3>2 DEF PostedAsCounted
    <3>4. Settled(s, q)'
      BY <1>2, <1>5, <2>2 DEF Settled, o
    <3> QED BY <3>3, <3>4 DEF PostedOK
  <2>3. CASE q # o
    <3>1. ~Settled(s, q)'
      BY <1>2, <2>3 DEF Settled, o
    <3>2. \A d \in Clerks : ~Settled(d, q)'
      BY <3>1 DEF OneClerk
    <3> QED BY <1>11, <2>1, <2>3, <3>2, PostedKept
  <2> QED BY <2>2, <2>3
<1> QED BY <1>10, <1>11, <1>13

\* The session of the clerk serves the adjustment of an opname.
LEMMA ClerkSessionStep ==
    ASSUME OneClerk, OpnameInv, NEW s \in Clerks, InventoryStep(s)
    PROVE  OpnameInv'
<1>1. s \in Sessions /\ StockInv /\ DoneInv /\ TypeOK /\ OpenOpnameLocked /\ OpnameVarsOK
      /\ ClerkInv /\ PostedInv /\ AloneInv
  BY ClerksAssumption, OpnameTypeParts DEF OpnameInv
<1>2. (Serve(s) \/ TxFails(s)) /\ UNCHANGED <<opnames, call>>
  BY DEF InventoryStep
<1>3. StockInv' /\ DoneInv'
  BY <1>1, <1>2, ServeStep, ServeDone
<1>4. /\ pc[s] # "idle" /\ UNCHANGED is_locked
      /\ \A t \in Sessions : t # s =>
            pc'[t] = pc[t] /\ req'[t] = req[t] /\ outcome'[t] = outcome[t]
      /\ \/ pc'[s] # "idle" /\ req'[s] = req[s] /\ ~Commit(s)
         \/ Commit(s)
         \/ pc'[s] = "idle" /\ outcome'[s] = "error"
  BY <1>1, <1>2, ServingFacts
<1>5. call[s].step = "adjusting"
  BY <1>1, <1>4, IdleSession
<1>6. /\ history' \in Seq(History) /\ Len(history') = Len(history)
      /\ \A o \in DOMAIN opnames :
            /\ history'[o].failed = history[o].failed
            /\ history'[o].unlocked = history[o].unlocked
      /\ PostedInv'
  <2>1. CASE Commit(s)
    BY <1>5, <2>1, PostStep
  <2>2. CASE ~Commit(s)
    <3>1. UNCHANGED history
      BY <2>2 DEF InventoryStep
    <3>2. ASSUME NEW o \in DOMAIN opnames PROVE PostedOK(o)'
      <4>1. ~Settled(s, o) /\ ~Settled(s, o)'
        BY <1>2, <1>4, <1>5, <2>2 DEF Settled
      <4>2. \A d \in Clerks : ~Settled(d, o) /\ ~Settled(d, o)'
        BY <4>1 DEF OneClerk
      <4>3. PostedOK(o) /\ (Open(o)' => Open(o))
        BY <1>1, <1>2 DEF PostedInv, Open
      <4> QED BY <3>1, <4>2, <4>3, PostedKept
    <3> QED BY <1>1, <1>2, <3>1, <3>2 DEF PostedInv, OpnameVarsOK
  <2> QED BY <2>1, <2>2
<1>7. ClerkInv'
  <2>1. pc'[s] # "idle" => req'[s] = req[s]
    BY <1>1, <1>4 DEF Commit, Finish, TypeOK
  <2>2. ReadOK(s)'
    BY <1>1, <1>2, <1>4, <1>5, <2>1 DEF ClerkInv, ReadOK, WorksOn
  <2> QED BY <1>1, <1>2, <2>2, ClerkStep
<1>8. Kept
  BY <1>2, <1>6 DEF Kept
<1>9. AloneInv' /\ OpenOpnameLocked'
  BY <1>1, <1>2, <1>4, <1>8, AloneKept, LockedKept
<1>10. OpnameTypeOK'
  <2>1. TypeOK'
    BY <1>3 DEF StockInv
  <2> QED BY <1>1, <1>2, <1>6, <2>1 DEF OpnameTypeOK, OpnameVarsOK
<1> QED BY <1>3, <1>6, <1>7, <1>9, <1>10 DEF OpnameInv

-----------------------------------------------------------------------------
(* The theorems *)

\* The steps of a clerk keep the invariant.
LEMMA ClerkNext ==
    ASSUME OneClerk, AdjustmentDated, OpnameInv, NEW c \in Clerks, OpnameStep(c)
    PROVE  OpnameInv'
<1>1. ASSUME NEW w \in Warehouses, InitiateCheck(c, w) PROVE OpnameInv'
  BY <1>1, InitiateCheckStep
<1>2. ASSUME NEW o \in DOMAIN opnames, NEW items \in Items, CountRead(c, o, items)
      PROVE  OpnameInv'
  BY <1>2, CountReadStep
<1>3. ASSUME NEW o \in DOMAIN opnames, NEW p \in Products, RequestRecount(c, o, p)
      PROVE  OpnameInv'
  BY <1>3, RequestRecountStep
<1>4. ASSUME NEW o \in DOMAIN opnames, FinalizeCheck(c, o) \/ FinalizeAdjust(c, o)
      PROVE  OpnameInv'
  BY <1>4, FinalizeCheckStep, FinalizeAdjustStep
<1> QED
  BY <1>1, <1>2, <1>3, <1>4, InitiateWriteStep, CountWriteStep, AdjustedStep, CompleteStep,
     CompleteFailsStep DEF OpnameStep, Initiating, Counting, Recounting, Finalizing

\* Every step keeps the invariant.
LEMMA OpnameInvStep ==
    ASSUME OneClerk, AdjustmentDated, DatesAgree, OpnameInv, [OpnameNext]_allVars
    PROVE  OpnameInv'
<1>1. CASE UNCHANGED allVars
  <2>1. UNCHANGED vars /\ UNCHANGED <<opnames, call, history>>
        /\ UNCHANGED <<is_locked, pc, req, outcome>>
    BY <1>1 DEF allVars, opnameVars, vars
  <2>2. StockInv' /\ DoneInv'
    BY <2>1, StockRests DEF OpnameInv
  <2>3. OpenOpnameLocked'
    BY <2>1 DEF OpnameInv, OpenOpnameLocked, UnlockedByHand
  <2>4. OpnameVarsOK
    BY OpnameTypeParts DEF OpnameInv
  <2> QED BY <2>1, <2>2, <2>3, <2>4, BesideStep DEF OpnameVarsOK
<1>2. ASSUME NEW s \in Sessions, InventoryStep(s) PROVE OpnameInv'
  BY <1>2, OtherSessionStep, ClerkSessionStep
<1> QED BY <1>1, <1>2, ClerkNext, LockByHandStep, UnlockByHandStep DEF OpnameNext

\* Nothing is open, posted or served at first.
LEMMA OpnameInvInit == OpnameInit => OpnameInv
<1> SUFFICES ASSUME OpnameInit PROVE OpnameInv
  OBVIOUS
<1>1. StockInv /\ TypeOK
  BY StockInit DEF OpnameInit, StockInv
<1>2. DoneInv
  BY DEF OpnameInit, Init, DoneInv, Done
<1>3. opnames = << >> /\ history = << >> /\ DOMAIN opnames = {} /\ Len(history) = Len(opnames)
      /\ \A s \in Sessions : call[s] = NoCall /\ pc[s] = "idle"
  BY DEF OpnameInit, Init
<1>4. OpnameTypeOK
  <2>1. call \in [Sessions -> Calls]
    BY DEF OpnameInit, Calls
  <2>2. \A s \in Sessions : call[s].step = "none"
    BY <1>3 DEF NoCall
  <2> QED BY <1>1, <1>3, <2>1, <2>2 DEF OpnameTypeOK
<1>5. ClerkInv
  BY <1>3 DEF ClerkInv, ReadOK, WorksOn, NoCall
<1>6. PostedInv /\ AloneInv /\ OpenOpnameLocked
  BY <1>3 DEF PostedInv, AloneInv, OpenOpnameLocked
<1> QED BY <1>1, <1>2, <1>4, <1>5, <1>6 DEF OpnameInv

\* What a step does to one opname: nothing that counts, a count while it is open, or
\* its completion.
LEMMA OpnameChange ==
    ASSUME OneClerk, OpnameInv, OpnameNext, NEW o \in DOMAIN opnames
    PROVE  \/ /\ opnames'[o].status = opnames[o].status
              /\ history'[o].posted = history[o].posted
              /\ \A p \in Products : Difference(opnames'[o], p) = Difference(opnames[o], p)
           \/ opnames[o].status # "COMPLETED" /\ opnames'[o].status # "COMPLETED"
           \/ \E c \in Clerks : Complete(c) /\ call[c].opname = o
<1> DEFINE Same == /\ opnames'[o].status = opnames[o].status
                   /\ history'[o].posted = history[o].posted
                   /\ \A p \in Products : Difference(opnames'[o], p) = Difference(opnames[o], p)
           Opened == opnames[o].status # "COMPLETED" /\ opnames'[o].status # "COMPLETED"
           Completed == \E c \in Clerks : Complete(c) /\ call[c].opname = o
           Goal == Same \/ Opened \/ Completed
<1> SUFFICES Goal
  OBVIOUS
<1>1. OpnameVarsOK /\ ClerkInv /\ \A s \in Clerks : s \in Sessions
  BY OpnameTypeParts, ClerksAssumption DEF OpnameInv
<1>2. /\ o \in 1..Len(opnames) /\ o \in 1..Len(history) /\ DOMAIN history = DOMAIN opnames
      /\ history[o] \in History
  BY <1>1, OpnameFacts DEF OpnameVarsOK
<1>3. ASSUME opnames'[o] = opnames[o], history'[o].posted = history[o].posted PROVE Goal
  BY <1>3
<1>4. ASSUME NEW c \in Clerks, InitiateWrite(c) PROVE Goal
  <2>1. opnames' = Append(opnames, NewOpname(call[c].warehouse))
        /\ history' = Append(history, NoHistory)
    BY <1>4 DEF InitiateWrite
  <2>2. opnames'[o] = opnames[o] /\ history'[o] = history[o]
    BY <1>1, <1>2, <2>1 DEF OpnameVarsOK
  <2> QED BY <1>3, <2>2
<1>5. ASSUME NEW c \in Clerks, CountWrite(c) PROVE Goal
  <2>1. UNCHANGED history
    BY <1>5 DEF CountWrite
  <2>2. opnames'[o] = opnames[o] \/ Opened
    BY <1>1, <1>5, CountWriteEffect
  <2> QED BY <1>3, <2>1, <2>2
<1>6. ASSUME NEW c \in Clerks, NEW q \in DOMAIN opnames, NEW p, RequestRecount(c, q, p)
      PROVE  Goal
  <2>1. UNCHANGED history
    BY <1>6 DEF RequestRecount
  <2>2. opnames'[o].status = opnames[o].status
        /\ \A r : Difference(opnames'[o], r) = Difference(opnames[o], r)
    BY <1>1, <1>6, RequestRecountEffect
  <2> QED BY <2>1, <2>2
<1>7. ASSUME NEW c \in Clerks, Complete(c) PROVE Goal
  <2>1. CASE call[c].opname = o
    BY <1>7, <2>1
  <2>2. CASE call[c].opname # o
    <3>1. opnames'[o] = opnames[o] /\ UNCHANGED history
      BY <1>7, <2>2 DEF Complete
    <3> QED BY <1>3, <3>1
  <2> QED BY <2>1, <2>2
<1>8. ASSUME NEW c \in Clerks, CompleteFails(c) PROVE Goal
  <2> DEFINE q == call[c].opname
  <2>1. history' = [history EXCEPT ![q] = [history[q] EXCEPT !.failed = TRUE]]
        /\ UNCHANGED opnames
    BY <1>8 DEF CompleteFails
  <2>2. history'[o].posted = history[o].posted
    BY <1>2, <2>1 DEF History
  <2> QED BY <1>3, <2>1, <2>2
<1>9. ASSUME NEW c \in Clerks,
             \/ Initiating(c) \/ Counting(c) \/ Finalizing(c) \/ Adjusted(c)
      PROVE  Goal
  <2>1. UNCHANGED <<opnames, history>>
    BY <1>9 DEF Initiating, InitiateCheck, Counting, CountRead, Finalizing, FinalizeCheck,
       FinalizeAdjust, Adjusted
  <2> QED BY <1>3, <2>1
<1>10. ASSUME NEW s \in Sessions, InventoryStep(s) PROVE Goal
  <2>1. UNCHANGED opnames
    BY <1>10 DEF InventoryStep
  <2>2. CASE Commit(s) /\ call[s].step = "adjusting"
    <3>1. WorksOn(s) /\ call[s].seen = opnames[call[s].opname] /\ call[s].seen.status # "COMPLETED"
      BY <1>1, <2>2 DEF ClerkInv, ReadOK, WorksOn
    <3>2. CASE call[s].opname = o
      BY <2>1, <3>1, <3>2
    <3>3. CASE call[s].opname # o
      <4>1. history'[o] = history[o]
        BY <1>2, <1>10, <2>2, <3>3 DEF InventoryStep
      <4> QED BY <1>3, <2>1, <4>1
    <3> QED BY <3>2, <3>3
  <2>3. CASE ~(Commit(s) /\ call[s].step = "adjusting")
    <3>1. UNCHANGED history
      BY <1>10, <2>3 DEF InventoryStep
    <3> QED BY <1>3, <2>1, <3>1
  <2> QED BY <2>2, <2>3
<1>11. ASSUME NEW w \in Warehouses, LockByHand(w) PROVE Goal
  BY <1>3, <1>11 DEF LockByHand, opnameVars
<1>12. ASSUME NEW w \in Warehouses, UnlockByHand(w) PROVE Goal
  <2>1. UNCHANGED opnames
    BY <1>12 DEF UnlockByHand
  <2>2. history'[o] = history[o] \/ history'[o] = [history[o] EXCEPT !.unlocked = TRUE]
    BY <1>2, <1>12 DEF UnlockByHand
  <2>3. history'[o].posted = history[o].posted
    BY <1>2, <2>2 DEF History
  <2> QED BY <1>3, <2>1, <2>3
<1> HIDE DEF Goal
<1> QED
  BY <1>4, <1>5, <1>6, <1>7, <1>8, <1>9, <1>10, <1>11, <1>12
     DEF OpnameNext, OpnameStep, Recounting

\* While an opname is open its warehouse stays locked, unless somebody unlocked it by
\* hand, and the stock is never overdrawn, whatever transfers, adjustments and failures
\* come between; with one clerk, and unless recordMovement is used with other dates.
THEOREM OpnameKeepsWarehouse ==
    ASSUME OneClerk, AdjustmentDated, DatesAgree
    PROVE  OpnameSpec => []OpnameHolds
<1>1. OpnameInv /\ [OpnameNext]_allVars => OpnameInv'
  BY OpnameInvStep
<1>2. OpnameInv => OpnameHolds
  BY DEF OpnameInv, OpnameHolds, StockInv
<1> QED BY <1>1, <1>2, OpnameInvInit, PTL DEF OpnameSpec

\* finalize completes an opname only with every line counted and with exactly the
\* counted differences posted, however often its adjustment was refused or failed; a
\* completion that failed before is excepted.
THEOREM OpnameIsSettled ==
    ASSUME OneClerk, AdjustmentDated, DatesAgree
    PROVE  OpnameSpec => CompletionIsSettled
<1> DEFINE Settles ==
       \A o \in DOMAIN opnames :
          opnames[o].status # "COMPLETED" /\ opnames'[o].status = "COMPLETED" =>
            /\ \A l \in ToSet(opnames[o].lines) : l.status = "COUNTED"
            /\ history[o].failed \/ PostedAsCounted(o)
<1>1. OpnameInv /\ [OpnameNext]_allVars => OpnameInv'
  BY OpnameInvStep
<1>2. OpnameInv /\ OpnameNext => Settles
  <2> SUFFICES ASSUME OpnameInv, OpnameNext, NEW o \in DOMAIN opnames,
                      opnames[o].status # "COMPLETED", opnames'[o].status = "COMPLETED"
               PROVE  /\ \A l \in ToSet(opnames[o].lines) : l.status = "COUNTED"
                      /\ history[o].failed \/ PostedAsCounted(o)
    OBVIOUS
  <2>1. PICK c \in Clerks : Complete(c) /\ call[c].opname = o
    BY OpnameChange
  <2>2. NothingPending(opnames[o]) /\ (history[o].failed \/ PostedAsCounted(o))
    BY <2>1, CompletingFacts DEF Complete
  <2>3. ASSUME NEW l \in ToSet(opnames[o].lines) PROVE l.status = "COUNTED"
    <3>1. opnames[o] \in Opname
      BY OpnameFacts, OpnameTypeParts DEF OpnameInv
    <3>2. l \in OpnameLine
      BY <2>3, <3>1, OpnameLineType DEF ToSet
    <3> QED BY <2>2, <2>3, <3>2 DEF NothingPending, OpnameLine
  <2> QED BY <2>2, <2>3
<1>3. OpnameInv /\ [OpnameNext]_allVars => [Settles]_allVars
  BY <1>2
<1> QED BY <1>1, <1>3, OpnameInvInit, PTL DEF OpnameSpec, CompletionIsSettled

\* What a completed opname found and posted stays as it is.
THEOREM OpnameIsFinal ==
    ASSUME OneClerk, AdjustmentDated, DatesAgree
    PROVE  OpnameSpec => CompletedIsFinal
<1> DEFINE Final ==
       \A o \in DOMAIN opnames :
          opnames[o].status = "COMPLETED" =>
            /\ opnames'[o].status = "COMPLETED"
            /\ history'[o].posted = history[o].posted
            /\ \A p \in Products : Difference(opnames'[o], p) = Difference(opnames[o], p)
<1>1. OpnameInv /\ [OpnameNext]_allVars => OpnameInv'
  BY OpnameInvStep
<1>2. OpnameInv /\ OpnameNext => Final
  <2> SUFFICES ASSUME OpnameInv, OpnameNext, NEW o \in DOMAIN opnames,
                      opnames[o].status = "COMPLETED"
               PROVE  /\ opnames'[o].status = "COMPLETED"
                      /\ history'[o].posted = history[o].posted
                      /\ \A p \in Products :
                            Difference(opnames'[o], p) = Difference(opnames[o], p)
    OBVIOUS
  <2>1. ~\E c \in Clerks : Complete(c) /\ call[c].opname = o
    <3> SUFFICES ASSUME NEW c \in Clerks, Complete(c), call[c].opname = o PROVE FALSE
      OBVIOUS
    <3>1. call[c].step = "completing"
      BY DEF Complete
    <3>2. opnames[call[c].opname].status # "COMPLETED"
      BY <3>1, CompletingFacts
    <3> QED BY <3>2
  <2> QED BY <2>1, OpnameChange
<1>3. OpnameInv /\ [OpnameNext]_allVars => [Final]_allVars
  BY <1>2
<1> QED BY <1>1, <1>3, OpnameInvInit, PTL DEF OpnameSpec, CompletedIsFinal

-----------------------------------------------------------------------------
(* Any number of clerks *)

\* A sequence of opnames with one of them changed.
LEMMA OpnameReplaced ==
    ASSUME NEW T, NEW rows \in Seq(T), NEW o \in DOMAIN rows, NEW row \in T
    PROVE  [rows EXCEPT ![o] = row] \in Seq(T) /\ Len([rows EXCEPT ![o] = row]) = Len(rows)
BY ExceptSeq

\* Nothing that clerks write at the same time spoils the opnames, and their
\* adjustments are requests like others.
LEMMA ManyClerksStep ==
    ASSUME AdjustmentDated, DatesAgree, StockInv, OpnameVarsOK, [OpnameNext]_allVars
    PROVE  StockInv' /\ OpnameVarsOK'
<1>1. TypeOK /\ StockNonNegative /\ is_locked \in [Warehouses -> BOOLEAN]
      /\ \A c \in Clerks : c \in Sessions
  BY ClerksAssumption DEF StockInv, TypeOK
<1>2. /\ opnames \in Seq(Opname) /\ call \in [Sessions -> Calls]
      /\ history \in Seq(History) /\ Len(history) = Len(opnames)
      /\ DOMAIN opnames = 1..Len(opnames) /\ Len(opnames) \in Nat
      /\ DOMAIN history = DOMAIN opnames
      /\ \A o \in DOMAIN opnames :
            opnames[o] \in Opname /\ history[o] \in History /\ o \in Nat
  BY OpnameFacts DEF OpnameVarsOK
<1> DEFINE Fits(m) == m \in Calls /\ (m.step \in {"counting", "adjusting", "completing"} =>
                                        m.opname \in DOMAIN opnames)
\* The calls, when no opname goes away.
<1>3. ASSUME NEW c \in Clerks, NEW m, Fits(m), call' = [call EXCEPT ![c] = m],
             Len(opnames') >= Len(opnames), opnames' \in Seq(Opname),
             history' \in Seq(History), Len(history') = Len(opnames')
      PROVE  OpnameVarsOK'
  <2>1. DOMAIN opnames \subseteq DOMAIN opnames'
    <3>1. DOMAIN opnames' = 1..Len(opnames') /\ Len(opnames') \in Nat
      BY <1>3
    <3> QED BY <1>2, <1>3, <3>1
  <2>2. call' \in [Sessions -> Calls]
    BY <1>1, <1>2, <1>3
  <2>3. ASSUME NEW s \in Sessions, call'[s].step \in {"counting", "adjusting", "completing"}
        PROVE  call'[s].opname \in DOMAIN opnames'
    <3>1. CASE s = c
      BY <1>1, <1>2, <1>3, <2>1, <2>3, <3>1
    <3>2. CASE s # c
      BY <1>1, <1>2, <1>3, <2>1, <2>3, <3>2 DEF OpnameVarsOK
    <3> QED BY <3>1, <3>2
  <2> QED BY <1>3, <2>2, <2>3 DEF OpnameVarsOK
<1>4. /\ Fits(NoCall)
      /\ \A m : \A c \in Clerks : Fits(m) /\ call' = [call EXCEPT ![c] = m]
              /\ UNCHANGED <<opnames, history>> => OpnameVarsOK'
  <2>1. Fits(NoCall)
    BY DEF Calls, NoCall
  <2> HIDE DEF Fits
  <2>2. ASSUME NEW c \in Clerks, NEW m, Fits(m), call' = [call EXCEPT ![c] = m],
               UNCHANGED <<opnames, history>>
        PROVE  OpnameVarsOK'
    <3>1. Len(opnames') >= Len(opnames) /\ opnames' \in Seq(Opname)
          /\ history' \in Seq(History) /\ Len(history') = Len(opnames')
      BY <1>2, <2>2
    <3> QED BY <1>3, <2>2, <3>1
  <2> QED BY <2>1, <2>2
<1>5. \A c \in Clerks : Ends(c) <=> call' = [call EXCEPT ![c] = NoCall]
  BY DEF Ends
<1>6. UNCHANGED vars => StockInv'
  <2>1. UNCHANGED vars => TypeOK'
    BY <1>1 DEF TypeOK, StockTypeOK, vars
  <2> QED BY <2>1, WarehouseStep DEF vars
<1>7. UNCHANGED <<ledger, rowLock, own, pc, attempt, req, next, outcome>>
        /\ is_locked' \in [Warehouses -> BOOLEAN] => StockInv'
  <2>1. UNCHANGED <<ledger, rowLock, own, pc, attempt, req, next, outcome>>
          /\ is_locked' \in [Warehouses -> BOOLEAN] => TypeOK'
    BY <1>1 DEF TypeOK, StockTypeOK
  <2> QED BY <2>1, WarehouseStep
<1>8. UNCHANGED <<opnames, call>> /\ history' \in Seq(History) /\ Len(history') = Len(history)
        => OpnameVarsOK'
  BY DEF OpnameVarsOK
<1> USE DEF Fits
<1>9. ASSUME NEW c \in Clerks, NEW w \in Warehouses, InitiateCheck(c, w)
      PROVE  StockInv' /\ OpnameVarsOK'
  <2> DEFINE m == [step |-> "initiating", warehouse |-> w]
  <2>1. Fits(m)
    BY DEF Calls
  <2>2. call' = [call EXCEPT ![c] = m] /\ UNCHANGED <<opnames, history>> /\ UNCHANGED vars
    BY <1>9 DEF InitiateCheck
  <2> HIDE DEF m, Fits
  <2> QED BY <1>4, <1>6, <2>1, <2>2
<1>10. ASSUME NEW c \in Clerks, NEW o \in DOMAIN opnames, NEW items \in Items,
              CountRead(c, o, items)
       PROVE  StockInv' /\ OpnameVarsOK'
  <2> DEFINE m == [step |-> "counting", opname |-> o, seen |-> opnames[o], items |-> items]
  <2>1. Fits(m)
    <3>1. items \in Seq([product : Products, qty_counted : Nat])
      BY ItemsAssumption
    <3> QED BY <1>2, <3>1 DEF Calls
  <2>2. call' = [call EXCEPT ![c] = m] /\ UNCHANGED <<opnames, history>> /\ UNCHANGED vars
    BY <1>10 DEF CountRead
  <2> HIDE DEF m, Fits
  <2> QED BY <1>4, <1>6, <2>1, <2>2
<1>11. ASSUME NEW c \in Clerks, NEW o \in DOMAIN opnames, FinalizeCheck(c, o)
       PROVE  StockInv' /\ OpnameVarsOK'
  <2> DEFINE m == [step |-> "completing", opname |-> o, seen |-> opnames[o]]
  <2>1. Fits(m)
    BY <1>2 DEF Calls
  <2>2. call' = [call EXCEPT ![c] = m] /\ UNCHANGED <<opnames, history>> /\ UNCHANGED vars
    BY <1>11 DEF FinalizeCheck
  <2> HIDE DEF m, Fits
  <2> QED BY <1>4, <1>6, <2>1, <2>2
<1>12. ASSUME NEW c \in Clerks, NEW o \in DOMAIN opnames, FinalizeAdjust(c, o)
       PROVE  StockInv' /\ OpnameVarsOK'
  <2> DEFINE m == [step |-> "adjusting", opname |-> o, seen |-> opnames[o]]
  <2>1. Fits(m)
    BY <1>2 DEF Calls
  <2>2. call' = [call EXCEPT ![c] = m] /\ UNCHANGED <<opnames, history>>
        /\ StartServing(c, AdjustmentOf(opnames[o]))
    BY <1>12 DEF FinalizeAdjust
  <2>3. StockInv'
    BY <1>1, <1>2, <2>2, AdjustmentType, StartStep
  <2> HIDE DEF m, Fits
  <2> QED BY <1>4, <2>1, <2>2, <2>3
<1>13. ASSUME NEW c \in Clerks, Adjusted(c) PROVE StockInv' /\ OpnameVarsOK'
  <2>1. UNCHANGED <<opnames, history>> /\ UNCHANGED vars /\ call[c].step = "adjusting"
    BY <1>13 DEF Adjusted
  <2>2. CASE Ends(c)
    <3> HIDE DEF Fits
    <3> QED BY <1>4, <1>5, <1>6, <2>1, <2>2
  <2>3. CASE call' = [call EXCEPT ![c].step = "completing"]
    <3> DEFINE m == [step |-> "completing", opname |-> call[c].opname, seen |-> call[c].seen]
    <3>1. call[c] \in [step : {"adjusting", "completing"}, opname : Nat, seen : Opname]
          /\ call[c].opname \in DOMAIN opnames
      BY <1>1, <2>1, CallFacts DEF Calls, NoCall, WorksOn
    <3>2. call' = [call EXCEPT ![c] = [call[c] EXCEPT !.step = "completing"]]
      BY <2>3
    <3>3. [call[c] EXCEPT !.step = "completing"] = m
      BY <3>1
    <3>4. Fits(m)
      BY <3>1 DEF Calls
    <3>5. call' = [call EXCEPT ![c] = m]
      BY <3>2, <3>3
    <3> HIDE DEF m, Fits
    <3> QED BY <1>4, <1>6, <2>1, <3>4, <3>5
  <2> QED BY <1>13, <2>2, <2>3 DEF Adjusted
<1>14. ASSUME NEW c \in Clerks, InitiateWrite(c) PROVE StockInv' /\ OpnameVarsOK'
  <2> DEFINE w == call[c].warehouse
  <2>1. w \in Warehouses
    BY <1>1, <1>14, CallFacts DEF InitiateWrite
  <2>2. NewOpname(w) \in Opname /\ NoHistory \in History
    BY <1>1, <2>1, NewOpnameType DEF TypeOK, NoHistory, History
  <2>3. Ends(c) /\ opnames' = Append(opnames, NewOpname(w)) /\ history' = Append(history, NoHistory)
    BY <1>14 DEF InitiateWrite
  <2>4. /\ opnames' \in Seq(Opname) /\ Len(opnames') = Len(opnames) + 1
        /\ history' \in Seq(History) /\ Len(history') = Len(opnames')
    <3> HIDE DEF w, Opname, History
    <3> QED BY <1>2, <2>2, <2>3
  <2>5. StockInv'
    BY <1>1, <1>7, <1>14, <2>1 DEF InitiateWrite
  <2> HIDE DEF Fits
  <2>6. Len(opnames') >= Len(opnames) /\ call' = [call EXCEPT ![c] = NoCall]
    BY <1>2, <1>5, <2>3, <2>4
  <2>7. OpnameVarsOK'
    <3> HIDE DEF NoCall
    <3> QED BY <1>3, <1>4, <2>4, <2>6
  <2> QED BY <2>5, <2>7
<1>15. ASSUME NEW c \in Clerks, CountWrite(c) PROVE StockInv' /\ OpnameVarsOK'
  <2> DEFINE o == call[c].opname
             seen == call[c].seen
             lines == CountedLines(opnames[o].lines, seen.lines, call[c].items)
             status == IF seen.status = "INITIATED" THEN "IN_PROGRESS" ELSE opnames[o].status
             half == [opnames[o] EXCEPT !.status = status]
             new == [half EXCEPT !.lines = lines]
  <2>1. /\ o \in DOMAIN opnames /\ seen \in Opname
        /\ call[c].items \in Seq([product : Products, qty_counted : Nat])
    BY <1>1, <1>15, CallFacts DEF CountWrite, WorksOn
  <2>2. lines \in Seq(OpnameLine)
    <3>1. opnames[o].lines \in Seq(OpnameLine) /\ seen.lines \in Seq(OpnameLine)
      BY <1>2, <2>1, OpnameLineType
    <3> QED BY <2>1, <3>1, CountedLinesType
  <2>3. status \in {"INITIATED", "IN_PROGRESS", "COMPLETED"}
    BY <1>2, <2>1 DEF Opname
  <2>4. opnames' = [opnames EXCEPT ![o] = new] /\ Ends(c) /\ UNCHANGED history /\ UNCHANGED vars
    BY <1>15, <2>1 DEF CountWrite
  <2> HIDE DEF lines, status
  <2>5. new \in Opname
    <3>1. half \in Opname
      BY <1>2, <2>1, <2>3, StatusChanged
    <3> HIDE DEF half
    <3> QED BY <2>2, <3>1, LinesChanged
  <2> HIDE DEF new, o, Fits
  <2>6. opnames' \in Seq(Opname) /\ Len(opnames') = Len(opnames)
    BY <1>2, <2>1, <2>4, <2>5, OpnameReplaced
  <2> QED BY <1>2, <1>3, <1>4, <1>5, <1>6, <2>4, <2>6
<1>16. ASSUME NEW c \in Clerks, NEW o \in DOMAIN opnames, NEW p, RequestRecount(c, o, p)
       PROVE  StockInv' /\ OpnameVarsOK'
  <2>1. opnames' \in Seq(Opname) /\ Len(opnames') = Len(opnames)
        /\ DOMAIN opnames' = DOMAIN opnames
    BY <1>16, RequestRecountEffect
  <2>2. UNCHANGED <<call, history>> /\ UNCHANGED vars
    BY <1>16 DEF RequestRecount
  <2> QED BY <1>6, <2>1, <2>2 DEF OpnameVarsOK
<1>17. ASSUME NEW c \in Clerks, Complete(c) PROVE StockInv' /\ OpnameVarsOK'
  <2> DEFINE o == call[c].opname
             new == [opnames[o] EXCEPT !.status = "COMPLETED"]
  <2>1. o \in DOMAIN opnames /\ call[c].seen \in Opname
    BY <1>1, <1>17, CallFacts DEF Complete, WorksOn
  <2>2. opnames' = [opnames EXCEPT ![o] = new] /\ Ends(c) /\ UNCHANGED history
    BY <1>17 DEF Complete
  <2>3. new \in Opname
    BY <1>2, <2>1, StatusChanged
  <2>4. StockInv'
    BY <1>1, <1>7, <1>17, <2>1 DEF Complete, Opname
  <2> HIDE DEF new, o, Fits
  <2>5. opnames' \in Seq(Opname) /\ Len(opnames') = Len(opnames)
    BY <1>2, <2>1, <2>2, <2>3, OpnameReplaced
  <2> QED BY <1>2, <1>3, <1>4, <1>5, <2>2, <2>4, <2>5
<1>18. ASSUME NEW c \in Clerks, CompleteFails(c) PROVE StockInv' /\ OpnameVarsOK'
  <2> DEFINE o == call[c].opname
             new == [history[o] EXCEPT !.failed = TRUE]
  <2>1. o \in DOMAIN opnames
    BY <1>1, <1>18, CallFacts DEF CompleteFails, WorksOn
  <2>2. history' = [history EXCEPT ![o] = new] /\ Ends(c) /\ UNCHANGED opnames /\ UNCHANGED vars
    BY <1>18 DEF CompleteFails
  <2>3. new \in History
    BY <1>2, <2>1 DEF History
  <2> HIDE DEF new, o, Fits
  <2>4. history' \in Seq(History) /\ Len(history') = Len(history)
    BY <1>2, <2>1, <2>2, <2>3, OpnameReplaced
  <2> QED BY <1>2, <1>3, <1>4, <1>5, <1>6, <2>2, <2>4
<1>19. ASSUME NEW s \in Sessions, InventoryStep(s) PROVE StockInv' /\ OpnameVarsOK'
  <2>1. StockInv'
    <3>1. Next
      BY <1>19 DEF InventoryStep, Next
    <3> QED BY <3>1, StockStep
  <2>2. UNCHANGED <<opnames, call>>
    BY <1>19 DEF InventoryStep
  <2>3. CASE Commit(s) /\ call[s].step = "adjusting"
    <3> DEFINE o == call[s].opname
               w == call[s].seen.warehouse
               posted == [p \in Products |-> history[o].posted[p] + own[s][<<p, w>>].delta]
               new == [history[o] EXCEPT !.posted = posted]
    <3>1. o \in DOMAIN opnames /\ w \in Warehouses
      BY <2>3, CallFacts DEF WorksOn, Opname
    <3>2. history' = [history EXCEPT ![o] = new]
      BY <1>19, <2>3 DEF InventoryStep
    <3>3. \A p \in Products : own[s][<<p, w>>].delta \in Int
      BY <1>1, <3>1 DEF TypeOK, StockTypeOK, OwnRows, Keys
    <3>4. history[o].posted \in [Products -> Int]
      BY <1>2, <3>1 DEF History
    <3>5. posted \in [Products -> Int]
      BY <3>3, <3>4
    <3> HIDE DEF posted
    <3>6. new \in History
      BY <1>2, <3>1, <3>5 DEF History
    <3> HIDE DEF new, o
    <3>7. history' \in Seq(History) /\ Len(history') = Len(history)
      BY <1>2, <3>1, <3>2, <3>6, OpnameReplaced
    <3> QED BY <1>8, <2>1, <2>2, <3>7
  <2>4. CASE ~(Commit(s) /\ call[s].step = "adjusting")
    <3>1. UNCHANGED history
      BY <1>19, <2>4 DEF InventoryStep
    <3> QED BY <1>2, <1>8, <2>1, <2>2, <3>1
  <2> QED BY <2>3, <2>4
<1>20. ASSUME NEW w \in Warehouses, LockByHand(w) PROVE StockInv' /\ OpnameVarsOK'
  <2>1. UNCHANGED <<opnames, call, history>>
    BY <1>20 DEF LockByHand, opnameVars
  <2>2. StockInv'
    BY <1>1, <1>7, <1>20 DEF LockByHand, LockWarehouse, SetLocked
  <2> QED BY <1>2, <1>8, <2>1, <2>2
<1>21. ASSUME NEW w \in Warehouses, UnlockByHand(w) PROVE StockInv' /\ OpnameVarsOK'
  <2>1. StockInv'
    BY <1>1, <1>7, <1>21 DEF UnlockByHand, UnlockWarehouse, SetLocked
  <2>2. /\ history' = [o \in 1..Len(history) |-> history'[o]] /\ DOMAIN history' = DOMAIN history
        /\ \A o \in DOMAIN history :
              history'[o] = history[o] \/ history'[o] = [history[o] EXCEPT !.unlocked = TRUE]
    BY <1>2, <1>21 DEF UnlockByHand
  <2>3. \A o \in DOMAIN history : history'[o] \in History
    BY <1>2, <2>2 DEF History
  <2>4. history' \in Seq(History) /\ Len(history') = Len(history)
    BY <1>2, <2>2, <2>3
  <2> QED BY <1>8, <1>21, <2>1, <2>4 DEF UnlockByHand
<1>22. CASE UNCHANGED allVars
  <2>1. UNCHANGED <<opnames, call, history>> /\ UNCHANGED vars
    BY <1>22 DEF allVars, opnameVars
  <2> QED BY <1>2, <1>6, <1>8, <2>1
<1> QED
  BY <1>9, <1>10, <1>11, <1>12, <1>13, <1>14, <1>15, <1>16, <1>17, <1>18, <1>19, <1>20, <1>21, <1>22
     DEF OpnameNext, OpnameStep, Initiating, Counting, Recounting, Finalizing

\* However many clerks initiate, count and finalize opnames at once, and although they
\* may write over each other, the stock is not overdrawn, its newest running_qty is the
\* balance, and the opnames stay well formed.
THEOREM OpnamesKeepStock ==
    ASSUME AdjustmentDated, DatesAgree
    PROVE  OpnameSpec => [](OpnameTypeOK /\ StockNonNegative /\ RunningIsBalance)
<1>1. OpnameInit => StockInv /\ OpnameVarsOK
  BY OpnameInvInit, OpnameTypeParts DEF OpnameInv
<1>2. StockInv /\ OpnameVarsOK /\ [OpnameNext]_allVars => (StockInv /\ OpnameVarsOK)'
  BY ManyClerksStep
<1>3. StockInv /\ OpnameVarsOK => OpnameTypeOK /\ StockNonNegative /\ RunningIsBalance
  BY OpnameTypeParts DEF StockInv
<1> QED BY <1>1, <1>2, <1>3, PTL DEF OpnameSpec

=============================================================================
