------------------------------ MODULE Inventory ------------------------------
(***************************************************************************)
(* InventoryService: transferStock, adjustStock, recordMovement and        *)
(* lockWarehouse, and the lock and unlock of WarehouseService, served to   *)
(* any number of concurrent sessions.                                      *)
(*                                                                         *)
(* A transfer or an adjustment makes up to three attempts.  Each attempt   *)
(* is one database transaction: it reads is_locked of its warehouses, then *)
(* locks its products one by one in sorted order with NOWAIT, then checks  *)
(* and writes its lines one by one, then commits.  A lock that is taken    *)
(* rolls the attempt back and starts the next; any other error is final.   *)
(* A recordMovement is one transaction with one blocking lock.             *)
(*                                                                         *)
(* Not in the state: the stock_transfers and stock_adjustments rows, which *)
(* no operation reads back, and their numbers (see Numbering).             *)
(***************************************************************************)
EXTENDS StockTx, Sequences, Functions

CONSTANTS
    Requests,       \* the requests clients may send
    MaxStock        \* bound: a product with this much in a warehouse gets no more

Attempts == 3       \* for (let attempt = 1; attempt <= 3; attempt++)

(***************************************************************************)
(* The DTOs.  qty of a TRANSFER line is positive (@Min(0.0001)); of an     *)
(* ADJUST line it is qty_actual - qty_system; of a RECORD line it is       *)
(* qty_in - qty_out, exactly one of which validateMovementData lets be     *)
(* positive.  ADJUST and RECORD concern one warehouse: from = to.          *)
(***************************************************************************)
RequestType ==
    [op : {"TRANSFER", "ADJUST", "RECORD"}, from : Warehouses, to : Warehouses,
     date : Nat \ {NoDate}, lines : Seq([product : Products, qty : Int])]

ValidRequest(r) ==
    /\ r.op = "TRANSFER" => \A i \in 1..Len(r.lines) : r.lines[i].qty > 0
    /\ r.op # "TRANSFER" => r.from = r.to
    /\ r.op = "RECORD" => Len(r.lines) = 1 /\ r.lines[1].qty # 0

NoRequest == [op |-> "NONE", date |-> NoDate, lines |-> << >>]

ASSUME RequestsAssumption ==
    /\ Requests \subseteq RequestType
    /\ \A r \in Requests : ValidRequest(r)

VARIABLES
    is_locked,      \* warehouses.is_locked
    pc,             \* where a session's request is
    attempt,        \* the attempt it makes
    req,            \* the request it serves
    next,           \* the line it processes next
    outcome         \* how its last request ended

sessionVars == <<pc, attempt, req, next, outcome>>
vars == <<ledger, rowLock, own, is_locked, pc, attempt, req, next, outcome>>

TypeOK ==
    /\ StockTypeOK
    /\ is_locked \in [Warehouses -> BOOLEAN]
    /\ pc \in [Sessions -> {"idle", "begin", "lock", "lines"}]
    /\ attempt \in [Sessions -> 0..Attempts]
    /\ req \in [Sessions -> RequestType \cup {NoRequest}]
    /\ next \in [Sessions -> Nat \ {0}]
    /\ outcome \in [Sessions -> {"none", "ok", "error"}]

Init ==
    /\ ledger = [k \in Keys |-> EmptyLedger]
    /\ rowLock = [p \in Products |-> NoSession]
    /\ own = [s \in Sessions |-> [k \in Keys |-> NoRows]]
    /\ is_locked = [w \in Warehouses |-> FALSE]
    /\ pc = [s \in Sessions |-> "idle"]
    /\ attempt = [s \in Sessions |-> 0]
    /\ req = [s \in Sessions |-> NoRequest]
    /\ next = [s \in Sessions |-> 1]
    /\ outcome = [s \in Sessions |-> "none"]

ProductsOf(r) == {r.lines[i].product : i \in 1..Len(r.lines)}

\* The request of s is over: it returned (out = "ok") or threw.
Finish(s, out) ==
    /\ pc' = [pc EXCEPT ![s] = "idle"]
    /\ attempt' = [attempt EXCEPT ![s] = 0]
    /\ req' = [req EXCEPT ![s] = NoRequest]
    /\ next' = [next EXCEPT ![s] = 1]
    /\ outcome' = [outcome EXCEPT ![s] = out]

\* Mutant: the rows of the lines before the exception are kept.
ThrowKeepsRows(s) ==
    /\ CommitRows(s, req[s].date)
    /\ Finish(s, "error")
    /\ UNCHANGED is_locked

\* An exception other than a lock error leaves the transaction and the handler.
Throw(s) ==
    /\ Rollback(s)
    /\ Finish(s, "error")
    /\ UNCHANGED is_locked

-----------------------------------------------------------------------------
(* Arrival of a request *)

\* The bound on stock: a product of which some warehouse holds MaxStock gets no more.
WithinBound(r) ==
    r.op # "TRANSFER" =>
        \A i \in 1..Len(r.lines), w \in Warehouses :
            r.lines[i].qty > 0 => ledger[<<r.lines[i].product, w>>].sum < MaxStock

\* s starts serving r, whose inputs passed the checks before the transaction.
StartServing(s, r) ==
    /\ pc[s] = "idle"
    /\ pc' = [pc EXCEPT ![s] = "begin"]
    /\ attempt' = [attempt EXCEPT ![s] = 1]
    /\ req' = [req EXCEPT ![s] = r]
    /\ next' = [next EXCEPT ![s] = 1]
    /\ outcome' = [outcome EXCEPT ![s] = "none"]
    /\ UNCHANGED <<ledger, rowLock, own, is_locked>>

\* transferStock refuses a transfer within one warehouse before anything else.
SameWarehouse(r) == r.op = "TRANSFER" /\ r.from = r.to

Issue(s, r) ==
    /\ ~SameWarehouse(r)
    /\ WithinBound(r)
    /\ StartServing(s, r)

RefuseSameWarehouse(s, r) ==
    /\ pc[s] = "idle"
    /\ SameWarehouse(r)
    /\ outcome' = [outcome EXCEPT ![s] = "error"]
    /\ UNCHANGED <<ledger, rowLock, own, is_locked, pc, attempt, req, next>>

-----------------------------------------------------------------------------
(* One attempt *)

\* recordMovement does not look at is_locked.
ChecksWarehouses(r) == r.op \in {"TRANSFER", "ADJUST"}

WarehousesOpen(s) == ~is_locked[req[s].from] /\ ~is_locked[req[s].to]

\* The transaction begins and finds its warehouses open.  Nothing keeps them
\* open: the rows are read, not locked.
ReadWarehouses(s) ==
    /\ pc[s] = "begin"
    /\ ChecksWarehouses(req[s]) => WarehousesOpen(s)
    /\ pc' = [pc EXCEPT ![s] = "lock"]
    /\ UNCHANGED <<ledger, rowLock, own, is_locked, attempt, req, next, outcome>>

RefuseLockedWarehouse(s) ==
    /\ pc[s] = "begin"
    /\ ChecksWarehouses(req[s])
    /\ ~WarehousesOpen(s)
    /\ Throw(s)

\* productIds.sort(): the smallest product id not locked yet is the next one.
ToLock(s) == ProductsOf(req[s]) \ Held(s)
NextToLock(s) == {p \in ToLock(s) : \A q \in ToLock(s) : p <= q}

NextIsTaken(s) == \E p \in NextToLock(s) : rowLock[p] # NoSession

\* The row is free: NOWAIT and blocking locks take it.
LockProduct(s) ==
    /\ pc[s] = "lock"
    /\ \E p \in NextToLock(s) : AcquireRow(s, p)
    /\ UNCHANGED <<ledger, own, is_locked, pc, attempt, req, next, outcome>>

\* Mutant: the attempt is not counted.
RetryForever(s) ==
    /\ pc[s] = "lock"
    /\ req[s].op # "RECORD"
    /\ NextIsTaken(s)
    /\ Rollback(s)
    /\ pc' = [pc EXCEPT ![s] = "begin"]
    /\ UNCHANGED <<is_locked, attempt, req, next, outcome>>

\* Mutant: attempt <= Attempts where the loop condition means the attempt to come.
RetryOnceTooOften(s) ==
    /\ pc[s] = "lock"
    /\ req[s].op # "RECORD"
    /\ NextIsTaken(s)
    /\ attempt[s] <= Attempts
    /\ Rollback(s)
    /\ pc' = [pc EXCEPT ![s] = "begin"]
    /\ attempt' = [attempt EXCEPT ![s] = @ + 1]
    /\ UNCHANGED <<is_locked, req, next, outcome>>

\* NOWAIT on a taken row: "could not obtain lock".  The attempt is rolled back
\* and, after the backoff, the next one starts; the third failure is final.
LockRefused(s) ==
    /\ pc[s] = "lock"
    /\ req[s].op # "RECORD"
    /\ NextIsTaken(s)
    /\ \/ /\ attempt[s] < Attempts
          /\ Rollback(s)
          /\ pc' = [pc EXCEPT ![s] = "begin"]
          /\ attempt' = [attempt EXCEPT ![s] = @ + 1]
          /\ UNCHANGED <<is_locked, req, next, outcome>>
       \/ /\ attempt[s] = Attempts
          /\ Throw(s)

LocksTaken(s) ==
    /\ pc[s] = "lock"
    /\ ToLock(s) = {}
    /\ pc' = [pc EXCEPT ![s] = "lines"]
    /\ UNCHANGED <<ledger, rowLock, own, is_locked, attempt, req, next, outcome>>

-----------------------------------------------------------------------------
(* The lines of a request, one at a time *)

AtLine(s, op) == pc[s] = "lines" /\ req[s].op = op /\ next[s] <= Len(req[s].lines)

Line(s) == req[s].lines[next[s]]
SourceKey(s) == <<Line(s).product, req[s].from>>
TargetKey(s) == <<Line(s).product, req[s].to>>

\* The line passed its checks: its rows are written in the transaction.
WriteLine(s, rows) ==
    /\ WriteRows(s, rows)
    /\ next' = [next EXCEPT ![s] = @ + 1]
    /\ UNCHANGED <<ledger, rowLock, is_locked, pc, attempt, req, outcome>>

\* Mutant: the running_qty of TRANSFER_IN is computed from the source balance.
TransferRowsMixedUp(s) ==
    [k \in {SourceKey(s), TargetKey(s)} |->
        IF k = SourceKey(s)
        THEN [delta |-> -Line(s).qty, running |-> OnHand(s, k) - Line(s).qty]
        ELSE [delta |-> Line(s).qty, running |-> OnHand(s, SourceKey(s)) + Line(s).qty]]

\* TRANSFER_OUT at the source, TRANSFER_IN at the destination.
TransferRows(s) ==
    [k \in {SourceKey(s), TargetKey(s)} |->
        IF k = SourceKey(s)
        THEN [delta |-> -Line(s).qty, running |-> OnHand(s, k) - Line(s).qty]
        ELSE [delta |-> Line(s).qty, running |-> OnHand(s, k) + Line(s).qty]]

TransferLine(s) ==
    /\ AtLine(s, "TRANSFER")
    /\ OnHand(s, SourceKey(s)) >= Line(s).qty
    /\ WriteLine(s, TransferRows(s))

TransferLineRefused(s) ==
    /\ AtLine(s, "TRANSFER")
    /\ OnHand(s, SourceKey(s)) < Line(s).qty
    /\ Throw(s)

\* A line without difference writes no row.
AdjustRows(s) ==
    [k \in IF Line(s).qty = 0 THEN {} ELSE {SourceKey(s)} |->
        [delta |-> Line(s).qty, running |-> OnHand(s, k) + Line(s).qty]]

\* Mutant: the adjustment trusts qty_system and does not check the balance.
AdjustLineUnchecked(s) ==
    /\ AtLine(s, "ADJUST")
    /\ WriteLine(s, AdjustRows(s))

AdjustLine(s) ==
    /\ AtLine(s, "ADJUST")
    /\ Line(s).qty < 0 => OnHand(s, SourceKey(s)) >= -Line(s).qty
    /\ WriteLine(s, AdjustRows(s))

AdjustLineRefused(s) ==
    /\ AtLine(s, "ADJUST")
    /\ Line(s).qty < 0
    /\ OnHand(s, SourceKey(s)) < -Line(s).qty
    /\ Throw(s)

\* recordMovement takes the running_qty of the row that is last by movement date
\* for the balance.
RecordRunning(s) == ledger[SourceKey(s)].datedRunning + Line(s).qty

RecordLine(s) ==
    /\ AtLine(s, "RECORD")
    /\ RecordRunning(s) >= 0
    /\ WriteLine(s, [k \in {SourceKey(s)} |->
                        [delta |-> Line(s).qty, running |-> RecordRunning(s)]])

RecordLineRefused(s) ==
    /\ AtLine(s, "RECORD")
    /\ RecordRunning(s) < 0
    /\ Throw(s)

\* All lines are written: COMMIT.
Commit(s) ==
    /\ pc[s] = "lines"
    /\ next[s] > Len(req[s].lines)
    /\ CommitRows(s, req[s].date)
    /\ Finish(s, "ok")
    /\ UNCHANGED is_locked

\* The transaction fails in the database (connection lost, Prisma's 5 s limit on
\* an interactive transaction): rolled back, and the error is not retried.
TxFails(s) ==
    /\ pc[s] \in {"lock", "lines"}
    /\ Throw(s)

-----------------------------------------------------------------------------
(* InventoryService.lockWarehouse, WarehouseService.lock and unlock *)

SetLocked(w, b) ==
    /\ is_locked' = [is_locked EXCEPT ![w] = b]
    /\ UNCHANGED <<ledger, rowLock, own, pc, attempt, req, next, outcome>>

LockWarehouse(w) == SetLocked(w, TRUE)
UnlockWarehouse(w) == SetLocked(w, FALSE)

-----------------------------------------------------------------------------
\* What a session does once it has a request.
Serve(s) ==
    \/ ReadWarehouses(s) \/ RefuseLockedWarehouse(s)
    \/ LockProduct(s) \/ LockRefused(s) \/ LocksTaken(s)
    \/ TransferLine(s) \/ TransferLineRefused(s)
    \/ AdjustLine(s) \/ AdjustLineRefused(s)
    \/ RecordLine(s) \/ RecordLineRefused(s)
    \/ Commit(s)

Arrive(s) == \E r \in Requests : Issue(s, r) \/ RefuseSameWarehouse(s, r)

Next ==
    \/ \E s \in Sessions : Arrive(s) \/ Serve(s) \/ TxFails(s)
    \/ \E w \in Warehouses : LockWarehouse(w) \/ UnlockWarehouse(w)

Spec == Init /\ [][Next]_vars

(***************************************************************************)
(* A request that is being served goes on (Node's event loop and the       *)
(* database both make progress), and a transaction that waits for a row    *)
(* gets it in turn: PostgreSQL queues the waiters of a row lock.  Clients  *)
(* need not send anything and transactions need not fail.                  *)
(***************************************************************************)
Fairness ==
    \A s \in Sessions : WF_vars(Serve(s)) /\ SF_vars(LockProduct(s))

FairSpec == Spec /\ Fairness

-----------------------------------------------------------------------------
(***************************************************************************)
(* The locks, attempts and transactions of concurrent sessions look like   *)
(* requests served one after another.                                      *)
(***************************************************************************)

\* What line i changes.  A transfer within one warehouse is refused, and the other
\* requests have from = to.
LineEffect(r, i, k) ==
    IF k = <<r.lines[i].product, r.to>> THEN r.lines[i].qty
    ELSE IF k = <<r.lines[i].product, r.from>> THEN -r.lines[i].qty ELSE 0

WholeEffect(r, k) == SumFunction([i \in DOMAIN r.lines |-> LineEffect(r, i, k)])

Abstract == INSTANCE AtomicStock WITH
    Places <- Keys, Change <- WholeEffect,
    stock <- [k \in Keys |-> ledger[k].sum], asked <- req, answer <- outcome

-----------------------------------------------------------------------------
(* Properties *)

\* Requests are served atomically: what concurrent transfers, adjustments and movements
\* do to the stock is what they would do one at a time, each in full or not at all, and
\* a client that is told of success or failure is told the truth.
ServedAtomically == Abstract!AbstractSpec

\* Every request ends: lock failures are retried a bounded number of times and no
\* two requests wait for each other's product rows.
RequestsEnd == \A s \in Sessions : pc[s] # "idle" ~> pc[s] = "idle"

-----------------------------------------------------------------------------
(* The inductive invariant behind StockNonNegative and RunningIsBalance, see
   InventoryProofs *)

\* recordMovement takes the row with the latest movement date for the balance, so
\* it is safe only if the dates do not differ.  No route reaches it: without
\* recordMovement the assumption holds for all dates.
RecordUsed == \E r \in Requests : r.op = "RECORD"
DatesAgree == RecordUsed => \A r1, r2 \in Requests : r1.date = r2.date

\* What a session may serve: one of the requests, or another, such as the adjustment
\* of a stock opname, that is not dated apart.
Servable(r) ==
    /\ r \in RequestType /\ ValidRequest(r)
    /\ r.op = "RECORD" => RecordUsed
    /\ RecordUsed => \A q \in Requests : r.date = q.date

\* A session past "idle" serves such a request.
RequestInv ==
    \A s \in Sessions : pc[s] # "idle" => Servable(req[s])

\* When the lines are processed, all products of the request are locked.
LockInv ==
    \A s \in Sessions : pc[s] = "lines" =>
        \A p \in ProductsOf(req[s]) : rowLock[p] = s

\* Uncommitted rows are of locked products, add up to the last running_qty on top
\* of what is committed, and leave the balance non-negative.
OwnInv ==
    \A s \in Sessions, k \in Keys :
        /\ ~own[s][k].wrote => own[s][k].delta = 0
        /\ own[s][k].wrote =>
              /\ rowLock[k[1]] = s
              /\ own[s][k].running = OnHand(s, k)
              /\ OnHand(s, k) >= 0

\* No rows are written before the first line is processed.
FreshInv ==
    \A s \in Sessions : pc[s] # "lines" \/ next[s] = 1 =>
        \A k \in Keys : ~own[s][k].wrote

\* If recordMovement is used, the row last by date is the row written last.
DatedInv ==
    RecordUsed => \A k \in Keys :
        /\ ledger[k].datedRunning = ledger[k].running
        /\ \A r \in Requests : ledger[k].date <= r.date

\* The inductive invariant.
StockInv ==
    /\ TypeOK
    /\ RequestInv
    /\ LockInv
    /\ FreshInv
    /\ OwnInv
    /\ StockNonNegative
    /\ RunningIsBalance
    /\ DatedInv
=============================================================================
