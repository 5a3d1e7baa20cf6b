------------------------------- MODULE StockTx -------------------------------
(***************************************************************************)
(* The database as the stock services use it: PostgreSQL at READ COMMITTED *)
(* behind Prisma's interactive $transaction.  A session is one request     *)
(* being served.  Its transaction                                          *)
(*                                                                         *)
(*   - locks product rows (SELECT ... FOR UPDATE, blocking or NOWAIT);     *)
(*   - appends ledger rows only it can see until it commits;               *)
(*   - reads the committed rows plus its own, anew in every statement;     *)
(*   - publishes its rows and drops its locks together, at commit, or      *)
(*     drops both, at rollback.                                            *)
(*                                                                         *)
(* The actions here are the parts the handlers of Inventory, StockOpname   *)
(* and Pos are built from.                                                 *)
(***************************************************************************)
EXTENDS StockLedger, TLAPS

CONSTANTS
    Products,       \* product ids; numbers, so that sort() has an order
    Warehouses,
    Sessions,       \* requests served at the same time
    NoSession       \* the holder of a free product row

ASSUME ProductsAssumption == Products \subseteq Nat
ASSUME NoSessionAssumption == NoSession \notin Sessions

VARIABLES
    ledger,         \* committed rows, one summary per (product, warehouse)
    rowLock,        \* the session whose transaction holds a product row
    own             \* the rows a session's transaction has not committed

stockVars == <<ledger, rowLock, own>>

Keys == Products \X Warehouses

\* The uncommitted rows of one key: their net quantity and the last running_qty.
NoRows == [wrote |-> FALSE, delta |-> 0, running |-> 0]
OwnRows == [wrote : BOOLEAN, delta : Int, running : Int]

StockTypeOK ==
    /\ ledger \in [Keys -> Ledgers]
    /\ rowLock \in [Products -> Sessions \cup {NoSession}]
    /\ own \in [Sessions -> [Keys -> OwnRows]]

Held(s) == {p \in Products : rowLock[p] = s}

\* aggregate(): SUM(qty_in) - SUM(qty_out) over committed and own rows.
OnHand(s, k) == ledger[k].sum + own[s][k].delta

\* findFirst(orderBy created_at desc): its own rows are the newest.
LatestRunning(s, k) ==
    IF own[s][k].wrote THEN own[s][k].running ELSE ledger[k].running

\* SELECT ... FOR UPDATE on a free row.
AcquireRow(s, p) ==
    /\ rowLock[p] = NoSession
    /\ rowLock' = [rowLock EXCEPT ![p] = s]

ReleaseRows(s) ==
    rowLock' = [p \in Products |-> IF rowLock[p] = s THEN NoSession ELSE rowLock[p]]

\* One more uncommitted row for every key of rows, a function to [delta, running].
WithRows(o, rows) ==
    [k \in Keys |->
        IF k \in DOMAIN rows
        THEN [wrote |-> TRUE, delta |-> o[k].delta + rows[k].delta,
              running |-> rows[k].running]
        ELSE o[k]]

WriteRows(s, rows) == own' = [own EXCEPT ![s] = WithRows(own[s], rows)]

DiscardRows(s) == own' = [own EXCEPT ![s] = [k \in Keys |-> NoRows]]

\* COMMIT of a transaction all of whose rows have the movement date given.
CommitRows(s, date) ==
    /\ ledger' = [k \in Keys |->
                     IF own[s][k].wrote
                     THEN AppendRow(ledger[k], own[s][k].delta, own[s][k].running, date)
                     ELSE ledger[k]]
    /\ DiscardRows(s)
    /\ ReleaseRows(s)

\* ROLLBACK: an exception left the $transaction callback.
Rollback(s) ==
    /\ DiscardRows(s)
    /\ ReleaseRows(s)
    /\ UNCHANGED ledger

-----------------------------------------------------------------------------
(***************************************************************************)
(* What the locking is for.  Every quantity a service reports comes from   *)
(* the ledger, so these two must survive any interleaving of requests.     *)
(***************************************************************************)

\* BR-INV-001: no interleaving of requests drives the on-hand quantity of a
\* product in a warehouse (SUM(qty_in) - SUM(qty_out)) below zero.
StockNonNegative == \A k \in Keys : ledger[k].sum >= 0

\* The running_qty written in the newest row of a product in a warehouse is the
\* on-hand quantity: no writer computed it from a balance that had moved on.
RunningIsBalance == \A k \in Keys : ledger[k].running = ledger[k].sum

-----------------------------------------------------------------------------
\* What the steps do to the stock variables: the proofs about the services cite
\* these lemmas and leave the steps folded.

\* Rows to write: one per key at most, each with its net quantity and running_qty.
RowsType(rows) ==
    /\ DOMAIN rows \subseteq Keys
    /\ \A k \in DOMAIN rows : rows[k].delta \in Int /\ rows[k].running \in Int

\* inventoryLedger.create keeps a summary a summary.
LEMMA AppendRowType ==
    ASSUME NEW l \in Ledgers, NEW delta \in Int, NEW running \in Int, NEW date \in Nat
    PROVE  AppendRow(l, delta, running, date) \in Ledgers
BY DEF AppendRow, Ledgers

\* SELECT ... FOR UPDATE gives a free row to the session and touches no other row.
LEMMA AcquireRowEffect ==
    ASSUME StockTypeOK, NEW s \in Sessions, NEW p \in Products,
           AcquireRow(s, p), UNCHANGED <<ledger, own>>
    PROVE  /\ StockTypeOK'
           /\ \A q \in Products, t \in Sessions : rowLock[q] = t => rowLock'[q] = t
           /\ rowLock'[p] = s
BY NoSessionAssumption DEF StockTypeOK, AcquireRow

\* Rows written in a transaction are visible to it alone: they add to its own
\* overlay and to nothing else.
LEMMA WriteRowsEffect ==
    ASSUME StockTypeOK, NEW s \in Sessions, NEW rows, RowsType(rows),
           WriteRows(s, rows), UNCHANGED <<ledger, rowLock>>
    PROVE  /\ StockTypeOK'
           /\ \A t \in Sessions \ {s} : own'[t] = own[t]
           /\ \A k \in DOMAIN rows :
                 own'[s][k] = [wrote |-> TRUE, delta |-> own[s][k].delta + rows[k].delta,
                               running |-> rows[k].running]
           /\ \A k \in Keys \ DOMAIN rows : own'[s][k] = own[s][k]
<1>1. own'[s] = WithRows(own[s], rows) /\ \A t \in Sessions \ {s} : own'[t] = own[t]
  BY DEF WriteRows, StockTypeOK
<1>2. \A k \in DOMAIN rows :
         own'[s][k] = [wrote |-> TRUE, delta |-> own[s][k].delta + rows[k].delta,
                       running |-> rows[k].running]
  BY <1>1 DEF WithRows, RowsType
<1>3. \A k \in Keys \ DOMAIN rows : own'[s][k] = own[s][k]
  BY <1>1 DEF WithRows
<1>4. WithRows(own[s], rows) \in [Keys -> OwnRows]
  <2> SUFFICES ASSUME NEW k \in Keys
               PROVE  WithRows(own[s], rows)[k] \in OwnRows
    BY DEF WithRows
  <2>1. own[s][k] \in OwnRows
    BY DEF StockTypeOK
  <2>2. CASE k \in DOMAIN rows
    <3>1. rows[k].delta \in Int /\ rows[k].running \in Int
      BY <2>2 DEF RowsType
    <3>2. own[s][k].delta + rows[k].delta \in Int
      BY <2>1, <3>1 DEF OwnRows
    <3> QED BY <2>2, <3>1, <3>2 DEF WithRows, OwnRows
  <2>3. CASE k \notin DOMAIN rows
    BY <2>1, <2>3 DEF WithRows
  <2> QED BY <2>2, <2>3
<1>5. StockTypeOK'
  BY <1>4 DEF WriteRows, StockTypeOK
<1> QED BY <1>1, <1>2, <1>3, <1>5

\* The end of a transaction, either way: no own rows, no rows locked, and nothing
\* of another session's changed.
LEMMA EndEffect ==
    ASSUME StockTypeOK, NEW s \in Sessions, DiscardRows(s), ReleaseRows(s)
    PROVE  /\ own' \in [Sessions -> [Keys -> OwnRows]]
           /\ rowLock' \in [Products -> Sessions \cup {NoSession}]
           /\ \A k \in Keys : own'[s][k] = NoRows
           /\ \A t \in Sessions \ {s} : own'[t] = own[t]
           /\ \A p \in Products, t \in Sessions \ {s} : rowLock[p] = t => rowLock'[p] = t
<1>1. own' \in [Sessions -> [Keys -> OwnRows]]
  BY DEF DiscardRows, StockTypeOK, NoRows, OwnRows
<1>2. rowLock' \in [Products -> Sessions \cup {NoSession}]
  BY DEF ReleaseRows, StockTypeOK
<1>3. \A p \in Products, t \in Sessions \ {s} : rowLock[p] = t => rowLock'[p] = t
  BY DEF ReleaseRows
<1> QED BY <1>1, <1>2, <1>3 DEF DiscardRows, StockTypeOK

\* ROLLBACK leaves the committed rows alone.
LEMMA RollbackEffect ==
    ASSUME StockTypeOK, NEW s \in Sessions, Rollback(s)
    PROVE  /\ StockTypeOK'
           /\ ledger' = ledger
           /\ \A k \in Keys : own'[s][k] = NoRows
           /\ \A t \in Sessions \ {s} : own'[t] = own[t]
           /\ \A p \in Products, t \in Sessions \ {s} : rowLock[p] = t => rowLock'[p] = t
BY EndEffect DEF Rollback, StockTypeOK

\* COMMIT appends the own rows of the session to the committed ones, and only them.
LEMMA CommitRowsEffect ==
    ASSUME StockTypeOK, NEW s \in Sessions, NEW date \in Nat, CommitRows(s, date)
    PROVE  /\ StockTypeOK'
           /\ \A k \in Keys : own[s][k].wrote =>
                 ledger'[k] = AppendRow(ledger[k], own[s][k].delta, own[s][k].running, date)
           /\ \A k \in Keys : ~own[s][k].wrote => ledger'[k] = ledger[k]
           /\ \A k \in Keys : own'[s][k] = NoRows
           /\ \A t \in Sessions \ {s} : own'[t] = own[t]
           /\ \A p \in Products, t \in Sessions \ {s} : rowLock[p] = t => rowLock'[p] = t
<1>1. ledger' \in [Keys -> Ledgers]
  <2> SUFFICES ASSUME NEW k \in Keys
               PROVE  (IF own[s][k].wrote
                       THEN AppendRow(ledger[k], own[s][k].delta, own[s][k].running, date)
                       ELSE ledger[k]) \in Ledgers
    BY DEF CommitRows
  <2>1. ledger[k] \in Ledgers /\ own[s][k] \in OwnRows
    BY DEF StockTypeOK
  <2>2. own[s][k].delta \in Int /\ own[s][k].running \in Int
    BY <2>1 DEF OwnRows
  <2> QED BY <2>1, <2>2, AppendRowType
<1>2. \A k \in Keys :
         ledger'[k] = IF own[s][k].wrote
                      THEN AppendRow(ledger[k], own[s][k].delta, own[s][k].running, date)
                      ELSE ledger[k]
  BY DEF CommitRows
<1> QED BY <1>1, <1>2, EndEffect DEF CommitRows, StockTypeOK
=============================================================================
