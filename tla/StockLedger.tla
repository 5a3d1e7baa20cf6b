----------------------------- MODULE StockLedger -----------------------------
(***************************************************************************)
(* The inventory_ledger table, reduced to what the services can learn of   *)
(* the rows of one (product, warehouse).  The table is append-only, and    *)
(* every reader of it uses one of three queries:                           *)
(*                                                                         *)
(*   - aggregate(_sum qty_in, qty_out): the on-hand quantity;              *)
(*   - findFirst(orderBy created_at desc): the row written last;           *)
(*   - findFirst(orderBy movement_date desc, created_at desc): the row     *)
(*     with the latest movement date, the newest of them on a tie.         *)
(*                                                                         *)
(* A summary keeps the answers: sum, the running_qty of the row written    *)
(* last, and the date and running_qty of the row that is last by date.     *)
(* LedgerRows checks it against the rows themselves.  Costs are left out:  *)
(* no guard of the services depends on them.                               *)
(***************************************************************************)
EXTENDS Integers

\* Before every movement date; the date of a summary without rows.
NoDate == 0

\* No row: Number(undefined) || 0 in the services.
EmptyLedger == [sum |-> 0, running |-> 0, date |-> NoDate, datedRunning |-> 0]

\* Mutant: a row of the same date does not become the latest by date.
AppendRowStrict(l, delta, running, date) ==
    [sum          |-> l.sum + delta,
     running      |-> running,
     date         |-> IF date > l.date THEN date ELSE l.date,
     datedRunning |-> IF date > l.date THEN running ELSE l.datedRunning]

(***************************************************************************)
(* One inventoryLedger.create: delta is qty_in - qty_out, running the      *)
(* running_qty its writer computed, date its movement_date.                *)
(***************************************************************************)
AppendRow(l, delta, running, date) ==
    [sum          |-> l.sum + delta,
     running      |-> running,
     date         |-> IF date >= l.date THEN date ELSE l.date,
     datedRunning |-> IF date >= l.date THEN running ELSE l.datedRunning]

Ledgers == [sum : Int, running : Int, date : Nat, datedRunning : Int]
=============================================================================
