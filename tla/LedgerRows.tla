---------------------------- MODULE LedgerRows ----------------------------
(***************************************************************************)
(* StockLedger keeps a summary where the database keeps rows.  Here the    *)
(* rows of one (product, warehouse) are kept beside the summary, and each  *)
(* query of the services is evaluated on the rows.                         *)
(***************************************************************************)
EXTENDS StockLedger, SequencesExt

CONSTANTS
    MaxRows,        \* bound on the number of rows
    Deltas,         \* qty_in - qty_out of a row
    Runnings,       \* running_qty of a row
    Dates           \* movement_date of a row

VARIABLES
    rows,           \* the rows, in the order of created_at
    summary

Row == [delta : Deltas, running : Runnings, date : Dates]

RowsInit == rows = << >> /\ summary = EmptyLedger

\* Rows arrive with any running_qty and any date: nothing makes dates grow.
Insert(row) ==
    /\ Len(rows) < MaxRows
    /\ rows' = Append(rows, row)
    /\ summary' = AppendRow(summary, row.delta, row.running, row.date)

RowsNext == \E row \in Row : Insert(row)

\* SUM(qty_in) - SUM(qty_out).
SumOfRows == SumFunction([i \in DOMAIN rows |-> rows[i].delta])

\* orderBy [{ movement_date: 'desc' }, { created_at: 'desc' }], first row.
LastByDate(i) ==
    \A j \in DOMAIN rows : \/ rows[j].date < rows[i].date
                           \/ rows[j].date = rows[i].date /\ j <= i

\* The summary answers the three queries of the services as the rows do, also when
\* rows arrive with dates before those of earlier rows.
SummaryAnswersQueries ==
    /\ summary.sum = SumOfRows
    /\ rows # << >> => summary.running = Last(rows).running
    /\ \A i \in DOMAIN rows :
          LastByDate(i) => /\ summary.datedRunning = rows[i].running
                           /\ summary.date = rows[i].date
=============================================================================
