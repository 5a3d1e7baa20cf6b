----------------------------- MODULE StockOpname -----------------------------
(***************************************************************************)
(* StockOpnameService: the periodic count of a warehouse, beside the       *)
(* transfers and adjustments of Inventory.                                 *)
(*                                                                         *)
(* An opname locks its warehouse and records the system quantities;        *)
(* clerks record what they counted; finalize posts the differences with    *)
(* adjustStock, then completes the opname and unlocks the warehouse.       *)
(*                                                                         *)
(* Every call is several statements.  initiate and recordCount read first  *)
(* and write later, without a lock on what they read.  finalize is three   *)
(* transactions: its check, the attempts of adjustStock (the session of    *)
(* Inventory serves it), and the completion.                               *)
(***************************************************************************)
EXTENDS Inventory, SequencesExt

CONSTANTS
    Clerks,         \* sessions that serve calls of StockOpnameService; the others
                    \* serve those of InventoryService
    Items,          \* the bodies of recordCount: sequences of [product, qty_counted]
    MaxOpnames      \* bound on the number of opnames

ASSUME ClerksAssumption == Clerks \subseteq Sessions
ASSUME ItemsAssumption == Items \subseteq Seq([product : Products, qty_counted : Nat])
ASSUME ProductsFinite == IsFiniteSet(Products)

VARIABLES
    opnames,        \* stock_opnames with their stock_opname_lines, by id
    call,           \* the opname call a session serves
    history         \* what happened to an opname, by id; read by no operation

opnameVars == <<opnames, call, history>>
allVars == <<vars, opnameVars>>

\* qty_counted and qty_difference are null until the line is counted.
OpnameLine ==
    [product : Products, qty_system : Nat, qty_difference : Int,
     status : {"PENDING", "COUNTED"}]
Opname ==
    [warehouse : Warehouses, status : {"INITIATED", "IN_PROGRESS", "COMPLETED"},
     lines : Seq(OpnameLine)]

\* What adjustments posted for the opname, per product; whether somebody unlocked its
\* warehouse by hand; whether the last transaction of a finalize failed.
NoHistory == [posted |-> [p \in Products |-> 0], unlocked |-> FALSE, failed |-> FALSE]
History == [posted : [Products -> Int], unlocked : BOOLEAN, failed : BOOLEAN]

NoCall == [step |-> "none"]
Calls ==
    {NoCall}
      \cup [step : {"initiating"}, warehouse : Warehouses]
      \cup [step : {"counting"}, opname : Nat, seen : Opname,
            items : Seq([product : Products, qty_counted : Nat])]
      \cup [step : {"adjusting", "completing"}, opname : Nat, seen : Opname]

OpnameTypeOK ==
    /\ TypeOK
    /\ opnames \in Seq(Opname)
    /\ call \in [Sessions -> Calls]
    /\ \A s \in Sessions : call[s].step \in {"counting", "adjusting", "completing"} =>
          call[s].opname \in DOMAIN opnames
    /\ history \in Seq(History) /\ Len(history) = Len(opnames)

OpnameInit ==
    /\ Init
    /\ opnames = << >>
    /\ call = [s \in Sessions |-> NoCall]
    /\ history = << >>

FreeClerk(c) == pc[c] = "idle" /\ call[c] = NoCall

Ends(c) == call' = [call EXCEPT ![c] = NoCall]

-----------------------------------------------------------------------------
(* initiate *)

\* Reads the warehouse and finds it unlocked.  A locked one ends the call.
InitiateCheck(c, w) ==
    /\ FreeClerk(c)
    /\ Len(opnames) < MaxOpnames
    /\ ~is_locked[w]
    /\ call' = [call EXCEPT ![c] = [step |-> "initiating", warehouse |-> w]]
    /\ UNCHANGED <<vars, opnames, history>>

\* Products with stock in the warehouse: the result of the groupBy.
InStock(w) == {p \in Products : ledger[<<p, w>>].sum > 0}

SystemLine(p, w) ==
    [product |-> p, qty_system |-> ledger[<<p, w>>].sum, qty_difference |-> 0,
     status |-> "PENDING"]

NewOpname(w) ==
    LET products == SetToSeq(InStock(w)) IN
    [warehouse |-> w, status |-> "INITIATED",
     lines |-> [i \in DOMAIN products |-> SystemLine(products[i], w)]]

\* Locks the warehouse, whatever is_locked has become since the check (the UPDATE
\* names the id only), and creates the opname with the quantities of this moment.
\* The row lock of the UPDATE orders concurrent initiates of a warehouse; rows that
\* a movement commits before this transaction does are those of a movement that
\* read is_locked before.
InitiateWrite(c) ==
    /\ call[c].step = "initiating"
    /\ is_locked' = [is_locked EXCEPT ![call[c].warehouse] = TRUE]
    /\ opnames' = Append(opnames, NewOpname(call[c].warehouse))
    /\ history' = Append(history, NoHistory)
    /\ Ends(c)
    /\ UNCHANGED <<ledger, rowLock, own, pc, attempt, req, next, outcome>>

-----------------------------------------------------------------------------
(* recordCount and requestRecount *)

\* Mutant: a completed opname is counted again.
CountReadCompleted(c, o, items) ==
    /\ FreeClerk(c)
    /\ call' = [call EXCEPT ![c] = [step |-> "counting", opname |-> o,
                                    seen |-> opnames[o], items |-> items]]
    /\ UNCHANGED <<vars, opnames, history>>

\* Reads the opname with its lines and finds it not completed.
CountRead(c, o, items) ==
    /\ FreeClerk(c)
    /\ opnames[o].status # "COMPLETED"
    /\ call' = [call EXCEPT ![c] = [step |-> "counting", opname |-> o,
                                    seen |-> opnames[o], items |-> items]]
    /\ UNCHANGED <<vars, opnames, history>>

\* The rows of a sequence at some places, in an order of their own: they are read
\* without orderBy.
RowsAt(rows, places) ==
    LET order == SetToSeq(places) IN [n \in DOMAIN order |-> rows[order[n]]]

ItemsFor(items, p) == {n \in DOMAIN items : items[n].product = p}

Counted(p, system, qty) ==
    [product |-> p, qty_system |-> system, qty_difference |-> qty - system,
     status |-> "COUNTED"]

\* opname.lines.find(l => l.product_id === item.product_id): the first such line.
FirstLineOf(lines, i) == \A j \in 1..(i - 1) : lines[j].product # lines[i].product

\* A line found in the lines that were read takes the last count given for its
\* product; each count of another product becomes a new line.
CountedLines(now, seen, items) ==
    [i \in DOMAIN now |->
        IF i \in DOMAIN seen /\ FirstLineOf(seen, i) /\ ItemsFor(items, now[i].product) # {}
        THEN Counted(now[i].product, seen[i].qty_system,
                     items[Max(ItemsFor(items, now[i].product))].qty_counted)
        ELSE now[i]]
    \o LET new == RowsAt(items, {n \in DOMAIN items :
                        \A l \in ToSet(seen) : l.product # items[n].product})
       IN  [i \in DOMAIN new |-> Counted(new[i].product, 0, new[i].qty_counted)]

\* Writes the counts.  The status is written only if INITIATED was read, and then
\* over whatever it has become.
CountWrite(c) ==
    LET o == call[c].opname
        seen == call[c].seen
    IN  /\ call[c].step = "counting"
        /\ opnames' = [opnames EXCEPT
              ![o].status = IF seen.status = "INITIATED" THEN "IN_PROGRESS" ELSE @,
              ![o].lines = CountedLines(@, seen.lines, call[c].items)]
        /\ Ends(c)
        /\ UNCHANGED <<vars, history>>

\* requestRecount does not look at the status of the opname.
RequestRecount(c, o, p) ==
    /\ FreeClerk(c)
    /\ LET lines == opnames[o].lines IN
       opnames' = [opnames EXCEPT ![o].lines =
          [i \in DOMAIN lines |->
              IF lines[i].product = p THEN [lines[i] EXCEPT !.status = "PENDING"]
              ELSE lines[i]]]
    /\ UNCHANGED <<vars, call, history>>

-----------------------------------------------------------------------------
(* finalize *)

Discrepancies(lines) == {i \in DOMAIN lines : lines[i].qty_difference # 0}

\* The body of adjustStock: qty_actual - qty_system of every line that differs.
AdjustmentOf(opname) ==
    LET lines == RowsAt(opname.lines, Discrepancies(opname.lines)) IN
    [op |-> "ADJUST", from |-> opname.warehouse, to |-> opname.warehouse, date |-> 1,
     lines |-> [i \in DOMAIN lines |->
                   [product |-> lines[i].product, qty |-> lines[i].qty_difference]]]

\* Mutant: lines that wait for a recount are finalized with their old count.
NothingPendingUnchecked(opname) == TRUE

NothingPending(opname) == \A l \in ToSet(opname.lines) : l.status # "PENDING"

\* The check before the transactions: not completed, nothing pending.
MayFinalize(o) == opnames[o].status # "COMPLETED" /\ NothingPending(opnames[o])

\* Without discrepancies finalize goes to the completion at once.
FinalizeCheck(c, o) ==
    /\ FreeClerk(c)
    /\ MayFinalize(o)
    /\ Discrepancies(opnames[o].lines) = {}
    /\ call' = [call EXCEPT ![c] = [step |-> "completing", opname |-> o,
                                    seen |-> opnames[o]]]
    /\ UNCHANGED <<vars, opnames, history>>

\* With discrepancies it first calls adjustStock.
FinalizeAdjust(c, o) ==
    /\ FreeClerk(c)
    /\ MayFinalize(o)
    /\ Discrepancies(opnames[o].lines) # {}
    /\ StartServing(c, AdjustmentOf(opnames[o]))
    /\ call' = [call EXCEPT ![c] = [step |-> "adjusting", opname |-> o,
                                    seen |-> opnames[o]]]
    /\ UNCHANGED <<opnames, history>>

\* adjustStock returned, or its exception leaves finalize.
Adjusted(c) ==
    /\ call[c].step = "adjusting"
    /\ pc[c] = "idle"
    /\ IF outcome[c] = "ok"
       THEN call' = [call EXCEPT ![c].step = "completing"]
       ELSE Ends(c)
    /\ UNCHANGED <<vars, opnames, history>>

\* Mutant: the warehouse is unlocked, the opname stays open.
CompleteUnlockOnly(c) ==
    /\ call[c].step = "completing"
    /\ is_locked' = [is_locked EXCEPT ![call[c].seen.warehouse] = FALSE]
    /\ Ends(c)
    /\ UNCHANGED <<ledger, rowLock, own, pc, attempt, req, next, outcome, opnames, history>>

\* The last transaction: COMPLETED, and the warehouse unlocked.
Complete(c) ==
    /\ call[c].step = "completing"
    /\ opnames' = [opnames EXCEPT ![call[c].opname].status = "COMPLETED"]
    /\ is_locked' = [is_locked EXCEPT ![call[c].seen.warehouse] = FALSE]
    /\ Ends(c)
    /\ UNCHANGED <<ledger, rowLock, own, pc, attempt, req, next, outcome, history>>

\* The completion fails in the database and finalize with it.  The adjustment of
\* the step before stays.  Bound: once for an opname.
CompleteFails(c) ==
    /\ call[c].step = "completing"
    /\ ~history[call[c].opname].failed
    /\ history' = [history EXCEPT ![call[c].opname].failed = TRUE]
    /\ Ends(c)
    /\ UNCHANGED <<vars, opnames>>

-----------------------------------------------------------------------------
(* The services together *)

Initiating(c) == \E w \in Warehouses : InitiateCheck(c, w)
Counting(c) == \E o \in DOMAIN opnames, items \in Items : CountRead(c, o, items)
Recounting(c) == \E o \in DOMAIN opnames, p \in Products : RequestRecount(c, o, p)
Finalizing(c) == \E o \in DOMAIN opnames : FinalizeCheck(c, o) \/ FinalizeAdjust(c, o)

OpnameStep(c) ==
    \/ Initiating(c) \/ InitiateWrite(c)
    \/ Counting(c) \/ CountWrite(c) \/ Recounting(c)
    \/ Finalizing(c) \/ Adjusted(c) \/ Complete(c) \/ CompleteFails(c)

\* A step of InventoryService.  A commit made for an opname enters its history.
InventoryStep(s) ==
    /\ (s \notin Clerks /\ Arrive(s)) \/ Serve(s) \/ TxFails(s)
    /\ IF Commit(s) /\ call[s].step = "adjusting"
       THEN history' = [history EXCEPT ![call[s].opname].posted =
              [p \in Products |->
                  @[p] + own[s][<<p, call[s].seen.warehouse>>].delta]]
       ELSE UNCHANGED history
    /\ UNCHANGED <<opnames, call>>

LockByHand(w) == LockWarehouse(w) /\ UNCHANGED opnameVars

UnlockByHand(w) ==
    /\ UnlockWarehouse(w)
    /\ history' = [o \in DOMAIN history |->
                      IF opnames[o].warehouse = w /\ opnames[o].status # "COMPLETED"
                      THEN [history[o] EXCEPT !.unlocked = TRUE]
                      ELSE history[o]]
    /\ UNCHANGED <<opnames, call>>

OpnameNext ==
    \/ \E c \in Clerks : OpnameStep(c)
    \/ \E s \in Sessions : InventoryStep(s)
    \/ \E w \in Warehouses : LockByHand(w) \/ UnlockByHand(w)

OpnameSpec == OpnameInit /\ [][OpnameNext]_allVars

-----------------------------------------------------------------------------
(* Properties *)

\* The difference an opname found for a product, all its lines together.
Difference(opname, p) ==
    SumFunction([i \in DOMAIN opname.lines |->
        IF opname.lines[i].product = p THEN opname.lines[i].qty_difference ELSE 0])

PostedAsCounted(o) == \A p \in Products : history[o].posted[p] = Difference(opnames[o], p)

UnlockedByHand(w) == \E o \in DOMAIN opnames : opnames[o].warehouse = w /\ history[o].unlocked

\* "Locks warehouse on initiate, unlocks on finalize (BR-INV-005)": while an opname
\* is open its warehouse is locked, unless somebody unlocked it by hand during an
\* opname; that also lets a second opname begin beside the first.
OpenOpnameLocked ==
    \A o \in DOMAIN opnames :
        LET w == opnames[o].warehouse
        IN  opnames[o].status # "COMPLETED" /\ ~UnlockedByHand(w) => is_locked[w]

\* An opname is completed with every line counted and with exactly the counted
\* differences posted, after adjustments that were refused or failed and finalize
\* called again.  A completion that failed is excepted: what was posted before it is
\* posted again.
CompletionIsSettled ==
    [][\A o \in DOMAIN opnames :
          opnames[o].status # "COMPLETED" /\ opnames'[o].status = "COMPLETED" =>
            /\ \A l \in ToSet(opnames[o].lines) : l.status = "COUNTED"
            /\ history[o].failed \/ PostedAsCounted(o)]_allVars

\* What a completed opname found and posted stays as it is, and so does its status.
CompletedIsFinal ==
    [][\A o \in DOMAIN opnames :
          opnames[o].status = "COMPLETED" =>
            /\ opnames'[o].status = "COMPLETED"
            /\ history'[o].posted = history[o].posted
            /\ \A p \in Products :
                  Difference(opnames'[o], p) = Difference(opnames[o], p)]_allVars

\* "Finalize the opname, create adjustments, and unlock warehouse": the adjustment
\* of an opname is not refused for the lock that the opname itself holds.
FinalizeNotRefused ==
    [][\A c \in Clerks :
          call[c].step = "adjusting" => ~RefuseLockedWarehouse(c)]_allVars

\* While stock moves, opnames keep their warehouses locked.
OpnameHolds == OpnameTypeOK /\ StockNonNegative /\ OpenOpnameLocked
=============================================================================
