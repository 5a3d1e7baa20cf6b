------------------------------ MODULE MasterData ------------------------------
(***************************************************************************)
(* The services of products, customers, suppliers, branches, warehouses,   *)
(* categories and units: rows are created with a code, changed, and        *)
(* deleted softly.  Each service looks for the code before it writes, in a *)
(* statement of its own, and in rows of its own choice; the database keeps *)
(* codes distinct in the whole table.                                      *)
(*                                                                         *)
(* One table is looked at at a time.  A row is [state, code, place], where *)
(* the place is the branch of a warehouse; other columns are left out.     *)
(***************************************************************************)
EXTENDS Integers, FiniteSets

CONSTANTS
    Ids, Codes,
    Places,             \* branches that have warehouses
    Clerks

VARIABLES
    table,              \* the table looked at
    row,                \* the row of each id
    clerk,              \* what each clerk's call has read
    refused             \* of the last write that the database refused: what the row in its
                        \* way was when the service looked for the code

masterVars == <<table, row, clerk, refused>>

Tables == {"product", "customer", "supplier", "branch", "warehouse", "category", "uom"}
Idle == [op |-> "idle"]
Absent == [state |-> "absent", code |-> "", place |-> ""]

MasterInit ==
    /\ table \in Tables
    /\ row = [i \in Ids |-> Absent]
    /\ clerk = [c \in Clerks |-> Idle]
    /\ refused = "none"

-----------------------------------------------------------------------------
(* Reads and writes *)

Present(i) == row[i].state # "absent"
Live(i) == row[i].state = "live"

\* Codes are distinct in a table, those of warehouses in a branch.
SameKey(i, code, place) ==
    Present(i) /\ row[i].code = code /\ (table = "warehouse" => row[i].place = place)

\* Mutant: the row that is to change is not left out, and no other is looked at.
TakenByItself(code, place, by) == \E i \in by : Live(i) /\ SameKey(i, code, place)

\* A row that is not deleted has the code.
Taken(code, place, by) == \E i \in Ids \ by : Live(i) /\ SameKey(i, code, place)

\* A call goes on to its write, of the row own if there is one; seen is who had the code.
GoesOn(c, op, own, code, place) ==
    /\ clerk[c] = Idle
    /\ clerk' = [clerk EXCEPT ![c] =
                   [op |-> op, own |-> own, code |-> code, place |-> place,
                    seen |-> [j \in Ids |-> IF SameKey(j, code, place) THEN row[j].state
                                            ELSE "free"]]]
    /\ UNCHANGED <<table, row, refused>>

Creates(c, t, code, place) ==
    /\ table = t
    /\ GoesOn(c, "create", {}, code, place)

\* A change of the code, the place or neither.
Changes(c, t, i, code, place) ==
    /\ table = t /\ Live(i)
    /\ code # row[i].code => ~Taken(code, place, {i})
    /\ GoesOn(c, "update", {i}, code, place)

Deletes(c, t, i) ==
    /\ table = t /\ Live(i)
    /\ GoesOn(c, "delete", {i}, row[i].code, row[i].place)

InWay(w) == {j \in Ids \ w.own : SameKey(j, w.code, w.place)}

\* The transaction of a call.  An insert takes an id of its own; an update gives code and
\* place, whatever else it gives, and leaves a deleted row deleted.
Insert(c) ==
    /\ clerk[c].op = "create" /\ InWay(clerk[c]) = {}
    /\ \E i \in Ids : ~Present(i) /\ row' = [row EXCEPT ![i] =
          [state |-> "live", code |-> clerk[c].code, place |-> clerk[c].place]]
    /\ clerk' = [clerk EXCEPT ![c] = Idle] /\ UNCHANGED <<table, refused>>

Update(c) ==
    /\ clerk[c].op = "update" /\ InWay(clerk[c]) = {}
    /\ row' = [i \in Ids |-> IF i \in clerk[c].own
                 THEN [state |-> row[i].state, code |-> clerk[c].code, place |-> clerk[c].place]
                 ELSE row[i]]
    /\ clerk' = [clerk EXCEPT ![c] = Idle] /\ UNCHANGED <<table, refused>>

SetState(c, op, state) ==
    /\ clerk[c].op = op
    /\ row' = [i \in Ids |-> IF i \in clerk[c].own THEN [row[i] EXCEPT !.state = state]
                            ELSE row[i]]
    /\ clerk' = [clerk EXCEPT ![c] = Idle] /\ UNCHANGED <<table, refused>>

Refuse(c) ==
    /\ clerk[c].op \in {"create", "update"} /\ InWay(clerk[c]) # {}
    /\ refused' \in {clerk[c].seen[j] : j \in InWay(clerk[c])}
    /\ clerk' = [clerk EXCEPT ![c] = Idle] /\ UNCHANGED <<table, row>>

-----------------------------------------------------------------------------
(* The services *)

ProductCreate(c, code) == ~Taken(code, "", {}) /\ Creates(c, "product", code, "")
ProductUpdate(c, i, code) == Changes(c, "product", i, code, "")
ProductDeactivate(c, i) == Deletes(c, "product", i)

CustomerCreate(c, code) == ~Taken(code, "", {}) /\ Creates(c, "customer", code, "")
CustomerUpdate(c, i, code) == Changes(c, "customer", i, code, "")
CustomerDeactivate(c, i) == Deletes(c, "customer", i)

SupplierCreate(c, code) == ~Taken(code, "", {}) /\ Creates(c, "supplier", code, "")
SupplierUpdate(c, i, code) == Changes(c, "supplier", i, code, "")
SupplierDeactivate(c, i) == Deletes(c, "supplier", i)

WarehouseCreate(c, code, place) ==
    ~Taken(code, place, {}) /\ Creates(c, "warehouse", code, place)
\* A warehouse may move to another branch; its code is looked for there if it changes too.
WarehouseUpdate(c, i, code, place) == Changes(c, "warehouse", i, code, place)
WarehouseDeactivate(c, i) == Deletes(c, "warehouse", i)

\* createBranch looks for its head office as well, which is there for good.
BranchCreate(c, code) == ~Taken(code, "", {}) /\ Creates(c, "branch", code, "")
\* updateBranch writes what it gets.
BranchUpdate(c, i, code) ==
    table = "branch" /\ Present(i) /\ GoesOn(c, "update", {i}, code, "")

\* No code is looked for, and a deleted category is deleted again.
CategoryCreate(c, code) == Creates(c, "category", code, "")
CategoryDelete(c, i) ==
    table = "category" /\ Present(i) /\ GoesOn(c, "delete", {i}, row[i].code, "")

\* Units are deactivated and activated: their codes stay taken for the service as well.
UomCreate(c, code) ==
    (\A i \in Ids : ~SameKey(i, code, "")) /\ Creates(c, "uom", code, "")
UomUpdate(c, i) == table = "uom" /\ Present(i) /\ GoesOn(c, "activate", {i}, row[i].code, "")
UomDelete(c, i) == table = "uom" /\ Present(i) /\ GoesOn(c, "delete", {i}, row[i].code, "")

MasterNext ==
    \E c \in Clerks :
        \/ \E code \in Codes :
              \/ ProductCreate(c, code) \/ CustomerCreate(c, code) \/ SupplierCreate(c, code)
              \/ BranchCreate(c, code) \/ CategoryCreate(c, code) \/ UomCreate(c, code)
              \/ \E i \in Ids : \/ ProductUpdate(c, i, code) \/ CustomerUpdate(c, i, code)
                                \/ SupplierUpdate(c, i, code) \/ BranchUpdate(c, i, code)
              \/ \E place \in Places :
                    \/ WarehouseCreate(c, code, place)
                    \/ \E i \in Ids : WarehouseUpdate(c, i, code, place)
        \/ \E i \in Ids : \/ ProductDeactivate(c, i) \/ CustomerDeactivate(c, i)
                          \/ SupplierDeactivate(c, i) \/ WarehouseDeactivate(c, i)
                          \/ CategoryDelete(c, i) \/ UomUpdate(c, i) \/ UomDelete(c, i)
        \/ Insert(c) \/ Update(c) \/ Refuse(c)
        \/ SetState(c, "delete", "deleted") \/ SetState(c, "activate", "live")

-----------------------------------------------------------------------------
(* Properties *)

\* Where a service looks for the code first, the database refuses a write only for a code
\* that was free then, or that of a deleted row: those codes pass the check, and cannot
\* be used again.  A warehouse that moves with its code is not looked for, branches and
\* categories are not at all.
ConflictsAreExpected ==
    table \in {"product", "customer", "supplier", "uom"} =>
        refused # "live" /\ (table = "uom" => refused # "deleted")
=============================================================================
