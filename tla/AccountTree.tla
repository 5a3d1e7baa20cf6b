----------------------------- MODULE AccountTree -----------------------------
(***************************************************************************)
(* CoaService: accounts are created under a header account one level up,   *)
(* changed field by field, and deleted softly, by clerks whose checks and  *)
(* writes are statements of their own, while journal lines are posted.     *)
(*                                                                         *)
(* getTree shows the accounts that are not deleted, from the roots down.   *)
(* Branches, is_active and the cache (module Cache) are left out.          *)
(***************************************************************************)
EXTENDS Integers, FiniteSets

CONSTANTS
    Ids,                \* accounts, and those there may be
    Codes, LevelOf,     \* account codes; getAccountCodeLevel
    AccountTypes,
    None,               \* no parent
    Clerks,
    NewRows,            \* the [header, type] of the accounts that clerks enter
    Changes,            \* the [field, value] of updates
    System              \* is_system accounts of the seed: headers of level 1

VARIABLES
    account,            \* the row of each id
    used,               \* accounts with journal lines
    clerk,              \* what each clerk's call has read
    changed             \* accounts whose place an update has changed

treeVars == <<account, used, clerk, changed>>

Idle == [op |-> "idle"]
Exists(a) == account[a].state # "absent"
Live(a) == account[a].state = "live"

Row(code, parent, header, type) ==
    [state |-> "live", code |-> code, parent |-> parent, header |-> header,
     type |-> type, level |-> LevelOf[code]]

\* The row with another value in one field; the level is never written again.
Edited(a, field, value) ==
    [state  |-> IF field = "state" THEN value ELSE account[a].state,
     code   |-> IF field = "code" THEN value ELSE account[a].code,
     parent |-> IF field = "parent" THEN value ELSE account[a].parent,
     header |-> IF field = "header" THEN value ELSE account[a].header,
     type   |-> IF field = "type" THEN value ELSE account[a].type,
     level  |-> account[a].level]

Absent == [state |-> "absent", code |-> None]

TreeInit ==
    /\ \E e \in NewRows, code \in [System -> {c \in Codes : LevelOf[c] = 1}] :
          /\ Cardinality({code[a] : a \in System}) = Cardinality(System)
          /\ account = [a \in Ids |-> IF a \in System THEN Row(code[a], None, TRUE, e.type)
                                      ELSE Absent]
    /\ used = {} /\ changed = {}
    /\ clerk = [c \in Clerks |-> Idle]

-----------------------------------------------------------------------------
(* create *)

CodeTaken(code, by) == \E a \in Ids \ by : Live(a) /\ account[a].code = code

\* Mutant: any account is taken for a parent.
ParentFitsAlways(code, parent) == parent # None => Live(parent)

\* The parent is a live header account of the level above; without one the level is 1.
ParentFits(code, parent) ==
    IF parent = None THEN LevelOf[code] = 1
    ELSE Live(parent) /\ account[parent].header /\ LevelOf[code] = account[parent].level + 1

CreateRead(c, code, parent, entered) ==
    /\ clerk[c] = Idle
    /\ ~CodeTaken(code, {}) /\ ParentFits(code, parent)
    /\ clerk' = [clerk EXCEPT ![c] =
                    [op |-> "create", row |-> Row(code, parent, entered.header, entered.type)]]
    /\ UNCHANGED <<account, used, changed>>

\* account_code is unique in the table, deleted accounts included.
Unique(code, by) == \A a \in Ids \ by : Exists(a) => account[a].code # code

CreateWrite(c) ==
    /\ clerk[c].op = "create"
    /\ clerk' = [clerk EXCEPT ![c] = Idle]
    /\ \/ /\ Unique(clerk[c].row.code, {})
          /\ \E a \in Ids : ~Exists(a) /\ account' = [account EXCEPT ![a] = clerk[c].row]
       \/ /\ ~Unique(clerk[c].row.code, {})
          /\ UNCHANGED account
    /\ UNCHANGED <<used, changed>>

-----------------------------------------------------------------------------
(* update, of one field *)

\* The type of an account that has journal lines stays.
TypeMayChange(a, type) == type = account[a].type \/ a \notin used

UpdateRead(c, a, field, value) ==
    /\ clerk[c] = Idle /\ Live(a)
    /\ field = "code" => ~CodeTaken(value, {a})
    /\ field = "type" => TypeMayChange(a, value)
    /\ clerk' = [clerk EXCEPT ![c] = [op |-> "update", id |-> a, field |-> field,
                                      value |-> value, unused |-> a \notin used,
                                      same |-> account[a][field] = value]]
    /\ UNCHANGED <<account, used, changed>>

\* A new parent is not looked at, a new code gives no new level, and a header account
\* keeps the accounts below it when it ceases to be one.
UpdateWrite(c) ==
    LET u == clerk[c] IN
    /\ u.op = "update"
    /\ clerk' = [clerk EXCEPT ![c] = Idle]
    /\ IF u.field = "code" /\ ~Unique(u.value, {u.id}) THEN UNCHANGED <<account, changed>>
       ELSE /\ account' = [account EXCEPT ![u.id] = Edited(u.id, u.field, u.value)]
            /\ changed' = IF u.field = "type" THEN changed ELSE changed \cup {u.id}
    /\ UNCHANGED used

-----------------------------------------------------------------------------
(* softDelete; journal lines *)

\* Journal lines are looked for, and nothing follows from them.
DeleteRead(c, a) ==
    /\ clerk[c] = Idle /\ Live(a) /\ a \notin System
    /\ clerk' = [clerk EXCEPT ![c] = [op |-> "delete", id |-> a]]
    /\ UNCHANGED <<account, used, changed>>

DeleteWrite(c) ==
    /\ clerk[c].op = "delete"
    /\ account' = [account EXCEPT ![clerk[c].id] = Edited(clerk[c].id, "state", "deleted")]
    /\ clerk' = [clerk EXCEPT ![c] = Idle]
    /\ UNCHANGED <<used, changed>>

\* Any account can be posted to: nothing calls validatePostable.
PostLine(a) ==
    /\ Exists(a) /\ a \notin used
    /\ used' = used \cup {a}
    /\ UNCHANGED <<account, clerk, changed>>

TreeNext ==
    \/ \E c \in Clerks :
          \/ \E code \in Codes, parent \in Ids \cup {None}, e \in NewRows :
                CreateRead(c, code, parent, e)
          \/ \E a \in Ids, u \in Changes :
                /\ u.field = "parent" /\ u.value # None => Exists(u.value)
                /\ UpdateRead(c, a, u.field, u.value)
          \/ \E a \in Ids : DeleteRead(c, a)
          \/ CreateWrite(c) \/ UpdateWrite(c) \/ DeleteWrite(c)
    \/ \E a \in Ids : PostLine(a)

-----------------------------------------------------------------------------
(* Properties *)

\* Where no update has changed an account or its parent, the parent is a header account
\* one level up, whatever ran beside the creation.
HierarchyKept ==
    \A a \in Ids : Exists(a) /\ a \notin changed =>
        IF account[a].parent = None THEN account[a].level = 1
        ELSE account[a].parent \notin changed =>
                /\ account[account[a].parent].header
                /\ account[a].level = account[account[a].parent].level + 1

\* The type of an account with journal lines changes only through an update that looked
\* for lines before the first was posted, or that writes the type it read.
TypeFollowsUse ==
    \A a \in used : account'[a].type # account[a].type =>
        \E c \in Clerks : clerk[c].op = "update" /\ clerk[c].id = a
                          /\ (clerk[c].unused \/ clerk[c].same)

\* CoaService: no step leads an account out of its place, or changes a type in use in
\* another way.
TreeHolds == [][HierarchyKept' /\ TypeFollowsUse]_treeVars
=============================================================================
