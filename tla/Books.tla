-------------------------------- MODULE Books --------------------------------
(***************************************************************************)
(* The books: fiscal periods (PeriodManagerService), the entries posted to *)
(* them (AccountingService.postJournalEntry and reverseJournalEntry,       *)
(* JournalEngineService.processEvent and createManualEntry outside a       *)
(* caller's transaction) and the close of a period, which exists twice: in *)
(* PeriodManagerService with its checks, and in AccountingService, which   *)
(* the route calls, with the closing entry.                                *)
(*                                                                         *)
(* Every call reads and checks, and writes later; nothing is locked.  A    *)
(* call is two steps.  An entry is the net debit it leaves on each kind of *)
(* account, in cents: REVENUE, EXPENSE (COGS too), and OTHER, the balance  *)
(* sheet.  Dates of a period are numbers in order.                         *)
(***************************************************************************)
EXTENDS Integers, Sequences, SequencesExt, Functions, FiniteSets

CONSTANTS
    Clerks,         \* sessions
    Spans,          \* bodies of createPeriod: [month, first, last]
    FirstPeriods,   \* the periods that the seed left, in order of time
    Lines,          \* bodies of entries: net debit per kind of account
    References,     \* documents whose events are posted
    MaxPeriods, MaxEntries      \* bounds

Kinds == {"REVENUE", "EXPENSE", "OTHER"}
Nets == [Kinds -> Int]
Status == {"DRAFT", "OPEN", "CLOSED"}
PeriodRows == [span : Spans, status : Status, closing : {"none", "unposted", "posted"}]
Disjoint(a, b) == a.last < b.first \/ b.last < a.first

\* The seed makes the months of some years, one of them OPEN.
ASSUME BooksAssumption ==
    /\ Spans \subseteq [month : Nat, first : Nat, last : Nat]
    /\ \A b \in Spans : b.first < b.last
    /\ Lines \subseteq Nets
    /\ FirstPeriods \in Seq(PeriodRows)
    /\ \A p, q \in DOMAIN FirstPeriods : p # q =>
          /\ Disjoint(FirstPeriods[p].span, FirstPeriods[q].span)
          /\ ~(FirstPeriods[p].status = "OPEN" /\ FirstPeriods[q].status = "OPEN")

VARIABLES periods, entries, call, history
vars == <<periods, entries, call, history>>

\* What a call is about, and what an entry is for.
Calendar == <<"calendar", 0>>
Opening == <<"open", 0>>
Period(p) == <<"period", p>>
Entered(e) == <<"entry", e>>
Manual == <<"manual", 0>>
Event(r) == <<"event", r>>
Reversal(e) == <<"reversal", e>>
Closing(p) == <<"closing", p>>
Purposes == {"manual", "event", "reversal", "closing"} \X (Nat \cup References)

EntryRows == [period : Nat, net : Nets, reference : Purposes, status : {"POSTED", "REVERSED"}]

NoCall == [op |-> "none"]
Calls ==
    {NoCall}
      \cup [op : {"create"}, span : Spans]
      \cup [op : {"open", "manager close"}, period : Nat]
      \cup [op : {"post", "event"}, period : Nat, net : Nets, reference : Purposes]
      \cup [op : {"reverse"}, period : Nat, entry : Nat]
      \cup [op : {"close"}, period : Nat, revenue : Int, expense : Int]

\* The rows that the services write.
TypeOK ==
    /\ periods \in Seq(PeriodRows)
    /\ entries \in Seq(EntryRows)
    /\ \A e \in DOMAIN entries : entries[e].period \in DOMAIN periods
    /\ call \in [Clerks -> Calls]

Init ==
    /\ periods = FirstPeriods
    /\ entries = << >>
    /\ call = [c \in Clerks |-> NoCall]
    /\ history = {}

Serving(c) == call[c] # NoCall
Ends(c) == call' = [call EXCEPT ![c] = NoCall]

\* What a call relies on and what it will write.
Needs(r) == IF r.op \in {"post", "event", "reverse"} THEN {Period(r.period)} ELSE {}
Writes(r) ==
    CASE r.op = "create" -> {Calendar}
      [] r.op = "open" -> {Period(r.period), Opening}
      [] r.op \in {"manager close", "close"} -> {Period(r.period)}
      [] r.op = "event" -> {r.reference}
      [] r.op = "reverse" -> {Entered(r.entry)}
      [] OTHER -> {}

\* Two calls meet where one relies on or writes what the other is about to write.
Meets(r, o) ==
    (Writes(r) \cap (Writes(o) \cup Needs(o))) \cup (Needs(r) \cap Writes(o))

Reads(c, r) ==
    /\ ~Serving(c)
    /\ call' = [call EXCEPT ![c] = r]
    /\ history' = history \cup UNION {Meets(r, call[o]) : o \in Clerks \ {c}}
    /\ UNCHANGED <<periods, entries>>

-----------------------------------------------------------------------------
(* Periods *)

\* The new span a against an existing one b.
Overlaps(a, b) ==
    \/ b.first <= a.first /\ a.first <= b.last
    \/ b.first <= a.last /\ a.last <= b.last
    \/ a.first <= b.first /\ b.last <= a.last

CreateRead(c, b) ==
    /\ Len(periods) < MaxPeriods
    /\ \A p \in DOMAIN periods :
          periods[p].span.month # b.month /\ ~Overlaps(b, periods[p].span)
    /\ Reads(c, [op |-> "create", span |-> b])

\* year and month are unique in the table.
CreatePeriod(c) ==
    LET b == call[c].span IN
    /\ call[c].op = "create"
    /\ \A p \in DOMAIN periods : periods[p].span.month # b.month
    /\ periods' = Append(periods, [span |-> b, status |-> "DRAFT", closing |-> "none"])
    /\ Ends(c) /\ UNCHANGED <<entries, history>>

OpenRead(c, p) ==
    /\ periods[p].status = "DRAFT"
    /\ \A q \in DOMAIN periods : periods[q].status # "OPEN"
    /\ Reads(c, [op |-> "open", period |-> p])

OpenPeriod(c) ==
    /\ call[c].op = "open"
    /\ periods' = [periods EXCEPT ![call[c].period].status = "OPEN"]
    /\ Ends(c) /\ UNCHANGED <<entries, history>>

Earlier(p) == {q \in DOMAIN periods : periods[q].span.month < periods[p].span.month}

\* The items of the checklist that are not about entries (invoices, payments, bank
\* reconciliations, opnames) pass or fail.
Sum(net) == net["REVENUE"] + net["EXPENSE"] + net["OTHER"]
Abs(n) == IF n < 0 THEN -n ELSE n
Cent == 1
Checklist(p) ==
    \A e \in DOMAIN entries : entries[e].period = p => Abs(Sum(entries[e].net)) <= Cent

ClosedRow(p, closing) == [span |-> periods[p].span, status |-> "CLOSED", closing |-> closing]

\* PeriodManagerService.closePeriod.
ManagerCloseRead(c, p) ==
    /\ periods[p].status = "OPEN"
    /\ \A q \in Earlier(p) : periods[q].status = "CLOSED"
    /\ Checklist(p)
    /\ Reads(c, [op |-> "manager close", period |-> p])

ManagerClose(c) ==
    LET p == call[c].period IN
    /\ call[c].op = "manager close"
    /\ periods' = [periods EXCEPT ![p] = ClosedRow(p, "unposted")]
    /\ Ends(c) /\ UNCHANGED <<entries, history>>

-----------------------------------------------------------------------------
(* Entries *)

Entry(p, net, reference) ==
    [period |-> p, net |-> net, reference |-> reference, status |-> "POSTED"]

\* validateBalance and validateJournalBalance: one cent is let pass.
Balanced(net) == Abs(Sum(net)) <= Cent

\* Mutant: the status of the period is not looked at.
ValidatePeriodOpenNever(p) == TRUE

\* validatePeriodOpen, of a period that exists: a DRAFT one will do.
ValidatePeriodOpen(p) == periods[p].status # "CLOSED"

\* The OPEN period that starts first.
ActivePeriod(p) ==
    /\ periods[p].status = "OPEN"
    /\ \A q \in DOMAIN periods :
          periods[q].status = "OPEN" => periods[p].span.first <= periods[q].span.first

\* postJournalEntry: the period is named, or the active one.  createManualEntry takes the
\* active one.
PostRead(c, p, net) ==
    /\ Len(entries) < MaxEntries
    /\ ValidatePeriodOpen(p) \/ ActivePeriod(p)
    /\ Balanced(net)
    /\ Reads(c, [op |-> "post", period |-> p, net |-> net, reference |-> Manual])

\* processEvent: nothing when the reference has a POSTED entry.
EventRead(c, p, reference, net) ==
    /\ Len(entries) < MaxEntries
    /\ \A e \in ToSet(entries) : ~(e.reference = reference /\ e.status = "POSTED")
    /\ ValidatePeriodOpen(p) /\ Balanced(net)
    /\ Reads(c, [op |-> "event", period |-> p, net |-> net, reference |-> reference])

Post(c) ==
    /\ call[c].op \in {"post", "event"}
    /\ Len(entries) < MaxEntries
    /\ entries' = Append(entries, Entry(call[c].period, call[c].net, call[c].reference))
    /\ Ends(c) /\ UNCHANGED <<periods, history>>

Swapped(net) == [k \in Kinds |-> -net[k]]

\* Mutant: an entry is reversed whatever its status.
ReverseReadAgain(c, e) ==
    /\ Len(entries) < MaxEntries
    /\ ValidatePeriodOpen(entries[e].period)
    /\ Reads(c, [op |-> "reverse", period |-> entries[e].period, entry |-> e])

\* reverseJournalEntry; a reversal is an entry and may be reversed itself.
ReverseRead(c, e) ==
    /\ Len(entries) < MaxEntries
    /\ entries[e].status = "POSTED"
    /\ ValidatePeriodOpen(entries[e].period)
    /\ Reads(c, [op |-> "reverse", period |-> entries[e].period, entry |-> e])

ReverseEntry(c) ==
    LET e == call[c].entry IN
    /\ call[c].op = "reverse"
    /\ Len(entries) < MaxEntries
    /\ entries' = Append([entries EXCEPT ![e].status = "REVERSED"],
                         Entry(entries[e].period, Swapped(entries[e].net), Reversal(e)))
    /\ Ends(c) /\ UNCHANGED <<periods, history>>

-----------------------------------------------------------------------------
(* The close that the route calls *)

\* What the POSTED entries of a period leave on a kind of account.
Balance(p, kind) ==
    SumFunction([e \in DOMAIN entries |->
        IF entries[e].period = p /\ entries[e].status = "POSTED" THEN entries[e].net[kind] ELSE 0])

\* AccountingService.closePeriod: whatever the status of the period.
CloseRead(c, p) ==
    Reads(c, [op |-> "close", period |-> p,
              revenue |-> Balance(p, "REVENUE"), expense |-> Balance(p, "EXPENSE")])

\* Mutant: the costs stay.
ClosingNetRevenue(revenue, expense) ==
    [k \in Kinds |-> CASE k = "REVENUE" -> -revenue [] k = "EXPENSE" -> 0 [] OTHER -> revenue]

\* The lines that empty the accounts, and the difference to retained earnings.
ClosingNet(revenue, expense) ==
    [k \in Kinds |-> CASE k = "REVENUE" -> -revenue
                       [] k = "EXPENSE" -> -expense
                       [] OTHER -> revenue + expense]

\* Without a net income there is no entry, also when revenue and costs are not zero.
Close(c) ==
    LET p == call[c].period
        revenue == call[c].revenue
        expense == call[c].expense
        posts == revenue + expense # 0
    IN  /\ call[c].op = "close"
        /\ posts => Len(entries) < MaxEntries
        /\ entries' = IF posts THEN Append(entries, Entry(p, ClosingNet(revenue, expense),
                                                          Closing(p)))
                      ELSE entries
        /\ periods' = [periods EXCEPT ![p] =
              ClosedRow(p, IF posts \/ revenue = 0 THEN "posted" ELSE "unposted")]
        /\ Ends(c) /\ UNCHANGED history

CallFails(c) == Serving(c) /\ Ends(c) /\ UNCHANGED <<periods, entries, history>>

-----------------------------------------------------------------------------
Read(c) ==
    \/ \E b \in Spans : CreateRead(c, b)
    \/ \E p \in DOMAIN periods :
          \/ OpenRead(c, p) \/ ManagerCloseRead(c, p) \/ CloseRead(c, p)
          \/ \E net \in Lines :
                PostRead(c, p, net) \/ \E r \in References : EventRead(c, p, Event(r), net)
    \/ \E e \in DOMAIN entries : ReverseRead(c, e)

Write(c) ==
    \/ CreatePeriod(c) \/ OpenPeriod(c) \/ ManagerClose(c) \/ Close(c)
    \/ Post(c) \/ ReverseEntry(c)
    \/ CallFails(c)

Next == \E c \in Clerks : Read(c) \/ Write(c)

Spec == Init /\ [][Next]_vars

-----------------------------------------------------------------------------
(* Properties *)

\* A date has one period at most, unless two createPeriod calls meet.
PeriodsDisjoint ==
    Calendar \in history \/
    \A p, q \in DOMAIN periods : p # q => Disjoint(periods[p].span, periods[q].span)

\* "Only one period may be OPEN at a time" (openPeriod), unless two openings meet.
OneOpenPeriod ==
    Opening \in history \/
    Cardinality({p \in DOMAIN periods : periods[p].status = "OPEN"}) <= 1

\* A CLOSED period stays closed, and its entries are what they were, except for a closing
\* entry; unless a call meets a change of its status.  (BR-ACC-002)
ClosedIsSealed ==
    [][\A p \in DOMAIN periods :
          periods[p].status = "CLOSED" /\ Period(p) \notin history' =>
            /\ periods'[p].status = "CLOSED"
            /\ \A e \in DOMAIN entries' :
                  entries'[e].period = p =>
                      \/ e \in DOMAIN entries /\ entries'[e] = entries[e]
                      \/ e \notin DOMAIN entries /\ entries'[e].reference = Closing(p)]_vars

\* A period closed with its closing entry has nothing left on revenue and costs, over any
\* postings and reversals before, and a second close adds nothing; unless a call meets
\* the close.
NominalsClosed ==
    \A p \in DOMAIN periods :
        periods[p].status = "CLOSED" /\ periods[p].closing = "posted" /\ Period(p) \notin history =>
            Balance(p, "REVENUE") = 0 /\ Balance(p, "EXPENSE") = 0

\* The trial balance of a period is off by a cent per entry at most.  (BR-ACC-001)
TrialBalanceHolds ==
    \A p \in DOMAIN periods :
        Abs(Sum([k \in Kinds |-> Balance(p, k)]))
          <= Cent * Cardinality({e \in DOMAIN entries : entries[e].period = p
                                                        /\ entries[e].status = "POSTED"})

Of(reference) ==
    {e \in DOMAIN entries : entries[e].reference = reference /\ entries[e].status = "POSTED"}

\* An event counts once, and an entry has one reversal, if and only if it is
\* REVERSED; unless two calls meet at it.
PostedOnce ==
    /\ \A r \in References : Event(r) \in history \/ Cardinality(Of(Event(r))) <= 1
    /\ \A e \in DOMAIN entries :
          \/ Entered(e) \in history
          \/ Cardinality({x \in DOMAIN entries : entries[x].reference = Reversal(e)})
               = IF entries[e].status = "REVERSED" THEN 1 ELSE 0

\* The calendar: periods do not overlap, one is open, and what is closed is closed out,
\* in a trial balance that balances.
PeriodsHold ==
    TypeOK /\ PeriodsDisjoint /\ OneOpenPeriod /\ NominalsClosed /\ TrialBalanceHolds
=============================================================================
