---------------------------- MODULE ServicesProofs ----------------------------
(***************************************************************************)
(* Of the books, and of the services beside them.                          *)
(*                                                                         *)
(* That periods keep their order and their balances and that an event is   *)
(* posted once, for any clerks, spans and documents.  Neither is           *)
(* inductive: Held says what each call under way has read and that it is   *)
(* still so, as long as it has met no call that writes it; MetInv, that    *)
(* two calls under way have met wherever one relies on what the other      *)
(* writes.  NominalsClosed says what closing entries are for: revenue and  *)
(* expense of a closed period weigh nothing.                               *)
(*                                                                         *)
(* That assets and journal agree, for any assets and runs.  A run that has *)
(* met no other knows what each asset it has still to do accumulated       *)
(* (Unmet), and what it posted but did not commit is pending at it alone   *)
(* (TxInv).                                                                *)
(*                                                                         *)
(* That document numbers are unique, for every set of types, dates and     *)
(* callers.  A new number is one above its counter, and everything given   *)
(* out before is within its counter: that is CountedInv.                   *)
(*                                                                         *)
(* Then, in parts of their own: one execution for a key, copies that are   *)
(* current, one session for a login and one refresh for a tab, accounts in *)
(* their place, codes that are looked for before a write, and cached       *)
(* prices.  Each says what a call under way has read and until when it is  *)
(* still so.  The last two parts have no calls: the levels and totals that *)
(* are calculated agree, and the summary of the ledger stands for its      *)
(* rows.                                                                   *)
(***************************************************************************)
EXTENDS Books, Treasury, Services, BackOffice, SumProofs

-----------------------------------------------------------------------------
(* The books *)

\* Calls under way have met where one relies on what the other writes.
MetInv ==
    \A c, d \in Clerks : c # d => Meets(call[c], call[d]) \subseteq history

\* What a call has read still holds, unless it has met another one there.
SpanIsFree(r) ==
    r.op = "create" /\ Calendar \notin history =>
        \A p \in DOMAIN periods : Disjoint(r.span, periods[p].span)
NoneIsOpen(r) ==
    r.op = "open" /\ Opening \notin history =>
        \A p \in DOMAIN periods : periods[p].status # "OPEN"
OfPeriod == {"open", "manager close", "post", "event", "reverse", "close"}
PeriodKnown(r) == r.op \in OfPeriod => r.period \in DOMAIN periods
NotClosed(r) ==
    r.op \in {"open", "post", "event", "reverse"} /\ Period(r.period) \notin history =>
        periods[r.period].status # "CLOSED"
BalanceKnown(r) ==
    r.op = "close" /\ Period(r.period) \notin history =>
        r.revenue = Balance(r.period, "REVENUE") /\ r.expense = Balance(r.period, "EXPENSE")
EventIsNew(r) ==
    r.op = "event" /\ r.reference \notin history =>
        \A e \in DOMAIN entries :
            ~(entries[e].reference = r.reference /\ entries[e].status = "POSTED")
EntryKnown(r) ==
    r.op = "reverse" =>
        r.entry \in DOMAIN entries /\ r.period = entries[r.entry].period
EntryIsPosted(r) ==
    r.op = "reverse" /\ Entered(r.entry) \notin history => entries[r.entry].status = "POSTED"
PurposeOfCall(r) ==
    /\ r.op = "post" => r.reference = Manual
    /\ r.op = "event" => \E f \in References : r.reference = Event(f)
    /\ r.op \in {"post", "event"} => Balanced(r.net)

OnPeriods(r) == SpanIsFree(r) /\ NoneIsOpen(r) /\ PeriodKnown(r) /\ NotClosed(r)
OnEntries(r) == BalanceKnown(r) /\ EventIsNew(r) /\ EntryKnown(r) /\ EntryIsPosted(r)
Held == \A c \in Clerks : OnPeriods(call[c]) /\ OnEntries(call[c]) /\ PurposeOfCall(call[c])

\* The rows.
SpansDisjoint ==
    Calendar \in history \/
    \A p, q \in DOMAIN periods : p # q => Disjoint(periods[p].span, periods[q].span)
OneOpen ==
    Opening \in history \/
    \A p, q \in DOMAIN periods :
        periods[p].status = "OPEN" /\ periods[q].status = "OPEN" => p = q
EventsOnce ==
    \A d, e \in DOMAIN entries :
        /\ entries[d].reference = entries[e].reference /\ entries[d].reference \notin history
        /\ \E r \in References : entries[d].reference = Event(r)
        /\ entries[d].status = "POSTED" /\ entries[e].status = "POSTED"
        => d = e
ReversedOnce ==
    \A e \in DOMAIN entries : Entered(e) \notin history =>
        /\ \A x, y \in DOMAIN entries :
              entries[x].reference = Reversal(e) /\ entries[y].reference = Reversal(e) => x = y
        /\ entries[e].status = "REVERSED"
             <=> \E x \in DOMAIN entries : entries[x].reference = Reversal(e)
ReversalsKnown ==
    \A x \in DOMAIN entries :
        entries[x].reference[1] = "reversal" => entries[x].reference[2] \in DOMAIN entries
EntriesBalanced == \A e \in DOMAIN entries : Balanced(entries[e].net)

Calendars == SpansDisjoint /\ OneOpen
Journals == EventsOnce /\ ReversedOnce /\ ReversalsKnown /\ EntriesBalanced
BooksInv == TypeOK /\ MetInv /\ Held /\ Calendars /\ Journals /\ NominalsClosed

-----------------------------------------------------------------------------
\* What a call does on its own, by its operation.
LEMMA CallShape ==
  ASSUME NEW r \in Calls
  PROVE  /\ r.op \in {"none", "create", "open", "manager close", "post", "event", "reverse", "close"}
         /\ r.op = "none" => r = NoCall
         /\ r.op = "create" => r.span \in Spans
         /\ r.op \in OfPeriod => r.period \in Nat
         /\ r.op \in {"post", "event"} => r.net \in Nets /\ r.reference \in Purposes
         /\ r.op = "reverse" => r.entry \in Nat
         /\ r.op = "close" => r.revenue \in Int /\ r.expense \in Int
<1> USE DEF NoCall, OfPeriod
<1>1. CASE r = NoCall
  BY <1>1
<1>4. CASE r \in [op : {"create"}, span : Spans]
  BY <1>4
<1>5. CASE r \in [op : {"open", "manager close"}, period : Nat]
  BY <1>5
<1>2. CASE r \in [op : {"post", "event"}, period : Nat, net : Nets, reference : Purposes]
  BY <1>2
<1>3. CASE r \in [op : {"reverse"}, period : Nat, entry : Nat]
                 \cup [op : {"close"}, period : Nat, revenue : Int, expense : Int]
  BY <1>3
<1> QED BY <1>1, <1>2, <1>3, <1>4, <1>5 DEF Calls

\* Where calls meet, by their operations.
LEMMA MeetsWhere ==
  ASSUME NEW r, NEW o
  PROVE  /\ r.op = "create" /\ o.op = "create" => Calendar \in Meets(r, o)
         /\ r.op = "open" /\ o.op = "open" => Opening \in Meets(r, o)
         /\ r.op \in {"open", "manager close", "close"} /\ o.op \in OfPeriod
            /\ r.period = o.period => Period(r.period) \in Meets(r, o)
         /\ o.op \in {"open", "manager close", "close"} /\ r.op \in OfPeriod
            /\ r.period = o.period => Period(r.period) \in Meets(r, o)
         /\ r.op = "event" /\ o.op = "event" /\ r.reference = o.reference
              => r.reference \in Meets(r, o)
         /\ r.op = "reverse" /\ o.op = "reverse" /\ r.entry = o.entry
              => Entered(r.entry) \in Meets(r, o)
  BY DEF Meets, Writes, Needs, OfPeriod

LEMMA MeetsBoth ==
  ASSUME NEW r, NEW o
  PROVE  Meets(r, o) = Meets(o, r) /\ Meets(NoCall, o) = {} /\ Meets(r, NoCall) = {}
<1>1. Meets(r, o) = Meets(o, r)
  BY DEF Meets
<1>2. Writes(NoCall) = {} /\ Needs(NoCall) = {}
  BY DEF Writes, Needs, NoCall
<1> QED BY <1>1, <1>2 DEF Meets

-----------------------------------------------------------------------------
(* The balance of an account, over any entries *)

BalanceIn(es, p, kind) ==
    SumFunction([e \in DOMAIN es |->
        IF es[e].period = p /\ es[e].status = "POSTED" THEN es[e].net[kind] ELSE 0])
Worth(x, p, kind) == IF x.period = p /\ x.status = "POSTED" THEN x.net[kind] ELSE 0
Worths(p, kind) == [x \in EntryRows |-> Worth(x, p, kind)]

LEMMA BalanceWeighs ==
  ASSUME NEW es \in Seq(EntryRows), NEW p, NEW kind \in Kinds
  PROVE  /\ Worths(p, kind) \in [EntryRows -> Int]
         /\ BalanceIn(es, p, kind) = Weigh(es, Worths(p, kind))
<1>1. \A x \in EntryRows : Worth(x, p, kind) \in Int
  BY DEF Worth, EntryRows, Nets
<1>2. \A e \in DOMAIN es : es[e] \in EntryRows
  OBVIOUS
<1>3. [e \in DOMAIN es |-> Worths(p, kind)[es[e]]]
        = [e \in DOMAIN es |->
             IF es[e].period = p /\ es[e].status = "POSTED" THEN es[e].net[kind] ELSE 0]
  BY <1>2 DEF Worths, Worth
<1> QED BY <1>1, <1>3 DEF BalanceIn, Weigh, Worths

LEMMA BalanceType ==
  ASSUME NEW es \in Seq(EntryRows), NEW p, NEW kind \in Kinds
  PROVE  BalanceIn(es, p, kind) \in Int
  BY BalanceWeighs, WeighType

LEMMA BalanceAppend ==
  ASSUME NEW es \in Seq(EntryRows), NEW x \in EntryRows, NEW p, NEW kind \in Kinds
  PROVE  BalanceIn(Append(es, x), p, kind) = BalanceIn(es, p, kind) + Worth(x, p, kind)
<1> DEFINE W == Worths(p, kind)
<1>1. Append(es, x) \in Seq(EntryRows) /\ W[x] = Worth(x, p, kind)
  BY DEF Worths
<1>2. W \in [EntryRows -> Int]
  BY BalanceWeighs
<1>3. Weigh(Append(es, x), W) = Weigh(es, W) + W[x]
  <2> HIDE DEF W
  <2> QED BY <1>2, WeighAppend
<1> QED BY <1>1, <1>3, BalanceWeighs

LEMMA BalanceChange ==
  ASSUME NEW es \in Seq(EntryRows), NEW e \in DOMAIN es, NEW x \in EntryRows,
         NEW p, NEW kind \in Kinds
  PROVE  BalanceIn([es EXCEPT ![e] = x], p, kind)
           = BalanceIn(es, p, kind) - Worth(es[e], p, kind) + Worth(x, p, kind)
<1> DEFINE W == Worths(p, kind)
           new == [es EXCEPT ![e] = x]
<1>1. new \in Seq(EntryRows) /\ es[e] \in EntryRows
  OBVIOUS
<1>2. W \in [EntryRows -> Int] /\ W[x] = Worth(x, p, kind) /\ W[es[e]] = Worth(es[e], p, kind)
  <2>1. W \in [EntryRows -> Int]
    BY BalanceWeighs
  <2>2. \A y \in EntryRows : W[y] = Worth(y, p, kind)
    BY DEF Worths
  <2> QED BY <1>1, <2>1, <2>2
<1>3. Weigh(new, W) = Weigh(es, W) - W[es[e]] + W[x]
  <2> HIDE DEF W
  <2> QED BY <1>2, WeighChange
<1>4. BalanceIn(es, p, kind) = Weigh(es, W)
  BY BalanceWeighs
<1>5. BalanceIn(new, p, kind) = Weigh(new, W)
  <2> HIDE DEF new
  <2> QED BY <1>1, BalanceWeighs
<1>6. BalanceIn(new, p, kind)
        = BalanceIn(es, p, kind) - Worth(es[e], p, kind) + Worth(x, p, kind)
  <2> HIDE DEF W, new
  <2> QED BY <1>2, <1>3, <1>4, <1>5
<1> QED BY <1>6

-----------------------------------------------------------------------------
(* A call that reads *)

\* What history gains leaves what was held.
LEMMA ReadStep ==
  ASSUME BooksInv, NEW c \in Clerks, NEW r \in Calls, Reads(c, r),
         OnPeriods(r), OnEntries(r), PurposeOfCall(r)
  PROVE  BooksInv'
<1> USE DEF BooksInv
<1>1. /\ call' \in [Clerks -> Calls] /\ call'[c] = r /\ \A d \in Clerks \ {c} : call'[d] = call[d]
      /\ periods' = periods /\ entries' = entries /\ history \subseteq history'
      /\ \A d \in Clerks \ {c} : Meets(r, call[d]) \subseteq history'
  BY DEF Reads, TypeOK
<1>2. TypeOK'
  BY <1>1 DEF TypeOK
<1>3. MetInv'
  BY <1>1, MeetsBoth DEF MetInv
<1>4. ASSUME NEW q
      PROVE  /\ OnPeriods(q) => OnPeriods(q)'
             /\ OnEntries(q) => OnEntries(q)'
             /\ PurposeOfCall(q) => PurposeOfCall(q)'
  <2>1. OnPeriods(q) => OnPeriods(q)'
    BY <1>1 DEF OnPeriods, SpanIsFree, NoneIsOpen, PeriodKnown, NotClosed
  <2>2. OnEntries(q) => OnEntries(q)'
    BY <1>1 DEF OnEntries, BalanceKnown, EventIsNew, EntryKnown, EntryIsPosted, Balance
  <2>3. PurposeOfCall(q) => PurposeOfCall(q)'
    BY DEF PurposeOfCall
  <2> QED BY <2>1, <2>2, <2>3
<1>5. Held'
  <2> SUFFICES ASSUME NEW d \in Clerks
               PROVE  (OnPeriods(call[d]) /\ OnEntries(call[d]) /\ PurposeOfCall(call[d]))'
    BY DEF Held
  <2> DEFINE q == call'[d]
  <2>1. OnPeriods(q) /\ OnEntries(q) /\ PurposeOfCall(q)
    BY <1>1 DEF Held
  <2> QED
    BY <1>1, <1>4, <2>1
<1>6. Calendars' /\ NominalsClosed'
  BY <1>1 DEF Calendars, SpansDisjoint, OneOpen, NominalsClosed, Balance
<1>7. Journals'
  BY <1>1 DEF Journals, EventsOnce, ReversedOnce, ReversalsKnown, EntriesBalanced
<1> QED BY <1>2, <1>3, <1>5, <1>6, <1>7

-----------------------------------------------------------------------------
(* A call that writes *)

\* What a step leaves of the calls: the one that wrote is over.
LEMMA EndsFacts ==
  ASSUME BooksInv, NEW c \in Clerks, Ends(c), UNCHANGED history
  PROVE  /\ call' \in [Clerks -> Calls] /\ call'[c] = NoCall
         /\ \A d \in Clerks \ {c} : call'[d] = call[d] /\ Meets(call[c], call[d]) \subseteq history
         /\ MetInv'
<1>1. /\ call' \in [Clerks -> Calls] /\ call'[c] = NoCall
      /\ \A d \in Clerks \ {c} : call'[d] = call[d]
  BY DEF Ends, BooksInv, TypeOK, Calls
<1>2. \A d \in Clerks \ {c} : Meets(call[c], call[d]) \subseteq history
  BY DEF BooksInv, MetInv
<1>3. MetInv'
  <2> SUFFICES ASSUME NEW a \in Clerks, NEW b \in Clerks, a # b
               PROVE  Meets(call'[a], call'[b]) \subseteq history
    BY DEF MetInv
  <2>1. CASE a = c \/ b = c
    BY <1>1, <2>1, MeetsBoth
  <2>2. CASE a # c /\ b # c
    BY <1>1, <2>2 DEF BooksInv, MetInv
  <2> QED BY <2>1, <2>2
<1> QED BY <1>1, <1>2, <1>3

\* What is asked of the calls in the next state, of those that are not over.
LEMMA HeldRest ==
  ASSUME BooksInv, NEW c \in Clerks, Ends(c), UNCHANGED history,
         \A d \in Clerks \ {c} : call[d] # NoCall =>
             OnPeriods(call[d])' /\ OnEntries(call[d])'
  PROVE  Held'
<1> SUFFICES ASSUME NEW d \in Clerks
             PROVE  (OnPeriods(call[d]) /\ OnEntries(call[d]) /\ PurposeOfCall(call[d]))'
  BY DEF Held
<1>1. CASE call'[d] = NoCall
  <2>1. call'[d].op = "none"
    BY <1>1 DEF NoCall
  <2>2. OnPeriods(call[d])'
    BY <2>1 DEF OnPeriods, SpanIsFree, NoneIsOpen, PeriodKnown, NotClosed, OfPeriod
  <2>3. OnEntries(call[d])'
    BY <2>1 DEF OnEntries, BalanceKnown, EventIsNew, EntryKnown, EntryIsPosted
  <2>4. PurposeOfCall(call[d])'
    BY <2>1 DEF PurposeOfCall
  <2> QED BY <2>2, <2>3, <2>4
<1>2. CASE call'[d] # NoCall
  <2>1. d # c /\ call'[d] = call[d]
    BY <1>2, EndsFacts
  <2>2. PurposeOfCall(call[d])'
    BY <2>1 DEF BooksInv, Held, PurposeOfCall
  <2> QED BY <1>2, <2>1, <2>2
<1> QED BY <1>1, <1>2

\* Steps that leave the entries, or the periods.
LEMMA EntriesSame ==
  ASSUME BooksInv, NEW c \in Clerks, UNCHANGED <<entries, history>>, Ends(c)
  PROVE  Journals' /\ \A d \in Clerks \ {c} : OnEntries(call[d])'
<1>1. Journals'
  BY DEF BooksInv, Journals, EventsOnce, ReversedOnce, ReversalsKnown, EntriesBalanced
<1>2. ASSUME NEW d \in Clerks \ {c} PROVE OnEntries(call[d])'
  <2>1. call'[d] = call[d] /\ OnEntries(call[d])
    BY EndsFacts DEF BooksInv, Held
  <2> QED BY <2>1 DEF OnEntries, BalanceKnown, EventIsNew, EntryKnown, EntryIsPosted, Balance
<1> QED BY <1>1, <1>2

LEMMA PeriodsSame ==
  ASSUME BooksInv, NEW c \in Clerks, UNCHANGED <<periods, history>>, Ends(c)
  PROVE  Calendars' /\ \A d \in Clerks \ {c} : OnPeriods(call[d])'
<1>1. Calendars'
  BY DEF BooksInv, Calendars, SpansDisjoint, OneOpen
<1>2. ASSUME NEW d \in Clerks \ {c} PROVE OnPeriods(call[d])'
  <2>1. call'[d] = call[d] /\ OnPeriods(call[d])
    BY EndsFacts DEF BooksInv, Held
  <2> QED BY <2>1 DEF OnPeriods, SpanIsFree, NoneIsOpen, PeriodKnown, NotClosed
<1> QED BY <1>1, <1>2

LEMMA CreatePeriodStep ==
  ASSUME BooksInv, NEW c \in Clerks, CreatePeriod(c)
  PROVE  BooksInv'
<1> DEFINE b == call[c].span
           row == [span |-> b, status |-> "DRAFT", closing |-> "none"]
<1>1. /\ call[c].op = "create" /\ Ends(c) /\ UNCHANGED <<entries, history>>
      /\ periods' = Append(periods, row) /\ b \in Spans /\ row \in PeriodRows
  BY CallShape DEF CreatePeriod, BooksInv, TypeOK, PeriodRows, Status
<1>2. /\ periods \in Seq(PeriodRows) /\ periods' \in Seq(PeriodRows)
      /\ DOMAIN periods' = DOMAIN periods \cup {Len(periods) + 1}
      /\ Len(periods) + 1 \notin DOMAIN periods
      /\ periods'[Len(periods) + 1] = row
      /\ \A p \in DOMAIN periods : periods'[p] = periods[p]
  <2>1. periods \in Seq(PeriodRows) /\ row \in PeriodRows
    BY <1>1 DEF BooksInv, TypeOK
  <2> HIDE DEF row
  <2> QED BY <1>1, <2>1
<1>3. TypeOK'
  BY <1>1, <1>2, EndsFacts DEF BooksInv, TypeOK
<1>4. ASSUME NEW d \in Clerks \ {c} PROVE OnPeriods(call[d])'
  <2>1. call'[d] = call[d] /\ OnPeriods(call[d]) /\ Meets(call[c], call[d]) \subseteq history
    BY <1>1, EndsFacts DEF BooksInv, Held
  <2>2. call[d].op # "create" \/ Calendar \in history
    BY <1>1, <2>1, MeetsWhere
  <2>3. SpanIsFree(call[d])'
    BY <1>1, <2>1, <2>2 DEF SpanIsFree
  <2>4. NoneIsOpen(call[d])'
    BY <1>1, <1>2, <2>1 DEF OnPeriods, NoneIsOpen
  <2>5. PeriodKnown(call[d])' /\ NotClosed(call[d])'
    BY <1>1, <1>2, <2>1 DEF OnPeriods, PeriodKnown, NotClosed, OfPeriod
  <2> QED BY <2>3, <2>4, <2>5 DEF OnPeriods
<1>5. Held' /\ Journals' /\ MetInv'
  BY <1>1, <1>4, HeldRest, EntriesSame, EndsFacts
<1>6. Calendars'
  <2>1. SpanIsFree(call[c])
    BY DEF BooksInv, Held, OnPeriods
  <2>2. SpansDisjoint'
    BY <1>1, <1>2, <2>1 DEF BooksInv, Calendars, SpansDisjoint, SpanIsFree, Disjoint
  <2>3. OneOpen'
    BY <1>1, <1>2 DEF BooksInv, Calendars, OneOpen
  <2> QED BY <2>2, <2>3 DEF Calendars
<1>7. NominalsClosed'
  BY <1>1, <1>2 DEF BooksInv, NominalsClosed, Balance
<1> QED BY <1>3, <1>5, <1>6, <1>7 DEF BooksInv

LEMMA OpenPeriodStep ==
  ASSUME BooksInv, NEW c \in Clerks, OpenPeriod(c)
  PROVE  BooksInv'
<1> DEFINE p == call[c].period
<1>1. /\ call[c].op = "open" /\ Ends(c) /\ UNCHANGED <<entries, history>>
      /\ p \in DOMAIN periods /\ NoneIsOpen(call[c]) /\ NotClosed(call[c])
      /\ periods' = [periods EXCEPT ![p].status = "OPEN"]
  BY DEF OpenPeriod, BooksInv, Held, OnPeriods, PeriodKnown, OfPeriod
<1>2. /\ periods' \in Seq(PeriodRows) /\ DOMAIN periods' = DOMAIN periods
      /\ \A q \in DOMAIN periods :
            /\ periods'[q].span = periods[q].span /\ periods'[q].closing = periods[q].closing
            /\ periods'[q].status = IF q = p THEN "OPEN" ELSE periods[q].status
  <2> DEFINE row == [periods[p] EXCEPT !.status = "OPEN"]
  <2>1. /\ periods \in Seq(PeriodRows)
        /\ \A q \in DOMAIN periods : periods[q] \in PeriodRows
    BY DEF BooksInv, TypeOK
  <2>2. row \in PeriodRows /\ row.status = "OPEN" /\ row.span = periods[p].span
        /\ row.closing = periods[p].closing
    BY <1>1, <2>1 DEF PeriodRows, Status
  <2>3. periods' = [periods EXCEPT ![p] = row]
    BY <1>1, <2>1
  <2> HIDE DEF row
  <2> QED BY <1>1, <2>1, <2>2, <2>3
<1>3. TypeOK'
  BY <1>1, <1>2, EndsFacts DEF BooksInv, TypeOK
<1>4. ASSUME NEW d \in Clerks \ {c} PROVE OnPeriods(call[d])'
  <2>1. call'[d] = call[d] /\ OnPeriods(call[d]) /\ Meets(call[c], call[d]) \subseteq history
    BY <1>1, EndsFacts DEF BooksInv, Held
  <2>2. call[d].op # "open" \/ Opening \in history
    BY <1>1, <2>1, MeetsWhere
  <2>3. SpanIsFree(call[d])' /\ PeriodKnown(call[d])'
    BY <1>1, <1>2, <2>1 DEF OnPeriods, SpanIsFree, PeriodKnown
  <2>4. NoneIsOpen(call[d])'
    BY <1>1, <2>1, <2>2 DEF NoneIsOpen
  <2>5. NotClosed(call[d])'
    <3> DEFINE q == call[d].period
    <3> SUFFICES ASSUME call[d].op \in {"open", "post", "event", "reverse"},
                        Period(q) \notin history
                 PROVE  periods'[q].status # "CLOSED"
      BY <1>1, <2>1 DEF NotClosed
    <3>1. q \in DOMAIN periods /\ periods[q].status # "CLOSED"
      BY <2>1 DEF OnPeriods, PeriodKnown, NotClosed, OfPeriod
    <3> QED BY <1>2, <3>1
  <2> QED BY <2>3, <2>4, <2>5 DEF OnPeriods
<1>5. Held' /\ Journals' /\ MetInv'
  BY <1>1, <1>4, HeldRest, EntriesSame, EndsFacts
<1>6. Calendars'
  BY <1>1, <1>2 DEF BooksInv, Calendars, SpansDisjoint, OneOpen, NoneIsOpen
<1>7. NominalsClosed'
  BY <1>1, <1>2 DEF BooksInv, NominalsClosed, Balance
<1> QED BY <1>3, <1>5, <1>6, <1>7 DEF BooksInv

\* One row of a table is written.
LEMMA SetRow ==
  ASSUME NEW R, NEW s \in Seq(R), NEW i \in DOMAIN s, NEW x \in R,
         NEW t, t = [s EXCEPT ![i] = x]
  PROVE  /\ t \in Seq(R) /\ DOMAIN t = DOMAIN s /\ Len(t) = Len(s)
         /\ t[i] = x /\ \A j \in DOMAIN s \ {i} : t[j] = s[j]
  OBVIOUS

LEMMA ClosesRow ==
  ASSUME TypeOK, NEW p \in DOMAIN periods, NEW closing \in {"unposted", "posted"}
  PROVE  ClosedRow(p, closing) \in PeriodRows
<1>1. periods[p] \in PeriodRows
  BY DEF TypeOK
<1> QED BY <1>1 DEF ClosedRow, PeriodRows, Status

\* What the close of a period leaves of the others' readings of the periods.
LEMMA ClosesPeriod ==
  ASSUME BooksInv, NEW c \in Clerks, Ends(c), UNCHANGED history,
         call[c].op \in {"manager close", "close"}, NEW closing \in {"unposted", "posted"},
         periods' = [periods EXCEPT ![call[c].period] = ClosedRow(call[c].period, closing)]
  PROVE  /\ periods' \in Seq(PeriodRows) /\ DOMAIN periods' = DOMAIN periods
         /\ \A q \in DOMAIN periods \ {call[c].period} : periods'[q] = periods[q]
         /\ periods'[call[c].period].closing = closing
         /\ Calendars'
         /\ \A d \in Clerks \ {c} : OnPeriods(call[d])'
<1> DEFINE p == call[c].period
           row == ClosedRow(p, closing)
<1>1. p \in DOMAIN periods
  BY DEF BooksInv, Held, OnPeriods, PeriodKnown, OfPeriod
<1>2. periods \in Seq(PeriodRows) /\ row \in PeriodRows
  BY <1>1, ClosesRow DEF BooksInv, TypeOK
<1>4. /\ periods' \in Seq(PeriodRows) /\ DOMAIN periods' = DOMAIN periods
      /\ periods'[p] = row /\ \A q \in DOMAIN periods \ {p} : periods'[q] = periods[q]
  <2>1. ASSUME NEW t, t = [periods EXCEPT ![p] = row]
        PROVE  /\ t \in Seq(PeriodRows) /\ DOMAIN t = DOMAIN periods
               /\ t[p] = row /\ \A q \in DOMAIN periods \ {p} : t[q] = periods[q]
    <3> HIDE DEF p, row
    <3> QED BY <1>1, <1>2, <2>1, SetRow
  <2> QED BY <2>1
<1>3. row.status = "CLOSED" /\ row.closing = closing /\ row.span = periods[p].span
  BY DEF ClosedRow
<1>5. \A q \in DOMAIN periods :
         /\ periods'[q].span = periods[q].span
         /\ periods'[q].status = IF q = p THEN "CLOSED" ELSE periods[q].status
  <2> HIDE DEF row
  <2> QED BY <1>1, <1>3, <1>4
<1>6. Calendars'
  <2>1. SpansDisjoint /\ OneOpen
    BY DEF BooksInv, Calendars
  <2>2. DOMAIN periods' = DOMAIN periods
    BY <1>4
  <2>3. SpansDisjoint'
    BY <1>5, <2>1, <2>2 DEF SpansDisjoint
  <2>4. OneOpen'
    BY <1>5, <2>1, <2>2 DEF OneOpen
  <2> QED BY <2>3, <2>4 DEF Calendars
<1>7. ASSUME NEW d \in Clerks \ {c} PROVE OnPeriods(call[d])'
  <2>1. call'[d] = call[d] /\ OnPeriods(call[d]) /\ Meets(call[c], call[d]) \subseteq history
    BY EndsFacts DEF BooksInv, Held
  <2>2. SpanIsFree(call[d])' /\ PeriodKnown(call[d])' /\ NoneIsOpen(call[d])'
    BY <1>4, <1>5, <2>1 DEF OnPeriods, SpanIsFree, PeriodKnown, NoneIsOpen
  <2>3. NotClosed(call[d])'
    <3> DEFINE q == call[d].period
    <3> SUFFICES ASSUME call[d].op \in {"open", "post", "event", "reverse"},
                        Period(q) \notin history
                 PROVE  periods'[q].status # "CLOSED"
      BY <2>1 DEF NotClosed
    <3>1. q \in DOMAIN periods /\ periods[q].status # "CLOSED"
      BY <2>1 DEF OnPeriods, PeriodKnown, NotClosed, OfPeriod
    <3>2. q # p
      BY <2>1, MeetsWhere DEF OfPeriod
    <3> QED BY <1>5, <3>1, <3>2
  <2> QED BY <2>2, <2>3 DEF OnPeriods
<1> QED BY <1>3, <1>4, <1>6, <1>7

LEMMA ManagerCloseStep ==
  ASSUME BooksInv, NEW c \in Clerks, ManagerClose(c)
  PROVE  BooksInv'
<1> DEFINE p == call[c].period
<1>1. /\ call[c].op = "manager close" /\ Ends(c) /\ UNCHANGED <<entries, history>>
      /\ p \in DOMAIN periods /\ periods' = [periods EXCEPT ![p] = ClosedRow(p, "unposted")]
  BY DEF ManagerClose, BooksInv, Held, OnPeriods, PeriodKnown, OfPeriod
<1>2. /\ periods' \in Seq(PeriodRows) /\ DOMAIN periods' = DOMAIN periods
      /\ \A q \in DOMAIN periods \ {p} : periods'[q] = periods[q]
      /\ periods'[p].closing = "unposted"
      /\ Calendars' /\ \A d \in Clerks \ {c} : OnPeriods(call[d])'
  BY <1>1, ClosesPeriod
<1>3. TypeOK'
  BY <1>1, <1>2, EndsFacts DEF BooksInv, TypeOK
<1>4. Held' /\ Journals' /\ MetInv'
  BY <1>1, <1>2, HeldRest, EntriesSame, EndsFacts
<1>5. NominalsClosed'
  <2> SUFFICES ASSUME NEW q \in DOMAIN periods, periods'[q].status = "CLOSED",
                      periods'[q].closing = "posted", Period(q) \notin history
               PROVE  Balance(q, "REVENUE")' = 0 /\ Balance(q, "EXPENSE")' = 0
    BY <1>1, <1>2 DEF NominalsClosed
  <2>1. q # p /\ periods'[q] = periods[q]
    BY <1>2
  <2>2. Balance(q, "REVENUE") = 0 /\ Balance(q, "EXPENSE") = 0
    BY <2>1 DEF BooksInv, NominalsClosed
  <2> QED BY <1>1, <2>2 DEF Balance
<1> QED BY <1>2, <1>3, <1>4, <1>5 DEF BooksInv

\* A reading of the balances is still right if the balances are.
LEMMA BalanceStaysKnown ==
  ASSUME NEW d \in Clerks, call'[d] = call[d], UNCHANGED history,
         call[d].op = "close" /\ Period(call[d].period) \notin history =>
            /\ call[d].revenue = BalanceIn(entries', call[d].period, "REVENUE")
            /\ call[d].expense = BalanceIn(entries', call[d].period, "EXPENSE")
  PROVE  BalanceKnown(call[d])'
  BY DEF BalanceKnown, Balance, BalanceIn

\* EventsOnce, of the entries after a step, with the document named.
LEMMA EventsStayOnce ==
  ASSUME UNCHANGED history,
         \A d, e \in DOMAIN entries' : \A r \in References :
            /\ entries'[d].reference = entries'[e].reference
            /\ entries'[d].reference \notin history
            /\ entries'[d].reference = Event(r)
            /\ entries'[d].status = "POSTED" /\ entries'[e].status = "POSTED"
            => d = e
  PROVE  EventsOnce'
  BY DEF EventsOnce

\* What one entry more leaves of the others' readings of the entries.
LEMMA EntryAdded ==
  ASSUME BooksInv, NEW c \in Clerks, Ends(c), UNCHANGED history,
         call[c].op \in {"post", "event", "close"}, NEW x \in EntryRows,
         entries' = Append(entries, x), x.status = "POSTED", x.period = call[c].period,
         Balanced(x.net), x.reference[1] # "reversal",
         x.reference[1] = "event" => call[c].op = "event" /\ x.reference = call[c].reference
  PROVE  /\ entries' \in Seq(EntryRows) /\ DOMAIN entries \subseteq DOMAIN entries'
         /\ \A e \in DOMAIN entries' : entries'[e].period \in DOMAIN periods
         /\ \A d \in Clerks \ {c} : OnEntries(call[d])'
         /\ Journals'
<1> DEFINE n == Len(entries) + 1
<1>1. /\ entries \in Seq(EntryRows) /\ entries' \in Seq(EntryRows)
      /\ DOMAIN entries' = DOMAIN entries \cup {n} /\ n \notin DOMAIN entries
      /\ entries'[n] = x /\ \A e \in DOMAIN entries : entries'[e] = entries[e]
  <2>1. entries \in Seq(EntryRows)
    BY DEF BooksInv, TypeOK
  <2> QED BY <2>1
<1>2. x.period \in DOMAIN periods
  BY DEF BooksInv, Held, OnPeriods, PeriodKnown, OfPeriod
<1>3. \A e \in DOMAIN entries' : entries'[e].period \in DOMAIN periods
  BY <1>1, <1>2 DEF BooksInv, TypeOK
<1>4. ASSUME NEW d \in Clerks \ {c} PROVE OnEntries(call[d])'
  <2>1. call'[d] = call[d] /\ OnEntries(call[d]) /\ Meets(call[c], call[d]) \subseteq history
    BY EndsFacts DEF BooksInv, Held
  <2>2. BalanceKnown(call[d])'
    <3> DEFINE p == call[d].period
    <3> SUFFICES ASSUME call[d].op = "close", Period(p) \notin history
                 PROVE  /\ call[d].revenue = BalanceIn(entries', p, "REVENUE")
                        /\ call[d].expense = BalanceIn(entries', p, "EXPENSE")
      BY <2>1, BalanceStaysKnown
    <3>1. p # x.period
      BY <2>1, MeetsWhere DEF OfPeriod
    <3>2. /\ call[d].revenue = BalanceIn(entries, p, "REVENUE")
          /\ call[d].expense = BalanceIn(entries, p, "EXPENSE")
      BY <2>1 DEF OnEntries, BalanceKnown, Balance, BalanceIn
    <3>3. Worth(x, p, "REVENUE") = 0 /\ Worth(x, p, "EXPENSE") = 0
      BY <3>1 DEF Worth
    <3>4. "REVENUE" \in Kinds /\ "EXPENSE" \in Kinds
      BY DEF Kinds
    <3> HIDE DEF p
    <3>5. BalanceIn(entries', p, "REVENUE") = BalanceIn(entries, p, "REVENUE") + 0
          /\ BalanceIn(entries, p, "REVENUE") \in Int
      BY <1>1, <3>3, <3>4, BalanceAppend, BalanceType
    <3>6. BalanceIn(entries', p, "EXPENSE") = BalanceIn(entries, p, "EXPENSE") + 0
          /\ BalanceIn(entries, p, "EXPENSE") \in Int
      BY <1>1, <3>3, <3>4, BalanceAppend, BalanceType
    <3> QED BY <3>2, <3>5, <3>6
  <2>3. EventIsNew(call[d])'
    <3> SUFFICES ASSUME call[d].op = "event", call[d].reference \notin history,
                        NEW e \in DOMAIN entries'
                 PROVE  ~(entries'[e].reference = call[d].reference
                          /\ entries'[e].status = "POSTED")
      BY <2>1 DEF EventIsNew
    <3>1. CASE e = n
      <4>1. \E f \in References : call[d].reference = Event(f)
        BY DEF BooksInv, Held, PurposeOfCall
      <4>2. call[d].reference[1] = "event"
        BY <4>1 DEF Event
      <4>3. ~(call[c].op = "event" /\ call[c].reference = call[d].reference)
        BY <2>1, MeetsWhere
      <4> QED BY <1>1, <3>1, <4>2, <4>3
    <3>2. CASE e \in DOMAIN entries
      BY <1>1, <2>1, <3>2 DEF OnEntries, EventIsNew
    <3> QED BY <1>1, <3>1, <3>2
  <2>4. EntryKnown(call[d])' /\ EntryIsPosted(call[d])'
    BY <1>1, <2>1 DEF OnEntries, EntryKnown, EntryIsPosted
  <2> QED BY <2>2, <2>3, <2>4 DEF OnEntries
<1>5. EventsOnce'
  <2> SUFFICES ASSUME NEW d \in DOMAIN entries', NEW e \in DOMAIN entries',
                      entries'[d].reference = entries'[e].reference,
                      entries'[d].reference \notin history,
                      NEW r \in References, entries'[d].reference = Event(r),
                      entries'[d].status = "POSTED", entries'[e].status = "POSTED"
               PROVE  d = e
    BY EventsStayOnce
  <2>1. CASE d \in DOMAIN entries /\ e \in DOMAIN entries
    BY <1>1, <2>1 DEF BooksInv, Journals, EventsOnce
  <2>2. x.reference = Event(r) =>
          \A z \in DOMAIN entries : ~(entries[z].reference = x.reference
                                      /\ entries[z].status = "POSTED")
    <3> SUFFICES ASSUME x.reference = Event(r)
                 PROVE  \A z \in DOMAIN entries : ~(entries[z].reference = x.reference
                                                    /\ entries[z].status = "POSTED")
      OBVIOUS
    <3>1. x.reference[1] = "event"
      BY DEF Event
    <3>2. EventIsNew(call[c])
      BY DEF BooksInv, Held, OnEntries
    <3> QED BY <3>1, <3>2 DEF EventIsNew
  <2>3. CASE d = n /\ e \in DOMAIN entries
    BY <1>1, <2>2, <2>3
  <2>4. CASE d \in DOMAIN entries /\ e = n
    BY <1>1, <2>2, <2>4
  <2> QED BY <1>1, <2>1, <2>3, <2>4
<1>6. ReversalsKnown'
  BY <1>1 DEF BooksInv, Journals, ReversalsKnown
<1>7. \A y \in DOMAIN entries', e \in DOMAIN entries' :
         entries'[y].reference = Reversal(e) => y \in DOMAIN entries /\ e \in DOMAIN entries
  <2> SUFFICES ASSUME NEW y \in DOMAIN entries', NEW e \in DOMAIN entries',
                      entries'[y].reference = Reversal(e)
               PROVE  y \in DOMAIN entries /\ e \in DOMAIN entries
    OBVIOUS
  <2>1. entries'[y].reference[1] = "reversal" /\ entries'[y].reference[2] = e
    BY DEF Reversal
  <2>2. y # n
    BY <1>1, <2>1
  <2> QED BY <1>1, <2>1, <2>2 DEF BooksInv, Journals, ReversalsKnown
<1>8. ReversedOnce'
  BY <1>1, <1>7 DEF BooksInv, Journals, ReversedOnce
<1>9. EntriesBalanced'
  BY <1>1 DEF BooksInv, Journals, EntriesBalanced
<1> QED BY <1>1, <1>3, <1>4, <1>5, <1>6, <1>8, <1>9 DEF Journals

LEMMA PostStep ==
  ASSUME BooksInv, NEW c \in Clerks, Post(c)
  PROVE  BooksInv'
<1> DEFINE r == call[c]
           x == Entry(r.period, r.net, r.reference)
<1>1. /\ r.op \in {"post", "event"} /\ Ends(c) /\ UNCHANGED <<periods, history>>
      /\ entries' = Append(entries, x)
  BY DEF Post
<1>2. r \in Calls /\ PurposeOfCall(r)
  BY DEF BooksInv, TypeOK, Held
<1>3. /\ x \in EntryRows /\ x.status = "POSTED" /\ x.period = r.period /\ x.net = r.net
      /\ x.reference = r.reference
  BY <1>1, <1>2, CallShape DEF Entry, EntryRows, OfPeriod
<1>4. /\ Balanced(x.net) /\ x.reference[1] # "reversal"
      /\ x.reference[1] = "event" => r.op = "event"
  BY <1>1, <1>2, <1>3 DEF PurposeOfCall, Manual, Event
<1>5. /\ entries' \in Seq(EntryRows) /\ \A e \in DOMAIN entries' : entries'[e].period \in DOMAIN periods
      /\ Journals' /\ \A d \in Clerks \ {c} : OnEntries(call[d])'
  <2> HIDE DEF x
  <2> QED BY <1>1, <1>3, <1>4, EntryAdded
<1>6. TypeOK'
  BY <1>1, <1>5, EndsFacts DEF BooksInv, TypeOK
<1>7. Held' /\ Calendars' /\ MetInv'
  BY <1>1, <1>5, HeldRest, PeriodsSame, EndsFacts
<1>8. NominalsClosed'
  <2> SUFFICES ASSUME NEW q \in DOMAIN periods, periods[q].status = "CLOSED",
                      periods[q].closing = "posted", Period(q) \notin history
               PROVE  Balance(q, "REVENUE")' = 0 /\ Balance(q, "EXPENSE")' = 0
    BY <1>1 DEF NominalsClosed
  <2>1. q # x.period
    BY <1>1, <1>3 DEF BooksInv, Held, OnPeriods, NotClosed
  <2>2. BalanceIn(entries, q, "REVENUE") = 0 /\ BalanceIn(entries, q, "EXPENSE") = 0
    BY DEF BooksInv, NominalsClosed, Balance, BalanceIn
  <2>3. Worth(x, q, "REVENUE") = 0 /\ Worth(x, q, "EXPENSE") = 0
    BY <2>1 DEF Worth
  <2>4. "REVENUE" \in Kinds /\ "EXPENSE" \in Kinds /\ entries \in Seq(EntryRows)
    BY DEF Kinds, BooksInv, TypeOK
  <2>5. BalanceIn(entries', q, "REVENUE") = 0 /\ BalanceIn(entries', q, "EXPENSE") = 0
    <3> HIDE DEF x
    <3> QED BY <1>1, <1>3, <2>2, <2>3, <2>4, BalanceAppend
  <2> QED BY <2>5 DEF Balance, BalanceIn
<1> QED BY <1>5, <1>6, <1>7, <1>8 DEF BooksInv

\* The closing entry empties what it was told of.
LEMMA ClosingNetType ==
  ASSUME NEW revenue \in Int, NEW expense \in Int
  PROVE  /\ ClosingNet(revenue, expense) \in Nets /\ Balanced(ClosingNet(revenue, expense))
         /\ ClosingNet(revenue, expense)["REVENUE"] = -revenue
         /\ ClosingNet(revenue, expense)["EXPENSE"] = -expense
  BY DEF ClosingNet, Nets, Kinds, Balanced, Sum, Abs, Cent

LEMMA CloseStep ==
  ASSUME BooksInv, NEW c \in Clerks, Close(c)
  PROVE  BooksInv'
<1> DEFINE p == call[c].period
           revenue == call[c].revenue
           expense == call[c].expense
           posts == revenue + expense # 0
           x == Entry(p, ClosingNet(revenue, expense), Closing(p))
           closing == IF posts \/ revenue = 0 THEN "posted" ELSE "unposted"
<1>1. /\ call[c].op = "close" /\ Ends(c) /\ UNCHANGED history
      /\ entries' = IF posts THEN Append(entries, x) ELSE entries
      /\ periods' = [periods EXCEPT ![p] = ClosedRow(p, closing)]
      /\ closing \in {"unposted", "posted"}
  BY DEF Close
<1>2. revenue \in Int /\ expense \in Int /\ p \in Nat /\ p \in DOMAIN periods
  <2>1. call[c] \in Calls /\ PeriodKnown(call[c])
    BY DEF BooksInv, TypeOK, Held, OnPeriods
  <2> QED BY <1>1, <2>1, CallShape DEF PeriodKnown, OfPeriod
<1>3. /\ periods' \in Seq(PeriodRows) /\ DOMAIN periods' = DOMAIN periods
      /\ \A q \in DOMAIN periods \ {p} : periods'[q] = periods[q]
      /\ periods'[p].closing = closing
      /\ Calendars' /\ \A d \in Clerks \ {c} : OnPeriods(call[d])'
  <2> HIDE DEF closing
  <2> QED BY <1>1, ClosesPeriod
<1>4. /\ x \in EntryRows /\ x.status = "POSTED" /\ x.period = p /\ Balanced(x.net)
      /\ x.reference[1] = "closing"
      /\ x.net["REVENUE"] = -revenue /\ x.net["EXPENSE"] = -expense
  <2>1. Closing(p) \in Purposes /\ Closing(p)[1] = "closing"
    BY <1>2 DEF Closing, Purposes
  <2> HIDE DEF revenue, expense, p
  <2> QED BY <1>2, <2>1, ClosingNetType DEF Entry, EntryRows
<1>5. /\ entries' \in Seq(EntryRows) /\ \A e \in DOMAIN entries' : entries'[e].period \in DOMAIN periods
      /\ Journals' /\ \A d \in Clerks \ {c} : OnEntries(call[d])'
  <2>1. CASE posts
    <3>1. entries' = Append(entries, x)
      BY <1>1, <2>1
    <3> HIDE DEF x
    <3> QED BY <1>1, <1>4, <3>1, EntryAdded
  <2>2. CASE ~posts
    <3>1. entries' = entries
      BY <1>1, <2>2
    <3> QED BY <1>1, <3>1, EntriesSame DEF BooksInv, TypeOK
  <2> QED BY <2>1, <2>2
<1>6. TypeOK'
  BY <1>1, <1>3, <1>5, EndsFacts DEF BooksInv, TypeOK
<1>7. Held' /\ MetInv'
  BY <1>1, <1>3, <1>5, HeldRest, EndsFacts
<1>8. NominalsClosed'
  <2> SUFFICES ASSUME NEW q \in DOMAIN periods, periods'[q].status = "CLOSED",
                      periods'[q].closing = "posted", Period(q) \notin history
               PROVE  BalanceIn(entries', q, "REVENUE") = 0 /\ BalanceIn(entries', q, "EXPENSE") = 0
    BY <1>1, <1>3 DEF NominalsClosed, Balance, BalanceIn
  <2>1. "REVENUE" \in Kinds /\ "EXPENSE" \in Kinds /\ entries \in Seq(EntryRows)
    BY DEF Kinds, BooksInv, TypeOK
  <2>2. CASE q = p
    <3>1. /\ revenue = BalanceIn(entries, q, "REVENUE") /\ expense = BalanceIn(entries, q, "EXPENSE")
          /\ posts \/ revenue = 0
      BY <1>1, <1>3, <2>2 DEF BooksInv, Held, OnEntries, BalanceKnown, Balance, BalanceIn
    <3>2. Worth(x, q, "REVENUE") = -revenue /\ Worth(x, q, "EXPENSE") = -expense
      BY <1>4, <2>2 DEF Worth
    <3>3. CASE posts
      <4>1. entries' = Append(entries, x)
        BY <1>1, <3>3
      <4>2. BalanceIn(entries', q, "REVENUE") = BalanceIn(entries, q, "REVENUE") + Worth(x, q, "REVENUE")
        BY <1>4, <2>1, <4>1, BalanceAppend
      <4>3. BalanceIn(entries', q, "EXPENSE") = BalanceIn(entries, q, "EXPENSE") + Worth(x, q, "EXPENSE")
        BY <1>4, <2>1, <4>1, BalanceAppend
      <4> QED BY <1>2, <3>1, <3>2, <4>2, <4>3
    <3>4. CASE ~posts
      BY <1>1, <1>2, <3>1, <3>4
    <3> QED BY <3>3, <3>4
  <2>3. CASE q # p
    <3>1. BalanceIn(entries, q, "REVENUE") = 0 /\ BalanceIn(entries, q, "EXPENSE") = 0
      BY <1>3, <2>3 DEF BooksInv, NominalsClosed, Balance, BalanceIn
    <3>2. Worth(x, q, "REVENUE") = 0 /\ Worth(x, q, "EXPENSE") = 0
      BY <1>4, <2>3 DEF Worth
    <3>3. CASE posts
      <4>1. entries' = Append(entries, x)
        BY <1>1, <3>3
      <4> HIDE DEF x
      <4> QED BY <1>4, <2>1, <3>1, <3>2, <4>1, BalanceAppend
    <3>4. CASE ~posts
      BY <1>1, <3>1, <3>4
    <3> QED BY <3>3, <3>4
  <2> QED BY <2>2, <2>3
<1> QED BY <1>3, <1>5, <1>6, <1>7, <1>8 DEF BooksInv

LEMMA SwappedType ==
  ASSUME NEW net \in Nets
  PROVE  Swapped(net) \in Nets /\ (Balanced(net) => Balanced(Swapped(net)))
  BY DEF Swapped, Nets, Kinds, Balanced, Sum, Abs, Cent

LEMMA ReverseEntryStep ==
  ASSUME BooksInv, NEW c \in Clerks, ReverseEntry(c)
  PROVE  BooksInv'
<1> DEFINE r == call[c]
           e == r.entry
           old == [entries[e] EXCEPT !.status = "REVERSED"]
           x == Entry(entries[e].period, Swapped(entries[e].net), Reversal(e))
           es == [entries EXCEPT ![e] = old]
           n == Len(entries) + 1
<1>1. /\ r.op = "reverse" /\ Ends(c) /\ UNCHANGED <<periods, history>>
      /\ e \in DOMAIN entries /\ r.period = entries[e].period
      /\ entries' = Append(es, x)
  BY DEF ReverseEntry, BooksInv, Held, OnEntries, EntryKnown
<1>2. /\ entries \in Seq(EntryRows) /\ entries[e] \in EntryRows /\ r.period \in DOMAIN periods
      /\ e \in Nat
  BY <1>1 DEF BooksInv, TypeOK
<1>3. /\ old \in EntryRows /\ old.status = "REVERSED" /\ old.period = r.period
      /\ old.net = entries[e].net /\ old.reference = entries[e].reference
  BY <1>1, <1>2 DEF EntryRows
<1>4. /\ x \in EntryRows /\ x.status = "POSTED" /\ x.period = r.period /\ Balanced(x.net)
      /\ x.reference = Reversal(e)
  <2>1. Reversal(e) \in Purposes
    BY <1>2 DEF Reversal, Purposes
  <2>2. Balanced(entries[e].net)
    BY <1>1 DEF BooksInv, Journals, EntriesBalanced
  <2> QED BY <1>1, <1>2, <2>1, <2>2, SwappedType DEF Entry, EntryRows
<1>5. /\ es \in Seq(EntryRows) /\ DOMAIN es = DOMAIN entries /\ Len(es) = Len(entries)
      /\ es[e] = old /\ \A j \in DOMAIN entries \ {e} : es[j] = entries[j]
  <2> HIDE DEF old, e
  <2> QED BY <1>1, <1>2, <1>3, SetRow
<1>6. /\ entries' \in Seq(EntryRows)
      /\ DOMAIN entries' = DOMAIN entries \cup {n} /\ n \notin DOMAIN entries
      /\ entries'[n] = x /\ \A j \in DOMAIN entries : entries'[j] = es[j]
  <2> HIDE DEF es, x
  <2> QED BY <1>1, <1>2, <1>4, <1>5
<1>7. \A j \in DOMAIN entries :
         /\ entries'[j].period = entries[j].period /\ entries'[j].net = entries[j].net
         /\ entries'[j].reference = entries[j].reference
         /\ entries'[j].status = IF j = e THEN "REVERSED" ELSE entries[j].status
  <2> HIDE DEF es, old
  <2> TAKE j \in DOMAIN entries
  <2>1. CASE j = e
    <3>1. entries'[j] = old /\ old.period = entries[j].period
      BY <1>1, <1>3, <1>5, <1>6, <2>1
    <3> QED BY <1>3, <2>1, <3>1
  <2>2. CASE j # e
    BY <1>5, <1>6, <2>2
  <2> QED BY <2>1, <2>2
<1> HIDE DEF es, old, x
<1>8. TypeOK'
  BY <1>1, <1>2, <1>4, <1>6, <1>7, EndsFacts DEF BooksInv, TypeOK
<1>10. ASSUME NEW p, p # r.period, NEW kind \in Kinds
       PROVE  BalanceIn(entries', p, kind) = BalanceIn(entries, p, kind)
  <2>1. Worth(entries[e], p, kind) = 0 /\ Worth(old, p, kind) = 0 /\ Worth(x, p, kind) = 0
    BY <1>1, <1>3, <1>4, <1>10 DEF Worth
  <2>2. BalanceIn(es, p, kind) = BalanceIn(entries, p, kind) - 0 + 0
    BY <1>1, <1>2, <1>3, <2>1, BalanceChange DEF es
  <2>3. BalanceIn(entries', p, kind) = BalanceIn(es, p, kind) + 0
    BY <1>1, <1>4, <1>5, <2>1, BalanceAppend
  <2>4. BalanceIn(entries, p, kind) \in Int
    BY <1>2, BalanceType
  <2> QED BY <2>2, <2>3, <2>4
<1>19. "REVENUE" \in Kinds /\ "EXPENSE" \in Kinds
  BY DEF Kinds
<1>9. ASSUME NEW d \in Clerks \ {c} PROVE OnEntries(call[d])'
  <2>1. call'[d] = call[d] /\ OnEntries(call[d]) /\ Meets(call[c], call[d]) \subseteq history
    BY <1>1, EndsFacts DEF BooksInv, Held
  <2>2. BalanceKnown(call[d])'
    <3> DEFINE p == call[d].period
    <3> SUFFICES ASSUME call[d].op = "close", Period(p) \notin history
                 PROVE  /\ call[d].revenue = BalanceIn(entries', p, "REVENUE")
                        /\ call[d].expense = BalanceIn(entries', p, "EXPENSE")
      BY <1>1, <2>1, BalanceStaysKnown
    <3>1. p # r.period
      BY <1>1, <2>1, MeetsWhere DEF OfPeriod
    <3>2. /\ call[d].revenue = BalanceIn(entries, p, "REVENUE")
          /\ call[d].expense = BalanceIn(entries, p, "EXPENSE")
      BY <2>1 DEF OnEntries, BalanceKnown, Balance, BalanceIn
    <3> HIDE DEF p
    <3> QED BY <1>10, <1>19, <3>1, <3>2
  <2>3. EventIsNew(call[d])'
    <3> SUFFICES ASSUME call[d].op = "event", call[d].reference \notin history,
                        NEW j \in DOMAIN entries'
                 PROVE  ~(entries'[j].reference = call[d].reference
                          /\ entries'[j].status = "POSTED")
      BY <1>1, <2>1 DEF EventIsNew
    <3>1. CASE j = n
      <4>1. \E f \in References : call[d].reference = Event(f)
        BY DEF BooksInv, Held, PurposeOfCall
      <4>2. call[d].reference[1] = "event"
        BY <4>1 DEF Event
      <4>3. x.reference[1] = "reversal"
        BY <1>4 DEF Reversal
      <4> QED BY <1>6, <3>1, <4>2, <4>3
    <3>2. CASE j \in DOMAIN entries
      BY <1>7, <2>1, <3>2 DEF OnEntries, EventIsNew
    <3> QED BY <1>6, <3>1, <3>2
  <2>4. EntryKnown(call[d])'
    BY <1>6, <1>7, <2>1 DEF OnEntries, EntryKnown
  <2>5. EntryIsPosted(call[d])'
    <3> SUFFICES ASSUME call[d].op = "reverse", Entered(call[d].entry) \notin history
                 PROVE  entries'[call[d].entry].status = "POSTED"
      BY <1>1, <2>1 DEF EntryIsPosted
    <3>1. call[d].entry # e
      BY <1>1, <2>1, MeetsWhere
    <3> QED BY <1>7, <2>1, <3>1 DEF OnEntries, EntryKnown, EntryIsPosted
  <2> QED BY <2>2, <2>3, <2>4, <2>5 DEF OnEntries
<1>11. EventsOnce'
  <2> SUFFICES ASSUME NEW d \in DOMAIN entries', NEW f \in DOMAIN entries',
                      entries'[d].reference = entries'[f].reference,
                      entries'[d].reference \notin history,
                      NEW g \in References, entries'[d].reference = Event(g),
                      entries'[d].status = "POSTED", entries'[f].status = "POSTED"
               PROVE  d = f
    BY <1>1, EventsStayOnce
  <2>1. x.reference # Event(g)
    BY <1>4 DEF Reversal, Event
  <2>2. d \in DOMAIN entries /\ f \in DOMAIN entries
    BY <1>6, <2>1
  <2>3. /\ entries[d].reference = Event(g) /\ entries[f].reference = Event(g)
        /\ entries[d].reference \notin history
    BY <1>7, <2>2
  <2>4. entries[d].status = "POSTED" /\ entries[f].status = "POSTED"
    BY <1>7, <2>2
  <2> QED BY <2>2, <2>3, <2>4 DEF BooksInv, Journals, EventsOnce
<1>12. \A j \in DOMAIN entries : \A y \in DOMAIN entries' :
          entries'[y].reference = Reversal(j) <=>
             \/ y = n /\ j = e
             \/ y \in DOMAIN entries /\ entries[y].reference = Reversal(j)
  <2> TAKE j \in DOMAIN entries
  <2> TAKE y \in DOMAIN entries'
  <2>1. CASE y = n
    BY <1>4, <1>6, <2>1 DEF Reversal
  <2>2. CASE y \in DOMAIN entries
    BY <1>6, <1>7, <2>2
  <2> QED BY <1>6, <2>1, <2>2
<1>13. \A y \in DOMAIN entries' : entries'[y].reference # Reversal(n)
  <2> SUFFICES ASSUME NEW y \in DOMAIN entries', entries'[y].reference = Reversal(n) PROVE FALSE
    OBVIOUS
  <2>1. entries'[y].reference[1] = "reversal" /\ entries'[y].reference[2] = n
    BY DEF Reversal
  <2>2. y # n
    BY <1>1, <1>4, <1>6, <2>1 DEF Reversal
  <2> QED BY <1>6, <1>7, <2>1, <2>2 DEF BooksInv, Journals, ReversalsKnown
<1>14. ReversedOnce'
  <2> SUFFICES ASSUME NEW j \in DOMAIN entries', Entered(j) \notin history
               PROVE  /\ \A a, b \in DOMAIN entries' :
                            entries'[a].reference = Reversal(j)
                            /\ entries'[b].reference = Reversal(j) => a = b
                      /\ entries'[j].status = "REVERSED"
                           <=> \E a \in DOMAIN entries' : entries'[a].reference = Reversal(j)
    BY <1>1 DEF ReversedOnce
  <2>1. CASE j = n
    BY <1>4, <1>6, <1>13, <2>1
  <2>2. CASE j \in DOMAIN entries /\ j # e
    BY <1>6, <1>7, <1>12, <2>2 DEF BooksInv, Journals, ReversedOnce
  <2>3. CASE j = e
    <3>1. entries[e].status = "POSTED"
      BY <1>1, <2>3 DEF BooksInv, Held, OnEntries, EntryIsPosted
    <3>2. \A a \in DOMAIN entries : entries[a].reference # Reversal(e)
      BY <1>1, <2>3, <3>1 DEF BooksInv, Journals, ReversedOnce
    <3>3. \A a \in DOMAIN entries' : entries'[a].reference = Reversal(e) <=> a = n
      BY <1>1, <1>6, <1>12, <3>2
    <3> QED BY <1>1, <1>6, <1>7, <2>3, <3>3
  <2> QED BY <1>6, <2>1, <2>2, <2>3
<1>15. ReversalsKnown'
  <2> SUFFICES ASSUME NEW y \in DOMAIN entries', entries'[y].reference[1] = "reversal"
               PROVE  entries'[y].reference[2] \in DOMAIN entries'
    BY DEF ReversalsKnown
  <2>1. CASE y = n
    BY <1>1, <1>4, <1>6, <2>1 DEF Reversal
  <2>2. CASE y \in DOMAIN entries
    BY <1>6, <1>7, <2>2 DEF BooksInv, Journals, ReversalsKnown
  <2> QED BY <1>6, <2>1, <2>2
<1>16. EntriesBalanced'
  BY <1>4, <1>6, <1>7 DEF BooksInv, Journals, EntriesBalanced
<1>17. Held' /\ Calendars' /\ MetInv'
  BY <1>1, <1>9, HeldRest, PeriodsSame, EndsFacts
<1>18. NominalsClosed'
  <2> SUFFICES ASSUME NEW q \in DOMAIN periods, periods[q].status = "CLOSED",
                      periods[q].closing = "posted", Period(q) \notin history
               PROVE  BalanceIn(entries', q, "REVENUE") = 0 /\ BalanceIn(entries', q, "EXPENSE") = 0
    BY <1>1 DEF NominalsClosed, Balance, BalanceIn
  <2>1. q # r.period
    BY <1>1 DEF BooksInv, Held, OnPeriods, NotClosed
  <2>2. BalanceIn(entries, q, "REVENUE") = 0 /\ BalanceIn(entries, q, "EXPENSE") = 0
    BY DEF BooksInv, NominalsClosed, Balance, BalanceIn
  <2> QED BY <1>10, <1>19, <2>1, <2>2
<1> QED BY <1>8, <1>11, <1>14, <1>15, <1>16, <1>17, <1>18 DEF BooksInv, Journals

\* What the calls have read when they begin to write.
LEMMA ReadSteps ==
  ASSUME BooksInv, NEW c \in Clerks, Read(c)
  PROVE  BooksInv'
<1> USE DEF OnPeriods, OnEntries, PurposeOfCall, SpanIsFree, NoneIsOpen, PeriodKnown, NotClosed,
            BalanceKnown, EventIsNew, EntryKnown, EntryIsPosted, OfPeriod
<1>0. /\ periods \in Seq(PeriodRows) /\ entries \in Seq(EntryRows)
      /\ \A p \in DOMAIN periods : p \in Nat /\ periods[p] \in PeriodRows
      /\ \A e \in DOMAIN entries : e \in Nat /\ entries[e] \in EntryRows
                                   /\ entries[e].period \in DOMAIN periods
  BY DEF BooksInv, TypeOK
<1>1. ASSUME NEW b \in Spans, CreateRead(c, b) PROVE BooksInv'
  <2> DEFINE r == [op |-> "create", span |-> b]
  <2>1. Reads(c, r) /\ r \in Calls
    BY <1>1 DEF CreateRead, Calls
  <2>2. ASSUME NEW p \in DOMAIN periods PROVE Disjoint(b, periods[p].span)
    <3>1. periods[p].span \in Spans /\ ~Overlaps(b, periods[p].span)
      BY <1>0, <1>1 DEF CreateRead, PeriodRows
    <3> QED BY <3>1, BooksAssumption DEF Overlaps, Disjoint
  <2>3. OnPeriods(r) /\ OnEntries(r) /\ PurposeOfCall(r)
    BY <2>2
  <2> HIDE DEF r
  <2> QED BY <2>1, <2>3, ReadStep
<1>2. ASSUME NEW p \in DOMAIN periods, OpenRead(c, p) PROVE BooksInv'
  <2> DEFINE r == [op |-> "open", period |-> p]
  <2>1. Reads(c, r) /\ r \in Calls
    BY <1>0, <1>2 DEF OpenRead, Calls
  <2>2. OnPeriods(r) /\ OnEntries(r) /\ PurposeOfCall(r)
    BY <1>2 DEF OpenRead
  <2> HIDE DEF r
  <2> QED BY <2>1, <2>2, ReadStep
<1>3. ASSUME NEW p \in DOMAIN periods, ManagerCloseRead(c, p) PROVE BooksInv'
  <2> DEFINE r == [op |-> "manager close", period |-> p]
  <2>1. Reads(c, r) /\ r \in Calls
    BY <1>0, <1>3 DEF ManagerCloseRead, Calls
  <2>2. OnPeriods(r) /\ OnEntries(r) /\ PurposeOfCall(r)
    OBVIOUS
  <2> HIDE DEF r
  <2> QED BY <2>1, <2>2, ReadStep
<1>4. ASSUME NEW p \in DOMAIN periods, CloseRead(c, p) PROVE BooksInv'
  <2> DEFINE r == [op |-> "close", period |-> p,
                   revenue |-> Balance(p, "REVENUE"), expense |-> Balance(p, "EXPENSE")]
  <2>1. Balance(p, "REVENUE") \in Int /\ Balance(p, "EXPENSE") \in Int
    BY <1>0, BalanceType DEF Balance, BalanceIn, Kinds
  <2>2. Reads(c, r) /\ r \in Calls
    BY <1>0, <1>4, <2>1 DEF CloseRead, Calls
  <2>3. OnPeriods(r) /\ OnEntries(r) /\ PurposeOfCall(r)
    OBVIOUS
  <2> HIDE DEF r
  <2> QED BY <2>2, <2>3, ReadStep
<1>5. ASSUME NEW p \in DOMAIN periods, NEW net \in Lines, PostRead(c, p, net) PROVE BooksInv'
  <2> DEFINE r == [op |-> "post", period |-> p, net |-> net, reference |-> Manual]
  <2>1. Manual \in Purposes /\ net \in Nets
    BY BooksAssumption DEF Manual, Purposes
  <2>2. Reads(c, r) /\ r \in Calls
    BY <1>0, <1>5, <2>1 DEF PostRead, Calls
  <2>3. periods[p].status # "CLOSED" /\ Balanced(net)
    BY <1>5 DEF PostRead, ValidatePeriodOpen, ActivePeriod
  <2>4. OnPeriods(r) /\ OnEntries(r) /\ PurposeOfCall(r)
    BY <2>3
  <2> HIDE DEF r
  <2> QED BY <2>2, <2>4, ReadStep
<1>6. ASSUME NEW p \in DOMAIN periods, NEW net \in Lines, NEW f \in References,
             EventRead(c, p, Event(f), net)
      PROVE  BooksInv'
  <2> DEFINE r == [op |-> "event", period |-> p, net |-> net, reference |-> Event(f)]
  <2>1. Event(f) \in Purposes /\ net \in Nets
    BY BooksAssumption DEF Event, Purposes
  <2>2. Reads(c, r) /\ r \in Calls
    BY <1>0, <1>6, <2>1 DEF EventRead, Calls
  <2>3. periods[p].status # "CLOSED" /\ Balanced(net)
    BY <1>6 DEF EventRead, ValidatePeriodOpen
  <2>4. \A e \in DOMAIN entries :
           ~(entries[e].reference = Event(f) /\ entries[e].status = "POSTED")
    BY <1>0, <1>6 DEF EventRead, ToSet
  <2>5. OnPeriods(r) /\ OnEntries(r) /\ PurposeOfCall(r)
    BY <2>3, <2>4
  <2> HIDE DEF r
  <2> QED BY <2>2, <2>5, ReadStep
<1>7. ASSUME NEW e \in DOMAIN entries, ReverseRead(c, e) PROVE BooksInv'
  <2> DEFINE r == [op |-> "reverse", period |-> entries[e].period, entry |-> e]
  <2>1. Reads(c, r) /\ r \in Calls
    BY <1>0, <1>7 DEF ReverseRead, Calls
  <2>2. OnPeriods(r) /\ OnEntries(r) /\ PurposeOfCall(r)
    BY <1>0, <1>7 DEF ReverseRead, ValidatePeriodOpen
  <2> HIDE DEF r
  <2> QED BY <2>1, <2>2, ReadStep
<1> QED BY <1>1, <1>2, <1>3, <1>4, <1>5, <1>6, <1>7 DEF Read

LEMMA CallFailsStep ==
  ASSUME BooksInv, NEW c \in Clerks, CallFails(c)
  PROVE  BooksInv'
<1>1. Ends(c) /\ UNCHANGED <<periods, entries, history>>
  BY DEF CallFails
<1>2. TypeOK'
  BY <1>1, EndsFacts DEF BooksInv, TypeOK
<1>3. Held' /\ Journals' /\ Calendars' /\ MetInv'
  BY <1>1, HeldRest, EntriesSame, PeriodsSame, EndsFacts
<1>4. NominalsClosed'
  BY <1>1 DEF BooksInv, NominalsClosed, Balance
<1> QED BY <1>2, <1>3, <1>4 DEF BooksInv

LEMMA BooksInit == Init => BooksInv
<1> SUFFICES ASSUME Init PROVE BooksInv
  OBVIOUS
<1>1. /\ periods = FirstPeriods /\ entries = << >> /\ history = {}
      /\ \A c \in Clerks : call[c] = NoCall /\ call[c].op = "none"
      /\ call \in [Clerks -> Calls]
  BY DEF Init, NoCall, Calls
<1>2. TypeOK
  BY <1>1, BooksAssumption DEF TypeOK
<1>3. MetInv
  BY <1>1, MeetsBoth DEF MetInv
<1>4. Held
  BY <1>1 DEF Held, OnPeriods, OnEntries, PurposeOfCall, SpanIsFree, NoneIsOpen, PeriodKnown,
     NotClosed, BalanceKnown, EventIsNew, EntryKnown, EntryIsPosted, OfPeriod
<1>5. Calendars
  BY <1>1, BooksAssumption DEF Calendars, SpansDisjoint, OneOpen
<1>6. Journals
  BY <1>1 DEF Journals, EventsOnce, ReversedOnce, ReversalsKnown, EntriesBalanced
<1>7. NominalsClosed
  <2>1. \A p, kind : Balance(p, kind) = 0
    <3> TAKE p, kind
    <3>1. DOMAIN entries = {}
      BY <1>1
    <3> QED BY <3>1, SumEmpty DEF Balance, SumFunction
  <2> QED BY <2>1 DEF NominalsClosed
<1> QED BY <1>2, <1>3, <1>4, <1>5, <1>6, <1>7 DEF BooksInv

LEMMA BooksStep == BooksInv /\ [Next]_vars => BooksInv'
<1> SUFFICES ASSUME BooksInv, [Next]_vars PROVE BooksInv'
  OBVIOUS
<1>1. CASE UNCHANGED vars
  <2>1. UNCHANGED <<periods, entries, call, history>>
    BY <1>1 DEF vars
  <2>2. TypeOK' /\ MetInv'
    BY <2>1 DEF BooksInv, TypeOK, MetInv
  <2>3. ASSUME NEW c \in Clerks
        PROVE (OnPeriods(call[c]) /\ OnEntries(call[c]) /\ PurposeOfCall(call[c]))'
    <3>1. OnPeriods(call[c]) /\ OnEntries(call[c]) /\ PurposeOfCall(call[c])
      BY DEF BooksInv, Held
    <3>2. OnPeriods(call[c])'
      BY <2>1, <3>1 DEF OnPeriods, SpanIsFree, NoneIsOpen, PeriodKnown, NotClosed
    <3>3. OnEntries(call[c])'
      BY <2>1, <3>1 DEF OnEntries, BalanceKnown, EventIsNew, EntryKnown, EntryIsPosted, Balance
    <3>4. PurposeOfCall(call[c])'
      BY <2>1, <3>1 DEF PurposeOfCall
    <3> QED BY <3>2, <3>3, <3>4
  <2>4. Held'
    BY <2>3 DEF Held
  <2>5. Calendars' /\ NominalsClosed'
    BY <2>1 DEF BooksInv, Calendars, SpansDisjoint, OneOpen, NominalsClosed, Balance
  <2>6. Journals'
    BY <2>1 DEF BooksInv, Journals, EventsOnce, ReversedOnce, ReversalsKnown, EntriesBalanced
  <2> QED BY <2>2, <2>4, <2>5, <2>6 DEF BooksInv
<1>2. ASSUME NEW c \in Clerks, Read(c) PROVE BooksInv'
  BY <1>2, ReadSteps
<1>3. ASSUME NEW c \in Clerks, Write(c) PROVE BooksInv'
  BY <1>3, CreatePeriodStep, OpenPeriodStep, ManagerCloseStep, CloseStep, PostStep,
     ReverseEntryStep, CallFailsStep DEF Write
<1> QED BY <1>1, <1>2, <1>3 DEF Next

\* The invariant of the books holds in every state.
THEOREM BooksInvariant == Spec => []BooksInv
  BY BooksInit, BooksStep, PTL DEF Spec

-----------------------------------------------------------------------------
(* What follows from the invariant *)

\* A set of which any two members are equal has one at most.
LEMMA OneAtMost ==
  ASSUME NEW S, \A x, y \in S : x = y
  PROVE  Cardinality(S) <= 1 /\ ((\E x : x \in S) => Cardinality(S) = 1)
<1>1. CASE S = {}
  BY <1>1, FS_EmptySet
<1>2. ASSUME NEW x \in S PROVE Cardinality(S) = 1
  <2>1. S = {x}
    OBVIOUS
  <2> QED BY <2>1, FS_Singleton
<1> QED BY <1>1, <1>2

\* The trial balance: each entry brings a cent at most.
LEMMA EntriesBalance == BooksInv => TrialBalanceHolds
<1> SUFFICES ASSUME BooksInv, NEW p \in DOMAIN periods
             PROVE  LET S == {e \in DOMAIN entries : entries[e].period = p
                                                     /\ entries[e].status = "POSTED"}
                    IN  Abs(Sum([k \in Kinds |-> Balance(p, k)])) <= Cent * Cardinality(S)
  BY DEF TrialBalanceHolds
<1> DEFINE D == DOMAIN entries
           S == {e \in D : entries[e].period = p /\ entries[e].status = "POSTED"}
           f(k) == [e \in D |-> IF entries[e].period = p /\ entries[e].status = "POSTED"
                                THEN entries[e].net[k] ELSE 0]
           two == [e \in D |-> f("REVENUE")[e] + f("EXPENSE")[e]]
           all == [e \in D |-> two[e] + f("OTHER")[e]]
           one == [e \in D |-> IF e \in S THEN 1 ELSE 0]
           minus == [e \in D |-> IF e \in S THEN -1 ELSE 0]
           none == [e \in D |-> 0]
<1>1. IsFiniteSet(D) /\ \A e \in D : entries[e] \in EntryRows /\ Balanced(entries[e].net)
  <2>1. entries \in Seq(EntryRows)
    BY DEF BooksInv, TypeOK
  <2>2. D = 1..Len(entries) /\ Len(entries) \in Nat
    BY <2>1
  <2> QED BY <2>1, <2>2, FS_Interval DEF BooksInv, Journals, EntriesBalanced
<1>2. \A e \in D : f("REVENUE")[e] \in Int /\ f("EXPENSE")[e] \in Int /\ f("OTHER")[e] \in Int
  BY <1>1 DEF EntryRows, Nets, Kinds
<1>3. \A e \in D : /\ minus[e] \in Int /\ all[e] \in Int /\ one[e] \in Int
                   /\ minus[e] <= all[e] /\ all[e] <= one[e]
  <2> TAKE e \in D
  <2>1. all[e] = IF e \in S THEN Sum(entries[e].net) ELSE 0
    BY <1>1 DEF Sum, EntryRows, Nets, Kinds
  <2>2. Sum(entries[e].net) \in Int /\ -1 <= Sum(entries[e].net) /\ Sum(entries[e].net) <= 1
    BY <1>1 DEF Sum, Balanced, Abs, Cent, EntryRows, Nets, Kinds
  <2> HIDE DEF all, S
  <2> QED BY <2>1, <2>2
<1>4. SumFunctionOnSet(one, D) = Cardinality(S)
  BY <1>1, SumOnes
<1>5. SumFunctionOnSet(none, D) = 0
  BY <1>1, SumZero
<1>6. SumFunctionOnSet(none, D) = SumFunctionOnSet(one, D) + SumFunctionOnSet(minus, D)
  BY <1>1, <1>3, SumPlus
<1>7. /\ SumFunctionOnSet(minus, D) <= SumFunctionOnSet(all, D)
      /\ SumFunctionOnSet(all, D) <= SumFunctionOnSet(one, D)
  <2> HIDE DEF all, one, minus
  <2> QED BY <1>1, <1>3, SumMonotone
<1>8. /\ SumFunctionOnSet(all, D) = SumFunctionOnSet(two, D) + SumFunctionOnSet(f("OTHER"), D)
      /\ SumFunctionOnSet(two, D)
           = SumFunctionOnSet(f("REVENUE"), D) + SumFunctionOnSet(f("EXPENSE"), D)
  <2>1. \A e \in D : two[e] \in Int
    BY <1>2
  <2> QED BY <1>1, <1>2, <2>1, SumPlus
<1>9. \A k \in Kinds : Balance(p, k) = SumFunctionOnSet(f(k), D)
  BY DEF Balance, SumFunction
<1>10. Sum([k \in Kinds |-> Balance(p, k)]) = SumFunctionOnSet(all, D)
  <2>1. \A k \in Kinds : Balance(p, k) \in Int
    <3>1. entries \in Seq(EntryRows)
      BY DEF BooksInv, TypeOK
    <3> QED BY <3>1, BalanceType DEF Balance, BalanceIn
  <2> DEFINE b == [k \in Kinds |-> Balance(p, k)]
  <2>2. "REVENUE" \in Kinds /\ "EXPENSE" \in Kinds /\ "OTHER" \in Kinds
    BY DEF Kinds
  <2>3. /\ b["REVENUE"] = SumFunctionOnSet(f("REVENUE"), D)
        /\ b["EXPENSE"] = SumFunctionOnSet(f("EXPENSE"), D)
        /\ b["OTHER"] = SumFunctionOnSet(f("OTHER"), D)
    BY <1>9, <2>2
  <2>4. b["REVENUE"] \in Int /\ b["EXPENSE"] \in Int /\ b["OTHER"] \in Int
    BY <2>1, <2>2
  <2>5. Sum(b) = b["REVENUE"] + b["EXPENSE"] + b["OTHER"]
    BY DEF Sum
  <2> HIDE DEF b, all, two, f
  <2>6. Sum(b) = SumFunctionOnSet(all, D)
    BY <1>8, <2>3, <2>4, <2>5
  <2> QED BY <2>6 DEF b
<1>11. SumFunctionOnSet(all, D) \in Int /\ SumFunctionOnSet(minus, D) \in Int /\ Cardinality(S) \in Nat
  <2>1. IsFiniteSet(S)
    BY <1>1, FS_Subset
  <2>2. Cardinality(S) \in Nat
    BY <2>1, FS_CardinalityType
  <2>3. \A e \in D : all[e] \in Int /\ minus[e] \in Int
    BY <1>3
  <2> HIDE DEF all, minus, D, S
  <2>4. SumFunctionOnSet(all, D) \in Int
    BY <1>1, <2>3, SumType
  <2>5. SumFunctionOnSet(minus, D) \in Int
    BY <1>1, <2>3, SumType
  <2> QED BY <2>2, <2>4, <2>5
<1>12. Abs(SumFunctionOnSet(all, D)) <= Cent * Cardinality(S)
  <2> HIDE DEF all, one, minus, none, D, S
  <2> QED BY <1>4, <1>5, <1>6, <1>7, <1>11 DEF Abs, Cent
<1> QED BY <1>10, <1>12

\* The calendar and the trial balance: periods do not overlap and one is OPEN, a period that
\* is closed with its closing entry has nothing left on revenue and costs, and no entry is off
\* by more than a cent; but where two calls have met (PeriodManagerService,
\* AccountingService.closePeriod).
THEOREM PeriodsAndBalances == Spec => []PeriodsHold
<1>1. BooksInv => PeriodsHold
  <2> SUFFICES ASSUME BooksInv PROVE PeriodsHold
    OBVIOUS
  <2>1. OneOpenPeriod
    <3> DEFINE S == {p \in DOMAIN periods : periods[p].status = "OPEN"}
    <3>1. Opening \in history \/ \A p, q \in S : p = q
      BY DEF BooksInv, Calendars, OneOpen
    <3>2. Opening \in history \/ Cardinality(S) <= 1
      <4> HIDE DEF S
      <4> QED BY <3>1, OneAtMost
    <3> QED BY <3>2 DEF OneOpenPeriod
  <2> QED BY <2>1, EntriesBalance
          DEF PeriodsHold, BooksInv, Calendars, SpansDisjoint, PeriodsDisjoint
<1> QED BY <1>1, BooksInvariant, PTL

\* An event has one POSTED entry at most and an entry one reversal, which it has when it is
\* REVERSED and only then; but where two calls have met at it (JournalEngineService.processEvent,
\* AccountingService.reverseJournalEntry).
THEOREM EventsPostedOnce == Spec => []PostedOnce
<1>1. BooksInv => PostedOnce
  <2> SUFFICES ASSUME BooksInv PROVE PostedOnce
    OBVIOUS
  <2>1. ASSUME NEW r \in References, Event(r) \notin history PROVE Cardinality(Of(Event(r))) <= 1
    <3>1. \A d, e \in Of(Event(r)) : d = e
      BY <2>1 DEF Of, BooksInv, Journals, EventsOnce
    <3> QED BY <3>1, OneAtMost
  <2>2. ASSUME NEW e \in DOMAIN entries, Entered(e) \notin history
        PROVE  Cardinality({x \in DOMAIN entries : entries[x].reference = Reversal(e)})
                 = IF entries[e].status = "REVERSED" THEN 1 ELSE 0
    <3> DEFINE S == {x \in DOMAIN entries : entries[x].reference = Reversal(e)}
    <3>1. /\ \A x, y \in S : x = y
          /\ entries[e].status = "REVERSED" <=> \E x : x \in S
      BY <2>2 DEF BooksInv, Journals, ReversedOnce
    <3>2. CASE entries[e].status = "REVERSED"
      <4> HIDE DEF S
      <4>1. Cardinality(S) = 1
        BY <3>1, <3>2, OneAtMost
      <4> QED BY <3>2, <4>1 DEF S
    <3>3. CASE entries[e].status # "REVERSED"
      <4>1. S = {}
        BY <3>1, <3>3
      <4> QED BY <3>3, <4>1, FS_EmptySet
    <3> QED BY <3>2, <3>3
  <2> QED BY <2>1, <2>2 DEF PostedOnce
<1> QED BY <1>1, BooksInvariant, PTL

\* A CLOSED period stays closed and its entries stay, but for a closing entry, unless a call
\* has met a change of its status (validatePeriodOpen; BR-ACC-002).
THEOREM ClosedPeriodsSealed == Spec => ClosedIsSealed
<1> DEFINE Sealed(p) ==
             /\ periods'[p].status = "CLOSED"
             /\ \A e \in DOMAIN entries' :
                   entries'[e].period = p =>
                       \/ e \in DOMAIN entries /\ entries'[e] = entries[e]
                       \/ e \notin DOMAIN entries /\ entries'[e].reference = Closing(p)
           Step == \A p \in DOMAIN periods :
                       periods[p].status = "CLOSED" /\ Period(p) \notin history' => Sealed(p)
<1>1. ASSUME BooksInv, [Next]_vars PROVE Step
  <2> SUFFICES ASSUME NEW p \in DOMAIN periods, periods[p].status = "CLOSED",
                      Period(p) \notin history'
               PROVE  Sealed(p)
    OBVIOUS
  <2>0. /\ periods \in Seq(PeriodRows) /\ entries \in Seq(EntryRows)
        /\ \A c \in Clerks : /\ PeriodKnown(call[c]) /\ NotClosed(call[c]) /\ EntryKnown(call[c])
                             /\ call[c] \in Calls
    BY <1>1 DEF BooksInv, TypeOK, Held, OnPeriods, OnEntries
  <2>1. ASSUME UNCHANGED <<periods, entries>> PROVE Sealed(p)
    BY <2>1
  <2>2. ASSUME NEW c \in Clerks, Read(c) PROVE Sealed(p)
    <3>1. UNCHANGED <<periods, entries>>
      BY <2>2 DEF Read, CreateRead, OpenRead, ManagerCloseRead, CloseRead, PostRead, EventRead,
         ReverseRead, Reads
    <3> QED BY <2>1, <3>1
  <2>3. ASSUME NEW c \in Clerks, CreatePeriod(c) PROVE Sealed(p)
    BY <2>0, <2>3 DEF CreatePeriod
  <2>4. ASSUME NEW c \in Clerks, OpenPeriod(c) PROVE Sealed(p)
    <3>1. call[c].op = "open" /\ history' = history /\ entries' = entries
          /\ periods' = [periods EXCEPT ![call[c].period].status = "OPEN"]
      BY <2>4 DEF OpenPeriod
    <3>2. call[c].period # p
      BY <2>0, <3>1 DEF NotClosed
    <3> QED BY <2>0, <3>1, <3>2
  <2>5. ASSUME NEW c \in Clerks, ManagerClose(c) PROVE Sealed(p)
    BY <2>0, <2>5 DEF ManagerClose, ClosedRow
  <2>6. ASSUME NEW c \in Clerks, Close(c) PROVE Sealed(p)
    <3> DEFINE q == call[c].period
               x == Entry(q, ClosingNet(call[c].revenue, call[c].expense), Closing(q))
    <3>1. /\ entries' \in {Append(entries, x), entries}
          /\ \E closing : periods' = [periods EXCEPT ![q] = ClosedRow(q, closing)]
      BY <2>6 DEF Close
    <3>2. periods'[p].status = "CLOSED"
      BY <2>0, <3>1 DEF ClosedRow
    <3>3. x.period = q /\ x.reference = Closing(q)
      BY DEF Entry
    <3>4. CASE entries' = Append(entries, x)
      <4>1. /\ DOMAIN entries' = DOMAIN entries \cup {Len(entries) + 1}
            /\ Len(entries) + 1 \notin DOMAIN entries /\ entries'[Len(entries) + 1] = x
            /\ \A e \in DOMAIN entries : entries'[e] = entries[e]
        <5> HIDE DEF x
        <5> QED BY <2>0, <3>4
      <4> HIDE DEF x
      <4> QED BY <3>2, <3>3, <4>1
    <3>5. CASE entries' = entries
      BY <3>2, <3>5
    <3> QED BY <3>1, <3>4, <3>5
  <2>7. ASSUME NEW c \in Clerks, Post(c) PROVE Sealed(p)
    <3> DEFINE x == Entry(call[c].period, call[c].net, call[c].reference)
    <3>1. /\ entries' = Append(entries, x) /\ periods' = periods /\ history' = history
          /\ call[c].op \in {"post", "event"}
      BY <2>7 DEF Post
    <3>2. x.period # p
      BY <2>0, <3>1 DEF Entry, NotClosed
    <3> HIDE DEF x
    <3>3. /\ DOMAIN entries' = DOMAIN entries \cup {Len(entries) + 1}
          /\ entries'[Len(entries) + 1] = x
          /\ \A e \in DOMAIN entries : entries'[e] = entries[e]
      BY <2>0, <3>1
    <3> QED BY <3>1, <3>2, <3>3
  <2>8. ASSUME NEW c \in Clerks, ReverseEntry(c) PROVE Sealed(p)
    <3> DEFINE e == call[c].entry
               es == [entries EXCEPT ![e].status = "REVERSED"]
               x == Entry(entries[e].period, Swapped(entries[e].net), Reversal(e))
    <3>1. /\ entries' = Append(es, x) /\ periods' = periods /\ history' = history
          /\ call[c].op = "reverse"
      BY <2>8 DEF ReverseEntry
    <3>2. e \in DOMAIN entries /\ entries[e].period # p
      BY <2>0, <3>1 DEF NotClosed, EntryKnown
    <3>3. x.period # p
      BY <3>2 DEF Entry
    <3>4. /\ DOMAIN es = DOMAIN entries /\ Len(es) = Len(entries) /\ es[e].period # p
          /\ \A j \in DOMAIN entries \ {e} : es[j] = entries[j]
          /\ es \in Seq(EntryRows)
      <4> DEFINE row == [entries[e] EXCEPT !.status = "REVERSED"]
      <4>1. entries[e] \in EntryRows
        BY <2>0, <3>2
      <4>2. row \in EntryRows /\ row.period = entries[e].period
        BY <4>1 DEF EntryRows
      <4>3. es = [entries EXCEPT ![e] = row]
        OBVIOUS
      <4> HIDE DEF row, es, e
      <4> QED BY <2>0, <3>2, <4>2, <4>3, SetRow
    <3> HIDE DEF x, es
    <3>5. /\ DOMAIN entries' = DOMAIN entries \cup {Len(entries) + 1}
          /\ entries'[Len(entries) + 1] = x
          /\ \A j \in DOMAIN entries : entries'[j] = es[j]
      BY <2>0, <3>1, <3>4
    <3>6. ASSUME NEW j \in DOMAIN entries', entries'[j].period = p
          PROVE  j \in DOMAIN entries /\ entries'[j] = entries[j]
      BY <3>3, <3>4, <3>5, <3>6
    <3> QED BY <3>1, <3>6
  <2>9. ASSUME NEW c \in Clerks, CallFails(c) PROVE Sealed(p)
    BY <2>1, <2>9 DEF CallFails
  <2> HIDE DEF Sealed
  <2> QED BY <1>1, <2>1, <2>2, <2>3, <2>4, <2>5, <2>6, <2>7, <2>8, <2>9 DEF Next, Write, vars
<1>2. BooksInv /\ [Next]_vars => [Step]_vars
  BY <1>1
<1> QED BY <1>2, BooksInvariant, PTL DEF Spec, ClosedIsSealed

-----------------------------------------------------------------------------
(* The treasury *)

Manuals == {"INTER_ACCOUNT_TRANSFER", "EXPENSE_PAYMENT", "TAX_PAYMENT"}
Postings == {"CASH_IN", "CASH_OUT", "DEPRECIATION"} \cup Manuals
JournalRows ==
    [event : Postings, reference : Postings \X (Banks \cup Assets), amount : Nat,
     status : {"POSTED"}, auto : BOOLEAN]
AtAssets == [at : {"asset", "entry", "commit"}, seen : [Assets -> Nat], todo : Seq(Assets)]
AtCash == [at : {"cash"}, event : {"CASH_IN", "CASH_OUT"}, account : Banks, found : BOOLEAN]
RunStates == {Resting} \cup AtCash \cup AtAssets

TreTypeOK ==
    /\ journal \in Seq(JournalRows)
    /\ accumulated \in [Assets -> Nat]
    /\ inTx \in [Assets -> SUBSET Runs]
    /\ run \in [Runs -> RunStates]

\* A run at its entry holds the asset it is at.
Holding == {"entry", "commit"}
TxInv ==
    \A r \in Runs : run[r].at \in Holding =>
        run[r].todo # << >> /\ inTx[Asset(r)] = {r} /\ Due(r) > 0

\* A run that meets no other knows the assets that it has still to do.
AtWork(c) == c.at \in {"asset", "entry", "commit"}
KnowsOf(c, acc) ==
    /\ \A i, j \in DOMAIN c.todo : i # j => c.todo[i] # c.todo[j]
    /\ \A i \in DOMAIN c.todo : c.seen[c.todo[i]] = acc[c.todo[i]]
Unmet ==
    "together" \notin odd =>
        /\ \A r, s \in Runs : AtWork(run[r]) /\ AtWork(run[s]) => r = s
        /\ \A r \in Runs : AtWork(run[r]) => KnowsOf(run[r], accumulated)

TreInv == TreTypeOK /\ TxInv /\ Unmet /\ AssetsFollowEntries

\* A month is never more than what is left down to the salvage value.
LEMMA MonthlyBound ==
    ASSUME NEW a \in Assets, NEW seen \in Nat
    PROVE  /\ Monthly(a, seen) \in Nat
           /\ Monthly(a, seen) > 0 => Monthly(a, seen) <= Price[a] - seen - Salvage[a]
<1> DEFINE left == Price[a] - seen - Salvage[a]
           worth == Price[a] - Salvage[a]
           life == Life[a]
           month == worth \div life
<1>1. worth \in Nat /\ life \in Nat \ {0} /\ left \in Int
  BY TreasuryAssumption
<1>2. month \in Nat
  <2> HIDE DEF worth, life
  <2> QED BY <1>1, SMT
<1>3. Monthly(a, seen) = IF left <= 0 THEN 0 ELSE IF month > left THEN left ELSE month
  BY DEF Monthly
<1> HIDE DEF month
<1> QED BY <1>1, <1>2, <1>3

\* A run at an asset has an asset to do.
LEMMA AtAsset ==
    ASSUME TreTypeOK, NEW r \in Runs, AtWork(run[r])
    PROVE  /\ run[r] \in AtAssets
           /\ run[r].todo # << >> =>
                /\ Asset(r) \in Assets /\ Due(r) \in Nat
                /\ Tail(run[r].todo) \in Seq(Assets)
<1>1. run[r] \in AtAssets
  BY DEF TreTypeOK, RunStates, AtWork, Resting, AtCash
<1>2. run[r].todo \in Seq(Assets) /\ run[r].seen \in [Assets -> Nat]
  BY <1>1 DEF AtAssets
<1>3. ASSUME run[r].todo # << >>
      PROVE  Asset(r) \in Assets /\ Due(r) \in Nat /\ Tail(run[r].todo) \in Seq(Assets)
  <2>1. Asset(r) \in Assets /\ Tail(run[r].todo) \in Seq(Assets)
    BY <1>2, <1>3 DEF Asset
  <2>2. Due(r) \in Nat
    BY <1>2, <2>1, MonthlyBound DEF Due
  <2> QED BY <2>1, <2>2
<1> QED BY <1>1, <1>3

AmountOf(js, reference) ==
    SumFunction([i \in DOMAIN js |-> IF js[i].reference = reference THEN js[i].amount ELSE 0])

\* An entry adds its amount to its reference.
LEMMA AmountType ==
    ASSUME NEW js \in Seq(JournalRows), NEW reference
    PROVE  AmountOf(js, reference) \in Int
<1> DEFINE f == [i \in DOMAIN js |-> IF js[i].reference = reference THEN js[i].amount ELSE 0]
<1>1. \A i \in DOMAIN js : f[i] \in Int
  <2>1. \A i \in DOMAIN js : js[i] \in JournalRows
    OBVIOUS
  <2> QED BY <2>1 DEF JournalRows
<1>2. IsFiniteSet(DOMAIN js)
  BY FS_Interval
<1>3. AmountOf(js, reference) = SumFunctionOnSet(f, DOMAIN js)
  BY DEF AmountOf, SumFunction
<1> QED BY <1>1, <1>2, <1>3, SumType

LEMMA AmountAppend ==
    ASSUME NEW js \in Seq(JournalRows), NEW x \in JournalRows, NEW reference
    PROVE  /\ AmountOf(js, reference) \in Int
           /\ AmountOf(Append(js, x), reference)
                = AmountOf(js, reference) + IF x.reference = reference THEN x.amount ELSE 0
<1> DEFINE W == [y \in JournalRows |-> IF y.reference = reference THEN y.amount ELSE 0]
<1>1. W \in [JournalRows -> Int]
  BY DEF JournalRows
<1>2. ASSUME NEW s \in Seq(JournalRows) PROVE AmountOf(s, reference) = Weigh(s, W)
  <2>1. \A i \in DOMAIN s : s[i] \in JournalRows
    OBVIOUS
  <2>2. [i \in DOMAIN s |-> IF s[i].reference = reference THEN s[i].amount ELSE 0]
          = [i \in DOMAIN s |-> W[s[i]]]
    BY <2>1
  <2> HIDE DEF W
  <2> QED BY <2>2 DEF AmountOf, Weigh
<1>3. Append(js, x) \in Seq(JournalRows) /\ W[x] = IF x.reference = reference THEN x.amount ELSE 0
  OBVIOUS
<1> HIDE DEF W
<1>4. Weigh(js, W) \in Int /\ Weigh(Append(js, x), W) = Weigh(js, W) + W[x]
  BY <1>1, WeighType, WeighAppend
<1> QED BY <1>2, <1>3, <1>4

\* The amounts that the property adds up.
PendingIn(rs, a) ==
    SumFunction([r \in Runs |->
        IF rs[r].at = "commit" /\ Head(rs[r].todo) = a
        THEN Monthly(Head(rs[r].todo), rs[r].seen[Head(rs[r].todo)]) ELSE 0])
Share(c, a) ==
    IF c.at = "commit" /\ Head(c.todo) = a THEN Monthly(Head(c.todo), c.seen[Head(c.todo)]) ELSE 0

LEMMA PostedPending ==
    /\ \A a : Posted(a) = AmountOf(journal, <<"DEPRECIATION", a>>)
    /\ \A a : Pending(a) = PendingIn(run, a)
BY DEF Posted, Amount, AmountOf, Pending, PendingIn, Asset, Due

\* Only the call that moves changes what is pending.
LEMMA PendingMoves ==
    ASSUME NEW rs \in [Runs -> RunStates], NEW new \in [Runs -> RunStates],
           NEW r \in Runs, NEW a, \A s \in Runs \ {r} : new[s] = rs[s],
           \A s \in Runs : rs[s].at = "commit" => rs[s].todo # << >>,
           new[r].at = "commit" => new[r].todo # << >>
    PROVE  /\ PendingIn(new, a) = PendingIn(rs, a) - Share(rs[r], a) + Share(new[r], a)
           /\ PendingIn(rs, a) \in Int /\ Share(rs[r], a) \in Int /\ Share(new[r], a) \in Int
<1>1. ASSUME NEW d \in RunStates, d.at = "commit" => d.todo # << >>
      PROVE  Share(d, a) \in Int
  <2> SUFFICES ASSUME d.at = "commit", Head(d.todo) = a PROVE Share(d, a) \in Int
    BY DEF Share
  <2>1. d \in AtAssets
    BY DEF RunStates, Resting, AtCash
  <2>2. Head(d.todo) \in Assets /\ d.seen \in [Assets -> Nat]
    BY <1>1, <2>1 DEF AtAssets
  <2> QED BY <2>2, MonthlyBound DEF Share
<1> DEFINE f == [s \in Runs |-> Share(rs[s], a)]
           g == [s \in Runs |-> Share(new[s], a)]
<1>2. PendingIn(rs, a) = SumFunctionOnSet(f, Runs) /\ PendingIn(new, a) = SumFunctionOnSet(g, Runs)
  BY DEF PendingIn, Share, SumFunction
<1>3. \A s \in Runs : f[s] \in Int /\ g[s] \in Int
  BY <1>1
<1>4. \A s \in Runs \ {r} : g[s] = f[s]
  OBVIOUS
<1>5. f[r] = Share(rs[r], a) /\ g[r] = Share(new[r], a)
  OBVIOUS
<1>6. IsFiniteSet(Runs)
  BY TreasuryAssumption
<1>7. SumFunctionOnSet(g, Runs) = SumFunctionOnSet(f, Runs) - f[r] + g[r]
      /\ SumFunctionOnSet(f, Runs) \in Int
  <2> HIDE DEF f, g
  <2> QED BY <1>3, <1>4, <1>6, SumChange, SumType
<1> QED BY <1>2, <1>3, <1>5, <1>7

\* What a run holds stays its own while another call moves.
LEMMA RunMoves ==
    ASSUME TreInv, NEW r \in Runs, NEW c \in RunStates, Goes(r, c),
           c.at \in Holding =>
              /\ c.todo # << >> /\ inTx'[Head(c.todo)] = {r}
              /\ Monthly(Head(c.todo), c.seen[Head(c.todo)]) > 0,
           \A a \in Assets : inTx'[a] = inTx[a] \/ inTx[a] \subseteq {r}
    PROVE  /\ run' \in [Runs -> RunStates]
           /\ run'[r] = c /\ \A s \in Runs \ {r} : run'[s] = run[s]
           /\ TxInv'
           /\ \A a : /\ PendingIn(run', a) = PendingIn(run, a) - Share(run[r], a) + Share(c, a)
                     /\ PendingIn(run, a) \in Int
                     /\ Share(run[r], a) \in Int /\ Share(c, a) \in Int
<1>1. run \in [Runs -> RunStates] /\ run' = [run EXCEPT ![r] = c]
  BY DEF TreInv, TreTypeOK, RunStates, Goes
<1>2. /\ run' \in [Runs -> RunStates]
      /\ run'[r] = c /\ \A s \in Runs \ {r} : run'[s] = run[s]
  BY <1>1
<1>3. ASSUME NEW s \in Runs, run'[s].at \in Holding
      PROVE  /\ run'[s].todo # << >> /\ inTx'[Head(run'[s].todo)] = {s}
             /\ Monthly(Head(run'[s].todo), run'[s].seen[Head(run'[s].todo)]) > 0
  <2>1. CASE s = r
    BY <1>2, <1>3, <2>1
  <2>2. CASE s # r
    <3>1. run'[s] = run[s] /\ run[s].at \in Holding
      BY <1>2, <1>3, <2>2
    <3>2. run[s].todo # << >> /\ inTx[Asset(s)] = {s} /\ Due(s) > 0
      BY <3>1 DEF TreInv, TxInv
    <3>3. Asset(s) \in Assets
      BY <3>1, <3>2, AtAsset DEF TreInv, AtWork, Holding
    <3>4. inTx'[Asset(s)] = {s}
      BY <2>2, <3>2, <3>3
    <3> QED BY <3>1, <3>2, <3>4 DEF Asset, Due
  <2> QED BY <2>1, <2>2
<1>4. TxInv'
  BY <1>3 DEF TxInv, Asset, Due
<1>5. \A s \in Runs : run[s].at = "commit" => run[s].todo # << >>
  BY DEF TreInv, TxInv, Holding
<1>6. ASSUME NEW a
      PROVE  /\ PendingIn(run', a) = PendingIn(run, a) - Share(run[r], a) + Share(c, a)
             /\ PendingIn(run, a) \in Int
             /\ Share(run[r], a) \in Int /\ Share(c, a) \in Int
  <2>1. run'[r].at = "commit" => run'[r].todo # << >>
    BY <1>2 DEF Holding
  <2>2. /\ PendingIn(run', a) = PendingIn(run, a) - Share(run[r], a) + Share(run'[r], a)
        /\ PendingIn(run, a) \in Int
        /\ Share(run[r], a) \in Int /\ Share(run'[r], a) \in Int
    <3> DEFINE new == run'
    <3>1. new \in [Runs -> RunStates] /\ \A s \in Runs \ {r} : new[s] = run[s]
      BY <1>2
    <3>2. run \in [Runs -> RunStates]
      BY <1>1
    <3>3. new[r].at = "commit" => new[r].todo # << >>
      BY <2>1
    <3> HIDE DEF new
    <3>4. /\ PendingIn(new, a) = PendingIn(run, a) - Share(run[r], a) + Share(new[r], a)
          /\ PendingIn(run, a) \in Int /\ Share(run[r], a) \in Int /\ Share(new[r], a) \in Int
      BY <1>5, <3>1, <3>2, <3>3, PendingMoves, Zenon
    <3> QED BY <3>4 DEF new
  <2> QED BY <1>2, <2>2
<1> QED BY <1>1, <1>2, <1>4, <1>6

\* What a run knows stays true while the assets do not change.
LEMMA UnmetStays ==
    ASSUME TreInv, NEW r \in Runs, NEW c,
           run'[r] = c, \A s \in Runs \ {r} : run'[s] = run[s],
           "together" \notin odd' =>
              /\ "together" \notin odd
              /\ AtWork(c) => KnowsOf(c, accumulated')
              /\ \/ \A s \in Runs \ {r} : ~AtWork(run[s])
                 \/ ~AtWork(c) /\ accumulated' = accumulated
    PROVE  Unmet'
<1> SUFFICES ASSUME "together" \notin odd'
             PROVE  /\ \A q, s \in Runs : AtWork(run'[q]) /\ AtWork(run'[s]) => q = s
                    /\ \A q \in Runs : AtWork(run'[q]) => KnowsOf(run'[q], accumulated')
  BY DEF Unmet, AtWork, KnowsOf
<1>1. /\ \A q, s \in Runs : AtWork(run[q]) /\ AtWork(run[s]) => q = s
      /\ \A q \in Runs : AtWork(run[q]) => KnowsOf(run[q], accumulated)
  BY DEF TreInv, Unmet
<1>2. CASE \A s \in Runs \ {r} : ~AtWork(run[s])
  BY <1>2
<1>3. CASE ~AtWork(c) /\ accumulated' = accumulated
  BY <1>1, <1>3
<1> QED BY <1>2, <1>3

\* The assets do not change, and what is posted changes with what is pending.
LEMMA AssetsStay ==
    ASSUME TreInv, accumulated' = accumulated, odd \subseteq odd',
           "torn" \notin odd' => \A a \in Assets :
              AmountOf(journal', <<"DEPRECIATION", a>>) - PendingIn(run', a)
                = AmountOf(journal, <<"DEPRECIATION", a>>) - PendingIn(run, a),
           journal' \in Seq(JournalRows), \A a : PendingIn(run', a) \in Int /\ PendingIn(run, a) \in Int
    PROVE  AssetsFollowEntries'
<1>1. NeverBelowSalvage'
  BY DEF TreInv, AssetsFollowEntries, NeverBelowSalvage
<1>2. ASSUME "torn" \notin odd', NEW a \in Assets
      PROVE  AmountOf(journal', <<"DEPRECIATION", a>>) = accumulated[a] + PendingIn(run', a)
  <2>1. AmountOf(journal, <<"DEPRECIATION", a>>) = accumulated[a] + PendingIn(run, a)
    BY <1>2, PostedPending DEF TreInv, AssetsFollowEntries, DepreciationPosted
  <2>2. accumulated[a] \in Nat
    BY DEF TreInv, TreTypeOK
  <2>3. AmountOf(journal', <<"DEPRECIATION", a>>) \in Int
        /\ AmountOf(journal, <<"DEPRECIATION", a>>) \in Int
    <3>1. \A js \in Seq(JournalRows) : \A d : AmountOf(js, d) \in Int
      BY AmountType
    <3> QED BY <3>1 DEF TreInv, TreTypeOK
  <2> QED BY <1>2, <2>1, <2>2, <2>3
<1>3. DepreciationPosted'
  <2> SUFFICES ASSUME "torn" \notin odd', NEW a \in Assets
               PROVE  Posted(a)' = accumulated'[a] + Pending(a)'
    BY DEF DepreciationPosted
  <2>1. /\ Posted(a)' = AmountOf(journal', <<"DEPRECIATION", a>>)
        /\ Pending(a)' = PendingIn(run', a)
    BY DEF Posted, Amount, AmountOf, Pending, PendingIn, Asset, Due
  <2> QED BY <1>2, <2>1
<1> QED BY <1>1, <1>3 DEF AssetsFollowEntries

\* A call that is not at an asset, before or after, and an entry of another kind.
LEMMA CashCall ==
    ASSUME TreInv, NEW r \in Runs, NEW c \in RunStates, Goes(r, c),
           ~AtWork(run[r]), ~AtWork(c),
           UNCHANGED <<accumulated, inTx, odd>>,
           \/ journal' = journal
           \/ \E x \in JournalRows : journal' = Append(journal, x) /\ x.reference[1] # "DEPRECIATION"
    PROVE  TreInv'
<1>1. c.at \notin Holding /\ run[r].at \notin Holding
  BY DEF AtWork, Holding
<1>2. /\ run' \in [Runs -> RunStates]
      /\ run'[r] = c /\ \A s \in Runs \ {r} : run'[s] = run[s]
      /\ TxInv'
      /\ \A a : /\ PendingIn(run', a) = PendingIn(run, a) - Share(run[r], a) + Share(c, a)
                /\ PendingIn(run, a) \in Int
                /\ Share(run[r], a) \in Int /\ Share(c, a) \in Int
  BY <1>1, RunMoves
<1>3. \A a : Share(run[r], a) = 0 /\ Share(c, a) = 0
  BY DEF Share, AtWork
<1>4. \A a : PendingIn(run', a) = PendingIn(run, a) /\ PendingIn(run, a) \in Int
  BY <1>2, <1>3
<1>5. /\ journal' \in Seq(JournalRows)
      /\ \A a \in Assets :
            AmountOf(journal', <<"DEPRECIATION", a>>) = AmountOf(journal, <<"DEPRECIATION", a>>)
  <2>1. journal \in Seq(JournalRows)
    BY DEF TreInv, TreTypeOK
  <2>2. CASE journal' = journal
    BY <2>1, <2>2
  <2>3. ASSUME NEW x \in JournalRows, journal' = Append(journal, x), x.reference[1] # "DEPRECIATION"
        PROVE  /\ journal' \in Seq(JournalRows)
               /\ \A a \in Assets :
                     AmountOf(journal', <<"DEPRECIATION", a>>) = AmountOf(journal, <<"DEPRECIATION", a>>)
    <3>1. ASSUME NEW a \in Assets
          PROVE  AmountOf(journal', <<"DEPRECIATION", a>>) = AmountOf(journal, <<"DEPRECIATION", a>>)
      <4> DEFINE d == <<"DEPRECIATION", a>>
      <4>1. x.reference # d
        BY <2>3
      <4> HIDE DEF d
      <4> QED BY <2>1, <2>3, <4>1, AmountAppend
    <3> QED BY <2>1, <2>3, <3>1
  <2> QED BY <2>2, <2>3
<1>6. TreTypeOK'
  BY <1>2, <1>5 DEF TreInv, TreTypeOK, RunStates
<1>7. Unmet'
  BY <1>2, UnmetStays
<1>8. AssetsFollowEntries'
  BY <1>4, <1>5, AssetsStay
<1> QED BY <1>2, <1>6, <1>7, <1>8 DEF TreInv

\* The rows that processEvent and createManualEntry write.
LEMMA AutoRow ==
    ASSUME NEW event \in Postings, NEW object \in Banks \cup Assets, NEW amount \in Nat
    PROVE  /\ AutoEntry(event, <<event, object>>, amount) \in JournalRows
           /\ ManualEntry(event, <<event, object>>, amount) \in JournalRows
           /\ AutoEntry(event, <<event, object>>, amount).reference[1] = event
           /\ ManualEntry(event, <<event, object>>, amount).reference = <<event, object>>
           /\ ManualEntry(event, <<event, object>>, amount).amount = amount
<1>1. <<event, object>> \in Postings \X (Banks \cup Assets)
  OBVIOUS
<1>2. AutoEntry(event, <<event, object>>, amount) \in JournalRows
  BY <1>1 DEF AutoEntry, JournalRows
<1>3. ManualEntry(event, <<event, object>>, amount) \in JournalRows
  BY <1>2 DEF ManualEntry, JournalRows
<1> QED BY <1>2, <1>3 DEF AutoEntry, ManualEntry

LEMMA CashReadStep ==
    ASSUME TreInv, NEW r \in Runs, NEW event \in {"CASH_IN", "CASH_OUT"}, NEW bank \in Banks,
           CashRead(r, event, bank)
    PROVE  TreInv'
<1> DEFINE c == [at |-> "cash", event |-> event, account |-> bank,
                 found |-> AlreadyPosted(journal, <<event, bank>>)]
<1>1. c \in RunStates /\ ~AtWork(c)
  BY DEF RunStates, AtCash, AtWork, AlreadyPosted
<1>2. ~AtWork(run[r])
  BY DEF CashRead, Resting, AtWork
<1>3. Goes(r, c) /\ UNCHANGED <<journal, accumulated, inTx, odd>>
  BY DEF CashRead
<1> QED BY <1>1, <1>2, <1>3, CashCall

LEMMA CashWriteStep ==
    ASSUME TreInv, NEW r \in Runs, CashWrite(r)
    PROVE  TreInv'
<1> DEFINE c == run[r]
           x == AutoEntry(c.event, <<c.event, c.account>>, 1)
<1>1. c \in AtCash
  <2>1. c.at = "cash"
    BY DEF CashWrite
  <2>2. c \in RunStates
    BY DEF TreInv, TreTypeOK
  <2> HIDE DEF c
  <2> QED BY <2>1, <2>2 DEF RunStates, Resting, AtAssets
<1>2. x \in JournalRows /\ x.reference[1] # "DEPRECIATION"
  <2>1. c.event \in {"CASH_IN", "CASH_OUT"} /\ c.account \in Banks
    BY <1>1 DEF AtCash
  <2> HIDE DEF c
  <2> QED BY <2>1, AutoRow DEF Postings
<1>3. Resting \in RunStates /\ ~AtWork(Resting) /\ ~AtWork(c)
  BY <1>1 DEF RunStates, Resting, AtWork, AtCash
<1>4. Goes(r, Resting) /\ UNCHANGED <<accumulated, inTx, odd>>
      /\ (journal' = journal \/ journal' = Append(journal, x))
  BY DEF CashWrite
<1> HIDE DEF x
<1> QED BY <1>2, <1>3, <1>4, CashCall

\* The next asset is another one.
LEMMA KnowsTail ==
    ASSUME NEW b \in AtAssets, b.todo # << >>, NEW acc \in [Assets -> Nat], KnowsOf(b, acc),
           NEW c, c.seen = b.seen, c.todo = Tail(b.todo)
    PROVE  KnowsOf(c, acc) /\ \A i \in DOMAIN c.todo : c.todo[i] # Head(b.todo)
<1>1. b.todo \in Seq(Assets)
  BY DEF AtAssets
<1>2. \A i \in DOMAIN c.todo : /\ i + 1 \in DOMAIN b.todo /\ c.todo[i] = b.todo[i + 1]
                               /\ i \in Nat /\ i >= 1
  BY <1>1
<1>3. 1 \in DOMAIN b.todo /\ b.todo[1] = Head(b.todo)
  BY <1>1
<1>4. \A i, j \in DOMAIN b.todo : i # j => b.todo[i] # b.todo[j]
  BY DEF KnowsOf
<1>5. \A i \in DOMAIN c.todo : c.todo[i] # Head(b.todo)
  <2> SUFFICES ASSUME NEW i \in DOMAIN c.todo PROVE c.todo[i] # b.todo[1]
    BY <1>3
  <2>1. i + 1 # 1 /\ i + 1 \in DOMAIN b.todo /\ c.todo[i] = b.todo[i + 1]
    BY <1>2
  <2> QED BY <1>3, <1>4, <2>1
<1>6. \A i, j \in DOMAIN c.todo : i # j => c.todo[i] # c.todo[j]
  <2> SUFFICES ASSUME NEW i \in DOMAIN c.todo, NEW j \in DOMAIN c.todo, i # j
               PROVE  c.todo[i] # c.todo[j]
    OBVIOUS
  <2>1. i + 1 # j + 1
    BY <1>2
  <2> QED BY <1>2, <1>4, <2>1
<1>7. \A i \in DOMAIN c.todo : c.seen[c.todo[i]] = acc[c.todo[i]]
  BY <1>2 DEF KnowsOf
<1> QED BY <1>5, <1>6, <1>7 DEF KnowsOf

\* A run moves on and changes no asset and no entry.
LEMMA QuietRun ==
    ASSUME TreInv, NEW r \in Runs, NEW c \in RunStates, Goes(r, c),
           UNCHANGED <<journal, accumulated>>, odd \subseteq odd',
           "torn" \notin odd' => run[r].at # "commit", c.at # "commit",
           "together" \notin odd' =>
              /\ AtWork(c) => KnowsOf(c, accumulated)
              /\ AtWork(run[r]) \/ ~AtWork(c) \/ \A s \in Runs : ~AtWork(run[s]),
           inTx' \in [Assets -> SUBSET Runs],
           c.at \in Holding =>
              /\ c.todo # << >> /\ inTx'[Head(c.todo)] = {r}
              /\ Monthly(Head(c.todo), c.seen[Head(c.todo)]) > 0,
           \A a \in Assets : inTx'[a] = inTx[a] \/ inTx[a] \subseteq {r}
    PROVE  TreInv'
<1>1. /\ run' \in [Runs -> RunStates]
      /\ run'[r] = c /\ \A s \in Runs \ {r} : run'[s] = run[s]
      /\ TxInv'
      /\ \A a : /\ PendingIn(run', a) = PendingIn(run, a) - Share(run[r], a) + Share(c, a)
                /\ PendingIn(run, a) \in Int
                /\ Share(run[r], a) \in Int /\ Share(c, a) \in Int
  BY RunMoves
<1>2. journal' \in Seq(JournalRows)
  BY DEF TreInv, TreTypeOK
<1>3. TreTypeOK'
  BY <1>1, <1>2 DEF TreInv, TreTypeOK
<1>4. Unmet'
  <2>1. ASSUME "together" \notin odd'
        PROVE  /\ "together" \notin odd
               /\ AtWork(c) => KnowsOf(c, accumulated')
               /\ \/ \A s \in Runs \ {r} : ~AtWork(run[s])
                  \/ ~AtWork(c) /\ accumulated' = accumulated
    BY <2>1 DEF TreInv, Unmet
  <2> QED BY <1>1, <2>1, UnmetStays
<1>5. \A a : PendingIn(run', a) \in Int /\ PendingIn(run, a) \in Int
  BY <1>1
<1>6. "torn" \notin odd' => \A a : PendingIn(run', a) = PendingIn(run, a)
  <2>1. \A a : Share(c, a) = 0
    BY DEF Share
  <2>2. run[r].at # "commit" => \A a : Share(run[r], a) = 0
    BY DEF Share
  <2> QED BY <1>1, <2>1, <2>2
<1>7. AssetsFollowEntries'
  BY <1>2, <1>5, <1>6, AssetsStay
<1> QED BY <1>1, <1>3, <1>4, <1>7 DEF TreInv

\* The runs do not move, and what is posted for the assets does not change.
LEMMA StillPosted ==
    ASSUME TreInv, UNCHANGED <<accumulated, run, odd>>, journal' \in Seq(JournalRows),
           \A a \in Assets :
              AmountOf(journal', <<"DEPRECIATION", a>>) = AmountOf(journal, <<"DEPRECIATION", a>>)
    PROVE  AssetsFollowEntries'
<1>1. NeverBelowSalvage'
  BY DEF TreInv, AssetsFollowEntries, NeverBelowSalvage
<1>2. DepreciationPosted'
  <2> SUFFICES ASSUME "torn" \notin odd', NEW a \in Assets
               PROVE  Posted(a)' = accumulated'[a] + Pending(a)'
    BY DEF DepreciationPosted
  <2>1. Posted(a) = accumulated[a] + Pending(a)
    BY DEF TreInv, AssetsFollowEntries, DepreciationPosted
  <2>2. Posted(a)' = AmountOf(journal', <<"DEPRECIATION", a>>)
        /\ Posted(a) = AmountOf(journal, <<"DEPRECIATION", a>>)
    BY DEF Posted, Amount, AmountOf
  <2>3. Pending(a)' = Pending(a)
    BY DEF Pending, Asset, Due
  <2> QED BY <2>1, <2>2, <2>3
<1> QED BY <1>1, <1>2 DEF AssetsFollowEntries

LEMMA PostManualStep ==
    ASSUME TreInv, NEW event \in Manuals, NEW bank \in Banks, PostManual(event, bank)
    PROVE  TreInv'
<1> DEFINE x == ManualEntry(event, <<event, bank>>, 1)
<1>1. x \in JournalRows /\ x.reference[1] # "DEPRECIATION"
  <2>1. event \in Postings /\ bank \in Banks \cup Assets /\ event # "DEPRECIATION"
    BY DEF Postings, Manuals
  <2> QED BY <2>1, AutoRow
<1>2. journal' = Append(journal, x) /\ UNCHANGED <<accumulated, inTx, run, cashIn, odd>>
  BY DEF PostManual
<1> HIDE DEF x
<1>3. journal \in Seq(JournalRows) /\ journal' \in Seq(JournalRows)
  BY <1>1, <1>2 DEF TreInv, TreTypeOK
<1>4. ASSUME NEW a \in Assets
      PROVE  AmountOf(journal', <<"DEPRECIATION", a>>) = AmountOf(journal, <<"DEPRECIATION", a>>)
  <2> DEFINE d == <<"DEPRECIATION", a>>
  <2>1. x.reference # d
    BY <1>1
  <2> HIDE DEF d
  <2> QED BY <1>1, <1>2, <1>3, <2>1, AmountAppend
<1>5. AssetsFollowEntries'
  BY <1>2, <1>3, <1>4, StillPosted
<1>6. TreTypeOK' /\ TxInv' /\ Unmet'
  BY <1>2, <1>3 DEF TreInv, TreTypeOK, TxInv, Unmet, Asset, Due
<1> QED BY <1>5, <1>6 DEF TreInv

\* A run turns to its next asset, or ends.
LEMMA RunSkipStep ==
    ASSUME TreInv, NEW r \in Runs, RunSkip(r)
    PROVE  TreInv'
<1> DEFINE c == Works("asset", run[r].seen, Tail(run[r].todo))
<1>1. /\ run[r].at = "asset" /\ run[r].todo # << >> /\ Goes(r, c)
      /\ UNCHANGED <<journal, accumulated, inTx, cashIn, odd>>
  BY DEF RunSkip
<1>2. run[r] \in AtAssets /\ Tail(run[r].todo) \in Seq(Assets) /\ AtWork(run[r])
  BY <1>1, AtAsset DEF AtWork, TreInv
<1>3. c \in RunStates /\ c.at = "asset" /\ c.seen = run[r].seen /\ c.todo = Tail(run[r].todo)
  BY <1>2 DEF Works, AtAssets, RunStates
<1> HIDE DEF c
<1>4. KnowsOf(run[r], accumulated) => KnowsOf(c, accumulated)
  <2>1. accumulated \in [Assets -> Nat]
    BY DEF TreInv, TreTypeOK
  <2> QED BY <1>2, <1>1, <1>3, <2>1, KnowsTail
<1>5. "together" \notin odd' => KnowsOf(c, accumulated)
  BY <1>1, <1>2, <1>4 DEF TreInv, Unmet
<1>6. c.at \notin Holding /\ inTx' \in [Assets -> SUBSET Runs]
  BY <1>1, <1>3 DEF Holding, TreInv, TreTypeOK
<1> QED BY <1>1, <1>2, <1>3, <1>5, <1>6, QuietRun

LEMMA RunReadStep ==
    ASSUME TreInv, NEW r \in Runs, RunRead(r)
    PROVE  TreInv'
<1>1. PICK order \in SetToSeqs(Assets) : Goes(r, Works("asset", accumulated, order))
  BY DEF RunRead
<1> DEFINE c == Works("asset", accumulated, order)
<1>2. /\ run[r] = Resting /\ UNCHANGED <<journal, accumulated, inTx, cashIn>>
      /\ odd \subseteq odd'
      /\ "torn" \in odd' => "torn" \in odd
      /\ "together" \notin odd' => "together" \notin odd /\ \A s \in Runs : ~AtWork(run[s])
  BY DEF RunRead, AtWork
<1>3. /\ order \in Seq(Assets)
      /\ \A i, j \in DOMAIN order : i # j => order[i] # order[j]
  <2>1. Cardinality(Assets) \in Nat
    BY TreasuryAssumption, FS_CardinalityType
  <2> QED BY <2>1 DEF SetToSeqs
<1>4. /\ c \in RunStates /\ c.at = "asset" /\ c.seen = accumulated /\ c.todo = order
  BY <1>3 DEF Works, AtAssets, RunStates, TreInv, TreTypeOK
<1>5. KnowsOf(c, accumulated)
  BY <1>3, <1>4 DEF KnowsOf
<1>6. Goes(r, c) /\ run[r].at # "commit"
  BY <1>1, <1>2 DEF Resting
<1>7. c.at \notin Holding /\ inTx' \in [Assets -> SUBSET Runs]
  BY <1>2, <1>4 DEF Holding, TreInv, TreTypeOK
<1> HIDE DEF c
<1> QED BY <1>2, <1>4, <1>5, <1>6, <1>7, QuietRun

LEMMA RunEndStep ==
    ASSUME TreInv, NEW r \in Runs, RunEnd(r)
    PROVE  TreInv'
<1>1. /\ Resting \in RunStates /\ ~AtWork(Resting) /\ Resting.at # "commit"
      /\ Resting.at \notin Holding
  BY DEF RunStates, Resting, AtWork, Holding
<1>2. /\ run[r].at # "commit" /\ Goes(r, Resting)
      /\ UNCHANGED <<journal, accumulated, inTx, odd>>
      /\ inTx' \in [Assets -> SUBSET Runs]
  BY DEF RunEnd, TreInv, TreTypeOK
<1> QED BY <1>1, <1>2, QuietRun

\* What a failed transaction leaves is on record.
LEMMA RunFailStep ==
    ASSUME TreInv, NEW r \in Runs, RunFail(r)
    PROVE  TreInv'
<1>1. /\ Resting \in RunStates /\ ~AtWork(Resting) /\ Resting.at # "commit"
      /\ Resting.at \notin Holding
  BY DEF RunStates, Resting, AtWork, Holding
<1>2. /\ run[r].at \in Holding /\ Goes(r, Resting) /\ UNCHANGED <<journal, accumulated>>
      /\ inTx' = [inTx EXCEPT ![Asset(r)] = {}]
      /\ odd \subseteq odd' /\ ("torn" \notin odd' => run[r].at # "commit")
  BY DEF RunFail, Holding
<1>3. run[r].todo # << >> /\ inTx[Asset(r)] = {r}
  BY <1>2 DEF TreInv, TxInv
<1>4. Asset(r) \in Assets
  BY <1>2, <1>3, AtAsset DEF AtWork, Holding, TreInv
<1>5. /\ inTx' \in [Assets -> SUBSET Runs]
      /\ \A a \in Assets : inTx'[a] = inTx[a] \/ inTx[a] \subseteq {r}
  BY <1>2, <1>3, <1>4 DEF TreInv, TreTypeOK
<1> QED BY <1>1, <1>2, <1>5, QuietRun

\* fixedAsset.update takes the asset for the run.
LEMMA RunUpdateStep ==
    ASSUME TreInv, NEW r \in Runs, RunUpdate(r)
    PROVE  TreInv'
<1> DEFINE c == Works("entry", run[r].seen, run[r].todo)
<1>1. /\ run[r].at = "asset" /\ run[r].todo # << >> /\ Due(r) > 0 /\ Goes(r, c)
      /\ inTx[Asset(r)] = {} /\ inTx' = [inTx EXCEPT ![Asset(r)] = {r}]
      /\ UNCHANGED <<journal, accumulated, odd>>
  BY DEF RunUpdate
<1>2. run[r] \in AtAssets /\ Asset(r) \in Assets /\ AtWork(run[r])
  BY <1>1, AtAsset DEF AtWork, TreInv
<1>3. c \in RunStates /\ c.at = "entry" /\ c.seen = run[r].seen /\ c.todo = run[r].todo
  BY <1>2 DEF Works, AtAssets, RunStates
<1> HIDE DEF c
<1>4. /\ inTx' \in [Assets -> SUBSET Runs]
      /\ \A a \in Assets : inTx'[a] = inTx[a] \/ inTx[a] \subseteq {r}
      /\ inTx'[Asset(r)] = {r}
  BY <1>1, <1>2 DEF TreInv, TreTypeOK
<1>5. c.todo # << >> /\ inTx'[Head(c.todo)] = {r} /\ Monthly(Head(c.todo), c.seen[Head(c.todo)]) > 0
  BY <1>1, <1>3, <1>4 DEF Asset, Due
<1>6. "together" \notin odd' => KnowsOf(c, accumulated)
  <2>1. KnowsOf(run[r], accumulated) => KnowsOf(c, accumulated)
    BY <1>3 DEF KnowsOf
  <2> QED BY <1>1, <1>2, <2>1 DEF TreInv, Unmet
<1> QED BY <1>1, <1>2, <1>3, <1>4, <1>5, <1>6, QuietRun

\* createManualEntry: what is posted for the asset is pending there.
LEMMA RunEntryStep ==
    ASSUME TreInv, NEW r \in Runs, RunEntry(r)
    PROVE  TreInv'
<1> DEFINE c == Works("commit", run[r].seen, run[r].todo)
           x == ManualEntry("DEPRECIATION", <<"DEPRECIATION", Asset(r)>>, Due(r))
<1>1. /\ run[r].at = "entry" /\ Goes(r, c) /\ journal' = Append(journal, x)
      /\ UNCHANGED <<accumulated, inTx, odd>>
  BY DEF RunEntry
<1>2. run[r].todo # << >> /\ inTx[Asset(r)] = {r} /\ Due(r) > 0
  BY <1>1 DEF TreInv, TxInv, Holding
<1>3. run[r] \in AtAssets /\ Asset(r) \in Assets /\ Due(r) \in Nat /\ AtWork(run[r])
  BY <1>1, <1>2, AtAsset DEF AtWork, TreInv
<1>4. /\ x \in JournalRows /\ x.amount = Due(r)
      /\ x.reference = <<"DEPRECIATION", Asset(r)>>
  <2>1. "DEPRECIATION" \in Postings /\ Asset(r) \in Banks \cup Assets
    BY <1>3 DEF Postings
  <2> QED BY <1>3, <2>1, AutoRow
<1>5. c \in RunStates /\ c.at = "commit" /\ c.seen = run[r].seen /\ c.todo = run[r].todo
  BY <1>3 DEF Works, AtAssets, RunStates
<1> HIDE DEF c, x
<1>6. c.todo # << >> /\ inTx'[Head(c.todo)] = {r} /\ Monthly(Head(c.todo), c.seen[Head(c.todo)]) > 0
  BY <1>1, <1>2, <1>5 DEF Asset, Due
<1>7. /\ run' \in [Runs -> RunStates]
      /\ run'[r] = c /\ \A s \in Runs \ {r} : run'[s] = run[s]
      /\ TxInv'
      /\ \A a : /\ PendingIn(run', a) = PendingIn(run, a) - Share(run[r], a) + Share(c, a)
                /\ PendingIn(run, a) \in Int
                /\ Share(run[r], a) \in Int /\ Share(c, a) \in Int
  BY <1>1, <1>5, <1>6, RunMoves
<1>8. \A a : Share(run[r], a) = 0 /\ Share(c, a) = IF Asset(r) = a THEN Due(r) ELSE 0
  BY <1>1, <1>5 DEF Share, Asset, Due
<1>9. journal \in Seq(JournalRows) /\ journal' \in Seq(JournalRows)
  BY <1>1, <1>4 DEF TreInv, TreTypeOK
<1>10. TreTypeOK'
  BY <1>1, <1>7, <1>9 DEF TreInv, TreTypeOK
<1>11. Unmet'
  <2>1. KnowsOf(run[r], accumulated) => KnowsOf(c, accumulated')
    BY <1>1, <1>5 DEF KnowsOf
  <2>2. "together" \notin odd' =>
           /\ "together" \notin odd
           /\ AtWork(c) => KnowsOf(c, accumulated')
           /\ \A s \in Runs \ {r} : ~AtWork(run[s])
    BY <1>1, <1>3, <2>1 DEF TreInv, Unmet
  <2> QED BY <1>7, <2>2, UnmetStays
<1>12. ASSUME NEW a \in Assets
       PROVE  AmountOf(journal', <<"DEPRECIATION", a>>) - PendingIn(run', a)
                = AmountOf(journal, <<"DEPRECIATION", a>>) - PendingIn(run, a)
  <2> DEFINE d == <<"DEPRECIATION", a>>
  <2>1. x.reference = d <=> Asset(r) = a
    BY <1>4
  <2> HIDE DEF d
  <2>2. AmountOf(journal, d) \in Int
        /\ AmountOf(journal', d) = AmountOf(journal, d) + IF Asset(r) = a THEN Due(r) ELSE 0
    BY <1>1, <1>4, <1>9, <2>1, AmountAppend
  <2>3. PendingIn(run', a) = PendingIn(run, a) + (IF Asset(r) = a THEN Due(r) ELSE 0)
        /\ PendingIn(run, a) \in Int
    BY <1>3, <1>7, <1>8
  <2>4. AmountOf(journal', d) - PendingIn(run', a) = AmountOf(journal, d) - PendingIn(run, a)
    BY <1>3, <2>2, <2>3
  <2> QED BY <2>4 DEF d
<1>13. AssetsFollowEntries'
  <2>1. \A a : PendingIn(run', a) \in Int /\ PendingIn(run, a) \in Int
    BY <1>7
  <2> QED BY <1>1, <1>9, <1>12, <2>1, AssetsStay
<1> QED BY <1>7, <1>10, <1>11, <1>13 DEF TreInv

\* The commit takes what was pending, and no more than is left of the asset.
LEMMA RunCommitStep ==
    ASSUME TreInv, NEW r \in Runs, RunCommit(r)
    PROVE  TreInv'
<1> DEFINE c == Works("asset", run[r].seen, Tail(run[r].todo))
           asset == Asset(r)
<1>1. /\ run[r].at = "commit" /\ Goes(r, c)
      /\ accumulated' = [accumulated EXCEPT ![asset] = accumulated[asset] + Due(r)]
      /\ inTx' = [inTx EXCEPT ![asset] = {}]
      /\ UNCHANGED <<journal, odd>>
  BY DEF RunCommit
<1>2. run[r].todo # << >> /\ inTx[asset] = {r} /\ Due(r) > 0
  BY <1>1 DEF TreInv, TxInv, Holding
<1>3. /\ run[r] \in AtAssets /\ asset \in Assets /\ Due(r) \in Nat /\ AtWork(run[r])
      /\ Tail(run[r].todo) \in Seq(Assets)
  BY <1>1, <1>2, AtAsset DEF AtWork, TreInv
<1>4. c \in RunStates /\ c.at = "asset" /\ c.seen = run[r].seen /\ c.todo = Tail(run[r].todo)
  BY <1>3 DEF Works, AtAssets, RunStates
<1> HIDE DEF c
<1>5. /\ accumulated \in [Assets -> Nat] /\ accumulated' \in [Assets -> Nat]
      /\ inTx' \in [Assets -> SUBSET Runs] /\ journal \in Seq(JournalRows)
      /\ \A a \in Assets : inTx'[a] = inTx[a] \/ inTx[a] \subseteq {r}
  BY <1>1, <1>2, <1>3 DEF TreInv, TreTypeOK
<1>6. /\ run' \in [Runs -> RunStates]
      /\ run'[r] = c /\ \A s \in Runs \ {r} : run'[s] = run[s]
      /\ TxInv'
      /\ \A a : /\ PendingIn(run', a) = PendingIn(run, a) - Share(run[r], a) + Share(c, a)
                /\ PendingIn(run, a) \in Int
                /\ Share(run[r], a) \in Int /\ Share(c, a) \in Int
  <2>1. c.at \notin Holding
    BY <1>4 DEF Holding
  <2> QED BY <1>1, <1>4, <1>5, <2>1, RunMoves
<1>7. \A a : Share(c, a) = 0 /\ Share(run[r], a) = IF asset = a THEN Due(r) ELSE 0
  BY <1>1, <1>4 DEF Share, Asset, Due
<1>8. TreTypeOK'
  BY <1>1, <1>5, <1>6 DEF TreInv, TreTypeOK
<1>9. Unmet'
  <2>1. ASSUME "together" \notin odd'
        PROVE  /\ "together" \notin odd
               /\ KnowsOf(c, accumulated')
               /\ \A s \in Runs \ {r} : ~AtWork(run[s])
    <3>1. /\ "together" \notin odd /\ KnowsOf(run[r], accumulated)
          /\ \A s \in Runs \ {r} : ~AtWork(run[s])
      BY <1>1, <1>3, <2>1 DEF TreInv, Unmet
    <3>2. KnowsOf(c, accumulated) /\ \A i \in DOMAIN c.todo : c.todo[i] # asset
      BY <1>2, <1>3, <1>4, <1>5, <3>1, KnowsTail DEF Asset
    <3>3. c.todo \in Seq(Assets)
      BY <1>3, <1>4
    <3>4. \A i \in DOMAIN c.todo : accumulated'[c.todo[i]] = accumulated[c.todo[i]]
      BY <1>1, <1>5, <3>2, <3>3
    <3> QED BY <3>1, <3>2, <3>4 DEF KnowsOf
  <2> QED BY <1>6, <2>1, UnmetStays
<1>10. NeverBelowSalvage'
  <2> SUFFICES ASSUME "together" \notin odd', NEW a \in Assets
               PROVE  Price[a] - accumulated'[a] >= Salvage[a]
    BY DEF NeverBelowSalvage
  <2>1. /\ Price[a] - accumulated[a] >= Salvage[a] /\ "together" \notin odd
        /\ Price[a] \in Nat /\ Salvage[a] \in Nat
    BY <1>1, TreasuryAssumption DEF TreInv, AssetsFollowEntries, NeverBelowSalvage
  <2>2. CASE a # asset
    BY <1>1, <1>5, <2>1, <2>2
  <2>3. CASE a = asset
    <3>1. KnowsOf(run[r], accumulated) /\ run[r].todo \in Seq(Assets)
      BY <1>3, <2>1 DEF TreInv, Unmet, AtAssets
    <3>2. run[r].seen[a] = accumulated[a]
      <4>1. 1 \in DOMAIN run[r].todo /\ run[r].todo[1] = a
        BY <1>2, <2>3, <3>1 DEF Asset
      <4> QED BY <3>1, <4>1 DEF KnowsOf
    <3>3. Due(r) = Monthly(a, accumulated[a])
      BY <2>3, <3>2 DEF Due
    <3>4. Due(r) <= Price[a] - accumulated[a] - Salvage[a]
      BY <1>2, <1>5, <3>3, MonthlyBound
    <3>5. accumulated'[a] = accumulated[a] + Due(r) /\ accumulated[a] \in Nat
      BY <1>1, <1>3, <1>5, <2>3
    <3> QED BY <1>3, <2>1, <3>4, <3>5
  <2> QED BY <2>2, <2>3
<1>11. DepreciationPosted'
  <2> SUFFICES ASSUME "torn" \notin odd', NEW a \in Assets
               PROVE  Posted(a)' = accumulated'[a] + Pending(a)'
    BY DEF DepreciationPosted
  <2>1. Posted(a) = accumulated[a] + Pending(a)
    BY <1>1 DEF TreInv, AssetsFollowEntries, DepreciationPosted
  <2>2. Posted(a)' = Posted(a) /\ Pending(a)' = PendingIn(run', a) /\ Pending(a) = PendingIn(run, a)
    BY <1>1 DEF Posted, Amount, Pending, PendingIn, Asset, Due
  <2>3. PendingIn(run', a) = PendingIn(run, a) - (IF asset = a THEN Due(r) ELSE 0)
        /\ PendingIn(run, a) \in Int
    BY <1>3, <1>6, <1>7
  <2>4. accumulated'[a] = accumulated[a] + (IF asset = a THEN Due(r) ELSE 0)
        /\ accumulated[a] \in Nat
    BY <1>1, <1>3, <1>5
  <2> QED BY <1>3, <2>1, <2>2, <2>3, <2>4
<1> QED BY <1>6, <1>8, <1>9, <1>10, <1>11 DEF TreInv, AssetsFollowEntries

LEMMA TreStep == TreInv /\ [CashNext \/ AssetNext]_treVars => TreInv'
<1> SUFFICES ASSUME TreInv, [CashNext \/ AssetNext]_treVars PROVE TreInv'
  OBVIOUS
<1>1. ASSUME CashNext PROVE TreInv'
  BY <1>1, CashReadStep, CashWriteStep, PostManualStep DEF CashNext, Manuals
<1>2. ASSUME AssetNext PROVE TreInv'
  BY <1>2, RunReadStep, RunSkipStep, RunEndStep, RunUpdateStep, RunEntryStep, RunCommitStep,
     RunFailStep DEF AssetNext
<1>3. CASE UNCHANGED treVars
  BY <1>3 DEF treVars, TreInv, TreTypeOK, TxInv, Unmet, Asset, Due, AssetsFollowEntries,
     DepreciationPosted, NeverBelowSalvage, Posted, Amount, Pending
<1> QED BY <1>1, <1>2, <1>3

LEMMA TreStart == TreInit => TreInv
<1> SUFFICES ASSUME TreInit PROVE TreInv
  OBVIOUS
<1>1. TreTypeOK
  BY DEF TreInit, TreTypeOK, RunStates
<1>2. TxInv /\ Unmet
  BY DEF TreInit, TxInv, Unmet, Resting, Holding, AtWork
<1>3. NeverBelowSalvage
  BY TreasuryAssumption DEF TreInit, NeverBelowSalvage
<1>4. DepreciationPosted
  <2> SUFFICES ASSUME NEW a \in Assets PROVE Posted(a) = accumulated[a] + Pending(a)
    BY DEF DepreciationPosted
  <2>1. Posted(a) = 0
    <3> DEFINE f == [i \in DOMAIN journal |->
                       IF journal[i].reference = <<"DEPRECIATION", a>> THEN journal[i].amount ELSE 0]
    <3>1. DOMAIN journal = {} /\ DOMAIN f = {}
      BY DEF TreInit
    <3>2. Posted(a) = SumFunctionOnSet(f, {})
      BY <3>1 DEF Posted, Amount, SumFunction
    <3> QED BY <3>2, SumEmpty
  <2>2. Pending(a) = 0
    <3> DEFINE f == [r \in Runs |-> IF run[r].at = "commit" /\ Asset(r) = a THEN Due(r) ELSE 0]
    <3>1. \A r \in Runs : f[r] = 0
      BY DEF TreInit, Resting
    <3>2. Pending(a) = SumFunctionOnSet(f, Runs) /\ IsFiniteSet(Runs)
      BY TreasuryAssumption DEF Pending, SumFunction
    <3> HIDE DEF f
    <3> QED BY <3>1, <3>2, SumZero
  <2> QED BY <2>1, <2>2 DEF TreInit
<1> QED BY <1>1, <1>2, <1>3, <1>4 DEF TreInv, AssetsFollowEntries

\* What the runs of runDepreciation post for an asset is what it accumulated, and no asset
\* is written off below its salvage value, over any runs, failures and other postings, with
\* the exceptions the property names; for any assets, prices, lives and calls.
THEOREM AssetsAreFollowed == TreSpec => []AssetsFollowEntries
<1>1. TreInv => AssetsFollowEntries
  BY DEF TreInv
<1> QED BY <1>1, TreStart, TreStep, PTL DEF TreSpec

-----------------------------------------------------------------------------
(* Document numbers *)

USE DEF MAX_RETRIES

\* Every period built from a date belongs to a counter.
LEMMA CounterOf ==
    ASSUME NEW type \in Types, NEW date \in Dates
    PROVE  <<type, BuildPeriod(type, date)>> \in Counters
BY DEF Counters

\* A caller that makes an attempt knows its counter; one with an answer its number.
LEMMA CallFacts ==
    ASSUME NumTypeOK, NEW s \in Callers
    PROVE  /\ generating[s].step = "attempt" =>
                 generating[s].counter \in Counters /\ generating[s].attempt \in 1..3
           /\ generating[s].step = "answered" => generating[s].number \in Numbers
<1>1. generating[s] \in NumCalls
  BY DEF NumTypeOK
<1> QED BY <1>1 DEF NumCalls, Idle

\* A failed attempt ends in another attempt at the same counter or in the error.
LEMMA RetryType ==
    ASSUME NumTypeOK, NEW s \in Callers, generating[s].step = "attempt", Retry(s)
    PROVE  /\ generating' \in [Callers -> NumCalls]
           /\ generating'[s].step # "answered"
           /\ \A t \in Callers \ {s} : generating'[t] = generating[t]
<1> DEFINE new == IF generating[s].attempt < 3
                  THEN [generating[s] EXCEPT !.attempt = generating[s].attempt + 1] ELSE Idle
<1>1. generating[s] \in [step : {"attempt"}, counter : Counters, attempt : 1..3]
  <2>1. generating[s] \in NumCalls
    BY DEF NumTypeOK
  <2> QED BY <2>1 DEF NumCalls, Idle
<1>2. new \in NumCalls /\ new.step # "answered"
  <2>1. CASE generating[s].attempt < 3
    <3>1. new \in [step : {"attempt"}, counter : Counters, attempt : 1..3]
      BY <1>1, <2>1
    <3> QED BY <3>1 DEF NumCalls
  <2>2. CASE ~(generating[s].attempt < 3)
    BY <2>2 DEF NumCalls, Idle
  <2> QED BY <2>1, <2>2
<1>3. generating' = [generating EXCEPT ![s] = new]
  BY DEF Retry
<1> QED BY <1>2, <1>3 DEF NumTypeOK

\* Counters only grow, and only one at a time.
LEMMA IncrementEffect ==
    ASSUME NumTypeOK, NEW c \in Counters, Increment(c)
    PROVE  /\ last_value' \in [Counters -> Nat]
           /\ last_value'[c] = last_value[c] + 1
           /\ \A d \in Counters : last_value[d] <= last_value'[d]
BY DEF NumTypeOK, Increment

\* A step after which fewer numbers are on their way and no counter is smaller.
LEMMA QuietStep ==
    ASSUME NumberInv, NEW s \in Callers,
           last_value' \in [Counters -> Nat],
           \A d \in Counters : last_value[d] <= last_value'[d],
           generating' \in [Callers -> NumCalls], generating'[s].step # "answered",
           \A t \in Callers \ {s} : generating'[t] = generating[t],
           returned' = returned
    PROVE  NumberInv'
<1>1. NumTypeOK'
  BY DEF NumberInv, NumTypeOK
<1>2. \A n \in Numbers : n.counter \in Counters /\ n.seq \in Nat
  BY DEF Numbers
<1>3. CountedInv'
  <2>1. ASSUME NEW n \in returned' PROVE n.seq <= last_value'[n.counter]
    <3>1. n \in Numbers /\ n.seq <= last_value[n.counter]
      BY DEF NumberInv, NumTypeOK, CountedInv
    <3>2. n.counter \in Counters /\ last_value[n.counter] \in Nat
          /\ last_value'[n.counter] \in Nat /\ n.seq \in Nat
      BY <1>2, <3>1 DEF NumberInv, NumTypeOK
    <3> QED BY <3>1, <3>2
  <2>2. ASSUME NEW t \in Callers, generating'[t].step = "answered"
        PROVE  generating'[t].number.seq <= last_value'[generating'[t].number.counter]
    <3> DEFINE n == generating[t].number
    <3>1. t # s /\ generating'[t] = generating[t]
      BY <2>2
    <3>2. n \in Numbers /\ n.seq <= last_value[n.counter]
      BY <2>2, <3>1, CallFacts DEF NumberInv, CountedInv
    <3>3. n.counter \in Counters /\ last_value[n.counter] \in Nat
          /\ last_value'[n.counter] \in Nat /\ n.seq \in Nat
      BY <1>2, <3>2 DEF NumberInv, NumTypeOK
    <3>4. n.seq <= last_value'[n.counter]
      BY <3>2, <3>3
    <3> QED BY <3>1, <3>4
  <2> QED BY <2>1, <2>2 DEF CountedInv
<1>4. NumbersUnique'
  BY DEF NumberInv, NumbersUnique
<1> QED BY <1>1, <1>3, <1>4 DEF NumberInv

\* The new number is above its counter, so it differs from all others.
LEMMA AtomicIncrementStep ==
    ASSUME NumberInv, NEW s \in Callers, AtomicIncrement(s)
    PROVE  NumberInv'
<1> DEFINE c == generating[s].counter
           new == FormatDocumentNumber(c, last_value[c] + 1)
<1>1. c \in Counters /\ last_value[c] \in Nat
  BY CallFacts DEF NumberInv, NumTypeOK, AtomicIncrement
<1>2. /\ last_value' \in [Counters -> Nat]
      /\ last_value'[c] = last_value[c] + 1
      /\ \A d \in Counters : last_value[d] <= last_value'[d]
  BY <1>1, IncrementEffect DEF NumberInv, AtomicIncrement
<1>3. new \in Numbers /\ new.counter = c /\ new.seq = last_value[c] + 1
  BY <1>1 DEF Numbers, FormatDocumentNumber
<1>4. /\ generating'[s] = [step |-> "answered", number |-> new]
      /\ \A t \in Callers \ {s} : generating'[t] = generating[t]
      /\ generating' \in [Callers -> NumCalls]
  <2>1. [step |-> "answered", number |-> new] \in NumCalls
    BY <1>3 DEF NumCalls
  <2>2. generating' = [generating EXCEPT ![s] = [step |-> "answered", number |-> new]]
    BY DEF AtomicIncrement
  <2> QED BY <2>1, <2>2 DEF NumberInv, NumTypeOK
<1>5. returned' = returned
  BY DEF AtomicIncrement
<1>6. NumTypeOK'
  BY <1>2, <1>4, <1>5 DEF NumberInv, NumTypeOK
<1>7. \A n \in Numbers : n.seq <= last_value[n.counter] =>
         n # new /\ n.seq <= last_value'[n.counter]
  <2> SUFFICES ASSUME NEW n \in Numbers, n.seq <= last_value[n.counter]
               PROVE  n # new /\ n.seq <= last_value'[n.counter]
    OBVIOUS
  <2>1. n.counter \in Counters /\ n.seq \in Nat
    BY DEF Numbers
  <2>2. last_value[n.counter] \in Nat /\ last_value'[n.counter] \in Nat
        /\ last_value[n.counter] <= last_value'[n.counter]
    BY <1>2, <2>1 DEF NumberInv, NumTypeOK
  <2>3. n.seq <= last_value'[n.counter]
    BY <2>1, <2>2
  <2>4. n # new
    BY <1>1, <1>3, <2>1
  <2> QED BY <2>3, <2>4
<1>8. \A n \in returned : n \in Numbers /\ n.seq <= last_value[n.counter]
  BY DEF NumberInv, NumTypeOK, CountedInv
<1>9. \A t \in Callers : generating[t].step = "answered" =>
         generating[t].number \in Numbers /\ generating[t].number.seq <= last_value[generating[t].number.counter]
  BY CallFacts DEF NumberInv, CountedInv
<1>10. CountedInv'
  <2>1. \A n \in returned' : n.seq <= last_value'[n.counter]
    BY <1>5, <1>7, <1>8
  <2>2. ASSUME NEW t \in Callers, generating'[t].step = "answered"
        PROVE  generating'[t].number.seq <= last_value'[generating'[t].number.counter]
    <3>1. CASE t = s
      <4>1. generating'[t].number = new
        BY <1>4, <3>1
      <4> QED BY <1>1, <1>2, <1>3, <4>1
    <3>2. CASE t # s
      BY <1>4, <1>7, <1>9, <2>2, <3>2
    <3> QED BY <3>1, <3>2
  <2> QED BY <2>1, <2>2 DEF CountedInv
<1>11. NumbersUnique'
  <2> SUFFICES ASSUME NEW t \in Callers, generating'[t].step = "answered"
               PROVE  /\ generating'[t].number \notin returned'
                      /\ \A u \in Callers \ {t} :
                            generating'[u].step = "answered" => generating'[u].number # generating'[t].number
    BY DEF NumbersUnique
  <2>1. CASE t = s
    <3>1. generating'[t].number = new
      BY <1>4, <2>1
    <3>2. new \notin returned'
      BY <1>5, <1>7, <1>8
    <3>3. \A u \in Callers \ {t} : generating'[u].step = "answered" => generating'[u].number # new
      BY <1>4, <1>7, <1>9, <2>1
    <3> QED BY <3>1, <3>2, <3>3
  <2>2. CASE t # s
    <3>1. generating'[t] = generating[t] /\ generating[t].step = "answered"
      BY <1>4, <2>2
    <3>2. generating[t].number \notin returned /\ generating[t].number # new
      BY <1>7, <1>9, <3>1 DEF NumberInv, NumbersUnique
    <3>3. ASSUME NEW u \in Callers \ {t}, generating'[u].step = "answered"
          PROVE  generating'[u].number # generating[t].number
      <4>1. CASE u = s
        BY <1>4, <3>2, <4>1
      <4>2. CASE u # s
        BY <1>4, <3>1, <3>3, <4>2 DEF NumberInv, NumbersUnique
      <4> QED BY <4>1, <4>2
    <3> QED BY <1>5, <3>1, <3>2, <3>3
  <2> QED BY <2>1, <2>2
<1> QED BY <1>6, <1>10, <1>11 DEF NumberInv

\* A number that is returned was unique on its way.
LEMMA ReturnStep ==
    ASSUME NumberInv, NEW s \in Callers, Return(s)
    PROVE  NumberInv'
<1> DEFINE n == generating[s].number
<1>1. n \in Numbers /\ generating[s].step = "answered"
  BY CallFacts DEF NumberInv, Return
<1>2. /\ generating'[s] = Idle
      /\ \A t \in Callers \ {s} : generating'[t] = generating[t]
      /\ generating' \in [Callers -> NumCalls]
  BY DEF Return, NumberInv, NumTypeOK, NumCalls
<1>3. returned' = returned \cup {n} /\ last_value' = last_value
  BY DEF Return
<1>4. NumTypeOK'
  BY <1>1, <1>2, <1>3 DEF NumberInv, NumTypeOK
<1>5. CountedInv'
  BY <1>1, <1>2, <1>3 DEF NumberInv, CountedInv, Idle
<1>6. NumbersUnique'
  <2> SUFFICES ASSUME NEW t \in Callers, generating'[t].step = "answered"
               PROVE  /\ generating'[t].number \notin returned'
                      /\ \A u \in Callers \ {t} :
                            generating'[u].step = "answered" => generating'[u].number # generating'[t].number
    BY DEF NumbersUnique
  <2>1. t # s /\ generating'[t] = generating[t]
    BY <1>2 DEF Idle
  <2>2. generating[t].number # n /\ generating[t].number \notin returned
    BY <1>1, <2>1 DEF NumberInv, NumbersUnique
  <2>3. \A u \in Callers \ {t} :
           generating'[u].step = "answered" => generating'[u].number # generating[t].number
    BY <1>2, <2>1 DEF NumberInv, NumbersUnique, Idle
  <2> QED BY <1>3, <2>1, <2>2, <2>3
<1> QED BY <1>4, <1>5, <1>6 DEF NumberInv

LEMMA NumberStep == NumberInv /\ [NumNext]_numVars => NumberInv'
<1> SUFFICES ASSUME NumberInv, [NumNext]_numVars PROVE NumberInv'
  OBVIOUS
<1>1. NumTypeOK /\ last_value \in [Counters -> Nat]
      /\ \A d \in Counters : last_value[d] <= last_value[d]
  BY DEF NumberInv, NumTypeOK
<1>2. ASSUME NEW s \in Callers, NEW type \in Types, NEW date \in Dates,
             Generate(s, type, date)
      PROVE  NumberInv'
  <2> DEFINE c == <<type, BuildPeriod(type, date)>>
             new == [step |-> "attempt", counter |-> c, attempt |-> 1]
  <2>1. new \in NumCalls
    BY CounterOf DEF NumCalls
  <2>2. generating' = [generating EXCEPT ![s] = new] /\ UNCHANGED <<last_value, returned>>
    BY <1>2 DEF Generate
  <2>3. generating' \in [Callers -> NumCalls] /\ generating'[s].step # "answered"
        /\ \A t \in Callers \ {s} : generating'[t] = generating[t]
    BY <1>1, <2>1, <2>2 DEF NumTypeOK
  <2> QED BY <1>1, <2>2, <2>3, QuietStep
<1>3. ASSUME NEW s \in Callers, IncrementFails(s) PROVE NumberInv'
  BY <1>1, <1>3, RetryType, QuietStep DEF IncrementFails
<1>4. ASSUME NEW s \in Callers, AnswerLost(s) PROVE NumberInv'
  <2>1. generating[s].counter \in Counters
    BY <1>1, <1>4, CallFacts DEF AnswerLost
  <2> QED BY <1>1, <1>4, <2>1, IncrementEffect, RetryType, QuietStep DEF AnswerLost
<1>5. CASE UNCHANGED numVars
  BY <1>5 DEF numVars, NumberInv, NumTypeOK, CountedInv, NumbersUnique
<1> QED
  BY <1>2, <1>3, <1>4, <1>5, AtomicIncrementStep, ReturnStep DEF NumNext, Serve

\* generate never gives a document number to two callers, whatever attempts fail
\* or lose their answers, for all types, dates and numbers of callers.
THEOREM DocumentNumbersUnique == NumSpec => []NumbersUnique
<1>1. NumInit => NumberInv
  BY DEF NumInit, NumberInv, NumTypeOK, CountedInv, NumbersUnique, NumCalls, Idle
<1>2. NumberInv => NumbersUnique
  BY DEF NumberInv
<1> QED BY <1>1, <1>2, NumberStep, PTL DEF NumSpec

-----------------------------------------------------------------------------
(* The composition: a step of Services is one of a service, or none *)

LEMMA ServicesStart == ServicesInit => Idem!IdInit /\ Copies!CacheInit /\ Client!SessInit
BY DEF ServicesInit

LEMMA ServicesMove ==
    [ServicesNext]_servicesVars =>
      /\ [Idem!IdNext]_Idem!idVars
      /\ [Copies!CacheNext]_Copies!cacheVars
      /\ [Client!SessNext]_Client!sessVars
BY DEF ServicesNext, servicesVars, idVars, cacheVars, sessVars,
       Idem!idVars, Copies!cacheVars, Client!sessVars

-----------------------------------------------------------------------------
(* Idempotency *)

Asking(r) == Idem!At(r) \in {"look", "run", "done"}
IdTypeOK ==
    /\ executed \in Nat
    /\ inFlight \in {Idem!Nobody} \cup [at : {"of"}, of : Requests]
    /\ asked \in [Requests ->
          [at : {"away", "look", "run", "done", "store", "sent", "lost"}]
            \cup [at : {"wait"}, on : Requests]]

\* One request at a time asks for the answer; who executes has its promise in the map,
\* and nothing is kept before it is done.
Alone(r) ==
    /\ \A s \in Requests \ {r} : Asking(r) => ~Asking(s)
    /\ Idem!At(r) \in {"run", "done"} => inFlight # Idem!Nobody /\ answer = {}
    /\ Idem!At(r) = "run" => executed = 0
    /\ Idem!At(r) = "store" => answer # {}
Kept ==
    /\ executed <= 1
    /\ executed = 0 => answer = {} /\ \A r \in Requests : Idem!At(r) # "done"
    /\ executed = 1 => answer # {} \/ \E r \in Requests : Idem!At(r) = "done"

IdInv == IdTypeOK /\ (except = {} => Kept /\ \A r \in Requests : Alone(r))

\* What a request does next, and what stays.
LEMMA IdMoves ==
    ASSUME IdTypeOK, NEW r \in Requests, NEW c, Idem!To(r, c),
           c \in [at : {"away", "look", "run", "done", "store", "sent", "lost"}]
                   \cup [at : {"wait"}, on : Requests],
           executed' \in Nat, inFlight' \in {Idem!Nobody} \cup [at : {"of"}, of : Requests]
    PROVE  /\ IdTypeOK' /\ Idem!At(r)' = c.at
           /\ \A s \in Requests \ {r} : asked'[s] = asked[s]
BY DEF IdTypeOK, Idem!To, Idem!At

\* A request that begins to look and races with none is alone.
LEMMA LooksStep ==
    ASSUME IdInv, NEW r \in Requests, NEW others, Idem!Looks(r, others),
           Idem!At(r) \in {"away", "wait"},
           \/ others = {"look"} /\ inFlight = Idem!Nobody
           \/ others = {"look", "run", "done"},
           UNCHANGED <<inFlight, promise, answer, executed>>
    PROVE  IdInv'
<1> DEFINE c == [at |-> "look"]
<1>1. Idem!To(r, c) /\ except \subseteq except'
      /\ (except' = {} => \A s \in Requests \ {r} : Idem!At(s) \notin others)
  BY DEF Idem!Looks
<1>2. /\ IdTypeOK' /\ Idem!At(r)' = "look"
      /\ \A s \in Requests \ {r} : asked'[s] = asked[s]
  BY <1>1, IdMoves DEF IdInv, IdTypeOK
<1>3. ASSUME except' = {}
      PROVE  Kept' /\ \A s \in Requests : Alone(s)'
  <2>1. Kept /\ \A s \in Requests : Alone(s)
    BY <1>1, <1>3 DEF IdInv
  <2>2. \A s \in Requests \ {r} : ~Asking(s)
    BY <1>1, <1>3, <2>1 DEF Alone, Asking
  <2>3. Kept'
    BY <1>2, <2>1 DEF Kept, Idem!At
  <2>4. ASSUME NEW s \in Requests PROVE Alone(s)'
    BY <1>2, <2>1, <2>2 DEF Alone, Asking, Idem!At
  <2> QED BY <2>3, <2>4
<1> QED BY <1>2, <1>3 DEF IdInv

\* A hit answers.
LEMMA HitStep ==
    ASSUME IdInv, NEW r \in Requests, Idem!Hit(r)
    PROVE  IdInv'
<1>1. Idem!To(r, [at |-> "sent"]) /\ except \subseteq except'
  BY DEF Idem!Hit
<1>2. executed' \in Nat /\ inFlight' \in {Idem!Nobody} \cup [at : {"of"}, of : Requests]
  BY DEF Idem!Hit, IdInv, IdTypeOK
<1>3. /\ IdTypeOK' /\ Idem!At(r)' = "sent"
      /\ \A s \in Requests \ {r} : asked'[s] = asked[s]
  BY <1>1, <1>2, IdMoves DEF IdInv
<1>4. ASSUME except' = {}
      PROVE  Kept' /\ \A s \in Requests : Alone(s)'
  <2>1. Kept /\ \A s \in Requests : Alone(s)
    BY <1>1, <1>4 DEF IdInv
  <2>2. Kept'
    BY <1>3, <2>1 DEF Idem!Hit, Kept, Alone, Asking, Idem!At
  <2>3. ASSUME NEW s \in Requests PROVE Alone(s)'
    BY <1>3, <2>1 DEF Idem!Hit, Kept, Alone, Asking, Idem!At
  <2> QED BY <2>2, <2>3
<1> QED BY <1>3, <1>4 DEF IdInv

\* Who executes is alone, and nothing was executed before.
LEMMA ExecuteStep ==
    ASSUME IdInv, NEW r \in Requests, Idem!Execute(r)
    PROVE  IdInv'
<1>1. Idem!To(r, [at |-> "run"]) /\ except \subseteq except'
  BY DEF Idem!Execute
<1>2. executed' \in Nat /\ inFlight' \in {Idem!Nobody} \cup [at : {"of"}, of : Requests]
  BY DEF Idem!Execute, IdInv, IdTypeOK
<1>3. /\ IdTypeOK' /\ Idem!At(r)' = "run"
      /\ \A s \in Requests \ {r} : asked'[s] = asked[s]
  BY <1>1, <1>2, IdMoves DEF IdInv
<1>4. ASSUME except' = {}
      PROVE  Kept' /\ \A s \in Requests : Alone(s)'
  <2>1. Kept /\ \A s \in Requests : Alone(s)
    BY <1>1, <1>4 DEF IdInv
  <2>2. Kept'
    BY <1>3, <2>1 DEF Idem!Execute, Kept, Alone, Asking, Idem!At
  <2>3. ASSUME NEW s \in Requests PROVE Alone(s)'
    BY <1>3, <2>1 DEF Idem!Execute, Idem!Nobody, IdInv, IdTypeOK, Kept, Alone, Asking, Idem!At
  <2> QED BY <2>2, <2>3
<1> QED BY <1>3, <1>4 DEF IdInv

\* The handler commits, for the first time.
LEMMA CommitStep ==
    ASSUME IdInv, NEW r \in Requests, Idem!Commit(r)
    PROVE  IdInv'
<1>1. Idem!To(r, [at |-> "done"]) /\ except \subseteq except'
  BY DEF Idem!Commit
<1>2. executed' \in Nat /\ inFlight' \in {Idem!Nobody} \cup [at : {"of"}, of : Requests]
  BY DEF Idem!Commit, IdInv, IdTypeOK
<1>3. /\ IdTypeOK' /\ Idem!At(r)' = "done"
      /\ \A s \in Requests \ {r} : asked'[s] = asked[s]
  BY <1>1, <1>2, IdMoves DEF IdInv
<1>4. ASSUME except' = {}
      PROVE  Kept' /\ \A s \in Requests : Alone(s)'
  <2>1. Kept /\ \A s \in Requests : Alone(s)
    BY <1>1, <1>4 DEF IdInv
  <2>2. Kept'
    BY <1>3, <2>1 DEF Idem!Commit, Kept, Alone, Asking, Idem!At
  <2>3. ASSUME NEW s \in Requests PROVE Alone(s)'
    BY <1>3, <2>1 DEF Idem!Commit, Kept, Alone, Asking, Idem!At
  <2> QED BY <2>2, <2>3
<1> QED BY <1>3, <1>4 DEF IdInv

\* The answer is in memory.
LEMMA AnswerStep ==
    ASSUME IdInv, NEW r \in Requests, Idem!Answer(r)
    PROVE  IdInv'
<1>1. Idem!To(r, [at |-> "store"]) /\ except \subseteq except'
  BY DEF Idem!Answer
<1>2. executed' \in Nat /\ inFlight' \in {Idem!Nobody} \cup [at : {"of"}, of : Requests]
  BY DEF Idem!Answer, IdInv, IdTypeOK
<1>3. /\ IdTypeOK' /\ Idem!At(r)' = "store"
      /\ \A s \in Requests \ {r} : asked'[s] = asked[s]
  BY <1>1, <1>2, IdMoves DEF IdInv
<1>4. ASSUME except' = {}
      PROVE  Kept' /\ \A s \in Requests : Alone(s)'
  <2>1. Kept /\ \A s \in Requests : Alone(s)
    BY <1>1, <1>4 DEF IdInv
  <2>2. Kept'
    BY <1>3, <2>1 DEF Idem!Answer, Kept, Alone, Asking, Idem!At
  <2>3. ASSUME NEW s \in Requests PROVE Alone(s)'
    BY <1>3, <2>1 DEF Idem!Answer, Kept, Alone, Asking, Idem!At
  <2> QED BY <2>2, <2>3
<1> QED BY <1>3, <1>4 DEF IdInv

\* The key is deleted while nobody executes.
LEMMA StoreStep ==
    ASSUME IdInv, NEW r \in Requests, Idem!Store(r)
    PROVE  IdInv'
<1>1. Idem!To(r, [at |-> "sent"]) /\ except \subseteq except'
  BY DEF Idem!Store
<1>2. executed' \in Nat /\ inFlight' \in {Idem!Nobody} \cup [at : {"of"}, of : Requests]
  BY DEF Idem!Store, IdInv, IdTypeOK
<1>3. /\ IdTypeOK' /\ Idem!At(r)' = "sent"
      /\ \A s \in Requests \ {r} : asked'[s] = asked[s]
  BY <1>1, <1>2, IdMoves DEF IdInv
<1>4. ASSUME except' = {}
      PROVE  Kept' /\ \A s \in Requests : Alone(s)'
  <2>1. Kept /\ \A s \in Requests : Alone(s)
    BY <1>1, <1>4 DEF IdInv
  <2>2. Kept'
    BY <1>3, <2>1 DEF Idem!Store, Kept, Alone, Asking, Idem!At
  <2>3. ASSUME NEW s \in Requests PROVE Alone(s)'
    BY <1>3, <2>1 DEF Idem!Store, Kept, Alone, Asking, Idem!At
  <2> QED BY <2>2, <2>3
<1> QED BY <1>3, <1>4 DEF IdInv

\* A request that waits, or is answered, changes nothing else.
LEMMA StandsStep ==
    ASSUME IdInv, NEW r \in Requests, NEW c, Idem!To(r, c),
           c \in [at : {"sent"}] \cup [at : {"wait"}, on : Requests],
           UNCHANGED <<inFlight, answer, executed, except>>,
           Idem!At(r) \in {"away", "wait"}
    PROVE  IdInv'
<1>1. c.at \in {"sent", "wait"}
  OBVIOUS
<1>2. /\ IdTypeOK' /\ Idem!At(r)' = c.at
      /\ \A s \in Requests \ {r} : asked'[s] = asked[s]
  BY IdMoves DEF IdInv, IdTypeOK
<1>3. ASSUME except' = {}
      PROVE  Kept' /\ \A s \in Requests : Alone(s)'
  <2>1. Kept /\ \A s \in Requests : Alone(s)
    BY <1>3 DEF IdInv
  <2>2. Kept'
    BY <1>1, <1>2, <2>1 DEF Kept, Idem!At
  <2>3. ASSUME NEW s \in Requests PROVE Alone(s)'
    BY <1>1, <1>2, <2>1 DEF Alone, Asking, Idem!At
  <2> QED BY <2>2, <2>3
<1> QED BY <1>2, <1>3 DEF IdInv

\* With the key in the map the request waits for whose promise it is.
LEMMA ArriveStep ==
    ASSUME IdInv, NEW r \in Requests, Idem!Arrive(r)
    PROVE  IdInv'
<1>1. CASE inFlight = Idem!Nobody
  BY <1>1, LooksStep DEF Idem!Arrive
<1>2. CASE inFlight # Idem!Nobody
  <2>1. [at |-> "wait", on |-> inFlight.of] \in [at : {"wait"}, on : Requests]
    BY <1>2 DEF IdInv, IdTypeOK
  <2> QED BY <1>2, <2>1, StandsStep DEF Idem!Arrive
<1> QED BY <1>1, <1>2

\* The promise is resolved, or rejected and the request looks itself.
LEMMA AwaitedStep ==
    ASSUME IdInv, NEW r \in Requests, Idem!Awaited(r)
    PROVE  IdInv'
<1>1. CASE Idem!To(r, [at |-> "sent"]) /\ UNCHANGED except
  BY <1>1, StandsStep DEF Idem!Awaited
<1>2. CASE Idem!Looks(r, {"look", "run", "done"})
  BY <1>2, LooksStep DEF Idem!Awaited
<1> QED BY <1>1, <1>2 DEF Idem!Awaited

\* The process ends: who was asking is lost, and Redis has what was executed.
LEMMA EndsStep ==
    ASSUME IdInv, Idem!Ends, UNCHANGED executed
    PROVE  IdInv'
<1>1. \A r \in Requests :
        asked'[r] = IF Idem!At(r) \in {"away"} \cup Idem!Settled THEN asked[r]
                    ELSE [at |-> "lost"]
  BY DEF Idem!Ends
<1>2. IdTypeOK'
  BY DEF Idem!Ends, IdInv, IdTypeOK
<1>3. ASSUME NEW r \in Requests
      PROVE  Idem!At(r)' \in {"away", "sent", "lost"}
  BY <1>1 DEF Idem!At, Idem!Settled
<1>4. ASSUME except' = {}
      PROVE  Kept' /\ \A s \in Requests : Alone(s)'
  <2>1. Kept /\ (executed > 0 => "redis" \in answer)
    BY <1>4 DEF IdInv, Idem!Ends
  <2>2. Kept'
    BY <1>3, <2>1 DEF Kept, Idem!Ends
  <2>3. ASSUME NEW s \in Requests PROVE Alone(s)'
    BY <1>3 DEF Alone, Asking
  <2> QED BY <2>2, <2>3
<1> QED BY <1>2, <1>4 DEF IdInv

\* A handler that throws before its commit leaves the key to the next request.
LEMMA FailStep ==
    ASSUME IdInv, NEW r \in Requests, Idem!Fail(r)
    PROVE  IdInv'
<1>1. CASE Idem!Ends
  BY <1>1, EndsStep DEF Idem!Fail
<1>2. CASE /\ inFlight' = Idem!Nobody /\ Idem!To(r, [at |-> "sent"])
           /\ except' = except \cup (IF Idem!At(r) = "done" THEN {"late"} ELSE {})
           /\ UNCHANGED answer
  <2>1. /\ IdTypeOK' /\ Idem!At(r)' = "sent"
        /\ \A s \in Requests \ {r} : asked'[s] = asked[s]
    BY <1>2, IdMoves DEF Idem!Fail, IdInv, IdTypeOK
  <2>2. ASSUME except' = {}
        PROVE  Kept' /\ \A s \in Requests : Alone(s)'
    <3>1. Kept /\ (\A s \in Requests : Alone(s)) /\ Idem!At(r) = "run"
      BY <1>2, <2>2 DEF IdInv, Idem!Fail
    <3>2. \A s \in Requests \ {r} : ~Asking(s)
      BY <3>1 DEF Alone, Asking
    <3>3. Kept'
      BY <1>2, <2>1, <3>1 DEF Idem!Fail, Kept, Alone, Idem!At
    <3>4. ASSUME NEW s \in Requests PROVE Alone(s)'
      BY <1>2, <2>1, <3>1, <3>2 DEF Idem!Fail, Alone, Asking, Idem!At
    <3> QED BY <3>3, <3>4
  <2> QED BY <2>1, <2>2 DEF IdInv
<1> QED BY <1>1, <1>2 DEF Idem!Fail

LEMMA IdStep ==
    ASSUME IdInv, [Idem!IdNext]_Idem!idVars
    PROVE  IdInv'
<1>1. CASE UNCHANGED Idem!idVars
  BY <1>1 DEF IdInv, IdTypeOK, Kept, Alone, Asking, Idem!At, Idem!idVars
<1>2. CASE Idem!Crash
  BY <1>2, EndsStep DEF Idem!Crash
<1>3. CASE Idem!Expire
  BY <1>3 DEF Idem!Expire, IdInv, IdTypeOK
<1>4. ASSUME NEW r \in Requests,
             Idem!Arrive(r) \/ Idem!Serve(r) \/ Idem!Fail(r)
      PROVE  IdInv'
  BY <1>4, ArriveStep, AwaitedStep, HitStep, ExecuteStep, CommitStep, AnswerStep,
     StoreStep, FailStep DEF Idem!Serve
<1> QED BY <1>1, <1>2, <1>3, <1>4 DEF Idem!IdNext

\* IdempotencyInterceptor: whatever the number of requests with one key, waiting,
\* failures before the commit and restarts included, the handler commits at most
\* once, outside the named exceptions.
THEOREM ExecutedAtMostOnce == ServicesSpec => []ExecutedOnce
<1>1. Idem!IdInit => IdInv
  BY DEF Idem!IdInit, IdInv, IdTypeOK, Kept, Alone, Asking, Idem!At
<1>2. IdInv => ExecutedOnce
  BY DEF IdInv, Kept, ExecutedOnce, Idem!ExecutedOnce
<1> QED BY <1>1, <1>2, IdStep, ServicesStart, ServicesMove, PTL DEF ServicesSpec

-----------------------------------------------------------------------------
(* Cache *)

Holds(r) == reader[r].at \in {"set", "send"}
CacheTypeOK ==
    /\ reader \in [Readers -> [at : {"rest", "memory", "row"}]
                                 \cup [at : {"set", "send"}, value : Nat]]
    /\ writer \in [Writers -> {"rest", "map", "redis"}]
    /\ stored \in Nat

\* A reader holds the row; a copy is of the row when no writer is still to delete it.
Current ==
    /\ \A r \in Readers : Holds(r) => reader[r].value = stored
    /\ (\A w \in Writers : writer[w] # "map") => memory \in {Copies!NoCopy, stored}
    /\ (\A w \in Writers : writer[w] = "rest") => redis \in {Copies!NoCopy, stored}

CacheInv == CacheTypeOK /\ (deletes /\ crossed = {} => Current)

LEMMA ReaderMoves ==
    ASSUME CacheTypeOK, NEW r \in Readers, NEW c, Copies!Reads(r, c),
           c \in [at : {"rest", "memory", "row"}] \cup [at : {"set", "send"}, value : Nat]
    PROVE  /\ CacheTypeOK' /\ reader'[r] = c
           /\ \A s \in Readers \ {r} : reader'[s] = reader[s]
BY DEF CacheTypeOK, Copies!Reads

\* A reader keeps the row it has read, or nothing.
LEMMA ReaderStep ==
    ASSUME CacheInv, NEW r \in Readers,
           \/ Copies!AskRedis(r) \/ Copies!AskMemory(r) \/ Copies!ReadRow(r)
           \/ Copies!SetMemory(r) \/ Copies!SetRedis(r)
    PROVE  CacheInv'
<1> DEFINE next(c) == Copies!Reads(r, c)
<1>1. ASSUME NEW c \in [at : {"rest", "memory", "row"}], next(c),
             UNCHANGED <<redis, memory>>
      PROVE  CacheInv'
  <2>1. CacheTypeOK' /\ reader'[r] = c /\ \A s \in Readers \ {r} : reader'[s] = reader[s]
    BY <1>1, ReaderMoves DEF CacheInv
  <2> QED BY <1>1, <2>1 DEF CacheInv, Current, Holds, Copies!Reads
<1>2. CASE Copies!AskRedis(r)
  BY <1>1, <1>2 DEF Copies!AskRedis
<1>3. CASE Copies!AskMemory(r)
  BY <1>1, <1>3 DEF Copies!AskMemory
<1>4. CASE Copies!ReadRow(r)
  <2> DEFINE c == [at |-> "set", value |-> stored]
  <2>1. next(c) /\ UNCHANGED <<redis, memory>>
    BY <1>4 DEF Copies!ReadRow
  <2>2. c \in [at : {"set", "send"}, value : Nat]
    BY DEF CacheInv, CacheTypeOK
  <2>3. CacheTypeOK' /\ reader'[r] = c /\ \A s \in Readers \ {r} : reader'[s] = reader[s]
    BY <2>1, <2>2, ReaderMoves DEF CacheInv
  <2> QED BY <2>1, <2>3 DEF CacheInv, Current, Holds, Copies!Reads
<1>5. CASE Copies!SetMemory(r)
  <2> DEFINE c == [at |-> "send", value |-> reader[r].value]
  <2>1. next(c) /\ memory' = reader[r].value /\ UNCHANGED redis /\ Holds(r)
    BY <1>5 DEF Copies!SetMemory, Holds
  <2>2. c \in [at : {"set", "send"}, value : Nat]
    BY <2>1 DEF CacheInv, CacheTypeOK, Holds
  <2>3. CacheTypeOK' /\ reader'[r] = c /\ \A s \in Readers \ {r} : reader'[s] = reader[s]
    BY <2>1, <2>2, ReaderMoves DEF CacheInv
  <2> QED BY <2>1, <2>3 DEF CacheInv, Current, Holds, Copies!Reads
<1>6. CASE Copies!SetRedis(r)
  <2> DEFINE c == [at |-> "rest"]
  <2>1. next(c) /\ redis' \in {redis, reader[r].value} /\ UNCHANGED memory /\ Holds(r)
    BY <1>6 DEF Copies!SetRedis, Holds
  <2>2. CacheTypeOK' /\ reader'[r] = c /\ \A s \in Readers \ {r} : reader'[s] = reader[s]
    BY <2>1, ReaderMoves DEF CacheInv
  <2> QED BY <2>1, <2>2 DEF CacheInv, Current, Holds, Copies!Reads
<1> QED BY <1>2, <1>3, <1>4, <1>5, <1>6

\* A commit while no reader holds a value: the writer is still to delete both copies.
LEMMA UpdateStep ==
    ASSUME CacheInv, NEW w \in Writers, Copies!Update(w)
    PROVE  CacheInv'
<1>1. writer[w] = "rest" /\ stored' = stored + 1 /\ UNCHANGED <<redis, memory, deletes, reader>>
  BY DEF Copies!Update
<1>2. CacheTypeOK'
  BY DEF Copies!Update, CacheInv, CacheTypeOK
<1>3. ASSUME deletes', crossed' = {}
      PROVE  Current'
  <2>1. writer'[w] = "map"
    BY <1>1, <1>3 DEF Copies!Update, CacheInv, CacheTypeOK
  <2>2. \A r \in Readers : ~Holds(r)
    BY <1>3 DEF Copies!Update, Holds
  <2> QED BY <1>1, <2>1, <2>2 DEF Current, Holds
<1> QED BY <1>2, <1>3 DEF CacheInv

\* The deletes: the map, and then Redis.
LEMMA DeleteStep ==
    ASSUME CacheInv, NEW w \in Writers, Copies!DeleteMemory(w) \/ Copies!DeleteRedis(w)
    PROVE  CacheInv'
<1>1. UNCHANGED <<stored, deletes, reader>> /\ crossed \subseteq crossed'
  BY DEF Copies!DeleteMemory, Copies!DeleteRedis
<1>2. CacheTypeOK' /\ \A v \in Writers \ {w} : writer'[v] = writer[v]
  BY DEF Copies!DeleteMemory, Copies!DeleteRedis, CacheInv, CacheTypeOK
<1>3. ASSUME deletes', crossed' = {}
      PROVE  Current'
  <2>1. Current
    BY <1>1, <1>3 DEF CacheInv
  <2>2. CASE Copies!DeleteMemory(w)
    <3>1. writer'[w] = "redis" /\ memory' = Copies!NoCopy
      BY <2>2 DEF Copies!DeleteMemory, CacheInv, CacheTypeOK
    <3> QED BY <1>1, <2>1, <3>1 DEF Current, Holds
  <2>3. CASE Copies!DeleteRedis(w)
    <3>1. /\ writer[w] = "redis" /\ writer'[w] = "rest" /\ UNCHANGED memory
          /\ redis' = Copies!NoCopy
      BY <1>3, <2>3 DEF Copies!DeleteRedis, CacheInv, CacheTypeOK
    <3> QED BY <1>1, <1>2, <2>1, <3>1 DEF Current, Holds
  <2> QED BY <2>2, <2>3
<1> QED BY <1>2, <1>3 DEF CacheInv

LEMMA CacheStep ==
    ASSUME CacheInv, [Copies!CacheNext]_Copies!cacheVars
    PROVE  CacheInv'
<1>1. CASE UNCHANGED Copies!cacheVars
  BY <1>1 DEF CacheInv, CacheTypeOK, Current, Holds, Copies!cacheVars
<1>2. CASE Copies!ExpireRedis \/ Copies!ExpireMemory \/ Copies!Switch
  BY <1>2 DEF Copies!ExpireRedis, Copies!ExpireMemory, Copies!Switch,
     CacheInv, CacheTypeOK, Current, Holds
<1> QED BY <1>1, <1>2, ReaderStep, UpdateStep, DeleteStep
        DEF Copies!CacheNext, Copies!Proceed

\* CacheService: whatever the number of readers and writers, a copy read while no update
\* is under way is the row, outside the named exceptions.
THEOREM CachedCopiesAreCurrent == ServicesSpec => []CopiesAreCurrent
<1>1. Copies!CacheInit => CacheInv
  BY DEF Copies!CacheInit, CacheInv, CacheTypeOK, Current, Holds
<1>2. CacheInv => CopiesAreCurrent
  BY DEF CacheInv, Current, CopiesAreCurrent, Copies!CopiesAreCurrent
<1> QED BY <1>1, <1>2, CacheStep, ServicesStart, ServicesMove, PTL DEF ServicesSpec

-----------------------------------------------------------------------------
(* Sessions *)

GoesOn == {"sent", "rejected"}
FetchType ==
    [at : {"none", "answered", "rejected"}]
      \cup [at : {"sent"}, tab : Tabs, with : Nat, retry : BOOLEAN]
      \cup [at : {"queued"}, tab : Tabs]
      \cup [at : {"refresh", "rotate", "revoked"}, tab : Tabs, token : Nat]
      \cup [at : {"renewed"}, tab : Tabs, pair : Nat]
ClientTypeOK ==
    /\ fetch \in [Fetches -> FetchType]
    /\ refreshing \in [Tabs -> BOOLEAN]
    /\ storage \in [access : Nat, refresh : Nat]

Refreshes(c, t) ==
    fetch[c].at \in {"refresh", "rotate", "renewed", "revoked"} /\ fetch[c].tab = t
Waits(c, t) == fetch[c].at = "queued" /\ fetch[c].tab = t

\* A tab is refreshing if and only if one request refreshes for it, and nobody waits else.
TabOK(t) ==
    /\ refreshing[t] => \E c \in Fetches : Refreshes(c, t)
    /\ \A c, d \in Fetches : Refreshes(c, t) /\ Refreshes(d, t) => c = d
    /\ ~refreshing[t] => \A c \in Fetches : ~Refreshes(c, t) /\ ~Waits(c, t)
TabsOK == \A t \in Tabs : TabOK(t)

\* A pair descends from one issued no later; a live one from a login after the last change.
PairsTypeOK ==
    /\ issued \in 0..MaxPairs /\ live \subseteq 1..issued /\ changed \in 0..issued
    /\ root \in [1..MaxPairs -> Nat]
    /\ \A p \in 1..issued : root[p] \in 1..p
PairsOK ==
    met = {} => /\ \A p, q \in live : root[p] = root[q] => p = q
                /\ \A p \in live : root[p] > changed
Exchanges ==
    \A c \in Fetches : fetch[c].at = "rotate" => fetch[c].token \in 1..issued

SessInv == ClientTypeOK /\ TabsOK /\ PairsTypeOK /\ PairsOK /\ Exchanges

\* One request moves on, and its tab stays as it is.
LEMMA FetchMoves ==
    ASSUME SessInv, NEW c \in Fetches, NEW v \in FetchType, Client!To(c, v),
           Client!ServerSame, UNCHANGED <<storage, refreshing>>,
           v.at = "rotate" => v.token \in 1..issued,
           v.at = "queued" => refreshing[v.tab] = TRUE,
           \/ /\ fetch[c].at \in {"none", "sent"}
              /\ v.at \in {"answered", "rejected", "sent", "queued"}
           \/ /\ fetch[c].at \in {"refresh", "rotate", "renewed", "revoked"}
              /\ v.at \in {"refresh", "rotate", "renewed", "revoked"}
              /\ v.tab = fetch[c].tab
    PROVE  SessInv'
<1>1. /\ fetch' \in [Fetches -> FetchType] /\ fetch'[c] = v
      /\ \A d \in Fetches \ {c} : fetch'[d] = fetch[d]
  BY DEF Client!To, SessInv, ClientTypeOK
<1>2. ClientTypeOK'
  BY <1>1 DEF SessInv, ClientTypeOK
<1>3. \A t \in Tabs, d \in Fetches : Refreshes(d, t)' <=> Refreshes(d, t)
  BY <1>1 DEF Refreshes
<1>4. \A t \in Tabs, d \in Fetches : Waits(d, t)' => Waits(d, t) \/ refreshing[t]
  BY <1>1 DEF Waits
<1>5. TabsOK'
  BY <1>3, <1>4 DEF SessInv, TabsOK, TabOK
<1>6. PairsTypeOK' /\ PairsOK'
  BY DEF SessInv, PairsTypeOK, PairsOK, Client!ServerSame
<1>7. Exchanges'
  BY <1>1 DEF SessInv, Exchanges, Client!ServerSame
<1> QED BY <1>2, <1>5, <1>6, <1>7 DEF SessInv

\* The refresh of a tab is over, and whoever waited for it goes on or is rejected.
LEMMA TabEnds ==
    ASSUME SessInv, NEW c \in Fetches, NEW t \in Tabs,
           Refreshes(c, t) \/ refreshing[t] = FALSE,
           Client!ServerSame,
           storage' \in [access : Nat, refresh : Nat],
           refreshing' = [refreshing EXCEPT ![t] = FALSE],
           fetch' \in [Fetches -> FetchType],
           fetch[c].at \in {"refresh", "rotate", "renewed", "revoked"} => fetch[c].tab = t,
           fetch'[c].at \in GoesOn,
           \A d \in Fetches \ {c} :
               IF Waits(d, t) THEN fetch'[d].at \in GoesOn ELSE fetch'[d] = fetch[d]
    PROVE  SessInv'
<1>1. ClientTypeOK'
  BY DEF SessInv, ClientTypeOK
<1>2. \A d \in Fetches, u \in Tabs : u # t =>
        /\ Refreshes(d, u)' <=> Refreshes(d, u)
        /\ Waits(d, u)' => Waits(d, u)
  BY DEF Refreshes, Waits, GoesOn
<1>3. \A d \in Fetches : ~Refreshes(d, t)' /\ ~Waits(d, t)'
  BY DEF Refreshes, Waits, GoesOn, SessInv, TabsOK, TabOK
<1>4. refreshing'[t] = FALSE /\ \A u \in Tabs : u # t => refreshing'[u] = refreshing[u]
  BY DEF SessInv, ClientTypeOK
<1>5. TabsOK'
  BY <1>2, <1>3, <1>4 DEF SessInv, TabsOK, TabOK
<1>6. PairsTypeOK' /\ PairsOK'
  BY DEF SessInv, PairsTypeOK, PairsOK, Client!ServerSame
<1>7. Exchanges'
  BY DEF SessInv, Exchanges, Client!ServerSame, GoesOn
<1> QED BY <1>1, <1>5, <1>6, <1>7 DEF SessInv

\* A refresh that fails rejects its own request and all that wait in its tab.
LEMMA FailedStep ==
    ASSUME SessInv, NEW c \in Fetches, Client!RefreshFailed(c), Client!ServerSame,
           \/ fetch[c].at \in {"refresh", "rotate", "renewed", "revoked"}
           \/ fetch[c].at = "sent" /\ ~refreshing[fetch[c].tab]
    PROVE  SessInv'
<1> DEFINE t == fetch[c].tab
<1>1. t \in Tabs /\ refreshing[t] \in BOOLEAN
  BY DEF SessInv, ClientTypeOK, FetchType
<1>2. /\ fetch' = [d \in Fetches |-> IF d = c \/ (fetch[d].at = "queued" /\ fetch[d].tab = t)
                                     THEN [at |-> "rejected"] ELSE fetch[d]]
      /\ storage' = [access |-> 0, refresh |-> 0]
      /\ refreshing' = [refreshing EXCEPT ![t] = FALSE]
  BY DEF Client!RefreshFailed, Client!RejectQueue, Client!NoToken
<1>3. [at |-> "rejected"] \in FetchType
  BY DEF FetchType
<1>4. fetch' \in [Fetches -> FetchType]
  BY <1>2, <1>3 DEF SessInv, ClientTypeOK
<1>5. /\ fetch'[c].at \in GoesOn
      /\ \A d \in Fetches \ {c} :
             IF Waits(d, t) THEN fetch'[d].at \in GoesOn ELSE fetch'[d] = fetch[d]
  BY <1>2 DEF GoesOn, Waits
<1>6. Refreshes(c, t) \/ refreshing[t] = FALSE
  BY <1>1 DEF Refreshes
<1>7. storage' \in [access : Nat, refresh : Nat]
  BY <1>2
<1> HIDE DEF t
<1>8. fetch[c].at \in {"refresh", "rotate", "renewed", "revoked"} => fetch[c].tab = t
  BY DEF t
<1> QED BY <1>1, <1>2, <1>4, <1>5, <1>6, <1>7, <1>8, TabEnds

LEMMA DoneStep ==
    ASSUME MaxPairs \in Nat, SessInv, NEW c \in Fetches, Client!RefreshDone(c)
    PROVE  SessInv'
<1> DEFINE t == fetch[c].tab
           token == Client!UnwrapRefresh(fetch[c].pair)
           again(retry) == [at |-> "sent", tab |-> t, with |-> token, retry |-> retry]
<1>1. t \in Tabs /\ fetch[c].at = "renewed"
  BY DEF Client!RefreshDone, SessInv, ClientTypeOK, FetchType
<1>2. token \in Nat
  BY DEF Client!UnwrapRefresh, Client!Undefined
<1>3. /\ fetch' = [d \in Fetches |->
                     IF d = c THEN again(TRUE)
                     ELSE IF fetch[d].at = "queued" /\ fetch[d].tab = t THEN again(FALSE)
                     ELSE fetch[d]]
      /\ storage' = [access |-> token, refresh |-> token]
      /\ refreshing' = [refreshing EXCEPT ![t] = FALSE]
      /\ Client!ServerSame
  BY DEF Client!RefreshDone
<1>4. \A retry \in BOOLEAN : again(retry) \in FetchType /\ again(retry).at = "sent"
  BY <1>1, <1>2 DEF FetchType
<1>5. fetch' \in [Fetches -> FetchType]
  <2> HIDE DEF again
  <2> QED BY <1>3, <1>4 DEF SessInv, ClientTypeOK
<1>6. /\ fetch'[c].at \in GoesOn
      /\ \A d \in Fetches \ {c} :
             IF Waits(d, t) THEN fetch'[d].at \in GoesOn ELSE fetch'[d] = fetch[d]
  <2> HIDE DEF again
  <2> QED BY <1>3, <1>4 DEF GoesOn, Waits
<1>7. storage' \in [access : Nat, refresh : Nat]
  BY <1>2, <1>3
<1>8. Refreshes(c, t) /\ (fetch[c].at \in {"refresh", "rotate", "renewed", "revoked"} => fetch[c].tab = t)
  BY <1>1 DEF Refreshes
<1> HIDE DEF t, token, again
<1> QED BY <1>1, <1>3, <1>5, <1>6, <1>7, <1>8, TabEnds

\* The request with a refused token refreshes for its tab, or finds no token to do it with.
LEMMA BeginStep ==
    ASSUME SessInv, NEW c \in Fetches, Client!BeginRefresh(c)
    PROVE  SessInv'
<1> DEFINE t == fetch[c].tab
           v == [at |-> "refresh", tab |-> t, token |-> storage.refresh]
<1>1. /\ t \in Tabs /\ fetch[c].at = "sent" /\ ~refreshing[t] /\ Client!ServerSame
  BY DEF Client!BeginRefresh, Client!Refused, Client!MayRefresh, SessInv, ClientTypeOK, FetchType
<1>2. CASE Client!RefreshFailed(c)
  BY <1>1, <1>2, FailedStep
<1>3. CASE /\ refreshing' = [refreshing EXCEPT ![t] = TRUE]
           /\ Client!To(c, v) /\ UNCHANGED storage
  <2>1. v \in FetchType /\ v.at = "refresh" /\ v.tab = t
    BY <1>1 DEF SessInv, ClientTypeOK, FetchType
  <2> HIDE DEF v
  <2>2. /\ fetch' \in [Fetches -> FetchType] /\ fetch'[c] = v
        /\ \A d \in Fetches \ {c} : fetch'[d] = fetch[d]
    BY <1>3, <2>1 DEF Client!To, SessInv, ClientTypeOK
  <2>3. ClientTypeOK'
    BY <1>3, <2>2 DEF SessInv, ClientTypeOK
  <2>4. refreshing'[t] = TRUE /\ \A u \in Tabs : u # t => refreshing'[u] = refreshing[u]
    BY <1>1, <1>3 DEF SessInv, ClientTypeOK
  <2>5. \A d \in Fetches, u \in Tabs : u = t => (Refreshes(d, u)' <=> d = c)
    BY <1>1, <2>1, <2>2 DEF Refreshes, SessInv, TabsOK, TabOK
  <2>6. \A d \in Fetches, u \in Tabs : u # t =>
          (Refreshes(d, u)' <=> Refreshes(d, u)) /\ (Waits(d, u)' => Waits(d, u))
    BY <1>1, <2>1, <2>2 DEF Refreshes, Waits
  <2>7. ASSUME NEW u \in Tabs PROVE TabOK(u)'
    <3>1. TabOK(u)
      BY DEF SessInv, TabsOK
    <3>2. CASE u = t
      BY <2>4, <2>5, <3>2 DEF TabOK
    <3>3. CASE u # t
      <4> HIDE DEF t
      <4> QED BY <2>4, <2>6, <3>1, <3>3 DEF TabOK
    <3> QED BY <3>2, <3>3
  <2>8. PairsTypeOK' /\ PairsOK'
    BY <1>1 DEF SessInv, PairsTypeOK, PairsOK, Client!ServerSame
  <2>9. Exchanges'
    BY <1>1, <2>1, <2>2 DEF SessInv, Exchanges, Client!ServerSame
  <2> QED BY <2>3, <2>7, <2>8, <2>9 DEF SessInv, TabsOK
<1> QED BY <1>1, <1>2, <1>3 DEF Client!BeginRefresh

\* The token is found, or is not in the cache any more.
LEMMA FetchReadStep ==
    ASSUME SessInv, NEW c \in Fetches, Client!RefreshRead(c)
    PROVE  SessInv'
<1>1. /\ fetch[c].at = "refresh" /\ fetch[c] \in [at : {"refresh", "rotate", "revoked"}, tab : Tabs, token : Nat]
      /\ Client!ServerSame /\ UNCHANGED <<storage, refreshing>>
  BY DEF Client!RefreshRead, SessInv, ClientTypeOK, FetchType
<1>2. ASSUME NEW where \in {"rotate", "revoked"}, Client!To(c, [fetch[c] EXCEPT !.at = where]),
             where = "rotate" => fetch[c].token \in live
      PROVE  SessInv'
  <2> DEFINE v == [fetch[c] EXCEPT !.at = where]
  <2>1. /\ v \in FetchType /\ v.at = where /\ v.tab = fetch[c].tab /\ v.token = fetch[c].token
    BY <1>1 DEF FetchType
  <2>2. Client!To(c, v) /\ (v.at = "rotate" => v.token \in 1..issued)
    BY <1>2, <2>1 DEF SessInv, PairsTypeOK
  <2> HIDE DEF v
  <2> QED BY <1>1, <2>1, <2>2, FetchMoves
<1> QED BY <1>1, <1>2 DEF Client!RefreshRead

\* The new pair takes the place of the one it is exchanged for.
LEMMA RotateStep ==
    ASSUME MaxPairs \in Nat, SessInv, NEW c \in Fetches, Client!RefreshRotate(c)
    PROVE  SessInv'
<1> DEFINE n == issued + 1
           v == [at |-> "renewed", tab |-> fetch[c].tab, pair |-> n]
           old == fetch[c].token
<1>1. /\ fetch[c].at = "rotate" /\ n \in 1..MaxPairs /\ issued' = n
      /\ live' = (live \ {old}) \cup {n}
      /\ Client!To(c, v) /\ UNCHANGED <<storage, refreshing, changed>>
      /\ root' = [root EXCEPT ![n] = root[old]]
      /\ met' = {} => met = {} /\ old \in live
  BY DEF Client!RefreshRotate, Client!Rotate, SessInv, PairsTypeOK
<1>2. v \in FetchType /\ v.at = "renewed" /\ v.tab = fetch[c].tab
  BY <1>1 DEF SessInv, ClientTypeOK, FetchType
<1>3. /\ fetch' \in [Fetches -> FetchType] /\ fetch'[c] = v
      /\ \A d \in Fetches \ {c} : fetch'[d] = fetch[d]
  <2> HIDE DEF v
  <2> QED BY <1>1, <1>2 DEF Client!To, SessInv, ClientTypeOK
<1>4. ClientTypeOK'
  BY <1>1, <1>3 DEF SessInv, ClientTypeOK
<1>5. \A t \in Tabs, d \in Fetches :
        (Refreshes(d, t)' <=> Refreshes(d, t)) /\ (Waits(d, t)' => Waits(d, t))
  BY <1>1, <1>2, <1>3 DEF Refreshes, Waits
<1>6. TabsOK'
  BY <1>1, <1>5 DEF SessInv, TabsOK, TabOK
<1>7. old \in 1..issued /\ issued \in Nat /\ live \subseteq 1..issued /\ changed \in 0..issued
  BY <1>1 DEF SessInv, Exchanges, PairsTypeOK
<1>8. root'[n] = root[old] /\ \A p \in 1..issued : root'[p] = root[p]
  BY <1>1, <1>7 DEF SessInv, PairsTypeOK
<1>9. PairsTypeOK'
  <2>1. root[old] \in 1..old /\ \A p \in 1..issued : root[p] \in 1..p
    BY <1>7 DEF SessInv, PairsTypeOK
  <2>2. root' \in [1..MaxPairs -> Nat]
    BY <1>1, <2>1 DEF SessInv, PairsTypeOK
  <2>3. live' \subseteq 1..n /\ changed' \in 0..n
    BY <1>1, <1>7
  <2>4. ASSUME NEW p \in 1..n PROVE root'[p] \in 1..p
    BY <1>7, <1>8, <2>1, <2>4
  <2>5. n \in 0..MaxPairs /\ issued' = n
    BY <1>1, <1>7
  <2> HIDE DEF n
  <2> QED BY <2>2, <2>3, <2>4, <2>5 DEF PairsTypeOK
<1>10. ASSUME met' = {}
       PROVE  /\ \A p, q \in live' : root'[p] = root'[q] => p = q
              /\ \A p \in live' : root'[p] > changed'
  BY <1>1, <1>7, <1>8, <1>10 DEF SessInv, PairsOK
<1>11. Exchanges'
  BY <1>1, <1>2, <1>3, <1>7 DEF SessInv, Exchanges
<1> QED BY <1>4, <1>6, <1>9, <1>10, <1>11 DEF SessInv, PairsOK

\* A login begins a session of its own.
LEMMA LoginStep ==
    ASSUME MaxPairs \in Nat, SessInv, Client!Login
    PROVE  SessInv'
<1> DEFINE n == issued + 1
<1>1. /\ n \in 1..MaxPairs /\ issued' = n /\ live' = live \cup {n}
      /\ storage' = [access |-> n, refresh |-> n]
      /\ root' = [root EXCEPT ![n] = n]
      /\ UNCHANGED <<refreshing, fetch, changed, met>>
  BY DEF Client!Login, SessInv, PairsTypeOK
<1>2. ClientTypeOK' /\ TabsOK'
  BY <1>1 DEF SessInv, ClientTypeOK, TabsOK, TabOK, Refreshes, Waits
<1>3. issued \in Nat /\ live \subseteq 1..issued /\ changed \in 0..issued
  BY DEF SessInv, PairsTypeOK
<1>4. root'[n] = n /\ \A p \in 1..issued : root'[p] = root[p] /\ root[p] \in 1..p
  BY <1>1, <1>3 DEF SessInv, PairsTypeOK
<1>5. PairsTypeOK'
  BY <1>1, <1>3, <1>4 DEF SessInv, PairsTypeOK
<1>6. PairsOK'
  BY <1>1, <1>3, <1>4 DEF SessInv, PairsOK
<1>7. Exchanges'
  BY <1>1, <1>3 DEF SessInv, Exchanges
<1> QED BY <1>2, <1>5, <1>6, <1>7 DEF SessInv

\* What the other steps leave alone.
LEMMA ServerSteps ==
    ASSUME MaxPairs \in Nat, SessInv,
           \/ Client!Logout \/ Client!ChangePassword \/ Client!InvalidateAllSessions
           \/ \E p \in Client!Pairs : Client!AccessExpires(p)
           \/ UNCHANGED Client!sessVars
    PROVE  SessInv'
<1>1. /\ UNCHANGED <<issued, root, refreshing, fetch>>
      /\ storage' \in {storage, [access |-> 0, refresh |-> 0]}
      /\ \/ UNCHANGED <<live, changed, met>>
         \/ live' = {} /\ changed' = issued
  BY DEF Client!Logout, Client!ChangePassword, Client!InvalidateAllSessions,
     Client!AccessExpires, Client!sessVars, Client!ServerSame, Client!SessionsKept,
     Client!NoToken
<1>2. ClientTypeOK' /\ TabsOK' /\ Exchanges'
  BY <1>1 DEF SessInv, ClientTypeOK, TabsOK, TabOK, Refreshes, Waits, Exchanges
<1>3. PairsTypeOK'
  <2>1. PairsTypeOK
    BY DEF SessInv
  <2>2. live' \subseteq live /\ changed' \in {changed, issued}
    BY <1>1
  <2>3. live \subseteq 1..issued /\ changed \in 0..issued /\ issued \in 0..issued
    BY <2>1 DEF PairsTypeOK
  <2>4. live' \subseteq 1..issued /\ changed' \in 0..issued
    BY <2>2, <2>3
  <2> QED BY <1>1, <2>1, <2>4 DEF PairsTypeOK
<1>4. PairsOK'
  BY <1>1 DEF SessInv, PairsOK
<1> QED BY <1>2, <1>3, <1>4 DEF SessInv

\* Requests that are sent, answered, rejected or queued.
LEMMA RequestSteps ==
    ASSUME SessInv, NEW c \in Fetches,
           \/ \E t \in Tabs : Client!Send(c, t)
           \/ Client!Answer(c) \/ Client!RejectRetry(c) \/ Client!Queue(c)
    PROVE  SessInv'
<1>1. Client!ServerSame /\ UNCHANGED <<storage, refreshing>>
  BY DEF Client!Send, Client!Answer, Client!RejectRetry, Client!Queue
<1>2. ASSUME NEW t \in Tabs, Client!Send(c, t) PROVE SessInv'
  <2> DEFINE v == [at |-> "sent", tab |-> t, with |-> storage.access, retry |-> FALSE]
  <2>1. v \in FetchType /\ v.at = "sent"
    BY DEF SessInv, ClientTypeOK, FetchType
  <2>2. Client!To(c, v) /\ fetch[c].at = "none"
    BY <1>2 DEF Client!Send, Client!Sent
  <2> HIDE DEF v
  <2> QED BY <1>1, <2>1, <2>2, FetchMoves
<1>3. ASSUME NEW where \in {"answered", "rejected"}, Client!To(c, [at |-> where]),
             fetch[c].at = "sent"
      PROVE  SessInv'
  <2> DEFINE v == [at |-> where]
  <2>1. v \in FetchType /\ v.at = where
    BY DEF FetchType
  <2> HIDE DEF v
  <2>2. Client!To(c, v)
    BY <1>3 DEF v
  <2> QED BY <1>1, <1>3, <2>1, <2>2, FetchMoves
<1>4. CASE Client!Queue(c)
  <2> DEFINE v == [at |-> "queued", tab |-> fetch[c].tab]
  <2>1. fetch[c].at = "sent" /\ fetch[c].tab \in Tabs /\ refreshing[fetch[c].tab] = TRUE
    BY <1>4 DEF Client!Queue, Client!Refused, Client!MayRefresh, SessInv, ClientTypeOK, FetchType
  <2>2. v \in FetchType /\ v.at = "queued" /\ v.tab = fetch[c].tab
    BY <2>1 DEF FetchType
  <2>3. Client!To(c, v)
    BY <1>4 DEF Client!Queue
  <2> HIDE DEF v
  <2> QED BY <1>1, <2>1, <2>2, <2>3, FetchMoves
<1> QED BY <1>2, <1>3, <1>4 DEF Client!Answer, Client!RejectRetry, Client!Refused

LEMMA SessStep ==
    ASSUME MaxPairs \in Nat, SessInv, [Client!SessNext]_Client!sessVars
    PROVE  SessInv'
<1>1. ASSUME NEW c \in Fetches, Client!RefreshRefused(c) \/ Client!RefreshLost(c)
      PROVE  SessInv'
  BY <1>1, FailedStep DEF Client!RefreshRefused, Client!RefreshLost
<1> QED BY <1>1, LoginStep, ServerSteps, RequestSteps, BeginStep, FetchReadStep, RotateStep, DoneStep
        DEF Client!SessNext, Client!Serve

LEMMA ClientCounts ==
    ASSUME NEW S
    PROVE  Client!Cardinality(S) = Cardinality(S)
BY DEF Client!Cardinality, Cardinality

LEMMA SessInvHolds ==
    ASSUME SessInv
    PROVE  Client!SessionsHold
<1>1. ASSUME NEW t \in Tabs
      PROVE  LET of(states) == {c \in Fetches : fetch[c].at \in states /\ fetch[c].tab = t}
             IN /\ Client!Cardinality(of({"refresh", "rotate", "renewed", "revoked"})) = IF refreshing[t] THEN 1 ELSE 0
                /\ ~refreshing[t] => of({"queued"}) = {}
  <2> DEFINE busy == {c \in Fetches : fetch[c].at \in {"refresh", "rotate", "renewed", "revoked"} /\ fetch[c].tab = t}
             queue == {c \in Fetches : fetch[c].at \in {"queued"} /\ fetch[c].tab = t}
  <2>1. TabOK(t) /\ refreshing[t] \in BOOLEAN
    BY DEF SessInv, TabsOK, ClientTypeOK
  <2>2. CASE refreshing[t]
    <3>1. PICK c \in Fetches : Refreshes(c, t)
      BY <2>1, <2>2 DEF TabOK
    <3>2. busy = {c}
      BY <2>1, <3>1 DEF TabOK, Refreshes
    <3>3. Client!Cardinality(busy) = 1
      BY <3>2, FS_Singleton, ClientCounts
    <3> QED BY <2>2, <3>3
  <2>3. CASE ~refreshing[t]
    <3>1. busy = {} /\ queue = {}
      BY <2>1, <2>3 DEF TabOK, Refreshes, Waits
    <3>2. Client!Cardinality(busy) = 0
      BY <3>1, FS_EmptySet, ClientCounts
    <3> QED BY <2>3, <3>1, <3>2
  <2> QED BY <2>2, <2>3
<1>2. Client!OneRefreshPerTab
  BY <1>1 DEF Client!OneRefreshPerTab
<1> QED BY <1>2 DEF SessInv, PairsOK, Client!SessionsHold, Client!OneSessionPerLogin,
     Client!ChangeEndsSessions

\* lib/api.ts and AuthService: whatever the number of tabs and requests, a tab refreshes
\* once at a time and nobody waits for a refresh that is over; a login has one session,
\* and none from before a password change, outside the named exceptions.
THEOREM OneSessionPerLoginAndTab ==
    ASSUME MaxPairs \in Nat
    PROVE  ServicesSpec => []SessionsHold
<1>1. Client!SessInit => SessInv
  BY DEF Client!SessInit, Client!NoToken, SessInv, ClientTypeOK, FetchType, TabsOK, TabOK,
     Refreshes, Waits, PairsTypeOK, PairsOK, Exchanges
<1>2. SessInv /\ [Client!SessNext]_Client!sessVars => SessInv'
  BY SessStep
<1>3. SessInv => SessionsHold
  BY SessInvHolds DEF SessionsHold
<1> QED BY <1>1, <1>2, <1>3, ServicesStart, ServicesMove, PTL DEF ServicesSpec

-----------------------------------------------------------------------------
(* The composition: a step of BackOffice is one of a module, or none *)

LEMMA OfficeStarts ==
    OfficeInit =>
      /\ Tree!TreeInit
      /\ Master!MasterInit
      /\ Pricing!PriceInit
      /\ Calc!CalcInit
      /\ Table!RowsInit
BY DEF OfficeInit

LEMMA OfficeMoves ==
    [OfficeNext]_officeVars =>
      /\ [Tree!TreeNext]_Tree!treeVars
      /\ [Master!MasterNext]_Master!masterVars
      /\ [Pricing!PriceNext]_Pricing!priceVars
      /\ [Calc!CalcNext]_Calc!calcVars
      /\ [Table!RowsNext]_tableVars
BY DEF OfficeNext, officeVars, treeVars, masterVars, priceVars,
       Tree!treeVars, Master!masterVars, Pricing!priceVars, Calc!calcVars

-----------------------------------------------------------------------------
(* The chart of accounts *)

\* A row, or one to be, under its parent.
Placed(r) ==
    IF r.parent = None THEN r.level = 1
    ELSE /\ r.parent \in AccountIds /\ Tree!Exists(r.parent)
         /\ r.parent \notin moved => /\ account[r.parent].header
                                       /\ r.level = account[r.parent].level + 1

\* What a call has read: the parent is there, the account is there, and a new type is
\* the old one or came before the first journal line.
KeeperOK(c) ==
    /\ keeper[c].op = "create" => Placed(keeper[c].row) /\ keeper[c].row.state = "live"
    /\ keeper[c].op \in {"update", "delete"} =>
         keeper[c].id \in AccountIds /\ Tree!Exists(keeper[c].id)
    /\ keeper[c].op = "update" =>
         keeper[c].field # "state" /\ (keeper[c].field = "type" => keeper[c].same \/ keeper[c].unused)

TreeInv ==
    /\ DOMAIN account = AccountIds /\ account = [a \in AccountIds |-> account[a]]
    /\ DOMAIN keeper = Keepers /\ keeper = [c \in Keepers |-> keeper[c]]
    /\ \A a \in AccountIds : Tree!Exists(a) /\ a \notin moved => Placed(account[a])
    /\ \A a \in used : a \in AccountIds /\ Tree!Exists(a)
    /\ \A c \in Keepers : KeeperOK(c)

\* A row, or one to be, stays placed when accounts stay, and those not marked as they were.
LEMMA PlacedStays ==
    ASSUME NEW r, Placed(r), moved \subseteq moved',
           \A a \in AccountIds : Tree!Exists(a) =>
              /\ Tree!Exists(a)'
              /\ a \notin moved' => /\ account'[a].header = account[a].header
                                      /\ account'[a].level = account[a].level
    PROVE  /\ r.parent = None => r.level = 1
           /\ r.parent # None =>
                /\ r.parent \in AccountIds /\ Tree!Exists(r.parent)'
                /\ r.parent \notin moved' => /\ account'[r.parent].header
                                               /\ r.level = account'[r.parent].level + 1
BY DEF Placed

\* A clerk's call reads, or is over; what other calls have read stays.
LEMMA TreeReads ==
    ASSUME TreeInv, NEW c \in Keepers, NEW k, keeper' = [keeper EXCEPT ![c] = k],
           UNCHANGED <<account, used, moved>>,
           k.op = "create" => Placed(k.row) /\ k.row.state = "live",
           k.op \in {"update", "delete"} => k.id \in AccountIds /\ Tree!Exists(k.id),
           k.op = "update" => k.field # "state" /\ (k.field = "type" => k.same \/ k.unused)
    PROVE  TreeInv'
<1>1. /\ DOMAIN keeper' = Keepers /\ keeper' = [d \in Keepers |-> keeper'[d]] /\ keeper'[c] = k
      /\ \A d \in Keepers \ {c} : keeper'[d] = keeper[d]
  BY DEF TreeInv
<1>2. ASSUME NEW d \in Keepers PROVE KeeperOK(d)'
  BY <1>1 DEF TreeInv, KeeperOK, Placed, Tree!Exists
<1> QED BY <1>1, <1>2 DEF TreeInv, Placed, Tree!Exists

\* A write of one row.
LEMMA TreeWrites ==
    ASSUME TreeInv, NEW c \in Keepers, keeper' = [keeper EXCEPT ![c] = Tree!Idle],
           NEW a \in AccountIds, NEW r, account' = [account EXCEPT ![a] = r],
           r.state # "absent",
           moved' \in {moved, moved \cup {a}}, UNCHANGED used,
           a \notin moved' => Placed(r),
           a \notin moved' /\ Tree!Exists(a) => r.header = account[a].header /\ r.level = account[a].level
    PROVE  TreeInv'
<1>1. /\ DOMAIN keeper' = Keepers /\ keeper' = [d \in Keepers |-> keeper'[d]]
      /\ keeper'[c].op = "idle" /\ \A d \in Keepers \ {c} : keeper'[d] = keeper[d]
  BY DEF TreeInv, Tree!Idle
<1>2. /\ DOMAIN account' = AccountIds /\ account' = [b \in AccountIds |-> account'[b]]
      /\ account'[a] = r /\ \A b \in AccountIds \ {a} : account'[b] = account[b]
  BY DEF TreeInv
<1>3. \A b \in AccountIds : Tree!Exists(b) =>
         /\ Tree!Exists(b)'
         /\ b \notin moved' => /\ account'[b].header = account[b].header
                                 /\ account'[b].level = account[b].level
  BY <1>2 DEF Tree!Exists
<1>4. ASSUME NEW x, Placed(x)
      PROVE  /\ x.parent = None => x.level = 1
             /\ x.parent # None =>
                  /\ x.parent \in AccountIds /\ Tree!Exists(x.parent)'
                  /\ x.parent \notin moved' => /\ account'[x.parent].header
                                                 /\ x.level = account'[x.parent].level + 1
  BY <1>3, <1>4, PlacedStays
<1>5. ASSUME NEW d \in Keepers PROVE KeeperOK(d)'
  <2>1. CASE d = c
    BY <1>1, <2>1 DEF KeeperOK
  <2>2. CASE d # c
    <3>1. KeeperOK(d) /\ keeper'[d] = keeper[d]
      BY <1>1, <2>2 DEF TreeInv
    <3> QED BY <1>3, <1>4, <3>1 DEF KeeperOK, Placed
  <2> QED BY <2>1, <2>2
<1>6. ASSUME NEW b \in AccountIds, Tree!Exists(b)', b \notin moved' PROVE Placed(account[b])'
  <2>1. CASE b = a
    BY <1>2, <1>4, <1>6, <2>1 DEF Placed
  <2>2. CASE b # a
    <3>1. Placed(account[b]) /\ account'[b] = account[b]
      BY <1>2, <1>6, <2>2 DEF TreeInv, Tree!Exists
    <3> QED BY <1>4, <3>1 DEF Placed
  <2> QED BY <2>1, <2>2
<1>7. \A b \in used' : b \in AccountIds /\ Tree!Exists(b)'
  BY <1>3 DEF TreeInv
<1> QED BY <1>1, <1>2, <1>5, <1>6, <1>7 DEF TreeInv

LEMMA CreateReadStep ==
    ASSUME TreeInv, NEW c \in Keepers, NEW code \in Codes, NEW parent \in AccountIds \cup {None},
           NEW e \in NewRows, Tree!CreateRead(c, code, parent, e)
    PROVE  TreeInv'
<1> DEFINE r == [state |-> "live", code |-> code, parent |-> parent, header |-> e.header,
                 type |-> e.type, level |-> LevelOf[code]]
           k == [op |-> "create", row |-> r]
<1>1. /\ keeper' = [keeper EXCEPT ![c] = k] /\ UNCHANGED <<account, used, moved>>
      /\ Tree!ParentFits(code, parent)
  BY DEF Tree!CreateRead, Tree!Row
<1>2. r.parent = parent /\ r.level = LevelOf[code] /\ r.state = "live"
      /\ k.op = "create" /\ k.row = r
  OBVIOUS
<1> HIDE DEF r, k
<1>3. Placed(r)
  BY <1>1, <1>2 DEF Placed, Tree!ParentFits, Tree!Live, Tree!Exists
<1> QED BY <1>1, <1>2, <1>3, TreeReads

LEMMA UpdateReadStep ==
    ASSUME TreeInv, NEW c \in Keepers, NEW a \in AccountIds, NEW field, NEW value,
           field # "state", Tree!UpdateRead(c, a, field, value)
    PROVE  TreeInv'
<1> DEFINE k == [op |-> "update", id |-> a, field |-> field, value |-> value,
                 unused |-> a \notin used, same |-> account[a][field] = value]
<1>1. /\ keeper' = [keeper EXCEPT ![c] = k] /\ UNCHANGED <<account, used, moved>>
      /\ Tree!Live(a) /\ (field = "type" => Tree!TypeMayChange(a, value))
  BY DEF Tree!UpdateRead
<1>2. k.op = "update" /\ k.id = a /\ k.field = field /\ (k.unused <=> a \notin used)
      /\ (k.same <=> account[a][field] = value)
  OBVIOUS
<1> HIDE DEF k
<1>3. k.op = "update" /\ k.field = "type" => k.same \/ k.unused
  BY <1>1, <1>2 DEF Tree!TypeMayChange
<1> QED BY <1>1, <1>2, <1>3, TreeReads DEF Tree!Live, Tree!Exists

LEMMA DeleteReadStep ==
    ASSUME TreeInv, NEW c \in Keepers, NEW a \in AccountIds, Tree!DeleteRead(c, a)
    PROVE  TreeInv'
<1> DEFINE k == [op |-> "delete", id |-> a]
<1>1. /\ keeper' = [keeper EXCEPT ![c] = k] /\ UNCHANGED <<account, used, moved>>
      /\ Tree!Live(a) /\ k.op = "delete" /\ k.id = a
  BY DEF Tree!DeleteRead
<1> HIDE DEF k
<1> QED BY <1>1, TreeReads DEF Tree!Live, Tree!Exists

LEMMA CreateWriteStep ==
    ASSUME TreeInv, NEW c \in Keepers, Tree!CreateWrite(c)
    PROVE  TreeInv'
<1>1. keeper[c].op = "create" /\ keeper' = [keeper EXCEPT ![c] = Tree!Idle]
      /\ UNCHANGED <<used, moved>>
  BY DEF Tree!CreateWrite
<1>2. CASE UNCHANGED account
  <2>1. Tree!Idle.op = "idle"
    BY DEF Tree!Idle
  <2> QED BY <1>1, <1>2, <2>1, TreeReads
<1>3. ASSUME NEW a \in AccountIds, ~Tree!Exists(a), account' = [account EXCEPT ![a] = keeper[c].row]
      PROVE  TreeInv'
  <2>1. Placed(keeper[c].row) /\ keeper[c].row.state # "absent"
    BY <1>1 DEF TreeInv, KeeperOK
  <2> QED BY <1>1, <1>3, <2>1, TreeWrites
<1> QED BY <1>2, <1>3 DEF Tree!CreateWrite

LEMMA UpdateWriteStep ==
    ASSUME TreeInv, NEW c \in Keepers, Tree!UpdateWrite(c) \/ Tree!DeleteWrite(c)
    PROVE  TreeInv'
<1> DEFINE a == keeper[c].id
<1>1. /\ keeper[c].op \in {"update", "delete"} /\ keeper' = [keeper EXCEPT ![c] = Tree!Idle]
      /\ UNCHANGED used
  BY DEF Tree!UpdateWrite, Tree!DeleteWrite
<1>2. a \in AccountIds /\ Tree!Exists(a)
  BY <1>1 DEF TreeInv, KeeperOK
<1>3. CASE UNCHANGED <<account, moved>>
  <2>1. Tree!Idle.op = "idle"
    BY DEF Tree!Idle
  <2> QED BY <1>1, <1>3, <2>1, TreeReads
<1>4. ASSUME NEW field, NEW value, account' = [account EXCEPT ![a] = Tree!Edited(a, field, value)],
             field = "state" => value = "deleted",
             moved' = (IF field \in {"type", "state"} THEN moved ELSE moved \cup {a})
      PROVE  TreeInv'
  <2> DEFINE r == Tree!Edited(a, field, value)
  <2>1. /\ r.state # "absent" /\ r.level = account[a].level
        /\ field \in {"type", "state"} => r.header = account[a].header /\ r.parent = account[a].parent
    BY <1>2, <1>4 DEF Tree!Edited, Tree!Exists
  <2> HIDE DEF r
  <2>2. a \notin moved' => field \in {"type", "state"} /\ a \notin moved
    BY <1>4
  <2>3. a \notin moved' => Placed(r)
    <3>1. a \notin moved => Placed(account[a])
      BY <1>2 DEF TreeInv
    <3> QED BY <2>1, <2>2, <3>1 DEF Placed
  <2>4. moved' \in {moved, moved \cup {a}} /\ account' = [account EXCEPT ![a] = r]
    BY <1>4 DEF r
  <2> HIDE DEF a
  <2> QED BY <1>1, <1>2, <2>1, <2>2, <2>3, <2>4, TreeWrites
<1>5. CASE Tree!DeleteWrite(c)
  <2>1. /\ account' = [account EXCEPT ![a] = Tree!Edited(a, "state", "deleted")]
        /\ moved' = moved
    BY <1>5 DEF Tree!DeleteWrite
  <2> HIDE DEF a
  <2> QED BY <1>4, <2>1
<1>6. CASE Tree!UpdateWrite(c) /\ ~UNCHANGED <<account, moved>>
  <2>1. /\ account' = [account EXCEPT ![a] = Tree!Edited(a, keeper[c].field, keeper[c].value)]
        /\ moved' = IF keeper[c].field = "type" THEN moved ELSE moved \cup {a}
    BY <1>6 DEF Tree!UpdateWrite
  <2>2. keeper[c].field # "state"
    BY <1>6 DEF Tree!UpdateWrite, TreeInv, KeeperOK
  <2> HIDE DEF a
  <2> QED BY <1>4, <2>1, <2>2
<1> QED BY <1>1, <1>3, <1>5, <1>6

LEMMA PostLineStep ==
    ASSUME TreeInv, NEW a \in AccountIds, Tree!PostLine(a)
    PROVE  TreeInv'
<1>1. UNCHANGED <<account, keeper, moved>> /\ used' = used \cup {a} /\ Tree!Exists(a)
  BY DEF Tree!PostLine
<1>2. \A d \in Keepers : KeeperOK(d)'
  BY <1>1 DEF TreeInv, KeeperOK, Placed, Tree!Exists
<1> QED BY <1>1, <1>2 DEF TreeInv, Placed, Tree!Exists

\* Updates give no state.
UpdateFields == \A u \in AccountEdits : u.field # "state"

LEMMA TreeStep ==
    ASSUME UpdateFields, TreeInv, [Tree!TreeNext]_Tree!treeVars
    PROVE  TreeInv'
<1>1. CASE UNCHANGED Tree!treeVars
  BY <1>1 DEF TreeInv, KeeperOK, Placed, Tree!Exists, Tree!treeVars
<1> QED BY <1>1, CreateReadStep, UpdateReadStep, DeleteReadStep, CreateWriteStep,
        UpdateWriteStep, PostLineStep DEF UpdateFields, Tree!TreeNext

LEMMA TreeStarts == Tree!TreeInit => TreeInv
<1> SUFFICES ASSUME Tree!TreeInit PROVE TreeInv
  OBVIOUS
<1>1. /\ used = {} /\ moved = {} /\ keeper = [c \in Keepers |-> [op |-> "idle"]]
  BY DEF Tree!TreeInit, Tree!Idle
<1>2. PICK e \in NewRows, code \in [System -> {c \in Codes : LevelOf[c] = 1}] :
        account = [a \in AccountIds |-> IF a \in System THEN Tree!Row(code[a], None, TRUE, e.type)
                                      ELSE Tree!Absent]
  BY DEF Tree!TreeInit
<1>3. ASSUME NEW a \in AccountIds, Tree!Exists(a) PROVE Placed(account[a])
  BY <1>2, <1>3 DEF Tree!Exists, Tree!Row, Tree!Absent, Placed
<1> QED BY <1>1, <1>2, <1>3 DEF TreeInv, KeeperOK

\* The step keeps the place of every account.
LEMMA AccountsStayInTheirPlace ==
    ASSUME UpdateFields
    PROVE  Tree!TreeInit /\ [][Tree!TreeNext]_Tree!treeVars => []Tree!HierarchyKept
<1>1. TreeInv => Tree!HierarchyKept
  BY DEF TreeInv, Placed, Tree!HierarchyKept
<1>2. TreeInv /\ [Tree!TreeNext]_Tree!treeVars => TreeInv'
  BY TreeStep
<1> QED BY <1>1, <1>2, TreeStarts, PTL

\* No step but the second half of an update changes a type.
LEMMA TypesFollowUse ==
    ASSUME UpdateFields
    PROVE  Tree!TreeInit /\ [][Tree!TreeNext]_Tree!treeVars => [][Tree!TypeFollowsUse]_Tree!treeVars
<1> DEFINE Steps == \A a \in used : account'[a].type # account[a].type =>
                      \E c \in Keepers : keeper[c].op = "update" /\ keeper[c].id = a
                                        /\ (keeper[c].unused \/ keeper[c].same)
<1>1. TreeInv /\ [Tree!TreeNext]_Tree!treeVars => TreeInv'
  BY TreeStep
<1>2. TreeInv /\ [Tree!TreeNext]_Tree!treeVars => [Steps]_Tree!treeVars
  <2> SUFFICES ASSUME TreeInv, Tree!TreeNext, NEW a \in used, account'[a].type # account[a].type
               PROVE  \E c \in Keepers : keeper[c].op = "update" /\ keeper[c].id = a
                                        /\ (keeper[c].unused \/ keeper[c].same)
    OBVIOUS
  <2>1. a \in AccountIds /\ Tree!Exists(a) /\ DOMAIN account = AccountIds
    BY DEF TreeInv
  <2>2. account' # account
    OBVIOUS
  <2>3. ASSUME NEW c \in Keepers, Tree!CreateWrite(c) PROVE FALSE
    BY <2>1, <2>3 DEF Tree!CreateWrite
  <2>4. ASSUME NEW c \in Keepers, Tree!DeleteWrite(c) PROVE FALSE
    BY <2>1, <2>4 DEF Tree!DeleteWrite, Tree!Edited
  <2>5. ASSUME NEW c \in Keepers, Tree!UpdateWrite(c)
        PROVE  keeper[c].op = "update" /\ keeper[c].id = a /\ (keeper[c].unused \/ keeper[c].same)
    <3>1. keeper[c].op = "update"
          /\ account' = [account EXCEPT ![keeper[c].id] =
                           Tree!Edited(keeper[c].id, keeper[c].field, keeper[c].value)]
      BY <2>2, <2>5 DEF Tree!UpdateWrite
    <3>2. keeper[c].id = a
      BY <2>1, <3>1
    <3>3. keeper[c].field = "type"
      BY <2>1, <3>1, <3>2 DEF Tree!Edited
    <3> QED BY <3>1, <3>2, <3>3 DEF TreeInv, KeeperOK
  <2>6. \E c \in Keepers : Tree!CreateWrite(c) \/ Tree!UpdateWrite(c) \/ Tree!DeleteWrite(c)
    BY <2>2 DEF Tree!TreeNext, Tree!CreateRead, Tree!UpdateRead, Tree!DeleteRead, Tree!PostLine
  <2> QED BY <2>3, <2>4, <2>5, <2>6
<1>3. TreeInv /\ [][Tree!TreeNext]_Tree!treeVars => [][Steps]_Tree!treeVars
  BY <1>1, <1>2, PTL
<1> QED BY <1>3, TreeStarts DEF Tree!TypeFollowsUse

\* CoaService: for any accounts, codes and clerks whose calls meet, an account that no update
\* moved is one level below a header account after every step, and the type of an account with
\* journal lines changes only by a call that looked for lines before the first, or writes the
\* type it read.
THEOREM ChartHolds ==
    ASSUME UpdateFields
    PROVE  OfficeSpec => TreeHolds
<1>1. [][Tree!HierarchyKept']_Tree!treeVars /\ [][Tree!TypeFollowsUse]_Tree!treeVars
      => [][Tree!HierarchyKept' /\ Tree!TypeFollowsUse]_Tree!treeVars
  BY PTL
<1>2. []Tree!HierarchyKept => [][Tree!HierarchyKept']_Tree!treeVars
  BY PTL
<1> QED BY <1>1, <1>2, AccountsStayInTheirPlace, TypesFollowUse, OfficeStarts, OfficeMoves, PTL
        DEF OfficeSpec, TreeHolds, Tree!TreeHolds

-----------------------------------------------------------------------------
(* Master data *)

LooksFirst == {"product", "customer", "supplier", "uom"}

\* But for warehouses, whose codes are distinct in a branch, a code is in one row.
CodesDistinct ==
    table # "warehouse" =>
        \A i, j \in RowIds : Master!Present(i) /\ Master!Present(j) /\ record[i].code = record[j].code => i = j

RowType == [state : {"absent", "live", "deleted"}, code : RowCodes \cup {""}, place : Branches \cup {""}]

\* Nobody but the row itself had the code of a call when the service looked for it.
EditorOK(c) ==
    LET w == editor[c] IN
    /\ w.op \in {"create", "update"} => w.code \in RowCodes \cup {""} /\ w.place \in Branches \cup {""}
    /\ w.op = "create" => w.own = {}
    /\ w.op \in {"delete", "activate"} => \A i \in w.own : i \in RowIds /\ Master!Present(i)
    /\ w.op = "update" => \E i \in RowIds : w.own = {i}
    /\ w.op \in {"create", "update"} /\ table \in LooksFirst =>
          \A j \in RowIds \ w.own :
              w.seen[j] \in (IF table = "uom" THEN {"free"} ELSE {"free", "deleted"})

MasterInv ==
    /\ record \in [RowIds -> RowType]
    /\ DOMAIN editor = Editors /\ editor = [c \in Editors |-> editor[c]]
    /\ \A c \in Editors : EditorOK(c)
    /\ CodesDistinct
    /\ Master!ConflictsAreExpected

\* A call that has looked is on its way to its write.
LEMMA LookStep ==
    ASSUME MasterInv, NEW c \in Editors, NEW op, NEW own, NEW code \in RowCodes \cup {""},
           NEW place \in Branches \cup {""}, Master!GoesOn(c, op, own, code, place),
           op = "create" => own = {},
           op \in {"delete", "activate"} => \A i \in own : i \in RowIds /\ Master!Present(i),
           op = "update" => \E i \in RowIds : own = {i},
           op \in {"create", "update"} /\ table \in LooksFirst =>
             \A j \in RowIds \ own :
                Master!SameKey(j, code, place) => table # "uom" /\ record[j].state # "live"
    PROVE  MasterInv'
<1> DEFINE seen == [j \in RowIds |-> IF Master!SameKey(j, code, place) THEN record[j].state ELSE "free"]
           w == [op |-> op, own |-> own, code |-> code, place |-> place, seen |-> seen]
<1>1. editor' = [editor EXCEPT ![c] = w] /\ UNCHANGED <<table, record, refused>>
  BY DEF Master!GoesOn
<1>2. op \in {"create", "update"} /\ table \in LooksFirst =>
        \A j \in RowIds \ own :
            seen[j] \in (IF table = "uom" THEN {"free"} ELSE {"free", "deleted"})
  BY DEF MasterInv, RowType, Master!SameKey, Master!Present
<1>3. w.op = op /\ w.own = own /\ w.code = code /\ w.place = place /\ w.seen = seen
  OBVIOUS
<1> HIDE DEF seen, w
<1>5. /\ DOMAIN editor' = Editors /\ editor' = [d \in Editors |-> editor'[d]] /\ editor'[c] = w
      /\ \A d \in Editors \ {c} : editor'[d] = editor[d]
  BY <1>1 DEF MasterInv
<1>6. ASSUME NEW d \in Editors PROVE EditorOK(d)'
  <2>1. CASE d = c
    <3>1. editor'[d] = w
      BY <1>5, <2>1
    <3>2. op \in {"delete", "activate"} => \A i \in own : i \in RowIds /\ Master!Present(i)'
      BY <1>1 DEF Master!Present
    <3>3. editor'[d].op = op /\ editor'[d].own = own /\ editor'[d].code = code
          /\ editor'[d].place = place /\ editor'[d].seen = seen
      BY <1>3, <3>1
    <3>4. op = "update" => \E i \in RowIds : editor'[d].own = {i}
      BY <3>3
    <3>5. op \in {"create", "update"} /\ table' \in LooksFirst =>
             \A j \in RowIds \ editor'[d].own :
                editor'[d].seen[j] \in (IF table' = "uom" THEN {"free"} ELSE {"free", "deleted"})
      BY <1>1, <1>2, <3>3 DEF LooksFirst
    <3> QED BY <3>2, <3>3, <3>4, <3>5 DEF EditorOK
  <2>2. CASE d # c
    <3>1. EditorOK(d) /\ editor'[d] = editor[d]
      BY <1>5, <2>2 DEF MasterInv
    <3>2. \A i \in RowIds : Master!Present(i)' = Master!Present(i)
      BY <1>1 DEF Master!Present
    <3>3. table' = table
      BY <1>1
    <3> QED BY <3>1, <3>2, <3>3 DEF EditorOK
  <2> QED BY <2>1, <2>2
<1>7. CodesDistinct' /\ Master!ConflictsAreExpected'
  <2>1. CodesDistinct'
    <3>1. CodesDistinct
      BY DEF MasterInv
    <3>2. table' = table /\ record' = record
      BY <1>1
    <3> QED BY <3>1, <3>2 DEF CodesDistinct, Master!Present
  <2>2. Master!ConflictsAreExpected'
    BY <1>1 DEF MasterInv, Master!ConflictsAreExpected
  <2> QED BY <2>1, <2>2
<1> QED BY <1>1, <1>5, <1>6, <1>7 DEF MasterInv

\* A call is over; the rows have types and codes of their own.
LEMMA OverStep ==
    ASSUME MasterInv, NEW c \in Editors, editor' = [editor EXCEPT ![c] = Master!Idle],
           UNCHANGED table, \A i \in RowIds : Master!Present(i) => Master!Present(i)',
           record' \in [RowIds -> RowType],
           CodesDistinct', Master!ConflictsAreExpected'
    PROVE  MasterInv'
<1>1. /\ DOMAIN editor' = Editors /\ editor' = [d \in Editors |-> editor'[d]]
      /\ editor'[c].op = "idle" /\ \A d \in Editors \ {c} : editor'[d] = editor[d]
  BY DEF MasterInv, Master!Idle
<1>2. ASSUME NEW d \in Editors PROVE EditorOK(d)'
  BY <1>1 DEF MasterInv, EditorOK
<1> QED BY <1>1, <1>2 DEF MasterInv

LEMMA InsertRowStep ==
    ASSUME MasterInv, NEW c \in Editors, Master!Insert(c)
    PROVE  MasterInv'
<1> DEFINE code == editor[c].code
           new == [state |-> "live", code |-> code, place |-> editor[c].place]
<1>1. editor[c].op = "create" /\ Master!InWay(editor[c]) = {}
      /\ editor' = [editor EXCEPT ![c] = Master!Idle] /\ UNCHANGED <<table, refused>>
  BY DEF Master!Insert
<1>2. PICK i \in RowIds : ~Master!Present(i) /\ record' = [record EXCEPT ![i] = new]
  BY DEF Master!Insert
<1>3. new \in RowType /\ new.code = code
  BY <1>1 DEF MasterInv, EditorOK, RowType
<1> HIDE DEF new
<1>4. /\ record' \in [RowIds -> RowType]
      /\ record'[i] = new /\ \A j \in RowIds \ {i} : record'[j] = record[j]
  BY <1>2, <1>3 DEF MasterInv
<1>5. editor[c].own = {}
  BY <1>1 DEF MasterInv, EditorOK
<1>6. \A j \in RowIds : table # "warehouse" /\ Master!Present(j) => record[j].code # code
  BY <1>1, <1>5 DEF Master!InWay, Master!SameKey
<1>7. CodesDistinct'
  BY <1>1, <1>3, <1>4, <1>6 DEF MasterInv, CodesDistinct, Master!Present
<1>8. Master!ConflictsAreExpected'
  BY <1>1 DEF MasterInv, Master!ConflictsAreExpected
<1>9. \A j \in RowIds : Master!Present(j) => Master!Present(j)'
  BY <1>2, <1>4 DEF Master!Present
<1> QED BY <1>1, <1>4, <1>7, <1>8, <1>9, OverStep

LEMMA UpdateRowStep ==
    ASSUME MasterInv, NEW c \in Editors, Master!Update(c)
    PROVE  MasterInv'
<1>1. editor[c].op = "update" /\ Master!InWay(editor[c]) = {}
      /\ editor' = [editor EXCEPT ![c] = Master!Idle] /\ UNCHANGED <<table, refused>>
  BY DEF Master!Update
<1>2. PICK i \in RowIds : editor[c].own = {i}
  BY <1>1 DEF MasterInv, EditorOK
<1> DEFINE code == editor[c].code
           new == [state |-> record[i].state, code |-> code, place |-> editor[c].place]
<1>3. new \in RowType /\ new.code = code /\ new.state = record[i].state
  BY <1>1 DEF MasterInv, EditorOK, RowType
<1>4. record' = [j \in RowIds |-> IF j = i THEN new ELSE record[j]]
  BY <1>2 DEF Master!Update
<1> HIDE DEF new
<1>5. /\ record' \in [RowIds -> RowType]
      /\ record'[i] = new /\ \A j \in RowIds \ {i} : record'[j] = record[j]
  BY <1>3, <1>4 DEF MasterInv
<1>6. \A j \in RowIds \ {i} : table # "warehouse" /\ Master!Present(j) => record[j].code # code
  BY <1>1, <1>2 DEF Master!InWay, Master!SameKey
<1>7. CodesDistinct'
  BY <1>1, <1>3, <1>5, <1>6 DEF MasterInv, CodesDistinct, Master!Present
<1>8. Master!ConflictsAreExpected'
  BY <1>1 DEF MasterInv, Master!ConflictsAreExpected
<1>9. \A j \in RowIds : Master!Present(j) => Master!Present(j)'
  BY <1>3, <1>5 DEF Master!Present
<1> QED BY <1>1, <1>5, <1>7, <1>8, <1>9, OverStep

\* A row keeps its code when it is deleted or activated.
LEMMA StateStep ==
    ASSUME MasterInv, NEW c \in Editors,
           Master!SetState(c, "delete", "deleted") \/ Master!SetState(c, "activate", "live")
    PROVE  MasterInv'
<1>1. PICK state \in {"deleted", "live"} :
        /\ record' = [i \in RowIds |-> IF i \in editor[c].own THEN [record[i] EXCEPT !.state = state]
                                     ELSE record[i]]
        /\ editor[c].op \in {"delete", "activate"}
        /\ editor' = [editor EXCEPT ![c] = Master!Idle] /\ UNCHANGED <<table, refused>>
  BY DEF Master!SetState
<1>2. \A i \in editor[c].own : Master!Present(i)
  BY <1>1 DEF MasterInv, EditorOK
<1>3. ASSUME NEW r \in RowType
      PROVE  [r EXCEPT !.state = state] \in RowType /\ [r EXCEPT !.state = state].code = r.code
             /\ [r EXCEPT !.state = state].state = state
  BY DEF RowType
<1>4. record' \in [RowIds -> RowType]
  BY <1>1, <1>3 DEF MasterInv
<1>5. \A i \in RowIds : record'[i].code = record[i].code /\ (Master!Present(i)' <=> Master!Present(i))
  BY <1>1, <1>2, <1>3 DEF MasterInv, Master!Present
<1>6. CodesDistinct'
  BY <1>1, <1>5 DEF MasterInv, CodesDistinct
<1>7. Master!ConflictsAreExpected'
  BY <1>1 DEF MasterInv, Master!ConflictsAreExpected
<1> QED BY <1>1, <1>4, <1>5, <1>6, <1>7, OverStep

\* The database refuses for a row that the call has seen.
LEMMA RefuseStep ==
    ASSUME MasterInv, NEW c \in Editors, Master!Refuse(c)
    PROVE  MasterInv'
<1>1. /\ editor[c].op \in {"create", "update"}
      /\ editor' = [editor EXCEPT ![c] = Master!Idle] /\ UNCHANGED <<table, record>>
  BY DEF Master!Refuse
<1>2. PICK j \in Master!InWay(editor[c]) : refused' = editor[c].seen[j]
  BY DEF Master!Refuse
<1>3. j \in RowIds \ editor[c].own
  BY DEF Master!InWay
<1>4. Master!ConflictsAreExpected'
  BY <1>1, <1>2, <1>3 DEF MasterInv, EditorOK, LooksFirst, Master!ConflictsAreExpected
<1>5. CodesDistinct' /\ \A i \in RowIds : Master!Present(i) => Master!Present(i)'
  BY <1>1 DEF MasterInv, CodesDistinct, Master!Present
<1>6. record' \in [RowIds -> RowType]
  BY <1>1 DEF MasterInv
<1> QED BY <1>1, <1>4, <1>5, <1>6, OverStep

\* Services that look for the code before they create; that of units looks at deleted ones too.
LEMMA CreatesStep ==
    ASSUME MasterInv, NEW c \in Editors, NEW t, NEW code \in RowCodes, NEW place \in Branches \cup {""},
           Master!Creates(c, t, code, place),
           \/ t \in {"product", "customer", "supplier"} /\ ~Master!Taken(code, place, {})
           \/ t \in {"warehouse", "branch", "category"}
           \/ t = "uom" /\ \A i \in RowIds : ~Master!SameKey(i, code, place)
    PROVE  MasterInv'
<1>1. table = t /\ Master!GoesOn(c, "create", {}, code, place)
  BY DEF Master!Creates
<1>2. table \in LooksFirst =>
        \A j \in RowIds : Master!SameKey(j, code, place) => table # "uom" /\ record[j].state # "live"
  BY <1>1 DEF LooksFirst, Master!Taken, Master!Live
<1> QED BY <1>1, <1>2, LookStep

\* A row that changes may keep its own code, which no other has.
LEMMA ChangesStep ==
    ASSUME MasterInv, NEW c \in Editors, NEW t \in {"product", "customer", "supplier", "warehouse"},
           NEW i \in RowIds, NEW code \in RowCodes, NEW place \in Branches \cup {""},
           Master!Changes(c, t, i, code, place)
    PROVE  MasterInv'
<1>1. /\ table = t /\ Master!Live(i) /\ Master!GoesOn(c, "update", {i}, code, place)
      /\ code # record[i].code => ~Master!Taken(code, place, {i})
  BY DEF Master!Changes
<1>2. ASSUME table \in LooksFirst, NEW j \in RowIds \ {i}, Master!SameKey(j, code, place)
      PROVE  table # "uom" /\ record[j].state # "live"
  <2>1. table # "warehouse"
    BY <1>2 DEF LooksFirst
  <2>2. Master!Present(j) /\ record[j].code = code /\ Master!Present(i)
    BY <1>1, <1>2 DEF Master!SameKey, Master!Live, Master!Present
  <2>3. code # record[i].code
    BY <2>1, <2>2 DEF MasterInv, CodesDistinct
  <2> QED BY <1>1, <1>2, <2>3 DEF Master!Taken, Master!Live
<1> QED BY <1>1, <1>2, LookStep

\* Other calls look for no code, or are of services that are excepted.
LEMMA OthersStep ==
    ASSUME MasterInv, NEW c \in Editors, NEW i \in RowIds,
           \/ \E t \in {"product", "customer", "supplier", "warehouse"} : Master!Deletes(c, t, i)
           \/ Master!CategoryDelete(c, i) \/ Master!UomUpdate(c, i) \/ Master!UomDelete(c, i)
           \/ \E code \in RowCodes : Master!BranchUpdate(c, i, code)
    PROVE  MasterInv'
<1>1. Master!Present(i) /\ record[i].code \in RowCodes \cup {""} /\ record[i].place \in Branches \cup {""}
  BY DEF Master!Deletes, Master!CategoryDelete, Master!UomUpdate, Master!UomDelete,
     Master!BranchUpdate, Master!Present, Master!Live, MasterInv, RowType
<1>2. ASSUME NEW op \in {"delete", "activate"}, NEW place \in Branches \cup {""},
             Master!GoesOn(c, op, {i}, record[i].code, place)
      PROVE  MasterInv'
  BY <1>1, <1>2, LookStep
<1>3. ASSUME NEW code \in RowCodes, Master!BranchUpdate(c, i, code) PROVE MasterInv'
  <2>1. table \notin LooksFirst /\ Master!GoesOn(c, "update", {i}, code, "")
    BY <1>3 DEF Master!BranchUpdate, LooksFirst
  <2> QED BY <2>1, LookStep
<1> QED BY <1>1, <1>2, <1>3
        DEF Master!Deletes, Master!CategoryDelete, Master!UomUpdate, Master!UomDelete

LEMMA MasterStep ==
    ASSUME MasterInv, [Master!MasterNext]_Master!masterVars
    PROVE  MasterInv'
<1>1. CASE UNCHANGED Master!masterVars
  <2>1. UNCHANGED <<table, record, editor, refused>>
    BY <1>1 DEF Master!masterVars
  <2>2. ASSUME NEW c \in Editors PROVE EditorOK(c)'
    <3>1. EditorOK(c) /\ editor'[c] = editor[c]
      BY <2>1 DEF MasterInv
    <3> QED BY <2>1, <3>1 DEF EditorOK, LooksFirst, Master!Present
  <2>3. CodesDistinct' /\ Master!ConflictsAreExpected'
    BY <2>1 DEF MasterInv, CodesDistinct, Master!Present, Master!ConflictsAreExpected
  <2>4. record' \in [RowIds -> RowType] /\ DOMAIN editor' = Editors
        /\ editor' = [c \in Editors |-> editor'[c]]
    BY <2>1 DEF MasterInv
  <2> QED BY <2>2, <2>3, <2>4 DEF MasterInv
<1>2. ASSUME NEW c \in Editors, NEW code \in RowCodes,
             \/ Master!ProductCreate(c, code) \/ Master!CustomerCreate(c, code)
             \/ Master!SupplierCreate(c, code) \/ Master!BranchCreate(c, code)
             \/ Master!CategoryCreate(c, code) \/ Master!UomCreate(c, code)
             \/ \E place \in Branches : Master!WarehouseCreate(c, code, place)
      PROVE  MasterInv'
  BY <1>2, CreatesStep DEF Master!ProductCreate, Master!CustomerCreate, Master!SupplierCreate,
     Master!BranchCreate, Master!CategoryCreate, Master!UomCreate, Master!WarehouseCreate
<1>3. ASSUME NEW c \in Editors, NEW code \in RowCodes, NEW i \in RowIds,
             \/ Master!ProductUpdate(c, i, code) \/ Master!CustomerUpdate(c, i, code)
             \/ Master!SupplierUpdate(c, i, code)
             \/ \E place \in Branches : Master!WarehouseUpdate(c, i, code, place)
      PROVE  MasterInv'
  BY <1>3, ChangesStep DEF Master!ProductUpdate, Master!CustomerUpdate, Master!SupplierUpdate,
     Master!WarehouseUpdate
<1>4. ASSUME NEW c \in Editors, NEW i \in RowIds,
             \/ Master!ProductDeactivate(c, i) \/ Master!CustomerDeactivate(c, i)
             \/ Master!SupplierDeactivate(c, i) \/ Master!WarehouseDeactivate(c, i)
             \/ Master!CategoryDelete(c, i) \/ Master!UomUpdate(c, i) \/ Master!UomDelete(c, i)
             \/ \E code \in RowCodes : Master!BranchUpdate(c, i, code)
      PROVE  MasterInv'
  BY <1>4, OthersStep DEF Master!ProductDeactivate, Master!CustomerDeactivate,
     Master!SupplierDeactivate, Master!WarehouseDeactivate
<1> QED BY <1>1, <1>2, <1>3, <1>4, InsertRowStep, UpdateRowStep, StateStep, RefuseStep
        DEF Master!MasterNext

\* The services of master data: for any rows, codes and clerks, where a service looks for
\* the code first no write is refused for a row that was there.
THEOREM CodesAreLookedFor == OfficeSpec => []ConflictsAreExpected
<1>1. ASSUME Master!MasterInit PROVE MasterInv
  <2>1. record = [i \in RowIds |-> Master!Absent] /\ editor = [c \in Editors |-> Master!Idle]
        /\ refused = "none"
    BY <1>1 DEF Master!MasterInit
  <2>2. Master!Absent \in RowType /\ Master!Absent.state = "absent"
    BY DEF Master!Absent, RowType
  <2>3. ASSUME NEW c \in Editors PROVE EditorOK(c)
    <3>1. editor[c].op = "idle"
      BY <2>1 DEF Master!Idle
    <3> QED BY <3>1 DEF EditorOK
  <2>4. CodesDistinct /\ Master!ConflictsAreExpected
    BY <2>1, <2>2 DEF CodesDistinct, Master!Present, Master!ConflictsAreExpected
  <2>5. record \in [RowIds -> RowType] /\ DOMAIN editor = Editors
        /\ editor = [c \in Editors |-> editor[c]]
    BY <2>1, <2>2
  <2> QED BY <2>3, <2>4, <2>5 DEF MasterInv
<1>2. MasterInv => ConflictsAreExpected
  BY DEF MasterInv, ConflictsAreExpected
<1> QED BY <1>1, <1>2, MasterStep, OfficeStarts, OfficeMoves, PTL DEF OfficeSpec

-----------------------------------------------------------------------------
(* Prices *)

ListType ==
    [state : {"live", "deleted"}, customer : Buyers \cup {NoCustomer}, from : Days,
     to : Days \cup {NoDay}, active : BOOLEAN, price : Prices \cup {NoPrice}, moved : BOOLEAN]
EditType ==
    [pc : {"update"}, list : Lists, field : {"from"}, value : Days]
      \cup [pc : {"update"}, list : Lists, field : {"to"}, value : Days \cup {NoDay}]
      \cup [pc : {"update"}, list : Lists, field : {"active"}, value : BOOLEAN]
WriteType == [pc : {"prices"}, list : Lists, price : Prices] \cup [pc : {"deactivate"}, list : Lists]
Results == [price : Prices \cup {NoPrice}, source : {"customer", "general", "default"}]
AskerType == [pc : {"set"}, key : Keys, result : SUBSET Results, overtaken : BOOLEAN]
PriceTypeOK ==
    /\ list \in [Lists -> {Pricing!NoList} \cup ListType]
    /\ selling \in Prices
    /\ cached \in [Keys -> SUBSET Results]
    /\ asker \in [Askers -> {Pricing!Idle} \cup AskerType]
    /\ pricer \in [Pricers -> {Pricing!Idle} \cup [pc : {"empty"}] \cup EditType \cup WriteType]

\* A result that no change has overtaken is in force.
AskerOK(c) ==
    asker[c].pc = "set" /\ ~asker[c].overtaken
      => asker[c].result \subseteq Pricing!ActivePrice(asker[c].key)

\* The list of an update is there, and a new end still fits, unless its beginning moved.
EditOK(e) ==
    /\ pricer[e].pc \in {"update", "prices", "deactivate"} => list[pricer[e].list] \in ListType
    /\ pricer[e].pc = "update" /\ pricer[e].field = "to" /\ ~list[pricer[e].list].moved
         => Pricing!Follows(list[pricer[e].list].from, pricer[e].value)

PricesInv ==
    /\ PriceTypeOK
    /\ Pricing!PricesHold
    /\ \A c \in Askers : AskerOK(c)
    /\ \A e \in Pricers : EditOK(e)

\* What the lists give depends on what is in force.
LEMMA SamePrices ==
    ASSUME selling' = selling,
           \A day : Pricing!InForce(day)' = Pricing!InForce(day),
           \A day : \A l \in Pricing!InForce(day) : list'[l] = list[l]
    PROVE  \A k : Pricing!ActivePrice(k)' = Pricing!ActivePrice(k)
<1> SUFFICES ASSUME NEW k PROVE Pricing!ActivePrice(k)' = Pricing!ActivePrice(k)
  OBVIOUS
<1>1. \A customer, day : Pricing!Latest(customer, day)' = Pricing!Latest(customer, day)
  BY DEF Pricing!Latest
<1>2. \A customer, day : Pricing!Latest(customer, day) \subseteq Pricing!InForce(day)
  BY DEF Pricing!Latest
<1> DEFINE own == IF k[1] = NoCustomer THEN {} ELSE Pricing!Latest(k[1], k[2])
           general == Pricing!Latest(NoCustomer, k[2])
           GivenBy(ls, f, source) == {[price |-> f[l].price, source |-> source] : l \in ls}
<1>3. own' = own /\ general' = general
      /\ \A l \in own \cup general : list'[l] = list[l]
  BY <1>1, <1>2
<1>4. \A source : /\ GivenBy(own, list', source) = GivenBy(own, list, source)
                  /\ GivenBy(general, list', source) = GivenBy(general, list, source)
  BY <1>3
<1>5. Pricing!ActivePrice(k) =
        IF own # {} THEN GivenBy(own, list, "customer")
        ELSE IF general # {} THEN GivenBy(general, list, "general")
        ELSE {[price |-> selling, source |-> "default"]}
  BY DEF Pricing!ActivePrice
<1>6. Pricing!ActivePrice(k)' =
        IF own' # {} THEN GivenBy(own', list', "customer")
        ELSE IF general' # {} THEN GivenBy(general', list', "general")
        ELSE {[price |-> selling', source |-> "default"]}
  BY DEF Pricing!ActivePrice
<1> HIDE DEF own, general, GivenBy
<1> QED BY <1>3, <1>4, <1>5, <1>6

LEMMA ActiveType ==
    ASSUME PriceTypeOK, NEW k PROVE Pricing!ActivePrice(k) \subseteq Results
<1>1. \A day : \A l \in Pricing!InForce(day) : list[l].price \in Prices \cup {NoPrice}
  BY DEF Pricing!InForce, Pricing!Live, Pricing!NoList, PriceTypeOK, ListType
<1>2. \A customer, day : \A l \in Pricing!Latest(customer, day) : list[l].price \in Prices \cup {NoPrice}
  BY <1>1 DEF Pricing!Latest
<1> QED BY <1>2 DEF Pricing!ActivePrice, Results, PriceTypeOK

\* Neither lists nor price change: what is in force stays.
LEMMA SameLists ==
    ASSUME UNCHANGED <<list, selling>>
    PROVE  \A k : Pricing!ActivePrice(k)' = Pricing!ActivePrice(k)
BY SamePrices DEF Pricing!InForce, Pricing!Live

\* A asker that reads has what is in force; what it stores is, or is late.
LEMMA AskerStep ==
    ASSUME PricesInv, NEW c \in Askers,
           Pricing!PriceSet(c) \/ \E k \in Keys : Pricing!PriceRead(c, k)
    PROVE  PricesInv'
<1>1. \A k : Pricing!ActivePrice(k)' = Pricing!ActivePrice(k)
  BY SameLists DEF Pricing!PriceSet, Pricing!PriceRead
<1>2. UNCHANGED <<list, selling, pricer>>
  BY DEF Pricing!PriceSet, Pricing!PriceRead
<1>3. Pricing!PeriodsAreSound' /\ \A e \in Pricers : EditOK(e)'
  BY <1>2 DEF PricesInv, Pricing!PricesHold, Pricing!PeriodsAreSound, EditOK
<1>4. CASE Pricing!PriceSet(c)
  <2> DEFINE a == asker[c]
  <2>1. /\ a \in AskerType /\ asker' = [asker EXCEPT ![c] = Pricing!Idle]
        /\ cached' = [cached EXCEPT ![a.key] = a.result]
        /\ late' = IF a.overtaken THEN late \cup {a.key} ELSE late \ {a.key}
    BY <1>4 DEF Pricing!PriceSet, Pricing!Idle, PricesInv, PriceTypeOK
  <2>2. a.key \in Keys /\ a.result \in SUBSET Results /\ a.pc = "set" /\ a.overtaken \in BOOLEAN
    BY <2>1 DEF AskerType
  <2>3. ~a.overtaken => a.result \subseteq Pricing!ActivePrice(a.key)
    BY <2>2 DEF PricesInv, AskerOK
  <2> HIDE DEF a
  <2>4. PriceTypeOK'
    BY <1>2, <2>1, <2>2 DEF PricesInv, PriceTypeOK
  <2>5. asker'[c].pc = "idle" /\ \A d \in Askers \ {c} : asker'[d] = asker[d]
    BY <2>1 DEF PricesInv, PriceTypeOK, Pricing!Idle
  <2>6. \A d \in Askers : AskerOK(d)'
    BY <1>1, <2>5 DEF PricesInv, AskerOK
  <2>7. cached'[a.key] = a.result /\ \A k \in Keys \ {a.key} : cached'[k] = cached[k]
    BY <2>1, <2>2 DEF PricesInv, PriceTypeOK
  <2>8. Pricing!CachedPriceIsActive'
    BY <1>1, <1>2, <2>1, <2>2, <2>3, <2>7
       DEF PricesInv, Pricing!PricesHold, Pricing!CachedPriceIsActive
  <2> QED BY <1>3, <2>4, <2>6, <2>8 DEF PricesInv, Pricing!PricesHold
<1>5. ASSUME NEW k \in Keys, Pricing!PriceRead(c, k) PROVE PricesInv'
  <2>1. PICK result \in Pricing!ActivePrice(k) :
          asker' = [asker EXCEPT ![c] = [pc |-> "set", key |-> k, result |-> {result},
                                           overtaken |-> FALSE]]
    BY <1>5 DEF Pricing!PriceRead
  <2> DEFINE a == [pc |-> "set", key |-> k, result |-> {result}, overtaken |-> FALSE]
  <2>2. a \in AskerType /\ a.result \subseteq Pricing!ActivePrice(a.key)
    BY <2>1, ActiveType DEF PricesInv, AskerType
  <2> HIDE DEF a
  <2>3. asker' \in [Askers -> {Pricing!Idle} \cup AskerType] /\ asker'[c] = a
        /\ \A d \in Askers \ {c} : asker'[d] = asker[d]
    BY <2>1, <2>2 DEF PricesInv, PriceTypeOK, a
  <2>4. UNCHANGED <<cached, late>>
    BY <1>5 DEF Pricing!PriceRead
  <2>5. PriceTypeOK'
    BY <1>2, <2>3, <2>4 DEF PricesInv, PriceTypeOK
  <2>6. \A d \in Askers : AskerOK(d)'
    BY <1>1, <2>2, <2>3 DEF PricesInv, AskerOK
  <2>7. Pricing!CachedPriceIsActive'
    BY <1>1, <1>2, <2>4 DEF PricesInv, Pricing!PricesHold, Pricing!CachedPriceIsActive
  <2> QED BY <1>3, <2>5, <2>6, <2>7 DEF PricesInv, Pricing!PricesHold
<1> QED BY <1>4, <1>5

\* An entry expires, or all are deleted.
LEMMA CacheGoesStep ==
    ASSUME PricesInv,
           \/ \E k \in Keys : Pricing!Expires(k)
           \/ \E e \in Pricers : Pricing!EmptyCache(e)
    PROVE  PricesInv'
<1>1. /\ UNCHANGED <<list, selling, asker>>
      /\ pricer' \in [Pricers -> {Pricing!Idle} \cup [pc : {"empty"}] \cup EditType \cup WriteType]
      /\ cached' \in [Keys -> SUBSET Results]
  BY DEF Pricing!Expires, Pricing!EmptyCache, PricesInv, PriceTypeOK
<1>2. PriceTypeOK'
  BY <1>1 DEF PricesInv, PriceTypeOK
<1>3. \A k : Pricing!ActivePrice(k)' = Pricing!ActivePrice(k)
  BY <1>1, SameLists
<1>4. \A c \in Askers : AskerOK(c)'
  BY <1>1, <1>3 DEF PricesInv, AskerOK
<1>5. Pricing!PeriodsAreSound'
  BY <1>1 DEF PricesInv, Pricing!PricesHold, Pricing!PeriodsAreSound
<1>6. ASSUME NEW e \in Pricers
      PROVE  EditOK(e)' /\ (pricer'[e] = pricer[e] \/ pricer'[e].pc = "idle")
  <2>1. pricer'[e] = pricer[e] \/ pricer'[e].pc = "idle"
    BY DEF Pricing!Expires, Pricing!EmptyCache, Pricing!Idle, PricesInv, PriceTypeOK
  <2> QED BY <1>1, <2>1 DEF PricesInv, EditOK
<1>7. Pricing!CachedPriceIsActive'
  <2>1. ASSUME NEW k \in Keys, Pricing!Expires(k) PROVE Pricing!CachedPriceIsActive'
    <3>1. cached'[k] = {} /\ \A j \in Keys \ {k} : cached'[j] = cached[j]
      BY <2>1 DEF Pricing!Expires, PricesInv, PriceTypeOK
    <3>2. UNCHANGED pricer /\ late' = late \ {k}
      BY <2>1 DEF Pricing!Expires
    <3> QED BY <1>3, <3>1, <3>2 DEF PricesInv, Pricing!PricesHold, Pricing!CachedPriceIsActive
  <2>2. ASSUME NEW e \in Pricers, Pricing!EmptyCache(e) PROVE Pricing!CachedPriceIsActive'
    BY <2>2 DEF Pricing!EmptyCache, Pricing!CachedPriceIsActive
  <2> QED BY <2>1, <2>2
<1> QED BY <1>2, <1>4, <1>5, <1>6, <1>7 DEF PricesInv, Pricing!PricesHold

\* A change has committed: what was read before is overtaken, and the cache is to be emptied.
LEMMA CommittedStep ==
    ASSUME PricesInv, NEW e \in Pricers, Pricing!Committed(e),
           list' \in [Lists -> {Pricing!NoList} \cup ListType], selling' \in Prices,
           Pricing!PeriodsAreSound',
           \A d \in Pricers \ {e} : pricer'[d] = pricer[d] => EditOK(d)'
    PROVE  PricesInv'
<1>1. /\ pricer' = [pricer EXCEPT ![e] = [pc |-> "empty"]] /\ UNCHANGED <<cached, late>>
      /\ asker' = [c \in Askers |-> IF asker[c].pc = "set"
                                      THEN [asker[c] EXCEPT !.overtaken = TRUE] ELSE asker[c]]
  BY DEF Pricing!Committed, Pricing!Overtake
<1>2. /\ pricer' \in [Pricers -> {Pricing!Idle} \cup [pc : {"empty"}] \cup EditType \cup WriteType]
      /\ pricer'[e] = [pc |-> "empty"] /\ \A d \in Pricers \ {e} : pricer'[d] = pricer[d]
  BY <1>1 DEF PricesInv, PriceTypeOK
<1>3. ASSUME NEW c \in Askers
      PROVE  asker'[c] \in {Pricing!Idle} \cup AskerType /\ AskerOK(c)'
  <2>1. CASE asker[c].pc = "set"
    <3>1. asker[c] \in AskerType
      BY <2>1 DEF PricesInv, PriceTypeOK, Pricing!Idle
    <3>2. [asker[c] EXCEPT !.overtaken = TRUE] \in AskerType
          /\ [asker[c] EXCEPT !.overtaken = TRUE].overtaken = TRUE
      BY <3>1 DEF AskerType
    <3> QED BY <1>1, <2>1, <3>2 DEF AskerOK
  <2>2. CASE asker[c].pc # "set"
    BY <1>1, <2>2 DEF PricesInv, PriceTypeOK, AskerOK
  <2> QED BY <2>1, <2>2
<1>4. asker' \in [Askers -> {Pricing!Idle} \cup AskerType]
  BY <1>1, <1>3
<1>5. PriceTypeOK'
  BY <1>1, <1>2, <1>4 DEF PricesInv, PriceTypeOK
<1>6. \A d \in Pricers : EditOK(d)'
  BY <1>2 DEF EditOK
<1>7. Pricing!CachedPriceIsActive'
  BY <1>2 DEF Pricing!CachedPriceIsActive
<1> QED BY <1>3, <1>5, <1>6, <1>7 DEF PricesInv, Pricing!PricesHold

\* A list is written as it was, but for its beginning, which is marked, or an end that fits.
LEMMA ListWriteStep ==
    ASSUME PricesInv, NEW e \in Pricers, NEW l \in Lists, NEW new \in ListType,
           Pricing!Committed(e), UNCHANGED selling,
           list[l] \in ListType, list' = [list EXCEPT ![l] = new],
           ~new.moved => /\ ~list[l].moved /\ new.from = list[l].from
                         /\ Pricing!Follows(new.from, new.to)
    PROVE  PricesInv'
<1>1. /\ list' \in [Lists -> {Pricing!NoList} \cup ListType] /\ list'[l] = new
      /\ \A m \in Lists \ {l} : list'[m] = list[m]
  BY DEF PricesInv, PriceTypeOK
<1>2. Pricing!PeriodsAreSound'
  <2> SUFFICES ASSUME NEW m \in Lists, list'[m] # Pricing!NoList, ~list'[m].moved
               PROVE  Pricing!Follows(list'[m].from, list'[m].to)
    BY DEF Pricing!PeriodsAreSound, Pricing!NoList
  <2>1. CASE m = l
    BY <1>1, <2>1
  <2>2. CASE m # l
    BY <1>1, <2>2 DEF PricesInv, Pricing!PricesHold, Pricing!PeriodsAreSound
  <2> QED BY <2>1, <2>2
<1>3. ASSUME NEW d \in Pricers \ {e}, pricer'[d] = pricer[d] PROVE EditOK(d)'
  <2>1. EditOK(d) /\ pricer[d] \in {Pricing!Idle} \cup [pc : {"empty"}] \cup EditType \cup WriteType
    BY DEF PricesInv, PriceTypeOK
  <2>2. pricer[d].pc \in {"update", "prices", "deactivate"} => pricer[d].list \in Lists
    BY <2>1 DEF EditType, WriteType, Pricing!Idle
  <2> QED BY <1>1, <1>3, <2>1, <2>2 DEF EditOK
<1>4. selling' \in Prices
  BY DEF PricesInv, PriceTypeOK
<1> QED BY <1>1, <1>2, <1>3, <1>4, CommittedStep

\* What an update read is still of the list it writes.
LEMMA WriteSteps ==
    ASSUME PricesInv, NEW e \in Pricers,
           \/ Pricing!UpdateListWrite(e) \/ Pricing!PricesWrite(e) \/ Pricing!DeactivateWrite(e)
    PROVE  PricesInv'
<1> DEFINE u == pricer[e]
           l == u.list
           old == list[l]
<1>1. EditOK(e) /\ u \in {Pricing!Idle} \cup [pc : {"empty"}] \cup EditType \cup WriteType
  BY DEF PricesInv, PriceTypeOK
<1>2. u.pc \in {"update", "prices", "deactivate"} /\ Pricing!Committed(e) /\ UNCHANGED selling
  BY DEF Pricing!UpdateListWrite, Pricing!PricesWrite, Pricing!DeactivateWrite
<1>3. l \in Lists /\ old \in ListType
  BY <1>1, <1>2 DEF EditOK, EditType, WriteType, Pricing!Idle
<1>4. ~old.moved => Pricing!Follows(old.from, old.to)
  BY <1>3 DEF PricesInv, Pricing!PricesHold, Pricing!PeriodsAreSound, ListType, Pricing!NoList
<1>5. CASE Pricing!UpdateListWrite(e)
  <2> DEFINE new == [state |-> old.state, customer |-> old.customer,
                     from |-> IF u.field = "from" THEN u.value ELSE old.from,
                     to |-> IF u.field = "to" THEN u.value ELSE old.to,
                     active |-> IF u.field = "active" THEN u.value ELSE old.active,
                     price |-> old.price, moved |-> old.moved \/ u.field = "from"]
  <2>1. u \in EditType
    BY <1>1, <1>5 DEF Pricing!UpdateListWrite, WriteType, Pricing!Idle
  <2>2. list' = [list EXCEPT ![l] = new]
    BY <1>5 DEF Pricing!UpdateListWrite, Pricing!Edited
  <2>3. new \in ListType
    <3>1. u.field \in {"from", "to", "active"} /\ (u.field = "from" => u.value \in Days)
          /\ (u.field = "to" => u.value \in Days \cup {NoDay})
          /\ (u.field = "active" => u.value \in BOOLEAN)
      BY <2>1 DEF EditType
    <3>2. /\ old.state \in {"live", "deleted"} /\ old.customer \in Buyers \cup {NoCustomer}
          /\ old.from \in Days /\ old.to \in Days \cup {NoDay} /\ old.active \in BOOLEAN
          /\ old.price \in Prices \cup {NoPrice} /\ old.moved \in BOOLEAN
      BY <1>3 DEF ListType
    <3> HIDE DEF u, old
    <3>3. new.from \in Days /\ new.to \in Days \cup {NoDay} /\ new.active \in BOOLEAN
      BY <3>1, <3>2
    <3> QED BY <3>2, <3>3 DEF ListType
  <2>4. u.pc = "update"
    BY <1>5 DEF Pricing!UpdateListWrite
  <2>5. ~old.moved /\ u.field = "to" => Pricing!Follows(old.from, u.value)
    BY <1>1, <2>4 DEF EditOK
  <2>6. ~new.moved => /\ ~old.moved /\ new.from = old.from
                      /\ Pricing!Follows(new.from, new.to)
    BY <1>4, <2>5
  <2> HIDE DEF new, l
  <2>7. list[l] = old
    BY DEF l
  <2> HIDE DEF old
  <2> QED BY <1>2, <1>3, <2>2, <2>3, <2>6, <2>7, ListWriteStep
<1>6. CASE Pricing!PricesWrite(e)
  <2> DEFINE new == [old EXCEPT !.price = u.price]
  <2>1. u.price \in Prices
    BY <1>1, <1>6 DEF Pricing!PricesWrite, WriteType, EditType, Pricing!Idle
  <2>2. list' = [list EXCEPT ![l] = new]
    BY <1>6 DEF Pricing!PricesWrite
  <2>3. new \in ListType /\ new.moved = old.moved /\ new.from = old.from /\ new.to = old.to
    BY <1>3, <2>1 DEF ListType
  <2> HIDE DEF new, l
  <2>4. list[l] = old
    BY DEF l
  <2> QED BY <1>2, <1>3, <1>4, <2>2, <2>3, <2>4, ListWriteStep
<1>7. CASE Pricing!DeactivateWrite(e)
  <2> DEFINE new == [old EXCEPT !.state = "deleted"]
  <2>1. list' = [list EXCEPT ![l] = new]
    BY <1>7 DEF Pricing!DeactivateWrite
  <2>2. new \in ListType /\ new.moved = old.moved /\ new.from = old.from /\ new.to = old.to
    BY <1>3 DEF ListType
  <2> HIDE DEF new, l
  <2>3. list[l] = old
    BY DEF l
  <2> QED BY <1>2, <1>3, <1>4, <2>1, <2>2, <2>3, ListWriteStep
<1> QED BY <1>5, <1>6, <1>7

LEMMA SellingStep ==
    ASSUME PricesInv, NEW e \in Pricers, NEW price \in Prices, Pricing!SellingPrice(e, price)
    PROVE  PricesInv'
<1>1. Pricing!Committed(e) /\ selling' = price /\ UNCHANGED list
  BY DEF Pricing!SellingPrice
<1>2. Pricing!PeriodsAreSound' /\ list' \in [Lists -> {Pricing!NoList} \cup ListType]
  BY <1>1 DEF PricesInv, Pricing!PricesHold, Pricing!PeriodsAreSound, PriceTypeOK
<1>3. \A d \in Pricers \ {e} : pricer'[d] = pricer[d] => EditOK(d)'
  BY <1>1 DEF PricesInv, EditOK
<1> QED BY <1>1, <1>2, <1>3, CommittedStep

\* A list without prices is in force for no product.
LEMMA CreateListStep ==
    ASSUME PricesInv, NEW e \in Pricers, NEW l \in Lists,
           NEW customer \in Buyers \cup {NoCustomer}, NEW from \in Days,
           NEW to \in Days \cup {NoDay}, Pricing!CreateList(e, l, customer, from, to)
    PROVE  PricesInv'
<1> DEFINE new == [state |-> "live", customer |-> customer, from |-> from, to |-> to,
                   active |-> TRUE, price |-> NoPrice, moved |-> FALSE]
<1>1. /\ list' = [list EXCEPT ![l] = new] /\ list[l] = Pricing!NoList
      /\ Pricing!Follows(from, to)
      /\ UNCHANGED <<selling, cached, asker, pricer, late>>
  BY DEF Pricing!CreateList
<1>2. new \in ListType /\ new.price = NoPrice /\ new.from = from /\ new.to = to
  BY DEF ListType
<1> HIDE DEF new
<1>3. /\ list' \in [Lists -> {Pricing!NoList} \cup ListType] /\ list'[l] = new
      /\ \A m \in Lists \ {l} : list'[m] = list[m]
  BY <1>1, <1>2 DEF PricesInv, PriceTypeOK
<1>4. PriceTypeOK'
  BY <1>1, <1>3 DEF PricesInv, PriceTypeOK
<1>5. \A day : l \notin Pricing!InForce(day) /\ l \notin Pricing!InForce(day)'
  BY <1>1, <1>2, <1>3 DEF Pricing!InForce, Pricing!Live, Pricing!NoList
<1>6. \A day : Pricing!InForce(day)' = Pricing!InForce(day)
  <2> SUFFICES ASSUME NEW day, NEW m \in Lists \ {l}
               PROVE  m \in Pricing!InForce(day)' <=> m \in Pricing!InForce(day)
    BY <1>5 DEF Pricing!InForce
  <2> QED BY <1>3 DEF Pricing!InForce, Pricing!Live
<1>7. \A day : \A m \in Pricing!InForce(day) : list'[m] = list[m]
  BY <1>3, <1>5 DEF Pricing!InForce
<1>8. \A k : Pricing!ActivePrice(k)' = Pricing!ActivePrice(k)
  BY <1>1, <1>6, <1>7, SamePrices
<1>9. Pricing!CachedPriceIsActive'
  BY <1>1, <1>8 DEF PricesInv, Pricing!PricesHold, Pricing!CachedPriceIsActive
<1>10. \A c \in Askers : AskerOK(c)'
  BY <1>1, <1>8 DEF PricesInv, AskerOK
<1>11. ASSUME NEW d \in Pricers PROVE EditOK(d)'
  <2>1. EditOK(d) /\ pricer[d] \in {Pricing!Idle} \cup [pc : {"empty"}] \cup EditType \cup WriteType
    BY DEF PricesInv, PriceTypeOK
  <2>2. Pricing!NoList \notin ListType
    BY DEF Pricing!NoList, ListType
  <2>3. pricer[d].pc \in {"update", "prices", "deactivate"}
          => pricer[d].list \in Lists \ {l}
    BY <1>1, <2>1, <2>2 DEF EditOK, EditType, WriteType, Pricing!Idle
  <2> QED BY <1>1, <1>3, <2>1, <2>3 DEF EditOK
<1>12. Pricing!PeriodsAreSound'
  <2> SUFFICES ASSUME NEW m \in Lists, list'[m] # Pricing!NoList, ~list'[m].moved
               PROVE  Pricing!Follows(list'[m].from, list'[m].to)
    BY DEF Pricing!PeriodsAreSound, Pricing!NoList
  <2>1. CASE m = l
    BY <1>1, <1>2, <1>3, <2>1
  <2>2. CASE m # l
    BY <1>3, <2>2 DEF PricesInv, Pricing!PricesHold, Pricing!PeriodsAreSound
  <2> QED BY <2>1, <2>2
<1> QED BY <1>4, <1>9, <1>10, <1>11, <1>12 DEF PricesInv, Pricing!PricesHold

\* An pricer reads the list it will write.
LEMMA EditReadStep ==
    ASSUME PricesInv, NEW e \in Pricers, NEW u \in EditType \cup WriteType,
           pricer[e] = Pricing!Idle, pricer' = [pricer EXCEPT ![e] = u],
           UNCHANGED <<list, selling, cached, asker, late>>,
           Pricing!Live(u.list), u.list \in Lists,
           u.pc = "update" /\ u.field = "to" => Pricing!Follows(list[u.list].from, u.value)
    PROVE  PricesInv'
<1>1. /\ pricer' \in [Pricers -> {Pricing!Idle} \cup [pc : {"empty"}] \cup EditType \cup WriteType]
      /\ pricer'[e] = u /\ \A d \in Pricers \ {e} : pricer'[d] = pricer[d]
  BY DEF PricesInv, PriceTypeOK
<1>2. PriceTypeOK'
  BY <1>1 DEF PricesInv, PriceTypeOK
<1>3. \A k : Pricing!ActivePrice(k)' = Pricing!ActivePrice(k)
  BY SameLists
<1>4. pricer[e].pc # "empty" /\ u.pc # "empty"
  BY DEF Pricing!Idle, EditType, WriteType
<1>5. Pricing!CachedPriceIsActive'
  BY <1>1, <1>3, <1>4 DEF PricesInv, Pricing!PricesHold, Pricing!CachedPriceIsActive
<1>6. \A c \in Askers : AskerOK(c)'
  BY <1>3 DEF PricesInv, AskerOK
<1>7. list[u.list] \in ListType
  BY DEF PricesInv, PriceTypeOK, Pricing!Live, Pricing!NoList
<1>8. \A d \in Pricers : EditOK(d)'
  BY <1>1, <1>7 DEF PricesInv, EditOK
<1>9. Pricing!PeriodsAreSound'
  BY DEF PricesInv, Pricing!PricesHold, Pricing!PeriodsAreSound
<1> QED BY <1>2, <1>5, <1>6, <1>8, <1>9 DEF PricesInv, Pricing!PricesHold

LEMMA EditReadSteps ==
    ASSUME PricesInv, NEW e \in Pricers, NEW l \in Lists,
           \/ \E day \in Days : \/ Pricing!UpdateListRead(e, l, "from", day)
                                \/ Pricing!UpdateListRead(e, l, "to", day)
           \/ Pricing!UpdateListRead(e, l, "to", NoDay)
           \/ \E b \in BOOLEAN : Pricing!UpdateListRead(e, l, "active", b)
           \/ \E price \in Prices : Pricing!PricesRead(e, l, price)
           \/ Pricing!DeactivateRead(e, l)
    PROVE  PricesInv'
<1>1. ASSUME NEW field, NEW value, Pricing!UpdateListRead(e, l, field, value),
             \/ field = "from" /\ value \in Days
             \/ field = "to" /\ value \in Days \cup {NoDay}
             \/ field = "active" /\ value \in BOOLEAN
      PROVE  PricesInv'
  <2> DEFINE u == [pc |-> "update", list |-> l, field |-> field, value |-> value]
  <2>1. u \in EditType /\ u.list = l /\ u.pc = "update" /\ u.field = field /\ u.value = value
    BY <1>1 DEF EditType
  <2>2. /\ pricer[e] = Pricing!Idle /\ pricer' = [pricer EXCEPT ![e] = u]
        /\ UNCHANGED <<list, selling, cached, asker, late>> /\ Pricing!Live(l)
        /\ field = "to" => Pricing!Follows(list[l].from, value)
    BY <1>1 DEF Pricing!UpdateListRead, Pricing!EndFits
  <2> HIDE DEF u
  <2> QED BY <2>1, <2>2, EditReadStep
<1>2. ASSUME NEW price \in Prices, Pricing!PricesRead(e, l, price) PROVE PricesInv'
  <2> DEFINE u == [pc |-> "prices", list |-> l, price |-> price]
  <2>1. u \in WriteType /\ u.list = l /\ u.pc = "prices"
    BY DEF WriteType
  <2>2. /\ pricer[e] = Pricing!Idle /\ pricer' = [pricer EXCEPT ![e] = u]
        /\ UNCHANGED <<list, selling, cached, asker, late>> /\ Pricing!Live(l)
    BY <1>2 DEF Pricing!PricesRead
  <2> HIDE DEF u
  <2> QED BY <2>1, <2>2, EditReadStep
<1>3. CASE Pricing!DeactivateRead(e, l)
  <2> DEFINE u == [pc |-> "deactivate", list |-> l]
  <2>1. u \in WriteType /\ u.list = l /\ u.pc = "deactivate"
    BY DEF WriteType
  <2>2. /\ pricer[e] = Pricing!Idle /\ pricer' = [pricer EXCEPT ![e] = u]
        /\ UNCHANGED <<list, selling, cached, asker, late>> /\ Pricing!Live(l)
    BY <1>3 DEF Pricing!DeactivateRead
  <2> HIDE DEF u
  <2> QED BY <2>1, <2>2, EditReadStep
<1> QED BY <1>1, <1>2, <1>3

LEMMA PriceStep ==
    ASSUME PricesInv, [Pricing!PriceNext]_Pricing!priceVars
    PROVE  PricesInv'
<1>1. CASE UNCHANGED Pricing!priceVars
  <2>1. \A k : Pricing!ActivePrice(k)' = Pricing!ActivePrice(k)
    BY <1>1, SameLists DEF Pricing!priceVars
  <2> QED BY <1>1, <2>1 DEF PricesInv, PriceTypeOK, AskerOK, EditOK, Pricing!priceVars,
          Pricing!PricesHold, Pricing!CachedPriceIsActive, Pricing!PeriodsAreSound
<1>2. ASSUME NEW e \in Pricers, NEW l \in Lists,
             \E customer \in Buyers \cup {NoCustomer}, from \in Days,
                to \in Days \cup {NoDay} : Pricing!CreateList(e, l, customer, from, to)
      PROVE  PricesInv'
  BY <1>2, CreateListStep
<1> QED BY <1>1, <1>2, AskerStep, CacheGoesStep, WriteSteps, SellingStep, EditReadSteps
        DEF Pricing!PriceNext

\* PriceListService: for any lists, customers and callers, a cached price is in force, and
\* a period ends after it begins, outside the named exceptions.
THEOREM CachedPricesAreInForce == OfficeSpec => []PricesHold
<1>1. Pricing!PriceInit => PricesInv
  BY DEF Pricing!PriceInit, PricesInv, PriceTypeOK, AskerOK, EditOK, Pricing!Idle,
     Pricing!NoList, Pricing!PricesHold, Pricing!CachedPriceIsActive, Pricing!PeriodsAreSound
<1>2. PricesInv => PricesHold
  BY DEF PricesInv, PricesHold
<1> QED BY <1>1, <1>2, PriceStep, OfficeStarts, OfficeMoves, PTL DEF OfficeSpec

-----------------------------------------------------------------------------
(* Calculations *)

InputTypes == AskedAmounts \subseteq Nat /\ UnitPrices \subseteq Nat /\ Percents \subseteq Nat

\* The figures of a line, each rounded by itself.
LineOK(l) ==
    /\ l.raw \in Int /\ l.discount \in Int /\ l.discounted \in Int
    /\ l.tax \in Int /\ l.total \in Int
    /\ l.total - (l.discounted + l.tax) \in -1..1
    /\ l.raw - (l.discounted + l.discount) \in -1..1
    /\ l.discount <= l.raw

CalcInv ==
    /\ figures = [level |-> figures.level, lines |-> figures.lines]
    /\ figures.level \in Nat
    /\ Len(figures.lines) \in Nat /\ DOMAIN figures.lines = 1..Len(figures.lines)
    /\ \A k \in DOMAIN figures.lines : LineOK(figures.lines[k])

\* Rounding before or after an addition makes a cent of difference.
LEMMA RoundingAdds ==
    ASSUME NEW a \in Int, NEW b \in Int
    PROVE  /\ Calc!RoundCurrency(a) \in Int
           /\ Calc!RoundCurrency(a + b) - (Calc!RoundCurrency(a) + Calc!RoundCurrency(b)) \in -1..1
           /\ a <= b => Calc!RoundCurrency(a) <= Calc!RoundCurrency(b)
           /\ Calc!RoundCurrency(a * 10000) = a
<1>1. Calc!RoundCurrency(a * 10000) = a
  BY DEF Calc!RoundCurrency, Calc!Unit
<1>2. Calc!RoundCurrency(a) \in Int /\ (a <= b => Calc!RoundCurrency(a) <= Calc!RoundCurrency(b))
  BY DEF Calc!RoundCurrency, Calc!Unit
<1>3. Calc!RoundCurrency(a + b) - (Calc!RoundCurrency(a) + Calc!RoundCurrency(b)) \in -1..1
  BY DEF Calc!RoundCurrency, Calc!Unit
<1> QED BY <1>1, <1>2, <1>3

LEMMA LineIsNear ==
    ASSUME NEW l, LineOK(l)
    PROVE  /\ l.total \in Int /\ l.raw \in Int /\ l.discount \in Int /\ l.tax \in Int
           /\ l.total - (l.discounted + l.tax) <= 1 /\ (l.discounted + l.tax) - l.total <= 1
           /\ l.raw - (l.discounted + l.discount) <= 1
           /\ (l.discounted + l.discount) - l.raw <= 1
           /\ l.discount <= l.raw
           /\ l.total + l.discount <= l.raw + l.tax + 2
           /\ l.raw + l.tax <= l.total + l.discount + 2
<1>1. PICK raw, discount, discounted, tax, total \in Int :
        /\ l.raw = raw /\ l.discount = discount /\ l.discounted = discounted
        /\ l.tax = tax /\ l.total = total
        /\ total - (discounted + tax) \in -1..1
        /\ raw - (discounted + discount) \in -1..1
        /\ discount <= raw
  BY DEF LineOK
<1> QED BY <1>1

\* calculateLineItem.
LEMMA LineItemIsOK ==
    ASSUME NEW raw \in Nat, NEW d \in Nat, NEW off \in Nat, NEW t \in Nat
    PROVE  LineOK(Calc!LineItem(raw, d, off, t))
<1> DEFINE e == raw * 10000
           disc == Calc!Discount(raw, d, off)
           tax == ((e - disc) * t) \div 100
<1>1. disc \in Int /\ disc <= e
  BY DEF Calc!Discount, Calc!Smaller, Calc!Unit
<1>2. tax \in Int /\ e \in Int /\ e - disc \in Int
  <2>1. (e - disc) * t \in Int
    BY <1>1
  <2> QED BY <1>1, <2>1
<1>3. Calc!LineItem(raw, d, off, t) =
        [raw |-> Calc!RoundCurrency(e), discount |-> Calc!RoundCurrency(disc),
         discounted |-> Calc!RoundCurrency(e - disc), tax |-> Calc!RoundCurrency(tax),
         total |-> Calc!RoundCurrency(e - disc + tax)]
  BY DEF Calc!LineItem, Calc!Rounded, Calc!Unit
<1> HIDE DEF e, disc, tax
<1>4. Calc!RoundCurrency((e - disc) + tax)
        - (Calc!RoundCurrency(e - disc) + Calc!RoundCurrency(tax)) \in -1..1
  BY <1>1, <1>2, RoundingAdds
<1>5. Calc!RoundCurrency(e) - (Calc!RoundCurrency(e - disc) + Calc!RoundCurrency(disc)) \in -1..1
  <2>1. (e - disc) + disc = e
    BY <1>1, <1>2
  <2>2. Calc!RoundCurrency((e - disc) + disc)
          - (Calc!RoundCurrency(e - disc) + Calc!RoundCurrency(disc)) \in -1..1
    BY <1>1, <1>2, RoundingAdds
  <2> QED BY <2>1, <2>2
<1>6. Calc!RoundCurrency(disc) <= Calc!RoundCurrency(e)
  BY <1>1, <1>2, RoundingAdds
<1>7. /\ Calc!RoundCurrency(e) \in Int /\ Calc!RoundCurrency(disc) \in Int
      /\ Calc!RoundCurrency(e - disc) \in Int /\ Calc!RoundCurrency(tax) \in Int
      /\ Calc!RoundCurrency(e - disc + tax) \in Int
  <2>1. e - disc + tax \in Int
    BY <1>2
  <2> QED BY <1>1, <1>2, <2>1, RoundingAdds
<1> QED BY <1>3, <1>4, <1>5, <1>6, <1>7 DEF LineOK

LEMMA SumOfCalc ==
    ASSUME NEW f
    PROVE  Calc!SumFunction(f) = SumFunctionOnSet(f, DOMAIN f)
BY DEF Calc!SumFunction, SumFunction, Calc!SumFunctionOnSet, SumFunctionOnSet,
       Calc!FoldFunctionOnSet, FoldFunctionOnSet, Calc!MapThenFoldSet, MapThenFoldSet

\* The level of an amount in either service.
LEMMA LevelsAreOne ==
    ASSUME CalcInv
    PROVE  Calc!LevelsAgree
<1>1. PICK n \in Nat : n = figures.level
  BY DEF CalcInv
<1>2. /\ Calc!ApprovalChain(n).min <= n /\ n <= Calc!ApprovalChain(n).max
      /\ Calc!OrderLevel(n) = Calc!ApprovalChain(n).level \/ n = 50
  BY DEF Calc!ApprovalChain, Calc!OrderLevel
<1> QED BY <1>1, <1>2 DEF Calc!LevelsAgree

\* calculateDocumentTotals: what a line is off by, its document is at most by that a line.
LEMMA TotalsAreNear ==
    ASSUME NEW lines, NEW n \in Nat, DOMAIN lines = 1..n, \A k \in 1..n : LineOK(lines[k])
    PROVE  LET total == SumFunctionOnSet([k \in DOMAIN lines |-> lines[k].total], DOMAIN lines)
               rest == SumFunctionOnSet([k \in DOMAIN lines |-> lines[k].raw], DOMAIN lines)
                       - SumFunctionOnSet([k \in DOMAIN lines |-> lines[k].discount], DOMAIN lines)
                       + SumFunctionOnSet([k \in DOMAIN lines |-> lines[k].tax], DOMAIN lines)
           IN  total - rest <= 2 * n /\ rest - total <= 2 * n
<1> DEFINE D == DOMAIN lines
           total == [k \in D |-> lines[k].total]
           raw == [k \in D |-> lines[k].raw]
           discount == [k \in D |-> lines[k].discount]
           tax == [k \in D |-> lines[k].tax]
           one == [k \in D |-> 1]
           \* total + discount + ones twice, raw + tax + ones twice
           left == [k \in D |-> total[k] + discount[k]]
           right == [k \in D |-> raw[k] + tax[k]]
           two == [k \in D |-> 2 * one[k]]
           leftMore == [k \in D |-> left[k] + two[k]]
           rightMore == [k \in D |-> right[k] + two[k]]
<1>1. \A k \in D : /\ total[k] \in Int /\ raw[k] \in Int /\ discount[k] \in Int /\ tax[k] \in Int
                   /\ one[k] = 1 /\ two[k] = 2 * one[k] /\ two[k] \in Int
                   /\ left[k] = total[k] + discount[k] /\ right[k] = raw[k] + tax[k]
                   /\ left[k] \in Int /\ right[k] \in Int
                   /\ leftMore[k] = left[k] + two[k] /\ rightMore[k] = right[k] + two[k]
                   /\ leftMore[k] \in Int /\ rightMore[k] \in Int
                   /\ left[k] <= rightMore[k] /\ right[k] <= leftMore[k]
  <2> SUFFICES ASSUME NEW k \in D
               PROVE  /\ lines[k].total \in Int /\ lines[k].raw \in Int
                      /\ lines[k].discount \in Int /\ lines[k].tax \in Int
                      /\ lines[k].total + lines[k].discount <= lines[k].raw + lines[k].tax + 2
                      /\ lines[k].raw + lines[k].tax <= lines[k].total + lines[k].discount + 2
    OBVIOUS
  <2>1. LineOK(lines[k])
    OBVIOUS
  <2> QED BY <2>1, LineIsNear
<1>2. IsFiniteSet(D) /\ Cardinality(D) = n /\ \A k \in D : one[k] = IF k \in D THEN 1 ELSE 0
  BY <1>1, FS_Interval
<1> HIDE DEF total, raw, discount, tax, one, left, right, two, leftMore, rightMore, D
<1>3. SumFunctionOnSet(one, D) = n
  BY <1>2, SumOnes
<1>4. SumFunctionOnSet(two, D) = 2 * n
  <2>1. \A k \in D : one[k] \in Int /\ two[k] = 2 * one[k]
    BY <1>1
  <2>2. 2 \in Int
    OBVIOUS
  <2> QED BY <1>2, <1>3, <2>1, <2>2, SumTimes
<1>5. SumFunctionOnSet(left, D) = SumFunctionOnSet(total, D) + SumFunctionOnSet(discount, D)
  BY <1>1, <1>2, SumPlus
<1>6. SumFunctionOnSet(right, D) = SumFunctionOnSet(raw, D) + SumFunctionOnSet(tax, D)
  BY <1>1, <1>2, SumPlus
<1>7. SumFunctionOnSet(leftMore, D) = SumFunctionOnSet(left, D) + SumFunctionOnSet(two, D)
  BY <1>1, <1>2, SumPlus
<1>8. SumFunctionOnSet(rightMore, D) = SumFunctionOnSet(right, D) + SumFunctionOnSet(two, D)
  BY <1>1, <1>2, SumPlus
<1>9. SumFunctionOnSet(left, D) <= SumFunctionOnSet(rightMore, D)
  BY <1>1, <1>2, SumMonotone
<1>10. SumFunctionOnSet(right, D) <= SumFunctionOnSet(leftMore, D)
  BY <1>1, <1>2, SumMonotone
<1>11. /\ SumFunctionOnSet(total, D) \in Int /\ SumFunctionOnSet(discount, D) \in Int
       /\ SumFunctionOnSet(raw, D) \in Int /\ SumFunctionOnSet(tax, D) \in Int
  BY <1>1, <1>2, SumType
<1>12. /\ SumFunctionOnSet(total, D) - (SumFunctionOnSet(raw, D) - SumFunctionOnSet(discount, D)
                                        + SumFunctionOnSet(tax, D)) <= 2 * n
       /\ (SumFunctionOnSet(raw, D) - SumFunctionOnSet(discount, D)
                                        + SumFunctionOnSet(tax, D)) - SumFunctionOnSet(total, D) <= 2 * n
  BY <1>4, <1>5, <1>6, <1>7, <1>8, <1>9, <1>10, <1>11
<1> QED BY <1>12 DEF total, raw, discount, tax, D

LEMMA TotalsAreOne ==
    ASSUME CalcInv
    PROVE  Calc!TotalsAddUp
<1>1. PICK lines : lines = figures.lines
  OBVIOUS
<1>2. PICK n \in Nat : n = Len(lines) /\ DOMAIN lines = 1..n /\ \A k \in 1..n : LineOK(lines[k])
  BY <1>1 DEF CalcInv
<1>3. \A k \in DOMAIN lines :
         /\ lines[k].total - (lines[k].discounted + lines[k].tax) <= 1
         /\ (lines[k].discounted + lines[k].tax) - lines[k].total <= 1
         /\ lines[k].raw - (lines[k].discounted + lines[k].discount) <= 1
         /\ (lines[k].discounted + lines[k].discount) - lines[k].raw <= 1
         /\ lines[k].discount <= lines[k].raw
  BY <1>2, LineIsNear
<1> DEFINE total == SumFunctionOnSet([k \in DOMAIN lines |-> lines[k].total], DOMAIN lines)
           raw == SumFunctionOnSet([k \in DOMAIN lines |-> lines[k].raw], DOMAIN lines)
           discount == SumFunctionOnSet([k \in DOMAIN lines |-> lines[k].discount], DOMAIN lines)
           tax == SumFunctionOnSet([k \in DOMAIN lines |-> lines[k].tax], DOMAIN lines)
<1>4. total - (raw - discount + tax) <= 2 * n /\ (raw - discount + tax) - total <= 2 * n
  BY <1>2, TotalsAreNear
<1>5. /\ Calc!SumFunction([k \in DOMAIN lines |-> lines[k].total]) = total
      /\ Calc!SumFunction([k \in DOMAIN lines |-> lines[k].raw]) = raw
      /\ Calc!SumFunction([k \in DOMAIN lines |-> lines[k].discount]) = discount
      /\ Calc!SumFunction([k \in DOMAIN lines |-> lines[k].tax]) = tax
  BY SumOfCalc
<1>6. total \in Int
  <2>1. \A k \in DOMAIN lines : [j \in DOMAIN lines |-> lines[j].total][k] \in Int
    BY <1>2 DEF LineOK
  <2>2. IsFiniteSet(DOMAIN lines)
    BY <1>2, FS_Interval
  <2> QED BY <2>1, <2>2, SumType
<1> HIDE DEF total, raw, discount, tax
<1>7. /\ Calc!DocumentTotals(lines, 0).total = total
      /\ Calc!DocumentTotals(lines, 0).discount = discount
      /\ Calc!DocumentTotals(lines, 0).tax = tax
  BY <1>5, <1>6 DEF Calc!DocumentTotals
<1> QED BY <1>1, <1>2, <1>3, <1>4, <1>5, <1>7 DEF Calc!TotalsAddUp

LEMMA CalcStep ==
    ASSUME InputTypes, CalcInv, [Calc!CalcNext]_Calc!calcVars
    PROVE  CalcInv'
<1>1. CASE UNCHANGED figures
  BY <1>1 DEF CalcInv, LineOK
<1>2. ASSUME NEW n \in AskedAmounts, Calc!AskLevel(n) PROVE CalcInv'
  <2>1. figures'.level = n /\ figures'.lines = figures.lines
        /\ figures' = [level |-> figures'.level, lines |-> figures'.lines]
    BY <1>2 DEF Calc!AskLevel, CalcInv
  <2> QED BY <2>1 DEF CalcInv, InputTypes, LineOK
<1>3. ASSUME NEW r \in UnitPrices, NEW off \in UnitPrices, NEW d \in Percents, NEW t \in Percents,
             Calc!AskLine(r, d, off, t)
      PROVE  CalcInv'
  <2> DEFINE item == Calc!LineItem(r, d, off, t)
             old == figures.lines
             new == Append(old, item)
  <2>1. figures'.level = figures.level /\ figures'.lines = new
        /\ figures' = [level |-> figures'.level, lines |-> figures'.lines]
    BY <1>3 DEF Calc!AskLine, CalcInv
  <2>2. LineOK(item)
    BY LineItemIsOK DEF InputTypes
  <2> HIDE DEF item
  <2>3. /\ Len(new) = Len(old) + 1 /\ DOMAIN new = 1..Len(new)
        /\ \A k \in 1..Len(old) : new[k] = old[k]
        /\ new[Len(old) + 1] = item
    BY DEF CalcInv
  <2> HIDE DEF new
  <2>4. \A k \in DOMAIN new : LineOK(new[k])
    BY <2>2, <2>3 DEF CalcInv
  <2> QED BY <2>1, <2>3, <2>4 DEF CalcInv, LineOK
<1> QED BY <1>1, <1>2, <1>3 DEF Calc!CalcNext, Calc!calcVars

\* TaxCalculator and the two approval services: for any amounts, prices and percentages,
\* the services ask for one level, but at the upper threshold, and documents of up to two
\* lines add up within two cents a line.
THEOREM CalculationsAgree ==
    ASSUME InputTypes
    PROVE  OfficeSpec => []AmountsAgree
<1>1. Calc!CalcInit => CalcInv
  BY DEF Calc!CalcInit, CalcInv
<1>2. CalcInv => AmountsAgree
  BY LevelsAreOne, TotalsAreOne DEF AmountsAgree, Calc!AmountsAgree
<1>3. CalcInv /\ [Calc!CalcNext]_Calc!calcVars => CalcInv'
  BY CalcStep
<1> QED BY <1>1, <1>2, <1>3, OfficeStarts, OfficeMoves, PTL DEF OfficeSpec

-----------------------------------------------------------------------------
(* The rows of the ledger *)

RowTypes == Deltas \subseteq Int /\ Runnings \subseteq Int /\ RowDates \subseteq Nat
LedgerRow == [delta : Int, running : Int, date : Nat]

\* The date of the summary is the greatest of the rows.
DatesInv ==
    /\ \A i \in DOMAIN ledgerRows : ledgerRows[i].date <= summary.date
    /\ IF ledgerRows = << >> THEN summary.date = 0
       ELSE \E i \in DOMAIN ledgerRows : ledgerRows[i].date = summary.date
RowsInv ==
    /\ ledgerRows \in Seq(LedgerRow) /\ summary \in Table!Ledgers
    /\ DatesInv
    /\ Table!SummaryAnswersQueries

LEMMA SumOfTable ==
    ASSUME NEW f
    PROVE  Table!SumFunction(f) = SumFunction(f)
BY DEF Table!SumFunction, SumFunction, Table!SumFunctionOnSet, SumFunctionOnSet,
       Table!FoldFunctionOnSet, FoldFunctionOnSet, Table!MapThenFoldSet, MapThenFoldSet

\* The summary after a row is entered is that of the rows with it.
LEMMA InsertStep ==
    ASSUME RowTypes, RowsInv, NEW entered \in Table!Row, Table!Insert(entered)
    PROVE  RowsInv'
<1> DEFINE n == Len(ledgerRows) + 1
           deltas(rs) == [i \in DOMAIN rs |-> rs[i].delta]
<1>1. entered \in LedgerRow
  BY DEF Table!Row, RowTypes, LedgerRow
<1>2. /\ ledgerRows \in Seq(LedgerRow) /\ ledgerRows' = Append(ledgerRows, entered)
      /\ summary \in [sum : Int, running : Int, date : Nat, datedRunning : Int]
      /\ summary' = [sum          |-> summary.sum + entered.delta,
                     running      |-> entered.running,
                     date         |-> IF entered.date >= summary.date THEN entered.date ELSE summary.date,
                     datedRunning |-> IF entered.date >= summary.date THEN entered.running
                                      ELSE summary.datedRunning]
  BY DEF Table!Insert, Table!AppendRow, RowsInv, Table!Ledgers
<1>3. /\ ledgerRows' \in Seq(LedgerRow) /\ DOMAIN ledgerRows = 1..(n - 1) /\ DOMAIN ledgerRows' = 1..n
      /\ n \in Nat \ {0} /\ Len(ledgerRows) = n - 1 /\ Len(ledgerRows') = n
      /\ ledgerRows'[n] = entered /\ \A i \in 1..(n - 1) : ledgerRows'[i] = ledgerRows[i] /\ ledgerRows[i] \in LedgerRow
  BY <1>1, <1>2
<1>4. /\ entered.date \in Nat /\ entered.delta \in Int /\ entered.running \in Int
      /\ \A i \in 1..(n - 1) : ledgerRows[i].date \in Nat /\ ledgerRows[i].delta \in Int
  <2> HIDE DEF n
  <2> QED BY <1>1, <1>3 DEF LedgerRow
<1>5. summary' \in Table!Ledgers
  BY <1>2, <1>4 DEF Table!Ledgers
<1> HIDE DEF n
<1>10. /\ \A i \in 1..(n - 1) : ledgerRows[i].date <= summary.date
       /\ summary.date \in Nat /\ summary.sum \in Int /\ summary.datedRunning \in Int
       /\ IF ledgerRows = << >> THEN summary.date = 0
          ELSE \E i \in 1..(n - 1) : ledgerRows[i].date = summary.date
  BY <1>2, <1>3 DEF RowsInv, DatesInv
<1>11. /\ summary'.sum = summary.sum + entered.delta /\ summary'.running = entered.running
       /\ summary'.date = (IF entered.date >= summary.date THEN entered.date ELSE summary.date)
       /\ summary'.datedRunning = (IF entered.date >= summary.date THEN entered.running
                                   ELSE summary.datedRunning)
  BY <1>2
<1>6. DatesInv'
  <2>1. \A i \in 1..n : ledgerRows'[i].date <= summary'.date
    <3> SUFFICES ASSUME NEW i \in 1..n PROVE ledgerRows'[i].date <= summary'.date
      OBVIOUS
    <3>1. CASE i = n
      BY <1>3, <1>4, <1>10, <1>11, <3>1
    <3>2. CASE i \in 1..(n - 1)
      BY <1>3, <1>4, <1>10, <1>11, <3>2
    <3> QED BY <1>3, <3>1, <3>2
  <2>2. \E i \in 1..n : ledgerRows'[i].date = summary'.date
    <3>1. CASE entered.date >= summary.date
      BY <1>2, <1>3, <3>1
    <3>2. CASE ~(entered.date >= summary.date)
      <4>1. ledgerRows # << >>
        BY <1>2, <1>4, <3>2 DEF RowsInv, DatesInv
      <4>2. PICK i \in DOMAIN ledgerRows : ledgerRows[i].date = summary.date
        BY <4>1 DEF RowsInv, DatesInv
      <4> QED BY <1>2, <1>3, <3>2, <4>2
    <3> QED BY <3>1, <3>2
  <2>3. ledgerRows' # << >>
    BY <1>3
  <2> QED BY <1>3, <2>1, <2>2, <2>3 DEF DatesInv
<1>7. summary'.sum = Table!SumOfRows'
  <2>1. deltas(ledgerRows) \in Seq(Int) /\ deltas(ledgerRows') = Append(deltas(ledgerRows), entered.delta)
    BY <1>3, <1>4
  <2>2. SumFunction(deltas(ledgerRows')) = SumFunction(deltas(ledgerRows)) + entered.delta
    BY <1>4, <2>1, SumAppend
  <2>3. SumFunction(deltas(ledgerRows)) = summary.sum
    BY SumOfTable DEF RowsInv, Table!SummaryAnswersQueries, Table!SumOfRows
  <2>4. Table!SumOfRows' = SumFunction(deltas(ledgerRows'))
    BY SumOfTable DEF Table!SumOfRows
  <2> QED BY <1>2, <2>2, <2>3, <2>4
<1>8. summary'.running = Table!Last(ledgerRows)'.running
  <2>1. Table!Last(ledgerRows)' = ledgerRows'[n]
    BY <1>3 DEF Table!Last
  <2> QED BY <1>3, <1>11, <2>1
<1>9. ASSUME NEW i \in DOMAIN ledgerRows', Table!LastByDate(i)'
      PROVE  summary'.datedRunning = ledgerRows'[i].running /\ summary'.date = ledgerRows'[i].date
  <2>1. \A j \in 1..n : \/ ledgerRows'[j].date < ledgerRows'[i].date
                        \/ ledgerRows'[j].date = ledgerRows'[i].date /\ j <= i
    BY <1>3, <1>9 DEF Table!LastByDate
  <2>2. CASE entered.date >= summary.date
    <3>1. i = n
      <4> SUFFICES ASSUME i # n PROVE FALSE
        OBVIOUS
      <4>1. i \in 1..(n - 1) /\ n \in 1..n
        BY <1>3
      <4>2. ledgerRows'[i].date <= summary.date /\ ledgerRows'[i].date \in Nat /\ ledgerRows'[n].date = entered.date
        BY <1>3, <1>4, <1>10, <4>1
      <4>3. ledgerRows'[n].date < ledgerRows'[i].date \/ n <= i
        BY <2>1, <4>1
      <4> QED BY <1>3, <1>4, <1>10, <2>2, <4>1, <4>2, <4>3
    <3> QED BY <1>3, <1>11, <2>2, <3>1
  <2>3. CASE ~(entered.date >= summary.date)
    <3>1. ledgerRows # << >>
      BY <1>2, <1>4, <2>3 DEF RowsInv, DatesInv
    <3>2. PICK k \in DOMAIN ledgerRows : ledgerRows[k].date = summary.date
      BY <3>1 DEF RowsInv, DatesInv
    <3>3. i \in 1..(n - 1)
      <4> SUFFICES ASSUME i = n PROVE FALSE
        BY <1>3
      <4>1. k \in 1..n /\ ledgerRows'[k].date = summary.date
        BY <1>3, <3>2
      <4>2. ledgerRows'[i].date = entered.date
        BY <1>3
      <4> QED BY <1>4, <1>10, <2>1, <2>3, <4>1, <4>2
    <3>4. Table!LastByDate(i)
      BY <1>3, <2>1, <3>3 DEF Table!LastByDate
    <3>5. summary.datedRunning = ledgerRows[i].running /\ summary.date = ledgerRows[i].date
      BY <1>3, <3>3, <3>4 DEF RowsInv, Table!SummaryAnswersQueries
    <3> QED BY <1>3, <1>11, <2>3, <3>3, <3>5
  <2> QED BY <2>2, <2>3
<1>12. Table!SummaryAnswersQueries'
  BY <1>7, <1>8, <1>9 DEF Table!SummaryAnswersQueries
<1> QED BY <1>3, <1>5, <1>6, <1>12 DEF RowsInv

\* inventory_ledger: for any rows, in any order of their dates, what the services ask of
\* it is what the summary of the model keeps.
THEOREM SummariesStandForRows ==
    ASSUME RowTypes
    PROVE  OfficeSpec => []SummaryAnswersQueries
<1>1. Table!RowsInit => RowsInv
  <2> SUFFICES ASSUME Table!RowsInit PROVE RowsInv
    OBVIOUS
  <2>1. ledgerRows = << >> /\ summary = [sum |-> 0, running |-> 0, date |-> 0, datedRunning |-> 0]
    BY DEF Table!RowsInit, Table!EmptyLedger, Table!NoDate
  <2>2. Table!SumOfRows = 0
    <3>1. [i \in DOMAIN ledgerRows |-> ledgerRows[i].delta] = << >> /\ DOMAIN << >> = {}
      BY <2>1
    <3> QED BY <3>1, SumOfTable, SumEmpty DEF Table!SumOfRows, SumFunction
  <2> QED BY <2>1, <2>2 DEF RowsInv, DatesInv, Table!Ledgers, Table!SummaryAnswersQueries
<1>2. RowsInv /\ [Table!RowsNext]_tableVars => RowsInv'
  <2>1. ASSUME RowsInv, UNCHANGED <<ledgerRows, summary>> PROVE RowsInv'
    BY <2>1 DEF RowsInv, DatesInv, Table!SummaryAnswersQueries, Table!SumOfRows, Table!LastByDate
  <2> QED BY <2>1, InsertStep DEF Table!RowsNext, tableVars
<1>3. RowsInv => SummaryAnswersQueries
  BY DEF RowsInv, SummaryAnswersQueries
<1> QED BY <1>1, <1>2, <1>3, OfficeStarts, OfficeMoves, PTL DEF OfficeSpec
=============================================================================
