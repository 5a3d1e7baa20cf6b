------------------------------- MODULE MCBooks -------------------------------
(***************************************************************************)
(* The accounting module for TLC: Books and Treasury.  They share no state *)
(* here, a behaviour is one of:                                            *)
(*   entries   one period and up to three entries                          *)
(*   periods   a second period, earlier or with dates around those of the  *)
(*             first, and one entry                                        *)
(*   cash      cash in and out, and manual entries                         *)
(*   assets    depreciation runs                                           *)
(***************************************************************************)
EXTENDS Books, Treasury

CONSTANTS c1, c2

Span(m, f, l) == [month |-> m, first |-> f, last |-> l]
MCSpans == {Span(1, 1, 2), Span(2, 3, 6), Span(3, 4, 5)}
MCFirstPeriods == <<[span |-> Span(3, 4, 5), status |-> "OPEN", closing |-> "none"]>>

OnKinds(revenue, expense, other) ==
    [k \in Kinds |-> CASE k = "REVENUE" -> revenue [] k = "EXPENSE" -> expense [] OTHER -> other]

\* A sale, a cost of the same amount a cent off, and lines that are two cents off.
MCLines == {OnKinds(-3, 0, 3), OnKinds(0, 3, -2), OnKinds(0, 3, -1)}

\* An asset of 5 that is used for 2 months: the last month is longer by rounding.
MCPrice == [a \in Assets |-> 5]
MCSalvage == [a \in Assets |-> 0]
MCLife == [a \in Assets |-> 2]

VARIABLE scope

MCInit ==
    /\ Init /\ TreInit
    /\ scope \in {"entries", "periods", "cash", "assets"}

BooksWithin ==
    \/ scope = "entries" /\ Len(periods') <= 1
    \/ scope = "periods" /\ Len(entries') <= 1

MCNext ==
    /\ \/ Next /\ BooksWithin /\ UNCHANGED treVars
       \/ scope = "cash" /\ CashNext /\ UNCHANGED vars
       \/ scope = "assets" /\ AssetNext /\ UNCHANGED vars
    /\ UNCHANGED scope

MCSpec == MCInit /\ [][MCNext]_<<vars, treVars, scope>>
Sym == Permutations(Clerks)
=============================================================================
