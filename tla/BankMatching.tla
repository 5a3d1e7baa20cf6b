---------------------------- MODULE BankMatching -----------------------------
(***************************************************************************)
(* Bank statements against payments.  The accounting service proposes a    *)
(* payment for every unmatched statement (autoMatch writes nothing, and    *)
(* may propose one payment twice) and confirms pairs in a transaction; the *)
(* invoicing service matches by itself, or one pair by hand.  None locks   *)
(* what it read.  Payments are reversed meanwhile (see Billing).           *)
(***************************************************************************)
EXTENDS Naturals, FiniteSets

CONSTANTS Statements, Payments,
          Amount, Day,     \* of a statement or a payment
          Reference,       \* the payment whose number contains a statement's reference
          NoPayment,       \* no line of the proposal
          Clerks

VARIABLES matched,   \* bank_statements.matched_payment_id: at most one payment
          status,    \* payments.status
          clerk,     \* what a call is doing
          met        \* history: "stale" a pair was confirmed for a statement that had
                     \* a payment, "beside" a call read before another one wrote
bankVars == <<matched, status, clerk, met>>

Free == [at |-> "rest"]
BankInit ==
    /\ matched = [s \in Statements |-> {}]
    /\ status = [p \in Payments |-> "POSTED"]
    /\ clerk = [c \in Clerks |-> Free]
    /\ met = {}

Unmatched == {s \in Statements : matched[s] = {}}
Posted == {p \in Payments : status[p] = "POSTED"}
Holds(c, h) == clerk' = [clerk EXCEPT ![c] = h]
Rows == UNCHANGED <<matched, status, met>>

\* The score of the accounting service, on amounts without their sign.
Score(s, p) ==
    (IF Amount[s] = Amount[p] THEN 50 ELSE 0) + (IF Reference[s] = p THEN 50 ELSE 0)

Best(s, ps) == {p \in ps : Score(s, p) >= 50 /\ \A q \in ps : Score(s, q) <= Score(s, p)}

\* autoMatch of the accounting service: the first of the best ones, in the order of
\* the query, which is not specified.
Propose(c) ==
    /\ clerk[c] = Free
    /\ \E pairs \in [Unmatched -> Posted \cup {NoPayment}] :
          /\ \A s \in Unmatched : IF Best(s, Posted) = {} THEN pairs[s] = NoPayment
                                  ELSE pairs[s] \in Best(s, Posted)
          /\ Holds(c, [at |-> "proposed", pairs |-> {<<s, pairs[s]>> : s \in {s \in Unmatched : pairs[s] # NoPayment}}])
    /\ Rows

\* The clerk drops lines of the proposal, or all of it.
Select(c, pairs) ==
    /\ clerk[c].at = "proposed"
    /\ pairs \subseteq clerk[c].pairs
    /\ Holds(c, IF pairs = {} THEN Free ELSE [at |-> "confirm", pairs |-> pairs])
    /\ Rows

\* Mutant: the status of the payments is not looked at.
ConfirmableAlways(pairs) == TRUE

\* Every payment is POSTED when its turn comes: none is there twice.
Confirmable(pairs) ==
    /\ \A pair \in pairs : pair[2] \in Posted
    /\ \A a, b \in pairs : a[2] = b[2] => a = b

ConfirmRead(c) ==
    /\ clerk[c].at = "confirm"
    /\ Holds(c, IF Confirmable(clerk[c].pairs) THEN [clerk[c] EXCEPT !.at = "write"] ELSE Free)
    /\ Rows

\* Whoever read and has not written when this call writes.
Beside(c) ==
    {"beside" : d \in {d \in Clerks \ {c} : clerk[d].at = "write"}}

Write(c, pairs) ==
    /\ matched' = [s \in Statements |->
                     IF \E pair \in pairs : pair[1] = s
                     THEN {(CHOOSE pair \in pairs : pair[1] = s)[2]} ELSE matched[s]]
    /\ status' = [p \in Payments |->
                     IF \E pair \in pairs : pair[2] = p THEN "RECONCILED" ELSE status[p]]
    /\ met' = met \cup Beside(c)
              \cup {"stale" : pair \in {pair \in pairs : matched[pair[1]] # {}}}
    /\ Holds(c, Free)

\* The transaction of confirmReconciliation, of the invoicing autoMatch, of manualMatch.
Commit(c) == clerk[c].at = "write" /\ Write(c, clerk[c].pairs)

Fits(s, p) ==
    Amount[s] = Amount[p] /\ Day[s] <= Day[p] + 1 /\ Day[p] <= Day[s] + 1

\* autoMatch of the invoicing service: statement by statement, the first payment of the
\* amount within a day that no other statement took.  The order of statements and of
\* payments is not specified: what comes out is any matching to which no pair that fits
\* can be added.
AutoPairs ==
    {pairs \in SUBSET (Unmatched \X Posted) :
        /\ \A a \in pairs : Fits(a[1], a[2])
        /\ \A a, b \in pairs : a[1] = b[1] \/ a[2] = b[2] => a = b
        /\ \A s \in Unmatched, p \in Posted : Fits(s, p) =>
              \E a \in pairs : a[1] = s \/ a[2] = p}

AutoRead(c) ==
    /\ clerk[c] = Free
    /\ \E pairs \in AutoPairs :
          Holds(c, IF pairs = {} THEN Free ELSE [at |-> "write", pairs |-> pairs])
    /\ Rows

\* manualMatch.
ManualRead(c, s, p) ==
    /\ clerk[c] = Free
    /\ matched[s] = {} /\ status[p] = "POSTED"
    /\ Holds(c, [at |-> "write", pairs |-> {<<s, p>>}])
    /\ Rows

\* PaymentService.reverse, of a payment in any status.
ReversePayment(p) ==
    /\ status[p] # "REVERSED"
    /\ status' = [status EXCEPT ![p] = "REVERSED"]
    /\ met' = met \cup {"beside" : d \in {d \in Clerks : clerk[d].at = "write"}}
    /\ UNCHANGED <<matched, clerk>>

BankNext ==
    \/ \E c \in Clerks :
          \/ Propose(c) \/ ConfirmRead(c) \/ Commit(c) \/ AutoRead(c)
          \/ \E pairs \in SUBSET (Statements \X Payments) : Select(c, pairs)
          \/ \E s \in Statements, p \in Payments : ManualRead(c, s, p)
    \/ \E p \in Payments : ReversePayment(p)

-----------------------------------------------------------------------------
\* A payment answers one statement.  Excepted are calls that read before another one
\* wrote: nothing checks again.
OneStatementPerPayment ==
    "beside" \notin met =>
        \A s, t \in Statements : matched[s] \cap matched[t] # {} => s = t

\* A payment is RECONCILED exactly when a statement has it.  A confirmation of a pair
\* whose statement has a payment by then is excepted: it takes the statement from the
\* payment, which stays RECONCILED.
ReconciledIsMatched ==
    met = {} =>
        \A p \in Payments :
            status[p] # "REVERSED" =>
              (status[p] = "RECONCILED" <=> \E s \in Statements : p \in matched[s])

\* Statements and payments match one to one, as seen from either side.
StatementsMatch == OneStatementPerPayment /\ ReconciledIsMatched
=============================================================================
