------------------------------- MODULE Reports -------------------------------
(***************************************************************************)
(* What the reports make of the journal: the queries of ReportingService,  *)
(* CashBankService.getCashPosition and AccountingService.getAccountBalance *)
(* over the POSTED entries, beside reversals and the closing entry.        *)
(*                                                                         *)
(* An entry is [event, net, period, status]; periods are closed in order   *)
(* of their dates, and a report is asked for a period or for all.          *)
(***************************************************************************)
EXTENDS Chart, Sequences

CONSTANTS
    Events,             \* the events that are posted, each with a template
    Amounts, Tax,       \* the amounts of events, and the tax in each
    Periods,            \* fiscal periods
    MaxBooked           \* bound

VARIABLES booked, closed    \* the entries, and the CLOSED periods
repVars == <<booked, closed>>

RepInit == booked = << >> /\ closed = {}

Written(event, p, net) == [event |-> event, period |-> p, net |-> net, status |-> "POSTED"]

PostEvent(event, amount, p) ==
    /\ Len(booked) < MaxBooked /\ p \notin closed
    /\ booked' = Append(booked, Written(event, p, EntryLines(event, amount, Tax)))
    /\ UNCHANGED closed

\* reverseJournalEntry: the entry is marked, its mirror image is POSTED.
Reversal(e) ==
    /\ Len(booked) < MaxBooked
    /\ booked[e].status = "POSTED" /\ booked[e].period \notin closed
    /\ booked' = Append([booked EXCEPT ![e].status = "REVERSED"],
                         Written("JE_REVERSAL", booked[e].period,
                                 [a \in Accounts |-> -booked[e].net[a]]))
    /\ UNCHANGED closed

-----------------------------------------------------------------------------
(* Sums of POSTED entries *)

\* The net debit of an account over periods ps.
NetOf(a, ps) ==
    SumFunction([i \in DOMAIN booked |->
                   IF booked[i].status = "POSTED" /\ booked[i].period \in ps
                   THEN booked[i].net[a] ELSE 0])
NetOfAll(as, ps) == SumFunction([a \in as |-> NetOf(a, ps)])

\* getAccountBalance: on the side that is normal for the account.
AccountBalance(a, ps) == IF Normal(a) = "DEBIT" THEN NetOf(a, ps) ELSE -NetOf(a, ps)

SumOf(as, ps) == SumFunction([a \in as |-> AccountBalance(a, ps)])
OfType(t) == AccountsOf[t]
OfCategory(cs) == {a \in Accounts : Category(a) \in cs}

\* The rows to close: revenue and costs, with a net income that is not zero.
Nominal == OfType("REVENUE") \cup OfType("EXPENSE") \cup OfType("COGS")
NetIncome(p) == -NetOfAll(Nominal, {p})

\* closePeriod, of a period of any status: each row is taken back on its other side, the
\* rest to an EQUITY account.
ClosePeriod(p) ==
    LET net == [a \in Accounts |->
                  CASE a \in Nominal -> -NetOf(a, {p})
                    [] a = "retained_earnings" -> -NetIncome(p)
                    [] OTHER -> 0]
    IN  /\ closed' = closed \cup {p}
        /\ IF NetIncome(p) = 0 THEN UNCHANGED booked
           ELSE /\ Len(booked) < MaxBooked
                /\ booked' = Append(booked, Written("PERIOD_CLOSING", p, net))

RepNext ==
    \/ \E e \in Events, n \in Amounts, p \in Periods : PostEvent(e, n, p)
    \/ \E e \in DOMAIN booked : Reversal(e)
    \/ \E p \in Periods : ClosePeriod(p)

-----------------------------------------------------------------------------
(* Reports *)

\* Mutant: the running costs are forgotten.
IncomeWithoutExpenses(ps) == SumOf(OfType("REVENUE"), ps) - SumOf(OfType("COGS"), ps)

\* getIncomeStatement, and the income that getBalanceSheet adds to the equity.
Income(ps) == SumOf(OfType("REVENUE"), ps) - SumOf(OfType("COGS"), ps) - SumOf(OfType("EXPENSE"), ps)

\* getBalanceSheet as of the end of the periods ps.
BalanceSheet(ps) ==
    [assets |-> SumOf(OfType("ASSET"), ps),
     liabilities |-> SumOf(OfType("LIABILITY"), ps),
     equity |-> SumOf(OfType("EQUITY"), ps) + Income(ps)]

\* cash_position of getExecutiveDashboard; no account has a type of CASH or BANK.
DashboardCash == SumOf(OfCategory({"CASH"}), Periods)

\* total_cash_balance of getCashPosition.
CashPosition == SumOf(OfCategory({"CASH", "CLEARING"}), Periods)

\* net_cash_flow of getCashFlow and of getCashFlowStatement, of a period.
CashFlow(p) == NetOfAll(OfCategory({"CASH"}), {p})
CashFlowStatement(p) == NetOfAll(OfCategory({"CASH", "CLEARING"}), {p})

-----------------------------------------------------------------------------
(* Properties *)

\* The balance sheet balances over any postings, reversals and closings, except for what
\* it leaves out (other income and costs), and what it takes with the wrong sign
\* (accumulated depreciation, sales returns that are not closed yet).
SheetGapExplained ==
    LET sheet == BalanceSheet(Periods)
        left == OfType("OTHER_INCOME") \cup OfType("OTHER_EXPENSE")
        turned == {"depreciation", "sales_returns"}
    IN  sheet.assets - (sheet.liabilities + sheet.equity)
          = -NetOfAll(left, Periods) - 2 * NetOfAll(turned, Periods)

\* Income reported for a period is what was earned until it is closed, and zero from
\* then on (the closing entry is one of its entries); sales returns count twice, as a
\* reduction is added.
IncomeUntilClosed ==
    \A p \in Periods :
        Income({p}) = 2 * AccountBalance("sales_returns", {p}) + NetIncome(p)
        /\ (p \in closed => NetIncome(p) = 0)

\* The reports agree about cash, except for goods received and not invoiced: two of them
\* take the clearing account for cash.
CashAgrees ==
    /\ CashPosition - DashboardCash = AccountBalance("receipt_clearing", Periods)
    /\ DashboardCash = SumFunction([p \in Periods |-> CashFlow(p)])
    /\ \A p \in Periods : CashFlowStatement(p) - CashFlow(p) = NetOf("receipt_clearing", {p})

\* The reports agree with the journal and with each other, the named gaps apart.
ReportsAgree == SheetGapExplained /\ IncomeUntilClosed /\ CashAgrees

\* The services leave the tax of invoices and returns in the revenue.
TaxLeft(event) ==
    CASE event = "SALES_INVOICE" -> Pair("tax_payable", "sales", Tax)
      [] event = "SALES_RETURN" -> Pair("sales_returns", "tax_payable", Tax)
      [] OTHER -> [a \in Accounts |-> 0]

AsFactory(event, n) == And(Factory(event, n, Tax), TaxLeft(event))

\* JournalEventFactory is another way to the entries that the services post: what is
\* posted balances, and is what the factory builds, except for the tax of invoices and
\* returns; that is so of every event that has both.
FactoryAgrees ==
    /\ \A i \in DOMAIN booked :
          /\ Total(booked[i].net) = 0
          /\ booked[i].event \in FactoryEvents =>
                \E n \in Amounts : booked[i].net = AsFactory(booked[i].event, n)
    /\ booked = << >> =>
          \A event \in FactoryEvents, n \in Amounts :
              EntryLines(event, n, Tax) = AsFactory(event, n)
=============================================================================
