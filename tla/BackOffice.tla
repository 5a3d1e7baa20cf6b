------------------------------ MODULE BackOffice ------------------------------
(***************************************************************************)
(* What stands beside the documents: the numbers they get (Numbering), the *)
(* chart of accounts and the tables with codes (AccountTree, MasterData),  *)
(* price lists (PriceLists), calculations of amounts (Calculations), the   *)
(* summary for the rows of the stock ledger (LedgerRows), the three-way    *)
(* match of supplier invoices (Matching), bank statements (BankMatching)   *)
(* and reports (Reports).  They share no state: a behaviour is one of      *)
(* them.                                                                   *)
(***************************************************************************)
EXTENDS Numbering

CONSTANTS
    AccountIds, Codes, LevelOf, AccountTypes, None, \* AccountTree
    Keepers, NewRows, AccountEdits, System,
    RowIds, RowCodes, Branches, Editors,            \* MasterData
    Lists, Buyers, Days, Prices, NoCustomer, NoDay, \* PriceLists
    NoPrice, Keys, Askers, Pricers,
    AskedAmounts, UnitPrices, Percents,             \* Calculations
    MaxRows, Deltas, Runnings, RowDates,            \* LedgerRows
    Goods, Ordered, OrderPrice, Tolerance,          \* Matching
    Bills, BillLines,
    StatementIds, PaymentIds, BankAmount, BankDay,  \* BankMatching
    BankReference, NoPayment, Matchers,
    ReportEvents, ReportAmounts, TaxIn,             \* Reports
    ReportPeriods, MaxBooked

VARIABLES
    topic,
    account, used, keeper, moved,
    table, record, editor, refused,
    list, selling, cached, asker, pricer, late,
    figures,
    ledgerRows, summary,
    received, bill, buyer,
    matchedTo, statusOf, matcher, meetings,
    booked, sealed

Tree == INSTANCE AccountTree WITH
    Ids <- AccountIds, Changes <- AccountEdits, Clerks <- Keepers,
    clerk <- keeper, changed <- moved
Master == INSTANCE MasterData WITH
    Ids <- RowIds, Codes <- RowCodes, Places <- Branches, Clerks <- Editors,
    row <- record, clerk <- editor
Pricing == INSTANCE PriceLists WITH
    Customers <- Buyers, Callers <- Askers, Editors <- Pricers,
    caller <- asker, editor <- pricer
Calc == INSTANCE Calculations WITH
    Amounts <- AskedAmounts, Prices <- UnitPrices, asked <- figures
Table == INSTANCE LedgerRows WITH rows <- ledgerRows, Dates <- RowDates
Match == INSTANCE Matching WITH
    Products <- Goods, Price <- OrderPrice, Invoices <- Bills, InvoiceLines <- BillLines,
    invoice <- bill, clerk <- buyer
Bank == INSTANCE BankMatching WITH
    Statements <- StatementIds, Payments <- PaymentIds, Amount <- BankAmount, Day <- BankDay,
    Reference <- BankReference, Clerks <- Matchers,
    matched <- matchedTo, status <- statusOf, clerk <- matcher, met <- meetings
Rep == INSTANCE Reports WITH
    Events <- ReportEvents, Amounts <- ReportAmounts, Tax <- TaxIn,
    Periods <- ReportPeriods, closed <- sealed

treeVars == <<account, used, keeper, moved>>
masterVars == <<table, record, editor, refused>>
priceVars == <<list, selling, cached, asker, pricer, late>>
tableVars == <<ledgerRows, summary>>
matchVars == <<received, bill, buyer>>
bankVars == <<matchedTo, statusOf, matcher, meetings>>
repVars == <<booked, sealed>>

Topics ==
    {"numbers", "accounts", "master", "prices", "amounts", "rows", "match", "statements",
     "reports"}

OfficeInit ==
    /\ NumInit /\ Tree!TreeInit /\ Master!MasterInit /\ Pricing!PriceInit /\ Calc!CalcInit
    /\ Table!RowsInit /\ Match!MatchInit /\ Bank!BankInit /\ Rep!RepInit
    /\ topic \in Topics
    /\ topic # "master" => table = "product"

OfficeNext ==
    /\ \/ topic = "numbers" /\ NumNext
       \/ topic = "accounts" /\ Tree!TreeNext
       \/ topic = "master" /\ Master!MasterNext
       \/ topic = "prices" /\ Pricing!PriceNext
       \/ topic = "amounts" /\ Calc!CalcNext
       \/ topic = "rows" /\ Table!RowsNext
       \/ topic = "match" /\ Match!MatchNext
       \/ topic = "statements" /\ Bank!BankNext
       \/ topic = "reports" /\ Rep!RepNext
    /\ topic # "numbers" => UNCHANGED numVars
    /\ topic # "accounts" => UNCHANGED treeVars
    /\ topic # "master" => UNCHANGED masterVars
    /\ topic # "prices" => UNCHANGED priceVars
    /\ topic # "amounts" => UNCHANGED figures
    /\ topic # "rows" => UNCHANGED tableVars
    /\ topic # "match" => UNCHANGED matchVars
    /\ topic # "statements" => UNCHANGED bankVars
    /\ topic # "reports" => UNCHANGED repVars
    /\ UNCHANGED topic

officeVars ==
    <<topic, numVars, treeVars, masterVars, priceVars, figures, tableVars, matchVars, bankVars,
      repVars>>

OfficeSpec == OfficeInit /\ [][OfficeNext]_officeVars

\* The properties of the modules, see there; each is checked where its module runs.
TreeHolds == Tree!TreeHolds
ConflictsAreExpected == topic = "master" => Master!ConflictsAreExpected
PricesHold == topic = "prices" => Pricing!PricesHold
AmountsAgree == topic = "amounts" => Calc!AmountsAgree
SummaryAnswersQueries == topic = "rows" => Table!SummaryAnswersQueries
BilledPerLine == topic = "match" => Match!BilledPerLine
StatementsMatch == topic = "statements" => Bank!StatementsMatch
ReportsAgree == topic = "reports" => Rep!ReportsAgree
FactoryAgrees == topic = "reports" => Rep!FactoryAgrees
=============================================================================
