\* Two concurrent calls of Numbering, over a counter of the month and one for each of its
\* two days.  The run stops when counters, rows or ids are used up.
CONSTANTS
    Types = {"PO", "POS"}
    DailyTypes = {"POS"}
    Dates = {1, 2}
    MonthOf <- MCMonthOf
    Callers = {c1, c2}
    MaxValue = 2
    AccountIds = {"a1", "a2"}
    System = {"a1"}
    Codes = {"k1", "k2"}
    LevelOf <- MCLevelOf
    AccountTypes = {"ASSET", "LIABILITY"}
    None = "none"
    Keepers = {"d1", "d2"}
    NewRows <- MCNewRows
    AccountEdits <- MCChanges
    RowIds = {"m1", "m2"}
    RowCodes = {"k1", "k2"}
    Branches = {"b1", "b2"}
    Editors = {"d1", "d2"}
    Lists = {l1, l2}
    Buyers = {"k1"}
    Days = {1, 2}
    Prices = {q1, q2}
    NoCustomer = "none"
    NoDay = 0
    NoPrice = "none"
    Keys <- MCKeys
    Askers = {"p1"}
    Pricers = {"e1"}
    AskedAmounts = {0, 4, 5, 6, 49, 50, 51}
    UnitPrices = {0, 1, 3, 7, 50, 99}
    Percents = {0, 3, 11, 50, 100}
    MaxRows = 4
    Deltas <- MCDeltas
    Runnings = {0, 1}
    RowDates = {1, 2, 3}
    Goods = {"p1", "p2", "p3"}
    Ordered <- MCOrdered
    OrderPrice <- MCOrderPrice
    Tolerance = 5
    Bills = {"i1", "i2"}
    BillLines <- MCInvoiceLines
    StatementIds = {"s1", "s2", "s3"}
    PaymentIds = {"p1", "p2"}
    BankAmount <- MCBankAmount
    BankDay <- MCBankDay
    BankReference <- MCBankReference
    NoPayment = "none"
    Matchers = {"d1", "d2"}
    ReportEvents <- MCEvents
    ReportAmounts = {3}
    TaxIn = 1
    ReportPeriods = {1, 2}
    MaxBooked = 3
SYMMETRY Sym
SPECIFICATION OfficeSpec
CHECK_DEADLOCK FALSE
INVARIANTS
    NumbersUnique
    
    
    AmountsAgree
    
    BilledPerLine
    StatementsMatch
    
    FactoryAgrees
PROPERTIES
    TreeHolds
