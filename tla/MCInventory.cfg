\* Transfers, adjustments and movements by two concurrent sessions.
CONSTANTS
    w1 = w1
    w2 = w2
    Products <- MCProducts
    Warehouses <- MCWarehouses
    Sessions = {s1, s2}
    NoSession = NoSession
    Requests <- MCRequests
    MaxStock = 1
SPECIFICATION FairSpec
INVARIANTS
    TypeOK
    StockNonNegative
    RunningIsBalance
PROPERTIES
    ServedAtomically
    RequestsEnd
