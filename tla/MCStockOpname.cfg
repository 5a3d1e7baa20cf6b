\* Opnames by one clerk, one after the other or after an unlock by hand, beside receipts.
CONSTANTS
    w1 = w1
    Products <- MCProducts
    Warehouses <- MCWarehouses
    Sessions = {s1, s2}
    NoSession = NoSession
    Requests <- MCRequests
    MaxStock = 1
    Clerks = {s1}
    Items <- MCItems
    MaxOpnames = 2
SPECIFICATION OpnameSpec
INVARIANTS
    OpnameHolds
PROPERTIES
    CompletionIsSettled
    CompletedIsFinal
