\* finalize of an opname with a discrepancy.
CONSTANTS
    w1 = w1
    Products <- MCProducts
    Warehouses <- MCWarehouses
    Sessions = {s1, s2}
    NoSession = NoSession
    Requests <- MCRequests
    MaxStock = 1
    Clerks = {s1}
    Items <- FoundItems
    MaxOpnames = 1
SPECIFICATION OpnameSpec
PROPERTIES
    FinalizeNotRefused
