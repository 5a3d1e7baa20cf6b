\* Checkouts and voids, beside the operations no route reaches.
\* The run stops when the shifts and sales of its bounds are used up.
CONSTANTS
    w1 = w1
    k1 = k1
    Products = {1, 2}
    Warehouses <- MCWarehouses
    Sessions = {s1, s2}
    NoSession = NoSession
    Cashiers = {k1}
    Price <- MCPrice
    PeriodOpen = TRUE
    InitialStock = 1
    Cashing = {s1, s2}
    Voiding = {s2}
    Unrouted = {s1}
    Checkouts <- MCCheckouts
    MaxShifts = 1
    MaxSales = 2
    MaxVersion = 4
SPECIFICATION Spec
CHECK_DEADLOCK FALSE
INVARIANTS
    SoldFromStock
    CompletedIsPaid
    JournalFollowsSales
