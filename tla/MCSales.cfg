\* The run stops when its orders, deliveries and returns are used up.
CONSTANTS
    Products = {1, 2, 3}
    Users = {u1, k1}
    Customers = {k1}
    Branches = {w1}
    Warehouses = {w1}
    Ordering = {c1}
    Delivering = {c1, c2}
    Returning = {c2}
    OrderBodies <- MCOrderBodies
    Deliveries <- MCDeliveries
    SaleLines <- MCSaleLines
    ReturnBodies <- MCReturnBodies
    CreditLimit = 3
    FirstStock = 3
    MaxOrders = 1
    MaxDeliveries = 3
    MaxReturns = 2
SPECIFICATION Spec
CHECK_DEADLOCK FALSE
INVARIANTS
    DeliveriesHold
    
