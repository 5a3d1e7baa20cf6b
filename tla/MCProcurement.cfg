\* A behaviour stops when its orders, receipts and returns, or its requests, are used up.
CONSTANTS
    u1 = u1
    u2 = u2
    Users = {u1, u2}
    Buying = {s1}
    Receiving = {s1, s2}
    Returning = {s2}
    Products = {1, 2}
    OrderBodies <- MCOrders
    ReceiptBodies <- MCReceipts
    ReturnBodies <- MCReturns
    MaxOrders = 1
    MaxReceipts = 2
    MaxReturns = 2
    Clerks = {"c1", "c2"}
    Wishes = {"l1", "l2"}
    MaxRequests = 2
    Approvers = {"a1", "a2", "a3"}
    Desks = {"d1", "d2"}
SYMMETRY Sym
SPECIFICATION MCSpec
CHECK_DEADLOCK FALSE
INVARIANTS
    
    
    ApprovalsDecide

    
