\* The run stops when its invoices, payments, allocations and notes are used up.
CONSTANTS
    u1 = u1
    u2 = u2
    Users = {u1, u2}
    Invoicing = {c1, c2}
    Correcting = {c1}
    Settling = {c1, c2}
    Paying = {c2}
    Totals = {4}
    Amounts = {2, 3}
    MaxInvoices = 2
    MaxPayments = 1
    MaxAllocations = 2
    MaxNotes = 1
SYMMETRY Sym
SPECIFICATION MCSpec
CHECK_DEADLOCK FALSE
INVARIANTS
    AmountsAddUp
    JournalFollowsDocuments
