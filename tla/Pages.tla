-------------------------------- MODULE Pages --------------------------------
(***************************************************************************)
(* A document on its way through the pages of the frontend, the guards of  *)
(* the controllers (Access), and the status checks of the services: who    *)
(* can take the next step, and where.  There is one user per role; any     *)
(* client of the API, which docs/api describes, may have moved a document  *)
(* to where the pages find it, and from then on it is moved on the pages   *)
(* alone.  What the services compute is in their own modules: a step here  *)
(* is the change of a status.                                              *)
(***************************************************************************)
EXTENDS Access, Naturals, Sequences

CONSTANT MaxReceipts        \* bound on the receipts of the purchase order

VARIABLES
    route,      \* "api", or "pages" once only the pages move the document
    doc,        \* [kind, status, by]: by is the user who created it
    receipts,   \* of a purchase order: the status of each goods receipt
    drawer      \* the goods-receipt drawer between its two calls, or Shut
pageVars == <<route, doc, receipts, drawer>>

Users == Roles
Nobody == "nobody"
Shut == [user |-> Nobody, receipt |-> 0]

-----------------------------------------------------------------------------
(* The services: a call takes a document of its kind from a status to one of some      *)
(* others.  who: "any", "other" than the creator (segregation of duties), "own": the   *)
(* creator or somebody with POS.DELETE.                                                *)

Step(controller, handlers, from, to, who) ==
    {[call |-> <<controller, h>>, from |-> from, to |-> to, who |-> who] : h \in handlers}
Creates(controller, handlers, status) ==
    Step(controller, handlers, {"none"}, {status}, "any")

PurchaseOrderSteps ==
    Creates("PurchaseOrder", {"create"}, "DRAFT") \cup
    Step("PurchaseOrder", {"submit"}, {"DRAFT"}, {"PENDING_APPROVAL"}, "any") \cup
    Step("PurchaseOrder", {"approve"}, {"PENDING_APPROVAL"}, {"APPROVED"}, "other") \cup
    Step("PurchaseOrder", {"reject"}, {"PENDING_APPROVAL"}, {"REJECTED"}, "any") \cup
    Step("PurchaseOrder", {"revise"}, {"REJECTED"}, {"DRAFT"}, "any") \cup
    Step("PurchaseOrder", {"cancel"}, {"APPROVED"}, {"CANCELLED"}, "any") \cup
    Step("PurchaseOrder", {"close"}, {"FULLY_RECEIVED"}, {"CLOSED"}, "any")

\* confirm asks nothing of the status of the order: what it leaves follows from the
\* quantities alone.
ConfirmSteps ==
    Step("GoodsReceipt", {"confirm"}, {"APPROVED", "PARTIALLY_RECEIVED", "CANCELLED"},
         {"PARTIALLY_RECEIVED", "FULLY_RECEIVED"}, "any") \cup
    Step("GoodsReceipt", {"confirm"}, {"FULLY_RECEIVED", "CLOSED"}, {"FULLY_RECEIVED"}, "any")

PurchaseRequestSteps ==
    Creates("PurchaseRequest", {"create"}, "DRAFT") \cup
    Step("PurchaseRequest", {"update"}, {"DRAFT"}, {"DRAFT"}, "any") \cup
    Step("PurchaseRequest", {"submit"}, {"DRAFT"}, {"SUBMITTED"}, "any") \cup
    Step("PurchaseRequest", {"approve"}, {"SUBMITTED"}, {"APPROVED"}, "any") \cup
    Step("PurchaseRequest", {"reject"}, {"SUBMITTED"}, {"REJECTED"}, "any") \cup
    Step("PurchaseRequest", {"cancel"}, {"DRAFT", "SUBMITTED"}, {"CANCELLED"}, "any") \cup
    Step("PurchaseRequest", {"delete"}, {"DRAFT"}, {"DELETED"}, "any")

\* The creator that approve compares is the customer, never a user.
SalesOrderSteps ==
    Creates("SalesOrder", {"create"}, "PENDING_APPROVAL") \cup
    Step("SalesOrder", {"approve"}, {"PENDING_APPROVAL"}, {"APPROVED"}, "any") \cup
    Step("SalesOrder", {"fulfill"}, {"APPROVED", "FULFILLED"}, {"FULFILLED"}, "any")

\* A note asks nothing of the status, writeOff for one that no code sets.  Payments are
\* not among the steps: no controller calls what applies them to an invoice.
InvoiceSteps(creates, note) ==
    Creates("Invoice", {creates}, "DRAFT") \cup
    Step("Invoice", {"post"}, {"DRAFT"}, {"OPEN"}, "any") \cup
    Step("Invoice", {"dispute"}, {"OPEN", "PARTIAL", "OVERDUE"}, {"DISPUTED"}, "any") \cup
    Step("Invoice", {"writeOff"}, {"OVERDUE"}, {"WRITTEN_OFF"}, "any") \cup
    Step("Invoice", {"cancel"}, {"DRAFT", "OPEN"}, {"CANCELLED"}, "any") \cup
    Step("Invoice", {note},
         {"DRAFT", "OPEN", "POSTED", "PARTIAL", "PAID", "DISPUTED", "CANCELLED"},
         {"PARTIAL", "PAID"}, "any")

PaymentSteps ==
    Creates("Payment", {"registerPayment"}, "DRAFT") \cup
    Step("Payment", {"approve"}, {"DRAFT"}, {"APPROVED"}, "other") \cup
    Step("Payment", {"post"}, {"APPROVED"}, {"POSTED"}, "any") \cup
    Step("Payment", {"reverse"}, {"DRAFT", "APPROVED", "POSTED", "RECONCILED", "REVERSED"},
         {"REVERSED"}, "any") \cup
    Step("BankReconciliation", {"confirmReconciliation"}, {"POSTED"}, {"RECONCILED"}, "any")

\* finalize asks for every line to be counted, not for a count: there may be no line.
StockOpnameSteps ==
    Creates("StockOpname", {"initiate"}, "INITIATED") \cup
    Step("StockOpname", {"recordCount"}, {"INITIATED", "IN_PROGRESS"}, {"IN_PROGRESS"},
         "any") \cup
    Step("StockOpname", {"finalize"}, {"INITIATED", "IN_PROGRESS"}, {"COMPLETED"}, "any")

ShiftSteps ==
    Creates("Pos", {"openShift"}, "OPEN") \cup
    Step("Pos", {"processTransaction"}, {"OPEN"}, {"OPEN"}, "any") \cup
    Step("Pos", {"closeShift"}, {"OPEN"}, {"CLOSED"}, "own")

\* openPeriod has no controller.
PeriodSteps ==
    Creates("Accounting", {"createPeriod"}, "DRAFT") \cup
    Step("Accounting", {"closePeriod"}, {"OPEN"}, {"CLOSED"}, "any")

\* Nothing creates a request but the demo data.
ApprovalSteps ==
    Step("Approval", {"approve"}, {"PENDING"}, {"APPROVED"}, "any") \cup
    Step("Approval", {"reject"}, {"PENDING"}, {"REJECTED"}, "any")

WarehouseSteps ==
    Creates("Warehouse", {"create"}, "UNLOCKED") \cup
    Step("Warehouse", {"lock"}, {"UNLOCKED", "LOCKED"}, {"LOCKED"}, "any") \cup
    Step("Warehouse", {"unlock"}, {"UNLOCKED", "LOCKED"}, {"UNLOCKED"}, "any") \cup
    Step("Warehouse", {"deactivate"}, {"UNLOCKED", "LOCKED"}, {"DELETED"}, "any")

\* A row that is there once it is created, and later changed or taken out of use.
RowSteps(controller, creates, updates, deletes) ==
    Creates(controller, creates, "DONE") \cup
    Step(controller, updates, {"DONE"}, {"DONE"}, "any") \cup
    Step(controller, deletes, {"DONE"}, {"DELETED"}, "any")

Steps == [
    PurchaseOrder |-> PurchaseOrderSteps \cup ConfirmSteps,
    PurchaseRequest |-> PurchaseRequestSteps,
    PurchaseReturn |-> RowSteps("PurchaseReturn", {"create"}, {}, {}),
    SalesOrder |-> SalesOrderSteps,
    SalesReturn |-> RowSteps("Pos", {"createSalesReturn"}, {}, {}),
    SalesInvoice |-> InvoiceSteps("createSalesInvoice", "createCreditNote"),
    PurchaseInvoice |-> InvoiceSteps("createPurchaseInvoice", "createDebitNote"),
    Payment |-> PaymentSteps, StockOpname |-> StockOpnameSteps, Shift |-> ShiftSteps,
    FiscalPeriod |-> PeriodSteps, Approval |-> ApprovalSteps, Warehouse |-> WarehouseSteps,
    StockTransfer |-> RowSteps("StockTransfer", {"transferStock"}, {}, {}),
    StockAdjustment |-> RowSteps("Inventory", {"adjustStock"}, {}, {}),
    JournalEntry |-> RowSteps("Accounting", {"createJournalEntry"}, {}, {}),
    CashMovement |->
        RowSteps("CashBank", {"recordCashIn", "recordCashOut", "recordTransfer"}, {}, {}),
    TaxPayment |-> RowSteps("Tax", {"recordTaxPayment"}, {}, {}),
    FixedAsset |-> RowSteps("FixedAsset", {"create"}, {"runDepreciation"}, {}),
    Product |-> RowSteps("Product", {"create"}, {"update"}, {"deactivate"}),
    Supplier |-> RowSteps("Supplier", {"create"}, {"update"}, {"deactivate"}),
    Customer |-> RowSteps("Customer", {"create"}, {"update"}, {"deactivate"}),
    PriceList |->
        RowSteps("PriceList", {"createPriceList"}, {"updatePriceList", "updatePrices"},
                 {"deactivate"}),
    Account |-> RowSteps("Coa", {"create"}, {"update"}, {"softDelete"}),
    Uom |-> RowSteps("Uom", {"create"}, {"update"}, {"delete"}),
    Category |-> RowSteps("Category", {"create"}, {}, {"delete"}),
    Branch |-> RowSteps("Organization", {"createHeadOffice", "createBranch"},
                        {"updateBranch"}, {}),
    User |-> RowSteps("Admin", {"createUser"}, {"updateUser", "resetPassword"}, {}),
    Role |-> RowSteps("Admin", {"createRole"}, {"updateRole"}, {})]

Kinds == DOMAIN Steps
Statuses == {"none"} \cup UNION {s.from \cup s.to : s \in UNION {Steps[k] : k \in Kinds}}

\* What prisma/seed.ts and the demo data put there, with statuses that no service sets
\* among them: COMPLETED, DELIVERED and FINALIZED stand for a document whose work is done.
\* Of the creators only a shift's is ever compared.
SeededPeriods == [FiscalPeriod |-> {"DRAFT", "OPEN", "CLOSED"}]
SeededPlaces == [Branch |-> {"DONE"}, Warehouse |-> {"UNLOCKED"}]
SeededCatalogue == [Uom |-> {"DONE"}, Category |-> {"DONE"}, Product |-> {"DONE"}]
SeededPartners == [Supplier |-> {"DONE"}, Customer |-> {"DONE"}, PriceList |-> {"DONE"}]
SeededStock == [StockTransfer |-> {"IN_TRANSIT", "DONE"}, StockOpname |-> {"FINALIZED"},
                StockAdjustment |-> {"DONE"}]
SeededShifts == [Shift |-> {"OPEN", "CLOSED"}]
SeededSales == [SalesOrder |-> {"DELIVERED", "CONFIRMED", "DRAFT"}, SalesReturn |-> {"DONE"}]
SeededPurchases == [PurchaseRequest |-> {"APPROVED"}, PurchaseOrder |-> {"COMPLETED"},
                    PurchaseReturn |-> {"DONE"}]
SeededInvoices == [k \in {"SalesInvoice", "PurchaseInvoice"} |-> {"POSTED", "PARTIAL", "PAID"}]
SeededPayments == [Payment |-> {"POSTED"}]
SeededAssets == [FixedAsset |-> {"DONE"}]
SeededEntries == [JournalEntry |-> {"DONE"}]
SeededApprovals == [Approval |-> {"PENDING", "APPROVED"}]
Seeded ==
    SeededPeriods @@ SeededPlaces @@ SeededCatalogue @@ SeededPartners @@ SeededStock @@
    SeededShifts @@ SeededSales @@ SeededPurchases @@ SeededInvoices @@ SeededPayments @@
    SeededAssets @@ SeededEntries @@ SeededApprovals @@ [k \in Kinds |-> {}]

-----------------------------------------------------------------------------
(* The pages: what each offers.  A button or form is one offer: the call it makes, the *)
(* statuses it is shown for, what must have been read for it to be there and filled    *)
(* in, and the roles it is shown to.                                                   *)

OfferTo(roles, controller, handlers, on, needs) ==
    {[call |-> <<controller, h>>, on |-> on, needs |-> needs, roles |-> roles] : h \in handlers}
Offer(controller, handlers, on, needs) == OfferTo(Roles, controller, handlers, on, needs)
Form(controller, handlers, needs) == Offer(controller, handlers, {"none"}, needs)
\* The rows of a table, read by one call, with the buttons in them.
Row(controller, list, handlers, on) == Offer(controller, handlers, on, {<<controller, list>>})

ProductList == <<"Product", "search">>
CustomerList == <<"Customer", "search">>
SupplierList == <<"Supplier", "search">>
WarehouseList == <<"Warehouse", "search">>
AccountList == <<"Coa", "findAll">>
BranchList == <<"Organization", "listBranches">>
UomList == <<"Uom", "findAll">>
CategoryList == <<"Category", "findAll">>

\* Mutant: the button of a receipt is shown where a first one is expected.
PurchasePageConfirmsFirst ==
    Row("PurchaseOrder", "search", {"approve", "reject"}, {"PENDING_APPROVAL"}) \cup
    Row("GoodsReceipt", "search", {"confirm"}, {"APPROVED"})

\* The tabs of the orders and of the receipts: the button of a receipt asks only for the
\* receipt's own status.
PurchasePage ==
    Row("PurchaseOrder", "search", {"approve", "reject"}, {"PENDING_APPROVAL"}) \cup
    Row("GoodsReceipt", "search", {"confirm"}, Statuses)
PurchaseDrawer ==
    Form("PurchaseOrder", {"create"}, {SupplierList, ProductList, BranchList, WarehouseList})
\* Opened from the row of an order; it also confirms what it has created, see below.
GoodsReceiptDrawer ==
    Offer("GoodsReceipt", {"create"}, {"APPROVED", "PARTIALLY_RECEIVED"},
          {<<"PurchaseOrder", "search">>})
PurchaseReturnDrawer ==
    Form("PurchaseReturn", {"create"},
         {SupplierList, BranchList, WarehouseList, ProductList, UomList})
PurchaseRequestDrawer ==
    Form("PurchaseRequest", {"create"}, {BranchList, WarehouseList, ProductList})

SalesOrderPage ==
    Form("SalesOrder", {"create"}, {CustomerList, ProductList, WarehouseList}) \cup
    Row("SalesOrder", "search", {"approve"}, {"PENDING_APPROVAL"}) \cup
    Row("SalesOrder", "search", {"fulfill"}, {"APPROVED"})
SalesReturnPage ==
    Form("Pos", {"createSalesReturn"}, {ProductList, UomList, CustomerList, WarehouseList})
ShiftPage ==
    Form("Pos", {"openShift"}, {<<"Pos", "listShifts">>, BranchList, WarehouseList}) \cup
    Row("Pos", "listShifts", {"closeShift"}, {"OPEN"})
\* Without the stock report it lets any quantity into the cart, without the
\* configuration it takes 11 percent.
POSPage ==
    Offer("Pos", {"processTransaction"}, {"OPEN"}, {<<"Pos", "listShifts">>, ProductList})

InvoicingPage ==
    Form("Invoice", {"createSalesInvoice"}, {CustomerList, WarehouseList, ProductList}) \cup
    Form("Invoice", {"createPurchaseInvoice"}, {SupplierList, WarehouseList, ProductList}) \cup
    Row("Invoice", "search", {"post"}, {"DRAFT"}) \cup
    Row("Invoice", "search", {"cancel"}, {"DRAFT", "OPEN"}) \cup
    Row("Invoice", "search", {"writeOff"}, {"OVERDUE"}) \cup
    Row("Invoice", "search", {"dispute"}, {"OPEN", "PARTIAL", "OVERDUE"})
PaymentPage ==
    Form("Payment", {"registerPayment"}, {CustomerList, BranchList}) \cup
    Form("Payment", {"registerPayment"}, {SupplierList, BranchList})
\* BankReconciliationPage has no offer here: its confirmation names payment_id, which
\* the service does not read, and is refused (see BankMatching).

ApprovalPage == Row("Approval", "listPending", {"approve", "reject"}, {"PENDING"})

StockOpnamePage ==
    Form("StockOpname", {"initiate"}, {WarehouseList}) \cup
    Offer("StockOpname", {"recordCount"}, {"INITIATED", "IN_PROGRESS"},
          {<<"StockOpname", "findAll">>, ProductList}) \cup
    Row("StockOpname", "findAll", {"finalize"}, {"INITIATED", "IN_PROGRESS"})
StockTransferPage == Form("StockTransfer", {"transferStock"}, {ProductList, WarehouseList})

FiscalPeriodPage ==
    Form("Accounting", {"createPeriod"}, {}) \cup
    OfferTo({"Owner", "Finance_Manager", "Sys_Admin"}, "Accounting", {"closePeriod"}, {"OPEN"},
            {<<"Accounting", "getAllPeriods">>, <<"Accounting", "getPeriodChecklist">>})
FixedAssetPage ==
    Form("FixedAsset", {"create"}, {AccountList}) \cup
    Offer("FixedAsset", {"runDepreciation"}, {"DONE"}, {})
CashBankSubPage ==
    Form("CashBank", {"recordCashIn", "recordCashOut", "recordTransfer"},
         {<<"CashBank", "getPosition">>})
TaxSubPage ==
    Form("Tax", {"recordTaxPayment"}, {<<"Tax", "getTaxSummary">>, <<"CashBank", "getPosition">>})
JournalEntryModal ==
    Form("Accounting", {"createJournalEntry"}, {AccountList, <<"Accounting", "getAllPeriods">>})
RecordExpenseModal == Form("Accounting", {"createJournalEntry"}, {AccountList})

ProductManagement ==
    Form("Product", {"create"}, {CategoryList, UomList}) \cup
    Offer("Product", {"update"}, {"DONE"}, {ProductList, CategoryList, UomList}) \cup
    Row("Product", "search", {"deactivate"}, {"DONE"})
CustomersTab ==
    Form("Customer", {"create"}, {}) \cup
    Row("Customer", "search", {"update", "deactivate"}, {"DONE"})
SuppliersTab ==
    Form("Supplier", {"create"}, {}) \cup Row("Supplier", "search", {"update"}, {"DONE"})
WarehousesTab ==
    Form("Warehouse", {"create"}, {}) \cup
    Row("Warehouse", "search", {"lock"}, {"UNLOCKED"}) \cup
    Row("Warehouse", "search", {"unlock"}, {"LOCKED"})
CategoriesTab ==
    Form("Category", {"create"}, {}) \cup Row("Category", "findAll", {"delete"}, {"DONE"})
UomsTab == Form("Uom", {"create"}, {}) \cup Row("Uom", "findAll", {"delete"}, {"DONE"})
CoaTab == Form("Coa", {"create"}, {AccountList})

UserManagementPage ==
    Form("Admin", {"createUser"}, {<<"Admin", "getRoles">>}) \cup
    Offer("Admin", {"updateUser"}, {"DONE"}, {<<"Admin", "getUsers">>, <<"Admin", "getRoles">>})
        \cup Row("Admin", "getUsers", {"resetPassword"}, {"DONE"})
RoleManagementPage ==
    Form("Admin", {"createRole"}, {<<"Admin", "getPermissions">>}) \cup
    Offer("Admin", {"updateRole"}, {"DONE"},
          {<<"Admin", "getRoles">>, <<"Admin", "getPermissions">>})
StoreProfilePage ==
    Form("Organization", {"createHeadOffice", "createBranch"}, {BranchList}) \cup
    Row("Organization", "listBranches", {"updateBranch"}, {"DONE"})

\* What the routes of App lead to, with the drawers, tabs and modals of each.
Offers == UNION {
    PurchasePage, PurchaseDrawer, GoodsReceiptDrawer, PurchaseReturnDrawer,
    PurchaseRequestDrawer, SalesOrderPage, SalesReturnPage, ShiftPage, POSPage, InvoicingPage,
    PaymentPage, ApprovalPage, StockOpnamePage, StockTransferPage, FiscalPeriodPage,
    FixedAssetPage, CashBankSubPage, TaxSubPage, JournalEntryModal, RecordExpenseModal,
    ProductManagement, CustomersTab, SuppliersTab, WarehousesTab, CategoriesTab, UomsTab,
    CoaTab, UserManagementPage, RoleManagementPage, StoreProfilePage}

-----------------------------------------------------------------------------
(* A user takes a step. *)

Allowed(u, s) ==
    /\ Served({u}, s.call)
    /\ s.who = "other" => u # doc.by
    /\ s.who = "own" => u = doc.by \/ <<"POS", "DELETE">> \in UserPermissions({u})

Offered(u, s, status) ==
    \E o \in Offers :
        /\ o.call = s.call /\ status \in o.on /\ u \in o.roles
        /\ \A r \in o.needs : Served({u}, r)

CanTake(u, s, status) ==
    /\ status \in s.from /\ Allowed(u, s)
    /\ route = "pages" => Offered(u, s, status)

Confirms(s) == s.call = <<"GoodsReceipt", "confirm">>

PageInit ==
    /\ route = "api"
    /\ \/ \E k \in Kinds : doc = [kind |-> k, status |-> "none", by |-> Nobody]
       \/ \E k \in Kinds : \E status \in Seeded[k] :
              doc = [kind |-> k, status |-> status, by |-> "Cashier"]
    /\ receipts = << >>
    /\ drawer = Shut

LeftToThePages == route = "api" /\ route' = "pages" /\ UNCHANGED <<doc, receipts, drawer>>

\* One call that gives the document its next status.
Take(u, s) ==
    /\ ~Confirms(s) /\ CanTake(u, s, doc.status)
    /\ \E status \in s.to :
          doc' = [doc EXCEPT !.status = status, !.by = IF @ = Nobody THEN u ELSE @]
    /\ UNCHANGED <<route, receipts, drawer>>

\* A receipt for the order, in the drawer of a page or by a call.
ReceiveStep ==
    [call |-> <<"GoodsReceipt", "create">>, from |-> {"APPROVED", "PARTIALLY_RECEIVED"},
     to |-> {"APPROVED", "PARTIALLY_RECEIVED"}, who |-> "any"]

Receive(u) ==
    /\ doc.kind = "PurchaseOrder" /\ Len(receipts) < MaxReceipts
    /\ CanTake(u, ReceiveStep, doc.status)
    /\ drawer = Shut
    /\ receipts' = Append(receipts, "DRAFT")
    /\ drawer' = IF route = "pages" THEN [user |-> u, receipt |-> Len(receipts')] ELSE Shut
    /\ UNCHANGED <<route, doc>>

Confirmed(s, g) ==
    /\ receipts[g] = "DRAFT"
    /\ receipts' = [receipts EXCEPT ![g] = "CONFIRMED"]
    /\ \E status \in s.to : doc' = [doc EXCEPT !.status = status]
    /\ UNCHANGED route

\* From the tab of the receipts.
Confirm(u, s, g) ==
    Confirms(s) /\ CanTake(u, s, doc.status) /\ Confirmed(s, g) /\ UNCHANGED drawer

\* The second call of the drawer, for the receipt that it has created.
DrawerConfirms(s) ==
    /\ drawer # Shut
    /\ Confirms(s) /\ doc.status \in s.from /\ Allowed(drawer.user, s)
    /\ Confirmed(s, drawer.receipt)
    /\ drawer' = Shut

\* It fails, or never leaves: the receipt stays as it is.
DrawerEnds == drawer # Shut /\ drawer' = Shut /\ UNCHANGED <<route, doc, receipts>>

CancelReceipt(u, g) ==
    /\ route = "api" /\ Served({u}, <<"GoodsReceipt", "cancel">>)
    /\ receipts[g] = "DRAFT"
    /\ receipts' = [receipts EXCEPT ![g] = "CANCELLED"]
    /\ UNCHANGED <<route, doc, drawer>>

PageNext ==
    \/ \E u \in Users :
          \/ \E s \in Steps[doc.kind] :
                Take(u, s) \/ \E g \in DOMAIN receipts : Confirm(u, s, g)
          \/ Receive(u)
          \/ \E g \in DOMAIN receipts : CancelReceipt(u, g)
    \/ \E s \in Steps[doc.kind] : DrawerConfirms(s)
    \/ DrawerEnds
    \/ LeftToThePages

-----------------------------------------------------------------------------
(* What a document is for, and where it cannot get there. *)

\* Where the work on a document is done.  An order may be closed afterwards, by an API
\* call: no page does it.
Done == [k \in Kinds |->
    CASE k = "PurchaseOrder" -> {"FULLY_RECEIVED", "CLOSED", "COMPLETED"}
      [] k \in {"PurchaseRequest", "Approval"} -> {"APPROVED"}
      [] k = "SalesOrder" -> {"FULFILLED", "DELIVERED"}
      [] k \in {"SalesInvoice", "PurchaseInvoice"} -> {"PAID"}
      [] k = "Payment" -> {"POSTED", "RECONCILED"}
      [] k = "StockOpname" -> {"COMPLETED", "FINALIZED"}
      [] k \in {"Shift", "FiscalPeriod"} -> {"CLOSED"}
      [] k = "Warehouse" -> {"UNLOCKED"}
      [] OTHER -> {"DONE"}]
GivenUp == {"CANCELLED", "REJECTED", "REVERSED", "DELETED", "WRITTEN_OFF"}

\* The statuses that the users can take the document to, in at most as many steps as the
\* longest life has.
LongestLife == 6
Onward(status) ==
    UNION {s.to : s \in {s \in Steps[doc.kind] : \E u \in Users : CanTake(u, s, status)}}
Reachable ==
    LET after[n \in 0..LongestLife] ==
            IF n = 0 THEN {doc.status}
            ELSE after[n - 1] \cup UNION {Onward(status) : status \in after[n - 1]}
    IN  after[LongestLife]

CanBeDone == Reachable \cap Done[doc.kind] # {}

DeadOnPages ==
    \* No page submits an order or a request, and none approves a request.
    {"PurchaseOrder"} \X {"none", "DRAFT"} \cup
    {"PurchaseRequest"} \X {"none", "DRAFT", "SUBMITTED"} \cup
    \* No page writes a note, and payments reach no invoice.
    {"SalesInvoice", "PurchaseInvoice"} \X
        {"none", "DRAFT", "OPEN", "POSTED", "PARTIAL", "DISPUTED"} \cup
    \* No page approves or posts a payment.
    {"Payment"} \X {"none", "DRAFT", "APPROVED"} \cup
    {"StockAdjustment", "PriceList", "Approval"} \X {"none"}
DeadForAll ==
    \* No controller calls openPeriod.
    {"FiscalPeriod"} \X {"none", "DRAFT"} \cup
    \* Statuses of the demo data that no service knows.
    {"SalesOrder"} \X {"CONFIRMED", "DRAFT"} \cup
    {"StockTransfer"} \X {"IN_TRANSIT"} \cup
    \* Nothing creates a request for approval.
    {"Approval"} \X {"none"}
DeadEnds == IF route = "pages" THEN DeadOnPages \cup DeadForAll ELSE DeadForAll

\* "No controller-gated flow is dead for every role", says the seed of its grants: every
\* endpoint has a role that may call it, and whatever was done before, some user can take
\* the document on until its work is done, on the pages if it is left to them; a receipt
\* that is not confirmed, which the drawer of a page leaves behind when its second call
\* fails, can still be confirmed by somebody, and an order that waits for goods can
\* receive some.  DeadEnds lists every status of which this is not so.
WorkGoesOn ==
    /\ \A e \in Endpoints : \E u \in Users : Served({u}, e)
    /\ doc.status \notin GivenUp =>
          (CanBeDone <=> <<doc.kind, doc.status>> \notin DeadEnds)
    /\ \A g \in DOMAIN receipts :
          receipts[g] = "DRAFT" =>
              \E u \in Users, s \in ConfirmSteps : CanTake(u, s, doc.status)
    /\ doc.kind = "PurchaseOrder" /\ doc.status \in ReceiveStep.from =>
          \E u \in Users : CanTake(u, ReceiveStep, doc.status)
=============================================================================
