------------------------------- MODULE Access --------------------------------
(***************************************************************************)
(* Who may call what: the handlers of the controllers with the permissions *)
(* of their @RequirePermissions, JwtAuthGuard and RbacGuard in front of    *)
(* them, and the roles of prisma/seed.ts with the permissions they get.    *)
(* A permission is a pair <<module, action>>, an endpoint a pair           *)
(* <<controller, handler>>.                                                *)
(***************************************************************************)
EXTENDS TLC

Of(module, actions) == {module} \X actions
Each(handlers, module, action) == [h \in handlers |-> {<<module, action>>}]
Open(handlers) == [h \in handlers |-> {}]         \* a token is enough

-----------------------------------------------------------------------------
(* The controllers: what each handler requires. *)

PurchaseRequestController ==
    Each({"create", "submit"}, "PURCHASE", "CREATE") @@
    Each({"search", "findById"}, "PURCHASE", "READ") @@
    Each({"update"}, "PURCHASE", "UPDATE") @@
    Each({"approve", "reject"}, "PURCHASE", "APPROVE") @@
    Each({"cancel", "delete"}, "PURCHASE", "DELETE")

PurchaseOrderController ==
    Each({"create", "submit"}, "PURCHASE", "CREATE") @@
    Each({"search", "findById"}, "PURCHASE", "READ") @@
    Each({"approve", "reject"}, "PURCHASE", "APPROVE") @@
    Each({"revise", "close"}, "PURCHASE", "UPDATE") @@
    Each({"cancel"}, "PURCHASE", "DELETE") @@
    Each({"receiveGoods"}, "INVENTORY", "CREATE")

GoodsReceiptController ==
    Each({"create"}, "INVENTORY", "CREATE") @@
    Each({"search", "findById", "findByPurchaseOrder"}, "INVENTORY", "READ") @@
    Each({"confirm"}, "INVENTORY", "UPDATE") @@
    Each({"cancel"}, "INVENTORY", "DELETE")

PurchaseReturnController ==
    Each({"create"}, "PURCHASE", "CREATE") @@ Each({"list", "findById"}, "PURCHASE", "READ")

ApprovalController ==
    Each({"listPending", "listHistory", "approve", "reject"}, "PURCHASE", "APPROVE")

SalesOrderController ==
    Each({"create"}, "SALES", "CREATE") @@
    Each({"approve"}, "SALES", "APPROVE") @@
    Each({"fulfill"}, "SALES", "FULFILL") @@
    Each({"createReturn"}, "SALES", "RETURN") @@
    Each({"search", "findById", "listDeliveryOrders", "getDeliveryOrder"}, "SALES", "READ")

PosController ==
    Each({"getConfig", "listShifts", "getShift", "listTransactions", "listSalesReturns"},
         "POS", "READ") @@
    Each({"openShift", "processTransaction", "createSalesReturn"}, "POS", "CREATE") @@
    Each({"closeShift"}, "POS", "UPDATE") @@
    Each({"voidTransaction"}, "POS", "DELETE")

InvoiceController ==
    Each({"createSalesInvoice", "createPurchaseInvoice", "createCreditNote", "createDebitNote"},
         "INVOICE", "CREATE") @@
    Each({"post"}, "INVOICE", "POST") @@
    Each({"writeOff"}, "INVOICE", "WRITE_OFF") @@
    Each({"dispute", "cancel"}, "INVOICE", "UPDATE") @@
    Each({"search", "findById"}, "INVOICE", "READ")

PaymentController ==
    Each({"registerPayment"}, "PAYMENT", "CREATE") @@
    Each({"approve"}, "PAYMENT", "APPROVE") @@
    Each({"post"}, "PAYMENT", "POST") @@
    Each({"reverse"}, "PAYMENT", "REVERSE") @@
    Each({"search", "findById"}, "PAYMENT", "READ")

BankReconciliationController ==
    Each({"uploadStatement", "confirmReconciliation"}, "ACCOUNTING", "UPDATE")

AccountingController ==
    Each({"getAllPeriods", "getPeriodChecklist"}, "PERIOD", "VIEW") @@
    Each({"createPeriod"}, "PERIOD", "CREATE") @@
    Each({"closePeriod"}, "PERIOD", "CLOSE") @@
    Each({"getRecentJournalEntries"}, "JOURNAL", "VIEW") @@
    Each({"createJournalEntry"}, "JOURNAL", "CREATE")

ArController == Each({"getOutstanding"}, "INVOICE", "VIEW")
ApController == Each({"getOutstanding"}, "INVOICE", "VIEW")
CashBankController ==
    Each({"getPosition"}, "JOURNAL", "VIEW") @@
    Each({"recordCashIn", "recordCashOut", "recordTransfer"}, "JOURNAL", "CREATE")
TaxController ==
    Each({"getTaxSummary"}, "JOURNAL", "VIEW") @@ Each({"recordTaxPayment"}, "JOURNAL", "CREATE")
ExpenseController ==
    Each({"getExpenseSummary"}, "JOURNAL", "VIEW") @@ Each({"recordExpense"}, "JOURNAL", "CREATE")
FixedAssetController == Each({"findAll", "create", "runDepreciation"}, "FINANCE", "MANAGE")

InventoryController ==
    Each({"transferStock"}, "INVENTORY", "UPDATE") @@
    Each({"adjustStock"}, "STOCK", "ADJUST") @@
    Each({"getLedger"}, "INVENTORY", "READ")
StockTransferController == Each({"listTransfers", "transferStock"}, "STOCK", "TRANSFER")
StockOpnameController ==
    Each({"findAll", "findOne", "initiate", "recordCount", "finalize"}, "STOCK", "OPNAME")

\* create, search and findById, update and deactivate of a master table.
Master(module) ==
    Each({"create"}, module, "CREATE") @@ Each({"search", "findById"}, module, "READ") @@
    Each({"update"}, module, "UPDATE") @@ Each({"deactivate"}, module, "DELETE")

ProductController == Master("INVENTORY")
SupplierController == Master("PURCHASE")
CustomerController == Master("SALES") @@ Each({"getRemainingCredit"}, "SALES", "READ")
WarehouseController ==
    [h \in {"create"} |-> {<<"INVENTORY", "CREATE">>, <<"ADMIN", "SETTINGS">>}] @@
    Each({"lock", "unlock"}, "STOCK", "OPNAME") @@ Master("INVENTORY")
PriceListController ==
    Each({"createPriceList"}, "SALES", "CREATE") @@
    Each({"search", "findById", "getActivePrice"}, "SALES", "READ") @@
    Each({"updatePriceList", "updatePrices"}, "SALES", "UPDATE") @@
    Each({"deactivate"}, "SALES", "DELETE")
CoaController ==
    Each({"create"}, "ACCOUNTING", "CREATE") @@
    Each({"findAll", "getTree", "findById"}, "ACCOUNTING", "READ") @@
    Each({"update"}, "ACCOUNTING", "UPDATE") @@
    Each({"softDelete"}, "ACCOUNTING", "DELETE")
UomController ==
    Open({"findAll", "findById"}) @@
    Each({"create"}, "PRODUCT", "CREATE") @@ Each({"update"}, "PRODUCT", "UPDATE") @@
    Each({"delete"}, "PRODUCT", "DELETE")
CategoryController == Open({"findAll", "create", "delete"})
OrganizationController ==
    Each({"createHeadOffice", "createBranch", "updateBranch"}, "ADMIN", "SETTINGS") @@
    Open({"listBranches", "getHierarchy", "getChildren"})

ReportingController ==
    Each({"getExecutiveDashboard", "getRecentActivities"}, "REPORT", "EXECUTIVE") @@
    Each({"getTrialBalance", "getIncomeStatement", "getBalanceSheet", "getCashFlow",
          "getCashFlowStatement", "getARAgingReport", "getAPAgingReport",
          "getStockPositionReport", "getStockMovementReport", "getSalesReport",
          "getSalesTrend", "getMonthlySalesTrend", "getShiftReport"}, "REPORT", "FINANCIAL")
AdminController ==
    Each({"getUsers", "createUser", "updateUser", "resetPassword", "getRoles", "createRole",
          "updateRole", "getPermissions"}, "ADMIN", "USER")
AuditController == Each({"query"}, "ADMIN", "USER")

Controllers == [
    PurchaseRequest |-> PurchaseRequestController, PurchaseOrder |-> PurchaseOrderController,
    GoodsReceipt |-> GoodsReceiptController, PurchaseReturn |-> PurchaseReturnController,
    Approval |-> ApprovalController, SalesOrder |-> SalesOrderController,
    Pos |-> PosController, Invoice |-> InvoiceController, Payment |-> PaymentController,
    BankReconciliation |-> BankReconciliationController,
    Accounting |-> AccountingController, Ar |-> ArController, Ap |-> ApController,
    CashBank |-> CashBankController, Tax |-> TaxController, Expense |-> ExpenseController,
    FixedAsset |-> FixedAssetController, Inventory |-> InventoryController,
    StockTransfer |-> StockTransferController, StockOpname |-> StockOpnameController,
    Product |-> ProductController, Supplier |-> SupplierController,
    Customer |-> CustomerController, Warehouse |-> WarehouseController,
    PriceList |-> PriceListController, Coa |-> CoaController, Uom |-> UomController,
    Category |-> CategoryController, Organization |-> OrganizationController,
    Reporting |-> ReportingController, Admin |-> AdminController, Audit |-> AuditController]

Endpoints == UNION {{c} \X DOMAIN Controllers[c] : c \in DOMAIN Controllers}
Required(e) == Controllers[e[1]][e[2]]

-----------------------------------------------------------------------------
(* The roles. *)

\* PERMISSION_DEFINITIONS: what controllers enforce.
PermissionKeys ==
    Of("PURCHASE", {"READ", "CREATE", "UPDATE", "DELETE", "APPROVE"}) \cup
    Of("INVENTORY", {"READ", "CREATE", "UPDATE", "DELETE"}) \cup
    Of("SALES", {"READ", "CREATE", "UPDATE", "DELETE", "APPROVE", "FULFILL", "RETURN"}) \cup
    Of("POS", {"READ", "CREATE", "UPDATE", "DELETE"}) \cup
    Of("INVOICE", {"READ", "VIEW", "CREATE", "UPDATE", "POST", "WRITE_OFF"}) \cup
    Of("PAYMENT", {"READ", "CREATE", "APPROVE", "POST", "REVERSE"}) \cup
    Of("ACCOUNTING", {"READ", "CREATE", "UPDATE", "DELETE"}) \cup
    Of("PERIOD", {"VIEW", "CREATE", "CLOSE"}) \cup
    Of("JOURNAL", {"VIEW", "CREATE", "REVERSE"}) \cup
    Of("FINANCE", {"MANAGE"}) \cup Of("STOCK", {"ADJUST", "OPNAME", "TRANSFER"}) \cup
    Of("REPORT", {"FINANCIAL", "EXECUTIVE"}) \cup Of("ADMIN", {"SETTINGS", "USER"}) \cup
    Of("PRODUCT", {"CREATE", "UPDATE", "DELETE"})

\* ROLE_PERMISSIONS, with what the seed pushes to it, restricted to the modules and
\* actions of PermissionKeys: no handler requires another one.
RolePermissions == [
    Owner |-> PermissionKeys,
    Sys_Admin |->
        Of("ADMIN", {"SETTINGS", "USER"}) \cup
        {"PURCHASE", "INVENTORY", "SALES", "POS", "INVOICE", "PAYMENT", "ACCOUNTING"} \X {"READ"},
    Finance_Manager |->
        Of("PURCHASE", {"READ", "APPROVE"}) \cup Of("INVENTORY", {"READ"}) \cup
        Of("SALES", {"READ", "APPROVE"}) \cup Of("POS", {"READ"}) \cup
        Of("INVOICE", {"READ", "CREATE", "UPDATE", "POST", "WRITE_OFF", "VIEW"}) \cup
        Of("PAYMENT", {"READ", "CREATE", "APPROVE", "POST", "REVERSE"}) \cup
        Of("ACCOUNTING", {"READ", "CREATE", "UPDATE", "DELETE"}) \cup
        Of("REPORT", {"FINANCIAL", "EXECUTIVE"}) \cup
        Of("JOURNAL", {"REVERSE", "VIEW", "CREATE"}) \cup
        Of("PERIOD", {"CLOSE", "VIEW", "CREATE"}) \cup Of("FINANCE", {"MANAGE"}),
    Finance_Staff |->
        {"PURCHASE", "INVENTORY", "SALES", "POS"} \X {"READ"} \cup
        Of("INVOICE", {"READ", "CREATE", "UPDATE", "POST", "VIEW"}) \cup
        Of("PAYMENT", {"READ", "CREATE", "POST"}) \cup
        Of("ACCOUNTING", {"READ", "CREATE", "UPDATE"}) \cup Of("REPORT", {"FINANCIAL"}) \cup
        Of("PERIOD", {"VIEW"}) \cup Of("JOURNAL", {"VIEW", "CREATE"}),
    Warehouse_Manager |->
        {"PURCHASE", "SALES", "POS"} \X {"READ"} \cup
        Of("INVENTORY", {"READ", "CREATE", "UPDATE"}) \cup
        Of("STOCK", {"ADJUST", "OPNAME", "TRANSFER"}),
    Warehouse_Staff |->
        {"PURCHASE", "SALES", "POS"} \X {"READ"} \cup
        Of("INVENTORY", {"READ", "CREATE", "UPDATE"}),
    Cashier |-> Of("POS", {"READ", "CREATE"}) \cup {"INVENTORY", "SALES"} \X {"READ"},
    Supervisor |->
        Of("POS", {"READ", "CREATE", "UPDATE", "DELETE"}) \cup Of("INVENTORY", {"READ"}) \cup
        Of("SALES", {"READ", "APPROVE", "RETURN"}) \cup Of("PURCHASE", {"READ", "APPROVE"}),
    Purchasing_Staff |->
        Of("PURCHASE", {"READ", "CREATE", "UPDATE"}) \cup {"INVENTORY", "SALES"} \X {"READ"} \cup
        Of("PRODUCT", {"CREATE", "UPDATE"}),
    Auditor |->
        {"PURCHASE", "INVENTORY", "SALES", "POS", "INVOICE", "PAYMENT", "ACCOUNTING"} \X {"READ"}
            \cup Of("REPORT", {"FINANCIAL"})]

Roles == DOMAIN RolePermissions

-----------------------------------------------------------------------------
(* The guards. *)

\* getUserPermissions: what the user's roles hold; the copy RbacService keeps of it is in
\* Cache.
UserPermissions(roles) == UNION {RolePermissions[r] : r \in roles}

\* hasAllPermissions, from RbacGuard: nothing required is nothing to hold.
Served(roles, e) == Required(e) \subseteq UserPermissions(roles)
=============================================================================
