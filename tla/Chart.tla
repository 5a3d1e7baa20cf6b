-------------------------------- MODULE Chart --------------------------------
(***************************************************************************)
(* The chart of accounts and the journal templates that the seeds install, *)
(* and the lines of the entries that the services post: from the template  *)
(* of an event, or given by the caller.  The lines of an entry are the net *)
(* debit of each account.                                                  *)
(*                                                                         *)
(* Of the chart there are the accounts that some entry uses.  Factory is   *)
(* JournalEventFactory, which nothing but its tests calls.                 *)
(***************************************************************************)
EXTENDS Integers, Functions

CashAccounts == {"petty_cash", "bank", "operating_bank"}
OtherAssets == {"receivables", "inventory", "receipt_clearing"}
OtherCosts == {"opname_loss", "bad_debts", "stock_variance", "bank_variance"}

\* The account_type of the seed.
AccountsOf ==
    [ASSET |-> CashAccounts \cup OtherAssets \cup {"depreciation"},
     LIABILITY |-> {"payables", "tax_payable"},
     EQUITY |-> {"retained_earnings", "income_summary"},
     REVENUE |-> {"sales", "sales_returns"},
     OTHER_INCOME |-> {"other_income", "opname_gain"},
     COGS |-> {"cost_of_sales"},
     EXPENSE |-> {"operating_cost", "depreciation_cost"},
     OTHER_EXPENSE |-> OtherCosts]

Accounts == UNION {AccountsOf[t] : t \in DOMAIN AccountsOf}

\* Accumulated depreciation and sales returns are against the balance of their type.
Normal(a) ==
    IF \/ /\ a \in AccountsOf.ASSET \cup AccountsOf.COGS \cup AccountsOf.EXPENSE
                    \cup AccountsOf.OTHER_EXPENSE
          /\ a # "depreciation"
       \/ a = "sales_returns"
    THEN "DEBIT" ELSE "CREDIT"

Category(a) ==
    CASE a \in CashAccounts -> "CASH"
      [] a = "receipt_clearing" -> "CLEARING"
      [] OTHER -> "none"

-----------------------------------------------------------------------------
(* Templates: event, debit account and credit account *)

PurchaseTemplates ==
    {<<"GOODS_RECEIPT", "inventory", "receipt_clearing">>,
     <<"SUPPLIER_INVOICE", "receipt_clearing", "payables">>,
     <<"PURCHASE_PAYMENT", "payables", "bank">>}

SalesTemplates ==
    {<<"SALES_INVOICE", "receivables", "sales">>,
     <<"SALES_INVOICE_COGS", "cost_of_sales", "inventory">>,
     <<"POS_SALE", "petty_cash", "sales">>,
     <<"POS_SALE_COGS", "cost_of_sales", "inventory">>}

SettlementTemplates ==
    {<<"SALES_RETURN", "sales_returns", "receivables">>,
     <<"SALES_RETURN_STOCK", "inventory", "cost_of_sales">>,
     <<"PAYMENT_RECEIPT", "bank", "receivables">>}

StockTemplates ==
    {<<"STOCK_ADJUSTMENT_POSITIVE", "inventory", "stock_variance">>,
     <<"STOCK_ADJUSTMENT_NEGATIVE", "stock_variance", "inventory">>,
     <<"STOCK_OPNAME_SURPLUS", "inventory", "opname_gain">>,
     <<"STOCK_OPNAME_DEFICIT", "opname_loss", "inventory">>}

ClosingTemplates ==
    {<<"PERIOD_CLOSING_REVENUE", "sales", "income_summary">>,
     <<"PERIOD_CLOSING_EXPENSE", "income_summary", "operating_cost">>,
     <<"PERIOD_CLOSING_NET", "income_summary", "retained_earnings">>,
     <<"DEPRECIATION", "depreciation_cost", "depreciation">>,
     <<"BANK_RECONCILIATION_ADJ", "bank_variance", "bank">>,
     <<"WRITE_OFF_AR", "bad_debts", "receivables">>}

\* A void takes back the entry of a sale.
VoidTemplates ==
    {<<"POS_SALE_REVERSAL", "sales", "petty_cash">>,
     <<"POS_SALE_COGS_REVERSAL", "inventory", "cost_of_sales">>}

CashTemplates ==
    {<<"CASH_IN", "bank", "other_income">>,
     <<"CASH_OUT", "operating_cost", "bank">>,
     <<"EXPENSE_PAYMENT", "operating_cost", "bank">>,
     <<"TAX_PAYMENT", "tax_payable", "bank">>,
     <<"INTER_ACCOUNT_TRANSFER", "operating_bank", "bank">>}

FactoryTemplates ==
    PurchaseTemplates \cup SalesTemplates \cup SettlementTemplates \cup StockTemplates
        \cup ClosingTemplates

\* seedJournalTemplates: one row for an event, both of its accounts in the chart.
Templates ==
    {t \in FactoryTemplates \cup VoidTemplates \cup CashTemplates : {t[2], t[3]} \subseteq Accounts}

Template(event) == CHOOSE t \in Templates : t[1] = event

-----------------------------------------------------------------------------
(* Lines: the net debit of each account *)

Debit(account, amount) == [a \in Accounts |-> IF a = account THEN amount ELSE 0]
Credit(account, amount) == Debit(account, -amount)
And(lines, more) == [a \in Accounts |-> lines[a] + more[a]]
Total(lines) == SumFunction(lines)

Pair(debit, credit, amount) == And(Debit(debit, amount), Credit(credit, amount))

\* processEvent without lines: the whole amount, tax included, on two accounts.
TemplateLines(event, amount) == Pair(Template(event)[2], Template(event)[3], amount)

\* Mutant: the tax is left in the revenue.
PosSaleLinesGross(amount, tax, sign) == Pair("petty_cash", "sales", sign * amount)

\* buildPosSaleJournalLines, of a sale (sign 1) or of its void (sign -1).
PosSaleLines(amount, tax, sign) ==
    And(Debit("petty_cash", sign * amount),
        And(Credit("sales", sign * (amount - tax)), Credit("tax_payable", sign * tax)))

PosSales == [POS_SALE |-> 1, POS_SALE_REVERSAL |-> -1]

\* The lines that the services post for an event of amount, of which tax is tax.
EntryLines(event, amount, tax) ==
    IF event \in DOMAIN PosSales THEN PosSaleLines(amount, tax, PosSales[event])
    ELSE TemplateLines(event, amount)

-----------------------------------------------------------------------------
(* JournalEventFactory: a function for each event, given the accounts of the seeds *)

GoodsReceiptEvent(value) == Pair("inventory", "receipt_clearing", value)
SupplierInvoiceEvent(total) == Pair("receipt_clearing", "payables", total)
PurchasePaymentEvent(amount) == Pair("payables", "bank", amount)

SalesInvoiceEvent(subtotal, tax) ==
    And(Debit("receivables", subtotal + tax),
        And(Credit("sales", subtotal), Credit("tax_payable", tax)))

SalesInvoiceCOGSEvent(cost) == Pair("cost_of_sales", "inventory", cost)

\* payments: what each account brings; unbalanced unless they bring subtotal and tax.
POSSaleEvent(payments, subtotal, tax) ==
    And(payments, And(Credit("sales", subtotal), Credit("tax_payable", tax)))

POSSaleCOGSEvent(cost) == Pair("cost_of_sales", "inventory", cost)

SalesReturnEvent(subtotal, tax) ==
    And(And(Debit("sales_returns", subtotal), Debit("tax_payable", tax)),
        Credit("receivables", subtotal + tax))

SalesReturnStockEvent(value) == Pair("inventory", "cost_of_sales", value)
PaymentReceiptEvent(amount) == Pair("bank", "receivables", amount)
StockAdjustmentPositiveEvent(value) == Pair("inventory", "stock_variance", value)
StockAdjustmentNegativeEvent(value) == Pair("stock_variance", "inventory", value)
StockOpnameSurplusEvent(value) == Pair("inventory", "opname_gain", value)
StockOpnameDeficitEvent(value) == Pair("opname_loss", "inventory", value)
PeriodClosingRevenueEvent(revenue) == Pair("sales", "income_summary", revenue)
PeriodClosingExpenseEvent(expenses) == Pair("income_summary", "operating_cost", expenses)

\* A loss takes the income summary from the retained earnings.
PeriodClosingNetEvent(income) ==
    IF income >= 0 THEN Pair("income_summary", "retained_earnings", income)
    ELSE Pair("retained_earnings", "income_summary", -income)

DepreciationEvent(amount) == Pair("depreciation_cost", "depreciation", amount)

BankReconciliationAdjEvent(amount, bankHigher) ==
    IF bankHigher THEN Pair("bank", "bank_variance", amount)
    ELSE Pair("bank_variance", "bank", amount)

WriteOffAREvent(amount) == Pair("bad_debts", "receivables", amount)

FactoryEvents == {t[1] : t \in FactoryTemplates \cap Templates}

\* The lines of an event of amount, of which tax is tax.
Factory(event, amount, tax) ==
    CASE event = "GOODS_RECEIPT" -> GoodsReceiptEvent(amount)
      [] event = "SUPPLIER_INVOICE" -> SupplierInvoiceEvent(amount)
      [] event = "PURCHASE_PAYMENT" -> PurchasePaymentEvent(amount)
      [] event = "SALES_INVOICE" -> SalesInvoiceEvent(amount - tax, tax)
      [] event = "SALES_INVOICE_COGS" -> SalesInvoiceCOGSEvent(amount)
      [] event = "POS_SALE" -> POSSaleEvent(Debit("petty_cash", amount), amount - tax, tax)
      [] event = "POS_SALE_COGS" -> POSSaleCOGSEvent(amount)
      [] event = "SALES_RETURN" -> SalesReturnEvent(amount - tax, tax)
      [] event = "SALES_RETURN_STOCK" -> SalesReturnStockEvent(amount)
      [] event = "PAYMENT_RECEIPT" -> PaymentReceiptEvent(amount)
      [] event = "STOCK_ADJUSTMENT_POSITIVE" -> StockAdjustmentPositiveEvent(amount)
      [] event = "STOCK_ADJUSTMENT_NEGATIVE" -> StockAdjustmentNegativeEvent(amount)
      [] event = "STOCK_OPNAME_SURPLUS" -> StockOpnameSurplusEvent(amount)
      [] event = "STOCK_OPNAME_DEFICIT" -> StockOpnameDeficitEvent(amount)
      [] event = "PERIOD_CLOSING_REVENUE" -> PeriodClosingRevenueEvent(amount)
      [] event = "PERIOD_CLOSING_EXPENSE" -> PeriodClosingExpenseEvent(amount)
      [] event = "PERIOD_CLOSING_NET" -> PeriodClosingNetEvent(amount)
      [] event = "DEPRECIATION" -> DepreciationEvent(amount)
      [] event = "BANK_RECONCILIATION_ADJ" -> BankReconciliationAdjEvent(amount, FALSE)
      [] event = "WRITE_OFF_AR" -> WriteOffAREvent(amount)
=============================================================================
