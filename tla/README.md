# Verification of the inventory, POS and finance backend

TLA+ models of the backend under `src/src` (NestJS services over PostgreSQL
through Prisma) and of the part of the frontend that shares its protocols,
model-checked with TLC on small instances and, but for liveness and the
permissions of the pages, proved with TLAPS for all instances. The models are about what the unit tests of the repository
hardly reach: requests that interleave between the statements of their
handlers, transactions that fail or are retried half-way, rows that arrive out
of order, copies that outlive what they were copied from.

Paths below are relative to the repository (`src/...`) or to this directory.

## 1. The system

One Node process serves HTTP requests. Handlers interleave at every `await`,
so two requests are two sessions of the database. Almost all state is in
PostgreSQL at its default isolation, READ COMMITTED: a statement sees what is
committed when it begins, and nothing read without a lock stays true. Prisma's
interactive `$transaction` commits when its callback returns and rolls back
when it throws, or after five seconds. Redis, with a map in memory behind it,
keeps copies and sessions; the browser keeps tokens in `localStorage`.

### Inventory of components

| Component | State | Operations | Hard part |
|---|---|---|---|
| Inventory (`inventory.service.ts`) | `inventory_ledger`, append-only | `transferStock`, `adjustStock`, `recordMovement`, `lockWarehouse`, queries | locks on products with NOWAIT, three attempts, several lines per transaction |
| Stock opname | `stock_opnames` with lines, `warehouses.is_locked` | `initiate`, `recordCount`, `requestRecount`, `finalize` | finalize is three transactions; reads before writes |
| Point of sale | `shifts`, `pos_transactions`, `sales_returns` | shifts, `processFullTransaction`, void, returns | a checkout is a chain of transactions; status and version are checked on what was read |
| Sales orders | `sales_orders`, `delivery_orders` | create, approve, fulfill, return | deliveries in parts, read before the lock |
| Purchasing | requests, orders, receipts, returns | status machines, receive, confirm, cancel | every check is before the transaction; two receipts of one order |
| Approvals | `approval_requests` with steps | approve, reject | the last two approvers |
| Invoicing | invoices, payments, allocations, notes | post, pay, allocate, reverse, note, write off | amounts computed from stale rows |
| Three-way matching | none | match at creation and posting | tolerance, several lines |
| Bank reconciliation (two services) | `bank_statements.matched_payment_id` | propose, confirm, match | proposals that are old when confirmed |
| Journal engine, period manager, accounting | `journal_entries`, `fiscal_periods` | post, reverse, open and close periods | posting while a period closes; repeated events |
| Cash, expenses, tax, fixed assets | entries, `fixed_assets` | cash in and out, depreciation | entry outside the asset's transaction |
| Reporting | none | sums over POSTED entries | must agree with the journal and with each other |
| Numbering | `document_sequences` | `generate` | upsert repeated when its answer is lost |
| Idempotency interceptor | in-flight map, cache | intercept | parallel requests with one key, process ends |
| Cache | Redis, memory | get, set, del | readers across an update, Redis down |
| Auth and client | refresh tokens, `localStorage`, `failedQueue` | refresh, logout, change of password | several tabs, rotation |
| Master data, chart of accounts, price lists | rows with codes, tree, prices | create, update, delete | look-ups before writes, cached prices |
| Controllers, RBAC, pages | roles and permissions; the drawer of a receipt | one call per button, two for a receipt | statuses, permissions and buttons are three lists kept by hand |
| Audit, export, administration | own rows or none | inserts, formatting | no protocol between them |

How they interact: POS, sales orders, purchasing and opname all append to the
one ledger table and agree only through the lock on the product row (which
`createSalesReturn`, goods receipts and purchase returns do not take);
finalize of an opname calls `adjustStock`; every document takes its number
from numbering; POS, receipts, invoices and payments call the journal engine
inside their own transaction, depreciation outside; movements read the lock
flag of warehouses that opname and the warehouse service write; every posting
asks the period manager.

What makes each correct is in section 3. `PROJECT.json` lists the hazards at
their lines, each with the property that covers it.

### Which database

The SQL migrations contain checks and partial unique indexes that
`schema.prisma` does not have, and `FINAL_PRODUCTION_READINESS_REPORT.md:42`
and `RELEASE_DISCOVERY_REPORT.md:75` record that the database was created with
`db push`. The models take the database of `schema.prisma`: a check that only
the migrations have refuses nothing here. In particular nothing but `openShift`
itself keeps a cashier from having two open shifts.

## 2. Modules

| Module | Models | Run |
|---|---|---|
| `StockLedger` | the ledger of one product in one warehouse, as the answers to the three queries of the services | all with stock |
| `LedgerRows` | its rows, beside the summary | back_office |
| `StockTx` | transactions on stock: row locks, uncommitted rows, commit, rollback; lemmas on them | inventory, opname, pos |
| `Inventory` | `InventoryService`, lock and unlock of warehouses | inventory, opname |
| `AtomicStock` | what it promises; `Inventory` states the refinement | inventory |
| `StockOpname` | `StockOpnameService` beside `Inventory` | opname |
| `Pos` | shifts, checkout, void of `POSService`, with their journal entries | pos |
| `Sales` | `SalesOrderService`, `createSalesReturn` | sales |
| `Procurement` | purchase orders, goods receipts, purchase returns | procurement |
| `PurchaseRequests`, `Approvals` | their services | procurement |
| `Billing` | invoices, payments, notes | billing |
| `Matching`, `BankMatching` | three-way match, bank statements | back_office |
| `JournalEngine` | `processEvent` inside a caller's transaction | pos, procurement, billing, books |
| `Books` | periods, manual entries, reversals, closing | books |
| `Treasury` | cash, expenses, tax, depreciation | books |
| `Chart`, `Reports` | accounts, templates, lines of entries; the reports | books, back_office |
| `Access` | permissions of the handlers of all business controllers, roles of the seed, guards | services |
| `Pages` | buttons and forms of the frontend and statuses of documents, over `Access` | services |
| `Idempotency`, `Cache`, `Sessions` | the interceptor; `CacheService`; `AuthService` and `lib/api.ts` | services |
| `Services` | composes `Idempotency`, `Cache`, `Sessions` and `Pages` | services |
| `Numbering` | `NumberingService` | back_office |
| `AccountTree`, `MasterData`, `PriceLists`, `Calculations` | chart of accounts; tables with codes; prices; levels and totals | back_office |
| `BackOffice` | composes the modules of the run `back_office` | back_office |
| `SumProofs` | lemmas on finite sums | |
| `InventoryProofs` | theorems about `Inventory` and `StockOpname` | |
| `PosProofs` | theorems about `Pos` | |
| `SalesProofs` | theorems about `Sales` | |
| `BillingProofs` | theorems about `Billing`, `Matching`, `BankMatching`, `Chart` and `Reports` | |
| `ProcurementProofs` | theorems about `Procurement`, `Approvals` and `PurchaseRequests` | |
| `ServicesProofs` | theorems about `Books`, `Treasury`, `Numbering`, `Idempotency`, `Cache`, `Sessions`, `AccountTree`, `MasterData`, `PriceLists`, `Calculations` and `LedgerRows` | |

A run composes modules that interact by EXTENDS (`Pos` with `StockTx` and
`JournalEngine`, `StockOpname` with `Inventory`, `Procurement` with the ledger
and the journal). Modules that share no state are checked in one run all the
same: a variable (`service`, `topic`, `scope`, `part`) is chosen in the initial
state and only the actions of that module run, so that the state space is the
sum of theirs. `Services` and `BackOffice` do so for any values of the
constants, with one instance of each module, because several use the same
names; the theorems about these modules are theorems of the composition.

### How calls are modelled

A handler is cut exactly where another one can come between and be seen:

- *read, then write.* A handler that checks first and writes in a transaction
  of its own, by id, is two actions; what was read is kept in the state of the
  call (`call[c].seen`, `asking`, `clerk`). This is the form of `Procurement`,
  `PurchaseRequests`, `Approvals`, `Billing`, `BankMatching`, `Books`,
  `AccountTree`, `MasterData`, `PriceLists`.
- *locks.* Where row locks order transactions, acquiring them is a step of its
  own: products with NOWAIT and retry in `Inventory`, `Pos`, `Sales`; the
  UPDATE of an order line and of an order, which block until COMMIT, in
  `Procurement`.
- *rows of an open transaction.* `own[s]` of `StockTx` holds what a session has
  written and not committed. A read sees committed rows plus the session's
  own; `CommitRows` publishes and releases in one step, `Rollback` drops.
- *awaits without a database.* `Idempotency`, `Cache`, `Sessions` are cut at
  every `await` of the handler.

A *history* variable (`overlapped`, `history`, `met`, `odd`, `late`, `crossed`,
`changed`) is read by no action. It records that two calls met at a document,
or that another case occurred in which the code does not keep a property, so
that the property can be stated for all other behaviours, and says in its
comment what it excepts.

### StockLedger and StockTx

Nothing reads single ledger rows: the services use the sum of
`qty_in - qty_out`, the row written last, and the row last by
`movement_date` (then `created_at`). A summary record keeps these answers, so
the table does not grow the state. `LedgerRows` keeps the rows themselves
beside the summary and checks that the two agree.

Costs are left out: they are computed from the same reads, and no guard
depends on them. `created_at` is taken to follow the order of commits of a
product's rows, which the product lock implies for the services that take it;
for the others the order of commits is an assumption.

### Inventory

A session goes through `idle`, `begin` (before `is_locked` is read), `lock`
and `lines`. Each database statement that others can see or that sees others
is a step: reading the warehouses, every product lock, every line, the commit.
`LockRefused` is the NOWAIT error with the retry; any other error
(`...Refused`, `TxFails`) leaves the handler. `recordMovement` is the same
machine with a blocking lock, no warehouse check, and the balance read from
the row last by date. It has no caller at this commit; it is modelled because
it is the documented entry point of the service.

`AtomicStock` is the abstract specification: clients ask, and an answer either
takes the whole effect of the request on the stock at once, if no quantity
becomes negative, or none. `ServedAtomically` of `Inventory` maps `stock` to
the committed sums and a session's answer to what the client is told. Locks, attempts,
rollbacks, lines and lock flags are all stuttering steps.

### StockOpname

`initiate` and `recordCount` are a read step and a write step. `finalize` is
`FinalizeCheck` or `FinalizeAdjust`, then the whole machine of `adjustStock`
(the clerk's session runs it), then `Complete` or `CompleteFails`. The lock
and unlock of `WarehouseService` are `LockByHand` and `UnlockByHand`.

### Pos and Sales

`NextLink` is the loop of `processFullTransaction`: it reads the version of
the sale anew before every `addItem` and before `applyPayment`. Each `addItem`
is `AddRead` (status and version), the lock with its attempts, `AddWrite`
(stock check and rows), `AddCommit`. `applyPayment` is `PayRead` and
`PayCommit`; the second writes over whatever the sale has become, as an UPDATE
by id does. A void is `VoidRead`, the locks of its products, `VoidWrite`,
`VoidCommit`. Payments are in cash, opening balances 0, prices fixed.
`holdTransaction`, `resumeTransaction` and `forceCloseShift` are reached by no
route; they are single steps of the sessions in `Unrouted`.

In `Sales` a transaction that holds its products is one step from there on:
only `createSalesReturn`, which locks nothing, could write to them, and it
only adds stock. A body of a delivery may name a line in several parts: each is
checked by itself against what the order still had when it was read. `create` inserts the branch as the warehouse and the customer
as the author (see section 5), so the instance has ids that are in two tables.

### Numbering, Books, Reports

The upsert of numbering is atomic. An attempt ends in the answer
(`AtomicIncrement`), an error before the statement took effect
(`IncrementFails`) or after (`AnswerLost`). Formatting keeps type, period and
counter apart, so the text is the triple.

`Books` takes an entry as the net debit it leaves on revenue, expense and all
else, in cents; `Chart` and `Reports` take it as the net debit on each account
of the seeds. The close of a period exists twice, in `PeriodManagerService`
with its checklist and in `AccountingService`, which the route calls, with the
closing entry; both are actions.

`Chart` gives, for every operation that posts, the lines of its entry: those
the service passes or those its template makes of one amount. It also gives
the lines of `JournalEventFactory`, which repeats all of them in one place and
which nothing but its tests calls; `FactoryAgrees` compares the two and names
what the services leave out of the tax accounts.

### Access and Pages

`Access` has one definition per controller: its handlers with the permissions
they require. `Pages` has, for every kind of document, the statuses each call
starts from and leads to (the checks of the services), and for every page the
calls it makes, the statuses it shows the button for, and the lists it must
have been able to read. There is a user per role of the seed. A document
starts new, or with a status that the seeds leave; it is moved by any client
of the API, and at some point left to the pages alone. `CanBeDone` computes
where the users together can still take it. What the calls compute is in the
modules of the services, and so are locks, periods and quantities, by which a
call may be refused for a while.

## 3. What is checked

Passing runs (states with the bounds of the cfg):

| Run | Properties | Shows |
|---|---|---|
| `inventory` (0.14 M) | `TypeOK`, `StockNonNegative`, `RunningIsBalance`, `ServedAtomically`, `RequestsEnd` | two sessions, two products, two warehouses; requests that collide, repeat a product, name products in both orders, wait, run out of stock, fail and are retried |
| `opname` (2.1 M) | `OpnameHolds`, `CompletionIsSettled`, `CompletedIsFinal` | one clerk beside receipts, two opnames, locks and unlocks by hand, counts that fall short, find, agree and are repeated, completions that fail |
| `pos` (3.1 M) | `SoldFromStock`, `CompletedIsPaid`, `JournalFollowsSales` | two tills, two sales, one unit of each product; one session also voids, the other also holds, resumes and forces shifts closed; every step may fail |
| `sales` (2.8 M) | `DeliveriesHold`, `ReturnedWithinSold` | an order of one or two lines in up to three deliveries by two clerks, one of them in two parts of a line, a POS sale with two lines of one product, returns |
| `procurement` (1.8 M) | `ReceiptCountsOnce`, `GoodsHold`, `ApprovalsDecide`, `DecidedIsFinal` | one order of two lines, three kinds of receipts confirmed, cancelled and returned by two sessions; two requests of two clerks; three approvers at two desks |
| `billing` (1.7 M) | `AmountsAddUp`, `JournalFollowsDocuments` | one invoice with everything that changes it, two invoices with payments |
| `books` (0.8 M) | `PeriodsHold`, `PostedOnce`, `ClosedIsSealed`, `AssetsFollowEntries` | one period with three entries, two periods with one; cash; two assets and two runs |
| `services` (0.3 M) | `ExecutedOnce`, `RequestsSettle`, `CopiesAreCurrent`, `OldCopiesGo`, `SessionsHold`, `FetchesEnd`, `WorkGoesOn` | three requests with one key and restarts; two readers and a writer of a key; two tabs and three pairs of tokens; every kind of document, an order with up to two receipts |
| `back_office` (3.0 M) | `NumbersUnique`, `TreeHolds`, `ConflictsAreExpected`, `PricesHold`, `AmountsAgree`, `SummaryAnswersQueries`, `BilledPerLine`, `StatementsMatch`, `ReportsAgree`, `FactoryAgrees` | two callers of numbering; two clerks at accounts and at each table with codes; two lists; amounts around the thresholds; four ledger rows of any dates; seven supplier invoices against receipts; three statements and two payments; three entries of any kind in two periods |

Most properties are conjunctions of named parts, each with its comment in the
module: `ReceiptCountsOnce` is `TypeOK`, `ReceivedAddsUp`,
`StockFollowsDocuments`, `ReceiptPostedOnce` and `RunningIsBalance`, and so on.

Runs that end in a counterexample, each against a sentence of the repository
(quoted in `PROJECT.json` under `findings`):

| Run | What happens |
|---|---|
| `opname_finalize` | an opname with a difference calls `adjustStock`, which refuses the warehouse the opname itself locked |
| `idempotency_at_once` | two requests with one key are both at the await of the cache before one of them enters the in-flight map; both execute |
| `cash_in` | the second receipt of cash on an account finds the entry of the first (the reference is the account) and posts nothing |

### Bounds

Every property concerns one document, or the sum over one product's rows, and
at most two or three calls that contend: a lost update needs two calls, a
retry a third; two products are needed for the order of locks, two warehouses
for transfers, two lines of one product where lines are checked one by one,
three approvers so that two can meet beside a third. The stock is small
because a guard compares it with a quantity, and 0, just enough and too little
all occur. Attempts keep their real limit of three. Amounts around a threshold
or a tolerance are chosen on both sides and on it. The constants named `Max...`
are the bounds; they only stop new requests. Where a run says `CHECK_DEADLOCK
FALSE`, the final states are those in which the bounds allow no further
request.

### Fairness

`Inventory!FairSpec` assumes that a session with a request goes on (weak
fairness of its steps: the event loop and the database make progress), and
that a session waiting for a product row gets it in turn (strong fairness of
`LockProduct`: PostgreSQL queues the waiters of a row). `Idempotency`, `Cache`
and `Sessions` assume weak fairness of the steps of a call that has begun, and
of the expiry of copies. Clients need not send requests, transactions need not
fail, Redis need not come back, and no request is assumed to succeed.

## 4. What is proved

Every theorem holds for all values of the constants that satisfy their
assumptions: any sets of products, warehouses, users, sessions and documents,
any bodies of requests with any number of lines, and no bound on how many
documents there are (the `Max...` constants may be any numbers).

| Theorem | Statement | Assumptions beside those of the constants |
|---|---|---|
| `InventoryProofs!TypeCorrect` | `Spec => []TypeOK` | none |
| `InventoryProofs!StockStaysNonNegative` | `Spec => []StockNonNegative` | `DatesAgree` |
| `InventoryProofs!RunningQtyIsBalance` | `Spec => []RunningIsBalance` | `DatesAgree` |
| `InventoryProofs!InventoryIsAtomic` | `Spec => ServedAtomically` (refinement) | `DatesAgree` |
| `InventoryProofs!OpnameKeepsWarehouse` | `OpnameSpec => []OpnameHolds` | `OneClerk`, `AdjustmentDated`, `DatesAgree` |
| `InventoryProofs!OpnameIsSettled` | `OpnameSpec => CompletionIsSettled` | the same |
| `InventoryProofs!OpnameIsFinal` | `OpnameSpec => CompletedIsFinal` | the same |
| `InventoryProofs!OpnamesKeepStock` | stock is safe beside opnames | `AdjustmentDated`, `DatesAgree` |
| `PosProofs!StockIsSold` | `Spec => []SoldFromStock` | none |
| `PosProofs!SalesArePaid` | `Spec => []CompletedIsPaid` | none |
| `PosProofs!RevenueIsSales` | `Spec => []JournalFollowsSales` | none |
| `SalesProofs!DeliveriesAreHeld` | `Spec => []DeliveriesHold` | none |
| `SalesProofs!ReturnsWithinSold` | `Spec => []ReturnedWithinSold` | none |
| `ProcurementProofs!ReceiptsCountOnce` | `Spec => []ReceiptCountsOnce` | none |
| `ProcurementProofs!GoodsAreHeld` | `Spec => []GoodsHold` | none |
| `BillingProofs!AmountsAreRight` | `Spec => []AmountsAddUp` | none |
| `BillingProofs!JournalIsRight` | `Spec => []JournalFollowsDocuments` | none |
| `ProcurementProofs!EverybodyDecides` | `ApSpec => []ApprovalsDecide` | `Approvers # {}` |
| `ProcurementProofs!RejectionStays` | `ApSpec => RejectedStays` | `Approvers # {}` |
| `ProcurementProofs!DecisionsAreFinal` | `PrSpec => DecidedIsFinal` | none |
| `ServicesProofs!PeriodsAndBalances` | `Spec => []PeriodsHold` | none |
| `ServicesProofs!EventsPostedOnce` | `Spec => []PostedOnce` | none |
| `ServicesProofs!ClosedPeriodsSealed` | `Spec => ClosedIsSealed` | none |
| `ServicesProofs!AssetsAreFollowed` | `TreSpec => []AssetsFollowEntries` | none |
| `ServicesProofs!DocumentNumbersUnique` | `NumSpec => []NumbersUnique` | none |
| `ServicesProofs!ExecutedAtMostOnce` | `ServicesSpec => []ExecutedOnce` | none |
| `ServicesProofs!CachedCopiesAreCurrent` | `ServicesSpec => []CopiesAreCurrent` | none |
| `ServicesProofs!OneSessionPerLoginAndTab` | `ServicesSpec => []SessionsHold` | `MaxPairs \in Nat` |
| `ServicesProofs!ChartHolds` | `OfficeSpec => TreeHolds` | `UpdateFields` |
| `ServicesProofs!CodesAreLookedFor` | `OfficeSpec => []ConflictsAreExpected` | none |
| `ServicesProofs!CachedPricesAreInForce` | `OfficeSpec => []PricesHold` | none |
| `ServicesProofs!CalculationsAgree` | `OfficeSpec => []AmountsAgree` | `InputTypes` |
| `ServicesProofs!SummariesStandForRows` | `OfficeSpec => []SummaryAnswersQueries` | `RowTypes` |
| `BillingProofs!BilledWithinReceipts` | `OfficeSpec => []BilledPerLine` | `OrderTypes` |
| `BillingProofs!StatementsMatchPayments` | `OfficeSpec => []StatementsMatch` | none |
| `BillingProofs!ReportsAgreeWithJournal` | `OfficeSpec => []ReportsAgree` | `ReportTypes` |
| `BillingProofs!EntriesAsFactory` | `OfficeSpec => []FactoryAgrees` | `ReportTypes` |

`ServicesSpec` and `OfficeSpec` are the compositions `Services` and
`BackOffice`. A step of a composition is a step of one instance and leaves the
variables of the others (`ServicesMove`, `OfficeMoves`), so that an invariant
of an instance is one of the composition; the fairness in `ServicesSpec` is not
used. The assumptions
`UpdateFields`, `RowTypes`, `OrderTypes`, `InputTypes` and `ReportTypes` only
give types to the inputs: an update gives no state,
quantities, prices, percentages, tax and dates are natural numbers (deltas and
running quantities integers), bills and periods are finitely many, an
order's products are products, and events are events that have a template. The `MaxPairs` of
`Sessions` bounds the tokens that are ever issued and may be any number.

Each proof module begins with its inductive invariant and says why the property
alone is not inductive; then come lemmas about the operators, one lemma per
action, and the theorems.

**Sums.** The services add up lines, deliveries, receipts and rows; the models
write such a sum with `SumFunction` of the community modules, a fold in an
order of its own. `SumProofs` proves of it what the other proofs cite: a term
can be taken out or put in, one term can be changed, equal terms have equal
sums, a sum of naturals is one, a sum over a sequence grows by what is appended
(`Weigh`). An induction over the size of a set cannot be cited from the
library, whose theorems take an operator; the proofs take a smallest
counterexample instead, which its theorem on well-founded relations gives.

**Inventory.** `StockNonNegative` and `RunningIsBalance` say nothing of rows
that are written and not committed. `StockInv` adds that a session in its lines
holds the locks of all its products (`LockInv`), that it has written nothing
before its first line (`FreshInv`), and that uncommitted rows belong to locked
products, end with a running quantity equal to committed sum plus own rows, and
leave it non-negative (`OwnInv`). Since a product row has one holder, a commit
of one session does not disturb `OwnInv` of another. `DatedInv` ties the row
last by date to the row written last while dates agree. `DatesAgree` says that,
if `recordMovement` is used at all, all movements have one date. It is needed: a
receipt of 1 dated 2, an issue of it dated 1 and another issue bring the sum to
-1, because the row dated 2 is still the last by date. For the operations that
routes reach it is vacuous.

The refinement to `AtomicStock` rests on `StockInv` and on `DoneInv`: the
uncommitted rows of a transaction add up to the effect of the lines it has
processed so far (`Effect`, a sum over them).

**Opname.** (A later part of `InventoryProofs`.) `OpnameInv` adds to those what
the clerk's call has read, which is still so because nobody else writes opnames
(`ClerkInv`), that an open opname has posted nothing, or everything once its
adjustment is done (`PostedInv`), and that two opnames of one warehouse are open
only after an unlock by hand (`AloneInv`). `OneClerk` is needed: two clerks may
initiate one warehouse at once, or count an opname that the other completes
(section 5). It limits the clerks of opnames, not the sessions of
`InventoryService` beside them. For any number of clerks `OpnamesKeepStock` says
what still holds.

**Point of sale.** The invariant says of each call that the sale and the shift
it refers to exist (`Refers`), that it holds the locks of what it writes
(`LocksOK`), that its uncommitted rows are what its lines take from, or give
back to, the committed balance (`RowsOK`), and that a checkout's sale is not
completed behind its back (`SettlesOK`); and that a sale has one checkout
(`OneCheckout`). While no void met another call at its sale (`overlapped`), it
adds that a sale has one call, which has read it as it is (`OneCall`,
`SeesOK`), and so what a sale has posted follows its status (`JournalInv`).
`CompletedIsPaid` does not need the last part.

**Sales orders.** `fulfill` checks an order that it read before its locks,
over three attempts of which each reads again; `createSalesReturn` checks the
returns that were there before its writes. `Reads` says that as long as no other call
has met a call at its document (`Alone`) what it read is still so, and
`OneCall` that two calls at a document have met. An order that is pending has
nothing delivered (`PendingIsWhole`) and a call that delivers has an approved
one (`Approved`): the approval, an UPDATE by id, would otherwise take an order
back from FULFILLED. `DeliveredIsFulfilled` was at first stated without its
exception for a body that names a line twice; the proof of `Fulfill` failed
there, and with such a body in the instance TLC finds the counterexample.

**Purchasing.** The handlers of receipts and returns write by id what they
worked out from their own reads. `Reads` says that this is still so as long as
no two calls met at an order (`Alone`), `Knows` the same of the balance of a
product as long as no two calls met there and no row came behind its date
(`Calm`); `OneCall` and `OneMover` say when calls have met. Two parts hold
without exception: in the last step of `confirm` one call at most is at an
order, because of the row lock (`OnePoster`), and the journal has one entry for
a confirmed receipt and none for another (`PostedOnce`), because `processEvent`
looks for the reference.

**Invoices and payments.** No operation here locks a row: each reads it, works
out amounts or a status, and writes them by id. `Refers` says what of a call's
row never changes (its type and total, and that no amount read as outstanding
exceeds the total), `Knows` that the amounts read are still so as long as no
other call has met it at the invoice or the payment, `OneCall` that two calls
at one of them have met. The journal needs no such exception for invoices:
`post` updates the row and then asks for an earlier entry, so that the second
of two calls posts nothing; and once an invoice is posted it is no draft again,
although payments and notes write the status they read. That is so because
what they subtract is positive and what they read is at most the total (`Owed`), so
that they never find the whole total outstanding and never write the old status
back (`NotReopened`). Reversals do need the exception: two of them at a payment
post twice for one entry. An entry of an invoice is never reversed since a
reversal looks up the reference of a payment (`Places`, `PostedAt`).

**The books.** A call relies on the status of a period, on the balances it
read, on an event without entry, on an entry that is not reversed; `Meets`
says which call under way writes that. `Held` says that what a call has read is
still so unless it has met such a call there, `MetInv` that two calls under way
have met where one relies on the other. The exceptions of the properties follow
from these two. `NominalsClosed` needs that nothing is posted to a period once
it is CLOSED but closing entries, and that a second close, which may come after a first
one, has read a balance of zero (`BalanceKnown`). `BalanceAppend` and
`BalanceChange` say what an entry, or a change of its status, does to a balance.

**Assets.** `TxInv` says that a run at its entry holds the asset, so one run at
most has an entry that is not yet on the asset (`Pending`); `Unmet` that a run
which met no other knows what each asset it has still to do accumulated. The
order in which a run takes the assets, each once, is part of that.

**Requests and numbers.** `ApprovalsDecide` speaks of calls at rest. `MeetInv`
says, as long as no approver has made two calls at a time, that a step which a
call read as its own PENDING one still is, and one that it read as APPROVED
stays so; `AloneInv`, as long as no two calls have met, that the call under way
has read the steps as they are. With no approvers a request would be fully
approved and PENDING from the start, hence `Approvers # {}`. `RejectedStays`
follows from `MeetInv`; no run checks it. For purchase requests, `BegunInv`: a
call under way has read a status that its operation asks for. For numbering,
`CountedInv`: every number given out or on its way is at most its counter.

**The interceptor, the cache, the client.** `ExecutedOnce` counts executions; what
keeps the count is that, outside the exceptions, one request at a time is
between its look for the answer and the end of its execution and has its
promise in the map (`Alone`), and that an execution has left its answer in a
store or is still to (`Kept`). For copies, `Current` says that a reader that
holds a value holds the row's, and that a store has no older copy unless a
writer has still to delete it there: memory first, Redis after it. For sessions,
`TabOK` says that a tab is marked as refreshing if and only if one request
refreshes for it, and that requests wait only then; `PairsOK` that live pairs
descend from different logins, each after the last change of password. That a
pair descends from one issued no later (`PairsTypeOK`) is what keeps them so
when numbers go on.

**Master data.** A call on accounts writes what it checked before: `KeeperOK`
says what of it is still so. An account placed under a header stays placed as
no update takes `header` from an account or moves it without marking it as
moved (`Placed`). `TreeHolds` is a property of steps: the place of
every account after it, and `TypeFollowsUse`, both from the same invariant. For the tables with codes, `EditorOK` says whose the code was when
it was looked for, `CodesDistinct` what the unique index keeps; a refused write
has therefore met a row that took the code later. For prices, `AskerOK` says
that a result which no change has overtaken is still in force, and `EditOK`
that the end of a period which an update is about to write was compared with
its beginning. `SamePrices` gives when two states have the same prices.

**Rows.** `DatesInv` says that the date of the summary is the greatest of the
rows, from which the row last by date follows after every insertion, in
whatever order dates come.

**Matching and reconciliation.** The match compares every line of a bill by
itself with what was received, so the invariant, `Matched`, is about lines:
what a line bills was within the tolerance when it was compared, and receipts
only grow. `BilledPerLine` then follows by adding up lines and bills
(`SumBounded`). `MatcherOK` says that what a call is about to write was posted
when it read, and still is while no other call has met it. The pairs proposed
may be any, whatever the scores: the proof does not look at them, and so it
holds for every scoring.

**Calculations.** `LevelsAreOne` is a case for each threshold. The rounding of a
figure is within half a cent of it, in whole units, so that two rounded parts
are within one cent of the rounded whole; the totals follow line by line
(`Calculations` has documents of up to two).

**Reports.** The chart of accounts and the templates are fixed; amounts, tax and
periods, and the number and order of entries are not. `RepInv` says that every entry balances, that
one of an event of the factory is what the factory builds, and that nothing is
left on revenue and costs of a closed period. The balance sheet then comes
down to sums over accounts: those of all accounts are zero for every entry, and
the lists of the reports divide the accounts into parts (`SumPart`, `SumUnion`),
over entries and accounts in either order (`SumSwap`).

Only model-checked:
- liveness (`RequestsEnd`, `RequestsSettle`, `OldCopiesGo`, `FetchesEnd`), which
  needs fairness and `ENABLED`, out of reach of these provers;
- `WorkGoesOn`. The roles, permissions, buttons and statuses of `Pages` are those
  of the source, a finite instance that TLC visits as a whole; only the number
  of receipts is a bound. What it asks, whether a sequence of calls to the end
  exists, is computed by a fixed point.

The theorems of `Inventory` are about the writers of the ledger that it has,
`PosProofs` about those of `Pos`, and so on: that the modules together keep the
stock follows only for those that take the product lock. `createSalesReturn`
and `confirm` of a receipt do not, and what they can do to `running_qty` is in
the exceptions of `RunningIsBalance` of `Sales` and of `Procurement`.

## 5. Where the code departs from its documents

Met while modelling. Three are runs (section 3); the others are the
exceptions that properties name, or lines that no run needs.

Stock and opname:
- A movement that read `is_locked` before the lock commits after it
  (`inventory.service.ts:252` against BR-INV-005).
- Two clerks initiate at once: both read an unlocked warehouse
  (`stock-opname.service.ts:82`); completing one opname unlocks the other's.
  The unlock is unconditional and also ends a lock set for another reason.
- A completion that fails after its adjustment posts the differences again.

Point of sale and sales:
- Two voids both read COMPLETED, then lock one after the other: stock returns
  twice (`pos.service.ts:421`). A sale voided between the read and the write of
  `applyPayment` becomes COMPLETED.
- A sale completed while its shift closes is in no expected balance
  (`pos.service.ts:573`).
- Rows carry reference type `POS`, the sum of the cost asks for
  `POS_TRANSACTION` (`pos.service.ts:378`): `POS_SALE_COGS` is never posted.
- `createSalesReturn` of a sales order compares with NaN (`pos.service.ts:836`)
  and so is never refused; two returns that meet, or one naming a product
  twice, return more than was sold.
- `create` of a sales order writes the branch into `warehouse_id` and the
  customer into `created_by` (`sales-order.service.ts:57`, `:63`).
- A delivery of one line in full makes the whole order FULFILLED (`:224`). A
  delivery that names a line in two parts, which together are all that was left,
  leaves the order APPROVED: each part alone is less than the rest.

Purchasing:
- `confirm` never looks at the order: a CANCELLED order can receive goods when
  the two calls meet, and two confirms of one receipt count twice.
- `create` of a receipt refuses any quantity above the order (policy REJECT,
  `goods-receipt.service.ts:33`); the comment above it (`:24`) allows 5 %.
- `approve` of `ApprovalController` does not look at the request's status; the
  last two approvers can leave a fully approved request PENDING.
- A purchase order of exactly 50 million gets level 3, the approval engine and
  `requirements.md:114` say level 2. `ApprovalEngine.submit` has no caller, nor
  has `updateReceiptStatus`.

Money:
- Concurrent payments, allocations or notes lose one of two updates of an
  invoice; two allocations exceed a payment.
- `cancel` of an invoice looks at `payment_allocations`, which nothing writes.
- A reversal marks the original REVERSED and posts the mirror entry, while all
  sums take POSTED entries only: what remains is the negative of the amount
  (`payment.service.ts:199`, `accounting.service.ts:137`).
- The page sends `payment_ids`, so that confirming bank matches always fails;
  the reconciliation service of invoicing has no controller.
- The routed close of a period does not enforce the order of periods
  (BR-ACC-007, `accounting.service.ts:229`); `validatePostable` has no caller.
- Depreciation by the route passes `req.user.id`, which is not there.
- Income of a closed period is zero; sales returns are added twice; the
  balance sheet does not balance by exactly the gap that `SheetGapExplained`
  states (`PHASE_15_DATA_INTEGRITY_REPORT.md:64` says it does); dashboards look
  for POSTED, PAID, PARTIAL while posting sets OPEN.

Services and master data:
- The client takes `data.accessToken` from an envelope on refresh and stores
  "undefined" (`frontend/src/lib/api.ts:83`).
- Nothing calls `invalidateUserPermissionsCache` (`rbac.service.ts:151`), and
  an update of an account leaves the copies of its parent's children.
- No controller calls `openPeriod`, `allocateToInvoices`, `applyPayment`,
  `recordSupplierPayment`, `writeOffAR` or `reconcile`. No page submits an
  order, submits or approves a request, approves or posts a payment, or writes
  a note. `DeadEnds` of `Pages` lists where a document stays for good.
- The demo data hold sales orders CONFIRMED and DRAFT and a transfer
  IN_TRANSIT (`demo-data.seed.ts:1288`, `:1335`, `:929`): no operation starts
  from there. Its approval requests are the only ones there ever are.
- `ar.service.ts:26` and `ap.service.ts:26` look for POSTED, PARTIAL, OVERDUE
  while posting sets OPEN, and nothing sets OVERDUE, so `writeOff` is never
  possible.
- A code of a deleted row passes the look-up and is refused by the database;
  an account made its own parent vanishes from the tree.

## 6. Not modelled

Costs and average cost; audit rows, which no operation reads; lists, exports
and the formatting of documents; layout, validation and printing of the
frontend's forms, its dashboards and report pages; the amounts of the
demonstration data; login with lockout and MFA. A request that a guard in front
of the handler refuses changes nothing and is an action of no module. Transactions that
PostgreSQL ends for a deadlock are in `TxFails` and the failing steps of the
other modules; waits for rows that are updated once, at the end of a
transaction, are folded into the step that writes them, since the order of
these waits is the order of the steps.

## 7. Plan

Done: the models and runs of section 2; a theorem for every safety property that
a run checks, but `WorkGoesOn`; the refinement of `AtomicStock` by `Inventory`.

Left, in this order:
1. An abstract order (ordered, received, returned) that `Procurement` implements
   while confirmations do not meet.
2. That the modules which take the product lock (`Inventory`, `Pos`, `Sales`)
   together keep the stock, as one composition.
