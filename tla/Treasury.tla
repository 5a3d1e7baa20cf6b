------------------------------ MODULE Treasury -------------------------------
(***************************************************************************)
(* CashBankService, ExpenseService, TaxService and FixedAssetService: what *)
(* the accounting module posts without a document of its own.              *)
(*                                                                         *)
(* Cash in and cash out go through processEvent with the account as their  *)
(* reference, so that a second receipt of one account finds the entry of   *)
(* the first and posts nothing.  Transfers, expenses and tax payments are  *)
(* manual entries.  A depreciation run reads all assets and then has a     *)
(* transaction per asset, but calls createManualEntry without it: the      *)
(* entry commits on its own, before the asset.                             *)
(* A period is OPEN throughout (see Books).                                *)
(***************************************************************************)
EXTENDS JournalEngine, FiniteSets, SequencesExt

CONSTANTS Banks,                \* cash and bank accounts
          Assets, Price, Salvage, Life,
          Runs,                    \* concurrent calls
          MaxPosted               \* bound on the journal and on the cash calls

ASSUME TreasuryAssumption ==
    /\ Price \in [Assets -> Nat] /\ Salvage \in [Assets -> Nat]
    /\ Life \in [Assets -> Nat \ {0}]
    /\ \A a \in Assets : Salvage[a] <= Price[a]
    /\ IsFiniteSet(Assets) /\ IsFiniteSet(Runs)

VARIABLES journal,
          accumulated,  \* fixed_assets.accumulated_depreciation
          inTx,         \* the run whose open transaction has updated an asset
          run,          \* what a call is doing
          cashIn,       \* history: what cash-in calls were answered, by account
          odd           \* history: "together" two runs met, "torn" a transaction
                        \* failed after its entry
treVars == <<journal, accumulated, inTx, run, cashIn, odd>>

Resting == [at |-> "rest"]
TreInit ==
    /\ journal = <<>>
    /\ accumulated = [a \in Assets |-> 0]
    /\ inTx = [a \in Assets |-> {}]
    /\ run = [r \in Runs |-> Resting]
    /\ cashIn = [c \in Banks |-> 0]
    /\ odd = {}

Goes(r, c) == run' = [run EXCEPT ![r] = c]
Works(at, seen, todo) == [at |-> at, seen |-> seen, todo |-> todo]
Room == Len(journal) < MaxPosted

\* processEvent of CASH_IN or CASH_OUT: the reference is the account.
CashRead(r, event, account) ==
    /\ run[r] = Resting /\ Room /\ cashIn[account] < MaxPosted
    /\ Goes(r, [at |-> "cash", event |-> event, account |-> account,
                found |-> AlreadyPosted(journal, <<event, account>>)])
    /\ UNCHANGED <<journal, accumulated, inTx, cashIn, odd>>

CashWrite(r) ==
    LET c == run[r] IN
    /\ c.at = "cash"
    /\ journal' = IF c.found THEN journal
                  ELSE Append(journal, AutoEntry(c.event, <<c.event, c.account>>, 1))
    /\ cashIn' = IF c.event = "CASH_IN" THEN [cashIn EXCEPT ![c.account] = @ + 1] ELSE cashIn
    /\ Goes(r, Resting)
    /\ UNCHANGED <<accumulated, inTx, odd>>

\* recordTransfer, recordExpense, recordTaxPayment: one transaction, one manual entry.
PostManual(event, account) ==
    /\ Room
    /\ journal' = Append(journal, ManualEntry(event, <<event, account>>, 1))
    /\ UNCHANGED <<accumulated, inTx, run, cashIn, odd>>

\* runDepreciation: all ACTIVE assets are read, with what they accumulated.
RunRead(r) ==
    /\ run[r] = Resting
    /\ \E order \in SetToSeqs(Assets) :
          Goes(r, Works("asset", accumulated, order))
    /\ odd' = odd \cup {"together" : s \in {s \in Runs : run[s].at \in {"asset", "entry", "commit"}}}
    /\ UNCHANGED <<journal, accumulated, inTx, cashIn>>

\* Mutant: a last month like the others.
MonthlyUncapped(a, seen) ==
    IF Price[a] - seen <= Salvage[a] THEN 0 ELSE (Price[a] - Salvage[a]) \div Life[a]

\* Straight line, cut at the salvage value; 0 skips the asset.
Monthly(a, seen) ==
    LET left == Price[a] - seen - Salvage[a]
        month == (Price[a] - Salvage[a]) \div Life[a]
    IN IF left <= 0 THEN 0 ELSE IF month > left THEN left ELSE month

Asset(r) == Head(run[r].todo)
Due(r) == Monthly(Asset(r), run[r].seen[Asset(r)])

RunSkip(r) ==
    /\ run[r].at = "asset"
    /\ run[r].todo # <<>> /\ Due(r) = 0
    /\ Goes(r, Works("asset", run[r].seen, Tail(run[r].todo)))
    /\ UNCHANGED <<journal, accumulated, inTx, cashIn, odd>>

RunEnd(r) ==
    /\ run[r].at = "asset" /\ run[r].todo = <<>>
    /\ Goes(r, Resting)
    /\ UNCHANGED <<journal, accumulated, inTx, cashIn, odd>>

\* fixedAsset.update, increment: waits for another transaction on the asset.
RunUpdate(r) ==
    /\ run[r].at = "asset"
    /\ run[r].todo # <<>> /\ Due(r) > 0
    /\ inTx[Asset(r)] = {}
    /\ inTx' = [inTx EXCEPT ![Asset(r)] = {r}]
    /\ Goes(r, Works("entry", run[r].seen, run[r].todo))
    /\ UNCHANGED <<journal, accumulated, cashIn, odd>>

\* createManualEntry, in a transaction of its own.
RunEntry(r) ==
    /\ run[r].at = "entry" /\ Room
    /\ journal' = Append(journal, ManualEntry("DEPRECIATION", <<"DEPRECIATION", Asset(r)>>, Due(r)))
    /\ Goes(r, Works("commit", run[r].seen, run[r].todo))
    /\ UNCHANGED <<accumulated, inTx, cashIn, odd>>

RunCommit(r) ==
    /\ run[r].at = "commit"
    /\ accumulated' = [accumulated EXCEPT ![Asset(r)] = @ + Due(r)]
    /\ inTx' = [inTx EXCEPT ![Asset(r)] = {}]
    /\ Goes(r, Works("asset", run[r].seen, Tail(run[r].todo)))
    /\ UNCHANGED <<journal, cashIn, odd>>

\* The entry is refused (always so by the route, which hands over req.user.id: no
\* user has one, and 'SYSTEM' is no uuid), or the transaction fails after it.
RunFail(r) ==
    /\ run[r].at \in {"entry", "commit"}
    /\ inTx' = [inTx EXCEPT ![Asset(r)] = {}]
    /\ odd' = odd \cup (IF run[r].at = "commit" THEN {"torn"} ELSE {})
    /\ Goes(r, Resting)
    /\ UNCHANGED <<journal, accumulated, cashIn>>

CashNext ==
    \/ \E r \in Runs :
          \/ \E event \in {"CASH_IN", "CASH_OUT"}, c \in Banks : CashRead(r, event, c)
          \/ CashWrite(r)
    \/ \E event \in {"INTER_ACCOUNT_TRANSFER", "EXPENSE_PAYMENT", "TAX_PAYMENT"}, c \in Banks :
          PostManual(event, c)

AssetNext ==
    \E r \in Runs :
       \/ RunRead(r) \/ RunSkip(r) \/ RunUpdate(r) \/ RunEntry(r) \/ RunCommit(r)
       \/ RunEnd(r) \/ RunFail(r)

TreSpec == TreInit /\ [][CashNext \/ AssetNext]_treVars

-----------------------------------------------------------------------------
\* What the entries of a reference amount to.
Amount(reference) ==
    SumFunction([i \in DOMAIN journal |->
        IF journal[i].reference = reference THEN journal[i].amount ELSE 0])

\* What the runs posted for an asset, and what of it is not committed on the asset.
Posted(a) == Amount(<<"DEPRECIATION", a>>)
Pending(a) ==
    SumFunction([r \in Runs |-> IF run[r].at = "commit" /\ Asset(r) = a THEN Due(r) ELSE 0])

\* What is posted for an asset is what it accumulated, the open transaction apart.
\* Excepted is a transaction that fails after its entry.
DepreciationPosted ==
    odd \cap {"torn"} = {}
      => \A a \in Assets : Posted(a) = accumulated[a] + Pending(a)

\* No asset is written off below its salvage value, however often the depreciation
\* is run.  Excepted are runs that meet: each starts from what it read.
NeverBelowSalvage ==
    odd \cap {"together"} = {} => \A a \in Assets : Price[a] - accumulated[a] >= Salvage[a]

\* What recordCashIn is for: the receipts of an account that were answered are in the
\* journal.
CashInPosted ==
    \A c \in Banks : Amount(<<"CASH_IN", c>>) = cashIn[c]

\* Assets and journal agree, and no asset is written off too far.
AssetsFollowEntries == DepreciationPosted /\ NeverBelowSalvage
=============================================================================
