----------------------------- MODULE Calculations -----------------------------
(***************************************************************************)
(* Pure calculations: the approval level of an amount, in the two services *)
(* that have one, and the line totals and document totals of TaxCalculator.*)
(*                                                                         *)
(* Thresholds are in millions.  Money is in cents, exact values before     *)
(* rounding are in ten-thousandths of a cent.                              *)
(***************************************************************************)
EXTENDS Integers, Sequences, Functions

CONSTANTS
    Amounts,            \* in millions, of documents to approve
    Prices, Percents    \* of lines

VARIABLE asked
calcVars == <<asked>>

-----------------------------------------------------------------------------
(* Approval levels *)

\* getApprovalChain of ApprovalEngineService, with its thresholds; the last has no upper one.
ApprovalChain(amount) ==
    IF amount < 5 THEN [level |-> 1, min |-> 0, max |-> 5]
    ELSE IF amount <= 50 THEN [level |-> 2, min |-> 5, max |-> 50]
    ELSE [level |-> 3, min |-> 50, max |-> amount]

\* Mutant: an amount at the first threshold is of the first level.
OrderLevelAtMost(amount) == IF amount <= 5 THEN 1 ELSE IF amount < 50 THEN 2 ELSE 3

\* getApprovalThreshold of PurchaseOrderService.
OrderLevel(amount) == IF amount < 5 THEN 1 ELSE IF amount < 50 THEN 2 ELSE 3

-----------------------------------------------------------------------------
(* TaxCalculator *)

Unit == 10000

RoundCurrency(x) == (x + Unit \div 2) \div Unit

Smaller(a, b) == IF a < b THEN a ELSE b

Rounded(raw, discount, taxPct) ==
    LET exact == raw * Unit
        tax == ((exact - discount) * taxPct) \div 100
    IN  [raw |-> RoundCurrency(exact), discount |-> RoundCurrency(discount),
         discounted |-> RoundCurrency(exact - discount), tax |-> RoundCurrency(tax),
         total |-> RoundCurrency(exact - discount + tax)]

\* A percentage goes before an amount, and neither is more than the line.
Discount(raw, discountPct, discountAmount) ==
    Smaller(raw * Unit, IF discountPct > 0 THEN raw * 100 * discountPct
                        ELSE discountAmount * Unit)

\* calculateLineItem, of qty * unitPrice cents.
LineItem(raw, discountPct, discountAmount, taxPct) ==
    Rounded(raw, Discount(raw, discountPct, discountAmount), taxPct)

\* calculateDocumentTotals: the subtotal has the tax in it.
DocumentTotals(lines, additional) ==
    LET total == SumFunction([k \in DOMAIN lines |-> lines[k].total]) IN
    [subtotal |-> total,
     discount |-> SumFunction([k \in DOMAIN lines |-> lines[k].discount]),
     tax |-> SumFunction([k \in DOMAIN lines |-> lines[k].tax]),
     total |-> total + additional]

-----------------------------------------------------------------------------
(* Inputs *)

CalcInit == asked = [level |-> 0, lines |-> << >>]

AskLevel(amount) == asked' = [asked EXCEPT !.level = amount]

AskLine(raw, discountPct, discountAmount, taxPct) ==
    /\ Len(asked.lines) < 2
    /\ asked' = [asked EXCEPT !.lines =
                   Append(@, LineItem(raw, discountPct, discountAmount, taxPct))]

CalcNext ==
    \/ \E amount \in Amounts : AskLevel(amount)
    \/ \E raw, off \in Prices, d, t \in Percents : AskLine(raw, d, off, t)

-----------------------------------------------------------------------------
(* Properties *)

\* The two services ask for the same approval, but for an amount at the upper threshold,
\* and the chain's thresholds hold the amount.
LevelsAgree ==
    LET chain == ApprovalChain(asked.level) IN
    /\ chain.min <= asked.level /\ asked.level <= chain.max
    /\ OrderLevel(asked.level) = chain.level \/ asked.level = 50

\* The figures of a line are rounded each by itself: they add up within a cent, the
\* discount is within the line, and the totals of a document add up within two cents a line.
TotalsAddUp ==
    LET totals == DocumentTotals(asked.lines, 0)
        Near(a, b, n) == a - b <= n /\ b - a <= n
    IN  /\ \A k \in DOMAIN asked.lines :
              LET l == asked.lines[k] IN
              /\ Near(l.total, l.discounted + l.tax, 1)
              /\ Near(l.raw, l.discounted + l.discount, 1)
              /\ l.discount <= l.raw
        /\ Near(totals.total,
                SumFunction([k \in DOMAIN asked.lines |-> asked.lines[k].raw])
                  - totals.discount + totals.tax, 2 * Len(asked.lines))

\* What is calculated in two places, or rounded in two, agrees.
AmountsAgree == LevelsAgree /\ TotalsAddUp
=============================================================================
