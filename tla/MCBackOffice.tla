---------------------------- MODULE MCBackOffice -----------------------------
(***************************************************************************)
(* Values for BackOffice.  a1 is the root the seed made; there is one code *)
(* of level 1 and one of level 2.  Prices are asked for one customer and   *)
(* the later of two days.  Amounts are around the thresholds, prices and   *)
(* percentages such that have to be rounded.  The ledger gets a receipt    *)
(* and an issue, of any of three days.                                     *)
(***************************************************************************)
EXTENDS BackOffice, TLC

\* Two days of one month.
MCMonthOf == [d \in Dates |-> 1]

MCLevelOf == [k1 |-> 1, k2 |-> 2]
MCNewRows == {[header |-> h, type |-> "ASSET"] : h \in BOOLEAN}
MCChanges ==
    [field : {"parent"}, value : {"a1", "a2"}]
      \cup [field : {"type"}, value : {"ASSET", "LIABILITY"}]
      \cup {[field |-> "header", value |-> FALSE], [field |-> "code", value |-> "k1"]}

MCKeys == {<<"k1", 2>>}
MCDeltas == {-1, 2}

Item(product, qty, price) == [product |-> product, qty |-> qty, price |-> price]

\* 20 pieces of p1 at 1 and 2 of p2 at 2 were ordered.  Five per cent of the first are
\* one piece, of the second none.  The supplier bills p1 in full, within and beyond the
\* tolerance, p2 twice in one invoice, too dear, and a product nobody ordered.
MCInvoiceLines ==
    { <<Item("p1", 20, 1)>>, <<Item("p1", 21, 1)>>, <<Item("p1", 22, 1)>>,
      <<Item("p2", 2, 2), Item("p2", 2, 2)>>,
      <<Item("p1", 2, 1), Item("p2", 1, 2)>>,
      <<Item("p3", 1, 1)>>, <<Item("p2", 2, 20)>> }

MCOrdered == [p1 |-> 20, p2 |-> 2]
MCOrderPrice == [p1 |-> 1, p2 |-> 2]

\* Three statements and two payments of one amount; s2 and p2 are of a later day, and
\* every statement names p1.
MCBankAmount == [x \in {"s1", "s2", "s3", "p1", "p2"} |-> 1]
MCBankDay == [s1 |-> 1, s2 |-> 3, s3 |-> 1, p1 |-> 1, p2 |-> 2]
MCBankReference == [s \in {"s1", "s2", "s3"} |-> "p1"]

\* An event of each kind of account pair.
MCEvents ==
    {"GOODS_RECEIPT", "SUPPLIER_INVOICE", "PURCHASE_PAYMENT", "SALES_INVOICE", "POS_SALE",
     "SALES_RETURN", "STOCK_ADJUSTMENT_NEGATIVE", "DEPRECIATION", "WRITE_OFF_AR",
     "POS_SALE_REVERSAL", "CASH_IN", "CASH_OUT", "TAX_PAYMENT"}

Sym == Permutations(Callers) \cup Permutations(Lists) \cup Permutations(Prices)
=============================================================================
