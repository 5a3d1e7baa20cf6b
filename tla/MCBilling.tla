------------------------------ MODULE MCBilling ------------------------------
(***************************************************************************)
(* Billing for TLC: one invoice and every operation, or two invoices,      *)
(* which one payment may be shared out to, and the operations that settle  *)
(* them.                                                                   *)
(***************************************************************************)
EXTENDS Billing

CONSTANTS u1, u2
Sym == Permutations(Users)

VARIABLE part

MCInit == Init /\ part \in {"one invoice", "two invoices"}

Within ==
    \/ part = "one invoice" /\ Len(invoices') <= 1
    \/ /\ part = "two invoices"
       /\ \A c \in Clerks : call'[c].op \in {"none", "post", "apply", "allocate"}
       /\ \A p \in DOMAIN payments' : payments'[p].status = "DRAFT"

MCNext == Next /\ Within /\ UNCHANGED part

MCSpec == MCInit /\ [][MCNext]_<<vars, part>>
=============================================================================
