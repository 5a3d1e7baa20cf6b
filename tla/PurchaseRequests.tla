-------------------------- MODULE PurchaseRequests ---------------------------
(***************************************************************************)
(* PurchaseRequestService.  Every call reads the request (findById), asks  *)
(* for a status, and then updates the row by id in a transaction that does *)
(* not ask again.  The lines of a request are one value: an update deletes *)
(* and writes them all.  Checks on branches, warehouses, products and      *)
(* units refuse a call before it changes anything and are left out.        *)
(***************************************************************************)
EXTENDS Naturals, Sequences

CONSTANTS Clerks, Wishes, MaxRequests   \* sessions; sets of lines; bound

VARIABLES requests, asking
prVars == <<requests, asking>>

NotAsking == [op |-> "none"]
DecidedStatus == {"APPROVED", "REJECTED", "CANCELLED"}

\* What each operation asks of the status that it reads.
AsksFor ==
    [update |-> {"DRAFT"}, delete |-> {"DRAFT"}, submit |-> {"DRAFT"},
     approve |-> {"SUBMITTED"}, reject |-> {"SUBMITTED"},
     cancel |-> {"DRAFT", "SUBMITTED"}]

StatusAfter == [submit |-> "SUBMITTED", approve |-> "APPROVED",
                reject |-> "REJECTED", cancel |-> "CANCELLED"]

PrInit == requests = << >> /\ asking = [c \in Clerks |-> NotAsking]

Create(c, w) ==
    /\ asking[c] = NotAsking
    /\ Len(requests) < MaxRequests
    /\ requests' = Append(requests, [status |-> "DRAFT", deleted |-> FALSE, lines |-> w])
    /\ UNCHANGED asking

\* Mutant: the status is not asked for.
MayProceedAlways(op, r) == ~requests[r].deleted

MayProceed(op, r) == ~requests[r].deleted /\ requests[r].status \in AsksFor[op]

\* findById and the test of the status.
Begin(c, op, r, w) ==
    /\ asking[c] = NotAsking
    /\ MayProceed(op, r)
    /\ asking' = [asking EXCEPT ![c] =
          [op |-> op, request |-> r, lines |-> w, seen |-> requests[r]]]
    /\ UNCHANGED requests

\* The transaction of update.
Update(c) ==
    /\ asking[c].op = "update"
    /\ requests' = [requests EXCEPT ![asking[c].request].lines = asking[c].lines]
    /\ asking' = [asking EXCEPT ![c] = NotAsking]

\* The transaction of delete: a soft one.
Delete(c) ==
    /\ asking[c].op = "delete"
    /\ requests' = [requests EXCEPT ![asking[c].request].deleted = TRUE]
    /\ asking' = [asking EXCEPT ![c] = NotAsking]

\* The transactions of submit, approve, reject and cancel.
SetStatus(c, op) ==
    /\ asking[c].op = op
    /\ requests' = [requests EXCEPT ![asking[c].request].status = StatusAfter[op]]
    /\ asking' = [asking EXCEPT ![c] = NotAsking]

PrSubmit(c) == SetStatus(c, "submit")
PrApprove(c) == SetStatus(c, "approve")
PrReject(c) == SetStatus(c, "reject")
PrCancel(c) == SetStatus(c, "cancel")

PrFails(c) == asking[c] # NotAsking /\ asking' = [asking EXCEPT ![c] = NotAsking] /\ UNCHANGED requests

PrNext ==
    \E c \in Clerks :
        \/ \E w \in Wishes : Create(c, w)
        \/ \E op \in DOMAIN AsksFor, r \in DOMAIN requests, w \in Wishes :
              (op # "update" => w = requests[r].lines) /\ Begin(c, op, r, w)
        \/ Update(c) \/ Delete(c)
        \/ PrSubmit(c) \/ PrApprove(c) \/ PrReject(c) \/ PrCancel(c)
        \/ PrFails(c)

PrSpec == PrInit /\ [][PrNext]_prVars

-----------------------------------------------------------------------------
\* Whether a call under way read the request before it became what it is.
ReadEarlier(r) ==
    \E c \in Clerks : asking[c] # NotAsking /\ asking[c].request = r
                      /\ asking[c].seen # requests[r]

\* A request that is decided or deleted changes only through a call that read it
\* before, and so do the lines of one that is submitted: an approver decides on what
\* was submitted unless an update had begun before the submission.
DecidedIsFinal ==
    [][\A r \in DOMAIN requests :
          \/ ReadEarlier(r)
          \/ /\ requests[r].status \in DecidedStatus \/ requests[r].deleted
                => requests'[r] = requests[r]
             /\ requests[r].status # "DRAFT" => requests'[r].lines = requests[r].lines]_prVars
=============================================================================
