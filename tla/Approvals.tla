------------------------------ MODULE Approvals ------------------------------
(***************************************************************************)
(* ApprovalController: a request with one step per approver.  approve      *)
(* reads the request with all its steps, updates its own step, and then,   *)
(* in a statement of its own, the request, when the steps it read were     *)
(* approved but for its own.  reject reads its own step and updates step   *)
(* and request in one transaction.  Nothing in the repository creates a    *)
(* request but the seeds: Init is one that is PENDING.                     *)
(***************************************************************************)
EXTENDS Naturals

CONSTANTS Approvers,
          Desks     \* sessions: an approver may use several

VARIABLES request,  \* its status
          steps,    \* the status of the step of each approver
          desk,     \* what a session serves
          met       \* history: "steps" two approvals met, "self" two calls of one
                    \* approver met, "lost" a call ended half-way
apVars == <<request, steps, desk, met>>

AtRest == [at |-> "rest"]
Approved == [a \in Approvers |-> "APPROVED"]

ApInit ==
    /\ request = "PENDING"
    /\ steps = [a \in Approvers |-> "PENDING"]
    /\ desk = [d \in Desks |-> AtRest]
    /\ met = {}

Sits(d, c) ==
    /\ desk[d] = AtRest
    /\ desk' = [desk EXCEPT ![d] = c]
    /\ met' = met \cup
          {IF desk[e].by = c.by THEN "self" ELSE "steps" : e \in {e \in Desks : desk[e] # AtRest}}

\* approve: findUnique with the steps; its own is the one that is PENDING.
ApproveRead(d, a) ==
    /\ steps[a] = "PENDING"
    /\ Sits(d, [at |-> "step", by |-> a, seen |-> steps])
    /\ UNCHANGED <<request, steps>>

ApproveStep(d) ==
    /\ desk[d].at = "step"
    /\ steps' = [steps EXCEPT ![desk[d].by] = "APPROVED"]
    /\ desk' = [desk EXCEPT ![d].at = "all"]
    /\ UNCHANGED <<request, met>>

\* Mutant: one approval is enough.
AllApprovedOnce(d) == TRUE

\* request.steps.every(s => s.id === step.id || s.status === 'APPROVED'), as read.
AllApproved(d) == [desk[d].seen EXCEPT ![desk[d].by] = "APPROVED"] = Approved

ApproveRequest(d) ==
    /\ desk[d].at = "all"
    /\ request' = IF AllApproved(d) THEN "APPROVED" ELSE request
    /\ desk' = [desk EXCEPT ![d] = AtRest]
    /\ UNCHANGED <<steps, met>>

\* reject: findFirst of its own PENDING step.
RejectRead(d, a) ==
    /\ steps[a] = "PENDING"
    /\ Sits(d, [at |-> "reject", by |-> a])
    /\ UNCHANGED <<request, steps>>

RejectBoth(d) ==
    /\ desk[d].at = "reject"
    /\ request' = "REJECTED"
    /\ steps' = [steps EXCEPT ![desk[d].by] = "REJECTED"]
    /\ desk' = [desk EXCEPT ![d] = AtRest]
    /\ UNCHANGED met

\* A call that fails between its statements leaves the ones before.
ApFails(d) ==
    /\ desk[d] # AtRest
    /\ met' = met \cup (IF desk[d].at = "all" THEN {"lost"} ELSE {})
    /\ desk' = [desk EXCEPT ![d] = AtRest]
    /\ UNCHANGED <<request, steps>>

ApNext ==
    \E d \in Desks :
        \/ \E a \in Approvers : ApproveRead(d, a) \/ RejectRead(d, a)
        \/ ApproveStep(d) \/ ApproveRequest(d) \/ RejectBoth(d)
        \/ ApFails(d)

ApSpec == ApInit /\ [][ApNext]_apVars

-----------------------------------------------------------------------------
\* A request is APPROVED only by all its approvers, also when their calls meet; two
\* calls of one approver (an approval and a rejection) are excepted.
ApprovedByAll == "self" \notin met /\ request = "APPROVED" => steps = Approved

\* When everybody has approved and no call is under way, the request is APPROVED.
\* Excepted are the calls that meet: each of the last two approvers still reads the
\* other one as PENDING, and nobody approves the request; or one that fails between
\* its two updates.
AllApprovedDecides ==
    met = {} /\ steps = Approved /\ (\A d \in Desks : desk[d] = AtRest)
      => request = "APPROVED"

\* A rejection is final, with the same exception.
RejectedStays ==
    [][request = "REJECTED" /\ "self" \notin met => request' = "REJECTED"]_apVars

\* All approvals are needed, and are enough.
ApprovalsDecide == ApprovedByAll /\ AllApprovedDecides
=============================================================================
