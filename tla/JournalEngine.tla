---------------------------- MODULE JournalEngine ----------------------------
(***************************************************************************)
(* JournalEngineService.processEvent, as the services call it inside their *)
(* own transactions.  A journal is a sequence of entries.                  *)
(*                                                                         *)
(* processEvent is meant to be repeatable: it posts nothing when a POSTED, *)
(* auto-generated entry already has the reference of the event.  The event *)
(* type is not part of that test, so two events of one document under one  *)
(* reference post one entry.                                               *)
(***************************************************************************)
EXTENDS Integers, Sequences, Functions

AutoEntry(event, reference, amount) ==
    [event |-> event, reference |-> reference, amount |-> amount,
     status |-> "POSTED", auto |-> TRUE]

\* createManualEntry: never found by the test for a repeated event.
ManualEntry(event, reference, amount) ==
    [AutoEntry(event, reference, amount) EXCEPT !.auto = FALSE]

AlreadyPosted(journal, reference) ==
    \E i \in DOMAIN journal :
        journal[i].reference = reference /\ journal[i].status = "POSTED" /\ journal[i].auto

\* Mutant: the test for a repeated event is gone.
ProcessEventAlways(journal, event, reference, amount) ==
    Append(journal, AutoEntry(event, reference, amount))

ProcessEvent(journal, event, reference, amount) ==
    IF AlreadyPosted(journal, reference) THEN journal
    ELSE Append(journal, AutoEntry(event, reference, amount))

\* What the entries of an event amount to: reports read POSTED entries only.
Standing(journal, event) ==
    SumFunction([i \in DOMAIN journal |->
        IF journal[i].event = event /\ journal[i].status = "POSTED"
        THEN journal[i].amount ELSE 0])
=============================================================================
