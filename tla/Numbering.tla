------------------------------ MODULE Numbering ------------------------------
(***************************************************************************)
(* NumberingService.generate: document numbers from the counters of        *)
(* document_sequences, one per (prefix, period), shared by every service   *)
(* of the application.                                                     *)
(*                                                                         *)
(* The upsert is one statement and atomic.  What is not atomic is the      *)
(* attempt around it: the statement may fail before it takes effect, or    *)
(* its answer may be lost after it did, and generate cannot tell the two   *)
(* apart when it tries again.                                              *)
(***************************************************************************)
EXTENDS Integers

CONSTANTS
    Types,          \* DocumentType
    DailyTypes,     \* DAILY_PERIOD_TYPES
    Dates,          \* calendar days
    MonthOf,        \* the month of a day
    Callers,        \* concurrent calls of generate
    MaxValue        \* bound on a counter

ASSUME NumberingAssumption == MonthOf \in [Dates -> Nat]

MAX_RETRIES == 3

VARIABLES
    last_value,     \* document_sequences.last_value
    generating,           \* what a caller is doing
    returned        \* the numbers returned so far

numVars == <<last_value, generating, returned>>

\* buildPeriod: the day for POS and SHF, the month for the others.  The texts
\* differ in length, so a day is never a month.
Periods == [unit : {"day"}, of : Dates] \cup [unit : {"month"}, of : Nat]
BuildPeriod(type, date) ==
    IF type \in DailyTypes THEN [unit |-> "day", of |-> date]
    ELSE [unit |-> "month", of |-> MonthOf[date]]

\* The counters that dates can ask for.
Counters == {<<type, BuildPeriod(type, date)>> : type \in Types, date \in Dates}

\* formatDocumentNumber: prefix, period and counter joined with dashes.  None of
\* the parts contains one, and padStart pads without cutting, so the text is
\* as good as the triple.
Numbers == [counter : Counters, seq : Nat]
FormatDocumentNumber(c, seq) == [counter |-> c, seq |-> seq]

Idle == [step |-> "idle"]
NumCalls ==
    {Idle}
      \cup [step : {"attempt"}, counter : Counters, attempt : 1..MAX_RETRIES]
      \cup [step : {"answered"}, number : Numbers]

NumTypeOK ==
    /\ last_value \in [Counters -> Nat]
    /\ generating \in [Callers -> NumCalls]
    /\ returned \subseteq Numbers

\* A counter without a row: the insert gives it the value 1.
NumInit ==
    /\ last_value = [c \in Counters |-> 0]
    /\ generating = [s \in Callers |-> Idle]
    /\ returned = {}

Generate(s, type, date) ==
    LET c == <<type, BuildPeriod(type, date)>> IN
    /\ generating[s] = Idle
    /\ last_value[c] < MaxValue
    /\ generating' = [generating EXCEPT ![s] = [step |-> "attempt", counter |-> c, attempt |-> 1]]
    /\ UNCHANGED <<last_value, returned>>

\* The next attempt after a failed one, or the error after the third.
Retry(s) ==
    generating' = [generating EXCEPT ![s] =
                IF generating[s].attempt < MAX_RETRIES
                THEN [generating[s] EXCEPT !.attempt = generating[s].attempt + 1]
                ELSE Idle]

Increment(c) == last_value' = [last_value EXCEPT ![c] = last_value[c] + 1]

\* INSERT ... ON CONFLICT DO UPDATE ... RETURNING last_value
AtomicIncrement(s) ==
    LET c == generating[s].counter IN
    /\ generating[s].step = "attempt"
    /\ Increment(c)
    /\ generating' = [generating EXCEPT ![s] = [step |-> "answered",
                                    number |-> FormatDocumentNumber(c, last_value[c] + 1)]]
    /\ UNCHANGED returned

\* The statement failed and changed nothing.
IncrementFails(s) ==
    /\ generating[s].step = "attempt"
    /\ Retry(s)
    /\ UNCHANGED <<last_value, returned>>

\* Mutant: a lost answer is taken back.
LostAnswerTakenBack(s) ==
    /\ generating[s].step = "attempt"
    /\ last_value[generating[s].counter] > 0
    /\ last_value' = [last_value EXCEPT ![generating[s].counter] = @ - 1]
    /\ Retry(s)
    /\ UNCHANGED returned

\* The statement took effect, its answer did not arrive: the number is skipped.
AnswerLost(s) ==
    /\ generating[s].step = "attempt"
    /\ last_value[generating[s].counter] < MaxValue
    /\ Increment(generating[s].counter)
    /\ Retry(s)
    /\ UNCHANGED returned

Return(s) ==
    /\ generating[s].step = "answered"
    /\ returned' = returned \cup {generating[s].number}
    /\ generating' = [generating EXCEPT ![s] = Idle]
    /\ UNCHANGED last_value

Serve(s) == AtomicIncrement(s) \/ IncrementFails(s) \/ AnswerLost(s) \/ Return(s)

NumNext ==
    \E s \in Callers :
        \/ \E type \in Types, date \in Dates : Generate(s, type, date)
        \/ Serve(s)

NumSpec == NumInit /\ [][NumNext]_numVars

-----------------------------------------------------------------------------
(* Properties *)

\* "Generate a unique document number for the given type": a number on its way to a
\* caller was returned to nobody before and is on its way to nobody else, after any
\* interleaving of calls and any failed attempts.
NumbersUnique ==
    \A s \in Callers : generating[s].step = "answered" =>
        /\ generating[s].number \notin returned
        /\ \A t \in Callers \ {s} :
              generating[t].step = "answered" => generating[t].number # generating[s].number

\* What makes it inductive: every number given out is within its counter.
CountedInv ==
    /\ \A n \in returned : n.seq <= last_value[n.counter]
    /\ \A s \in Callers : generating[s].step = "answered" =>
          generating[s].number.seq <= last_value[generating[s].number.counter]

NumberInv == NumTypeOK /\ CountedInv /\ NumbersUnique
=============================================================================
