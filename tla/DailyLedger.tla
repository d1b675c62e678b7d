----------------------------- MODULE DailyLedger -----------------------------
(***************************************************************************)
(* What daily accounting promises, in Python and in Go: a table with the   *)
(* bytes of each account on each day.  A total never exceeds the bytes     *)
(* that may be charged to its day, is never lowered, and disappears only   *)
(* when it is older than the retention.                                    *)
(*                                                                         *)
(* The first promise is withdrawn for ever when doubled becomes true, the  *)
(* other two when disturbed does.  Who implements the ledger says when.    *)
(***************************************************************************)
EXTENDS Integers

CONSTANTS
    Accounts,   \* whoever moves bytes
    LastDay,    \* bound: the last day
    KeepDays    \* a total stays in the table for so many days after its own

VARIABLES
    day,        \* the calendar
    moved,      \* day -> account -> bytes that may be charged to the day
    total,      \* day -> account -> bytes in the table, 0 without a row
    doubled,    \* bytes may have been charged twice
    disturbed   \* totals may have been lowered or lost

ledgerVars == <<day, moved, total, doubled, disturbed>>

Days == 1 .. LastDay
Table == [Days -> [Accounts -> Nat]]

Init ==
    /\ day = 1
    /\ moved = [d \in Days |-> [a \in Accounts |-> 0]]
    /\ total = [d \in Days |-> [a \in Accounts |-> 0]]
    /\ doubled = FALSE
    /\ disturbed = FALSE

\* An account moves bytes; the table does not know yet.
Move(a) ==
    /\ moved'[day][a] \in Nat
    /\ moved'[day][a] >= moved[day][a]
    /\ moved' = [moved EXCEPT ![day][a] = moved'[day][a]]
    /\ UNCHANGED <<day, total, doubled, disturbed>>

\* What was moved late on a day may still be charged to the next one.
NextDay ==
    /\ day < LastDay
    /\ day' = day + 1
    /\ moved'[day'] \in [Accounts -> Nat]
    /\ \A a \in Accounts : moved'[day'][a] <= moved[day][a]
    /\ moved' = [moved EXCEPT ![day'] = moved'[day']]
    /\ UNCHANGED <<total, doubled, disturbed>>

Bounded(t) == \A d \in Days, a \in Accounts : t[d][a] <= moved[d][a]

Expired(d) == d < day - KeepDays

Continues(t) ==
    \A d \in Days, a \in Accounts :
        t[d][a] >= total[d][a] \/ (Expired(d) /\ t[d][a] = 0)

\* The table is written, or something happens that withdraws a promise.
Write ==
    /\ total' \in Table
    /\ doubled' \in {doubled, TRUE}
    /\ disturbed' \in {disturbed, TRUE}
    /\ doubled' \/ Bounded(total')
    /\ disturbed' \/ Continues(total')
    /\ UNCHANGED <<day, moved>>

Next == (\E a \in Accounts : Move(a)) \/ NextDay \/ Write

Spec == Init /\ [][Next]_ledgerVars
=============================================================================
