----------------------------- MODULE TrafficLog -----------------------------
(***************************************************************************)
(* Daily traffic accounting of the Python monitor (modules/traffic_log.py).*)
(*                                                                         *)
(* Xray keeps one cumulative byte counter per user and direction.  Every   *)
(* tick the monitor takes a sample of the counters (XrayStats.fetch) and,  *)
(* later in the same worker thread, hands it to TrafficLog.update, which   *)
(* turns cumulative counters into per-day totals in SQLite.  Between the   *)
(* two calls anything may happen: more traffic, midnight, a restart of     *)
(* Xray (the counters return to zero), a crash of the monitor.             *)
(*                                                                         *)
(* Days are numbers, the empty date is NoDate.  What the code keeps in     *)
(* Python dicts keyed by user is a function whose domain is the set of     *)
(* keys.  reach, since and faults are history variables: the code has no   *)
(* counterpart of them, and nothing but the properties reads them.         *)
(***************************************************************************)
EXTENDS Integers, FiniteSets, FiniteSetsExt

CONSTANTS
    Users,          \* the "email@tag" keys
    Moves,          \* the transfers the environment may make: <<user, dir, bytes>>
    LastDay,        \* bound: the last day modelled
    MaxDayBytes,    \* bound: bytes all users together may move in a day
    MaxFaultKinds,  \* bound: how many kinds of fault one behaviour may show
    RestartFloor,   \* 102_400 in the code: a user takes part in restart detection above it
    SaveEvery,      \* _SAVE_EVERY: ticks between two saves of today_base
    KeepDays        \* 90 in the code: retention of daily_traffic

Dirs == {"up", "dn"}
Days == 1 .. LastDay
NoDate == 0

ASSUME LastDayAssumption == LastDay \in Nat \ {0}
ASSUME MovesAssumption == Moves \subseteq Users \X Dirs \X Nat
ASSUME MaxDayBytesAssumption == MaxDayBytes \in Nat
ASSUME MaxFaultKindsAssumption == MaxFaultKinds \in Nat
ASSUME RestartFloorAssumption == RestartFloor \in Nat
ASSUME SaveEveryAssumption == SaveEvery \in Nat \ {0}
ASSUME KeepDaysAssumption == KeepDays \in Nat

VARIABLES
    counter,    \* Xray: user -> cumulative bytes, for the users with traffic since its start
    day,        \* the calendar
    daily,      \* table daily_traffic: date -> (user -> bytes)
    dbDate,     \* table meta, key today_date
    dbBase,     \* table today_base
    running,    \* the monitor process is up
    todayDate,  \* _today_date
    todayBase,  \* _today_base: user -> [abs, pre]
    lastAbs,    \* _last_abs: the sample of the last accounted tick
    tickN,      \* _tick_n modulo SaveEvery
    sample,     \* the sample a tick worker carries from fetch to update
    reach,      \* history: bytes that may rightly be charged to a date
    since,      \* history: bytes moved since the pending sample was taken
    faults      \* history: the kinds of fault that have happened

external == <<counter, day>>
database == <<daily, dbDate, dbBase>>
memory == <<running, todayDate, todayBase, lastAbs, tickN>>
history == <<reach, since, faults>>
vars == <<counter, day, daily, dbDate, dbBase, running, todayDate, todayBase,
          lastAbs, tickN, sample, reach, since, faults>>
-----------------------------------------------------------------------------
(* Values *)

Bytes == [Dirs -> Nat]
Zero == [x \in Dirs |-> 0]
IsPartialMap(m, S) == DOMAIN m \subseteq Users /\ m \in [DOMAIN m -> S]
IsSnapshot(m) == IsPartialMap(m, Bytes)
IsBase(b) == IsPartialMap(b, [abs : Bytes, pre : Bytes])
Faults == {"restart", "zeroed", "torn", "save", "load"}

\* Those after which totals may go down: the counters have returned to zero, by a restart of
\* Xray or by the user, or a base could not be saved or loaded.
Disturbances == {"restart", "zeroed", "save", "load"}

Nothing == [u \in {} |-> Zero]
NoSample == [taken |-> FALSE, users |-> Nothing]

\* max(0, n)
Pos(n) == IF n > 0 THEN n ELSE 0

\* m.get(u, {}).get(x, 0)
At(m, u, x) == IF u \in DOMAIN m THEN m[u][x] ELSE 0

\* today_base.get(u, {"up_abs": 0, "dn_abs": 0, "pre_up": 0, "pre_dn": 0})
AbsOf(b, u, x) == IF u \in DOMAIN b THEN b[u].abs[x] ELSE 0
PreOf(b, u, x) == IF u \in DOMAIN b THEN b[u].pre[x] ELSE 0

\* INSERT ... ON CONFLICT DO UPDATE of a set of rows
Upsert(rows, new) ==
    [u \in DOMAIN rows \union DOMAIN new |->
        IF u \in DOMAIN new THEN new[u] ELSE rows[u]]

\* A faulty variant of _compute_today, for mutation.
DeltasUnclamped(b, users) ==
    [u \in DOMAIN users |->
        [x \in Dirs |-> PreOf(b, u, x) + users[u][x] - AbsOf(b, u, x)]]

\* _compute_today
Deltas(b, users) ==
    [u \in DOMAIN users |->
        [x \in Dirs |-> PreOf(b, u, x) + Pos(users[u][x] - AbsOf(b, u, x))]]

\* The base of a new day: the sample itself, nothing carried over.
FreshBase(users) ==
    [u \in DOMAIN users |-> [abs |-> users[u], pre |-> Zero]]

\* The restart branch of update: what was counted up to the last accounted
\* sample moves into pre, and the new sample becomes the base.  A user that is
\* not in today_base yet starts there with pre = 0.
Rebased(b, last, users) ==
    [u \in DOMAIN b \union DOMAIN users |->
        [abs |-> IF u \in DOMAIN users THEN users[u] ELSE b[u].abs,
         pre |-> [x \in Dirs |->
                    PreOf(b, u, x) + IF u \in DOMAIN b \intersect DOMAIN last
                                     THEN Pos(last[u][x] - AbsOf(b, u, x)) ELSE 0]]]

\* restarted = any(...): a counter of a user with a large enough base fell.
RestartDetected(users) ==
    /\ DOMAIN lastAbs # {}
    /\ \E u \in DOMAIN todayBase :
        /\ todayBase[u].abs["dn"] > RestartFloor
        /\ \E x \in Dirs : At(users, u, x) < At(lastAbs, u, x)

\* The base update works with once restart detection has run.
BaseFor(users) ==
    IF RestartDetected(users) THEN Rebased(todayBase, lastAbs, users) ELSE todayBase
-----------------------------------------------------------------------------
TypeOK ==
    /\ IsSnapshot(counter)
    /\ day \in Days
    /\ daily = [d \in Days |-> daily[d]]
    /\ \A d \in Days : IsSnapshot(daily[d])
    /\ dbDate \in Days \union {NoDate}
    /\ IsBase(dbBase)
    /\ running \in BOOLEAN
    /\ todayDate \in Days \union {NoDate}
    /\ IsBase(todayBase)
    /\ IsSnapshot(lastAbs)
    /\ tickN \in 0 .. SaveEvery - 1
    /\ sample = [taken |-> sample.taken, users |-> sample.users]
    /\ sample.taken \in BOOLEAN
    /\ IsSnapshot(sample.users)
    /\ reach \in [Days -> [Users -> Bytes]]
    /\ since \in [Users -> Bytes]
    /\ faults \subseteq Faults

NoBytes == [u \in Users |-> Zero]

Init ==
    /\ counter = Nothing
    /\ day = 1
    /\ daily = [d \in Days |-> Nothing]
    /\ dbDate = NoDate
    /\ dbBase = Nothing
    /\ running = FALSE
    /\ todayDate = NoDate
    /\ todayBase = Nothing
    /\ lastAbs = Nothing
    /\ tickN = 0
    /\ sample = NoSample
    /\ reach = [d \in Days |-> NoBytes]
    /\ since = NoBytes
    /\ faults = {}
-----------------------------------------------------------------------------
(* The environment *)

\* A fault of kind k happens.
Fault(k) ==
    /\ Cardinality((faults \union {k}) \ {"torn"}) <= MaxFaultKinds
    /\ faults' = faults \union {k}

DayBytes == MapThenSumSet(LAMBDA p : reach[day][p[1]][p[2]], Users \X Dirs)

Moved(u, x, n) ==
    [v \in {u} |-> [y \in Dirs |-> At(counter, u, y) + IF y = x THEN n ELSE 0]]

\* A user moves n bytes; Xray creates both counters at the first byte.
Traffic(u, x, n) ==
    /\ DayBytes + n <= MaxDayBytes
    /\ counter' = Upsert(counter, Moved(u, x, n))
    /\ reach' = [reach EXCEPT ![day][u][x] = @ + n]
    /\ since' = IF sample.taken THEN [since EXCEPT ![u][x] = @ + n] ELSE since
    /\ UNCHANGED <<day, database, memory, sample, faults>>

\* What was moved after a sample that is still pending at midnight is charged
\* to the new day, because update reads the date after fetch took the sample.
Midnight ==
    /\ day < LastDay
    /\ day' = day + 1
    /\ reach' = [reach EXCEPT ![day + 1] = since]
    /\ UNCHANGED <<counter, database, memory, sample, since, faults>>

\* Xray restarts: it knows no user until the user's next byte.
XrayRestart ==
    /\ DOMAIN counter # {}
    /\ counter' = Nothing
    /\ Fault("restart")
    /\ UNCHANGED <<day, database, memory, sample, reach, since>>

\* XrayStats.reset: QueryStats with reset=True zeroes the counters it returns.
ResetStats ==
    /\ running
    /\ DOMAIN counter # {}
    /\ counter' = [u \in DOMAIN counter |-> Zero]
    /\ Fault("zeroed")
    /\ UNCHANGED <<day, database, memory, sample, reach, since>>
-----------------------------------------------------------------------------
(* The monitor *)

SaveBase(date, base) ==
    /\ dbDate' = date
    /\ dbBase' = base

DropSample ==
    /\ sample' = NoSample
    /\ since' = NoBytes

ForgetMemory ==
    /\ todayDate' = NoDate
    /\ todayBase' = Nothing
    /\ lastAbs' = Nothing
    /\ tickN' = 0

\* A faulty variant of _load_today, for mutation.
LoadTodayDateOnly ==
    /\ todayDate' = dbDate
    /\ todayBase' = Nothing

\* _load_today
LoadToday ==
    /\ todayDate' = dbDate
    /\ todayBase' = dbBase

Start ==
    /\ ~running
    /\ running' = TRUE
    /\ LoadToday
    /\ UNCHANGED <<external, database, lastAbs, tickN, sample, history>>

\* _load_today swallows a database error and starts with an empty day.
StartLoadFails ==
    /\ ~running
    /\ running' = TRUE
    /\ Fault("load")
    /\ UNCHANGED <<external, database, todayDate, todayBase, lastAbs, tickN,
                   sample, reach, since>>

\* fetch in the tick worker; without users the worker does not call update.
Fetch ==
    /\ running
    /\ ~sample.taken
    /\ DOMAIN counter # {}
    /\ sample' = [taken |-> TRUE, users |-> counter]
    /\ since' = NoBytes
    /\ UNCHANGED <<external, database, memory, reach, faults>>

Updating == running /\ sample.taken

\* The rows written when a day is closed, and the 90-day retention.  Nothing is
\* closed, and nothing is deleted, when this process has accounted no tick yet.
Closes == todayDate # NoDate /\ DOMAIN lastAbs # {}

\* (And a faulty variant for mutation, which deletes a day too early.)
ClosedDailyEarly ==
    IF Closes
    THEN [d \in Days |->
            IF d <= day - KeepDays THEN Nothing
            ELSE IF d = todayDate THEN Upsert(daily[d], Deltas(todayBase, lastAbs))
            ELSE daily[d]]
    ELSE daily

ClosedDaily ==
    IF Closes
    THEN [d \in Days |->
            IF d < day - KeepDays THEN Nothing
            ELSE IF d = todayDate THEN Upsert(daily[d], Deltas(todayBase, lastAbs))
            ELSE daily[d]]
    ELSE daily

\* update on the first tick of a day: close the old day, open the new one.
OpenDay ==
    /\ Updating
    /\ todayDate # day
    /\ daily' = ClosedDaily
    /\ todayDate' = day
    /\ todayBase' = FreshBase(sample.users)
    /\ lastAbs' = sample.users
    /\ SaveBase(day, FreshBase(sample.users))
    /\ DropSample
    /\ UNCHANGED <<external, running, tickN, reach, faults>>

\* The transaction that closes the old day fails: update raises, nothing changed.
OpenDayCloseFails ==
    /\ Updating
    /\ todayDate # day
    /\ Closes
    /\ DropSample
    /\ UNCHANGED <<external, database, memory, reach, faults>>

\* The day is open in memory, but saving it fails.
OpenDaySaveFails ==
    /\ Updating
    /\ todayDate # day
    /\ daily' = ClosedDaily
    /\ todayDate' = day
    /\ todayBase' = FreshBase(sample.users)
    /\ lastAbs' = sample.users
    /\ Fault("save")
    /\ DropSample
    /\ UNCHANGED <<external, dbDate, dbBase, running, tickN, reach>>

\* The tick is accounted: today's rows, last_abs, the tick counter.
Account ==
    LET users == sample.users
        base == BaseFor(users)
    IN  /\ Updating
        /\ todayDate = day
        /\ todayBase' = base
        /\ daily' = [daily EXCEPT ![day] = Upsert(@, Deltas(base, users))]
        /\ lastAbs' = users
        /\ tickN' = (tickN + 1) % SaveEvery
        /\ DropSample
        /\ UNCHANGED <<external, running, todayDate, reach, faults>>

\* update on any later tick, with the periodic save of today_base.
Record ==
    /\ Account
    /\ IF tickN + 1 = SaveEvery THEN SaveBase(day, BaseFor(sample.users))
                                ELSE UNCHANGED <<dbDate, dbBase>>

\* The periodic save fails after the tick's rows are committed.
RecordSaveFails ==
    /\ Account
    /\ tickN + 1 = SaveEvery
    /\ UNCHANGED <<dbDate, dbBase>>

\* Writing today's rows fails.  Restart detection has already changed today_base
\* in memory, and last_abs still holds the sample before the restart.  (Bound: one
\* such tick in a behaviour; each further one would add the same bytes to pre again.)
RecordFails ==
    /\ Updating
    /\ todayDate = day
    /\ todayBase' = BaseFor(sample.users)
    /\ IF RestartDetected(sample.users)
       THEN "torn" \notin faults /\ Fault("torn")
       ELSE UNCHANGED faults
    /\ DropSample
    /\ UNCHANGED <<external, database, running, todayDate, lastAbs, tickN, reach>>

\* close: a last save (an error is logged and ignored), then the process ends.
Close ==
    /\ running
    /\ running' = FALSE
    /\ SaveBase(todayDate, todayBase)
    /\ ForgetMemory
    /\ DropSample
    /\ UNCHANGED <<external, daily, reach, faults>>

\* The process dies, or close could not save.
Crash ==
    /\ running
    /\ running' = FALSE
    /\ ForgetMemory
    /\ DropSample
    /\ UNCHANGED <<external, database, reach, faults>>
-----------------------------------------------------------------------------
Environment ==
    \/ \E m \in Moves : Traffic(m[1], m[2], m[3])
    \/ Midnight
    \/ XrayRestart
    \/ ResetStats

Update ==
    \/ OpenDay
    \/ OpenDayCloseFails
    \/ OpenDaySaveFails
    \/ Record
    \/ RecordSaveFails
    \/ RecordFails

Monitor ==
    \/ Start
    \/ StartLoadFails
    \/ Fetch
    \/ Update
    \/ Close
    \/ Crash

Next == Environment \/ Monitor

Spec == Init /\ [][Next]_vars
-----------------------------------------------------------------------------
(* Properties *)

\* No byte is charged twice.  A user's total for a date never exceeds the
\* bytes the user really moved that day (with those moved between the sample
\* that opened the day and midnight), whatever the order of midnight, Xray
\* restarts, detected or not, counter resets, monitor crashes and database
\* errors, with one exception: a write error on the very tick that detects a
\* restart ("torn", see RecordFails).
NoOvercount ==
    "torn" \notin faults =>
        \A d \in Days : \A u \in DOMAIN daily[d] : \A x \in Dirs :
            daily[d][u][x] <= reach[d][u][x]

NeverLowered ==
    \A d \in Days : \A u \in DOMAIN daily[d] \intersect DOMAIN daily'[d] :
        \A x \in Dirs : daily'[d][u][x] >= daily[d][u][x]

\* While the counters have not returned to zero, a recorded total never goes
\* down: a crash of the monitor at any point, failed ticks and the closing of a
\* day included.  (The opening save and the load at start must have worked.)  The runs
\* check it as a part of ImplementsLedger.
TotalsOnlyGrow ==
    [][faults' \intersect Disturbances = {} => NeverLowered]_vars

\* What restart detection is for: a restart of Xray does not lower a total that
\* is already recorded, as long as the user has not reset the counters and the monitor
\* itself runs without a fault.
RestartKeepsTotals ==
    [][running /\ faults' \subseteq {"restart"} => NeverLowered]_vars
-----------------------------------------------------------------------------
(* The promise of daily accounting, for each user and direction *)

Accounts == Users \X Dirs
Chargeable == [d \in Days |-> [a \in Accounts |-> reach[d][a[1]][a[2]]]]
Recorded == [d \in Days |-> [a \in Accounts |-> At(daily[d], a[1], a[2])]]

Ledger == INSTANCE DailyLedger WITH
    moved <- Chargeable, total <- Recorded,
    doubled <- "torn" \in faults,
    disturbed <- faults \intersect Disturbances # {}

\* The accounting keeps a ledger.  Beyond NoOvercount and TotalsOnlyGrow, no row is lost
\* before its retention is over: not by the closing of a day, not by a write that fails
\* half way, not by a process that is killed and started again.
ImplementsLedger == Ledger!Spec
-----------------------------------------------------------------------------
(* The inductive strengthening of NoOvercount *)

Counted(base, m, u, x) == PreOf(base, u, x) + Pos(At(m, u, x) - AbsOf(base, u, x))

\* Dates never run ahead of the calendar, a date in the future has no rows, and
\* a process that is down holds nothing in memory.
DatesOK ==
    /\ todayDate <= day
    /\ dbDate <= day
    /\ \A d \in Days : d > day => DOMAIN daily[d] = {}
    /\ ~running => ~sample.taken /\ todayDate = NoDate /\ DOMAIN lastAbs = {}

\* A base of today, in memory or saved, would charge no byte twice if the
\* counters were accounted right now.
BaseOK(date, base, u, x) ==
    date = day => Counted(base, counter, u, x) <= reach[day][u][x]

\* Folding the last accounted sample into the base, which closing a day and a
\* detected restart do, charges no byte twice.
LastOK(u, x) ==
    todayDate # NoDate /\ u \in DOMAIN lastAbs =>
        Counted(todayBase, lastAbs, u, x) <= reach[todayDate][u][x]

\* The bytes moved since the pending sample was taken are still free to be
\* charged after the sample, or the last accounted one, has been folded in.
SampleOK(u, x) ==
    sample.taken =>
        /\ At(counter, u, x) <= At(sample.users, u, x) + since[u][x]
        /\ since[u][x] <= reach[day][u][x]
        /\ todayDate = day =>
            /\ Counted(todayBase, sample.users, u, x) + since[u][x] <= reach[day][u][x]
            /\ u \in DOMAIN lastAbs =>
                Counted(todayBase, lastAbs, u, x) + since[u][x] <= reach[day][u][x]

RowsOK(u, x) ==
    \A d \in Days : u \in DOMAIN daily[d] => daily[d][u][x] <= reach[d][u][x]

ChargedOnce ==
    "torn" \notin faults =>
        \A u \in Users, x \in Dirs :
            /\ BaseOK(todayDate, todayBase, u, x)
            /\ BaseOK(dbDate, dbBase, u, x)
            /\ LastOK(u, x)
            /\ SampleOK(u, x)
            /\ RowsOK(u, x)

IInv == TypeOK /\ DatesOK /\ ChargedOnce
-----------------------------------------------------------------------------
(* The inductive invariant of TotalsOnlyGrow                               *)

Undisturbed == faults \intersect Disturbances = {}

\* The rows of the day that is open are not ahead of what accounting m would write now.
RowsBehind(m, u, x) ==
    dbDate \in Days /\ u \in DOMAIN daily[dbDate] =>
        daily[dbDate][u][x] <= Counted(dbBase, m, u, x)

\* The last accounted sample, the pending one and the counters follow each other.
InOrder(u, x) ==
    /\ At(lastAbs, u, x) <= At(counter, u, x)
    /\ sample.taken => /\ At(lastAbs, u, x) <= At(sample.users, u, x)
                       /\ At(sample.users, u, x) <= At(counter, u, x)

NextRows(u, x) ==
    /\ RowsBehind(counter, u, x)
    /\ sample.taken => RowsBehind(sample.users, u, x)
    /\ u \in DOMAIN lastAbs => RowsBehind(lastAbs, u, x)

\* The saved base is the one in memory, and no later day has rows.
Growing ==
    /\ running => todayDate = dbDate /\ todayBase = dbBase
    /\ \A d \in Days : d > dbDate => DOMAIN daily[d] = {}
    /\ \A u \in Users, x \in Dirs : InOrder(u, x) /\ NextRows(u, x)

GrowthInv == Undisturbed => Growing
=============================================================================
