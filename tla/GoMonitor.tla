----------------------------- MODULE GoMonitor ------------------------------
(***************************************************************************)
(* The traffic accounting of the Go monitor: the statistics collector      *)
(* (internal/stats), the daily storage (internal/storage) and the program  *)
(* that connects them (internal/tui).  Every tick starts a fetch in a      *)
(* goroutine of its own; a slow one (up to 6 seconds) overlaps later ones. *)
(* A fetch reads Xray's counters without a lock, brings the collector up   *)
(* to date under its mutex, and sends the counters to the program, which   *)
(* hands them to the storage in the order the messages arrive.             *)
(*                                                                         *)
(* Uplink and downlink are accounted independently of each other in the    *)
(* same way: one of them is modelled.  What a user's addresses were given  *)
(* is kept as one sum per user.  moved and events are history.             *)
(***************************************************************************)
EXTENDS Integers, FiniteSets, FiniteSetsExt

CONSTANTS
    Users,
    Fetches,        \* bound: goroutines that may be in Fetch at the same time
    LastDay,        \* bound: the last day modelled
    MaxMoved,       \* bound: bytes moved altogether
    MaxEventKinds,  \* bound: kinds of event that a behaviour may show
    SaveEvery,      \* saveEvery, 30 in the code
    KeepDays        \* keepDays, 90 in the code

ASSUME BoundsAssumption ==
    /\ LastDay \in Nat \ {0} /\ MaxMoved \in Nat /\ MaxEventKinds \in Nat
    /\ SaveEvery \in Nat \ {0} /\ KeepDays \in Nat

VARIABLES
    counter,    \* Xray: the bytes of each user it has seen since its start
    day,        \* the calendar
    fetch,      \* the goroutines: where each is, and the entries it carries
    prevAbs,    \* Collector.prevAbs
    ipTraffic,  \* Collector.IPTraffic, summed per user
    running,    \* the program is up
    todayDate,  \* Storage.todayDate
    data,       \* Storage.data: daily totals and bases
    tickN,      \* Storage.tickN modulo SaveEvery
    file,       \* the JSON file
    moved,      \* history: the bytes each user has moved by the end of a day
    events      \* history: the kinds of event that have happened

xrayState == <<counter, day>>
collector == <<fetch, prevAbs, ipTraffic>>
storage == <<running, todayDate, data, tickN, file>>
history == <<moved, events>>
vars == <<counter, day, fetch, prevAbs, ipTraffic, running, todayDate, data, tickN,
          file, moved, events>>
-----------------------------------------------------------------------------
Days == 1 .. LastDay
NoEntries == [u \in {} |-> 0]
Idle == [pc |-> "idle", entries |-> NoEntries]
NoData == [daily |-> [d \in Days |-> NoEntries], bases |-> NoEntries]
IsMap(m, S) == DOMAIN m \subseteq Users /\ \A u \in DOMAIN m : m[u] \in S
Get(m, u) == IF u \in DOMAIN m THEN m[u] ELSE 0
Extended(m, new) == [u \in DOMAIN m \union DOMAIN new |-> IF u \in DOMAIN new THEN new[u] ELSE m[u]]
Pos(n) == IF n > 0 THEN n ELSE 0
InFlight == {f \in Fetches : fetch[f].pc # "idle"}

Event(k) ==
    /\ Cardinality(events \union {k}) <= MaxEventKinds
    /\ events' = events \union {k}

IsData(s) ==
    /\ DOMAIN s.daily = Days /\ \A d \in Days : IsMap(s.daily[d], Nat)
    /\ IsMap(s.bases, [abs : Nat, pre : Nat])

TypeOK ==
    /\ IsMap(counter, Nat) /\ day \in Days
    /\ \A f \in Fetches :
        fetch[f].pc \in {"idle", "queried", "answered"} /\ IsMap(fetch[f].entries, Nat)
    /\ IsMap(prevAbs, Nat) /\ ipTraffic \in [Users -> Nat]
    /\ running \in BOOLEAN /\ todayDate \in Days
    /\ IsData(data) /\ IsData(file)
    /\ tickN \in 0 .. SaveEvery - 1
    /\ moved \in [Days -> [Users -> Nat]]
    /\ events \subseteq {"reset", "overlap", "late", "load"}

Init ==
    /\ counter = NoEntries /\ day = 1
    /\ fetch = [f \in Fetches |-> Idle]
    /\ prevAbs = NoEntries /\ ipTraffic = [u \in Users |-> 0]
    /\ running = FALSE /\ todayDate = 1 /\ data = NoData /\ tickN = 0
    /\ file = NoData
    /\ moved = [d \in Days |-> [u \in Users |-> 0]]
    /\ events = {}
-----------------------------------------------------------------------------
(* Xray and time *)

\* A user connects, with no bytes yet, or moves a byte.
Traffic(u, n) ==
    /\ MapThenSumSet(LAMBDA v : moved[day][v], Users) + n <= MaxMoved
    /\ u \in DOMAIN counter => n > 0
    /\ counter' = Extended(counter, [v \in {u} |-> Get(counter, u) + n])
    /\ moved' = [d \in Days |-> IF d < day THEN moved[d] ELSE [moved[d] EXCEPT ![u] = @ + n]]
    /\ UNCHANGED <<day, collector, storage, events>>

\* With a fetch in flight the bytes of two days cannot be told apart ("late").
Midnight ==
    /\ day < LastDay
    /\ day' = day + 1
    /\ IF InFlight = {} THEN UNCHANGED events ELSE Event("late")
    /\ UNCHANGED <<counter, collector, storage, moved>>

XrayRestart ==
    /\ DOMAIN counter # {}
    /\ counter' = NoEntries
    /\ Event("reset")
    /\ UNCHANGED <<day, collector, storage, moved>>
-----------------------------------------------------------------------------
(* Collector.Fetch *)

\* QueryStats, outside the mutex.
Query(f) ==
    /\ running
    /\ fetch[f].pc = "idle"
    /\ fetch' = [fetch EXCEPT ![f] = [pc |-> "queried", entries |-> counter]]
    /\ IF InFlight = {} THEN UNCHANGED events ELSE Event("overlap")
    /\ UNCHANGED <<xrayState, prevAbs, ipTraffic, storage, moved>>

\* What a user's addresses are given for this fetch; a counter that is new counts in full.
\* (And a faulty variant for mutation, without the clamp for counters that went back.)
DeltaUnclamped(entries, u) == entries[u] - Get(prevAbs, u)
Delta(entries, u) == Pos(entries[u] - Get(prevAbs, u))

\* Faulty variant of the new previous values, for mutation: new names only.
Remembered(entries) == Extended(entries, prevAbs)
Previous(entries) == Extended(prevAbs, entries)

\* The rest of Fetch, under the mutex.  The log knows addresses of the users in known.
Account(f, known) ==
    LET entries == fetch[f].entries
    IN  /\ fetch[f].pc = "queried"
        /\ fetch' = [fetch EXCEPT ![f].pc = "answered"]
        /\ ipTraffic' = [u \in Users |-> ipTraffic[u] +
                IF u \in known \intersect DOMAIN entries THEN Delta(entries, u) ELSE 0]
        /\ prevAbs' = Previous(entries)
        /\ UNCHANGED <<xrayState, storage, history>>

FetchFails(f) ==
    /\ fetch[f].pc = "queried"
    /\ fetch' = [fetch EXCEPT ![f] = Idle]
    /\ UNCHANGED <<xrayState, prevAbs, ipTraffic, storage, history>>
-----------------------------------------------------------------------------
(* Storage.Update *)

\* rotateDay: old rows go, and what was carried over restarts is forgotten.
Rotated(s) ==
    [daily |-> [d \in Days |-> IF d < day - KeepDays THEN NoEntries ELSE s.daily[d]],
     bases |-> [u \in DOMAIN s.bases |-> [s.bases[u] EXCEPT !.pre = 0]]]

\* A user's base after a sample of n bytes: at a restart the old base is carried over.
\* (And a faulty variant for mutation, which carries every sample over.)
CarriedAlways(base, n) == [base EXCEPT !.pre = @ + Pos(n - base.abs)]
Carried(base, n) == IF n < base.abs THEN [abs |-> n, pre |-> base.abs] ELSE base

\* The bytes charged to today.
Charged(base, n) == base.pre + Pos(n - base.abs)

\* A user without a base gets one, and no row.
Updated(s, users) ==
    LET known == DOMAIN users \intersect DOMAIN s.bases
        base == [u \in DOMAIN users |->
                    IF u \in known THEN Carried(s.bases[u], users[u])
                                   ELSE [abs |-> users[u], pre |-> 0]]
    IN  [daily |-> [s.daily EXCEPT ![day] =
                        Extended(@, [u \in known |-> Charged(base[u], users[u])])],
         bases |-> Extended(s.bases, base)]

\* The program takes a statsMsg.
Update(f) ==
    LET s == IF todayDate = day THEN data ELSE Rotated(data)
        new == Updated(s, fetch[f].entries)
    IN  /\ running
        /\ fetch[f].pc = "answered"
        /\ fetch' = [fetch EXCEPT ![f] = Idle]
        /\ todayDate' = day
        /\ data' = new
        /\ tickN' = (tickN + 1) % SaveEvery
        /\ \/ tickN' = 0 /\ file' = new
           \/ UNCHANGED file            \* no save is due, or it fails
        /\ UNCHANGED <<xrayState, prevAbs, ipTraffic, running, history>>
-----------------------------------------------------------------------------
(* The program *)

\* A faulty variant of load, for mutation: the rows are not restored.
LoadedBases == [file EXCEPT !.daily = [d \in Days |-> NoEntries]]
Loaded == file

\* storage.New; a file that cannot be read is ignored.
Start ==
    /\ ~running
    /\ running' = TRUE
    /\ todayDate' = day
    /\ \/ data' = Loaded /\ UNCHANGED events
       \/ data' = NoData /\ file # NoData /\ Event("load")
    /\ UNCHANGED <<xrayState, collector, tickN, file, moved>>

\* The process ends, and with it its goroutines and its memory.
Ended ==
    /\ running
    /\ running' = FALSE
    /\ fetch' = [f \in Fetches |-> Idle]
    /\ prevAbs' = NoEntries /\ ipTraffic' = [u \in Users |-> 0]
    /\ data' = NoData /\ tickN' = 0
    /\ UNCHANGED <<xrayState, todayDate, history>>

\* "q": the storage is flushed first.
Quit == Ended /\ file' = data

\* A kill; or the flush has failed.
Kill == Ended /\ UNCHANGED file
-----------------------------------------------------------------------------
Next ==
    \/ \E u \in Users, n \in 0 .. 1 : Traffic(u, n)
    \/ Midnight
    \/ XrayRestart
    \/ \E f \in Fetches :
        \/ Query(f)
        \/ \E known \in SUBSET Users : Account(f, known)
        \/ FetchFails(f)
        \/ Update(f)
    \/ Start
    \/ Quit
    \/ Kill

Spec == Init /\ [][Next]_vars
-----------------------------------------------------------------------------
(* Properties *)

\* A day's total never exceeds what the user has moved so far on all days, whatever
\* restarts of Xray, kills, failed saves and day changes there are, as long as the
\* fetches do not overlap: an older sample that arrives later looks like a restart.
DailyBounded ==
    "overlap" \notin events =>
        \A d \in Days : \A u \in DOMAIN data.daily[d] : data.daily[d][u] <= moved[d][u]

\* The addresses of a user are not given more than the user has moved, as long as
\* the fetches do not overlap: prevAbs would go back to an older sample.
AddressesBounded ==
    "overlap" \notin events =>
        \A u \in Users : ipTraffic[u] <= moved[day][u]

\* A total that is on the disk never goes down while Xray is not restarted: bases and
\* totals are saved together, so a monitor that was killed continues where it was saved.
\* The runs check it as a part of ImplementsLedger.
SavedTotalsOnlyGrow ==
    [][events' \subseteq {"late"} =>
        \A d \in Days : \A u \in DOMAIN file.daily[d] \intersect DOMAIN file'.daily[d] :
            file'.daily[d][u] >= file.daily[d][u]]_vars

\* What the promise of daily accounting is about: the bytes moved by the end of each day that
\* has begun, and the rows on the disk.
Chargeable == [d \in Days |-> [u \in Users |-> IF d <= day THEN moved[d][u] ELSE 0]]
Recorded == [d \in Days |-> [u \in Users |-> Get(file.daily[d], u)]]

Ledger == INSTANCE DailyLedger WITH
    Accounts <- Users, moved <- Chargeable, total <- Recorded,
    doubled <- "overlap" \in events, disturbed <- ~(events \subseteq {"late"})

\* The file is a ledger.  Beyond what the two properties above say of it, no row is lost
\* before its retention is over, whichever of kills, saves that fail and saves that are
\* skipped come between the days.
ImplementsLedger == Ledger!Spec

\* "GetToday returns today's traffic per user": nothing that was moved on an earlier
\* day is in a day's total.
TodayOnly ==
    events = {} =>
        \A d \in Days : \A u \in DOMAIN data.daily[d] :
            data.daily[d][u] <= moved[d][u] - (IF d = 1 THEN 0 ELSE moved[d - 1][u])
=============================================================================
