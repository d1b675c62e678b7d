--------------------------- MODULE GoMonitorProofs --------------------------
(***************************************************************************)
(* Proofs about GoMonitor, for any users, goroutines, days, bytes and      *)
(* events.                                                                 *)
(*                                                                         *)
(* A day's total is bounded because of what a base allows: the next charge *)
(* against it, by a sample that is under way (SampleBounded) or by one yet *)
(* to be taken (BaseBounded), is for bytes that have been moved.  That is  *)
(* lost when fetches overlap, and both notions speak of one fetch only.    *)
(***************************************************************************)
EXTENDS GoMonitor, TLAPS

Maps(S) == UNION {[U -> S] : U \in SUBSET Users}
Base == [abs : Nat, pre : Nat]
Stored == [daily : [Days -> Maps(Nat)], bases : Maps(Base)]
Goroutine == [pc : {"idle", "queried", "answered"}, entries : Maps(Nat)]

Typed ==
    /\ counter \in Maps(Nat) /\ day \in Days
    /\ fetch \in [Fetches -> Goroutine]
    /\ prevAbs \in Maps(Nat) /\ ipTraffic \in [Users -> Nat]
    /\ running \in BOOLEAN /\ todayDate \in Days
    /\ data \in Stored /\ file \in Stored
    /\ tickN \in 0 .. SaveEvery - 1
    /\ moved \in [Days -> [Users -> Nat]]
    /\ events \subseteq {"reset", "overlap", "late", "load"}

\* Nothing has been moved after today, and Xray counts nothing that was not moved; a program
\* that is off has no goroutines.
Calm ==
    /\ \A d \in Days : d >= day => moved[d] = moved[day]
    /\ \A u \in Users : Get(counter, u) <= moved[day][u]
    /\ ~running => InFlight = {}
Single == \A f, g \in InFlight : f = g
-----------------------------------------------------------------------------
(* While no fetches have overlapped *)

\* A base, and a sample of n bytes under way, where Xray counts c of g bytes moved.
BaseBounded(b, c, g) == b.abs <= g /\ b.pre + Pos(c - b.abs) <= g
SampleBounded(b, n, c, g) ==
    b.pre + Pos(n - b.abs) <= g /\ (n < b.abs => b.abs + Pos(c - n) <= g)

RowsBounded(s, m) == \A d \in Days : \A u \in DOMAIN s.daily[d] : s.daily[d][u] <= m[d][u]
BasesBounded(s, c, g) == \A u \in DOMAIN s.bases : BaseBounded(s.bases[u], Get(c, u), g[u])
Sampled(e, s, c, g) ==
    \A u \in DOMAIN e :
        e[u] <= g[u] /\ (u \in DOMAIN s.bases => SampleBounded(s.bases[u], e[u], Get(c, u), g[u]))

\* What addresses have been given (i), and would be given by the next fetch, or by the one
\* under way and its successor.
Distributed(i, p, c, g) == \A u \in Users : i[u] + Pos(Get(c, u) - Get(p, u)) <= g[u]
Asked(e, i, p, c, g) ==
    \A u \in DOMAIN e : i[u] + Pos(e[u] - Get(p, u)) + Pos(Get(c, u) - e[u]) <= g[u]

Bounded ==
    /\ Single
    /\ RowsBounded(data, moved) /\ BasesBounded(data, counter, moved[day])
    /\ RowsBounded(file, moved) /\ BasesBounded(file, counter, moved[day])
    /\ Distributed(ipTraffic, prevAbs, counter, moved[day])
    /\ \A f \in InFlight :
        /\ Sampled(fetch[f].entries, data, counter, moved[day])
        /\ fetch[f].pc = "queried" =>
            Asked(fetch[f].entries, ipTraffic, prevAbs, counter, moved[day])
-----------------------------------------------------------------------------
(* While Xray has not been restarted either, and every file could be read *)

\* Nothing is carried over, the counters c are beyond every base by what was charged on day d,
\* and no row is later than that.
Regular(s, c, d) ==
    /\ \A u \in DOMAIN s.bases : s.bases[u].pre = 0 /\ s.bases[u].abs <= Get(c, u)
    /\ \A e \in Days : e > d => DOMAIN s.daily[e] = {}
    /\ \A u \in DOMAIN s.daily[d] :
        u \in DOMAIN s.bases /\ s.daily[d][u] + s.bases[u].abs <= Get(c, u)

\* A sample under way is not older than any that has been charged.
Latest(e, s, c, d) ==
    \A u \in DOMAIN e :
        /\ e[u] <= Get(c, u)
        /\ u \in DOMAIN s.bases => s.bases[u].abs <= e[u]
        /\ u \in DOMAIN s.daily[d] => s.daily[d][u] + s.bases[u].abs <= e[u]

\* The program (s) is at least as far as the file (t).
RowsAhead(s, t) ==
    \A d \in Days : \A u \in DOMAIN t.daily[d] \intersect DOMAIN s.daily[d] :
        t.daily[d][u] <= s.daily[d][u]
Ahead(s, t, d) == DOMAIN t.daily[d] \subseteq DOMAIN s.daily[d] /\ RowsAhead(s, t)

Growing ==
    /\ Regular(data, counter, day) /\ Regular(file, counter, day)
    /\ \A f \in InFlight : Latest(fetch[f].entries, data, counter, day)
    /\ running => Ahead(data, file, day)

IInv ==
    /\ Typed /\ Calm
    /\ "overlap" \notin events => Bounded
    /\ events \subseteq {"late"} => Growing
-----------------------------------------------------------------------------
(* The helper operators *)

LEMMA MapFacts ==
  ASSUME NEW S, NEW m \in Maps(S)
  PROVE  DOMAIN m \subseteq Users /\ \A u \in DOMAIN m : m[u] \in S
<1>1. PICK U \in SUBSET Users : m \in [U -> S]
  BY DEF Maps
<1> QED BY <1>1

LEMMA MapIntro ==
  ASSUME NEW S, NEW U \in SUBSET Users, NEW m \in [U -> S]
  PROVE  m \in Maps(S)
  BY DEF Maps

LEMMA NoEntriesFacts ==
  ASSUME NEW S
  PROVE  NoEntries \in Maps(S) /\ DOMAIN NoEntries = {} /\ \A u : Get(NoEntries, u) = 0
<1>1. {} \in SUBSET Users /\ NoEntries \in [{} -> S]
  BY DEF NoEntries
<1> QED BY <1>1, MapIntro DEF NoEntries, Get

LEMMA ExtendedMap ==
  ASSUME NEW S, NEW m \in Maps(S), NEW new \in Maps(S)
  PROVE  Extended(m, new) \in Maps(S)
<1>1. /\ DOMAIN m \union DOMAIN new \in SUBSET Users
      /\ Extended(m, new) \in [DOMAIN m \union DOMAIN new -> S]
  BY MapFacts DEF Extended
<1> QED BY <1>1, MapIntro

LEMMA GetFacts ==
  ASSUME NEW m \in Maps(Nat), NEW u
  PROVE  Get(m, u) \in Nat /\ (u \in DOMAIN m => Get(m, u) = m[u])
  BY MapFacts DEF Get

LEMMA PosFacts ==
  ASSUME NEW n \in Int
  PROVE  Pos(n) \in Nat /\ (n >= 0 => Pos(n) = n) /\ (n <= 0 => Pos(n) = 0)
  BY DEF Pos

LEMMA DaysFacts == Days \subseteq Nat /\ 1 \in Days /\ \A d \in Days : ~(d < d - KeepDays)
  BY BoundsAssumption DEF Days

LEMMA StoredFacts ==
  ASSUME NEW s \in Stored
  PROVE  /\ s = [daily |-> s.daily, bases |-> s.bases] /\ DOMAIN s.daily = Days
         /\ \A d \in Days : /\ s.daily[d] \in Maps(Nat) /\ DOMAIN s.daily[d] \subseteq Users
                             /\ \A u \in DOMAIN s.daily[d] : s.daily[d][u] \in Nat
         /\ s.bases \in Maps(Base) /\ DOMAIN s.bases \subseteq Users
         /\ \A u \in DOMAIN s.bases : s.bases[u] \in Base
<1>1. s.daily \in [Days -> Maps(Nat)] /\ s.bases \in Maps(Base)
      /\ s = [daily |-> s.daily, bases |-> s.bases]
  BY DEF Stored
<1> QED BY <1>1, MapFacts

LEMMA NoDataFacts ==
  /\ NoData \in Stored /\ DOMAIN NoData.bases = {}
  /\ \A d \in Days : DOMAIN NoData.daily[d] = {}
<1>1. NoEntries \in Maps(Nat) /\ NoEntries \in Maps(Base) /\ DOMAIN NoEntries = {}
  BY NoEntriesFacts
<1> QED BY <1>1 DEF NoData, Stored

LEMMA TypedOK == Typed => TypeOK
<1> SUFFICES ASSUME Typed PROVE TypeOK
  OBVIOUS
<1>1. IsMap(counter, Nat) /\ IsMap(prevAbs, Nat)
  BY MapFacts DEF Typed, IsMap
<1>2. ASSUME NEW f \in Fetches
      PROVE  fetch[f].pc \in {"idle", "queried", "answered"} /\ IsMap(fetch[f].entries, Nat)
  <2>1. fetch[f] \in Goroutine
    BY DEF Typed
  <2>2. fetch[f].pc \in {"idle", "queried", "answered"} /\ fetch[f].entries \in Maps(Nat)
    BY <2>1 DEF Goroutine
  <2> QED BY <2>2, MapFacts DEF IsMap
<1>3. ASSUME NEW s \in Stored PROVE IsData(s)
  BY StoredFacts DEF IsData, IsMap, Base
<1> QED BY <1>1, <1>2, <1>3 DEF Typed, TypeOK
-----------------------------------------------------------------------------
(* The storage's operators *)

LEMMA CarriedFacts ==
  ASSUME NEW b \in Base, NEW n \in Nat
  PROVE  /\ Carried(b, n) \in Base
         /\ n < b.abs => Carried(b, n).abs = n /\ Carried(b, n).pre = b.abs
         /\ n >= b.abs => Carried(b, n) = b
         /\ Charged(Carried(b, n), n) = IF n < b.abs THEN b.abs ELSE b.pre + (n - b.abs)
  BY DEF Carried, Charged, Pos, Base

\* rotateDay keeps every base, but for what was carried over, and today's rows.
LEMMA RotatedFacts ==
  ASSUME NEW s \in Stored, day \in Days, NEW r, r = Rotated(s)
  PROVE  /\ r \in Stored /\ DOMAIN r.bases = DOMAIN s.bases
         /\ \A u \in DOMAIN s.bases : r.bases[u].abs = s.bases[u].abs /\ r.bases[u].pre = 0
         /\ \A d \in Days : r.daily[d] \in {NoEntries, s.daily[d]}
         /\ r.daily[day] = s.daily[day]
<1> DEFINE daily == [d \in Days |-> IF d < day - KeepDays THEN NoEntries ELSE s.daily[d]]
           bases == [u \in DOMAIN s.bases |-> [s.bases[u] EXCEPT !.pre = 0]]
<1>1. r = [daily |-> daily, bases |-> bases]
  BY DEF Rotated
<1>2. daily \in [Days -> Maps(Nat)] /\ daily[day] = s.daily[day]
      /\ \A d \in Days : daily[d] \in {NoEntries, s.daily[d]}
  BY StoredFacts, NoEntriesFacts, DaysFacts
<1>3. \A u \in DOMAIN s.bases : [s.bases[u] EXCEPT !.pre = 0] = [abs |-> s.bases[u].abs, pre |-> 0]
      /\ [abs |-> s.bases[u].abs, pre |-> 0] \in Base
  <2>1. ASSUME NEW u \in DOMAIN s.bases PROVE s.bases[u] \in [abs : Nat, pre : Nat]
    BY StoredFacts DEF Base
  <2> QED BY <2>1 DEF Base
<1>4. bases \in [DOMAIN s.bases -> Base] /\ DOMAIN s.bases \in SUBSET Users
  <2>1. \A u \in DOMAIN s.bases : [s.bases[u] EXCEPT !.pre = 0] \in Base
    BY <1>3
  <2>2. DOMAIN s.bases \in SUBSET Users
    BY StoredFacts
  <2> QED BY <2>1, <2>2
<1>5. bases \in Maps(Base)
  BY <1>4, MapIntro
<1> QED BY <1>1, <1>2, <1>3, <1>4, <1>5 DEF Stored

LEMMA UpdatedFacts ==
  ASSUME NEW s \in Stored, NEW users \in Maps(Nat), day \in Days, NEW r, r = Updated(s, users)
  PROVE  /\ r \in Stored /\ DOMAIN r.bases = DOMAIN s.bases \union DOMAIN users
         /\ \A u \in DOMAIN users \intersect DOMAIN s.bases :
                r.bases[u] = Carried(s.bases[u], users[u])
         /\ \A u \in DOMAIN users \ DOMAIN s.bases : r.bases[u].abs = users[u] /\ r.bases[u].pre = 0
         /\ \A u \in DOMAIN s.bases \ DOMAIN users : r.bases[u] = s.bases[u]
         /\ DOMAIN r.daily[day] = DOMAIN s.daily[day] \union (DOMAIN users \intersect DOMAIN s.bases)
         /\ \A u \in DOMAIN users \intersect DOMAIN s.bases :
                r.daily[day][u] = Charged(Carried(s.bases[u], users[u]), users[u])
         /\ \A u \in DOMAIN s.daily[day] \ (DOMAIN users \intersect DOMAIN s.bases) :
                r.daily[day][u] = s.daily[day][u]
         /\ \A d \in Days \ {day} : r.daily[d] = s.daily[d]
<1> DEFINE known == DOMAIN users \intersect DOMAIN s.bases
           base == [u \in DOMAIN users |->
                        IF u \in known THEN Carried(s.bases[u], users[u])
                                       ELSE [abs |-> users[u], pre |-> 0]]
           charges == [u \in known |-> Charged(base[u], users[u])]
<1>1. r = [daily |-> [s.daily EXCEPT ![day] = Extended(s.daily[day], charges)],
           bases |-> Extended(s.bases, base)]
  BY DEF Updated
<1>2. DOMAIN users \in SUBSET Users /\ \A u \in DOMAIN users : users[u] \in Nat
  BY MapFacts
<1>3. \A u \in known : Carried(s.bases[u], users[u]) \in Base
                       /\ Charged(Carried(s.bases[u], users[u]), users[u]) \in Nat
  <2>1. \A u \in known : s.bases[u] \in Base /\ users[u] \in Nat
    BY <1>2, StoredFacts
  <2>2. ASSUME NEW b \in Base, NEW n \in Nat PROVE Charged(Carried(b, n), n) \in Nat
    <3>1. b.abs \in Nat /\ b.pre \in Nat
      BY DEF Base
    <3>2. Charged(Carried(b, n), n) = IF n < b.abs THEN b.abs ELSE b.pre + (n - b.abs)
      BY CarriedFacts
    <3> QED BY <3>1, <3>2
  <2> QED BY <2>1, <2>2, CarriedFacts
<1>4. base \in [DOMAIN users -> Base]
  BY <1>2, <1>3 DEF Base
<1>5. base \in Maps(Base)
  BY <1>2, <1>4, MapIntro
<1>6. \A u \in known : charges[u] = Charged(Carried(s.bases[u], users[u]), users[u])
  OBVIOUS
<1>7. charges \in [known -> Nat] /\ known \in SUBSET Users
  BY <1>2, <1>3, <1>6
<1>8. charges \in Maps(Nat) /\ DOMAIN charges = known
  BY <1>7, MapIntro
<1>9. s.bases \in Maps(Base) /\ s.daily \in [Days -> Maps(Nat)]
  BY DEF Stored
<1>10. s.daily[day] \in Maps(Nat)
  BY <1>9
<1>11. /\ DOMAIN base = DOMAIN users
       /\ \A u \in known : base[u] = Carried(s.bases[u], users[u])
       /\ \A u \in DOMAIN users \ DOMAIN s.bases : base[u] = [abs |-> users[u], pre |-> 0]
  OBVIOUS
<1> HIDE DEF base, charges
<1>12. /\ Extended(s.bases, base) \in Maps(Base)
       /\ DOMAIN Extended(s.bases, base) = DOMAIN s.bases \union DOMAIN base
       /\ \A u \in DOMAIN base : Extended(s.bases, base)[u] = base[u]
       /\ \A u \in DOMAIN s.bases \ DOMAIN base : Extended(s.bases, base)[u] = s.bases[u]
  <2>1. Extended(s.bases, base) \in Maps(Base)
    BY <1>5, <1>9, ExtendedMap
  <2> QED BY <2>1 DEF Extended
<1>13. /\ Extended(s.daily[day], charges) \in Maps(Nat)
       /\ DOMAIN Extended(s.daily[day], charges) = DOMAIN s.daily[day] \union DOMAIN charges
       /\ \A u \in DOMAIN charges : Extended(s.daily[day], charges)[u] = charges[u]
       /\ \A u \in DOMAIN s.daily[day] \ DOMAIN charges :
             Extended(s.daily[day], charges)[u] = s.daily[day][u]
  <2>1. Extended(s.daily[day], charges) \in Maps(Nat)
    BY <1>8, <1>10, ExtendedMap
  <2> QED BY <2>1 DEF Extended
<1>14. r.bases = Extended(s.bases, base) /\ r.daily = [s.daily EXCEPT ![day] = Extended(s.daily[day], charges)]
  BY <1>1
<1>15. r.daily[day] = Extended(s.daily[day], charges) /\ r.daily \in [Days -> Maps(Nat)]
       /\ \A d \in Days \ {day} : r.daily[d] = s.daily[d]
  BY <1>9, <1>13, <1>14
<1>16. r \in Stored
  BY <1>1, <1>12, <1>14, <1>15 DEF Stored
<1>17. /\ DOMAIN r.daily[day] = DOMAIN s.daily[day] \union known
       /\ \A u \in known : r.daily[day][u] = Charged(Carried(s.bases[u], users[u]), users[u])
       /\ \A u \in DOMAIN s.daily[day] \ known : r.daily[day][u] = s.daily[day][u]
  BY <1>6, <1>8, <1>13, <1>15
<1> QED BY <1>11, <1>12, <1>14, <1>15, <1>16, <1>17

\* What Update starts from.
Current == IF todayDate = day THEN data ELSE Rotated(data)

LEMMA CurrentFacts ==
  ASSUME Typed
  PROVE  /\ Current \in Stored /\ DOMAIN Current.bases = DOMAIN data.bases
         /\ \A u \in DOMAIN data.bases :
                /\ Current.bases[u].abs = data.bases[u].abs
                /\ Current.bases[u].pre \in {0, data.bases[u].pre}
         /\ \A d \in Days : Current.daily[d] \in {NoEntries, data.daily[d]}
         /\ Current.daily[day] = data.daily[day]
<1>1. data \in Stored /\ day \in Days
  BY DEF Typed
<1>2. CASE todayDate = day
  BY <1>1, <1>2 DEF Current
<1>3. CASE todayDate # day
  <2>1. Current = Rotated(data)
    BY <1>3 DEF Current
  <2>2. /\ Current \in Stored /\ DOMAIN Current.bases = DOMAIN data.bases
        /\ \A u \in DOMAIN data.bases : Current.bases[u].abs = data.bases[u].abs /\ Current.bases[u].pre = 0
        /\ \A d \in Days : Current.daily[d] \in {NoEntries, data.daily[d]}
        /\ Current.daily[day] = data.daily[day]
    BY <1>1, <2>1, RotatedFacts
  <2>3. ASSUME NEW u \in DOMAIN data.bases
        PROVE  /\ Current.bases[u].abs = data.bases[u].abs
               /\ Current.bases[u].pre \in {0, data.bases[u].pre}
    BY <2>2
  <2> QED BY <2>2, <2>3
<1> QED BY <1>2, <1>3
-----------------------------------------------------------------------------
(* Types *)

LEMMA InitTyped == Init => Typed
<1> SUFFICES ASSUME Init PROVE Typed
  OBVIOUS
<1>1. NoEntries \in Maps(Nat) /\ NoData \in Stored
  BY NoEntriesFacts, NoDataFacts
<1>2. fetch \in [Fetches -> Goroutine]
  BY <1>1 DEF Init, Idle, Goroutine
<1>3. 0 \in 0 .. SaveEvery - 1 /\ 1 \in Days
  BY BoundsAssumption, DaysFacts
<1> QED BY <1>1, <1>2, <1>3 DEF Init, Typed

LEMMA TrafficFacts ==
  ASSUME Typed, NEW u \in Users, NEW n \in 0 .. 1, Traffic(u, n)
  PROVE  /\ counter' \in Maps(Nat) /\ moved' \in [Days -> [Users -> Nat]]
         /\ \A v \in Users : Get(counter', v) = IF v = u THEN Get(counter, v) + n ELSE Get(counter, v)
         /\ \A d \in Days, v \in Users :
                moved'[d][v] = IF v = u /\ ~(d < day) THEN moved[d][v] + n ELSE moved[d][v]
<1> DEFINE more == [v \in {u} |-> Get(counter, u) + n]
<1>1. counter \in Maps(Nat) /\ moved \in [Days -> [Users -> Nat]] /\ day \in Nat /\ n \in Nat
  BY DaysFacts DEF Typed
<1>2. Get(counter, u) + n \in Nat
  BY <1>1, GetFacts
<1>3. more \in [{u} -> Nat] /\ {u} \in SUBSET Users
  BY <1>2
<1>4. more \in Maps(Nat) /\ DOMAIN more = {u} /\ more[u] = Get(counter, u) + n
  BY <1>3, MapIntro
<1> HIDE DEF more
<1>5. counter' = Extended(counter, more)
  BY DEF Traffic, more
<1>6. /\ counter' \in Maps(Nat) /\ DOMAIN counter' = DOMAIN counter \union {u}
      /\ counter'[u] = Get(counter, u) + n /\ \A v \in DOMAIN counter \ {u} : counter'[v] = counter[v]
  <2>1. /\ Extended(counter, more) \in Maps(Nat)
        /\ DOMAIN Extended(counter, more) = DOMAIN counter \union DOMAIN more
        /\ \A v \in DOMAIN more : Extended(counter, more)[v] = more[v]
        /\ \A v \in DOMAIN counter \ DOMAIN more : Extended(counter, more)[v] = counter[v]
    <3>1. Extended(counter, more) \in Maps(Nat)
      BY <1>1, <1>4, ExtendedMap
    <3> QED BY <3>1 DEF Extended
  <2> QED BY <1>4, <1>5, <2>1
<1>7. ASSUME NEW v \in Users
      PROVE  Get(counter', v) = IF v = u THEN Get(counter, v) + n ELSE Get(counter, v)
  BY <1>6 DEF Get
<1>8. moved' = [d \in Days |-> IF d < day THEN moved[d] ELSE [moved[d] EXCEPT ![u] = moved[d][u] + n]]
  BY DEF Traffic
<1> QED BY <1>1, <1>6, <1>7, <1>8

World == (\E u \in Users, n \in 0 .. 1 : Traffic(u, n)) \/ Midnight \/ XrayRestart

LEMMA WorldTyped ==
  ASSUME Typed, World PROVE Typed'
<1> USE DEF collector, storage
<1>1. ASSUME NEW u \in Users, NEW n \in 0 .. 1, Traffic(u, n) PROVE Typed'
  <2>1. counter' \in Maps(Nat) /\ moved' \in [Days -> [Users -> Nat]]
    BY <1>1, TrafficFacts
  <2>2. UNCHANGED <<day, collector, storage, events>>
    BY <1>1 DEF Traffic
  <2> QED BY <2>1, <2>2 DEF Typed
<1>2. CASE Midnight
  <2>1. day' \in Days
    BY <1>2, BoundsAssumption DEF Midnight, Days, Typed
  <2>2. events' \subseteq {"reset", "overlap", "late", "load"}
    BY <1>2 DEF Midnight, Event, Typed
  <2> QED BY <1>2, <2>1, <2>2 DEF Midnight, Typed
<1>3. CASE XrayRestart
  BY <1>3, NoEntriesFacts DEF XrayRestart, Event, Typed
<1> QED BY <1>1, <1>2, <1>3 DEF World

LEMMA FetchFacts ==
  ASSUME Typed, NEW f \in Fetches
  PROVE  /\ fetch[f] = [pc |-> fetch[f].pc, entries |-> fetch[f].entries]
         /\ fetch[f].entries \in Maps(Nat) /\ DOMAIN fetch[f].entries \subseteq Users
         /\ \A u \in DOMAIN fetch[f].entries : fetch[f].entries[u] \in Nat
<1>1. fetch[f] \in Goroutine
  BY DEF Typed
<1>2. fetch[f].entries \in Maps(Nat) /\ fetch[f] = [pc |-> fetch[f].pc, entries |-> fetch[f].entries]
  BY <1>1 DEF Goroutine
<1> QED BY <1>2, MapFacts

LEMMA DeltaFacts ==
  ASSUME Typed, NEW entries \in Maps(Nat), NEW u \in DOMAIN entries
  PROVE  Delta(entries, u) = Pos(entries[u] - Get(prevAbs, u)) /\ Delta(entries, u) \in Nat
<1>1. entries[u] \in Nat /\ Get(prevAbs, u) \in Nat
  BY MapFacts, GetFacts DEF Typed
<1> QED BY <1>1, PosFacts DEF Delta

LEMMA CollectorTyped ==
  ASSUME Typed, NEW f \in Fetches,
         Query(f) \/ (\E known \in SUBSET Users : Account(f, known)) \/ FetchFails(f)
  PROVE  Typed'
<1> USE DEF xrayState, storage, history
<1>1. CASE Query(f)
  <2>1. fetch' \in [Fetches -> Goroutine]
    BY <1>1 DEF Query, Typed, Goroutine
  <2>2. events' \subseteq {"reset", "overlap", "late", "load"}
    BY <1>1 DEF Query, Event, Typed
  <2> QED BY <1>1, <2>1, <2>2 DEF Query, Typed
<1>2. ASSUME NEW known \in SUBSET Users, Account(f, known) PROVE Typed'
  <2>1. fetch[f].entries \in Maps(Nat) /\ prevAbs \in Maps(Nat)
    BY FetchFacts DEF Typed
  <2>2. fetch' \in [Fetches -> Goroutine]
    <3>1. fetch' = [fetch EXCEPT ![f] = [fetch[f] EXCEPT !.pc = "answered"]]
      BY <1>2 DEF Account
    <3>2. [fetch[f] EXCEPT !.pc = "answered"] \in Goroutine
      BY DEF Typed, Goroutine
    <3> QED BY <3>1, <3>2 DEF Typed
  <2>3. ipTraffic' \in [Users -> Nat]
    <3>1. \A u \in DOMAIN fetch[f].entries : Delta(fetch[f].entries, u) \in Nat
      BY <2>1, DeltaFacts
    <3>2. ipTraffic' = [u \in Users |-> ipTraffic[u] +
                IF u \in known \intersect DOMAIN fetch[f].entries THEN Delta(fetch[f].entries, u) ELSE 0]
      BY <1>2 DEF Account
    <3> QED BY <3>1, <3>2 DEF Typed
  <2>4. prevAbs' \in Maps(Nat)
    BY <1>2, <2>1, ExtendedMap DEF Account, Previous
  <2> QED BY <1>2, <2>2, <2>3, <2>4 DEF Account, Typed
<1>3. CASE FetchFails(f)
  <2>1. Idle \in Goroutine
    BY NoEntriesFacts DEF Idle, Goroutine
  <2> QED BY <1>3, <2>1 DEF FetchFails, Typed
<1> QED BY <1>1, <1>2, <1>3

LEMMA UpdateFacts ==
  ASSUME NEW f \in Fetches, Update(f)
  PROVE  /\ data' = Updated(Current, fetch[f].entries) /\ file' \in {file, data'}
         /\ fetch[f].pc = "answered" /\ fetch' = [fetch EXCEPT ![f] = Idle]
         /\ running /\ todayDate' = day
         /\ UNCHANGED <<xrayState, prevAbs, ipTraffic, running, history>>
  BY DEF Update, Current

LEMMA UpdateTyped ==
  ASSUME Typed, NEW f \in Fetches, Update(f) PROVE Typed'
<1>1. fetch[f].entries \in Maps(Nat) /\ Idle \in Goroutine
  BY FetchFacts, NoEntriesFacts DEF Idle, Goroutine
<1>2. data' \in Stored
  BY <1>1, UpdateFacts, CurrentFacts, UpdatedFacts DEF Typed
<1>3. tickN' \in 0 .. SaveEvery - 1
  <2>1. tickN' = (tickN + 1) % SaveEvery /\ tickN \in Nat /\ SaveEvery \in Nat /\ SaveEvery > 0
    BY BoundsAssumption DEF Update, Typed
  <2> QED BY <2>1
<1> QED BY <1>1, <1>2, <1>3, UpdateFacts DEF Typed, xrayState, history

LEMMA ProgramTyped ==
  ASSUME Typed, Start \/ Quit \/ Kill PROVE Typed'
<1>1. NoData \in Stored /\ NoEntries \in Maps(Nat) /\ Idle \in Goroutine
  BY NoEntriesFacts, NoDataFacts DEF Idle, Goroutine
<1>2. CASE Start
  <2>1. events' \subseteq {"reset", "overlap", "late", "load"}
    BY <1>2 DEF Start, Event, Typed
  <2>2. data' \in Stored
    BY <1>1, <1>2 DEF Start, Loaded, Typed
  <2> QED BY <1>2, <2>1, <2>2 DEF Start, Typed, xrayState, collector
<1>3. CASE Quit \/ Kill
  <2>1. 0 \in 0 .. SaveEvery - 1
    BY BoundsAssumption
  <2>2. file' \in Stored /\ fetch' \in [Fetches -> Goroutine] /\ ipTraffic' \in [Users -> Nat]
    BY <1>1, <1>3 DEF Quit, Kill, Ended, Typed
  <2> QED BY <1>1, <1>3, <2>1, <2>2 DEF Quit, Kill, Ended, Typed, xrayState, history
<1> QED BY <1>2, <1>3

LEMMA StepTyped == Typed /\ [Next]_vars => Typed'
<1>1. ASSUME Typed, UNCHANGED vars PROVE Typed'
  BY <1>1 DEF Typed, vars
<1> QED BY <1>1, WorldTyped, CollectorTyped, UpdateTyped, ProgramTyped DEF Next, World
-----------------------------------------------------------------------------
(* The world *)

\* What Xray counts and what was moved grow together, or Xray starts again.
Grown(c, c2, g, g2) == g2 >= g /\ (c2 - c = g2 - g \/ (c2 = 0 /\ g2 = g))

LEMMA WorldFacts ==
  ASSUME Typed, Calm, World
  PROVE  /\ UNCHANGED <<fetch, prevAbs, ipTraffic, running, todayDate, data, tickN, file>>
         /\ \A v \in Users :
                /\ Grown(Get(counter, v), Get(counter', v), moved[day][v], moved'[day'][v])
                /\ \A d \in Days : moved[d][v] <= moved'[d][v]
         /\ events \subseteq events' /\ (XrayRestart => "reset" \in events')
         /\ Calm'
<1> USE DEF collector, storage
<1>1. UNCHANGED <<fetch, prevAbs, ipTraffic, running, todayDate, data, tickN, file>>
      /\ events \subseteq events' /\ (XrayRestart => "reset" \in events')
  BY DEF World, Traffic, Midnight, XrayRestart, Event
<1>2. InFlight' = InFlight
  BY <1>1 DEF InFlight
<1>3. /\ \A v \in Users : Get(counter, v) \in Nat
      /\ \A d \in Days, v \in Users : moved[d][v] \in Nat
      /\ day \in Days /\ Days \subseteq Nat
  BY GetFacts, DaysFacts DEF Typed
<1>4. \A v \in Users : Get(counter, v) <= moved[day][v]
  BY DEF Calm
<1>5. ASSUME NEW u \in Users, NEW n \in 0 .. 1, Traffic(u, n)
      PROVE  /\ \A v \in Users :
                    /\ Grown(Get(counter, v), Get(counter', v), moved[day][v], moved'[day'][v])
                    /\ \A d \in Days : moved[d][v] <= moved'[d][v]
             /\ \A d \in Days : d >= day' => moved'[d] = moved'[day']
             /\ \A v \in Users : Get(counter', v) <= moved'[day'][v]
  <2>1. /\ moved' \in [Days -> [Users -> Nat]]
        /\ \A v \in Users : Get(counter', v) = IF v = u THEN Get(counter, v) + n ELSE Get(counter, v)
        /\ \A d \in Days, v \in Users :
                moved'[d][v] = IF v = u /\ ~(d < day) THEN moved[d][v] + n ELSE moved[d][v]
    BY <1>5, TrafficFacts
  <2>2. day' = day /\ n \in Nat
    BY <1>5 DEF Traffic
  <2>3. \A v \in Users : moved'[day][v] = IF v = u THEN moved[day][v] + n ELSE moved[day][v]
    BY <1>3, <2>1
  <2>4. \A v \in Users : Grown(Get(counter, v), Get(counter', v), moved[day][v], moved'[day'][v])
    BY <1>3, <2>1, <2>2, <2>3 DEF Grown
  <2>5. ASSUME NEW d \in Days, NEW v \in Users PROVE moved[d][v] <= moved'[d][v]
    <3>1. moved'[d][v] = IF v = u /\ ~(d < day) THEN moved[d][v] + n ELSE moved[d][v]
      BY <2>1
    <3> QED BY <1>3, <2>2, <3>1
  <2>6. ASSUME NEW d \in Days, d >= day PROVE moved'[d] = moved'[day]
    <3>1. moved[d] = moved[day] /\ ~(d < day)
      BY <1>3, <2>6 DEF Calm
    <3>2. \A v \in Users : moved'[d][v] = moved'[day][v]
      BY <2>1, <2>3, <3>1
    <3>3. moved'[d] \in [Users -> Nat] /\ moved'[day] \in [Users -> Nat]
      BY <1>3, <2>1
    <3> QED BY <3>2, <3>3
  <2>7. \A v \in Users : Get(counter', v) <= moved'[day][v]
    BY <1>3, <1>4, <2>1, <2>2, <2>3
  <2> QED BY <2>2, <2>4, <2>5, <2>6, <2>7
<1>6. CASE Midnight
  <2>1. day' = day + 1 /\ day' \in Days /\ UNCHANGED <<counter, moved>>
    BY <1>3, <1>6, BoundsAssumption DEF Midnight, Days
  <2>2. moved[day'] = moved[day]
    BY <1>3, <2>1 DEF Calm
  <2>3. \A d \in Days : d >= day' => moved'[d] = moved'[day']
    BY <1>3, <2>1, <2>2 DEF Calm
  <2> QED BY <1>1, <1>2, <1>3, <1>4, <2>1, <2>2, <2>3 DEF Calm, Grown
<1>7. CASE XrayRestart
  <2>1. counter' = NoEntries /\ UNCHANGED <<day, moved>>
    BY <1>7 DEF XrayRestart
  <2>2. \A v \in Users : Get(counter', v) = 0
    BY <2>1, NoEntriesFacts
  <2> QED BY <1>1, <1>2, <1>3, <2>1, <2>2 DEF Calm, Grown
<1>8. (running' = running /\ (~running => InFlight = {})) => (~running' => InFlight' = {})
  BY <1>2
<1>9. CASE \E u \in Users, n \in 0 .. 1 : Traffic(u, n)
  BY <1>1, <1>5, <1>8, <1>9 DEF Calm
<1> QED BY <1>1, <1>6, <1>7, <1>9 DEF World

LEMMA StillCovered ==
  ASSUME NEW a \in Nat, NEW k \in Nat, NEW c \in Nat, NEW c2 \in Nat, NEW g \in Nat, NEW g2 \in Nat,
         Grown(c, c2, g, g2), k + Pos(c - a) <= g
  PROVE  k + Pos(c2 - a) <= g2
  BY DEF Grown, Pos

LEMMA BaseGrows ==
  ASSUME NEW b \in Base, NEW c \in Nat, NEW c2 \in Nat, NEW g \in Nat, NEW g2 \in Nat,
         Grown(c, c2, g, g2), BaseBounded(b, c, g)
  PROVE  BaseBounded(b, c2, g2)
<1>1. b.abs \in Nat /\ b.pre \in Nat
  BY DEF Base
<1>2. b.pre + Pos(c2 - b.abs) <= g2
  BY <1>1, StillCovered DEF BaseBounded
<1>3. b.abs <= g2
  BY <1>1 DEF BaseBounded, Grown
<1> QED BY <1>2, <1>3 DEF BaseBounded

LEMMA SampleGrows ==
  ASSUME NEW b \in Base, NEW n \in Nat, NEW c \in Nat, NEW c2 \in Nat, NEW g \in Nat, NEW g2 \in Nat,
         Grown(c, c2, g, g2), SampleBounded(b, n, c, g)
  PROVE  SampleBounded(b, n, c2, g2)
<1>1. b.abs \in Nat /\ b.pre \in Nat
  BY DEF Base
<1>2. n < b.abs => b.abs + Pos(c2 - n) <= g2
  BY <1>1, StillCovered DEF SampleBounded
<1>3. Pos(n - b.abs) \in Nat
  BY <1>1, PosFacts
<1>4. b.pre + Pos(n - b.abs) <= g2
  BY <1>1, <1>3 DEF SampleBounded, Grown
<1> QED BY <1>2, <1>4 DEF SampleBounded

LEMMA WorldBounded ==
  ASSUME Typed, Calm, World, Bounded PROVE Bounded'
<1>1. /\ UNCHANGED <<fetch, prevAbs, ipTraffic, data, file>>
      /\ \A v \in Users :
            /\ Grown(Get(counter, v), Get(counter', v), moved[day][v], moved'[day'][v])
            /\ \A d \in Days : moved[d][v] <= moved'[d][v]
  BY WorldFacts
<1>2. /\ \A v \in Users : /\ Get(counter, v) \in Nat /\ Get(counter', v) \in Nat
                          /\ moved[day][v] \in Nat /\ moved'[day'][v] \in Nat
                          /\ ipTraffic[v] \in Nat /\ Get(prevAbs, v) \in Nat
      /\ \A d \in Days, v \in Users : moved[d][v] \in Nat /\ moved'[d][v] \in Nat
  BY WorldTyped, GetFacts DEF Typed
<1>3. InFlight' = InFlight /\ Single'
  BY <1>1 DEF InFlight, Bounded, Single
<1>4. ASSUME NEW s \in Stored, RowsBounded(s, moved) PROVE RowsBounded(s, moved')
  <2>1. ASSUME NEW d \in Days, NEW u \in DOMAIN s.daily[d] PROVE s.daily[d][u] <= moved'[d][u]
    <3>1. u \in Users /\ s.daily[d][u] \in Nat
      BY StoredFacts
    <3>2. s.daily[d][u] <= moved[d][u]
      BY <1>4 DEF RowsBounded
    <3> QED BY <1>1, <1>2, <3>1, <3>2
  <2> QED BY <2>1 DEF RowsBounded
<1>5. ASSUME NEW s \in Stored, BasesBounded(s, counter, moved[day])
      PROVE  BasesBounded(s, counter', moved'[day'])
  <2>1. ASSUME NEW u \in DOMAIN s.bases PROVE BaseBounded(s.bases[u], Get(counter', u), moved'[day'][u])
    <3>1. u \in Users /\ s.bases[u] \in Base
      BY StoredFacts
    <3>2. BaseBounded(s.bases[u], Get(counter, u), moved[day][u])
      BY <1>5 DEF BasesBounded
    <3> QED BY <1>1, <1>2, <3>1, <3>2, BaseGrows
  <2> QED BY <2>1 DEF BasesBounded
<1>6. Distributed(ipTraffic, prevAbs, counter', moved'[day'])
  <2>1. ASSUME NEW u \in Users
        PROVE  ipTraffic[u] + Pos(Get(counter', u) - Get(prevAbs, u)) <= moved'[day'][u]
    <3>1. ipTraffic[u] + Pos(Get(counter, u) - Get(prevAbs, u)) <= moved[day][u]
      BY DEF Bounded, Distributed
    <3> QED BY <1>1, <1>2, <3>1, StillCovered
  <2> QED BY <2>1 DEF Distributed
<1>7. ASSUME NEW f \in InFlight
      PROVE  Sampled(fetch[f].entries, data, counter', moved'[day'])
  <2>1. ASSUME NEW u \in DOMAIN fetch[f].entries
        PROVE  /\ fetch[f].entries[u] <= moved'[day'][u]
               /\ u \in DOMAIN data.bases =>
                    SampleBounded(data.bases[u], fetch[f].entries[u], Get(counter', u), moved'[day'][u])
    <3>1. u \in Users /\ fetch[f].entries[u] \in Nat
      BY FetchFacts DEF InFlight
    <3>2. /\ fetch[f].entries[u] <= moved[day][u]
          /\ u \in DOMAIN data.bases =>
                SampleBounded(data.bases[u], fetch[f].entries[u], Get(counter, u), moved[day][u])
      BY DEF Bounded, Sampled
    <3>3. u \in DOMAIN data.bases => data.bases[u] \in Base
      BY StoredFacts DEF Typed
    <3>4. fetch[f].entries[u] <= moved'[day'][u]
      BY <1>1, <1>2, <3>1, <3>2 DEF Grown
    <3> QED BY <1>1, <1>2, <3>1, <3>2, <3>3, <3>4, SampleGrows
  <2> QED BY <2>1 DEF Sampled
<1>8. ASSUME NEW f \in InFlight, fetch[f].pc = "queried"
      PROVE  Asked(fetch[f].entries, ipTraffic, prevAbs, counter', moved'[day'])
  <2>1. ASSUME NEW u \in DOMAIN fetch[f].entries
        PROVE  ipTraffic[u] + Pos(fetch[f].entries[u] - Get(prevAbs, u))
                    + Pos(Get(counter', u) - fetch[f].entries[u]) <= moved'[day'][u]
    <3>1. u \in Users /\ fetch[f].entries[u] \in Nat
      BY FetchFacts DEF InFlight
    <3>2. ipTraffic[u] + Pos(fetch[f].entries[u] - Get(prevAbs, u))
                    + Pos(Get(counter, u) - fetch[f].entries[u]) <= moved[day][u]
      BY <1>8 DEF Bounded, Asked
    <3>3. ipTraffic[u] + Pos(fetch[f].entries[u] - Get(prevAbs, u)) \in Nat
      BY <1>2, <3>1, PosFacts
    <3> QED BY <1>1, <1>2, <3>1, <3>2, <3>3, StillCovered
  <2> QED BY <2>1 DEF Asked
<1>9. /\ RowsBounded(data, moved') /\ BasesBounded(data, counter', moved'[day'])
      /\ RowsBounded(file, moved') /\ BasesBounded(file, counter', moved'[day'])
  BY <1>4, <1>5 DEF Bounded, Typed
<1> QED BY <1>1, <1>3, <1>6, <1>7, <1>8, <1>9 DEF Bounded
-----------------------------------------------------------------------------
(* The program, while no fetches overlap *)

LEMMA BaseSampled ==
  ASSUME NEW b \in Base, NEW c \in Nat, NEW g \in Nat, BaseBounded(b, c, g)
  PROVE  SampleBounded(b, c, c, g)
<1>1. b.abs \in Nat /\ b.pre \in Nat
  BY DEF Base
<1> QED BY <1>1 DEF BaseBounded, SampleBounded, Pos

LEMMA FirstBase ==
  ASSUME NEW b \in Base, NEW n \in Nat, NEW c \in Nat, NEW g \in Nat,
         c <= g, n <= g, b.abs = n, b.pre = 0
  PROVE  BaseBounded(b, c, g)
  BY DEF BaseBounded, Pos

LEMMA ForgottenBase ==
  ASSUME NEW b \in Base, NEW b2 \in Base, b2.abs = b.abs, b2.pre \in {0, b.pre},
         NEW c \in Nat, NEW g \in Nat, BaseBounded(b, c, g)
  PROVE  BaseBounded(b2, c, g)
<1>1. b.abs \in Nat /\ b.pre \in Nat
  BY DEF Base
<1> QED BY <1>1 DEF BaseBounded, Pos

LEMMA ForgottenSample ==
  ASSUME NEW b \in Base, NEW b2 \in Base, b2.abs = b.abs, b2.pre \in {0, b.pre},
         NEW n \in Nat, NEW c \in Nat, NEW g \in Nat, SampleBounded(b, n, c, g)
  PROVE  SampleBounded(b2, n, c, g)
<1>1. b.abs \in Nat /\ b.pre \in Nat
  BY DEF Base
<1> QED BY <1>1 DEF SampleBounded, Pos

\* What a base and a sample allow is what Update takes.
LEMMA ChargeBounded ==
  ASSUME NEW b \in Base, NEW n \in Nat, NEW c \in Nat, NEW g \in Nat, n <= g,
         BaseBounded(b, c, g), SampleBounded(b, n, c, g)
  PROVE  Charged(Carried(b, n), n) <= g /\ BaseBounded(Carried(b, n), c, g)
<1>1. b.abs \in Nat /\ b.pre \in Nat
  BY DEF Base
<1>2. Charged(Carried(b, n), n) = IF n < b.abs THEN b.abs ELSE b.pre + (n - b.abs)
  BY CarriedFacts
<1>3. CASE n < b.abs
  <2>1. Carried(b, n).abs = n /\ Carried(b, n).pre = b.abs /\ b.abs <= g
    BY <1>3, CarriedFacts DEF BaseBounded
  <2> QED BY <1>2, <1>3, <2>1 DEF BaseBounded, SampleBounded
<1>4. CASE n >= b.abs
  <2>1. Carried(b, n) = b
    BY <1>4, CarriedFacts
  <2>2. b.pre + (n - b.abs) <= g
    BY <1>1, <1>4 DEF SampleBounded, Pos
  <2> QED BY <1>1, <1>2, <1>4, <2>1, <2>2
<1> QED BY <1>1, <1>3, <1>4

LEMMA QueryBounded ==
  ASSUME Typed, Calm, Bounded, NEW f \in Fetches, Query(f), InFlight = {}
  PROVE  Bounded'
<1>1. UNCHANGED <<counter, day, prevAbs, ipTraffic, data, file, moved>>
  BY DEF Query, xrayState, storage
<1>2. fetch' = [fetch EXCEPT ![f] = [pc |-> "queried", entries |-> counter]]
  BY DEF Query
<1>3. \A h \in Fetches : h # f => fetch'[h] = fetch[h] /\ fetch[h].pc = "idle"
  BY <1>2 DEF InFlight, Typed
<1>4. fetch'[f].pc = "queried" /\ fetch'[f].entries = counter
  BY <1>2 DEF Typed
<1>5. InFlight' = {f}
  BY <1>3, <1>4 DEF InFlight
<1>6. ASSUME NEW u \in DOMAIN counter
      PROVE  /\ u \in Users /\ counter[u] = Get(counter, u) /\ counter[u] \in Nat
             /\ moved[day][u] \in Nat /\ counter[u] <= moved[day][u]
  BY MapFacts DEF Typed, Calm, Get
<1>7. Sampled(counter, data, counter, moved[day])
  <2>1. ASSUME NEW u \in DOMAIN counter, u \in DOMAIN data.bases
        PROVE  SampleBounded(data.bases[u], counter[u], Get(counter, u), moved[day][u])
    <3>1. data.bases[u] \in Base
      BY <2>1, StoredFacts DEF Typed
    <3>2. BaseBounded(data.bases[u], counter[u], moved[day][u])
      BY <1>6, <2>1 DEF Bounded, BasesBounded
    <3> QED BY <1>6, <3>1, <3>2, BaseSampled
  <2> QED BY <1>6, <2>1 DEF Sampled
<1>8. Asked(counter, ipTraffic, prevAbs, counter, moved[day])
  <2>1. ASSUME NEW u \in DOMAIN counter
        PROVE  ipTraffic[u] + Pos(counter[u] - Get(prevAbs, u)) + Pos(Get(counter, u) - counter[u])
                    <= moved[day][u]
    <3>1. ipTraffic[u] + Pos(counter[u] - Get(prevAbs, u)) <= moved[day][u]
      BY <1>6 DEF Bounded, Distributed
    <3>2. Get(prevAbs, u) \in Nat /\ ipTraffic[u] \in Nat
      BY <1>6, GetFacts DEF Typed
    <3>3. Pos(counter[u] - Get(prevAbs, u)) \in Nat /\ Pos(Get(counter, u) - counter[u]) = 0
      BY <1>6, <3>2, PosFacts
    <3> QED BY <3>1, <3>2, <3>3
  <2> QED BY <2>1 DEF Asked
<1> QED BY <1>1, <1>4, <1>5, <1>7, <1>8 DEF Bounded, Single

\* Only entries of f are taken into account.
LEMMA AccountBounded ==
  ASSUME Typed, Bounded, NEW f \in Fetches, NEW known \in SUBSET Users, Account(f, known)
  PROVE  Bounded'
<1> DEFINE e == fetch[f].entries
<1>1. UNCHANGED <<counter, day, data, file, moved>>
  BY DEF Account, xrayState, storage, history
<1>2. /\ fetch[f].pc = "queried" /\ fetch'[f].pc = "answered" /\ fetch'[f].entries = e
      /\ \A h \in Fetches : h # f => fetch'[h] = fetch[h]
  BY DEF Account, Typed
<1>3. InFlight' = InFlight /\ InFlight = {f}
  BY <1>2 DEF InFlight, Bounded, Single
<1>4. Asked(e, ipTraffic, prevAbs, counter, moved[day])
  BY <1>2, <1>3 DEF Bounded
<1>5. e \in Maps(Nat) /\ DOMAIN e \subseteq Users
  BY FetchFacts
<1> HIDE DEF e
<1>6. /\ ipTraffic' = [u \in Users |-> ipTraffic[u] +
                IF u \in known \intersect DOMAIN e THEN Delta(e, u) ELSE 0]
      /\ prevAbs' = Extended(prevAbs, e)
  BY DEF Account, Previous, e
<1>7. ASSUME NEW u \in Users
      PROVE  ipTraffic'[u] + Pos(Get(counter, u) - Get(prevAbs', u)) <= moved[day][u]
  <2>1. ipTraffic[u] \in Nat /\ Get(counter, u) \in Nat /\ Get(prevAbs, u) \in Nat
        /\ moved[day][u] \in Nat
    BY GetFacts DEF Typed
  <2>2. CASE u \in DOMAIN e
    <3>1. Get(prevAbs', u) = e[u]
      BY <1>6, <2>2 DEF Get, Extended
    <3>2. Delta(e, u) = Pos(e[u] - Get(prevAbs, u)) /\ Delta(e, u) \in Nat
      BY <1>5, <2>2, DeltaFacts
    <3>3. ipTraffic[u] + Delta(e, u) + Pos(Get(counter, u) - e[u]) <= moved[day][u]
      BY <1>4, <2>2, <3>2 DEF Asked
    <3>4. e[u] \in Nat
      BY <1>5, <2>2, MapFacts
    <3>5. Pos(Get(counter, u) - e[u]) \in Nat
      BY <2>1, <3>4, PosFacts
    <3>6. ipTraffic'[u] \in {ipTraffic[u], ipTraffic[u] + Delta(e, u)}
      BY <1>6, <2>1, <3>2
    <3> QED BY <2>1, <3>1, <3>2, <3>3, <3>5, <3>6
  <2>3. CASE u \notin DOMAIN e
    <3>1. Get(prevAbs', u) = Get(prevAbs, u) /\ ipTraffic'[u] = ipTraffic[u]
      BY <1>6, <2>1, <2>3 DEF Get, Extended
    <3> QED BY <3>1 DEF Bounded, Distributed
  <2> QED BY <2>2, <2>3
<1>8. Distributed(ipTraffic', prevAbs', counter, moved[day])
  BY <1>7 DEF Distributed
<1>9. Sampled(fetch'[f].entries, data, counter, moved[day])
  BY <1>2, <1>3 DEF Bounded, e
<1> QED BY <1>1, <1>2, <1>3, <1>8, <1>9 DEF Bounded, Single

LEMMA UpdateBounded ==
  ASSUME Typed, Calm, Bounded, NEW f \in Fetches, Update(f)
  PROVE  Bounded'
<1> DEFINE e == fetch[f].entries
           s == Current
           r == Updated(s, e)
<1>1. UNCHANGED <<counter, day, prevAbs, ipTraffic, moved>> /\ data' = r /\ file' \in {file, r}
  BY UpdateFacts DEF xrayState, history
<1>2. f \in InFlight
  BY UpdateFacts DEF InFlight
<1>3. InFlight' = {}
  <2>1. \A h \in Fetches : h # f => fetch[h].pc = "idle"
    BY <1>2 DEF InFlight, Bounded, Single
  <2>2. \A h \in Fetches : fetch'[h] = IF h = f THEN Idle ELSE fetch[h]
    BY UpdateFacts DEF Typed
  <2> QED BY <2>1, <2>2 DEF InFlight, Idle
<1>4. Sampled(e, data, counter, moved[day])
  BY <1>2 DEF Bounded
<1>5. e \in Maps(Nat) /\ DOMAIN e \subseteq Users /\ \A u \in DOMAIN e : e[u] \in Nat
  BY FetchFacts
<1>6. /\ data \in Stored /\ day \in Days
      /\ \A u \in Users : Get(counter, u) \in Nat /\ Get(counter, u) <= moved[day][u]
      /\ \A d \in Days, u \in Users : moved[d][u] \in Nat
  BY GetFacts DEF Typed, Calm
<1>7. /\ s \in Stored /\ DOMAIN s.bases = DOMAIN data.bases
      /\ \A u \in DOMAIN data.bases :
            s.bases[u].abs = data.bases[u].abs /\ s.bases[u].pre \in {0, data.bases[u].pre}
      /\ \A d \in Days : s.daily[d] \in {NoEntries, data.daily[d]}
      /\ s.daily[day] = data.daily[day]
  BY CurrentFacts
<1> HIDE DEF e, s
<1>8. /\ r \in Stored /\ DOMAIN r.bases = DOMAIN s.bases \union DOMAIN e
      /\ \A u \in DOMAIN e \intersect DOMAIN s.bases : r.bases[u] = Carried(s.bases[u], e[u])
      /\ \A u \in DOMAIN e \ DOMAIN s.bases : r.bases[u].abs = e[u] /\ r.bases[u].pre = 0
      /\ \A u \in DOMAIN s.bases \ DOMAIN e : r.bases[u] = s.bases[u]
      /\ DOMAIN r.daily[day] = DOMAIN s.daily[day] \union (DOMAIN e \intersect DOMAIN s.bases)
      /\ \A u \in DOMAIN e \intersect DOMAIN s.bases :
            r.daily[day][u] = Charged(Carried(s.bases[u], e[u]), e[u])
      /\ \A u \in DOMAIN s.daily[day] \ (DOMAIN e \intersect DOMAIN s.bases) :
            r.daily[day][u] = s.daily[day][u]
      /\ \A d \in Days \ {day} : r.daily[d] = s.daily[d]
  BY <1>5, <1>6, <1>7, UpdatedFacts
<1> HIDE DEF r
<1>9. ASSUME NEW u \in DOMAIN s.bases
      PROVE  /\ u \in Users /\ s.bases[u] \in Base
             /\ BaseBounded(s.bases[u], Get(counter, u), moved[day][u])
             /\ u \in DOMAIN e =>
                    /\ e[u] <= moved[day][u]
                    /\ SampleBounded(s.bases[u], e[u], Get(counter, u), moved[day][u])
  <2>1. u \in Users /\ s.bases[u] \in Base /\ data.bases[u] \in Base /\ u \in DOMAIN data.bases
    BY <1>6, <1>7, StoredFacts
  <2>2. BaseBounded(data.bases[u], Get(counter, u), moved[day][u])
    BY <2>1 DEF Bounded, BasesBounded
  <2>3. BaseBounded(s.bases[u], Get(counter, u), moved[day][u])
    BY <1>6, <1>7, <2>1, <2>2, ForgottenBase
  <2>4. ASSUME u \in DOMAIN e
        PROVE  /\ e[u] <= moved[day][u]
               /\ SampleBounded(s.bases[u], e[u], Get(counter, u), moved[day][u])
    <3>1. e[u] <= moved[day][u] /\ SampleBounded(data.bases[u], e[u], Get(counter, u), moved[day][u])
      BY <1>4, <2>1, <2>4 DEF Sampled
    <3> QED BY <1>5, <1>6, <1>7, <2>1, <2>4, <3>1, ForgottenSample
  <2> QED BY <2>1, <2>3, <2>4
<1>10. ASSUME NEW u \in DOMAIN r.bases
       PROVE  BaseBounded(r.bases[u], Get(counter, u), moved[day][u])
  <2>1. CASE u \in DOMAIN e /\ u \in DOMAIN s.bases
    <3>1. r.bases[u] = Carried(s.bases[u], e[u])
      BY <1>8, <2>1
    <3> QED BY <1>5, <1>6, <1>9, <2>1, <3>1, ChargeBounded
  <2>2. CASE u \in DOMAIN e /\ u \notin DOMAIN s.bases
    <3>1. r.bases[u].abs = e[u] /\ r.bases[u].pre = 0 /\ r.bases[u] \in Base
      BY <1>8, <2>2, StoredFacts
    <3>2. e[u] <= moved[day][u]
      BY <1>4, <2>2 DEF Sampled
    <3> QED BY <1>5, <1>6, <2>2, <3>1, <3>2, FirstBase
  <2>3. CASE u \notin DOMAIN e
    BY <1>8, <1>9, <2>3
  <2> QED BY <2>1, <2>2, <2>3
<1>11. ASSUME NEW d \in Days, NEW u \in DOMAIN r.daily[d] PROVE r.daily[d][u] <= moved[d][u]
  <2>1. ASSUME u \in DOMAIN s.daily[d] PROVE s.daily[d][u] <= moved[d][u]
    <3>1. s.daily[d] = data.daily[d]
      BY <1>7, <2>1, NoEntriesFacts
    <3> QED BY <2>1, <3>1 DEF Bounded, RowsBounded
  <2>2. CASE d = day /\ u \in DOMAIN e \intersect DOMAIN s.bases
    <3>1. r.daily[day][u] = Charged(Carried(s.bases[u], e[u]), e[u])
      BY <1>8, <2>2
    <3> QED BY <1>5, <1>6, <1>9, <2>2, <3>1, ChargeBounded
  <2>3. CASE d = day /\ u \notin DOMAIN e \intersect DOMAIN s.bases
    <3>1. u \in DOMAIN s.daily[day] /\ r.daily[day][u] = s.daily[day][u]
      BY <1>8, <2>3
    <3> QED BY <2>1, <2>3, <3>1
  <2>4. CASE d # day
    <3>1. r.daily[d] = s.daily[d]
      BY <1>8, <2>4
    <3> QED BY <2>1, <3>1
  <2> QED BY <2>2, <2>3, <2>4
<1>12. RowsBounded(r, moved) /\ BasesBounded(r, counter, moved[day])
  BY <1>10, <1>11 DEF RowsBounded, BasesBounded
<1>13. RowsBounded(file, moved) /\ BasesBounded(file, counter, moved[day])
       /\ Distributed(ipTraffic, prevAbs, counter, moved[day])
  BY DEF Bounded
<1>14. data' = r /\ (file' = file \/ file' = r)
  BY <1>1 DEF r
<1> QED BY <1>1, <1>3, <1>12, <1>13, <1>14 DEF Bounded, Single

LEMMA NoDataBounded ==
  ASSUME NEW m, NEW c, NEW g
  PROVE  RowsBounded(NoData, m) /\ BasesBounded(NoData, c, g)
  BY NoDataFacts DEF RowsBounded, BasesBounded

LEMMA ProgramBounded ==
  ASSUME Typed, Calm, Bounded, Start \/ Quit \/ Kill
  PROVE  Bounded'
<1>1. UNCHANGED <<counter, day, moved>> /\ data' \in {file, NoData} /\ file' \in {file, data}
  BY DEF Start, Loaded, Quit, Kill, Ended, xrayState, history
<1>2. InFlight' = {}
  <2>1. CASE Start
    BY <2>1 DEF Start, collector, InFlight, Calm
  <2>2. CASE Quit \/ Kill
    BY <2>2 DEF Quit, Kill, Ended, InFlight, Idle
  <2> QED BY <2>1, <2>2
<1>3. Distributed(ipTraffic', prevAbs', counter, moved[day])
  <2>1. CASE Start
    BY <2>1 DEF Start, collector, Bounded
  <2>2. CASE Quit \/ Kill
    <3>1. ASSUME NEW u \in Users
          PROVE  ipTraffic'[u] + Pos(Get(counter, u) - Get(prevAbs', u)) <= moved[day][u]
      <4>1. ipTraffic'[u] = 0 /\ Get(prevAbs', u) = 0
        BY <2>2, NoEntriesFacts DEF Quit, Kill, Ended
      <4>2. Get(counter, u) \in Nat /\ Get(counter, u) <= moved[day][u]
        BY GetFacts DEF Typed, Calm
      <4> QED BY <4>1, <4>2, PosFacts
    <3> QED BY <3>1 DEF Distributed
  <2> QED BY <2>1, <2>2
<1>4. /\ RowsBounded(data', moved) /\ BasesBounded(data', counter, moved[day])
      /\ RowsBounded(file', moved) /\ BasesBounded(file', counter, moved[day])
  BY <1>1, NoDataBounded DEF Bounded
<1> QED BY <1>1, <1>2, <1>3, <1>4 DEF Bounded, Single

LEMMA StepBounded ==
  ASSUME Typed, Calm, "overlap" \notin events => Bounded, [Next]_vars, "overlap" \notin events'
  PROVE  Bounded'
<1>1. events \subseteq events'
  BY DEF Next, vars, Traffic, Midnight, XrayRestart, Query, Account, FetchFails, Update, Start, Quit,
         Kill, Ended, Event, history
<1>2. Bounded
  BY <1>1
<1>3. ASSUME NEW f \in Fetches, Query(f) PROVE Bounded'
  <2>1. InFlight = {}
    BY <1>3 DEF Query, Event
  <2> QED BY <1>2, <1>3, <2>1, QueryBounded
<1>4. ASSUME NEW f \in Fetches, FetchFails(f) PROVE Bounded'
  <2>1. UNCHANGED <<counter, day, data, file, moved, prevAbs, ipTraffic>>
    BY <1>4 DEF FetchFails, xrayState, storage, history
  <2>2. \A h \in Fetches : fetch'[h] = IF h = f THEN Idle ELSE fetch[h]
    BY <1>4 DEF FetchFails, Typed
  <2>3. InFlight' \subseteq InFlight /\ \A h \in InFlight' : fetch'[h] = fetch[h]
    BY <2>2 DEF InFlight, Idle
  <2> QED BY <1>2, <2>1, <2>3 DEF Bounded, Single
<1>5. CASE UNCHANGED vars
  BY <1>2, <1>5 DEF vars, Bounded, Single, InFlight
<1> QED BY <1>2, <1>3, <1>4, <1>5, WorldBounded, AccountBounded, UpdateBounded, ProgramBounded
        DEF Next, World
-----------------------------------------------------------------------------
(* The program, while there is no overlap, no restart of Xray and no unreadable file *)

LEMMA StepCalm ==
  ASSUME Typed, Calm, [Next]_vars PROVE Calm'
<1>1. CASE World
  BY <1>1, WorldFacts
<1>2. ASSUME NEW f \in Fetches,
             Query(f) \/ (\E known \in SUBSET Users : Account(f, known)) \/ FetchFails(f) \/ Update(f)
      PROVE  Calm'
  <2>1. UNCHANGED <<counter, day, moved, running>>
    BY <1>2 DEF Query, Account, FetchFails, Update, xrayState, storage, history
  <2>2. running \/ fetch[f].pc # "idle"
    BY <1>2 DEF Query, Account, FetchFails, Update
  <2>3. running
    BY <2>2 DEF Calm, InFlight
  <2> QED BY <2>1, <2>3 DEF Calm
<1>3. CASE Start
  BY <1>3 DEF Start, xrayState, Calm
<1>4. CASE Quit \/ Kill
  <2>1. UNCHANGED <<counter, day, moved>> /\ InFlight' = {}
    BY <1>4 DEF Quit, Kill, Ended, xrayState, history, InFlight, Idle
  <2> QED BY <2>1 DEF Calm
<1>5. CASE UNCHANGED vars
  BY <1>5 DEF vars, Calm, InFlight
<1> QED BY <1>1, <1>2, <1>3, <1>4, <1>5 DEF Next, World

LEMMA RowsNat ==
  ASSUME NEW s \in Stored, NEW d \in Days, NEW u \in DOMAIN s.daily[d]
  PROVE  u \in Users /\ s.daily[d][u] \in Nat
  BY StoredFacts

LEMMA BasesNat ==
  ASSUME NEW s \in Stored, NEW u \in DOMAIN s.bases
  PROVE  u \in Users /\ s.bases[u].abs \in Nat /\ s.bases[u].pre \in Nat
  BY StoredFacts DEF Base

LEMMA AheadOfItself ==
  ASSUME NEW s \in Stored, NEW d \in Days PROVE Ahead(s, s, d)
  BY RowsNat DEF Ahead, RowsAhead

LEMMA RegularGrows ==
  ASSUME NEW s \in Stored, NEW c \in Maps(Nat), NEW c2 \in Maps(Nat), NEW d \in Days,
         \A u \in Users : Get(c, u) <= Get(c2, u), Regular(s, c, d)
  PROVE  Regular(s, c2, d)
<1>1. ASSUME NEW u \in DOMAIN s.bases PROVE s.bases[u].pre = 0 /\ s.bases[u].abs <= Get(c2, u)
  BY BasesNat, GetFacts DEF Regular
<1>2. ASSUME NEW u \in DOMAIN s.daily[d]
      PROVE  u \in DOMAIN s.bases /\ s.daily[d][u] + s.bases[u].abs <= Get(c2, u)
  <2>1. u \in DOMAIN s.bases /\ s.daily[d][u] + s.bases[u].abs <= Get(c, u)
    BY DEF Regular
  <2>2. s.daily[d][u] + s.bases[u].abs \in Nat /\ u \in Users
    BY <2>1, RowsNat, BasesNat
  <2>3. Get(c, u) \in Nat /\ Get(c2, u) \in Nat /\ Get(c, u) <= Get(c2, u)
    BY <2>2, GetFacts
  <2> QED BY <2>1, <2>2, <2>3
<1> QED BY <1>1, <1>2 DEF Regular

LEMMA TrafficGrowing ==
  ASSUME Typed, Growing, NEW u \in Users, NEW n \in 0 .. 1, Traffic(u, n)
  PROVE  Growing'
<1>1. UNCHANGED <<day, fetch, running, data, file>>
  BY DEF Traffic, collector, storage
<1>2. ASSUME NEW v \in Users
      PROVE  Get(counter, v) \in Nat /\ Get(counter', v) \in Nat /\ Get(counter, v) <= Get(counter', v)
  <2>1. counter \in Maps(Nat) /\ counter' \in Maps(Nat)
    BY TrafficFacts DEF Typed
  <2>2. Get(counter, v) \in Nat /\ Get(counter', v) \in Nat
    BY <2>1, GetFacts
  <2>3. Get(counter', v) = IF v = u THEN Get(counter, v) + n ELSE Get(counter, v)
    BY TrafficFacts
  <2> QED BY <2>2, <2>3
<1>3. Regular(data, counter', day) /\ Regular(file, counter', day)
  <2>1. counter' \in Maps(Nat)
    BY TrafficFacts
  <2> QED BY <1>2, <2>1, RegularGrows DEF Growing, Typed
<1>4. ASSUME NEW f \in InFlight PROVE Latest(fetch[f].entries, data, counter', day)
  <2>1. ASSUME NEW v \in DOMAIN fetch[f].entries PROVE fetch[f].entries[v] <= Get(counter', v)
    <3>1. v \in Users /\ fetch[f].entries[v] \in Nat
      BY FetchFacts DEF InFlight
    <3>2. fetch[f].entries[v] <= Get(counter, v)
      BY DEF Growing, Latest
    <3> QED BY <1>2, <3>1, <3>2
  <2> QED BY <2>1 DEF Growing, Latest
<1>5. InFlight' = InFlight
  BY <1>1 DEF InFlight
<1> QED BY <1>1, <1>3, <1>4, <1>5 DEF Growing

LEMMA MidnightGrowing ==
  ASSUME Typed, Growing, Midnight PROVE Growing'
<1>1. UNCHANGED <<counter, fetch, running, data, file>> /\ day' = day + 1 /\ day' \in Days
  BY BoundsAssumption DEF Midnight, collector, storage, Days, Typed
<1>2. day \in Nat /\ Days \subseteq Nat
  BY DaysFacts DEF Typed
<1>3. ASSUME NEW s, Regular(s, counter, day)
      PROVE  DOMAIN s.daily[day'] = {} /\ Regular(s, counter, day')
  BY <1>1, <1>2, <1>3 DEF Regular
<1>4. Regular(data, counter, day') /\ Regular(file, counter, day')
      /\ DOMAIN data.daily[day'] = {} /\ DOMAIN file.daily[day'] = {}
  BY <1>3 DEF Growing
<1>5. ASSUME NEW f \in InFlight PROVE Latest(fetch[f].entries, data, counter, day')
  BY <1>4 DEF Growing, Latest
<1>6. running => Ahead(data, file, day')
  BY <1>4 DEF Growing, Ahead
<1>7. InFlight' = InFlight
  BY <1>1 DEF InFlight
<1> QED BY <1>1, <1>4, <1>5, <1>6, <1>7 DEF Growing

LEMMA CollectorGrowing ==
  ASSUME Typed, Growing, NEW f \in Fetches,
         Query(f) \/ (\E known \in SUBSET Users : Account(f, known)) \/ FetchFails(f)
  PROVE  Growing'
<1>1. UNCHANGED <<counter, day, running, data, file>>
  BY DEF Query, Account, FetchFails, xrayState, storage
<1>2. ASSUME NEW h \in Fetches, fetch'[h].pc # "idle"
      PROVE  Latest(fetch'[h].entries, data, counter, day)
  <2>1. CASE Query(f) /\ h = f
    <3>1. fetch'[h].entries = counter
      BY <2>1 DEF Query, Typed
    <3>2. ASSUME NEW u \in DOMAIN counter PROVE counter[u] = Get(counter, u) /\ counter[u] <= Get(counter, u)
      BY GetFacts DEF Typed
    <3> QED BY <3>1, <3>2 DEF Growing, Regular, Latest
  <2>2. CASE ~(Query(f) /\ h = f)
    <3>1. fetch'[h].entries = fetch[h].entries /\ h \in InFlight
      <4>1. CASE Query(f)
        BY <1>2, <2>2, <4>1 DEF Query, Typed, InFlight
      <4>2. CASE \E known \in SUBSET Users : Account(f, known)
        BY <1>2, <4>2 DEF Account, Typed, InFlight, Goroutine
      <4>3. CASE FetchFails(f)
        BY <1>2, <4>3 DEF FetchFails, Idle, Typed, InFlight
      <4> QED BY <4>1, <4>2, <4>3
    <3> QED BY <3>1 DEF Growing
  <2> QED BY <2>1, <2>2
<1> QED BY <1>1, <1>2 DEF Growing, InFlight

\* Saved or not, what Update makes is ahead of the file.
LEMMA UpdateGrowing ==
  ASSUME Typed, Bounded, Growing, NEW f \in Fetches, Update(f)
  PROVE  Growing' /\ RowsAhead(file', file)
<1> DEFINE e == fetch[f].entries
           s == Current
           r == Updated(s, e)
<1>1. /\ UNCHANGED <<counter, day, prevAbs, ipTraffic, running>> /\ running
      /\ data' = r /\ file' \in {file, r}
  BY UpdateFacts DEF xrayState, history
<1>2. f \in InFlight
  BY UpdateFacts DEF InFlight
<1>3. InFlight' = {}
  <2>1. \A h \in Fetches : h # f => fetch[h].pc = "idle"
    BY <1>2 DEF InFlight, Bounded, Single
  <2>2. \A h \in Fetches : fetch'[h] = IF h = f THEN Idle ELSE fetch[h]
    BY UpdateFacts DEF Typed
  <2> QED BY <2>1, <2>2 DEF InFlight, Idle
<1>4. Latest(e, data, counter, day) /\ Regular(data, counter, day) /\ Ahead(data, file, day)
  BY <1>1, <1>2 DEF Growing
<1>5. e \in Maps(Nat) /\ DOMAIN e \subseteq Users /\ \A u \in DOMAIN e : e[u] \in Nat
  BY FetchFacts
<1>6. /\ data \in Stored /\ file \in Stored /\ day \in Days /\ Days \subseteq Nat
      /\ \A u \in Users : Get(counter, u) \in Nat
  BY GetFacts, DaysFacts DEF Typed
<1>7. /\ s \in Stored /\ DOMAIN s.bases = DOMAIN data.bases
      /\ \A u \in DOMAIN data.bases :
            s.bases[u].abs = data.bases[u].abs /\ s.bases[u].pre \in {0, data.bases[u].pre}
      /\ \A d \in Days : s.daily[d] \in {NoEntries, data.daily[d]}
      /\ s.daily[day] = data.daily[day]
  BY CurrentFacts
<1> HIDE DEF e, s
<1>8. /\ r \in Stored /\ DOMAIN r.bases = DOMAIN s.bases \union DOMAIN e
      /\ \A u \in DOMAIN e \intersect DOMAIN s.bases : r.bases[u] = Carried(s.bases[u], e[u])
      /\ \A u \in DOMAIN e \ DOMAIN s.bases : r.bases[u].abs = e[u] /\ r.bases[u].pre = 0
      /\ \A u \in DOMAIN s.bases \ DOMAIN e : r.bases[u] = s.bases[u]
      /\ DOMAIN r.daily[day] = DOMAIN s.daily[day] \union (DOMAIN e \intersect DOMAIN s.bases)
      /\ \A u \in DOMAIN e \intersect DOMAIN s.bases :
            r.daily[day][u] = Charged(Carried(s.bases[u], e[u]), e[u])
      /\ \A u \in DOMAIN s.daily[day] \ (DOMAIN e \intersect DOMAIN s.bases) :
            r.daily[day][u] = s.daily[day][u]
      /\ \A d \in Days \ {day} : r.daily[d] = s.daily[d]
  BY <1>5, <1>6, <1>7, UpdatedFacts
<1> HIDE DEF r
<1>9. ASSUME NEW u \in DOMAIN s.bases
      PROVE  /\ u \in Users /\ s.bases[u] \in Base /\ s.bases[u].pre = 0 /\ s.bases[u].abs \in Nat
             /\ s.bases[u].abs <= Get(counter, u)
  <2>1. u \in DOMAIN data.bases /\ data.bases[u].pre = 0 /\ data.bases[u].abs <= Get(counter, u)
    BY <1>4, <1>7 DEF Regular
  <2> QED BY <1>7, <2>1, StoredFacts, BasesNat
\* A sample is never below a base.
<1>10. ASSUME NEW u \in DOMAIN e \intersect DOMAIN s.bases
       PROVE  /\ Carried(s.bases[u], e[u]) = s.bases[u]
              /\ r.daily[day][u] = e[u] - s.bases[u].abs
              /\ s.bases[u].abs <= e[u] /\ e[u] <= Get(counter, u)
  <2>1. s.bases[u].abs <= e[u] /\ e[u] <= Get(counter, u)
    BY <1>4, <1>7 DEF Latest
  <2>2. e[u] \in Nat /\ s.bases[u].abs \in Nat /\ s.bases[u] \in Base /\ s.bases[u].pre = 0
    BY <1>5, <1>9
  <2>3. /\ Carried(s.bases[u], e[u]) = s.bases[u]
        /\ Charged(Carried(s.bases[u], e[u]), e[u]) = 0 + (e[u] - s.bases[u].abs)
    BY <2>1, <2>2, CarriedFacts
  <2>4. r.daily[day][u] = Charged(Carried(s.bases[u], e[u]), e[u])
    BY <1>8
  <2> QED BY <2>1, <2>2, <2>3, <2>4
<1>11. Regular(r, counter, day)
  <2>1. ASSUME NEW u \in DOMAIN r.bases PROVE r.bases[u].pre = 0 /\ r.bases[u].abs <= Get(counter, u)
    <3>1. CASE u \in DOMAIN s.bases
      <4>1. r.bases[u] = s.bases[u]
        BY <1>8, <1>10, <3>1
      <4> QED BY <1>9, <3>1, <4>1
    <3>2. CASE u \notin DOMAIN s.bases
      <4>1. u \in DOMAIN e /\ r.bases[u].abs = e[u] /\ r.bases[u].pre = 0
        BY <1>8, <3>2
      <4> QED BY <1>4, <4>1 DEF Latest
    <3> QED BY <3>1, <3>2
  <2>2. ASSUME NEW d \in Days, d > day PROVE DOMAIN r.daily[d] = {}
    <3>1. DOMAIN data.daily[d] = {} /\ d # day
      BY <1>4, <1>6, <2>2 DEF Regular
    <3>2. r.daily[d] \in {NoEntries, data.daily[d]}
      BY <1>7, <1>8, <3>1
    <3> QED BY <3>1, <3>2, NoEntriesFacts
  <2>3. ASSUME NEW u \in DOMAIN r.daily[day]
        PROVE  u \in DOMAIN r.bases /\ r.daily[day][u] + r.bases[u].abs <= Get(counter, u)
    <3>1. CASE u \in DOMAIN e \intersect DOMAIN s.bases
      <4>1. r.bases[u] = s.bases[u] /\ u \in DOMAIN r.bases
        BY <1>8, <1>10, <3>1
      <4>2. r.daily[day][u] = e[u] - s.bases[u].abs /\ e[u] <= Get(counter, u)
        BY <1>10, <3>1
      <4> QED BY <1>5, <1>9, <3>1, <4>1, <4>2
    <3>2. CASE u \notin DOMAIN e \intersect DOMAIN s.bases
      <4>1. u \in DOMAIN data.daily[day] /\ r.daily[day][u] = data.daily[day][u]
        BY <1>7, <1>8, <3>2
      <4>2. u \in DOMAIN data.bases /\ data.daily[day][u] + data.bases[u].abs <= Get(counter, u)
        BY <1>4, <4>1 DEF Regular
      <4>3. u \in DOMAIN s.bases \ DOMAIN e
        BY <1>7, <3>2, <4>2
      <4>4. r.bases[u].abs = data.bases[u].abs /\ u \in DOMAIN r.bases
        BY <1>7, <1>8, <4>2, <4>3
      <4> QED BY <4>1, <4>2, <4>4
    <3> QED BY <3>1, <3>2
  <2> QED BY <2>1, <2>2, <2>3 DEF Regular
<1>12. RowsAhead(r, file)
  <2>1. ASSUME NEW d \in Days, NEW u \in DOMAIN file.daily[d] \intersect DOMAIN r.daily[d]
        PROVE  file.daily[d][u] <= r.daily[d][u]
    <3>1. ASSUME u \in DOMAIN data.daily[d] PROVE file.daily[d][u] <= data.daily[d][u]
      BY <1>4, <3>1 DEF Ahead, RowsAhead
    <3>2. CASE d # day
      <4>1. r.daily[d] = data.daily[d]
        BY <1>7, <1>8, <2>1, <3>2, NoEntriesFacts
      <4> QED BY <3>1, <4>1
    <3>3. CASE d = day /\ u \in DOMAIN e \intersect DOMAIN s.bases
      <4>1. u \in DOMAIN data.daily[day]
        BY <1>4, <3>3 DEF Ahead
      <4>2. data.daily[day][u] + data.bases[u].abs <= e[u]
        BY <1>4, <3>3, <4>1 DEF Latest
      <4>3. r.daily[day][u] = e[u] - data.bases[u].abs /\ u \in DOMAIN data.bases
        BY <1>7, <1>10, <3>3
      <4>4. /\ data.daily[day][u] \in Nat /\ file.daily[day][u] \in Nat /\ e[u] \in Nat
            /\ data.bases[u].abs \in Nat
        BY <1>5, <1>6, <3>3, <4>1, <4>3, RowsNat, BasesNat
      <4> QED BY <3>1, <3>3, <4>1, <4>2, <4>3, <4>4
    <3>4. CASE d = day /\ u \notin DOMAIN e \intersect DOMAIN s.bases
      <4>1. u \in DOMAIN data.daily[day] /\ r.daily[day][u] = data.daily[day][u]
        BY <1>7, <1>8, <3>4
      <4> QED BY <3>1, <3>4, <4>1
    <3> QED BY <3>2, <3>3, <3>4
  <2> QED BY <2>1 DEF RowsAhead
<1>13. Ahead(r, file, day)
  BY <1>4, <1>7, <1>8, <1>12 DEF Ahead
<1>14. Ahead(r, r, day) /\ RowsAhead(file, file)
  BY <1>6, <1>8, AheadOfItself DEF Ahead
<1>15. data' = r /\ (file' = file \/ file' = r)
  BY <1>1 DEF r
<1>16. Regular(file, counter, day)
  BY DEF Growing
<1>17. RowsAhead(file', file)
  BY <1>12, <1>14, <1>15
<1>18. Ahead(data', file', day) /\ Regular(data', counter, day) /\ Regular(file', counter, day)
  BY <1>11, <1>13, <1>14, <1>15, <1>16
<1> QED BY <1>1, <1>3, <1>17, <1>18 DEF Growing

LEMMA ProgramGrowing ==
  ASSUME Typed, Calm, Growing, Start \/ Quit \/ Kill, "load" \notin events'
  PROVE  Growing' /\ RowsAhead(file', file)
<1>1. data \in Stored /\ file \in Stored /\ day \in Days
  BY DEF Typed
<1>2. Ahead(file, file, day) /\ RowsAhead(file, file)
  BY <1>1, AheadOfItself DEF Ahead
<1>3. CASE Start
  <2>1. UNCHANGED <<counter, day, file>> /\ data' = file /\ InFlight' = {}
    BY <1>3 DEF Start, Loaded, Event, xrayState, collector, InFlight, Calm
  <2> QED BY <1>2, <2>1 DEF Growing
<1>4. CASE Quit \/ Kill
  <2>1. UNCHANGED <<counter, day>> /\ data' = NoData /\ file' \in {file, data} /\ InFlight' = {}
        /\ ~running' /\ running
    BY <1>4 DEF Quit, Kill, Ended, xrayState, InFlight, Idle
  <2>2. Regular(NoData, counter, day)
    BY <1>1, NoDataFacts DEF Regular
  <2>3. RowsAhead(data, file)
    BY <2>1 DEF Growing, Ahead
  <2>4. RowsAhead(file', file)
    BY <1>2, <2>1, <2>3
  <2> QED BY <2>1, <2>2, <2>4 DEF Growing
<1> QED BY <1>3, <1>4

LEMMA StepGrowing ==
  ASSUME Typed, Calm, Bounded, events \subseteq {"late"} => Growing, [Next]_vars, events' \subseteq {"late"}
  PROVE  Growing' /\ RowsAhead(file', file)
<1>1. events \subseteq events'
  BY DEF Next, vars, Traffic, Midnight, XrayRestart, Query, Account, FetchFails, Update, Start, Quit,
         Kill, Ended, Event, history
<1>2. Growing
  BY <1>1
<1>3. RowsAhead(file, file)
  BY AheadOfItself DEF Ahead, Typed
<1>4. CASE World
  <2>1. file' = file /\ ~XrayRestart
    BY <1>4, WorldFacts
  <2>2. Growing'
    BY <1>2, <1>4, <2>1, TrafficGrowing, MidnightGrowing DEF World
  <2> QED BY <1>3, <2>1, <2>2
<1>5. ASSUME NEW f \in Fetches,
             Query(f) \/ (\E known \in SUBSET Users : Account(f, known)) \/ FetchFails(f)
      PROVE  Growing' /\ RowsAhead(file', file)
  <2>1. file' = file
    BY <1>5 DEF Query, Account, FetchFails, storage
  <2> QED BY <1>2, <1>3, <1>5, <2>1, CollectorGrowing
<1>6. CASE Start \/ Quit \/ Kill
  BY <1>2, <1>6, ProgramGrowing
<1>7. CASE UNCHANGED vars
  BY <1>2, <1>3, <1>7 DEF vars, Growing, InFlight
<1> QED BY <1>2, <1>4, <1>5, <1>6, <1>7, UpdateGrowing DEF Next, World
-----------------------------------------------------------------------------
(* The theorems *)

LEMMA InitIInv == Init => IInv
<1> SUFFICES ASSUME Init PROVE IInv
  OBVIOUS
<1>1. Typed
  BY InitTyped
<1>2. InFlight = {} /\ data = NoData /\ file = NoData /\ ~running
  BY DEF Init, InFlight, Idle
<1>3. \A u \in Users : Get(counter, u) = 0 /\ Get(prevAbs, u) = 0 /\ ipTraffic[u] = 0 /\ moved[day][u] = 0
  BY <1>1, NoEntriesFacts DEF Init, Typed
<1>4. Calm
  <2>1. \A d \in Days : moved[d] = moved[day]
    BY <1>1 DEF Init, Typed
  <2> QED BY <1>2, <1>3, <2>1 DEF Calm
<1>5. Distributed(ipTraffic, prevAbs, counter, moved[day])
  <2>1. Pos(0) = 0
    BY PosFacts
  <2> QED BY <1>3, <2>1 DEF Distributed
<1>6. Bounded
  BY <1>2, <1>5, NoDataBounded DEF Bounded, Single
<1>7. Growing
  <2>1. day \in Days
    BY <1>1 DEF Typed
  <2>2. Regular(NoData, counter, day)
    BY <2>1, NoDataFacts DEF Regular
  <2> QED BY <1>2, <2>2 DEF Growing
<1> QED BY <1>1, <1>4, <1>6, <1>7 DEF IInv

LEMMA StepIInv == IInv /\ [Next]_vars => IInv'
<1> SUFFICES ASSUME IInv, [Next]_vars PROVE IInv'
  OBVIOUS
<1>1. Typed' /\ Calm'
  BY StepTyped, StepCalm DEF IInv
<1>2. "overlap" \notin events' => Bounded'
  BY StepBounded DEF IInv
<1>3. events' \subseteq {"late"} => Growing'
  <2>1. SUFFICES ASSUME events' \subseteq {"late"} PROVE Growing'
    OBVIOUS
  <2>2. events \subseteq events'
    BY DEF Next, vars, Traffic, Midnight, XrayRestart, Query, Account, FetchFails, Update, Start, Quit,
           Kill, Ended, Event, history
  <2>3. Bounded
    BY <2>1, <2>2 DEF IInv
  <2> QED BY <2>1, <2>3, StepGrowing DEF IInv
<1> QED BY <1>1, <1>2, <1>3 DEF IInv

LEMMA AlwaysIInv == Spec => []IInv
  BY InitIInv, StepIInv, PTL DEF Spec

\* Whatever goroutines, restarts, kills, failed saves and unreadable files there are, every
\* variable of the accounting keeps its type.
THEOREM TypeCorrect == Spec => []TypeOK
<1>1. IInv => TypeOK
  BY TypedOK DEF IInv
<1> QED BY <1>1, AlwaysIInv, PTL

\* As long as fetches do not overlap, Storage.Update never charges a day with more than the user
\* has moved by its end, across restarts of Xray and of the monitor.
THEOREM DayBounded == Spec => []DailyBounded
<1>1. IInv => DailyBounded
  BY DEF IInv, Bounded, RowsBounded, DailyBounded
<1> QED BY <1>1, AlwaysIInv, PTL

\* As long as fetches do not overlap, Collector.Fetch never gives the addresses of a user more
\* bytes than the user has moved.
THEOREM GivenBounded == Spec => []AddressesBounded
<1>1. ASSUME IInv PROVE AddressesBounded
  <2>1. SUFFICES ASSUME "overlap" \notin events, NEW u \in Users PROVE ipTraffic[u] <= moved[day][u]
    BY DEF AddressesBounded
  <2>2. ipTraffic[u] + Pos(Get(counter, u) - Get(prevAbs, u)) <= moved[day][u]
    BY <1>1, <2>1 DEF IInv, Bounded, Distributed
  <2>3. /\ ipTraffic[u] \in Nat /\ moved[day][u] \in Nat
        /\ Get(counter, u) \in Nat /\ Get(prevAbs, u) \in Nat
    BY <1>1, GetFacts DEF IInv, Typed
  <2> QED BY <2>2, <2>3, PosFacts
<1> QED BY <1>1, AlwaysIInv, PTL

\* While Xray is not restarted, fetches do not overlap and the file can be read, a total in the
\* file never goes down, however often the monitor is killed between two saves.
THEOREM SavedOnlyGrow == Spec => SavedTotalsOnlyGrow
<1>1. ASSUME IInv, [Next]_vars
      PROVE  events' \subseteq {"late"} =>
                \A d \in Days : \A u \in DOMAIN file.daily[d] \intersect DOMAIN file'.daily[d] :
                    file'.daily[d][u] >= file.daily[d][u]
  <2>1. SUFFICES ASSUME events' \subseteq {"late"} PROVE
                \A d \in Days : \A u \in DOMAIN file.daily[d] \intersect DOMAIN file'.daily[d] :
                    file'.daily[d][u] >= file.daily[d][u]
    OBVIOUS
  <2>2. events \subseteq events'
    BY <1>1 DEF Next, vars, Traffic, Midnight, XrayRestart, Query, Account, FetchFails, Update, Start,
           Quit, Kill, Ended, Event, history
  <2>3. Bounded
    BY <1>1, <2>1, <2>2 DEF IInv
  <2>4. RowsAhead(file', file)
    BY <1>1, <2>1, <2>3, StepGrowing DEF IInv
  <2>5. file \in Stored /\ file' \in Stored
    BY <1>1, StepTyped DEF IInv, Typed
  <2>6. ASSUME NEW d \in Days, NEW u \in DOMAIN file.daily[d] \intersect DOMAIN file'.daily[d]
        PROVE  file'.daily[d][u] >= file.daily[d][u]
    BY <2>4, <2>5, <2>6, RowsNat DEF RowsAhead
  <2> QED BY <2>6
<1> QED BY <1>1, AlwaysIInv, PTL DEF Spec, SavedTotalsOnlyGrow
-----------------------------------------------------------------------------
(* The file is a ledger *)

\* s has no rows after day c, and those of t that have not expired by then.
NoneAfter(s, c) == \A d \in Days : d > c => DOMAIN s.daily[d] = {}
KeepsRows(s, t, c) ==
    \A d \in Days : DOMAIN t.daily[d] \subseteq DOMAIN s.daily[d] \/ d < c - KeepDays

LedgerInv ==
    /\ NoneAfter(data, day) /\ NoneAfter(file, day)
    /\ events \subseteq {"late"} /\ running => KeepsRows(data, file, day)

LEMMA EventsStay == [Next]_vars => events \subseteq events'
  BY DEF Next, vars, Traffic, Midnight, XrayRestart, Query, Account, FetchFails, Update, Start, Quit,
         Kill, Ended, Event, history

\* What Update starts from lacks expired rows only, and what it writes is for today.
LEMMA UpdateRows ==
  ASSUME Typed, NEW f \in Fetches, Update(f)
  PROVE  /\ KeepsRows(data', data, day) /\ file' \in {file, data'} /\ running /\ running'
         /\ \A d \in Days : d # day /\ DOMAIN data.daily[d] = {} => DOMAIN data'.daily[d] = {}
         /\ UNCHANGED <<day, moved, events>>
<1> DEFINE r == Updated(Current, fetch[f].entries)
<1>1. /\ data' = r /\ file' \in {file, data'} /\ running /\ running' /\ UNCHANGED <<day, moved, events>>
  BY UpdateFacts DEF xrayState, history
<1>2. Current \in Stored /\ fetch[f].entries \in Maps(Nat) /\ day \in Days
  BY CurrentFacts, FetchFacts DEF Typed
<1>3. /\ DOMAIN Current.daily[day] \subseteq DOMAIN r.daily[day]
      /\ \A d \in Days \ {day} : r.daily[d] = Current.daily[d]
  BY <1>2, UpdatedFacts
<1>4. /\ \A d \in Days : Current.daily[d] \in {NoEntries, data.daily[d]}
      /\ \A d \in Days : Current.daily[d] = data.daily[d] \/ d < day - KeepDays
  BY CurrentFacts DEF Current, Rotated
<1> HIDE DEF r
<1>5. ASSUME NEW d \in Days, ~(d < day - KeepDays)
      PROVE  DOMAIN data.daily[d] \subseteq DOMAIN data'.daily[d]
  <2>1. DOMAIN Current.daily[d] \subseteq DOMAIN r.daily[d]
    BY <1>3
  <2>2. Current.daily[d] = data.daily[d]
    BY <1>4, <1>5
  <2> QED BY <1>1, <2>1, <2>2
<1>6. ASSUME NEW d \in Days, d # day, DOMAIN data.daily[d] = {}
      PROVE  DOMAIN data'.daily[d] = {}
  <2>1. r.daily[d] \in {NoEntries, data.daily[d]}
    BY <1>3, <1>4, <1>6
  <2> QED BY <1>1, <1>6, <2>1, NoEntriesFacts
<1> QED BY <1>1, <1>5, <1>6 DEF KeepsRows

LEMMA ProgramRows ==
  ASSUME Start \/ Quit \/ Kill
  PROVE  /\ UNCHANGED <<day, moved>>
         /\ \/ running' /\ file' = file /\ (data' = file \/ (data' = NoData /\ "load" \in events'))
            \/ running /\ ~running' /\ data' = NoData /\ file' \in {file, data}
  BY DEF Start, Quit, Kill, Ended, Loaded, Event, xrayState, history

LEMMA LedgerInvInit == Init => LedgerInv
<1> SUFFICES ASSUME Init PROVE LedgerInv
  OBVIOUS
<1> QED BY NoDataFacts DEF Init, LedgerInv, NoneAfter

\* The rows of the file survive every step until they expire.
LEMMA LedgerInvStep ==
  ASSUME Typed, Calm, LedgerInv, [Next]_vars
  PROVE  /\ LedgerInv'
         /\ events' \subseteq {"late"} => KeepsRows(file', file, day)
<1>0. day \in Nat /\ Days \subseteq Nat /\ events \subseteq events' /\ KeepsRows(file, file, day)
  BY DaysFacts, EventsStay DEF Typed, KeepsRows
<1>1. CASE World
  <2>1. UNCHANGED <<running, data, file>> /\ events \subseteq events'
    BY <1>1, WorldFacts
  <2>2. day' = day \/ day' = day + 1
    BY <1>1 DEF World, Traffic, Midnight, XrayRestart
  <2>3. NoneAfter(data, day') /\ NoneAfter(file, day')
    BY <1>0, <2>2 DEF LedgerInv, NoneAfter
  <2>4. ASSUME KeepsRows(data, file, day) PROVE KeepsRows(data, file, day')
    <3>1. ASSUME NEW d \in Days, d < day - KeepDays PROVE d < day' - KeepDays
      BY <1>0, <2>2, <3>1, BoundsAssumption
    <3> QED BY <2>4, <3>1 DEF KeepsRows
  <2> QED BY <1>0, <2>1, <2>3, <2>4 DEF LedgerInv
<1>2. CASE \E f \in Fetches :
             Query(f) \/ (\E known \in SUBSET Users : Account(f, known)) \/ FetchFails(f)
  <2>1. UNCHANGED <<day, running, data, file>>
    BY <1>2 DEF Query, Account, FetchFails, xrayState, storage
  <2> QED BY <1>0, <2>1 DEF LedgerInv
<1>3. ASSUME NEW f \in Fetches, Update(f)
      PROVE  LedgerInv' /\ (events' \subseteq {"late"} => KeepsRows(file', file, day))
  <2>1. /\ KeepsRows(data', data, day) /\ (file' = file \/ file' = data') /\ running
        /\ \A d \in Days : d # day /\ DOMAIN data.daily[d] = {} => DOMAIN data'.daily[d] = {}
        /\ UNCHANGED <<day, events>>
    BY <1>3, UpdateRows
  <2>2. NoneAfter(data', day)
    BY <1>0, <2>1 DEF LedgerInv, NoneAfter
  <2>3. NoneAfter(file', day)
    BY <2>1, <2>2 DEF LedgerInv
  <2>4. ASSUME events \subseteq {"late"} PROVE KeepsRows(data', file, day) /\ KeepsRows(data', file', day)
    <3>1. KeepsRows(data, file, day)
      BY <2>1, <2>4 DEF LedgerInv
    <3>2. KeepsRows(data', file, day)
      BY <2>1, <3>1 DEF KeepsRows
    <3>3. KeepsRows(data', data', day)
      BY DEF KeepsRows
    <3> QED BY <2>1, <3>2, <3>3
  <2> QED BY <1>0, <2>1, <2>2, <2>3, <2>4 DEF LedgerInv
<1>4. CASE Start \/ Quit \/ Kill
  <2>1. day' = day /\ NoneAfter(NoData, day)
    BY <1>4, ProgramRows, NoDataFacts DEF NoneAfter
  <2>2. data' \in {file, NoData} /\ file' \in {file, data}
    BY <1>4, ProgramRows
  <2>3. NoneAfter(data', day) /\ NoneAfter(file', day)
    BY <2>1, <2>2 DEF LedgerInv
  <2>4. ASSUME events' \subseteq {"late"} PROVE KeepsRows(file', file, day)
    BY <1>0, <1>4, <2>4, ProgramRows DEF LedgerInv
  <2>5. ASSUME events' \subseteq {"late"}, running' PROVE KeepsRows(data', file', day)
    BY <1>0, <1>4, <2>5, ProgramRows
  <2> QED BY <2>1, <2>3, <2>4, <2>5 DEF LedgerInv
<1>5. CASE UNCHANGED vars
  BY <1>0, <1>5 DEF vars, LedgerInv
<1> QED BY <1>1, <1>2, <1>3, <1>4, <1>5 DEF Next, World

\* The tables of the ledger.
ChargeableOf(m, c) == [d \in Days |-> [u \in Users |-> IF d <= c THEN m[d][u] ELSE 0]]
RecordedOf(s) == [d \in Days |-> [u \in Users |-> Get(s.daily[d], u)]]

LEMMA TablesTyped ==
  ASSUME NEW m \in [Days -> [Users -> Nat]], NEW c, NEW s \in Stored
  PROVE  ChargeableOf(m, c) \in [Days -> [Users -> Nat]] /\ RecordedOf(s) \in [Days -> [Users -> Nat]]
<1>1. ASSUME NEW d \in Days, NEW u \in Users
      PROVE  (IF d <= c THEN m[d][u] ELSE 0) \in Nat /\ Get(s.daily[d], u) \in Nat
  BY StoredFacts, GetFacts
<1> QED BY <1>1 DEF ChargeableOf, RecordedOf

LEMMA Tables ==
  ASSUME Typed, Typed'
  PROVE  /\ Chargeable \in [Days -> [Users -> Nat]] /\ Recorded \in [Days -> [Users -> Nat]]
         /\ Chargeable' \in [Days -> [Users -> Nat]] /\ Recorded' \in [Days -> [Users -> Nat]]
<1>1. /\ Chargeable = ChargeableOf(moved, day) /\ Recorded = RecordedOf(file)
      /\ Chargeable' = ChargeableOf(moved', day') /\ Recorded' = RecordedOf(file')
  BY DEF Chargeable, Recorded, ChargeableOf, RecordedOf
<1>2. moved \in [Days -> [Users -> Nat]] /\ moved' \in [Days -> [Users -> Nat]]
      /\ file \in Stored /\ file' \in Stored
  BY DEF Typed
<1> QED BY <1>1, <1>2, TablesTyped

LEMMA LedgerInit == Init => Ledger!Init
<1> SUFFICES ASSUME Init PROVE Ledger!Init
  OBVIOUS
<1>1. Ledger!Days = Days
  BY DEF Ledger!Days, Days
<1>2. Chargeable = [d \in Days |-> [u \in Users |-> 0]]
  BY DEF Init, Chargeable
<1>3. ASSUME NEW d \in Days, NEW u \in Users PROVE Get(file.daily[d], u) = 0
  BY NoDataFacts DEF Init, Get
<1>4. Recorded = [d \in Days |-> [u \in Users |-> 0]]
  BY <1>3 DEF Recorded
<1> QED BY <1>1, <1>2, <1>4 DEF Init, Ledger!Init

LEMMA LedgerMove ==
  ASSUME Typed, Typed', NEW u \in Users, NEW n \in 0 .. 1, Traffic(u, n)
  PROVE  Ledger!Move(u)
<1> DEFINE new == Chargeable'[day][u]
<1>1. UNCHANGED <<day, file, events>> /\ day \in Days /\ Days \subseteq Nat /\ n \in Nat
  BY DaysFacts DEF Traffic, storage, Typed
<1>2. Chargeable \in [Days -> [Users -> Nat]] /\ Chargeable' \in [Days -> [Users -> Nat]]
  BY Tables
<1>3. \A d \in Days, v \in Users :
        Chargeable'[d][v] = IF d = day /\ v = u THEN Chargeable[d][v] + n ELSE Chargeable[d][v]
  <2>1. ASSUME NEW d \in Days, NEW v \in Users
        PROVE  (IF d <= day THEN moved'[d][v] ELSE 0) =
                  IF d = day /\ v = u THEN (IF d <= day THEN moved[d][v] ELSE 0) + n
                                      ELSE IF d <= day THEN moved[d][v] ELSE 0
    <3>1. moved'[d][v] = IF v = u /\ ~(d < day) THEN moved[d][v] + n ELSE moved[d][v]
      BY TrafficFacts
    <3> QED BY <1>1, <3>1
  <2> QED BY <1>1, <2>1 DEF Chargeable
<1>4. new \in Nat /\ Chargeable[day][u] \in Nat /\ new = Chargeable[day][u] + n
  BY <1>1, <1>2, <1>3
<1>5. new >= Chargeable[day][u]
  <2> HIDE DEF new
  <2> QED BY <1>1, <1>4
<1>6. Chargeable' = [Chargeable EXCEPT ![day][u] = new]
  <2> DEFINE other == [Chargeable EXCEPT ![day][u] = new]
  <2>1. other \in [Days -> [Users -> Nat]]
    BY <1>1, <1>2, <1>4
  <2>2. \A d \in Days, v \in Users :
          other[d][v] = IF d = day /\ v = u THEN new ELSE Chargeable[d][v]
    BY <1>1, <1>2
  <2> HIDE DEF other, new
  <2>3. \A d \in Days, v \in Users : Chargeable'[d][v] = other[d][v]
    BY <1>3, <1>4, <2>2
  <2>4. ASSUME NEW d \in Days PROVE Chargeable'[d] = other[d]
    <3>1. Chargeable'[d] \in [Users -> Nat] /\ other[d] \in [Users -> Nat]
      BY <1>2, <2>1
    <3> QED BY <2>3, <3>1
  <2>5. Chargeable' = other
    BY <1>2, <2>1, <2>4
  <2> QED BY <2>5 DEF other
<1>7. Recorded' = Recorded
  BY <1>1 DEF Recorded
<1> QED BY <1>1, <1>4, <1>5, <1>6, <1>7 DEF Ledger!Move

LEMMA LedgerNextDay ==
  ASSUME Typed, Typed', Calm, Midnight
  PROVE  Ledger!NextDay
<1>1. /\ day < LastDay /\ day' = day + 1 /\ day \in Days /\ day' \in Days /\ Days \subseteq Nat
      /\ UNCHANGED <<file, moved>>
  BY DaysFacts DEF Midnight, storage, Typed
<1>2. Chargeable \in [Days -> [Users -> Nat]] /\ Chargeable' \in [Days -> [Users -> Nat]]
  BY Tables
<1>3. ASSUME NEW d \in Days, d # day' PROVE Chargeable'[d] = Chargeable[d]
  <2>1. d <= day <=> d <= day'
    BY <1>1, <1>3
  <2> QED BY <1>1, <2>1 DEF Chargeable
<1>4. ASSUME NEW u \in Users PROVE Chargeable'[day'][u] <= Chargeable[day][u]
  <2>1. moved[day'] = moved[day] /\ moved[day][u] \in Nat
    BY <1>1 DEF Calm, Typed
  <2>2. Chargeable'[day'][u] = moved[day'][u] /\ Chargeable[day][u] = moved[day][u]
    BY <1>1 DEF Chargeable
  <2> QED BY <2>1, <2>2
<1>5. Chargeable' = [Chargeable EXCEPT ![day'] = Chargeable'[day']]
  BY <1>1, <1>2, <1>3
<1>6. Recorded' = Recorded /\ Chargeable'[day'] \in [Users -> Nat]
  BY <1>1, <1>2 DEF Recorded
<1>7. (events' = events) \/ events' = events \union {"late"}
  BY DEF Midnight, Event
<1>8. ("overlap" \in events)' = ("overlap" \in events)
  BY <1>7
<1>9. (~(events \subseteq {"late"}))' = ~(events \subseteq {"late"})
  BY <1>7
<1> QED BY <1>1, <1>4, <1>5, <1>6, <1>8, <1>9 DEF Ledger!NextDay

LEMMA LedgerWrite ==
  ASSUME IInv, IInv', LedgerInv, [Next]_vars, UNCHANGED <<day, moved>>
  PROVE  Ledger!Write
<1>1. Typed /\ Typed' /\ Calm /\ events \subseteq events'
  BY EventsStay DEF IInv
<1>2. Recorded' \in Ledger!Table /\ Chargeable' = Chargeable
  BY <1>1, Tables DEF Ledger!Table, Ledger!Days, Days, Chargeable
<1>3. Ledger!Days = Days
  BY DEF Ledger!Days, Days
<1>4. /\ NoneAfter(file', day)
      /\ events' \subseteq {"late"} => KeepsRows(file', file, day)
  BY <1>1, LedgerInvStep DEF LedgerInv
<1>5. \A d \in Days, u \in Users : moved[d][u] \in Nat /\ Recorded[d][u] \in Nat /\ Recorded'[d][u] \in Nat
  BY <1>1, Tables DEF Typed
<1>6. ASSUME "overlap" \notin events' PROVE Ledger!Bounded(Recorded')
  <2>1. RowsBounded(file', moved)
    BY <1>6 DEF IInv, Bounded
  <2>2. ASSUME NEW d \in Days, NEW u \in Users PROVE Recorded'[d][u] <= Chargeable[d][u]
    <3>1. Recorded'[d][u] = Get(file'.daily[d], u)
          /\ Chargeable[d][u] = IF d <= day THEN moved[d][u] ELSE 0
      BY DEF Recorded, Chargeable
    <3>2. CASE u \in DOMAIN file'.daily[d]
      <4>1. d <= day
        BY <1>1, <1>4, <3>2, DaysFacts DEF NoneAfter, Typed
      <4> QED BY <2>1, <3>1, <3>2, <4>1 DEF RowsBounded, Get
    <3>3. CASE u \notin DOMAIN file'.daily[d]
      <4>1. Recorded'[d][u] = 0
        BY <3>1, <3>3 DEF Get
      <4>2. Chargeable[d][u] \in Nat
        BY <1>5, <3>1
      <4> QED BY <4>1, <4>2
    <3> QED BY <3>2, <3>3
  <2> QED BY <1>3, <2>2 DEF Ledger!Bounded
<1>7. ASSUME events' \subseteq {"late"} PROVE Ledger!Continues(Recorded')
  <2>1. Bounded /\ Growing
    BY <1>1, <1>7 DEF IInv
  <2>2. RowsAhead(file', file) /\ KeepsRows(file', file, day)
    BY <1>1, <1>4, <1>7, <2>1, StepGrowing
  <2>3. ASSUME NEW d \in Days, NEW u \in Users
        PROVE  Recorded'[d][u] >= Recorded[d][u] \/ (d < day - KeepDays /\ Recorded'[d][u] = 0)
    <3>1. Recorded'[d][u] = Get(file'.daily[d], u) /\ Recorded[d][u] = Get(file.daily[d], u)
      BY DEF Recorded
    <3>2. CASE u \notin DOMAIN file.daily[d]
      <4>1. Recorded[d][u] = 0
        BY <3>1, <3>2 DEF Get
      <4> QED BY <1>5, <4>1
    <3>3. CASE u \in DOMAIN file.daily[d] /\ u \in DOMAIN file'.daily[d]
      <4>1. file.daily[d][u] <= file'.daily[d][u]
        BY <2>2, <3>3 DEF RowsAhead
      <4>2. Recorded[d][u] <= Recorded'[d][u]
        BY <3>1, <3>3, <4>1 DEF Get
      <4> QED BY <1>5, <4>2
    <3>4. CASE u \in DOMAIN file.daily[d] /\ u \notin DOMAIN file'.daily[d]
      BY <2>2, <3>1, <3>4 DEF KeepsRows, Get
    <3> QED BY <3>2, <3>3, <3>4
  <2> QED BY <1>3, <2>3 DEF Ledger!Continues, Ledger!Expired
<1>8. ("overlap" \in events)' \in {"overlap" \in events, TRUE}
  <2>1. CASE "overlap" \in events'
    <3>1. ("overlap" \in events)' = TRUE
      BY <2>1
    <3> QED BY <3>1
  <2>2. CASE "overlap" \notin events'
    <3>1. ("overlap" \in events)' = FALSE /\ ("overlap" \in events) = FALSE
      BY <1>1, <2>2
    <3> QED BY <3>1
  <2> QED BY <2>1, <2>2
<1>9. (~(events \subseteq {"late"}))' \in {~(events \subseteq {"late"}), TRUE}
  <2>1. CASE ~(events' \subseteq {"late"})
    <3>1. (~(events \subseteq {"late"}))' = TRUE
      BY <2>1
    <3> QED BY <3>1
  <2>2. CASE events' \subseteq {"late"}
    <3>1. (~(events \subseteq {"late"}))' = FALSE /\ (~(events \subseteq {"late"})) = FALSE
      BY <1>1, <2>2
    <3> QED BY <3>1
  <2> QED BY <2>1, <2>2
<1> QED BY <1>2, <1>6, <1>7, <1>8, <1>9 DEF Ledger!Write

LEMMA LedgerStep ==
  IInv /\ LedgerInv /\ IInv' /\ [Next]_vars => [Ledger!Next]_(Ledger!ledgerVars)
<1> SUFFICES ASSUME IInv, LedgerInv, IInv', [Next]_vars PROVE Ledger!Next
  OBVIOUS
<1>1. Typed /\ Typed' /\ Calm
  BY DEF IInv
<1>2. CASE \E u \in Users, n \in 0 .. 1 : Traffic(u, n)
  BY <1>1, <1>2, LedgerMove DEF Ledger!Next
<1>3. CASE Midnight
  BY <1>1, <1>3, LedgerNextDay DEF Ledger!Next
<1>4. CASE UNCHANGED <<day, moved>>
  BY <1>4, LedgerWrite DEF Ledger!Next
<1> QED BY <1>2, <1>3, <1>4
        DEF Next, XrayRestart, Query, Account, FetchFails, Update, Start, Quit, Kill, Ended,
            xrayState, history, vars

\* For any users, goroutines, days and retention: the file of the Go monitor implements
\* DailyLedger. No total on the disk exceeds what may be charged until fetches overlap; none is
\* lowered or lost before its time until one of the events the ledger names.
THEOREM KeepsLedger == Spec => ImplementsLedger
<1>1. IInv /\ LedgerInv /\ [Next]_vars => LedgerInv'
  BY LedgerInvStep DEF IInv
<1> QED BY <1>1, InitIInv, StepIInv, LedgerInvInit, LedgerInit, LedgerStep, PTL
        DEF Spec, ImplementsLedger, Ledger!Spec
=============================================================================
