-------------------------- MODULE TrafficLogProofs --------------------------
(***************************************************************************)
(* Proofs about TrafficLog, for any users, transfers and bounds.           *)
(***************************************************************************)
EXTENDS TrafficLog, TLAPS

-----------------------------------------------------------------------------
(* The helper operators *)

LEMMA PosNat == ASSUME NEW n \in Int PROVE Pos(n) \in Nat /\ Pos(n) >= n
  BY DEF Pos

LEMMA AtNat ==
  ASSUME NEW m, IsSnapshot(m), NEW u, NEW x \in Dirs
  PROVE  At(m, u, x) \in Nat
  BY DEF IsSnapshot, IsPartialMap, Bytes, At

LEMMA BaseNat ==
  ASSUME NEW b, IsBase(b), NEW u, NEW x \in Dirs
  PROVE  AbsOf(b, u, x) \in Nat /\ PreOf(b, u, x) \in Nat
  BY DEF IsBase, IsPartialMap, Bytes, AbsOf, PreOf

LEMMA NothingTyped == IsSnapshot(Nothing) /\ IsBase(Nothing) /\ DOMAIN Nothing = {}
  BY DEF Nothing, IsSnapshot, IsBase, IsPartialMap

LEMMA ZeroBytes == Zero \in Bytes
  BY DEF Zero, Bytes

\* Upsert keeps the type and unites the domains; a new row wins.
LEMMA UpsertFacts ==
  ASSUME NEW r, NEW w, IsSnapshot(r), IsSnapshot(w)
  PROVE  /\ IsSnapshot(Upsert(r, w))
         /\ DOMAIN Upsert(r, w) = DOMAIN r \union DOMAIN w
  BY DEF IsSnapshot, IsPartialMap, Upsert

LEMMA UpsertAt ==
  ASSUME NEW r, NEW w, NEW u, NEW x
  PROVE  At(Upsert(r, w), u, x) = IF u \in DOMAIN w THEN At(w, u, x) ELSE At(r, u, x)
  BY DEF Upsert, At

\* What _compute_today returns.
LEMMA DeltasFacts ==
  ASSUME NEW b, NEW m, IsBase(b), IsSnapshot(m)
  PROVE  /\ IsSnapshot(Deltas(b, m))
         /\ DOMAIN Deltas(b, m) = DOMAIN m
         /\ \A u \in DOMAIN m : \A x \in Dirs :
                At(Deltas(b, m), u, x) = PreOf(b, u, x) + Pos(At(m, u, x) - AbsOf(b, u, x))
<1>1. DOMAIN Deltas(b, m) = DOMAIN m
  BY DEF Deltas
<1>2. \A u \in DOMAIN m : \A x \in Dirs :
         At(Deltas(b, m), u, x) = PreOf(b, u, x) + Pos(At(m, u, x) - AbsOf(b, u, x))
  BY DEF Deltas, At
<1>3. ASSUME NEW u \in DOMAIN m PROVE Deltas(b, m)[u] \in Bytes
  <2>1. ASSUME NEW x \in Dirs
        PROVE  PreOf(b, u, x) + Pos(m[u][x] - AbsOf(b, u, x)) \in Nat
    <3>1. m[u][x] \in Nat
      BY DEF IsSnapshot, IsPartialMap, Bytes
    <3> QED BY <3>1, BaseNat, PosNat
  <2> QED BY <2>1 DEF Deltas, Bytes
<1>4. IsSnapshot(Deltas(b, m))
  BY <1>1, <1>3 DEF IsSnapshot, IsPartialMap, Deltas
<1> QED BY <1>1, <1>2, <1>4

\* A fresh base stands at the sample, with nothing carried over.
LEMMA FreshBaseFacts ==
  ASSUME NEW m, IsSnapshot(m)
  PROVE  /\ IsBase(FreshBase(m))
         /\ \A u : \A x \in Dirs : /\ AbsOf(FreshBase(m), u, x) = At(m, u, x)
                                   /\ PreOf(FreshBase(m), u, x) = 0
  BY ZeroBytes DEF IsSnapshot, IsBase, IsPartialMap, FreshBase, AbsOf, PreOf, At, Zero

\* A rebase moves the counted bytes of the users of the last sample into pre.
LEMMA RebasedFacts ==
  ASSUME NEW b, NEW l, NEW m, IsBase(b), IsSnapshot(l), IsSnapshot(m)
  PROVE  /\ IsBase(Rebased(b, l, m))
         /\ \A u : \A x \in Dirs :
              /\ AbsOf(Rebased(b, l, m), u, x) =
                    IF u \in DOMAIN m THEN At(m, u, x) ELSE AbsOf(b, u, x)
              /\ PreOf(Rebased(b, l, m), u, x) =
                    PreOf(b, u, x) + IF u \in DOMAIN b \intersect DOMAIN l
                                     THEN Pos(At(l, u, x) - AbsOf(b, u, x)) ELSE 0
<1> DEFINE r == Rebased(b, l, m)
<1>1. DOMAIN r = DOMAIN b \union DOMAIN m
  BY DEF Rebased
<1>2. \A u : \A x \in Dirs :
        AbsOf(r, u, x) = IF u \in DOMAIN m THEN At(m, u, x) ELSE AbsOf(b, u, x)
  BY <1>1 DEF Rebased, AbsOf, At
<1>3. \A u : \A x \in Dirs :
        PreOf(r, u, x) = PreOf(b, u, x) + IF u \in DOMAIN b \intersect DOMAIN l
                                          THEN Pos(At(l, u, x) - AbsOf(b, u, x)) ELSE 0
  BY <1>1, BaseNat DEF Rebased, PreOf, At
<1>4. ASSUME NEW u \in DOMAIN r PROVE r[u] \in [abs : Bytes, pre : Bytes]
  <2>1. (IF u \in DOMAIN m THEN m[u] ELSE b[u].abs) \in Bytes
    BY <1>1 DEF IsSnapshot, IsBase, IsPartialMap
  <2>2. ASSUME NEW x \in Dirs
        PROVE  PreOf(b, u, x) + (IF u \in DOMAIN b \intersect DOMAIN l
                                 THEN Pos(l[u][x] - AbsOf(b, u, x)) ELSE 0) \in Nat
    <3>1. u \in DOMAIN l => l[u][x] \in Nat
      BY DEF IsSnapshot, IsPartialMap, Bytes
    <3> QED BY <3>1, BaseNat, PosNat
  <2> QED BY <2>1, <2>2 DEF Rebased, Bytes
<1>5. IsBase(r)
  BY <1>1, <1>4 DEF IsSnapshot, IsBase, IsPartialMap, Rebased
<1> QED BY <1>2, <1>3, <1>5

\* Restart detection or not, the base the tick works with is a base; either it is
\* the old one or the old one rebased on the sample.
LEMMA BaseForFacts ==
  ASSUME NEW m, IsBase(todayBase), IsSnapshot(lastAbs), IsSnapshot(m)
  PROVE  IsBase(BaseFor(m))
  BY RebasedFacts DEF BaseFor

-----------------------------------------------------------------------------
(* Type correctness *)

LEMMA NoSampleTyped ==
  /\ NoSample = [taken |-> NoSample.taken, users |-> NoSample.users]
  /\ NoSample.taken = FALSE
  /\ NoSample.users = Nothing
  BY DEF NoSample

LEMMA NoBytesTyped == NoBytes \in [Users -> Bytes]
  BY ZeroBytes DEF NoBytes

LEMMA InitTypeOK == Init => TypeOK
<1> SUFFICES ASSUME Init PROVE TypeOK
  OBVIOUS
<1>1. 1 \in Days /\ 0 \in 0 .. SaveEvery - 1
  BY LastDayAssumption, SaveEveryAssumption DEF Days
<1>2. /\ daily = [d \in Days |-> daily[d]]
      /\ \A d \in Days : IsSnapshot(daily[d])
  BY NothingTyped DEF Init
<1>3. reach \in [Days -> [Users -> Bytes]] /\ since \in [Users -> Bytes]
  BY NoBytesTyped DEF Init
<1> QED BY <1>1, <1>2, <1>3, NothingTyped, NoSampleTyped DEF Init, TypeOK

\* The tables after the closing of a day are tables.
LEMMA ClosedDailyTyped ==
  ASSUME TypeOK
  PROVE  /\ ClosedDaily = [d \in Days |-> ClosedDaily[d]]
         /\ \A d \in Days : IsSnapshot(ClosedDaily[d])
<1>1. IsSnapshot(Deltas(todayBase, lastAbs))
  BY DeltasFacts DEF TypeOK
<1>2. ASSUME NEW d \in Days
      PROVE  IsSnapshot(Upsert(daily[d], Deltas(todayBase, lastAbs)))
  BY <1>1, UpsertFacts DEF TypeOK
<1> QED BY <1>2, NothingTyped DEF ClosedDaily, TypeOK

LEMMA MovedTyped ==
  ASSUME TypeOK, NEW u \in Users, NEW x \in Dirs, NEW n \in Nat
  PROVE  /\ IsSnapshot(Moved(u, x, n))
         /\ DOMAIN Moved(u, x, n) = {u}
         /\ \A y \in Dirs : At(Moved(u, x, n), u, y) =
                               At(counter, u, y) + IF y = x THEN n ELSE 0
<1>1. \A y \in Dirs : At(counter, u, y) \in Nat
  BY AtNat DEF TypeOK
<1>2. [y \in Dirs |-> At(counter, u, y) + IF y = x THEN n ELSE 0] \in Bytes
  BY <1>1 DEF Bytes
<1> QED BY <1>2 DEF Moved, IsSnapshot, IsPartialMap, At

\* What every action of the monitor that consumes the sample shares.
LEMMA DropSampleTyped ==
  ASSUME DropSample
  PROVE  /\ sample' = [taken |-> sample'.taken, users |-> sample'.users]
         /\ sample'.taken = FALSE
         /\ IsSnapshot(sample'.users)
         /\ since' \in [Users -> Bytes]
  BY NoSampleTyped, NothingTyped, NoBytesTyped DEF DropSample

LEMMA NextTypeOK == TypeOK /\ [Next]_vars => TypeOK'
<1> SUFFICES ASSUME TypeOK, [Next]_vars PROVE TypeOK'
  OBVIOUS
<1> USE DEF external, database, memory, history
<1>0. NoDate \in Days \union {NoDate} /\ 0 \in 0 .. SaveEvery - 1
  BY SaveEveryAssumption
<1>1. ASSUME NEW m \in Moves, Traffic(m[1], m[2], m[3])
      PROVE  TypeOK'
  <2> DEFINE u == m[1]  x == m[2]  n == m[3]
  <2>1. u \in Users /\ x \in Dirs /\ n \in Nat
    BY MovesAssumption
  <2>2. IsSnapshot(counter')
    <3>1. IsSnapshot(Moved(u, x, n))
      BY <2>1, MovedTyped
    <3>2. IsSnapshot(Upsert(counter, Moved(u, x, n)))
      BY <3>1, UpsertFacts DEF TypeOK
    <3> QED BY <1>1, <3>2 DEF Traffic
  <2>3. reach' \in [Days -> [Users -> Bytes]]
    BY <1>1, <2>1 DEF Traffic, TypeOK, Bytes
  <2>4. since' \in [Users -> Bytes]
    BY <1>1, <2>1 DEF Traffic, TypeOK, Bytes
  <2> QED BY <1>1, <2>2, <2>3, <2>4 DEF Traffic, TypeOK
<1>2. CASE Midnight
  <2>1. day + 1 \in Days
    BY <1>2, LastDayAssumption DEF Midnight, TypeOK, Days
  <2> QED BY <1>2, <2>1 DEF Midnight, TypeOK
<1>3. CASE XrayRestart
  BY <1>3, NothingTyped DEF XrayRestart, TypeOK, Fault, Faults
<1>4. CASE ResetStats
  <2>1. IsSnapshot(counter')
    BY <1>4, ZeroBytes DEF ResetStats, TypeOK, IsSnapshot, IsPartialMap
  <2> QED BY <1>4, <2>1 DEF ResetStats, TypeOK, Fault, Faults
<1>5. CASE Start
  BY <1>5 DEF Start, LoadToday, TypeOK
<1>6. CASE StartLoadFails
  BY <1>6 DEF StartLoadFails, TypeOK, Fault, Faults
<1>7. CASE Fetch
  BY <1>7, NoBytesTyped DEF Fetch, TypeOK
<1>8. CASE OpenDay
  <2>1. IsBase(FreshBase(sample.users))
    BY FreshBaseFacts DEF TypeOK
  <2> QED BY <1>8, <2>1, ClosedDailyTyped, DropSampleTyped DEF OpenDay, SaveBase, TypeOK
<1>9. CASE OpenDayCloseFails
  BY <1>9, DropSampleTyped DEF OpenDayCloseFails, TypeOK
<1>10. CASE OpenDaySaveFails
  <2>1. IsBase(FreshBase(sample.users))
    BY FreshBaseFacts DEF TypeOK
  <2> QED BY <1>10, <2>1, ClosedDailyTyped, DropSampleTyped
          DEF OpenDaySaveFails, TypeOK, Fault, Faults
<1>11. ASSUME Account, \/ UNCHANGED <<dbDate, dbBase>>
                       \/ SaveBase(day, BaseFor(sample.users))
       PROVE  TypeOK'
  <2>1. IsBase(BaseFor(sample.users))
    BY BaseForFacts DEF TypeOK
  <2>2. IsSnapshot(Deltas(BaseFor(sample.users), sample.users))
    BY <2>1, DeltasFacts DEF TypeOK
  <2>3. /\ daily' = [d \in Days |-> daily'[d]]
        /\ \A d \in Days : IsSnapshot(daily'[d])
    BY <1>11, <2>2, UpsertFacts DEF Account, TypeOK
  <2>4. tickN' \in 0 .. SaveEvery - 1
    BY <1>11, SaveEveryAssumption DEF Account, TypeOK
  <2> QED BY <1>11, <2>1, <2>3, <2>4, DropSampleTyped DEF Account, SaveBase, TypeOK
<1>12. CASE RecordFails
  <2>1. IsBase(BaseFor(sample.users))
    BY BaseForFacts DEF TypeOK
  <2>2. faults' \subseteq Faults
    BY <1>12 DEF RecordFails, TypeOK, Fault, Faults
  <2> QED BY <1>12, <2>1, <2>2, DropSampleTyped DEF RecordFails, TypeOK
<1>13. CASE Close
  BY <1>13, <1>0, NothingTyped, DropSampleTyped DEF Close, SaveBase, ForgetMemory, TypeOK
<1>14. CASE Crash
  BY <1>14, <1>0, NothingTyped, DropSampleTyped DEF Crash, ForgetMemory, TypeOK
<1>15. CASE UNCHANGED vars
  BY <1>15 DEF vars, TypeOK
<1> QED
  BY <1>1, <1>2, <1>3, <1>4, <1>5, <1>6, <1>7, <1>8, <1>9, <1>10, <1>11, <1>12,
     <1>13, <1>14, <1>15
  DEF Next, Environment, Monitor, Update, Record, RecordSaveFails

\* Every variable always has its type.
THEOREM TypeCorrect == Spec => []TypeOK
  BY InitTypeOK, NextTypeOK, PTL DEF Spec
-----------------------------------------------------------------------------
(* No byte is charged twice *)

Entry(u, x) ==
    /\ BaseOK(todayDate, todayBase, u, x)
    /\ BaseOK(dbDate, dbBase, u, x)
    /\ LastOK(u, x)
    /\ SampleOK(u, x)
    /\ RowsOK(u, x)

\* The numbers the invariant compares are natural numbers.
LEMMA Numbers ==
  ASSUME TypeOK, NEW u \in Users, NEW x \in Dirs
  PROVE  /\ At(counter, u, x) \in Nat
         /\ At(lastAbs, u, x) \in Nat
         /\ At(sample.users, u, x) \in Nat
         /\ AbsOf(todayBase, u, x) \in Nat /\ PreOf(todayBase, u, x) \in Nat
         /\ AbsOf(dbBase, u, x) \in Nat /\ PreOf(dbBase, u, x) \in Nat
         /\ since[u][x] \in Nat
         /\ \A d \in Days : reach[d][u][x] \in Nat
         /\ \A d \in Days : u \in DOMAIN daily[d] => daily[d][u][x] \in Nat
<1>1. \A d \in Days : u \in DOMAIN daily[d] => daily[d][u][x] \in Nat
  BY DEF TypeOK, IsSnapshot, IsPartialMap, Bytes
<1>2. since[u][x] \in Nat /\ \A d \in Days : reach[d][u][x] \in Nat
  BY DEF TypeOK, Bytes
<1> QED BY <1>1, <1>2, AtNat, BaseNat DEF TypeOK

LEMMA CountedNat ==
  ASSUME NEW b, NEW m, IsBase(b), IsSnapshot(m), NEW u, NEW x \in Dirs
  PROVE  Counted(b, m, u, x) \in Nat
<1>1. AbsOf(b, u, x) \in Nat /\ PreOf(b, u, x) \in Nat /\ At(m, u, x) \in Nat
  BY AtNat, BaseNat
<1> QED BY <1>1, PosNat DEF Counted

LEMMA Calendar ==
  ASSUME TypeOK
  PROVE  /\ Days \subseteq Int /\ day \in Int /\ todayDate \in Int /\ dbDate \in Int
         /\ NoDate \notin Days
  BY LastDayAssumption DEF TypeOK, Days, NoDate

LEMMA InitIInv == Init => IInv
<1> SUFFICES ASSUME Init PROVE IInv
  OBVIOUS
<1>1. TypeOK
  BY InitTypeOK
<1>2. DatesOK
  BY NothingTyped, NoSampleTyped DEF Init, DatesOK, NoDate
<1>3. ASSUME NEW u \in Users, NEW x \in Dirs PROVE Entry(u, x)
  <2>1. RowsOK(u, x) /\ LastOK(u, x) /\ SampleOK(u, x)
    BY NothingTyped, NoSampleTyped DEF Init, RowsOK, LastOK, SampleOK
  <2>2. todayDate # day /\ dbDate # day
    BY DEF Init, NoDate
  <2> QED BY <2>1, <2>2 DEF Entry, BaseOK
<1> QED BY <1>1, <1>2, <1>3 DEF IInv, ChargedOnce, Entry

LEMMA TrafficStep ==
  ASSUME IInv, TypeOK', NEW m \in Moves, Traffic(m[1], m[2], m[3])
  PROVE  DatesOK' /\ ChargedOnce'
<1> USE DEF external, database, memory, history
<1> DEFINE v == m[1]  y == m[2]  n == m[3]
<1>1. v \in Users /\ y \in Dirs /\ n \in Nat
  BY MovesAssumption
<1>2. DatesOK'
  BY DEF IInv, DatesOK, Traffic
<1>3. ASSUME "torn" \notin faults', NEW u \in Users, NEW x \in Dirs
      PROVE  Entry(u, x)'
  <2>1. Entry(u, x)
    BY <1>3 DEF IInv, ChargedOnce, Entry, Traffic
  <2> DEFINE k == IF u = v /\ x = y THEN n ELSE 0
  <2>2. k \in Nat
    BY <1>1
  <2>3. At(counter', u, x) = At(counter, u, x) + k
    <3>1. /\ IsSnapshot(Moved(v, y, n)) /\ DOMAIN Moved(v, y, n) = {v}
          /\ \A z \in Dirs : At(Moved(v, y, n), v, z) =
                                 At(counter, v, z) + IF z = y THEN n ELSE 0
      BY <1>1, MovedTyped DEF IInv
    <3>2. At(Upsert(counter, Moved(v, y, n)), u, x) =
              IF u \in {v} THEN At(Moved(v, y, n), u, x) ELSE At(counter, u, x)
      BY <3>1, UpsertAt
    <3>3. At(counter, u, x) \in Nat
      BY Numbers DEF IInv
    <3> QED BY <3>1, <3>2, <3>3 DEF Traffic
  <2>4. reach'[day][u][x] = reach[day][u][x] + k
    <3>1. reach[day][u][x] \in Nat
      BY Numbers DEF IInv, TypeOK
    <3> QED BY <1>1, <3>1 DEF IInv, TypeOK, Traffic, Bytes
  <2>5. \A d \in Days : d # day => reach'[d][u][x] = reach[d][u][x]
    BY DEF IInv, TypeOK, Traffic
  <2>6. since'[u][x] = since[u][x] + IF sample.taken THEN k ELSE 0
    <3>1. since[u][x] \in Nat
      BY Numbers DEF IInv
    <3> QED BY <1>1, <3>1 DEF IInv, TypeOK, Traffic, Bytes
  <2>7. /\ day' = day /\ todayDate' = todayDate /\ todayBase' = todayBase
        /\ dbDate' = dbDate /\ dbBase' = dbBase /\ lastAbs' = lastAbs
        /\ sample' = sample /\ daily' = daily
    BY DEF Traffic
  <2> HIDE DEF k, v, y, n
  <2>8. \A d \in Days : /\ reach[d][u][x] \in Nat /\ reach'[d][u][x] \in Nat
                       /\ reach[d][u][x] <= reach'[d][u][x]
    <3>1. \A d \in Days : reach[d][u][x] \in Nat
      BY Numbers DEF IInv
    <3> QED BY <2>2, <2>4, <2>5, <3>1
  <2>9. RowsOK(u, x)'
    <3>1. \A d \in Days : u \in DOMAIN daily[d] => daily[d][u][x] \in Nat
      BY Numbers DEF IInv
    <3> QED BY <2>1, <2>7, <2>8, <3>1 DEF Entry, RowsOK
  <2>10. LastOK(u, x)'
    <3>1. ASSUME todayDate # NoDate, u \in DOMAIN lastAbs
          PROVE  Counted(todayBase, lastAbs, u, x) <= reach'[todayDate][u][x]
      <4>1. todayDate \in Days /\ Counted(todayBase, lastAbs, u, x) <= reach[todayDate][u][x]
        BY <2>1, <3>1 DEF Entry, LastOK, IInv, TypeOK
      <4>2. Counted(todayBase, lastAbs, u, x) \in Int
        BY Numbers, PosNat DEF Counted, IInv
      <4> QED BY <4>1, <4>2, <2>8
    <3> QED BY <3>1, <2>7 DEF LastOK
  <2>11. ASSUME NEW d, NEW b, IsBase(b), BaseOK(d, b, u, x)
         PROVE  d = day => Counted(b, counter', u, x) <= reach'[day][u][x]
    <3>1. AbsOf(b, u, x) \in Nat /\ PreOf(b, u, x) \in Nat /\ At(counter, u, x) \in Nat
      BY <2>11, BaseNat, Numbers DEF IInv
    <3>2. reach[day][u][x] \in Nat
      BY Numbers DEF IInv, TypeOK
    <3> QED BY <2>2, <2>3, <2>4, <2>11, <3>1, <3>2 DEF BaseOK, Counted, Pos
  <2>12. BaseOK(todayDate, todayBase, u, x)' /\ BaseOK(dbDate, dbBase, u, x)'
    BY <2>1, <2>7, <2>11 DEF Entry, BaseOK, IInv, TypeOK
  <2>13. SampleOK(u, x)'
    <3>1. Counted(todayBase, sample.users, u, x) \in Int
          /\ Counted(todayBase, lastAbs, u, x) \in Int
      BY Numbers, PosNat DEF Counted, IInv
    <3>2. /\ At(counter, u, x) \in Nat /\ At(sample.users, u, x) \in Nat
          /\ since[u][x] \in Nat /\ reach[day][u][x] \in Nat
      BY Numbers DEF IInv, TypeOK
    <3> QED BY <2>1, <2>2, <2>3, <2>4, <2>6, <2>7, <3>1, <3>2 DEF Entry, SampleOK
  <2> QED BY <2>9, <2>10, <2>12, <2>13 DEF Entry
<1> QED BY <1>2, <1>3 DEF ChargedOnce, Entry

\* A new day may be charged with what was moved since the pending sample.
LEMMA MidnightStep == ASSUME IInv, TypeOK', Midnight PROVE DatesOK' /\ ChargedOnce'
<1> USE DEF external, database, memory, history
<1>1. day + 1 \in Days /\ day' = day + 1 /\ day \in Int /\ todayDate <= day /\ dbDate <= day
      /\ todayDate \in Int /\ dbDate \in Int
  BY LastDayAssumption, Calendar DEF IInv, DatesOK, Midnight, TypeOK, Days
<1>2. DatesOK'
  BY <1>1, Calendar DEF IInv, DatesOK, Midnight
<1>3. ASSUME "torn" \notin faults', NEW u \in Users, NEW x \in Dirs
      PROVE  Entry(u, x)'
  <2>1. Entry(u, x)
    BY <1>3 DEF IInv, ChargedOnce, Entry, Midnight
  <2>2. /\ reach'[day'] = since
        /\ \A d \in Days : d # day + 1 => reach'[d] = reach[d]
    BY <1>1 DEF IInv, TypeOK, Midnight
  <2>3. RowsOK(u, x)'
    <3>1. DOMAIN daily[day + 1] = {}
      BY <1>1 DEF IInv, DatesOK
    <3> QED BY <2>1, <2>2, <3>1 DEF Entry, RowsOK, Midnight
  <2>4. LastOK(u, x)'
    <3>1. todayDate # day + 1
      BY <1>1
    <3> QED BY <2>1, <2>2, <3>1 DEF Entry, LastOK, Midnight, IInv, TypeOK
  <2>5. todayDate' # day' /\ dbDate' # day'
    BY <1>1 DEF Midnight
  <2>6. SampleOK(u, x)'
    <3>1. since[u][x] \in Nat
      BY Numbers DEF IInv
    <3> QED BY <2>1, <2>2, <2>5, <3>1 DEF Entry, SampleOK, Midnight
  <2> QED BY <2>3, <2>4, <2>5, <2>6 DEF Entry, BaseOK
<1> QED BY <1>2, <1>3 DEF ChargedOnce, Entry

\* The counters return to zero: less is left to account.
LEMMA ResetStep ==
  ASSUME IInv, TypeOK', XrayRestart \/ ResetStats
  PROVE  DatesOK' /\ ChargedOnce'
<1> USE DEF external, database, memory, history
<1>1. UNCHANGED <<day, database, memory, sample, reach, since>>
  BY DEF XrayRestart, ResetStats
<1>2. \A u, x : x \in Dirs => At(counter', u, x) = 0
  BY NothingTyped DEF XrayRestart, ResetStats, At, Zero
<1>3. "torn" \notin faults' => "torn" \notin faults
  BY DEF XrayRestart, ResetStats, Fault
<1>4. DatesOK'
  BY <1>1 DEF IInv, DatesOK
<1>5. ASSUME "torn" \notin faults', NEW u \in Users, NEW x \in Dirs
      PROVE  Entry(u, x)'
  <2>1. Entry(u, x)
    BY <1>3, <1>5 DEF IInv, ChargedOnce, Entry
  <2>2. /\ At(counter, u, x) \in Nat /\ At(sample.users, u, x) \in Nat
        /\ since[u][x] \in Nat /\ reach[day][u][x] \in Nat
    BY Numbers DEF IInv, TypeOK
  <2>3. ASSUME NEW d, NEW b, IsBase(b), BaseOK(d, b, u, x)
        PROVE  d = day => Counted(b, counter', u, x) <= reach[day][u][x]
    <3>1. AbsOf(b, u, x) \in Nat /\ PreOf(b, u, x) \in Nat
      BY <2>3, BaseNat
    <3> QED BY <1>2, <2>2, <2>3, <3>1 DEF BaseOK, Counted, Pos
  <2>4. BaseOK(todayDate, todayBase, u, x)' /\ BaseOK(dbDate, dbBase, u, x)'
    BY <1>1, <2>1, <2>3 DEF Entry, BaseOK, IInv, TypeOK
  <2>5. SampleOK(u, x)'
    BY <1>1, <1>2, <2>1, <2>2 DEF Entry, SampleOK
  <2>6. LastOK(u, x)' /\ RowsOK(u, x)'
    BY <1>1, <2>1 DEF Entry, LastOK, RowsOK
  <2> QED BY <2>4, <2>5, <2>6 DEF Entry
<1> QED BY <1>4, <1>5 DEF ChargedOnce, Entry

\* A process that starts takes over the saved base; one that stops forgets.
LEMMA StartStep ==
  ASSUME IInv, TypeOK', Start \/ StartLoadFails
  PROVE  DatesOK' /\ ChargedOnce'
<1> USE DEF external, database, memory, history
<1>1. /\ ~running /\ ~sample.taken /\ todayDate = NoDate /\ DOMAIN lastAbs = {}
      /\ UNCHANGED <<counter, day, daily, dbDate, dbBase, lastAbs, sample, reach, since>>
      /\ \/ todayDate' = dbDate /\ todayBase' = dbBase
         \/ todayDate' = todayDate /\ todayBase' = todayBase
      /\ running'
  BY DEF Start, StartLoadFails, LoadToday, IInv, DatesOK, TypeOK
<1>2. "torn" \notin faults' => "torn" \notin faults
  BY DEF Start, StartLoadFails, Fault
<1>3. DatesOK'
  BY <1>1 DEF IInv, DatesOK
<1>4. ASSUME "torn" \notin faults', NEW u \in Users, NEW x \in Dirs
      PROVE  Entry(u, x)'
  <2>1. Entry(u, x)
    BY <1>2, <1>4 DEF IInv, ChargedOnce, Entry
  <2> QED BY <1>1, <2>1 DEF Entry, BaseOK, LastOK, SampleOK, RowsOK
<1> QED BY <1>3, <1>4 DEF ChargedOnce, Entry

LEMMA StopStep ==
  ASSUME IInv, TypeOK', Close \/ Crash
  PROVE  DatesOK' /\ ChargedOnce'
<1> USE DEF external, database, memory, history
<1>1. /\ ~sample'.taken /\ todayDate' = NoDate /\ lastAbs' = Nothing /\ running' = FALSE
      /\ UNCHANGED <<counter, day, daily, reach, faults>>
      /\ \/ dbDate' = dbDate /\ dbBase' = dbBase
         \/ dbDate' = todayDate /\ dbBase' = todayBase
  BY NoSampleTyped DEF Close, Crash, ForgetMemory, DropSample, SaveBase
<1>2. day \in Days /\ NoDate # day /\ NoDate <= day
  BY DEF IInv, TypeOK, Days, NoDate
<1>3. DatesOK'
  BY <1>1, <1>2, NothingTyped DEF IInv, DatesOK
<1>4. ASSUME "torn" \notin faults', NEW u \in Users, NEW x \in Dirs
      PROVE  Entry(u, x)'
  <2>1. Entry(u, x)
    BY <1>1, <1>4 DEF IInv, ChargedOnce, Entry
  <2> QED BY <1>1, <1>2, <2>1, NothingTyped DEF Entry, BaseOK, LastOK, SampleOK, RowsOK
<1> QED BY <1>3, <1>4 DEF ChargedOnce, Entry

\* A sample that has just been taken is the counter itself.
LEMMA FetchStep == ASSUME IInv, TypeOK', Fetch PROVE DatesOK' /\ ChargedOnce'
<1> USE DEF external, database, memory, history
<1>1. /\ sample'.taken /\ sample'.users = counter /\ since' = NoBytes /\ running' = running
      /\ running
      /\ UNCHANGED <<counter, day, daily, dbDate, dbBase, todayDate, todayBase, lastAbs,
                     reach, faults>>
  BY DEF Fetch
<1>2. DatesOK'
  BY <1>1 DEF IInv, DatesOK
<1>3. ASSUME "torn" \notin faults', NEW u \in Users, NEW x \in Dirs
      PROVE  Entry(u, x)'
  <2>1. Entry(u, x)
    BY <1>1, <1>3 DEF IInv, ChargedOnce, Entry
  <2>2. since'[u][x] = 0
    BY <1>1 DEF NoBytes, Zero
  <2>3. /\ At(counter, u, x) \in Nat /\ reach[day][u][x] \in Nat
        /\ Counted(todayBase, counter, u, x) \in Nat
        /\ Counted(todayBase, lastAbs, u, x) \in Nat
    BY Numbers, CountedNat DEF IInv, TypeOK
  <2>4. todayDate = day => todayDate # NoDate
    BY Calendar DEF IInv, TypeOK
  <2>5. SampleOK(u, x)'
    BY <1>1, <2>1, <2>2, <2>3, <2>4 DEF Entry, SampleOK, BaseOK, LastOK
  <2>6. /\ BaseOK(todayDate, todayBase, u, x)' /\ BaseOK(dbDate, dbBase, u, x)'
        /\ LastOK(u, x)' /\ RowsOK(u, x)'
    BY <1>1, <2>1 DEF Entry, BaseOK, LastOK, RowsOK
  <2> QED BY <2>5, <2>6 DEF Entry
<1> QED BY <1>2, <1>3 DEF ChargedOnce, Entry

\* Closing a day writes what LastOK says of it, and only into that day.
LEMMA ClosedRows ==
  ASSUME IInv, NEW u \in Users, NEW x \in Dirs, RowsOK(u, x), LastOK(u, x)
  PROVE  \A d \in Days : u \in DOMAIN ClosedDaily[d] => ClosedDaily[d][u][x] <= reach[d][u][x]
<1> DEFINE w == Deltas(todayBase, lastAbs)
<1> SUFFICES ASSUME NEW d \in Days, u \in DOMAIN ClosedDaily[d]
             PROVE  ClosedDaily[d][u][x] <= reach[d][u][x]
  OBVIOUS
<1>1. CASE ClosedDaily[d] = daily[d]
  BY <1>1 DEF RowsOK
<1>2. CASE ClosedDaily[d] = Nothing
  BY <1>2, NothingTyped
<1>3. CASE Closes /\ d = todayDate /\ ClosedDaily[d] = Upsert(daily[d], w)
  <2>1. IsSnapshot(w) /\ DOMAIN w = DOMAIN lastAbs
    BY DeltasFacts DEF IInv, TypeOK
  <2>2. DOMAIN Upsert(daily[d], w) = DOMAIN daily[d] \union DOMAIN w
    BY DEF Upsert
  <2>3. CASE u \in DOMAIN lastAbs
    <3>1. Upsert(daily[d], w)[u] = w[u]
      BY <2>1, <2>3 DEF Upsert
    <3>2. w[u][x] = Counted(todayBase, lastAbs, u, x)
      BY <2>3 DEF Deltas, Counted, At
    <3>3. Counted(todayBase, lastAbs, u, x) <= reach[d][u][x]
      BY <1>3, <2>3 DEF LastOK, Closes
    <3> HIDE DEF w
    <3> QED BY <1>3, <3>1, <3>2, <3>3
  <2>4. CASE u \notin DOMAIN lastAbs
    <3>1. Upsert(daily[d], w)[u] = daily[d][u] /\ u \in DOMAIN daily[d]
      BY <1>3, <2>1, <2>2, <2>4 DEF Upsert
    <3> QED BY <1>3, <3>1 DEF RowsOK
  <2> QED BY <2>3, <2>4
<1> QED BY <1>1, <1>2, <1>3 DEF ClosedDaily

\* A new day starts from the sample: what has moved since is its first traffic.
LEMMA OpenStep ==
  ASSUME IInv, TypeOK', OpenDay \/ OpenDaySaveFails
  PROVE  DatesOK' /\ ChargedOnce'
<1> USE DEF external, database, memory, history
<1> DEFINE f == FreshBase(sample.users)
<1>1. /\ sample.taken /\ running /\ daily' = ClosedDaily /\ todayDate' = day
      /\ todayBase' = f /\ lastAbs' = sample.users /\ ~sample'.taken
      /\ UNCHANGED <<counter, day, reach, running>>
      /\ \/ dbDate' = dbDate /\ dbBase' = dbBase
         \/ dbDate' = day /\ dbBase' = f
  BY NoSampleTyped DEF OpenDay, OpenDaySaveFails, Updating, SaveBase, DropSample
<1>2. "torn" \notin faults' => "torn" \notin faults
  BY DEF OpenDay, OpenDaySaveFails, Fault
<1>3. DatesOK'
  <2>1. ASSUME NEW d \in Days, d > day PROVE DOMAIN ClosedDaily[d] = {}
    <3>1. d # todayDate /\ DOMAIN daily[d] = {}
      BY <2>1, Calendar DEF IInv, DatesOK, TypeOK
    <3> QED BY <3>1, NothingTyped DEF ClosedDaily
  <2>2. day \in Int
    BY Calendar DEF IInv
  <2> QED BY <1>1, <2>1, <2>2 DEF IInv, DatesOK
<1>4. ASSUME "torn" \notin faults', NEW u \in Users, NEW x \in Dirs
      PROVE  Entry(u, x)'
  <2>1. Entry(u, x)
    BY <1>2, <1>4 DEF IInv, ChargedOnce, Entry
  <2>2. AbsOf(f, u, x) = At(sample.users, u, x) /\ PreOf(f, u, x) = 0
    <3>1. IsSnapshot(sample.users)
      BY DEF IInv, TypeOK
    <3> QED BY <3>1, FreshBaseFacts
  <2>3. /\ At(counter, u, x) \in Nat /\ At(sample.users, u, x) \in Nat
        /\ since[u][x] \in Nat /\ reach[day][u][x] \in Nat
    BY Numbers DEF IInv, TypeOK
  <2> HIDE DEF f
  <2>4. Counted(f, counter, u, x) <= reach[day][u][x]
    BY <1>1, <2>1, <2>2, <2>3 DEF Entry, SampleOK, Counted, Pos
  <2>5. Counted(f, sample.users, u, x) <= reach[day][u][x]
    BY <2>2, <2>3 DEF Counted, Pos
  <2>6. RowsOK(u, x)'
    BY <1>1, <2>1, ClosedRows DEF Entry, RowsOK
  <2> QED BY <1>1, <2>1, <2>4, <2>5, <2>6 DEF Entry, BaseOK, LastOK, SampleOK
<1> QED BY <1>3, <1>4 DEF ChargedOnce, Entry

\* A failed tick that changed nothing only drops the sample.
LEMMA DropStep ==
  ASSUME IInv, TypeOK', ~sample'.taken,
         UNCHANGED <<external, database, memory, reach>>,
         "torn" \notin faults' => "torn" \notin faults
  PROVE  DatesOK' /\ ChargedOnce'
<1> USE DEF external, database, memory, history
<1>1. DatesOK'
  BY DEF IInv, DatesOK
<1>2. ASSUME "torn" \notin faults', NEW u \in Users, NEW x \in Dirs
      PROVE  Entry(u, x)'
  <2>1. Entry(u, x)
    BY <1>2 DEF IInv, ChargedOnce, Entry
  <2> QED BY <2>1 DEF Entry, BaseOK, LastOK, SampleOK, RowsOK
<1> QED BY <1>1, <1>2 DEF ChargedOnce, Entry

\* Whatever restart detection decides, the base it leaves charges neither the
\* sample nor the current counters twice.
LEMMA RebaseSound ==
  ASSUME IInv, sample.taken, todayDate = day, NEW u \in Users, NEW x \in Dirs, Entry(u, x)
  PROVE  /\ Counted(BaseFor(sample.users), sample.users, u, x) <= reach[day][u][x]
         /\ Counted(BaseFor(sample.users), counter, u, x) <= reach[day][u][x]
<1> DEFINE b == todayBase
           l == lastAbs
           m == sample.users
           r == Rebased(b, l, m)
           R == reach[day][u][x]
           S == since[u][x]
<1>1. /\ AbsOf(b, u, x) \in Nat /\ PreOf(b, u, x) \in Nat
      /\ At(l, u, x) \in Nat /\ At(m, u, x) \in Nat /\ At(counter, u, x) \in Nat
      /\ R \in Nat /\ S \in Nat
  BY Numbers DEF IInv, TypeOK
<1>2. /\ At(counter, u, x) <= At(m, u, x) + S
      /\ S <= R
      /\ Counted(b, m, u, x) + S <= R
      /\ u \in DOMAIN l => Counted(b, l, u, x) + S <= R
  BY DEF Entry, SampleOK
<1>3. CASE ~RestartDetected(m)
  <2>1. Counted(b, counter, u, x) <= R
    BY DEF Entry, BaseOK
  <2>2. Counted(b, m, u, x) \in Nat
    BY CountedNat DEF IInv, TypeOK
  <2>3. BaseFor(m) = b
    BY <1>3 DEF BaseFor
  <2> HIDE DEF b, m, R, S
  <2>4. Counted(b, m, u, x) <= R
    BY <1>1, <1>2, <2>2
  <2> QED BY <2>1, <2>3, <2>4 DEF b, m, R
<1>4. CASE RestartDetected(m)
  <2>1. BaseFor(m) = r
    BY <1>4 DEF BaseFor
  <2>2. IsBase(b) /\ IsSnapshot(l) /\ IsSnapshot(m)
    BY DEF IInv, TypeOK
  <2>3. /\ AbsOf(r, u, x) = IF u \in DOMAIN m THEN At(m, u, x) ELSE AbsOf(b, u, x)
        /\ PreOf(r, u, x) = PreOf(b, u, x) + IF u \in DOMAIN b \intersect DOMAIN l
                                             THEN Pos(At(l, u, x) - AbsOf(b, u, x)) ELSE 0
    BY <2>2, RebasedFacts
  <2>4. u \notin DOMAIN m => At(m, u, x) = 0
    BY DEF At
  <2>5. u \notin DOMAIN b => AbsOf(b, u, x) = 0 /\ PreOf(b, u, x) = 0
    BY DEF AbsOf, PreOf
  <2> HIDE DEF b, l, m, r, R, S
  <2>6. PreOf(r, u, x) \in Nat /\ PreOf(r, u, x) + S <= R
    BY <1>1, <1>2, <2>3, <2>5 DEF Counted, Pos
  <2>7. Counted(r, counter, u, x) <= R /\ Counted(r, m, u, x) <= R
    BY <1>1, <1>2, <2>3, <2>4, <2>6 DEF Counted, Pos
  <2> QED BY <2>1, <2>7 DEF m, R
<1> QED BY <1>3, <1>4

\* The rows of a tick.
LEMMA AccountStep ==
  ASSUME IInv, TypeOK', Account,
         \/ UNCHANGED <<dbDate, dbBase>>
         \/ SaveBase(day, BaseFor(sample.users))
  PROVE  DatesOK' /\ ChargedOnce'
<1> USE DEF external, database, memory, history
<1> DEFINE m == sample.users
           b == BaseFor(m)
           w == Deltas(b, m)
<1>1. /\ sample.taken /\ running /\ todayDate = day /\ todayBase' = b /\ lastAbs' = m
      /\ daily' = [daily EXCEPT ![day] = Upsert(@, w)] /\ ~sample'.taken
      /\ UNCHANGED <<counter, day, running, todayDate, reach, faults>>
      /\ \/ dbDate' = dbDate /\ dbBase' = dbBase
         \/ dbDate' = day /\ dbBase' = b
  BY NoSampleTyped DEF Account, Updating, SaveBase, DropSample
<1>2. day \in Days /\ day \in Int /\ daily = [d \in Days |-> daily[d]]
  BY Calendar DEF IInv, TypeOK
<1>3. /\ daily'[day] = Upsert(daily[day], w)
      /\ \A d \in Days : d # day => daily'[d] = daily[d]
  BY <1>1, <1>2
<1>4. DatesOK'
  BY <1>1, <1>2, <1>3 DEF IInv, DatesOK
<1>5. ASSUME "torn" \notin faults', NEW u \in Users, NEW x \in Dirs
      PROVE  Entry(u, x)'
  <2>1. Entry(u, x)
    BY <1>1, <1>5 DEF IInv, ChargedOnce, Entry
  <2>2. Counted(b, m, u, x) <= reach[day][u][x] /\ Counted(b, counter, u, x) <= reach[day][u][x]
    BY <1>1, <2>1, RebaseSound
  <2>3. u \in DOMAIN daily'[day] => daily'[day][u][x] <= reach[day][u][x]
    <3>1. CASE u \in DOMAIN m
      <4>1. Upsert(daily[day], w)[u] = w[u]
        BY <3>1 DEF Upsert, Deltas
      <4>2. w[u][x] = Counted(b, m, u, x)
        BY <3>1 DEF Deltas, Counted, At
      <4> HIDE DEF w, b, m
      <4> QED BY <1>3, <2>2, <4>1, <4>2
    <3>2. CASE u \notin DOMAIN m
      <4>1. DOMAIN w = DOMAIN m
        BY DEF Deltas
      <4> HIDE DEF w, m
      <4>2. u \in DOMAIN daily'[day] => u \in DOMAIN daily[day] /\ daily'[day][u] = daily[day][u]
        BY <1>3, <3>2, <4>1 DEF Upsert
      <4> QED BY <1>2, <2>1, <4>2 DEF Entry, RowsOK
    <3> QED BY <3>1, <3>2
  <2> HIDE DEF w, b, m
  <2>4. RowsOK(u, x)'
    BY <1>1, <1>3, <2>1, <2>3 DEF Entry, RowsOK
  <2> QED BY <1>1, <2>1, <2>2, <2>4 DEF Entry, BaseOK, LastOK, SampleOK
<1> QED BY <1>4, <1>5 DEF ChargedOnce, Entry

LEMMA NextIInv == IInv /\ [Next]_vars => IInv'
<1> SUFFICES ASSUME IInv, [Next]_vars PROVE IInv'
  OBVIOUS
<1> USE DEF external, database, memory, history
<1>1. TypeOK'
  BY NextTypeOK DEF IInv
<1>2. ASSUME DatesOK' /\ ChargedOnce' PROVE IInv'
  BY <1>1, <1>2 DEF IInv
<1>3. CASE \E m \in Moves : Traffic(m[1], m[2], m[3])
  BY <1>1, <1>2, <1>3, TrafficStep
<1>4. CASE Midnight
  BY <1>1, <1>2, <1>4, MidnightStep
<1>5. CASE XrayRestart \/ ResetStats
  BY <1>1, <1>2, <1>5, ResetStep
<1>6. CASE Start \/ StartLoadFails
  BY <1>1, <1>2, <1>6, StartStep
<1>7. CASE Fetch
  BY <1>1, <1>2, <1>7, FetchStep
<1>8. CASE OpenDay \/ OpenDaySaveFails
  BY <1>1, <1>2, <1>8, OpenStep
<1>9. CASE OpenDayCloseFails
  <2>1. ~sample'.taken /\ UNCHANGED <<external, database, memory, reach, faults>>
    BY <1>9, NoSampleTyped DEF OpenDayCloseFails, DropSample
  <2> QED BY <1>1, <1>2, <2>1, DropStep
<1>10. CASE Record \/ RecordSaveFails
  <2>1. Account /\ \/ UNCHANGED <<dbDate, dbBase>>
                   \/ SaveBase(day, BaseFor(sample.users))
    BY <1>10 DEF Record, RecordSaveFails
  <2> QED BY <1>1, <1>2, <2>1, AccountStep
<1>11. CASE RecordFails
  <2>1. CASE RestartDetected(sample.users)
    \* The exception of NoOvercount.
    <3>1. "torn" \in faults'
      BY <1>11, <2>1 DEF RecordFails, Fault
    <3>2. DatesOK'
      BY <1>11, NoSampleTyped DEF RecordFails, DropSample, IInv, DatesOK
    <3> QED BY <1>2, <3>1, <3>2 DEF ChargedOnce
  <2>2. CASE ~RestartDetected(sample.users)
    <3>1. BaseFor(sample.users) = todayBase
      BY <2>2 DEF BaseFor
    <3>2. ~sample'.taken /\ UNCHANGED <<external, database, memory, reach, faults>>
      BY <1>11, <2>2, <3>1, NoSampleTyped DEF RecordFails, DropSample
    <3> QED BY <1>1, <1>2, <3>2, DropStep
  <2> QED BY <2>1, <2>2
<1>12. CASE Close \/ Crash
  BY <1>1, <1>2, <1>12, StopStep
<1>13. CASE UNCHANGED vars
  BY <1>13 DEF vars, IInv, TypeOK, DatesOK, ChargedOnce, BaseOK, LastOK, SampleOK, RowsOK
<1> QED
  BY <1>3, <1>4, <1>5, <1>6, <1>7, <1>8, <1>9, <1>10, <1>11, <1>12, <1>13
  DEF Next, Environment, Monitor, Update

LEMMA IInvNoOvercount == IInv => NoOvercount
<1> SUFFICES ASSUME IInv, "torn" \notin faults, NEW d \in Days, NEW u \in DOMAIN daily[d],
                    NEW x \in Dirs
             PROVE  daily[d][u][x] <= reach[d][u][x]
  BY DEF NoOvercount
<1>1. u \in Users
  BY DEF IInv, TypeOK, IsSnapshot, IsPartialMap
<1> QED BY <1>1 DEF IInv, ChargedOnce, RowsOK

\* For any number of users, transfers, days and faults: a total never exceeds the
\* bytes that may rightly be charged to it.
THEOREM ChargedAtMostOnce == Spec => []NoOvercount
  BY InitIInv, NextIInv, IInvNoOvercount, PTL DEF Spec
-----------------------------------------------------------------------------
(* No recorded total goes down *)

\* What accounting would write grows with the counters.
LEMMA CountedGrows ==
  ASSUME NEW b, NEW m, NEW n, IsBase(b), IsSnapshot(m), IsSnapshot(n), NEW u, NEW x \in Dirs,
         At(m, u, x) <= At(n, u, x)
  PROVE  Counted(b, m, u, x) <= Counted(b, n, u, x)
<1>1. /\ At(m, u, x) \in Nat /\ At(n, u, x) \in Nat
      /\ AbsOf(b, u, x) \in Nat /\ PreOf(b, u, x) \in Nat
  BY AtNat, BaseNat
<1> QED BY <1>1 DEF Counted, Pos

LEMMA InitGrowing == Init => Growing
<1> SUFFICES ASSUME Init PROVE Growing
  OBVIOUS
<1>1. ~running /\ dbDate \notin Days /\ \A d \in Days : DOMAIN daily[d] = {}
  BY LastDayAssumption, NothingTyped DEF Init, Days, NoDate
<1>2. ASSUME NEW u \in Users, NEW x \in Dirs PROVE InOrder(u, x) /\ NextRows(u, x)
  <2>1. At(lastAbs, u, x) = 0 /\ At(counter, u, x) = 0 /\ ~sample.taken
    BY NothingTyped, NoSampleTyped DEF Init, At
  <2> QED BY <1>1, <2>1 DEF InOrder, NextRows, RowsBehind
<1> QED BY <1>1, <1>2 DEF Growing

\* Steps that leave the tables alone: the counters only grow, and what the process holds in
\* memory stays, is lost, or is loaded again.
LEMMA QuietGrows ==
  ASSUME IInv, TypeOK', Growing, UNCHANGED <<daily, dbDate, dbBase>>,
         \A u \in Users, x \in Dirs : At(counter, u, x) <= At(counter', u, x),
         lastAbs' = lastAbs \/ DOMAIN lastAbs' = {},
         sample' = sample \/ ~sample'.taken,
         running' => todayDate' = dbDate /\ todayBase' = dbBase
  PROVE  Growing'
<1>1. ASSUME NEW u \in Users, NEW x \in Dirs PROVE InOrder(u, x)' /\ NextRows(u, x)'
  <2>1. InOrder(u, x) /\ NextRows(u, x) /\ At(counter, u, x) <= At(counter', u, x)
    BY DEF Growing
  <2>2. /\ At(counter, u, x) \in Nat /\ At(counter', u, x) \in Nat
        /\ At(lastAbs, u, x) \in Nat /\ At(sample.users, u, x) \in Nat
    BY AtNat, Numbers DEF IInv, TypeOK
  <2>3. At(lastAbs', u, x) <= At(lastAbs, u, x) /\ At(lastAbs', u, x) \in Nat
    BY <2>2 DEF At
  <2>4. InOrder(u, x)'
    BY <2>1, <2>2, <2>3 DEF InOrder
  <2>5. RowsBehind(counter, u, x)'
    <3>1. Counted(dbBase, counter, u, x) <= Counted(dbBase, counter', u, x)
      BY <2>1, CountedGrows DEF IInv, TypeOK
    <3>2. Counted(dbBase, counter, u, x) \in Nat /\ Counted(dbBase, counter', u, x) \in Nat
      BY CountedNat DEF IInv, TypeOK
    <3>3. dbDate \in Days /\ u \in DOMAIN daily[dbDate] => daily[dbDate][u][x] \in Nat
      BY Numbers DEF IInv
    <3> QED BY <2>1, <3>1, <3>2, <3>3 DEF NextRows, RowsBehind
  <2>6. sample'.taken => RowsBehind(sample.users, u, x)'
    BY <2>1 DEF NextRows, RowsBehind
  <2>7. u \in DOMAIN lastAbs' => RowsBehind(lastAbs, u, x)'
    BY <2>1 DEF NextRows, RowsBehind
  <2> QED BY <2>4, <2>5, <2>6, <2>7 DEF NextRows
<1> QED BY <1>1 DEF Growing

LEMMA FetchGrows == ASSUME IInv, Growing, Fetch PROVE Growing'
<1> USE DEF external, database, memory, history
<1>1. /\ sample'.users = counter /\ running
      /\ UNCHANGED <<counter, day, daily, dbDate, dbBase, running, todayDate, todayBase, lastAbs>>
  BY DEF Fetch
<1>2. ASSUME NEW u \in Users, NEW x \in Dirs PROVE InOrder(u, x)' /\ NextRows(u, x)'
  <2>1. InOrder(u, x) /\ NextRows(u, x) /\ At(counter, u, x) \in Nat
    BY Numbers DEF Growing, IInv
  <2> QED BY <1>1, <2>1 DEF InOrder, NextRows, RowsBehind
<1> QED BY <1>1, <1>2 DEF Growing

\* Closing a day writes rows that are not behind those already there, and adds no day.
LEMMA ClosingGrows ==
  ASSUME IInv, Growing, running
  PROVE  /\ \A d \in Days : \A u \in DOMAIN daily[d] \intersect DOMAIN ClosedDaily[d] :
                \A x \in Dirs : ClosedDaily[d][u][x] >= daily[d][u][x]
         /\ \A d \in Days : DOMAIN daily[d] = {} /\ d # todayDate => DOMAIN ClosedDaily[d] = {}
<1> DEFINE w == Deltas(todayBase, lastAbs)
<1>1. ASSUME NEW d \in Days, NEW u \in DOMAIN daily[d] \intersect DOMAIN ClosedDaily[d],
             NEW x \in Dirs
      PROVE  ClosedDaily[d][u][x] >= daily[d][u][x]
  <2>1. u \in Users
    BY DEF IInv, TypeOK, IsSnapshot, IsPartialMap
  <2>2. daily[d][u][x] \in Nat
    BY <2>1, Numbers DEF IInv
  <2>3. CASE ClosedDaily[d] = daily[d]
    BY <2>2, <2>3
  <2>4. CASE ClosedDaily[d] = Nothing
    BY <2>4, NothingTyped
  <2>5. CASE d = todayDate /\ ClosedDaily[d] = Upsert(daily[d], w)
    <3>1. CASE u \in DOMAIN lastAbs
      <4>1. Upsert(daily[d], w)[u] = w[u]
        BY <3>1 DEF Upsert, Deltas
      <4>2. w[u][x] = Counted(todayBase, lastAbs, u, x)
        BY <3>1 DEF Deltas, Counted, At
      <4>3. daily[d][u][x] <= Counted(todayBase, lastAbs, u, x)
        BY <2>1, <2>5, <3>1 DEF Growing, NextRows, RowsBehind
      <4>4. Counted(todayBase, lastAbs, u, x) \in Nat
        BY CountedNat DEF IInv, TypeOK
      <4> HIDE DEF w
      <4> QED BY <2>2, <2>5, <4>1, <4>2, <4>3, <4>4
    <3>2. CASE u \notin DOMAIN lastAbs
      <4>1. Upsert(daily[d], w)[u] = daily[d][u]
        BY <3>2 DEF Upsert, Deltas
      <4> HIDE DEF w
      <4> QED BY <2>2, <2>5, <4>1
    <3> QED BY <3>1, <3>2
  <2> QED BY <2>3, <2>4, <2>5 DEF ClosedDaily
<1>2. ASSUME NEW d \in Days, DOMAIN daily[d] = {}, d # todayDate
      PROVE  DOMAIN ClosedDaily[d] = {}
  BY <1>2, NothingTyped DEF ClosedDaily
<1> QED BY <1>1, <1>2

\* A new day starts without rows, so its base may start anywhere.
LEMMA OpenGrows == ASSUME IInv, Growing, OpenDay PROVE Growing'
<1> USE DEF external, database, memory, history
<1> DEFINE f == FreshBase(sample.users)
<1>1. /\ running /\ sample.taken /\ todayDate # day /\ daily' = ClosedDaily /\ todayDate' = day
      /\ todayBase' = f /\ lastAbs' = sample.users /\ ~sample'.taken
      /\ dbDate' = day /\ dbBase' = f /\ counter' = counter
  BY NoSampleTyped DEF OpenDay, Updating, SaveBase, DropSample
<1>2. todayDate \in Int /\ day \in Int /\ dbDate = todayDate /\ todayDate <= day /\ Days \subseteq Int
  BY <1>1, Calendar DEF IInv, DatesOK, Growing
<1>3. \A d \in Days : d >= day => DOMAIN daily'[d] = {}
  <2>1. ASSUME NEW d \in Days, d >= day PROVE DOMAIN ClosedDaily[d] = {}
    <3>1. d > dbDate /\ d # todayDate
      BY <1>1, <1>2, <2>1
    <3> QED BY <1>1, <3>1, ClosingGrows DEF Growing
  <2> QED BY <1>1, <2>1
<1> HIDE DEF f
<1>4. ASSUME NEW u \in Users, NEW x \in Dirs PROVE InOrder(u, x)' /\ NextRows(u, x)'
  <2>1. InOrder(u, x)
    BY DEF Growing
  <2>2. dbDate' \in Days => DOMAIN daily'[dbDate'] = {}
    BY <1>1, <1>2, <1>3
  <2> QED BY <1>1, <2>1, <2>2 DEF InOrder, NextRows, RowsBehind
<1>5. \A d \in Days : d > dbDate' => DOMAIN daily'[d] = {}
  BY <1>1, <1>2, <1>3
<1> QED BY <1>1, <1>4, <1>5 DEF Growing

\* While the counters only grow no restart is detected.
LEMMA NoFalseRestart ==
  ASSUME IInv, Growing, sample.taken
  PROVE  BaseFor(sample.users) = todayBase
<1>1. ASSUME NEW u \in DOMAIN todayBase, NEW x \in Dirs
      PROVE  ~(At(sample.users, u, x) < At(lastAbs, u, x))
  <2>1. u \in Users
    BY DEF IInv, TypeOK, IsBase, IsPartialMap
  <2>2. At(lastAbs, u, x) <= At(sample.users, u, x)
    BY <2>1 DEF Growing, InOrder
  <2>3. At(lastAbs, u, x) \in Nat /\ At(sample.users, u, x) \in Nat
    BY <2>1, Numbers DEF IInv
  <2> QED BY <2>2, <2>3
<1> QED BY <1>1 DEF BaseFor, RestartDetected

\* What accounting a tick does to the rows of the day.
LEMMA AccountRows ==
  ASSUME IInv, Growing, Account
  PROVE  /\ running /\ todayDate = day /\ dbDate = day /\ sample.taken
         /\ todayBase' = dbBase
         /\ \A d \in Days : d # day => daily'[d] = daily[d]
         /\ \A u \in DOMAIN sample.users : \A x \in Dirs :
                daily'[day][u][x] = Counted(dbBase, sample.users, u, x)
         /\ \A u : u \notin DOMAIN sample.users =>
                /\ u \in DOMAIN daily'[day] <=> u \in DOMAIN daily[day]
                /\ daily'[day][u] = daily[day][u] \/ u \notin DOMAIN daily[day]
<1> USE DEF external, database, memory, history
<1> DEFINE m == sample.users
           w == Deltas(dbBase, m)
<1>1. running /\ sample.taken /\ todayDate = day
  BY DEF Account, Updating
<1>2. todayBase = dbBase /\ dbDate = day /\ BaseFor(m) = dbBase
  BY <1>1, NoFalseRestart DEF Growing
<1>3. todayBase' = dbBase /\ daily' = [daily EXCEPT ![day] = Upsert(@, w)]
  BY <1>2 DEF Account
<1>4. day \in Days /\ daily = [d \in Days |-> daily[d]]
  BY DEF IInv, TypeOK
<1>5. daily'[day] = Upsert(daily[day], w) /\ \A d \in Days : d # day => daily'[d] = daily[d]
  BY <1>3, <1>4
<1>6. DOMAIN w = DOMAIN m
  BY DEF Deltas
<1>7. ASSUME NEW u \in DOMAIN m, NEW x \in Dirs
      PROVE  daily'[day][u][x] = Counted(dbBase, m, u, x)
  <2>1. w[u][x] = Counted(dbBase, m, u, x)
    BY <1>7 DEF Deltas, Counted, At
  <2> HIDE DEF w, m
  <2>2. Upsert(daily[day], w)[u] = w[u]
    BY <1>6, <1>7 DEF Upsert
  <2> QED BY <1>5, <2>1, <2>2
<1>8. ASSUME NEW u, u \notin DOMAIN m
      PROVE  /\ u \in DOMAIN daily'[day] <=> u \in DOMAIN daily[day]
             /\ daily'[day][u] = daily[day][u] \/ u \notin DOMAIN daily[day]
  <2> HIDE DEF w, m
  <2> QED BY <1>5, <1>6, <1>8 DEF Upsert
<1> QED BY <1>1, <1>2, <1>3, <1>5, <1>7, <1>8

LEMMA AccountGrows ==
  ASSUME IInv, TypeOK', Growing, Account,
         \/ UNCHANGED <<dbDate, dbBase>>
         \/ SaveBase(day, BaseFor(sample.users))
  PROVE  Growing'
<1> USE DEF external, database, memory, history
<1> DEFINE m == sample.users
<1>1. /\ running /\ sample.taken /\ dbDate = day /\ todayDate = day /\ todayBase' = dbBase
      /\ \A d \in Days : d # day => daily'[d] = daily[d]
  BY AccountRows
<1>2. /\ lastAbs' = m /\ ~sample'.taken /\ UNCHANGED <<counter, day, running, todayDate>>
  BY NoSampleTyped DEF Account, DropSample
<1>3. BaseFor(m) = todayBase /\ todayBase = dbBase
  BY <1>1, NoFalseRestart DEF Growing
<1>4. dbDate' = day /\ dbBase' = dbBase
  BY <1>1, <1>3 DEF SaveBase
<1>5. day \in Days /\ day \in Int /\ Days \subseteq Int
  BY Calendar DEF IInv, TypeOK
<1>6. ASSUME NEW u \in Users, NEW x \in Dirs PROVE InOrder(u, x)' /\ NextRows(u, x)'
  <2>1. InOrder(u, x) /\ NextRows(u, x)
    BY DEF Growing
  <2>2. InOrder(u, x)'
    BY <1>1, <1>2, <2>1 DEF InOrder
  <2>3. /\ IsBase(dbBase) /\ IsSnapshot(m) /\ IsSnapshot(counter)
        /\ At(m, u, x) <= At(counter, u, x)
    BY <1>1, <2>1 DEF IInv, TypeOK, InOrder
  <2>4. Counted(dbBase, m, u, x) <= Counted(dbBase, counter, u, x)
    BY <2>3, CountedGrows
  <2>5. Counted(dbBase, m, u, x) \in Nat /\ Counted(dbBase, counter, u, x) \in Nat
    BY <2>3, CountedNat
  <2>6. u \in DOMAIN daily'[day] => daily'[day][u][x] <= Counted(dbBase, counter, u, x)
    <3>1. CASE u \in DOMAIN m
      BY <2>4, <2>5, <3>1, AccountRows
    <3>2. CASE u \notin DOMAIN m
      <4>1. u \in DOMAIN daily'[day] => u \in DOMAIN daily[day] /\ daily'[day][u] = daily[day][u]
        BY <3>2, AccountRows
      <4> QED BY <1>1, <1>5, <2>1, <4>1 DEF NextRows, RowsBehind
    <3> QED BY <3>1, <3>2
  <2>7. u \in DOMAIN m => daily'[day][u][x] <= Counted(dbBase, m, u, x)
    BY <2>5, AccountRows
  <2> HIDE DEF m
  <2>8. RowsBehind(counter, u, x)'
    BY <1>2, <1>4, <2>6 DEF RowsBehind
  <2>9. u \in DOMAIN lastAbs' => RowsBehind(lastAbs, u, x)'
    BY <1>2, <1>4, <2>7 DEF RowsBehind
  <2> QED BY <1>2, <2>2, <2>8, <2>9 DEF NextRows
<1>7. \A d \in Days : d > dbDate' => DOMAIN daily'[d] = {}
  BY <1>1, <1>4, <1>5 DEF Growing
<1> QED BY <1>1, <1>2, <1>3, <1>4, <1>6, <1>7 DEF Growing

LEMMA FaultsStay == [Next]_vars => faults \subseteq faults'
  BY DEF Next, Environment, Monitor, Update, vars, external, database, memory, history, Fault,
         Traffic, Midnight, XrayRestart, ResetStats, Start, StartLoadFails, Fetch, OpenDay,
         OpenDayCloseFails, OpenDaySaveFails, Account, Record, RecordSaveFails, RecordFails,
         Close, Crash

\* A step without a disturbance is one of these.
LEMMA UndisturbedStep ==
  ASSUME [Next]_vars, Undisturbed'
  PROVE  \/ \E m \in Moves : Traffic(m[1], m[2], m[3])
         \/ Midnight \/ Start \/ OpenDayCloseFails \/ RecordFails \/ Close \/ Crash
         \/ Fetch \/ OpenDay \/ Record \/ RecordSaveFails \/ UNCHANGED vars
<1>1. ~XrayRestart /\ ~ResetStats /\ ~StartLoadFails /\ ~OpenDaySaveFails
  BY DEF Undisturbed, Disturbances, XrayRestart, ResetStats, StartLoadFails, OpenDaySaveFails, Fault
<1> QED BY <1>1 DEF Next, Environment, Monitor, Update

LEMMA TrafficCounts ==
  ASSUME IInv, NEW m \in Moves, Traffic(m[1], m[2], m[3]), NEW u \in Users, NEW x \in Dirs
  PROVE  At(counter, u, x) <= At(counter', u, x)
<1> DEFINE new == Moved(m[1], m[2], m[3])
<1>1. m[1] \in Users /\ m[2] \in Dirs /\ m[3] \in Nat
  BY MovesAssumption
<1>2. counter' = Upsert(counter, new)
  BY DEF Traffic
<1>3. DOMAIN new = {m[1]} /\ At(new, m[1], x) = At(counter, m[1], x) + (IF x = m[2] THEN m[3] ELSE 0)
  <2>1. PICK v \in Users, y \in Dirs, n \in Nat : v = m[1] /\ y = m[2] /\ n = m[3]
    BY <1>1
  <2>2. TypeOK
    BY DEF IInv
  <2>3. /\ DOMAIN Moved(v, y, n) = {v}
        /\ \A z \in Dirs : At(Moved(v, y, n), v, z) = At(counter, v, z) + IF z = y THEN n ELSE 0
    BY <2>2, MovedTyped
  <2> QED BY <2>1, <2>3
<1>4. At(counter, u, x) \in Nat
  BY Numbers DEF IInv
<1> HIDE DEF new
<1>5. At(counter', u, x) = IF u \in DOMAIN new THEN At(new, u, x) ELSE At(counter, u, x)
  BY <1>2, UpsertAt
<1> QED BY <1>1, <1>3, <1>4, <1>5

LEMMA NextGrowing ==
  ASSUME IInv, TypeOK', Growing, Undisturbed', [Next]_vars
  PROVE  Growing'
<1> USE DEF external, database, memory, history
<1>0. \A u \in Users, x \in Dirs : At(counter, u, x) \in Nat
  BY Numbers DEF IInv
<1>1. CASE \E m \in Moves : Traffic(m[1], m[2], m[3])
  <2>1. PICK m \in Moves : Traffic(m[1], m[2], m[3])
    BY <1>1
  <2>2. \A u \in Users, x \in Dirs : At(counter, u, x) <= At(counter', u, x)
    BY <2>1, TrafficCounts
  <2>3. UNCHANGED <<daily, dbDate, dbBase, lastAbs, sample, running, todayDate, todayBase>>
    BY <2>1 DEF Traffic
  <2>4. running' => todayDate' = dbDate /\ todayBase' = dbBase
    BY <2>3 DEF Growing
  <2> QED BY <2>2, <2>3, <2>4, QuietGrows
<1>2. CASE Midnight \/ OpenDayCloseFails \/ RecordFails \/ UNCHANGED vars
  <2>1. /\ UNCHANGED <<daily, dbDate, dbBase, lastAbs, running, todayDate, counter>>
        /\ sample' = sample \/ ~sample'.taken
    BY <1>2, NoSampleTyped DEF Midnight, OpenDayCloseFails, RecordFails, DropSample, vars
  <2>2. todayBase' = todayBase
    BY <1>2, NoFalseRestart DEF Midnight, OpenDayCloseFails, RecordFails, Updating, vars
  <2>3. \A u \in Users, x \in Dirs : At(counter, u, x) <= At(counter', u, x)
    BY <1>0, <2>1
  <2>4. running' => todayDate' = dbDate /\ todayBase' = dbBase
    BY <2>1, <2>2 DEF Growing
  <2> QED BY <2>1, <2>3, <2>4, QuietGrows
<1>3. CASE Start \/ Close \/ Crash
  <2>1. /\ UNCHANGED <<daily, counter>>
        /\ sample' = sample \/ ~sample'.taken
        /\ lastAbs' = lastAbs \/ DOMAIN lastAbs' = {}
        /\ running' => todayDate' = dbDate /\ todayBase' = dbBase
    BY <1>3, NoSampleTyped, NothingTyped
    DEF Start, Close, Crash, LoadToday, ForgetMemory, DropSample
  <2>2. UNCHANGED <<dbDate, dbBase>>
    BY <1>3 DEF Start, Close, Crash, SaveBase, Growing
  <2>3. \A u \in Users, x \in Dirs : At(counter, u, x) <= At(counter', u, x)
    BY <1>0, <2>1
  <2> QED BY <2>1, <2>2, <2>3, QuietGrows
<1>4. CASE Fetch
  BY <1>4, FetchGrows
<1>5. CASE OpenDay
  BY <1>5, OpenGrows
<1>6. CASE Record \/ RecordSaveFails
  <2>1. Account /\ \/ UNCHANGED <<dbDate, dbBase>>
                   \/ SaveBase(day, BaseFor(sample.users))
    BY <1>6 DEF Record, RecordSaveFails
  <2> QED BY <2>1, AccountGrows
<1> QED BY <1>1, <1>2, <1>3, <1>4, <1>5, <1>6, UndisturbedStep

LEMMA NextNeverLowered ==
  ASSUME IInv, Growing, Undisturbed', [Next]_vars
  PROVE  NeverLowered
<1> USE DEF external, database, memory, history
<1>1. \A d \in Days : \A u \in DOMAIN daily[d] : \A x \in Dirs :
        u \in Users /\ daily[d][u][x] \in Nat
  <2>1. \A d \in Days : DOMAIN daily[d] \subseteq Users
    BY DEF IInv, TypeOK, IsSnapshot, IsPartialMap
  <2> QED BY <2>1, Numbers DEF IInv
<1>2. CASE daily' = daily
  BY <1>1, <1>2 DEF NeverLowered
<1>3. CASE OpenDay
  <2>1. daily' = ClosedDaily /\ running
    BY <1>3 DEF OpenDay, Updating
  <2> QED BY <2>1, ClosingGrows DEF NeverLowered
<1>4. CASE Account
  <2>1. ASSUME NEW d \in Days, NEW u \in DOMAIN daily[d] \intersect DOMAIN daily'[d],
               NEW x \in Dirs
        PROVE  daily'[d][u][x] >= daily[d][u][x]
    <3>0. daily[d][u][x] \in Nat /\ u \in Users
      BY <1>1
    <3>1. CASE d # day
      BY <1>4, <3>0, <3>1, AccountRows
    <3>2. CASE d = day /\ u \in DOMAIN sample.users
      <4>1. daily'[d][u][x] = Counted(dbBase, sample.users, u, x)
        BY <1>4, <3>2, AccountRows
      <4>2. daily[d][u][x] <= Counted(dbBase, sample.users, u, x)
        <5>1. sample.taken /\ dbDate = d
          BY <1>4, <3>2, AccountRows
        <5>2. NextRows(u, x)
          BY <3>0 DEF Growing
        <5> QED BY <5>1, <5>2 DEF NextRows, RowsBehind
      <4>3. Counted(dbBase, sample.users, u, x) \in Nat
        BY CountedNat DEF IInv, TypeOK
      <4> QED BY <3>0, <4>1, <4>2, <4>3
    <3>3. CASE d = day /\ u \notin DOMAIN sample.users
      BY <1>4, <3>0, <3>3, AccountRows
    <3> QED BY <3>1, <3>2, <3>3
  <2> QED BY <2>1 DEF NeverLowered
<1> QED BY <1>2, <1>3, <1>4, UndisturbedStep
        DEF Traffic, Midnight, Start, OpenDayCloseFails, RecordFails, Close, Crash, Fetch,
            Record, RecordSaveFails, vars

LEMMA NextGrowthInv ==
  ASSUME IInv, GrowthInv, [Next]_vars
  PROVE  GrowthInv'
<1>1. TypeOK'
  BY NextTypeOK DEF IInv
<1> QED BY <1>1, NextGrowing, FaultsStay DEF GrowthInv, Undisturbed

\* For any number of users, transfers and days: as long as the counters have not returned to
\* zero and today's base could be saved and loaded, no step lowers a recorded total, however
\* often the monitor is killed and ticks fail.
THEOREM RecordedOnlyGrow == Spec => TotalsOnlyGrow
<1>1. Init => IInv /\ GrowthInv
  BY InitIInv, InitGrowing DEF GrowthInv
<1>2. IInv /\ GrowthInv /\ [Next]_vars => IInv' /\ GrowthInv'
  BY NextIInv, NextGrowthInv
<1>3. IInv /\ GrowthInv /\ [Next]_vars =>
        (faults' \intersect Disturbances = {} => NeverLowered)
  <2> SUFFICES ASSUME IInv, GrowthInv, [Next]_vars, Undisturbed'
               PROVE  NeverLowered
    BY DEF Undisturbed
  <2>1. Growing
    BY FaultsStay DEF GrowthInv, Undisturbed
  <2> QED BY <2>1, NextNeverLowered
<1> QED BY <1>1, <1>2, <1>3, PTL DEF Spec, TotalsOnlyGrow
-----------------------------------------------------------------------------
(* The accounting keeps a ledger *)

\* What was moved since the last sample was moved today, or belongs to today by the rule for
\* midnight.
SinceBehind == \A u \in Users, x \in Dirs : since[u][x] <= reach[day][u][x]

\* Whatever happens but traffic and midnight leaves the days as they are.
Inside == UNCHANGED <<day, reach>> /\ since' \in {since, NoBytes}

LEMMA StepKinds ==
  ASSUME [Next]_vars
  PROVE  (\E m \in Moves : Traffic(m[1], m[2], m[3])) \/ Midnight \/ Inside
BY DEF Next, Environment, Monitor, Update, vars, external, database, memory, history, Inside,
       XrayRestart, ResetStats, Start, StartLoadFails, Fetch, OpenDay, OpenDayCloseFails,
       OpenDaySaveFails, Account, Record, RecordSaveFails, RecordFails, Close, Crash, DropSample

LEMMA TrafficMoves ==
  ASSUME TypeOK, NEW v \in Users, NEW y \in Dirs, NEW n \in Nat, Traffic(v, y, n)
  PROVE  \A d \in Days, u \in Users, x \in Dirs :
            reach'[d][u][x] = IF d = day /\ u = v /\ x = y THEN reach[d][u][x] + n
                                                          ELSE reach[d][u][x]
BY DEF TypeOK, Traffic, Bytes

LEMMA SinceStep ==
  ASSUME TypeOK, SinceBehind, [Next]_vars
  PROVE  SinceBehind'
<1>0. \A u \in Users, x \in Dirs : since[u][x] \in Nat /\ reach[day][u][x] \in Nat
  BY Numbers DEF TypeOK
<1>1. ASSUME NEW m \in Moves, Traffic(m[1], m[2], m[3]) PROVE SinceBehind'
  <2>1. PICK v \in Users, y \in Dirs, n \in Nat : v = m[1] /\ y = m[2] /\ n = m[3]
    BY MovesAssumption
  <2>2. Traffic(v, y, n)
    BY <1>1, <2>1
  <2>3. day' = day /\ day \in Days
    BY <2>2 DEF Traffic, TypeOK
  <2>4. ASSUME NEW u \in Users, NEW x \in Dirs PROVE since'[u][x] <= reach'[day][u][x]
    <3>1. reach'[day][u][x] = IF u = v /\ x = y THEN reach[day][u][x] + n ELSE reach[day][u][x]
      BY <2>2, <2>3, TrafficMoves
    <3>2. since'[u][x] = since[u][x] \/ (u = v /\ x = y /\ since'[u][x] = since[u][x] + n)
      BY <2>2 DEF Traffic, TypeOK, Bytes
    <3>3. since[u][x] <= reach[day][u][x]
      BY DEF SinceBehind
    <3> QED BY <1>0, <3>1, <3>2, <3>3
  <2> QED BY <2>3, <2>4 DEF SinceBehind
<1>2. CASE Midnight
  <2>1. day' = day + 1 /\ day' \in Days /\ since' = since
    BY <1>2, LastDayAssumption DEF Midnight, TypeOK, Days
  <2>2. reach'[day'] = since
    BY <1>2, <2>1 DEF Midnight, TypeOK
  <2> QED BY <1>0, <2>1, <2>2 DEF SinceBehind
<1>3. CASE Inside
  <2>1. \A u \in Users, x \in Dirs : NoBytes[u][x] = 0
    BY DEF NoBytes, Zero
  <2>2. ASSUME NEW u \in Users, NEW x \in Dirs PROVE since'[u][x] <= reach[day][u][x]
    <3>1. since'[u][x] \in {since[u][x], 0}
      BY <1>3, <2>1 DEF Inside
    <3> QED BY <1>0, <3>1 DEF SinceBehind
  <2> QED BY <1>3, <2>2 DEF SinceBehind, Inside
<1> QED BY <1>1, <1>2, <1>3, StepKinds

LEMMA SinceInit == Init => SinceBehind
<1> SUFFICES ASSUME Init PROVE SinceBehind
  OBVIOUS
<1>1. day \in Days /\ reach[day] = NoBytes /\ since = NoBytes
  BY LastDayAssumption DEF Init, Days
<1>2. \A u \in Users, x \in Dirs : NoBytes[u][x] = 0
  BY DEF NoBytes, Zero
<1> QED BY <1>1, <1>2 DEF SinceBehind

\* No row disappears but by the retention.
RowsKept ==
    \A d \in Days : DOMAIN daily[d] \subseteq DOMAIN daily'[d] \/ d < day - KeepDays

LEMMA NextRowsKept ==
  ASSUME TypeOK, [Next]_vars
  PROVE  RowsKept
<1> USE DEF external, database, memory, history
<1>1. CASE daily' = daily
  BY <1>1 DEF RowsKept
<1>2. CASE daily' = ClosedDaily
  <2>1. ASSUME NEW d \in Days, ~(d < day - KeepDays)
        PROVE  DOMAIN daily[d] \subseteq DOMAIN ClosedDaily[d]
    <3>1. ClosedDaily[d] \in {daily[d], Upsert(daily[d], Deltas(todayBase, lastAbs))}
      BY <2>1 DEF ClosedDaily
    <3> QED BY <3>1 DEF Upsert
  <2> QED BY <1>2, <2>1 DEF RowsKept
<1>3. CASE Account
  <2>1. PICK w : daily' = [daily EXCEPT ![day] = Upsert(@, w)]
    BY <1>3 DEF Account
  <2>2. ASSUME NEW d \in Days PROVE DOMAIN daily[d] \subseteq DOMAIN daily'[d]
    <3>1. daily'[d] \in {daily[d], Upsert(daily[d], w)}
      BY <2>1 DEF TypeOK
    <3> QED BY <3>1 DEF Upsert
  <2> QED BY <2>2 DEF RowsKept
<1> QED BY <1>1, <1>2, <1>3
        DEF Next, Environment, Monitor, Update, Traffic, Midnight, XrayRestart, ResetStats, Start,
            StartLoadFails, OpenDay, OpenDayCloseFails, OpenDaySaveFails, RecordFails, Close, Crash,
            Fetch, Record, RecordSaveFails, vars

\* The tables of the ledger, from any numbers of bytes and from any rows.
ChargeableOf(r) == [d \in Days |-> [a \in Accounts |-> r[d][a[1]][a[2]]]]
RecordedOf(t) == [d \in Days |-> [a \in Accounts |-> At(t[d], a[1], a[2])]]

LEMMA AccountsFacts ==
  ASSUME NEW a \in Accounts
  PROVE  a[1] \in Users /\ a[2] \in Dirs /\ a = <<a[1], a[2]>>
BY DEF Accounts

LEMMA TablesTyped ==
  ASSUME NEW r \in [Days -> [Users -> Bytes]], NEW t, \A d \in Days : IsSnapshot(t[d])
  PROVE  ChargeableOf(r) \in Ledger!Table /\ RecordedOf(t) \in Ledger!Table
<1>1. ASSUME NEW d \in Days, NEW a \in Accounts
      PROVE  r[d][a[1]][a[2]] \in Nat /\ At(t[d], a[1], a[2]) \in Nat
  BY AccountsFacts, AtNat DEF Bytes
<1> QED BY <1>1 DEF ChargeableOf, RecordedOf, Ledger!Table, Ledger!Days, Days

LEMMA Tables ==
  /\ Chargeable = ChargeableOf(reach) /\ Recorded = RecordedOf(daily)
  /\ Chargeable' = ChargeableOf(reach') /\ Recorded' = RecordedOf(daily')
BY DEF Chargeable, Recorded, ChargeableOf, RecordedOf

LEMMA LedgerInit == Init => Ledger!Init
<1> SUFFICES ASSUME Init PROVE Ledger!Init
  OBVIOUS
<1>1. Ledger!Days = Days
  BY DEF Ledger!Days, Days
<1>2. ASSUME NEW d \in Days, NEW a \in Accounts
      PROVE  reach[d][a[1]][a[2]] = 0 /\ At(daily[d], a[1], a[2]) = 0
  BY AccountsFacts, NothingTyped DEF Init, At, NoBytes, Zero
<1>3. Chargeable = [d \in Days |-> [a \in Accounts |-> 0]]
  BY <1>2 DEF Chargeable
<1>4. Recorded = [d \in Days |-> [a \in Accounts |-> 0]]
  BY <1>2 DEF Recorded
<1> QED BY <1>1, <1>3, <1>4 DEF Init, Ledger!Init

LEMMA LedgerMove ==
  ASSUME TypeOK, TypeOK', NEW v \in Users, NEW y \in Dirs, NEW n \in Nat, Traffic(v, y, n)
  PROVE  \E a \in Accounts : Ledger!Move(a)
<1> DEFINE a == <<v, y>>
           new == Chargeable'[day][a]
<1>1. a \in Accounts /\ day \in Days /\ a[1] = v /\ a[2] = y
  BY DEF Accounts, TypeOK
<1>2. UNCHANGED <<day, daily, faults>>
  BY DEF Traffic, database
<1>3. Chargeable \in [Days -> [Accounts -> Nat]] /\ Chargeable' \in [Days -> [Accounts -> Nat]]
  BY TablesTyped, Tables DEF TypeOK, Ledger!Table, Ledger!Days, Days
<1>4. \A d \in Days, b \in Accounts :
        Chargeable'[d][b] = IF d = day /\ b = a THEN Chargeable[d][b] + n ELSE Chargeable[d][b]
  <2>1. ASSUME NEW d \in Days, NEW b \in Accounts
        PROVE  reach'[d][b[1]][b[2]] = IF d = day /\ b = a THEN reach[d][b[1]][b[2]] + n
                                                            ELSE reach[d][b[1]][b[2]]
    <3>1. b[1] \in Users /\ b[2] \in Dirs /\ (b = a <=> b[1] = v /\ b[2] = y)
      BY AccountsFacts
    <3> QED BY <3>1, TrafficMoves
  <2> QED BY <2>1 DEF Chargeable
<1> HIDE DEF a
<1>5. new \in Nat /\ Chargeable[day][a] \in Nat /\ new = Chargeable[day][a] + n
  BY <1>1, <1>3, <1>4
<1>6. Chargeable' = [Chargeable EXCEPT ![day][a] = new]
  <2> DEFINE other == [Chargeable EXCEPT ![day][a] = new]
  <2>1. other \in [Days -> [Accounts -> Nat]]
    BY <1>1, <1>3, <1>5
  <2>2. \A d \in Days, b \in Accounts :
          other[d][b] = IF d = day /\ b = a THEN new ELSE Chargeable[d][b]
    BY <1>1, <1>3
  <2> HIDE DEF other, new
  <2>3. \A d \in Days, b \in Accounts : Chargeable'[d][b] = other[d][b]
    BY <1>4, <1>5, <2>2
  <2>4. ASSUME NEW d \in Days PROVE Chargeable'[d] = other[d]
    <3>1. Chargeable'[d] \in [Accounts -> Nat] /\ other[d] \in [Accounts -> Nat]
      BY <1>3, <2>1
    <3> QED BY <2>3, <3>1
  <2>5. Chargeable' = other
    BY <1>3, <2>1, <2>4
  <2> QED BY <2>5 DEF other
<1>7. new >= Chargeable[day][a]
  <2> HIDE DEF new
  <2> QED BY <1>5
<1>8. Recorded' = Recorded
  BY <1>2 DEF Recorded
<1> QED BY <1>1, <1>2, <1>5, <1>6, <1>7, <1>8 DEF Ledger!Move

LEMMA LedgerNextDay ==
  ASSUME TypeOK, TypeOK', SinceBehind, Midnight
  PROVE  Ledger!NextDay
<1>1. /\ day < LastDay /\ day' = day + 1 /\ day \in Days /\ day' \in Days
      /\ UNCHANGED <<daily, faults>>
  BY DEF Midnight, TypeOK, database
<1>2. reach' = [reach EXCEPT ![day'] = since] /\ DOMAIN reach = Days
  BY <1>1 DEF Midnight, TypeOK
<1>3. Chargeable \in [Days -> [Accounts -> Nat]] /\ Chargeable' \in [Days -> [Accounts -> Nat]]
  BY TablesTyped, Tables DEF TypeOK, Ledger!Table, Ledger!Days, Days
<1>4. ASSUME NEW d \in Days, d # day' PROVE Chargeable'[d] = Chargeable[d]
  <2>1. reach'[d] = reach[d]
    BY <1>2, <1>4
  <2> QED BY <2>1 DEF Chargeable
<1>5. ASSUME NEW a \in Accounts PROVE Chargeable'[day'][a] <= Chargeable[day][a]
  <2>1. reach'[day'] = since
    BY <1>1, <1>2
  <2>2. since[a[1]][a[2]] <= reach[day][a[1]][a[2]]
    BY AccountsFacts DEF SinceBehind
  <2>3. Chargeable'[day'][a] = reach'[day'][a[1]][a[2]] /\ Chargeable[day][a] = reach[day][a[1]][a[2]]
    BY <1>1 DEF Chargeable
  <2> QED BY <2>1, <2>2, <2>3
<1>6. Chargeable' = [Chargeable EXCEPT ![day'] = Chargeable'[day']]
  <2>1. Chargeable' \in [Days -> [Accounts -> Nat]] /\ Chargeable \in [Days -> [Accounts -> Nat]]
    BY <1>3
  <2> QED BY <1>1, <1>4, <2>1
<1>7. Chargeable'[day'] \in [Accounts -> Nat]
  BY <1>1, <1>3
<1>8. Recorded' = Recorded
  BY <1>1 DEF Recorded
<1> QED BY <1>1, <1>5, <1>6, <1>7, <1>8 DEF Ledger!NextDay

LEMMA LedgerWrite ==
  ASSUME IInv, IInv', GrowthInv, Inside, [Next]_vars
  PROVE  Ledger!Write
<1>1. UNCHANGED <<day, reach>> /\ faults \subseteq faults' /\ TypeOK /\ TypeOK'
  BY FaultsStay DEF Inside, IInv
<1>2. Chargeable' = Chargeable /\ Recorded' \in Ledger!Table
  BY <1>1, TablesTyped, Tables DEF TypeOK
<1>3. Ledger!Days = Days
  BY DEF Ledger!Days, Days
<1>4. ASSUME "torn" \notin faults' PROVE Ledger!Bounded(Recorded')
  <2>1. ASSUME NEW d \in Days, NEW a \in Accounts PROVE Recorded'[d][a] <= Chargeable[d][a]
    <3>1. a[1] \in Users /\ a[2] \in Dirs
      BY AccountsFacts
    <3>2. a[1] \in DOMAIN daily'[d] => daily'[d][a[1]][a[2]] <= reach'[d][a[1]][a[2]]
      BY <1>4, <3>1 DEF IInv, ChargedOnce, RowsOK
    <3>3. reach'[d][a[1]][a[2]] \in Nat
      BY <1>1, <3>1 DEF TypeOK, Bytes
    <3>4. Recorded'[d][a] = At(daily'[d], a[1], a[2]) /\ Chargeable[d][a] = reach[d][a[1]][a[2]]
      BY DEF Recorded, Chargeable
    <3> QED BY <1>1, <3>2, <3>3, <3>4 DEF At
  <2> QED BY <1>3, <2>1 DEF Ledger!Bounded
<1>5. ASSUME Undisturbed' PROVE Ledger!Continues(Recorded')
  <2>1. Growing
    BY <1>1, <1>5 DEF GrowthInv, Undisturbed
  <2>2. NeverLowered /\ RowsKept
    BY <1>1, <1>5, <2>1, NextNeverLowered, NextRowsKept
  <2>3. ASSUME NEW d \in Days, NEW a \in Accounts
        PROVE  Recorded'[d][a] >= Recorded[d][a] \/ (d < day - KeepDays /\ Recorded'[d][a] = 0)
    <3> DEFINE u == a[1]  x == a[2]
    <3>1. u \in Users /\ x \in Dirs
      BY AccountsFacts
    <3>2. Recorded'[d][a] = At(daily'[d], u, x) /\ Recorded[d][a] = At(daily[d], u, x)
      BY DEF Recorded
    <3>3. At(daily'[d], u, x) \in Nat /\ At(daily[d], u, x) \in Nat
      BY <1>1, <3>1, AtNat DEF TypeOK
    <3> HIDE DEF u, x
    <3>4. CASE u \notin DOMAIN daily[d]
      BY <3>2, <3>3, <3>4 DEF At
    <3>5. CASE u \in DOMAIN daily[d] /\ u \in DOMAIN daily'[d]
      <4>1. daily'[d][u][x] >= daily[d][u][x]
        BY <2>2, <3>1, <3>5 DEF NeverLowered
      <4> QED BY <3>2, <3>5, <4>1 DEF At
    <3>6. CASE u \in DOMAIN daily[d] /\ u \notin DOMAIN daily'[d]
      BY <2>2, <3>2, <3>6 DEF RowsKept, At
    <3> QED BY <3>4, <3>5, <3>6
  <2> QED BY <1>3, <2>3 DEF Ledger!Continues, Ledger!Expired
<1>6. ("torn" \in faults)' \in {"torn" \in faults, TRUE}
  <2>1. CASE "torn" \in faults'
    <3>1. ("torn" \in faults)' = TRUE
      BY <2>1
    <3> QED BY <3>1
  <2>2. CASE "torn" \notin faults'
    <3>1. ("torn" \in faults)' = FALSE /\ ("torn" \in faults) = FALSE
      BY <1>1, <2>2
    <3> QED BY <3>1
  <2> QED BY <2>1, <2>2
<1>7. (faults \intersect Disturbances # {})' \in {faults \intersect Disturbances # {}, TRUE}
  BY <1>1 DEF Disturbances
<1> QED BY <1>1, <1>2, <1>4, <1>5, <1>6, <1>7 DEF Ledger!Write, Undisturbed

LEMMA LedgerStep ==
  IInv /\ GrowthInv /\ SinceBehind /\ IInv' /\ [Next]_vars => [Ledger!Next]_(Ledger!ledgerVars)
<1> SUFFICES ASSUME IInv, GrowthInv, SinceBehind, IInv', [Next]_vars PROVE Ledger!Next
  OBVIOUS
<1>1. TypeOK /\ TypeOK'
  BY DEF IInv
<1>2. ASSUME NEW m \in Moves, Traffic(m[1], m[2], m[3]) PROVE \E a \in Accounts : Ledger!Move(a)
  <2>1. m[1] \in Users /\ m[2] \in Dirs /\ m[3] \in Nat
    BY MovesAssumption
  <2> QED BY <1>1, <1>2, <2>1, LedgerMove
<1>3. CASE Midnight
  BY <1>1, <1>3, LedgerNextDay DEF Ledger!Next
<1>4. CASE Inside
  BY <1>4, LedgerWrite DEF Ledger!Next
<1> QED BY <1>2, <1>3, <1>4, StepKinds DEF Ledger!Next

\* For any users, transfers, days and retention: the Python accounting implements DailyLedger.
\* No total exceeds what may be charged, none is lowered and none is lost before its time,
\* until one of the faults the ledger names.
THEOREM KeepsLedger == Spec => ImplementsLedger
<1>1. Init => IInv /\ GrowthInv /\ SinceBehind
  BY InitIInv, InitGrowing, SinceInit DEF GrowthInv
<1>2. IInv /\ GrowthInv /\ SinceBehind /\ [Next]_vars => IInv' /\ GrowthInv' /\ SinceBehind'
  BY NextIInv, NextGrowthInv, SinceStep DEF IInv
<1> QED BY <1>1, <1>2, LedgerInit, LedgerStep, PTL DEF Spec, ImplementsLedger, Ledger!Spec
=============================================================================
