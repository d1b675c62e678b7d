-------------------------- MODULE IPRegistryProofs --------------------------
(***************************************************************************)
(* Proofs about IPRegistry, for any addresses, any starts and any number   *)
(* of lines, bytes, deletions and exceptional events.                      *)
(***************************************************************************)
EXTENDS IPRegistry, TLAPS

\* A thread that is not in flush_to_db, or has written a part of its snapshot, holds nothing
\* of that part; nothing is flushed in a program that is off, and the UI thread flushes only
\* when quitting.
Shaped(p) ==
    /\ flush[p].pc # "sni" => flush[p].sni = NoHits
    /\ flush[p].pc \notin {"sni", "bytes"} => flush[p].bytes = Empty
    /\ ui = "off" => flush[p].pc = "idle"
    /\ flush[p].pc # "idle" => IF p = "ui" THEN ui = "flush" ELSE worker = "flush"

\* Where the readers and the threads are, beside the types: no reader is ahead of the log, and
\* the UI thread names an address exactly while it deletes one.
Shape ==
    /\ \A ip \in IPs : tailRead[ip] <= lines[ip] /\ collector.read[ip] <= lines[ip]
    /\ ui = "deleting" => deleting \in IPs
    /\ ui # "deleting" => deleting = Nobody
    /\ \A p \in Flushers : Shaped(p)
    /\ ui \in {"flush", "close", "closed"} => "quit" \in events
    /\ ui = "off" => loader = "off" /\ worker = "idle"

IInv == TypeOK /\ Shape /\ SniConserved /\ BytesNotInvented

\* None of what may lower a total in the table has happened yet.
Undisturbed == events \intersect {"load", "evict", "early", "quit"} = {}

\* What is about to be stored is at least what the table has: loaded while the load goes on,
\* and after it the records and the snapshots that the worker has taken of them.
Covered ==
    Undisturbed =>
        /\ \A p \in Flushers : flush[p].pc # "idle" => loader = "done"
        /\ \A ip \in IPs \ (DOMAIN erased \union {deleting}) :
            /\ loader \in {"sni", "rows", "merge"} => Get(ipTraffic, ip) <= Get(loaded, ip)
            /\ loader = "done" => Get(ipTraffic, ip) <= Get(records, ip)
            /\ \A p \in Flushers :
                ip \in DOMAIN flush[p].bytes =>
                    /\ Get(ipTraffic, ip) <= flush[p].bytes[ip]
                    /\ flush[p].bytes[ip] <= Get(records, ip)
-----------------------------------------------------------------------------
(* The helper operators *)

LEMMA MaxPair ==
  ASSUME NEW a \in Nat, NEW b \in Nat
  PROVE  Max({a, b}) = IF a >= b THEN a ELSE b
<1>1. \E m \in {a, b} : \A y \in {a, b} : m >= y
  OBVIOUS
<1>2. Max({a, b}) \in {a, b} /\ \A y \in {a, b} : Max({a, b}) >= y
  BY <1>1 DEF Max
<1> QED BY <1>2

LEMMA NoHitsCounts == NoHits \in Counts /\ \A ip \in IPs : NoHits[ip] = 0
  BY DEF NoHits, Counts

LEMMA PlusFacts ==
  ASSUME NEW f \in Counts, NEW g \in Counts
  PROVE  Plus(f, g) \in Counts /\ \A ip \in IPs : Plus(f, g)[ip] = f[ip] + g[ip]
  BY DEF Plus, Counts

LEMMA NewLinesFacts ==
  ASSUME NEW read \in Counts, lines \in Counts, \A ip \in IPs : read[ip] <= lines[ip]
  PROVE  NewLines(read) \in Counts
  BY DEF NewLines, Minus, Counts

LEMMA KeptFacts ==
  ASSUME NEW hits \in Counts, NEW left \in Kept(hits)
  PROVE  /\ left \in Counts /\ Minus(hits, left) \in Counts
         /\ \A ip \in IPs : left[ip] + Minus(hits, left)[ip] = hits[ip]
<1>1. left \in [IPs -> 0 .. Total(hits)] /\ \A ip \in IPs : left[ip] <= hits[ip]
  BY DEF Kept
<1> HIDE DEF Total
<1>2. left \in Counts
  BY <1>1 DEF Counts
<1> QED BY <1>1, <1>2 DEF Counts, Minus

\* What a save makes of the table and of what the retention has removed.
LEMMA SaveHitsFacts ==
  ASSUME ipSni \in Counts, expired \in Counts, NEW hits \in Counts, SaveHits(hits)
  PROVE  /\ ipSni' \in Counts /\ expired' \in Counts
         /\ \A ip \in IPs : ipSni'[ip] + expired'[ip] = ipSni[ip] + expired[ip] + hits[ip]
<1>1. CASE hits = NoHits
  BY <1>1, NoHitsCounts DEF SaveHits, Counts
<1>2. CASE hits # NoHits
  <2> DEFINE all == Plus(ipSni, hits)
             old == Minus(all, ipSni')
  <2>1. all \in Counts /\ \A ip \in IPs : all[ip] = ipSni[ip] + hits[ip]
    BY PlusFacts
  <2>2. ipSni' \in Kept(all) /\ expired' = Plus(expired, old)
    BY <1>2 DEF SaveHits
  <2> HIDE DEF all
  <2>3. ipSni' \in Counts /\ old \in Counts
        /\ \A ip \in IPs : ipSni'[ip] + old[ip] = all[ip]
    BY <2>1, <2>2, KeptFacts
  <2> HIDE DEF old
  <2>4. expired' \in Counts /\ \A ip \in IPs : expired'[ip] = expired[ip] + old[ip]
    BY <2>2, <2>3, PlusFacts
  <2> QED BY <2>1, <2>3, <2>4 DEF Counts
<1> QED BY <1>1, <1>2

LEMMA EmptyFacts == IsTable(Empty) /\ DOMAIN Empty = {} /\ \A ip : Get(Empty, ip) = 0
  BY DEF Empty, IsTable, Get

LEMMA GetNat == ASSUME NEW m, IsTable(m), NEW ip PROVE Get(m, ip) \in Nat
  BY DEF IsTable, Get

\* What each way to combine tables makes of an address.
LEMMA WithoutFacts ==
  ASSUME NEW m, NEW S, IsTable(m)
  PROVE  IsTable(Without(m, S)) /\ DOMAIN Without(m, S) = DOMAIN m \ S
  BY DEF Without, IsTable

LEMMA GetWithout ==
  ASSUME NEW m, NEW S, NEW ip
  PROVE  Get(Without(m, S), ip) = IF ip \in S THEN 0 ELSE Get(m, ip)
  BY DEF Without, Get

LEMMA WithRowsFacts ==
  ASSUME NEW m, NEW S \in SUBSET IPs, IsTable(m)
  PROVE  /\ IsTable(WithRows(m, S)) /\ DOMAIN WithRows(m, S) = DOMAIN m \union S
         /\ \A ip : Get(WithRows(m, S), ip) = Get(m, ip)
  BY DEF WithRows, IsTable, Get

LEMMA OverwrittenFacts ==
  ASSUME NEW m, NEW n, IsTable(m), IsTable(n)
  PROVE  IsTable(Overwritten(m, n)) /\ DOMAIN Overwritten(m, n) = DOMAIN m \union DOMAIN n
  BY DEF Overwritten, IsTable

LEMMA GetOverwritten ==
  ASSUME NEW m, NEW n, NEW ip
  PROVE  Get(Overwritten(m, n), ip) = IF ip \in DOMAIN n THEN Get(n, ip) ELSE Get(m, ip)
  BY DEF Overwritten, Get

LEMMA SummedFacts ==
  ASSUME NEW m, NEW n, IsTable(m), IsTable(n)
  PROVE  /\ IsTable(Summed(m, n)) /\ DOMAIN Summed(m, n) = DOMAIN m \union DOMAIN n
         /\ \A ip : Get(Summed(m, n), ip) = Get(m, ip) + Get(n, ip)
<1>1. DOMAIN Summed(m, n) = DOMAIN m \union DOMAIN n
  BY DEF Summed
<1>2. \A ip \in DOMAIN Summed(m, n) : Summed(m, n)[ip] = Get(m, ip) + Get(n, ip)
  BY DEF Summed
<1>3. \A ip : Get(m, ip) \in Nat /\ Get(n, ip) \in Nat
  BY GetNat
<1>4. \A ip : Get(Summed(m, n), ip) = Get(m, ip) + Get(n, ip)
  BY <1>1, <1>2 DEF Get
<1>5. IsTable(Summed(m, n))
  BY <1>1, <1>2, <1>3 DEF Summed, IsTable
<1> QED BY <1>1, <1>4, <1>5

LEMMA MergedFacts ==
  ASSUME NEW m, NEW n, IsTable(m), IsTable(n)
  PROVE  /\ IsTable(Merged(m, n)) /\ DOMAIN Merged(m, n) = DOMAIN m \union DOMAIN n
         /\ \A ip : Get(Merged(m, n), ip) =
                        IF Get(m, ip) >= Get(n, ip) THEN Get(m, ip) ELSE Get(n, ip)
<1>1. DOMAIN Merged(m, n) = DOMAIN m \union DOMAIN n
  BY DEF Merged
<1>2. \A ip : Get(m, ip) \in Nat /\ Get(n, ip) \in Nat
  BY GetNat
<1>3. \A ip \in DOMAIN Merged(m, n) :
        Merged(m, n)[ip] = IF Get(m, ip) >= Get(n, ip) THEN Get(m, ip) ELSE Get(n, ip)
  BY <1>2, MaxPair DEF Merged
<1>4. IsTable(Merged(m, n))
  BY <1>1, <1>2, <1>3 DEF Merged, IsTable
<1>5. \A ip : ip \notin DOMAIN Merged(m, n) => Get(m, ip) = 0 /\ Get(n, ip) = 0
  BY <1>1 DEF Get
<1>6. \A ip : Get(Merged(m, n), ip) =
                IF Get(m, ip) >= Get(n, ip) THEN Get(m, ip) ELSE Get(n, ip)
  BY <1>3, <1>5 DEF Get
<1> QED BY <1>1, <1>4, <1>6

LEMMA PositiveFacts ==
  ASSUME NEW m, IsTable(m)
  PROVE  /\ IsTable(Positive(m)) /\ DOMAIN Positive(m) \subseteq DOMAIN m
         /\ \A ip \in DOMAIN Positive(m) : Get(Positive(m), ip) = m[ip]
  BY DEF Positive, IsTable, Get
-----------------------------------------------------------------------------
(* Type correctness *)

LEMMA IdleFacts ==
  /\ Idle \in [pc : {"idle", "sni", "bytes", "conn"}, sni : Counts, bytes : {Empty},
               conn : SUBSET IPs]
  /\ Idle.pc = "idle" /\ Idle.sni = NoHits /\ Idle.bytes = Empty
  BY NoHitsCounts DEF Idle

LEMMA InitTypeOK == Init => TypeOK
<1> SUFFICES ASSUME Init PROVE TypeOK
  OBVIOUS
<1>1. IsTable(ipTraffic)
  BY StoredAssumption DEF Init, IsTable
<1>2. moved \in Counts
  BY <1>1, GetNat DEF Init, Counts
<1>3. /\ DOMAIN flush = Flushers
      /\ \A p \in Flushers : /\ flush[p] \in [pc : {"idle", "sni", "bytes", "conn"}, sni : Counts,
                                              bytes : {flush[p].bytes}, conn : SUBSET IPs]
                             /\ IsTable(flush[p].bytes)
  BY IdleFacts, EmptyFacts DEF Init
<1>4. collector \in [pc : {"scan", "conn"}, read : Counts, sni : Counts]
  BY NoHitsCounts DEF Init, CollectorStarted
<1>5. Nobody \in IPs \union {Nobody} /\ 0 \in 0 .. MaxStarts
  BY MaxStartsAssumption
<1> QED BY <1>1, <1>2, <1>3, <1>4, <1>5, NoHitsCounts, EmptyFacts DEF Init, TypeOK

LEMMA EventTyped == ASSUME events \subseteq Events, NEW k \in Events, Event(k)
                    PROVE  events' = events \union {k} /\ events' \subseteq Events
  BY DEF Event

\* A thread that is in flush_to_db, or is not.
Locals(f) ==
    /\ f \in [pc : {"idle", "sni", "bytes", "conn"}, sni : Counts, bytes : {f.bytes},
              conn : SUBSET IPs]
    /\ IsTable(f.bytes)

LEMMA IdleLocals == Locals(Idle)
  BY IdleFacts, EmptyFacts DEF Locals

LEMMA LocalsTyped == TypeOK => DOMAIN flush = Flushers /\ \A p \in Flushers : Locals(flush[p])
  BY DEF TypeOK, Locals

\* What the steps of flush_to_db do to the local variables.
LEMMA TakeSnapshotLocals ==
  ASSUME TypeOK, NEW p \in Flushers, NEW gone, TakeSnapshot(p, gone)
  PROVE  /\ DOMAIN flush' = Flushers
         /\ \A q \in Flushers \ {p} : flush'[q] = flush[q]
         /\ Locals(flush'[p]) /\ flush'[p].pc = "sni" /\ flush'[p].sni = sniFlush
         /\ DOMAIN flush'[p].bytes = (dirtyIps \intersect DOMAIN records) \ gone
         /\ \A ip \in DOMAIN flush'[p].bytes : flush'[p].bytes[ip] = records[ip]
<1> DEFINE b == [ip \in (dirtyIps \intersect DOMAIN records) \ gone |-> records[ip]]
           s == [pc |-> "sni", sni |-> sniFlush, bytes |-> b,
                 conn |-> IF connDirty THEN clientIps ELSE {}]
<1>1. flush' = [flush EXCEPT ![p] = s]
  BY DEF TakeSnapshot
<1>2. IsTable(b) /\ DOMAIN b = (dirtyIps \intersect DOMAIN records) \ gone
      /\ \A ip \in DOMAIN b : b[ip] = records[ip]
  BY DEF TypeOK, IsTable
<1>3. s \in [pc : {"idle", "sni", "bytes", "conn"}, sni : Counts, bytes : {s.bytes},
             conn : SUBSET IPs] /\ s.bytes = b /\ s.pc = "sni" /\ s.sni = sniFlush
  BY DEF TypeOK
<1> HIDE DEF s, b
<1> QED BY <1>1, <1>2, <1>3 DEF TypeOK, Locals

LEMMA SaveSniLocals ==
  ASSUME TypeOK, NEW p \in Flushers, SaveSni(p)
  PROVE  /\ DOMAIN flush' = Flushers
         /\ \A q \in Flushers \ {p} : flush'[q] = flush[q]
         /\ Locals(flush'[p]) /\ flush'[p].pc = "bytes" /\ flush'[p].sni = NoHits
         /\ flush'[p].bytes = flush[p].bytes
<1>1. DOMAIN flush = Flushers /\ Locals(flush[p])
  BY LocalsTyped
<1> DEFINE f == [flush[p] EXCEPT !.pc = "bytes", !.sni = NoHits]
<1>2. flush' = [flush EXCEPT ![p] = f]
  BY <1>1 DEF SaveSni
<1>3. Locals(f) /\ f.pc = "bytes" /\ f.sni = NoHits /\ f.bytes = flush[p].bytes
  BY <1>1, NoHitsCounts DEF Locals
<1> HIDE DEF f
<1> QED BY <1>1, <1>2, <1>3

LEMMA SaveBytesLocals ==
  ASSUME TypeOK, NEW p \in Flushers, SaveBytes(p)
  PROVE  /\ DOMAIN flush' = Flushers
         /\ \A q \in Flushers \ {p} : flush'[q] = flush[q]
         /\ Locals(flush'[p]) /\ flush'[p].pc = "conn" /\ flush'[p].sni = flush[p].sni
         /\ flush'[p].bytes = Empty
<1>1. DOMAIN flush = Flushers /\ Locals(flush[p])
  BY LocalsTyped
<1> DEFINE f == [flush[p] EXCEPT !.pc = "conn", !.bytes = Empty]
<1>2. flush' = [flush EXCEPT ![p] = f]
  BY <1>1 DEF SaveBytes
<1>3. Locals(f) /\ f.pc = "conn" /\ f.sni = flush[p].sni /\ f.bytes = Empty
  BY <1>1, EmptyFacts DEF Locals
<1> HIDE DEF f
<1> QED BY <1>1, <1>2, <1>3

LEMMA FlushEndsLocals ==
  ASSUME TypeOK, NEW p \in Flushers, FlushEnds(p)
  PROVE  /\ DOMAIN flush' = Flushers
         /\ \A q \in Flushers \ {p} : flush'[q] = flush[q]
         /\ flush'[p] = Idle
         /\ worker' \in {"idle", worker} /\ ui' \in {"close", ui}
  BY LocalsTyped DEF FlushEnds

\* Locals that keep their type, wherever else they have changed.
LEMMA TypedLocals ==
  ASSUME DOMAIN flush' = Flushers, \A q \in Flushers : Locals(flush'[q])
  PROVE  /\ DOMAIN flush' = Flushers
         /\ \A q \in Flushers :
              /\ flush'[q] \in [pc : {"idle", "sni", "bytes", "conn"}, sni : Counts,
                                bytes : {flush'[q].bytes}, conn : SUBSET IPs]
              /\ IsTable(flush'[q].bytes)
  BY DEF Locals

LEMMA EvictedRecords == ASSUME TypeOK, NEW gone \in Evicted PROVE gone \in SUBSET IPs
<1> DEFINE offline == DOMAIN records \ online
           rest(stale) == Cardinality(DOMAIN records \ stale)
           k(stale) == Min({rest(stale) - MaxRecords + Spare, Cardinality(offline \ stale)})
           andOldest(stale) == IF rest(stale) > MaxRecords
                               THEN {stale \union old : old \in kSubset(k(stale), offline \ stale)}
                               ELSE {stale}
<1>1. Evicted = IF Cardinality(DOMAIN records) > MaxRecords
                THEN UNION {andOldest(stale) : stale \in SUBSET offline} ELSE {{}}
  BY DEF Evicted
<1>2. offline \subseteq IPs
  BY DEF TypeOK, IsTable
<1>3. ASSUME NEW stale \in SUBSET offline, NEW g \in andOldest(stale) PROVE g \subseteq offline
  BY <1>3 DEF kSubset
<1> HIDE DEF andOldest, offline
<1> QED BY <1>1, <1>2, <1>3

LEMMA NextTypeOK == TypeOK /\ Shape /\ [Next]_vars => TypeOK'
<1> SUFFICES ASSUME TypeOK, Shape, [Next]_vars PROVE TypeOK'
  OBVIOUS
<1> USE DEF log, tail, registry, database, tick, interface, loading, history
<1>1. ASSUME NEW ip \in IPs, Line(ip) PROVE TypeOK'
  BY <1>1 DEF Line, TypeOK, Counts
<1>2. ASSUME NEW ip \in IPs, Expire(ip) PROVE TypeOK'
  BY <1>2 DEF Expire, TypeOK
<1>3. CASE Scan
  <2>1. NewLines(tailRead) \in Counts
    BY NewLinesFacts DEF TypeOK, Shape
  <2>2. Plus(tailSni, NewLines(tailRead)) \in Counts /\ Plus(fed, NewLines(tailRead)) \in Counts
    BY <2>1, PlusFacts DEF TypeOK
  <2> QED BY <1>3, <2>2 DEF Scan, TypeOK
<1>4. ASSUME NEW ip \in IPs, UpdateTraffic(ip) PROVE TypeOK'
  <2>1. IsTable([i \in {ip} |-> 1])
    BY DEF IsTable
  <2>2. IsTable(Summed(records, [i \in {ip} |-> 1]))
    BY <2>1, SummedFacts DEF TypeOK
  <2>3. [moved EXCEPT ![ip] = @ + 1] \in Counts
    BY DEF TypeOK, Counts
  <2> QED BY <1>4, <2>2, <2>3 DEF UpdateTraffic, TypeOK
<1>5. ASSUME NEW S \in SUBSET IPs, UpdateOnline(S) PROVE TypeOK'
  BY <1>5 DEF UpdateOnline, TypeOK
<1>6. CASE FetchFails
  BY <1>6 DEF FetchFails, TypeOK
<1>7. CASE UpdateConnections
  <2>1. IsTable(WithRows(records, logSnap))
    BY WithRowsFacts DEF TypeOK
  <2> QED BY <1>7, <2>1 DEF UpdateConnections, TypeOK
<1>8. CASE UpdateSni
  <2>1. IsTable(WithRows(records, {ip \in IPs : tailSni[ip] > 0}))
    BY WithRowsFacts DEF TypeOK
  <2>2. Plus(sniFlush, tailSni) \in Counts /\ NoHits \in Counts
    BY PlusFacts, NoHitsCounts DEF TypeOK
  <2> QED BY <1>8, <2>1, <2>2 DEF UpdateSni, TypeOK
<1>9. ASSUME NEW p \in Flushers, NEW gone \in SUBSET IPs, Snapshot(p, gone) PROVE TypeOK'
  <2>1. IsTable(Without(records, gone))
    BY WithoutFacts DEF TypeOK
  <2>2. sniFlush' \in Counts
    BY <1>9, NoHitsCounts DEF Snapshot, TakeSnapshot
  <2>3. events' \subseteq Events
    BY <1>9 DEF Snapshot, TypeOK, Events
  <2>4. DOMAIN flush' = Flushers /\ \A q \in Flushers : Locals(flush'[q])
    BY <1>9, TakeSnapshotLocals, LocalsTyped DEF Snapshot
  <2>5. IsTable(records') /\ dirtyIps' \subseteq IPs /\ connDirty' \in BOOLEAN
        /\ UNCHANGED <<log, tail, online, clientIps, database, tick, interface, loading, collector,
                       fed, expired, moved, erased, starts>>
    BY <1>9, <2>1 DEF Snapshot
  <2>6. \A q \in Flushers :
          /\ flush'[q] \in [pc : {"idle", "sni", "bytes", "conn"}, sni : Counts,
                            bytes : {flush'[q].bytes}, conn : SUBSET IPs]
          /\ IsTable(flush'[q].bytes)
    BY <2>4, TypedLocals
  <2>7. DOMAIN flush' = Flushers
    BY <2>4
  <2> QED BY <2>2, <2>3, <2>5, <2>6, <2>7 DEF TypeOK
<1>10. ASSUME NEW p \in Flushers, SaveSni(p) PROVE TypeOK'
  <2>1. DOMAIN flush' = Flushers /\ \A q \in Flushers : Locals(flush'[q])
    BY <1>10, SaveSniLocals, LocalsTyped
  <2>2. ipSni' \in Counts /\ expired' \in Counts
    BY <1>10, SaveHitsFacts DEF SaveSni, TypeOK
  <2> QED BY <1>10, <2>1, <2>2, TypedLocals DEF SaveSni, TypeOK
<1>11. ASSUME NEW p \in Flushers, SaveBytes(p) PROVE TypeOK'
  <2>1. DOMAIN flush' = Flushers /\ \A q \in Flushers : Locals(flush'[q])
    BY <1>11, SaveBytesLocals, LocalsTyped
  <2>2. IsTable(Overwritten(ipTraffic, Positive(flush[p].bytes)))
    <3>1. IsTable(flush[p].bytes) /\ IsTable(ipTraffic)
      BY DEF TypeOK
    <3> QED BY <3>1, PositiveFacts, OverwrittenFacts
  <2> QED BY <1>11, <2>1, <2>2, TypedLocals DEF SaveBytes, TypeOK
<1>12. ASSUME NEW p \in Flushers, SaveConnections(p) PROVE TypeOK'
  <2>1. DOMAIN flush' = Flushers /\ \A q \in Flushers : Locals(flush'[q])
    BY <1>12, FlushEndsLocals, LocalsTyped, IdleLocals DEF SaveConnections
  <2>2. IsTable(WithRows(ipTraffic, flush[p].conn))
    BY WithRowsFacts DEF TypeOK
  <2> QED BY <1>12, <2>1, <2>2, FlushEndsLocals, TypedLocals DEF SaveConnections, TypeOK
<1>13. ASSUME NEW p \in Flushers, SaveFails(p) PROVE TypeOK'
  <2>1. DOMAIN flush' = Flushers /\ \A q \in Flushers : Locals(flush'[q])
    BY <1>13, FlushEndsLocals, LocalsTyped, IdleLocals DEF SaveFails
  <2>2. events' \subseteq Events
    BY <1>13, EventTyped DEF SaveFails, TypeOK, Events
  <2> QED BY <1>13, <2>1, <2>2, FlushEndsLocals, TypedLocals DEF SaveFails, TypeOK
<1>14. ASSUME NEW ip \in IPs, DeleteFromMemory(ip) PROVE TypeOK'
  <2>1. [sniFlush EXCEPT ![ip] = 0] \in Counts
    BY DEF TypeOK, Counts
  <2> QED BY <1>14, <2>1, WithoutFacts DEF DeleteFromMemory, TypeOK
<1>15. CASE DeleteFromDb
  <2>1. deleting \in IPs
    BY <1>15 DEF DeleteFromDb, Shape
  <2>2. [ipSni EXCEPT ![deleting] = 0] \in Counts
    BY <2>1 DEF TypeOK, Counts
  <2>3. IsTable([ip \in {deleting} |-> moved[ip]])
    BY <2>1 DEF TypeOK, Counts, IsTable
  <2> QED BY <1>15, <2>2, <2>3, WithoutFacts, OverwrittenFacts DEF DeleteFromDb, TypeOK
<1>16. CASE Quit
  BY <1>16, EventTyped DEF Quit, TypeOK, Events
<1>17. CASE CloseDb
  BY <1>17 DEF CloseDb, TypeOK
<1>18. CASE Exit
  <2>1. events' \subseteq Events
    BY <1>18, EventTyped DEF Exit, TypeOK, Events
  <2> QED BY <1>18, <2>1, NoHitsCounts, EmptyFacts, IdleFacts DEF Exit, TypeOK
<1>19. CASE Start
  BY <1>19, MaxStartsAssumption DEF Start, TypeOK
<1>20. CASE Load
  <2>1. CASE LoadIpBytes
    BY <2>1 DEF LoadIpBytes, TypeOK
  <2>2. CASE LoadIpSni
    <3>1. IsTable(WithRows(loaded, {ip \in IPs : ipSni[ip] > 0}))
      BY WithRowsFacts DEF TypeOK
    <3>2. IsTable(loaded') /\ loader' = "rows"
          /\ UNCHANGED <<log, tail, registry, database, tick, flush, interface, collector, history>>
      BY <2>2, <3>1 DEF LoadIpSni
    <3> QED BY <3>2 DEF TypeOK
  <2>3. CASE QueryAllIps
    <3>1. IsTable(Merged(loaded, ipTraffic))
      BY MergedFacts DEF TypeOK
    <3>2. IsTable(loaded') /\ loader' = "merge"
          /\ UNCHANGED <<log, tail, registry, database, tick, flush, interface, collector, history>>
      BY <2>3, <3>1 DEF QueryAllIps
    <3> QED BY <3>2 DEF TypeOK
  <2>4. CASE LoadMerge
    <3>1. IsTable(Merged(records, loaded)) /\ IsTable(Empty)
      BY MergedFacts, EmptyFacts DEF TypeOK
    <3>2. IsTable(records') /\ IsTable(loaded') /\ loader' = "done"
          /\ UNCHANGED <<log, tail, online, clientIps, connDirty, sniFlush, dirtyIps, database,
                         tick, flush, interface, collector, history>>
      BY <2>4, <3>1 DEF LoadMerge
    <3> QED BY <3>2 DEF TypeOK
  <2>5. CASE LoadFails
    <3>1. events' \subseteq Events
      BY <2>5, EventTyped DEF LoadFails, TypeOK, Events
    <3> QED BY <2>5, <3>1, EmptyFacts DEF LoadFails, TypeOK
  <2> QED BY <1>20, <2>1, <2>2, <2>3, <2>4, <2>5 DEF Load
<1>21. CASE CollectorScan
  <2>1. NewLines(collector.read) \in Counts
    BY NewLinesFacts DEF TypeOK, Shape
  <2>2. Plus(fed, NewLines(collector.read)) \in Counts
        /\ Plus(collector.sni, NewLines(collector.read)) \in Counts
    BY <2>1, PlusFacts DEF TypeOK
  <2>3. collector' \in [pc : {"scan", "conn"}, read : Counts, sni : Counts] /\ fed' \in Counts
    BY <1>21, <2>2 DEF CollectorScan, TypeOK
  <2> QED BY <1>21, <2>3 DEF CollectorScan, TypeOK
<1>22. CASE CollectorSaveSni
  <2>1. ipSni' \in Counts /\ expired' \in Counts
    BY <1>22, SaveHitsFacts DEF CollectorSaveSni, TypeOK
  <2>2. collector' \in [pc : {"scan", "conn"}, read : Counts, sni : Counts]
    BY <1>22, NoHitsCounts DEF CollectorSaveSni, TypeOK
  <2> QED BY <1>22, <2>1, <2>2 DEF CollectorSaveSni, TypeOK
<1>23. CASE CollectorSaveConnections
  <2>1. IsTable(WithRows(ipTraffic, CollectorClients))
    BY WithRowsFacts DEF CollectorClients, TypeOK
  <2>2. collector' \in [pc : {"scan", "conn"}, read : Counts, sni : Counts]
    BY <1>23 DEF CollectorSaveConnections, TypeOK
  <2> QED BY <1>23, <2>1, <2>2 DEF CollectorSaveConnections, TypeOK
<1>24. CASE CollectorSaveFails
  <2>1. events' \subseteq Events
    BY <1>24, EventTyped DEF CollectorSaveFails, TypeOK, Events
  <2>2. collector' \in [pc : {"scan", "conn"}, read : Counts, sni : Counts]
    BY <1>24, NoHitsCounts DEF CollectorSaveFails, TypeOK
  <2> QED BY <1>24, <2>1, <2>2 DEF CollectorSaveFails, TypeOK
<1>25. CASE UNCHANGED vars
  BY <1>25 DEF vars, TypeOK
<1> QED
  BY <1>1, <1>2, <1>3, <1>4, <1>5, <1>6, <1>7, <1>8, <1>9, <1>10, <1>11, <1>12, <1>13,
     <1>14, <1>15, <1>16, <1>17, <1>18, <1>19, <1>20, <1>21, <1>22, <1>23, <1>24, <1>25, EvictedRecords
  DEF Next, Environment, Tick, Flush, Interface, Collector

LEMMA InitShape == Init => Shape
<1> SUFFICES ASSUME Init PROVE Shape
  OBVIOUS
<1>1. \A p \in Flushers : flush[p] = Idle
  BY DEF Init
<1>2. \A ip \in IPs : tailRead[ip] <= lines[ip] /\ collector.read[ip] <= lines[ip]
  BY NoHitsCounts DEF Init, CollectorStarted
<1> QED BY <1>1, <1>2, IdleFacts DEF Init, Shape, Shaped, Flushers

LEMMA NextShape == TypeOK /\ Shape /\ [Next]_vars => Shape'
<1> SUFFICES ASSUME TypeOK, Shape, [Next]_vars PROVE Shape'
  OBVIOUS
<1> USE DEF log, tail, registry, database, tick, interface, loading, history
<1>0. \A f \in Counts : \A ip \in IPs : f[ip] \in Nat
  BY DEF Counts
<1>1. ASSUME NEW ip \in IPs, Line(ip) PROVE Shape'
  <2>1. lines' \in Counts /\ \A i \in IPs : lines[i] <= lines'[i]
    BY <1>1 DEF Line, TypeOK, Counts
  <2>2. \A i \in IPs : tailRead'[i] <= lines'[i] /\ collector'.read[i] <= lines'[i]
    BY <1>0, <1>1, <2>1 DEF Line, Shape, TypeOK
  <2> QED BY <1>1, <2>2 DEF Line, Shape, Shaped
<1>2. ASSUME NEW ip \in IPs, Expire(ip) PROVE Shape'
  BY <1>2 DEF Expire, Shape, Shaped
<1>3. CASE Scan
  <2>1. \A i \in IPs : lines[i] <= lines[i]
    BY <1>0 DEF TypeOK
  <2>2. \A p \in Flushers : Shaped(p)'
    BY <1>3 DEF Shape, Scan, Shaped, Flushers
  <2> QED BY <1>3, <2>1, <2>2 DEF Scan, Shape
<1>4. ASSUME NEW ip \in IPs, UpdateTraffic(ip) PROVE Shape'
  BY <1>4 DEF UpdateTraffic, Shape, Shaped
<1>5. ASSUME NEW S \in SUBSET IPs, UpdateOnline(S) PROVE Shape'
  BY <1>5 DEF UpdateOnline, Shape, Shaped
<1>6. CASE FetchFails
  BY <1>6 DEF FetchFails, Shape, Shaped
<1>7. CASE UpdateConnections
  BY <1>7 DEF UpdateConnections, Shape, Shaped
<1>8. CASE UpdateSni
  BY <1>8 DEF UpdateSni, Shape, Shaped
<1>9. ASSUME NEW p \in Flushers, NEW gone \in SUBSET IPs, Snapshot(p, gone) PROVE Shape'
  <2>1. \A q \in Flushers : Shaped(q)'
    <3>1. ui # "off"
      BY <1>9 DEF Snapshot, MayFlush, Shape, Shaped, Flushers
    <3> QED BY <1>9, <3>1, TakeSnapshotLocals DEF Shape, Snapshot, MayFlush, Shaped, Flushers
  <2>2. events \subseteq events'
    BY <1>9 DEF Snapshot
  <2> QED BY <1>9, <2>1, <2>2 DEF Shape, Snapshot
<1>10. ASSUME NEW p \in Flushers, SaveSni(p) PROVE Shape'
  <2>1. ASSUME NEW q \in Flushers \ {p} PROVE Shaped(q)'
    <3>1. flush'[q] = flush[q] /\ Shaped(q)
      BY <1>10, SaveSniLocals DEF Shape
    <3> QED BY <1>10, <3>1 DEF SaveSni, Shaped
  <2>2. Shaped(p)'
    BY <1>10, SaveSniLocals DEF Shape, SaveSni, Shaped
  <2> QED BY <1>10, <2>1, <2>2 DEF Shape, SaveSni
<1>11. ASSUME NEW p \in Flushers, SaveBytes(p) PROVE Shape'
  <2>1. ASSUME NEW q \in Flushers \ {p} PROVE Shaped(q)'
    <3>1. flush'[q] = flush[q] /\ Shaped(q)
      BY <1>11, SaveBytesLocals DEF Shape
    <3> QED BY <1>11, <3>1 DEF SaveBytes, Shaped
  <2>2. Shaped(p)'
    <3>1. /\ flush'[p].pc = "conn" /\ flush'[p].sni = flush[p].sni /\ flush'[p].bytes = Empty
          /\ flush[p].pc = "bytes" /\ UNCHANGED <<ui, worker>>
      BY <1>11, SaveBytesLocals DEF SaveBytes
    <3>2. Shaped(p)
      BY DEF Shape
    <3> QED BY <3>1, <3>2 DEF Shaped
  <2> QED BY <1>11, <2>1, <2>2 DEF Shape, SaveBytes
<1>12. ASSUME NEW p \in Flushers, FlushEnds(p), flush[p].pc # "idle", events \subseteq events',
              UNCHANGED <<lines, tailRead, collector, deleting, loader>>
       PROVE  Shape'
  <2>1. \A q \in Flushers : Shaped(q)'
    BY <1>12, FlushEndsLocals, IdleFacts DEF Shape, FlushEnds, Shaped, Flushers
  <2>2. ui' = ui \/ (ui = "flush" /\ ui' = "close")
    <3>1. CASE p = "worker"
      BY <1>12, <3>1 DEF FlushEnds
    <3>2. CASE p = "ui"
      <4>1. ui = "flush"
        BY <1>12, <3>2 DEF Shape, Shaped
      <4> QED BY <1>12, <3>2, <4>1 DEF FlushEnds
    <3> QED BY <3>1, <3>2 DEF Flushers
  <2> QED BY <1>12, <2>1, <2>2, FlushEndsLocals DEF Shape
<1>13. ASSUME NEW p \in Flushers, SaveConnections(p) \/ SaveFails(p) PROVE Shape'
  <2>1. events \subseteq events' /\ flush[p].pc # "idle"
    BY <1>13 DEF SaveConnections, SaveFails, Event
  <2> QED BY <1>12, <1>13, <2>1 DEF SaveConnections, SaveFails
<1>14. ASSUME NEW ip \in IPs, DeleteFromMemory(ip) PROVE Shape'
  <2>1. \A q \in Flushers : Shaped(q)'
    BY <1>14 DEF Shape, DeleteFromMemory, Shaped, Flushers
  <2> QED BY <1>14, <2>1 DEF Shape, DeleteFromMemory
<1>15. CASE DeleteFromDb
  <2>1. \A q \in Flushers : Shaped(q)'
    BY <1>15 DEF Shape, DeleteFromDb, Shaped, Flushers
  <2> QED BY <1>15, <2>1 DEF Shape, DeleteFromDb
<1>16. CASE Quit
  <2>1. \A q \in Flushers : Shaped(q)'
    BY <1>16 DEF Shape, Quit, Shaped, Flushers
  <2> QED BY <1>16, <2>1 DEF Shape, Quit, Event
<1>17. CASE CloseDb
  <2>1. \A q \in Flushers : Shaped(q)'
    BY <1>17 DEF Shape, CloseDb, Shaped, Flushers
  <2> QED BY <1>17, <2>1 DEF Shape, CloseDb
<1>18. CASE Exit
  <2>1. \A q \in Flushers : flush'[q] = Idle
    BY <1>18 DEF Exit
  <2>2. \A q \in Flushers : Shaped(q)'
    BY <2>1, IdleFacts DEF Shaped
  <2>3. \A ip \in IPs : tailRead'[ip] <= lines'[ip]
    BY <1>0, <1>18, NoHitsCounts DEF Exit, TypeOK
  <2> QED BY <1>18, <2>2, <2>3 DEF Shape, Exit
<1>19. CASE Start
  <2>1. \A q \in Flushers : Shaped(q)'
    BY <1>19 DEF Shape, Start, Shaped, Flushers
  <2> QED BY <1>19, <2>1 DEF Shape, Start
<1>20. CASE Load
  <2>1. events \subseteq events'
    BY <1>20 DEF Load, LoadIpBytes, LoadIpSni, QueryAllIps, LoadMerge, LoadFails, Event
  <2>2. UNCHANGED <<lines, tailRead, collector, flush, ui, deleting, worker>> /\ loader # "off"
    BY <1>20 DEF Load, LoadIpBytes, LoadIpSni, QueryAllIps, LoadMerge, LoadFails
  <2> QED BY <2>1, <2>2 DEF Shape, Shaped
<1>21. CASE CollectorScan
  <2>1. \A ip \in IPs : collector'.read[ip] <= lines'[ip]
    BY <1>0, <1>21 DEF CollectorScan, TypeOK
  <2> QED BY <1>21, <2>1 DEF CollectorScan, Shape, Shaped
<1>22. ASSUME CollectorSaveSni \/ CollectorSaveConnections \/ CollectorSaveFails PROVE Shape'
  <2>1. collector'.read = collector.read /\ events \subseteq events'
    BY <1>22
    DEF CollectorSaveSni, CollectorSaveConnections, CollectorSaveFails, TypeOK, Event
  <2> QED BY <1>22, <2>1
          DEF Shape, CollectorSaveSni, CollectorSaveConnections, CollectorSaveFails, Shaped
<1>23. CASE UNCHANGED vars
  BY <1>23 DEF vars, Shape, Shaped
<1> QED
  BY <1>1, <1>2, <1>3, <1>4, <1>5, <1>6, <1>7, <1>8, <1>9, <1>10, <1>11, <1>13, <1>14,
     <1>15, <1>16, <1>17, <1>18, <1>19, <1>20, <1>21, <1>22, <1>23, EvictedRecords
  DEF Next, Environment, Tick, Flush, Interface, Collector

LEMMA ShapeInvariant == Spec => [](TypeOK /\ Shape)
<1>1. Init => TypeOK /\ Shape
  BY InitTypeOK, InitShape
<1>2. TypeOK /\ Shape /\ [Next]_vars => (TypeOK /\ Shape)'
  BY NextTypeOK, NextShape
<1> QED BY <1>1, <1>2, PTL DEF Spec

\* Every variable always has its type.
THEOREM TypeCorrect == Spec => []TypeOK
  BY ShapeInvariant, PTL
-----------------------------------------------------------------------------
(* Hits are neither multiplied nor lost *)

Conserved(ip) ==
    /\ Placed(ip) <= fed[ip]
    /\ events \intersect {"write", "kill", "quit"} = {} /\ deleting # ip /\ ip \notin DOMAIN erased
        => Placed(ip) = fed[ip]

LEMMA SniParts == SniConserved <=> \A ip \in IPs : Conserved(ip)
  BY DEF SniConserved, Conserved

LEMMA SniNumbers ==
  ASSUME TypeOK, NEW ip \in IPs
  PROVE  /\ tailSni[ip] \in Nat /\ sniFlush[ip] \in Nat /\ collector.sni[ip] \in Nat
         /\ ipSni[ip] \in Nat /\ expired[ip] \in Nat /\ fed[ip] \in Nat
         /\ flush["worker"].sni[ip] \in Nat /\ flush["ui"].sni[ip] \in Nat
  BY DEF TypeOK, Counts, Flushers

LEMMA InitSni == Init => SniConserved
<1> SUFFICES ASSUME Init, NEW ip \in IPs PROVE Placed(ip) = 0 /\ fed[ip] = 0
  BY DEF SniConserved
<1>1. flush["worker"].sni = NoHits /\ flush["ui"].sni = NoHits
  BY IdleFacts DEF Init, Flushers
<1> QED BY <1>1, NoHitsCounts DEF Init, Placed, CollectorStarted

\* A step that moves hits from one place to another, or brings new ones, in the number of n.
LEMMA SniMoved ==
  ASSUME TypeOK, NEW ip \in IPs, Conserved(ip), NEW n \in Nat,
         Placed(ip)' = Placed(ip) + n, fed'[ip] = fed[ip] + n,
         events \subseteq events', deleting' = deleting, erased' = erased
  PROVE  Conserved(ip)'
  BY SniNumbers DEF Conserved, Placed

\* A step that drops hits is one that a reader is told of.
LEMMA SniDropped ==
  ASSUME TypeOK, TypeOK', NEW ip \in IPs, Conserved(ip), fed' = fed, Placed(ip)' <= Placed(ip),
         \/ events' \intersect {"write", "kill", "quit"} # {}
         \/ deleting' = ip \/ ip \in DOMAIN erased'
  PROVE  Conserved(ip)'
<1>1. Placed(ip) \in Nat /\ fed[ip] \in Nat /\ Placed(ip)' \in Nat
  <2>1. Placed(ip) \in Nat /\ fed[ip] \in Nat
    BY SniNumbers DEF Placed
  <2>2. /\ tailSni'[ip] \in Nat /\ sniFlush'[ip] \in Nat /\ collector'.sni[ip] \in Nat
        /\ ipSni'[ip] \in Nat /\ expired'[ip] \in Nat
        /\ flush'["worker"].sni[ip] \in Nat /\ flush'["ui"].sni[ip] \in Nat
    BY DEF TypeOK, Counts, Flushers
  <2> QED BY <2>1, <2>2 DEF Placed
<1> QED BY <1>1 DEF Conserved

LEMMA SniUntouched ==
  ASSUME TypeOK, SniConserved,
         UNCHANGED <<tailSni, sniFlush, ipSni, expired, fed, deleting, erased>>,
         collector'.sni = collector.sni, \A p \in Flushers : flush'[p].sni = flush[p].sni,
         events \subseteq events'
  PROVE  SniConserved'
<1>1. ASSUME NEW ip \in IPs
      PROVE  Placed(ip)' = Placed(ip) + 0 /\ fed'[ip] = fed[ip] + 0
  BY SniNumbers DEF Placed, Flushers
<1>2. \A ip \in IPs : Conserved(ip)'
  BY <1>1, SniMoved, SniParts
<1> QED BY <1>2 DEF SniConserved, Conserved

\* The end of a flush that leaves nothing of its snapshot behind, or drops it.
LEMMA SniFlushEnds ==
  ASSUME TypeOK, TypeOK', Shape, SniConserved, NEW p \in Flushers, FlushEnds(p),
         UNCHANGED <<tailSni, sniFlush, collector, ipSni, expired, fed, deleting, erased>>,
         events \subseteq events',
         flush[p].sni = NoHits \/ events' \intersect {"write", "kill", "quit"} # {}
  PROVE  SniConserved'
<1>1. ASSUME NEW ip \in IPs PROVE Conserved(ip)'
  <2>1. Conserved(ip)
    BY SniParts
  <2>2. flush'[p].sni[ip] = 0 /\ \A q \in Flushers \ {p} : flush'[q] = flush[q]
    BY FlushEndsLocals, IdleFacts, NoHitsCounts
  <2>3. CASE flush[p].sni = NoHits
    <3>1. Placed(ip)' = Placed(ip) + 0 /\ fed'[ip] = fed[ip] + 0
      BY <2>2, <2>3, SniNumbers, NoHitsCounts DEF Placed, Flushers
    <3> QED BY <2>1, <3>1, SniMoved
  <2>4. CASE events' \intersect {"write", "kill", "quit"} # {}
    <3>1. Placed(ip)' <= Placed(ip)
      BY <2>2, SniNumbers DEF Placed, Flushers
    <3> QED BY <2>1, <2>4, <3>1, SniDropped
  <2> QED BY <2>3, <2>4
<1> QED BY <1>1 DEF SniConserved, Conserved

LEMMA NextSni == TypeOK /\ TypeOK' /\ Shape /\ SniConserved /\ [Next]_vars => SniConserved'
<1> SUFFICES ASSUME TypeOK, TypeOK', Shape, SniConserved, [Next]_vars PROVE SniConserved'
  OBVIOUS
<1> USE DEF log, tail, registry, database, tick, interface, loading, history
<1>1. \A ip \in IPs : Conserved(ip)
  BY SniParts
<1>2. SUFFICES ASSUME UNCHANGED vars \/ Next, NEW ip \in IPs,
                      ~ (UNCHANGED <<tailSni, sniFlush, ipSni, expired, fed, deleting, erased>>
                         /\ collector'.sni = collector.sni
                         /\ (\A p \in Flushers : flush'[p].sni = flush[p].sni)
                         /\ events \subseteq events')
               PROVE  Conserved(ip)'
  BY SniUntouched DEF SniConserved, Conserved
<1>3. CASE Scan
  <2>1. NewLines(tailRead) \in Counts
    BY NewLinesFacts DEF TypeOK, Shape
  <2>2. tailSni'[ip] = tailSni[ip] + NewLines(tailRead)[ip]
        /\ fed'[ip] = fed[ip] + NewLines(tailRead)[ip]
    BY <1>3, <2>1, PlusFacts DEF Scan, TypeOK
  <2>3. NewLines(tailRead)[ip] \in Nat
    BY <2>1 DEF Counts
  <2>4. Placed(ip)' = Placed(ip) + NewLines(tailRead)[ip]
    BY <1>3, <2>2, <2>3, SniNumbers DEF Scan, Placed
  <2> QED BY <1>1, <1>3, <2>2, <2>3, <2>4, SniMoved DEF Scan
<1>4. CASE UpdateSni
  <2>1. sniFlush'[ip] = sniFlush[ip] + tailSni[ip] /\ tailSni'[ip] = 0
    BY <1>4, PlusFacts, NoHitsCounts DEF UpdateSni, TypeOK
  <2>2. Placed(ip)' = Placed(ip) + 0 /\ fed'[ip] = fed[ip] + 0
    BY <1>4, <2>1, SniNumbers DEF UpdateSni, Placed
  <2> QED BY <1>1, <1>4, <2>2, SniMoved DEF UpdateSni
<1>5. ASSUME NEW p \in Flushers, NEW gone \in SUBSET IPs, Snapshot(p, gone)
      PROVE  Conserved(ip)'
  <2>1. flush'[p].sni = sniFlush /\ \A q \in Flushers \ {p} : flush'[q] = flush[q]
    BY <1>5, TakeSnapshotLocals DEF Snapshot
  <2>2. flush[p].sni[ip] = 0 /\ sniFlush'[ip] = 0
    BY <1>5, NoHitsCounts DEF Snapshot, MayFlush, TakeSnapshot, Shape, Shaped
  <2>3. Placed(ip)' = Placed(ip) + 0 /\ fed'[ip] = fed[ip] + 0
    BY <1>5, <2>1, <2>2, SniNumbers DEF Snapshot, Placed, Flushers
  <2> QED BY <1>1, <1>5, <2>3, SniMoved DEF Snapshot
<1>6. ASSUME NEW p \in Flushers, SaveSni(p) PROVE Conserved(ip)'
  <2>1. flush'[p].sni[ip] = 0 /\ \A q \in Flushers \ {p} : flush'[q] = flush[q]
    BY <1>6, SaveSniLocals, NoHitsCounts
  <2>2. /\ ipSni'[ip] + expired'[ip] = ipSni[ip] + expired[ip] + flush[p].sni[ip]
        /\ ipSni'[ip] \in Nat /\ expired'[ip] \in Nat
    <3>1. ipSni \in Counts /\ expired \in Counts /\ flush[p].sni \in Counts
      BY DEF TypeOK
    <3>2. SaveHits(flush[p].sni)
      BY <1>6 DEF SaveSni
    <3>3. ipSni' \in Counts /\ expired' \in Counts
          /\ \A i \in IPs : ipSni'[i] + expired'[i] = ipSni[i] + expired[i] + flush[p].sni[i]
      BY <3>1, <3>2, SaveHitsFacts
    <3> QED BY <3>3 DEF Counts
  <2>3. Placed(ip)' = Placed(ip) + 0 /\ fed'[ip] = fed[ip] + 0
    <3>1. UNCHANGED <<tailSni, sniFlush, collector, fed>>
      BY <1>6 DEF SaveSni
    <3>2. CASE p = "worker"
      BY <2>1, <2>2, <3>1, <3>2, SniNumbers DEF Placed, Flushers
    <3>3. CASE p = "ui"
      BY <2>1, <2>2, <3>1, <3>3, SniNumbers DEF Placed, Flushers
    <3> QED BY <3>2, <3>3 DEF Flushers
  <2> QED BY <1>1, <1>6, <2>3, SniMoved DEF SaveSni
<1>7. ASSUME NEW p \in Flushers, SaveBytes(p) PROVE FALSE
  BY <1>2, <1>7, SaveBytesLocals DEF SaveBytes
<1>8. ASSUME NEW p \in Flushers, SaveConnections(p) PROVE SniConserved'
  <2>1. flush[p].sni = NoHits
    BY <1>8 DEF SaveConnections, Shape, Shaped
  <2> QED BY <1>8, <2>1, SniFlushEnds DEF SaveConnections
<1>9. ASSUME NEW p \in Flushers, SaveFails(p) PROVE SniConserved'
  <2>1. events \subseteq events'
    BY <1>9 DEF SaveFails, Event
  <2>2. flush[p].pc # "idle"
    BY <1>9 DEF SaveFails
  <2>3. ui # "off"
    BY <2>2 DEF Shape, Shaped
  <2>4. events' \intersect {"write", "kill", "quit"} # {}
    BY <1>9, <2>3 DEF SaveFails, DbOpen, Event, Shape, TypeOK
  <2> QED BY <1>9, <2>1, <2>4, SniFlushEnds DEF SaveFails
<1>10. ASSUME NEW i \in IPs, DeleteFromMemory(i) PROVE Conserved(ip)'
  <2>1. CASE ip = i
    <3>1. sniFlush'[ip] = 0 /\ deleting' = ip
      BY <1>10, <2>1 DEF DeleteFromMemory, TypeOK, Counts
    <3>2. Placed(ip)' <= Placed(ip)
      BY <1>10, <3>1, SniNumbers DEF DeleteFromMemory, Placed
    <3> QED BY <1>1, <1>10, <3>1, <3>2, SniDropped DEF DeleteFromMemory
  <2>2. CASE ip # i
    <3>1. sniFlush'[ip] = sniFlush[ip]
      BY <1>10, <2>2 DEF DeleteFromMemory, TypeOK, Counts
    <3>2. Placed(ip)' = Placed(ip)
      BY <1>10, <3>1, SniNumbers DEF DeleteFromMemory, Placed
    <3>3. deleting # ip
      BY <1>10, NobodyAssumption DEF DeleteFromMemory, Shape
    <3> QED BY <1>1, <1>10, <2>2, <3>2, <3>3 DEF DeleteFromMemory, Conserved
  <2> QED BY <2>1, <2>2
<1>11. CASE DeleteFromDb
  <2>1. deleting \in IPs /\ DOMAIN erased' = DOMAIN erased \union {deleting}
    BY <1>11 DEF DeleteFromDb, Shape, Overwritten
  <2>2. CASE ip = deleting
    <3>1. ipSni'[ip] = 0
      BY <1>11, <2>2 DEF DeleteFromDb, TypeOK, Counts
    <3>2. Placed(ip)' <= Placed(ip)
      BY <1>11, <3>1, SniNumbers DEF DeleteFromDb, Placed
    <3> QED BY <1>1, <1>11, <2>1, <2>2, <3>2, SniDropped DEF DeleteFromDb
  <2>3. CASE ip # deleting
    <3>1. ipSni'[ip] = ipSni[ip]
      BY <1>11, <2>3 DEF DeleteFromDb, TypeOK, Counts
    <3>2. Placed(ip)' = Placed(ip)
      BY <1>11, <3>1, SniNumbers DEF DeleteFromDb, Placed
    <3> QED BY <1>1, <1>11, <2>1, <2>3, <3>2 DEF DeleteFromDb, Conserved
  <2> QED BY <2>2, <2>3
<1>12. CASE Exit
  <2>1. events' \intersect {"write", "kill", "quit"} # {}
    BY <1>12 DEF Exit, Event, Shape
  <2>2. flush'["worker"].sni = NoHits /\ flush'["ui"].sni = NoHits
    BY <1>12, IdleFacts DEF Exit, Flushers
  <2>3. Placed(ip)' <= Placed(ip)
    BY <1>12, <2>2, SniNumbers, NoHitsCounts DEF Exit, Placed
  <2> QED BY <1>1, <1>12, <2>1, <2>3, SniDropped DEF Exit
<1>13. CASE CollectorScan
  <2>1. NewLines(collector.read) \in Counts
    BY NewLinesFacts DEF TypeOK, Shape
  <2>2. collector'.sni = Plus(collector.sni, NewLines(collector.read))
    BY <1>13 DEF CollectorScan, TypeOK
  <2>3. collector'.sni[ip] = collector.sni[ip] + NewLines(collector.read)[ip]
        /\ fed'[ip] = fed[ip] + NewLines(collector.read)[ip]
    BY <1>13, <2>1, <2>2, PlusFacts DEF CollectorScan, TypeOK
  <2>4. NewLines(collector.read)[ip] \in Nat
    BY <2>1 DEF Counts
  <2>5. Placed(ip)' = Placed(ip) + NewLines(collector.read)[ip]
    BY <1>13, <2>3, <2>4, SniNumbers DEF CollectorScan, Placed
  <2> QED BY <1>1, <1>13, <2>3, <2>4, <2>5, SniMoved DEF CollectorScan
<1>14. CASE CollectorSaveSni
  <2>1. collector'.sni = NoHits
    BY <1>14 DEF CollectorSaveSni, TypeOK
  <2>2. /\ ipSni'[ip] + expired'[ip] = ipSni[ip] + expired[ip] + collector.sni[ip]
        /\ ipSni'[ip] \in Nat /\ expired'[ip] \in Nat
    BY <1>14, SaveHitsFacts DEF CollectorSaveSni, TypeOK, Counts
  <2>3. Placed(ip)' = Placed(ip) + 0 /\ fed'[ip] = fed[ip] + 0
    BY <1>14, <2>1, <2>2, SniNumbers, NoHitsCounts DEF CollectorSaveSni, Placed
  <2> QED BY <1>1, <1>14, <2>3, SniMoved DEF CollectorSaveSni
<1>15. CASE CollectorSaveFails
  <2>1. collector'.sni = NoHits /\ "write" \in events'
    BY <1>15 DEF CollectorSaveFails, TypeOK, Event
  <2>2. Placed(ip)' <= Placed(ip)
    BY <1>15, <2>1, SniNumbers, NoHitsCounts DEF CollectorSaveFails, Placed
  <2> QED BY <1>1, <1>15, <2>1, <2>2, SniDropped DEF CollectorSaveFails
<1>16. ASSUME \/ \E i \in IPs : Line(i) \/ Expire(i) \/ UpdateTraffic(i)
              \/ \E S \in SUBSET IPs : UpdateOnline(S)
              \/ FetchFails \/ UpdateConnections
       PROVE  FALSE
  BY <1>2, <1>16 DEF Line, Expire, UpdateTraffic, UpdateOnline, FetchFails, UpdateConnections
<1>17. ASSUME Quit \/ CloseDb \/ Start PROVE FALSE
  BY <1>2, <1>17 DEF Quit, CloseDb, Start, Event
<1>18. ASSUME Load PROVE FALSE
  BY <1>2, <1>18
  DEF Load, LoadIpBytes, LoadIpSni, QueryAllIps, LoadMerge, LoadFails, Event
<1>19. ASSUME CollectorSaveConnections PROVE FALSE
  BY <1>2, <1>19 DEF CollectorSaveConnections, TypeOK
<1>20. ASSUME UNCHANGED vars PROVE FALSE
  BY <1>2, <1>20 DEF vars
<1>21. SniConserved' => Conserved(ip)'
  BY DEF SniConserved, Conserved
<1> QED
  BY <1>2, <1>3, <1>4, <1>5, <1>6, <1>7, <1>8, <1>9, <1>10, <1>11, <1>12, <1>13, <1>14,
     <1>15, <1>16, <1>17, <1>18, <1>19, <1>20, <1>21, EvictedRecords
  DEF Next, Environment, Tick, Flush, Interface, Collector

\* Hits are never multiplied, and every one is in a buffer or in the table, or was removed by
\* the retention, but for failed writes, ends of the program and deletions.
THEOREM HitsConserved == Spec => []SniConserved
<1>1. TypeOK /\ Shape /\ SniConserved /\ [Next]_vars => SniConserved'
  BY NextTypeOK, NextSni
<1> QED BY <1>1, InitSni, ShapeInvariant, PTL DEF Spec
-----------------------------------------------------------------------------
(* No byte is invented *)

Below(m, f) == \A ip \in IPs : Get(m, ip) <= f[ip]

LEMMA BytesParts ==
  BytesNotInvented <=> /\ Below(records, moved) /\ Below(ipTraffic, moved) /\ Below(loaded, moved)
                       /\ \A p \in Flushers : Below(flush[p].bytes, moved)
  BY DEF BytesNotInvented, Below

LEMMA EmptyBelow == ASSUME NEW f \in Counts PROVE Below(Empty, f)
  BY EmptyFacts DEF Below, Counts

\* Each way to combine tables keeps within what both are within.
LEMMA CombinedBelow ==
  ASSUME NEW m, NEW n, IsTable(m), IsTable(n), NEW f \in Counts, Below(m, f), Below(n, f),
         NEW S \in SUBSET IPs
  PROVE  /\ Below(Without(m, S), f) /\ Below(WithRows(m, S), f)
         /\ Below(Overwritten(m, n), f) /\ Below(Merged(m, n), f)
<1>1. \A ip \in IPs : f[ip] \in Nat
  BY DEF Counts
<1>2. Below(Without(m, S), f)
  <2>1. \A ip \in IPs : Get(Without(m, S), ip) = IF ip \in S THEN 0 ELSE Get(m, ip)
    BY GetWithout
  <2> QED BY <1>1, <2>1 DEF Below
<1>3. Below(WithRows(m, S), f)
  <2>1. \A ip \in IPs : Get(WithRows(m, S), ip) = Get(m, ip)
    BY WithRowsFacts
  <2> QED BY <2>1 DEF Below
<1>4. Below(Overwritten(m, n), f)
  <2>1. \A ip \in IPs : Get(Overwritten(m, n), ip) = IF ip \in DOMAIN n THEN Get(n, ip)
                                                                         ELSE Get(m, ip)
    BY GetOverwritten
  <2> QED BY <2>1 DEF Below
<1>5. Below(Merged(m, n), f)
  <2>1. \A ip \in IPs : Get(Merged(m, n), ip) = IF Get(m, ip) >= Get(n, ip) THEN Get(m, ip)
                                                                              ELSE Get(n, ip)
    BY MergedFacts
  <2> QED BY <2>1 DEF Below
<1> QED BY <1>2, <1>3, <1>4, <1>5

LEMMA InitBytes == Init => BytesNotInvented
<1> SUFFICES ASSUME Init PROVE BytesNotInvented
  OBVIOUS
<1>1. TypeOK
  BY InitTypeOK
<1>2. \A ip \in IPs : Get(ipTraffic, ip) \in Nat /\ moved[ip] = Get(ipTraffic, ip)
  BY <1>1, GetNat DEF Init, TypeOK
<1>3. Below(ipTraffic, moved)
  BY <1>2 DEF Below
<1>4. Below(Empty, moved)
  BY <1>1, EmptyBelow DEF TypeOK
<1>5. \A p \in Flushers : flush[p].bytes = Empty
  BY IdleFacts DEF Init
<1> QED BY <1>3, <1>4, <1>5, BytesParts DEF Init

LEMMA NextBytes == TypeOK /\ TypeOK' /\ BytesNotInvented /\ [Next]_vars => BytesNotInvented'
<1> SUFFICES ASSUME TypeOK, TypeOK', BytesNotInvented, [Next]_vars PROVE BytesNotInvented'
  OBVIOUS
<1> USE DEF log, tail, registry, database, tick, interface, loading, history
<1>1. /\ Below(records, moved) /\ Below(ipTraffic, moved) /\ Below(loaded, moved)
      /\ \A p \in Flushers : Below(flush[p].bytes, moved)
  BY BytesParts
<1>2. /\ moved \in Counts /\ moved' \in Counts /\ IsTable(records) /\ IsTable(ipTraffic)
      /\ IsTable(loaded) /\ \A p \in Flushers : IsTable(flush[p].bytes)
  BY DEF TypeOK
<1>3. Below(Empty, moved) /\ IsTable(Empty)
  BY <1>2, EmptyBelow, EmptyFacts
<1> DEFINE StillBelow == /\ Below(records', moved') /\ Below(ipTraffic', moved')
                         /\ Below(loaded', moved')
                         /\ \A p \in Flushers : Below(flush'[p].bytes, moved')
<1>4. SUFFICES StillBelow
  BY DEF BytesNotInvented, Below
<1>5. ASSUME NEW i \in IPs, UpdateTraffic(i) PROVE StillBelow
  <2>1. moved'[i] = moved[i] + 1 /\ \A ip \in IPs \ {i} : moved'[ip] = moved[ip]
    BY <1>2, <1>5 DEF UpdateTraffic, Counts
  <2>2. \A ip \in IPs : moved[ip] \in Nat /\ moved[ip] <= moved'[ip]
    BY <1>2, <2>1 DEF Counts
  <2>3. \A m : IsTable(m) /\ Below(m, moved) => Below(m, moved')
    BY <1>2, <2>2, GetNat DEF Below, Counts
  <2>4. IsTable([x \in {i} |-> 1]) /\ Get([x \in {i} |-> 1], i) = 1
        /\ \A ip \in IPs \ {i} : Get([x \in {i} |-> 1], ip) = 0
    BY DEF IsTable, Get
  <2>5. \A ip \in IPs : Get(records', ip) = Get(records, ip) + IF ip = i THEN 1 ELSE 0
    <3>1. records' = Summed(records, [x \in {i} |-> 1])
      BY <1>5 DEF UpdateTraffic
    <3>2. \A ip \in IPs : Get(Summed(records, [x \in {i} |-> 1]), ip)
                              = Get(records, ip) + Get([x \in {i} |-> 1], ip)
      <4> DEFINE one == [x \in {i} |-> 1]
      <4>1. IsTable(one)
        BY <2>4
      <4> HIDE DEF one
      <4>2. \A ip : Get(Summed(records, one), ip) = Get(records, ip) + Get(one, ip)
        BY <1>2, <4>1, SummedFacts
      <4> QED BY <4>2 DEF one
    <3> QED BY <2>4, <3>1, <3>2
  <2>6. Below(records', moved')
    BY <1>1, <1>2, <2>1, <2>2, <2>5, GetNat DEF Below
  <2> QED BY <1>1, <1>2, <1>5, <2>3, <2>6 DEF UpdateTraffic
<1>6. ASSUME UpdateConnections \/ UpdateSni PROVE StillBelow
  <2>1. PICK S \in SUBSET IPs : records' = WithRows(records, S)
    BY <1>6 DEF UpdateConnections, UpdateSni, TypeOK
  <2>2. UNCHANGED <<moved, ipTraffic, loaded, flush>>
    BY <1>6 DEF UpdateConnections, UpdateSni
  <2>3. Below(WithRows(records, S), moved)
    BY <1>1, <1>2, <1>3, CombinedBelow
  <2> QED BY <1>1, <2>1, <2>2, <2>3
<1>7. ASSUME NEW p \in Flushers, NEW gone \in SUBSET IPs, Snapshot(p, gone) PROVE StillBelow
  <2>1. Below(flush'[p].bytes, moved)
    <3>1. \A ip \in IPs : Get(flush'[p].bytes, ip) = Get(records, ip) \/ Get(flush'[p].bytes, ip) = 0
      BY <1>7, TakeSnapshotLocals DEF Snapshot, Get
    <3> QED BY <1>1, <1>2, <3>1 DEF Below, Counts
  <2>2. \A q \in Flushers \ {p} : Below(flush'[q].bytes, moved)
    BY <1>1, <1>7, TakeSnapshotLocals DEF Snapshot
  <2> QED BY <1>1, <1>2, <1>3, <1>7, <2>1, <2>2, CombinedBelow DEF Snapshot
<1>8. ASSUME NEW p \in Flushers, SaveSni(p) PROVE StillBelow
  <2>1. \A q \in Flushers : Below(flush'[q].bytes, moved)
    BY <1>1, <1>8, SaveSniLocals
  <2> QED BY <1>1, <1>8, <2>1 DEF SaveSni
<1>9. ASSUME NEW p \in Flushers, SaveBytes(p) PROVE StillBelow
  <2>1. \A q \in Flushers : Below(flush'[q].bytes, moved)
    BY <1>1, <1>3, <1>9, SaveBytesLocals
  <2>2. IsTable(Positive(flush[p].bytes)) /\ Below(Positive(flush[p].bytes), moved)
    <3> DEFINE b == flush[p].bytes
    <3>1. IsTable(b) /\ Below(b, moved)
      BY <1>1, <1>2
    <3>2. \A ip \in IPs : Get(Positive(b), ip) = Get(b, ip) \/ Get(Positive(b), ip) = 0
      BY <3>1, PositiveFacts DEF Get
    <3> QED BY <1>2, <3>1, <3>2, PositiveFacts DEF Below, Counts
  <2> QED BY <1>1, <1>2, <1>9, <2>1, <2>2, CombinedBelow DEF SaveBytes
<1>10. ASSUME NEW p \in Flushers, FlushEnds(p) PROVE \A q \in Flushers : Below(flush'[q].bytes, moved)
  BY <1>1, <1>3, <1>10, FlushEndsLocals, IdleFacts
<1>11. ASSUME NEW p \in Flushers, SaveConnections(p) PROVE StillBelow
  <2>1. flush[p].conn \in SUBSET IPs
    BY DEF TypeOK
  <2> QED BY <1>1, <1>2, <1>3, <1>10, <1>11, <2>1, CombinedBelow DEF SaveConnections
<1>12. ASSUME NEW p \in Flushers, SaveFails(p) PROVE StillBelow
  BY <1>1, <1>10, <1>12 DEF SaveFails
<1>13. ASSUME NEW i \in IPs, DeleteFromMemory(i) PROVE StillBelow
  BY <1>1, <1>2, <1>3, <1>13, CombinedBelow DEF DeleteFromMemory
<1>14. CASE DeleteFromDb
  <2>1. Below(Without(ipTraffic, {deleting}), moved)
    <3>1. \A ip \in IPs : Get(Without(ipTraffic, {deleting}), ip) =
                              IF ip \in {deleting} THEN 0 ELSE Get(ipTraffic, ip)
      BY GetWithout
    <3> QED BY <1>1, <1>2, <3>1 DEF Below, Counts
  <2> QED BY <1>1, <1>14, <2>1 DEF DeleteFromDb
<1>15. CASE Exit
  <2>1. \A p \in Flushers : flush'[p].bytes = Empty
    BY <1>15, IdleFacts DEF Exit
  <2> QED BY <1>1, <1>3, <1>15, <2>1 DEF Exit
<1>16. CASE LoadIpBytes
  BY <1>1, <1>16 DEF LoadIpBytes
<1>17. CASE LoadIpSni
  BY <1>1, <1>2, <1>3, <1>17, CombinedBelow DEF LoadIpSni
<1>18. CASE QueryAllIps
  BY <1>1, <1>2, <1>18, CombinedBelow DEF QueryAllIps
<1>19. CASE LoadMerge
  BY <1>1, <1>2, <1>3, <1>19, CombinedBelow DEF LoadMerge
<1>20. CASE LoadFails
  BY <1>1, <1>3, <1>20 DEF LoadFails
<1>21. CASE CollectorSaveConnections
  <2>1. CollectorClients \in SUBSET IPs
    BY DEF CollectorClients, TypeOK
  <2> QED BY <1>1, <1>2, <1>3, <1>21, <2>1, CombinedBelow DEF CollectorSaveConnections
<1>22. ASSUME UNCHANGED <<records, ipTraffic, loaded, flush, moved>> PROVE StillBelow
  BY <1>1, <1>22
<1>23. ASSUME \/ \E i \in IPs : Line(i) \/ Expire(i)
              \/ \E S \in SUBSET IPs : UpdateOnline(S)
              \/ Scan \/ FetchFails
       PROVE  StillBelow
  BY <1>22, <1>23 DEF Line, Expire, UpdateOnline, Scan, FetchFails
<1>24. ASSUME Quit \/ CloseDb \/ Start PROVE StillBelow
  BY <1>22, <1>24 DEF Quit, CloseDb, Start
<1>25. ASSUME CollectorScan \/ CollectorSaveSni \/ CollectorSaveFails PROVE StillBelow
  BY <1>22, <1>25 DEF CollectorScan, CollectorSaveSni, CollectorSaveFails
<1>26. CASE UNCHANGED vars
  BY <1>22, <1>26 DEF vars
<1> QED
  BY <1>5, <1>6, <1>7, <1>8, <1>9, <1>11, <1>12, <1>13, <1>14, <1>15, <1>16, <1>17, <1>18,
     <1>19, <1>20, <1>21, <1>23, <1>24, <1>25, <1>26, EvictedRecords
  DEF Next, Environment, Tick, Flush, Interface, Load, Collector

\* No table, and no copy of one on its way, has more bytes of an address than were moved.
THEOREM NoByteInvented == Spec => []BytesNotInvented
<1>1. TypeOK /\ Shape /\ BytesNotInvented /\ [Next]_vars => BytesNotInvented'
  BY NextTypeOK, NextBytes
<1> QED BY <1>1, InitBytes, ShapeInvariant, PTL DEF Spec
-----------------------------------------------------------------------------
(* Totals only grow *)

\* Covered, for one address.
CoveredAt(ip) ==
    /\ loader \in {"sni", "rows", "merge"} => Get(ipTraffic, ip) <= Get(loaded, ip)
    /\ loader = "done" => Get(ipTraffic, ip) <= Get(records, ip)
    /\ \A p \in Flushers :
        ip \in DOMAIN flush[p].bytes => /\ Get(ipTraffic, ip) <= flush[p].bytes[ip]
                                        /\ flush[p].bytes[ip] <= Get(records, ip)

Live == IPs \ (DOMAIN erased \union {deleting})

LEMMA CoveredParts ==
  Covered <=> (Undisturbed => /\ \A p \in Flushers : flush[p].pc # "idle" => loader = "done"
                              /\ \A ip \in Live : CoveredAt(ip))
  BY DEF Covered, CoveredAt, Live

LEMMA InitCovered == Init => Covered
<1> SUFFICES ASSUME Init PROVE Covered
  OBVIOUS
<1>1. \A p \in Flushers : flush[p] = Idle /\ DOMAIN flush[p].bytes = {}
  BY IdleFacts, EmptyFacts DEF Init
<1> QED BY <1>1, IdleFacts DEF Init, Covered

\* What every step keeps of the conditions under which Covered speaks.
LEMMA EventsGrow == TypeOK /\ [Next]_vars => events \subseteq events'
<1> SUFFICES ASSUME TypeOK, [Next]_vars PROVE events \subseteq events'
  OBVIOUS
<1> USE DEF history
<1>1. ASSUME Environment \/ Tick PROVE events' = events
  BY <1>1 DEF Environment, Tick, Line, Expire, Scan, UpdateTraffic, UpdateOnline, FetchFails,
              UpdateConnections, UpdateSni
<1>2. ASSUME NEW p \in Flushers, Flush(p) PROVE events \subseteq events'
  BY <1>2 DEF Flush, Snapshot, SaveSni, SaveBytes, SaveConnections, SaveFails, Event
<1>3. CASE Interface
  BY <1>3 DEF Interface, DeleteFromMemory, DeleteFromDb, Quit, CloseDb, Exit, Start, Event
<1>4. CASE Load
  BY <1>4 DEF Load, LoadIpBytes, LoadIpSni, QueryAllIps, LoadMerge, LoadFails, Event
<1>5. CASE Collector
  BY <1>5 DEF Collector, CollectorScan, CollectorSaveSni, CollectorSaveConnections,
              CollectorSaveFails, Event
<1>6. CASE UNCHANGED vars
  BY <1>6 DEF vars
<1> QED BY <1>1, <1>2, <1>3, <1>4, <1>5, <1>6 DEF Next

\* A step that leaves the table, the flushes and the load alone, and lets records only grow.
LEMMA CoveredKept ==
  ASSUME TypeOK, TypeOK', Covered, Undisturbed, UNCHANGED <<flush, loader, loaded>>,
         \A ip \in IPs : Get(ipTraffic', ip) = Get(ipTraffic, ip),
         Live' \subseteq Live, \A ip \in Live' : Get(records, ip) <= Get(records', ip)
  PROVE  Covered'
<1>1. ASSUME NEW ip \in Live' PROVE CoveredAt(ip)'
  <2>1. CoveredAt(ip) /\ ip \in IPs
    BY CoveredParts DEF Live
  <2>2. \A p \in Flushers : ip \in DOMAIN flush[p].bytes => flush[p].bytes[ip] \in Nat
    BY DEF TypeOK, IsTable
  <2>3. Get(ipTraffic, ip) \in Nat /\ Get(records, ip) \in Nat /\ Get(records', ip) \in Nat
    BY GetNat DEF TypeOK
  <2> QED BY <2>1, <2>2, <2>3 DEF CoveredAt
<1>2. \A p \in Flushers : flush[p].pc # "idle" => loader = "done"
  BY DEF Covered
<1> QED BY <1>1, <1>2 DEF Covered, CoveredAt, Live

\* The end of a flush only drops copies.
LEMMA CoveredFlushEnds ==
  ASSUME TypeOK, Covered, Undisturbed, NEW p \in Flushers, FlushEnds(p),
         UNCHANGED <<records, loader, loaded, deleting, erased>>,
         \A ip \in IPs : Get(ipTraffic', ip) = Get(ipTraffic, ip)
  PROVE  Covered'
<1>1. flush'[p] = Idle /\ \A q \in Flushers \ {p} : flush'[q] = flush[q]
  BY FlushEndsLocals
<1>2. Idle.pc = "idle" /\ DOMAIN Idle.bytes = {}
  BY IdleFacts, EmptyFacts
<1>3. ASSUME NEW ip \in Live PROVE CoveredAt(ip)'
  BY <1>1, <1>2, CoveredParts DEF CoveredAt, Live
<1>4. \A q \in Flushers : flush'[q].pc # "idle" => loader' = "done"
  BY <1>1, <1>2 DEF Covered
<1> QED BY <1>3, <1>4 DEF Covered, CoveredAt, Live

LEMMA NextCovered == TypeOK /\ TypeOK' /\ Shape /\ Covered /\ [Next]_vars => Covered'
<1> SUFFICES ASSUME TypeOK, TypeOK', Shape, Covered, [Next]_vars, Undisturbed' PROVE Covered'
  BY DEF Covered
<1> USE DEF log, tail, registry, database, tick, interface, loading, history
<1>0. /\ Undisturbed /\ IsTable(records) /\ IsTable(ipTraffic) /\ IsTable(loaded)
      /\ \A p \in Flushers : flush[p].pc # "idle" => loader = "done"
      /\ \A ip \in Live : CoveredAt(ip)
      /\ \A p \in Flushers : IsTable(flush[p].bytes)
  <2>1. Undisturbed
    BY EventsGrow DEF Undisturbed
  <2> QED BY <2>1, CoveredParts DEF TypeOK
\* Nobody flushes before the load is through, and the UI thread never does.
<1>1. /\ flush["ui"].pc = "idle" /\ flush["ui"].bytes = Empty
      /\ loader # "done" => \A p \in Flushers : flush[p].pc = "idle" /\ flush[p].bytes = Empty
  BY <1>0 DEF Shape, Shaped, Undisturbed, Flushers
<1>2. \A ip : Get(records, ip) \in Nat /\ Get(ipTraffic, ip) \in Nat /\ Get(loaded, ip) \in Nat
  BY <1>0, GetNat
<1>3. ASSUME NEW i \in IPs, UpdateTraffic(i) PROVE Covered'
  <2>1. IsTable([x \in {i} |-> 1])
    BY DEF IsTable
  <2>2. \A ip : Get(records', ip) = Get(records, ip) + Get([x \in {i} |-> 1], ip)
    BY <1>0, <1>3, <2>1, SummedFacts DEF UpdateTraffic
  <2>3. \A ip : Get(records, ip) <= Get(records', ip)
    BY <1>2, <2>1, <2>2, GetNat
  <2> QED BY <1>0, <1>3, <2>3, CoveredKept DEF UpdateTraffic, Live
<1>4. ASSUME UpdateConnections \/ UpdateSni PROVE Covered'
  <2>1. PICK S \in SUBSET IPs : records' = WithRows(records, S)
    BY <1>4 DEF UpdateConnections, UpdateSni, TypeOK
  <2>2. \A ip : Get(records, ip) <= Get(records', ip)
    <3>1. \A ip : Get(WithRows(records, S), ip) = Get(records, ip)
      BY <1>0, WithRowsFacts
    <3> QED BY <1>2, <2>1, <3>1
  <2> QED BY <1>0, <1>4, <2>2, CoveredKept DEF UpdateConnections, UpdateSni, Live
<1>5. ASSUME NEW p \in Flushers, NEW gone \in SUBSET IPs, Snapshot(p, gone) PROVE Covered'
  <2>1. gone = {} /\ loader = "done"
    BY <1>5 DEF Snapshot, Undisturbed
  <2>2. \A ip : Get(records', ip) = Get(records, ip)
    BY <1>5, <2>1, GetWithout DEF Snapshot
  <2>3. /\ DOMAIN flush'[p].bytes \subseteq DOMAIN records
        /\ \A ip \in DOMAIN flush'[p].bytes : flush'[p].bytes[ip] = Get(records, ip)
        /\ \A q \in Flushers \ {p} : flush'[q] = flush[q]
    BY <1>5, TakeSnapshotLocals DEF Snapshot, Get
  <2>4. ASSUME NEW ip \in Live PROVE CoveredAt(ip)'
    <3>1. CoveredAt(ip) /\ UNCHANGED <<ipTraffic, loader, loaded>>
      BY <1>0, <1>5 DEF Snapshot
    <3> QED BY <1>2, <2>1, <2>2, <2>3, <3>1 DEF CoveredAt
  <2> QED BY <1>5, <2>1, <2>4 DEF Snapshot, Covered, CoveredAt, Live
<1>6. ASSUME NEW p \in Flushers, SaveSni(p) PROVE Covered'
  <2>1. /\ flush'[p].bytes = flush[p].bytes /\ flush[p].pc = "sni"
        /\ \A q \in Flushers \ {p} : flush'[q] = flush[q]
    BY <1>6, SaveSniLocals DEF SaveSni
  <2>2. UNCHANGED <<records, ipTraffic, loader, loaded, erased, deleting>>
    BY <1>6 DEF SaveSni
  <2>3. \A q \in Flushers : flush'[q].bytes = flush[q].bytes
    BY <2>1
  <2>4. ASSUME NEW ip \in Live PROVE CoveredAt(ip)'
    <3>1. CoveredAt(ip)
      BY <1>0
    <3> QED BY <2>2, <2>3, <3>1 DEF CoveredAt
  <2>5. \A q \in Flushers : flush'[q].pc # "idle" => loader' = "done"
    BY <1>0, <2>1, <2>2
  <2> QED BY <2>2, <2>4, <2>5 DEF Covered, CoveredAt, Live
<1>7. ASSUME NEW p \in Flushers, SaveBytes(p) PROVE Covered'
  <2>1. p = "worker" /\ loader = "done"
    BY <1>0, <1>1, <1>7 DEF SaveBytes, Flushers
  <2>2. UNCHANGED <<records, loader, loaded, erased, deleting>>
    BY <1>7 DEF SaveBytes
  <2>3. \A q \in Flushers : DOMAIN flush'[q].bytes = {}
    BY <1>1, <1>7, <2>1, SaveBytesLocals, EmptyFacts DEF Flushers
  <2>4. ASSUME NEW ip \in Live PROVE CoveredAt(ip)'
    <3> DEFINE b == flush[p].bytes
    <3>1. CoveredAt(ip) /\ IsTable(b)
      BY <1>0
    <3>2. IsTable(Positive(b)) /\ DOMAIN Positive(b) \subseteq DOMAIN b
          /\ \A i \in DOMAIN Positive(b) : Get(Positive(b), i) = b[i]
      BY <3>1, PositiveFacts
    <3>3. Get(ipTraffic', ip) = IF ip \in DOMAIN Positive(b) THEN Get(Positive(b), ip)
                                                            ELSE Get(ipTraffic, ip)
      <4>1. ipTraffic' = Overwritten(ipTraffic, Positive(b))
        BY <1>7 DEF SaveBytes
      <4>2. \A i : Get(Overwritten(ipTraffic, Positive(b)), i) =
                       IF i \in DOMAIN Positive(b) THEN Get(Positive(b), i) ELSE Get(ipTraffic, i)
        BY GetOverwritten
      <4> QED BY <4>1, <4>2
    <3>4. Get(ipTraffic', ip) <= Get(records, ip)
      BY <2>1, <3>1, <3>2, <3>3 DEF CoveredAt
    <3> QED BY <2>1, <2>2, <2>3, <3>4 DEF CoveredAt
  <2> QED BY <2>1, <2>2, <2>4 DEF Covered, CoveredAt, Live
<1>8. ASSUME NEW p \in Flushers, SaveConnections(p) PROVE Covered'
  <2>1. flush[p].conn \in SUBSET IPs
    BY DEF TypeOK
  <2>2. \A ip \in IPs : Get(ipTraffic', ip) = Get(ipTraffic, ip)
    BY <1>0, <1>8, <2>1, WithRowsFacts DEF SaveConnections
  <2> QED BY <1>0, <1>8, <2>2, CoveredFlushEnds DEF SaveConnections
<1>9. ASSUME NEW p \in Flushers, SaveFails(p) PROVE Covered'
  BY <1>0, <1>9, CoveredFlushEnds DEF SaveFails
<1>10. ASSUME NEW i \in IPs, DeleteFromMemory(i) PROVE Covered'
  <2>1. Live' \subseteq Live /\ i \notin Live'
    BY <1>10, NobodyAssumption DEF DeleteFromMemory, Live, Shape
  <2>2. \A ip \in Live' : Get(records', ip) = Get(records, ip)
    BY <1>10, <2>1, GetWithout DEF DeleteFromMemory
  <2>3. \A ip \in Live' : Get(records, ip) <= Get(records', ip)
    BY <1>2, <2>2
  <2>4. UNCHANGED <<flush, loader, loaded, ipTraffic>>
    BY <1>10 DEF DeleteFromMemory
  <2> QED BY <1>0, <2>1, <2>3, <2>4, CoveredKept
<1>11. CASE DeleteFromDb
  <2>1. /\ Live' \subseteq Live /\ deleting \notin Live'
    BY <1>11 DEF DeleteFromDb, Live, Overwritten
  <2>2. \A ip \in Live' : Get(ipTraffic', ip) = Get(ipTraffic, ip)
    BY <1>11, <2>1, GetWithout DEF DeleteFromDb
  <2>3. UNCHANGED <<records, loader, loaded, flush>>
    BY <1>11 DEF DeleteFromDb
  <2>4. ASSUME NEW ip \in Live' PROVE CoveredAt(ip)'
    BY <1>0, <2>1, <2>2, <2>3 DEF CoveredAt
  <2> QED BY <1>0, <2>3, <2>4 DEF Covered, CoveredAt, Live
<1>12. CASE Exit
  <2>1. \A p \in Flushers : flush'[p].pc = "idle" /\ DOMAIN flush'[p].bytes = {}
    BY <1>12, IdleFacts, EmptyFacts DEF Exit
  <2>2. loader' = "off"
    BY <1>12 DEF Exit
  <2> QED BY <2>1, <2>2 DEF Covered
<1>13. CASE Start
  <2>1. \A p \in Flushers : flush'[p].pc = "idle" /\ flush'[p].bytes = Empty
    BY <1>13 DEF Start, Shape, Shaped
  <2>2. loader' = "bytes"
    BY <1>13 DEF Start
  <2> QED BY <2>1, <2>2, EmptyFacts DEF Covered
<1>14. ASSUME loader' \in {"sni", "rows", "merge"}, UNCHANGED <<flush, ipTraffic>>,
              loader # "done", \A ip \in Live' : Get(ipTraffic, ip) <= Get(loaded', ip)
       PROVE  Covered'
  BY <1>1, <1>14, EmptyFacts DEF Covered, Live
<1>15. CASE LoadIpBytes
  BY <1>2, <1>14, <1>15 DEF LoadIpBytes
<1>16. CASE LoadIpSni
  <2>1. \A ip : Get(loaded', ip) = Get(loaded, ip)
    <3>1. {ip \in IPs : ipSni[ip] > 0} \in SUBSET IPs
      OBVIOUS
    <3> QED BY <1>0, <1>16, <3>1, WithRowsFacts DEF LoadIpSni
  <2>2. \A ip \in Live : Get(ipTraffic, ip) <= Get(loaded, ip)
    BY <1>0, <1>16 DEF LoadIpSni, CoveredAt
  <2> QED BY <1>14, <1>16, <2>1, <2>2 DEF LoadIpSni, Live
<1>17. CASE QueryAllIps
  <2>1. \A ip : Get(loaded', ip) = IF Get(loaded, ip) >= Get(ipTraffic, ip)
                                   THEN Get(loaded, ip) ELSE Get(ipTraffic, ip)
    BY <1>0, <1>17, MergedFacts DEF QueryAllIps
  <2>2. \A ip : Get(ipTraffic, ip) <= Get(loaded', ip)
    BY <1>2, <2>1
  <2> QED BY <1>14, <1>17, <2>2 DEF QueryAllIps
<1>18. CASE LoadMerge
  <2>1. \A ip : Get(records', ip) = IF Get(records, ip) >= Get(loaded, ip)
                                    THEN Get(records, ip) ELSE Get(loaded, ip)
    BY <1>0, <1>18, MergedFacts DEF LoadMerge
  <2>2. \A ip \in Live : Get(ipTraffic, ip) <= Get(loaded, ip)
    BY <1>0, <1>18 DEF LoadMerge, CoveredAt
  <2>3. \A ip \in Live : Get(ipTraffic', ip) <= Get(records', ip)
    BY <1>2, <1>18, <2>1, <2>2 DEF LoadMerge
  <2>4. \A p \in Flushers : DOMAIN flush'[p].bytes = {}
    BY <1>1, <1>18, EmptyFacts DEF LoadMerge
  <2> QED BY <1>18, <2>3, <2>4 DEF LoadMerge, Covered, Live
<1>19. CASE LoadFails
  BY <1>19 DEF LoadFails, DbOpen, Event, Undisturbed, Shape, TypeOK
<1>20. CASE CollectorSaveConnections
  <2>1. CollectorClients \in SUBSET IPs
    BY DEF CollectorClients, TypeOK
  <2>2. \A ip \in IPs : Get(ipTraffic', ip) = Get(ipTraffic, ip)
    BY <1>0, <1>20, <2>1, WithRowsFacts DEF CollectorSaveConnections
  <2> QED BY <1>0, <1>2, <1>20, <2>2, CoveredKept DEF CollectorSaveConnections, Live
<1>21. ASSUME UNCHANGED <<records, ipTraffic, loader, loaded, flush, deleting, erased>>
       PROVE  Covered'
  BY <1>0, <1>2, <1>21, CoveredKept DEF Live
<1>22. ASSUME \/ \E i \in IPs : Line(i) \/ Expire(i)
              \/ \E S \in SUBSET IPs : UpdateOnline(S)
              \/ Scan \/ FetchFails
       PROVE  Covered'
  BY <1>21, <1>22 DEF Line, Expire, UpdateOnline, Scan, FetchFails
<1>23. ASSUME Quit \/ CloseDb PROVE Covered'
  BY <1>21, <1>23 DEF Quit, CloseDb
<1>24. ASSUME CollectorScan \/ CollectorSaveSni \/ CollectorSaveFails PROVE Covered'
  BY <1>21, <1>24 DEF CollectorScan, CollectorSaveSni, CollectorSaveFails
<1>25. CASE UNCHANGED vars
  BY <1>21, <1>25 DEF vars
<1> QED
  BY <1>3, <1>4, <1>5, <1>6, <1>7, <1>8, <1>9, <1>10, <1>11, <1>12, <1>13, <1>15, <1>16, <1>17,
     <1>18, <1>19, <1>20, <1>22, <1>23, <1>24, <1>25, EvictedRecords
  DEF Next, Environment, Tick, Flush, Interface, Load, Collector

\* Only save_ip_bytes changes a total, and what it writes covers what is there.
LEMMA NotLowered ==
  TypeOK /\ Shape /\ Covered /\ [Next]_vars =>
    (events' \intersect {"load", "evict", "early", "quit"} = {} => ~ Lowered)
<1> SUFFICES ASSUME TypeOK, Shape, Covered, [Next]_vars, Undisturbed',
                    NEW ip \in (DOMAIN ipTraffic \intersect DOMAIN ipTraffic')
                                    \ (DOMAIN erased \union {deleting})
             PROVE  ~ (ipTraffic'[ip] < ipTraffic[ip])
  BY DEF Undisturbed, Lowered
<1> USE DEF log, tail, registry, database, tick, interface, loading, history
<1>1. IsTable(ipTraffic) /\ ip \in Live /\ Get(ipTraffic, ip) \in Nat
  BY GetNat DEF TypeOK, IsTable, Live
<1>2. Undisturbed
  BY EventsGrow DEF Undisturbed
<1>3. SUFFICES Get(ipTraffic, ip) <= Get(ipTraffic', ip)
  <2>1. ipTraffic[ip] = Get(ipTraffic, ip) /\ ipTraffic'[ip] = Get(ipTraffic', ip)
    BY DEF Get
  <2>2. Get(ipTraffic, ip) <= Get(ipTraffic', ip) =>
            ~ (Get(ipTraffic', ip) < Get(ipTraffic, ip))
    <3>1. Get(ipTraffic', ip) \in Nat
      BY NextTypeOK, GetNat DEF TypeOK
    <3> QED BY <1>1, <3>1
  <2> QED BY <2>1, <2>2
<1>4. ASSUME NEW p \in Flushers, SaveBytes(p) PROVE Get(ipTraffic, ip) <= Get(ipTraffic', ip)
  <2> DEFINE b == flush[p].bytes
  <2>1. CoveredAt(ip) /\ IsTable(b)
    BY <1>1, <1>2, CoveredParts DEF TypeOK
  <2>2. IsTable(Positive(b)) /\ DOMAIN Positive(b) \subseteq DOMAIN b
        /\ \A i \in DOMAIN Positive(b) : Get(Positive(b), i) = b[i]
    BY <2>1, PositiveFacts
  <2>3. Get(ipTraffic', ip) = IF ip \in DOMAIN Positive(b) THEN Get(Positive(b), ip)
                                                          ELSE Get(ipTraffic, ip)
    <3>1. ipTraffic' = Overwritten(ipTraffic, Positive(b))
      BY <1>4 DEF SaveBytes
    <3>2. \A i : Get(Overwritten(ipTraffic, Positive(b)), i) =
                     IF i \in DOMAIN Positive(b) THEN Get(Positive(b), i) ELSE Get(ipTraffic, i)
      BY GetOverwritten
    <3> QED BY <3>1, <3>2
  <2> QED BY <1>1, <2>1, <2>2, <2>3 DEF CoveredAt
<1>5. ASSUME NEW S \in SUBSET IPs, ipTraffic' = WithRows(ipTraffic, S)
      PROVE  Get(ipTraffic, ip) <= Get(ipTraffic', ip)
  <2>1. \A i : Get(WithRows(ipTraffic, S), i) = Get(ipTraffic, i)
    BY <1>1, WithRowsFacts
  <2> QED BY <1>1, <1>5, <2>1
<1>6. ASSUME NEW p \in Flushers, SaveConnections(p)
      PROVE  Get(ipTraffic, ip) <= Get(ipTraffic', ip)
  BY <1>5, <1>6 DEF SaveConnections, TypeOK
<1>7. CASE CollectorSaveConnections
  BY <1>5, <1>7 DEF CollectorSaveConnections, CollectorClients, TypeOK
<1>8. CASE DeleteFromDb
  <2>1. ip # deleting
    BY <1>1 DEF Live
  <2> QED BY <1>1, <1>8, <2>1, GetWithout DEF DeleteFromDb
<1>9. CASE UNCHANGED ipTraffic
  BY <1>1, <1>9
<1>10. ASSUME NEW p \in Flushers,
              (\E gone : Snapshot(p, gone)) \/ SaveSni(p) \/ SaveFails(p)
       PROVE  UNCHANGED ipTraffic
  BY <1>10 DEF Snapshot, SaveSni, SaveFails
<1>11. ASSUME Environment \/ Tick \/ Load PROVE UNCHANGED ipTraffic
  BY <1>11 DEF Environment, Line, Expire, Tick, Scan, UpdateTraffic, UpdateOnline, FetchFails,
               UpdateConnections, UpdateSni,
               Load, LoadIpBytes, LoadIpSni, QueryAllIps, LoadMerge, LoadFails
<1>12. ASSUME \/ \E i \in IPs : DeleteFromMemory(i)
              \/ Quit \/ CloseDb \/ Exit \/ Start
              \/ CollectorScan \/ CollectorSaveSni \/ CollectorSaveFails
       PROVE  UNCHANGED ipTraffic
  BY <1>12 DEF DeleteFromMemory, Quit, CloseDb, Exit, Start,
               CollectorScan, CollectorSaveSni, CollectorSaveFails
<1>13. CASE UNCHANGED vars
  BY <1>9, <1>13 DEF vars
<1> QED
  BY <1>4, <1>6, <1>7, <1>8, <1>9, <1>10, <1>11, <1>12, <1>13
  DEF Next, Flush, Interface, Collector

\* As long as no flush runs before the load is through, the load succeeds, nothing is evicted
\* and the program is not being quit, no total in the table is lowered.
THEOREM TableOnlyGrows == Spec => TotalsOnlyGrow
<1>1. Init => Covered
  BY InitCovered
<1>2. TypeOK /\ Shape /\ Covered /\ [Next]_vars => Covered'
  BY NextTypeOK, NextCovered
<1>3. TypeOK /\ Shape /\ Covered /\ [Next]_vars =>
        [events' \intersect {"load", "evict", "early", "quit"} = {} => ~ Lowered]_vars
  BY NotLowered
<1> QED BY <1>1, <1>2, <1>3, ShapeInvariant, PTL DEF Spec, TotalsOnlyGrow
=============================================================================
