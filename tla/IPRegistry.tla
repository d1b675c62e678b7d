----------------------------- MODULE IPRegistry -----------------------------
(***************************************************************************)
(* What the Python monitor knows about client addresses: the in-memory     *)
(* IPRegistry (modules/ip_registry.py), the tables ip_traffic and ip_sni   *)
(* of the SQLite file (modules/traffic_log.py), the part of LogTail that   *)
(* feeds them, and everyone who touches them:                              *)
(*                                                                         *)
(*   worker     the tick worker thread of app.py, at most one at a time    *)
(*   ui         the Textual thread: deletes an address, and flushes and    *)
(*              closes the database when the program is quit               *)
(*   loader     the pool thread that loads the tables at start             *)
(*   collector  scripts/xray_log_collector.py, another process that tails  *)
(*              the same log into the same tables                          *)
(*                                                                         *)
(* One atomic step is one critical section of IPRegistry._lock, one        *)
(* transaction, or one read of the database.  Of a record only its bytes   *)
(* (both directions together) are kept, of the SNI data of an address only *)
(* its number of hits.  fed, expired, moved, erased, starts and events are *)
(* history.                                                                *)
(***************************************************************************)
EXTENDS Integers, FiniteSets, FiniteSetsExt

CONSTANTS
    IPs,
    MaxRecords,     \* _MAX_RECORDS, 5000 in the code
    Spare,          \* what _evict_stale removes beyond the overflow, 500 in the code
    MaxLines,       \* bound: lines Xray writes to the access log
    Stored,         \* bound: bytes an address may have in the table at first
    LastTotals,     \* bound: numbers of attributed bytes, those of the table included, after which
                    \* no more are attributed
    MaxDeletes,     \* bound: addresses the user deletes
    MaxStarts,      \* bound: starts of the monitor
    MaxEventKinds,  \* bound: kinds of exceptional event in a behaviour
    WithCollector   \* the collector process is installed

ASSUME MaxRecordsAssumption == MaxRecords \in Nat
ASSUME SpareAssumption == Spare \in Nat
ASSUME StoredAssumption == Stored \in Nat
ASSUME MaxStartsAssumption == MaxStarts \in Nat
ASSUME WithCollectorAssumption == WithCollector \in BOOLEAN

VARIABLES
    lines,      \* the access log: number of lines with a domain, per address
    recent,     \* the addresses with a line in the last 24 hours
    tailRead,   \* the lines this process's LogTail has read
    tailSni,    \* LogTail._sni_flush
    records,    \* IPRegistry._records: address -> bytes
    online,     \* IPRegistry._online
    clientIps,  \* IPRegistry._client_ips
    connDirty,  \* IPRegistry._client_ips_dirty
    sniFlush,   \* IPRegistry._sni_flush
    dirtyIps,   \* IPRegistry._dirty_ips
    ipTraffic,  \* table ip_traffic: address -> bytes
    ipSni,      \* table ip_sni: hits per address
    worker,     \* where the tick worker is
    logSnap,    \* its copy of LogTail.client_ips
    fetched,    \* XrayStats._prev_t > 0: there is an earlier sample to compare with
    prevIps,    \* XrayStats._prev_ips: the addresses Xray last reported online
    flush,      \* the local variables of flush_to_db, for each thread that may run it
    ui,         \* what the UI thread is doing
    deleting,   \* the address it is deleting
    loader,     \* where the loading thread is
    loaded,     \* what it has read so far
    collector,  \* the collector process: its step, what it has read, its buffer
    fed,        \* history: hits the readers of the log have produced
    expired,    \* history: hits the retention of 30 days has removed
    moved,      \* history: bytes attributed to an address
    erased,     \* history: address -> its moved when it was last deleted
    starts,     \* history: number of starts
    events      \* history: the kinds of exceptional event that have happened

log == <<lines, recent>>
tail == <<tailRead, tailSni>>
registry == <<records, online, clientIps, connDirty, sniFlush, dirtyIps>>
database == <<ipTraffic, ipSni>>
tick == <<worker, logSnap, fetched, prevIps>>
interface == <<ui, deleting>>
loading == <<loader, loaded>>
history == <<fed, expired, moved, erased, starts, events>>
vars == <<lines, recent, tailRead, tailSni, records, online, clientIps, connDirty,
          sniFlush, dirtyIps, ipTraffic, ipSni, worker, logSnap, fetched, prevIps, flush, ui,
          deleting, loader, loaded, collector, fed, expired, moved, erased, starts, events>>
-----------------------------------------------------------------------------
(* Values *)

Counts == [IPs -> Nat]
NoHits == [ip \in IPs |-> 0]
Nobody == "none"
ASSUME NobodyAssumption == Nobody \notin IPs
Empty == [ip \in {} |-> 0]
Flushers == {"worker", "ui"}
Idle == [pc |-> "idle", sni |-> NoHits, bytes |-> Empty, conn |-> {}]
Events == {"write", "load", "kill", "evict", "early", "quit"}

IsTable(m) == DOMAIN m \subseteq IPs /\ m \in [DOMAIN m -> Nat]

Plus(f, g) == [ip \in IPs |-> f[ip] + g[ip]]
Minus(f, g) == [ip \in IPs |-> f[ip] - g[ip]]

\* What a reader of the log that has read so much reads next, and a faulty
\* variant for mutation.
ReadTwisted(read) == Minus(read, lines)
NewLines(read) == Minus(lines, read)

Total(f) == MapThenSumSet(LAMBDA ip : f[ip], IPs)
Get(m, ip) == IF ip \in DOMAIN m THEN m[ip] ELSE 0
Without(m, S) == [ip \in DOMAIN m \ S |-> m[ip]]

\* Rows for the addresses S that have none yet, with no bytes.
WithRows(m, S) == [ip \in DOMAIN m \union S |-> Get(m, ip)]
Overwritten(m, new) ==
    [ip \in DOMAIN m \union DOMAIN new |-> IF ip \in DOMAIN new THEN new[ip] ELSE m[ip]]
Summed(m, new) == [ip \in DOMAIN m \union DOMAIN new |-> Get(m, ip) + Get(new, ip)]

\* load_from_db merges what it read with what is there: the larger value wins.
\* (And a faulty variant for mutation: an address that is there is left alone.)
MergedKeepingMemory(m, new) == Overwritten(new, m)
Merged(m, new) == [ip \in DOMAIN m \union DOMAIN new |-> Max({Get(m, ip), Get(new, ip)})]

\* An exceptional event of kind k.
Event(k) ==
    /\ Cardinality(events \union {k}) <= MaxEventKinds
    /\ events' = events \union {k}

Running == ui # "off"
DbOpen == ui \notin {"off", "closed"}
-----------------------------------------------------------------------------
TypeOK ==
    /\ lines \in Counts /\ recent \subseteq IPs
    /\ tailRead \in Counts /\ tailSni \in Counts
    /\ IsTable(records) /\ online \subseteq IPs
    /\ clientIps \subseteq IPs /\ connDirty \in BOOLEAN
    /\ sniFlush \in Counts /\ dirtyIps \subseteq IPs
    /\ IsTable(ipTraffic) /\ ipSni \in Counts
    /\ worker \in {"idle", "fetch", "connections", "sni", "flush"}
    /\ logSnap \subseteq IPs /\ fetched \in BOOLEAN /\ prevIps \subseteq IPs
    /\ DOMAIN flush = Flushers
    /\ \A p \in Flushers :
        /\ flush[p] \in [pc : {"idle", "sni", "bytes", "conn"}, sni : Counts,
                         bytes : {flush[p].bytes}, conn : SUBSET IPs]
        /\ IsTable(flush[p].bytes)
    /\ ui \in {"off", "open", "deleting", "flush", "close", "closed"}
    /\ deleting \in IPs \union {Nobody}
    /\ loader \in {"off", "bytes", "sni", "rows", "merge", "done"} /\ IsTable(loaded)
    /\ collector \in [pc : {"scan", "conn"}, read : Counts, sni : Counts]
    /\ fed \in Counts /\ expired \in Counts /\ moved \in Counts /\ IsTable(erased)
    /\ starts \in 0 .. MaxStarts /\ events \subseteq Events

CollectorStarted == [pc |-> "scan", read |-> NoHits, sni |-> NoHits]

\* The table may hold rows of earlier runs of the program.
Init ==
    /\ lines = NoHits /\ recent = {}
    /\ tailRead = NoHits /\ tailSni = NoHits
    /\ records = Empty /\ online = {} /\ clientIps = {} /\ connDirty = FALSE
    /\ sniFlush = NoHits /\ dirtyIps = {}
    /\ worker = "idle" /\ logSnap = {} /\ fetched = FALSE /\ prevIps = {}
    /\ flush = [p \in Flushers |-> Idle]
    /\ ui = "off" /\ deleting = Nobody
    /\ loader = "off" /\ loaded = Empty
    /\ ipTraffic \in UNION {[S -> {Stored}] : S \in SUBSET IPs} /\ ipSni = NoHits
    /\ collector = CollectorStarted
    /\ fed = NoHits /\ expired = NoHits
    /\ moved = [ip \in IPs |-> Get(ipTraffic, ip)] /\ erased = Empty
    /\ starts = 0 /\ events = {}
-----------------------------------------------------------------------------
(* Xray and time *)

Line(ip) ==
    /\ Total(lines) < MaxLines
    /\ lines' = [lines EXCEPT ![ip] = @ + 1]
    /\ recent' = recent \union {ip}
    /\ UNCHANGED <<tail, registry, database, tick, flush, interface, loading,
                   collector, history>>

\* 24 hours pass without a line of ip.
Expire(ip) ==
    /\ ip \in recent
    /\ recent' = recent \ {ip}
    /\ UNCHANGED <<lines, tail, registry, database, tick, flush, interface, loading,
                   collector, history>>
-----------------------------------------------------------------------------
(* The tick worker *)

\* A tick begins: LogTail.update_block_stats reads on from its last position (from
\* the beginning in a new process), then client_ips is copied.
Scan ==
    /\ ui \in {"open", "deleting"}
    /\ worker = "idle"
    /\ worker' = "fetch"
    /\ tailRead' = lines
    /\ tailSni' = Plus(tailSni, NewLines(tailRead))
    /\ fed' = Plus(fed, NewLines(tailRead))
    /\ logSnap' = recent
    /\ UNCHANGED <<log, registry, database, fetched, prevIps, flush, interface, loading,
                   collector, expired, moved, erased, starts, events>>

\* XrayStats.fetch attributes a byte to an address: one that Xray reported online in the
\* last fetch, or else one of the log.
UpdateTraffic(ip) ==
    /\ worker = "fetch"
    /\ fetched
    /\ logSnap # {}
    /\ ip \in logSnap \union prevIps
    /\ Total(moved) \notin LastTotals
    /\ records' = Summed(records, [i \in {ip} |-> 1])
    /\ dirtyIps' = dirtyIps \union {ip}
    /\ moved' = [moved EXCEPT ![ip] = @ + 1]
    /\ UNCHANGED <<log, tail, online, clientIps, connDirty, sniFlush, database, tick,
                   flush, interface, loading, collector, fed, expired, erased, starts, events>>

\* The rest of fetch: the addresses Xray reports online.
UpdateOnline(S) ==
    /\ worker = "fetch"
    /\ worker' = "connections"
    /\ fetched' = TRUE
    /\ prevIps' = S
    /\ online' = S
    /\ UNCHANGED <<log, tail, records, clientIps, connDirty, sniFlush, dirtyIps, database,
                   logSnap, flush, interface, loading, collector, history>>

\* fetch returns an error; the tick goes on.
FetchFails ==
    /\ worker = "fetch"
    /\ worker' = "connections"
    /\ UNCHANGED <<log, tail, registry, database, logSnap, fetched, prevIps, flush, interface,
                   loading, collector, history>>

\* update_connections; every tenth tick goes on to persist, any other one ends.
UpdateConnections ==
    /\ worker = "connections"
    /\ clientIps' = logSnap
    /\ connDirty' = TRUE
    /\ records' = WithRows(records, logSnap)
    /\ worker' \in {"idle", "sni"}
    /\ logSnap' = {}
    /\ UNCHANGED <<log, tail, online, sniFlush, dirtyIps, database, fetched, prevIps, flush,
                   interface, loading, collector, history>>

\* LogTail.flush_new_sni, then IPRegistry.update_sni with what it returned.
UpdateSni ==
    /\ worker = "sni"
    /\ tailSni' = NoHits
    /\ sniFlush' = Plus(sniFlush, tailSni)
    /\ records' = WithRows(records, {ip \in IPs : tailSni[ip] > 0})
    /\ worker' = "flush"
    /\ UNCHANGED <<log, tailRead, online, clientIps, connDirty, dirtyIps, database, logSnap,
                   fetched, prevIps, flush, interface, loading, collector, history>>
-----------------------------------------------------------------------------
(* flush_to_db, called by the worker and by on_unmount *)

\* _evict_stale: which records are old is left open.  The stale ones go, then, if
\* there are still too many, the oldest ones, but never one that is online.
Evicted ==
    LET offline == DOMAIN records \ online
        AndOldest(stale) ==
            LET rest == Cardinality(DOMAIN records \ stale)
                k == Min({rest - MaxRecords + Spare, Cardinality(offline \ stale)})
            IN  IF rest > MaxRecords
                THEN {stale \union old : old \in kSubset(k, offline \ stale)}
                ELSE {stale}
    IN  IF Cardinality(DOMAIN records) > MaxRecords
        THEN UNION {AndOldest(stale) : stale \in SUBSET offline}
        ELSE {{}}

MayFlush(p) ==
    /\ flush[p].pc = "idle"
    /\ p = "worker" => worker = "flush"
    /\ p = "ui" => ui = "flush"

\* Faulty variant of the snapshot, for mutation: the buffer is not replaced.
SnapshotKeepingBuffer(p, gone) ==
    /\ flush' = [flush EXCEPT ![p] =
            [pc |-> "sni", sni |-> sniFlush,
             bytes |-> [ip \in (dirtyIps \intersect DOMAIN records) \ gone |-> records[ip]],
             conn |-> IF connDirty THEN clientIps ELSE {}]]
    /\ UNCHANGED sniFlush

\* The snapshot under the lock; the buffers start afresh.
TakeSnapshot(p, gone) ==
    /\ flush' = [flush EXCEPT ![p] =
            [pc |-> "sni", sni |-> sniFlush,
             bytes |-> [ip \in (dirtyIps \intersect DOMAIN records) \ gone |-> records[ip]],
             conn |-> IF connDirty THEN clientIps ELSE {}]]
    /\ sniFlush' = NoHits

\* Every five minutes the snapshot is preceded by an eviction (gone).
Snapshot(p, gone) ==
    /\ MayFlush(p)
    /\ TakeSnapshot(p, gone)
    /\ records' = Without(records, gone)
    /\ dirtyIps' = {}
    /\ connDirty' = FALSE
    /\ LET kinds == (IF gone # {} THEN {"evict"} ELSE {})
                    \union (IF loader # "done" THEN {"early"} ELSE {})
       IN  /\ Cardinality(events \union kinds) <= MaxEventKinds
           /\ events' = events \union kinds
    /\ UNCHANGED <<log, tail, online, clientIps, database, tick, interface, loading,
                   collector, fed, expired, moved, erased, starts>>

\* The end of a flush, with or without an error, is the end of the tick; on the UI
\* thread the database is closed next.
FlushEnds(p) ==
    /\ flush' = [flush EXCEPT ![p] = Idle]
    /\ IF p = "worker" THEN worker' = "idle" /\ UNCHANGED ui
                       ELSE ui' = "close" /\ UNCHANGED worker

\* What the retention may leave of the hits in a table.
Kept(hits) == {left \in [IPs -> 0 .. Total(hits)] : \A ip \in IPs : left[ip] <= hits[ip]}

\* save_ip_sni: unless there is nothing to save, one transaction adds the hits to the table
\* and removes the rows last seen more than 30 days ago.  Which rows those are is left open:
\* a row is one domain of an address, and a line that is only read now may be that old too.
SaveHits(hits) ==
    IF hits = NoHits
    THEN UNCHANGED <<ipSni, expired>>
    ELSE /\ ipSni' \in Kept(Plus(ipSni, hits))
         /\ expired' = Plus(expired, Minus(Plus(ipSni, hits), ipSni'))

SaveSni(p) ==
    /\ flush[p].pc = "sni"
    /\ DbOpen \/ flush[p].sni = NoHits
    /\ SaveHits(flush[p].sni)
    /\ flush' = [flush EXCEPT ![p].pc = "bytes", ![p].sni = NoHits]
    /\ UNCHANGED <<log, tail, registry, ipTraffic, tick, interface, loading, collector,
                   fed, moved, erased, starts, events>>

Positive(m) == [ip \in {i \in DOMAIN m : m[i] > 0} |-> m[ip]]

\* save_ip_bytes overwrites the bytes of the rows it names.
SaveBytes(p) ==
    /\ flush[p].pc = "bytes"
    /\ DbOpen \/ Positive(flush[p].bytes) = Empty
    /\ ipTraffic' = Overwritten(ipTraffic, Positive(flush[p].bytes))
    /\ flush' = [flush EXCEPT ![p].pc = "conn", ![p].bytes = Empty]
    /\ UNCHANGED <<log, tail, registry, ipSni, tick, interface, loading, collector, history>>

\* save_ip_connections inserts the rows that are missing and keeps bytes as they are.
SaveConnections(p) ==
    /\ flush[p].pc = "conn"
    /\ DbOpen \/ flush[p].conn = {}
    /\ ipTraffic' = WithRows(ipTraffic, flush[p].conn)
    /\ FlushEnds(p)
    /\ UNCHANGED <<log, tail, registry, ipSni, logSnap, fetched, prevIps, deleting, loading,
                   collector, history>>

\* A write fails, or the UI has closed the database under the worker: the exception
\* ends the flush, and what was not written yet is dropped with the local variables.
SaveFails(p) ==
    /\ \/ flush[p].pc = "sni" /\ flush[p].sni # NoHits
       \/ flush[p].pc = "bytes" /\ Positive(flush[p].bytes) # Empty
       \/ flush[p].pc = "conn" /\ flush[p].conn # {}
    /\ IF DbOpen THEN Event("write") ELSE UNCHANGED events
    /\ FlushEnds(p)
    /\ UNCHANGED <<log, tail, registry, database, logSnap, fetched, prevIps, deleting, loading,
                   collector, fed, expired, moved, erased, starts>>
-----------------------------------------------------------------------------
(* The UI thread *)

\* delete_ip: first the memory, under the lock ...
DeleteFromMemory(ip) ==
    /\ ui = "open"
    /\ ip \in DOMAIN records
    /\ Cardinality(DOMAIN erased) < MaxDeletes
    /\ ui' = "deleting"
    /\ deleting' = ip
    /\ records' = Without(records, {ip})
    /\ online' = online \ {ip}
    /\ dirtyIps' = dirtyIps \ {ip}
    /\ sniFlush' = [sniFlush EXCEPT ![ip] = 0]
    /\ clientIps' = clientIps \ {ip}
    /\ UNCHANGED <<log, tail, connDirty, database, tick, flush, loading, collector, history>>

\* ... then the rows, in one transaction.
DeleteFromDb ==
    /\ ui = "deleting"
    /\ ui' = "open"
    /\ deleting' = Nobody
    /\ ipTraffic' = Without(ipTraffic, {deleting})
    /\ ipSni' = [ipSni EXCEPT ![deleting] = 0]
    /\ erased' = Overwritten(erased, [ip \in {deleting} |-> moved[ip]])
    /\ UNCHANGED <<log, tail, registry, tick, flush, loading, collector,
                   fed, expired, moved, starts, events>>

\* on_unmount begins, whatever the worker and the loader are doing.
Quit ==
    /\ ui = "open"
    /\ ui' = "flush"
    /\ Event("quit")
    /\ UNCHANGED <<log, tail, registry, database, tick, flush, deleting, loading, collector,
                   fed, expired, moved, erased, starts>>

\* traffic_log.close
CloseDb ==
    /\ ui = "close"
    /\ ui' = "closed"
    /\ UNCHANGED <<log, tail, registry, database, tick, flush, deleting, loading, collector,
                   history>>

\* The process ends: by itself, once its threads are done, or it is killed.
Exit ==
    /\ Running
    /\ IF ui = "closed" /\ worker = "idle" /\ loader = "done"
       THEN UNCHANGED events
       ELSE Event("kill")
    /\ tailRead' = NoHits /\ tailSni' = NoHits
    /\ records' = Empty /\ online' = {} /\ clientIps' = {} /\ connDirty' = FALSE
    /\ sniFlush' = NoHits /\ dirtyIps' = {}
    /\ worker' = "idle" /\ logSnap' = {} /\ fetched' = FALSE /\ prevIps' = {}
    /\ flush' = [p \in Flushers |-> Idle]
    /\ ui' = "off" /\ deleting' = Nobody
    /\ loader' = "off" /\ loaded' = Empty
    /\ UNCHANGED <<log, database, collector, fed, expired, moved, erased, starts>>

\* on_mount
Start ==
    /\ ui = "off"
    /\ starts < MaxStarts
    /\ starts' = starts + 1
    /\ ui' = "open"
    /\ loader' = "bytes"
    /\ UNCHANGED <<log, tail, registry, database, tick, flush, deleting, loaded, collector,
                   fed, expired, moved, erased, events>>
-----------------------------------------------------------------------------
(* load_from_db: three reads, then one merge under the lock *)

LoadIpBytes ==
    /\ loader = "bytes" /\ loader' = "sni"
    /\ loaded' = ipTraffic
    /\ UNCHANGED <<log, tail, registry, database, tick, flush, interface, collector, history>>

LoadIpSni ==
    /\ loader = "sni" /\ loader' = "rows"
    /\ loaded' = WithRows(loaded, {ip \in IPs : ipSni[ip] > 0})
    /\ UNCHANGED <<log, tail, registry, database, tick, flush, interface, collector, history>>

QueryAllIps ==
    /\ loader = "rows" /\ loader' = "merge"
    /\ loaded' = Merged(loaded, ipTraffic)
    /\ UNCHANGED <<log, tail, registry, database, tick, flush, interface, collector, history>>

LoadMerge ==
    /\ loader = "merge" /\ loader' = "done"
    /\ records' = Merged(records, loaded)
    /\ loaded' = Empty
    /\ UNCHANGED <<log, tail, online, clientIps, connDirty, sniFlush, dirtyIps, database,
                   tick, flush, interface, collector, history>>

\* A read fails: _load_ip_data_from_db logs it, and the registry stays as it is.
LoadFails ==
    /\ loader \in {"bytes", "sni", "rows"} /\ loader' = "done"
    /\ loaded' = Empty
    /\ IF DbOpen THEN Event("load") ELSE UNCHANGED events
    /\ UNCHANGED <<log, tail, registry, database, tick, flush, interface, collector,
                   fed, expired, moved, erased, starts>>
-----------------------------------------------------------------------------
(* The collector process: its main loop *)

CollectorScan ==
    /\ WithCollector
    /\ collector.pc = "scan"
    /\ collector.read # lines
    /\ collector' = [collector EXCEPT !.read = lines,
                                      !.sni = Plus(@, NewLines(collector.read))]
    /\ fed' = Plus(fed, NewLines(collector.read))
    /\ UNCHANGED <<log, tail, registry, database, tick, flush, interface, loading,
                   expired, moved, erased, starts, events>>

CollectorSaveSni ==
    /\ collector.pc = "scan"
    /\ collector.sni # NoHits
    /\ SaveHits(collector.sni)
    /\ collector' = [collector EXCEPT !.pc = "conn", !.sni = NoHits]
    /\ UNCHANGED <<log, tail, registry, ipTraffic, tick, flush, interface, loading,
                   fed, moved, erased, starts, events>>

\* client_ips of the collector's LogTail.
CollectorClients == {ip \in recent : collector.read[ip] > 0}

\* Comes after the hits are saved, or by itself when there are none to save.
CollectorSaveConnections ==
    /\ WithCollector
    /\ collector.sni = NoHits
    /\ ipTraffic' = WithRows(ipTraffic, CollectorClients)
    /\ collector' = [collector EXCEPT !.pc = "scan"]
    /\ UNCHANGED <<log, tail, registry, ipSni, tick, flush, interface, loading, history>>

\* A write fails: that of the hits, which flush_new_sni has already taken from the buffer,
\* or that of the connections.
CollectorSaveFails ==
    /\ collector.sni # NoHits \/ CollectorClients # {}
    /\ Event("write")
    /\ collector' = [collector EXCEPT !.pc = "scan", !.sni = NoHits]
    /\ UNCHANGED <<log, tail, registry, database, tick, flush, interface, loading,
                   fed, expired, moved, erased, starts>>
-----------------------------------------------------------------------------
Environment == \E ip \in IPs : Line(ip) \/ Expire(ip)

Tick ==
    \/ Scan
    \/ \E ip \in IPs : UpdateTraffic(ip)
    \/ \E S \in SUBSET IPs : UpdateOnline(S)
    \/ FetchFails
    \/ UpdateConnections
    \/ UpdateSni

Flush(p) ==
    \/ Snapshot(p, {})
    \/ \E gone \in Evicted \ {{}} : Snapshot(p, gone)
    \/ SaveSni(p)
    \/ SaveBytes(p)
    \/ SaveConnections(p)
    \/ SaveFails(p)

Interface ==
    \/ \E ip \in IPs : DeleteFromMemory(ip)
    \/ DeleteFromDb
    \/ Quit
    \/ CloseDb
    \/ Exit
    \/ Start

Load == LoadIpBytes \/ LoadIpSni \/ QueryAllIps \/ LoadMerge \/ LoadFails

Collector ==
    \/ CollectorScan
    \/ CollectorSaveSni
    \/ CollectorSaveConnections
    \/ CollectorSaveFails

Next ==
    \/ Environment
    \/ Tick
    \/ \E p \in Flushers : Flush(p)
    \/ Interface
    \/ Load
    \/ Collector

Spec == Init /\ [][Next]_vars
-----------------------------------------------------------------------------
(* Properties *)

\* Where the hits of an address are, the retention's victims included.
Placed(ip) ==
    tailSni[ip] + sniFlush[ip] + collector.sni[ip] + ipSni[ip] + expired[ip]
        + flush["worker"].sni[ip] + flush["ui"].sni[ip]

\* The hits the readers produced are never multiplied on their way to the table,
\* whoever flushes, deletes, loads or fails when; and all of them are in a buffer or in
\* the table, or were removed from it as older than 30 days, unless a write failed, the
\* program ended, or the user deleted the address.
SniConserved ==
    \A ip \in IPs :
        /\ Placed(ip) <= fed[ip]
        /\ events \intersect {"write", "kill", "quit"} = {} /\ deleting # ip /\ ip \notin DOMAIN erased
            => Placed(ip) = fed[ip]

\* No byte is invented: neither memory nor the table, nor a value on its way to the
\* table or back, exceeds what was attributed to the address.
BytesNotInvented ==
    \A ip \in IPs :
        \A m \in {records, ipTraffic, loaded} \union {flush[p].bytes : p \in Flushers} :
            Get(m, ip) <= moved[ip]

Lowered ==
    \E ip \in (DOMAIN ipTraffic \intersect DOMAIN ipTraffic') \ (DOMAIN erased \union {deleting}) :
        ipTraffic'[ip] < ipTraffic[ip]

\* save_ip_bytes overwrites totals, so the flush must always be at least as new as
\* the table.  It is, as long as no flush runs before the load is through, the load
\* succeeds, nothing is evicted and the program is not being quit.  (An address the
\* user has deleted starts again at zero.)
TotalsOnlyGrow ==
    [][events' \intersect {"load", "evict", "early", "quit"} = {} => ~Lowered]_vars

\* "История IP очищена": what a deletion removed from the table does not come back.
DeletionIsFinal ==
    \A ip \in IPs : deleting # ip => Get(ipTraffic, ip) <= moved[ip] - Get(erased, ip)
=============================================================================
