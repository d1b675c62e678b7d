------------------------------ MODULE GoGeoIP -------------------------------
(***************************************************************************)
(* Geolocation in the Go monitor (geoip.go).  A lookup is one critical     *)
(* section; it starts a goroutine, and that waits for one of the places of *)
(* the semaphore unless there is a local database.  As in GeoIP entries    *)
(* expire and marks become overdue at any moment.                          *)
(***************************************************************************)
EXTENDS Integers, Sequences, FiniteSets, FiniteSetsExt

CONSTANTS
    Addresses,
    CacheMax,       \* cacheMax, 2000
    MaxConcurrent,  \* capacity of sem, 5
    Threads,        \* bound: goroutines under way
    MaxQueue        \* bound: entries of the eviction queue

VARIABLES
    offline,
    cache, expired,     \* addresses in cache, and those of them that are too old
    cacheQ,             \* insertion order
    pending, overdue,   \* addresses in pending, and those of them older than pendingTTL
    fetches,            \* goroutine -> address and where it is
    drifted             \* history: the queue no longer lists just what is in the cache

goGeoVars == <<offline, cache, expired, cacheQ, pending, overdue, fetches, drifted>>

None == "none"
NoFetch == [at |-> "idle", ip |-> None]
Busy == {t \in Threads : fetches[t].at # "idle"}
Queued == {cacheQ[i] : i \in DOMAIN cacheQ}

GoGeoTypeOK ==
    /\ offline \in BOOLEAN
    /\ expired \subseteq cache /\ cache \subseteq Addresses
    /\ cacheQ \in Seq(Addresses) /\ Len(cacheQ) <= MaxQueue
    /\ overdue \subseteq pending /\ pending \subseteq Addresses
    /\ fetches \in [Threads -> [at : {"idle", "waiting", "asking"}, ip : Addresses \union {None}]]
    /\ Cardinality({t \in Threads : fetches[t].at = "asking"}) <= MaxConcurrent \/ offline
    /\ drifted \in BOOLEAN

GoGeoInit ==
    /\ offline \in BOOLEAN
    /\ cache = {} /\ expired = {} /\ cacheQ = <<>>
    /\ pending = {} /\ overdue = {}
    /\ fetches = [t \in Threads |-> NoFetch]
    /\ drifted = FALSE

\* Bounded with the queue: an entry expires when it could be stored again.
GoExpire(ip) ==
    /\ ip \in cache \ expired
    /\ Len(cacheQ) + Cardinality(Busy) < MaxQueue
    /\ expired' = expired \union {ip}
    /\ UNCHANGED <<offline, cache, cacheQ, pending, overdue, fetches, drifted>>

GoBecomeOverdue(ip) ==
    /\ ip \in pending \ overdue
    /\ overdue' = overdue \union {ip}
    /\ UNCHANGED <<offline, cache, expired, cacheQ, pending, fetches, drifted>>

GoHit(ip) == ip \in cache \ expired /\ UNCHANGED goGeoVars

\* An expired entry is deleted from the cache, not from the queue.
Deleted(ip) ==
    /\ cache' = cache \ {ip} /\ expired' = expired \ {ip}
    /\ drifted' = (drifted \/ ip \in cache)

StillPending(ip) ==
    /\ ip \notin cache \ expired
    /\ ip \in pending \ overdue
    /\ Deleted(ip)
    /\ UNCHANGED <<offline, cacheQ, pending, overdue, fetches>>

GoStartFetch(ip) ==
    /\ ip \notin cache \ expired
    /\ ip \notin pending \ overdue
    /\ Busy # Threads /\ Len(cacheQ) + Cardinality(Busy) < MaxQueue
    /\ Deleted(ip)
    /\ pending' = pending \union {ip} /\ overdue' = overdue \ {ip}
    /\ fetches' = [fetches EXCEPT ![CHOOSE t \in Threads : t \notin Busy] =
                        [at |-> "waiting", ip |-> ip]]
    /\ UNCHANGED <<offline, cacheQ>>

GoLookup(ip) == GoHit(ip) \/ StillPending(ip) \/ GoStartFetch(ip)

\* The semaphore, which a lookup in the local database does not need.
GoAsk(t) ==
    /\ fetches[t].at = "waiting"
    /\ offline \/ Cardinality({u \in Threads : fetches[u].at = "asking"}) < MaxConcurrent
    /\ fetches' = [fetches EXCEPT ![t].at = "asking"]
    /\ UNCHANGED <<offline, cache, expired, cacheQ, pending, overdue, drifted>>

\* When there is no room (faulty variants for mutation: one entry too late, and without the
\* queue).
FullLate == Cardinality(cache) > CacheMax
Full == Cardinality(cache) >= CacheMax
Unqueued(ip) == cacheQ
Enqueued(ip) == Append(IF Full THEN Tail(cacheQ) ELSE cacheQ, ip)

\* cacheSet: the head of the queue goes, whether or not it is an entry still, or the one
\* that is being stored again.
GoCacheSet(ip) ==
    LET kept == IF Full THEN cache \ {Head(cacheQ)} ELSE cache
    IN  /\ cache' = kept \union {ip}
        /\ expired' = (expired \intersect kept) \ {ip}
        /\ cacheQ' = Enqueued(ip)
        /\ drifted' = (drifted \/ ip \in Queued)

\* An answer, or a failure with a shorter life: the mark goes and the entry is stored.
\* (A faulty variant for mutation leaves the mark of an entry that fails.)
Marked(t) == pending
Unmarked(t) == pending \ {fetches[t].ip}

GoStore(t) ==
    /\ fetches[t].at = "asking"
    /\ pending' = Unmarked(t)
    /\ overdue' = overdue \intersect pending'
    /\ GoCacheSet(fetches[t].ip)
    /\ fetches' = [fetches EXCEPT ![t] = NoFetch]
    /\ UNCHANGED offline

GoFetch(t) == GoAsk(t) \/ GoStore(t)
-----------------------------------------------------------------------------
\* Every entry is in the queue, so that eviction can reach it.
Evictable == cache \subseteq Queued

\* The cache stays within its limit as long as no entry that has expired is looked up and no
\* address is stored twice; after that an eviction may find nothing to remove.
BoundedUntilDrift == ~drifted => Cardinality(cache) <= CacheMax

\* A mark stands for a goroutine that will remove it.
MarkHasFetch == \A ip \in pending : \E t \in Busy : fetches[t].ip = ip
=============================================================================
