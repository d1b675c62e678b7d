------------------------------- MODULE GeoIP --------------------------------
(***************************************************************************)
(* Geolocation in the Python monitor (modules/geoip.py).  The UI thread    *)
(* looks an address up whenever it draws it: in the cache, in the local    *)
(* database, or by a thread that asks ip-api.com, as long as the semaphore *)
(* has a permit.  A lookup is several critical sections, between which     *)
(* fetches may end.                                                        *)
(*                                                                         *)
(* Time is left out: an entry may expire, and a mark in the pending table  *)
(* may become overdue, at any moment.  Answers and failures are cached     *)
(* alike, so an entry is only an address.  A local database, if there is   *)
(* one, answers a lookup or not.                                           *)
(***************************************************************************)
EXTENDS Integers, Sequences, FiniteSets, FiniteSetsExt

CONSTANTS
    Addresses,
    CacheMax,       \* _CACHE_MAX, 1000
    MaxConcurrent,  \* _MAX_CONCURRENT, 5
    Threads,        \* bound: fetches under way, with or without a permit
    MaxLost         \* bound: threads that cannot be started

VARIABLES
    cache,      \* _cache in its order
    expired,    \* addresses in the cache whose entry is too old
    pending,    \* _pending: the addresses that are marked
    overdue,    \* those marked for longer than _PENDING_TIMEOUT
    permits,    \* _semaphore
    ui,         \* where the UI thread is in lookup, and with which address
    threads,    \* _fetch_api: address, where it is, and whether its mark is gone
    lost        \* history: permits of threads that could not be started

None == "none"
Idle == [at |-> "idle", ip |-> None]
NoFetch == [at |-> "idle", ip |-> None, unmarked |-> FALSE]
Cached == {cache[i] : i \in DOMAIN cache}
Without(ip) ==
    LET i == CHOOSE i \in DOMAIN cache : cache[i] = ip
    IN  IF ip \in Cached THEN SubSeq(cache, 1, i - 1) \o SubSeq(cache, i + 1, Len(cache)) ELSE cache
Busy == {t \in Threads : threads[t].at # "idle"}
AThread == CHOOSE t \in Threads : t \notin Busy
Asking == {t \in Threads : threads[t].at = "asking"}

GeoTypeOK ==
    /\ cache \in Seq(Addresses) /\ \A i, j \in DOMAIN cache : cache[i] = cache[j] => i = j
    /\ Len(cache) <= CacheMax
    /\ expired \subseteq Cached /\ overdue \subseteq pending /\ pending \subseteq Addresses
    /\ permits \in 0 .. MaxConcurrent
    /\ ui \in [at : {"idle", "missed", "unknown", "marked"}, ip : Addresses \union {None}]
    /\ threads \in [Threads -> [at : {"idle", "asking", "released"}, ip : Addresses \union {None},
                                unmarked : BOOLEAN]]
    /\ lost \in 0 .. MaxLost

GeoInit ==
    /\ cache = <<>> /\ expired = {}
    /\ pending = {} /\ overdue = {}
    /\ permits = MaxConcurrent
    /\ ui = Idle /\ threads = [t \in Threads |-> NoFetch]
    /\ lost = 0
-----------------------------------------------------------------------------
(* Time *)

Expire(ip) ==
    /\ ip \in Cached \ expired
    /\ expired' = expired \union {ip}
    /\ UNCHANGED <<cache, pending, overdue, permits, ui, threads, lost>>

\* The marks of fetches of this address are gone.
Unmark(ip) ==
    [t \in Threads |-> IF threads[t].ip = ip THEN [threads[t] EXCEPT !.unmarked = TRUE] ELSE threads[t]]

BecomeOverdue(ip) ==
    /\ ip \in pending \ overdue
    /\ overdue' = overdue \union {ip}
    /\ threads' = Unmark(ip)
    /\ UNCHANGED <<cache, expired, pending, permits, ui, lost>>
-----------------------------------------------------------------------------
(* lookup, on the UI thread *)

Hit(ip) ==
    /\ ui = Idle /\ ip \in Cached \ expired
    /\ cache' = Append(Without(ip), ip)
    /\ UNCHANGED <<expired, pending, overdue, permits, ui, threads, lost>>

Miss(ip) ==
    /\ ui = Idle /\ ip \notin Cached \ expired
    /\ cache' = Without(ip) /\ expired' = expired \ {ip}
    /\ ui' = [at |-> "missed", ip |-> ip]
    /\ UNCHANGED <<pending, overdue, permits, threads, lost>>

Lookup(ip) == Hit(ip) \/ Miss(ip)

\* _cache_set.  The oldest entries go until there is room, although the address may have an
\* entry, which keeps its place.  (A faulty variant for mutation makes room for none.)
Untrimmed == SubSeq(cache, Max({1, Len(cache) - CacheMax + 1}), Len(cache))
Trimmed == SubSeq(cache, Max({1, Len(cache) - CacheMax + 2}), Len(cache))
InSeq(ip, s) == \E i \in DOMAIN s : s[i] = ip

CacheSet(ip) ==
    /\ cache' = IF InSeq(ip, Trimmed) THEN Trimmed ELSE Append(Trimmed, ip)
    /\ expired' = {x \in expired : InSeq(x, Trimmed)} \ {ip}
    /\ pending' = pending \ {ip} /\ overdue' = overdue \ {ip}

\* There is a local database, which knows the address or knows that it does not.
MaxMind ==
    /\ ui.at = "missed"
    /\ CacheSet(ui.ip)
    /\ threads' = Unmark(ui.ip)
    /\ ui' = Idle
    /\ UNCHANGED <<permits, lost>>

\* There is none, or reading it fails.
NoMaxMind ==
    /\ ui.at = "missed"
    /\ ui' = [ui EXCEPT !.at = "unknown"]
    /\ UNCHANGED <<cache, expired, pending, overdue, permits, threads, lost>>

\* Marks that still hold; a faulty variant for mutation never gives one up, another does not
\* look at them.
EveryMark == pending
NoMark == {}
Marks == pending \ overdue

AlreadyPending ==
    /\ ui.at = "unknown" /\ ui.ip \in Marks
    /\ ui' = Idle
    /\ UNCHANGED <<cache, expired, pending, overdue, permits, threads, lost>>

\* The address is marked before the semaphore is tried.
MarkPending ==
    /\ ui.at = "unknown" /\ ui.ip \notin Marks
    /\ pending' = pending \union {ui.ip} /\ overdue' = overdue \ {ui.ip}
    /\ ui' = [ui EXCEPT !.at = "marked"]
    /\ UNCHANGED <<cache, expired, permits, threads, lost>>

NoPermit ==
    /\ ui.at = "marked" /\ permits = 0
    /\ ui' = Idle
    /\ UNCHANGED <<cache, expired, pending, overdue, permits, threads, lost>>

StartFetch ==
    /\ ui.at = "marked" /\ permits > 0
    /\ Busy # Threads
    /\ permits' = permits - 1
    /\ threads' = [threads EXCEPT ![AThread] = [at |-> "asking", ip |-> ui.ip,
                                                unmarked |-> ui.ip \notin pending \ overdue]]
    /\ ui' = Idle
    /\ UNCHANGED <<cache, expired, pending, overdue, lost>>

\* No thread can be started: the exception leaves the permit taken.
StartFails ==
    /\ ui.at = "marked" /\ permits > 0
    /\ lost < MaxLost
    /\ lost' = lost + 1 /\ permits' = permits - 1
    /\ ui' = Idle
    /\ UNCHANGED <<cache, expired, pending, overdue, threads>>
-----------------------------------------------------------------------------
(* _fetch_api, on a thread *)

\* What an answer or a failure leaves of the semaphore; a faulty variant for mutation
\* releases it for answers only.
ReleasedByAnswer == {permits, permits + 1}
Released == {permits + 1}

Answer(t) ==
    /\ threads[t].at = "asking"
    /\ permits' \in Released
    /\ threads' = [threads EXCEPT ![t].at = "released"]
    /\ UNCHANGED <<cache, expired, pending, overdue, ui, lost>>

Store(t) ==
    /\ threads[t].at = "released"
    /\ CacheSet(threads[t].ip)
    /\ threads' = [Unmark(threads[t].ip) EXCEPT ![t] = NoFetch]
    /\ UNCHANGED <<permits, ui, lost>>

UISteps == MaxMind \/ NoMaxMind \/ AlreadyPending \/ MarkPending \/ NoPermit \/ StartFetch \/ StartFails
Fetch(t) == Answer(t) \/ Store(t)
-----------------------------------------------------------------------------
\* Every permit is free, with a thread that asks, or lost with a thread that could not be
\* started: failures, late answers and lookups meanwhile lose and invent none.
PermitsConserved == permits + Cardinality(Asking) + lost = MaxConcurrent

\* An address is not fetched twice at the same time, unless a mark was overdue, or removed
\* by an older fetch that was.
OneFetch ==
    \A t, u \in Busy :
        t # u /\ threads[t].ip = threads[u].ip => threads[t].unmarked \/ threads[u].unmarked

\* Entries leave the cache.
CacheKeeps == Cached \subseteq {cache'[i] : i \in DOMAIN cache'}
=============================================================================
