----------------------------- MODULE GeoLookups -----------------------------
(***************************************************************************)
(* The geolocation of the monitor that is installed, with the interface    *)
(* that draws the addresses on its screen again and again.                 *)
(***************************************************************************)
EXTENDS Integers, Sequences, FiniteSets

CONSTANTS
    Addresses, CacheMax, GoCacheMax, MaxConcurrent, Threads, MaxLost, MaxQueue, \* as in GeoIP and GoGeoIP
    Drawn       \* addresses that are drawn again and again

ASSUME LimitsAssumption ==
    /\ {CacheMax, GoCacheMax, MaxConcurrent} \subseteq Nat \ {0} /\ {MaxLost, MaxQueue} \subseteq Nat
    /\ IsFiniteSet(Threads) /\ Drawn \subseteq Addresses

VARIABLES
    installed,
    cache, expired, pending, overdue, permits, ui, threads, lost,
    offline, goCache, goExpired, cacheQ, goPending, goOverdue, fetches, drifted

Py == INSTANCE GeoIP
Go == INSTANCE GoGeoIP WITH CacheMax <- GoCacheMax, cache <- goCache, expired <- goExpired,
                            pending <- goPending, overdue <- goOverdue

geoVars == <<cache, expired, pending, overdue, permits, ui, threads, lost>>
goGeoVars == <<offline, goCache, goExpired, cacheQ, goPending, goOverdue, fetches, drifted>>
vars == <<installed, geoVars, goGeoVars>>

TypeOK == installed \in {"python", "go"} /\ Py!GeoTypeOK /\ Go!GoGeoTypeOK

Init ==
    /\ installed \in {"python", "go"}
    /\ Py!GeoInit /\ Go!GoGeoInit
    /\ installed = "python" => ~offline

PyStep(A) == installed = "python" /\ A /\ UNCHANGED <<installed, goGeoVars>>
GoStep(A) == installed = "go" /\ A /\ UNCHANGED <<installed, geoVars>>

PyLookup(ip) == PyStep(Py!Lookup(ip))
PyOverdue(ip) == PyStep(Py!BecomeOverdue(ip))
PyExpire(ip) == PyStep(Py!Expire(ip))
PyUI == PyStep(Py!UISteps)
PyFetch(t) == PyStep(Py!Fetch(t))
GoLookup(ip) == GoStep(Go!GoLookup(ip))
GoOverdue(ip) == GoStep(Go!GoBecomeOverdue(ip))
GoExpire(ip) == GoStep(Go!GoExpire(ip))
GoAsk(t) == GoStep(Go!GoAsk(t))
GoStore(t) == GoStep(Go!GoStore(t))

Next ==
    \/ \E ip \in Addresses : PyLookup(ip) \/ PyOverdue(ip) \/ PyExpire(ip)
    \/ \E ip \in Addresses : GoLookup(ip) \/ GoOverdue(ip) \/ GoExpire(ip)
    \/ PyUI
    \/ \E t \in Threads : PyFetch(t) \/ GoAsk(t) \/ GoStore(t)

\* The interface draws what is on its screen again and again; time passes for marks; threads run
\* and requests end, with their time-outs; a channel is served in order.
Fairness ==
    /\ \A ip \in Drawn : SF_vars(PyLookup(ip)) /\ WF_vars(PyOverdue(ip))
    /\ WF_vars(PyUI)
    /\ \A t \in Threads : WF_vars(PyFetch(t)) /\ SF_vars(GoAsk(t)) /\ WF_vars(GoStore(t))

Spec == Init /\ [][Next]_vars /\ Fairness
-----------------------------------------------------------------------------
(* Properties *)

\* Python: a permit is free, with a thread that asks, or lost with one that did not start.
PermitsConserved == Py!PermitsConserved

\* Python: no address is fetched twice at once while its marks hold.
OneFetch == Py!OneFetch

\* Go: eviction can reach every entry of the cache.
Evictable == Go!Evictable

\* Go: the cache keeps its limit until an expired entry is looked up or one is stored twice.
BoundedUntilDrift == Go!BoundedUntilDrift

\* Go: a mark stands for a goroutine that will remove it.
MarkHasFetch == Go!MarkHasFetch

\* While a permit is left (with the last one lost nothing is ever asked again), every address
\* that is drawn is located if in the end no entry expires or is evicted, although a full
\* semaphore leaves it marked without a fetch.
Located ==
    installed = "python" /\ [](lost < MaxConcurrent) /\ <>[][Py!CacheKeeps]_vars =>
        \A ip \in Drawn : <>(ip \in Py!Cached)

\* No mark of the Go monitor stays: its fetch ends, however many wait for a place.
MarksEnd == \A ip \in Addresses : ip \in goPending ~> ip \notin goPending
=============================================================================
