-------------------------- MODULE GeoLookupsProofs --------------------------
(***************************************************************************)
(* Proofs about GeoLookups, for any addresses, limits and threads.         *)
(***************************************************************************)
EXTENDS GeoLookups, FiniteSetTheorems, SequenceTheorems, TLAPS

\* Python: where the UI thread and the fetches are, they have an address; a fetch whose mark
\* is not known to be gone has one that holds; and when the UI thread has marked an address,
\* no other fetch of it still counts on its mark.
Marked ==
    /\ ui.at # "idle" => ui.ip \in Addresses
    /\ \A t \in Py!Busy : threads[t].ip \in Addresses
    /\ \A t \in Py!Busy : ~threads[t].unmarked => threads[t].ip \in pending \ overdue
    /\ ui.at = "marked" => \A t \in Py!Busy : threads[t].ip = ui.ip => threads[t].unmarked

PyInv == Py!GeoTypeOK /\ Marked /\ PermitsConserved /\ OneFetch

\* Go: each goroutine has an address, and room in the bounded queue; as long as the queue has
\* not drifted it lists the cache, each address once.
Listed ==
    /\ \A t \in Go!Busy : fetches[t].ip \in Addresses
    /\ Len(cacheQ) + Cardinality(Go!Busy) <= MaxQueue
    /\ IsFiniteSet(goCache)
    /\ ~drifted => /\ Go!Queued \subseteq goCache
                   /\ \A i, j \in DOMAIN cacheQ : cacheQ[i] = cacheQ[j] => i = j

GoInv == Go!GoGeoTypeOK /\ Listed /\ Evictable /\ BoundedUntilDrift /\ MarkHasFetch

IInv == installed \in {"python", "go"} /\ PyInv /\ GoInv
\* The components count with the operator of the library.
LEMMA PyCardinality == ASSUME NEW S PROVE Py!Cardinality(S) = Cardinality(S)
  BY DEF Py!Cardinality, Cardinality

LEMMA GoCardinality == ASSUME NEW S PROVE Go!Cardinality(S) = Cardinality(S)
  BY DEF Go!Cardinality, Cardinality
-----------------------------------------------------------------------------
(* Sequences without repetition *)

Elems(s) == {s[i] : i \in DOMAIN s}
Once(s) == \A i, j \in DOMAIN s : s[i] = s[j] => i = j

LEMMA RemovedAt ==
  ASSUME NEW S, NEW s \in Seq(S), Once(s), NEW i \in 1 .. Len(s)
  PROVE  LET r == SubSeq(s, 1, i - 1) \o SubSeq(s, i + 1, Len(s))
         IN  /\ r \in Seq(S) /\ Len(r) = Len(s) - 1 /\ Once(r)
             /\ Elems(r) = Elems(s) \ {s[i]}
<1> DEFINE a == SubSeq(s, 1, i - 1)
           b == SubSeq(s, i + 1, Len(s))
           r == a \o b
<1>1. a \in Seq(S) /\ Len(a) = i - 1 /\ \A k \in 1 .. i - 1 : a[k] = s[k]
  OBVIOUS
<1>2. b \in Seq(S) /\ Len(b) = Len(s) - i /\ \A k \in 1 .. Len(s) - i : b[k] = s[k + i]
  OBVIOUS
<1> HIDE DEF a, b
<1>3. r \in Seq(S) /\ Len(r) = Len(s) - 1
  <2>1. a \o b \in Seq(S) /\ Len(a \o b) = Len(a) + Len(b)
    BY <1>1, <1>2, ConcatProperties
  <2> QED BY <1>1, <1>2, <2>1
<1>4. \A k \in 1 .. Len(r) : r[k] = IF k < i THEN s[k] ELSE s[k + 1]
  <2> TAKE k \in 1 .. Len(r)
  <2>1. CASE k < i
    BY <1>1, <1>2, <1>3, <2>1
  <2>2. CASE k >= i
    <3>1. r[k] = b[k - Len(a)]
      BY <1>1, <1>2, <1>3, <2>2
    <3>2. b[k - Len(a)] = s[k + 1]
      BY <1>1, <1>2, <1>3, <2>2
    <3> QED BY <2>2, <3>1, <3>2
  <2> QED BY <2>1, <2>2
<1> HIDE DEF r
<1>5. DOMAIN r = 1 .. Len(s) - 1 /\ DOMAIN s = 1 .. Len(s)
  BY <1>3
<1>6. Once(r)
  <2> SUFFICES ASSUME NEW j \in 1 .. Len(r), NEW k \in 1 .. Len(r), r[j] = r[k] PROVE j = k
    BY <1>3, <1>5 DEF Once
  <2> DEFINE at(n) == IF n < i THEN n ELSE n + 1
  <2>1. at(j) \in 1 .. Len(s) /\ at(k) \in 1 .. Len(s)
    BY <1>3
  <2>2. s[at(j)] = s[at(k)]
    BY <1>4
  <2>3. at(j) = at(k)
    BY <1>5, <2>1, <2>2 DEF Once
  <2> QED BY <2>3
<1>7. Elems(r) = Elems(s) \ {s[i]}
  <2>1. ASSUME NEW x \in Elems(r) PROVE x \in Elems(s) \ {s[i]}
    <3>1. PICK k \in 1 .. Len(r) : x = r[k]
      BY <1>3 DEF Elems
    <3>2. PICK j \in 1 .. Len(s) : j # i /\ x = s[j]
      <4>1. CASE k < i
        BY <1>3, <1>4, <3>1, <4>1
      <4>2. CASE ~(k < i)
        BY <1>3, <1>4, <3>1, <4>2
      <4> QED BY <4>1, <4>2
    <3>3. x # s[i]
      BY <1>5, <3>2 DEF Once
    <3> QED BY <3>2, <3>3 DEF Elems
  <2>2. ASSUME NEW x \in Elems(s) \ {s[i]} PROVE x \in Elems(r)
    <3>1. PICK k \in 1 .. Len(s) : x = s[k]
      BY <1>5 DEF Elems
    <3>2. CASE k < i
      <4>1. k \in 1 .. Len(r) /\ r[k] = s[k]
        BY <1>3, <1>4, <3>2
      <4> QED BY <1>5, <3>1, <4>1 DEF Elems
    <3>3. CASE k > i
      <4>1. k - 1 \in 1 .. Len(r) /\ r[k - 1] = s[k]
        BY <1>3, <1>4, <3>3
      <4> QED BY <1>5, <3>1, <4>1, <1>3 DEF Elems
    <3>4. k # i
      BY <3>1
    <3> QED BY <3>2, <3>3, <3>4
  <2> QED BY <2>1, <2>2
<1> QED BY <1>3, <1>6, <1>7 DEF r, a, b

LEMMA AppendedOnce ==
  ASSUME NEW S, NEW s \in Seq(S), Once(s), NEW x \in S, x \notin Elems(s)
  PROVE  LET r == Append(s, x)
         IN  r \in Seq(S) /\ Len(r) = Len(s) + 1 /\ Once(r) /\ Elems(r) = Elems(s) \union {x}
<1> DEFINE r == Append(s, x)
<1>1. r \in Seq(S) /\ Len(r) = Len(s) + 1 /\ r[Len(s) + 1] = x
      /\ \A k \in 1 .. Len(s) : r[k] = s[k]
  OBVIOUS
<1> HIDE DEF r
<1>2. DOMAIN r = 1 .. Len(s) + 1 /\ DOMAIN s = 1 .. Len(s) /\ Len(s) \in Nat
  BY <1>1
<1>3. Once(r)
  BY <1>1, <1>2 DEF Once, Elems
<1>4. Elems(r) = Elems(s) \union {x}
  BY <1>1, <1>2 DEF Elems
<1> QED BY <1>1, <1>3, <1>4 DEF r

LEMMA AppendedElems ==
  ASSUME NEW S, NEW s \in Seq(S), NEW x \in S
  PROVE  /\ Append(s, x) \in Seq(S) /\ Len(Append(s, x)) = Len(s) + 1
         /\ Elems(Append(s, x)) = Elems(s) \union {x}
<1> DEFINE r == Append(s, x)
<1>1. r \in Seq(S) /\ Len(r) = Len(s) + 1 /\ r[Len(s) + 1] = x
      /\ \A k \in 1 .. Len(s) : r[k] = s[k]
  OBVIOUS
<1> HIDE DEF r
<1>2. DOMAIN r = 1 .. Len(s) + 1 /\ DOMAIN s = 1 .. Len(s) /\ Len(s) \in Nat
  BY <1>1
<1>3. Elems(r) = Elems(s) \union {x}
  BY <1>1, <1>2 DEF Elems
<1> QED BY <1>1, <1>3 DEF r

\* The last entries, from the k-th on.
LEMMA LastOnce ==
  ASSUME NEW S, NEW s \in Seq(S), Once(s), NEW k \in Nat, k >= 1
  PROVE  LET r == SubSeq(s, k, Len(s))
         IN  /\ r \in Seq(S) /\ Len(r) = (IF k <= Len(s) THEN Len(s) - k + 1 ELSE 0)
             /\ Once(r) /\ Elems(r) \subseteq Elems(s)
<1> DEFINE r == SubSeq(s, k, Len(s))
<1>1. r \in Seq(S) /\ Len(r) = (IF k <= Len(s) THEN Len(s) - k + 1 ELSE 0)
  OBVIOUS
<1>2. \A j \in 1 .. Len(r) : r[j] = s[k + j - 1]
  OBVIOUS
<1> HIDE DEF r
<1>3. DOMAIN r = 1 .. Len(r) /\ DOMAIN s = 1 .. Len(s) /\ Len(s) \in Nat
  BY <1>1
<1>4. \A j \in 1 .. Len(r) : k + j - 1 \in 1 .. Len(s)
  BY <1>1, <1>3
<1>5. Once(r)
  <2> SUFFICES ASSUME NEW j \in 1 .. Len(r), NEW m \in 1 .. Len(r), r[j] = r[m] PROVE j = m
    BY <1>3 DEF Once
  <2>1. s[k + j - 1] = s[k + m - 1]
    BY <1>2
  <2>2. k + j - 1 = k + m - 1
    BY <1>3, <1>4, <2>1 DEF Once
  <2> QED BY <2>2
<1>6. Elems(r) \subseteq Elems(s)
  BY <1>2, <1>3, <1>4 DEF Elems
<1> QED BY <1>1, <1>5, <1>6 DEF r

\* The head is the only entry that leaves with it.
LEMMA TailElems ==
  ASSUME NEW S, NEW s \in Seq(S), s # <<>>
  PROVE  /\ Tail(s) \in Seq(S) /\ Len(Tail(s)) = Len(s) - 1 /\ Head(s) \in Elems(s)
         /\ Elems(s) = Elems(Tail(s)) \union {Head(s)}
         /\ Once(s) => Once(Tail(s)) /\ Head(s) \notin Elems(Tail(s))
<1>1. Len(s) \in Nat /\ Len(s) >= 1 /\ DOMAIN s = 1 .. Len(s) /\ Head(s) = s[1]
  OBVIOUS
<1>2. Tail(s) \in Seq(S) /\ Len(Tail(s)) = Len(s) - 1
      /\ \A j \in 1 .. Len(s) - 1 : Tail(s)[j] = s[j + 1]
  BY <1>1
<1>3. DOMAIN Tail(s) = 1 .. Len(s) - 1
  BY <1>1, <1>2
<1>4. Elems(s) = Elems(Tail(s)) \union {Head(s)}
  <2>1. ASSUME NEW x \in Elems(s) PROVE x \in Elems(Tail(s)) \union {Head(s)}
    <3>1. PICK k \in 1 .. Len(s) : x = s[k]
      BY <1>1 DEF Elems
    <3>2. CASE k = 1
      BY <1>1, <3>1, <3>2
    <3>3. CASE k # 1
      <4>1. k - 1 \in 1 .. Len(s) - 1 /\ Tail(s)[k - 1] = s[k]
        BY <1>1, <1>2, <3>3
      <4> QED BY <1>3, <3>1, <4>1 DEF Elems
    <3> QED BY <3>2, <3>3
  <2>2. ASSUME NEW x \in Elems(Tail(s)) \union {Head(s)} PROVE x \in Elems(s)
    BY <1>1, <1>2, <1>3 DEF Elems
  <2> QED BY <2>1, <2>2
<1>5. Once(s) => Once(Tail(s)) /\ Head(s) \notin Elems(Tail(s))
  BY <1>1, <1>2, <1>3 DEF Once, Elems
<1> QED BY <1>1, <1>2, <1>4, <1>5 DEF Elems
-----------------------------------------------------------------------------
(* Python: what the operations do to the cache and the threads *)

LEMMA CachedElems == Py!Cached = Elems(cache)
  BY DEF Py!Cached, Elems

LEMMA CacheTyped ==
  ASSUME Py!GeoTypeOK
  PROVE  /\ cache \in Seq(Addresses) /\ Once(cache) /\ Len(cache) <= CacheMax
         /\ expired \subseteq Elems(cache)
  BY CachedElems DEF Py!GeoTypeOK, Once

LEMMA CacheTypedBack ==
  ASSUME cache' \in Seq(Addresses), Once(cache'), Len(cache') <= CacheMax,
         expired' \subseteq Elems(cache')
  PROVE  /\ cache' \in Seq(Addresses) /\ Len(cache') <= CacheMax
         /\ \A i, j \in DOMAIN cache' : cache'[i] = cache'[j] => i = j
         /\ expired' \subseteq Py!Cached'
  BY DEF Once, Elems, Py!Cached

LEMMA WithoutFacts ==
  ASSUME Py!GeoTypeOK, NEW ip \in Addresses
  PROVE  /\ Py!Without(ip) \in Seq(Addresses) /\ Once(Py!Without(ip))
         /\ Elems(Py!Without(ip)) = Elems(cache) \ {ip}
         /\ Len(Py!Without(ip)) = IF ip \in Elems(cache) THEN Len(cache) - 1 ELSE Len(cache)
<1>1. cache \in Seq(Addresses) /\ Once(cache)
  BY CacheTyped
<1>2. CASE ip \in Elems(cache)
  <2> DEFINE i == CHOOSE i \in DOMAIN cache : cache[i] = ip
  <2>1. i \in 1 .. Len(cache) /\ cache[i] = ip
    <3>1. DOMAIN cache = 1 .. Len(cache)
      BY <1>1
    <3> QED BY <1>2, <3>1 DEF Elems
  <2>2. Py!Without(ip) = SubSeq(cache, 1, i - 1) \o SubSeq(cache, i + 1, Len(cache))
    BY <1>2, CachedElems DEF Py!Without
  <2> DEFINE rest == SubSeq(cache, 1, i - 1) \o SubSeq(cache, i + 1, Len(cache))
  <2>3. /\ rest \in Seq(Addresses) /\ Once(rest)
        /\ Elems(rest) = Elems(cache) \ {cache[i]} /\ Len(rest) = Len(cache) - 1
    <3> HIDE DEF i
    <3> QED BY <1>1, <2>1, RemovedAt, Zenon
  <2>4. Py!Without(ip) = rest /\ cache[i] = ip
    BY <2>1, <2>2
  <2> HIDE DEF i, rest
  <2> QED BY <1>2, <2>3, <2>4
<1>3. CASE ip \notin Elems(cache)
  BY <1>1, <1>3, CachedElems DEF Py!Without
<1> QED BY <1>2, <1>3

LEMMA MaxPair ==
  ASSUME NEW a \in Int, NEW b \in Int
  PROVE  Py!Max({a, b}) = IF a >= b THEN a ELSE b
<1>1. \E m \in {a, b} : \A y \in {a, b} : m >= y
  OBVIOUS
<1>2. Py!Max({a, b}) \in {a, b} /\ \A y \in {a, b} : Py!Max({a, b}) >= y
  BY <1>1 DEF Py!Max
<1> QED BY <1>2

LEMMA TrimmedFacts ==
  ASSUME Py!GeoTypeOK
  PROVE  /\ Py!Trimmed \in Seq(Addresses) /\ Once(Py!Trimmed)
         /\ Len(Py!Trimmed) < CacheMax /\ Elems(Py!Trimmed) \subseteq Elems(cache)
<1>1. cache \in Seq(Addresses) /\ Once(cache) /\ Len(cache) <= CacheMax /\ Len(cache) \in Nat
  BY CacheTyped
<1>2. CacheMax \in Nat /\ CacheMax >= 1
  BY LimitsAssumption
<1> DEFINE n == Len(cache) - CacheMax + 2
           k == IF 1 >= n THEN 1 ELSE n
<1>3. Py!Trimmed = SubSeq(cache, k, Len(cache))
  <2>1. n \in Int /\ 1 \in Int
    BY <1>1, <1>2
  <2> QED BY <2>1, MaxPair DEF Py!Trimmed
<1>4. k \in Nat /\ k >= 1 /\ (k <= Len(cache) => Len(cache) - k + 1 < CacheMax)
  <2>1. n \in Int
    BY <1>1, <1>2
  <2>2. CASE 1 >= n
    BY <1>1, <1>2, <2>2
  <2>3. CASE ~ (1 >= n)
    <3>1. k = n
      BY <2>3
    <3>2. n \in Nat /\ n >= 1 /\ Len(cache) - n + 1 < CacheMax
      BY <1>1, <1>2, <2>1, <2>3
    <3> QED BY <3>1, <3>2
  <2> QED BY <2>2, <2>3
<1> HIDE DEF k
<1> QED BY <1>1, <1>2, <1>3, <1>4, LastOnce

LEMMA CacheSetFacts ==
  ASSUME Py!GeoTypeOK, NEW ip \in Addresses, Py!CacheSet(ip)
  PROVE  /\ cache' \in Seq(Addresses) /\ Once(cache') /\ Len(cache') <= CacheMax
         /\ expired' \subseteq Elems(cache') /\ ip \in Elems(cache')
<1>1. Py!InSeq(ip, Py!Trimmed) <=> ip \in Elems(Py!Trimmed)
  BY DEF Py!InSeq, Elems
<1>2. expired' \subseteq Elems(Py!Trimmed)
  BY DEF Py!CacheSet, Py!InSeq, Elems
<1>3. Len(Py!Trimmed) \in Nat /\ CacheMax \in Nat
  BY TrimmedFacts, LimitsAssumption
<1>4. CASE ip \in Elems(Py!Trimmed)
  BY <1>1, <1>2, <1>3, <1>4, TrimmedFacts DEF Py!CacheSet
<1>5. CASE ip \notin Elems(Py!Trimmed)
  <2>1. cache' = Append(Py!Trimmed, ip)
    BY <1>1, <1>5 DEF Py!CacheSet
  <2>2. /\ cache' \in Seq(Addresses) /\ Len(cache') = Len(Py!Trimmed) + 1 /\ Once(cache')
        /\ Elems(cache') = Elems(Py!Trimmed) \union {ip}
    BY <1>5, <2>1, TrimmedFacts, AppendedOnce
  <2> QED BY <1>2, <1>3, <2>2, TrimmedFacts
<1> QED BY <1>4, <1>5

\* What a step may do to a thread without disturbing Marked or OneFetch: mark it as unmarked.
LEMMA UnmarkFacts ==
  ASSUME Py!GeoTypeOK, NEW ip
  PROVE  /\ Py!Unmark(ip) \in [Threads -> [at : {"idle", "asking", "released"},
                                          ip : Addresses \union {Py!None}, unmarked : BOOLEAN]]
         /\ \A t \in Threads :
              /\ Py!Unmark(ip)[t].at = threads[t].at /\ Py!Unmark(ip)[t].ip = threads[t].ip
              /\ Py!Unmark(ip)[t].unmarked = (threads[t].unmarked \/ threads[t].ip = ip)
<1> DEFINE Thread == [at : {"idle", "asking", "released"}, ip : Addresses \union {Py!None},
                      unmarked : BOOLEAN]
           r(t) == [threads[t] EXCEPT !.unmarked = TRUE]
<1>1. \A t \in Threads :
        Py!Unmark(ip)[t] = IF threads[t].ip = ip THEN r(t) ELSE threads[t]
  BY DEF Py!Unmark
<1>2. ASSUME NEW t \in Threads
      PROVE  /\ threads[t] \in Thread /\ r(t) \in Thread /\ threads[t].unmarked \in BOOLEAN
             /\ r(t).at = threads[t].at /\ r(t).ip = threads[t].ip /\ r(t).unmarked = TRUE
  <2>1. threads[t] \in Thread
    BY DEF Py!GeoTypeOK
  <2> QED BY <2>1
<1> HIDE DEF Thread, r
<1>3. ASSUME NEW t \in Threads
      PROVE  /\ Py!Unmark(ip)[t] \in Thread
             /\ Py!Unmark(ip)[t].at = threads[t].at /\ Py!Unmark(ip)[t].ip = threads[t].ip
             /\ Py!Unmark(ip)[t].unmarked = (threads[t].unmarked \/ threads[t].ip = ip)
  <2>1. CASE threads[t].ip = ip
    BY <1>1, <1>2, <2>1
  <2>2. CASE threads[t].ip # ip
    BY <1>1, <1>2, <2>2
  <2> QED BY <2>1, <2>2
<1>4. Py!Unmark(ip) \in [Threads -> Thread]
  BY <1>3 DEF Py!Unmark
<1> QED BY <1>3, <1>4 DEF Thread

\* No address is fetched twice by a step that begins no fetch and takes no mark's loss back.
LEMMA FetchesStayApart ==
  ASSUME OneFetch, Py!Busy' \subseteq Py!Busy,
         \A t \in Py!Busy' : /\ threads'[t].ip = threads[t].ip
                             /\ threads[t].unmarked => threads'[t].unmarked
  PROVE  OneFetch'
<1>1. ASSUME NEW t \in Py!Busy', NEW u \in Py!Busy', t # u, threads'[t].ip = threads'[u].ip
      PROVE  threads'[t].unmarked \/ threads'[u].unmarked
  <2>1. t \in Py!Busy /\ u \in Py!Busy /\ threads[t].ip = threads[u].ip
    BY <1>1
  <2> QED BY <1>1, <2>1 DEF OneFetch, Py!OneFetch
<1> QED BY <1>1 DEF OneFetch, Py!OneFetch

\* The permits are conserved by a step that takes none and lets no fetch begin or end.
LEMMA PermitsKept ==
  ASSUME PermitsConserved, UNCHANGED <<permits, lost>>, Py!Asking' = Py!Asking
  PROVE  PermitsConserved'
  BY DEF PermitsConserved, Py!PermitsConserved

\* The sum is what counts, whatever else a step changes.
LEMMA PermitsSum ==
  ASSUME permits' + Cardinality(Py!Asking') + lost' = MaxConcurrent
  PROVE  PermitsConserved'
  BY PyCardinality DEF PermitsConserved, Py!PermitsConserved

LEMMA PermitFigures ==
  ASSUME PyInv
  PROVE  /\ permits \in Nat /\ permits <= MaxConcurrent /\ lost \in Nat /\ MaxConcurrent \in Nat
         /\ permits + Cardinality(Py!Asking) + lost = MaxConcurrent
<1>1. permits \in 0 .. MaxConcurrent /\ lost \in 0 .. MaxLost
  BY DEF PyInv, Py!GeoTypeOK
<1>2. permits + Cardinality(Py!Asking) + lost = MaxConcurrent
  BY PyCardinality DEF PyInv, PermitsConserved, Py!PermitsConserved
<1> QED BY <1>1, <1>2, LimitsAssumption

LEMMA AskingFinite == IsFiniteSet(Py!Asking) /\ Cardinality(Py!Asking) \in Nat
  BY LimitsAssumption, FS_Subset, FS_CardinalityType DEF Py!Asking
-----------------------------------------------------------------------------
(* Python: the invariant *)

LEMMA PyInit == Py!GeoInit => PyInv
<1> SUFFICES ASSUME Py!GeoInit PROVE PyInv
  OBVIOUS
<1> USE DEF Py!Idle, Py!NoFetch
<1>1. Py!Busy = {} /\ Py!Asking = {}
  BY DEF Py!GeoInit, Py!Busy, Py!Asking
<1>2. Py!GeoTypeOK
  BY LimitsAssumption, EmptySeq DEF Py!GeoInit, Py!GeoTypeOK, Py!Cached
<1>3. Marked /\ OneFetch
  BY <1>1 DEF Py!GeoInit, Marked, OneFetch, Py!OneFetch
<1>4. PermitsConserved
  <2>1. Cardinality(Py!Asking) = 0 /\ permits = MaxConcurrent /\ lost = 0 /\ MaxConcurrent \in Nat
    BY <1>1, LimitsAssumption, FS_EmptySet DEF Py!GeoInit
  <2> QED BY <2>1, PyCardinality DEF PermitsConserved, Py!PermitsConserved
<1> QED BY <1>2, <1>3, <1>4 DEF PyInv

LEMMA PyTime ==
  ASSUME PyInv, NEW ip \in Addresses, Py!Expire(ip) \/ Py!BecomeOverdue(ip)
  PROVE  PyInv'
<1> USE DEF Py!Busy
<1>1. CASE Py!Expire(ip)
  <2>1. Py!GeoTypeOK'
    BY <1>1 DEF PyInv, Py!GeoTypeOK, Py!Expire, Py!Cached
  <2>2. UNCHANGED <<pending, overdue, permits, ui, threads, lost>>
    BY <1>1 DEF Py!Expire
  <2> QED BY <2>1, <2>2 DEF PyInv, Marked, OneFetch, Py!OneFetch, PermitsConserved,
                            Py!PermitsConserved, Py!Asking
<1>2. CASE Py!BecomeOverdue(ip)
  <2>1. /\ threads' = Py!Unmark(ip)
        /\ UNCHANGED <<cache, expired, pending, permits, ui, lost>>
        /\ overdue' = overdue \union {ip} /\ ip \in pending
    BY <1>2 DEF Py!BecomeOverdue
  <2>2. \A t \in Threads :
          /\ threads'[t].at = threads[t].at /\ threads'[t].ip = threads[t].ip
          /\ threads'[t].unmarked = (threads[t].unmarked \/ threads[t].ip = ip)
    BY <2>1, UnmarkFacts DEF PyInv
  <2>3. Py!GeoTypeOK'
    BY <2>1, UnmarkFacts DEF PyInv, Py!GeoTypeOK, Py!Cached
  <2>4. Py!Busy' = Py!Busy /\ Py!Asking' = Py!Asking
    BY <2>2 DEF Py!Asking
  <2>5. Marked'
    BY <2>1, <2>2, <2>4 DEF PyInv, Marked
  <2>6. OneFetch'
    BY <2>2, <2>4, FetchesStayApart DEF PyInv
  <2> QED BY <2>1, <2>3, <2>4, <2>5, <2>6, PermitsKept DEF PyInv
<1> QED BY <1>1, <1>2

LEMMA PyLookups ==
  ASSUME PyInv, NEW ip \in Addresses, Py!Lookup(ip)
  PROVE  PyInv'
<1>1. /\ Py!Without(ip) \in Seq(Addresses) /\ Once(Py!Without(ip))
      /\ Elems(Py!Without(ip)) = Elems(cache) \ {ip}
      /\ Len(Py!Without(ip)) = IF ip \in Elems(cache) THEN Len(cache) - 1 ELSE Len(cache)
  BY WithoutFacts DEF PyInv
<1>2. /\ cache \in Seq(Addresses) /\ Len(cache) <= CacheMax /\ expired \subseteq Elems(cache)
      /\ Len(cache) \in Nat /\ CacheMax \in Nat
  BY CacheTyped, LimitsAssumption DEF PyInv
<1>3. UNCHANGED <<pending, overdue, permits, threads, lost>>
  BY DEF Py!Lookup, Py!Hit, Py!Miss
<1>4. CASE Py!Hit(ip)
  <2>1. cache' = Append(Py!Without(ip), ip) /\ ip \in Elems(cache) /\ expired' = expired
    BY <1>4, CachedElems DEF Py!Hit
  <2>2. /\ cache' \in Seq(Addresses) /\ Once(cache') /\ Len(cache') <= CacheMax
        /\ Elems(cache') = (Elems(cache) \ {ip}) \union {ip}
    BY <1>1, <1>2, <2>1, AppendedOnce
  <2> QED BY <1>3, <1>4, <2>1, <2>2, <1>2, CacheTypedBack, PermitsKept
          DEF Py!Hit, PyInv, Py!GeoTypeOK, Marked, OneFetch, Py!OneFetch, Py!Busy, Py!Asking
<1>5. CASE Py!Miss(ip)
  <2>1. cache' = Py!Without(ip) /\ expired' = expired \ {ip}
    BY <1>5 DEF Py!Miss
  <2>2. /\ cache' \in Seq(Addresses) /\ Once(cache') /\ Len(cache') <= CacheMax
        /\ expired' \subseteq Elems(cache')
    BY <1>1, <1>2, <2>1
  <2>3. ui' = [at |-> "missed", ip |-> ip]
    BY <1>5 DEF Py!Miss
  <2>4. Py!GeoTypeOK'
    BY <1>3, <2>2, <2>3, CacheTypedBack DEF PyInv, Py!GeoTypeOK
  <2> QED BY <1>3, <2>3, <2>4, PermitsKept
          DEF PyInv, Marked, OneFetch, Py!OneFetch, Py!Busy, Py!Asking
<1> QED BY <1>4, <1>5 DEF Py!Lookup

\* The steps of the UI thread that touch neither the threads nor the permits.
LEMMA PyUIOnly ==
  ASSUME PyInv, Py!NoMaxMind \/ Py!AlreadyPending \/ Py!MarkPending \/ Py!NoPermit
  PROVE  PyInv'
<1> USE DEF Py!Idle
<1>1. UNCHANGED <<cache, expired, permits, threads, lost>>
  BY DEF Py!NoMaxMind, Py!AlreadyPending, Py!MarkPending, Py!NoPermit
<1>2. ui.ip \in Addresses
  BY DEF Py!NoMaxMind, Py!AlreadyPending, Py!MarkPending, Py!NoPermit, PyInv, Marked
<1>3. /\ ui' \in [at : {"idle", "missed", "unknown", "marked"}, ip : Addresses \union {Py!None}]
      /\ ui'.at # "idle" => ui'.ip \in Addresses
  BY <1>2 DEF Py!NoMaxMind, Py!AlreadyPending, Py!MarkPending, Py!NoPermit, PyInv, Py!GeoTypeOK
<1>4. Py!GeoTypeOK'
  BY <1>1, <1>2, <1>3
  DEF Py!NoMaxMind, Py!AlreadyPending, Py!MarkPending, Py!NoPermit, PyInv, Py!GeoTypeOK, Py!Cached
<1>5. Py!Busy' = Py!Busy /\ Py!Asking' = Py!Asking
  BY <1>1 DEF Py!Busy, Py!Asking
<1>6. OneFetch' /\ PermitsConserved'
  BY <1>1, <1>5, PermitsKept DEF PyInv, OneFetch, Py!OneFetch
<1>7. CASE Py!MarkPending
  <2>1. /\ ui.ip \notin pending \ overdue /\ ui' = [ui EXCEPT !.at = "marked"]
        /\ pending' = pending \union {ui.ip} /\ overdue' = overdue \ {ui.ip}
    BY <1>7 DEF Py!MarkPending, Py!Marks
  <2>2. ui'.at = "marked" /\ ui'.ip = ui.ip
    BY <2>1 DEF PyInv, Py!GeoTypeOK
  <2>3. Marked'
    BY <1>1, <1>2, <1>5, <2>1, <2>2 DEF PyInv, Marked
  <2> QED BY <1>4, <1>6, <2>3 DEF PyInv
<1>8. CASE Py!NoMaxMind \/ Py!AlreadyPending \/ Py!NoPermit
  <2>1. UNCHANGED <<pending, overdue>> /\ ui'.at # "marked"
    BY <1>8 DEF Py!NoMaxMind, Py!AlreadyPending, Py!NoPermit, PyInv, Py!GeoTypeOK
  <2>2. Marked'
    BY <1>1, <1>3, <1>5, <2>1 DEF PyInv, Marked
  <2> QED BY <1>4, <1>6, <2>2 DEF PyInv
<1> QED BY <1>7, <1>8

LEMMA PyMaxMind == ASSUME PyInv, Py!MaxMind PROVE PyInv'
<1> USE DEF Py!Idle
<1> DEFINE ip == ui.ip
<1>1. ip \in Addresses /\ Py!CacheSet(ip) /\ threads' = Py!Unmark(ip)
      /\ UNCHANGED <<permits, lost>>
  BY DEF Py!MaxMind, PyInv, Marked
<1>2. ui'.at = "idle" /\ ui' \in [at : {"idle"}, ip : {Py!None}]
  BY DEF Py!MaxMind
<1>3. pending' = pending \ {ip} /\ overdue' = overdue \ {ip}
  BY <1>1 DEF Py!CacheSet
<1> HIDE DEF ip
<1>4. \A t \in Threads :
        /\ threads'[t].at = threads[t].at /\ threads'[t].ip = threads[t].ip
        /\ threads'[t].unmarked = (threads[t].unmarked \/ threads[t].ip = ip)
  BY <1>1, UnmarkFacts DEF PyInv
<1>5. Py!GeoTypeOK'
  <2>1. /\ cache' \in Seq(Addresses) /\ Once(cache') /\ Len(cache') <= CacheMax
        /\ expired' \subseteq Elems(cache')
    BY <1>1, CacheSetFacts DEF PyInv
  <2> QED BY <1>1, <1>2, <1>3, <2>1, CacheTypedBack, UnmarkFacts DEF PyInv, Py!GeoTypeOK
<1>6. Py!Busy' = Py!Busy /\ Py!Asking' = Py!Asking /\ Py!Busy \subseteq Threads
  BY <1>4 DEF Py!Busy, Py!Asking
<1>7. Marked'
  BY <1>2, <1>3, <1>4, <1>6 DEF PyInv, Marked
<1>8. OneFetch'
  BY <1>4, <1>6, FetchesStayApart DEF PyInv
<1> QED BY <1>1, <1>5, <1>6, <1>7, <1>8, PermitsKept DEF PyInv

LEMMA PyStartFetch == ASSUME PyInv, Py!StartFetch PROVE PyInv'
<1> USE DEF Py!Idle
<1> DEFINE u == Py!AThread
           f == [at |-> "asking", ip |-> ui.ip, unmarked |-> ui.ip \notin pending \ overdue]
<1>1. u \in Threads /\ u \notin Py!Busy
  <2>1. \E t \in Threads : t \notin Py!Busy
    BY DEF Py!StartFetch, Py!Busy
  <2> QED BY <2>1 DEF Py!AThread
<1>2. /\ ui.at = "marked" /\ ui.ip \in Addresses /\ permits > 0 /\ permits' = permits - 1
      /\ threads' = [threads EXCEPT ![u] = f] /\ ui' = [at |-> "idle", ip |-> Py!None]
      /\ UNCHANGED <<cache, expired, pending, overdue, lost>>
  BY DEF Py!StartFetch, PyInv, Marked
<1> HIDE DEF u
<1>3. threads' \in [Threads -> [at : {"idle", "asking", "released"},
                                ip : Addresses \union {Py!None}, unmarked : BOOLEAN]]
  BY <1>2 DEF PyInv, Py!GeoTypeOK
<1>4. threads'[u] = f /\ \A t \in Threads \ {u} : threads'[t] = threads[t]
  BY <1>1, <1>2 DEF PyInv, Py!GeoTypeOK
<1>5. Py!Busy' = Py!Busy \union {u} /\ Py!Asking' = Py!Asking \union {u} /\ u \notin Py!Asking
  BY <1>1, <1>4 DEF Py!Busy, Py!Asking
<1>6. Py!GeoTypeOK'
  BY <1>2, <1>3, LimitsAssumption DEF PyInv, Py!GeoTypeOK, Py!Cached
<1>7. Marked'
  <2>1. \A t \in Py!Busy : t \in Threads \ {u}
    BY <1>1 DEF Py!Busy
  <2>2. \A t \in Py!Busy' : threads'[t].ip \in Addresses
    BY <1>2, <1>4, <1>5, <2>1 DEF PyInv, Marked
  <2>3. ASSUME NEW t \in Py!Busy', ~threads'[t].unmarked PROVE threads'[t].ip \in pending' \ overdue'
    <3>1. CASE t = u
      <4>1. f.ip = ui.ip /\ f.unmarked = (ui.ip \notin pending \ overdue)
        OBVIOUS
      <4> HIDE DEF f
      <4>2. threads'[t].ip = ui.ip /\ ~ f.unmarked
        BY <1>4, <2>3, <3>1, <4>1
      <4>3. ui.ip \in pending \ overdue
        BY <4>1, <4>2
      <4> QED BY <1>2, <4>2, <4>3
    <3>2. CASE t # u
      BY <1>2, <1>4, <1>5, <2>1, <2>3, <3>2 DEF PyInv, Marked
    <3> QED BY <3>1, <3>2
  <2> QED BY <1>2, <2>2, <2>3 DEF Marked
<1>8. OneFetch'
  <2>1. \A t \in Py!Busy : threads[t].ip = ui.ip => threads[t].unmarked
    BY <1>2 DEF PyInv, Marked
  <2> QED BY <1>1, <1>4, <1>5, <2>1 DEF PyInv, OneFetch, Py!OneFetch, Py!Busy
<1>9. PermitsConserved'
  <2>1. Cardinality(Py!Asking') = Cardinality(Py!Asking) + 1
    BY <1>5, AskingFinite, FS_AddElement
  <2>2. permits' + Cardinality(Py!Asking') + lost' = MaxConcurrent
    BY <1>2, <2>1, AskingFinite, PermitFigures
  <2> QED BY <2>2, PermitsSum
<1> QED BY <1>6, <1>7, <1>8, <1>9 DEF PyInv

LEMMA PyStartFails == ASSUME PyInv, Py!StartFails PROVE PyInv'
<1> USE DEF Py!Idle
<1>1. /\ permits > 0 /\ permits' = permits - 1 /\ lost' = lost + 1 /\ lost < MaxLost
      /\ ui' = [at |-> "idle", ip |-> Py!None]
      /\ UNCHANGED <<cache, expired, pending, overdue, threads>>
  BY DEF Py!StartFails
<1>2. Py!Busy' = Py!Busy /\ Py!Asking' = Py!Asking
  BY <1>1 DEF Py!Busy, Py!Asking
<1>3. Py!GeoTypeOK'
  BY <1>1, LimitsAssumption DEF PyInv, Py!GeoTypeOK, Py!Cached
<1>4. Marked' /\ OneFetch'
  BY <1>1, <1>2 DEF PyInv, Marked, OneFetch, Py!OneFetch
<1>5. PermitsConserved'
  <2>1. permits' + Cardinality(Py!Asking') + lost' = MaxConcurrent
    BY <1>1, <1>2, AskingFinite, PermitFigures
  <2> QED BY <2>1, PermitsSum
<1> QED BY <1>3, <1>4, <1>5 DEF PyInv

LEMMA PyAnswer == ASSUME PyInv, NEW t \in Threads, Py!Answer(t) PROVE PyInv'
<1>1. /\ threads[t].at = "asking" /\ permits' = permits + 1
      /\ threads' = [threads EXCEPT ![t].at = "released"]
      /\ UNCHANGED <<cache, expired, pending, overdue, ui, lost>>
  BY DEF Py!Answer, Py!Released
<1>2. /\ threads' \in [Threads -> [at : {"idle", "asking", "released"},
                                   ip : Addresses \union {Py!None}, unmarked : BOOLEAN]]
      /\ threads'[t].at = "released" /\ threads'[t].ip = threads[t].ip
      /\ threads'[t].unmarked = threads[t].unmarked
      /\ \A x \in Threads \ {t} : threads'[x] = threads[x]
  BY <1>1 DEF PyInv, Py!GeoTypeOK
<1>3. Py!Busy' = Py!Busy /\ Py!Asking' = Py!Asking \ {t} /\ t \in Py!Asking
  BY <1>1, <1>2 DEF Py!Busy, Py!Asking
<1>4. PermitsConserved' /\ permits' <= MaxConcurrent
  <2>1. Cardinality(Py!Asking') = Cardinality(Py!Asking) - 1
    BY <1>3, AskingFinite, FS_RemoveElement
  <2>2. Cardinality(Py!Asking') \in Nat
    BY <1>3, AskingFinite, FS_RemoveElement, FS_CardinalityType
  <2>3. permits' + Cardinality(Py!Asking') + lost' = MaxConcurrent /\ permits' <= MaxConcurrent
    BY <1>1, <2>1, <2>2, AskingFinite, PermitFigures
  <2> QED BY <2>3, PermitsSum
<1>5. Py!GeoTypeOK'
  BY <1>1, <1>2, <1>4, LimitsAssumption DEF PyInv, Py!GeoTypeOK, Py!Cached
<1>6. \A x \in Threads : threads'[x].ip = threads[x].ip /\ threads'[x].unmarked = threads[x].unmarked
  BY <1>2
<1>7. Marked' /\ OneFetch'
  BY <1>1, <1>3, <1>6 DEF PyInv, Marked, OneFetch, Py!OneFetch, Py!Busy
<1> QED BY <1>4, <1>5, <1>7 DEF PyInv

LEMMA PyStore == ASSUME PyInv, NEW t \in Threads, Py!Store(t) PROVE PyInv'
<1> DEFINE ip == threads[t].ip
<1>1. /\ threads[t].at = "released" /\ ip \in Addresses /\ Py!CacheSet(ip)
      /\ threads' = [Py!Unmark(ip) EXCEPT ![t] = Py!NoFetch]
      /\ UNCHANGED <<permits, ui, lost>>
  BY DEF Py!Store, PyInv, Marked, Py!Busy
<1>2. pending' = pending \ {ip} /\ overdue' = overdue \ {ip}
  BY <1>1 DEF Py!CacheSet
<1> HIDE DEF ip
<1>3. Py!NoFetch \in [at : {"idle", "asking", "released"},
                      ip : Addresses \union {Py!None}, unmarked : BOOLEAN]
      /\ Py!NoFetch.at = "idle"
  BY DEF Py!NoFetch
<1>4. /\ threads' \in [Threads -> [at : {"idle", "asking", "released"},
                                   ip : Addresses \union {Py!None}, unmarked : BOOLEAN]]
      /\ threads'[t] = Py!NoFetch
      /\ \A x \in Threads \ {t} : threads'[x] = Py!Unmark(ip)[x]
  BY <1>1, <1>3, UnmarkFacts DEF PyInv
<1>5. \A x \in Threads \ {t} :
        /\ threads'[x].at = threads[x].at /\ threads'[x].ip = threads[x].ip
        /\ threads'[x].unmarked = (threads[x].unmarked \/ threads[x].ip = ip)
  BY <1>4, UnmarkFacts DEF PyInv
<1>6. Py!Busy' = Py!Busy \ {t} /\ Py!Asking' = Py!Asking
  BY <1>1, <1>3, <1>4, <1>5 DEF Py!Busy, Py!Asking
<1>7. Py!GeoTypeOK'
  <2>1. /\ cache' \in Seq(Addresses) /\ Once(cache') /\ Len(cache') <= CacheMax
        /\ expired' \subseteq Elems(cache')
    BY <1>1, CacheSetFacts DEF PyInv
  <2> QED BY <1>1, <1>2, <1>4, <2>1, CacheTypedBack DEF PyInv, Py!GeoTypeOK
<1>8. Py!Busy \subseteq Threads
  BY DEF Py!Busy
<1>9. Marked'
  <2>1. \A x \in Py!Busy' : x \in Py!Busy /\ x \in Threads \ {t}
    BY <1>6, <1>8
  <2>2. ui'.at # "idle" => ui'.ip \in Addresses
    BY <1>1 DEF PyInv, Marked
  <2>3. \A x \in Py!Busy' : threads'[x].ip \in Addresses
    BY <1>5, <2>1 DEF PyInv, Marked
  <2>4. \A x \in Py!Busy' : ~threads'[x].unmarked => threads'[x].ip \in pending' \ overdue'
    BY <1>2, <1>5, <2>1 DEF PyInv, Marked
  <2>5. ui'.at = "marked" => \A x \in Py!Busy' : threads'[x].ip = ui'.ip => threads'[x].unmarked
    BY <1>1, <1>5, <2>1 DEF PyInv, Marked
  <2> QED BY <2>2, <2>3, <2>4, <2>5 DEF Marked
<1>10. OneFetch'
  <2>1. Py!Busy' \subseteq Py!Busy /\ \A x \in Py!Busy' : x \in Threads \ {t}
    BY <1>6, <1>8
  <2> QED BY <1>5, <2>1, FetchesStayApart DEF PyInv
<1> QED BY <1>1, <1>6, <1>7, <1>9, <1>10, PermitsKept DEF PyInv

LEMMA PySteps ==
  ASSUME PyInv,
         \/ \E ip \in Addresses : Py!Lookup(ip) \/ Py!BecomeOverdue(ip) \/ Py!Expire(ip)
         \/ Py!UISteps
         \/ \E t \in Threads : Py!Fetch(t)
  PROVE  PyInv'
<1>1. CASE \E ip \in Addresses : Py!Lookup(ip) \/ Py!BecomeOverdue(ip) \/ Py!Expire(ip)
  <2>1. PICK ip \in Addresses : Py!Lookup(ip) \/ Py!BecomeOverdue(ip) \/ Py!Expire(ip)
    BY <1>1
  <2> QED BY <2>1, PyLookups, PyTime
<1>2. CASE Py!UISteps
  BY <1>2, PyMaxMind, PyUIOnly, PyStartFetch, PyStartFails DEF Py!UISteps
<1>3. CASE \E t \in Threads : Py!Fetch(t)
  BY <1>3, PyAnswer, PyStore DEF Py!Fetch
<1> QED BY <1>1, <1>2, <1>3

LEMMA PyUnchanged == ASSUME PyInv, UNCHANGED geoVars PROVE PyInv'
  BY DEF geoVars, PyInv, Py!GeoTypeOK, Py!Cached, Marked, OneFetch, Py!OneFetch, Py!Busy,
         PermitsConserved, Py!PermitsConserved, Py!Asking
-----------------------------------------------------------------------------
(* Go: the invariant *)

GoAsking == {t \in Threads : fetches[t].at = "asking"}
Fetches == [Threads -> [at : {"idle", "waiting", "asking"}, ip : Addresses \union {Go!None}]]

\* What the invariant says, with the operators of the library.
LEMMA GoFacts ==
  ASSUME GoInv
  PROVE  /\ cacheQ \in Seq(Addresses) /\ Len(cacheQ) \in Nat /\ MaxQueue \in Nat
         /\ goExpired \subseteq goCache /\ goCache \subseteq Addresses /\ IsFiniteSet(goCache)
         /\ goOverdue \subseteq goPending /\ goPending \subseteq Addresses
         /\ fetches \in Fetches /\ drifted \in BOOLEAN /\ offline \in BOOLEAN
         /\ Cardinality(GoAsking) <= MaxConcurrent \/ offline
         /\ Go!Busy \subseteq Threads /\ \A t \in Go!Busy : fetches[t].ip \in Addresses
         /\ Len(cacheQ) + Cardinality(Go!Busy) <= MaxQueue
         /\ goCache \subseteq Elems(cacheQ)
         /\ ~drifted => /\ Elems(cacheQ) \subseteq goCache /\ Once(cacheQ)
                        /\ Cardinality(goCache) <= GoCacheMax
         /\ \A ip \in goPending : \E t \in Go!Busy : fetches[t].ip = ip
  BY GoCardinality, LimitsAssumption
  DEF GoInv, Go!GoGeoTypeOK, Listed, Evictable, Go!Evictable, BoundedUntilDrift,
      Go!BoundedUntilDrift, MarkHasFetch, Go!MarkHasFetch, Go!Busy, Go!Queued, Elems, Once,
      GoAsking, Fetches

LEMMA GoFactsBack ==
  ASSUME cacheQ' \in Seq(Addresses), Len(cacheQ') <= MaxQueue,
         Len(cacheQ') + Cardinality(Go!Busy') <= MaxQueue,
         goExpired' \subseteq goCache', goCache' \subseteq Addresses, IsFiniteSet(goCache'),
         goOverdue' \subseteq goPending', goPending' \subseteq Addresses,
         fetches' \in Fetches, drifted' \in BOOLEAN, offline' \in BOOLEAN,
         Cardinality(GoAsking') <= MaxConcurrent \/ offline',
         \A t \in Go!Busy' : fetches'[t].ip \in Addresses,
         goCache' \subseteq Elems(cacheQ'),
         ~drifted' => /\ Elems(cacheQ') \subseteq goCache' /\ Once(cacheQ')
                      /\ Cardinality(goCache') <= GoCacheMax,
         \A ip \in goPending' : \E t \in Go!Busy' : fetches'[t].ip = ip
  PROVE  GoInv'
<1>1. Go!GoGeoTypeOK'
  BY GoCardinality DEF Go!GoGeoTypeOK, GoAsking, Fetches
<1>2. Listed'
  BY DEF Listed, Go!Queued, Elems, Once
<1>3. Evictable' /\ BoundedUntilDrift'
  BY GoCardinality
  DEF Evictable, Go!Evictable, BoundedUntilDrift, Go!BoundedUntilDrift, Go!Queued, Elems
<1>4. MarkHasFetch'
  BY DEF MarkHasFetch, Go!MarkHasFetch
<1> QED BY <1>1, <1>2, <1>3, <1>4 DEF GoInv

LEMMA BusyFinite ==
  /\ IsFiniteSet(Go!Busy) /\ Cardinality(Go!Busy) \in Nat
  /\ IsFiniteSet(GoAsking) /\ Cardinality(GoAsking) \in Nat
  BY LimitsAssumption, FS_Subset, FS_CardinalityType DEF Go!Busy, GoAsking

LEMMA GoInit == Go!GoGeoInit => GoInv
<1> SUFFICES ASSUME Go!GoGeoInit PROVE GoInv
  OBVIOUS
<1> USE DEF Go!NoFetch
<1>1. Go!Busy = {} /\ GoAsking = {}
  BY DEF Go!GoGeoInit, Go!Busy, GoAsking
<1>2. Cardinality({}) = 0 /\ IsFiniteSet({})
  BY FS_EmptySet
<1>3. /\ goCache = {} /\ cacheQ = <<>> /\ goPending = {} /\ drifted = FALSE
  BY DEF Go!GoGeoInit
<1>4. Go!Cardinality(GoAsking) <= MaxConcurrent
  BY <1>1, <1>2, GoCardinality, LimitsAssumption
<1>5. Go!GoGeoTypeOK
  <2>1. cacheQ \in Seq(Addresses) /\ Len(cacheQ) <= MaxQueue
    BY <1>3, LimitsAssumption
  <2>2. offline \in BOOLEAN /\ goExpired = {} /\ goOverdue = {}
    BY DEF Go!GoGeoInit
  <2>3. fetches \in [Threads -> [at : {"idle", "waiting", "asking"}, ip : Addresses \union {Go!None}]]
    BY DEF Go!GoGeoInit
  <2> QED BY <1>3, <1>4, <2>1, <2>2, <2>3 DEF Go!GoGeoTypeOK, GoAsking
<1>6. Listed
  BY <1>1, <1>2, <1>3, LimitsAssumption DEF Listed, Go!Queued
<1>7. Evictable /\ MarkHasFetch
  BY <1>3 DEF Evictable, Go!Evictable, MarkHasFetch, Go!MarkHasFetch
<1>8. BoundedUntilDrift
  BY <1>2, <1>3, GoCardinality, LimitsAssumption DEF BoundedUntilDrift, Go!BoundedUntilDrift
<1> QED BY <1>5, <1>6, <1>7, <1>8 DEF GoInv

LEMMA GoTime ==
  ASSUME GoInv, NEW ip \in Addresses, Go!GoExpire(ip) \/ Go!GoBecomeOverdue(ip)
  PROVE  GoInv'
<1>1. UNCHANGED <<offline, goCache, cacheQ, goPending, fetches, drifted>>
  BY DEF Go!GoExpire, Go!GoBecomeOverdue
<1>2. goExpired' \subseteq goCache' /\ goOverdue' \subseteq goPending'
  BY GoFacts DEF Go!GoExpire, Go!GoBecomeOverdue
<1>3. Go!Busy' = Go!Busy /\ GoAsking' = GoAsking
  BY <1>1 DEF Go!Busy, GoAsking
<1>4. Len(cacheQ') <= MaxQueue
  BY <1>1, GoFacts, BusyFinite
<1> QED BY <1>1, <1>2, <1>3, <1>4, GoFacts, GoFactsBack

\* What is deleted from the cache stays in the queue, which no longer lists only entries.
LEMMA DeletedFacts ==
  ASSUME GoInv, NEW ip \in Addresses, Go!Deleted(ip), cacheQ' = cacheQ
  PROVE  /\ goExpired' \subseteq goCache' /\ goCache' \subseteq Addresses /\ IsFiniteSet(goCache')
         /\ goCache' \subseteq Elems(cacheQ') /\ drifted' \in BOOLEAN
         /\ ~drifted' => /\ Elems(cacheQ') \subseteq goCache' /\ Once(cacheQ')
                         /\ Cardinality(goCache') <= GoCacheMax
<1>1. /\ goCache' = goCache \ {ip} /\ goExpired' = goExpired \ {ip}
      /\ drifted' = (drifted \/ ip \in goCache)
  BY DEF Go!Deleted
<1>2. IsFiniteSet(goCache')
  BY <1>1, GoFacts, FS_Subset
<1>3. ~drifted' => ~drifted /\ goCache' = goCache
  BY <1>1
<1> QED BY <1>1, <1>2, <1>3, GoFacts

LEMMA GoStillPending ==
  ASSUME GoInv, NEW ip \in Addresses, Go!StillPending(ip)
  PROVE  GoInv'
<1>1. Go!Deleted(ip) /\ UNCHANGED <<offline, cacheQ, goPending, goOverdue, fetches>>
  BY DEF Go!StillPending
<1>2. Go!Busy' = Go!Busy /\ GoAsking' = GoAsking
  BY <1>1 DEF Go!Busy, GoAsking
<1>3. Len(cacheQ') <= MaxQueue
  BY <1>1, GoFacts, BusyFinite
<1> QED BY <1>1, <1>2, <1>3, GoFacts, GoFactsBack, DeletedFacts

LEMMA GoStart ==
  ASSUME GoInv, NEW ip \in Addresses, Go!GoStartFetch(ip)
  PROVE  GoInv'
<1> DEFINE u == CHOOSE t \in Threads : t \notin Go!Busy
           f == [at |-> "waiting", ip |-> ip]
<1>1. /\ Go!Deleted(ip) /\ fetches' = [fetches EXCEPT ![u] = f]
      /\ goPending' = goPending \union {ip} /\ goOverdue' = goOverdue \ {ip}
      /\ UNCHANGED <<offline, cacheQ>>
      /\ Len(cacheQ) + Cardinality(Go!Busy) < MaxQueue
  BY GoCardinality DEF Go!GoStartFetch
<1>2. u \in Threads /\ u \notin Go!Busy
  <2>1. \E t \in Threads : t \notin Go!Busy
    BY DEF Go!GoStartFetch, Go!Busy
  <2> QED BY <2>1
<1> HIDE DEF u
<1>3. /\ fetches' \in Fetches /\ fetches'[u].at = "waiting" /\ fetches'[u].ip = ip
      /\ \A t \in Threads \ {u} : fetches'[t] = fetches[t]
  BY <1>1, <1>2, GoFacts DEF Fetches
<1>4. Go!Busy' = Go!Busy \union {u} /\ GoAsking' = GoAsking
  BY <1>2, <1>3 DEF Go!Busy, GoAsking
<1>5. Cardinality(Go!Busy') = Cardinality(Go!Busy) + 1
  BY <1>2, <1>4, BusyFinite, FS_AddElement
<1>6. Len(cacheQ') + Cardinality(Go!Busy') <= MaxQueue /\ Len(cacheQ') <= MaxQueue
  BY <1>1, <1>5, GoFacts, BusyFinite
<1>7. \A t \in Go!Busy' : fetches'[t].ip \in Addresses
  BY <1>2, <1>3, <1>4, GoFacts
<1>8. ASSUME NEW x \in goPending' PROVE \E t \in Go!Busy' : fetches'[t].ip = x
  <2>1. CASE x = ip
    BY <1>3, <1>4, <2>1
  <2>2. CASE x \in goPending
    <3>1. PICK t \in Go!Busy : fetches[t].ip = x
      BY <2>2, GoFacts
    <3> QED BY <1>2, <1>3, <1>4, <3>1, GoFacts
  <2> QED BY <1>1, <2>1, <2>2
<1>9. goOverdue' \subseteq goPending' /\ goPending' \subseteq Addresses
  BY <1>1, GoFacts
<1> QED BY <1>1, <1>3, <1>4, <1>6, <1>7, <1>8, <1>9, GoFacts, GoFactsBack, DeletedFacts

LEMMA GoAsks == ASSUME GoInv, NEW t \in Threads, Go!GoAsk(t) PROVE GoInv'
<1>1. /\ fetches[t].at = "waiting" /\ fetches' = [fetches EXCEPT ![t].at = "asking"]
      /\ offline \/ Cardinality(GoAsking) < MaxConcurrent
      /\ UNCHANGED <<offline, goCache, goExpired, cacheQ, goPending, goOverdue, drifted>>
  BY GoCardinality DEF Go!GoAsk, GoAsking
<1>2. /\ fetches' \in Fetches /\ fetches'[t].at = "asking" /\ fetches'[t].ip = fetches[t].ip
      /\ \A x \in Threads \ {t} : fetches'[x] = fetches[x]
  BY <1>1, GoFacts DEF Fetches
<1>3. Go!Busy' = Go!Busy /\ GoAsking' = GoAsking \union {t} /\ t \notin GoAsking
  BY <1>1, <1>2 DEF Go!Busy, GoAsking
<1>4. Cardinality(GoAsking') = Cardinality(GoAsking) + 1
  BY <1>3, BusyFinite, FS_AddElement
<1>5. Cardinality(GoAsking') <= MaxConcurrent \/ offline'
  BY <1>1, <1>4, BusyFinite, LimitsAssumption
<1>6. \A x \in Threads : fetches'[x].ip = fetches[x].ip
  BY <1>2
<1>7. /\ \A x \in Go!Busy' : fetches'[x].ip \in Addresses
      /\ \A ip \in goPending' : \E x \in Go!Busy' : fetches'[x].ip = ip
  BY <1>1, <1>3, <1>6, GoFacts
<1>8. Len(cacheQ') <= MaxQueue
  BY <1>1, GoFacts, BusyFinite
<1> QED BY <1>1, <1>2, <1>3, <1>5, <1>7, <1>8, GoFacts, GoFactsBack

\* The queue and the cache after cacheSet.  When the cache is full the queue is not empty,
\* and what leaves the queue leaves the cache.
LEMMA CacheSetKeeps ==
  ASSUME GoInv, NEW ip \in Addresses, Go!GoCacheSet(ip)
  PROVE  /\ cacheQ' \in Seq(Addresses) /\ Len(cacheQ') <= Len(cacheQ) + 1
         /\ goExpired' \subseteq goCache' /\ goCache' \subseteq Addresses /\ IsFiniteSet(goCache')
         /\ goCache' \subseteq Elems(cacheQ') /\ drifted' \in BOOLEAN
         /\ ~drifted' => /\ Elems(cacheQ') \subseteq goCache' /\ Once(cacheQ')
                         /\ Cardinality(goCache') <= GoCacheMax
<1> DEFINE full == Cardinality(goCache) >= GoCacheMax
           kept == IF full THEN goCache \ {Head(cacheQ)} ELSE goCache
           q == IF full THEN Tail(cacheQ) ELSE cacheQ
<1>1. /\ goCache' = kept \union {ip} /\ goExpired' = (goExpired \intersect kept) \ {ip}
      /\ cacheQ' = Append(q, ip) /\ drifted' = (drifted \/ ip \in Elems(cacheQ))
  BY GoCardinality DEF Go!GoCacheSet, Go!Full, Go!Enqueued, Go!Queued, Elems
<1>2. Cardinality(goCache) \in Nat /\ GoCacheMax \in Nat \ {0}
  BY GoFacts, FS_CardinalityType, LimitsAssumption
<1>3. full => cacheQ # <<>>
  <2>1. full => goCache # {}
    BY <1>2, FS_EmptySet
  <2>2. cacheQ = <<>> => Elems(cacheQ) = {}
    BY DEF Elems
  <2> QED BY <2>1, <2>2, GoFacts
<1>4. /\ q \in Seq(Addresses) /\ Len(q) <= Len(cacheQ) /\ Len(q) \in Nat
      /\ Elems(q) \subseteq Elems(cacheQ) /\ kept \subseteq Elems(q) /\ kept \subseteq goCache
  <2>1. CASE full
    BY <1>3, <2>1, GoFacts, TailElems
  <2>2. CASE ~full
    BY <2>2, GoFacts
  <2> QED BY <2>1, <2>2
<1>5. ~drifted => Once(q) /\ Elems(q) \subseteq kept
  <2>1. CASE full
    BY <1>3, <2>1, GoFacts, TailElems
  <2>2. CASE ~full
    BY <2>2, GoFacts
  <2> QED BY <2>1, <2>2
<1>6. IsFiniteSet(kept) /\ Cardinality(kept) \in Nat
  BY <1>4, GoFacts, FS_Subset, FS_CardinalityType
<1>7. ~drifted => Cardinality(kept) + 1 <= GoCacheMax
  <2>1. CASE full
    <3>1. ~drifted => Head(cacheQ) \in goCache
      BY <1>3, <2>1, GoFacts, TailElems
    <3>2. ~drifted => Cardinality(kept) = Cardinality(goCache) - 1
      BY <2>1, <3>1, GoFacts, FS_RemoveElement
    <3>3. ~drifted => Cardinality(goCache) <= GoCacheMax
      BY GoFacts
    <3> QED BY <1>2, <1>6, <3>2, <3>3
  <2>2. CASE ~full
    BY <1>2, <2>2
  <2> QED BY <2>1, <2>2
<1> HIDE DEF kept, q
<1>8. /\ cacheQ' \in Seq(Addresses) /\ Len(cacheQ') = Len(q) + 1
      /\ Elems(cacheQ') = Elems(q) \union {ip}
  BY <1>1, <1>4, AppendedElems
<1>9. IsFiniteSet(goCache') /\ (ip \notin kept => Cardinality(goCache') = Cardinality(kept) + 1)
  BY <1>1, <1>6, FS_AddElement
<1>10. ASSUME ~drifted' PROVE Once(cacheQ') /\ Cardinality(goCache') <= GoCacheMax
                              /\ Elems(cacheQ') \subseteq goCache'
  <2>1. ~drifted /\ ip \notin Elems(q) /\ ip \notin kept
    BY <1>1, <1>4, <1>10
  <2>2. Once(cacheQ')
    BY <1>1, <1>4, <1>5, <2>1, AppendedOnce
  <2>3. Cardinality(goCache') <= GoCacheMax
    BY <1>7, <1>9, <2>1
  <2> QED BY <1>1, <1>5, <1>8, <2>1, <2>2, <2>3
<1>11. Len(cacheQ') <= Len(cacheQ) + 1
  BY <1>4, <1>8, GoFacts
<1> QED BY <1>1, <1>4, <1>8, <1>9, <1>10, <1>11, GoFacts

LEMMA GoStores == ASSUME GoInv, NEW t \in Threads, Go!GoStore(t) PROVE GoInv'
<1> DEFINE ip == fetches[t].ip
<1>1. /\ fetches[t].at = "asking" /\ Go!GoCacheSet(ip) /\ offline' = offline
      /\ goPending' = goPending \ {ip} /\ goOverdue' = goOverdue \intersect goPending'
      /\ fetches' = [fetches EXCEPT ![t] = Go!NoFetch]
  BY DEF Go!GoStore, Go!Unmarked
<1>2. t \in Go!Busy /\ t \in GoAsking /\ ip \in Addresses
  BY <1>1, GoFacts DEF Go!Busy, GoAsking
<1> HIDE DEF ip
<1>3. /\ fetches' \in Fetches /\ fetches'[t].at = "idle"
      /\ \A x \in Threads \ {t} : fetches'[x] = fetches[x]
  BY <1>1, GoFacts DEF Fetches, Go!NoFetch
<1>4. Go!Busy' = Go!Busy \ {t} /\ GoAsking' = GoAsking \ {t}
  BY <1>3 DEF Go!Busy, GoAsking
<1>5. /\ Cardinality(Go!Busy') = Cardinality(Go!Busy) - 1 /\ Cardinality(Go!Busy') \in Nat
      /\ Cardinality(GoAsking') = Cardinality(GoAsking) - 1
  BY <1>2, <1>4, BusyFinite, FS_RemoveElement, FS_CardinalityType
<1>6. Cardinality(GoAsking') <= MaxConcurrent \/ offline'
  BY <1>1, <1>5, BusyFinite, GoFacts, LimitsAssumption
<1>7. /\ cacheQ' \in Seq(Addresses) /\ Len(cacheQ') <= Len(cacheQ) + 1
      /\ goExpired' \subseteq goCache' /\ goCache' \subseteq Addresses /\ IsFiniteSet(goCache')
      /\ goCache' \subseteq Elems(cacheQ') /\ drifted' \in BOOLEAN
      /\ ~drifted' => /\ Elems(cacheQ') \subseteq goCache' /\ Once(cacheQ')
                      /\ Cardinality(goCache') <= GoCacheMax
  BY <1>1, <1>2, CacheSetKeeps
<1>8. Len(cacheQ') + Cardinality(Go!Busy') <= MaxQueue /\ Len(cacheQ') <= MaxQueue
  <2>1. Len(cacheQ') \in Nat
    BY <1>7
  <2> QED BY <1>5, <1>7, <2>1, GoFacts, BusyFinite
<1>9. \A x \in Go!Busy' : fetches'[x].ip \in Addresses
  BY <1>3, <1>4, GoFacts
<1>10. ASSUME NEW x \in goPending' PROVE \E y \in Go!Busy' : fetches'[y].ip = x
  <2>1. x \in goPending /\ x # ip
    BY <1>1
  <2>2. PICK y \in Go!Busy : fetches[y].ip = x
    BY <2>1, GoFacts
  <2>3. y # t
    BY <2>1, <2>2 DEF ip
  <2> QED BY <1>3, <1>4, <2>2, <2>3, GoFacts
<1>11. goOverdue' \subseteq goPending' /\ goPending' \subseteq Addresses
  BY <1>1, GoFacts
<1> QED BY <1>1, <1>3, <1>6, <1>7, <1>8, <1>9, <1>10, <1>11, GoFacts, GoFactsBack

LEMMA GoUnchanged == ASSUME GoInv, UNCHANGED goGeoVars PROVE GoInv'
<1>1. /\ UNCHANGED <<offline, goCache, goExpired, cacheQ, goPending, goOverdue, fetches, drifted>>
      /\ Go!Busy' = Go!Busy /\ GoAsking' = GoAsking /\ Len(cacheQ') <= MaxQueue
  BY GoFacts, BusyFinite DEF goGeoVars, Go!Busy, GoAsking
<1> QED BY <1>1, GoFacts, GoFactsBack

LEMMA GoSteps ==
  ASSUME GoInv,
         \/ \E ip \in Addresses : Go!GoLookup(ip) \/ Go!GoBecomeOverdue(ip) \/ Go!GoExpire(ip)
         \/ \E t \in Threads : Go!GoAsk(t) \/ Go!GoStore(t)
  PROVE  GoInv'
<1>1. CASE \E ip \in Addresses : Go!GoLookup(ip) \/ Go!GoBecomeOverdue(ip) \/ Go!GoExpire(ip)
  <2>1. PICK ip \in Addresses : Go!GoLookup(ip) \/ Go!GoBecomeOverdue(ip) \/ Go!GoExpire(ip)
    BY <1>1
  <2>2. CASE Go!GoHit(ip)
    BY <2>2, GoUnchanged DEF Go!GoHit, Go!goGeoVars, goGeoVars
  <2> QED BY <2>1, <2>2, GoTime, GoStillPending, GoStart DEF Go!GoLookup
<1>2. CASE \E t \in Threads : Go!GoAsk(t) \/ Go!GoStore(t)
  BY <1>2, GoAsks, GoStores
<1> QED BY <1>1, <1>2
-----------------------------------------------------------------------------
(* The two together *)

LEMMA Initially == Init => IInv
  BY PyInit, GoInit DEF Init, IInv

LEMMA Inductive == IInv /\ [Next]_vars => IInv'
<1> SUFFICES ASSUME IInv, [Next]_vars PROVE IInv'
  OBVIOUS
<1>1. CASE UNCHANGED vars
  BY <1>1, PyUnchanged, GoUnchanged DEF vars, IInv
<1>2. ASSUME UNCHANGED <<installed, goGeoVars>>,
             \/ \E ip \in Addresses : Py!Lookup(ip) \/ Py!BecomeOverdue(ip) \/ Py!Expire(ip)
             \/ Py!UISteps
             \/ \E t \in Threads : Py!Fetch(t)
      PROVE  IInv'
  BY <1>2, PySteps, GoUnchanged DEF IInv
<1>3. ASSUME UNCHANGED <<installed, geoVars>>,
             \/ \E ip \in Addresses : Go!GoLookup(ip) \/ Go!GoBecomeOverdue(ip) \/ Go!GoExpire(ip)
             \/ \E t \in Threads : Go!GoAsk(t) \/ Go!GoStore(t)
      PROVE  IInv'
  BY <1>3, GoSteps, PyUnchanged DEF IInv
<1>4. CASE \E ip \in Addresses : PyLookup(ip) \/ PyOverdue(ip) \/ PyExpire(ip)
  BY <1>2, <1>4 DEF PyLookup, PyOverdue, PyExpire, PyStep
<1>5. CASE \E ip \in Addresses : GoLookup(ip) \/ GoOverdue(ip) \/ GoExpire(ip)
  BY <1>3, <1>5 DEF GoLookup, GoOverdue, GoExpire, GoStep
<1>6. CASE PyUI
  BY <1>2, <1>6 DEF PyUI, PyStep
<1>7. CASE \E t \in Threads : PyFetch(t) \/ GoAsk(t) \/ GoStore(t)
  BY <1>2, <1>3, <1>7 DEF PyFetch, GoAsk, GoStore, PyStep, GoStep
<1> QED BY <1>1, <1>4, <1>5, <1>6, <1>7 DEF Next

LEMMA Invariant == Spec => []IInv
  BY Initially, Inductive, PTL DEF Spec

\* The state has its type: the caches of the Python monitor never exceed their limit, no
\* address is in one twice, and no more goroutines ask than the semaphore of the Go monitor has places.
THEOREM TypeCorrect == Spec => []TypeOK
<1>1. IInv => TypeOK
  BY DEF IInv, PyInv, GoInv, TypeOK
<1> QED BY <1>1, Invariant, PTL

\* However lookups, answers, failures and threads that cannot be started follow each other,
\* the permits of the Python monitor's semaphore are neither lost nor invented, but for those of
\* threads that did not start.
THEOREM NoPermitLost == Spec => []PermitsConserved
<1>1. IInv => PermitsConserved
  BY DEF IInv, PyInv
<1> QED BY <1>1, Invariant, PTL

\* No address is fetched twice at once by the Python monitor, unless a mark was given up.
THEOREM NeverFetchedTwice == Spec => []OneFetch
<1>1. IInv => OneFetch
  BY DEF IInv, PyInv
<1> QED BY <1>1, Invariant, PTL

\* The eviction queue of the Go monitor reaches every entry of its cache.
THEOREM EvictionReaches == Spec => []Evictable
<1>1. IInv => Evictable
  BY DEF IInv, GoInv
<1> QED BY <1>1, Invariant, PTL

\* The Go cache keeps its limit until an expired entry is looked up or an address is stored
\* twice.
THEOREM CacheBounded == Spec => []BoundedUntilDrift
<1>1. IInv => BoundedUntilDrift
  BY DEF IInv, GoInv
<1> QED BY <1>1, Invariant, PTL

\* Every mark of the Go monitor stands for a goroutine that will remove it.
THEOREM MarksHaveFetches == Spec => []MarkHasFetch
<1>1. IInv => MarkHasFetch
  BY DEF IInv, GoInv
<1> QED BY <1>1, Invariant, PTL
=============================================================================
