-------------------------- MODULE ConnEventsProofs --------------------------
(***************************************************************************)
(* What the journal of connections says, proved for any users and          *)
(* addresses.  Both properties rest on Known: of a user whose addresses    *)
(* Xray never named to a fetch that did not know the user is online,       *)
(* addresses are remembered only while the user is remembered as online.   *)
(***************************************************************************)
EXTENDS ConnEvents, TLAPS

Known == \A u \in Users \ missed : prevIps[u] # {} => u \in prevOnline

IInv == TypeOK /\ Known /\ OnlineHasConnect /\ LeftIsReported
-----------------------------------------------------------------------------
(* Types *)

LEMMA InitTyped == ASSUME Init PROVE TypeOK
<1>1. NoIps \in Ips
  BY DEF Ips, NoIps
<1>2. {session, logIps, userIps, prevIps, prevLogIps} \subseteq Ips
  BY <1>1 DEF Init
<1>3. lastAt \in [Users -> [Addresses -> {"none", "connect", "disconnect"}]]
  BY DEF Init
<1>4. lastOf \in [Users -> {"none", "connect", "logged", "disconnect"}]
  BY DEF Init
<1>5. connected \in {FALSE, channel = "open"}
  BY DEF Init
<1> QED BY <1>2, <1>3, <1>4, <1>5 DEF Init, TypeOK

LEMMA SessionTyped ==
    ASSUME NEW s \in [Users -> SUBSET Addresses], NEW u \in Users, NEW ip \in Addresses
    PROVE  /\ [s EXCEPT ![u] = @ \union {ip}] \in [Users -> SUBSET Addresses]
           /\ [s EXCEPT ![u] = @ \ {ip}] \in [Users -> SUBSET Addresses]
OBVIOUS

LEMMA WorldTyped ==
    ASSUME TypeOK,
           (\E u \in Users, ip \in Addresses : Come(u, ip) \/ Leave(u, ip)) \/ XrayStops \/ XrayStarts
    PROVE  TypeOK'
<1> USE DEF TypeOK, world, client, fetch, tracked, journal, Ips, NoIps
<1>1. ASSUME NEW u \in Users, NEW ip \in Addresses, Come(u, ip) \/ Leave(u, ip) PROVE TypeOK'
  <2>1. session' \in {[session EXCEPT ![u] = @ \union {ip}], [session EXCEPT ![u] = @ \ {ip}]}
    BY <1>1 DEF Come, Leave
  <2>2. session' \in [Users -> SUBSET Addresses]
    <3>1. session \in [Users -> SUBSET Addresses]
      OBVIOUS
    <3>2. /\ [session EXCEPT ![u] = @ \union {ip}] \in [Users -> SUBSET Addresses]
          /\ [session EXCEPT ![u] = @ \ {ip}] \in [Users -> SUBSET Addresses]
      BY <3>1, SessionTyped
    <3> HIDE DEF TypeOK
    <3> QED BY <2>1, <3>2
  <2>4. UNCHANGED <<xray, client, fetch, tracked, journal, missed>>
    BY <1>1 DEF Come, Leave
  <2>5. {session', logIps', userIps', prevIps', prevLogIps'} \subseteq Ips
    BY <2>2, <2>4
  <2> QED BY <2>4, <2>5
<1>2. CASE XrayStops
  <2>1. session' \in Ips /\ xray' \in {"up", "down"}
        /\ UNCHANGED <<client, fetch, tracked, journal, missed>>
    BY <1>2 DEF XrayStops
  <2>2. {session', logIps', userIps', prevIps', prevLogIps'} \subseteq Ips
    BY <2>1
  <2> QED BY <2>1, <2>2
<1>3. CASE XrayStarts
  BY <1>3 DEF XrayStarts
<1> QED BY <1>1, <1>2, <1>3

LEMMA ClientTyped ==
    ASSUME TypeOK, Disconnect \/ Connect \/ ConnectFails PROVE TypeOK'
BY DEF TypeOK, Disconnect, Connect, ConnectFails, CloseOld, world, tracked, journal

LEMMA RequestsTyped ==
    ASSUME TypeOK,
           \/ \E log \in Ips : BeginFetch(log)
           \/ \E users \in SUBSET Users, seen \in SUBSET OnlineNow : QueryStats(users, seen)
           \/ QueryFails \/ AllOnlineUsers
           \/ \E u \in Users : OnlineIps(u)
    PROVE  TypeOK'
<1> USE DEF TypeOK, world, client, tracked, journal
<1>1. CASE \E log \in Ips : BeginFetch(log)
  <2>1. /\ logIps' \in Ips /\ worker' = "query"
        /\ channel' = "open" /\ connected' = TRUE /\ stub' = TRUE
        /\ UNCHANGED <<world, ui, closed, online, todo, userIps, tracked, journal, missed>>
    BY <1>1 DEF BeginFetch
  <2> QED BY <2>1
<1>2. CASE \E users \in SUBSET Users, seen \in SUBSET OnlineNow : QueryStats(users, seen)
  BY <1>2 DEF QueryStats, OnlineNow
<1>3. CASE QueryFails
  <2>1. NoIps \in Ips
    BY DEF Ips, NoIps
  <2> QED BY <1>3, <2>1 DEF QueryFails, FetchEnds
<1>4. CASE AllOnlineUsers
  BY <1>4 DEF AllOnlineUsers, OnlineNow
<1>5. ASSUME NEW u \in Users, OnlineIps(u) PROVE TypeOK'
  <2>1. userIps' \in Ips
    <3>1. userIps \in Ips /\ session[u] \in SUBSET Addresses
      BY DEF Ips
    <3>2. [userIps EXCEPT ![u] = session[u]] \in Ips
      BY <3>1 DEF Ips
    <3> HIDE DEF TypeOK
    <3> QED BY <1>5, <3>1, <3>2 DEF OnlineIps
  <2> QED BY <1>5, <2>1 DEF OnlineIps
<1> QED BY <1>1, <1>2, <1>3, <1>4, <1>5

LEMMA TrackTyped ==
    ASSUME TypeOK, NEW again, NEW latest, Track(again, latest) PROVE TypeOK'
<1>1. prevIps' \in Ips /\ prevOnline' \subseteq Users
  BY DEF TypeOK, Track, IpsOf, Ips
<1>2. prevLogIps' \in Ips /\ logIps' \in Ips /\ userIps' \in Ips
  BY DEF TypeOK, Track, FetchEnds, Ips, NoIps
<1>3. lastAt' \in [Users -> [Addresses -> {"none", "connect", "disconnect"}]]
  BY DEF TypeOK, Track, LastAt
<1>4. lastOf' \in [Users -> {"none", "connect", "logged", "disconnect"}]
  BY DEF TypeOK, Track, LastOf
<1>5. missed' \subseteq Users
  BY DEF TypeOK, Track
<1> QED BY <1>1, <1>2, <1>3, <1>4, <1>5 DEF TypeOK, Track, FetchEnds, world, client

LEMMA StepTyped == TypeOK /\ [Next]_vars => TypeOK'
<1>1. ASSUME TypeOK, TrackSome PROVE TypeOK'
  BY <1>1, TrackTyped DEF TrackSome
<1>2. ASSUME TypeOK, UNCHANGED vars PROVE TypeOK'
  BY <1>2 DEF TypeOK, vars
<1> QED BY <1>1, <1>2, WorldTyped, ClientTyped, RequestsTyped DEF Next, Fetch
-----------------------------------------------------------------------------
(* Everything but a comparison of two ticks leaves the journal alone *)

LEMMA OthersKeep ==
    ASSUME IInv, TypeOK', UNCHANGED <<prevOnline, prevIps, lastAt, lastOf, missed>>
    PROVE  IInv'
BY DEF IInv, Known, OnlineHasConnect, LeftIsReported

LEMMA OtherSteps ==
    ASSUME [Next]_vars, ~TrackSome
    PROVE  UNCHANGED <<prevOnline, prevIps, lastAt, lastOf, missed>>
<1> USE DEF world, client, tracked, journal
<1>1. ASSUME NEW u \in Users, NEW ip \in Addresses, Come(u, ip) \/ Leave(u, ip)
      PROVE  UNCHANGED <<prevOnline, prevIps, lastAt, lastOf, missed>>
  BY <1>1 DEF Come, Leave
<1>2. ASSUME XrayStops \/ XrayStarts \/ UNCHANGED vars
      PROVE  UNCHANGED <<prevOnline, prevIps, lastAt, lastOf, missed>>
  BY <1>2 DEF XrayStops, XrayStarts, vars
<1>3. ASSUME Disconnect \/ Connect \/ ConnectFails
      PROVE  UNCHANGED <<prevOnline, prevIps, lastAt, lastOf, missed>>
  BY <1>3 DEF Disconnect, Connect, ConnectFails
<1>4. ASSUME Fetch PROVE UNCHANGED <<prevOnline, prevIps, lastAt, lastOf, missed>>
  BY <1>4 DEF Fetch, BeginFetch, QueryStats, QueryFails, AllOnlineUsers, OnlineIps
<1> QED BY <1>1, <1>2, <1>3, <1>4 DEF Next
-----------------------------------------------------------------------------
(* _track *)

\* A user that is not missed is online if Xray names addresses.
LEMMA TrackMisses ==
    ASSUME NEW again, NEW latest, Track(again, latest), NEW u \in Users \ missed'
    PROVE  u \notin missed /\ (userIps[u] # {} => u \in online)
BY DEF Track

LEMMA TrackKnown ==
    ASSUME NEW again, NEW latest, Track(again, latest),
           NEW u \in Users \ missed', prevIps'[u] # {}
    PROVE  u \in prevOnline'
<1>1. prevIps'[u] = IpsOf(u) /\ prevOnline' = online
  BY DEF Track
<1> QED BY <1>1, TrackMisses DEF IpsOf

\* An address that stays known was reported just now, or is one of a user who is online.
LEMMA TrackConnects ==
    ASSUME TypeOK, NEW again, NEW latest, Track(again, latest),
           NEW u \in Users \ missed', \A ip \in prevIps[u] : lastAt[u][ip] = "connect",
           NEW ip \in prevIps'[u]
    PROVE  lastAt'[u][ip] = "connect"
<1>1. prevIps'[u] = IpsOf(u) /\ lastAt'[u][ip] = LastAt(u, ip, again, latest)
  <2>1. prevIps'[u] \subseteq Addresses
    BY DEF TypeOK, Track, IpsOf, Ips
  <2> QED BY <2>1 DEF Track
<1>2. u \in online /\ ~Departs(u)
  BY <1>1, TrackMisses DEF IpsOf, Departs
<1>3. ip \notin Gone(u)
  BY <1>1 DEF IpsOf, Gone
<1>4. ip \in New(u) \/ ip \in prevIps[u]
  BY <1>1 DEF IpsOf, New
<1> QED BY <1>1, <1>2, <1>3, <1>4 DEF LastAt

LEMMA TrackReports ==
    ASSUME TypeOK, Known, NEW again, NEW latest, Track(again, latest),
           NEW u \in Users \ missed', lastOf[u] = "connect" => u \in prevOnline \/ prevIps[u] # {},
           lastOf'[u] = "connect"
    PROVE  u \in prevOnline' \/ prevIps'[u] # {}
<1>1. prevIps'[u] = IpsOf(u) /\ prevOnline' = online /\ LastOf(u, again) = "connect"
  BY DEF Track
<1>2. userIps[u] # {} => IpsOf(u) # {}
  BY DEF IpsOf
<1>3. New(u) # {} => userIps[u] # {}
  BY DEF New
<1>4. ~Departs(u) /\ Gone(u) = {}
  BY <1>1 DEF LastOf
<1>5. CASE Arrives(u) \/ New(u) \ FromLog(u, again) # {}
  BY <1>1, <1>2, <1>3, <1>5 DEF Arrives
<1>6. CASE ~(Arrives(u) \/ New(u) \ FromLog(u, again) # {})
  <2>1. u \in prevOnline
    BY <1>1, <1>4, <1>6, TrackMisses DEF LastOf, Known
  <2>2. u \in online \/ New(u) # {}
    BY <1>4, <2>1 DEF Departs, Moved
  <2> QED BY <1>1, <1>2, <1>3, <2>2
<1> QED BY <1>5, <1>6

LEMMA TrackKeeps ==
    ASSUME IInv, TrackSome PROVE IInv'
<1>1. PICK again, latest : Track(again, latest)
  BY DEF TrackSome
<1>2. TypeOK /\ TypeOK'
  BY <1>1, TrackTyped DEF IInv
<1>3. Known'
  BY <1>1, TrackKnown DEF Known
<1>4. ASSUME NEW u \in Users \ missed', NEW ip \in prevIps'[u] PROVE lastAt'[u][ip] = "connect"
  <2>1. \A i \in prevIps[u] : lastAt[u][i] = "connect"
    BY <1>1, TrackMisses DEF IInv, OnlineHasConnect
  <2> QED BY <1>1, <1>2, <2>1, TrackConnects
<1>5. ASSUME NEW u \in Users \ missed', lastOf'[u] = "connect"
      PROVE  u \in prevOnline' \/ prevIps'[u] # {}
  <2>1. lastOf[u] = "connect" => u \in prevOnline \/ prevIps[u] # {}
    BY <1>1, TrackMisses DEF IInv, LeftIsReported
  <2> QED BY <1>1, <1>2, <1>5, <2>1, TrackReports DEF IInv
<1> QED BY <1>2, <1>3, <1>4, <1>5 DEF IInv, OnlineHasConnect, LeftIsReported
-----------------------------------------------------------------------------
LEMMA Initially == Init => IInv
<1>1. \A u \in Users : NoIps[u] = {}
  BY DEF NoIps
<1> QED BY <1>1, InitTyped DEF Init, IInv, Known, OnlineHasConnect, LeftIsReported

LEMMA Inductive == IInv /\ [Next]_vars => IInv'
<1> SUFFICES ASSUME IInv, [Next]_vars PROVE IInv'
  OBVIOUS
<1>1. CASE TrackSome
  BY <1>1, TrackKeeps
<1>2. CASE ~TrackSome
  BY <1>2, OtherSteps, OthersKeep, StepTyped DEF IInv
<1> QED BY <1>1, <1>2

LEMMA Invariant == Spec => []IInv
BY Initially, Inductive, PTL DEF Spec

\* Every variable always has its type; in particular the client never counts as connected on a
\* channel that is closed.
THEOREM TypeCorrect == Spec => []TypeOK
BY InitTyped, StepTyped, PTL DEF Spec

\* However clients come and go, requests fail and the log tells of addresses, the last event at
\* an address that is known as online is a connect, unless a fetch once got addresses of the
\* user without learning that the user is online.
THEOREM OnlineIsConnected == Spec => []OnlineHasConnect
<1>1. IInv => OnlineHasConnect
  BY DEF IInv
<1> QED BY <1>1, Invariant, PTL

\* A user about whom Xray's connect was the last word is known to be there, with the same exception.
THEOREM NobodyForgotten == Spec => []LeftIsReported
<1>1. IInv => LeftIsReported
  BY DEF IInv
<1> QED BY <1>1, Invariant, PTL
=============================================================================
