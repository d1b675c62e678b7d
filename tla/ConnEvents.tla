----------------------------- MODULE ConnEvents ------------------------------
(***************************************************************************)
(* The connection of the Python monitor's statistics client to Xray and    *)
(* the journal of connections it keeps (modules/stats.py).  A fetch of the *)
(* tick worker asks Xray several times in a row; _track compares what it   *)
(* was told, and the addresses in the access log, with the tick before and *)
(* writes connect and disconnect events.  Meanwhile clients come and go,   *)
(* and the UI thread may close the channel and open a new one.             *)
(*                                                                         *)
(* Time is left out: an address may have a line in the log at any moment,  *)
(* and which address has the latest is left open, as is who has counters.  *)
(* Of the journal, which keeps 200 events, the last event of an address    *)
(* and the last one of a user are kept, as history; a connect that only    *)
(* the log tells of is "logged" in the latter.                             *)
(***************************************************************************)
EXTENDS Integers, FiniteSets

CONSTANTS Users, Addresses

ASSUME NobodyAssumption == "none" \notin Addresses

VARIABLES
    xray,       \* "up", or "down": it answers no request in time
    session,    \* the addresses from which each user is connected
    channel,    \* the channel of the client: "open" or "closed"
    connected,  \* connected
    stub,       \* stub is set: connect() has succeeded at least once
    ui,         \* where the UI thread is in action_reconnect
    worker,     \* where the fetch is, with what it has got so far:
    closed,     \*   its channel was closed under it,
    logIps,     \*   log_ips, the copy of client_ips,
    online,     \*   online_users,
    todo,       \*   the users whose addresses are still to be asked for,
    userIps,    \*   user_ips, with no address for a user that is not in it
    prevOnline, prevIps, prevLogIps, logInitialized,    \* as in the code
    lastAt,     \* history: the last event of a user at an address
    lastOf,     \* history: the last event of a user
    missed      \* history: users of whom Xray named addresses although it was not known
                \* to that fetch that they are online

world == <<xray, session>>
client == <<channel, connected, stub, ui>>
fetch == <<worker, closed, logIps, online, todo, userIps>>
tracked == <<prevOnline, prevIps, prevLogIps, logInitialized>>
journal == <<lastAt, lastOf>>
vars == <<xray, session, channel, connected, stub, ui, worker, closed, logIps, online, todo,
          userIps, prevOnline, prevIps, prevLogIps, logInitialized, lastAt, lastOf, missed>>
-----------------------------------------------------------------------------
Ips == [Users -> SUBSET Addresses]
NoIps == [u \in Users |-> {}]
OnlineNow == {u \in Users : session[u] # {}}

TypeOK ==
    /\ xray \in {"up", "down"}
    /\ {session, logIps, userIps, prevIps, prevLogIps} \subseteq Ips
    /\ channel \in {"open", "closed"} /\ connected \in {FALSE, channel = "open"}
    /\ stub \in BOOLEAN /\ ui \in {"loop", "closed"}
    /\ worker \in {"idle", "query", "online", "ips"} /\ closed \in BOOLEAN
    /\ online \subseteq Users /\ todo \subseteq Users /\ prevOnline \subseteq Users
    /\ logInitialized \in BOOLEAN
    /\ lastAt \in [Users -> [Addresses -> {"none", "connect", "disconnect"}]]
    /\ lastOf \in [Users -> {"none", "connect", "logged", "disconnect"}]
    /\ missed \subseteq Users

\* on_mount connects, or fails to.
Init ==
    /\ xray = "up" /\ session = NoIps
    /\ stub \in BOOLEAN /\ connected = stub
    /\ channel = IF stub THEN "open" ELSE "closed"
    /\ ui = "loop"
    /\ worker = "idle" /\ closed = FALSE /\ logIps = NoIps /\ online = {} /\ todo = {}
    /\ userIps = NoIps
    /\ prevOnline = {} /\ prevIps = NoIps /\ prevLogIps = NoIps /\ logInitialized = FALSE
    /\ lastAt = [u \in Users |-> [ip \in Addresses |-> "none"]]
    /\ lastOf = [u \in Users |-> "none"]
    /\ missed = {}
-----------------------------------------------------------------------------
(* Xray and its clients *)

Come(u, ip) ==
    /\ xray = "up" /\ ip \notin session[u]
    /\ session' = [session EXCEPT ![u] = @ \union {ip}]
    /\ UNCHANGED <<xray, client, fetch, tracked, journal, missed>>

Leave(u, ip) ==
    /\ ip \in session[u]
    /\ session' = [session EXCEPT ![u] = @ \ {ip}]
    /\ UNCHANGED <<xray, client, fetch, tracked, journal, missed>>

XrayStops ==
    /\ xray = "up" /\ xray' = "down"
    /\ session' = NoIps
    /\ UNCHANGED <<client, fetch, tracked, journal, missed>>

XrayStarts ==
    /\ xray = "down" /\ xray' = "up"
    /\ UNCHANGED <<session, client, fetch, tracked, journal, missed>>
-----------------------------------------------------------------------------
(* action_reconnect, on the UI thread *)

\* (A faulty variant for mutation goes on counting as connected.)
DisconnectQuietly ==
    /\ ui = "loop" /\ ui' = "closed"
    /\ channel' = "closed"
    /\ closed' = (closed \/ worker # "idle")
    /\ UNCHANGED <<world, connected, stub, worker, logIps, online, todo, userIps, tracked,
                   journal, missed>>

Disconnect ==
    /\ ui = "loop" /\ ui' = "closed"
    /\ channel' = "closed" /\ connected' = FALSE
    /\ closed' = (closed \/ worker # "idle")
    /\ UNCHANGED <<world, stub, worker, logIps, online, todo, userIps, tracked, journal, missed>>

\* connect() first closes the old channel, which a fetch may have opened since the disconnect.
CloseOld == closed' = (closed \/ (channel = "open" /\ worker # "idle"))

\* A faulty variant for mutation: connected is not set.
ConnectSilently ==
    /\ ui = "closed" /\ ui' = "loop"
    /\ CloseOld
    /\ channel' = "open" /\ stub' = TRUE
    /\ UNCHANGED <<world, connected, worker, logIps, online, todo, userIps, tracked, journal,
                   missed>>

Connect ==
    /\ ui = "closed" /\ ui' = "loop"
    /\ CloseOld
    /\ channel' = "open" /\ connected' = TRUE /\ stub' = TRUE
    /\ UNCHANGED <<world, worker, logIps, online, todo, userIps, tracked, journal, missed>>

ConnectFails ==
    /\ ui = "closed" /\ ui' = "loop"
    /\ CloseOld
    /\ channel' = "closed" /\ connected' = FALSE
    /\ UNCHANGED <<world, stub, worker, logIps, online, todo, userIps, tracked, journal, missed>>
-----------------------------------------------------------------------------
(* fetch, in the tick worker *)

FetchEnds ==
    /\ worker' = "idle" /\ closed' = FALSE
    /\ logIps' = NoIps /\ online' = {} /\ todo' = {} /\ userIps' = NoIps

\* log_snap, the addresses in the log of the last 24 hours, is taken, then fetch begins.  It
\* connects if nobody ever has, and gives up at once if that fails or connected is false.
BeginFetch(log) ==
    /\ worker = "idle" /\ (connected \/ ~stub)
    /\ channel' = "open" /\ connected' = TRUE /\ stub' = TRUE
    /\ worker' = "query" /\ logIps' = log
    /\ UNCHANGED <<world, ui, closed, online, todo, userIps, tracked, journal, missed>>

Answers == xray = "up" /\ ~closed

\* query_stats: who has counters of traffic, and who is online, as far as there are such
\* counters: Xray need not keep them.
QueryStats(users, seen) ==
    /\ worker = "query" /\ Answers
    /\ worker' = "online" /\ online' = seen /\ todo' = users
    /\ UNCHANGED <<world, client, closed, logIps, userIps, tracked, journal, missed>>

\* A failure of the first request ends the fetch, and the client is not connected, even if it
\* has a new channel by now.
QueryFails ==
    /\ worker = "query" /\ ~Answers
    /\ connected' = FALSE
    /\ FetchEnds
    /\ UNCHANGED <<world, channel, stub, ui, tracked, journal, missed>>

\* GetAllOnlineUsers adds to them; an older Xray does not know it, and a failure is ignored.
AllOnlineUsers ==
    /\ worker = "online" /\ worker' = "ips"
    /\ \/ Answers /\ online' = online \union OnlineNow
       \/ UNCHANGED online
    /\ UNCHANGED <<world, client, closed, logIps, todo, userIps, tracked, journal, missed>>

\* The addresses of one user after the other; a failure leaves a user without.
OnlineIps(u) ==
    /\ worker = "ips" /\ u \in todo
    /\ todo' = todo \ {u}
    /\ \/ Answers /\ userIps' = [userIps EXCEPT ![u] = session[u]]
       \/ UNCHANGED userIps
    /\ UNCHANGED <<world, client, worker, closed, logIps, online, tracked, journal, missed>>

-----------------------------------------------------------------------------
(* _track, under the lock; each user is tracked independently of the others *)

\* New in the log, or there with a line more than 30 seconds after the last (again); the first
\* copy of the log is only remembered.
FromLog(u, again) ==
    IF logInitialized
    THEN (logIps[u] \ prevLogIps[u]) \union (logIps[u] \intersect again[u])
    ELSE {}

\* Xray names addresses of the user: those that are new, and those that are gone.
New(u) == IF userIps[u] = {} THEN {} ELSE userIps[u] \ prevIps[u]
Gone(u) == IF userIps[u] = {} THEN {} ELSE prevIps[u] \ userIps[u]
Moved(u) == New(u) \union Gone(u) # {}

\* Events without an address, for users about whose addresses Xray says nothing new.
Arrives(u) == u \in online \ prevOnline /\ ~Moved(u) /\ logIps[u] = {}
Departs(u) == u \in prevOnline \ online /\ ~Moved(u)

\* What stays known of the user's addresses (and a faulty variant for mutation, which keeps
\* those of users that are not online).
KeptIps(u) == IF userIps[u] # {} THEN userIps[u] ELSE prevIps[u]
IpsOf(u) ==
    IF userIps[u] # {} THEN userIps[u] ELSE IF u \in online THEN prevIps[u] ELSE {}

\* The last event of an address; a user that departs is said to leave its latest address.
LastAt(u, ip, again, latest) ==
    IF ip \in Gone(u) \/ (Departs(u) /\ ip = latest[u]) THEN "disconnect"
    ELSE IF ip \in FromLog(u, again) \union New(u) THEN "connect" ELSE lastAt[u][ip]

\* A user's events from the log come first, then those from Xray, which is silent on an address that
\* the log has just brought.  (A faulty variant for mutation forgets the users without addresses.)
LastOfSeen(u, again) ==
    IF Gone(u) # {} THEN "disconnect"
    ELSE IF New(u) \ FromLog(u, again) # {} THEN "connect" ELSE lastOf[u]
LastOf(u, again) ==
    IF Departs(u) \/ Gone(u) # {} THEN "disconnect"
    ELSE IF Arrives(u) \/ New(u) \ FromLog(u, again) # {} THEN "connect"
    ELSE IF FromLog(u, again) # {} THEN "logged" ELSE lastOf[u]

Track(again, latest) ==
    /\ worker = "ips" /\ todo = {}
    /\ prevOnline' = online
    /\ prevIps' = [u \in Users |-> IpsOf(u)]
    /\ prevLogIps' = logIps /\ logInitialized' = TRUE
    /\ lastAt' = [u \in Users |-> [ip \in Addresses |-> LastAt(u, ip, again, latest)]]
    /\ lastOf' = [u \in Users |-> LastOf(u, again)]
    /\ missed' = missed \union {u \in Users \ online : userIps[u] # {}}
    /\ FetchEnds
    /\ UNCHANGED <<world, client>>

TrackSome ==
    \E again \in Ips, latest \in [Users -> Addresses \union {"none"}] :
        /\ \A u \in Users : latest[u] = "none" <=> logIps[u] = {}
        /\ \A u \in Users : latest[u] = "none" \/ latest[u] \in logIps[u]
        /\ Track(again, latest)
-----------------------------------------------------------------------------
Fetch ==
    \/ \E log \in Ips : BeginFetch(log)
    \/ \E users \in SUBSET Users, seen \in SUBSET OnlineNow : QueryStats(users, seen)
    \/ QueryFails \/ AllOnlineUsers
    \/ \E u \in Users : OnlineIps(u)
    \/ TrackSome

Next ==
    \/ \E u \in Users, ip \in Addresses : Come(u, ip) \/ Leave(u, ip)
    \/ XrayStops \/ XrayStarts
    \/ Disconnect \/ Connect \/ ConnectFails
    \/ Fetch

\* Ticks go on, and a request ends with an answer or its timeout; an action of the interface is
\* carried out, and opening a channel, which sends nothing, does not fail for ever, be it in
\* the interface or in a fetch.
Fairness == WF_vars(Fetch) /\ WF_vars(Connect \/ ConnectFails) /\ SF_vars(Connect)

Spec == Init /\ [][Next]_vars /\ Fairness
-----------------------------------------------------------------------------
(* Properties *)

\* An address that Xray reported last has a connect as its last event, whatever the log and the
\* user-level events say of it, and whichever requests failed; unless a fetch once got addresses
\* of the user from Xray without learning that the user is online, because the user came between
\* the two requests or the list was incomplete and the request that completes it failed.
OnlineHasConnect ==
    \A u \in Users \ missed : \A ip \in prevIps[u] : lastAt[u][ip] = "connect"

\* The other way round: a user about whom Xray's connect was the last word is known to be
\* there, so that a disconnect can still be reported when the user leaves; with the same
\* exception.
LeftIsReported ==
    \A u \in Users \ missed :
        lastOf[u] = "connect" => u \in prevOnline \/ prevIps[u] # {}

\* If Xray stays up and the user reconnects only and whenever the monitor is offline, it is online
\* in the end, although a fetch that began on the old channel may undo a reconnect.
Reconnects ==
    /\ <>[](xray = "up")
    /\ <>[][connected => ~Disconnect]_vars
    /\ WF_vars(~connected /\ Disconnect)
    => <>[]connected
=============================================================================
