-------------------------- MODULE AppThreadsProofs --------------------------
(***************************************************************************)
(* Proofs about AppThreads, for any commands, updates and pool threads.    *)
(*                                                                         *)
(* The binary and the service are safe because an update that is alone     *)
(* owns the temporary files and the copy from its first step to its last:  *)
(* whoever else changes the service meanwhile either leaves it as the      *)
(* update will, or makes the update stop before it has touched the binary. *)
(***************************************************************************)
EXTENDS AppThreads, FiniteSetTheorems, TLAPS

Typed ==
    /\ ui \in {"loop", "editing", "joining", "closing", "ended", "exited"}
    /\ toJoin \subseteq Updates
    /\ calls \subseteq Jobs \union Updates
    /\ fetchLock \in BOOLEAN
    /\ systemLock \in Jobs \union {Free}
    /\ job \in [Jobs -> {"idle", "queued", "lock", "run", "notify", "done"}]
    /\ kind \in [Commands -> Kinds]
    /\ xray \in {"up", "down"}
    /\ binary \in {"whole", "torn"} /\ backup \in {"none", "whole", "torn"}
    /\ tmp \in {"absent", "empty", "zip", "unpacked"}
    /\ update \in [Updates -> Finished \union
            {"check", "download", "write", "extract", "install", "stop", "backup",
             "copy", "copying", "geo", "restart", "clean", "report"}]
    /\ wasRunning \in [Updates -> BOOLEAN]
    /\ stopped \in BOOLEAN
    /\ events \subseteq {"fault", "overlap", "quit"}

\* A job is in the queue once, and only while it is queued; a tick holds _fetch_lock from its
\* submission to its end.
Pooled ==
    /\ queue \in Seq(Jobs)
    /\ \A i, j \in DOMAIN queue : queue[i] = queue[j] => i = j
    /\ \A i \in DOMAIN queue : job[queue[i]] = "queued"
    /\ job["tick"] # "idle" => fetchLock = TRUE
    /\ IsFiniteSet(Busy) /\ Cardinality(Busy) <= Workers

\* An update waits for the UI thread only where it announces a stage.
Announced == {"check", "download", "extract", "install", "restart", "report"}

Threads ==
    /\ \A u \in Updates : u \in calls => update[u] \in Announced
    /\ "quit" \notin events => ui \in {"loop", "editing"}
    /\ ui = "exited" => Alive = {}
    /\ "overlap" \notin events => \A u, v \in Alive : u = v

\* The binary is torn only under the hands of an update that has made a copy of it, or for ever.
Recoverable ==
    /\ binary = "torn" =>
        backup = "whole" /\ (ui = "exited" \/ \E u \in Updates : update[u] = "copying")
    /\ \A u \in Updates : update[u] \in {"copy", "copying"} => backup = "whole"

\* Xray is down without the user's wish only under the hands of an update that will start it.
Kept ==
    /\ \A u \in Updates :
        /\ update[u] \in {"install", "stop", "backup", "copy", "copying", "geo"} => tmp = "unpacked"
        /\ update[u] = "stop" => wasRunning[u] = TRUE
        /\ update[u] = "copying" => binary = "torn" /\ (wasRunning[u] = TRUE \/ stopped = TRUE)
    /\ xray = "down" /\ stopped = FALSE =>
        \E u \in Updates :
            update[u] \in {"backup", "copy", "copying", "geo", "restart"} /\ wasRunning[u] = TRUE

IInv ==
    /\ Typed /\ Pooled /\ Threads
    /\ events \subseteq {"quit"} => Recoverable
    /\ events = {} => Kept
-----------------------------------------------------------------------------
(* Types *)

LEMMA InitTyped == Init => Typed
<1> SUFFICES ASSUME Init PROVE Typed
  OBVIOUS
<1>1. job \in [Jobs -> {"idle", "queued", "lock", "run", "notify", "done"}]
  BY DEF Init
<1>2. update \in [Updates -> Finished \union
            {"check", "download", "write", "extract", "install", "stop", "backup",
             "copy", "copying", "geo", "restart", "clean", "report"}]
  BY DEF Init, Finished
<1>3. wasRunning \in [Updates -> BOOLEAN]
  BY DEF Init
<1> QED BY <1>1, <1>2, <1>3 DEF Init, Typed, Free

LEMMA JobFacts == "tick" \in Jobs /\ Commands \subseteq Jobs
  BY DEF Jobs

LEMMA UserTyped ==
  ASSUME Typed, User PROVE Typed'
<1> USE DEF locks, pool, machine, updating
<1>1. ASSUME NEW j \in Jobs, Submit(j)
      PROVE  job' \in [Jobs -> {"idle", "queued", "lock", "run", "notify", "done"}]
  BY <1>1 DEF Submit, Typed
<1>2. CASE Tick
  BY <1>1, <1>2, JobFacts DEF Tick, Typed
<1>3. ASSUME NEW c \in Commands, Command(c) PROVE Typed'
  BY <1>1, <1>3, JobFacts DEF Command, Typed
<1>4. ASSUME NEW u \in Updates, StartUpdate(u) PROVE Typed'
  <2>1. calls' \subseteq Jobs \union Updates /\ events' \subseteq {"fault", "overlap", "quit"}
    BY <1>4 DEF StartUpdate, Typed
  <2>2. update' \in [Updates -> Finished \union
            {"check", "download", "write", "extract", "install", "stop", "backup",
             "copy", "copying", "geo", "restart", "clean", "report"}]
    BY <1>4 DEF StartUpdate, Typed
  <2> QED BY <1>4, <2>1, <2>2 DEF StartUpdate, Typed
<1>5. CASE OpenEditor \/ CloseEditor
  <2>1. ui' \in {"loop", "editing"} /\ UNCHANGED <<toJoin, calls, locks, pool, machine, updating, stopped, events>>
    BY <1>5 DEF OpenEditor, CloseEditor
  <2> QED BY <2>1 DEF Typed
<1>6. CASE Quit
  BY <1>6 DEF Quit, Alive, Typed
<1> QED BY <1>2, <1>3, <1>4, <1>5, <1>6 DEF User

LEMMA LoopTyped ==
  ASSUME Typed, Loop PROVE Typed'
<1> USE DEF locks, pool, machine, updating
<1>1. ASSUME NEW t \in Jobs \union Updates, Serve(t) PROVE Typed'
  BY <1>1 DEF Serve, Typed
<1>2. ASSUME NEW u \in Updates, Join(u) PROVE Typed'
  BY <1>2 DEF Join, Typed
<1>3. CASE Unmounted \/ LoopEnds
  <2>1. ui' \in {"closing", "ended"} /\ UNCHANGED <<toJoin, calls, locks, pool, machine, updating, stopped, events>>
    BY <1>3 DEF Unmounted, LoopEnds
  <2> QED BY <2>1 DEF Typed
<1>4. CASE Exit
  <2>1. update' \in [Updates -> Finished \union
            {"check", "download", "write", "extract", "install", "stop", "backup",
             "copy", "copying", "geo", "restart", "clean", "report"}]
    BY <1>4 DEF Exit, Typed, Finished
  <2> QED BY <1>4, <2>1 DEF Exit, Typed
<1> QED BY <1>1, <1>2, <1>3, <1>4 DEF Loop

LEMMA TickTyped ==
  ASSUME Typed, TickStep PROVE Typed'
<1> USE DEF locks, pool, machine, updating
<1>1. CASE RunTick
  BY <1>1, JobFacts DEF RunTick, Take, Typed
<1>2. CASE SkipTick
  <2>1. /\ job' \in [Jobs -> {"idle", "queued", "lock", "run", "notify", "done"}] /\ fetchLock' \in BOOLEAN
        /\ UNCHANGED <<ui, toJoin, calls, systemLock, kind, machine, updating, stopped, events>>
    BY <1>2, JobFacts DEF SkipTick, Take, Typed
  <2> QED BY <2>1 DEF Typed
<1>3. CASE TickWorked
  BY <1>3, JobFacts DEF TickWorked, Typed
<1>4. CASE TickEnds
  <2>1. /\ job' \in [Jobs -> {"idle", "queued", "lock", "run", "notify", "done"}] /\ fetchLock' \in BOOLEAN
        /\ systemLock' \in Jobs \union {Free} /\ calls' \subseteq Jobs \union Updates
        /\ UNCHANGED <<ui, toJoin, kind, machine, updating, stopped, events>>
    BY <1>4, JobFacts DEF TickEnds, Told, Typed
  <2> QED BY <2>1 DEF Typed
<1> QED BY <1>1, <1>2, <1>3, <1>4 DEF TickStep

LEMMA CommandTyped ==
  ASSUME Typed, NEW c \in Commands, CommandStep(c) \/ Acquire(c) PROVE Typed'
<1> USE DEF locks, pool, machine, updating
<1>1. CASE TakeCommand(c) \/ TakeOther(c)
  <2>1. /\ job' \in [Jobs -> {"idle", "queued", "lock", "run", "notify", "done"}]
        /\ UNCHANGED <<ui, toJoin, locks, kind, machine, updating, stopped, events>>
        /\ calls' \in {calls, calls \union {c}}
    BY <1>1, JobFacts DEF TakeCommand, TakeOther, Take, Typed
  <2> QED BY <2>1, JobFacts DEF Typed
<1>2. CASE Acquire(c)
  BY <1>2, JobFacts DEF Acquire, Typed
<1>3. CASE CommandEnds(c)
  BY <1>3, JobFacts DEF CommandEnds, Told, Typed
<1>4. ASSUME Report(c)
      PROVE  /\ job' \in [Jobs -> {"idle", "queued", "lock", "run", "notify", "done"}]
             /\ systemLock' \in Jobs \union {Free} /\ calls' \subseteq Jobs \union Updates
             /\ UNCHANGED <<ui, toJoin, fetchLock, kind, binary, backup, tmp, update, wasRunning>>
  BY <1>4, JobFacts DEF Report, Typed
<1>5. CASE StopXray(c)
  <2>1. xray' \in {"up", "down"} /\ stopped' \in BOOLEAN /\ events' = events
    BY <1>5 DEF StopXray, Typed
  <2> QED BY <1>4, <1>5, <2>1 DEF StopXray, Typed
<1>6. CASE StartXray(c)
  BY <1>4, <1>6 DEF StartXray, Typed
<1>7. CASE StartXrayFails(c)
  <2>1. xray' \in {"up", "down"} /\ stopped' = stopped /\ events' \subseteq {"fault", "overlap", "quit"}
    BY <1>7 DEF StartXrayFails, Typed
  <2> QED BY <1>4, <1>7, <2>1 DEF StartXrayFails, Typed
<1> QED BY <1>1, <1>2, <1>3, <1>5, <1>6, <1>7 DEF CommandStep

\* What every step of an update does to the threads: it moves on, and may announce so.
LEMMA UpdateMoves ==
  ASSUME NEW u \in Updates, UpdateStep(u)
  PROVE  /\ UNCHANGED <<ui, toJoin, locks, pool>>
         /\ \E s \in {"done", "download", "write", "extract", "install", "stop", "backup",
                      "copy", "copying", "geo", "restart", "clean", "report"} :
                /\ update' = [update EXCEPT ![u] = s]
                /\ calls' = calls \ {u} \/ (u \notin calls /\ calls' = calls)
                        \/ (s \in Announced /\ calls' = calls \union {u})
         /\ update[u] \notin Finished \/ (u \in calls /\ ui = "ended")
<1> USE DEF At, GoTo, Announce, Elsewhere, Finished, Announced
<1>1. CASE CheckVersion(u) \/ ClearTmp(u) \/ Download(u) \/ Unzip(u)
  BY <1>1 DEF CheckVersion, ClearTmp, Download, Unzip
<1>2. CASE ReadStatus(u) \/ StopService(u) \/ Backup(u)
  BY <1>2 DEF ReadStatus, StopService, Backup
<1>3. CASE BeginCopy(u) \/ EndCopy(u) \/ CopyGeoFiles(u)
  BY <1>3 DEF BeginCopy, EndCopy, CopyGeoFiles
<1>4. CASE StartService(u) \/ Clean(u) \/ UpdateEnds(u)
  BY <1>4 DEF StartService, Clean, UpdateEnds
<1>5. CASE UpdateFails(u)
  BY <1>5 DEF UpdateFails, MayFail
<1>6. CASE CallRaises(u)
  BY <1>6 DEF CallRaises
<1> QED BY <1>1, <1>2, <1>3, <1>4, <1>5, <1>6 DEF UpdateStep

LEMMA UpdateTyped ==
  ASSUME Typed, NEW u \in Updates, UpdateStep(u) PROVE Typed'
<1> USE DEF locks, pool
<1>1. /\ UNCHANGED <<ui, toJoin, locks, pool>>
      /\ update' \in [Updates -> Finished \union
            {"check", "download", "write", "extract", "install", "stop", "backup",
             "copy", "copying", "geo", "restart", "clean", "report"}]
      /\ calls' \subseteq Jobs \union Updates
  BY UpdateMoves DEF Typed, Finished
<1>2. /\ xray' \in {"up", "down"} /\ binary' \in {"whole", "torn"} /\ backup' \in {"none", "whole", "torn"}
      /\ tmp' \in {"absent", "empty", "zip", "unpacked"} /\ stopped' \in BOOLEAN
      /\ wasRunning' \in [Updates -> BOOLEAN] /\ events' \subseteq {"fault", "overlap", "quit"}
  <2> USE DEF Elsewhere
  <2>1. CASE CheckVersion(u) \/ ClearTmp(u) \/ Download(u) \/ Unzip(u)
    BY <2>1 DEF CheckVersion, ClearTmp, Download, Unzip, Typed
  <2>2. CASE ReadStatus(u)
    <3>1. wasRunning' \in [Updates -> BOOLEAN]
      BY <2>2 DEF ReadStatus, Typed
    <3>2. UNCHANGED <<xray, binary, backup, tmp, stopped, events>>
      BY <2>2 DEF ReadStatus
    <3> QED BY <3>1, <3>2 DEF Typed
  <2>3. CASE StopService(u) \/ Backup(u)
    BY <2>3 DEF StopService, Backup, Typed
  <2>4. CASE BeginCopy(u) \/ EndCopy(u) \/ CopyGeoFiles(u)
    BY <2>4 DEF BeginCopy, EndCopy, CopyGeoFiles, Typed
  <2>5. CASE StartService(u) \/ Clean(u) \/ UpdateEnds(u)
    BY <2>5 DEF StartService, Clean, UpdateEnds, Typed
  <2>6. CASE UpdateFails(u) \/ CallRaises(u)
    BY <2>6 DEF UpdateFails, MayFail, CallRaises, Typed
  <2> QED BY <2>1, <2>2, <2>3, <2>4, <2>5, <2>6 DEF UpdateStep
<1> QED BY <1>1, <1>2 DEF Typed

LEMMA StepTyped ==
  ASSUME Typed, [Next]_vars PROVE Typed'
<1>1. CASE UNCHANGED vars
  BY <1>1 DEF vars, Typed
<1> QED BY <1>1, UserTyped, LoopTyped, TickTyped, CommandTyped, UpdateTyped DEF Next
-----------------------------------------------------------------------------
(* The queue and the pool's threads *)

LEMMA SubmitQueued ==
  ASSUME Typed, Pooled, NEW j \in Jobs, job[j] # "queued", Submit(j)
  PROVE  /\ queue' \in Seq(Jobs)
         /\ \A i, k \in DOMAIN queue' : queue'[i] = queue'[k] => i = k
         /\ \A i \in DOMAIN queue' : job'[queue'[i]] = "queued"
<1>1. queue \in Seq(Jobs) /\ queue' = Append(queue, j) /\ job' = [job EXCEPT ![j] = "queued"]
  BY DEF Submit, Pooled
<1>2. \A i \in DOMAIN queue : queue[i] \in Jobs /\ queue[i] # j
  BY <1>1 DEF Pooled
<1>3. /\ queue' \in Seq(Jobs) /\ Len(queue') = Len(queue) + 1 /\ queue'[Len(queue) + 1] = j
      /\ \A i \in 1 .. Len(queue) : queue'[i] = queue[i]
  BY <1>1
<1>4. DOMAIN queue = 1 .. Len(queue) /\ DOMAIN queue' = 1 .. Len(queue) + 1 /\ Len(queue) \in Nat
  BY <1>1, <1>3
<1>5. \A i \in DOMAIN queue' : i \in DOMAIN queue \/ i = Len(queue) + 1
  BY <1>4
<1>6. \A i, k \in DOMAIN queue' : queue'[i] = queue'[k] => i = k
  BY <1>2, <1>3, <1>4, <1>5 DEF Pooled
<1>7. ASSUME NEW i \in DOMAIN queue' PROVE job'[queue'[i]] = "queued"
  BY <1>1, <1>2, <1>3, <1>4, <1>5 DEF Pooled, Typed
<1> QED BY <1>3, <1>6, <1>7

LEMMA TakeQueued ==
  ASSUME Typed, Pooled, NEW j \in Jobs, NEW s, Take(j, s)
  PROVE  /\ queue' \in Seq(Jobs) /\ job[j] = "queued" /\ job' = [job EXCEPT ![j] = s]
         /\ \A i, k \in DOMAIN queue' : queue'[i] = queue'[k] => i = k
         /\ \A i \in DOMAIN queue' : job'[queue'[i]] = "queued"
<1>1. /\ queue \in Seq(Jobs) /\ queue # <<>> /\ queue' = Tail(queue) /\ queue[1] = j
      /\ job' = [job EXCEPT ![j] = s]
  BY DEF Take, Pooled
<1>2. /\ queue' \in Seq(Jobs) /\ Len(queue) \in Nat /\ Len(queue) >= 1 /\ Len(queue') = Len(queue) - 1
      /\ \A i \in 1 .. Len(queue) - 1 : queue'[i] = queue[i + 1]
  BY <1>1
<1>3. DOMAIN queue = 1 .. Len(queue) /\ DOMAIN queue' = 1 .. Len(queue) - 1
  BY <1>1, <1>2
<1>4. ASSUME NEW i \in DOMAIN queue'
      PROVE  i \in Nat /\ i + 1 \in DOMAIN queue /\ queue'[i] = queue[i + 1] /\ i + 1 # 1
  BY <1>2, <1>3
<1>5. 1 \in DOMAIN queue
  BY <1>2, <1>3
<1>6. \A i, k \in DOMAIN queue' : queue'[i] = queue'[k] => i = k
  BY <1>4 DEF Pooled
<1>7. ASSUME NEW i \in DOMAIN queue' PROVE job'[queue'[i]] = "queued"
  <2>1. queue'[i] # j /\ queue'[i] \in Jobs
    BY <1>1, <1>2, <1>4, <1>5 DEF Pooled
  <2>2. job[queue'[i]] = "queued"
    BY <1>4 DEF Pooled
  <2> QED BY <1>1, <2>1, <2>2 DEF Typed
<1>8. job[j] = "queued"
  BY <1>1, <1>5 DEF Pooled
<1> QED BY <1>1, <1>2, <1>6, <1>7, <1>8

\* A job that is not in the queue changes its stage.
LEMMA MovedQueued ==
  ASSUME Typed, Pooled, NEW j \in Jobs, job[j] # "queued", NEW s, job' = [job EXCEPT ![j] = s],
         queue' = queue
  PROVE  \A i \in DOMAIN queue : job'[queue[i]] = "queued"
<1>1. ASSUME NEW i \in DOMAIN queue PROVE queue[i] \in Jobs /\ queue[i] # j
  BY DEF Pooled
<1> QED BY <1>1 DEF Pooled, Typed

\* At most one job becomes busy, and only when a thread of the pool is free.
LEMMA BusyBounded ==
  ASSUME Typed, Pooled, NEW j \in Jobs, NEW s, job' = [job EXCEPT ![j] = s],
         \/ s \notin {"lock", "run", "notify"}
         \/ job[j] \in {"lock", "run", "notify"}
         \/ Cardinality(Busy) < Workers
  PROVE  IsFiniteSet(Busy') /\ Cardinality(Busy') <= Workers
<1>1. IsFiniteSet(Busy) /\ Cardinality(Busy) \in Nat /\ Cardinality(Busy) <= Workers /\ Workers \in Nat
  BY FS_CardinalityType, WorkersAssumption DEF Pooled
<1>2. \A k \in Jobs : job'[k] = IF k = j THEN s ELSE job[k]
  BY DEF Typed
<1>3. CASE s \notin {"lock", "run", "notify"}
  <2>1. Busy' \subseteq Busy
    BY <1>2, <1>3 DEF Busy
  <2> QED BY <1>1, <2>1, FS_Subset, FS_CardinalityType
<1>4. CASE s \in {"lock", "run", "notify"} /\ job[j] \in {"lock", "run", "notify"}
  <2>1. Busy' = Busy
    BY <1>2, <1>4 DEF Busy
  <2> QED BY <1>1, <2>1
<1>5. CASE s \in {"lock", "run", "notify"} /\ job[j] \notin {"lock", "run", "notify"}
  <2>1. Busy' = Busy \union {j} /\ Cardinality(Busy) < Workers
    BY <1>2, <1>5 DEF Busy
  <2>2. IsFiniteSet(Busy \union {j}) /\ Cardinality(Busy \union {j}) = Cardinality(Busy) + 1
    <3>1. j \notin Busy
      BY <1>5 DEF Busy
    <3> QED BY <1>1, <3>1, FS_AddElement
  <2>3. Cardinality(Busy \union {j}) \in Nat
    BY <2>2, FS_CardinalityType
  <2> QED BY <1>1, <2>1, <2>2, <2>3
<1> QED BY <1>3, <1>4, <1>5

LEMMA SubmitPooled ==
  ASSUME Typed, Pooled, NEW j \in Jobs, job[j] # "queued", Submit(j),
         fetchLock' = TRUE \/ (j # "tick" /\ fetchLock' = fetchLock)
  PROVE  Pooled'
<1>1. job' = [job EXCEPT ![j] = "queued"]
  BY DEF Submit
<1>2. IsFiniteSet(Busy') /\ Cardinality(Busy') <= Workers
  BY <1>1, BusyBounded
<1>3. job'["tick"] # "idle" => fetchLock' = TRUE
  BY <1>1, JobFacts DEF Pooled, Typed
<1> QED BY <1>2, <1>3, SubmitQueued DEF Pooled

LEMMA TakePooled ==
  ASSUME Typed, Pooled, NEW j \in Jobs, NEW s, Take(j, s),
         s # "queued", (j = "tick" /\ s = "idle") \/ fetchLock' = fetchLock
  PROVE  Pooled'
<1>1. job' = [job EXCEPT ![j] = s] /\ Cardinality(Busy) < Workers /\ job[j] = "queued"
  BY TakeQueued DEF Take
<1>2. IsFiniteSet(Busy') /\ Cardinality(Busy') <= Workers
  BY <1>1, BusyBounded
<1>3. job'["tick"] # "idle" => fetchLock' = TRUE
  BY <1>1, JobFacts DEF Pooled, Typed
<1> QED BY <1>2, <1>3, TakeQueued DEF Pooled

LEMMA MovedPooled ==
  ASSUME Typed, Pooled, NEW j \in Jobs, NEW s, job' = [job EXCEPT ![j] = s], queue' = queue,
         job[j] \in {"lock", "run", "notify"},
         (j = "tick" /\ s = "idle") \/ fetchLock' = fetchLock
  PROVE  Pooled'
<1>1. IsFiniteSet(Busy') /\ Cardinality(Busy') <= Workers
  BY BusyBounded
<1>2. job'["tick"] # "idle" => fetchLock' = TRUE
  BY JobFacts DEF Pooled, Typed
<1>3. \A i \in DOMAIN queue : job'[queue[i]] = "queued"
  BY MovedQueued
<1> QED BY <1>1, <1>2, <1>3 DEF Pooled

LEMMA StepPooled ==
  ASSUME Typed, Pooled, [Next]_vars PROVE Pooled'
<1>1. CASE Tick
  <2>1. job["tick"] # "queued" /\ Submit("tick") /\ fetchLock' = TRUE
    BY <1>1 DEF Tick, Pooled
  <2> QED BY <2>1, JobFacts, SubmitPooled
<1>2. ASSUME NEW c \in Commands, Command(c) PROVE Pooled'
  <2>1. c # "tick" /\ job[c] # "queued" /\ Submit(c) /\ fetchLock' = fetchLock
    BY <1>2, ThreadsAssumption DEF Command, locks
  <2> QED BY <2>1, JobFacts, SubmitPooled
<1>3. CASE RunTick \/ SkipTick
  <2>1. (Take("tick", "run") /\ fetchLock' = fetchLock) \/ Take("tick", "idle")
    BY <1>3 DEF RunTick, SkipTick
  <2> QED BY <2>1, JobFacts, TakePooled
<1>4. CASE TickWorked \/ TickEnds
  <2>1. queue' = queue /\ job["tick"] \in {"run", "notify"}
        /\ \/ job' = [job EXCEPT !["tick"] = "notify"] /\ fetchLock' = fetchLock
           \/ job' = [job EXCEPT !["tick"] = "idle"]
    BY <1>4 DEF TickWorked, TickEnds, Told, locks
  <2> QED BY <2>1, JobFacts, MovedPooled
<1>5. ASSUME NEW c \in Commands, TakeCommand(c) \/ TakeOther(c) PROVE Pooled'
  <2>1. (Take(c, "lock") \/ Take(c, "notify")) /\ fetchLock' = fetchLock
    BY <1>5 DEF TakeCommand, TakeOther, locks
  <2> QED BY <2>1, JobFacts, TakePooled
<1>6. ASSUME NEW c \in Commands,
             Acquire(c) \/ StopXray(c) \/ StartXray(c) \/ StartXrayFails(c) \/ CommandEnds(c)
      PROVE  Pooled'
  <2>1. queue' = queue /\ fetchLock' = fetchLock /\ job[c] \in {"lock", "run", "notify"}
        /\ \E s : job' = [job EXCEPT ![c] = s]
    BY <1>6 DEF Acquire, StopXray, StartXray, StartXrayFails, CommandEnds, Report, Told, locks
  <2> QED BY <2>1, JobFacts, MovedPooled
<1>7. ASSUME UNCHANGED <<queue, job, fetchLock>> PROVE Pooled'
  BY <1>7 DEF Pooled, Busy
<1>8. ASSUME NEW u \in Updates, StartUpdate(u) \/ UpdateStep(u) PROVE Pooled'
  <2>1. UNCHANGED <<queue, job, fetchLock>>
    BY <1>8, UpdateMoves DEF StartUpdate, locks, pool
  <2> QED BY <1>7, <2>1
<1>9. CASE OpenEditor \/ CloseEditor \/ Quit \/ Loop \/ UNCHANGED vars
  <2>1. UNCHANGED <<queue, job, fetchLock>>
    BY <1>9 DEF OpenEditor, CloseEditor, Quit, Loop, Serve, Join, Unmounted, LoopEnds, Exit, vars,
                locks, pool
  <2> QED BY <1>7, <2>1
<1> QED BY <1>1, <1>2, <1>3, <1>4, <1>5, <1>6, <1>8, <1>9
        DEF Next, User, TickStep, CommandStep
-----------------------------------------------------------------------------
(* Who is alive *)

\* The steps of everybody but the updates.
OtherStep ==
    \/ Tick \/ (\E c \in Commands : Command(c)) \/ OpenEditor \/ CloseEditor \/ Quit
    \/ Loop \/ TickStep \/ (\E c \in Commands : CommandStep(c) \/ Acquire(c))
    \/ UNCHANGED vars

LEMMA Steps ==
  [Next]_vars => OtherStep \/ \E u \in Updates : StartUpdate(u) \/ UpdateStep(u)
  BY DEF Next, User, OtherStep

LEMMA OtherFacts ==
  ASSUME Typed, OtherStep
  PROVE  /\ UNCHANGED <<wasRunning, binary, backup, tmp>>
         /\ events \subseteq events'
         /\ \A u \in Updates : u \in calls' => u \in calls
         /\ "quit" \notin events' => ui' = ui \/ {ui, ui'} \subseteq {"loop", "editing"}
                                       \/ ui \notin {"loop", "editing"}
         /\ UNCHANGED update \/ Exit
         /\ ui' = "exited" => ui = "exited" \/ Exit
<1> USE DEF locks, pool, machine, updating
<1>1. CASE Tick \/ OpenEditor \/ CloseEditor \/ Quit
  BY <1>1 DEF Tick, OpenEditor, CloseEditor, Quit
<1>2. ASSUME NEW c \in Commands, Command(c) PROVE UNCHANGED <<wasRunning, binary, backup, tmp, events, calls, ui, update>>
  BY <1>2 DEF Command
<1>3. CASE Loop
  BY <1>3 DEF Loop, Serve, Join, Unmounted, LoopEnds, Exit
<1>4. CASE TickStep
  <2>1. UNCHANGED <<wasRunning, binary, backup, tmp, events, ui, update>> /\ calls' \subseteq calls \union {"tick"}
    BY <1>4 DEF TickStep, RunTick, SkipTick, TickWorked, TickEnds, Told
  <2> QED BY <2>1, ThreadsAssumption
<1>5. ASSUME NEW c \in Commands, CommandStep(c) \/ Acquire(c)
      PROVE  /\ UNCHANGED <<wasRunning, binary, backup, tmp, ui, update>>
             /\ events \subseteq events' /\ calls' \subseteq calls \union {c}
  BY <1>5 DEF CommandStep, Acquire, TakeCommand, TakeOther, StopXray, StartXray, StartXrayFails,
              Report, CommandEnds, Told
<1>6. \A c \in Commands : c \notin Updates
  BY ThreadsAssumption
<1>7. CASE UNCHANGED vars
  BY <1>7 DEF vars
<1> QED BY <1>1, <1>2, <1>3, <1>4, <1>5, <1>6, <1>7 DEF OtherStep

LEMMA ExitFacts ==
  ASSUME Typed, Exit
  PROVE  /\ ui = "ended" /\ ui' = "exited" /\ Alive' = {}
         /\ \A u \in Updates : u \notin calls'
<1>1. \A u \in Updates : update'[u] = IF u \in Alive THEN "killed" ELSE update[u]
  BY DEF Exit
<1> QED BY <1>1 DEF Exit, Alive, Finished

\* A step of an update, when it is the only one.
LEMMA UpdateFacts ==
  ASSUME Typed, Threads, NEW u \in Updates, UpdateStep(u)
  PROVE  /\ \A v \in Updates : v # u => update'[v] = update[v] /\ (v \in calls' => v \in calls)
         /\ u \in calls' => update'[u] \in Announced
         /\ u \in Alive
         /\ events \subseteq events'
         /\ UNCHANGED <<ui, toJoin, locks, pool>>
<1>1. PICK s \in {"done", "download", "write", "extract", "install", "stop", "backup",
                      "copy", "copying", "geo", "restart", "clean", "report"} :
        /\ update' = [update EXCEPT ![u] = s]
        /\ calls' = calls \ {u} \/ (u \notin calls /\ calls' = calls)
                \/ (s \in Announced /\ calls' = calls \union {u})
  BY UpdateMoves
<1>2. events \subseteq events'
  BY DEF UpdateStep, CheckVersion, ClearTmp, Download, Unzip, ReadStatus, StopService, Backup, BeginCopy,
         EndCopy, CopyGeoFiles, StartService, Clean, UpdateFails, MayFail, UpdateEnds, CallRaises
<1>3. u \in Alive
  BY UpdateMoves DEF Threads, Alive, Announced, Finished
<1>4. \A v \in Updates : update'[v] = IF v = u THEN s ELSE update[v]
  BY <1>1 DEF Typed
<1>5. \A v \in Updates : v # u => update'[v] = update[v] /\ (v \in calls' => v \in calls)
  BY <1>1, <1>4
<1>6. u \in calls' => update'[u] \in Announced
  BY <1>1, <1>4
<1>7. UNCHANGED <<ui, toJoin, locks, pool>>
  BY UpdateMoves
<1> QED BY <1>2, <1>3, <1>5, <1>6, <1>7

LEMMA StepThreads ==
  ASSUME Typed, Threads, [Next]_vars PROVE Threads'
<1>1. CASE OtherStep
  <2>1. "quit" \notin events' => ui' \in {"loop", "editing"}
    BY <1>1, OtherFacts DEF Threads
  <2>2. CASE Exit
    BY <2>1, <2>2, ExitFacts DEF Threads
  <2>3. CASE ~Exit
    <3>1. UNCHANGED update /\ events \subseteq events' /\ (ui' = "exited" => ui = "exited")
          /\ \A u \in Updates : u \in calls' => u \in calls
      BY <1>1, <2>3, OtherFacts
    <3>2. Alive' = Alive
      BY <3>1 DEF Alive
    <3> QED BY <2>1, <3>1, <3>2 DEF Threads
  <2> QED BY <2>2, <2>3
<1>2. ASSUME NEW u \in Updates, StartUpdate(u) PROVE Threads'
  <2>1. /\ ui = "loop" /\ ui' = "loop" /\ calls' = calls \union {u} /\ update' = [update EXCEPT ![u] = "check"]
        /\ events \subseteq events' /\ (Alive # {} => "overlap" \in events')
    BY <1>2 DEF StartUpdate
  <2>2. \A v \in Updates : update'[v] = IF v = u THEN "check" ELSE update[v]
    BY <2>1 DEF Typed
  <2>3. Alive' = Alive \union {u}
    BY <2>2 DEF Alive, Finished
  <2> QED BY <2>1, <2>2, <2>3 DEF Threads, Announced
<1>3. ASSUME NEW u \in Updates, UpdateStep(u) PROVE Threads'
  <2>1. /\ \A v \in Updates : v # u => update'[v] = update[v] /\ (v \in calls' => v \in calls)
        /\ u \in calls' => update'[u] \in Announced
        /\ u \in Alive /\ events \subseteq events' /\ ui' = ui
    BY <1>3, UpdateFacts
  <2>2. Alive' \subseteq Alive
    BY <2>1 DEF Alive
  <2> QED BY <2>1, <2>2 DEF Threads
<1> QED BY <1>1, <1>2, <1>3, Steps
-----------------------------------------------------------------------------
(* The binary *)

LEMMA StepRecoverable ==
  ASSUME Typed, Threads, events \subseteq {"quit"} => Recoverable, [Next]_vars,
         events' \subseteq {"quit"}
  PROVE  Recoverable'
<1>1. CASE OtherStep
  <2>1. UNCHANGED <<binary, backup>> /\ Recoverable
    BY <1>1, OtherFacts
  <2>2. CASE Exit
    <3>1. ui' = "exited" /\ \A u \in Updates : update'[u] \notin {"copy", "copying"}
      BY <2>2, ExitFacts DEF Alive, Finished
    <3> QED BY <2>1, <3>1 DEF Recoverable
  <2>3. CASE ~Exit
    <3>1. update' = update /\ (ui = "exited" => ui' = "exited")
      <4>1. update' = update
        BY <1>1, <2>3, OtherFacts
      <4>2. ui = "exited" => ui' = "exited"
        BY <1>1 DEF OtherStep, Tick, Command, OpenEditor, CloseEditor, Quit, Loop, Serve, Join, Unmounted,
                    LoopEnds, Exit, TickStep, RunTick, SkipTick, TickWorked, TickEnds, CommandStep, Acquire,
                    TakeCommand, TakeOther, StopXray, StartXray, StartXrayFails, Report, CommandEnds, vars
      <4> QED BY <4>1, <4>2
    <3> QED BY <2>1, <3>1 DEF Recoverable
  <2> QED BY <2>2, <2>3
<1>2. ASSUME NEW u \in Updates, StartUpdate(u) PROVE Recoverable'
  <2>1. UNCHANGED <<binary, backup, ui>> /\ Recoverable /\ update[u] = "none"
        /\ \A v \in Updates : update'[v] = IF v = u THEN "check" ELSE update[v]
    BY <1>2 DEF StartUpdate, machine, Typed
  <2> QED BY <2>1 DEF Recoverable
<1>3. ASSUME NEW u \in Updates, UpdateStep(u) PROVE Recoverable'
  <2>1. /\ \A v \in Updates : v # u => update'[v] = update[v]
        /\ u \in Alive /\ ui' = ui /\ Recoverable
    BY <1>3, UpdateFacts
  <2>2. ui # "exited" /\ \A v \in Updates : v # u => update[v] \notin {"copy", "copying"}
    <3>1. "overlap" \notin events
      BY <1>3, UpdateFacts
    <3> QED BY <2>1, <3>1 DEF Threads, Alive, Finished
  \* This is the only update, and as long as it does not copy there is nothing to keep.
  <2>3. binary = "torn" => update[u] = "copying" /\ backup = "whole"
    BY <2>1, <2>2 DEF Recoverable
  <2>4. \A v \in Updates : v # u => update'[v] \notin {"copy", "copying"}
    BY <2>1, <2>2
  <2>5. /\ binary' = "torn" => backup' = "whole" /\ update'[u] = "copying"
        /\ update'[u] \in {"copy", "copying"} => backup' = "whole"
    <3> USE DEF At, GoTo, Announce, Elsewhere, Typed
    <3>1. CASE CheckVersion(u) \/ ClearTmp(u) \/ Download(u) \/ Unzip(u)
      BY <2>3, <3>1 DEF CheckVersion, ClearTmp, Download, Unzip
    <3>2. CASE ReadStatus(u) \/ StopService(u)
      BY <2>3, <3>2 DEF ReadStatus, StopService
    <3>3. CASE Backup(u)
      BY <2>3, <3>3 DEF Backup
    <3>4. CASE BeginCopy(u)
      BY <2>1, <3>4 DEF BeginCopy, Recoverable
    <3>5. CASE EndCopy(u)
      BY <2>2, <3>5 DEF EndCopy
    <3>6. CASE CopyGeoFiles(u) \/ StartService(u) \/ Clean(u) \/ UpdateEnds(u)
      BY <2>3, <3>6 DEF CopyGeoFiles, StartService, Clean, UpdateEnds
    <3>7. CASE UpdateFails(u)
      BY <2>3, <3>7 DEF UpdateFails, MayFail
    <3>8. CASE CallRaises(u)
      BY <2>3, <3>8 DEF CallRaises, Threads, Announced
    <3> QED BY <1>3, <3>1, <3>2, <3>3, <3>4, <3>5, <3>6, <3>7, <3>8 DEF UpdateStep
  <2> QED BY <2>4, <2>5 DEF Recoverable
<1> QED BY <1>1, <1>2, <1>3, Steps
-----------------------------------------------------------------------------
(* The service *)

LEMMA OtherKept ==
  ASSUME Typed, Threads, Recoverable, Kept, OtherStep, events = {}, events' = {}
  PROVE  Kept'
<1>1. ~Exit
  BY ExitFacts DEF Threads
<1>2. UNCHANGED <<update, wasRunning, binary, backup, tmp>>
  BY <1>1, OtherFacts
<1>3. CASE UNCHANGED <<xray, stopped>>
  BY <1>2, <1>3 DEF Kept
<1>4. ASSUME NEW c \in Commands, StopXray(c) PROVE Kept'
  <2>1. stopped' = TRUE \/ UNCHANGED <<xray, stopped>>
    BY <1>4 DEF StopXray
  <2>2. CASE stopped' = TRUE
    BY <1>2, <2>2 DEF Kept
  <2> QED BY <1>3, <2>1, <2>2
\* The binary is whole: no update is copying.
<1>5. ASSUME NEW c \in Commands, StartXray(c) PROVE Kept'
  <2>1. binary = "whole" /\ xray' = "up"
    BY <1>5 DEF StartXray
  <2>2. \A u \in Updates : update[u] # "copying"
    BY <2>1 DEF Kept
  <2>3. xray' # "down"
    BY <2>1
  <2> QED BY <1>2, <2>2, <2>3 DEF Kept
\* A restart that fails without a fault meets a copy under way.
<1>6. ASSUME NEW c \in Commands, StartXrayFails(c) PROVE Kept'
  <2>1. binary # "whole" /\ xray' \in {xray, "down"} /\ stopped' = stopped
    BY <1>6 DEF StartXrayFails
  <2>2. binary = "torn" /\ stopped \in BOOLEAN
    BY <2>1 DEF Typed
  <2>3. ui # "exited"
    BY DEF Threads
  <2>4. PICK u \in Updates : update[u] = "copying"
    BY <2>2, <2>3 DEF Recoverable
  <2>5. wasRunning[u] = TRUE \/ stopped = TRUE
    BY <2>4 DEF Kept
  <2>6. xray' = "down" /\ stopped' = FALSE =>
            \E v \in Updates :
                update[v] \in {"backup", "copy", "copying", "geo", "restart"} /\ wasRunning[v] = TRUE
    BY <2>1, <2>4, <2>5
  <2> QED BY <1>2, <2>1, <2>6 DEF Kept
<1>7. (\E c \in Commands : StopXray(c) \/ StartXray(c) \/ StartXrayFails(c)) \/ UNCHANGED <<xray, stopped>>
  BY DEF OtherStep, Tick, Command, OpenEditor, CloseEditor, Quit, Loop, Serve, Join, Unmounted, LoopEnds,
         Exit, TickStep, RunTick, SkipTick, TickWorked, TickEnds, CommandStep, Acquire, TakeCommand,
         TakeOther, CommandEnds, vars, machine
<1> QED BY <1>3, <1>4, <1>5, <1>6, <1>7

LEMMA StartKept ==
  ASSUME Typed, Kept, NEW u \in Updates, StartUpdate(u)
  PROVE  Kept'
<1>1. /\ UNCHANGED <<xray, binary, tmp, wasRunning, stopped>> /\ update[u] = "none"
      /\ \A v \in Updates : update'[v] = IF v = u THEN "check" ELSE update[v]
  BY DEF StartUpdate, machine, Typed
<1> QED BY <1>1 DEF Kept

LEMMA UpdateKept ==
  ASSUME Typed, Threads, Recoverable, Kept, NEW u \in Updates, UpdateStep(u), events = {}, events' = {}
  PROVE  Kept'
<1> DEFINE owned == {"install", "stop", "backup", "copy", "copying", "geo"}
           stages == {"backup", "copy", "copying", "geo", "restart"}
           down == xray = "down" /\ stopped = FALSE
\* There is no other update.
<1>1. \A v \in Updates : v # u => update[v] \in Finished /\ update'[v] \in Finished
  BY UpdateFacts DEF Threads, Alive
<1>2. down => update[u] \in stages /\ wasRunning[u] = TRUE
  BY <1>1 DEF Kept, Finished
<1>3. update[u] \in owned => tmp = "unpacked"
  BY DEF Kept
<1>4. update[u] = "stop" => wasRunning[u] = TRUE
  BY DEF Kept
<1>5. update[u] = "copying" => binary = "torn" /\ (wasRunning[u] = TRUE \/ stopped = TRUE)
  BY DEF Kept
<1>6. u \notin calls \/ ui = "ended"
  BY DEF UpdateStep, CheckVersion, ClearTmp, Download, Unzip, ReadStatus, StopService, Backup, BeginCopy,
         EndCopy, CopyGeoFiles, StartService, Clean, UpdateFails, UpdateEnds, CallRaises, At
<1>7. u \notin calls
  BY <1>6 DEF Threads
<1>8. ASSUME NEW s, update' = [update EXCEPT ![u] = s] PROVE update'[u] = s
  BY <1>8 DEF Typed
<1>9. /\ update'[u] \in owned => tmp' = "unpacked"
      /\ update'[u] = "stop" => wasRunning'[u] = TRUE
      /\ update'[u] = "copying" => binary' = "torn" /\ (wasRunning'[u] = TRUE \/ stopped' = TRUE)
      /\ down' => update'[u] \in stages /\ wasRunning'[u] = TRUE
  <2> USE DEF At, GoTo, Announce, Elsewhere
  <2>1. CASE CheckVersion(u)
    BY <1>2, <1>8, <2>1 DEF CheckVersion
  <2>2. CASE ClearTmp(u) \/ Download(u)
    BY <1>2, <1>8, <2>2 DEF ClearTmp, Download
  <2>3. CASE Unzip(u)
    BY <1>2, <1>8, <2>3 DEF Unzip
  <2>4. CASE ReadStatus(u)
    <3>1. PICK r \in {xray = "up", FALSE} :
            /\ wasRunning' = [wasRunning EXCEPT ![u] = r]
            /\ update' = [update EXCEPT ![u] = IF r THEN "stop" ELSE "backup"]
      BY <2>4 DEF ReadStatus
    <3>2. update[u] = "install" /\ UNCHANGED <<xray, binary, tmp, stopped>>
      BY <2>4 DEF ReadStatus
    <3>3. update'[u] = IF r THEN "stop" ELSE "backup"
      BY <3>1, <1>8
    <3>4. ~down
      BY <1>2, <3>2
    <3>5. r => wasRunning'[u] = TRUE
      BY <3>1 DEF Typed
    <3> QED BY <1>3, <3>2, <3>3, <3>4, <3>5
  <2>5. CASE StopService(u)
    BY <1>3, <1>4, <1>8, <2>5 DEF StopService
  <2>6. CASE Backup(u)
    BY <1>2, <1>3, <1>8, <2>6 DEF Backup
  <2>7. CASE BeginCopy(u)
    <3>1. wasRunning[u] = TRUE \/ stopped = TRUE
      BY <1>2, <2>7 DEF BeginCopy, CanCopy, Typed
    <3> QED BY <1>2, <1>3, <1>8, <2>7, <3>1 DEF BeginCopy
  <2>8. CASE EndCopy(u)
    BY <1>2, <1>3, <1>8, <2>8 DEF EndCopy
  <2>9. CASE CopyGeoFiles(u)
    <3>1. update'[u] = IF wasRunning[u] THEN "restart" ELSE "clean"
      BY <1>8, <2>9 DEF CopyGeoFiles, AfterCopy
    <3> QED BY <1>2, <2>9, <3>1 DEF CopyGeoFiles
  <2>10. CASE StartService(u)
    <3>1. xray' = "up" /\ update'[u] = "clean"
      BY <1>8, <2>10 DEF StartService
    <3> QED BY <3>1
  <2>11. CASE Clean(u) \/ UpdateEnds(u)
    BY <1>2, <1>8, <2>11 DEF Clean, UpdateEnds
  \* No file of a lone update disappears, and a binary in use is one of a service that is up.
  <2>12. CASE UpdateFails(u)
    <3>1. ~down
      BY <1>2, <1>3, <2>12 DEF UpdateFails, MayFail, CanCopy
    <3>2. update'[u] = "report" /\ UNCHANGED <<xray, stopped>>
      BY <1>8, <2>12 DEF UpdateFails
    <3> QED BY <3>1, <3>2
  <2>13. CASE CallRaises(u)
    BY <1>7, <2>13 DEF CallRaises
  <2> QED BY <2>1, <2>2, <2>3, <2>4, <2>5, <2>6, <2>7, <2>8, <2>9, <2>10, <2>11, <2>12, <2>13 DEF UpdateStep
<1> QED BY <1>1, <1>9 DEF Kept, Finished

LEMMA StepKept ==
  ASSUME Typed, Threads, Recoverable, events = {} => Kept, [Next]_vars, events' = {}
  PROVE  Kept'
<1>1. CASE OtherStep
  BY <1>1, OtherFacts, OtherKept
<1>2. ASSUME NEW u \in Updates, StartUpdate(u) PROVE Kept'
  BY <1>2, StartKept DEF StartUpdate
<1>3. ASSUME NEW u \in Updates, UpdateStep(u) PROVE Kept'
  BY <1>3, UpdateFacts, UpdateKept
<1> QED BY <1>1, <1>2, <1>3, Steps
-----------------------------------------------------------------------------
(* The theorems *)

LEMMA InitIInv == Init => IInv
<1> SUFFICES ASSUME Init PROVE IInv
  OBVIOUS
<1>1. Busy = {} /\ Alive = {}
  BY DEF Init, Busy, Alive, Finished
<1>2. Pooled
  BY <1>1, FS_EmptySet, WorkersAssumption, JobFacts DEF Init, Pooled
<1>3. Threads /\ Recoverable
  BY <1>1 DEF Init, Threads, Recoverable
<1>4. Kept
  BY DEF Init, Kept
<1> QED BY <1>2, <1>3, <1>4, InitTyped DEF IInv

LEMMA StepIInv == IInv /\ [Next]_vars => IInv'
<1> SUFFICES ASSUME IInv, [Next]_vars PROVE IInv'
  OBVIOUS
<1>1. Typed' /\ Pooled' /\ Threads'
  BY StepTyped, StepPooled, StepThreads DEF IInv
<1>2. events \subseteq events'
  <2>1. ASSUME NEW u \in Updates, StartUpdate(u) PROVE events \subseteq events'
    BY <2>1 DEF StartUpdate
  <2> QED BY <2>1, Steps, OtherFacts, UpdateFacts DEF IInv
<1>3. events' \subseteq {"quit"} => Recoverable'
  BY StepRecoverable DEF IInv
<1>4. events' = {} => Kept'
  BY <1>2, StepKept DEF IInv
<1> QED BY <1>1, <1>3, <1>4 DEF IInv

LEMMA AlwaysIInv == Spec => []IInv
  BY InitIInv, StepIInv, PTL DEF Spec

\* Every variable keeps its type; among others a job is never in the pool's queue twice, and the
\* pool never runs more jobs than it has threads.
THEOREM TypeCorrect == Spec => []TypeOK
<1>1. ASSUME IInv PROVE TypeOK
  <2>1. \A i \in DOMAIN queue : queue[i] \in Jobs
    BY <1>1 DEF IInv, Pooled
  <2> QED BY <1>1, <2>1 DEF IInv, Typed, Pooled, TypeOK
<1> QED BY <1>1, AlwaysIInv, PTL

\* However ticks, commands and the update interleave, an update that meets no fault, no second
\* update and no quit leaves the service as the user wants it.
THEOREM ServiceAsWanted == Spec => []ServiceKept
<1>1. ASSUME IInv PROVE ServiceKept
  <2>1. SUFFICES ASSUME Alive = {}, events = {}, xray = "down" PROVE stopped = TRUE
    BY DEF ServiceKept
  <2>2. \A u \in Updates : update[u] \in Finished
    BY <2>1 DEF Alive
  <2>3. Kept /\ stopped \in BOOLEAN
    BY <1>1, <2>1 DEF IInv, Typed
  <2> QED BY <2>1, <2>2, <2>3 DEF Kept, Finished
<1> QED BY <1>1, AlwaysIInv, PTL

\* At whatever step quitting kills an update of Xray, a complete binary is on the disk, in place
\* or as the copy, unless a second update or a fault interfered.
THEOREM BinaryOnDisk == Spec => []RecoverableBinary
<1>1. IInv => RecoverableBinary
  BY DEF IInv, Typed, Recoverable, RecoverableBinary
<1> QED BY <1>1, AlwaysIInv, PTL
=============================================================================
