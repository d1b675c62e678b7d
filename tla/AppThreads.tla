----------------------------- MODULE AppThreads -----------------------------
(***************************************************************************)
(* Who runs when in the Python monitor (app.py), and what the update of    *)
(* the Xray binary (modules/xray_manager.py) does to the service meanwhile. *)
(*                                                                         *)
(*   the UI thread     Textual's event loop: schedules ticks, takes the    *)
(*                     user's commands, and is the only one that serves    *)
(*                     call_from_thread, for which the caller waits        *)
(*   pool threads      run the jobs submitted to the pool in order: the    *)
(*                     tick worker and the user's commands                 *)
(*   update threads    one daemon thread per press of "update"             *)
(*                                                                         *)
(* _fetch_lock keeps a second tick from being submitted; _system_lock is   *)
(* held by a tick and by a command that drives systemctl, never by an      *)
(* update.  The update threads share one directory of temporary files.     *)
(* While the editor (nano) is open, and while on_unmount joins the update  *)
(* threads, the UI thread serves nobody.  stopped and events are history.  *)
(***************************************************************************)
EXTENDS Integers, FiniteSets, Sequences

CONSTANTS
    Commands,       \* bound: the commands the user gives, each once
    Updates,        \* bound: the updates the user starts
    Workers,        \* threads of the pool, 3 in the code
    Patient         \* 30 seconds are enough for an update that is not kept waiting

ASSUME WorkersAssumption == Workers \in Nat \ {0}
ASSUME PatientAssumption == Patient \in BOOLEAN
ASSUME ThreadsAssumption == Commands \intersect Updates = {} /\ "tick" \notin Commands \union Updates

Jobs == Commands \union {"tick"}
Free == "free"
Kinds == {"start", "stop", "restart", "other"}

VARIABLES
    ui,         \* the UI thread: its loop, the editor, the stages of the end
    toJoin,     \* the update threads on_unmount still waits for
    calls,      \* the threads waiting in call_from_thread
    fetchLock,  \* _fetch_lock is held
    systemLock, \* _system_lock: the job that holds it, or Free
    queue,      \* the work queue of the pool
    job,        \* where each job is
    kind,       \* what each command does
    xray,       \* the service: "up" or "down"
    binary,     \* the file of the Xray binary: "whole" or "torn"
    backup,     \* its copy (.bak): "none", "whole" or "torn"
    tmp,        \* the temporary directory of the updates
    update,     \* where each update thread is
    wasRunning, \* was_running in each update
    stopped,    \* history: Xray is down because the user stopped it
    events      \* history: what may excuse a service that is down

locks == <<fetchLock, systemLock>>
pool == <<queue, job, kind>>
machine == <<xray, binary, backup, tmp>>
updating == <<update, wasRunning>>
vars == <<ui, toJoin, calls, fetchLock, systemLock, queue, job, kind, xray, binary,
          backup, tmp, update, wasRunning, stopped, events>>
-----------------------------------------------------------------------------
Finished == {"none", "done", "killed"}
Alive == {u \in Updates : update[u] \notin Finished}

\* The jobs a pool thread is busy with.
Busy == {j \in Jobs : job[j] \in {"lock", "run", "notify"}}

\* The commands that are running or waiting to run.
Pending == {c \in Commands : job[c] \notin {"idle", "done"}}

TypeOK ==
    /\ ui \in {"loop", "editing", "joining", "closing", "ended", "exited"}
    /\ toJoin \subseteq Updates
    /\ calls \subseteq Jobs \union Updates
    /\ fetchLock \in BOOLEAN
    /\ systemLock \in Jobs \union {Free}
    /\ \A i, j \in DOMAIN queue : queue[i] \in Jobs /\ (queue[i] = queue[j] => i = j)
    /\ Cardinality(Busy) <= Workers
    /\ job \in [Jobs -> {"idle", "queued", "lock", "run", "notify", "done"}]
    /\ kind \in [Commands -> Kinds]
    /\ xray \in {"up", "down"}
    /\ binary \in {"whole", "torn"} /\ backup \in {"none", "whole", "torn"}
    /\ tmp \in {"absent", "empty", "zip", "unpacked"}
    /\ update \in [Updates -> Finished \union
            {"check", "download", "write", "extract", "install", "stop", "backup",
             "copy", "copying", "geo", "restart", "clean", "report"}]
    /\ wasRunning \in [Updates -> BOOLEAN]
    /\ stopped \in BOOLEAN
    /\ events \subseteq {"fault", "overlap", "quit"}

Init ==
    /\ ui = "loop" /\ toJoin = {} /\ calls = {}
    /\ fetchLock = FALSE /\ systemLock = Free
    /\ queue = <<>> /\ job = [j \in Jobs |-> "idle"] /\ kind \in [Commands -> Kinds]
    /\ xray \in {"up", "down"} /\ binary = "whole" /\ backup = "none" /\ tmp = "absent"
    /\ update = [u \in Updates |-> "none"] /\ wasRunning = [u \in Updates |-> FALSE]
    /\ stopped = (xray = "down") /\ events = {}
-----------------------------------------------------------------------------
(* The UI thread *)

Submit(j) ==
    /\ queue' = Append(queue, j)
    /\ job' = [job EXCEPT ![j] = "queued"]

\* A tick is submitted unless the previous one still holds _fetch_lock; and a
\* faulty variant without that check, for mutation.
TickUnguarded ==
    /\ ui = "loop"
    /\ Len(queue) < 3
    /\ fetchLock' = TRUE
    /\ Submit("tick")
    /\ UNCHANGED <<ui, toJoin, calls, systemLock, kind, machine, updating, stopped, events>>

Tick ==
    /\ ui = "loop"
    /\ ~fetchLock
    /\ fetchLock' = TRUE
    /\ Submit("tick")
    /\ UNCHANGED <<ui, toJoin, calls, systemLock, kind, machine, updating, stopped, events>>

Command(c) ==
    /\ ui = "loop"
    /\ job[c] = "idle"
    /\ Submit(c)
    /\ UNCHANGED <<ui, toJoin, calls, locks, kind, machine, updating, stopped, events>>

\* action_update_xray starts a thread at once; nothing keeps a second one away.
StartUpdate(u) ==
    /\ ui = "loop"
    /\ update[u] = "none"
    /\ update' = [update EXCEPT ![u] = "check"]
    /\ calls' = calls \union {u}
    /\ events' = IF Alive # {} THEN events \union {"overlap"} ELSE events
    /\ UNCHANGED <<ui, toJoin, locks, pool, machine, wasRunning, stopped>>

OpenEditor ==
    /\ ui = "loop" /\ ui' = "editing"
    /\ UNCHANGED <<toJoin, calls, locks, pool, machine, updating, stopped, events>>

CloseEditor ==
    /\ ui = "editing" /\ ui' = "loop"
    /\ UNCHANGED <<toJoin, calls, locks, pool, machine, updating, stopped, events>>

\* The loop runs what t asked for, and t goes on.
Serve(t) ==
    /\ ui \in {"loop", "closing"}
    /\ t \in calls
    /\ calls' = calls \ {t}
    /\ UNCHANGED <<ui, toJoin, locks, pool, machine, updating, stopped, events>>

\* on_unmount begins to join the update threads that are alive.
Quit ==
    /\ ui = "loop" /\ ui' = "joining"
    /\ toJoin' = Alive
    /\ events' = events \union {"quit"}
    /\ UNCHANGED <<calls, locks, pool, machine, updating, stopped>>

\* join returns when the thread has ended or after 30 seconds; and a faulty variant
\* without the timeout, for mutation.
JoinsForever(u) == u \notin Alive
JoinReturns(u) == u \in Alive => ~Patient \/ u \in calls

Join(u) ==
    /\ ui = "joining"
    /\ u \in toJoin
    /\ JoinReturns(u)
    /\ toJoin' = toJoin \ {u}
    /\ UNCHANGED <<ui, calls, locks, pool, machine, updating, stopped, events>>

\* The rest of on_unmount; pool.shutdown(wait=False) leaves the queued jobs to run.
Unmounted ==
    /\ ui = "joining" /\ toJoin = {}
    /\ ui' = "closing"
    /\ UNCHANGED <<toJoin, calls, locks, pool, machine, updating, stopped, events>>

\* app.run returns: from here on call_from_thread raises.
LoopEnds ==
    /\ ui = "closing" /\ ui' = "ended"
    /\ UNCHANGED <<toJoin, calls, locks, pool, machine, updating, stopped, events>>

\* The interpreter waits for the pool's threads, not for daemon threads.
Exit ==
    /\ ui = "ended"
    /\ queue = <<>> /\ Busy = {}
    /\ ui' = "exited"
    /\ update' = [u \in Updates |-> IF u \in Alive THEN "killed" ELSE update[u]]
    /\ calls' = {}
    /\ UNCHANGED <<toJoin, locks, pool, machine, wasRunning, stopped, events>>
-----------------------------------------------------------------------------
(* The pool *)

\* A pool thread takes the next job, which goes to stage s.
Take(j, s) ==
    /\ queue # <<>> /\ Head(queue) = j
    /\ Cardinality(Busy) < Workers
    /\ queue' = Tail(queue)
    /\ job' = [job EXCEPT ![j] = s]

RunTick ==
    /\ Take("tick", "run")
    /\ systemLock = Free
    /\ systemLock' = "tick"
    /\ UNCHANGED <<ui, toJoin, calls, fetchLock, kind, machine, updating, stopped, events>>

\* A faulty variant that forgets _fetch_lock on the early return, for mutation.
SkipTickKeepingLock ==
    /\ Take("tick", "idle")
    /\ systemLock # Free
    /\ UNCHANGED <<ui, toJoin, calls, locks, kind, machine, updating, stopped, events>>

\* A command holds _system_lock: this tick is dropped.
SkipTick ==
    /\ Take("tick", "idle")
    /\ systemLock # Free
    /\ fetchLock' = FALSE
    /\ UNCHANGED <<ui, toJoin, calls, systemLock, kind, machine, updating, stopped, events>>

\* The tick's work is done, or it failed; the UI is told, with both locks held.
TickWorked ==
    /\ job["tick"] = "run"
    /\ job' = [job EXCEPT !["tick"] = "notify"]
    /\ calls' = calls \union {"tick"}
    /\ UNCHANGED <<ui, toJoin, locks, queue, kind, machine, updating, stopped, events>>

\* No longer waiting: served, or the call has raised because the loop has ended.
Told(j) ==
    /\ job[j] = "notify"
    /\ j \notin calls \/ ui = "ended"
    /\ calls' = calls \ {j}

\* A faulty variant that keeps _system_lock, for mutation.
TickEndsKeepingLock ==
    /\ Told("tick")
    /\ job' = [job EXCEPT !["tick"] = "idle"]
    /\ fetchLock' = FALSE
    /\ UNCHANGED <<ui, toJoin, systemLock, queue, kind, machine, updating, stopped, events>>

TickEnds ==
    /\ Told("tick")
    /\ job' = [job EXCEPT !["tick"] = "idle"]
    /\ systemLock' = Free
    /\ fetchLock' = FALSE
    /\ UNCHANGED <<ui, toJoin, queue, kind, machine, updating, stopped, events>>

TakeCommand(c) ==
    /\ kind[c] # "other"
    /\ Take(c, "lock")
    /\ UNCHANGED <<ui, toJoin, calls, locks, kind, machine, updating, stopped, events>>

\* Jobs that take no lock: enabling the service, checking the configuration, ...
TakeOther(c) ==
    /\ kind[c] = "other"
    /\ Take(c, "notify")
    /\ calls' = calls \union {c}
    /\ UNCHANGED <<ui, toJoin, locks, kind, machine, updating, stopped, events>>

Acquire(c) ==
    /\ job[c] = "lock"
    /\ systemLock = Free
    /\ systemLock' = c
    /\ job' = [job EXCEPT ![c] = "run"]
    /\ UNCHANGED <<ui, toJoin, calls, fetchLock, queue, kind, machine, updating, stopped, events>>

\* systemctl has returned: the lock is released, then the UI is told.
Report(c) ==
    /\ job[c] = "run"
    /\ job' = [job EXCEPT ![c] = "notify"]
    /\ systemLock' = Free
    /\ calls' = calls \union {c}
    /\ UNCHANGED <<ui, toJoin, fetchLock, queue, kind, binary, backup, tmp, updating>>

\* systemctl stop; a failure that leaves Xray up changes nothing.
StopXray(c) ==
    /\ kind[c] = "stop"
    /\ Report(c)
    /\ \/ xray' = "down" /\ stopped' = TRUE
       \/ UNCHANGED <<xray, stopped>>
    /\ UNCHANGED events

\* systemctl start and restart need a whole binary.
StartXray(c) ==
    /\ kind[c] \in {"start", "restart"}
    /\ Report(c)
    /\ binary = "whole"
    /\ xray' = "up"
    /\ stopped' = FALSE
    /\ UNCHANGED events

StartXrayFails(c) ==
    /\ kind[c] \in {"start", "restart"}
    /\ Report(c)
    /\ xray' = IF kind[c] = "start" THEN xray ELSE "down"
    /\ events' = IF binary = "whole" THEN events \union {"fault"} ELSE events
    /\ UNCHANGED stopped

CommandEnds(c) ==
    /\ Told(c)
    /\ job' = [job EXCEPT ![c] = "done"]
    /\ UNCHANGED <<ui, toJoin, locks, queue, kind, machine, updating, stopped, events>>
-----------------------------------------------------------------------------
(* The update threads *)

At(u, s) == update[u] = s /\ u \notin calls

GoTo(u, s) == update' = [update EXCEPT ![u] = s] /\ UNCHANGED calls

\* The stage begins with a progress message, for which the thread waits.
Announce(u, s) == update' = [update EXCEPT ![u] = s] /\ calls' = calls \union {u}

\* Neither the service nor the binary is touched.
Elsewhere == UNCHANGED <<ui, toJoin, locks, pool, xray, binary, backup, stopped>>

\* The versions are compared.
CheckVersion(u) ==
    /\ At(u, "check")
    /\ \/ Announce(u, "download")
       \/ Announce(u, "report")
    /\ UNCHANGED <<tmp, wasRunning, events>>
    /\ Elsewhere

ClearTmp(u) ==
    /\ At(u, "download")
    /\ GoTo(u, "write")
    /\ tmp' = "empty"
    /\ UNCHANGED <<wasRunning, events>>
    /\ Elsewhere

Download(u) ==
    /\ At(u, "write")
    /\ tmp # "absent"
    /\ Announce(u, "extract")
    /\ tmp' = IF tmp = "empty" THEN "zip" ELSE tmp
    /\ UNCHANGED <<wasRunning, events>>
    /\ Elsewhere

\* Unpacking, and running the new binary once.
Unzip(u) ==
    /\ At(u, "extract")
    /\ tmp \in {"zip", "unpacked"}
    /\ Announce(u, "install")
    /\ tmp' = "unpacked"
    /\ UNCHANGED <<wasRunning, events>>
    /\ Elsewhere

\* A status that cannot be read counts as not running.
ReadStatus(u) ==
    /\ At(u, "install")
    /\ \E r \in {xray = "up", FALSE} :
        /\ wasRunning' = [wasRunning EXCEPT ![u] = r]
        /\ GoTo(u, IF r THEN "stop" ELSE "backup")
    /\ UNCHANGED <<tmp, events>>
    /\ Elsewhere

\* The result of stop_xray is ignored.
StopService(u) ==
    /\ At(u, "stop")
    /\ GoTo(u, "backup")
    /\ xray' \in {xray, "down"}
    /\ UNCHANGED <<ui, toJoin, locks, pool, binary, backup, tmp, wasRunning, stopped, events>>

\* Faulty variant, for mutation: no copy is made.
BackupSkipped(u) ==
    /\ At(u, "backup")
    /\ GoTo(u, "copy")
    /\ UNCHANGED <<ui, toJoin, locks, pool, machine, wasRunning, stopped, events>>

Backup(u) ==
    /\ At(u, "backup")
    /\ GoTo(u, "copy")
    /\ backup' = binary
    /\ UNCHANGED <<ui, toJoin, locks, pool, xray, binary, tmp, wasRunning, stopped, events>>

\* The binary is opened for writing, which the system refuses while it is running.
CanCopy == tmp = "unpacked" /\ xray = "down"

BeginCopy(u) ==
    /\ At(u, "copy")
    /\ CanCopy
    /\ GoTo(u, "copying")
    /\ binary' = "torn"
    /\ UNCHANGED <<ui, toJoin, locks, pool, xray, backup, tmp, wasRunning, stopped, events>>

EndCopy(u) ==
    /\ At(u, "copying")
    /\ GoTo(u, "geo")
    /\ binary' = IF \E v \in Updates \ {u} : update[v] = "copying" THEN "torn" ELSE "whole"
    /\ UNCHANGED <<ui, toJoin, locks, pool, xray, backup, tmp, wasRunning, stopped, events>>

\* What follows the copy; and a faulty variant, for mutation.
IfStillRunning(u) == IF xray = "up" THEN "restart" ELSE "clean"
AfterCopy(u) == IF wasRunning[u] THEN "restart" ELSE "clean"

\* The files with the geographical data, if the archive has them.
CopyGeoFiles(u) ==
    /\ At(u, "geo")
    /\ IF AfterCopy(u) = "restart" THEN Announce(u, "restart") ELSE GoTo(u, "clean")
    /\ UNCHANGED <<tmp, wasRunning, events>>
    /\ Elsewhere

\* The result of start_xray is ignored.
StartService(u) ==
    /\ At(u, "restart")
    /\ GoTo(u, "clean")
    /\ \/ binary = "whole" /\ xray' = "up" /\ stopped' = FALSE /\ UNCHANGED events
       \/ UNCHANGED <<xray, stopped>> /\ events' = events \union {"fault"}
    /\ UNCHANGED <<ui, toJoin, locks, pool, binary, backup, tmp, wasRunning>>

Clean(u) ==
    /\ At(u, "clean")
    /\ Announce(u, "report")
    /\ tmp' = "absent"
    /\ UNCHANGED <<wasRunning, events>>
    /\ Elsewhere

\* Before it stops Xray a step may fail for any reason; after that only for one
\* that is named: a fault, the files gone, or the binary in use.
MayFail(u) ==
    \/ update[u] \in {"check", "write", "extract"} /\ UNCHANGED events
    \/ update[u] = "copy" /\ ~CanCopy /\ UNCHANGED events
    \/ update[u] = "geo" /\ tmp = "absent" /\ UNCHANGED events
    \/ update[u] \in {"backup", "copy", "copying", "geo"} /\ events' = events \union {"fault"}

\* An exception, or an early return: the update is reported as failed, and Xray
\* stays as it is.  What may be left of the files depends on which of the two.
UpdateFails(u) ==
    /\ u \notin calls
    /\ MayFail(u)
    /\ Announce(u, "report")
    /\ tmp' \in {tmp, "absent"}
    /\ UNCHANGED wasRunning
    /\ Elsewhere

UpdateEnds(u) ==
    /\ At(u, "report")
    /\ GoTo(u, "done")
    /\ UNCHANGED <<tmp, wasRunning, events>>
    /\ Elsewhere

\* call_from_thread raises once the loop has ended: the exception ends the update,
\* and the report of that raises too.
CallRaises(u) ==
    /\ ui = "ended"
    /\ u \in calls
    /\ update' = [update EXCEPT ![u] = "done"]
    /\ calls' = calls \ {u}
    /\ tmp' \in {tmp, "absent"}
    /\ UNCHANGED <<wasRunning, events>>
    /\ Elsewhere
-----------------------------------------------------------------------------
User ==
    \/ Tick
    \/ \E c \in Commands : Command(c)
    \/ \E u \in Updates : StartUpdate(u)
    \/ OpenEditor
    \/ CloseEditor
    \/ Quit

Loop ==
    \/ \E t \in Jobs \union Updates : Serve(t)
    \/ \E u \in Updates : Join(u)
    \/ Unmounted
    \/ LoopEnds
    \/ Exit

TickStep == RunTick \/ SkipTick \/ TickWorked \/ TickEnds

CommandStep(c) ==
    \/ TakeCommand(c)
    \/ TakeOther(c)
    \/ StopXray(c)
    \/ StartXray(c)
    \/ StartXrayFails(c)
    \/ CommandEnds(c)

UpdateStep(u) ==
    \/ CheckVersion(u)
    \/ ClearTmp(u)
    \/ Download(u)
    \/ Unzip(u)
    \/ ReadStatus(u)
    \/ StopService(u)
    \/ Backup(u)
    \/ BeginCopy(u)
    \/ EndCopy(u)
    \/ CopyGeoFiles(u)
    \/ StartService(u)
    \/ Clean(u)
    \/ UpdateFails(u)
    \/ UpdateEnds(u)
    \/ CallRaises(u)

Next ==
    \/ User
    \/ Loop
    \/ TickStep
    \/ \E c \in Commands : CommandStep(c) \/ Acquire(c)
    \/ \E u \in Updates : UpdateStep(u)

Spec == Init /\ [][Next]_vars

\* Threads that can run do run.  The loop serves every call, also when the user keeps
\* opening the editor: the call is in the loop's queue, ahead of the next key.  A
\* command that waits for _system_lock gets it if it is free again and again (it is
\* free for most of the seconds between two ticks).  The user need not do anything.
Fairness ==
    /\ \A t \in Jobs \union Updates : SF_vars(Serve(t))
    /\ \A u \in Updates : WF_vars(Join(u)) /\ WF_vars(UpdateStep(u))
    /\ WF_vars(Unmounted) /\ WF_vars(LoopEnds) /\ WF_vars(Exit)
    /\ WF_vars(TickStep)
    /\ \A c \in Commands : WF_vars(CommandStep(c)) /\ SF_vars(Acquire(c))

FairSpec == Spec /\ Fairness
-----------------------------------------------------------------------------
(* Properties *)

\* An update that is not disturbed leaves the service as it found it: when nothing is
\* under way and there was no fault, no second update at the same time and no quit,
\* Xray is down only because the user stopped it, whatever commands ran meanwhile.
ServiceKept ==
    Alive = {} /\ Pending = {} /\ events = {} => (xray = "down" => stopped)

\* Without overlapping updates there is always a complete binary on the disk, in
\* place or as its copy, at whatever step an update is killed; a fault is excused,
\* because the next update copies what the fault left behind.
RecoverableBinary ==
    events \subseteq {"quit"} => binary = "whole" \/ backup = "whole"

\* Unless the editor stays open for ever, a submitted command is carried out, also
\* when the program is being quit and also if ticks and updates never pause ...
CommandsFinish ==
    <>[](ui = "editing") \/ \A c \in Commands : job[c] = "queued" ~> job[c] = "done"

\* ... _fetch_lock is always given back, so that there are further ticks ...
TicksGoOn == <>[](ui = "editing") \/ (fetchLock ~> ~fetchLock)

\* ... and quitting comes to an end, although on_unmount waits on the UI thread for
\* threads that wait for the UI thread.
QuitEnds == ui = "joining" ~> ui = "exited"

\* "Ждём завершения критических потоков": an update that is under way when the user
\* quits is waited for, so that the process ends with the service as it should be.
QuitKeepsService ==
    ui = "exited" /\ events \subseteq {"quit"} =>
        binary = "whole" /\ (xray = "down" => stopped)
=============================================================================
