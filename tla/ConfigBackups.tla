---------------------------- MODULE ConfigBackups ---------------------------
(***************************************************************************)
(* Xray's configuration file in the Python monitor: the cached reader      *)
(* (modules/config.py) and the backups that app.py makes before the file   *)
(* is edited or rolled back.                                               *)
(*                                                                         *)
(* The commands run on the UI thread, one after the other, each in steps   *)
(* between which time passes and others may write the file: an editor or a *)
(* panel (External).  A pool thread whose restart of Xray has failed reads *)
(* the list of backups too (Hint), at the same time as the UI thread.      *)
(*                                                                         *)
(* A version stands for contents with their modification time: copy2 keeps *)
(* both, every other write makes a fresh version.  Backups are named by    *)
(* the second.  wanted, replaced and events are history.                   *)
(***************************************************************************)
EXTENDS Integers, FiniteSets, Sequences, Functions, FiniteSetsExt

CONSTANTS
    Keep,           \* backups left by pruning, 10 in the code
    ListAge,        \* age in seconds up to which the list of backups is reused, 30
    LastSecond,     \* bound: the clock
    MaxVersions,    \* bound: versions that are ever written
    Exceptions,     \* bound: the exceptional events that may happen
    MaxExceptions   \* bound: how many different ones may happen in one behaviour

ASSUME SizesAssumption ==
    /\ Keep \in Nat \ {0, 1} /\ ListAge \in Nat /\ MaxVersions \in Nat \ {0}
    /\ LastSecond \in Nat /\ ListAge < LastSecond

VARIABLES
    file,       \* the version in the configuration file
    versions,   \* of every version whether it is a valid configuration
    backups,    \* second -> version
    now,        \* the clock
    ui,         \* where the UI thread is in a command
    op,         \* local variables of the command: chosen backup, what was saved and when
    seen,       \* mtime in reload
    data, mtime,        \* XrayConfig._data, _mtime
    listing, listedAt,  \* XrayApp._bak_cache, _bak_cache_t
    hint,       \* the pool thread: what it has listed and when
    wanted,     \* history: the newest backup when a rollback was asked for
    replaced,   \* history: what the program has replaced, with the second of its backup
    events      \* history: exceptional events

disk == <<file, versions, backups>>
reader == <<seen, data, mtime>>
list == <<listing, listedAt>>
vars == <<file, versions, backups, now, ui, op, seen, data, mtime, listing, listedAt,
          hint, wanted, replaced, events>>
-----------------------------------------------------------------------------
Never == 0              \* a time long ago, and no version
Seconds == ListAge + 1 .. LastSecond
Versions == 1 .. Len(versions)
NoOp == [bak |-> Never, saved |-> Never, at |-> Never]
NoList == [names |-> {}, at |-> Never]
Valid(v) == versions[v]

\* Functions with one more argument, or another value at one they have.
Put(f, x, y) == [z \in DOMAIN f \union {x} |-> IF z = x THEN y ELSE f[z]]

\* Some version that has not been there before, valid or not.
CanWrite == Len(versions) < MaxVersions
Fresh == Len(versions) + 1

Happens(E) ==
    /\ E \subseteq Exceptions
    /\ events' = events \union E
    /\ Cardinality(events') <= MaxExceptions

TypeOK ==
    /\ versions \in Seq(BOOLEAN) /\ Len(versions) <= MaxVersions
    /\ file \in Versions
    /\ DOMAIN backups \subseteq Seconds /\ Range(backups) \subseteq Versions
    /\ now \in Seconds
    /\ ui \in {"idle", "nano", "check", "copy", "stat", "read", "stat2", "read2"}
    /\ op \in [bak : Seconds \union {Never}, saved : Versions \union {Never}, at : Seconds \union {Never}]
    /\ {seen, data, mtime, wanted} \subseteq Versions \union {Never}
    /\ listing \subseteq Seconds /\ listedAt \in Seconds \union {Never}
    /\ hint.names \subseteq Seconds /\ hint.at \in Seconds \union {Never}
    /\ DOMAIN replaced \subseteq Versions /\ Range(replaced) \subseteq Seconds
    /\ events \subseteq Exceptions

Init ==
    /\ versions \in {<<TRUE>>, <<FALSE>>} /\ file = 1
    /\ backups = <<>> /\ now = ListAge + 1
    /\ ui = "idle" /\ op = NoOp /\ seen = Never
    /\ data = Never /\ mtime = Never
    /\ listing = {} /\ listedAt = Never /\ hint = NoList
    /\ wanted = Never /\ replaced = <<>> /\ events = {}
-----------------------------------------------------------------------------
(* The world *)

Second ==
    /\ now < LastSecond
    /\ now' = now + 1
    /\ UNCHANGED <<disk, ui, op, reader, list, hint, wanted, replaced, events>>

\* Somebody else writes the file.
External ==
    \E valid \in BOOLEAN :
        /\ CanWrite
        /\ versions' = Append(versions, valid) /\ file' = Fresh
        /\ UNCHANGED <<backups, now, ui, op, reader, list, hint, wanted, replaced, events>>

\* The monitor is killed and started again.
Kill ==
    /\ ui' = "idle" /\ op' = NoOp /\ seen' = Never
    /\ data' = Never /\ mtime' = Never
    /\ listing' = {} /\ listedAt' = Never /\ hint' = NoList
    /\ wanted' = Never
    /\ UNCHANGED <<disk, now, replaced, events>>
-----------------------------------------------------------------------------
(* The list of backups *)

ListIsOld == now - listedAt > ListAge
Listed == IF ListIsOld THEN DOMAIN backups ELSE listing

\* _get_backups, on the UI thread.
GetBackups ==
    /\ listing' = Listed
    /\ listedAt' = IF ListIsOld THEN now ELSE listedAt

\* _get_backups on the pool thread: the directory is read, and later the list kept.
HintLists ==
    /\ hint = NoList
    /\ ListIsOld
    /\ hint' = [names |-> DOMAIN backups, at |-> now]
    /\ UNCHANGED <<disk, now, ui, op, reader, list, wanted, replaced, events>>

HintKeeps ==
    /\ hint # NoList
    /\ listing' = hint.names /\ listedAt' = hint.at
    /\ hint' = NoList
    /\ IF hint.names = DOMAIN backups THEN UNCHANGED events ELSE Happens({"stale_list"})
    /\ UNCHANGED <<disk, now, ui, op, reader, wanted, replaced>>

\* What pruning leaves; a faulty variant for mutation removes the newest ones.
PrunedNewest(S) == {s \in S : Cardinality({t \in S : t < s}) < Keep}
Pruned(S) == {s \in S : Cardinality({t \in S : t > s}) < Keep}

\* The list after a backup, read again and then forgotten; a faulty variant for mutation
\* goes on using what was listed before.
ListKept(made) == [names |-> IF ListIsOld THEN made ELSE listing,
                   at |-> IF ListIsOld THEN now ELSE listedAt]
ListDropped(made) == [names |-> made, at |-> Never]

\* A backup of the same second is overwritten with something else.
SameSecond(v) == IF now \in DOMAIN backups /\ backups[now] # v THEN {"same_second"} ELSE {}

\* _backup_config.
BackupMade ==
    LET made == Put(backups, now, file)
    IN  /\ backups' = Restrict(made, Pruned(DOMAIN made))
        /\ listing' = ListDropped(DOMAIN made).names
        /\ listedAt' = ListDropped(DOMAIN made).at
        /\ Happens(SameSecond(file))
        /\ UNCHANGED <<file, versions>>

\* copy2 fails, before it has opened the backup or in the middle of it.
BackupFails ==
    /\ \/ Happens({"backup_failed"}) /\ UNCHANGED <<versions, backups>>
       \/ /\ CanWrite /\ Happens({"backup_failed"} \union SameSecond(Fresh))
          /\ versions' = Append(versions, FALSE) /\ backups' = Put(backups, now, Fresh)
    /\ UNCHANGED <<file, list>>
-----------------------------------------------------------------------------
(* XrayConfig.reload *)

\* _draw_keys_panel reloads for its left half, then shows the list of backups there, and
\* reloads for its right half.
Drawn ==
    IF ui \in {"stat", "read"}
        THEN ui' = "stat2" /\ GetBackups
        ELSE ui' = "idle" /\ UNCHANGED list

\* The modification time is read, and then the file if it has changed.
ReloadStat ==
    /\ ui \in {"stat", "stat2"}
    /\ IF mtime = file
        THEN Drawn /\ UNCHANGED seen
        ELSE /\ ui' = IF ui = "stat" THEN "read" ELSE "read2"
             /\ seen' = file
             /\ UNCHANGED list
    /\ UNCHANGED <<disk, now, op, data, mtime, hint, wanted, replaced, events>>

\* The cached time after the file was read: only a file that could be parsed is kept.
\* (A faulty variant for mutation keeps the time of the day.)
SeenClock == now
SeenIfParsed == IF Valid(file) THEN seen ELSE mtime

ReloadRead ==
    /\ ui \in {"read", "read2"}
    /\ data' = IF Valid(file) THEN file ELSE data
    /\ mtime' = SeenIfParsed
    /\ Drawn /\ seen' = Never
    /\ UNCHANGED <<disk, now, op, hint, wanted, replaced, events>>

\* The keys tab is opened, or its address is changed.
OpenKeys ==
    /\ ui = "idle"
    /\ ui' = "stat"
    /\ UNCHANGED <<disk, now, op, reader, list, hint, wanted, replaced, events>>
-----------------------------------------------------------------------------
(* action_edit_config *)

Edit ==
    /\ ui = "idle"
    /\ \/ BackupMade /\ op' = [NoOp EXCEPT !.saved = file, !.at = now]
       \/ BackupFails /\ op' = NoOp
    /\ ui' = "nano"
    /\ UNCHANGED <<now, reader, hint, wanted, replaced>>

\* A version is replaced that was saved before.
Replacing == replaced' = IF op.saved = file THEN Put(replaced, file, op.at) ELSE replaced

NanoSaves ==
    \E valid \in BOOLEAN :
        /\ ui = "nano" /\ CanWrite
        /\ versions' = Append(versions, valid) /\ file' = Fresh
        /\ Replacing
        /\ UNCHANGED <<backups, now, ui, op, reader, list, hint, wanted, events>>

NanoEnds ==
    /\ ui = "nano"
    /\ ui' = "stat" /\ op' = NoOp
    /\ mtime' = Never
    /\ UNCHANGED <<disk, now, seen, data, list, hint, wanted, replaced, events>>

\* nano cannot be run: the handler returns at once.
NanoFails ==
    /\ ui = "nano"
    /\ ui' = "idle" /\ op' = NoOp
    /\ UNCHANGED <<disk, now, reader, list, hint, wanted, replaced, events>>
-----------------------------------------------------------------------------
(* action_rollback_config *)

\* The last backup in the list.
Rollback ==
    /\ ui = "idle"
    /\ Listed # {}
    /\ GetBackups
    /\ op' = [NoOp EXCEPT !.bak = Max(Listed)]
    /\ wanted' = IF DOMAIN backups = {} THEN Never ELSE backups[Max(DOMAIN backups)]
    /\ ui' = "check"
    /\ UNCHANGED <<disk, now, reader, hint, replaced, events>>

\* check_syntax_file is negative: the backup is broken, or is not there any more.
CheckFails ==
    /\ ui = "check"
    /\ op.bak \in DOMAIN backups => ~Valid(backups[op.bak])
    /\ ui' = "idle" /\ op' = NoOp /\ wanted' = Never
    /\ UNCHANGED <<disk, now, reader, list, hint, replaced, events>>

\* It is positive, or Xray could not be run: the current file is saved.
CheckPasses ==
    /\ ui = "check"
    /\ \/ op.bak \in DOMAIN backups /\ Valid(backups[op.bak])
       \/ "unchecked" \in events
    /\ \/ BackupMade /\ op' = [op EXCEPT !.saved = file, !.at = now]
       \/ BackupFails /\ UNCHANGED op
    /\ ui' = "copy"
    /\ UNCHANGED <<now, reader, hint, wanted, replaced>>

\* Xray's binary is missing or does not answer: nothing is checked from now on.
XrayMissing ==
    /\ "unchecked" \notin events
    /\ Happens({"unchecked"})
    /\ UNCHANGED <<disk, now, ui, op, reader, list, hint, wanted, replaced>>

\* The cached time after a rollback; a faulty variant for mutation forgets to reset it.
TimeKept == mtime
TimeReset == Never

Copied ==
    /\ ui = "copy"
    /\ op.bak \in DOMAIN backups
    /\ file' = backups[op.bak]
    /\ Replacing
    /\ mtime' = TimeReset
    /\ ui' = "stat" /\ op' = NoOp /\ wanted' = Never
    /\ UNCHANGED <<versions, backups, now, seen, data, list, hint, events>>

\* The backup is gone, or the disk is full in the middle of the copy.
CopyFails ==
    /\ ui = "copy"
    /\ ui' = "idle" /\ op' = NoOp /\ wanted' = Never
    /\ \/ op.bak \notin DOMAIN backups /\ UNCHANGED <<file, versions, replaced, events>>
       \/ /\ op.bak \in DOMAIN backups
          /\ Happens({"copy_failed"})
          /\ CanWrite
          /\ versions' = Append(versions, FALSE) /\ file' = Fresh
          /\ Replacing
    /\ UNCHANGED <<backups, now, reader, list, hint>>
-----------------------------------------------------------------------------
(* XrayConfig.delete_client *)

\* The client is removed from the cached data first, then the file is saved and replaced;
\* the list of backups is not told.  An exception in between leaves the cache changed.
DeleteClient ==
    LET known == mtime = file \/ Valid(file)
        target == Put(backups, now, file)
    IN  /\ ui = "idle" /\ CanWrite /\ known
        /\ versions' = Append(versions, TRUE)
        /\ data' = Fresh
        /\ \/ /\ Happens({"client_deleted"} \union
                    IF now \in DOMAIN backups /\ backups[now] # file THEN {"same_second"} ELSE {})
              /\ backups' = target
              /\ file' = Fresh /\ mtime' = Never
              /\ replaced' = Put(replaced, file, now)
           \/ /\ \/ Happens({"delete_failed"}) /\ UNCHANGED backups
                 \/ Happens({"delete_failed"} \union SameSecond(file)) /\ backups' = target
              /\ mtime' = file
              /\ UNCHANGED <<file, replaced>>
        /\ UNCHANGED <<now, ui, op, seen, list, hint, wanted>>
-----------------------------------------------------------------------------
Next ==
    \/ Second \/ External \/ Kill
    \/ HintLists \/ HintKeeps
    \/ ReloadStat \/ ReloadRead \/ OpenKeys
    \/ Edit \/ NanoSaves \/ NanoEnds \/ NanoFails
    \/ Rollback \/ CheckFails \/ CheckPasses \/ XrayMissing \/ Copied \/ CopyFails
    \/ DeleteClient

Spec == Init /\ [][Next]_vars
-----------------------------------------------------------------------------
(* Properties *)

\* What the reader shows for a file with the time it remembers is that file, however its
\* two reads, other writers, the editor, rollbacks and kills follow each other; but not
\* after a deletion that has failed.
CacheIsFile ==
    "delete_failed" \notin events => (mtime = file => data = file)

\* A version is still in the file or in a backup, or newer backups have taken its place.
StillThere(v) ==
    \/ v = file \/ v \in Range(backups)
    \/ Cardinality(DOMAIN backups) >= Keep /\ \A s \in DOMAIN backups : s > replaced[v]

\* No configuration is lost that the program has replaced after a backup of it, whatever
\* fails afterwards and wherever the monitor is killed; but two backups of one second are
\* one file.
ReplacedIsSaved ==
    events \intersect {"same_second", "backup_failed"} = {} =>
        \A v \in DOMAIN replaced : StillThere(v)

\* A rollback installs the newest backup there is when it is asked for, and only one that
\* passed the check; but not if the list of backups is stale or misses the last one.
RollsBackToNewest ==
    [][(ui = "copy" /\ ui' = "stat"
        /\ events \intersect {"stale_list", "client_deleted", "delete_failed", "backup_failed", "same_second"} = {})
            => file' = wanted /\ ("unchecked" \in events \/ Valid(file'))]_vars
=============================================================================
