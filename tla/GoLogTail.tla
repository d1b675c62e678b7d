----------------------------- MODULE GoLogTail ------------------------------
(***************************************************************************)
(* The Go reader of the access log (logtail.go) with the commands of the   *)
(* terminal interface that run it.  Each log tick starts fetchLogCmd in a  *)
(* goroutine of its own, so that scans overlap when one takes longer than  *)
(* a tick; a mutex guards the reader, but the file is opened and measured  *)
(* before it is taken.                                                     *)
(*                                                                         *)
(* A line stands for what the scan makes of it, here an SNI hit.  cursor,  *)
(* got and disturbed are history.                                          *)
(***************************************************************************)
EXTENDS LogFile

CONSTANTS
    Window,     \* lines in the 2 MB that the first scan reads
    Scans       \* bound: commands that may be under way at the same time

VARIABLES
    scans,      \* command -> where it is, the inode and the size it has seen, the hits it carries
    lastPos, lastSize,
    sniFlush,   \* number of hits in the map
    sniAcc,     \* number of hits in the interface's table
    cursor, got, disturbed      \* as in LogTail

NoScan == [at |-> "idle", inode |-> 0, size |-> 0, carried |-> 0]
UnderWay == {s \in Scans : scans[s].at = "opened"}

GoTypeOK ==
    /\ scans \in [Scans -> [at : {"idle", "opened", "flush", "sent"}, inode : Generations \union {0},
                            size : 0 .. MaxLines, carried : Nat]]
    /\ {lastPos, lastSize} \subseteq 0 .. MaxLines
    /\ sniFlush \in Nat /\ sniAcc \in Nat
    /\ cursor \in [gen : Generations, pos : 0 .. MaxLines]
    /\ got \in [Lines -> Nat]
    /\ disturbed \in 0 .. 2

GoInit ==
    /\ scans = [s \in Scans |-> NoScan]
    /\ lastPos = 0 /\ lastSize = 0 /\ sniFlush = 0 /\ sniAcc = 0
    /\ cursor = [gen |-> 1, pos |-> 0] /\ got = [l \in Lines |-> 0]
    /\ disturbed = 0

RotatedUnderGo == disturbed' = IF UnderWay = {} THEN disturbed ELSE 2
UnrotatedGo == UNCHANGED <<scans, lastPos, lastSize, sniFlush, sniAcc, cursor, got>>

\* os.Open and Stat, before the mutex.
Open(s) ==
    LET inode == files[Current].inode
    IN  /\ scans[s].at = "idle"
        /\ scans' = [scans EXCEPT ![s] = [NoScan EXCEPT !.at = "opened", !.inode = inode,
                                                        !.size = LengthOf(inode)]]
        /\ disturbed' = IF UnderWay = {} THEN disturbed ELSE 2
        /\ UNCHANGED <<files, lastPos, lastSize, sniFlush, sniAcc, cursor, got>>

\* Where a scan with this size begins.  (A faulty variant for mutation does not see that
\* the file is shorter.)
FirstPosition(size) == IF lastPos = 0 THEN Max({0, size - Window}) ELSE lastPos
NeverRotated(size) == FirstPosition(size)
Position(size) == IF size < lastSize THEN 0 ELSE FirstPosition(size)

\* The position after a scan; a faulty variant for mutation forgets to advance it.
NotAdvanced(from, to) == from
Advanced(from, to) == to

\* UpdateBlockStats with the mutex held: up to the size, or to the end if that comes first.
UpdateBlockStats(s) ==
    LET size == scans[s].size
        gen == GenerationOf(scans[s].inode)
        from == Position(size)
        to == Max({from, Min({size, LengthOf(scans[s].inode)})})
    IN  /\ scans[s].at = "opened"
        /\ scans' = [scans EXCEPT ![s] = [NoScan EXCEPT !.at = "flush"]]
        /\ lastPos' = Advanced(from, to) /\ lastSize' = size
        /\ sniFlush' = sniFlush + (to - from)
        /\ got' = [l \in Lines |-> IF l[1] = gen /\ l[2] \in from + 1 .. to THEN got[l] + 1 ELSE got[l]]
        /\ cursor' = IF to > from THEN [gen |-> gen, pos |-> to] ELSE cursor
        /\ disturbed' = IF UnderWay = {s} THEN Max({0, disturbed - 1}) ELSE disturbed
        /\ UNCHANGED <<files, sniAcc>>

\* What FlushNewSNI leaves; a faulty variant for mutation leaves the map as it is.
NotSwapped == sniFlush
Swapped == 0

FlushNewSNI(s) ==
    /\ scans[s].at = "flush"
    /\ scans' = [scans EXCEPT ![s] = [@ EXCEPT !.at = "sent", !.carried = sniFlush]]
    /\ sniFlush' = Swapped
    /\ UNCHANGED <<files, lastPos, lastSize, sniAcc, cursor, got, disturbed>>

\* logMsg in Update; messages arrive in any order.
LogMsg(s) ==
    /\ scans[s].at = "sent"
    /\ scans' = [scans EXCEPT ![s] = NoScan]
    /\ sniAcc' = sniAcc + scans[s].carried
    /\ UNCHANGED <<files, lastPos, lastSize, sniFlush, cursor, got, disturbed>>

Step(s) == Open(s) \/ UpdateBlockStats(s) \/ FlushNewSNI(s) \/ LogMsg(s)
-----------------------------------------------------------------------------
\* Every hit that a scan has counted is in the map, with one message or in the table, once,
\* in whatever order scans flush and messages arrive.
HitsConserved ==
    MapThenSumSet(LAMBDA l : got[l], Lines)
        = sniFlush + sniAcc + MapThenSumSet(LAMBDA s : scans[s].carried, Scans)
=============================================================================
