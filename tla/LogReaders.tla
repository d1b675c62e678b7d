----------------------------- MODULE LogReaders -----------------------------
(***************************************************************************)
(* The access log with the reader that is installed, the one of the Python *)
(* monitor or the one of the Go monitor, and what each promises: it        *)
(* implements LineFeed.                                                    *)
(***************************************************************************)
EXTENDS LogFile

CONSTANTS Window, Scans, Installed      \* Installed: bound, the readers considered

ASSUME WindowAssumption == Window \in Nat \ {0}
ASSUME ScansAssumption == IsFiniteSet(Scans)

VARIABLES
    installed,
    pc, lastInode, lastSize, lastPos, opened, size, blockTotal, cursor, got, disturbed,
    scans, goPos, goSize, sniFlush, sniAcc, goCursor, goGot, goDisturbed

Py == INSTANCE LogTail
Go == INSTANCE GoLogTail WITH lastPos <- goPos, lastSize <- goSize, cursor <- goCursor,
                              got <- goGot, disturbed <- goDisturbed

tailVars == <<pc, lastInode, lastSize, lastPos, opened, size, blockTotal, cursor, got, disturbed>>
goVars == <<scans, goPos, goSize, sniFlush, sniAcc, goCursor, goGot, goDisturbed>>
vars == <<files, installed, tailVars, goVars>>

TypeOK == LogTypeOK /\ installed \in Installed /\ Py!TailTypeOK /\ Go!GoTypeOK

Init ==
    /\ LogInit
    /\ installed \in Installed
    /\ Py!TailInit /\ Go!GoInit

XrayWrites == Write /\ UNCHANGED <<installed, tailVars, goVars>>

LogrotateRuns ==
    /\ Rotate
    /\ Py!RotatedUnder /\ Py!Unrotated
    /\ Go!RotatedUnderGo /\ Go!UnrotatedGo
    /\ UNCHANGED installed

PyScan == installed = "python" /\ Py!Scan /\ UNCHANGED <<installed, goVars>>
GoScan(s) == installed = "go" /\ Go!Step(s) /\ UNCHANGED <<installed, tailVars>>

Next == XrayWrites \/ LogrotateRuns \/ PyScan \/ \E s \in Scans : GoScan(s)

\* Ticks go on and threads that can run do; nothing is asked of Xray or logrotate.
Fairness == WF_vars(PyScan) /\ \A s \in Scans : WF_vars(GoScan(s))

Spec == Init /\ [][Next]_vars /\ Fairness
-----------------------------------------------------------------------------
(* Properties *)

PyFeed == INSTANCE LineFeed WITH KnowsInodes <- TRUE, shaken <- disturbed > 0
GoFeed == INSTANCE LineFeed WITH KnowsInodes <- FALSE, shaken <- goDisturbed > 0,
                                 cursor <- goCursor, got <- goGot

\* The Python reader delivers each line at most once and without gaps, and begins a renamed
\* log at its start; but not with a scan that meets a rotation, and the one after it.
PyImplementsFeed == PyFeed!Spec

\* So does the Go reader, which cannot tell a renamed log that has grown; but not with
\* scans that overlap or meet a rotation, and the one after them.
GoImplementsFeed == GoFeed!Spec

\* No line is counted more than twice by the Python reader, however rotations meet its scans.
AtMostTwice == Py!AtMostTwice

\* Between its scans the block counter counts no line twice and, unless the last scan met a
\* rotation, nothing that was read from a file that is renamed by now.
BlocksOfThisFile == Py!BlocksOfThisFile

\* In the Go monitor every hit that a scan has counted is in the reader's map, with one
\* message or in the table of the interface, once, however scans and messages overtake.
HitsConserved == Go!HitsConserved

\* A rotated log that is as long as the part of the old one that was read looks unchanged
\* to a reader that cannot tell it by its inode.  The Python reader remembers the size that
\* it has measured, and a position further on if the log grew before it was read.
LooksUnchanged ==
    IF installed = "python"
        THEN /\ Current > 1 /\ files[Current].inode = files[Current - 1].inode
             /\ cursor.gen < Current
             /\ files[Current].len \in lastSize .. cursor.pos
        ELSE goCursor.gen < Current /\ files[Current].len = goCursor.pos

UpToDate(at) == at = [gen |-> Current, pos |-> files[Current].len]

\* Once Xray and logrotate rest the reader gets to the end of the log, if ticks go on.
ReaderCatchesUp ==
    LET at == IF installed = "python" THEN cursor ELSE goCursor
    IN  <>[](files[Current].len = 0 \/ UpToDate(at) \/ LooksUnchanged)
=============================================================================
