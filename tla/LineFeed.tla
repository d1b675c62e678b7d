------------------------------ MODULE LineFeed ------------------------------
(***************************************************************************)
(* What a reader of the log promises: an incremental scan.  It delivers    *)
(* each line at most once and, as long as the log is not rotated, without  *)
(* a gap.  After a rotation it begins at the start of the new generation,  *)
(* or further on where its documented limits let it.                       *)
(*                                                                         *)
(* While shaken is true nothing is promised but that delivered lines have  *)
(* been written.                                                           *)
(***************************************************************************)
EXTENDS LogFile

CONSTANTS
    Window,         \* lines of an older log that are enough for a reader that starts
    KnowsInodes     \* whether the reader can tell a renamed log

VARIABLES
    cursor,     \* generation and position of the last delivered line
    got,        \* line -> how often it was delivered
    shaken      \* whether a scan is disturbed

feedVars == <<files, cursor, got, shaken>>

Segment(g, from, to) == {g} \X (from + 1 .. to)
Delivered(g, from, to) ==
    [l \in Lines |-> IF l \in Segment(g, from, to) THEN got[l] + 1 ELSE got[l]]

Init ==
    /\ LogInit
    /\ cursor = [gen |-> 1, pos |-> 0]
    /\ got = [l \in Lines |-> 0]
    /\ shaken = FALSE

FeedWrite == Write /\ UNCHANGED <<cursor, got, shaken>>

\* A rotation may meet a reader in the middle of a scan.
FeedRotate == Rotate /\ shaken' \in {shaken, TRUE} /\ UNCHANGED <<cursor, got>>

\* The position is kept in the new generation if the reader cannot tell that it is new.
Kept(g, from) ==
    /\ from = cursor.pos
    /\ KnowsInodes => files[g].inode = files[cursor.gen].inode

Starts(g, from, to) ==
    \/ g = cursor.gen /\ from = cursor.pos
    \/ g > cursor.gen /\ (from = 0 \/ Kept(g, from))
    \/ (g > cursor.gen \/ cursor.pos = 0) /\ to - from >= Window

Deliver ==
    \E g \in DOMAIN files, from, to \in 0 .. MaxLines :
        /\ from < to /\ to <= files[g].len
        /\ shaken \/ Starts(g, from, to)
        /\ got' = Delivered(g, from, to)
        /\ cursor' = [gen |-> g, pos |-> to]
        /\ shaken' \in {shaken, FALSE}
        /\ UNCHANGED files

\* Scans that begin or end without delivering.
Disturbance == shaken' # shaken /\ UNCHANGED <<files, cursor, got>>

Next == FeedWrite \/ FeedRotate \/ Deliver \/ Disturbance

Spec == Init /\ [][Next]_feedVars
=============================================================================
