------------------------------ MODULE LogTail -------------------------------
(***************************************************************************)
(* The Python reader of the access log (modules/log_tail.py).  A tick      *)
(* scans the log; scans do not overlap, since a tick holds _fetch_lock.    *)
(* The log changes between the calls of one scan.                          *)
(*                                                                         *)
(* A line stands for what the scan makes of it: a client address, an SNI   *)
(* hit or a block.  cursor, got and disturbed are history.                 *)
(***************************************************************************)
EXTENDS LogFile

CONSTANT Window     \* lines in the 2 MB that a first scan reads

VARIABLES
    pc,             \* where the scan is
    lastInode, lastSize, lastPos,   \* _last_inode, _last_size, _last_pos; 0 if not set
    opened,         \* the inode of the open file
    size,           \* sz
    blockTotal,     \* _block_total, by the generation of the lines it counts
    cursor, got,
    disturbed       \* 2 if the scan meets a rotation, 1 if the one before it did, else 0

TailTypeOK ==
    /\ pc \in {"idle", "open", "seek"}
    /\ {lastInode, opened} \subseteq Generations \union {0}
    /\ {lastSize, lastPos, size} \subseteq 0 .. MaxLines
    /\ blockTotal \in [Generations -> 0 .. MaxLines]
    /\ cursor \in [gen : Generations, pos : 0 .. MaxLines]
    /\ got \in [Lines -> Nat]
    /\ disturbed \in 0 .. 2

NoBlocks == [g \in Generations |-> 0]

TailInit ==
    /\ pc = "idle"
    /\ lastInode = 0 /\ lastSize = 0 /\ lastPos = 0
    /\ opened = 0 /\ size = 0
    /\ blockTotal = NoBlocks
    /\ cursor = [gen |-> 1, pos |-> 0] /\ got = [l \in Lines |-> 0]
    /\ disturbed = 0

\* What the reader does not see: a rotation in the middle of its scan.
RotatedUnder == disturbed' = IF pc = "idle" THEN disturbed ELSE 2
Unrotated == UNCHANGED <<pc, lastInode, lastSize, lastPos, opened, size, blockTotal, cursor, got>>

\* os.stat: another inode is another file.
NewInode(inode) == lastInode # 0 /\ inode # lastInode

\* The inode that is remembered; a faulty variant for mutation remembers the first one.
FirstInode(inode) == IF lastInode = 0 THEN inode ELSE lastInode
LatestInode(inode) == inode

Stat ==
    LET inode == files[Current].inode
    IN  /\ pc = "idle"
        /\ lastPos' = IF NewInode(inode) THEN 0 ELSE lastPos
        /\ lastInode' = LatestInode(inode)
        /\ pc' = "open"
        /\ UNCHANGED <<files, lastSize, opened, size, blockTotal, cursor, got, disturbed>>

\* open, and seek to the end: a shorter file is another one.
OpenFile ==
    LET inode == files[Current].inode
    IN  /\ pc = "open"
        /\ opened' = inode
        /\ size' = LengthOf(inode)
        /\ lastPos' = IF size' < lastSize THEN 0 ELSE lastPos
        /\ lastSize' = size'
        /\ pc' = "seek"
        /\ UNCHANGED <<files, lastInode, blockTotal, cursor, got, disturbed>>

From == IF lastPos = 0 THEN Max({0, size - Window}) ELSE lastPos

\* f.tell() after the read: more than size if the log has grown.  (Faulty variants for
\* mutation go on at the size, or add the length of the log.)
SizePosition == size
AddedPosition == lastPos + LengthOf(opened)
ReadPosition == Max({From, LengthOf(opened)})

\* Blocks that are kept: a scan from the start begins to count anew.  (A faulty variant for
\* mutation never does.)
AllBlocks == blockTotal
BlocksKept == IF lastPos = 0 THEN NoBlocks ELSE blockTotal

Read ==
    LET gen == GenerationOf(opened)
        to == LengthOf(opened)
        count == Max({0, to - From})
    IN  /\ pc = "seek"
        /\ lastPos' = ReadPosition
        /\ blockTotal' = [BlocksKept EXCEPT ![gen] = @ + count]
        /\ got' = [l \in Lines |-> IF l[1] = gen /\ l[2] \in From + 1 .. to THEN got[l] + 1 ELSE got[l]]
        /\ cursor' = IF count > 0 THEN [gen |-> gen, pos |-> to] ELSE cursor
        /\ disturbed' = Max({0, disturbed - 1})
        /\ pc' = "idle" /\ opened' = 0 /\ size' = 0
        /\ UNCHANGED <<files, lastInode, lastSize>>

Scan == Stat \/ OpenFile \/ Read
-----------------------------------------------------------------------------
\* No line is counted more than twice, however rotations meet scans: a line that is counted
\* again was read just before its inode was known.
AtMostTwice == \A l \in Lines : got[l] <= 2

\* Between scans the block counter counts no line twice, whatever was read again, and unless
\* the last scan met a rotation it holds nothing of a file that was renamed away: all of it
\* was read from the inode that is remembered.  (That may have been truncated in between: a
\* log that has grown beyond its old size by the next scan is taken for the same log.)
BlocksOfThisFile ==
    pc = "idle" => \A g \in DOMAIN files :
        blockTotal[g] > 0 =>
            /\ blockTotal[g] <= files[g].len
            /\ disturbed = 0 => files[g].inode = lastInode
=============================================================================
