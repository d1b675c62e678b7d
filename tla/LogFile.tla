------------------------------ MODULE LogFile -------------------------------
(***************************************************************************)
(* Xray's access log as its readers meet it.  Xray appends lines; logrotate*)
(* renames the file and lets Xray begin a new one, or copies and truncates *)
(* it.  A file descriptor follows its inode, not the name.                 *)
(*                                                                         *)
(* A position counts lines: Xray writes a line with one call.  The lines of*)
(* one content of a file make a generation.                                *)
(***************************************************************************)
EXTENDS Integers, Sequences, FiniteSetsExt

CONSTANTS
    MaxLines,       \* bound: lines of a log, and lines that are ever written
    MaxRotations    \* bound: rotations

ASSUME LogAssumption == MaxLines \in Nat /\ MaxRotations \in Nat

VARIABLE files      \* generation -> its inode and its number of lines

Generations == 1 .. MaxRotations + 1
Lines == Generations \X (1 .. MaxLines)
Current == Len(files)

\* What is read through a descriptor of an inode: its latest generation.
GenerationOf(inode) == Max({g \in DOMAIN files : files[g].inode = inode})
LengthOf(inode) == files[GenerationOf(inode)].len

LogTypeOK ==
    /\ files \in Seq([inode : Generations, len : 0 .. MaxLines])
    /\ Current \in Generations

\* There may be a log before its reader is started.
LogInit == \E n \in 0 .. MaxLines : files = <<[inode |-> 1, len |-> n]>>

Write ==
    /\ files[Current].len < MaxLines
    /\ MapThenSumSet(LAMBDA g : files[g].len, DOMAIN files) < MaxLines
    /\ files' = [files EXCEPT ![Current].len = @ + 1]

Begin(inode) ==
    /\ Current <= MaxRotations
    /\ files' = Append(files, [inode |-> inode, len |-> 0])

Rename == Begin(files[Current].inode + 1)
Truncate == Begin(files[Current].inode)
Rotate == Rename \/ Truncate
=============================================================================
