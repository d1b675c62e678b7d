-------------------------- MODULE LogReadersProofs --------------------------
(***************************************************************************)
(* Proofs about LogReaders: each reader implements LineFeed, for any       *)
(* numbers of lines, rotations and scans, the Python reader counts no line *)
(* more than twice, and the hits of the Go reader are conserved.           *)
(*                                                                         *)
(* A scan that no rotation meets knows the log it reads when it ends: it   *)
(* was measured in this generation, and its inode is remembered.  So what  *)
(* the next such scan takes for the same log is the same log.              *)
(***************************************************************************)
EXTENDS LogReaders, FiniteSetTheorems, WellFoundedInduction, TLAPS

\* A log: inodes only grow from one generation to the next.
LogOK(f) ==
    /\ f \in Seq([inode : Generations, len : 0 .. MaxLines])
    /\ Len(f) \in Generations
    /\ \A g \in 1 .. Len(f) : f[g].inode <= g
    /\ \A g, h \in 1 .. Len(f) : g <= h => f[g].inode <= f[h].inode

Latest(f, inode) == Max({g \in DOMAIN f : f[g].inode = inode})

\* f2 continues f.
Continues(f2, f) ==
    /\ Len(f) <= Len(f2)
    /\ \A g \in 1 .. Len(f) : f2[g].inode = f[g].inode /\ f[g].len <= f2[g].len

\* The log that the next scan will find.
Inode == files[Current].inode
Length == files[Current].len
-----------------------------------------------------------------------------
(* The Python reader *)

PyPlace ==
    /\ cursor.gen \in 1 .. Current /\ cursor.pos <= files[cursor.gen].len
    /\ \A l \in Lines : got[l] > 0 => l[1] \in 1 .. Current
    /\ lastPos > 0 => lastInode > 0
    /\ lastInode <= Inode
    /\ pc # "idle" => lastInode > 0
    /\ pc = "seek" => /\ \E g \in 1 .. Current : files[g].inode = opened
                      /\ lastInode <= opened /\ size = lastSize
    /\ pc = "idle" => disturbed <= 1

\* What the block counter holds, unless it is about to be reset, is of the remembered inode, or
\* of a later one that a rotation has put under the scan.
BlocksOf(g) ==
    /\ g \in 1 .. Current /\ blockTotal[g] <= files[g].len
    /\ (lastPos > 0 \/ pc = "idle") => blockTotal[g] <= lastPos
    /\ pc = "idle" => lastInode <= files[g].inode
    /\ (lastPos > 0 /\ pc # "idle") \/ (pc = "idle" /\ disturbed = 0) => files[g].inode = lastInode

PyBlocks == \A g \in Generations : blockTotal[g] > 0 => BlocksOf(g)

\* A line that was counted twice is not read again: its log is known by now.
PyTwice ==
    /\ \A l \in Lines : got[l] <= 2
    /\ pc # "idle" => \A l \in Lines : got[l] > 0 => files[l[1]].inode <= lastInode
    /\ pc = "seek" => \A l \in Lines :
        got[l] > 0 /\ l[1] = Latest(files, opened) => lastSize <= files[l[1]].len
    /\ pc # "seek" => \A l \in Lines :
        got[l] = 2 /\ l[1] = Current => lastInode = Inode /\ lastSize <= Length /\ l[2] <= lastPos
    /\ pc = "seek" => \A l \in Lines :
        got[l] = 2 /\ l[1] = Latest(files, opened) => l[2] <= lastPos

\* The position is the cursor's, or the log will look shorter or longer than it.
PyCursor ==
    /\ lastPos > 0 =>
        lastPos < lastSize \/ (lastPos = cursor.pos /\ lastInode <= files[cursor.gen].inode)
    /\ pc # "idle" /\ disturbed <= 1 =>
        lastInode = Inode /\ (pc = "seek" => opened = Inode /\ lastSize <= Length)
    /\ disturbed = 0 =>
        /\ lastPos > 0 => lastPos = cursor.pos /\ lastInode = files[cursor.gen].inode
        /\ lastPos = 0 => cursor.pos = 0 \/ cursor.gen < Current
        /\ pc # "seek" /\ cursor.gen = Current /\ cursor.pos > 0 => lastSize <= Length

PyInv == Py!TailTypeOK /\ PyPlace /\ PyBlocks /\ PyTwice /\ PyCursor
-----------------------------------------------------------------------------
(* The Go reader *)

GoPlace ==
    /\ goCursor.gen \in 1 .. Current /\ goCursor.pos <= files[goCursor.gen].len
    /\ \A s \in Go!UnderWay : \E g \in 1 .. Current : files[g].inode = scans[s].inode
    /\ Go!UnderWay = {} => goDisturbed <= 1
    /\ goDisturbed <= 1 => \A s, t \in Go!UnderWay : s = t

GoCursor ==
    /\ goPos > 0 => goPos < goSize \/ goPos = goCursor.pos
    /\ goDisturbed <= 1 => \A s \in Go!UnderWay :
        /\ scans[s].inode = Inode /\ scans[s].size <= Length
        /\ goCursor.gen = Current => goCursor.pos <= scans[s].size
    /\ goDisturbed = 0 =>
        /\ goPos > 0 => goPos = goCursor.pos
        /\ goPos = 0 => goCursor.pos = 0 \/ goCursor.gen < Current
        /\ goCursor.gen = Current /\ goCursor.pos > 0 =>
            /\ Go!UnderWay = {} => goSize <= Length
            /\ \A s \in Go!UnderWay : goSize <= scans[s].size

GoInv == Go!GoTypeOK /\ GoPlace /\ GoCursor

IInv == LogOK(files) /\ installed \in Installed /\ PyInv /\ GoInv
-----------------------------------------------------------------------------
(* Greatest elements, and the log *)

LEMMA MaxExists ==
  ASSUME NEW n \in Nat, NEW S \in SUBSET (1 .. n), S # {}
  PROVE  /\ Max(S) \in S /\ \A x \in S : x <= Max(S)
<1> DEFINE T == {n - x : x \in S}
           R == OpToRel(<, Nat)
<1>1. T \subseteq Nat /\ T # {}
  <2>1. ASSUME NEW x \in S PROVE n - x \in Nat
    OBVIOUS
  <2>2. T \subseteq Nat
    BY <2>1
  <2>3. PICK x \in S : TRUE
    OBVIOUS
  <2>4. n - x \in T
    OBVIOUS
  <2> QED BY <2>2, <2>4
<1>2. PICK m \in T : \A y \in T : ~(<<y, m>> \in R)
  <2>1. IsWellFoundedOn(R, Nat)
    BY NatLessThanWellFounded
  <2> HIDE DEF R, T
  <2> QED BY <1>1, <2>1, WFMin
<1>3. \A y \in T : ~(y < m)
  BY <1>1, <1>2 DEF OpToRel
<1>4. PICK x \in S : m = n - x
  OBVIOUS
<1>5. \A y \in S : x >= y
  <2>1. ASSUME NEW y \in S PROVE x >= y
    <3>1. n - y \in T
      OBVIOUS
    <3>2. ~(n - y < n - x)
      BY <1>3, <1>4, <3>1
    <3> QED BY <3>2
  <2> QED BY <2>1
<1>6. Max(S) \in S /\ \A y \in S : Max(S) >= y
  <2> HIDE DEF T, R
  <2> QED BY <1>5 DEF Max
<1> QED BY <1>6

LEMMA MaxOfTwo ==
  ASSUME NEW a \in Int, NEW b \in Int
  PROVE  Max({a, b}) = IF a >= b THEN a ELSE b
<1>1. \E x \in {a, b} : \A y \in {a, b} : x >= y
  OBVIOUS
<1>2. Max({a, b}) \in {a, b} /\ \A y \in {a, b} : Max({a, b}) >= y
  BY <1>1 DEF Max
<1> QED BY <1>2

LEMMA MinOfTwo ==
  ASSUME NEW a \in Int, NEW b \in Int
  PROVE  Min({a, b}) = IF a <= b THEN a ELSE b
<1>1. \E x \in {a, b} : \A y \in {a, b} : x <= y
  OBVIOUS
<1>2. Min({a, b}) \in {a, b} /\ \A y \in {a, b} : Min({a, b}) <= y
  BY <1>1 DEF Min
<1> QED BY <1>2

LEMMA ElementOfSeq ==
  ASSUME NEW S, NEW f \in Seq(S), NEW g \in 1 .. Len(f)
  PROVE  f[g] \in S
OBVIOUS

LEMMA LogFacts ==
  ASSUME NEW f, LogOK(f)
  PROVE  /\ Len(f) \in Nat \ {0} /\ Len(f) \in Generations /\ DOMAIN f = 1 .. Len(f)
         /\ Generations \subseteq Nat \ {0}
         /\ \A g \in 1 .. Len(f) : g \in Generations /\ f[g].inode \in Generations /\ f[g].len \in 0 .. MaxLines
         /\ \A g \in 1 .. Len(f) : f[g].inode \in Nat \ {0} /\ f[g].len \in Nat
<1>1. f \in Seq([inode : Generations, len : 0 .. MaxLines]) /\ Len(f) \in Generations
  BY DEF LogOK
<1>2. Generations \subseteq Nat \ {0} /\ 0 .. MaxLines \subseteq Nat
  BY LogAssumption DEF Generations
<1>3. DOMAIN f = 1 .. Len(f) /\ \A g \in 1 .. Len(f) : f[g] \in [inode : Generations, len : 0 .. MaxLines]
  <2>1. ASSUME NEW g \in 1 .. Len(f) PROVE f[g] \in [inode : Generations, len : 0 .. MaxLines]
    BY <1>1, ElementOfSeq
  <2>2. DOMAIN f = 1 .. Len(f)
    <3> DEFINE R == [inode : Generations, len : 0 .. MaxLines]
    <3>1. f \in Seq(R)
      BY <1>1
    <3> HIDE DEF R
    <3> QED BY <3>1
  <2> QED BY <2>1, <2>2
<1>4. \A g \in 1 .. Len(f) : f[g].inode \in Generations /\ f[g].len \in 0 .. MaxLines
  BY <1>3
<1>5. \A g \in 1 .. Len(f) : g \in Generations
  BY <1>1, <1>2, LogAssumption DEF Generations
<1> QED BY <1>1, <1>2, <1>3, <1>4, <1>5

\* The latest generation of an inode.
LEMMA LatestFacts ==
  ASSUME NEW f, LogOK(f), NEW g \in 1 .. Len(f)
  PROVE  /\ Latest(f, f[g].inode) \in 1 .. Len(f)
         /\ f[Latest(f, f[g].inode)].inode = f[g].inode
         /\ \A h \in 1 .. Len(f) : f[h].inode = f[g].inode => h <= Latest(f, f[g].inode)
<1> DEFINE S == {h \in DOMAIN f : f[h].inode = f[g].inode}
<1>1. S \in SUBSET (1 .. Len(f)) /\ g \in S /\ Len(f) \in Nat
  BY LogFacts
<1>2. Max(S) \in S /\ \A x \in S : x <= Max(S)
  <2> HIDE DEF S
  <2> QED BY <1>1, MaxExists
<1>3. Latest(f, f[g].inode) = Max(S)
  BY DEF Latest
<1> QED BY <1>1, <1>2, <1>3, LogFacts

LEMMA LatestIsLast ==
  ASSUME NEW f, LogOK(f)
  PROVE  Latest(f, f[Len(f)].inode) = Len(f)
<1>1. Len(f) \in 1 .. Len(f) /\ Len(f) \in Nat
  BY LogFacts
<1> QED BY <1>1, LatestFacts

\* A generation that is the latest of its inode has always been.
LEMMA LatestBefore ==
  ASSUME NEW f, NEW f2, LogOK(f), LogOK(f2), Continues(f2, f),
         NEW g \in 1 .. Len(f), NEW h \in 1 .. Len(f), h = Latest(f2, f[g].inode)
  PROVE  h = Latest(f, f[g].inode)
<1>1. g \in 1 .. Len(f2) /\ h \in 1 .. Len(f2) /\ f2[g].inode = f[g].inode /\ f2[h].inode = f[h].inode
  BY LogFacts DEF Continues
<1>2. f2[h].inode = f2[g].inode /\ \A k \in 1 .. Len(f2) : f2[k].inode = f2[g].inode => k <= h
  BY <1>1, LatestFacts
<1>3. f[h].inode = f[g].inode
  BY <1>1, <1>2
<1>4. \A k \in 1 .. Len(f) : f[k].inode = f[g].inode => k <= h
  <2>1. ASSUME NEW k \in 1 .. Len(f), f[k].inode = f[g].inode PROVE k <= h
    <3>1. k \in 1 .. Len(f2) /\ f2[k].inode = f[k].inode
      BY LogFacts DEF Continues
    <3> QED BY <1>1, <1>2, <2>1, <3>1
  <2> QED BY <2>1
<1>5. Latest(f, f[g].inode) \in 1 .. Len(f) /\ f[Latest(f, f[g].inode)].inode = f[g].inode
      /\ h <= Latest(f, f[g].inode)
  BY <1>3, LatestFacts
<1>6. Latest(f, f[g].inode) <= h
  BY <1>4, <1>5
<1> QED BY <1>5, <1>6, LogFacts

LEMMA LogStep ==
  ASSUME LogOK(files), Write \/ Rotate
  PROVE  /\ LogOK(files') /\ Continues(files', files)
         /\ Write => Current' = Current
         /\ Rotate => Current' = Current + 1
<1>1. /\ files \in Seq([inode : Generations, len : 0 .. MaxLines]) /\ Len(files) \in Generations
      /\ Len(files) \in Nat \ {0} /\ Generations \subseteq Nat \ {0}
  BY LogFacts DEF LogOK
<1>2. ASSUME NEW g \in 1 .. Len(files)
      PROVE  /\ files[g].inode \in Generations /\ files[g].inode \in Nat \ {0}
             /\ files[g].len \in 0 .. MaxLines /\ files[g].len \in Nat /\ files[g].inode <= g
  BY LogFacts DEF LogOK
<1>3. CASE Write
  <2>1. files' = [files EXCEPT ![Len(files)].len = files[Len(files)].len + 1]
        /\ files[Len(files)].len < MaxLines
    BY <1>3 DEF Write, Current
  <2>2. Len(files) \in 1 .. Len(files)
    BY <1>1
  <2>3. /\ Len(files') = Len(files)
        /\ files' \in Seq([inode : Generations, len : 0 .. MaxLines])
        /\ \A g \in 1 .. Len(files) :
              /\ files'[g].inode = files[g].inode
              /\ files'[g].len = IF g = Len(files) THEN files[g].len + 1 ELSE files[g].len
    <3> DEFINE r == [files[Len(files)] EXCEPT !.len = files[Len(files)].len + 1]
    <3>1. files' = [files EXCEPT ![Len(files)] = r]
      BY <2>1
    <3>2. files[Len(files)] \in [inode : Generations, len : 0 .. MaxLines]
      BY <1>1, <2>2, ElementOfSeq
    <3>3. r \in [inode : Generations, len : 0 .. MaxLines]
          /\ r.inode = files[Len(files)].inode /\ r.len = files[Len(files)].len + 1
      BY <2>1, <3>2, LogAssumption
    <3> HIDE DEF r
    <3> QED BY <1>1, <2>2, <3>1, <3>3
  <2>4. LogOK(files')
    BY <1>1, <1>2, <2>3 DEF LogOK
  <2>5. Continues(files', files)
    BY <1>1, <1>2, <2>3 DEF Continues
  <2>6. ~Rotate
    BY <1>1, <2>3 DEF Rotate, Rename, Truncate, Begin, Current
  <2> QED BY <2>3, <2>4, <2>5, <2>6 DEF Current
<1>4. CASE Rotate
  <2>1. PICK i \in {files[Len(files)].inode, files[Len(files)].inode + 1} :
            files' = Append(files, [inode |-> i, len |-> 0]) /\ Len(files) <= MaxRotations
    BY <1>4 DEF Rotate, Rename, Truncate, Begin, Current
  <2>2. Len(files) \in 1 .. Len(files)
    BY <1>1
  <2>3. i \in Generations /\ i \in Nat /\ i <= Len(files) + 1 /\ files[Len(files)].inode <= i
    <3>1. files[Len(files)].inode \in Nat \ {0} /\ files[Len(files)].inode <= Len(files)
      BY <1>2, <2>2
    <3>2. MaxRotations \in Nat /\ Len(files) \in Nat /\ Len(files) <= MaxRotations
      BY <1>1, <2>1, LogAssumption
    <3>3. i = files[Len(files)].inode \/ i = files[Len(files)].inode + 1
      BY <2>1
    <3> QED BY <3>1, <3>2, <3>3 DEF Generations
  <2>4. [inode |-> i, len |-> 0] \in [inode : Generations, len : 0 .. MaxLines]
    BY <2>3, LogAssumption
  <2>5. /\ Len(files') = Len(files) + 1 /\ files' \in Seq([inode : Generations, len : 0 .. MaxLines])
        /\ \A g \in 1 .. Len(files) : files'[g] = files[g]
        /\ files'[Len(files) + 1] = [inode |-> i, len |-> 0]
    BY <1>1, <2>1, <2>4
  <2>6. Len(files') \in Generations
    BY <1>1, <2>1, <2>5, LogAssumption DEF Generations
  <2>7. ASSUME NEW g \in 1 .. Len(files') PROVE files'[g].inode <= g
    <3>1. CASE g \in 1 .. Len(files)
      BY <1>2, <2>5, <3>1
    <3>2. CASE g \notin 1 .. Len(files)
      <4>1. g = Len(files) + 1
        BY <1>1, <2>5, <3>2
      <4> QED BY <2>3, <2>5, <4>1
    <3> QED BY <3>1, <3>2
  <2>8. ASSUME NEW g \in 1 .. Len(files'), NEW h \in 1 .. Len(files'), g <= h
        PROVE  files'[g].inode <= files'[h].inode
    <3>1. CASE h \in 1 .. Len(files)
      <4>1. g \in 1 .. Len(files)
        BY <1>1, <2>5, <2>8, <3>1
      <4> QED BY <2>5, <2>8, <3>1, <4>1 DEF LogOK
    <3>2. CASE h \notin 1 .. Len(files)
      <4>1. h = Len(files) + 1 /\ files'[h].inode = i
        BY <1>1, <2>5, <2>8, <3>2
      <4>2. CASE g \in 1 .. Len(files)
        <5>1. files[g].inode <= files[Len(files)].inode
          BY <1>1, <2>2, <4>2 DEF LogOK
        <5>2. files'[g].inode = files[g].inode /\ files[g].inode \in Nat /\ files[Len(files)].inode \in Nat
          BY <1>2, <2>2, <2>5, <4>2
        <5> QED BY <2>3, <4>1, <5>1, <5>2
      <4>3. CASE g \notin 1 .. Len(files)
        <5>1. g = h
          BY <1>1, <2>5, <2>8, <4>1, <4>3
        <5> QED BY <2>3, <4>1, <5>1
      <4> QED BY <4>2, <4>3
    <3> QED BY <3>1, <3>2
  <2>9. Continues(files', files)
    BY <1>1, <1>2, <2>5 DEF Continues
  <2>10. LogOK(files')
    BY <2>5, <2>6, <2>7, <2>8 DEF LogOK
  <2>11. Current' = Current + 1 /\ ~(Current' = Current)
    BY <1>1, <2>5 DEF Current
  <2>12. ~Write
    <3>1. Write => Len(files') = Len(files)
      BY <1>1 DEF Write, Current
    <3> QED BY <1>1, <2>5, <3>1
  <2> QED BY <2>9, <2>10, <2>11, <2>12
<1> QED BY <1>3, <1>4
-----------------------------------------------------------------------------
(* The operators of the instances *)

LEMMA GenerationOfIsLatest ==
  ASSUME NEW i
  PROVE  /\ Py!GenerationOf(i) = Latest(files, i) /\ Py!LengthOf(i) = files[Latest(files, i)].len
         /\ Go!GenerationOf(i) = Latest(files, i) /\ Go!LengthOf(i) = files[Latest(files, i)].len
BY DEF Py!GenerationOf, Py!LengthOf, Py!Max, Go!GenerationOf, Go!LengthOf, Go!Max, Latest, Max

LEMMA MaxMinOfInstances ==
  ASSUME NEW a \in Int, NEW b \in Int
  PROVE  /\ Py!Max({a, b}) = IF a >= b THEN a ELSE b
         /\ Go!Max({a, b}) = IF a >= b THEN a ELSE b
         /\ Go!Min({a, b}) = IF a <= b THEN a ELSE b
BY MaxOfTwo, MinOfTwo DEF Py!Max, Go!Max, Go!Min, Max, Min

LEMMA FilesOfInstances ==
  /\ Py!Lines = Lines /\ Go!Lines = Lines /\ Py!Generations = Generations /\ Go!Generations = Generations
  /\ Py!Current = Current /\ Go!Current = Current
BY DEF Py!Lines, Go!Lines, Lines, Py!Generations, Go!Generations, Generations, Py!Current, Go!Current, Current
-----------------------------------------------------------------------------
(* Sums.  What MapThenSumSet computes for numbers f[x] is the number of elements of Area:   *)
(* one for each x and each number below f[x].  So a sum changes like the size of a set.     *)

Area(f, S) == {p \in S \X Nat : p[2] < f[p[1]]}
Count(f, S) == Cardinality(Area(f, S))

LEMMA AreaFinite ==
  ASSUME NEW S, IsFiniteSet(S), NEW f, \A x \in S : f[x] \in Nat
  PROVE  IsFiniteSet(Area(f, S)) /\ Count(f, S) \in Nat
<1> DEFINE B == [x \in S |-> {x} \X (0 .. f[x] - 1)]
           T == {B[x] : x \in S}
<1>1. B \in Surjection(S, T)
  BY DEF Surjection
<1>2. IsFiniteSet(T)
  <2> HIDE DEF B, T
  <2> QED BY <1>1, FS_Surjection
<1>3. ASSUME NEW x \in S PROVE IsFiniteSet(B[x])
  <2>1. IsFiniteSet({x})
    BY FS_Singleton
  <2>2. IsFiniteSet(0 .. f[x] - 1)
    <3>1. 0 \in Int /\ f[x] - 1 \in Int
      OBVIOUS
    <3> QED BY <3>1, FS_Interval
  <2>3. IsFiniteSet({x} \X (0 .. f[x] - 1))
    BY <2>1, <2>2, FS_Product
  <2> QED BY <2>3
<1>4. Area(f, S) = UNION T
  <2>1. ASSUME NEW p \in Area(f, S) PROVE p \in UNION T
    <3>1. p[1] \in S /\ p[2] \in 0 .. f[p[1]] - 1 /\ p = <<p[1], p[2]>>
      BY DEF Area
    <3>2. p \in B[p[1]]
      BY <3>1
    <3> QED BY <3>1, <3>2
  <2>2. ASSUME NEW p \in UNION T PROVE p \in Area(f, S)
    <3>1. PICK x \in S : p \in {x} \X (0 .. f[x] - 1)
      OBVIOUS
    <3>2. p[1] = x /\ p[2] \in 0 .. f[x] - 1 /\ p = <<p[1], p[2]>>
      BY <3>1
    <3>3. p[2] \in Nat /\ p[2] < f[p[1]]
      BY <3>2
    <3> QED BY <3>2, <3>3 DEF Area
  <2> QED BY <2>1, <2>2
<1>5. IsFiniteSet(UNION T)
  <2>1. \A U \in T : IsFiniteSet(U)
    BY <1>3
  <2> HIDE DEF T
  <2> QED BY <1>2, <2>1, FS_UNION
<1> QED BY <1>4, <1>5, FS_CardinalityType DEF Count

\* An element taken out of a sum.
LEMMA CountTakes ==
  ASSUME NEW S, IsFiniteSet(S), NEW f, \A x \in S : f[x] \in Nat, NEW x \in S
  PROVE  /\ Count(f, S) = f[x] + Count(f, S \ {x})
         /\ Count(f, S) \in Nat /\ Count(f, S \ {x}) \in Nat
<1> DEFINE U == {x} \X (0 .. f[x] - 1)
           rest == Area(f, S \ {x})
<1>1. IsFiniteSet(U) /\ Cardinality(U) = f[x]
  <2>1. IsFiniteSet({x}) /\ Cardinality({x}) = 1
    BY FS_Singleton
  <2>2. 0 \in Int /\ f[x] - 1 \in Int /\ f[x] \in Nat
    OBVIOUS
  <2> DEFINE I == 0 .. f[x] - 1
  <2>3. IsFiniteSet(I) /\ Cardinality(I) = f[x]
    <3>1. IsFiniteSet(I) /\ Cardinality(I) = IF 0 > f[x] - 1 THEN 0 ELSE f[x] - 1 - 0 + 1
      BY <2>2, FS_Interval
    <3> HIDE DEF I
    <3> QED BY <2>2, <3>1
  <2> HIDE DEF I
  <2>4. IsFiniteSet({x} \X I) /\ Cardinality({x} \X I) = 1 * Cardinality(I)
    BY <2>1, <2>3, FS_Product
  <2>5. U = {x} \X I
    BY DEF I
  <2> HIDE DEF U
  <2> QED BY <2>2, <2>3, <2>4, <2>5
<1>2. /\ IsFiniteSet(S \ {x}) /\ \A y \in S \ {x} : f[y] \in Nat
  BY FS_RemoveElement
<1>3. /\ IsFiniteSet(rest) /\ Cardinality(rest) \in Nat /\ Count(f, S) \in Nat
      /\ Count(f, S \ {x}) = Cardinality(rest)
  BY <1>2, AreaFinite DEF Count
<1>4. Area(f, S) = U \union rest
  <2>1. ASSUME NEW p \in Area(f, S) PROVE p \in U \union rest
    <3>1. p[1] \in S /\ p[2] \in Nat /\ p[2] < f[p[1]] /\ p = <<p[1], p[2]>>
      BY DEF Area
    <3>2. CASE p[1] = x
      <4>1. p[2] \in 0 .. f[x] - 1
        BY <3>1, <3>2
      <4> QED BY <3>1, <3>2, <4>1
    <3>3. CASE p[1] # x
      BY <3>1, <3>3 DEF Area
    <3> QED BY <3>2, <3>3
  <2>2. ASSUME NEW p \in U PROVE p \in Area(f, S)
    <3>1. p[1] = x /\ p[2] \in 0 .. f[x] - 1 /\ p = <<p[1], p[2]>>
      OBVIOUS
    <3>2. p[2] \in Nat /\ p[2] < f[p[1]]
      BY <3>1
    <3> QED BY <3>1, <3>2 DEF Area
  <2>3. rest \subseteq Area(f, S)
    BY DEF Area
  <2> QED BY <2>1, <2>2, <2>3
<1>5. U \intersect rest = {}
  BY DEF Area
<1> HIDE DEF U, rest
<1>6. Cardinality(U \union rest) = Cardinality(U) + Cardinality(rest) - Cardinality({})
  BY <1>1, <1>3, <1>5, FS_Union
<1>7. Cardinality({}) = 0
  BY FS_EmptySet
<1> QED BY <1>1, <1>3, <1>4, <1>6, <1>7 DEF Count

LEMMA CountOfNothing ==
  ASSUME NEW f, NEW S, \A x \in S : f[x] = 0
  PROVE  Count(f, S) = 0
<1>1. Area(f, S) = {}
  BY DEF Area
<1> QED BY <1>1, FS_EmptySet DEF Count

\* The function that MapThenSumSet iterates, written out.
Sums(g, f, S) ==
    g = [s \in SUBSET S |-> IF s = {} THEN 0
                            ELSE f[CHOOSE x \in s : TRUE] + g[s \ {CHOOSE x \in s : TRUE}]]

LEMMA SumsExist ==
  ASSUME NEW S, IsFiniteSet(S), NEW f, \A x \in S : f[x] \in Nat
  PROVE  Sums([s \in SUBSET S |-> Count(f, s)], f, S)
<1> DEFINE g == [s \in SUBSET S |-> Count(f, s)]
<1>1. ASSUME NEW s \in SUBSET S, s # {}
      PROVE  Count(f, s) = f[CHOOSE x \in s : TRUE] + g[s \ {CHOOSE x \in s : TRUE}]
  <2> DEFINE x == CHOOSE x \in s : TRUE
  <2>1. x \in s
    BY <1>1
  <2>2. IsFiniteSet(s) /\ \A y \in s : f[y] \in Nat
    BY FS_Subset
  <2>3. g[s \ {x}] = Count(f, s \ {x})
    OBVIOUS
  <2> HIDE DEF x, g
  <2>4. Count(f, s) = f[x] + Count(f, s \ {x})
    BY <2>1, <2>2, CountTakes
  <2>5. Count(f, s) = f[x] + g[s \ {x}]
    BY <2>3, <2>4
  <2> QED BY <2>5 DEF x
<1>2. Count(f, {}) = 0
  BY CountOfNothing
<1> QED BY <1>1, <1>2 DEF Sums

LEMMA SumsAreCounts ==
  ASSUME NEW S, IsFiniteSet(S), NEW f, \A x \in S : f[x] \in Nat, NEW g, Sums(g, f, S)
  PROVE  g[S] = Count(f, S)
<1> DEFINE Bad == {n \in Nat : \E s \in SUBSET S : Cardinality(s) = n /\ g[s] # Count(f, s)}
<1>1. ASSUME NEW s \in SUBSET S
      PROVE  IsFiniteSet(s) /\ Cardinality(s) \in Nat /\ \A y \in s : f[y] \in Nat
  BY FS_Subset, FS_CardinalityType
<1>2. ASSUME NEW n \in Nat, \A m \in Nat : m < n => m \notin Bad PROVE n \notin Bad
  <2> SUFFICES ASSUME NEW s \in SUBSET S, Cardinality(s) = n PROVE g[s] = Count(f, s)
    OBVIOUS
  <2>1. CASE s = {}
    <3>1. g[s] = 0
      BY <2>1 DEF Sums
    <3> QED BY <2>1, <3>1, CountOfNothing
  <2>2. CASE s # {}
    <3> DEFINE x == CHOOSE x \in s : TRUE
    <3>1. x \in s
      BY <2>2
    <3>2. g[s] = f[x] + g[s \ {x}]
      BY <2>2 DEF Sums
    <3> HIDE DEF x
    <3>3. Cardinality(s \ {x}) = n - 1 /\ n - 1 \in Nat
      <4>1. Cardinality(s \ {x}) = Cardinality(s) - 1
        BY <1>1, <3>1, FS_RemoveElement
      <4>2. Cardinality(s) # 0
        BY <1>1, <2>2, FS_EmptySet
      <4> QED BY <1>1, <4>1, <4>2
    <3>4. n - 1 \notin Bad
      BY <1>2, <3>3
    <3>5. g[s \ {x}] = Count(f, s \ {x})
      BY <3>3, <3>4
    <3>6. Count(f, s) = f[x] + Count(f, s \ {x})
      BY <1>1, <3>1, CountTakes
    <3> QED BY <3>2, <3>5, <3>6
  <2> QED BY <2>1, <2>2
<1>3. Bad = {}
  <2> SUFFICES ASSUME Bad # {} PROVE FALSE
    OBVIOUS
  <2> DEFINE R == OpToRel(<, Nat)
  <2>1. Bad \subseteq Nat
    OBVIOUS
  <2> HIDE DEF Bad
  <2>2. IsWellFoundedOn(R, Nat)
    BY NatLessThanWellFounded
  <2> HIDE DEF R
  <2>3. PICK n \in Bad : \A m \in Bad : ~(<<m, n>> \in R)
    BY <2>1, <2>2, WFMin
  <2>4. \A m \in Bad : ~(m < n)
    BY <2>1, <2>3 DEF OpToRel, R
  <2> QED BY <1>2, <2>1, <2>4
<1> QED BY <1>1, <1>3

Sum(f, S) == (CHOOSE g : Sums(g, f, S))[S]

LEMMA SumIsCount ==
  ASSUME NEW S, IsFiniteSet(S), NEW f, \A x \in S : f[x] \in Nat
  PROVE  Sum(f, S) = Count(f, S)
<1> DEFINE g == CHOOSE g : Sums(g, f, S)
<1>1. Sums(g, f, S)
  BY SumsExist
<1> HIDE DEF g
<1>2. g[S] = Count(f, S)
  BY <1>1, SumsAreCounts
<1> QED BY <1>2 DEF g, Sum

\* One number changed.
LEMMA CountChanges ==
  ASSUME NEW S, IsFiniteSet(S), NEW f, NEW h, NEW x \in S,
         \A y \in S : f[y] \in Nat /\ h[y] \in Nat, \A y \in S \ {x} : h[y] = f[y]
  PROVE  /\ Count(h, S) + f[x] = Count(f, S) + h[x]
         /\ Count(h, S) \in Nat /\ Count(f, S) \in Nat
<1>1. Count(h, S \ {x}) = Count(f, S \ {x})
  <2>1. Area(h, S \ {x}) = Area(f, S \ {x})
    BY DEF Area
  <2> QED BY <2>1 DEF Count
<1>2. Count(h, S) = h[x] + Count(h, S \ {x}) /\ Count(h, S) \in Nat
  BY CountTakes
<1>3. Count(f, S) = f[x] + Count(f, S \ {x}) /\ Count(f, S) \in Nat /\ Count(f, S \ {x}) \in Nat
  BY CountTakes
<1>4. f[x] \in Nat /\ h[x] \in Nat
  OBVIOUS
<1> QED BY <1>1, <1>2, <1>3, <1>4

\* One more for each of T.
LEMMA CountGrows ==
  ASSUME NEW S, IsFiniteSet(S), NEW f, NEW h, NEW T \in SUBSET S, \A y \in S : f[y] \in Nat,
         \A y \in T : h[y] = f[y] + 1, \A y \in S \ T : h[y] = f[y]
  PROVE  Count(h, S) = Count(f, S) + Cardinality(T) /\ Count(f, S) \in Nat
<1> DEFINE b == [y \in T |-> <<y, f[y]>>]
           More == {b[y] : y \in T}
<1>1. IsFiniteSet(T) /\ Cardinality(T) \in Nat
  BY FS_Subset, FS_CardinalityType
<1>2. IsFiniteSet(More) /\ Cardinality(More) = Cardinality(T)
  <2>1. \A y, z \in T : b[y] = b[z] => y = z
    OBVIOUS
  <2>2. b \in [T -> More]
    OBVIOUS
  <2>3. \A p \in More : \E y \in T : b[y] = p
    OBVIOUS
  <2> HIDE DEF b, More
  <2>4. ExistsBijection(T, More)
    BY <2>1, <2>2, <2>3 DEF ExistsBijection, Bijection, Injection, Surjection, IsInjective
  <2> QED BY <1>1, <2>4, FS_Bijection
<1>3. IsFiniteSet(Area(f, S)) /\ Count(f, S) \in Nat
  BY AreaFinite
<1>4. Area(h, S) = Area(f, S) \union More
  <2>1. ASSUME NEW p \in Area(h, S) PROVE p \in Area(f, S) \union More
    <3>1. p[1] \in S /\ p[2] \in Nat /\ p[2] < h[p[1]] /\ p = <<p[1], p[2]>>
      BY DEF Area
    <3>2. CASE p[2] < f[p[1]]
      BY <3>1, <3>2 DEF Area
    <3>3. CASE ~(p[2] < f[p[1]])
      <4>1. p[1] \in T /\ h[p[1]] = f[p[1]] + 1 /\ f[p[1]] \in Nat
        BY <3>1, <3>3
      <4>2. p[2] = f[p[1]]
        BY <3>1, <3>3, <4>1
      <4>3. p = b[p[1]]
        BY <3>1, <4>1, <4>2
      <4> QED BY <4>1, <4>3
    <3> QED BY <3>2, <3>3
  <2>2. ASSUME NEW p \in Area(f, S) PROVE p \in Area(h, S)
    <3>1. p \in S \X Nat /\ p[1] \in S /\ p[2] \in Nat /\ p[2] < f[p[1]]
      BY DEF Area
    <3>2. f[p[1]] \in Nat /\ (h[p[1]] = f[p[1]] + 1 \/ h[p[1]] = f[p[1]])
      BY <3>1
    <3>3. p[2] < h[p[1]]
      BY <3>1, <3>2
    <3> QED BY <3>1, <3>3 DEF Area
  <2>3. ASSUME NEW y \in T PROVE b[y] \in Area(h, S)
    <3>1. f[y] \in Nat /\ h[y] = f[y] + 1 /\ y \in S
      OBVIOUS
    <3>2. f[y] < h[y]
      BY <3>1
    <3> QED BY <3>1, <3>2 DEF Area
  <2> QED BY <2>1, <2>2, <2>3
<1>5. Area(f, S) \intersect More = {}
  <2>1. ASSUME NEW y \in T PROVE b[y] \notin Area(f, S)
    <3>1. f[y] \in Nat
      OBVIOUS
    <3>2. ~(f[y] < f[y])
      BY <3>1
    <3> QED BY <3>2 DEF Area
  <2> QED BY <2>1
<1> HIDE DEF b, More
<1>6. Cardinality(Area(f, S) \union More)
        = Cardinality(Area(f, S)) + Cardinality(More) - Cardinality({})
  BY <1>2, <1>3, <1>5, FS_Union
<1>7. Cardinality({}) = 0
  BY FS_EmptySet
<1> QED BY <1>1, <1>2, <1>3, <1>4, <1>6, <1>7 DEF Count
-----------------------------------------------------------------------------
(* The present log *)

LEMMA LogNow ==
  ASSUME LogOK(files)
  PROVE  /\ Current \in Nat \ {0} /\ Current \in Generations /\ Current \in 1 .. Current
         /\ Inode \in Nat \ {0} /\ Inode \in Generations /\ Length \in 0 .. MaxLines /\ Length \in Nat
         /\ Latest(files, Inode) = Current /\ DOMAIN files = 1 .. Current
         /\ \A g \in 1 .. Current : files[g].inode \in Nat \ {0} /\ files[g].inode <= Inode
         /\ \A g \in 1 .. Current : files[g].len \in 0 .. MaxLines /\ files[g].len \in Nat
         /\ MaxLines \in Nat /\ Generations \subseteq Nat \ {0} /\ 1 .. Current \subseteq Generations
<1>1. /\ Len(files) \in Nat \ {0} /\ Len(files) \in Generations /\ DOMAIN files = 1 .. Len(files)
      /\ Generations \subseteq Nat \ {0}
      /\ \A g \in 1 .. Len(files) : g \in Generations /\ files[g].inode \in Generations /\ files[g].len \in 0 .. MaxLines
      /\ \A g \in 1 .. Len(files) : files[g].inode \in Nat \ {0} /\ files[g].len \in Nat
  BY LogFacts
<1>2. \A g \in 1 .. Len(files) : files[g].inode <= files[Len(files)].inode
  BY <1>1 DEF LogOK
<1>3. Latest(files, files[Len(files)].inode) = Len(files)
  BY LatestIsLast
<1> QED BY <1>1, <1>2, <1>3, LogAssumption DEF Current, Inode, Length

\* A step of the log: it grows, or it is rotated.
LEMMA LogNext ==
  ASSUME LogOK(files), Write \/ Rotate
  PROVE  /\ LogOK(files') /\ Continues(files', files)
         /\ Current \in Nat \ {0} /\ (Current' = Current \/ Current' = Current + 1)
         /\ \A g \in 1 .. Current : files'[g].inode = files[g].inode /\ files[g].len <= files'[g].len
         /\ \A g \in 1 .. Current : g \in 1 .. Current'
         /\ \A g \in 1 .. Current : files'[g].inode <= files'[Current'].inode
         /\ \A g \in 1 .. Current : files[g].len \in Nat /\ files'[g].len \in Nat
         /\ Current' = Current => files'[Current'].inode = Inode /\ Length <= files'[Current'].len
<1>1. /\ LogOK(files') /\ Continues(files', files)
      /\ Current' = Current \/ Current' = Current + 1
  BY LogStep
<1>2. /\ Len(files) \in Nat \ {0} /\ \A g \in 1 .. Len(files) : files[g].len \in Nat
      /\ Len(files') \in Nat \ {0} /\ \A g \in 1 .. Len(files') : files'[g].len \in Nat
  BY <1>1, LogFacts
<1>3. \A g \in 1 .. Len(files') : files'[g].inode <= files'[Len(files')].inode
  BY <1>1, <1>2 DEF LogOK
<1> QED BY <1>1, <1>2, <1>3 DEF Continues, Current, Inode, Length
-----------------------------------------------------------------------------
(* The steps of the Python reader *)

LEMMA PyFacts ==
  ASSUME LogOK(files), PyInv
  PROVE  /\ pc \in {"idle", "open", "seek"}
         /\ lastInode \in Generations \union {0} /\ lastInode \in Nat
         /\ opened \in Generations \union {0} /\ opened \in Nat
         /\ lastSize \in 0 .. MaxLines /\ lastPos \in 0 .. MaxLines /\ size \in 0 .. MaxLines
         /\ blockTotal \in [Generations -> 0 .. MaxLines]
         /\ cursor.gen \in Generations /\ cursor.pos \in 0 .. MaxLines
         /\ cursor \in [gen : Generations, pos : 0 .. MaxLines]
         /\ got \in [Lines -> Nat] /\ disturbed \in {0, 1, 2}
BY LogNow, FilesOfInstances DEF PyInv, Py!TailTypeOK

\* What the Python reader does not see: another line, or a rotation in the middle of its scan.
LEMMA PyWhenLogMoves ==
  ASSUME LogOK(files), PyInv, Py!Unrotated, Write \/ Rotate,
         disturbed' = disturbed \/ (pc # "idle" /\ disturbed' = 2),
         pc # "idle" /\ disturbed' <= 1 => Current' = Current
  PROVE  PyInv'
<1>1. /\ pc' = pc /\ lastInode' = lastInode /\ lastSize' = lastSize /\ lastPos' = lastPos
      /\ opened' = opened /\ size' = size /\ blockTotal' = blockTotal /\ cursor' = cursor /\ got' = got
  BY DEF Py!Unrotated
<1>2. /\ Current \in Nat \ {0} /\ (Current' = Current \/ Current' = Current + 1)
      /\ \A g \in 1 .. Current : files'[g].inode = files[g].inode /\ files[g].len <= files'[g].len
      /\ \A g \in 1 .. Current : g \in 1 .. Current'
      /\ \A g \in 1 .. Current : files[g].len \in Nat /\ files'[g].len \in Nat
      /\ Current' = Current => Inode' = Inode /\ Length <= Length'
  BY LogNext DEF Inode, Length
<1>3. /\ LogOK(files') /\ Continues(files', files)
      /\ Current \in 1 .. Current /\ Inode \in Nat /\ Inode <= Inode' /\ Inode' \in Nat
      /\ Length \in Nat /\ Length' \in Nat
      /\ \A g \in 1 .. Current : files[g].inode \in Nat
  <2>1. LogOK(files') /\ Continues(files', files)
    BY LogNext
  <2>2. /\ Len(files') \in Nat \ {0}
        /\ \A g \in 1 .. Len(files') : files'[g].inode \in Nat \ {0} /\ files'[g].len \in Nat
    BY <2>1, LogFacts
  <2>3. Inode' \in Nat /\ Length' \in Nat
    BY <2>2 DEF Inode, Length, Current
  <2>4. Inode <= Inode'
    BY LogNext, LogNow DEF Inode
  <2> QED BY <2>1, <2>3, <2>4, LogNow
<1>4. Py!TailTypeOK'
  BY <1>1, PyFacts DEF PyInv, Py!TailTypeOK
<1>5. PyPlace'
  <2>1. cursor.gen \in 1 .. Current /\ cursor.pos <= files[cursor.gen].len
    BY DEF PyInv, PyPlace
  <2>2. cursor'.gen \in 1 .. Current' /\ cursor'.pos <= files'[cursor'.gen].len
    BY <1>1, <1>2, <2>1, PyFacts
  <2>3. ASSUME NEW l \in Lines, got[l] > 0 PROVE l[1] \in 1 .. Current'
    BY <1>2, <2>3 DEF PyInv, PyPlace
  <2>4. pc = "seek" => \E g \in 1 .. Current' : files'[g].inode = opened
    <3>1. ASSUME pc = "seek" PROVE \E g \in 1 .. Current' : files'[g].inode = opened
      <4>1. PICK g \in 1 .. Current : files[g].inode = opened
        BY <3>1 DEF PyInv, PyPlace
      <4> QED BY <1>2, <4>1
    <3> QED BY <3>1
  <2>5. lastInode <= Inode'
    BY <1>3, PyFacts DEF PyInv, PyPlace
  <2>6. /\ lastPos > 0 => lastInode > 0
        /\ pc # "idle" => lastInode > 0
        /\ pc = "seek" => lastInode <= opened /\ size = lastSize
        /\ pc = "idle" => disturbed' <= 1
    BY DEF PyInv, PyPlace
  <2> QED BY <1>1, <2>2, <2>3, <2>4, <2>5, <2>6 DEF PyPlace
<1>6. PyBlocks'
  <2>1. ASSUME NEW g \in Generations, blockTotal[g] > 0 PROVE BlocksOf(g)'
    <3>1. BlocksOf(g)
      BY <2>1 DEF PyInv, PyBlocks
    <3>2. g \in 1 .. Current' /\ files'[g].inode = files[g].inode
          /\ files[g].len <= files'[g].len /\ files[g].len \in Nat /\ files'[g].len \in Nat
      BY <1>2, <3>1 DEF BlocksOf
    <3>3. blockTotal[g] \in Nat
      BY PyFacts, LogNow
    <3>4. disturbed' = 0 /\ pc = "idle" => disturbed = 0
      OBVIOUS
    <3> QED BY <1>1, <3>1, <3>2, <3>3, <3>4 DEF BlocksOf
  <2> QED BY <1>1, <2>1 DEF PyBlocks
<1>7. PyTwice'
  <2>1. \A l \in Lines : got[l] <= 2
    BY DEF PyInv, PyTwice
  <2>2. ASSUME NEW l \in Lines, got[l] > 0, pc # "idle" PROVE files'[l[1]].inode <= lastInode
    BY <1>2, <2>2 DEF PyInv, PyTwice, PyPlace
  <2>3. ASSUME NEW l \in Lines, pc = "seek", got[l] > 0, l[1] = Latest(files', opened)
        PROVE  l[1] = Latest(files, opened) /\ lastSize <= files'[l[1]].len
    <3>1. l[1] \in 1 .. Len(files)
      BY <2>3 DEF PyInv, PyPlace, Current
    <3>2. PICK g \in 1 .. Len(files) : files[g].inode = opened
      BY <2>3 DEF PyInv, PyPlace, Current
    <3>3. l[1] = Latest(files, opened)
      BY <1>3, <2>3, <3>1, <3>2, LatestBefore
    <3>4. lastSize <= files[l[1]].len
      BY <2>3, <3>3 DEF PyInv, PyTwice
    <3>5. files[l[1]].len \in Nat /\ files'[l[1]].len \in Nat /\ files[l[1]].len <= files'[l[1]].len
      BY <1>2, <3>1 DEF Current
    <3>6. lastSize \in Nat
      BY PyFacts, LogNow
    <3> HIDE DEF Latest
    <3> QED BY <3>3, <3>4, <3>5, <3>6
  <2>4. ASSUME NEW l \in Lines, pc # "seek", got[l] = 2, l[1] = Current'
        PROVE  lastInode = Inode' /\ lastSize <= Length' /\ l[2] <= lastPos
    <3>1. l[1] \in 1 .. Current
      BY <2>4 DEF PyInv, PyPlace
    <3>2. Current' = Current
      BY <1>2, <2>4, <3>1
    <3>3. lastInode = Inode /\ lastSize <= Length /\ l[2] <= lastPos
      BY <2>4, <3>2 DEF PyInv, PyTwice
    <3> QED BY <1>2, <1>3, <3>2, <3>3, PyFacts
  <2>5. ASSUME NEW l \in Lines, pc = "seek", got[l] = 2, l[1] = Latest(files', opened)
        PROVE  l[2] <= lastPos
    BY <2>3, <2>5 DEF PyInv, PyTwice
  <2> QED BY <1>1, <2>1, <2>2, <2>3, <2>4, <2>5 DEF PyTwice
<1>8. PyCursor'
  <2>1. cursor.gen \in 1 .. Current
    BY DEF PyInv, PyPlace
  <2>2. lastPos > 0 =>
            lastPos < lastSize \/ (lastPos = cursor.pos /\ lastInode <= files'[cursor.gen].inode)
    BY <1>2, <2>1 DEF PyInv, PyCursor
  <2>3. ASSUME pc # "idle", disturbed' <= 1
        PROVE  lastInode = Inode' /\ (pc = "seek" => opened = Inode' /\ lastSize <= Length')
    <3>1. Current' = Current /\ disturbed' = disturbed
      BY <2>3
    <3>2. lastInode = Inode /\ (pc = "seek" => opened = Inode /\ lastSize <= Length)
      BY <2>3, <3>1 DEF PyInv, PyCursor
    <3> QED BY <1>2, <1>3, <3>1, <3>2, PyFacts
  <2>4. ASSUME disturbed' = 0
        PROVE  /\ lastPos > 0 => lastPos = cursor.pos /\ lastInode = files'[cursor.gen].inode
               /\ lastPos = 0 => cursor.pos = 0 \/ cursor.gen < Current'
               /\ pc # "seek" /\ cursor.gen = Current' /\ cursor.pos > 0 => lastSize <= Length'
    <3>1. /\ lastPos > 0 => lastPos = cursor.pos /\ lastInode = files[cursor.gen].inode
          /\ lastPos = 0 => cursor.pos = 0 \/ cursor.gen < Current
          /\ pc # "seek" /\ cursor.gen = Current /\ cursor.pos > 0 => lastSize <= Length
      BY <2>4 DEF PyInv, PyCursor
    <3>2. cursor.gen = Current' => Current' = Current
      BY <1>2, <2>1
    <3> QED BY <1>2, <1>3, <2>1, <3>1, <3>2, PyFacts
  <2> QED BY <1>1, <2>2, <2>3, <2>4 DEF PyCursor
<1> QED BY <1>4, <1>5, <1>6, <1>7, <1>8 DEF PyInv

LEMMA PyStat ==
  ASSUME LogOK(files), PyInv, Py!Stat
  PROVE  PyInv'
<1>1. /\ pc = "idle" /\ pc' = "open" /\ lastInode' = Inode
      /\ lastPos' = IF lastInode # 0 /\ Inode # lastInode THEN 0 ELSE lastPos
      /\ files' = files /\ lastSize' = lastSize /\ opened' = opened /\ size' = size
      /\ blockTotal' = blockTotal /\ cursor' = cursor /\ got' = got /\ disturbed' = disturbed
  BY FilesOfInstances DEF Py!Stat, Py!NewInode, Py!LatestInode, Inode
<1>2. Current' = Current /\ Inode' = Inode /\ Length' = Length
  BY <1>1 DEF Current, Inode, Length
<1>3. lastPos' \in 0 .. MaxLines /\ (lastPos' > 0 => lastPos' = lastPos /\ lastPos > 0)
  BY <1>1, PyFacts, LogNow
<1>4. Py!TailTypeOK'
  BY <1>1, <1>3, PyFacts, LogNow, FilesOfInstances DEF PyInv, Py!TailTypeOK
<1>5. PyPlace'
  BY <1>1, <1>2, LogNow, PyFacts DEF PyInv, PyPlace
<1>6. PyBlocks'
  <2>1. ASSUME NEW g \in Generations, blockTotal[g] > 0 PROVE BlocksOf(g)'
    <3>1. BlocksOf(g)
      BY <2>1 DEF PyInv, PyBlocks
    <3>2. files[g].inode \in Nat /\ files[g].inode <= Inode /\ Inode \in Nat
      BY <3>1, LogNow DEF BlocksOf
    <3>3. lastPos' > 0 => lastPos' = lastPos /\ Inode = lastInode
      <4>1. lastPos' > 0 => lastInode > 0
        BY <1>3 DEF PyInv, PyPlace
      <4> QED BY <1>1, <1>3, <4>1
    <3>4. lastInode \in Nat
      BY PyFacts
    <3> QED BY <1>1, <1>2, <3>1, <3>2, <3>3, <3>4 DEF BlocksOf
  <2> QED BY <1>1, <2>1 DEF PyBlocks
<1>7. PyTwice'
  <2>1. \A l \in Lines : got[l] > 0 => files[l[1]].inode <= Inode
    BY LogNow DEF PyInv, PyPlace
  <2>2. ASSUME NEW l \in Lines, got[l] = 2, l[1] = Current
        PROVE  lastInode' = Inode /\ lastSize <= Length /\ l[2] <= lastPos'
    <3>1. lastInode = Inode /\ lastSize <= Length /\ l[2] <= lastPos
      BY <1>1, <2>2 DEF PyInv, PyTwice
    <3> QED BY <1>1, <3>1
  <2> QED BY <1>1, <1>2, <2>1, <2>2 DEF PyInv, PyTwice
<1>8. PyCursor'
  <2>1. cursor.gen \in 1 .. Current /\ files[cursor.gen].inode <= Inode
    BY LogNow DEF PyInv, PyPlace
  <2>2. ASSUME lastPos' > 0 PROVE lastPos' = lastPos /\ lastPos > 0 /\ lastInode = Inode
    <3>1. lastInode > 0
      BY <1>3, <2>2 DEF PyInv, PyPlace
    <3> QED BY <1>1, <1>3, <2>2, <3>1
  <2>3. lastPos' > 0 =>
            lastPos' < lastSize \/ (lastPos' = cursor.pos /\ lastInode' <= files[cursor.gen].inode)
    BY <1>1, <2>2 DEF PyInv, PyCursor
  <2>4. ASSUME disturbed = 0
        PROVE  /\ lastPos' > 0 => lastPos' = cursor.pos /\ lastInode' = files[cursor.gen].inode
               /\ lastPos' = 0 => cursor.pos = 0 \/ cursor.gen < Current
               /\ cursor.gen = Current /\ cursor.pos > 0 => lastSize <= Length
    <3>1. /\ lastPos > 0 => lastPos = cursor.pos /\ lastInode = files[cursor.gen].inode
          /\ lastPos = 0 => cursor.pos = 0 \/ cursor.gen < Current
          /\ cursor.gen = Current /\ cursor.pos > 0 => lastSize <= Length
      BY <1>1, <2>4 DEF PyInv, PyCursor
    <3>2. cursor.gen = Current => files[cursor.gen].inode = Inode
      BY DEF Inode
    <3>3. lastPos' = 0 => lastPos = 0 \/ Inode # lastInode
      BY <1>1
    <3> QED BY <1>1, <2>1, <2>2, <3>1, <3>2, <3>3, PyFacts, LogNow
  <2> QED BY <1>1, <1>2, <2>3, <2>4 DEF PyCursor
<1> QED BY <1>4, <1>5, <1>6, <1>7, <1>8 DEF PyInv

LEMMA PyOpenFile ==
  ASSUME LogOK(files), PyInv, Py!OpenFile
  PROVE  PyInv'
<1>1. /\ pc = "open" /\ pc' = "seek" /\ opened' = Inode /\ size' = Length /\ lastSize' = Length
      /\ lastPos' = IF Length < lastSize THEN 0 ELSE lastPos
      /\ files' = files /\ lastInode' = lastInode
      /\ blockTotal' = blockTotal /\ cursor' = cursor /\ got' = got /\ disturbed' = disturbed
  <2>1. Py!LengthOf(Inode) = Length
    BY GenerationOfIsLatest, LogNow DEF Length
  <2>2. files[Py!Current].inode = Inode
    BY FilesOfInstances DEF Inode
  <2> QED BY <2>1, <2>2 DEF Py!OpenFile
<1>2. Current' = Current /\ Inode' = Inode /\ Length' = Length
  BY <1>1 DEF Current, Inode, Length
<1>3. lastPos' \in 0 .. MaxLines /\ (lastPos' > 0 => lastPos' = lastPos /\ lastPos > 0 /\ lastSize <= Length)
  BY <1>1, PyFacts, LogNow
<1>4. Py!TailTypeOK'
  BY <1>1, <1>3, PyFacts, LogNow, FilesOfInstances DEF PyInv, Py!TailTypeOK
<1>5. PyPlace'
  BY <1>1, <1>2, <1>3, LogNow, PyFacts DEF PyInv, PyPlace, Inode
<1>6. PyBlocks'
  <2>1. ASSUME NEW g \in Generations, blockTotal[g] > 0 PROVE BlocksOf(g)'
    <3>1. BlocksOf(g)
      BY <2>1 DEF PyInv, PyBlocks
    <3> QED BY <1>1, <1>2, <1>3, <3>1 DEF BlocksOf
  <2> QED BY <1>1, <2>1 DEF PyBlocks
<1>7. PyTwice'
  <2>1. Latest(files, Inode) = Current /\ Length = files[Current].len /\ Length \in Nat
    BY LogNow DEF Length
  <2>2. ASSUME NEW l \in Lines, got[l] = 2, l[1] = Current PROVE l[2] <= lastPos'
    <3>1. lastSize <= Length /\ l[2] <= lastPos
      BY <1>1, <2>2 DEF PyInv, PyTwice
    <3> QED BY <1>1, <2>1, <3>1, PyFacts
  <2> QED BY <1>1, <1>2, <2>1, <2>2 DEF PyInv, PyTwice
<1>8. PyCursor'
  <2>1. lastPos' > 0 =>
            lastPos' < lastSize' \/ (lastPos' = cursor.pos /\ lastInode <= files[cursor.gen].inode)
    <3>1. lastPos > 0 =>
            lastPos < lastSize \/ (lastPos = cursor.pos /\ lastInode <= files[cursor.gen].inode)
      BY DEF PyInv, PyCursor
    <3> QED BY <1>1, <1>3, <3>1, PyFacts, LogNow
  <2>2. disturbed <= 1 => lastInode = Inode
    BY <1>1 DEF PyInv, PyCursor
  <2>3. ASSUME disturbed = 0
        PROVE  /\ lastPos' > 0 => lastPos' = cursor.pos /\ lastInode = files[cursor.gen].inode
               /\ lastPos' = 0 => cursor.pos = 0 \/ cursor.gen < Current
    <3>1. /\ lastPos > 0 => lastPos = cursor.pos /\ lastInode = files[cursor.gen].inode
          /\ lastPos = 0 => cursor.pos = 0 \/ cursor.gen < Current
          /\ cursor.gen = Current /\ cursor.pos > 0 => lastSize <= Length
      BY <1>1, <2>3 DEF PyInv, PyCursor
    <3>2. cursor.gen \in 1 .. Current
      BY DEF PyInv, PyPlace
    <3>3. lastPos' = 0 => lastPos = 0 \/ Length < lastSize
      BY <1>1
    <3> QED BY <1>3, <3>1, <3>2, <3>3, PyFacts, LogNow
  <2> QED BY <1>1, <1>2, <2>1, <2>2, <2>3, LogNow DEF PyCursor
<1> QED BY <1>4, <1>5, <1>6, <1>7, <1>8 DEF PyInv

\* What the last step of a scan reads: lines From + 1 .. To of a generation.
PyGen == Latest(files, opened)
PyTo == files[PyGen].len
PyFrom == IF lastPos = 0 THEN IF size > Window THEN size - Window ELSE 0 ELSE lastPos

LEMMA PyReads ==
  ASSUME LogOK(files), PyInv, Py!Read
  PROVE  /\ pc = "seek" /\ pc' = "idle" /\ opened' = 0 /\ size' = 0
         /\ PyGen \in 1 .. Current /\ files[PyGen].inode = opened
         /\ PyFrom \in 0 .. MaxLines /\ PyTo \in 0 .. MaxLines /\ lastPos <= PyFrom
         /\ PyTo = files[PyGen].len
         /\ lastPos' = IF PyFrom >= PyTo THEN PyFrom ELSE PyTo
         /\ blockTotal' = [(IF lastPos = 0 THEN Py!NoBlocks ELSE blockTotal)
                               EXCEPT ![PyGen] = @ + IF PyTo > PyFrom THEN PyTo - PyFrom ELSE 0]
         /\ got' = [l \in Lines |-> IF l[1] = PyGen /\ l[2] \in PyFrom + 1 .. PyTo THEN got[l] + 1 ELSE got[l]]
         /\ cursor' = IF PyTo > PyFrom THEN [gen |-> PyGen, pos |-> PyTo] ELSE cursor
         /\ disturbed' = IF disturbed > 0 THEN disturbed - 1 ELSE 0
         /\ files' = files /\ lastInode' = lastInode /\ lastSize' = lastSize
<1>1. pc = "seek"
  BY DEF Py!Read
<1>2. PyGen \in 1 .. Current /\ files[PyGen].inode = opened
  <2>1. PICK g \in 1 .. Current : files[g].inode = opened
    BY <1>1 DEF PyInv, PyPlace
  <2>2. g \in 1 .. Len(files)
    BY DEF Current
  <2>3. Latest(files, files[g].inode) \in 1 .. Len(files)
        /\ files[Latest(files, files[g].inode)].inode = files[g].inode
    BY <2>2, LatestFacts
  <2> QED BY <2>1, <2>3 DEF PyGen, Current
<1>3. PyTo \in 0 .. MaxLines /\ PyTo \in Int
  BY <1>2, LogNow DEF PyTo
<1>4. Py!From = PyFrom
  <2>1. size \in Nat /\ Window \in Nat \ {0}
    BY PyFacts, LogNow, WindowAssumption
  <2>2. 0 \in Int /\ size - Window \in Int
    BY <2>1
  <2>3. Py!Max({0, size - Window}) = IF 0 >= size - Window THEN 0 ELSE size - Window
    BY <2>2, MaxMinOfInstances
  <2> QED BY <2>1, <2>3 DEF Py!From, PyFrom
<1>5. PyFrom \in 0 .. MaxLines /\ lastPos <= PyFrom /\ PyFrom \in Int
  <2>1. lastPos \in 0 .. MaxLines /\ size \in 0 .. MaxLines /\ MaxLines \in Nat /\ Window \in Nat
    BY PyFacts, LogNow, WindowAssumption
  <2> QED BY <2>1 DEF PyFrom
<1>6. Py!GenerationOf(opened) = PyGen /\ Py!LengthOf(opened) = PyTo
  BY GenerationOfIsLatest DEF PyGen, PyTo
<1>7. Py!ReadPosition = IF PyFrom >= PyTo THEN PyFrom ELSE PyTo
  BY <1>3, <1>4, <1>5, <1>6, MaxMinOfInstances DEF Py!ReadPosition
<1>8. Py!Max({0, PyTo - PyFrom}) = IF PyTo > PyFrom THEN PyTo - PyFrom ELSE 0
  <2>1. 0 \in Int /\ PyTo - PyFrom \in Int
    BY <1>3, <1>5
  <2>2. Py!Max({0, PyTo - PyFrom}) = IF 0 >= PyTo - PyFrom THEN 0 ELSE PyTo - PyFrom
    BY <2>1, MaxMinOfInstances
  <2> QED BY <1>3, <1>5, <2>2
<1>9. Py!Max({0, disturbed - 1}) = IF disturbed > 0 THEN disturbed - 1 ELSE 0
  <2>1. disturbed \in {0, 1, 2}
    BY PyFacts
  <2>2. 0 \in Int /\ disturbed - 1 \in Int
    BY <2>1
  <2>3. Py!Max({0, disturbed - 1}) = IF 0 >= disturbed - 1 THEN 0 ELSE disturbed - 1
    BY <2>2, MaxMinOfInstances
  <2> QED BY <2>1, <2>3
<1>10. /\ lastPos' = Py!ReadPosition
       /\ blockTotal' = [Py!BlocksKept EXCEPT ![PyGen] = @ + Py!Max({0, PyTo - PyFrom})]
       /\ got' = [l \in Lines |-> IF l[1] = PyGen /\ l[2] \in PyFrom + 1 .. PyTo THEN got[l] + 1 ELSE got[l]]
       /\ cursor' = IF Py!Max({0, PyTo - PyFrom}) > 0 THEN [gen |-> PyGen, pos |-> PyTo] ELSE cursor
       /\ disturbed' = Py!Max({0, disturbed - 1})
       /\ pc' = "idle" /\ opened' = 0 /\ size' = 0
       /\ files' = files /\ lastInode' = lastInode /\ lastSize' = lastSize
  BY <1>4, <1>6, FilesOfInstances DEF Py!Read
<1>11. Py!BlocksKept = IF lastPos = 0 THEN Py!NoBlocks ELSE blockTotal
  BY DEF Py!BlocksKept
<1>12. cursor' = IF PyTo > PyFrom THEN [gen |-> PyGen, pos |-> PyTo] ELSE cursor
  BY <1>3, <1>5, <1>8, <1>10
<1>13. PyTo = files[PyGen].len
  BY DEF PyTo
<1> HIDE DEF PyTo, PyFrom, PyGen
<1> QED BY <1>1, <1>2, <1>3, <1>5, <1>7, <1>8, <1>9, <1>10, <1>11, <1>12, <1>13

LEMMA PyRead ==
  ASSUME LogOK(files), PyInv, Py!Read
  PROVE  PyInv'
<1> DEFINE gen == PyGen
           from == PyFrom
           to == PyTo
<1>1. /\ pc = "seek" /\ pc' = "idle" /\ opened' = 0 /\ size' = 0
      /\ gen \in 1 .. Current /\ files[gen].inode = opened /\ to = files[gen].len
      /\ from \in 0 .. MaxLines /\ to \in 0 .. MaxLines /\ lastPos <= from
      /\ lastPos' = IF from >= to THEN from ELSE to
      /\ blockTotal' = [(IF lastPos = 0 THEN Py!NoBlocks ELSE blockTotal)
                            EXCEPT ![gen] = @ + IF to > from THEN to - from ELSE 0]
      /\ got' = [l \in Lines |-> IF l[1] = gen /\ l[2] \in from + 1 .. to THEN got[l] + 1 ELSE got[l]]
      /\ cursor' = IF to > from THEN [gen |-> gen, pos |-> to] ELSE cursor
      /\ disturbed' = IF disturbed > 0 THEN disturbed - 1 ELSE 0
      /\ files' = files /\ lastInode' = lastInode /\ lastSize' = lastSize
  BY PyReads
<1>2. gen = Latest(files, opened)
  BY DEF PyGen
<1>3. from = IF lastPos = 0 THEN IF size > Window THEN size - Window ELSE 0 ELSE lastPos
  BY DEF PyFrom
<1> HIDE DEF gen, from, to
<1>4. Current' = Current /\ Inode' = Inode /\ Length' = Length
  BY <1>1 DEF Current, Inode, Length
<1>5. lastPos' \in 0 .. MaxLines /\ lastPos <= lastPos' /\ to <= lastPos'
  <2>1. lastPos \in Nat /\ MaxLines \in Nat
    BY PyFacts, LogNow
  <2>2. lastPos' = IF from >= to THEN from ELSE to
    BY <1>1
  <2>3. from \in 0 .. MaxLines /\ to \in 0 .. MaxLines /\ lastPos <= from
    BY <1>1
  <2> QED BY <2>1, <2>2, <2>3
\* What was counted before, of each generation, and what is counted now.
<1>5a. ASSUME NEW g \in Generations
       PROVE  \E n \in 0 .. MaxLines :
                /\ blockTotal'[g] = n + IF g = gen /\ to > from THEN to - from ELSE 0
                /\ n <= lastPos
                /\ n > 0 => blockTotal[g] = n /\ lastPos > 0 /\ BlocksOf(g)
  <2> DEFINE kept == IF lastPos = 0 THEN Py!NoBlocks ELSE blockTotal
  <2>1. MaxLines \in Nat /\ lastPos \in Nat /\ blockTotal \in [Generations -> 0 .. MaxLines]
        /\ from \in Nat /\ to \in Nat
    <3>1. MaxLines \in Nat /\ lastPos \in 0 .. MaxLines /\ blockTotal \in [Generations -> 0 .. MaxLines]
      BY PyFacts, LogNow
    <3>2. from \in 0 .. MaxLines /\ to \in 0 .. MaxLines
      BY <1>1
    <3> QED BY <3>1, <3>2
  <2>2. Py!NoBlocks \in [Generations -> 0 .. MaxLines] /\ Py!NoBlocks[g] = 0
    BY <2>1, FilesOfInstances DEF Py!NoBlocks
  <2>3. kept \in [Generations -> 0 .. MaxLines] /\ kept[g] \in 0 .. MaxLines
    BY <2>1, <2>2
  <2>4. kept[g] > 0 => blockTotal[g] = kept[g] /\ lastPos > 0 /\ BlocksOf(g)
    BY <2>1, <2>2 DEF PyInv, PyBlocks
  <2>5. kept[g] <= lastPos
    BY <2>1, <2>3, <2>4 DEF BlocksOf
  <2>6. blockTotal' = [kept EXCEPT ![gen] = @ + IF to > from THEN to - from ELSE 0]
    BY <1>1
  <2> HIDE DEF kept
  <2>7. blockTotal'[g] = kept[g] + IF g = gen /\ to > from THEN to - from ELSE 0
    BY <2>1, <2>3, <2>6
  <2> QED BY <2>3, <2>4, <2>5, <2>7
<1>6. \A l \in Lines : l[2] \in Nat \ {0}
  BY LogNow DEF Lines
<1>7. ASSUME NEW l \in Lines
      PROVE  /\ got'[l] = IF l[1] = gen /\ l[2] \in from + 1 .. to THEN got[l] + 1 ELSE got[l]
             /\ got[l] \in Nat
  BY <1>1, PyFacts
<1>8. disturbed' \in {0, 1} /\ (disturbed' = 0 => disturbed <= 1)
  BY <1>1, PyFacts
<1>8a. /\ lastPos \in Nat /\ lastPos' \in Nat /\ from \in Nat /\ to \in Nat
       /\ lastSize \in Nat /\ size \in Nat /\ Window \in Nat \ {0}
  <2>1. /\ lastPos \in 0 .. MaxLines /\ lastSize \in 0 .. MaxLines /\ size \in 0 .. MaxLines
        /\ from \in 0 .. MaxLines /\ to \in 0 .. MaxLines /\ lastPos' \in 0 .. MaxLines
    BY <1>1, <1>5, PyFacts
  <2>2. MaxLines \in Nat
    BY LogNow
  <2> QED BY <2>1, <2>2, WindowAssumption
<1>9. Py!TailTypeOK'
  <2>1. got' \in [Lines -> Nat]
    <3>1. \A l \in Lines : (IF l[1] = gen /\ l[2] \in from + 1 .. to THEN got[l] + 1 ELSE got[l]) \in Nat
      BY <1>7
    <3> QED BY <1>1, <3>1
  <2>2. cursor' \in [gen : Generations, pos : 0 .. MaxLines]
    BY <1>1, PyFacts, LogNow
  <2>3. /\ pc' = "idle" /\ opened' = 0 /\ size' = 0 /\ lastInode' = lastInode /\ lastSize' = lastSize
        /\ lastPos' \in 0 .. MaxLines /\ disturbed' \in 0 .. 2
        /\ 0 \in 0 .. MaxLines /\ lastInode \in Generations \union {0} /\ lastSize \in 0 .. MaxLines
    BY <1>1, <1>5, <1>8, PyFacts, LogNow
  <2>4. blockTotal' \in [Generations -> 0 .. MaxLines]
    <3>1. ASSUME NEW g \in Generations PROVE blockTotal'[g] \in 0 .. MaxLines
      <4>1. MaxLines \in Nat
        BY LogNow
      <4> QED BY <1>1, <1>5a, <1>8a, <4>1
    <3>2. \E kept : blockTotal' = [kept EXCEPT ![gen] = @ + IF to > from THEN to - from ELSE 0]
                    /\ DOMAIN kept = Generations
      BY <1>1, PyFacts, FilesOfInstances DEF Py!NoBlocks
    <3> QED BY <3>1, <3>2
  <2> QED BY <2>1, <2>2, <2>3, <2>4, FilesOfInstances DEF Py!TailTypeOK
<1>10. PyPlace'
  <2>1. cursor'.gen \in 1 .. Current /\ cursor'.pos <= files[cursor'.gen].len
    BY <1>1, LogNow DEF PyInv, PyPlace
  <2>2. \A l \in Lines : got'[l] > 0 => l[1] \in 1 .. Current
    BY <1>1, <1>7 DEF PyInv, PyPlace
  <2> QED BY <1>1, <1>4, <1>8, <2>1, <2>2 DEF PyInv, PyPlace
<1>11. PyBlocks'
  <2>1. ASSUME NEW g \in Generations, blockTotal'[g] > 0 PROVE BlocksOf(g)'
    <3>1. PICK n \in 0 .. MaxLines :
            /\ blockTotal'[g] = n + IF g = gen /\ to > from THEN to - from ELSE 0
            /\ n <= lastPos
            /\ n > 0 => blockTotal[g] = n /\ lastPos > 0 /\ BlocksOf(g)
      BY <1>5a
    <3>2. n \in Nat /\ lastInode \in Nat /\ opened \in Nat /\ lastInode <= opened
      BY <1>1, PyFacts, LogNow DEF PyInv, PyPlace
    <3>3. n > 0 => g \in 1 .. Current /\ n <= files[g].len /\ files[g].inode = lastInode
      BY <1>1, <3>1 DEF BlocksOf
    <3>4. g = gen => g \in 1 .. Current /\ files[g].inode = opened /\ files[g].len = to
      BY <1>1
    <3>5. disturbed' = 0 => lastInode = opened
      BY <1>1, <1>8 DEF PyInv, PyCursor
    <3>6. CASE g = gen /\ to > from
      <4>1. blockTotal'[g] = n + (to - from)
        BY <3>1, <3>6
      <4>2. blockTotal'[g] <= to /\ blockTotal'[g] <= lastPos'
        BY <1>1, <1>5, <1>8a, <3>1, <3>2, <4>1
      <4> QED BY <1>1, <1>4, <3>2, <3>4, <3>5, <3>6, <4>2 DEF BlocksOf
    <3>7. CASE ~ (g = gen /\ to > from)
      <4>1. blockTotal'[g] = n /\ n > 0
        BY <2>1, <3>1, <3>2, <3>7
      <4>2. n <= lastPos'
        BY <1>5, <1>8a, <3>1, <3>2
      <4> QED BY <1>1, <1>4, <3>2, <3>3, <4>1, <4>2 DEF BlocksOf
    <3> QED BY <3>6, <3>7
  <2> QED BY <2>1 DEF PyBlocks
<1>12. PyTwice'
  <2>1. ASSUME NEW l \in Lines PROVE got'[l] <= 2
    <3>1. got[l] <= 2 /\ (got[l] = 2 /\ l[1] = gen => l[2] <= lastPos)
      BY <1>1, <1>2 DEF PyInv, PyTwice
    <3> QED BY <1>1, <1>6, <1>7, <3>1, PyFacts
  <2>2. ASSUME NEW l \in Lines, got'[l] = 2, l[1] = Current
        PROVE  lastInode = Inode /\ lastSize <= Length /\ l[2] <= lastPos'
    <3>1. got[l] > 0
      BY <1>7, <2>2
    <3>2. files[l[1]].inode <= lastInode /\ files[l[1]].inode = Inode
      BY <1>1, <2>2, <3>1 DEF PyInv, PyTwice, Inode
    <3>3. lastInode <= opened /\ opened <= Inode
      BY <1>1, LogNow DEF PyInv, PyPlace
    <3>4. lastInode = Inode /\ opened = Inode
      <4>1. lastInode \in Nat /\ opened \in Nat /\ Inode \in Nat
        BY PyFacts, LogNow
      <4> QED BY <3>2, <3>3, <4>1
    <3>5. gen = Current
      BY <1>2, <3>4, LogNow
    <3>6. lastSize <= Length
      BY <1>1, <1>2, <2>2, <3>1, <3>5 DEF PyInv, PyTwice, Length
    <3>7. got[l] = 2 => l[2] <= lastPos
      BY <1>1, <1>2, <2>2, <3>5 DEF PyInv, PyTwice
    <3>8. l[2] <= lastPos'
      <4>1. CASE l[2] \in from + 1 .. to
        <5>1. from \in Nat /\ to \in Nat /\ lastPos' \in Nat /\ to <= lastPos'
          BY <1>1, <1>5, LogNow
        <5> QED BY <1>6, <4>1, <5>1
      <4>2. CASE l[2] \notin from + 1 .. to
        <5>1. l[2] <= lastPos
          BY <1>7, <2>2, <3>7, <4>2
        <5>2. lastPos <= lastPos'
          BY <1>5
        <5>3. l[2] \in Nat /\ lastPos \in Nat /\ lastPos' \in Nat
          BY <1>6, <1>8a
        <5> QED BY <5>1, <5>2, <5>3
      <4> QED BY <4>1, <4>2
    <3> QED BY <3>4, <3>6, <3>8
  <2> QED BY <1>1, <1>4, <2>1, <2>2 DEF PyTwice
<1>13. PyCursor'
  <2>1. lastPos' > 0 =>
            lastPos' < lastSize \/ (lastPos' = cursor'.pos /\ lastInode <= files[cursor'.gen].inode)
    <3>1. CASE to > from
      BY <1>1, <3>1, PyFacts DEF PyInv, PyPlace
    <3>2. CASE ~(to > from) /\ lastPos > 0
      <4>1. lastPos' = lastPos /\ cursor' = cursor
        BY <1>1, <1>3, <1>8a, <3>2
      <4> QED BY <3>2, <4>1 DEF PyInv, PyCursor
    <3>3. CASE ~(to > from) /\ ~(lastPos > 0)
      <4>1. lastPos = 0 /\ lastPos' = from /\ size = lastSize
        <5>1. size = lastSize
          BY <1>1 DEF PyInv, PyPlace
        <5> QED BY <1>1, <1>8a, <3>3, <5>1
      <4> QED BY <1>3, <1>8a, <4>1
    <3> QED BY <3>1, <3>2, <3>3
  <2>2. ASSUME disturbed' = 0
        PROVE  /\ lastPos' > 0 => lastPos' = cursor'.pos /\ lastInode = files[cursor'.gen].inode
               /\ lastPos' = 0 => cursor'.pos = 0 \/ cursor'.gen < Current
               /\ lastSize <= Length
    <3>1. lastInode = Inode /\ opened = Inode /\ lastSize <= Length
      BY <1>1, <1>8, <2>2 DEF PyInv, PyCursor
    <3>2. gen = Current /\ to = Length /\ files[gen].inode = Inode
      BY <1>1, <1>2, <3>1, LogNow DEF Length
    <3>3. ASSUME lastPos' > 0 PROVE lastPos' = cursor'.pos /\ lastInode = files[cursor'.gen].inode
      <4>1. CASE to > from
        BY <1>1, <3>1, <3>2, <4>1
      <4>2. CASE ~(to > from)
        <5>1. cursor' = cursor /\ ~(lastPos' < lastSize)
          BY <1>1, <1>8a, <3>1, <3>2, <4>2
        <5>2. lastPos' = cursor'.pos /\ lastInode <= files[cursor'.gen].inode
          BY <2>1, <3>3, <5>1
        <5>3. files[cursor'.gen].inode <= Inode /\ files[cursor'.gen].inode \in Nat
          BY <5>1, LogNow DEF PyInv, PyPlace
        <5> QED BY <3>1, <5>2, <5>3, LogNow
      <4> QED BY <4>1, <4>2
    <3>4. ASSUME lastPos' = 0 PROVE cursor'.pos = 0 \/ cursor'.gen < Current
      <4>1. to = 0 /\ cursor' = cursor
        BY <1>1, <1>8a, <3>4
      <4>2. cursor.gen \in 1 .. Current /\ cursor.pos <= files[cursor.gen].len
        BY DEF PyInv, PyPlace
      <4>3. cursor.gen \in Nat /\ cursor.pos \in Nat /\ Current \in Nat
        BY PyFacts, LogNow
      <4>4. cursor.gen = Current => cursor.pos <= Length
        BY <4>2 DEF Length
      <4>5. Length = 0
        BY <3>2, <4>1
      <4> HIDE DEF Length
      <4>6. cursor.pos = 0 \/ cursor.gen < Current
        BY <4>2, <4>3, <4>4, <4>5
      <4> QED BY <4>1, <4>6
    <3> QED BY <3>1, <3>3, <3>4
  <2> QED BY <1>1, <1>4, <2>1, <2>2 DEF PyCursor
<1> QED BY <1>9, <1>10, <1>11, <1>12, <1>13 DEF PyInv
-----------------------------------------------------------------------------
(* The steps of the Go reader *)

LEMMA GoFacts ==
  ASSUME LogOK(files), GoInv
  PROVE  /\ \A s \in Scans : /\ scans[s].at \in {"idle", "opened", "flush", "sent"}
                             /\ scans[s].inode \in Generations \union {0} /\ scans[s].inode \in Nat
                             /\ scans[s].size \in 0 .. MaxLines /\ scans[s].carried \in Nat
         /\ goPos \in 0 .. MaxLines /\ goSize \in 0 .. MaxLines /\ sniFlush \in Nat /\ sniAcc \in Nat
         /\ goCursor.gen \in Generations /\ goCursor.pos \in 0 .. MaxLines
         /\ goCursor \in [gen : Generations, pos : 0 .. MaxLines]
         /\ goGot \in [Lines -> Nat] /\ goDisturbed \in {0, 1, 2}
         /\ \A s : s \in Go!UnderWay <=> s \in Scans /\ scans[s].at = "opened"
<1>1. Go!GoTypeOK
  BY DEF GoInv
<1>2. ASSUME NEW s \in Scans
      PROVE  /\ scans[s].at \in {"idle", "opened", "flush", "sent"}
             /\ scans[s].inode \in Generations \union {0} /\ scans[s].inode \in Nat
             /\ scans[s].size \in 0 .. MaxLines /\ scans[s].carried \in Nat
  <2>1. scans[s] \in [at : {"idle", "opened", "flush", "sent"}, inode : Generations \union {0},
                      size : 0 .. MaxLines, carried : Nat]
    BY <1>1, FilesOfInstances DEF Go!GoTypeOK
  <2> QED BY <2>1, LogNow
<1>3. \A s : s \in Go!UnderWay <=> s \in Scans /\ scans[s].at = "opened"
  BY DEF Go!UnderWay
<1> QED BY <1>1, <1>2, <1>3, LogNow, FilesOfInstances DEF Go!GoTypeOK

\* GoTypeOK, part by part.
LEMMA GoTyped ==
  ASSUME NEW s \in Scans, LogOK(files), GoInv,
         NEW r, scans' = [scans EXCEPT ![s] = r],
         r \in [at : {"idle", "opened", "flush", "sent"}, inode : Generations \union {0},
                size : 0 .. MaxLines, carried : Nat],
         goPos' \in 0 .. MaxLines, goSize' \in 0 .. MaxLines, sniFlush' \in Nat, sniAcc' \in Nat,
         goCursor' \in [gen : Generations, pos : 0 .. MaxLines], goGot' \in [Lines -> Nat],
         goDisturbed' \in {0, 1, 2}
  PROVE  /\ Go!GoTypeOK' /\ scans'[s] = r /\ \A t \in Scans : t # s => scans'[t] = scans[t]
         /\ \A t : t \in Go!UnderWay' <=> \/ t = s /\ r.at = "opened"
                                          \/ t # s /\ t \in Go!UnderWay
<1>1. Go!GoTypeOK
  BY DEF GoInv
<1>2. /\ scans' \in [Scans -> [at : {"idle", "opened", "flush", "sent"}, inode : Generations \union {0},
                               size : 0 .. MaxLines, carried : Nat]]
      /\ scans'[s] = r /\ \A t \in Scans : t # s => scans'[t] = scans[t]
  <2> DEFINE R == [at : {"idle", "opened", "flush", "sent"}, inode : Generations \union {0},
                   size : 0 .. MaxLines, carried : Nat]
  <2>1. scans \in [Scans -> R] /\ r \in R
    BY <1>1, FilesOfInstances DEF Go!GoTypeOK
  <2> HIDE DEF R
  <2>2. scans' \in [Scans -> R] /\ scans'[s] = r /\ \A t \in Scans : t # s => scans'[t] = scans[t]
    BY <2>1
  <2> QED BY <2>2 DEF R
<1>3. Go!GoTypeOK'
  BY <1>2, FilesOfInstances DEF Go!GoTypeOK
<1>4. \A t : t \in Go!UnderWay' <=> \/ t = s /\ r.at = "opened"
                                    \/ t # s /\ t \in Go!UnderWay
  BY <1>2 DEF Go!UnderWay
<1> QED BY <1>2, <1>3, <1>4

\* What the Go reader does not see.
LEMMA GoWhenLogMoves ==
  ASSUME LogOK(files), GoInv, Go!UnrotatedGo, Write \/ Rotate,
         goDisturbed' = goDisturbed \/ (Go!UnderWay # {} /\ goDisturbed' = 2),
         Go!UnderWay # {} /\ goDisturbed' <= 1 => Current' = Current
  PROVE  GoInv'
<1>1. /\ scans' = scans /\ goPos' = goPos /\ goSize' = goSize /\ sniFlush' = sniFlush
      /\ sniAcc' = sniAcc /\ goCursor' = goCursor /\ goGot' = goGot /\ Go!UnderWay' = Go!UnderWay
  BY DEF Go!UnrotatedGo, Go!UnderWay
<1>2. /\ Current \in Nat \ {0} /\ (Current' = Current \/ Current' = Current + 1)
      /\ \A g \in 1 .. Current : files'[g].inode = files[g].inode /\ files[g].len <= files'[g].len
      /\ \A g \in 1 .. Current : g \in 1 .. Current'
      /\ \A g \in 1 .. Current : files[g].len \in Nat /\ files'[g].len \in Nat
      /\ Current' = Current => Inode' = Inode /\ Length <= Length'
  BY LogNext DEF Inode, Length
<1>3. Length \in Nat /\ Length' \in Nat
  <2>1. Len(files') \in Nat \ {0} /\ \A g \in 1 .. Len(files') : files'[g].len \in Nat
    BY LogNext, LogFacts
  <2> QED BY <2>1, LogNow DEF Length, Current
<1>4. Go!GoTypeOK'
  BY <1>1, GoFacts DEF GoInv, Go!GoTypeOK
<1>5. GoPlace'
  <2>1. goCursor.gen \in 1 .. Current' /\ goCursor.pos <= files'[goCursor.gen].len
    BY <1>2, GoFacts DEF GoInv, GoPlace
  <2>2. ASSUME NEW s \in Go!UnderWay PROVE \E g \in 1 .. Current' : files'[g].inode = scans[s].inode
    BY <1>2 DEF GoInv, GoPlace
  <2>3. /\ Go!UnderWay = {} => goDisturbed' <= 1
        /\ goDisturbed' <= 1 => \A s, t \in Go!UnderWay : s = t
    BY DEF GoInv, GoPlace
  <2> QED BY <1>1, <2>1, <2>2, <2>3 DEF GoPlace
<1>6. GoCursor'
  <2>1. goCursor.gen \in 1 .. Current
    BY DEF GoInv, GoPlace
  <2>2. ASSUME goDisturbed' <= 1, NEW s \in Go!UnderWay
        PROVE  /\ scans[s].inode = Inode' /\ scans[s].size <= Length'
               /\ goCursor.gen = Current' => goCursor.pos <= scans[s].size
    <3>1. Current' = Current /\ goDisturbed <= 1
      BY <2>2
    <3>2. /\ scans[s].inode = Inode /\ scans[s].size <= Length
          /\ goCursor.gen = Current => goCursor.pos <= scans[s].size
      BY <2>2, <3>1 DEF GoInv, GoCursor
    <3>3. scans[s].size \in Nat
      BY <2>2, GoFacts
    <3> QED BY <1>2, <1>3, <3>1, <3>2, <3>3
  <2>3. ASSUME goDisturbed' = 0
        PROVE  /\ goPos > 0 => goPos = goCursor.pos
               /\ goPos = 0 => goCursor.pos = 0 \/ goCursor.gen < Current'
               /\ goCursor.gen = Current' /\ goCursor.pos > 0 =>
                    /\ Go!UnderWay = {} => goSize <= Length'
                    /\ \A s \in Go!UnderWay : goSize <= scans[s].size
    <3>1. /\ goPos > 0 => goPos = goCursor.pos
          /\ goPos = 0 => goCursor.pos = 0 \/ goCursor.gen < Current
          /\ goCursor.gen = Current /\ goCursor.pos > 0 =>
                /\ Go!UnderWay = {} => goSize <= Length
                /\ \A s \in Go!UnderWay : goSize <= scans[s].size
      BY <2>3 DEF GoInv, GoCursor
    <3>2. goCursor.gen = Current' => Current' = Current
      BY <1>2, <2>1
    <3>3. goSize \in Nat
      BY GoFacts
    <3> QED BY <1>2, <1>3, <2>1, <3>1, <3>2, <3>3
  <2> QED BY <1>1, <2>2, <2>3 DEF GoInv, GoCursor
<1> QED BY <1>4, <1>5, <1>6 DEF GoInv

LEMMA GoOpen ==
  ASSUME NEW s \in Scans, LogOK(files), GoInv, Go!Open(s)
  PROVE  GoInv'
<1> DEFINE r == [Go!NoScan EXCEPT !.at = "opened", !.inode = Inode, !.size = Length]
<1>1. /\ scans[s].at = "idle" /\ scans' = [scans EXCEPT ![s] = r]
      /\ goDisturbed' = IF Go!UnderWay = {} THEN goDisturbed ELSE 2
      /\ files' = files /\ goPos' = goPos /\ goSize' = goSize /\ sniFlush' = sniFlush
      /\ sniAcc' = sniAcc /\ goCursor' = goCursor /\ goGot' = goGot
  <2>1. Go!LengthOf(Inode) = Length
    BY GenerationOfIsLatest, LogNow DEF Length
  <2>2. files[Go!Current].inode = Inode
    BY FilesOfInstances DEF Inode
  <2> QED BY <2>1, <2>2 DEF Go!Open
<1>2. Current' = Current /\ Inode' = Inode /\ Length' = Length
  BY <1>1 DEF Current, Inode, Length
<1>3. /\ r \in [at : {"idle", "opened", "flush", "sent"}, inode : Generations \union {0},
                size : 0 .. MaxLines, carried : Nat]
      /\ r.at = "opened" /\ r.inode = Inode /\ r.size = Length
  <2>1. Go!NoScan \in [at : {"idle", "opened", "flush", "sent"}, inode : Generations \union {0},
                       size : 0 .. MaxLines, carried : Nat]
    BY LogNow DEF Go!NoScan
  <2> QED BY <2>1, LogNow
<1>4. goDisturbed' \in {0, 1, 2}
  BY <1>1, GoFacts
<1> HIDE DEF r
<1>5. /\ Go!GoTypeOK' /\ scans'[s] = r /\ \A t \in Scans : t # s => scans'[t] = scans[t]
      /\ \A t : t \in Go!UnderWay' <=> t = s \/ t \in Go!UnderWay
  <2>1. /\ goPos' \in 0 .. MaxLines /\ goSize' \in 0 .. MaxLines /\ sniFlush' \in Nat /\ sniAcc' \in Nat
        /\ goCursor' \in [gen : Generations, pos : 0 .. MaxLines] /\ goGot' \in [Lines -> Nat]
    BY <1>1, GoFacts
  <2>2. /\ Go!GoTypeOK' /\ scans'[s] = r /\ \A t \in Scans : t # s => scans'[t] = scans[t]
        /\ \A t : t \in Go!UnderWay' <=> \/ t = s /\ r.at = "opened"
                                         \/ t # s /\ t \in Go!UnderWay
    BY <1>1, <1>3, <1>4, <2>1, GoTyped
  <2> QED BY <1>3, <2>2
<1>6. \A t \in Go!UnderWay : t \in Scans /\ t # s /\ scans'[t] = scans[t]
  BY <1>1, <1>5, GoFacts
<1>7. goDisturbed' <= 1 => Go!UnderWay = {} /\ goDisturbed' = goDisturbed /\ \A t \in Go!UnderWay' : t = s
  BY <1>1, <1>5
<1>8. GoPlace'
  <2>1. \A t \in Go!UnderWay' : \E g \in 1 .. Current : files[g].inode = scans'[t].inode
    <3>1. \E g \in 1 .. Current : files[g].inode = Inode
      BY LogNow DEF Inode
    <3>2. \A t \in Go!UnderWay : \E g \in 1 .. Current : files[g].inode = scans[t].inode
      BY DEF GoInv, GoPlace
    <3> QED BY <1>3, <1>5, <1>6, <3>1, <3>2
  <2>2. Go!UnderWay' # {}
    BY <1>5
  <2> QED BY <1>1, <1>2, <1>7, <2>1, <2>2 DEF GoInv, GoPlace
<1>9. GoCursor'
  <2>1. goCursor.gen \in 1 .. Current /\ goCursor.pos <= files[goCursor.gen].len
    BY DEF GoInv, GoPlace
  <2>2. ASSUME goDisturbed' <= 1, NEW t \in Go!UnderWay'
        PROVE  /\ scans'[t].inode = Inode /\ scans'[t].size <= Length
               /\ goCursor.gen = Current => goCursor.pos <= scans'[t].size
    BY <1>3, <1>5, <1>7, <2>1, <2>2, LogNow DEF Length
  <2>3. ASSUME goDisturbed' = 0
        PROVE  /\ goPos > 0 => goPos = goCursor.pos
               /\ goPos = 0 => goCursor.pos = 0 \/ goCursor.gen < Current
               /\ goCursor.gen = Current /\ goCursor.pos > 0 => \A t \in Go!UnderWay' : goSize <= scans'[t].size
    <3>1. goDisturbed = 0 /\ Go!UnderWay = {} /\ \A t \in Go!UnderWay' : t = s
      BY <1>7, <2>3
    <3>2. /\ goPos > 0 => goPos = goCursor.pos
          /\ goPos = 0 => goCursor.pos = 0 \/ goCursor.gen < Current
          /\ goCursor.gen = Current /\ goCursor.pos > 0 => goSize <= Length
      BY <3>1 DEF GoInv, GoCursor
    <3> QED BY <1>3, <1>5, <3>1, <3>2
  <2>4. s \in Go!UnderWay'
    BY <1>5
  <2> QED BY <1>1, <1>2, <2>2, <2>3, <2>4 DEF GoInv, GoCursor
<1> QED BY <1>5, <1>8, <1>9 DEF GoInv

\* A step in the interface: nothing of the file is touched.
LEMMA GoHandsOver ==
  ASSUME NEW s \in Scans, LogOK(files), GoInv, Go!FlushNewSNI(s) \/ Go!LogMsg(s)
  PROVE  /\ GoInv'
         /\ files' = files /\ goCursor' = goCursor /\ goGot' = goGot /\ goDisturbed' = goDisturbed
<1>1. /\ scans[s].at \in {"flush", "sent"} /\ files' = files /\ goPos' = goPos /\ goSize' = goSize
      /\ goCursor' = goCursor /\ goGot' = goGot /\ goDisturbed' = goDisturbed
  BY DEF Go!FlushNewSNI, Go!LogMsg
<1>2. PICK r : /\ scans' = [scans EXCEPT ![s] = r] /\ r.at # "opened"
               /\ r \in [at : {"idle", "opened", "flush", "sent"}, inode : Generations \union {0},
                         size : 0 .. MaxLines, carried : Nat]
               /\ sniFlush' \in Nat /\ sniAcc' \in Nat
  <2>1. /\ scans[s] \in [at : {"idle", "opened", "flush", "sent"}, inode : Generations \union {0},
                         size : 0 .. MaxLines, carried : Nat]
        /\ sniFlush \in Nat /\ sniAcc \in Nat /\ 0 \in 0 .. MaxLines
    BY LogNow, FilesOfInstances DEF GoInv, Go!GoTypeOK
  <2>2. CASE Go!FlushNewSNI(s)
    <3> DEFINE q == [scans[s] EXCEPT !.at = "sent", !.carried = sniFlush]
    <3>1. scans' = [scans EXCEPT ![s] = q] /\ sniFlush' = 0 /\ sniAcc' = sniAcc
      BY <2>2 DEF Go!FlushNewSNI, Go!Swapped
    <3>2. q.at = "sent" /\ q \in [at : {"idle", "opened", "flush", "sent"}, inode : Generations \union {0},
                                  size : 0 .. MaxLines, carried : Nat]
      BY <2>1
    <3> HIDE DEF q
    <3> QED BY <2>1, <3>1, <3>2
  <2>3. CASE Go!LogMsg(s)
    <3>1. scans' = [scans EXCEPT ![s] = Go!NoScan] /\ sniAcc' = sniAcc + scans[s].carried /\ sniFlush' = sniFlush
      BY <2>3 DEF Go!LogMsg
    <3>2. /\ Go!NoScan.at = "idle"
          /\ Go!NoScan \in [at : {"idle", "opened", "flush", "sent"}, inode : Generations \union {0},
                            size : 0 .. MaxLines, carried : Nat]
      BY <2>1 DEF Go!NoScan
    <3>3. sniAcc' \in Nat
      BY <2>1, <3>1
    <3> QED BY <2>1, <3>1, <3>2, <3>3
  <2> QED BY <2>2, <2>3
<1>3. /\ Go!GoTypeOK' /\ \A t \in Scans : t # s => scans'[t] = scans[t]
      /\ \A t : t \in Go!UnderWay' <=> \/ t = s /\ r.at = "opened"
                                       \/ t # s /\ t \in Go!UnderWay
  <2>1. /\ goPos' \in 0 .. MaxLines /\ goSize' \in 0 .. MaxLines
        /\ goCursor' \in [gen : Generations, pos : 0 .. MaxLines] /\ goGot' \in [Lines -> Nat]
        /\ goDisturbed' \in {0, 1, 2}
    BY <1>1, GoFacts
  <2> QED BY <1>2, <2>1, GoTyped
<1>4. Go!UnderWay' = Go!UnderWay /\ \A t \in Go!UnderWay : scans'[t] = scans[t]
  BY <1>1, <1>2, <1>3, GoFacts
<1>5. Current' = Current /\ Inode' = Inode /\ Length' = Length
  BY <1>1 DEF Current, Inode, Length
<1>6. GoPlace' /\ GoCursor'
  BY <1>1, <1>4, <1>5 DEF GoInv, GoPlace, GoCursor
<1> QED BY <1>1, <1>3, <1>6 DEF GoInv

\* What a scan of the Go reader reads: lines GoFrom + 1 .. GoTo of a generation.
GoGen(s) == Latest(files, scans[s].inode)
GoFrom(s) ==
    IF scans[s].size < goSize THEN 0
    ELSE IF goPos = 0 THEN IF scans[s].size > Window THEN scans[s].size - Window ELSE 0
    ELSE goPos
GoEnd(s) == IF scans[s].size <= files[GoGen(s)].len THEN scans[s].size ELSE files[GoGen(s)].len
GoTo(s) == IF GoFrom(s) >= GoEnd(s) THEN GoFrom(s) ELSE GoEnd(s)

LEMMA GoReads ==
  ASSUME NEW s \in Scans, LogOK(files), GoInv, Go!UpdateBlockStats(s)
  PROVE  /\ s \in Go!UnderWay /\ GoGen(s) \in 1 .. Current /\ files[GoGen(s)].inode = scans[s].inode
         /\ GoFrom(s) \in 0 .. MaxLines /\ GoEnd(s) \in 0 .. MaxLines
         /\ scans' = [scans EXCEPT ![s] = [Go!NoScan EXCEPT !.at = "flush"]]
         /\ goPos' = GoTo(s) /\ goSize' = scans[s].size /\ sniFlush' = sniFlush + (GoTo(s) - GoFrom(s))
         /\ goGot' = [l \in Lines |-> IF l[1] = GoGen(s) /\ l[2] \in GoFrom(s) + 1 .. GoTo(s)
                                      THEN goGot[l] + 1 ELSE goGot[l]]
         /\ goCursor' = IF GoTo(s) > GoFrom(s) THEN [gen |-> GoGen(s), pos |-> GoTo(s)] ELSE goCursor
         /\ goDisturbed' = IF Go!UnderWay = {s} THEN IF goDisturbed > 0 THEN goDisturbed - 1 ELSE 0
                           ELSE goDisturbed
         /\ files' = files /\ sniAcc' = sniAcc
<1>1. s \in Go!UnderWay
  BY GoFacts DEF Go!UpdateBlockStats
<1>2. GoGen(s) \in 1 .. Current /\ files[GoGen(s)].inode = scans[s].inode
  <2>1. PICK g \in 1 .. Current : files[g].inode = scans[s].inode
    BY <1>1 DEF GoInv, GoPlace
  <2>2. g \in 1 .. Len(files)
    BY DEF Current
  <2>3. Latest(files, files[g].inode) \in 1 .. Len(files)
        /\ files[Latest(files, files[g].inode)].inode = files[g].inode
    BY <2>2, LatestFacts
  <2> QED BY <2>1, <2>3 DEF GoGen, Current
<1>3. /\ scans[s].size \in 0 .. MaxLines /\ files[GoGen(s)].len \in 0 .. MaxLines /\ Window \in Nat \ {0}
      /\ goPos \in 0 .. MaxLines /\ goSize \in 0 .. MaxLines /\ MaxLines \in Nat
      /\ goDisturbed \in {0, 1, 2}
  BY <1>2, GoFacts, LogNow, WindowAssumption
<1>4. GoFrom(s) \in 0 .. MaxLines /\ GoEnd(s) \in 0 .. MaxLines /\ GoFrom(s) \in Int /\ GoEnd(s) \in Int
  BY <1>3 DEF GoFrom, GoEnd
<1>5. Go!GenerationOf(scans[s].inode) = GoGen(s) /\ Go!LengthOf(scans[s].inode) = files[GoGen(s)].len
  BY GenerationOfIsLatest DEF GoGen
<1>6. Go!Position(scans[s].size) = GoFrom(s)
  <2>1. 0 \in Int /\ scans[s].size - Window \in Int
    BY <1>3
  <2>2. Go!Max({0, scans[s].size - Window}) = IF 0 >= scans[s].size - Window THEN 0 ELSE scans[s].size - Window
    BY <2>1, MaxMinOfInstances
  <2> QED BY <1>3, <2>2 DEF Go!Position, Go!FirstPosition, GoFrom
<1>7. Go!Min({scans[s].size, files[GoGen(s)].len}) = GoEnd(s)
  <2>1. scans[s].size \in Int /\ files[GoGen(s)].len \in Int
    BY <1>3
  <2> QED BY <2>1, MaxMinOfInstances DEF GoEnd
<1>8. Go!Max({GoFrom(s), GoEnd(s)}) = GoTo(s)
  BY <1>4, MaxMinOfInstances DEF GoTo
<1>9. Go!Max({0, goDisturbed - 1}) = IF goDisturbed > 0 THEN goDisturbed - 1 ELSE 0
  <2>1. 0 \in Int /\ goDisturbed - 1 \in Int
    BY <1>3
  <2>2. Go!Max({0, goDisturbed - 1}) = IF 0 >= goDisturbed - 1 THEN 0 ELSE goDisturbed - 1
    BY <2>1, MaxMinOfInstances
  <2> QED BY <1>3, <2>2
<1>10. /\ scans' = [scans EXCEPT ![s] = [Go!NoScan EXCEPT !.at = "flush"]]
       /\ goPos' = GoTo(s) /\ goSize' = scans[s].size /\ sniFlush' = sniFlush + (GoTo(s) - GoFrom(s))
       /\ goGot' = [l \in Lines |-> IF l[1] = GoGen(s) /\ l[2] \in GoFrom(s) + 1 .. GoTo(s)
                                    THEN goGot[l] + 1 ELSE goGot[l]]
       /\ goCursor' = IF GoTo(s) > GoFrom(s) THEN [gen |-> GoGen(s), pos |-> GoTo(s)] ELSE goCursor
       /\ goDisturbed' = IF Go!UnderWay = {s} THEN Go!Max({0, goDisturbed - 1}) ELSE goDisturbed
       /\ files' = files /\ sniAcc' = sniAcc
  BY <1>5, <1>6, <1>7, <1>8, FilesOfInstances DEF Go!UpdateBlockStats, Go!Advanced
<1> QED BY <1>1, <1>2, <1>4, <1>9, <1>10

LEMMA GoUpdate ==
  ASSUME NEW s \in Scans, LogOK(files), GoInv, Go!UpdateBlockStats(s)
  PROVE  GoInv'
<1> DEFINE gen == GoGen(s)
           from == GoFrom(s)
           end == GoEnd(s)
           to == GoTo(s)
           size1 == scans[s].size
<1>1. /\ s \in Go!UnderWay /\ gen \in 1 .. Current /\ files[gen].inode = scans[s].inode
      /\ from \in 0 .. MaxLines /\ end \in 0 .. MaxLines
      /\ scans' = [scans EXCEPT ![s] = [Go!NoScan EXCEPT !.at = "flush"]]
      /\ goPos' = to /\ goSize' = size1 /\ sniFlush' = sniFlush + (to - from)
      /\ goGot' = [l \in Lines |-> IF l[1] = gen /\ l[2] \in from + 1 .. to THEN goGot[l] + 1 ELSE goGot[l]]
      /\ goCursor' = IF to > from THEN [gen |-> gen, pos |-> to] ELSE goCursor
      /\ goDisturbed' = IF Go!UnderWay = {s} THEN IF goDisturbed > 0 THEN goDisturbed - 1 ELSE 0
                        ELSE goDisturbed
      /\ files' = files /\ sniAcc' = sniAcc
  BY GoReads
<1>2. gen = Latest(files, scans[s].inode)
  BY DEF GoGen
<1>3. to = IF from >= end THEN from ELSE end
  BY DEF GoTo
<1>4. end = IF size1 <= files[gen].len THEN size1 ELSE files[gen].len
  BY DEF GoEnd
<1>5. from = IF size1 < goSize THEN 0
             ELSE IF goPos = 0 THEN IF size1 > Window THEN size1 - Window ELSE 0
             ELSE goPos
  BY DEF GoFrom
<1>6. size1 \in 0 .. MaxLines
  BY GoFacts
<1> HIDE DEF gen, from, end, to, size1
<1>7. Current' = Current /\ Inode' = Inode /\ Length' = Length
  BY <1>1 DEF Current, Inode, Length
<1>8. to \in 0 .. MaxLines /\ from <= to /\ (to > from => to = end /\ to <= files[gen].len)
  BY <1>1, <1>3, <1>4, <1>6, LogNow
<1>9. goDisturbed' \in {0, 1, 2} /\ (goDisturbed' <= 1 => Go!UnderWay = {s})
  <2>1. goDisturbed <= 1 => Go!UnderWay = {s}
    BY <1>1 DEF GoInv, GoPlace
  <2>2. goDisturbed \in {0, 1, 2}
    BY GoFacts
  <2> QED BY <1>1, <2>1, <2>2
<1>10. goGot' \in [Lines -> Nat]
  <2>1. \A l \in Lines : (IF l[1] = gen /\ l[2] \in from + 1 .. to THEN goGot[l] + 1 ELSE goGot[l]) \in Nat
    BY GoFacts
  <2> QED BY <1>1, <2>1
<1>11. goCursor' \in [gen : Generations, pos : 0 .. MaxLines]
  <2>1. goCursor \in [gen : Generations, pos : 0 .. MaxLines]
    BY GoFacts
  <2>2. gen \in Generations
    BY <1>1, LogNow
  <2> QED BY <1>1, <1>8, <2>1, <2>2
<1>12. /\ Go!GoTypeOK' /\ \A t \in Scans : t # s => scans'[t] = scans[t]
       /\ \A t : t \in Go!UnderWay' <=> t # s /\ t \in Go!UnderWay
  <2> DEFINE r == [Go!NoScan EXCEPT !.at = "flush"]
  <2>1. Go!NoScan \in [at : {"idle", "opened", "flush", "sent"}, inode : Generations \union {0},
                       size : 0 .. MaxLines, carried : Nat]
    BY LogNow DEF Go!NoScan
  <2>2. r \in [at : {"idle", "opened", "flush", "sent"}, inode : Generations \union {0},
               size : 0 .. MaxLines, carried : Nat] /\ r.at = "flush"
    BY <2>1
  <2>3. scans' = [scans EXCEPT ![s] = r]
    BY <1>1
  <2> HIDE DEF r
  <2>4. sniFlush' \in Nat /\ sniAcc' \in Nat
    <3>1. sniFlush \in Nat /\ sniAcc \in Nat
      BY GoFacts
    <3>2. from \in Nat /\ to \in Nat /\ from <= to
      BY <1>1, <1>8, LogNow
    <3> QED BY <1>1, <3>1, <3>2
  <2>5. goPos' \in 0 .. MaxLines /\ goSize' \in 0 .. MaxLines
    BY <1>1, <1>6, <1>8
  <2>6. /\ Go!GoTypeOK' /\ \A t \in Scans : t # s => scans'[t] = scans[t]
        /\ \A t : t \in Go!UnderWay' <=> \/ t = s /\ r.at = "opened"
                                         \/ t # s /\ t \in Go!UnderWay
    BY <1>9, <1>10, <1>11, <2>2, <2>3, <2>4, <2>5, GoTyped
  <2> QED BY <2>2, <2>6
<1>13. \A t \in Go!UnderWay' : t \in Go!UnderWay /\ t \in Scans /\ scans'[t] = scans[t]
  BY <1>12, GoFacts
<1>14. goDisturbed' <= 1 => Go!UnderWay' = {}
  BY <1>9, <1>12
<1>15. GoPlace'
  <2>1. goCursor'.gen \in 1 .. Current /\ goCursor'.pos <= files[goCursor'.gen].len
    BY <1>1, <1>8 DEF GoInv, GoPlace
  <2>2. \A t \in Go!UnderWay' : \E g \in 1 .. Current : files[g].inode = scans'[t].inode
    BY <1>13 DEF GoInv, GoPlace
  <2>3. Go!UnderWay' = {} => goDisturbed' <= 1
    <3>1. Go!UnderWay' = {} => Go!UnderWay = {s}
      BY <1>1, <1>12
    <3> QED BY <1>1, <3>1, GoFacts
  <2> QED BY <1>1, <1>7, <1>14, <2>1, <2>2, <2>3 DEF GoPlace
<1>16. GoCursor'
  <2>1. to > 0 => to < size1 \/ to = goCursor'.pos
    <3>1. CASE to > from
      BY <1>1, <3>1
    <3>2. CASE ~(to > from) /\ ~(size1 < goSize) /\ goPos > 0
      <4>1. to = goPos /\ goCursor' = goCursor
        BY <1>1, <1>5, <1>8, <3>2, LogNow
      <4>2. goPos < goSize \/ goPos = goCursor.pos
        BY <3>2 DEF GoInv, GoCursor
      <4> QED BY <1>6, <3>2, <4>1, <4>2, GoFacts, LogNow
    <3>3. CASE ~(to > from) /\ (size1 < goSize \/ goPos = 0)
      <4>1. to = from /\ (from = 0 \/ from = size1 - Window)
        BY <1>1, <1>5, <1>8, <3>3, LogNow
      <4>2. Window \in Nat \ {0} /\ size1 \in Nat
        BY <1>6, WindowAssumption, LogNow
      <4> QED BY <4>1, <4>2
    <3> QED BY <3>1, <3>2, <3>3, GoFacts, LogNow
  <2>2. ASSUME goDisturbed' = 0
        PROVE  /\ to > 0 => to = goCursor'.pos
               /\ to = 0 => goCursor'.pos = 0 \/ goCursor'.gen < Current
               /\ size1 <= Length
    <3>1. goDisturbed <= 1
      BY <1>1, <1>9, <2>2, GoFacts
    <3>2. /\ scans[s].inode = Inode /\ size1 <= Length
          /\ goCursor.gen = Current => goCursor.pos <= size1
      BY <1>1, <3>1 DEF GoInv, GoCursor, size1
    <3>3. gen = Current /\ end = size1
      BY <1>2, <1>4, <3>2, LogNow DEF Length
    <3>4. ~(to < size1)
      BY <1>1, <1>3, <1>6, <3>3, LogNow
    <3>5. ASSUME to = 0 PROVE goCursor'.pos = 0 \/ goCursor'.gen < Current
      <4>1. size1 = 0 /\ goCursor' = goCursor
        BY <1>1, <1>6, <1>8, <3>4, <3>5, LogNow
      <4>2. goCursor.gen \in 1 .. Current
        BY DEF GoInv, GoPlace
      <4> QED BY <3>2, <4>1, <4>2, GoFacts, LogNow
    <3> QED BY <2>1, <3>2, <3>4, <3>5
  <2> QED BY <1>1, <1>7, <1>14, <2>1, <2>2 DEF GoCursor
<1> QED BY <1>12, <1>15, <1>16 DEF GoInv
-----------------------------------------------------------------------------
(* The inductive invariant *)

LEMMA PyResting ==
  ASSUME PyInv, files' = files, UNCHANGED tailVars
  PROVE  PyInv'
BY DEF PyInv, PyPlace, PyBlocks, BlocksOf, PyTwice, PyCursor, Py!TailTypeOK, tailVars, Current,
       Inode, Length

LEMMA GoResting ==
  ASSUME GoInv, files' = files, UNCHANGED goVars
  PROVE  GoInv'
BY DEF GoInv, GoPlace, GoCursor, Go!GoTypeOK, Go!UnderWay, goVars, Current, Inode, Length

LEMMA InvInit ==
  ASSUME Init
  PROVE  IInv
<1>1. PICK n \in 0 .. MaxLines : files = <<[inode |-> 1, len |-> n]>>
  BY DEF Init, LogInit
<1>2. /\ Len(files) = 1 /\ files[1].inode = 1 /\ files[1].len = n /\ n \in Nat
      /\ 1 \in Generations /\ MaxLines \in Nat
  BY <1>1, LogAssumption DEF Generations
<1>3. LogOK(files)
  <2>1. files \in Seq([inode : Generations, len : 0 .. MaxLines])
    <3>1. [inode |-> 1, len |-> n] \in [inode : Generations, len : 0 .. MaxLines]
      BY <1>2
    <3> QED BY <1>1, <3>1
  <2> QED BY <1>2, <2>1 DEF LogOK
<1>4. Current = 1 /\ Inode = 1 /\ Length = n
  BY <1>2 DEF Current, Inode, Length
<1>5. /\ pc = "idle" /\ lastInode = 0 /\ lastSize = 0 /\ lastPos = 0 /\ opened = 0 /\ size = 0
      /\ blockTotal = Py!NoBlocks /\ cursor = [gen |-> 1, pos |-> 0] /\ got = [l \in Lines |-> 0] /\ disturbed = 0
  BY FilesOfInstances DEF Init, Py!TailInit
<1>6. PyInv
  <2>0. Py!NoBlocks \in [Generations -> 0 .. MaxLines] /\ \A g \in Generations : Py!NoBlocks[g] = 0
    BY <1>2, FilesOfInstances DEF Py!NoBlocks
  <2>1. Py!TailTypeOK
    BY <1>2, <1>5, <2>0, FilesOfInstances DEF Py!TailTypeOK
  <2>2. \A l \in Lines : got[l] = 0
    BY <1>5
  <2>3. PyPlace
    BY <1>2, <1>4, <1>5, <2>2 DEF PyPlace
  <2>4. PyBlocks /\ PyTwice /\ PyCursor
    BY <1>4, <1>5, <2>0, <2>2 DEF PyBlocks, PyTwice, PyCursor
  <2> QED BY <2>1, <2>3, <2>4 DEF PyInv
<1>7. /\ scans = [s \in Scans |-> Go!NoScan] /\ goPos = 0 /\ goSize = 0 /\ sniFlush = 0 /\ sniAcc = 0
      /\ goCursor = [gen |-> 1, pos |-> 0] /\ goGot = [l \in Lines |-> 0] /\ goDisturbed = 0
  BY FilesOfInstances DEF Init, Go!GoInit
<1>8. GoInv
  <2>1. Go!NoScan \in [at : {"idle", "opened", "flush", "sent"}, inode : Generations \union {0},
                       size : 0 .. MaxLines, carried : Nat] /\ Go!NoScan.at = "idle"
    BY <1>2 DEF Go!NoScan
  <2>2. Go!GoTypeOK
    <3>1. scans \in [Scans -> [at : {"idle", "opened", "flush", "sent"}, inode : Generations \union {0},
                               size : 0 .. MaxLines, carried : Nat]]
      BY <1>7, <2>1
    <3> QED BY <1>2, <1>7, <3>1, FilesOfInstances DEF Go!GoTypeOK
  <2>3. Go!UnderWay = {}
    BY <1>7, <2>1 DEF Go!UnderWay
  <2>4. GoPlace /\ GoCursor
    BY <1>2, <1>4, <1>7, <2>3 DEF GoPlace, GoCursor
  <2> QED BY <2>2, <2>4 DEF GoInv
<1> QED BY <1>3, <1>6, <1>8 DEF IInv, Init

\* Every line that is written, and every rotation, meets both readers.
LEMMA LogMoves ==
  ASSUME IInv, XrayWrites \/ LogrotateRuns
  PROVE  IInv'
<1>1. Write \/ Rotate
  BY DEF XrayWrites, LogrotateRuns
<1>2. LogOK(files) /\ PyInv /\ GoInv /\ installed \in Installed
  BY DEF IInv
<1>3. LogOK(files') /\ installed' = installed
  BY <1>1, <1>2, LogNext DEF XrayWrites, LogrotateRuns
<1>4. CASE XrayWrites
  <2>1. Write /\ Py!Unrotated /\ Go!UnrotatedGo /\ disturbed' = disturbed /\ goDisturbed' = goDisturbed
    BY <1>4 DEF XrayWrites, tailVars, goVars, Py!Unrotated, Go!UnrotatedGo
  <2>2. Current' = Current
    BY <1>2, <2>1, LogStep
  <2> QED BY <1>2, <1>3, <2>1, <2>2, PyWhenLogMoves, GoWhenLogMoves DEF IInv
<1>5. CASE LogrotateRuns
  <2>1. /\ Rotate /\ Py!Unrotated /\ Go!UnrotatedGo
        /\ disturbed' = IF pc = "idle" THEN disturbed ELSE 2
        /\ goDisturbed' = IF Go!UnderWay = {} THEN goDisturbed ELSE 2
    BY <1>5 DEF LogrotateRuns, Py!RotatedUnder, Go!RotatedUnderGo
  <2>2. pc # "idle" /\ disturbed' <= 1 => Current' = Current
    BY <2>1
  <2>3. Go!UnderWay # {} /\ goDisturbed' <= 1 => Current' = Current
    BY <2>1
  <2> QED BY <1>2, <1>3, <2>1, <2>2, <2>3, PyWhenLogMoves, GoWhenLogMoves DEF IInv
<1> QED BY <1>4, <1>5

LEMMA InvStep ==
  ASSUME IInv, [Next]_vars
  PROVE  IInv'
<1>1. LogOK(files) /\ PyInv /\ GoInv /\ installed \in Installed
  BY DEF IInv
<1>2. CASE XrayWrites \/ LogrotateRuns
  BY <1>2, LogMoves
<1>3. CASE PyScan
  <2>1. Py!Scan /\ installed' = installed /\ UNCHANGED goVars /\ files' = files
    BY <1>3 DEF PyScan, Py!Scan, Py!Stat, Py!OpenFile, Py!Read
  <2>2. PyInv'
    BY <1>1, <2>1, PyStat, PyOpenFile, PyRead DEF Py!Scan
  <2>3. GoInv'
    BY <1>1, <2>1, GoResting
  <2> QED BY <1>1, <2>1, <2>2, <2>3 DEF IInv
<1>4. CASE \E s \in Scans : GoScan(s)
  <2>1. PICK s \in Scans : GoScan(s)
    BY <1>4
  <2>2. Go!Step(s) /\ installed' = installed /\ UNCHANGED tailVars
    BY <2>1 DEF GoScan
  <2>3. files' = files
    BY <2>2 DEF Go!Step, Go!Open, Go!UpdateBlockStats, Go!FlushNewSNI, Go!LogMsg
  <2>4. GoInv'
    BY <1>1, <2>2, GoOpen, GoUpdate, GoHandsOver DEF Go!Step
  <2>5. PyInv'
    BY <1>1, <2>2, <2>3, PyResting
  <2> QED BY <1>1, <2>2, <2>3, <2>4, <2>5 DEF IInv
<1>5. CASE UNCHANGED vars
  <2>1. files' = files /\ installed' = installed /\ UNCHANGED tailVars /\ UNCHANGED goVars
    BY <1>5 DEF vars
  <2> QED BY <1>1, <2>1, PyResting, GoResting DEF IInv
<1> QED BY <1>2, <1>3, <1>4, <1>5 DEF Next
-----------------------------------------------------------------------------
(* The hits of the Go reader *)

Carried(sc) == [s \in Scans |-> sc[s].carried]

\* A scan carries hits only between the flush and the message: no step but the last adds
\* what it carries, and no step but the flush takes hits out of the map.
HitsInv ==
    /\ \A s \in Scans : scans[s].at # "sent" => scans[s].carried = 0
    /\ Count(goGot, Lines) = sniFlush + sniAcc + Count(Carried(scans), Scans)

LEMMA LinesFinite == IsFiniteSet(Lines)
<1>1. 1 \in Int /\ MaxRotations + 1 \in Int /\ MaxLines \in Int
  BY LogAssumption
<1>2. IsFiniteSet(Generations) /\ IsFiniteSet(1 .. MaxLines)
  BY <1>1, FS_Interval DEF Generations
<1> QED BY <1>2, FS_Product DEF Lines

LEMMA HitsFacts ==
  ASSUME LogOK(files), GoInv
  PROVE  /\ \A l \in Lines : goGot[l] \in Nat
         /\ \A s \in Scans : Carried(scans)[s] \in Nat /\ Carried(scans)[s] = scans[s].carried
         /\ Count(goGot, Lines) \in Nat /\ Count(Carried(scans), Scans) \in Nat
         /\ sniFlush \in Nat /\ sniAcc \in Nat
<1>1. /\ \A l \in Lines : goGot[l] \in Nat /\ sniFlush \in Nat /\ sniAcc \in Nat
      /\ \A s \in Scans : Carried(scans)[s] \in Nat /\ Carried(scans)[s] = scans[s].carried
  BY GoFacts DEF Carried
<1>2. sniFlush \in Nat /\ sniAcc \in Nat
  BY GoFacts
<1>3. Count(goGot, Lines) \in Nat /\ Count(Carried(scans), Scans) \in Nat
  BY <1>1, LinesFinite, ScansAssumption, AreaFinite
<1> QED BY <1>1, <1>2, <1>3

LEMMA HitsRead ==
  ASSUME NEW s \in Scans, LogOK(files), GoInv, HitsInv, Go!UpdateBlockStats(s)
  PROVE  HitsInv'
<1> DEFINE gen == GoGen(s)
           from == GoFrom(s)
           to == GoTo(s)
           T == {gen} \X (from + 1 .. to)
<1>1. /\ s \in Go!UnderWay /\ gen \in 1 .. Current /\ from \in 0 .. MaxLines /\ GoEnd(s) \in 0 .. MaxLines
      /\ scans' = [scans EXCEPT ![s] = [Go!NoScan EXCEPT !.at = "flush"]]
      /\ sniFlush' = sniFlush + (to - from) /\ sniAcc' = sniAcc
      /\ goGot' = [l \in Lines |-> IF l[1] = gen /\ l[2] \in from + 1 .. to THEN goGot[l] + 1 ELSE goGot[l]]
  BY GoReads
<1>2. MaxLines \in Nat /\ gen \in Generations
  BY <1>1, LogNow
<1>3. from \in Nat /\ to \in Nat /\ from <= to /\ to <= MaxLines
  BY <1>1, <1>2 DEF GoTo
<1> HIDE DEF from, to, gen
<1>4. T \in SUBSET Lines
  BY <1>2, <1>3 DEF Lines
<1>5. Cardinality(T) = to - from
  <2>1. IsFiniteSet({gen}) /\ Cardinality({gen}) = 1
    BY FS_Singleton
  <2>2. from + 1 \in Int /\ to \in Int
    BY <1>3
  <2> DEFINE I == from + 1 .. to
  <2>3. IsFiniteSet(I) /\ Cardinality(I) = IF from + 1 > to THEN 0 ELSE to - (from + 1) + 1
    BY <2>2, FS_Interval
  <2> HIDE DEF I
  <2>4. Cardinality(I) = to - from
    BY <1>3, <2>3
  <2>5. Cardinality({gen} \X I) = 1 * Cardinality(I)
    BY <2>1, <2>3, FS_Product
  <2>6. Cardinality(T) = Cardinality({gen} \X I)
    BY DEF I
  <2> HIDE DEF T
  <2> QED BY <1>3, <2>4, <2>5, <2>6
<1>6. Count(goGot', Lines) = Count(goGot, Lines) + Cardinality(T)
  <2>1. \A l \in T : goGot'[l] = goGot[l] + 1
    BY <1>1, <1>4
  <2>2. \A l \in Lines \ T : goGot'[l] = goGot[l]
    BY <1>1 DEF Lines
  <2>3. \A l \in Lines : goGot[l] \in Nat
    BY HitsFacts
  <2> HIDE DEF T
  <2> QED BY <1>4, <2>1, <2>2, <2>3, LinesFinite, CountGrows
<1>7. Carried(scans') = Carried(scans) /\ \A t \in Scans : scans'[t].at # "sent" => scans'[t].carried = 0
  <2>1. scans[s].at = "opened" /\ scans[s].carried = 0
    BY <1>1, GoFacts DEF HitsInv
  <2>2. DOMAIN scans = Scans
    BY DEF GoInv, Go!GoTypeOK
  <2>3. scans'[s].at = "flush" /\ scans'[s].carried = 0 /\ \A t \in Scans \ {s} : scans'[t] = scans[t]
    BY <1>1, <2>2 DEF Go!NoScan
  <2> QED BY <2>1, <2>3 DEF HitsInv, Carried
<1> HIDE DEF T
<1>8. Count(goGot', Lines) = sniFlush' + sniAcc' + Count(Carried(scans'), Scans)
  <2>1. Count(goGot, Lines) = sniFlush + sniAcc + Count(Carried(scans), Scans)
    BY DEF HitsInv
  <2>2. /\ Count(goGot, Lines) \in Nat /\ Count(Carried(scans), Scans) \in Nat
        /\ sniFlush \in Nat /\ sniAcc \in Nat
    BY HitsFacts
  <2>3. sniFlush' = sniFlush + (to - from) /\ sniAcc' = sniAcc
    BY <1>1
  <2> QED BY <1>3, <1>5, <1>6, <1>7, <2>1, <2>2, <2>3
<1> QED BY <1>7, <1>8 DEF HitsInv

\* A scan takes what the map holds, then the interface takes what it carries.
LEMMA HitsHandedOver ==
  ASSUME NEW s \in Scans, LogOK(files), GoInv, HitsInv, Go!FlushNewSNI(s) \/ Go!LogMsg(s)
  PROVE  HitsInv'
<1>1. /\ Count(goGot, Lines) = sniFlush + sniAcc + Count(Carried(scans), Scans)
      /\ Count(Carried(scans), Scans) \in Nat /\ sniFlush \in Nat /\ sniAcc \in Nat
      /\ \A t \in Scans : Carried(scans)[t] \in Nat /\ Carried(scans)[t] = scans[t].carried
  BY HitsFacts DEF HitsInv
<1>2. DOMAIN scans = Scans /\ DOMAIN scans[s] = {"at", "inode", "size", "carried"}
  <2>1. scans \in [Scans -> [at : {"idle", "opened", "flush", "sent"}, inode : Generations \union {0},
                             size : 0 .. MaxLines, carried : Nat]]
    BY FilesOfInstances DEF GoInv, Go!GoTypeOK
  <2> QED BY <2>1
<1>3. goGot' = goGot
  BY DEF Go!FlushNewSNI, Go!LogMsg
<1>4. /\ \A t \in Scans \ {s} : scans'[t] = scans[t]
      /\ scans'[s].carried \in Nat /\ (scans'[s].at = "sent" \/ scans'[s].carried = 0)
      /\ sniFlush' + sniAcc' + scans'[s].carried = sniFlush + sniAcc + scans[s].carried
      /\ sniFlush' \in Nat /\ sniAcc' \in Nat
  <2>1. CASE Go!FlushNewSNI(s)
    <3>1. scans[s].carried = 0
      BY <2>1 DEF Go!FlushNewSNI, HitsInv
    <3>2. /\ \A t \in Scans \ {s} : scans'[t] = scans[t]
          /\ scans'[s].carried = sniFlush /\ scans'[s].at = "sent"
      BY <1>2, <2>1 DEF Go!FlushNewSNI
    <3>3. sniFlush' = 0 /\ sniAcc' = sniAcc
      BY <2>1 DEF Go!FlushNewSNI, Go!Swapped
    <3> QED BY <1>1, <3>1, <3>2, <3>3
  <2>2. CASE Go!LogMsg(s)
    <3>1. /\ \A t \in Scans \ {s} : scans'[t] = scans[t]
          /\ scans'[s].carried = 0
      BY <1>2, <2>2 DEF Go!LogMsg, Go!NoScan
    <3>2. sniFlush' = sniFlush /\ sniAcc' = sniAcc + scans[s].carried
      BY <2>2 DEF Go!LogMsg
    <3>3. scans[s].carried \in Nat
      BY <1>1
    <3> QED BY <1>1, <3>1, <3>2, <3>3
  <2> QED BY <2>1, <2>2
<1>5. Count(Carried(scans'), Scans) + scans[s].carried = Count(Carried(scans), Scans) + scans'[s].carried
      /\ Count(Carried(scans'), Scans) \in Nat
  <2> DEFINE f == Carried(scans)
             h == Carried(scans')
  <2>1. h[s] = scans'[s].carried /\ f[s] = scans[s].carried
    BY DEF Carried
  <2>2. \A t \in Scans \ {s} : h[t] = f[t]
    BY <1>4 DEF Carried
  <2>3. \A t \in Scans : f[t] \in Nat /\ h[t] \in Nat
    BY <1>1, <1>4, <2>1, <2>2
  <2> HIDE DEF f, h
  <2>4. Count(h, Scans) + f[s] = Count(f, Scans) + h[s] /\ Count(h, Scans) \in Nat
    BY <2>2, <2>3, ScansAssumption, CountChanges
  <2> QED BY <2>1, <2>4 DEF f, h
<1>6. Count(goGot', Lines) = sniFlush' + sniAcc' + Count(Carried(scans'), Scans)
  <2>1. scans[s].carried \in Nat /\ scans'[s].carried \in Nat
    BY <1>1, <1>4
  <2>2. sniFlush' + sniAcc' + scans'[s].carried = sniFlush + sniAcc + scans[s].carried
        /\ sniFlush' \in Nat /\ sniAcc' \in Nat
    BY <1>4
  <2>3. Count(goGot', Lines) = sniFlush + sniAcc + Count(Carried(scans), Scans)
        /\ Count(Carried(scans), Scans) \in Nat /\ sniFlush \in Nat /\ sniAcc \in Nat
    BY <1>1, <1>3
  <2> QED BY <1>5, <2>1, <2>2, <2>3
<1>7. \A t \in Scans : scans'[t].at # "sent" => scans'[t].carried = 0
  BY <1>4 DEF HitsInv
<1> QED BY <1>6, <1>7 DEF HitsInv

LEMMA HitsOpened ==
  ASSUME NEW s \in Scans, LogOK(files), GoInv, HitsInv, Go!Open(s)
  PROVE  HitsInv'
<1>1. DOMAIN scans = Scans
  BY DEF GoInv, Go!GoTypeOK
<1>2. /\ scans'[s].at = "opened" /\ scans'[s].carried = 0 /\ \A t \in Scans \ {s} : scans'[t] = scans[t]
      /\ scans[s].at = "idle" /\ goGot' = goGot /\ sniFlush' = sniFlush /\ sniAcc' = sniAcc
  BY <1>1 DEF Go!Open, Go!NoScan
<1>3. Carried(scans') = Carried(scans)
  BY <1>2 DEF HitsInv, Carried
<1> QED BY <1>2, <1>3 DEF HitsInv

LEMMA HitsInit ==
  ASSUME Init
  PROVE  HitsInv
<1>1. goGot = [l \in Lines |-> 0] /\ sniFlush = 0 /\ sniAcc = 0 /\ scans = [s \in Scans |-> Go!NoScan]
  BY FilesOfInstances DEF Init, Go!GoInit
<1>2. \A s \in Scans : scans[s].carried = 0
  BY <1>1 DEF Go!NoScan
<1>3. Count(goGot, Lines) = 0
  <2>1. \A l \in Lines : goGot[l] = 0
    BY <1>1
  <2> QED BY <2>1, CountOfNothing
<1>4. Count(Carried(scans), Scans) = 0
  <2>1. \A s \in Scans : Carried(scans)[s] = 0
    BY <1>2 DEF Carried
  <2> QED BY <2>1, CountOfNothing
<1> QED BY <1>1, <1>2, <1>3, <1>4 DEF HitsInv

LEMMA HitsStep ==
  ASSUME IInv, HitsInv, [Next]_vars
  PROVE  HitsInv'
<1>1. ASSUME UNCHANGED <<scans, goGot, sniFlush, sniAcc>> PROVE HitsInv'
  BY <1>1 DEF HitsInv
<1>2. CASE XrayWrites \/ LogrotateRuns \/ PyScan \/ UNCHANGED vars
  BY <1>1, <1>2 DEF XrayWrites, LogrotateRuns, PyScan, Go!UnrotatedGo, vars, goVars
<1>3. ASSUME NEW s \in Scans, GoScan(s) PROVE HitsInv'
  <2>1. LogOK(files) /\ GoInv /\ Go!Step(s)
    BY <1>3 DEF IInv, GoScan
  <2> QED BY <2>1, HitsOpened, HitsRead, HitsHandedOver DEF Go!Step
<1> QED BY <1>2, <1>3 DEF Next

\* The sums of HitsConserved are the ones that are counted here.
LEMMA HitsAreCounted ==
  ASSUME LogOK(files), GoInv
  PROVE  HitsConserved <=> Count(goGot, Lines) = sniFlush + sniAcc + Count(Carried(scans), Scans)
<1>1. MapThenSumSet(LAMBDA l : goGot[l], Lines) = Sum(goGot, Lines)
  BY DEF MapThenSumSet, MapThenFoldSet, Sum, Sums
<1>2. MapThenSumSet(LAMBDA s : scans[s].carried, Scans) = Sum(Carried(scans), Scans)
  BY DEF MapThenSumSet, MapThenFoldSet, Sum, Sums, Carried
<1>3. HitsConserved <=> MapThenSumSet(LAMBDA l : goGot[l], Lines)
                            = sniFlush + sniAcc + MapThenSumSet(LAMBDA s : scans[s].carried, Scans)
  BY FilesOfInstances DEF HitsConserved, Go!HitsConserved, Go!MapThenSumSet, MapThenSumSet,
                          Go!MapThenFoldSet, MapThenFoldSet
<1>4. Sum(goGot, Lines) = Count(goGot, Lines)
  BY HitsFacts, LinesFinite, SumIsCount
<1>5. Sum(Carried(scans), Scans) = Count(Carried(scans), Scans)
  BY HitsFacts, ScansAssumption, SumIsCount
<1> QED BY <1>1, <1>2, <1>3, <1>4, <1>5
-----------------------------------------------------------------------------
(* Each reader implements LineFeed *)

LEMMA FilesOfFeeds ==
  /\ PyFeed!Lines = Lines /\ GoFeed!Lines = Lines
  /\ LogInit => PyFeed!LogInit /\ GoFeed!LogInit
  /\ Write => PyFeed!Write /\ GoFeed!Write
  /\ Rotate => PyFeed!Rotate /\ GoFeed!Rotate
<1>1. PyFeed!Current = Current /\ GoFeed!Current = Current
  BY DEF PyFeed!Current, GoFeed!Current, Current
<1>2. PyFeed!Lines = Lines /\ GoFeed!Lines = Lines
  BY DEF PyFeed!Lines, GoFeed!Lines, Lines, PyFeed!Generations, GoFeed!Generations, Generations
<1>3. LogInit => PyFeed!LogInit /\ GoFeed!LogInit
  BY DEF PyFeed!LogInit, GoFeed!LogInit, LogInit
<1>4. Write => PyFeed!Write /\ GoFeed!Write
  BY <1>1 DEF PyFeed!Write, GoFeed!Write, Write, PyFeed!MapThenSumSet, GoFeed!MapThenSumSet, MapThenSumSet,
              PyFeed!MapThenFoldSet, GoFeed!MapThenFoldSet, MapThenFoldSet
<1>5. Rotate => PyFeed!Rotate /\ GoFeed!Rotate
  BY <1>1 DEF PyFeed!Rotate, GoFeed!Rotate, Rotate, PyFeed!Rename, GoFeed!Rename, Rename,
              PyFeed!Truncate, GoFeed!Truncate, Truncate, PyFeed!Begin, GoFeed!Begin, Begin
<1> QED BY <1>2, <1>3, <1>4, <1>5

\* The last step of a scan delivers what it has read, or nothing.
LEMMA PyReadDelivers ==
  ASSUME LogOK(files), PyInv, Py!Read
  PROVE  [PyFeed!Next]_PyFeed!feedVars
<1> DEFINE gen == PyGen
           from == PyFrom
           to == PyTo
<1>1. /\ pc = "seek" /\ gen \in 1 .. Current /\ files[gen].inode = opened /\ to = files[gen].len
      /\ from \in 0 .. MaxLines /\ to \in 0 .. MaxLines
      /\ got' = [l \in Lines |-> IF l[1] = gen /\ l[2] \in from + 1 .. to THEN got[l] + 1 ELSE got[l]]
      /\ cursor' = IF to > from THEN [gen |-> gen, pos |-> to] ELSE cursor
      /\ disturbed' = IF disturbed > 0 THEN disturbed - 1 ELSE 0
      /\ files' = files
  BY PyReads
<1>2. gen = Latest(files, opened)
  BY DEF PyGen
<1>3. from = IF lastPos = 0 THEN IF size > Window THEN size - Window ELSE 0 ELSE lastPos
  BY DEF PyFrom
<1> HIDE DEF gen, from, to
<1>4. (disturbed' > 0) = (disturbed > 0) \/ (disturbed' > 0) = FALSE
  BY <1>1, PyFacts
<1>5. CASE to > from
  <2>1. got' = PyFeed!Delivered(gen, from, to)
    <3>1. \A l \in Lines : l \in {gen} \X (from + 1 .. to) <=> l[1] = gen /\ l[2] \in from + 1 .. to
      BY DEF Lines
    <3>2. PyFeed!Delivered(gen, from, to)
            = [l \in Lines |-> IF l[1] = gen /\ l[2] \in from + 1 .. to THEN got[l] + 1 ELSE got[l]]
      BY <3>1, FilesOfFeeds DEF PyFeed!Delivered, PyFeed!Segment
    <3> QED BY <1>1, <3>2
  <2>2. ASSUME disturbed = 0 PROVE PyFeed!Starts(gen, from, to)
    <3>1. /\ lastInode = Inode /\ opened = Inode /\ lastSize <= Length
          /\ lastPos > 0 => lastPos = cursor.pos /\ lastInode = files[cursor.gen].inode
          /\ lastPos = 0 => cursor.pos = 0 \/ cursor.gen < Current
      BY <1>1, <2>2 DEF PyInv, PyCursor
    <3>2. gen = Current /\ to = Length /\ files[gen].inode = Inode /\ size = lastSize
      BY <1>1, <1>2, <3>1, LogNow DEF PyInv, PyPlace, Length
    <3>3. cursor.gen \in 1 .. Current /\ (cursor.gen = gen \/ gen > cursor.gen)
      BY <3>2, LogNow DEF PyInv, PyPlace
    <3>4. CASE lastPos > 0
      <4>1. from = cursor.pos /\ files[gen].inode = files[cursor.gen].inode
        BY <1>3, <3>1, <3>2, <3>4
      <4> QED BY <3>3, <4>1 DEF PyFeed!Starts, PyFeed!Kept
    <3>5. CASE lastPos = 0 /\ size > Window
      <4>1. from = size - Window /\ size <= to /\ size \in Nat /\ Window \in Nat
        BY <1>3, <3>1, <3>2, <3>5, PyFacts, LogNow, WindowAssumption
      <4>2. to - from >= Window
        BY <1>1, <4>1, LogNow
      <4>3. gen > cursor.gen \/ cursor.pos = 0
        BY <3>1, <3>2, <3>3, <3>5
      <4> QED BY <4>2, <4>3 DEF PyFeed!Starts
    <3>6. CASE lastPos = 0 /\ ~(size > Window)
      <4>1. from = 0
        BY <1>3, <3>6
      <4> QED BY <3>1, <3>2, <3>3, <3>6, <4>1 DEF PyFeed!Starts
    <3> QED BY <3>4, <3>5, <3>6, PyFacts, LogNow
  <2>3. disturbed > 0 \/ PyFeed!Starts(gen, from, to)
    BY <2>2, PyFacts
  <2>4. gen \in DOMAIN files /\ from < to /\ to <= files[gen].len
    BY <1>1, <1>5, LogNow
  <2>5. PyFeed!Deliver
    BY <1>1, <1>4, <1>5, <2>1, <2>3, <2>4 DEF PyFeed!Deliver
  <2> QED BY <2>5 DEF PyFeed!Next
<1>6. CASE ~(to > from)
  <2>1. cursor' = cursor
    BY <1>1, <1>6
  <2>2. got' = got
    <3>1. \A l \in Lines : ~(l[2] \in from + 1 .. to)
      BY <1>1, <1>6, LogNow DEF Lines
    <3>2. got' = [l \in Lines |-> got[l]]
      BY <1>1, <3>1
    <3>3. got \in [Lines -> Nat]
      BY PyFacts
    <3> QED BY <3>2, <3>3
  <2>3. CASE (disturbed' > 0) = (disturbed > 0)
    BY <1>1, <2>1, <2>2, <2>3 DEF PyFeed!feedVars
  <2>4. CASE ~((disturbed' > 0) = (disturbed > 0))
    BY <1>1, <2>1, <2>2, <2>4 DEF PyFeed!Next, PyFeed!Disturbance
  <2> QED BY <2>3, <2>4
<1> QED BY <1>5, <1>6

LEMMA PyFeedStep ==
  ASSUME IInv, [Next]_vars
  PROVE  [PyFeed!Next]_PyFeed!feedVars
<1>1. LogOK(files) /\ PyInv
  BY DEF IInv
<1>2. CASE XrayWrites
  <2>1. Write /\ cursor' = cursor /\ got' = got /\ disturbed' = disturbed
    BY <1>2 DEF XrayWrites, tailVars
  <2> QED BY <2>1, FilesOfFeeds DEF PyFeed!Next, PyFeed!FeedWrite
<1>3. CASE LogrotateRuns
  <2>1. Rotate /\ cursor' = cursor /\ got' = got
        /\ disturbed' = IF pc = "idle" THEN disturbed ELSE 2
    BY <1>3 DEF LogrotateRuns, Py!RotatedUnder, Py!Unrotated
  <2>2. (disturbed' > 0) = (disturbed > 0) \/ (disturbed' > 0) = TRUE
    BY <2>1
  <2> QED BY <2>1, <2>2, FilesOfFeeds DEF PyFeed!Next, PyFeed!FeedRotate
<1>4. CASE PyScan
  <2>1. CASE Py!Stat \/ Py!OpenFile
    BY <2>1 DEF Py!Stat, Py!OpenFile, PyFeed!feedVars
  <2>2. CASE Py!Read
    BY <1>1, <2>2, PyReadDelivers
  <2> QED BY <1>4, <2>1, <2>2 DEF PyScan, Py!Scan
<1>5. CASE \E s \in Scans : GoScan(s)
  <2>1. PICK s \in Scans : GoScan(s)
    BY <1>5
  <2>2. Go!Step(s) /\ UNCHANGED tailVars
    BY <2>1 DEF GoScan
  <2>3. files' = files
    BY <2>2 DEF Go!Step, Go!Open, Go!UpdateBlockStats, Go!FlushNewSNI, Go!LogMsg
  <2> QED BY <2>2, <2>3 DEF tailVars, PyFeed!feedVars
<1>6. CASE UNCHANGED vars
  BY <1>6 DEF vars, tailVars, PyFeed!feedVars
<1> QED BY <1>2, <1>3, <1>4, <1>5, <1>6 DEF Next

\* A scan of the Go reader delivers what it has read, or nothing.
LEMMA GoReadDelivers ==
  ASSUME NEW s \in Scans, LogOK(files), GoInv, Go!UpdateBlockStats(s)
  PROVE  [GoFeed!Next]_GoFeed!feedVars
<1> DEFINE gen == GoGen(s)
           from == GoFrom(s)
           end == GoEnd(s)
           to == GoTo(s)
           size1 == scans[s].size
<1>1. /\ s \in Go!UnderWay /\ gen \in 1 .. Current
      /\ from \in 0 .. MaxLines /\ end \in 0 .. MaxLines
      /\ goGot' = [l \in Lines |-> IF l[1] = gen /\ l[2] \in from + 1 .. to THEN goGot[l] + 1 ELSE goGot[l]]
      /\ goCursor' = IF to > from THEN [gen |-> gen, pos |-> to] ELSE goCursor
      /\ goDisturbed' = IF Go!UnderWay = {s} THEN IF goDisturbed > 0 THEN goDisturbed - 1 ELSE 0
                        ELSE goDisturbed
      /\ files' = files
  BY GoReads
<1>2. gen = Latest(files, scans[s].inode)
  BY DEF GoGen
<1>3. to = IF from >= end THEN from ELSE end
  BY DEF GoTo
<1>4. end = IF size1 <= files[gen].len THEN size1 ELSE files[gen].len
  BY DEF GoEnd
<1>5. from = IF size1 < goSize THEN 0
             ELSE IF goPos = 0 THEN IF size1 > Window THEN size1 - Window ELSE 0
             ELSE goPos
  BY DEF GoFrom
<1>6. size1 \in 0 .. MaxLines
  BY <1>1, GoFacts
<1> HIDE DEF gen, from, end, to, size1
<1>7. (goDisturbed' > 0) = (goDisturbed > 0) \/ (goDisturbed' > 0) = FALSE
  BY <1>1, GoFacts
<1>8. CASE to > from
  <2>1. goGot' = GoFeed!Delivered(gen, from, to)
    <3>1. \A l \in Lines : l \in {gen} \X (from + 1 .. to) <=> l[1] = gen /\ l[2] \in from + 1 .. to
      BY DEF Lines
    <3>2. GoFeed!Delivered(gen, from, to)
            = [l \in Lines |-> IF l[1] = gen /\ l[2] \in from + 1 .. to THEN goGot[l] + 1 ELSE goGot[l]]
      BY <3>1, FilesOfFeeds DEF GoFeed!Delivered, GoFeed!Segment
    <3> QED BY <1>1, <3>2
  <2>2. to = end /\ to \in 0 .. MaxLines /\ to <= files[gen].len
    BY <1>1, <1>3, <1>4, <1>6, <1>8, LogNow
  <2>3. ASSUME goDisturbed = 0 PROVE GoFeed!Starts(gen, from, to)
    <3>1. /\ scans[s].inode = Inode /\ size1 <= Length
          /\ goPos > 0 => goPos = goCursor.pos
          /\ goPos = 0 => goCursor.pos = 0 \/ goCursor.gen < Current
          /\ goCursor.gen = Current /\ goCursor.pos > 0 => goSize <= size1
      BY <1>1, <2>3 DEF GoInv, GoCursor, size1
    <3>2. gen = Current /\ to = size1
      BY <1>2, <1>4, <2>2, <3>1, LogNow DEF Length
    <3>3. goCursor.gen \in 1 .. Current /\ (goCursor.gen = gen \/ gen > goCursor.gen)
      BY <3>2, LogNow DEF GoInv, GoPlace
    <3>4. CASE size1 < goSize
      <4>1. from = 0 /\ (goCursor.gen = Current => goCursor.pos = 0)
        BY <1>5, <1>6, <3>1, <3>4, GoFacts, LogNow
      <4> QED BY <3>2, <3>3, <4>1 DEF GoFeed!Starts
    <3>5. CASE ~(size1 < goSize) /\ goPos > 0
      <4>1. from = goCursor.pos
        BY <1>5, <3>1, <3>5
      <4> QED BY <3>3, <4>1 DEF GoFeed!Starts, GoFeed!Kept
    <3>6. CASE ~(size1 < goSize) /\ goPos = 0 /\ size1 > Window
      <4>1. to - from >= Window
        BY <1>5, <1>6, <3>2, <3>6, WindowAssumption, LogNow
      <4>2. gen > goCursor.gen \/ goCursor.pos = 0
        BY <3>1, <3>2, <3>3, <3>6
      <4> QED BY <4>1, <4>2 DEF GoFeed!Starts
    <3>7. CASE ~(size1 < goSize) /\ goPos = 0 /\ ~(size1 > Window)
      <4>1. from = 0
        BY <1>5, <3>7
      <4> QED BY <3>1, <3>2, <3>3, <3>7, <4>1 DEF GoFeed!Starts
    <3> QED BY <3>4, <3>5, <3>6, <3>7, GoFacts, LogNow
  <2>4. goDisturbed > 0 \/ GoFeed!Starts(gen, from, to)
    BY <2>3, GoFacts
  <2>5. gen \in DOMAIN files /\ from < to
    BY <1>1, <1>8, <2>2, LogNow
  <2>6. GoFeed!Deliver
    BY <1>1, <1>7, <1>8, <2>1, <2>2, <2>4, <2>5 DEF GoFeed!Deliver
  <2> QED BY <2>6 DEF GoFeed!Next
<1>9. CASE ~(to > from)
  <2>1. goCursor' = goCursor
    BY <1>1, <1>9
  <2>2. goGot' = goGot
    <3>1. to \in Nat /\ from \in Nat
      BY <1>1, <1>3, LogNow
    <3>2. \A l \in Lines : ~(l[2] \in from + 1 .. to)
      BY <1>9, <3>1, LogNow DEF Lines
    <3>3. goGot' = [l \in Lines |-> goGot[l]]
      BY <1>1, <3>2
    <3>4. goGot \in [Lines -> Nat]
      BY GoFacts
    <3> QED BY <3>3, <3>4
  <2>3. CASE (goDisturbed' > 0) = (goDisturbed > 0)
    BY <1>1, <2>1, <2>2, <2>3 DEF GoFeed!feedVars
  <2>4. CASE ~((goDisturbed' > 0) = (goDisturbed > 0))
    BY <1>1, <2>1, <2>2, <2>4 DEF GoFeed!Next, GoFeed!Disturbance
  <2> QED BY <2>3, <2>4
<1> QED BY <1>8, <1>9

LEMMA GoFeedStep ==
  ASSUME IInv, [Next]_vars
  PROVE  [GoFeed!Next]_GoFeed!feedVars
<1>1. LogOK(files) /\ GoInv
  BY DEF IInv
<1>2. CASE XrayWrites
  <2>1. Write /\ goCursor' = goCursor /\ goGot' = goGot /\ goDisturbed' = goDisturbed
    BY <1>2 DEF XrayWrites, goVars
  <2> QED BY <2>1, FilesOfFeeds DEF GoFeed!Next, GoFeed!FeedWrite
<1>3. CASE LogrotateRuns
  <2>1. Rotate /\ goCursor' = goCursor /\ goGot' = goGot
        /\ goDisturbed' = IF Go!UnderWay = {} THEN goDisturbed ELSE 2
    BY <1>3 DEF LogrotateRuns, Go!RotatedUnderGo, Go!UnrotatedGo
  <2>2. (goDisturbed' > 0) = (goDisturbed > 0) \/ (goDisturbed' > 0) = TRUE
    BY <2>1
  <2> QED BY <2>1, <2>2, FilesOfFeeds DEF GoFeed!Next, GoFeed!FeedRotate
<1>4. CASE PyScan
  <2>1. files' = files /\ UNCHANGED goVars
    BY <1>4 DEF PyScan, Py!Scan, Py!Stat, Py!OpenFile, Py!Read
  <2> QED BY <2>1 DEF goVars, GoFeed!feedVars
<1>5. CASE \E s \in Scans : GoScan(s)
  <2>1. PICK s \in Scans : GoScan(s)
    BY <1>5
  <2>2. CASE Go!Open(s)
    <3>1. files' = files /\ goCursor' = goCursor /\ goGot' = goGot
      BY <2>2 DEF Go!Open
    <3>2. CASE (goDisturbed' > 0) = (goDisturbed > 0)
      BY <3>1, <3>2 DEF GoFeed!feedVars
    <3>3. CASE ~((goDisturbed' > 0) = (goDisturbed > 0))
      BY <3>1, <3>3 DEF GoFeed!Next, GoFeed!Disturbance
    <3> QED BY <3>2, <3>3
  <2>3. CASE Go!UpdateBlockStats(s)
    BY <1>1, <2>3, GoReadDelivers
  <2>4. CASE Go!FlushNewSNI(s) \/ Go!LogMsg(s)
    <3>1. files' = files /\ goCursor' = goCursor /\ goGot' = goGot /\ goDisturbed' = goDisturbed
      BY <1>1, <2>4, GoHandsOver
    <3> QED BY <3>1 DEF GoFeed!feedVars
  <2> QED BY <2>1, <2>2, <2>3, <2>4 DEF GoScan, Go!Step
<1>6. CASE UNCHANGED vars
  BY <1>6 DEF vars, goVars, GoFeed!feedVars
<1> QED BY <1>2, <1>3, <1>4, <1>5, <1>6 DEF Next

LEMMA FeedInit ==
  ASSUME Init
  PROVE  PyFeed!Init /\ GoFeed!Init
BY FilesOfFeeds, FilesOfInstances DEF Init, Py!TailInit, Go!GoInit, PyFeed!Init, GoFeed!Init
-----------------------------------------------------------------------------
(* Theorems *)

LEMMA Invariance ==
  Spec => []IInv
BY InvInit, InvStep, PTL DEF Spec

\* Positions, sizes, generations and counters stay in their ranges, in the log and in both
\* readers, whatever the log does between the calls of a scan.
THEOREM TypeCorrect ==
  Spec => []TypeOK
<1>1. IInv => TypeOK
  BY DEF IInv, LogOK, PyInv, GoInv, TypeOK, LogTypeOK, Current
<1> QED BY <1>1, Invariance, PTL

\* However rotations meet the scans of the Python reader, it counts no line three times: a
\* line that was counted again belongs to a log whose inode is known by then.
THEOREM NoThirdCount ==
  Spec => []AtMostTwice
<1>1. IInv => AtMostTwice
  BY FilesOfInstances DEF IInv, PyInv, PyTwice, AtMostTwice, Py!AtMostTwice
<1> QED BY <1>1, Invariance, PTL

\* Between scans the block counter of the Python reader counts no line twice and, unless the
\* last scan met a rotation, nothing that was read from a file that is renamed by now: the
\* scan that finds another inode, or a shorter file, starts it anew.
THEOREM BlocksOfOneFile ==
  Spec => []BlocksOfThisFile
<1>1. IInv => BlocksOfThisFile
  <2>1. ASSUME IInv, pc = "idle", NEW g \in DOMAIN files, blockTotal[g] > 0
        PROVE  blockTotal[g] <= files[g].len /\ (disturbed = 0 => files[g].inode = lastInode)
    <3>1. g \in Generations
      <4>1. LogOK(files)
        BY <2>1 DEF IInv
      <4> QED BY <2>1, <4>1, LogNow
    <3> QED BY <2>1, <3>1 DEF IInv, PyInv, PyBlocks, BlocksOf
  <2> QED BY <2>1, FilesOfInstances DEF BlocksOfThisFile, Py!BlocksOfThisFile
<1> QED BY <1>1, Invariance, PTL

\* Every hit that a scan of the Go reader has counted is in its map, with one message or in
\* the table of the interface, once: commands overlap, a scan may take the hits of another,
\* and messages overtake each other, but no hit is left behind or handed over twice.
THEOREM NoHitLost ==
  Spec => []HitsConserved
<1>1. Init => HitsInv
  BY HitsInit
<1>2. IInv /\ HitsInv /\ [Next]_vars => HitsInv'
  BY HitsStep
<1>3. IInv /\ HitsInv => HitsConserved
  BY HitsAreCounted DEF IInv, HitsInv
<1> QED BY <1>1, <1>2, <1>3, Invariance, PTL DEF Spec

\* The Python reader implements LineFeed: no gap and nothing twice, but with the scan that a
\* rotation meets and the one after it.
THEOREM PyRefines ==
  Spec => PyImplementsFeed
BY Invariance, FeedInit, PyFeedStep, PTL DEF Spec, PyImplementsFeed, PyFeed!Spec

\* The Go reader implements LineFeed, without telling a renamed log that has grown, and but
\* with scans that overlap or meet a rotation and the one after them.
THEOREM GoRefines ==
  Spec => GoImplementsFeed
BY Invariance, FeedInit, GoFeedStep, PTL DEF Spec, GoImplementsFeed, GoFeed!Spec
=============================================================================
