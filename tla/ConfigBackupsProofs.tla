------------------------ MODULE ConfigBackupsProofs -------------------------
(***************************************************************************)
(* Proofs about ConfigBackups: the cached configuration is the file, no    *)
(* replaced configuration is lost, and a rollback installs the newest      *)
(* backup, for any clock, any number of versions and of backups kept.      *)
(*                                                                         *)
(* A backup is made of what is in the file, in the present second.  So no  *)
(* backup is newer than the clock, and pruning keeps the one just made.    *)
(***************************************************************************)
EXTENDS ConfigBackups, FiniteSetTheorems, WellFoundedInduction, TLAPS

\* No backup is newer than the clock.
Clocked == \A s \in DOMAIN backups : s <= now

\* What a command has saved is in its backup as long as the command runs.
Saved == op.saved # Never =>
    ui \in {"nano", "copy"} /\ op.at \in DOMAIN backups /\ backups[op.at] = op.saved

\* A replaced version is in a backup that is no older than the one made of it then, or only
\* newer ones are left.
KeptIn(b, r) ==
    \A v \in DOMAIN r :
        \/ \E s \in DOMAIN b : b[s] = v /\ r[v] <= s
        \/ Cardinality(DOMAIN b) >= Keep /\ \A s \in DOMAIN b : r[v] < s
Kept == events \intersect {"same_second", "backup_failed"} = {} => KeptIn(backups, replaced)

\* The list is what is in the directory, and the backup that a rollback has chosen is the
\* one that was the newest, and has passed the check.
Unusual == {"stale_list", "client_deleted", "delete_failed", "backup_failed", "same_second"}
ListKnown == listedAt # Never => listing = DOMAIN backups
Chosen ==
    /\ ui = "check" => op.bak \in DOMAIN backups /\ backups[op.bak] = wanted
    /\ ui = "copy" /\ op.bak \in DOMAIN backups =>
            backups[op.bak] = wanted /\ ("unchecked" \in events \/ Valid(backups[op.bak]))
Rolling == events \intersect Unusual = {} => ListKnown /\ Chosen

IInv == TypeOK /\ Clocked /\ Saved /\ CacheIsFile /\ Kept /\ Rolling
-----------------------------------------------------------------------------
(* Greatest elements, functions with one more argument, and pruning *)

LEMMA MaxExists ==
  ASSUME NEW n \in Nat, NEW S \in SUBSET (1 .. n), S # {}
  PROVE  /\ Max(S) \in S /\ \A x \in S : x <= Max(S)
<1> DEFINE T == {n - x : x \in S}
           R == OpToRel(<, Nat)
<1>1. T \subseteq Nat /\ T # {}
  <2>1. ASSUME NEW x \in S PROVE n - x \in Nat
    OBVIOUS
  <2>2. T \subseteq Nat
    BY <2>1
  <2>3. PICK x \in S : TRUE
    OBVIOUS
  <2>4. n - x \in T
    OBVIOUS
  <2> QED BY <2>2, <2>4
<1>2. PICK m \in T : \A y \in T : ~(<<y, m>> \in R)
  <2>1. IsWellFoundedOn(R, Nat)
    BY NatLessThanWellFounded
  <2> HIDE DEF R, T
  <2> QED BY <1>1, <2>1, WFMin
<1>3. \A y \in T : ~(y < m)
  BY <1>1, <1>2 DEF OpToRel
<1>4. PICK x \in S : m = n - x
  OBVIOUS
<1>5. ASSUME NEW y \in S PROVE x >= y
  <2>1. n - y \in T
    OBVIOUS
  <2>2. ~(n - y < n - x)
    BY <1>3, <1>4, <2>1
  <2>3. x \in Nat /\ y \in Nat
    OBVIOUS
  <2> HIDE DEF T, R
  <2> QED BY <2>2, <2>3
<1>6. Max(S) \in S /\ \A y \in S : Max(S) >= y
  <2> HIDE DEF T, R
  <2> QED BY <1>5 DEF Max
<1> QED BY <1>6

LEMMA PutFacts ==
  ASSUME NEW f, NEW x, NEW y
  PROVE  /\ DOMAIN Put(f, x, y) = DOMAIN f \union {x} /\ Put(f, x, y)[x] = y
         /\ \A z \in DOMAIN f : z # x => Put(f, x, y)[z] = f[z]
BY DEF Put

LEMMA SecondsFacts ==
  /\ LastSecond \in Nat /\ Keep \in Nat \ {0, 1} /\ ListAge \in Nat /\ MaxVersions \in Nat
  /\ Seconds \subseteq 1 .. LastSecond /\ Seconds \subseteq Nat \ {0} /\ IsFiniteSet(Seconds)
  /\ \A S \in SUBSET Seconds : IsFiniteSet(S) /\ Cardinality(S) \in Nat
<1>1. LastSecond \in Nat /\ Keep \in Nat \ {0, 1} /\ ListAge \in Nat /\ MaxVersions \in Nat
  BY SizesAssumption
<1>2. Seconds \subseteq 1 .. LastSecond /\ Seconds \subseteq Nat \ {0}
  BY <1>1 DEF Seconds
<1>3. IsFiniteSet(Seconds)
  BY <1>1, FS_Interval DEF Seconds
<1>4. ASSUME NEW S \in SUBSET Seconds PROVE IsFiniteSet(S) /\ Cardinality(S) \in Nat
  BY <1>3, FS_Subset, FS_CardinalityType
<1> QED BY <1>1, <1>2, <1>3, <1>4

\* Whatever is pruned leaves at least Keep newer ones; the newest is never pruned.
LEMMA PrunedFacts ==
  ASSUME NEW S \in SUBSET Seconds
  PROVE  /\ Pruned(S) \subseteq S
         /\ \A s \in S : (\A t \in S : t <= s) => s \in Pruned(S)
         /\ \A s \in S \ Pruned(S) : /\ Cardinality(Pruned(S)) >= Keep
                                     /\ \A t \in Pruned(S) : s < t
         /\ Cardinality(S) >= Keep => Cardinality(Pruned(S)) >= Keep
<1> DEFINE Newer(s) == {t \in S : t > s}
<1>1. Pruned(S) = {s \in S : Cardinality(Newer(s)) < Keep}
  BY DEF Pruned
<1>2. \A s : Newer(s) \in SUBSET Seconds
  OBVIOUS
<1>0. \A s \in S : s \in Nat
  BY SecondsFacts
<1>3. ASSUME NEW s \in S, \A t \in S : t <= s PROVE s \in Pruned(S)
  <2>1. Newer(s) = {}
    BY <1>0, <1>3
  <2>2. Cardinality(Newer(s)) = 0
    BY <2>1, FS_EmptySet
  <2> QED BY <1>1, <2>2, SecondsFacts
<1>4. ASSUME NEW s \in S, NEW t \in S, s <= t, s \in Pruned(S) PROVE t \in Pruned(S)
  <2>1. Newer(t) \subseteq Newer(s)
    BY <1>0, <1>4
  <2>2. Cardinality(Newer(t)) <= Cardinality(Newer(s))
    BY <1>2, <2>1, FS_Subset, SecondsFacts
  <2>3. Cardinality(Newer(t)) \in Nat /\ Cardinality(Newer(s)) \in Nat
    BY <1>2, SecondsFacts
  <2> QED BY <1>1, <1>4, <2>2, <2>3, SecondsFacts
<1>5. ASSUME NEW s \in S \ Pruned(S) PROVE Cardinality(Pruned(S)) >= Keep
  <2> DEFINE P == S \ Pruned(S)
             m == Max(P)
  <2>1. P \in SUBSET (1 .. LastSecond) /\ P # {} /\ LastSecond \in Nat
    BY <1>5, SecondsFacts
  <2>2. m \in P /\ \A x \in P : x <= m
    <3> HIDE DEF P
    <3> QED BY <2>1, MaxExists
  <2>3. ASSUME NEW x \in Newer(m) PROVE x \in Pruned(S)
    <3>1. x \in S /\ x > m /\ x \in Nat /\ m \in Nat
      BY <1>0, <2>2, <2>3
    <3> HIDE DEF m
    <3>2. x \notin P
      BY <2>2, <3>1
    <3> QED BY <3>1, <3>2
  <2>4. Pruned(S) \in SUBSET Seconds
    BY <1>1
  <2>5. Cardinality(Newer(m)) <= Cardinality(Pruned(S))
    BY <1>2, <2>3, <2>4, FS_Subset, SecondsFacts
  <2>6. ~(Cardinality(Newer(m)) < Keep)
    BY <1>1, <2>2
  <2>7. Cardinality(Newer(m)) \in Nat /\ Cardinality(Pruned(S)) \in Nat /\ Keep \in Nat
    BY <1>2, <2>4, SecondsFacts
  <2> HIDE DEF P, m
  <2> QED BY <2>5, <2>6, <2>7
<1>6. ASSUME NEW s \in S \ Pruned(S), NEW t \in Pruned(S) PROVE s < t
  <2>1. ~(t <= s) /\ t \in S
    BY <1>1, <1>4, <1>6
  <2>2. s \in Nat /\ t \in Nat
    BY <1>0, <2>1
  <2> HIDE DEF Newer
  <2> QED BY <2>1, <2>2
<1>7. Cardinality(S) >= Keep => Cardinality(Pruned(S)) >= Keep
  <2>1. CASE Pruned(S) = S
    BY <2>1
  <2>2. CASE Pruned(S) # S
    <3>1. PICK s \in S \ Pruned(S) : TRUE
      BY <1>1, <2>2
    <3> QED BY <1>5
  <2> QED BY <2>1, <2>2
<1>8. Pruned(S) \subseteq S
  BY <1>1
<1> HIDE DEF Newer
<1> QED BY <1>3, <1>5, <1>6, <1>7, <1>8
-----------------------------------------------------------------------------
(* Types *)

LEMMA TypeFacts ==
  ASSUME TypeOK
  PROVE  /\ versions \in Seq(BOOLEAN) /\ Len(versions) \in Nat /\ Len(versions) <= MaxVersions
         /\ Versions = 1 .. Len(versions) /\ Versions \subseteq Nat \ {0}
         /\ file \in Versions /\ file # Never
         /\ DOMAIN backups \in SUBSET Seconds /\ \A s \in DOMAIN backups : backups[s] \in Versions
         /\ now \in Seconds /\ now \in Nat
         /\ op \in [bak : Seconds \union {Never}, saved : Versions \union {Never}, at : Seconds \union {Never}]
         /\ mtime \in Versions \union {Never} /\ seen \in Versions \union {Never}
         /\ data \in Versions \union {Never} /\ wanted \in Versions \union {Never}
         /\ listing \subseteq Seconds /\ listedAt \in Seconds \union {Never}
         /\ \A v \in DOMAIN replaced : v \in Versions /\ replaced[v] \in Seconds
         /\ events \subseteq Exceptions
<1>1. Versions \subseteq Nat \ {0} /\ Len(versions) \in Nat /\ Never \notin Versions
  BY DEF TypeOK, Versions, Never
<1>2. \A s \in DOMAIN backups : backups[s] \in Versions
  BY DEF TypeOK, Range
<1>3. \A v \in DOMAIN replaced : v \in Versions /\ replaced[v] \in Seconds
  BY DEF TypeOK, Range
<1>4. now \in Nat
  BY SecondsFacts DEF TypeOK
<1> QED BY <1>1, <1>2, <1>3, <1>4 DEF TypeOK, Versions

\* The types, part by part; versions are only added to.
LEMMA TypeParts ==
  ASSUME TypeOK,
         versions' \in Seq(BOOLEAN), Len(versions') <= MaxVersions, Len(versions) <= Len(versions'),
         file' \in 1 .. Len(versions'),
         DOMAIN backups' \subseteq Seconds, \A s \in DOMAIN backups' : backups'[s] \in 1 .. Len(versions'),
         now' \in Seconds, ui' \in {"idle", "nano", "check", "copy", "stat", "read", "stat2", "read2"},
         op' \in [bak : Seconds \union {Never}, saved : (1 .. Len(versions')) \union {Never},
                  at : Seconds \union {Never}],
         {seen', data', mtime', wanted'} \subseteq (1 .. Len(versions')) \union {Never},
         listing' \subseteq Seconds, listedAt' \in Seconds \union {Never},
         hint'.names \subseteq Seconds, hint'.at \in Seconds \union {Never},
         \A v \in DOMAIN replaced' : v \in 1 .. Len(versions') /\ replaced'[v] \in Seconds,
         events' \subseteq Exceptions
  PROVE  TypeOK'
<1>1. Versions' = 1 .. Len(versions')
  BY DEF Versions
<1>2. Range(backups') \subseteq Versions'
  BY <1>1 DEF Range
<1>3. DOMAIN replaced' \subseteq Versions' /\ Range(replaced') \subseteq Seconds
  BY <1>1 DEF Range
<1>4. (DOMAIN backups)' = DOMAIN backups' /\ (Range(backups))' = Range(backups') /\ Seconds' = Seconds
  BY DEF Range, Seconds
<1> QED BY <1>1, <1>2, <1>3, <1>4 DEF TypeOK, Range, Seconds, Never

\* A version more.
LEMMA Written ==
  ASSUME TypeOK, CanWrite, NEW b \in BOOLEAN, versions' = Append(versions, b)
  PROVE  /\ versions' \in Seq(BOOLEAN) /\ Len(versions') <= MaxVersions
         /\ Len(versions') = Len(versions) + 1 /\ Fresh = Len(versions) + 1
         /\ Fresh \in 1 .. Len(versions') /\ Versions \subseteq 1 .. Len(versions')
         /\ Fresh \notin Versions /\ Fresh # Never /\ Len(versions) <= Len(versions')
         /\ \A v \in Versions : versions'[v] = versions[v]
<1>1. versions \in Seq(BOOLEAN) /\ Len(versions) \in Nat /\ Len(versions) < MaxVersions /\ MaxVersions \in Nat
      /\ Versions = 1 .. Len(versions)
  BY TypeFacts, SecondsFacts DEF CanWrite
<1>2. versions' \in Seq(BOOLEAN) /\ Len(versions') = Len(versions) + 1
      /\ \A v \in 1 .. Len(versions) : versions'[v] = versions[v]
  BY <1>1
<1> QED BY <1>1, <1>2 DEF Fresh, Never
-----------------------------------------------------------------------------
(* The backup of a command *)

LEMMA BackupMadeFacts ==
  ASSUME TypeOK, Clocked, BackupMade
  PROVE  /\ file' = file /\ versions' = versions
         /\ DOMAIN backups' \subseteq DOMAIN backups \union {now}
         /\ now \in DOMAIN backups' /\ backups'[now] = file
         /\ \A s \in DOMAIN backups' : s # now => s \in DOMAIN backups /\ backups'[s] = backups[s]
         /\ \A s \in DOMAIN backups : s \notin DOMAIN backups' =>
               Cardinality(DOMAIN backups') >= Keep /\ \A t \in DOMAIN backups' : s < t
         /\ Cardinality(DOMAIN backups) >= Keep => Cardinality(DOMAIN backups') >= Keep
         /\ listing' = DOMAIN backups \union {now} /\ listedAt' = Never
         /\ events \subseteq events' /\ events' \subseteq Exceptions
         /\ events' = events \union SameSecond(file)
<1> DEFINE made == Put(backups, now, file)
           S == DOMAIN backups \union {now}
<1>1. /\ backups' = Restrict(made, Pruned(DOMAIN made))
      /\ listing' = DOMAIN made /\ listedAt' = Never
      /\ events' = events \union SameSecond(file) /\ SameSecond(file) \subseteq Exceptions
      /\ file' = file /\ versions' = versions
  BY DEF BackupMade, ListDropped, Happens
<1>2. DOMAIN made = S /\ made[now] = file /\ \A s \in DOMAIN backups : s # now => made[s] = backups[s]
  <2> HIDE DEF S
  <2> QED BY DEF Put, S
<1> HIDE DEF made
<1>3. DOMAIN backups' = Pruned(S) /\ \A s \in Pruned(S) : backups'[s] = made[s]
  BY <1>1, <1>2 DEF Restrict
<1>4. S \in SUBSET Seconds /\ \A s \in S : s <= now
  BY TypeFacts DEF Clocked
<1>5. /\ Pruned(S) \subseteq S
      /\ now \in Pruned(S)
      /\ \A s \in S \ Pruned(S) : Cardinality(Pruned(S)) >= Keep /\ \A t \in Pruned(S) : s < t
      /\ Cardinality(S) >= Keep => Cardinality(Pruned(S)) >= Keep
  BY <1>4, PrunedFacts
<1>6. Cardinality(DOMAIN backups) >= Keep => Cardinality(S) >= Keep
  <2>1. Cardinality(DOMAIN backups) <= Cardinality(S)
    BY <1>4, FS_Subset, SecondsFacts
  <2>2. Cardinality(DOMAIN backups) \in Nat /\ Cardinality(S) \in Nat /\ Keep \in Nat
    BY <1>4, SecondsFacts
  <2> HIDE DEF S
  <2> QED BY <2>1, <2>2
<1> QED BY <1>1, <1>2, <1>3, <1>5, <1>6, TypeFacts

LEMMA BackupFailsFacts ==
  ASSUME TypeOK, BackupFails
  PROVE  /\ file' = file /\ listing' = listing /\ listedAt' = listedAt
         /\ events \subseteq events' /\ events' \subseteq Exceptions /\ "backup_failed" \in events'
         /\ \/ versions' = versions /\ backups' = backups
            \/ /\ CanWrite /\ versions' = Append(versions, FALSE)
               /\ DOMAIN backups' = DOMAIN backups \union {now} /\ backups'[now] = Fresh
               /\ \A s \in DOMAIN backups : s # now => backups'[s] = backups[s]
<1>1. CASE Happens({"backup_failed"}) /\ UNCHANGED <<versions, backups>>
  BY <1>1, TypeFacts DEF BackupFails, Happens, list
<1>2. CASE /\ CanWrite /\ Happens({"backup_failed"} \union SameSecond(Fresh))
           /\ versions' = Append(versions, FALSE) /\ backups' = Put(backups, now, Fresh)
  <2>1. DOMAIN backups' = DOMAIN backups \union {now} /\ backups'[now] = Fresh
        /\ \A s \in DOMAIN backups : s # now => backups'[s] = backups[s]
    BY <1>2 DEF Put
  <2>2. events \subseteq events' /\ events' \subseteq Exceptions /\ "backup_failed" \in events'
    BY <1>2, TypeFacts DEF Happens
  <2> QED BY <1>2, <2>1, <2>2 DEF BackupFails, list
<1> QED BY <1>1, <1>2 DEF BackupFails

\* The disk after a backup that was made or has failed.
LEMMA DiskAfterBackup ==
  ASSUME TypeOK, Clocked, BackupMade \/ BackupFails
  PROVE  /\ versions' \in Seq(BOOLEAN) /\ Len(versions') <= MaxVersions /\ Len(versions) <= Len(versions')
         /\ Versions \subseteq 1 .. Len(versions') /\ file' = file /\ file' \in 1 .. Len(versions')
         /\ DOMAIN backups' \subseteq Seconds /\ DOMAIN backups' \subseteq DOMAIN backups \union {now}
         /\ \A s \in DOMAIN backups' : backups'[s] \in 1 .. Len(versions')
         /\ listing' \subseteq Seconds /\ listedAt' \in Seconds \union {Never}
         /\ events \subseteq events' /\ events' \subseteq Exceptions
<1>1. CASE BackupMade
  BY <1>1, BackupMadeFacts, TypeFacts
<1>2. CASE BackupFails
  <2>1. CASE versions' = versions /\ backups' = backups
    BY <1>2, <2>1, BackupFailsFacts, TypeFacts
  <2>2. CASE /\ CanWrite /\ versions' = Append(versions, FALSE)
             /\ DOMAIN backups' = DOMAIN backups \union {now} /\ backups'[now] = Fresh
             /\ \A s \in DOMAIN backups : s # now => backups'[s] = backups[s]
    <3>1. FALSE \in BOOLEAN
      OBVIOUS
    <3>2. /\ versions' \in Seq(BOOLEAN) /\ Len(versions') <= MaxVersions
          /\ Fresh \in 1 .. Len(versions') /\ Versions \subseteq 1 .. Len(versions')
          /\ Len(versions) <= Len(versions')
      BY <2>2, <3>1, Written
    <3> QED BY <1>2, <2>2, <3>2, BackupFailsFacts, TypeFacts
  <2> QED BY <1>2, <2>1, <2>2, BackupFailsFacts
<1> QED BY <1>1, <1>2

\* What a step leaves alone keeps its type when versions are added.
LEMMA OldTypes ==
  ASSUME TypeOK, NEW n \in Nat, Versions \subseteq 1 .. n
  PROVE  /\ now \in Seconds /\ ui \in {"idle", "nano", "check", "copy", "stat", "read", "stat2", "read2"}
         /\ op \in [bak : Seconds \union {Never}, saved : (1 .. n) \union {Never}, at : Seconds \union {Never}]
         /\ NoOp \in [bak : Seconds \union {Never}, saved : (1 .. n) \union {Never}, at : Seconds \union {Never}]
         /\ {seen, data, mtime, wanted} \subseteq (1 .. n) \union {Never}
         /\ listing \subseteq Seconds /\ listedAt \in Seconds \union {Never}
         /\ hint.names \subseteq Seconds /\ hint.at \in Seconds \union {Never}
         /\ \A v \in DOMAIN replaced : v \in 1 .. n /\ replaced[v] \in Seconds
         /\ \A s \in DOMAIN backups : backups[s] \in 1 .. n
         /\ DOMAIN backups \subseteq Seconds /\ events \subseteq Exceptions
<1>1. op \in [bak : Seconds \union {Never}, saved : (1 .. n) \union {Never}, at : Seconds \union {Never}]
  BY TypeFacts
<1>2. NoOp \in [bak : Seconds \union {Never}, saved : (1 .. n) \union {Never}, at : Seconds \union {Never}]
  BY DEF NoOp
<1>3. ui \in {"idle", "nano", "check", "copy", "stat", "read", "stat2", "read2"}
      /\ hint.names \subseteq Seconds /\ hint.at \in Seconds \union {Never}
  BY DEF TypeOK
<1> QED BY <1>1, <1>2, <1>3, TypeFacts

LEMMA ListedFacts ==
  ASSUME TypeOK
  PROVE  /\ Listed \subseteq Seconds
         /\ Listed # {} => Max(Listed) \in Listed /\ Max(Listed) \in Seconds
<1>1. Listed \subseteq Seconds
  BY TypeFacts DEF Listed
<1>2. ASSUME Listed # {} PROVE Max(Listed) \in Listed
  <2>1. Listed \in SUBSET (1 .. LastSecond) /\ LastSecond \in Nat
    BY <1>1, SecondsFacts
  <2> QED BY <1>2, <2>1, MaxExists
<1> QED BY <1>1, <1>2

\* What _draw_keys_panel does with the list.
LEMMA DrawnFacts ==
  ASSUME TypeOK, Drawn
  PROVE  /\ ui' \in {"stat2", "idle"} /\ listing' \subseteq Seconds /\ listedAt' \in Seconds \union {Never}
         /\ \/ listing' = listing /\ listedAt' = listedAt
            \/ GetBackups
<1>1. CASE ui \in {"stat", "read"}
  BY <1>1, ListedFacts, TypeFacts DEF Drawn, GetBackups
<1>2. CASE ui \notin {"stat", "read"}
  BY <1>2, TypeFacts DEF Drawn, list
<1> QED BY <1>1, <1>2

Quiet ==
    \/ Second \/ Kill \/ HintLists \/ HintKeeps \/ ReloadStat \/ ReloadRead \/ OpenKeys
    \/ NanoEnds \/ NanoFails \/ Rollback \/ CheckFails \/ XrayMissing

\* Steps that leave the disk alone.
LEMMA TypeQuiet ==
  ASSUME TypeOK, Quiet
  PROVE  TypeOK'
<1>0. /\ versions \in Seq(BOOLEAN) /\ Len(versions) \in Nat /\ Len(versions) <= MaxVersions
      /\ file \in 1 .. Len(versions) /\ Versions \subseteq 1 .. Len(versions)
      /\ Len(versions) <= Len(versions)
  BY TypeFacts
<1>1. versions' = versions /\ file' = file /\ backups' = backups
  BY DEF Quiet, Second, Kill, HintLists, HintKeeps, ReloadStat, ReloadRead, OpenKeys, NanoEnds, NanoFails,
         Rollback, CheckFails, XrayMissing, disk
<1>2. CASE Second
  <2>1. now + 1 \in Seconds
    BY <1>2, TypeFacts, SecondsFacts DEF Second, Seconds
  <2> QED BY <1>0, <1>1, <1>2, <2>1, OldTypes, TypeParts DEF Second, reader, list
<1>3. CASE Kill
  <2>1. NoList.names = {} /\ NoList.at = Never
    BY DEF NoList
  <2> QED BY <1>0, <1>1, <1>3, <2>1, OldTypes, TypeParts DEF Kill
<1>4. CASE HintLists
  BY <1>0, <1>1, <1>4, OldTypes, TypeParts DEF HintLists, reader, list
<1>5. CASE HintKeeps
  <2>1. events' \subseteq Exceptions
    BY <1>5, TypeFacts DEF HintKeeps, Happens
  <2>2. NoList.names = {} /\ NoList.at = Never
    BY DEF NoList
  <2> QED BY <1>0, <1>1, <1>5, <2>1, <2>2, OldTypes, TypeParts DEF HintKeeps, reader
<1>6. CASE ReloadStat
  <2>1. /\ seen' \in {seen, file} /\ ui' \in {"idle", "stat2", "read", "read2"}
        /\ listing' \subseteq Seconds /\ listedAt' \in Seconds \union {Never}
    <3>1. CASE mtime = file
      BY <1>6, <3>1, DrawnFacts DEF ReloadStat
    <3>2. CASE mtime # file
      BY <1>6, <3>2, TypeFacts DEF ReloadStat, list
    <3> QED BY <3>1, <3>2
  <2> QED BY <1>0, <1>1, <1>6, <2>1, OldTypes, TypeParts DEF ReloadStat
<1>7. CASE ReloadRead
  <2>1. /\ data' \in {data, file} /\ mtime' \in {mtime, seen} /\ seen' = Never
        /\ ui' \in {"idle", "stat2"}
        /\ listing' \subseteq Seconds /\ listedAt' \in Seconds \union {Never}
    BY <1>7, DrawnFacts DEF ReloadRead, SeenIfParsed
  <2> QED BY <1>0, <1>1, <1>7, <2>1, OldTypes, TypeParts DEF ReloadRead
<1>8. CASE OpenKeys
  BY <1>0, <1>1, <1>8, OldTypes, TypeParts DEF OpenKeys, reader, list
<1>9. CASE NanoEnds
  BY <1>0, <1>1, <1>9, OldTypes, TypeParts DEF NanoEnds, list
<1>10. CASE NanoFails
  BY <1>0, <1>1, <1>10, OldTypes, TypeParts DEF NanoFails, reader, list
<1>11. CASE Rollback
  <2>1. /\ op' = [NoOp EXCEPT !.bak = Max(Listed)] /\ Max(Listed) \in Seconds
        /\ wanted' = IF DOMAIN backups = {} THEN Never ELSE backups[Max(DOMAIN backups)]
        /\ listing' \subseteq Seconds /\ listedAt' \in Seconds \union {Never}
    BY <1>11, ListedFacts, TypeFacts DEF Rollback, GetBackups
  <2>2. op' \in [bak : Seconds \union {Never}, saved : (1 .. Len(versions)) \union {Never},
                 at : Seconds \union {Never}]
    BY <2>1 DEF NoOp
  <2>3. wanted' \in (1 .. Len(versions)) \union {Never}
    <3>1. CASE DOMAIN backups = {}
      BY <2>1, <3>1
    <3>2. CASE DOMAIN backups # {}
      <4>1. DOMAIN backups \in SUBSET (1 .. LastSecond) /\ LastSecond \in Nat
        BY TypeFacts, SecondsFacts
      <4>2. Max(DOMAIN backups) \in DOMAIN backups
        BY <3>2, <4>1, MaxExists
      <4> QED BY <2>1, <3>2, <4>2, TypeFacts
    <3> QED BY <3>1, <3>2
  <2> QED BY <1>0, <1>1, <1>11, <2>1, <2>2, <2>3, OldTypes, TypeParts DEF Rollback, reader
<1>12. CASE CheckFails
  BY <1>0, <1>1, <1>12, OldTypes, TypeParts DEF CheckFails, reader, list
<1>13. CASE XrayMissing
  <2>1. events' \subseteq Exceptions
    BY <1>13, TypeFacts DEF XrayMissing, Happens
  <2> QED BY <1>0, <1>1, <1>13, <2>1, OldTypes, TypeParts DEF XrayMissing, reader, list
<1> QED BY <1>2, <1>3, <1>4, <1>5, <1>6, <1>7, <1>8, <1>9, <1>10, <1>11, <1>12, <1>13 DEF Quiet

LEMMA TypeStep ==
  ASSUME TypeOK, Clocked, Saved, [Next]_vars
  PROVE  TypeOK'
<1>1. /\ versions \in Seq(BOOLEAN) /\ Len(versions) \in Nat /\ Len(versions) <= MaxVersions
      /\ file \in 1 .. Len(versions) /\ Versions \subseteq 1 .. Len(versions)
      /\ Len(versions) <= Len(versions)
  BY TypeFacts
<1>2. ASSUME op.saved = file
      PROVE  /\ DOMAIN Put(replaced, file, op.at) = DOMAIN replaced \union {file} /\ op.at \in Seconds
             /\ \A v \in DOMAIN Put(replaced, file, op.at) : Put(replaced, file, op.at)[v] \in Seconds
  <2>1. op.at \in Seconds
    BY <1>2, TypeFacts DEF Saved
  <2> QED BY <2>1, TypeFacts DEF Put
<1>3. ASSUME Replacing, NEW n \in Nat, Versions \subseteq 1 .. n
      PROVE  \A v \in DOMAIN replaced' : v \in 1 .. n /\ replaced'[v] \in Seconds
  <2>1. CASE op.saved = file
    BY <1>2, <1>3, <2>1, TypeFacts DEF Replacing
  <2>2. CASE op.saved # file
    BY <1>3, <2>2, TypeFacts DEF Replacing
  <2> QED BY <2>1, <2>2
<1>4. CASE External
  <2>1. PICK valid \in BOOLEAN : CanWrite /\ versions' = Append(versions, valid)
    BY <1>4 DEF External
  <2>2. /\ versions' \in Seq(BOOLEAN) /\ Len(versions') <= MaxVersions /\ Fresh \in 1 .. Len(versions')
        /\ Versions \subseteq 1 .. Len(versions') /\ Len(versions) <= Len(versions') /\ Len(versions') \in Nat
    BY <1>1, <2>1, Written
  <2> QED BY <1>4, <2>2, OldTypes, TypeParts DEF External, reader, list
<1>5. CASE Edit
  <2>1. BackupMade \/ BackupFails
    BY <1>5 DEF Edit
  <2>2. /\ versions' \in Seq(BOOLEAN) /\ Len(versions') <= MaxVersions /\ Len(versions) <= Len(versions')
        /\ Versions \subseteq 1 .. Len(versions') /\ file' \in 1 .. Len(versions')
        /\ DOMAIN backups' \subseteq Seconds
        /\ \A s \in DOMAIN backups' : backups'[s] \in 1 .. Len(versions')
        /\ listing' \subseteq Seconds /\ listedAt' \in Seconds \union {Never}
        /\ events' \subseteq Exceptions /\ Len(versions') \in Nat
    BY <2>1, DiskAfterBackup
  <2>3. op' = NoOp \/ op' = [NoOp EXCEPT !.saved = file, !.at = now]
    BY <1>5 DEF Edit
  <2>4. op' \in [bak : Seconds \union {Never}, saved : (1 .. Len(versions')) \union {Never},
                 at : Seconds \union {Never}]
    <3>1. NoOp \in [bak : Seconds \union {Never}, saved : (1 .. Len(versions')) \union {Never},
                    at : Seconds \union {Never}]
      BY <2>2, OldTypes
    <3>2. file \in 1 .. Len(versions') /\ now \in Seconds
      BY <2>2, TypeFacts
    <3> QED BY <2>3, <3>1, <3>2
  <2> QED BY <1>5, <2>2, <2>4, OldTypes, TypeParts DEF Edit, reader
<1>6. CASE NanoSaves
  <2>1. PICK valid \in BOOLEAN : CanWrite /\ versions' = Append(versions, valid)
    BY <1>6 DEF NanoSaves
  <2>2. /\ versions' \in Seq(BOOLEAN) /\ Len(versions') <= MaxVersions /\ Fresh \in 1 .. Len(versions')
        /\ Versions \subseteq 1 .. Len(versions') /\ Len(versions) <= Len(versions') /\ Len(versions') \in Nat
    BY <1>1, <2>1, Written
  <2>3. \A v \in DOMAIN replaced' : v \in 1 .. Len(versions') /\ replaced'[v] \in Seconds
    BY <1>3, <1>6, <2>2 DEF NanoSaves
  <2> QED BY <1>6, <2>2, <2>3, OldTypes, TypeParts DEF NanoSaves, reader, list
<1>7. CASE CheckPasses
  <2>1. BackupMade \/ BackupFails
    BY <1>7 DEF CheckPasses
  <2>2. /\ versions' \in Seq(BOOLEAN) /\ Len(versions') <= MaxVersions /\ Len(versions) <= Len(versions')
        /\ Versions \subseteq 1 .. Len(versions') /\ file' \in 1 .. Len(versions')
        /\ DOMAIN backups' \subseteq Seconds
        /\ \A s \in DOMAIN backups' : backups'[s] \in 1 .. Len(versions')
        /\ listing' \subseteq Seconds /\ listedAt' \in Seconds \union {Never}
        /\ events' \subseteq Exceptions /\ Len(versions') \in Nat
    BY <2>1, DiskAfterBackup
  <2>3. op' = op \/ op' = [op EXCEPT !.saved = file, !.at = now]
    BY <1>7 DEF CheckPasses
  <2>4. op' \in [bak : Seconds \union {Never}, saved : (1 .. Len(versions')) \union {Never},
                 at : Seconds \union {Never}]
    BY <2>2, <2>3, TypeFacts, OldTypes
  <2> QED BY <1>7, <2>2, <2>4, OldTypes, TypeParts DEF CheckPasses, reader
<1>8. CASE Copied
  <2>1. versions' = versions /\ backups' = backups /\ file' \in 1 .. Len(versions')
    BY <1>8, TypeFacts DEF Copied
  <2>2. \A v \in DOMAIN replaced' : v \in 1 .. Len(versions') /\ replaced'[v] \in Seconds
    BY <1>1, <1>3, <1>8, <2>1 DEF Copied
  <2>3. mtime' = Never
    BY <1>8 DEF Copied, TimeReset
  <2> QED BY <1>1, <1>8, <2>1, <2>2, <2>3, OldTypes, TypeParts DEF Copied, list
<1>9. CASE CopyFails
  <2>1. CASE UNCHANGED <<file, versions, replaced, events>>
    BY <1>1, <1>9, <2>1, OldTypes, TypeParts DEF CopyFails, reader, list
  <2>2. CASE /\ Happens({"copy_failed"}) /\ CanWrite
             /\ versions' = Append(versions, FALSE) /\ file' = Fresh /\ Replacing
    <3>1. PICK valid \in BOOLEAN : CanWrite /\ versions' = Append(versions, valid)
      BY <2>2
    <3>2. /\ versions' \in Seq(BOOLEAN) /\ Len(versions') <= MaxVersions /\ Fresh \in 1 .. Len(versions')
          /\ Versions \subseteq 1 .. Len(versions') /\ Len(versions) <= Len(versions')
          /\ Len(versions') \in Nat
      BY <1>1, <3>1, Written
    <3>3. \A v \in DOMAIN replaced' : v \in 1 .. Len(versions') /\ replaced'[v] \in Seconds
      BY <1>3, <2>2, <3>2
    <3>4. events' \subseteq Exceptions
      BY <2>2, TypeFacts DEF Happens
    <3> QED BY <1>9, <2>2, <3>2, <3>3, <3>4, OldTypes, TypeParts DEF CopyFails, reader, list
  <2> QED BY <1>9, <2>1, <2>2 DEF CopyFails
<1>10. CASE DeleteClient
  <2>1. PICK valid \in BOOLEAN : CanWrite /\ versions' = Append(versions, valid) /\ data' = Fresh
    BY <1>10 DEF DeleteClient
  <2>2. /\ versions' \in Seq(BOOLEAN) /\ Len(versions') <= MaxVersions /\ Fresh \in 1 .. Len(versions')
        /\ Versions \subseteq 1 .. Len(versions') /\ Len(versions) <= Len(versions') /\ Len(versions') \in Nat
    BY <1>1, <2>1, Written
  <2>3. backups' = backups \/ backups' = Put(backups, now, file)
    BY <1>10 DEF DeleteClient
  <2>4. DOMAIN backups' \subseteq Seconds /\ \A s \in DOMAIN backups' : backups'[s] \in 1 .. Len(versions')
    <3>1. CASE backups' = backups
      BY <2>2, <3>1, TypeFacts
    <3>2. CASE backups' = Put(backups, now, file)
      BY <2>2, <3>2, TypeFacts DEF Put
    <3> QED BY <2>3, <3>1, <3>2
  <2>5. file' \in {file, Fresh} /\ mtime' \in {Never, file} /\ events' \subseteq Exceptions
    BY <1>10, TypeFacts DEF DeleteClient, Happens
  <2>6. \A v \in DOMAIN replaced' : v \in 1 .. Len(versions') /\ replaced'[v] \in Seconds
    <3>1. replaced' = replaced \/ replaced' = Put(replaced, file, now)
      BY <1>10 DEF DeleteClient
    <3>2. CASE replaced' = replaced
      BY <2>2, <3>2, TypeFacts
    <3>3. CASE replaced' = Put(replaced, file, now)
      BY <2>2, <3>3, TypeFacts DEF Put
    <3> QED BY <3>1, <3>2, <3>3
  <2> QED BY <1>1, <1>10, <2>1, <2>2, <2>4, <2>5, <2>6, OldTypes, TypeParts DEF DeleteClient, list
<1>11. CASE UNCHANGED vars
  BY <1>1, <1>11, OldTypes, TypeParts DEF vars
<1>12. CASE Quiet
  BY <1>12, TypeQuiet
<1> QED BY <1>4, <1>5, <1>6, <1>7, <1>8, <1>9, <1>10, <1>11, <1>12 DEF Next, Quiet
-----------------------------------------------------------------------------
(* The parts of the inductive invariant, one by one *)

LEMMA ClockedStep ==
  ASSUME TypeOK, Clocked, [Next]_vars
  PROVE  Clocked'
<1>1. now \in Nat /\ \A s \in DOMAIN backups : s \in Nat /\ s <= now
  BY TypeFacts, SecondsFacts DEF Clocked
<1>2. CASE Second
  BY <1>1, <1>2 DEF Second, disk, Clocked
<1>3. CASE Edit \/ CheckPasses
  <2>1. BackupMade \/ BackupFails
    BY <1>3 DEF Edit, CheckPasses
  <2>2. DOMAIN backups' \subseteq DOMAIN backups \union {now}
    BY <2>1, DiskAfterBackup
  <2>3. now' = now
    BY <1>3 DEF Edit, CheckPasses
  <2> QED BY <1>1, <2>2, <2>3 DEF Clocked
<1>4. CASE DeleteClient
  <2>1. now' = now /\ (backups' = backups \/ backups' = Put(backups, now, file))
    BY <1>4 DEF DeleteClient
  <2>2. DOMAIN backups' \subseteq DOMAIN backups \union {now}
    BY <2>1 DEF Put
  <2> QED BY <1>1, <2>1, <2>2 DEF Clocked
<1>5. CASE Quiet /\ ~Second
  <2>1. backups' = backups /\ now' = now
    BY <1>5 DEF Quiet, Kill, HintLists, HintKeeps, ReloadStat, ReloadRead, OpenKeys, NanoEnds, NanoFails,
                Rollback, CheckFails, XrayMissing, disk
  <2> QED BY <1>1, <2>1 DEF Clocked
<1>6. CASE External \/ NanoSaves \/ Copied \/ CopyFails \/ UNCHANGED vars
  <2>1. backups' = backups /\ now' = now
    BY <1>6 DEF External, NanoSaves, Copied, CopyFails, vars
  <2> QED BY <1>1, <2>1 DEF Clocked
<1> QED BY <1>2, <1>3, <1>4, <1>5, <1>6 DEF Next, Quiet

LEMMA SavedStep ==
  ASSUME TypeOK, Clocked, Saved, [Next]_vars
  PROVE  Saved'
<1>1. NoOp.saved = Never /\ NoOp \in [bak : {Never}, saved : {Never}, at : {Never}]
  BY DEF NoOp
<1>2. CASE op' = NoOp
  BY <1>1, <1>2 DEF Saved
<1>3. CASE Edit \/ CheckPasses
  <2>1. CASE BackupMade /\ op' \in {[NoOp EXCEPT !.saved = file, !.at = now],
                                    [op EXCEPT !.saved = file, !.at = now]}
    <3>1. op'.saved = file /\ op'.at = now
      BY <1>1, <2>1, TypeFacts
    <3>2. now \in DOMAIN backups' /\ backups'[now] = file
      BY <2>1, BackupMadeFacts
    <3>3. ui' \in {"nano", "copy"}
      BY <1>3 DEF Edit, CheckPasses
    <3> QED BY <3>1, <3>2, <3>3 DEF Saved
  <2>2. CASE CheckPasses /\ UNCHANGED op
    <3>1. op'.saved = Never
      BY <2>2 DEF Saved, CheckPasses
    <3> QED BY <3>1 DEF Saved
  <2> QED BY <1>2, <1>3, <2>1, <2>2 DEF Edit, CheckPasses
<1>4. CASE Rollback
  <2>1. op'.saved = Never
    BY <1>1, <1>4 DEF Rollback
  <2> QED BY <2>1 DEF Saved
<1>5. CASE DeleteClient
  <2>1. op' = op /\ ui = "idle"
    BY <1>5 DEF DeleteClient
  <2> QED BY <2>1 DEF Saved
<1>6. CASE UNCHANGED <<op, backups>>
           /\ (ui' = ui \/ ui \notin {"nano", "copy"})
  BY <1>6 DEF Saved
<1>7. CASE External \/ NanoSaves \/ Second \/ HintLists \/ HintKeeps \/ XrayMissing \/ UNCHANGED vars
  <2>1. op' = op /\ backups' = backups /\ ui' = ui
    BY <1>7 DEF External, NanoSaves, Second, HintLists, HintKeeps, XrayMissing, vars, disk
  <2> QED BY <1>6, <2>1
<1>8. CASE ReloadStat \/ ReloadRead \/ OpenKeys
  <2>1. op' = op /\ backups' = backups /\ ui \notin {"nano", "copy"}
    BY <1>8 DEF ReloadStat, ReloadRead, OpenKeys, disk
  <2> QED BY <1>6, <2>1
<1>9. CASE Kill \/ NanoEnds \/ NanoFails \/ CheckFails \/ Copied \/ CopyFails
  BY <1>2, <1>9 DEF Kill, NanoEnds, NanoFails, CheckFails, Copied, CopyFails
<1> QED BY <1>3, <1>4, <1>5, <1>7, <1>8, <1>9 DEF Next

\* If the file changes between the two reads of the reader, or after them, the remembered
\* time is not the file's.
LEMMA CacheStep ==
  ASSUME TypeOK, Clocked, CacheIsFile, [Next]_vars
  PROVE  CacheIsFile'
<1>1. file \in Versions /\ file # Never /\ mtime \in Versions \union {Never} /\ events \subseteq events
  BY TypeFacts
<1>2. CASE file' = file /\ mtime' = mtime /\ data' = data /\ events \subseteq events'
  BY <1>2 DEF CacheIsFile
<1>3. CASE file' = file /\ mtime' = Never
  BY <1>1, <1>3 DEF CacheIsFile
<1>4. CASE External \/ NanoSaves \/ (CopyFails /\ ~UNCHANGED <<file, versions, replaced, events>>)
  <2>1. PICK valid \in BOOLEAN : CanWrite /\ versions' = Append(versions, valid)
    BY <1>4 DEF External, NanoSaves, CopyFails
  <2>2. Fresh \notin Versions /\ Fresh # Never
    BY <2>1, Written
  <2>3. file' = Fresh /\ mtime' = mtime
    BY <1>4 DEF External, NanoSaves, CopyFails, reader
  <2> QED BY <1>1, <2>2, <2>3 DEF CacheIsFile
<1>5. CASE ReloadRead
  <2>1. /\ data' = IF Valid(file) THEN file ELSE data
        /\ mtime' = IF Valid(file) THEN seen ELSE mtime
        /\ file' = file /\ events' = events
    BY <1>5 DEF ReloadRead, SeenIfParsed, disk
  <2> QED BY <2>1 DEF CacheIsFile
<1>6. CASE Copied
  <2>1. mtime' = Never /\ file' = backups[op.bak] /\ op.bak \in DOMAIN backups
    BY <1>6 DEF Copied, TimeReset
  <2>2. file' # Never
    BY <2>1, TypeFacts DEF Never
  <2> QED BY <2>1, <2>2 DEF CacheIsFile
<1>7. CASE DeleteClient
  <2>1. CASE "delete_failed" \in events'
    BY <2>1 DEF CacheIsFile
  <2>2. CASE file' = Fresh /\ mtime' = Never
    <3>1. Fresh # Never
      BY TypeFacts DEF Fresh, Never
    <3> QED BY <2>2, <3>1 DEF CacheIsFile
  <2> QED BY <1>7, <2>1, <2>2 DEF DeleteClient, Happens
<1>8. CASE Edit \/ CheckPasses
  <2>1. file' = file /\ events \subseteq events'
    BY <1>8, DiskAfterBackup DEF Edit, CheckPasses
  <2>2. mtime' = mtime /\ data' = data
    BY <1>8 DEF Edit, CheckPasses, reader
  <2> QED BY <1>2, <2>1, <2>2
<1>9. CASE Kill \/ NanoEnds
  BY <1>3, <1>9 DEF Kill, NanoEnds, disk
<1>10. CASE \/ Second \/ HintLists \/ HintKeeps \/ ReloadStat \/ OpenKeys \/ NanoFails \/ Rollback \/ CheckFails
            \/ XrayMissing \/ (CopyFails /\ UNCHANGED <<file, versions, replaced, events>>) \/ UNCHANGED vars
  <2>1. file' = file /\ mtime' = mtime /\ data' = data
    BY <1>10 DEF Second, HintLists, HintKeeps, ReloadStat, OpenKeys, NanoFails, Rollback, CheckFails,
                 XrayMissing, CopyFails, vars, disk, reader
  <2>2. events \subseteq events'
    BY <1>10 DEF Second, HintLists, HintKeeps, ReloadStat, OpenKeys, NanoFails, Rollback, CheckFails,
                 XrayMissing, CopyFails, vars, Happens
  <2> QED BY <1>2, <2>1, <2>2
<1> QED BY <1>4, <1>5, <1>6, <1>7, <1>8, <1>9, <1>10 DEF Next

\* One backup more, of the version f in the second t, and what it lets prune.
LEMMA KeptByBackup ==
  ASSUME NEW b, NEW b2, NEW r, NEW t \in Seconds, NEW f, KeptIn(b, r),
         DOMAIN b \in SUBSET Seconds, \A v \in DOMAIN r : r[v] \in Seconds,
         \A s \in DOMAIN b : s <= t,
         t \in DOMAIN b => b[t] = f,
         t \in DOMAIN b2, b2[t] = f,
         \A s \in DOMAIN b2 : s # t => s \in DOMAIN b /\ b2[s] = b[s],
         \A s \in DOMAIN b : s \notin DOMAIN b2 =>
            Cardinality(DOMAIN b2) >= Keep /\ \A u \in DOMAIN b2 : s < u,
         Cardinality(DOMAIN b) >= Keep => Cardinality(DOMAIN b2) >= Keep
  PROVE  KeptIn(b2, r)
<1>1. ASSUME NEW v \in DOMAIN r, NEW s \in DOMAIN b, b[s] = v, r[v] <= s
      PROVE  \/ \E u \in DOMAIN b2 : b2[u] = v /\ r[v] <= u
             \/ Cardinality(DOMAIN b2) >= Keep /\ \A u \in DOMAIN b2 : r[v] < u
  <2>1. CASE s \in DOMAIN b2
    <3>1. b2[s] = v
      BY <1>1, <2>1
    <3> QED BY <1>1, <2>1, <3>1
  <2>2. CASE s \notin DOMAIN b2
    <3>1. Cardinality(DOMAIN b2) >= Keep /\ \A u \in DOMAIN b2 : s < u
      BY <2>2
    <3>2. DOMAIN b2 \subseteq Seconds
      OBVIOUS
    <3>3. ASSUME NEW u \in DOMAIN b2 PROVE r[v] < u
      <4>1. r[v] \in Nat /\ s \in Nat /\ u \in Nat
        BY <3>2, SecondsFacts
      <4> QED BY <1>1, <3>1, <4>1
    <3> QED BY <3>1, <3>3
  <2> QED BY <2>1, <2>2
<1>2. ASSUME NEW v \in DOMAIN r, Cardinality(DOMAIN b) >= Keep, \A s \in DOMAIN b : r[v] < s
      PROVE  Cardinality(DOMAIN b2) >= Keep /\ \A u \in DOMAIN b2 : r[v] < u
  <2>1. PICK s \in DOMAIN b : TRUE
    <3>1. DOMAIN b # {}
      BY <1>2, FS_EmptySet, SecondsFacts
    <3> QED BY <3>1
  <2>2. r[v] < t
    <3>1. r[v] \in Nat /\ s \in Nat /\ t \in Nat
      BY SecondsFacts
    <3>2. r[v] < s /\ s <= t
      BY <1>2
    <3> QED BY <3>1, <3>2
  <2> QED BY <1>2, <2>2
<1> QED BY <1>1, <1>2 DEF KeptIn

\* A version is replaced that is in the backup of the second t.
LEMMA KeptByReplacing ==
  ASSUME NEW b, NEW r, NEW t \in Seconds, NEW f, KeptIn(b, r), t \in DOMAIN b, b[t] = f
  PROVE  KeptIn(b, Put(r, f, t))
<1>1. t <= t
  BY SecondsFacts
<1> QED BY <1>1 DEF KeptIn, Put

LEMMA KeptStep ==
  ASSUME TypeOK, Clocked, Saved, Kept, [Next]_vars
  PROVE  Kept'
<1>1. ASSUME events' \intersect {"same_second", "backup_failed"} = {}, events \subseteq events'
      PROVE  KeptIn(backups, replaced)
  BY <1>1 DEF Kept
<1>2. /\ DOMAIN backups \in SUBSET Seconds /\ \A s \in DOMAIN backups : s <= now
      /\ \A v \in DOMAIN replaced : replaced[v] \in Seconds
      /\ now \in Seconds /\ file # Never
  BY TypeFacts DEF Clocked
<1>3. CASE Edit \/ CheckPasses
  <2> SUFFICES ASSUME events' \intersect {"same_second", "backup_failed"} = {}
               PROVE  KeptIn(backups', replaced')
    BY DEF Kept
  <2>1. BackupMade
    <3>1. ~BackupFails
      BY BackupFailsFacts
    <3> QED BY <1>3, <3>1 DEF Edit, CheckPasses
  <2>2. /\ now \in DOMAIN backups' /\ backups'[now] = file
        /\ \A s \in DOMAIN backups' : s # now => s \in DOMAIN backups /\ backups'[s] = backups[s]
        /\ \A s \in DOMAIN backups : s \notin DOMAIN backups' =>
              Cardinality(DOMAIN backups') >= Keep /\ \A t \in DOMAIN backups' : s < t
        /\ Cardinality(DOMAIN backups) >= Keep => Cardinality(DOMAIN backups') >= Keep
        /\ events \subseteq events' /\ events' = events \union SameSecond(file)
    BY <2>1, BackupMadeFacts
  <2>3. now \in DOMAIN backups => backups[now] = file
    BY <2>2 DEF SameSecond
  <2>4. KeptIn(backups, replaced)
    BY <1>1, <2>2
  <2>5. replaced' = replaced
    BY <1>3 DEF Edit, CheckPasses
  <2>6. KeptIn(backups', replaced)
    BY <1>2, <2>2, <2>3, <2>4, KeptByBackup
  <2> QED BY <2>5, <2>6
<1>4. CASE Replacing /\ backups' = backups /\ events \subseteq events'
  <2>1. CASE op.saved = file
    <3>1. op.at \in DOMAIN backups /\ backups[op.at] = file /\ op.at \in Seconds
      BY <1>2, <2>1 DEF Saved
    <3>2. replaced' = Put(replaced, file, op.at)
      BY <1>4, <2>1 DEF Replacing
    <3> QED BY <1>1, <1>4, <3>1, <3>2, KeptByReplacing DEF Kept
  <2>2. CASE op.saved # file
    BY <1>1, <1>4, <2>2 DEF Replacing, Kept
  <2> QED BY <2>1, <2>2
<1>5. CASE DeleteClient
  <2> SUFFICES ASSUME events' \intersect {"same_second", "backup_failed"} = {}
               PROVE  KeptIn(backups', replaced')
    BY DEF Kept
  <2>1. events \subseteq events'
    BY <1>5 DEF DeleteClient, Happens
  <2>2. KeptIn(backups, replaced)
    BY <1>1, <2>1
  <2>3. CASE backups' = backups /\ replaced' = replaced
    BY <2>2, <2>3
  <2>4. CASE /\ backups' = Put(backups, now, file)
             /\ now \in DOMAIN backups => backups[now] = file
    <3>1. /\ DOMAIN backups' = DOMAIN backups \union {now} /\ backups'[now] = file
          /\ \A s \in DOMAIN backups' : s # now => s \in DOMAIN backups /\ backups'[s] = backups[s]
      BY <2>4 DEF Put
    <3>2. Cardinality(DOMAIN backups) >= Keep => Cardinality(DOMAIN backups') >= Keep
      <4>1. DOMAIN backups' \in SUBSET Seconds /\ DOMAIN backups \subseteq DOMAIN backups'
        BY <1>2, <3>1
      <4>2. Cardinality(DOMAIN backups) <= Cardinality(DOMAIN backups')
        BY <4>1, FS_Subset, SecondsFacts
      <4>3. Cardinality(DOMAIN backups) \in Nat /\ Cardinality(DOMAIN backups') \in Nat /\ Keep \in Nat
        BY <1>2, <4>1, SecondsFacts
      <4> QED BY <4>2, <4>3
    <3>3. KeptIn(backups', replaced)
      BY <1>2, <2>2, <2>4, <3>1, <3>2, KeptByBackup
    <3>4. CASE replaced' = replaced
      BY <3>3, <3>4
    <3>5. CASE replaced' = Put(replaced, file, now)
      BY <1>2, <3>1, <3>3, <3>5, KeptByReplacing
    <3> QED BY <1>5, <3>4, <3>5 DEF DeleteClient
  <2>5. now \in DOMAIN backups /\ backups[now] # file => backups' = backups /\ replaced' = replaced
    BY <1>5 DEF DeleteClient, Happens, SameSecond
  <2>6. backups' = Put(backups, now, file) \/ (backups' = backups /\ replaced' = replaced)
    BY <1>5 DEF DeleteClient
  <2> QED BY <2>3, <2>4, <2>5, <2>6
<1>6. CASE backups' = backups /\ replaced' = replaced /\ events \subseteq events'
  BY <1>1, <1>6 DEF Kept
<1>7. CASE NanoSaves \/ Copied \/ (CopyFails /\ ~UNCHANGED <<file, versions, replaced, events>>)
  <2>1. Replacing /\ backups' = backups /\ events \subseteq events'
    BY <1>7 DEF NanoSaves, Copied, CopyFails, Happens
  <2> QED BY <1>4, <2>1
<1>8. CASE \/ Quiet \/ External \/ (CopyFails /\ UNCHANGED <<file, versions, replaced, events>>) \/ UNCHANGED vars
  <2>1. backups' = backups /\ replaced' = replaced
    BY <1>8 DEF Quiet, Second, Kill, HintLists, HintKeeps, ReloadStat, ReloadRead, OpenKeys, NanoEnds, NanoFails,
                Rollback, CheckFails, XrayMissing, External, CopyFails, vars, disk
  <2>2. events \subseteq events'
    BY <1>8 DEF Quiet, Second, Kill, HintLists, HintKeeps, ReloadStat, ReloadRead, OpenKeys, NanoEnds, NanoFails,
                Rollback, CheckFails, XrayMissing, External, CopyFails, vars, Happens
  <2> QED BY <1>6, <2>1, <2>2
<1> QED BY <1>3, <1>5, <1>7, <1>8 DEF Next, Quiet

LEMMA RollingStep ==
  ASSUME TypeOK, Clocked, Saved, Rolling, [Next]_vars
  PROVE  Rolling'
<1> SUFFICES ASSUME events' \intersect Unusual = {} PROVE ListKnown' /\ Chosen'
  BY DEF Rolling, Unusual
<1>1. events \subseteq events'
  <2>1. CASE Edit \/ CheckPasses
    BY <2>1, DiskAfterBackup DEF Edit, CheckPasses
  <2>2. CASE Next /\ ~Edit /\ ~CheckPasses
    BY <2>2 DEF Next, Second, External, Kill, HintLists, HintKeeps, ReloadStat, ReloadRead, OpenKeys,
                NanoSaves, NanoEnds, NanoFails, Rollback, CheckFails, XrayMissing, Copied, CopyFails,
                DeleteClient, Happens
  <2>3. CASE UNCHANGED vars
    BY <2>3 DEF vars
  <2> QED BY <2>1, <2>2, <2>3
<1>2. ListKnown /\ Chosen
  BY <1>1 DEF Rolling, Unusual
<1>3. Listed = DOMAIN backups
  <2>1. listedAt = Never => ListIsOld
    <3>1. now > ListAge /\ now \in Nat /\ ListAge \in Nat
      BY TypeFacts, SecondsFacts DEF Seconds
    <3> QED BY <3>1 DEF ListIsOld, Never
  <2> QED BY <1>2, <2>1 DEF Listed, ListKnown
<1>4. ASSUME GetBackups, backups' = backups PROVE ListKnown'
  BY <1>2, <1>3, <1>4 DEF GetBackups, ListKnown
<1>5. ASSUME UNCHANGED list, backups' = backups PROVE ListKnown'
  BY <1>2, <1>5 DEF ListKnown, list
<1>6. ASSUME Drawn, backups' = backups PROVE ListKnown' /\ ui' \notin {"check", "copy"}
  BY <1>4, <1>5, <1>6 DEF Drawn
<1>7. ASSUME ui' \notin {"check", "copy"} PROVE Chosen'
  BY <1>7 DEF Chosen
<1>8. ASSUME ui' = ui, op' = op, wanted' = wanted, backups' = backups,
             \A v \in Versions : versions'[v] = versions[v]
      PROVE  Chosen'
  <2>1. op.bak \in DOMAIN backups => versions'[backups[op.bak]] = versions[backups[op.bak]]
    BY <1>8, TypeFacts
  <2> QED BY <1>1, <1>2, <1>8, <2>1 DEF Chosen, Valid
<1>9. CASE Second \/ HintLists \/ XrayMissing \/ UNCHANGED vars
  <2>1. /\ ui' = ui /\ op' = op /\ wanted' = wanted /\ backups' = backups /\ versions' = versions
        /\ UNCHANGED list
    BY <1>9 DEF Second, HintLists, XrayMissing, vars, disk, list
  <2> QED BY <1>5, <1>8, <2>1
<1>10. CASE HintKeeps
  <2>1. /\ ui' = ui /\ op' = op /\ wanted' = wanted /\ backups' = backups /\ versions' = versions
        /\ listing' = hint.names
    BY <1>10 DEF HintKeeps, disk
  <2>2. hint.names = DOMAIN backups
    BY <1>10 DEF HintKeeps, Happens, Unusual
  <2> QED BY <1>8, <2>1, <2>2 DEF ListKnown
<1>11. CASE External
  <2>1. PICK valid \in BOOLEAN : CanWrite /\ versions' = Append(versions, valid)
    BY <1>11 DEF External
  <2>2. \A v \in Versions : versions'[v] = versions[v]
    BY <2>1, Written
  <2> QED BY <1>5, <1>8, <1>11, <2>2 DEF External
<1>12. CASE Kill
  BY <1>7, <1>12 DEF Kill, ListKnown
<1>13. CASE ReloadStat
  <2>1. CASE mtime = file
    BY <1>6, <1>7, <1>13, <2>1 DEF ReloadStat, disk
  <2>2. CASE mtime # file
    BY <1>5, <1>7, <1>13, <2>2 DEF ReloadStat, disk
  <2> QED BY <2>1, <2>2
<1>14. CASE ReloadRead
  BY <1>6, <1>7, <1>14 DEF ReloadRead, disk
<1>15. CASE OpenKeys \/ NanoSaves \/ NanoEnds \/ NanoFails \/ CheckFails \/ Copied \/ CopyFails
  <2>1. ui' \notin {"check", "copy"} /\ UNCHANGED list /\ backups' = backups
    BY <1>15 DEF OpenKeys, NanoSaves, NanoEnds, NanoFails, CheckFails, Copied, CopyFails, disk
  <2> QED BY <1>5, <1>7, <2>1
<1>16. CASE Edit
  <2>1. BackupMade
    BY <1>16, BackupFailsFacts DEF Edit, Unusual
  <2>2. ListKnown'
    BY <2>1, BackupMadeFacts DEF ListKnown
  <2> QED BY <1>7, <1>16, <2>2 DEF Edit
<1>17. CASE Rollback
  <2>1. /\ backups' = backups /\ op' = [NoOp EXCEPT !.bak = Max(Listed)] /\ ui' = "check" /\ Listed # {}
        /\ wanted' = IF DOMAIN backups = {} THEN Never ELSE backups[Max(DOMAIN backups)]
    BY <1>17 DEF Rollback, disk
  <2>2. op'.bak = Max(DOMAIN backups) /\ Max(DOMAIN backups) \in DOMAIN backups
    BY <1>3, <2>1, ListedFacts DEF NoOp
  <2> QED BY <1>4, <1>17, <2>1, <2>2 DEF Rollback, Chosen
<1>18. CASE CheckPasses
  <2>1. BackupMade
    BY <1>18, BackupFailsFacts DEF CheckPasses, Unusual
  <2>2. ListKnown'
    BY <2>1, BackupMadeFacts DEF ListKnown
  <2>3. /\ ui = "check" /\ ui' = "copy" /\ wanted' = wanted
        /\ Valid(backups[op.bak]) \/ "unchecked" \in events
    BY <1>18 DEF CheckPasses
  <2>4. op'.bak = op.bak
    BY <1>18, TypeFacts DEF CheckPasses
  <2>5. op.bak \in DOMAIN backups /\ backups[op.bak] = wanted
    BY <1>2, <2>3 DEF Chosen
  <2>6. op.bak \in DOMAIN backups' => backups'[op.bak] = backups[op.bak]
    <3>1. now \in DOMAIN backups => backups[now] = file
      BY <2>1, BackupMadeFacts DEF SameSecond, Unusual
    <3>2. /\ backups'[now] = file
          /\ \A s \in DOMAIN backups' : s # now => backups'[s] = backups[s]
      BY <2>1, BackupMadeFacts
    <3> QED BY <2>5, <3>1, <3>2
  <2>7. versions' = versions
    BY <2>1, BackupMadeFacts
  <2> QED BY <1>1, <2>2, <2>3, <2>4, <2>5, <2>6, <2>7 DEF Chosen, Valid
<1>19. CASE DeleteClient
  BY <1>19 DEF DeleteClient, Happens, Unusual
<1> QED BY <1>9, <1>10, <1>11, <1>12, <1>13, <1>14, <1>15, <1>16, <1>17, <1>18, <1>19 DEF Next
-----------------------------------------------------------------------------
(* Theorems *)

LEMMA InvInit ==
  ASSUME Init
  PROVE  IInv
<1>1. versions \in Seq(BOOLEAN) /\ Len(versions) = 1 /\ file = 1 /\ MaxVersions \in Nat \ {0}
  <2>1. PICK valid \in BOOLEAN : versions = <<valid>>
    BY DEF Init
  <2> QED BY <2>1, SizesAssumption DEF Init
<1>2. ListAge + 1 \in Seconds
  BY SizesAssumption DEF Seconds
<1>3. DOMAIN backups = {} /\ DOMAIN replaced = {} /\ now = ListAge + 1
  BY DEF Init
<1>4. /\ ui = "idle" /\ op = NoOp /\ seen = Never /\ data = Never /\ mtime = Never /\ wanted = Never
      /\ listing = {} /\ listedAt = Never /\ hint = NoList /\ events = {}
  BY DEF Init
<1>5. TypeOK
  <2>1. file \in Versions
    BY <1>1 DEF Versions
  <2>2. Range(backups) = {} /\ Range(replaced) = {}
    BY <1>3 DEF Range
  <2>3. NoOp \in [bak : Seconds \union {Never}, saved : Versions \union {Never}, at : Seconds \union {Never}]
        /\ NoList.names = {} /\ NoList.at = Never
    BY DEF NoOp, NoList
  <2> QED BY <1>1, <1>2, <1>3, <1>4, <2>1, <2>2, <2>3 DEF TypeOK
<1>6. Clocked /\ Kept
  BY <1>3 DEF Clocked, Kept, KeptIn
<1>7. Saved
  BY <1>4 DEF Saved, NoOp
<1>8. CacheIsFile
  BY <1>1, <1>4 DEF CacheIsFile, Never
<1>9. Rolling
  BY <1>4 DEF Rolling, ListKnown, Chosen
<1> QED BY <1>5, <1>6, <1>7, <1>8, <1>9 DEF IInv

LEMMA InvStep ==
  ASSUME IInv, [Next]_vars
  PROVE  IInv'
BY TypeStep, ClockedStep, SavedStep, CacheStep, KeptStep, RollingStep DEF IInv

LEMMA Invariance ==
  Spec => []IInv
BY InvInit, InvStep, PTL DEF Spec

\* Every variable of the configuration, its reader, the commands and the list of backups
\* keeps its type; backups, cached times and versions are ones that there have been.
THEOREM TypeCorrect ==
  Spec => []TypeOK
BY Invariance, PTL DEF IInv

\* Unless a deletion has failed, a reader that takes its cache for fresh shows what is in
\* the file, whoever writes the file and whenever the monitor is killed.
THEOREM CacheIsFresh ==
  Spec => []CacheIsFile
BY Invariance, PTL DEF IInv

\* What the program has replaced after a backup of it is in the file, in a backup, or had
\* to make room for Keep newer ones, as long as backups do not fail or share a second.
THEOREM NothingReplacedIsLost ==
  Spec => []ReplacedIsSaved
<1>1. IInv => ReplacedIsSaved
  <2> SUFFICES ASSUME IInv, events \intersect {"same_second", "backup_failed"} = {},
                      NEW v \in DOMAIN replaced
               PROVE  StillThere(v)
    BY DEF ReplacedIsSaved
  <2>1. KeptIn(backups, replaced)
    BY DEF IInv, Kept
  <2>2. CASE \E s \in DOMAIN backups : backups[s] = v /\ replaced[v] <= s
    BY <2>2 DEF StillThere, Range
  <2>3. CASE Cardinality(DOMAIN backups) >= Keep /\ \A s \in DOMAIN backups : replaced[v] < s
    <3>1. \A s \in DOMAIN backups : s \in Nat /\ replaced[v] \in Nat
      BY TypeFacts, SecondsFacts DEF IInv
    <3> QED BY <2>3, <3>1 DEF StillThere
  <2> QED BY <2>1, <2>2, <2>3 DEF KeptIn
<1> QED BY <1>1, Invariance, PTL

\* Unless the list of backups is stale or a backup is missing in it, a rollback installs the
\* newest backup there was when it was asked for, and one that has passed the check.
THEOREM NewestIsInstalled ==
  Spec => RollsBackToNewest
<1> DEFINE Installs ==
             (ui = "copy" /\ ui' = "stat"
              /\ events \intersect {"stale_list", "client_deleted", "delete_failed", "backup_failed", "same_second"} = {})
                => file' = wanted /\ ("unchecked" \in events \/ Valid(file'))
<1>1. ASSUME IInv, [Next]_vars PROVE Installs
  <2> SUFFICES ASSUME ui = "copy", ui' = "stat", events \intersect Unusual = {}
               PROVE  file' = wanted /\ ("unchecked" \in events \/ Valid(file'))
    BY DEF Unusual
  <2>1. Copied
    BY <1>1 DEF Next, Second, External, Kill, HintLists, HintKeeps, ReloadStat, ReloadRead, OpenKeys, Edit,
                NanoSaves, NanoEnds, NanoFails, Rollback, CheckFails, CheckPasses, XrayMissing, CopyFails,
                DeleteClient, vars
  <2>2. op.bak \in DOMAIN backups /\ file' = backups[op.bak] /\ versions' = versions
    BY <2>1 DEF Copied
  <2>3. backups[op.bak] = wanted /\ ("unchecked" \in events \/ Valid(backups[op.bak]))
    BY <1>1, <2>2 DEF IInv, Rolling, Chosen
  <2> QED BY <2>2, <2>3 DEF Valid
<1> QED BY <1>1, Invariance, PTL DEF Spec, RollsBackToNewest
=============================================================================
