------------------------------- MODULE LogProofs -------------------------------
(***************************************************************************)
(* The log backend keeps its limit, its order and its records, also when the *)
(* numbers wrap, after power cuts, and with the shell at work beside it.      *)
(***************************************************************************)
EXTENDS LogBackend, FiniteSetTheorems, SequenceTheorems, WellFoundedInduction, TLAPS

\* The disk is a tree; the handle's file is there while it is live.
Tree == /\ IsDir(<<Mnt>>)
        /\ \A p \in DOMAIN disk : /\ disk[p] \in Nat \cup {Dir}
                                  /\ Parent(p) = <<>> \/ IsDir(Parent(p))
FileRecords == [path : {<<>>} \cup {LogPath(n) : n \in Numerals}, size : 0 .. FileSize,
                live : BOOLEAN]
FileOK == /\ file \in FileRecords
          /\ file.live => IsFile(file.path) /\ \E n \in Numerals : file.path = LogPath(n)

\* The shell, and the thread's own variables.
ShellOK == (sh # Closed => sh.size \in Nat) /\ cmds \in 0 .. ShellMax
LogTypes == /\ backend_state \in {"not", "corrupted", "ok"}
            /\ {newest, oldest, target} \subseteq Numerals
            /\ pc \in {"idle", "tell", "make", "write", "sweep", "check", "sync"}
            /\ then \in {"tell", "write", "sync"}
            /\ len \in 0 .. WriteMax /\ kept \in 0 .. FileSize
CtrBound == file_ctr \in -ShellMax .. FilesLimit + ShellMax

\* Where the thread is, and what it has written.
Places == /\ backend_state # "ok" => pc = "idle"
          /\ pc = "write" => file.size + len <= FileSize
          /\ kept <= file.size
          /\ pc = "sync" /\ stored => kept + len <= file.size
          /\ pc = "make" /\ then = "sync" => ~ stored
          /\ pc = "sweep" => shortWrites
          /\ pc = "check" => ~ shortWrites

\* What was taken into the open file is on the disk, at any time.
KeptOnDisk == meddled = {} /\ file.live => kept <= disk[file.path]

\* What there is under the names of log files, and the directories among it.
Entries == {n \in Numerals : LogPath(n) \in DOMAIN disk}
Dirs    == {n \in Numerals : IsDir(LogPath(n))}

\* Commands that are left for the shell to add some.
Left == IF "add" \in meddled THEN cmds ELSE ShellMax

\* file_ctr is at least what there is, but for what the shell has added.  A log
\* file that was opened and is gone is counted until Check has seen it.
Gone    == IF pc = "make" \/ shortWrites \/ newest \in LogFiles THEN 0 ELSE 1
Counted == /\ Cardinality(Dirs) + Left <= ShellMax
           /\ Cardinality(Entries) + Left <= FilesLimit + ShellMax
           /\ backend_state = "ok" => Cardinality(Entries) + Gone + Left <= file_ctr + ShellMax

\* The i-th number after s.
At(s, i) == IF s + i > MaxFileNumeral THEN s + i - (MaxFileNumeral + 1) ELSE s + i

\* Without the shell the log files are k ones numbered from s on, in the order in
\* which they were made, and the log knows k and both ends.
Numbered(s, k) == /\ LogFiles = {At(s, i) : i \in 0 .. k - 1}
                  /\ \A j \in 0 .. k - 1 : \A i \in 0 .. j - 1 : <<At(s, i), At(s, j)>> \in older
Known(s, k) == /\ file_ctr = k
               /\ At(s, k) = IF pc = "make" THEN target ELSE Next1(newest)
               /\ oldest = s \/ Next1(oldest) = s \/ (k = 0 /\ pc = "sweep")
               /\ pc # "make" /\ ~ shortWrites => k >= 1
Unmeddled == {"add", "rm"} \cap meddled = {}
Window == Unmeddled => \E s \in Numerals, k \in 0 .. FilesLimit :
                           Numbered(s, k) /\ (backend_state = "ok" => Known(s, k))

LogIInv == /\ Tree /\ FileOK /\ ShellOK /\ LogTypes /\ CtrBound /\ Places /\ KeptOnDisk
           /\ Counted /\ Window
-------------------------------------------------------------------------------
\* The names of log files are names of nothing else.
LEMMA PathFacts ==
    /\ \A m, n : LogPath(m) = LogPath(n) => m = n
    /\ \A n : /\ LogPath(n) \notin {LogDir, <<Mnt>>, <<>>} /\ Parent(LogPath(n)) = LogDir
              /\ Len(LogPath(n)) = 3 /\ SubSeq(LogPath(n), 1, 2) = LogDir /\ LogPath(n)[3] = n
    /\ LogDir \notin {<<Mnt>>, <<>>} /\ Parent(LogDir) = <<Mnt>>
<1>1. \A m, n : LogPath(m) = LogPath(n) => m = n
  BY DEF LogPath
<1>2. \A n : LogPath(n) \notin {LogDir, <<Mnt>>, <<>>} /\ Len(LogPath(n)) = 3 /\ LogPath(n)[3] = n
  BY DEF LogPath, LogDir
<1>3. ASSUME NEW n PROVE SubSeq(LogPath(n), 1, 2) = LogDir
  <2> DEFINE S == {Mnt, Log, n}
  <2>1. LogPath(n) \in Seq(S) /\ LogDir \in Seq(S)
    BY DEF LogPath, LogDir
  <2>2. /\ SubSeq(LogPath(n), 1, 2) \in Seq(S) /\ Len(SubSeq(LogPath(n), 1, 2)) = 2
        /\ \A i \in 1 .. 2 : SubSeq(LogPath(n), 1, 2)[i] = LogPath(n)[i]
    BY <2>1, <1>2, SubSeqProperties
  <2>3. /\ LogPath(n)[1] = LogDir[1] /\ LogPath(n)[2] = LogDir[2] /\ Len(LogDir) = 2
    BY DEF LogPath, LogDir
  <2>4. \A i \in 1 .. Len(SubSeq(LogPath(n), 1, 2)) : SubSeq(LogPath(n), 1, 2)[i] = LogDir[i]
    <3> SUFFICES ASSUME NEW i \in 1 .. 2 PROVE SubSeq(LogPath(n), 1, 2)[i] = LogDir[i]
      BY <2>2
    <3>1. i = 1 \/ i = 2
      OBVIOUS
    <3> QED BY <2>2, <2>3, <3>1
  <2> HIDE DEF S
  <2> QED BY <2>1, <2>2, <2>3, <2>4, SeqEqual
<1>4. ASSUME NEW n PROVE Parent(LogPath(n)) = LogDir
  <2>1. Len(LogPath(n)) - 1 = 2
    BY <1>2
  <2> QED BY <2>1, <1>3 DEF Parent
<1>5. Parent(LogDir) = <<Mnt>>
  <2> DEFINE S == {Mnt, Log}
  <2>1. LogDir \in Seq(S) /\ <<Mnt>> \in Seq(S) /\ Len(LogDir) = 2
    BY DEF LogDir
  <2>2. /\ SubSeq(LogDir, 1, 1) \in Seq(S) /\ Len(SubSeq(LogDir, 1, 1)) = 1
        /\ SubSeq(LogDir, 1, 1)[1] = LogDir[1]
    BY <2>1, SubSeqProperties
  <2>3. SubSeq(LogDir, 1, 1) = <<Mnt>>
    <3>1. Len(<<Mnt>>) = 1 /\ LogDir[1] = <<Mnt>>[1]
      BY DEF LogDir
    <3>2. \A i \in 1 .. 1 : SubSeq(LogDir, 1, 1)[i] = <<Mnt>>[i]
      BY <3>1, <2>2
    <3> HIDE DEF S
    <3> QED BY <2>1, <2>2, <3>1, <3>2, SeqEqual
  <2> QED BY <2>1, <2>3 DEF Parent
<1>6. LogDir \notin {<<Mnt>>, <<>>}
  BY DEF LogDir
<1> QED BY <1>1, <1>2, <1>3, <1>4, <1>5, <1>6

\* A value is put on the disk.
LEMMA PutFacts ==
    ASSUME NEW path, NEW value, disk' = Put(path, value)
    PROVE  /\ DOMAIN disk' = DOMAIN disk \cup {path} /\ disk'[path] = value
           /\ \A p \in DOMAIN disk : p # path => disk'[p] = disk[p]
BY DEF Put

\* A path is taken off the disk.
LEMMA WithoutFacts ==
    ASSUME NEW path, disk' = Without(path)
    PROVE  /\ DOMAIN disk' = DOMAIN disk \ {path}
           /\ \A p \in DOMAIN disk' : disk'[p] = disk[p]
BY DEF Without

\* The log finds the same on the disk.
SameViews == Entries' = Entries /\ Dirs' = Dirs /\ LogFiles' = LogFiles

\* What the log finds is told path by path, ...
LEMMA Views ==
    ASSUME NEW E \in SUBSET Numerals, NEW D \in SUBSET E,
           \A n \in Numerals : /\ LogPath(n) \in DOMAIN disk' <=> n \in E
                               /\ n \in E => (disk'[LogPath(n)] = Dir <=> n \in D)
    PROVE  Entries' = E /\ Dirs' = D /\ LogFiles' = E \ D
<1>1. Entries' = E
  BY DEF Entries
<1>2. Dirs' = D
  BY DEF Dirs, IsDir
<1>3. LogFiles' = E \ D
  BY DEF LogFiles, IsFile
<1> QED BY <1>1, <1>2, <1>3

\* ... now as after a step.
LEMMA ViewsNow ==
    /\ Entries \in SUBSET Numerals /\ Dirs \in SUBSET Entries /\ LogFiles = Entries \ Dirs
    /\ \A n \in Numerals : /\ LogPath(n) \in DOMAIN disk <=> n \in Entries
                           /\ n \in Entries => (disk[LogPath(n)] = Dir <=> n \in Dirs)
BY DEF Entries, Dirs, LogFiles, IsFile, IsDir

\* A step elsewhere, or of what a file holds.
LEMMA PutElsewhere ==
    ASSUME NEW path, NEW value, disk' = Put(path, value),
           \/ \A n \in Numerals : path # LogPath(n)
           \/ IsFile(path) /\ value # Dir
    PROVE  SameViews
<1>0. /\ DOMAIN disk' = DOMAIN disk \cup {path} /\ disk'[path] = value
      /\ \A p \in DOMAIN disk : p # path => disk'[p] = disk[p]
  BY PutFacts
<1>1. \A n \in Numerals : /\ LogPath(n) \in DOMAIN disk' <=> n \in Entries
                          /\ n \in Entries => (disk'[LogPath(n)] = Dir <=> n \in Dirs)
  BY <1>0, ViewsNow DEF IsFile
<1> QED BY <1>1, Views, ViewsNow DEF SameViews

\* A file put in the place of a log file is an entry.
LEMMA PutLogFile ==
    ASSUME NEW n \in Numerals, NEW value, value # Dir, disk' = Put(LogPath(n), value),
           ~ IsDir(LogPath(n))
    PROVE  /\ Entries' = Entries \cup {n} /\ Dirs' = Dirs /\ n \notin Dirs
           /\ LogFiles' = LogFiles \cup {n}
<1>0. /\ DOMAIN disk' = DOMAIN disk \cup {LogPath(n)} /\ disk'[LogPath(n)] = value
      /\ \A p \in DOMAIN disk : p # LogPath(n) => disk'[p] = disk[p]
  BY PutFacts
<1>1. n \notin Dirs
  BY DEF Dirs
<1>2. \A m \in Numerals :
          /\ LogPath(m) \in DOMAIN disk' <=> m \in Entries \cup {n}
          /\ m \in Entries \cup {n} => (disk'[LogPath(m)] = Dir <=> m \in Dirs)
  BY <1>0, <1>1, PathFacts, ViewsNow
<1>3. /\ Entries' = Entries \cup {n} /\ Dirs' = Dirs
      /\ LogFiles' = (Entries \cup {n}) \ Dirs
  <2>1. (Entries \cup {n}) \in SUBSET Numerals /\ (Dirs) \in SUBSET (Entries \cup {n})
    BY ViewsNow
  <2> QED BY <2>1, <1>2, Views
<1> QED BY <1>1, <1>3, ViewsNow

\* A directory made by the shell takes the place of a log file.
LEMMA PutDirectory ==
    ASSUME NEW n \in Numerals, disk' = Put(LogPath(n), Dir), LogPath(n) \notin DOMAIN disk
    PROVE  Entries' = Entries \cup {n} /\ Dirs' = Dirs \cup {n} /\ LogFiles' = LogFiles
<1>0. /\ DOMAIN disk' = DOMAIN disk \cup {LogPath(n)} /\ disk'[LogPath(n)] = Dir
      /\ \A p \in DOMAIN disk : p # LogPath(n) => disk'[p] = disk[p]
  BY PutFacts
<1>1. n \notin Entries
  BY ViewsNow
<1>2. \A m \in Numerals :
          /\ LogPath(m) \in DOMAIN disk' <=> m \in Entries \cup {n}
          /\ m \in Entries \cup {n} => (disk'[LogPath(m)] = Dir <=> m \in Dirs \cup {n})
  BY <1>0, <1>1, PathFacts, ViewsNow
<1>3. /\ Entries' = Entries \cup {n} /\ Dirs' = Dirs \cup {n}
      /\ LogFiles' = (Entries \cup {n}) \ (Dirs \cup {n})
  <2>1. (Entries \cup {n}) \in SUBSET Numerals /\ (Dirs \cup {n}) \in SUBSET (Entries \cup {n})
    BY ViewsNow
  <2> QED BY <2>1, <1>2, Views
<1> QED BY <1>1, <1>3, ViewsNow

\* A path that is removed is neither a file nor a directory any more, ...
LEMMA Removed ==
    ASSUME NEW n \in Numerals, disk' = Without(LogPath(n))
    PROVE  Entries' = Entries \ {n} /\ Dirs' = Dirs \ {n} /\ LogFiles' = LogFiles \ {n}
<1>0. /\ DOMAIN disk' = DOMAIN disk \ {LogPath(n)}
      /\ \A p \in DOMAIN disk' : disk'[p] = disk[p]
  BY WithoutFacts
<1>1. \A m \in Numerals :
          /\ LogPath(m) \in DOMAIN disk' <=> m \in Entries \ {n}
          /\ m \in Entries \ {n} => (disk'[LogPath(m)] = Dir <=> m \in Dirs \ {n})
  BY <1>0, PathFacts, ViewsNow
<1>2. /\ Entries' = Entries \ {n} /\ Dirs' = Dirs \ {n}
      /\ LogFiles' = (Entries \ {n}) \ (Dirs \ {n})
  <2>1. (Entries \ {n}) \in SUBSET Numerals /\ (Dirs \ {n}) \in SUBSET (Entries \ {n})
    BY ViewsNow
  <2> QED BY <2>1, <1>1, Views
<1> QED BY <1>2, ViewsNow

\* ... and if it is not a log file's, nothing changes for the log.
LEMMA RemovedElsewhere ==
    ASSUME NEW path, disk' = Without(path), \A n \in Numerals : path # LogPath(n)
    PROVE  SameViews
<1>1. \A n \in Numerals : /\ LogPath(n) \in DOMAIN disk' <=> n \in Entries
                          /\ n \in Entries => (disk'[LogPath(n)] = Dir <=> n \in Dirs)
  BY WithoutFacts, ViewsNow
<1> QED BY <1>1, Views, ViewsNow DEF SameViews

\* Cardinalities of sets of numerals.
LEMMA CardFacts ==
    ASSUME NEW S \in SUBSET Numerals
    PROVE  /\ Cardinality(S) \in Nat
           /\ \A T \in SUBSET S : Cardinality(T) <= Cardinality(S)
           /\ \A n \in Numerals :
                 /\ Cardinality(S \cup {n}) = IF n \in S THEN Cardinality(S) ELSE Cardinality(S) + 1
                 /\ Cardinality(S \ {n}) = IF n \in S THEN Cardinality(S) - 1 ELSE Cardinality(S)
<1>1. IsFiniteSet(Numerals)
  BY ShellAssumption, FS_Interval DEF Numerals
<1>2. IsFiniteSet(S)
  BY <1>1, FS_Subset
<1>3. Cardinality(S) \in Nat
  BY <1>2, FS_CardinalityType
<1>4. \A T \in SUBSET S : Cardinality(T) <= Cardinality(S)
  BY <1>2, FS_Subset
<1>5. \A n \in Numerals :
          Cardinality(S \cup {n}) = IF n \in S THEN Cardinality(S) ELSE Cardinality(S) + 1
  BY <1>2, FS_AddElement
<1>6. \A n \in Numerals :
          Cardinality(S \ {n}) = IF n \in S THEN Cardinality(S) - 1 ELSE Cardinality(S)
  BY <1>2, FS_RemoveElement
<1> QED BY <1>3, <1>4, <1>5, <1>6

\* The numbers after one another.
LEMMA NextNumber ==
    ASSUME NEW n \in Numerals
    PROVE  Next1(n) \in Numerals /\ Next1(n) = IF n = MaxFileNumeral THEN 0 ELSE n + 1
<1>1. CASE n = MaxFileNumeral
  BY <1>1, ShellAssumption DEF Next1, Numerals
<1>2. CASE n < MaxFileNumeral
  BY <1>2, ShellAssumption DEF Next1, Numerals
<1> QED BY <1>1, <1>2, ShellAssumption DEF Numerals

\* Two numbers followed by the same one are the same.
LEMMA NextIsNew ==
    ASSUME NEW m \in Numerals, NEW n \in Numerals, Next1(m) = Next1(n)
    PROVE  m = n
BY NextNumber, ShellAssumption DEF Numerals

\* The numbers of a window are numerals, and follow each other.
LEMMA AtFacts ==
    ASSUME NEW s \in Numerals, NEW i \in 0 .. MaxFileNumeral
    PROVE  /\ At(s, i) \in Numerals /\ At(s, 0) = s
           /\ i < MaxFileNumeral => /\ At(s, i + 1) = Next1(At(s, i))
                                    /\ At(Next1(s), i) = At(s, i + 1)
           /\ \A j \in 0 .. MaxFileNumeral : At(s, i) = At(s, j) => i = j
<1>1. At(s, i) \in Numerals /\ At(s, 0) = s
  BY ShellAssumption DEF At, Numerals
<1>2. ASSUME i < MaxFileNumeral
      PROVE  At(s, i + 1) = Next1(At(s, i)) /\ At(Next1(s), i) = At(s, i + 1)
  BY <1>1, <1>2, NextNumber, ShellAssumption DEF At, Numerals
<1>3. \A j \in 0 .. MaxFileNumeral : At(s, i) = At(s, j) => i = j
  BY ShellAssumption DEF At, Numerals
<1> QED BY <1>1, <1>2, <1>3

\* There are as many numbers in a window as it is long.
LEMMA WindowSize ==
    ASSUME NEW s \in Numerals, NEW k \in 0 .. MaxFileNumeral
    PROVE  Cardinality({At(s, i) : i \in 0 .. k - 1}) = k
<1> DEFINE W == {At(s, i) : i \in 0 .. k - 1}
           f == [i \in 0 .. k - 1 |-> At(s, i)]
<1>1. IsFiniteSet(0 .. k - 1) /\ Cardinality(0 .. k - 1) = k
  BY FS_Interval
<1>2. \A i, j \in 0 .. k - 1 : At(s, i) = At(s, j) => i = j
  BY AtFacts, ShellAssumption
<1>3. f \in Bijection(0 .. k - 1, W)
  BY <1>2 DEF Bijection, Injection, IsInjective, Surjection
<1>4. ExistsBijection(0 .. k - 1, W)
  BY <1>3 DEF ExistsBijection
<1> QED BY <1>1, <1>4, FS_Bijection

\* The largest and the smallest number of a set.
LEMMA Extremes ==
    ASSUME NEW S \in SUBSET Int, NEW x \in S
    PROVE  /\ (\A y \in S : x >= y) => Max(S) = x
           /\ (\A y \in S : x <= y) => Min(S) = x
<1>1. ASSUME \A y \in S : x >= y PROVE Max(S) = x
  <2>1. \A z \in S : (\A y \in S : z >= y) => z = x
    BY <1>1
  <2> QED BY <1>1, <2>1 DEF Max
<1>2. ASSUME \A y \in S : x <= y PROVE Min(S) = x
  <2>1. \A z \in S : (\A y \in S : z <= y) => z = x
    BY <1>2
  <2> QED BY <1>2, <2>1 DEF Min
<1> QED BY <1>1, <1>2

\* After a start the two ends of the window are recognised, wherever the numbers
\* wrap.
LEMMA EndsFound ==
    ASSUME NEW s \in Numerals, NEW k \in 1 .. FilesLimit,
           LogFiles = {At(s, i) : i \in 0 .. k - 1}
    PROVE  newest_and_oldest = <<At(s, k - 1), s>>
<1> DEFINE max == IF LogFiles = {} THEN 0 ELSE Max(LogFiles)
           min == IF LogFiles = {} THEN MaxFileNumeral ELSE Min(LogFiles)
           low == {n \in LogFiles : n < min + FilesLimit}
           high == {n \in LogFiles : n > max - FilesLimit}
<1>1. /\ FilesLimit \in Nat /\ MaxFileNumeral \in Nat /\ MaxFileNumeral >= 3 * FilesLimit - 1
      /\ s \in Nat /\ s <= MaxFileNumeral
  BY LogAssumption, ShellAssumption DEF Numerals
<1>2. Cardinality(LogFiles) = k
  BY <1>1, WindowSize
<1>3. s \in LogFiles /\ LogFiles \in SUBSET Int /\ At(s, k - 1) \in LogFiles
  BY <1>1 DEF At
<1>4. CASE s + k - 1 <= MaxFileNumeral
  <2>1. At(s, k - 1) = s + k - 1 /\ \A n \in LogFiles : s <= n /\ n <= s + k - 1
    BY <1>1, <1>4 DEF At
  <2>2. max = s + k - 1 /\ min = s
    BY <1>1, <1>3, <2>1, Extremes
  <2>3. ~ (max - min > 2 * FilesLimit)
    BY <1>1, <2>2
  <2> QED BY <2>1, <2>2, <2>3 DEF newest_and_oldest
<1>5. CASE s + k - 1 > MaxFileNumeral
  <2>1. /\ At(s, k - 1) = s + k - 2 - MaxFileNumeral /\ k >= 2 /\ s > MaxFileNumeral - FilesLimit
        /\ 0 \in LogFiles /\ MaxFileNumeral \in LogFiles
    <3>1. /\ MaxFileNumeral - s \in 0 .. k - 1 /\ MaxFileNumeral - s + 1 \in 0 .. k - 1
          /\ MaxFileNumeral = At(s, MaxFileNumeral - s)
          /\ 0 = At(s, MaxFileNumeral - s + 1)
      BY <1>1, <1>5 DEF At
    <3>2. 0 \in LogFiles /\ MaxFileNumeral \in LogFiles
      BY <3>1
    <3>3. At(s, k - 1) = s + k - 2 - MaxFileNumeral /\ k >= 2 /\ s > MaxFileNumeral - FilesLimit
      BY <1>1, <1>5 DEF At
    <3> QED BY <3>2, <3>3
  <2>2. ASSUME NEW n \in LogFiles
        PROVE  (s <= n /\ n <= MaxFileNumeral) \/ (0 <= n /\ n <= s + k - 2 - MaxFileNumeral)
    <3>1. PICK i \in 0 .. k - 1 : n = At(s, i)
      OBVIOUS
    <3> QED BY <1>1, <1>5, <3>1 DEF At
  <2>3. /\ s + k - 2 - MaxFileNumeral <= FilesLimit - 2
        /\ FilesLimit - 2 <= MaxFileNumeral - FilesLimit
    BY <1>1
  <2>4. ASSUME NEW n \in LogFiles
        PROVE  n \in 0 .. MaxFileNumeral /\ (n > MaxFileNumeral - FilesLimit => s <= n)
    BY <1>1, <1>3, <2>2, <2>3
  <2>5. max = MaxFileNumeral /\ min = 0
    <3>1. /\ \A n \in LogFiles : MaxFileNumeral >= n
          /\ \A n \in LogFiles : 0 <= n
      BY <2>4
    <3>2. Max(LogFiles) = MaxFileNumeral
      BY <1>3, <2>1, <3>1, Extremes
    <3>3. Min(LogFiles) = 0
      BY <1>3, <2>1, <3>1, Extremes
    <3> QED BY <2>1, <3>2, <3>3
  <2>6. At(s, k - 1) \in low /\ \A n \in low : n <= At(s, k - 1)
    BY <1>1, <1>3, <2>1, <2>2, <2>5
  <2>7. s \in high /\ \A n \in high : s <= n
    BY <1>3, <2>1, <2>4, <2>5
  <2>8. Max(low) = At(s, k - 1) /\ Min(high) = s
    BY <1>3, <2>6, <2>7, Extremes
  <2>9. Cardinality(LogFiles) > 1 /\ max - min > 2 * FilesLimit
    BY <1>1, <1>2, <2>1, <2>5
  <2> QED BY <2>8, <2>9 DEF newest_and_oldest
<1> QED BY <1>1, <1>4, <1>5

\* The disk stays a tree.
LEMMA PutInTree ==
    ASSUME Tree, NEW path, NEW value \in Nat \cup {Dir}, disk' = Put(path, value),
           \/ IsFile(path) /\ value # Dir
           \/ path \notin DOMAIN disk /\ IsDir(Parent(path))
    PROVE  Tree'
<1>1. /\ DOMAIN disk' = DOMAIN disk \cup {path} /\ disk'[path] = value
      /\ \A p \in DOMAIN disk : p # path => disk'[p] = disk[p]
  BY PutFacts
<1>2. \A p \in DOMAIN disk' : disk'[p] \in Nat \cup {Dir}
  BY <1>1 DEF Tree
<1>3. \A q : IsDir(q) => q # path /\ IsDir(q)'
  BY <1>1 DEF IsDir, IsFile
<1>4. \A p \in DOMAIN disk' : Parent(p) = <<>> \/ IsDir(Parent(p))'
  <2> SUFFICES ASSUME NEW p \in DOMAIN disk' PROVE Parent(p) = <<>> \/ IsDir(Parent(p))'
    OBVIOUS
  <2>1. CASE p \in DOMAIN disk
    BY <2>1, <1>3 DEF Tree
  <2>2. CASE p \notin DOMAIN disk
    BY <2>2, <1>1, <1>3 DEF IsFile
  <2> QED BY <2>1, <2>2
<1> QED BY <1>2, <1>3, <1>4 DEF Tree

\* Nor do removals spoil it: only an empty directory is removed.
LEMMA RemovedFromTree ==
    ASSUME Tree, NEW path, Removable(path), disk' = Without(path)
    PROVE  Tree'
<1>1. /\ DOMAIN disk' = DOMAIN disk \ {path}
      /\ \A p \in DOMAIN disk' : disk'[p] = disk[p]
  BY WithoutFacts
<1>2. \A q : IsDir(q) /\ q # path => IsDir(q)'
  BY <1>1 DEF IsDir
<1>3. path # <<Mnt>> /\ \A p \in DOMAIN disk' : Parent(p) # path
  BY <1>1 DEF Removable
<1>4. \A p \in DOMAIN disk' : disk'[p] \in Nat \cup {Dir} /\ (Parent(p) = <<>> \/ IsDir(Parent(p))')
  BY <1>1, <1>2, <1>3 DEF Tree
<1> QED BY <1>2, <1>3, <1>4 DEF Tree

\* What the shell does to the log, and that it shows in meddled.
LEMMA Flagged ==
    ASSUME NEW kind, NEW path, Meddle(kind, path)
    PROVE  /\ meddled \subseteq meddled'
           /\ path \in {LogPath(n) : n \in Numerals} => kind \in meddled'
<1>1. meddled \subseteq meddled'
  BY DEF Meddle
<1>2. ASSUME NEW n \in Numerals, path = LogPath(n) PROVE kind \in meddled'
  <2>1. Len(path) >= 2 /\ SubSeq(path, 1, 2) = LogDir /\ path[Len(path)] # Other
    BY <1>2, PathFacts, ShellAssumption DEF Numerals
  <2> QED BY <2>1 DEF Meddle
<1> QED BY <1>1, <1>2

\* A command of the shell, as far as the log files go: one was added, as a file or
\* a directory, one was removed, or neither.
Adds(n) == /\ n \notin Entries /\ Entries' = Entries \cup {n} /\ Dirs' \in {Dirs, Dirs \cup {n}}
           /\ "add" \in meddled' /\ cmds' = cmds - 1
Removes(n) == /\ Entries' = Entries \ {n} /\ Dirs' = Dirs \ {n}
              /\ "rm" \in meddled' /\ cmds' = cmds - 1

\* A command of the shell leaves the log files, adds one or removes one, and only
\* a removal makes pairs of them forget which was older.
LEMMA ShellViews ==
    ASSUME LogIInv, Shell
    PROVE  /\ UNCHANGED <<backend_state, file_ctr, newest, oldest, pc, then, target, len, stored,
                          kept>>
           /\ cmds' \in 0 .. cmds /\ meddled \subseteq meddled'
           /\ SameViews \/ \E n \in Numerals : Adds(n) \/ Removes(n)
           /\ \A pair \in older : {pair[1], pair[2]} \subseteq LogFiles' => pair \in older'
<1> USE DEF LogIInv, ShellOK
<1> DEFINE Kept == UNCHANGED <<backend_state, file_ctr, newest, oldest, pc, then, target, len,
                               stored, kept>>
           Seen == SameViews \/ \E n \in Numerals : Adds(n) \/ Removes(n)
           Ages == \A pair \in older : {pair[1], pair[2]} \subseteq LogFiles' => pair \in older'
<1>0. \A kind, path : Meddle(kind, path) => Kept
  BY DEF Meddle
<1>1. CASE cmd_cd /\ UNCHANGED <<log, history>>
  BY <1>1 DEF cmd_cd, log, history, SameViews, Entries, Dirs, LogFiles, IsDir, IsFile
<1>2. ASSUME NEW path \in Typed, cmd_mkdir(path), Meddle("add", path), UNCHANGED <<file, older>>
      PROVE  Kept /\ cmds' \in 0 .. cmds /\ meddled \subseteq meddled' /\ Seen /\ Ages
  <2>1. /\ disk' = Put(path, Dir) /\ path \notin DOMAIN disk /\ cmds' = cmds - 1
        /\ cmds' \in 0 .. cmds
    BY <1>2 DEF cmd_mkdir, Command
  <2>2. meddled \subseteq meddled' /\ (path \in {LogPath(n) : n \in Numerals} => "add" \in meddled')
    BY <1>2, Flagged
  <2>3. ASSUME NEW n \in Numerals, path = LogPath(n) PROVE Adds(n)
    <3>1. Entries' = Entries \cup {n} /\ Dirs' = Dirs \cup {n} /\ n \notin Entries
      BY <2>1, <2>3, PutDirectory, ViewsNow
    <3> QED BY <2>1, <2>2, <2>3, <3>1 DEF Adds
  <2>4. (\A n \in Numerals : path # LogPath(n)) => SameViews
    BY <2>1, PutElsewhere
  <2> QED BY <1>0, <1>2, <2>1, <2>2, <2>3, <2>4
<1>3. ASSUME NEW path \in Typed, cmd_rm(path), Meddle("rm", path),
             older' = {pair \in older : path \notin {LogPath(pair[1]), LogPath(pair[2])}}
      PROVE  Kept /\ cmds' \in 0 .. cmds /\ meddled \subseteq meddled' /\ Seen /\ Ages
  <2>1. disk' = Without(path) /\ cmds' \in 0 .. cmds /\ cmds' = cmds - 1
    BY <1>3 DEF cmd_rm, Command
  <2>2. meddled \subseteq meddled' /\ (path \in {LogPath(n) : n \in Numerals} => "rm" \in meddled')
    BY <1>3, Flagged
  <2>3. ASSUME NEW n \in Numerals, path = LogPath(n) PROVE Removes(n)
    <3>1. Entries' = Entries \ {n} /\ Dirs' = Dirs \ {n}
      BY <2>1, <2>3, Removed
    <3> QED BY <2>1, <2>2, <2>3, <3>1 DEF Removes
  <2>4. (\A n \in Numerals : path # LogPath(n)) => SameViews
    BY <2>1, RemovedElsewhere
  <2>5. path \notin DOMAIN disk'
    BY <2>1, WithoutFacts
  <2>6. \A n \in LogFiles' : LogPath(n) # path
    BY <2>5 DEF LogFiles, IsFile
  <2> QED BY <1>0, <1>3, <2>1, <2>2, <2>3, <2>4, <2>6
<1>4. ASSUME NEW path \in Typed, cmd_trunc(path), Meddle("edit", path), UNCHANGED <<file, older>>
      PROVE  Kept /\ cmds' \in 0 .. cmds /\ meddled \subseteq meddled' /\ Seen /\ Ages
  <2>1. cmds' \in 0 .. cmds /\ IsFile(path)
    BY <1>4 DEF cmd_trunc, Command
  <2>2. PICK length \in 0 .. WriteMax : disk' = Put(path, length)
    BY <1>4 DEF cmd_trunc
  <2>3. length # Dir
    BY ShellAssumption
  <2>4. SameViews
    BY <2>1, <2>2, <2>3, PutElsewhere
  <2> QED BY <1>0, <1>4, <2>1, <2>4, Flagged
<1>5. ASSUME NEW path \in Typed, cmd_write(path), UNCHANGED <<file, older>>,
             Meddle(IF path \in DOMAIN disk THEN "edit" ELSE "add", path)
      PROVE  Kept /\ cmds' \in 0 .. cmds /\ meddled \subseteq meddled' /\ Seen /\ Ages
  <2> DEFINE size == IF IsFile(path) THEN disk[path] ELSE 0
  <2>1. /\ disk' = Put(path, size) /\ cmds' = cmds - 1 /\ cmds' \in 0 .. cmds
        /\ IsFile(path) \/ path \notin DOMAIN disk
    BY <1>5 DEF cmd_write, Command
  <2>2. size # Dir
    BY ShellAssumption DEF IsFile
  <2>3. /\ meddled \subseteq meddled'
        /\ path \in {LogPath(n) : n \in Numerals} /\ path \notin DOMAIN disk => "add" \in meddled'
    BY <1>5, Flagged
  <2> HIDE DEF size
  <2>4. IsFile(path) \/ (\A n \in Numerals : path # LogPath(n)) => SameViews
    BY <2>1, <2>2, PutElsewhere
  <2>5. ASSUME ~ IsFile(path), NEW n \in Numerals, path = LogPath(n) PROVE Adds(n)
    <3>1. path \notin DOMAIN disk /\ ~ IsDir(LogPath(n)) /\ n \notin Entries
      BY <2>1, <2>5 DEF IsDir, Entries
    <3> QED BY <2>1, <2>2, <2>3, <2>5, <3>1, PutLogFile DEF Adds
  <2> QED BY <1>0, <1>5, <2>1, <2>3, <2>4, <2>5
<1>6. CASE WriteDone /\ Meddle("edit", sh.path) /\ UNCHANGED <<file, older>>
  <2>1. cmds' = cmds /\ cmds \in Nat /\ sh.size # Dir
    BY <1>6, ShellAssumption DEF WriteDone
  <2>2. SameViews
    <3>1. CASE UNCHANGED disk
      BY <3>1 DEF SameViews, Entries, Dirs, LogFiles, IsDir, IsFile
    <3>2. CASE IsFile(sh.path) /\ disk' = Put(sh.path, sh.size)
      BY <2>1, <3>2, PutElsewhere
    <3> QED BY <1>6, <3>1, <3>2 DEF WriteDone
  <2> QED BY <1>0, <1>6, <2>1, <2>2, Flagged
<1> QED BY <1>1, <1>2, <1>3, <1>4, <1>5, <1>6 DEF Shell

\* A set of numerals has a smallest and a largest element.
LEMMA EndsExist ==
    ASSUME NEW S \in SUBSET Numerals, S # {}
    PROVE  Max(S) \in S /\ Min(S) \in S
<1> DEFINE R == {ss \in Nat \X Nat : ss[1] < ss[2]}
<1>1. IsWellFoundedOn(R, Nat)
  <2>1. OpToRel(<, Nat) = R
    BY DEF OpToRel
  <2> QED BY <2>1, NatLessThanWellFounded
<1>2. ASSUME NEW T \in SUBSET Nat, T # {} PROVE \E x \in T : \A y \in T : x <= y
  <2>1. PICK x \in T : \A y \in T : ~ (<<y, x>> \in R)
    <3> HIDE DEF R
    <3> QED BY <1>1, <1>2, WFMin
  <2>2. ASSUME NEW y \in T PROVE x <= y
    <3>1. x \in Nat /\ y \in Nat
      OBVIOUS
    <3>2. y < x => <<y, x>> \in R
      BY <3>1
    <3>3. ~ (y < x)
      BY <2>1, <3>2
    <3> QED BY <3>1, <3>3
  <2> QED BY <2>2
<1>3. PICK x \in S : \A y \in S : x <= y
  <2>1. S \in SUBSET Nat
    BY ShellAssumption DEF Numerals
  <2> QED BY <1>2, <2>1
<1>4. PICK z \in S : \A y \in S : z >= y
  <2> DEFINE T == {MaxFileNumeral - n : n \in S}
  <2>1. T \in SUBSET Nat /\ T # {}
    BY ShellAssumption DEF Numerals
  <2>2. PICK t \in T : \A y \in T : t <= y
    <3> HIDE DEF T
    <3> QED BY <1>2, <2>1
  <2>3. PICK z \in S : t = MaxFileNumeral - z
    OBVIOUS
  <2>4. ASSUME NEW y \in S PROVE z >= y
    <3>1. MaxFileNumeral - y \in T
      OBVIOUS
    <3>2. MaxFileNumeral - z <= MaxFileNumeral - y
      BY <2>2, <2>3, <3>1
    <3> QED BY <3>2, ShellAssumption DEF Numerals
  <2> QED BY <2>4
<1> QED BY <1>3, <1>4 DEF Max, Min

\* What discovery finds are numerals (find_newest_and_oldest).
LEMMA FoundInRange == newest_and_oldest[1] \in Numerals /\ newest_and_oldest[2] \in Numerals
<1> DEFINE max == IF LogFiles = {} THEN 0 ELSE Max(LogFiles)
           min == IF LogFiles = {} THEN MaxFileNumeral ELSE Min(LogFiles)
           low == {n \in LogFiles : n < min + FilesLimit}
           high == {n \in LogFiles : n > max - FilesLimit}
<1>1. LogFiles \in SUBSET Numerals /\ 0 \in Numerals /\ MaxFileNumeral \in Numerals
  BY ShellAssumption DEF LogFiles, Numerals
<1>2. max \in Numerals /\ min \in Numerals
  BY <1>1, EndsExist
<1>3. ASSUME LogFiles # {} PROVE max \in high /\ min \in low
  <2>1. max \in LogFiles /\ min \in LogFiles
    BY <1>1, <1>3, EndsExist
  <2> HIDE DEF max, min
  <2> QED BY <1>2, <2>1, LogAssumption, ShellAssumption DEF Numerals
<1>4. LogFiles # {} => Max(low) \in Numerals /\ Min(high) \in Numerals
  BY <1>1, <1>3, EndsExist
<1>5. CASE Cardinality(LogFiles) > 1 /\ max - min > 2 * FilesLimit
  <2>1. LogFiles # {}
    BY <1>5, FS_EmptySet
  <2> QED BY <1>4, <1>5, <2>1 DEF newest_and_oldest
<1>6. CASE ~ (Cardinality(LogFiles) > 1 /\ max - min > 2 * FilesLimit)
  BY <1>2, <1>6 DEF newest_and_oldest
<1> QED BY <1>5, <1>6

\* Types of the thread's variables.
LEMMA TypesStep == LogIInv /\ [Next]_vars => LogTypes'
<1> SUFFICES ASSUME LogIInv, [Next]_vars PROVE LogTypes'
  OBVIOUS
<1> USE DEF LogIInv, Goto
<1>1. CASE NoDirectory
  BY <1>1, ShellAssumption DEF NoDirectory, Corrupt, history, LogTypes
<1>2. CASE Record
  <2>1. CASE backend_state = "ok"
    BY <1>2, <2>1 DEF Record, history, LogTypes
  <2>2. CASE backend_state # "ok"
    <3>1. Initialise(newest_and_oldest) /\ len' \in 0 .. WriteMax /\ UNCHANGED kept
      BY <1>2, <2>2, ShellAssumption DEF Record, history
    <3>2. Next1(newest_and_oldest[1]) \in Numerals
      BY FoundInRange, NextNumber
    <3> QED BY <3>1, <3>2, FoundInRange DEF Initialise, LogTypes
  <2> QED BY <2>1, <2>2
<1>3. CASE Tell
  <2>1. Next1(newest) \in Numerals
    BY NextNumber DEF LogTypes
  <2> QED BY <1>3, <2>1 DEF Tell, history, LogTypes
<1>4. CASE Sweep
  <2>1. Next1(oldest) \in Numerals
    BY NextNumber DEF LogTypes
  <2> QED BY <1>4, <2>1, ShellAssumption DEF Sweep, Unlink, Corrupt, LogTypes
<1>5. CASE Make
  BY <1>5, LogAssumption, ShellAssumption DEF Make, Corrupt, history, LogTypes
<1>6. CASE Write
  BY <1>6 DEF Write, history, LogTypes
<1>7. CASE MakeRoom
  <2>1. Next1(oldest) \in Numerals
    BY NextNumber DEF LogTypes
  <2> QED BY <1>7, <2>1 DEF MakeRoom, Unlink, LogTypes
<1>8. CASE Check
  <2>1. Next1(newest) \in Numerals
    BY NextNumber DEF LogTypes
  <2> QED BY <1>8, <2>1, ShellAssumption DEF Check, Corrupt, history, LogTypes
<1>9. CASE Sync
  <2>1. stored => kept + len \in 0 .. FileSize
    BY <1>9, LogAssumption DEF Sync, Places, LogTypes, FileOK, FileRecords
  <2> QED BY <1>9, <2>1, ShellAssumption DEF Sync, Return, LogTypes
<1>10. CASE SyncFails
  BY <1>10, ShellAssumption DEF SyncFails, Corrupt, history, LogTypes
<1>11. CASE Mount
  BY <1>11 DEF Mount, history, LogTypes
<1>12. CASE Restart
  BY <1>12, LogAssumption, ShellAssumption DEF Restart, LogTypes, Numerals
<1>13. CASE Shell
  BY <1>13, ShellViews DEF LogTypes
<1>14. CASE UNCHANGED vars
  BY <1>14 DEF vars, log, history, LogTypes
<1> QED BY <1>1, <1>2, <1>3, <1>4, <1>5, <1>6, <1>7, <1>8, <1>9, <1>10, <1>11, <1>12, <1>13, <1>14
        DEF Next, LogThread

\* A file outlives what is put on the disk.
LEMMA FileSurvives ==
    ASSUME NEW path, NEW value, disk' = Put(path, value), value # Dir \/ path \notin DOMAIN disk,
           NEW q, IsFile(q)
    PROVE  IsFile(q)' /\ (q # path => disk'[q] = disk[q])
<1>1. /\ DOMAIN disk' = DOMAIN disk \cup {path} /\ disk'[path] = value
      /\ \A p \in DOMAIN disk : p # path => disk'[p] = disk[p]
  BY PutFacts
<1> QED BY <1>1 DEF IsFile

\* Every change of the disk.
PutsFile(path) == \E value \in Nat : /\ disk' = Put(path, value)
                                     /\ \/ IsFile(path)
                                        \/ path \notin DOMAIN disk /\ IsDir(Parent(path))
PutsDir(path)  == disk' = Put(path, Dir) /\ path \notin DOMAIN disk /\ IsDir(Parent(path))
Unlinks(path)  == disk' = Without(path) /\ Removable(path)

\* A command of the shell puts one path on the disk or removes one (fs shell).
LEMMA ShellOnDisk ==
    ASSUME LogIInv, Shell
    PROVE  /\ ShellOK'
           /\ \/ UNCHANGED <<disk, file>>
              \/ \E path : /\ PutsFile(path) \/ PutsDir(path)
                           /\ UNCHANGED file
                           /\ path \in {LogPath(n) : n \in Numerals} => meddled' # {}
              \/ \E path : /\ Unlinks(path)
                           /\ file' = [file EXCEPT !.live = @ /\ file.path # path]
<1> USE DEF LogIInv, ShellOK
<1>1. CASE cmd_cd /\ UNCHANGED <<log, history>>
  BY <1>1 DEF cmd_cd, log
<1>2. ASSUME NEW path \in Typed, cmd_mkdir(path), Meddle("add", path), UNCHANGED <<file, older>>
      PROVE  ShellOK' /\ PutsDir(path) /\ (path \in {LogPath(n) : n \in Numerals} => meddled' # {})
  <2>1. ShellOK'
    BY <1>2, ShellAssumption DEF cmd_mkdir, Command
  <2>2. PutsDir(path)
    BY <1>2 DEF cmd_mkdir, PutsDir
  <2> QED BY <1>2, <2>1, <2>2, Flagged
<1>3. ASSUME NEW path \in Typed, cmd_rm(path) PROVE ShellOK' /\ Unlinks(path)
  <2>1. ShellOK'
    BY <1>3, ShellAssumption DEF cmd_rm, Command
  <2> QED BY <1>3, <2>1 DEF cmd_rm, Unlinks
<1>4. ASSUME NEW path \in Typed, cmd_trunc(path), Meddle("edit", path), UNCHANGED <<file, older>>
      PROVE  ShellOK' /\ PutsFile(path) /\ (path \in {LogPath(n) : n \in Numerals} => meddled' # {})
  <2>1. ShellOK' /\ IsFile(path) /\ \E length \in 0 .. WriteMax : disk' = Put(path, length)
    BY <1>4, ShellAssumption DEF cmd_trunc, Command
  <2>2. PutsFile(path)
    <3>1. PICK length \in 0 .. WriteMax : disk' = Put(path, length)
      BY <2>1
    <3>2. length \in Nat
      BY ShellAssumption
    <3> QED BY <2>1, <3>1, <3>2 DEF PutsFile
  <2> QED BY <1>4, <2>1, <2>2, Flagged
<1>5. ASSUME NEW path \in Typed, cmd_write(path), UNCHANGED <<file, older>>,
             Meddle(IF path \in DOMAIN disk THEN "edit" ELSE "add", path)
      PROVE  ShellOK' /\ PutsFile(path) /\ (path \in {LogPath(n) : n \in Numerals} => meddled' # {})
  <2> DEFINE size == IF IsFile(path) THEN disk[path] ELSE 0
  <2>1. size \in Nat
    BY DEF Tree, IsFile
  <2>2. /\ disk' = Put(path, size) /\ cmds' \in 0 .. ShellMax
        /\ IsFile(path) \/ (path \notin DOMAIN disk /\ IsDir(Parent(path)))
        /\ \E n \in 1 .. WriteMax, offset \in 0 .. size :
              sh' = [path |-> path, size |-> IF offset + n > size THEN offset + n ELSE size]
    BY <1>5, ShellAssumption DEF cmd_write, Command
  <2> HIDE DEF size
  <2>3. sh'.size \in Nat
    BY <2>1, <2>2
  <2>4. PutsFile(path)
    BY <2>1, <2>2 DEF PutsFile
  <2> QED BY <1>5, <2>2, <2>3, <2>4, Flagged
<1>6. ASSUME WriteDone, Meddle("edit", sh.path), UNCHANGED <<file, older>>
      PROVE  /\ ShellOK' /\ (UNCHANGED disk \/ PutsFile(sh.path))
             /\ sh.path \in {LogPath(n) : n \in Numerals} => meddled' # {}
  <2>1. UNCHANGED disk \/ PutsFile(sh.path)
    BY <1>6 DEF WriteDone, PutsFile
  <2> QED BY <1>6, <2>1, Flagged DEF WriteDone
<1> QED BY <1>1, <1>2, <1>3, <1>4, <1>5, <1>6 DEF Shell

\* The log's own changes of it.
LEMMA LogOnDisk ==
    ASSUME LogIInv, NEW onSuccess, NEW onError, Unlink(onSuccess, onError)
    PROVE  \/ /\ Unlinks(LogPath(oldest))
              /\ file' = [file EXCEPT !.live = @ /\ file.path # LogPath(oldest)]
           \/ onError /\ UNCHANGED disk
           \/ UNCHANGED <<disk, file>>
BY DEF Unlink, Unlinks

\* A written part of a record makes the directory of the log, at most.
LEMMA RecordOnDisk ==
    ASSUME LogIInv, Record
    PROVE  UNCHANGED file /\ (UNCHANGED disk \/ PutsDir(LogDir))
<1>1. UNCHANGED file
  BY DEF Record
<1>2. CASE backend_state # "ok" /\ ~ IsDir(LogDir)
  <2>1. LogDir \notin DOMAIN disk /\ disk' = Put(LogDir, Dir)
    BY <1>2 DEF Record, LogIInv, IsDir, IsFile, LogTypes
  <2> QED BY <1>1, <2>1, PathFacts DEF PutsDir, LogIInv, Tree
<1> QED BY <1>1, <1>2 DEF Record

\* A sync or a close puts the length of the open file on the disk, and makes or
\* removes nothing.
LEMMA SyncOnDisk ==
    ASSUME LogIInv, disk' = Synced
    PROVE  /\ SameViews
           /\ IF file.live THEN PutsFile(file.path) /\ disk' = Put(file.path, file.size)
                           ELSE UNCHANGED disk
<1>1. file.size \in Nat /\ file.size # Dir /\ (file.live => IsFile(file.path))
  BY LogAssumption, ShellAssumption DEF LogIInv, FileOK, FileRecords
<1>2. CASE file.live
  BY <1>1, <1>2, PutElsewhere DEF Synced, PutsFile
<1>3. CASE ~ file.live
  BY <1>3 DEF Synced, SameViews, Entries, Dirs, LogFiles, IsFile, IsDir
<1> QED BY <1>2, <1>3

\* The next file is made in the log's directory, the one before synced.
LEMMA MakeOnDisk ==
    ASSUME LogIInv, Make
    PROVE  \/ Corrupt /\ UNCHANGED <<disk, history>>
           \/ /\ (UNCHANGED disk /\ IsFile(LogPath(target))) \/ PutsFile(LogPath(target))
              /\ IsFile(LogPath(target))'
              /\ file' = [path |-> LogPath(target), size |-> 0, live |-> TRUE]
              /\ older' = Missing(target) \cup ((LogFiles \ {target}) \X {target})
              /\ file_ctr' = file_ctr + 1 /\ newest' = target /\ kept' = 0 /\ pc' = then
              /\ UNCHANGED <<backend_state, oldest, then, target, len, stored, meddled, cmds>>
              /\ IF IsFile(LogPath(target)) THEN UNCHANGED disk ELSE disk' = Put(LogPath(target), 0)
<1> DEFINE path == LogPath(target)
<1>1. CASE IsDir(path) \/ ~ IsDir(LogDir)
  BY <1>1 DEF Make
<1>2. CASE IsDir(LogDir) /\ ~ IsDir(path)
  <2>1. /\ file' = [path |-> path, size |-> 0, live |-> TRUE]
        /\ older' = Missing(target) \cup ((LogFiles \ {target}) \X {target})
        /\ file_ctr' = file_ctr + 1 /\ newest' = target /\ kept' = 0 /\ pc' = then
        /\ UNCHANGED <<backend_state, oldest, then, target, len, stored, meddled, cmds>>
        /\ disk' = IF IsFile(path) THEN disk ELSE Put(path, 0)
    BY <1>2 DEF Make, Goto, shellVars
  <2>2. CASE IsFile(path)
    BY <2>1, <2>2 DEF IsFile
  <2>3. CASE ~ IsFile(path)
    <3>1. path \notin DOMAIN disk
      BY <1>2, <2>3 DEF IsFile, IsDir
    <3>2. PutsFile(path)
      BY <1>2, <2>1, <2>3, <3>1, PathFacts DEF PutsFile
    <3>3. IsFile(path)'
      <4>1. disk' = Put(path, 0)
        BY <2>1, <2>3
      <4>2. path \in DOMAIN disk' /\ disk'[path] = 0
        BY <4>1, PutFacts
      <4>3. path' = path
        BY <2>1 DEF LogPath
      <4> QED BY <4>2, <4>3, ShellAssumption DEF IsFile
    <3> QED BY <2>1, <2>3, <3>2, <3>3
  <2> QED BY <2>2, <2>3
<1> QED BY <1>1, <1>2

\* Each of these leaves a tree.
LEMMA TreeKept ==
    ASSUME Tree, \/ UNCHANGED disk
                 \/ \E path : PutsFile(path) \/ PutsDir(path) \/ Unlinks(path)
    PROVE  Tree'
<1>1. CASE UNCHANGED disk
  BY <1>1 DEF Tree, IsDir
<1>2. ASSUME NEW path, PutsFile(path) PROVE Tree'
  <2>1. PICK value \in Nat : /\ disk' = Put(path, value)
                             /\ IsFile(path) \/ (path \notin DOMAIN disk /\ IsDir(Parent(path)))
    BY <1>2 DEF PutsFile
  <2>2. value # Dir
    BY ShellAssumption
  <2> QED BY <2>1, <2>2, PutInTree
<1>3. ASSUME NEW path, PutsDir(path) PROVE Tree'
  BY <1>3, PutInTree DEF PutsDir
<1>4. ASSUME NEW path, Unlinks(path) PROVE Tree'
  BY <1>4, RemovedFromTree DEF Unlinks
<1> QED BY <1>1, <1>2, <1>3, <1>4

\* So does every step.
LEMMA TreeStep == LogIInv /\ [Next]_vars => Tree' /\ ShellOK'
<1> SUFFICES ASSUME LogIInv, [Next]_vars PROVE Tree' /\ ShellOK'
  OBVIOUS
<1>1. ASSUME UNCHANGED shellVars PROVE ShellOK'
  BY <1>1 DEF shellVars, ShellOK, LogIInv
<1>2. CASE Record
  BY <1>1, <1>2, RecordOnDisk, TreeKept DEF Record, LogIInv
<1>3. CASE disk' = Synced /\ UNCHANGED shellVars
  BY <1>1, <1>3, SyncOnDisk, TreeKept DEF LogIInv
<1>4. CASE Make
  BY <1>1, <1>4, MakeOnDisk, TreeKept DEF Make, LogIInv
<1>5. CASE Sweep \/ MakeRoom
  <2>1. UNCHANGED disk \/ Unlinks(LogPath(oldest))
    BY <1>5, LogOnDisk DEF Sweep, MakeRoom, Unlink, Unlinks
  <2> QED BY <1>1, <1>5, <2>1, TreeKept DEF Sweep, MakeRoom, LogIInv
<1>6. CASE Shell
  BY <1>6, ShellOnDisk, TreeKept DEF LogIInv
<1>7. CASE Restart
  BY <1>7, TreeKept DEF Restart, LogIInv, ShellOK
<1>8. ASSUME UNCHANGED <<disk, shellVars>> PROVE Tree' /\ ShellOK'
  BY <1>1, <1>8, TreeKept DEF LogIInv
<1>9. CASE Sync \/ Tell
  BY <1>3, <1>8, <1>9 DEF Sync, Tell
<1>10. CASE NoDirectory \/ Write \/ Check \/ SyncFails \/ Mount \/ UNCHANGED vars
  BY <1>8, <1>10 DEF NoDirectory, Write, Check, SyncFails, Mount, vars
<1> QED BY <1>2, <1>4, <1>5, <1>6, <1>7, <1>9, <1>10 DEF Next, LogThread

\* The handle through a step of the disk.
LEMMA HandleKept ==
    ASSUME FileOK,
           \/ UNCHANGED file /\ (UNCHANGED disk \/ \E path : PutsFile(path) \/ PutsDir(path))
           \/ \E path : Unlinks(path) /\ file' = [file EXCEPT !.live = @ /\ file.path # path]
    PROVE  /\ FileOK'
           /\ file'.path = file.path /\ file'.size = file.size /\ (file'.live => file.live)
<1>1. CASE UNCHANGED <<file, disk>>
  BY <1>1 DEF FileOK, IsFile
<1>2. ASSUME NEW path, UNCHANGED file, PutsFile(path) \/ PutsDir(path)
      PROVE  FileOK'
  <2>1. PICK value : disk' = Put(path, value) /\ (value # Dir \/ path \notin DOMAIN disk)
    BY <1>2, ShellAssumption DEF PutsFile, PutsDir
  <2>2. file.live => IsFile(file.path)'
    BY <1>2, <2>1, FileSurvives DEF FileOK
  <2> QED BY <1>2, <2>2 DEF FileOK
<1>3. ASSUME NEW path, Unlinks(path), file' = [file EXCEPT !.live = @ /\ file.path # path]
      PROVE  /\ FileOK'
             /\ file'.path = file.path /\ file'.size = file.size /\ (file'.live => file.live)
  <2>1. /\ DOMAIN disk' = DOMAIN disk \ {path}
        /\ \A p \in DOMAIN disk' : disk'[p] = disk[p]
    BY <1>3, WithoutFacts DEF Unlinks
  <2>2. file \in FileRecords /\ file' \in FileRecords
    BY <1>3 DEF FileOK, FileRecords
  <2>3. /\ file'.path = file.path /\ file'.size = file.size
        /\ file'.live <=> file.live /\ file.path # path
    BY <1>3, <2>2 DEF FileRecords
  <2>4. file'.live => IsFile(file.path)'
    BY <2>1, <2>3 DEF FileOK, IsFile
  <2> QED BY <2>2, <2>3, <2>4 DEF FileOK
<1> QED BY <1>1, <1>2, <1>3

\* Where the handle and the disk change together, and where neither does.
LEMMA DiskSteps ==
    ASSUME LogIInv, [Next]_vars
    PROVE  \/ UNCHANGED file /\ (UNCHANGED disk \/ \E path : PutsFile(path) \/ PutsDir(path))
           \/ \E path : Unlinks(path) /\ file' = [file EXCEPT !.live = @ /\ file.path # path]
           \/ Make \/ Write \/ Restart
<1>1. CASE Record
  BY <1>1, RecordOnDisk
<1>2. CASE Sync \/ Tell
  BY <1>2, SyncOnDisk DEF Sync, Tell
<1>3. CASE Sweep \/ MakeRoom
  BY <1>3, LogOnDisk DEF Sweep, MakeRoom, Corrupt, Unlink, Unlinks
<1>4. CASE Shell
  BY <1>4, ShellOnDisk
<1>5. CASE NoDirectory \/ Check \/ SyncFails \/ Mount \/ UNCHANGED vars
  BY <1>5 DEF NoDirectory, Check, SyncFails, Mount, Corrupt, vars, log
<1> QED BY <1>1, <1>2, <1>3, <1>4, <1>5 DEF Next, LogThread

\* The handle is one of a log file, and of one there is.
LEMMA FileStep == LogIInv /\ [Next]_vars => FileOK'
<1> SUFFICES ASSUME LogIInv, [Next]_vars PROVE FileOK'
  OBVIOUS
<1>0. FileOK
  BY DEF LogIInv
<1>1. CASE Make
  <2>1. CASE Corrupt /\ UNCHANGED <<disk, history>>
    BY <1>0, <2>1, HandleKept DEF Corrupt
  <2>2. CASE /\ file' = [path |-> LogPath(target), size |-> 0, live |-> TRUE]
             /\ IsFile(LogPath(target))' /\ target' = target
    <3>1. target \in Numerals /\ 0 \in 0 .. FileSize
      BY LogAssumption DEF LogIInv, LogTypes
    <3> QED BY <2>2, <3>1 DEF FileOK, FileRecords
  <2> QED BY <1>1, <2>1, <2>2, MakeOnDisk
<1>2. CASE Write
  <2>1. /\ file \in FileRecords /\ len \in Nat /\ file.size + len <= FileSize
        /\ FileSize \in Nat
    BY <1>0, <1>2, LogAssumption, ShellAssumption DEF FileOK, LogIInv, Write, Places, LogTypes
  <2>2. PICK n \in 0 .. len : file' = [file EXCEPT !.size = @ + n]
    <3>1. file = [file EXCEPT !.size = @ + 0]
      BY <2>1 DEF FileRecords
    <3>2. /\ 0 \in 0 .. len /\ len \in 0 .. len
          /\ \A n \in 0 .. len - 1 : n \in 0 .. len
      BY <2>1
    <3>3. \/ UNCHANGED file
          \/ file' = [file EXCEPT !.size = @ + len]
          \/ \E n \in 0 .. len - 1 : file' = [file EXCEPT !.size = @ + n]
      BY <1>2 DEF Write
    <3> QED BY <3>1, <3>2, <3>3
  <2>3. /\ file.size \in Nat /\ file.size + n \in 0 .. FileSize
    BY <2>1, <2>2 DEF FileRecords
  <2>4. file' \in FileRecords /\ file'.path = file.path /\ file'.live = file.live
    BY <2>1, <2>2, <2>3 DEF FileRecords
  <2> QED BY <1>0, <1>2, <2>4 DEF Write, FileOK, IsFile
<1>3. CASE Restart
  <2>1. NoFile \in FileRecords /\ ~ NoFile.live
    BY LogAssumption DEF NoFile, FileRecords
  <2> QED BY <1>3, <2>1 DEF Restart, FileOK
<1> QED BY <1>0, <1>1, <1>2, <1>3, DiskSteps, HandleKept

\* What was taken stays on the disk.
LEMMA KeptStep == LogIInv /\ [Next]_vars /\ Tree' => KeptOnDisk'
<1> SUFFICES ASSUME LogIInv, [Next]_vars, Tree', meddled' = {}, file'.live
             PROVE  kept' <= disk'[file'.path]
  BY DEF KeptOnDisk
<1>0. FileOK /\ file.size \in Nat
  BY LogAssumption DEF LogIInv, FileOK, FileRecords
<1>1. CASE Make
  <2>1. CASE Corrupt /\ UNCHANGED <<disk, history>>
    BY <2>1 DEF LogIInv, KeptOnDisk, Corrupt, history
  <2>2. CASE /\ file' = [path |-> LogPath(target), size |-> 0, live |-> TRUE]
             /\ IsFile(LogPath(target))' /\ target' = target /\ kept' = 0
    <3>1. file'.path \in DOMAIN disk' /\ disk'[file'.path] \in Nat
      BY <2>2 DEF Tree, IsFile
    <3> QED BY <2>2, <3>1
  <2> QED BY <1>1, <2>1, <2>2, MakeOnDisk
<1>2. CASE Write
  <2>1. /\ file.live /\ UNCHANGED <<disk, kept>> /\ meddled = {}
        /\ file'.path = file.path
    BY <1>0, <1>2 DEF Write, history, FileOK, FileRecords
  <2> QED BY <2>1 DEF LogIInv, KeptOnDisk
<1>3. CASE Restart
  BY <1>3 DEF Restart, NoFile
<1>4. CASE Sync
  <2>1. file.live /\ UNCHANGED <<file, meddled>> /\ disk' = Put(file.path, file.size)
    BY <1>4, SyncOnDisk DEF Sync
  <2>2. disk'[file.path] = file.size
    BY <2>1, PutFacts
  <2>3. kept' <= file.size
    BY <1>4 DEF Sync, Return, LogIInv, Places
  <2> QED BY <2>1, <2>2, <2>3
<1>5. ASSUME UNCHANGED <<file, disk, kept>>, meddled \subseteq meddled'
      PROVE  kept' <= disk'[file'.path]
  BY <1>5 DEF LogIInv, KeptOnDisk
<1>6. ASSUME UNCHANGED <<file, kept>>, meddled \subseteq meddled', NEW path, NEW value,
             disk' = Put(path, value), path # file.path
      PROVE  kept' <= disk'[file'.path]
  <2>1. disk'[file.path] = disk[file.path]
    BY <1>0, <1>6, PutFacts DEF FileOK, IsFile
  <2> QED BY <1>6, <2>1 DEF LogIInv, KeptOnDisk
<1>7. ASSUME UNCHANGED kept, meddled \subseteq meddled', NEW path, Unlinks(path),
             file' = [file EXCEPT !.live = @ /\ file.path # path]
      PROVE  kept' <= disk'[file'.path]
  <2>1. file.live /\ file'.path = file.path /\ FileOK'
    BY <1>0, <1>7, HandleKept
  <2>2. disk'[file.path] = disk[file.path]
    BY <1>7, <2>1, WithoutFacts DEF Unlinks, FileOK, IsFile
  <2> QED BY <1>7, <2>1, <2>2 DEF LogIInv, KeptOnDisk
<1>8. CASE Record
  <2>1. UNCHANGED <<file, kept, meddled>>
    BY <1>8 DEF Record, history
  <2>2. UNCHANGED disk \/ (disk' = Put(LogDir, Dir) /\ LogDir # file.path)
    BY <1>0, <1>8, <2>1, RecordOnDisk, PathFacts DEF PutsDir, FileOK
  <2> QED BY <1>5, <1>6, <2>1, <2>2
<1>9. CASE Sweep \/ MakeRoom
  <2>1. UNCHANGED <<kept, meddled>>
    BY <1>9 DEF Sweep, MakeRoom
  <2>2. \/ UNCHANGED <<file, disk>>
        \/ \E path : Unlinks(path) /\ file' = [file EXCEPT !.live = @ /\ file.path # path]
    BY <1>9, LogOnDisk DEF Sweep, MakeRoom, Corrupt, Unlink, Unlinks
  <2> QED BY <1>5, <1>7, <2>1, <2>2
<1>10. CASE Shell
  <2>1. UNCHANGED kept /\ meddled \subseteq meddled'
    BY <1>10, ShellViews
  <2>2. ASSUME UNCHANGED file, NEW path, PutsFile(path) \/ PutsDir(path),
               path \in {LogPath(n) : n \in Numerals} => meddled' # {}
        PROVE  kept' <= disk'[file'.path]
    <3>1. path # file.path
      BY <1>0, <2>2 DEF FileOK
    <3>2. PICK value : disk' = Put(path, value)
      BY <2>2 DEF PutsFile, PutsDir
    <3> QED BY <1>6, <2>1, <2>2, <3>1, <3>2
  <2> QED BY <1>5, <1>7, <1>10, <2>1, <2>2, ShellOnDisk
<1>11. CASE Tell
  <2>1. UNCHANGED <<file, kept, meddled>> /\ (disk' = Synced \/ UNCHANGED disk)
    BY <1>11 DEF Tell, history
  <2>2. CASE disk' = Synced
    <3>1. file.live /\ disk' = Put(file.path, file.size)
      BY <2>1, <2>2, SyncOnDisk
    <3>2. disk'[file.path] = file.size
      BY <3>1, PutFacts
    <3>3. kept <= file.size
      BY <1>11 DEF Tell, LogIInv, Places
    <3> QED BY <2>1, <3>1, <3>2, <3>3
  <2> QED BY <1>5, <2>1, <2>2
<1>12. CASE NoDirectory \/ Check \/ SyncFails \/ Mount \/ UNCHANGED vars
  <2>1. UNCHANGED <<file, disk, kept, meddled>>
    BY <1>12 DEF NoDirectory, Check, SyncFails, Mount, Corrupt, vars, log, history
  <2> QED BY <1>5, <2>1
<1> QED BY <1>1, <1>2, <1>3, <1>4, <1>8, <1>9, <1>10, <1>11, <1>12 DEF Next, LogThread

\* Where the thread is fits what it has written.
LEMMA PlacesStep == LogIInv /\ [Next]_vars => Places'
<1> SUFFICES ASSUME LogIInv, [Next]_vars PROVE Places'
  OBVIOUS
<1>0. /\ Places /\ LogTypes /\ file \in FileRecords
      /\ file.size \in Nat /\ kept \in Nat /\ len \in Nat
      /\ UNCHANGED shortWrites /\ len <= FileSize
  BY LogAssumption, ShellAssumption DEF LogIInv, FileOK, FileRecords, LogTypes, Next, vars
<1> USE DEF Goto
<1>1. ASSUME Corrupt, UNCHANGED kept PROVE Places'
  BY <1>0, <1>1 DEF Corrupt, Places
<1>2. CASE Record
  BY <1>0, <1>2 DEF Record, Initialise, Places, LogTypes, history
<1>3. CASE Tell
  BY <1>0, <1>3, LogAssumption DEF Tell, Places, history
<1>4. CASE Sweep
  <2>1. CASE Corrupt
    BY <1>1, <1>4, <2>1 DEF Sweep
  <2>2. CASE /\ UNCHANGED <<kept, backend_state, then, len, stored>> /\ file'.size = file.size
             /\ pc' = "make" /\ pc = "make"
    BY <1>0, <2>2 DEF Places
  <2> QED BY <1>0, <1>4, <2>1, <2>2 DEF Sweep, Unlink, FileRecords
<1>5. CASE Make
  <2>1. CASE Corrupt /\ UNCHANGED <<disk, history>>
    BY <1>1, <2>1 DEF history
  <2>2. CASE /\ file' = [path |-> LogPath(target), size |-> 0, live |-> TRUE] /\ kept' = 0
             /\ pc' = then /\ UNCHANGED <<backend_state, then, len, stored>>
    <3>1. file'.size = 0 /\ pc = "make"
      BY <1>5, <2>2 DEF Make
    <3> QED BY <1>0, <2>2, <3>1 DEF Places, LogTypes
  <2> QED BY <1>5, <2>1, <2>2, MakeOnDisk
<1>6. CASE Write
  <2>1. /\ UNCHANGED <<kept, backend_state, then, len>> /\ pc = "write"
        /\ \/ pc' = "sync" /\ file'.size = file.size + len
           \/ /\ pc' = "sweep" /\ shortWrites
              /\ \E n \in 0 .. len - 1 : file'.size = file.size + n
           \/ pc' = "check" /\ ~ shortWrites /\ file'.size = file.size
    BY <1>0, <1>6 DEF Write, history, FileRecords
  <2> QED BY <1>0, <2>1 DEF Places
<1>7. CASE MakeRoom
  <2>1. /\ UNCHANGED <<kept, backend_state, then, len, stored>> /\ file'.size = file.size
        /\ pc' \in {"sweep", "tell"} /\ pc = "sweep"
    BY <1>0, <1>7 DEF MakeRoom, Unlink, FileRecords
  <2> QED BY <1>0, <2>1 DEF Places
<1>8. CASE Check
  BY <1>0, <1>1, <1>8 DEF Check, Places, LogTypes, history
<1>9. CASE Sync
  BY <1>0, <1>9 DEF Sync, Return, Places
<1>10. CASE NoDirectory \/ SyncFails
  BY <1>1, <1>10 DEF NoDirectory, SyncFails, history
<1>11. CASE Restart
  BY <1>0, <1>11 DEF Restart, NoFile, Places
<1>12. CASE Shell
  <2>1. UNCHANGED <<backend_state, pc, then, len, stored, kept>>
    BY <1>12, ShellViews
  <2>2. file'.size = file.size
    BY <1>0, <1>12, ShellOnDisk DEF FileRecords
  <2> QED BY <1>0, <2>1, <2>2 DEF Places
<1>13. CASE Mount \/ UNCHANGED vars
  BY <1>0, <1>13 DEF Mount, vars, log, history, Places
<1> QED BY <1>2, <1>3, <1>4, <1>5, <1>6, <1>7, <1>8, <1>9, <1>10, <1>11, <1>12, <1>13
        DEF Next, LogThread

\* The sets are finite, and what is allowed only grows.
LEMMA CountFacts ==
    LogIInv => /\ Cardinality(Entries) \in Nat /\ Cardinality(Dirs) \in Nat
               /\ Cardinality(LogFiles) <= Cardinality(Entries)
               /\ Cardinality(Entries) <= Cardinality(LogFiles) + Cardinality(Dirs)
               /\ Left \in 0 .. ShellMax /\ file_ctr \in Int /\ Gone \in {0, 1}
<1> SUFFICES ASSUME LogIInv
             PROVE  /\ Cardinality(Entries) \in Nat /\ Cardinality(Dirs) \in Nat
                    /\ Cardinality(LogFiles) <= Cardinality(Entries)
                    /\ Cardinality(Entries) <= Cardinality(LogFiles) + Cardinality(Dirs)
                    /\ Left \in 0 .. ShellMax /\ file_ctr \in Int /\ Gone \in {0, 1}
  OBVIOUS
<1>1. /\ Entries \in SUBSET Numerals /\ Dirs \in SUBSET Entries /\ LogFiles = Entries \ Dirs
      /\ Dirs \in SUBSET Numerals /\ LogFiles \in SUBSET Entries
      /\ Entries = LogFiles \cup Dirs /\ LogFiles \cap Dirs = {}
  BY ViewsNow
<1>2. Cardinality(Entries) \in Nat /\ Cardinality(LogFiles) <= Cardinality(Entries)
  BY <1>1, CardFacts
<1>3. Cardinality(Dirs) \in Nat
  BY <1>1, CardFacts
<1>4. Cardinality(Entries) <= Cardinality(LogFiles) + Cardinality(Dirs)
  <2>1. IsFiniteSet(Numerals)
    BY ShellAssumption, FS_Interval DEF Numerals
  <2>2. IsFiniteSet(LogFiles) /\ IsFiniteSet(Dirs)
    BY <1>1, <2>1, FS_Subset
  <2>3. /\ Cardinality(LogFiles) \in Nat
        /\ Cardinality(Entries)
             = Cardinality(LogFiles) + Cardinality(Dirs) - Cardinality(LogFiles \cap Dirs)
    BY <1>1, <2>2, FS_Union, FS_CardinalityType
  <2>4. Cardinality(LogFiles \cap Dirs) = 0
    BY <1>1, FS_EmptySet
  <2> QED BY <1>3, <2>3, <2>4
<1>5. Left \in 0 .. ShellMax /\ file_ctr \in Int
  BY ShellAssumption, LogAssumption DEF LogIInv, ShellOK, Left, CtrBound
<1> QED BY <1>2, <1>3, <1>4, <1>5 DEF Gone

\* Without the shell's additions there are no directories among the log files.
LEMMA NoDirs == LogIInv /\ Unmeddled => Dirs = {} /\ LogFiles = Entries
<1> SUFFICES ASSUME LogIInv, Unmeddled PROVE Dirs = {} /\ LogFiles = Entries
  OBVIOUS
<1>1. Cardinality(Dirs) = 0
  BY CountFacts DEF LogIInv, Counted, Left, Unmeddled
<1>2. IsFiniteSet(Dirs)
  <2>1. IsFiniteSet(Numerals) /\ Dirs \in SUBSET Numerals
    BY ShellAssumption, FS_Interval, ViewsNow DEF Numerals
  <2> QED BY <2>1, FS_Subset
<1>3. Dirs = {}
  BY <1>1, <1>2, FS_EmptySet
<1> QED BY <1>3, ViewsNow

\* What leaves the entries alone leaves what is counted alone.
LEMMA CountedKept ==
    ASSUME LogIInv, Cardinality(Entries') <= Cardinality(Entries),
           Cardinality(Dirs') <= Cardinality(Dirs), Left' = Left,
           Cardinality(Entries') \in Nat, Cardinality(Dirs') \in Nat,
           backend_state' = "ok" => /\ Cardinality(Entries') + Gone' + Left <= file_ctr' + ShellMax
    PROVE  Counted'
BY CountFacts, LogAssumption, ShellAssumption DEF LogIInv, Counted

\* A step that leaves the log files leaves what is counted.
LEMMA SameCounted ==
    ASSUME LogIInv, SameViews, UNCHANGED <<cmds, meddled>>,
           backend_state' = "ok" =>
               /\ UNCHANGED <<backend_state, file_ctr, newest, shortWrites>>
               /\ pc' # "make" => pc # "make"
    PROVE  Counted'
<1>1. Left' = Left
  BY DEF Left
<1>2. backend_state' = "ok" => Gone' <= Gone /\ Gone' \in {0, 1}
  BY DEF Gone, SameViews
<1>3. backend_state' = "ok" => Cardinality(Entries') + Gone' + Left <= file_ctr' + ShellMax
  BY <1>2, CountFacts, ShellAssumption DEF LogIInv, Counted, SameViews
<1> QED BY <1>1, <1>3, CountFacts, CountedKept DEF SameViews

\* A removal of the log's is counted.
LEMMA RemovalCounted ==
    ASSUME LogIInv, NEW n \in Numerals, LogPath(n) \in DOMAIN disk, disk' = Without(LogPath(n)),
           UNCHANGED <<cmds, meddled, newest, shortWrites, backend_state>>,
           file_ctr' = file_ctr - 1,
           (pc = "make" /\ pc' = "make") \/ shortWrites
    PROVE  Counted'
<1>1. Entries' = Entries \ {n} /\ Dirs' = Dirs \ {n} /\ n \in Entries
  BY Removed, ViewsNow
<1>2. /\ Cardinality(Entries') = Cardinality(Entries) - 1
      /\ Cardinality(Entries') \in Nat
  <2>1. Entries \in SUBSET Numerals /\ Entries' \in SUBSET Numerals
    BY <1>1, ViewsNow
  <2> QED BY <1>1, <2>1, CardFacts
<1>3. Cardinality(Dirs') <= Cardinality(Dirs) /\ Cardinality(Dirs') \in Nat
  <2>1. Dirs \in SUBSET Numerals /\ Dirs' \in SUBSET Dirs /\ Dirs' \in SUBSET Numerals
    BY <1>1, ViewsNow
  <2> QED BY <2>1, CardFacts
<1>4. Left' = Left /\ Gone = 0 /\ Gone' = 0
  BY DEF Left, Gone
<1>5. ASSUME backend_state' = "ok"
      PROVE  Cardinality(Entries') + Gone' + Left <= file_ctr' + ShellMax
  <2>1. Cardinality(Entries) + Gone + Left <= file_ctr + ShellMax
    BY <1>5 DEF LogIInv, Counted
  <2> QED BY <1>2, <1>4, <2>1, CountFacts, ShellAssumption
<1> QED BY <1>2, <1>3, <1>4, <1>5, CountFacts, CountedKept

\* A file that is made is counted.
LEMMA MakingCounted ==
    ASSUME LogIInv, pc = "make", ~ AtLimit, backend_state = "ok", file_ctr' = file_ctr + 1,
           newest' = target, UNCHANGED <<cmds, meddled>>,
           Entries' = Entries \cup {target}, Dirs' = Dirs, target \in LogFiles'
    PROVE  Counted'
<1>1. target \in Numerals /\ Entries \in SUBSET Numerals
  BY ViewsNow DEF LogIInv, LogTypes
<1>2. Cardinality(Entries') <= Cardinality(Entries) + 1 /\ Cardinality(Entries') \in Nat
  BY <1>1, CardFacts, CountFacts
<1>3. Left' = Left /\ Gone' = 0 /\ Gone = 0
  BY DEF Left, Gone
<1>4. file_ctr < FilesLimit
  BY CountFacts, LogAssumption DEF AtLimit
<1> QED BY <1>2, <1>3, <1>4, CountFacts, LogAssumption, ShellAssumption DEF LogIInv, Counted

\* So is what the shell adds and removes.
LEMMA ShellCounted ==
    ASSUME LogIInv, Shell, UNCHANGED shortWrites
    PROVE  Counted'
<1>0. /\ UNCHANGED <<backend_state, file_ctr, newest, pc>>
      /\ cmds' \in 0 .. cmds /\ meddled \subseteq meddled'
      /\ SameViews \/ \E n \in Numerals : Adds(n) \/ Removes(n)
  BY ShellViews
<1>1. /\ Left' \in Int /\ Left' <= Left /\ Counted /\ cmds \in 0 .. ShellMax
  <2>1. cmds \in 0 .. ShellMax /\ Counted
    BY DEF LogIInv, ShellOK
  <2>2. cmds' \in Int /\ cmds' <= cmds /\ ("add" \in meddled => "add" \in meddled')
    BY <1>0, <2>1, ShellAssumption
  <2> QED BY <2>1, <2>2, ShellAssumption DEF Left
<1>2. ASSUME NEW c \in {0, 1}, Left' + c <= Left,
             Cardinality(Dirs') <= Cardinality(Dirs) + c,
             Cardinality(Entries') + Gone' <= Cardinality(Entries) + Gone + c,
             Cardinality(Entries') <= Cardinality(Entries) + c,
             Cardinality(Entries') \in Nat, Cardinality(Dirs') \in Nat
      PROVE  Counted'
  <2>1. Gone' \in {0, 1}
    BY DEF Gone
  <2>2. Cardinality(Dirs') + Left' <= ShellMax
    BY <1>1, <1>2, CountFacts, ShellAssumption DEF Counted
  <2>3. Cardinality(Entries') + Left' <= FilesLimit + ShellMax
    BY <1>1, <1>2, CountFacts, LogAssumption, ShellAssumption DEF Counted
  <2>4. ASSUME backend_state' = "ok"
        PROVE  Cardinality(Entries') + Gone' + Left' <= file_ctr' + ShellMax
    <3>1. Cardinality(Entries) + Gone + Left <= file_ctr + ShellMax
      BY <1>0, <1>1, <2>4 DEF Counted
    <3> QED BY <1>0, <1>1, <1>2, <2>1, <3>1, CountFacts, ShellAssumption
  <2> QED BY <2>2, <2>3, <2>4 DEF Counted
<1>3. CASE SameViews
  <2>1. Gone' = Gone
    BY <1>0, <1>3 DEF Gone, SameViews
  <2>2. 0 \in {0, 1} /\ Left' + 0 <= Left
    BY <1>1, CountFacts
  <2>3. Entries' = Entries /\ Dirs' = Dirs
    BY <1>3 DEF SameViews
  <2> QED BY <1>2, <2>1, <2>2, <2>3, CountFacts
<1>4. ASSUME NEW n \in Numerals, Adds(n) PROVE Counted'
  <2>1. /\ Cardinality(Entries') = Cardinality(Entries) + 1 /\ Cardinality(Entries') \in Nat
        /\ Cardinality(Dirs') <= Cardinality(Dirs) + 1 /\ Cardinality(Dirs') \in Nat
    <3>1. Entries \in SUBSET Numerals /\ Dirs \in SUBSET Numerals
      BY ViewsNow
    <3>2. Entries' = Entries \cup {n} /\ n \notin Entries /\ Dirs' \in {Dirs, Dirs \cup {n}}
      BY <1>4 DEF Adds
    <3>3. Cardinality(Entries') = Cardinality(Entries) + 1
      BY <3>1, <3>2, CardFacts
    <3>4. Cardinality(Dirs \cup {n}) <= Cardinality(Dirs) + 1 /\ Cardinality(Dirs \cup {n}) \in Nat
      BY <3>1, CardFacts
    <3>5. CASE Dirs' = Dirs
      BY <3>3, <3>5, CountFacts
    <3>6. CASE Dirs' = Dirs \cup {n}
      BY <3>3, <3>4, <3>6, CountFacts
    <3> QED BY <3>2, <3>5, <3>6
  <2>2. Left' + 1 <= Left
    BY <1>1, <1>4, ShellAssumption DEF Left, Adds
  <2>3. Gone' <= Gone
    <3>1. newest \in LogFiles => newest \in LogFiles'
      <4>1. LogFiles' = Entries' \ Dirs'
        BY DEF LogFiles, Entries, Dirs, IsFile, IsDir
      <4> QED BY <1>4, <4>1, ViewsNow DEF Adds
    <3> QED BY <1>0, <3>1 DEF Gone
  <2> QED BY <1>2, <2>1, <2>2, <2>3, CountFacts DEF Gone
<1>5. ASSUME NEW n \in Numerals, Removes(n) PROVE Counted'
  <2>0. Entries' = Entries \ {n} /\ Dirs' = Dirs \ {n} /\ LogFiles' = LogFiles \ {n}
    <3>1. LogFiles' = Entries' \ Dirs'
      BY DEF LogFiles, Entries, Dirs, IsFile, IsDir
    <3> QED BY <1>5, <3>1, ViewsNow DEF Removes
  <2>1. /\ Cardinality(Entries') \in Nat /\ Cardinality(Entries') <= Cardinality(Entries)
        /\ n \in Entries => Cardinality(Entries') = Cardinality(Entries) - 1
        /\ Cardinality(Dirs') <= Cardinality(Dirs) /\ Cardinality(Dirs') \in Nat
    <3>1. /\ Entries \in SUBSET Numerals /\ Dirs \in SUBSET Numerals
          /\ Entries' \in SUBSET Entries /\ Dirs' \in SUBSET Dirs
          /\ Entries' \in SUBSET Numerals /\ Dirs' \in SUBSET Numerals
      BY <2>0, ViewsNow
    <3>2. /\ Cardinality(Entries') \in Nat /\ Cardinality(Entries') <= Cardinality(Entries)
          /\ n \in Entries => Cardinality(Entries') = Cardinality(Entries) - 1
      BY <2>0, <3>1, CardFacts
    <3>3. Cardinality(Dirs') <= Cardinality(Dirs) /\ Cardinality(Dirs') \in Nat
      BY <3>1, CardFacts
    <3> QED BY <3>2, <3>3
  <2>2. n \notin Entries => Gone' = Gone
    BY <1>0, <2>0, ViewsNow DEF Gone
  <2>3. Cardinality(Entries') + Gone' <= Cardinality(Entries) + Gone
    <3>1. Gone' \in {0, 1}
      BY DEF Gone
    <3> QED BY <2>1, <2>2, <3>1, CountFacts
  <2>4. 0 \in {0, 1} /\ Left' + 0 <= Left
    BY <1>1, CountFacts
  <2> QED BY <1>2, <2>1, <2>3, <2>4, CountFacts
<1> QED BY <1>0, <1>3, <1>4, <1>5

\* What there is stays counted.
LEMMA CountedStep == LogIInv /\ [Next]_vars => Counted'
<1> SUFFICES ASSUME LogIInv, [Next]_vars PROVE Counted'
  OBVIOUS
<1>0. UNCHANGED shortWrites
  BY DEF Next, vars
<1> USE DEF Goto
<1>1. ASSUME UNCHANGED disk PROVE SameViews
  BY <1>1 DEF SameViews, Entries, Dirs, LogFiles, IsDir, IsFile
<1>2. ASSUME Corrupt, UNCHANGED <<disk, cmds, meddled>> PROVE Counted'
  BY <1>1, <1>2, SameCounted DEF Corrupt
<1>3. CASE Record
  <2>1. UNCHANGED <<cmds, meddled>> /\ SameViews
    <3>1. UNCHANGED disk \/ disk' = Put(LogDir, Dir)
      BY <1>3, RecordOnDisk DEF PutsDir
    <3> QED BY <1>1, <1>3, <3>1, PutElsewhere, PathFacts DEF Record, shellVars, history
  <2>2. CASE backend_state = "ok"
    BY <1>0, <1>3, <2>1, <2>2, SameCounted DEF Record
  <2>3. CASE backend_state # "ok"
    <3>1. file_ctr' = Cardinality(LogFiles) /\ pc' = "make"
      BY <1>3, <2>3 DEF Record, Initialise
    <3>2. Left' = Left /\ Gone' = 0 /\ Left \in Int /\ Cardinality(LogFiles) \in Int
      <4>1. LogFiles \in SUBSET Numerals
        BY ViewsNow
      <4> QED BY <2>1, <3>1, <4>1, CountFacts, CardFacts DEF Left, Gone
    <3>3. /\ Cardinality(Dirs) + Left <= ShellMax
          /\ Cardinality(Entries) <= Cardinality(LogFiles) + Cardinality(Dirs)
      BY CountFacts DEF LogIInv, Counted
    <3>4. Cardinality(Entries) + 0 + Left <= Cardinality(LogFiles) + ShellMax
      BY <3>2, <3>3, CountFacts, ShellAssumption
    <3>5. Cardinality(Entries') + Gone' + Left <= file_ctr' + ShellMax
      BY <2>1, <3>1, <3>2, <3>4 DEF SameViews
    <3>6. Entries' = Entries /\ Dirs' = Dirs
      BY <2>1 DEF SameViews
    <3> QED BY <3>2, <3>5, <3>6, CountFacts, CountedKept
  <2> QED BY <2>2, <2>3
<1>5. CASE Sweep
  <2>1. UNCHANGED <<cmds, meddled>> /\ pc = "make" /\ Unlink("make", Corrupt)
    BY <1>5 DEF Sweep, shellVars
  <2>2. CASE Corrupt /\ UNCHANGED disk
    BY <1>2, <2>1, <2>2
  <2>3. CASE ~ (Corrupt /\ UNCHANGED disk)
    <3>1. \/ /\ LogPath(oldest) \notin DOMAIN disk
             /\ UNCHANGED <<disk, backend_state, file_ctr, newest, pc>>
          \/ /\ Removable(LogPath(oldest)) /\ disk' = Without(LogPath(oldest))
             /\ file_ctr' = file_ctr - 1 /\ pc' = "make" /\ UNCHANGED <<backend_state, newest>>
      BY <2>1, <2>3 DEF Unlink
    <3>2. oldest \in Numerals
      BY DEF LogIInv, LogTypes
    <3> QED BY <1>0, <1>1, <2>1, <3>1, <3>2, SameCounted, RemovalCounted DEF Removable
  <2> QED BY <2>2, <2>3
<1>6. CASE MakeRoom
  <2>1. UNCHANGED <<cmds, meddled>> /\ pc = "sweep" /\ shortWrites
    BY <1>6 DEF MakeRoom, shellVars, LogIInv, Places
  <2>2. \/ UNCHANGED <<disk, backend_state, file_ctr, newest>> /\ pc' \in {"tell", "sweep"}
        \/ /\ Removable(LogPath(oldest)) /\ disk' = Without(LogPath(oldest))
           /\ file_ctr' = file_ctr - 1 /\ UNCHANGED <<backend_state, newest>>
    BY <1>6, <2>1 DEF MakeRoom, Unlink
  <2>3. oldest \in Numerals
    BY DEF LogIInv, LogTypes
  <2> QED BY <1>0, <1>1, <2>1, <2>2, <2>3, SameCounted, RemovalCounted DEF Removable
<1>7. CASE Make
  <2>1. CASE Corrupt /\ UNCHANGED <<disk, history>>
    BY <1>2, <1>7, <2>1 DEF Make, shellVars, history
  <2>2. CASE ~ (Corrupt /\ UNCHANGED <<disk, history>>)
    <3>1. /\ (UNCHANGED disk /\ IsFile(LogPath(target))) \/ PutsFile(LogPath(target))
          /\ file_ctr' = file_ctr + 1 /\ newest' = target /\ IsFile(LogPath(target))'
          /\ UNCHANGED <<backend_state, target, meddled, cmds>>
          /\ IF IsFile(LogPath(target)) THEN UNCHANGED disk ELSE disk' = Put(LogPath(target), 0)
          /\ pc = "make" /\ ~ AtLimit
      BY <1>7, <2>2, MakeOnDisk DEF Make
    <3>2. target \in Numerals /\ backend_state = "ok" /\ 0 # Dir
      BY <3>1, ShellAssumption DEF LogIInv, LogTypes, Places
    <3>3. Entries' = Entries \cup {target} /\ Dirs' = Dirs /\ target \in LogFiles'
      <4>1. CASE IsFile(LogPath(target))
        <5>1. SameViews /\ target \in LogFiles
          BY <1>1, <3>1, <3>2, <4>1 DEF LogFiles
        <5> QED BY <5>1, ViewsNow DEF SameViews
      <4>2. CASE ~ IsFile(LogPath(target))
        <5>1. ~ IsDir(LogPath(target)) /\ disk' = Put(LogPath(target), 0)
          BY <1>7, <3>1, <4>2, <2>2 DEF Make
        <5> QED BY <3>2, <5>1, PutLogFile
      <4> QED BY <4>1, <4>2
    <3> QED BY <3>1, <3>2, <3>3, MakingCounted
  <2> QED BY <2>1, <2>2
<1>8. CASE Check
  <2>1. UNCHANGED <<disk, cmds, meddled>> /\ SameViews
    BY <1>1, <1>8 DEF Check, shellVars, history
  <2>2. CASE newest \notin LogFiles /\ file_ctr' = file_ctr - 1 /\ pc' = "make" /\ ~ Corrupt
    <3>1. backend_state = "ok" /\ Gone = 1 /\ Gone' = 0 /\ Left' = Left
      BY <1>8, <2>1, <2>2 DEF Check, Gone, LogIInv, Places, Left
    <3>2. Cardinality(Entries) + 1 + Left <= file_ctr + ShellMax
      BY <3>1 DEF LogIInv, Counted
    <3>3. Cardinality(Entries) + 0 + Left <= file_ctr - 1 + ShellMax
      BY <3>1, <3>2, CountFacts, ShellAssumption
    <3>4. Cardinality(Entries') + Gone' + Left <= file_ctr' + ShellMax
      BY <2>1, <2>2, <3>1, <3>3 DEF SameViews
    <3>5. Entries' = Entries /\ Dirs' = Dirs
      BY <2>1 DEF SameViews
    <3> QED BY <3>1, <3>4, <3>5, CountFacts, CountedKept
  <2> QED BY <1>0, <1>2, <1>8, <2>1, <2>2, SameCounted DEF Check
<1>9. CASE Sync
  <2>1. SameViews
    BY <1>9, SyncOnDisk DEF Sync
  <2> QED BY <1>0, <1>9, <2>1, SameCounted DEF Sync, Return, shellVars
<1>10. CASE NoDirectory \/ SyncFails
  BY <1>2, <1>10 DEF NoDirectory, SyncFails, shellVars, history
<1>11. CASE Tell \/ Write \/ Mount \/ UNCHANGED vars
  <2>1. /\ UNCHANGED <<cmds, meddled, backend_state, file_ctr, newest>>
        /\ pc' # "make" => pc # "make"
        /\ UNCHANGED disk \/ disk' = Synced
    BY <1>11 DEF Tell, Write, Mount, vars, shellVars, log, history
  <2> QED BY <1>0, <1>1, <2>1, SyncOnDisk, SameCounted
<1>12. CASE Restart
  <2>1. UNCHANGED <<disk, cmds, meddled>> /\ backend_state' # "ok"
    BY <1>12 DEF Restart
  <2> QED BY <1>1, <2>1, SameCounted
<1>13. CASE Shell
  BY <1>0, <1>13, ShellCounted
<1> QED BY <1>3, <1>5, <1>6, <1>7, <1>8, <1>9, <1>10, <1>11, <1>12, <1>13 DEF Next, LogThread

\* The counter stays within the limit and the commands of the shell.
LEMMA CtrStep == LogIInv /\ [Next]_vars /\ ShellOK' /\ Counted' => CtrBound'
<1> SUFFICES ASSUME LogIInv, [Next]_vars, ShellOK', Counted' PROVE CtrBound'
  OBVIOUS
<1>1. /\ file_ctr' \in Int /\ file_ctr' <= FilesLimit + ShellMax
      /\ backend_state' = "ok" \/ file_ctr' \in {0, file_ctr}
  <2>1. /\ file_ctr \in Int /\ file_ctr <= FilesLimit + ShellMax
        /\ FilesLimit \in Nat /\ ShellMax \in Nat
    BY LogAssumption, ShellAssumption DEF LogIInv, CtrBound
  <2>2. Cardinality(LogFiles) \in Nat /\ Cardinality(LogFiles) <= FilesLimit + ShellMax
    <3>1. LogFiles \in SUBSET Numerals /\ Cardinality(Entries) + Left <= FilesLimit + ShellMax
      BY ViewsNow DEF LogIInv, Counted
    <3>2. Cardinality(LogFiles) \in Nat
      BY <3>1, CardFacts
    <3> QED BY <2>1, <3>1, <3>2, CountFacts
  <2>3. CASE UNCHANGED <<file_ctr, backend_state>>
    BY <2>1, <2>3
  <2>4. CASE Corrupt
    BY <2>1, <2>4 DEF Corrupt
  <2>5. CASE Record
    BY <2>1, <2>2, <2>5 DEF Record, Initialise
  <2>6. CASE Sweep \/ MakeRoom
    <3>1. Corrupt \/ (file_ctr' \in {file_ctr, file_ctr - 1} /\ UNCHANGED backend_state)
      BY <2>6 DEF Sweep, MakeRoom, Unlink
    <3>2. file_ctr' \in {file_ctr, file_ctr - 1} => file_ctr' \in Int /\ file_ctr' <= file_ctr
      BY <2>1
    <3>3. ~ Corrupt => backend_state' = "ok"
      BY <2>6, <3>1 DEF Sweep, MakeRoom, LogIInv, Places
    <3> QED BY <2>1, <2>4, <3>1, <3>2, <3>3
  <2>7. CASE Make
    BY <2>1, <2>4, <2>7 DEF Make, AtLimit, LogIInv, Places
  <2>8. CASE Check
    <3>1. Corrupt \/ (file_ctr' \in {file_ctr, file_ctr - 1} /\ UNCHANGED backend_state)
      BY <2>8 DEF Check
    <3>2. file_ctr' \in {file_ctr, file_ctr - 1} => file_ctr' \in Int /\ file_ctr' <= file_ctr
      BY <2>1
    <3>3. ~ Corrupt => backend_state' = "ok"
      BY <2>8, <3>1 DEF Check, LogIInv, Places
    <3> QED BY <2>1, <2>4, <3>1, <3>2, <3>3
  <2>9. CASE Restart
    BY <2>1, <2>9 DEF Restart
  <2>10. CASE Shell
    BY <2>3, <2>10, ShellViews
  <2>11. CASE NoDirectory \/ SyncFails
    BY <2>4, <2>11 DEF NoDirectory, SyncFails
  <2>12. CASE Tell \/ Write \/ Sync \/ Mount \/ UNCHANGED vars
    BY <2>3, <2>12 DEF Tell, Write, Sync, Mount, vars, log
  <2> QED BY <2>5, <2>6, <2>7, <2>8, <2>9, <2>10, <2>11, <2>12 DEF Next, LogThread
<1>2. ASSUME backend_state' = "ok" PROVE -ShellMax <= file_ctr'
  <2>1. Cardinality(Entries') + Gone' + Left' <= file_ctr' + ShellMax
    BY <1>2 DEF Counted
  <2>2. Cardinality(Entries') \in Nat
    <3>1. Entries' \in SUBSET Numerals
      BY DEF Entries
    <3> QED BY <3>1, CardFacts
  <2>3. Gone' \in Nat /\ Left' \in Nat
    BY ShellAssumption DEF Gone, Left, ShellOK
  <2> QED BY <1>1, <2>1, <2>2, <2>3, ShellAssumption
<1>3. -ShellMax <= 0 /\ -ShellMax <= file_ctr
  BY ShellAssumption DEF LogIInv, CtrBound
<1>4. -ShellMax <= file_ctr'
  BY <1>1, <1>2, <1>3
<1> QED BY <1>1, <1>4, LogAssumption, ShellAssumption DEF CtrBound

\* The number that is made next.
Coming == IF pc = "make" THEN target ELSE Next1(newest)

\* The window with its bounds, in force.
LEMMA WindowNow ==
    LogIInv /\ Unmeddled =>
        \E s \in Numerals, k \in 0 .. FilesLimit :
            /\ Numbered(s, k) /\ (backend_state = "ok" => Known(s, k))
            /\ k \in 0 .. MaxFileNumeral
BY LogAssumption, ShellAssumption DEF LogIInv, Window

\* The window stays where it is.
LEMMA WindowKept ==
    ASSUME LogIInv, Unmeddled' => Unmeddled, LogFiles' = LogFiles,
           \A pair \in older : {pair[1], pair[2]} \subseteq LogFiles' => pair \in older',
           backend_state' = "ok" =>
               /\ UNCHANGED <<backend_state, file_ctr, oldest, shortWrites>> /\ Coming' = Coming
               /\ pc = "sweep" => pc' = "sweep" \/ LogFiles # {}
               /\ pc' # "make" /\ ~ shortWrites => pc # "make"
    PROVE  Window'
<1> SUFFICES ASSUME Unmeddled'
             PROVE  \E s \in Numerals, k \in 0 .. FilesLimit :
                        Numbered(s, k)' /\ (backend_state' = "ok" => Known(s, k)')
  BY DEF Window
<1>1. PICK s \in Numerals, k \in 0 .. FilesLimit :
          Numbered(s, k) /\ (backend_state = "ok" => Known(s, k)) /\ k \in 0 .. MaxFileNumeral
  BY WindowNow
<1>2. Numbered(s, k)'
  <2>1. ASSUME NEW j \in 0 .. k - 1, NEW i \in 0 .. j - 1
        PROVE  <<At(s, i), At(s, j)>> \in older'
    <3>1. i \in 0 .. k - 1 /\ <<At(s, i), At(s, j)>> \in older
      BY <1>1, <2>1 DEF Numbered
    <3>2. At(s, i) \in LogFiles' /\ At(s, j) \in LogFiles'
      BY <1>1, <3>1 DEF Numbered
    <3> QED BY <3>1, <3>2
  <2>2. LogFiles' = {At(s, i) : i \in 0 .. k - 1}
    BY <1>1 DEF Numbered
  <2> QED BY <2>1, <2>2 DEF Numbered
<1>3. ASSUME backend_state' = "ok" PROVE Known(s, k)'
  <2>1. Known(s, k) /\ file_ctr' = file_ctr /\ oldest' = oldest /\ Coming' = Coming
    BY <1>1, <1>3
  <2>2. k = 0 => LogFiles = {}
    BY <1>1 DEF Numbered
  <2>3. At(s, k) = Coming
    BY <2>1 DEF Known, Coming
  <2>4. At(s, k) = IF pc' = "make" THEN target' ELSE Next1(newest')
    BY <2>1, <2>3 DEF Coming
  <2>5. oldest = s \/ Next1(oldest) = s \/ (k = 0 /\ pc' = "sweep")
    BY <1>3, <2>1, <2>2 DEF Known
  <2>6. pc' # "make" /\ ~ shortWrites' => k >= 1
    BY <1>3, <2>1 DEF Known
  <2>7. Next1(oldest)' = Next1(oldest)
    BY <2>1 DEF Next1
  <2> QED BY <2>1, <2>4, <2>5, <2>6, <2>7 DEF Known, Next1
<1> QED BY <1>2, <1>3

\* One is removed from its beginning, and oldest follows.
LEMMA WindowShrinks ==
    ASSUME LogIInv, Unmeddled, UNCHANGED <<backend_state, newest, target, shortWrites>>,
           backend_state = "ok", LogPath(oldest) \in DOMAIN disk, disk' = Without(LogPath(oldest)),
           older' = Missing(oldest), oldest' = Next1(oldest), file_ctr' = file_ctr - 1,
           \/ pc = "make" /\ pc' = "make"
           \/ pc = "sweep" /\ pc' = "tell"
    PROVE  Window' /\ \A n \in LogFiles' : <<oldest, n>> \in older
<1>1. PICK s \in Numerals, k \in 0 .. FilesLimit :
          Numbered(s, k) /\ Known(s, k) /\ k \in 0 .. MaxFileNumeral
  BY WindowNow
<1>2. oldest \in Numerals /\ oldest \in LogFiles
  BY NoDirs, ViewsNow DEF LogIInv, LogTypes
<1>3. k >= 1 /\ oldest = s
  <2>1. PICK i \in 0 .. k - 1 : oldest = At(s, i)
    BY <1>1, <1>2 DEF Numbered
  <2>2. i \in 0 .. MaxFileNumeral /\ i < MaxFileNumeral /\ i + 1 \in 0 .. MaxFileNumeral
        /\ i + 1 # 0 /\ 0 \in 0 .. MaxFileNumeral /\ k >= 1
    BY <1>1, <2>1, ShellAssumption
  <2>3. Next1(oldest) = At(s, i + 1) /\ At(s, 0) = s
    BY <2>1, <2>2, AtFacts
  <2>4. Next1(oldest) # s
    BY <2>2, <2>3, AtFacts
  <2> QED BY <1>1, <2>2, <2>4 DEF Known
<1>4. PICK t \in Numerals : t = Next1(s)
  BY NextNumber
<1>5. ASSUME NEW i \in 0 .. k - 1 PROVE At(t, i) = At(s, i + 1) /\ At(t, i) \in Numerals
  <2>1. i \in 0 .. MaxFileNumeral /\ i < MaxFileNumeral
    BY <1>1, ShellAssumption
  <2> QED BY <1>4, <2>1, AtFacts
<1>6. LogFiles' = LogFiles \ {s}
  BY <1>2, <1>3, Removed
<1>7. ASSUME NEW i \in 0 .. k - 1
      PROVE  At(s, i) = s <=> i = 0
  BY <1>1, AtFacts, ShellAssumption
<1>8. LogFiles' = {At(t, i) : i \in 0 .. k - 2}
  <2>1. ASSUME NEW n \in LogFiles' PROVE \E i \in 0 .. k - 2 : n = At(t, i)
    <3>1. PICK j \in 0 .. k - 1 : n = At(s, j)
      BY <1>1, <1>6 DEF Numbered
    <3>2. j - 1 \in 0 .. k - 2 /\ j - 1 \in 0 .. k - 1 /\ (j - 1) + 1 = j
      BY <1>1, <1>6, <1>7, <3>1
    <3>3. n = At(t, j - 1)
      BY <1>5, <3>1, <3>2
    <3> QED BY <3>2, <3>3
  <2>2. ASSUME NEW i \in 0 .. k - 2 PROVE At(t, i) \in LogFiles'
    <3>1. i \in 0 .. k - 1 /\ i + 1 \in 0 .. k - 1 /\ i + 1 # 0
      BY <1>1
    <3>2. At(t, i) = At(s, i + 1) /\ At(s, i + 1) # s
      BY <1>5, <1>7, <3>1
    <3> QED BY <1>1, <1>6, <3>1, <3>2 DEF Numbered
  <2> QED BY <2>1, <2>2
<1>9. ASSUME NEW j \in 0 .. k - 2, NEW i \in 0 .. j - 1
      PROVE  <<At(t, i), At(t, j)>> \in older'
  <2>1. /\ i \in 0 .. k - 1 /\ j \in 0 .. k - 1 /\ j + 1 \in 0 .. k - 1
        /\ i + 1 \in 0 .. (j + 1) - 1
        /\ i + 1 \in 0 .. k - 1 /\ i + 1 # 0 /\ j + 1 # 0
    BY <1>1, <1>9
  <2>2. <<At(s, i + 1), At(s, j + 1)>> \in older
    BY <1>1, <2>1 DEF Numbered
  <2>3. At(s, i + 1) # s /\ At(s, j + 1) # s
    BY <1>7, <2>1
  <2>4. At(t, i) = At(s, i + 1) /\ At(t, j) = At(s, j + 1)
    BY <1>5, <2>1
  <2> QED BY <1>3, <2>2, <2>3, <2>4 DEF Missing
<1>10. \A n \in LogFiles' : <<oldest, n>> \in older
  <2> SUFFICES ASSUME NEW n \in LogFiles' PROVE <<oldest, n>> \in older
    OBVIOUS
  <2>1. PICK j \in 0 .. k - 1 : n = At(s, j) /\ n # s
    BY <1>1, <1>6 DEF Numbered
  <2>2. 0 \in 0 .. j - 1 /\ At(s, 0) = s
    BY <1>1, <1>7, <2>1
  <2> QED BY <1>1, <1>3, <2>1, <2>2 DEF Numbered
<1>11. Window'
  <2>1. k - 1 \in 0 .. FilesLimit /\ k - 1 \in 0 .. k - 1 /\ (k - 1) + 1 = k /\ (k - 1) - 1 = k - 2
    BY <1>1, <1>3, LogAssumption
  <2>2. Numbered(t, k - 1)'
    BY <1>8, <1>9, <2>1 DEF Numbered
  <2>3. At(t, k - 1) = At(s, k)
    BY <1>5, <2>1
  <2>4. At(t, k - 1) = IF pc' = "make" THEN target' ELSE Next1(newest')
    BY <1>1, <2>3 DEF Known
  <2>5. oldest' = t /\ file_ctr' = k - 1
    BY <1>1, <1>3, <1>4 DEF Known
  <2>6. ~ (pc' # "make" /\ ~ shortWrites')
    BY DEF LogIInv, Places
  <2>7. Known(t, k - 1)'
    BY <2>4, <2>5, <2>6 DEF Known, Next1
  <2> QED BY <1>4, <2>1, <2>2, <2>7 DEF Window
<1> QED BY <1>10, <1>11

\* One is made behind its end.
LEMMA WindowGrows ==
    ASSUME LogIInv, Unmeddled, backend_state = "ok", pc = "make", ~ AtLimit,
           UNCHANGED <<backend_state, oldest, shortWrites>>,
           file_ctr' = file_ctr + 1, newest' = target, pc' \in {"tell", "write", "sync"},
           older' = Missing(target) \cup ((LogFiles \ {target}) \X {target}),
           LogFiles' = LogFiles \cup {target}
    PROVE  Window'
<1>1. PICK s \in Numerals, k \in 0 .. FilesLimit :
          Numbered(s, k) /\ Known(s, k) /\ k \in 0 .. MaxFileNumeral
  BY WindowNow
<1>2. k < FilesLimit /\ k + 1 \in 0 .. FilesLimit /\ k + 1 \in 0 .. MaxFileNumeral /\ k + 1 >= 1
      /\ k < MaxFileNumeral /\ (k + 1) - 1 = k
  BY <1>1, LogAssumption, ShellAssumption DEF Known, AtLimit
<1>3. target = At(s, k) /\ target \in Numerals
  BY <1>1 DEF Known, LogIInv, LogTypes
<1>4. ASSUME NEW i \in 0 .. k - 1 PROVE At(s, i) # target /\ At(s, i) \in LogFiles
  <2>1. i \in 0 .. MaxFileNumeral /\ i # k
    BY <1>1, <1>4, ShellAssumption
  <2>2. At(s, i) # At(s, k)
    BY <1>1, <2>1, AtFacts
  <2> QED BY <1>1, <1>3, <2>2 DEF Numbered
<1>5. Numbered(s, k + 1)'
  <2>1. LogFiles' = {At(s, i) : i \in 0 .. (k + 1) - 1}
    <3>1. \A i : i \in 0 .. k <=> i \in 0 .. k - 1 \/ i = k
      BY <1>1
    <3>2. ASSUME NEW n PROVE n \in LogFiles' <=> \E i \in 0 .. k : n = At(s, i)
      BY <1>1, <1>3, <3>1 DEF Numbered
    <3> QED BY <1>2, <3>2
  <2>2. ASSUME NEW j \in 0 .. (k + 1) - 1, NEW i \in 0 .. j - 1
        PROVE  <<At(s, i), At(s, j)>> \in older'
    <3>1. i \in 0 .. k - 1 /\ (j \in 0 .. k - 1 \/ j = k)
      BY <1>1, <2>2
    <3>2. CASE j = k
      <4>1. At(s, i) \in LogFiles \ {target} /\ At(s, j) = target
        BY <1>3, <1>4, <3>1, <3>2
      <4> QED BY <4>1
    <3>3. CASE j \in 0 .. k - 1
      <4>1. <<At(s, i), At(s, j)>> \in older
        BY <1>1, <3>3, <2>2 DEF Numbered
      <4>2. At(s, i) # target /\ At(s, j) # target
        BY <1>4, <3>1, <3>3
      <4> QED BY <4>1, <4>2 DEF Missing
    <3> QED BY <3>1, <3>2, <3>3
  <2> QED BY <2>1, <2>2 DEF Numbered
<1>6. Known(s, k + 1)'
  <2>1. At(s, k + 1) = Next1(target)
    BY <1>1, <1>2, <1>3, AtFacts
  <2>2. At(s, k + 1) = IF pc' = "make" THEN target' ELSE Next1(newest')
    BY <2>1
  <2>3. file_ctr' = k + 1 /\ (oldest = s \/ Next1(oldest) = s)
    BY <1>1 DEF Known
  <2> QED BY <1>2, <2>2, <2>3 DEF Known, Next1
<1> QED BY <1>2, <1>5, <1>6 DEF Window

\* It is found again after a start.
LEMMA WindowFound ==
    ASSUME LogIInv, Unmeddled, Unmeddled', LogFiles' = LogFiles, older' = older,
           Initialise(newest_and_oldest)
    PROVE  Window'
<1>1. PICK s \in Numerals, k \in 0 .. FilesLimit :
          Numbered(s, k) /\ k \in 0 .. MaxFileNumeral
  BY WindowNow
<1>2. Numbered(s, k)'
  BY <1>1 DEF Numbered
<1>3. file_ctr' = k /\ pc' = "make"
  BY <1>1, WindowSize DEF Numbered, Initialise, Goto
<1>4. CASE k >= 1
  <2>1. newest_and_oldest = <<At(s, k - 1), s>>
    BY <1>1, <1>4, EndsFound DEF Numbered
  <2>2. At(s, k) = Next1(At(s, k - 1))
    <3>1. k - 1 \in 0 .. MaxFileNumeral /\ k - 1 < MaxFileNumeral /\ (k - 1) + 1 = k
      BY <1>1, <1>4, ShellAssumption
    <3> QED BY <3>1, AtFacts
  <2>3. LogFiles # {}
    <3>1. 0 \in 0 .. k - 1
      BY <1>4
    <3> QED BY <1>1, <3>1 DEF Numbered
  <2>4. target' = At(s, k) /\ oldest' = s
    BY <2>1, <2>2, <2>3 DEF Initialise
  <2>5. Known(s, k)'
    BY <1>3, <2>4 DEF Known
  <2> QED BY <1>1, <1>2, <2>5 DEF Window
<1>5. CASE k = 0
  <2>1. LogFiles = {}
    BY <1>1, <1>5 DEF Numbered
  <2>2. Cardinality(LogFiles) = 0
    BY <2>1, FS_EmptySet
  <2>3. newest_and_oldest = <<0, MaxFileNumeral>>
    BY <2>1, <2>2 DEF newest_and_oldest
  <2>4. target' = 0 /\ oldest' = MaxFileNumeral
    BY <2>1, <2>3 DEF Initialise
  <2>5. 0 \in Numerals /\ MaxFileNumeral \in Numerals /\ 0 \in 0 .. MaxFileNumeral
    BY ShellAssumption DEF Numerals
  <2>6. At(0, 0) = 0 /\ Next1(MaxFileNumeral) = 0
    BY <2>5, AtFacts, NextNumber
  <2>7. Numbered(0, 0)'
    BY <2>1 DEF Numbered
  <2>8. Known(0, 0)'
    BY <1>3, <1>5, <2>4, <2>6 DEF Known, Next1
  <2>9. 0 \in 0 .. FilesLimit
    BY LogAssumption
  <2> QED BY <2>5, <2>7, <2>8, <2>9 DEF Window
<1> QED BY <1>1, <1>4, <1>5

\* A step of the log or of the shell that neither makes nor removes a log file.
LEMMA QuietSteps ==
    ASSUME LogIInv, [Next]_vars
    PROVE  \/ LogFiles' = LogFiles /\ meddled \subseteq meddled'
           \/ (Sweep \/ MakeRoom) /\ ~ UNCHANGED disk
           \/ Make
           \/ Shell /\ \E n \in Numerals : Adds(n) \/ Removes(n)
<1> USE DEF Goto
<1>1. ASSUME UNCHANGED disk PROVE LogFiles' = LogFiles
  BY <1>1 DEF LogFiles, IsFile
<1>2. CASE Record
  <2>1. UNCHANGED disk \/ disk' = Put(LogDir, Dir)
    BY <1>2, RecordOnDisk DEF PutsDir
  <2>2. LogFiles' = LogFiles
    BY <1>1, <2>1, PutElsewhere, PathFacts DEF SameViews
  <2> QED BY <1>2, <2>2 DEF Record, history
<1>3. CASE Sync \/ Tell
  <2>1. UNCHANGED meddled /\ (UNCHANGED disk \/ disk' = Synced)
    BY <1>3 DEF Sync, Tell, history
  <2> QED BY <1>1, <2>1, SyncOnDisk DEF SameViews
<1>4. CASE Sweep \/ MakeRoom
  BY <1>1, <1>4 DEF Sweep, MakeRoom
<1>5. CASE Shell
  BY <1>5, ShellViews DEF SameViews
<1>6. CASE NoDirectory \/ Write \/ Check \/ SyncFails \/ Mount \/ Restart \/ UNCHANGED vars
  <2>1. UNCHANGED <<disk, meddled>>
    BY <1>6 DEF NoDirectory, Write, Check, SyncFails, Mount, Restart, vars, history
  <2> QED BY <1>1, <2>1
<1> QED BY <1>2, <1>3, <1>4, <1>5, <1>6 DEF Next, LogThread

\* A removal by the log.
LEMMA LogRemoves ==
    ASSUME LogIInv, (Sweep \/ MakeRoom), ~ UNCHANGED disk, UNCHANGED shortWrites
    PROVE  /\ UNCHANGED <<backend_state, newest, target, meddled>> /\ backend_state = "ok"
           /\ LogPath(oldest) \in DOMAIN disk /\ disk' = Without(LogPath(oldest))
           /\ older' = Missing(oldest) /\ oldest' = Next1(oldest) /\ file_ctr' = file_ctr - 1
           /\ (pc = "make" /\ pc' = "make") \/ (pc = "sweep" /\ pc' = "tell")
<1>1. UNCHANGED meddled /\ Removable(LogPath(oldest)) /\ backend_state = "ok"
  BY DEF Sweep, MakeRoom, Unlink, LogIInv, Places
<1>2. LogPath(oldest) \in DOMAIN disk
  BY <1>1 DEF Removable
<1> QED BY <1>1, <1>2 DEF Sweep, MakeRoom, Unlink, Goto

\* The next file of the log.
LEMMA LogMakes ==
    ASSUME LogIInv, Make, ~ (Corrupt /\ UNCHANGED <<disk, history>>), UNCHANGED shortWrites
    PROVE  /\ UNCHANGED <<backend_state, oldest, meddled>> /\ backend_state = "ok"
           /\ pc = "make" /\ ~ AtLimit
           /\ file_ctr' = file_ctr + 1 /\ newest' = target /\ pc' \in {"tell", "write", "sync"}
           /\ older' = Missing(target) \cup ((LogFiles \ {target}) \X {target})
           /\ LogFiles' = LogFiles \cup {target}
<1>1. /\ IF IsFile(LogPath(target)) THEN UNCHANGED disk ELSE disk' = Put(LogPath(target), 0)
      /\ UNCHANGED <<backend_state, oldest, meddled>>
      /\ file_ctr' = file_ctr + 1 /\ newest' = target /\ pc' = then
      /\ older' = Missing(target) \cup ((LogFiles \ {target}) \X {target})
      /\ pc = "make" /\ ~ AtLimit
  BY MakeOnDisk DEF Make
<1>2. target \in Numerals /\ backend_state = "ok" /\ 0 # Dir /\ then \in {"tell", "write", "sync"}
  BY <1>1, ShellAssumption DEF LogIInv, LogTypes, Places
<1>3. CASE IsFile(LogPath(target))
  BY <1>1, <1>2, <1>3 DEF LogFiles, IsFile
<1>4. CASE ~ IsFile(LogPath(target))
  <2>1. ~ IsDir(LogPath(target)) /\ disk' = Put(LogPath(target), 0)
    BY <1>1, <1>4 DEF Make
  <2>2. LogFiles' = LogFiles \cup {target}
    BY <1>2, <2>1, PutLogFile
  <2> QED BY <1>1, <1>2, <2>2
<1> QED BY <1>3, <1>4

\* The window is the log's, whatever the step.
LEMMA WindowStep == LogIInv /\ [Next]_vars => Window'
<1> SUFFICES ASSUME LogIInv, [Next]_vars PROVE Window'
  OBVIOUS
<1>0. UNCHANGED shortWrites
  BY DEF Next, vars
<1> USE DEF Goto
<1>1. ASSUME backend_state' # "ok", LogFiles' = LogFiles, UNCHANGED <<older, meddled>>
      PROVE  Window'
  BY <1>1, WindowKept DEF Unmeddled
<1>2. CASE Record
  <2>1. UNCHANGED <<older, meddled>> /\ LogFiles' = LogFiles
    <3>1. UNCHANGED disk \/ disk' = Put(LogDir, Dir)
      BY <1>2, RecordOnDisk DEF PutsDir
    <3>2. UNCHANGED disk => LogFiles' = LogFiles
      BY DEF LogFiles, IsFile
    <3> QED BY <1>2, <3>1, <3>2, PutElsewhere, PathFacts DEF Record, history, SameViews
  <2>2. CASE backend_state = "ok"
    BY <1>0, <1>2, <2>1, <2>2, WindowKept DEF Record, Unmeddled, Coming
  <2>3. CASE backend_state # "ok"
    <3>1. Initialise(newest_and_oldest) /\ (Unmeddled' <=> Unmeddled)
      BY <1>2, <2>1, <2>3 DEF Record, Unmeddled
    <3>2. Unmeddled' => Window'
      BY <2>1, <3>1, WindowFound
    <3> QED BY <3>2 DEF Window
  <2> QED BY <2>2, <2>3
<1>3. CASE Make
  <2>1. CASE Corrupt /\ UNCHANGED <<disk, history>>
    <3>1. LogFiles' = LogFiles
      BY <2>1 DEF LogFiles, IsFile
    <3> QED BY <1>1, <2>1, <3>1 DEF Corrupt, history
  <2>2. CASE ~ (Corrupt /\ UNCHANGED <<disk, history>>)
    <3>1. Unmeddled' <=> Unmeddled
      BY <1>0, <1>3, <2>2, LogMakes DEF Unmeddled
    <3>2. Unmeddled => Window'
      BY <1>0, <1>3, <2>2, LogMakes, WindowGrows
    <3> QED BY <3>1, <3>2 DEF Window
  <2> QED BY <2>1, <2>2
<1>4. CASE (Sweep \/ MakeRoom) /\ ~ UNCHANGED disk
  <2>1. Unmeddled' <=> Unmeddled
    BY <1>0, <1>4, LogRemoves DEF Unmeddled
  <2>2. Unmeddled => Window'
    BY <1>0, <1>4, LogRemoves, WindowShrinks
  <2> QED BY <2>1, <2>2 DEF Window
<1>5. CASE (Sweep \/ MakeRoom) /\ UNCHANGED disk
  <2>1. UNCHANGED <<older, meddled>> /\ LogFiles' = LogFiles
    <3>1. LogFiles' = LogFiles
      BY <1>5 DEF LogFiles, IsFile
    <3>2. ~ Removable(LogPath(oldest))
      <4>1. ASSUME Removable(LogPath(oldest)) PROVE FALSE
        <5>1. disk' = Without(LogPath(oldest)) /\ LogPath(oldest) \in DOMAIN disk
          BY <1>5, <4>1 DEF Sweep, MakeRoom, Unlink, Removable
        <5>2. LogPath(oldest) \notin DOMAIN disk'
          BY <5>1, WithoutFacts
        <5> QED BY <1>5, <5>1, <5>2
      <4> QED BY <4>1
    <3> QED BY <1>5, <3>1, <3>2 DEF Sweep, MakeRoom, Unlink
  <2>2. CASE LogPath(oldest) \in DOMAIN disk
    <3>1. \/ Corrupt
          \/ /\ UNCHANGED <<backend_state, file_ctr, newest, oldest, target>>
             /\ pc = "sweep" /\ pc' = "tell"
      <4>1. disk' # Without(LogPath(oldest))
        <5>1. LogPath(oldest) \in DOMAIN disk'
          BY <1>5, <2>2
        <5> QED BY <5>1, WithoutFacts
      <4> QED BY <1>5, <2>2, <4>1 DEF Sweep, MakeRoom, Unlink
    <3>2. CASE Corrupt
      BY <1>1, <2>1, <3>2 DEF Corrupt
    <3>3. CASE /\ UNCHANGED <<backend_state, file_ctr, newest, oldest, target>>
               /\ pc = "sweep" /\ pc' = "tell"
      <4>1. Coming' = Coming
        BY <3>3 DEF Coming, Next1
      <4>2. Unmeddled => LogFiles # {}
        BY <2>2, NoDirs, ViewsNow DEF LogIInv, LogTypes
      <4>3. Unmeddled' => Unmeddled
        BY <2>1 DEF Unmeddled
      <4>4. CASE Unmeddled
        BY <1>0, <2>1, <3>3, <4>1, <4>2, <4>3, <4>4, WindowKept
      <4>5. CASE ~ Unmeddled
        BY <4>3, <4>5 DEF Window
      <4> QED BY <4>4, <4>5
    <3> QED BY <3>1, <3>2, <3>3
  <2>3. CASE LogPath(oldest) \notin DOMAIN disk
    <3>1. /\ oldest' = Next1(oldest) /\ pc' = pc /\ pc \in {"make", "sweep"}
          /\ UNCHANGED <<backend_state, file_ctr, newest, target>>
          /\ pc = "make" => file_ctr >= FilesLimit
      BY <1>5, <2>3 DEF Sweep, MakeRoom, Unlink, Removable, AtLimit
    <3>2. oldest \notin LogFiles /\ backend_state = "ok"
      BY <2>3, <3>1 DEF LogFiles, IsFile, LogIInv, Places
    <3>3. SUFFICES ASSUME Unmeddled' PROVE Window'
      BY DEF Window
    <3>4. Unmeddled
      BY <2>1, <3>3 DEF Unmeddled
    <3>5. PICK s \in Numerals, k \in 0 .. FilesLimit :
              Numbered(s, k) /\ Known(s, k) /\ k \in 0 .. MaxFileNumeral
      BY <3>2, <3>4, WindowNow
    <3>6. Numbered(s, k)'
      BY <2>1, <3>5 DEF Numbered
    <3>7. k # 0 => oldest # s
      <4>1. ASSUME k # 0 PROVE s \in LogFiles
        <5>1. 0 \in 0 .. k - 1 /\ 0 \in 0 .. MaxFileNumeral
          BY <3>5, <4>1, ShellAssumption
        <5>2. At(s, 0) = s
          BY <5>1, AtFacts
        <5> QED BY <3>5, <5>1, <5>2 DEF Numbered
      <4> QED BY <3>2, <4>1
    <3>8. k = 0 => pc = "sweep"
      BY <3>1, <3>5, LogAssumption DEF Known
    <3>9. oldest' = s \/ (k = 0 /\ pc' = "sweep")
      BY <3>1, <3>5, <3>7, <3>8 DEF Known
    <3>10. Coming' = Coming /\ At(s, k) = Coming
      BY <3>1, <3>5 DEF Coming, Known, Next1
    <3>11. file_ctr' = k /\ (pc' # "make" /\ ~ shortWrites' => k >= 1)
      BY <1>0, <3>1, <3>5 DEF Known
    <3>12. At(s, k) = IF pc' = "make" THEN target' ELSE Next1(newest')
      BY <3>10 DEF Coming, Next1
    <3>13. Known(s, k)'
      BY <3>9, <3>11, <3>12 DEF Known, Next1
    <3> QED BY <3>6, <3>13 DEF Window
  <2> QED BY <2>2, <2>3
<1>6. CASE Check
  <2>1. LogFiles' = LogFiles /\ UNCHANGED <<older, meddled>>
    BY <1>6 DEF Check, history, LogFiles, IsFile
  <2>2. CASE Corrupt
    BY <1>1, <2>1, <2>2 DEF Corrupt
  <2>3. CASE ~ Corrupt /\ newest \in LogFiles
    BY <1>0, <1>6, <2>1, <2>3, WindowKept DEF Check, Unmeddled, Coming
  <2>4. CASE ~ Corrupt /\ newest \notin LogFiles
    <3>1. SUFFICES ASSUME Unmeddled' PROVE FALSE
      BY DEF Window
    <3>2. Unmeddled
      BY <2>1, <3>1 DEF Unmeddled
    <3>3. backend_state = "ok" /\ pc = "check" /\ ~ shortWrites
      BY <1>6 DEF Check, LogIInv, Places
    <3>4. PICK s \in Numerals, k \in 0 .. FilesLimit :
              Numbered(s, k) /\ Known(s, k) /\ k \in 0 .. MaxFileNumeral
      BY <3>2, <3>3, WindowNow
    <3>5. k >= 1 /\ At(s, k) = Next1(newest)
      BY <3>3, <3>4 DEF Known
    <3>6. /\ k - 1 \in 0 .. k - 1 /\ k - 1 \in 0 .. MaxFileNumeral /\ (k - 1) + 1 = k
          /\ k - 1 < MaxFileNumeral
      BY <3>4, <3>5, ShellAssumption
    <3>7. At(s, k - 1) \in Numerals /\ At(s, k) = Next1(At(s, k - 1))
      BY <3>6, AtFacts
    <3>8. newest \in Numerals
      BY DEF LogIInv, LogTypes
    <3>9. newest = At(s, k - 1)
      BY <3>5, <3>7, <3>8, NextIsNew
    <3> QED BY <2>4, <3>4, <3>6, <3>9 DEF Numbered
  <2> QED BY <2>2, <2>3, <2>4
<1>7. CASE Shell
  <2>1. CASE SameViews
    <3>1. /\ UNCHANGED <<backend_state, file_ctr, newest, oldest, pc, target>>
          /\ meddled \subseteq meddled' /\ LogFiles' = LogFiles
          /\ \A pair \in older : {pair[1], pair[2]} \subseteq LogFiles' => pair \in older'
      BY <1>7, <2>1, ShellViews DEF SameViews
    <3> QED BY <1>0, <3>1, WindowKept DEF Unmeddled, Coming, Next1
  <2>2. CASE \E n \in Numerals : Adds(n) \/ Removes(n)
    BY <2>2 DEF Adds, Removes, Window, Unmeddled
  <2> QED BY <1>7, <2>1, <2>2, ShellViews
<1>8. CASE NoDirectory \/ SyncFails \/ Restart
  <2>1. LogFiles' = LogFiles /\ UNCHANGED <<older, meddled>> /\ backend_state' # "ok"
    BY <1>8 DEF NoDirectory, SyncFails, Restart, Corrupt, history, LogFiles, IsFile
  <2> QED BY <1>1, <2>1
<1>9. CASE Tell
  <2>1. UNCHANGED <<older, meddled, backend_state, file_ctr, newest, oldest>> /\ pc = "tell"
        /\ (pc' = "write" \/ (pc' = "make" /\ target' = Next1(newest)))
    BY <1>9 DEF Tell, history
  <2>2. LogFiles' = LogFiles
    <3>1. UNCHANGED disk \/ disk' = Synced
      BY <1>9 DEF Tell
    <3> QED BY <3>1, SyncOnDisk DEF SameViews, LogFiles, IsFile
  <2>3. Coming' = Coming /\ (Unmeddled' => Unmeddled)
    BY <2>1 DEF Coming, Next1, Unmeddled
  <2> QED BY <1>0, <2>1, <2>2, <2>3, WindowKept
<1>10. CASE Sync
  <2>1. /\ UNCHANGED <<older, meddled, backend_state, file_ctr, newest, oldest>> /\ pc = "sync"
        /\ pc' \in {"idle", "tell"}
    BY <1>10 DEF Sync, Return
  <2>2. LogFiles' = LogFiles
    BY <1>10, SyncOnDisk DEF Sync, SameViews
  <2>3. Coming' = Coming /\ (Unmeddled' => Unmeddled)
    BY <2>1 DEF Coming, Next1, Unmeddled
  <2> QED BY <1>0, <2>1, <2>2, <2>3, WindowKept
<1>11. CASE Write \/ Mount \/ UNCHANGED vars
  <2>1. UNCHANGED <<disk, older, meddled, backend_state, file_ctr, newest, oldest, target>>
        /\ (pc' = pc \/ (pc = "write" /\ pc' \in {"sync", "sweep", "check"}))
    BY <1>11 DEF Write, Mount, vars, log, history
  <2>2. LogFiles' = LogFiles /\ Coming' = Coming /\ (Unmeddled' => Unmeddled)
    BY <2>1 DEF LogFiles, IsFile, Coming, Next1, Unmeddled
  <2> QED BY <1>0, <2>1, <2>2, WindowKept
<1> QED BY <1>2, <1>3, <1>4, <1>5, <1>6, <1>7, <1>8, <1>9, <1>10, <1>11 DEF Next, LogThread

\* An empty volume.
LEMMA InitFine == Init => LogIInv
<1> SUFFICES ASSUME Init PROVE LogIInv
  OBVIOUS
<1> USE DEF Init, ShellInit
<1>1. DOMAIN disk = {<<Mnt>>} /\ disk[<<Mnt>>] = Dir /\ IsDir(<<Mnt>>)
  BY DEF IsDir
<1>2. Parent(<<Mnt>>) = <<>>
  BY DEF Parent
<1>3. Tree
  BY <1>1, <1>2 DEF Tree
<1>4. Entries = {} /\ Dirs = {} /\ LogFiles = {}
  <2>1. \A n \in Numerals : LogPath(n) \notin DOMAIN disk
    BY <1>1, PathFacts
  <2> QED BY <2>1 DEF Entries, Dirs, LogFiles, IsDir, IsFile
<1>5. Cardinality(Entries) = 0 /\ Cardinality(Dirs) = 0
  BY <1>4, FS_EmptySet
<1>6. FileOK
  BY LogAssumption DEF FileOK, FileRecords, NoFile
<1>7. 0 \in Numerals /\ 0 \in 0 .. FilesLimit
  BY LogAssumption, ShellAssumption DEF Numerals
<1>8. Counted
  BY <1>5, LogAssumption, ShellAssumption DEF Counted, Left
<1>9. Window
  <2>1. Numbered(0, 0)
    BY <1>4 DEF Numbered
  <2> QED BY <1>7, <2>1 DEF Window
<1>10. LogTypes /\ CtrBound /\ ShellOK
  BY <1>7, LogAssumption, ShellAssumption DEF LogTypes, CtrBound, ShellOK
<1>11. Places /\ KeptOnDisk
  BY DEF Places, KeptOnDisk, NoFile
<1> QED BY <1>3, <1>6, <1>8, <1>9, <1>10, <1>11 DEF LogIInv

\* The invariant is inductive.
LEMMA LogAlways == Spec => []LogIInv
<1>1. LogIInv /\ [Next]_vars => LogIInv'
  BY TreeStep, FileStep, TypesStep, CtrStep, PlacesStep, KeptStep, CountedStep, WindowStep
  DEF LogIInv
<1> QED BY <1>1, InitFine, PTL DEF Spec

\* The log's files stay within the limit and the number that is made next is free, for
\* any limit, wherever the numbers wrap, but for what the shell does behind the back of
\* the backend (log_backend_my_fs.c:255-422, allocate_new_file and del_oldest_log).
THEOREM LogSafe == Spec => []LogInv
<1>1. LogIInv => LogTypeOK
  BY DEF LogIInv, LogTypes, FileOK, FileRecords, CtrBound, Tree, LogTypeOK
<1>2. LogIInv => LimitKept
  <2> SUFFICES ASSUME LogIInv, "add" \notin meddled PROVE Cardinality(LogFiles) <= FilesLimit
    BY DEF LimitKept
  <2>1. Cardinality(Entries) + ShellMax <= FilesLimit + ShellMax
    BY DEF LogIInv, Counted, Left
  <2>2. Cardinality(LogFiles) \in Nat
    <3>1. LogFiles \in SUBSET Numerals
      BY DEF LogFiles
    <3> QED BY <3>1, CardFacts
  <2> QED BY <2>1, <2>2, CountFacts, LogAssumption, ShellAssumption
<1>3. LogIInv => NeverReused
  <2> SUFFICES ASSUME LogIInv, pc = "make", ~ AtLimit, Unmeddled PROVE target \notin LogFiles
    BY DEF NeverReused, Unmeddled
  <2>1. PICK s \in Numerals, k \in 0 .. FilesLimit :
            Numbered(s, k) /\ Known(s, k) /\ k \in 0 .. MaxFileNumeral
    BY WindowNow DEF LogIInv, Places
  <2>2. ASSUME NEW i \in 0 .. k - 1 PROVE At(s, i) # At(s, k)
    <3>1. i \in 0 .. MaxFileNumeral /\ i # k
      BY <2>1, <2>2, ShellAssumption
    <3> QED BY <2>1, <3>1, AtFacts
  <2> QED BY <2>1, <2>2 DEF Numbered, Known
<1> QED BY <1>1, <1>2, <1>3, LogAlways, PTL DEF LogInv

\* Between two records all that log_output has taken is on the disk, where a power cut
\* cannot reach it: write_log_to_file ends with a sync (log_backend_my_fs.c:148-225).
THEOREM TakenStays == Spec => []TakenIsOnDisk
<1>1. LogIInv => TakenIsOnDisk
  <2> SUFFICES ASSUME LogIInv, meddled = {}, file.live PROVE disk[file.path] >= kept
    BY DEF TakenIsOnDisk
  <2>1. kept <= disk[file.path]
    BY DEF LogIInv, KeptOnDisk
  <2> QED BY <2>1
<1> QED BY <1>1, LogAlways, PTL

\* del_oldest_log (log_backend_my_fs.c:394-422) removes the oldest file there is, although
\* it knows ages by numbers that wrap and by counters that a restart has to find again.
THEOREM OldestGoes == Spec => OldestFirst
<1>1. LogIInv /\ [Next]_vars => [cmds' = cmds /\ {"add", "rm"} \cap meddled = {}
        => \A gone \in LogFiles \ LogFiles', n \in LogFiles' : <<gone, n>> \in older]_vars
  <2> SUFFICES ASSUME LogIInv, [Next]_vars, cmds' = cmds, Unmeddled,
                      NEW gone \in LogFiles \ LogFiles', NEW n \in LogFiles'
               PROVE  <<gone, n>> \in older
    BY DEF Unmeddled
  <2>1. LogFiles' # LogFiles /\ UNCHANGED shortWrites
    BY DEF Next, vars
  <2>2. CASE (Sweep \/ MakeRoom) /\ ~ UNCHANGED disk
    <3>1. \A m \in LogFiles' : <<oldest, m>> \in older
      BY <2>1, <2>2, LogRemoves, WindowShrinks
    <3>2. gone = oldest
      <4>1. LogFiles' = LogFiles \ {oldest}
        BY <2>1, <2>2, LogRemoves, Removed DEF LogIInv, LogTypes
      <4> QED BY <4>1
    <3> QED BY <3>1, <3>2
  <2>3. CASE Make
    <3>1. CASE Corrupt /\ UNCHANGED <<disk, history>>
      BY <2>1, <3>1 DEF LogFiles, IsFile
    <3>2. CASE ~ (Corrupt /\ UNCHANGED <<disk, history>>)
      BY <2>1, <2>3, <3>2, LogMakes
    <3> QED BY <3>1, <3>2
  <2>4. CASE Shell /\ \E m \in Numerals : Adds(m) \/ Removes(m)
    BY <2>4, ShellAssumption DEF Adds, Removes, LogIInv, ShellOK
  <2> QED BY <2>1, <2>2, <2>3, <2>4, QuietSteps
<1> QED BY <1>1, LogAlways, PTL DEF Spec, OldestFirst
================================================================================
