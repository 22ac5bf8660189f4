---------------------------- MODULE ShellProofs ----------------------------
(***************************************************************************)
(* What the prompt shows, where cp leaves the shell and what echo leaves   *)
(* of a file, for every size of the disk and of its tables, every set of   *)
(* names, every path length and every width of the shell's answer byte.    *)
(***************************************************************************)
EXTENDS Shell, FAT32Proofs

-----------------------------------------------------------------------------
(* The inductive invariant.                                                *)

\* A table that is no folder (any more) lists nothing above slot 0: an echo
\* that goes to it by mistake finds no file.
DeadClean(F, S) ==
    \A c \in Clusters \ FoldersIn(F, S) : S[c] \in Tables =>
        \A i \in Slots : i > 0 => S[c][i].name = NoName

\* What the commands rely on of the disk.
DiskOK == Ordered /\ DeadClean(fat, store)

\* Folder p lists cluster c as n.dir.
ListsDir(S, p, n, c) ==
    \E i \in UsedIn(S, p) : S[p][i].name = n /\ S[p][i].ext = DirExt /\ S[p][i].cluster = c

\* The folders at which the names of a prompt lead from the root to cluster c.
IsTrail(F, S, dir, c, at) ==
    /\ at \in [0 .. Len(dir) -> FoldersIn(F, S)]
    /\ at[0] = ROOT /\ at[Len(dir)] = c
    /\ \A i \in 1 .. Len(dir) : ListsDir(S, at[i - 1], dir[i], at[i])

\* What CpReturns asks for.
Tidy(F, S) ==
    /\ \A c \in FoldersIn(F, S) : c < ByteSize
    /\ \A c \in FoldersIn(F, S) : \A i \in UsedIn(S, c) :
           S[c][i].ext = DirExt => S[c][i].attr

\* The steps cp has to take back lead to the folder where it was entered.
LeadsHome(F, S, dir, j, at) ==
    j.op \in {"cp", "cp write", "back"} /\ Tidy(F, S) =>
        j.count <= Len(dir) /\ at[Len(dir) - j.count] = j.home

TrailOK ==
    \E at : /\ IsTrail(fat, store, current_dir, cwd, at)
            /\ LeadsHome(fat, store, current_dir, job, at)

\* retcode is a byte when cp has to read it.
RetOK ==
    /\ retcode \in Nat
    /\ job.op \in {"prompt", "echo"} => retcode = 0
    /\ job.op = "cp" /\ Tidy(fat, store) => retcode < ByteSize

\* Between echo's delete and its write: the cluster and the slot are free.
EchoOK ==
    job.op = "echo" =>
        IF job.found
        THEN /\ EchoFolder \in Folders /\ request.name \in Names /\ request.ext \in Exts
             /\ Matches(store[EchoFolder], request.name, request.ext) = {}
             /\ FreeSlots(store[EchoFolder]) # {} /\ Available # {}
        ELSE ~IsFolder(EchoFolder)

Letters == STRING \cup {NUL}
CdJobs == [op : {"cd"}, rest : Seq(TypedNames \cup {DOTDOT})]
EchoJobs == [op : {"echo"}, found : BOOLEAN, content : Values]
CpJobs == [op : {"cp"}, name : TypedNames, ext : FileExts, count : Nat, content : Values,
           rest : Seq(TypedNames \ {DOTDOT}) \ {<<>>}, home : Clusters]
CpWriteJobs == [op : {"cp write"}, name : TypedNames, ext : FileExts, count : Nat,
                content : Values, home : Clusters]
BackJobs == [op : {"back"}, count : Nat, home : Clusters]
Jobs == {Prompt} \cup CdJobs \cup EchoJobs \cup CpJobs \cup CpWriteJobs \cup BackJobs

Requests == [name : Seq(Letters), ext : Exts \cup {JUNK}]

ShellTypeOK ==
    /\ current_dir \in Seq(TypedNames)
    /\ request \in Requests
    /\ job \in Jobs

Good == DiskOK /\ ShellTypeOK /\ TrailOK /\ RetOK /\ EchoOK
ShellInv == fault = "none" => Good

-----------------------------------------------------------------------------
(* The disk under one call.                                                *)

\* A call that changes nothing on disk.
LEMMA KeptDisk ==
    ASSUME DiskOK, UNCHANGED <<fat, store, fault>>, ret' \in Int
    PROVE  DiskOK'
<1>1. DeadClean(fat, store)'
    BY DEF DiskOK
<1> QED BY <1>1, KeptOrdered DEF DiskOK

\* Writes leave tables that are no folders as they were.
LEMMA AddsClean ==
    ASSUME NEW d, NEW s, NEW x, NEW A, Adds(d, s, x, A), DeadClean(fat, store),
           x.attr \/ \A c \in A : store'[c] \notin Tables
    PROVE  DeadClean(fat', store')
<1> SUFFICES ASSUME NEW c \in Clusters \ FoldersIn(fat', store'), store'[c] \in Tables,
                    NEW i \in Slots, i > 0
             PROVE  store'[c][i].name = NoName
    BY DEF DeadClean
<1>1. Folders' = FoldersIn(fat', store') /\ Folders = FoldersIn(fat, store)
    BY SolidIs, SolidIsNext
<1>2. c \notin Folders'
    BY <1>1
<1>3. c \notin A /\ c # d /\ c \notin Folders
    BY <1>2 DEF Adds
<1>4. store'[c] = store[c]
    BY <1>3 DEF Adds
<1> QED BY <1>1, <1>3, <1>4 DEF DeadClean

\* write of a folder leaves the disk in order.
LEMMA WriteFolderDisk ==
    ASSUME DiskOK, NEW d \in Folders, NEW n \in Names, NEW e \in Exts,
           WriteFolder(d, n, e), fault' = "none"
    PROVE  DiskOK' /\ \E s, x, A : Adds(d, s, x, A)
<1>1. Ordered /\ DeadClean(fat, store) /\ TypeOK /\ Solid /\ d \in Parents
    BY FolderIsParent DEF DiskOK, Ordered
<1>2. Ordered'
    BY <1>1, WriteFolderOrdered
<1>3. PICK s : Adds(d, s, NewEntry(n, e, 0), {EmptyCluster})
    BY <1>1, WriteFolderAdds
<1>4. NewEntry(n, e, 0).attr
  <2>1. NewEntry(n, e, 0).attr = (0 = 0)
    BY DEF NewEntry
  <2> QED BY <2>1
<1>5. DeadClean(fat', store')
    BY <1>1, <1>3, <1>4, AddsClean
<1> QED BY <1>2, <1>3, <1>5 DEF DiskOK

\* write of a file leaves the disk in order.
LEMMA WriteFileDisk ==
    ASSUME DiskOK, NEW d \in Folders, NEW n \in Names, NEW e \in Exts,
           NEW b \in Sizes, NEW v \in Values, WriteFile(d, n, e, b, v), fault' = "none"
    PROVE  DiskOK' /\ \E s, x, A : Adds(d, s, x, A)
<1>1. Ordered /\ DeadClean(fat, store) /\ TypeOK /\ Solid /\ d \in Parents
    BY FolderIsParent DEF DiskOK, Ordered
<1>2. Ordered'
    BY <1>1, WriteFileOrdered
<1>3. PICK s, A : /\ Adds(d, s, NewEntry(n, e, b), A)
                  /\ FileOn(fat', store', A, EmptyCluster, ceil_div(b, ClusterSize), v)
    BY <1>1, WriteFileAdds
<1>4. \A c \in A : store'[c] \notin Tables
  <2>1. \A c \in A : \E k : store'[c] = <<v, k>>
    BY <1>3 DEF FileOn
  <2> QED BY <2>1, PieceNotTable
<1>5. DeadClean(fat', store')
    BY <1>1, <1>3, <1>4, AddsClean
<1> QED BY <1>2, <1>3, <1>5 DEF DiskOK

\* delete leaves the disk in order.
LEMMA DeleteDisk ==
    ASSUME DiskOK, NEW d \in Folders, NEW n, NEW e, n # NoName,
           Delete(d, n, e), fault' = "none"
    PROVE  DiskOK' /\ \E h, R : Removes(d, n, Min(Matches(store[d], n, e)), h, R)
<1>1. Ordered /\ DeadClean(fat, store) /\ TypeOK /\ Solid /\ d \in Parents
    BY FolderIsParent DEF DiskOK, Ordered
<1>2. Ordered'
    BY <1>1, DeleteOrdered
<1>3. PICK i, h, R : i = Min(Matches(store[d], n, e)) /\ Removes(d, n, i, h, R)
    BY <1>1, DeleteRemoves
<1>4. DeadClean(fat', store')
  <2> SUFFICES ASSUME NEW c \in Clusters \ FoldersIn(fat', store'), store'[c] \in Tables,
                      NEW j \in Slots, j > 0
               PROVE  store'[c][j].name = NoName
    BY DEF DeadClean
  <2>1. Folders' = FoldersIn(fat', store') /\ Folders = FoldersIn(fat, store)
    BY SolidIs, SolidIsNext
  <2>2. c \notin Folders \/ (c \in Folders /\ c \in R)
    BY <1>3, <2>1 DEF Removes
  <2>3. c # d
    BY <1>3, <2>2 DEF Removes
  <2>4. store'[c] = store[c]
    BY <1>3, <2>3 DEF Removes
  <2>5. CASE c \notin Folders
    BY <1>1, <2>1, <2>4, <2>5 DEF DeadClean
  <2>6. CASE c \in Folders /\ c \in R
    <3>1. ~store[c][j].used
      BY <1>3, <2>6 DEF Removes, Used
    <3> QED BY <1>1, <2>4, <2>6, <3>1 DEF Solid, FreeSlotsNameless
  <2> QED BY <2>2, <2>5, <2>6
<1> QED BY <1>2, <1>3, <1>4 DEF DiskOK

-----------------------------------------------------------------------------
(* The trail under changes of the disk.                                    *)

\* A write adds to the folders: a trail stays one, and a disk that is not
\* tidy does not become so.
LEMMA TrailGrows ==
    ASSUME NEW d, NEW s, NEW x, NEW A, Adds(d, s, x, A)
    PROVE  /\ \A dir, c, at : IsTrail(fat, store, dir, c, at) => IsTrail(fat', store', dir, c, at)
           /\ Tidy(fat', store') => Tidy(fat, store)
<1>1. Folders' = FoldersIn(fat', store') /\ Folders = FoldersIn(fat, store)
    BY SolidIs, SolidIsNext
<1>2. FoldersIn(fat, store) \subseteq FoldersIn(fat', store')
    BY <1>1 DEF Adds
<1>3. ASSUME NEW p \in FoldersIn(fat, store), NEW i \in UsedIn(store, p)
      PROVE  i \in UsedIn(store', p) /\ store'[p][i] = store[p][i]
  <2>1. p \in Clusters /\ p \notin A
    BY DEF FoldersIn, AllocIn, Adds, Available, EmptyClusters
  <2>2. i \in Slots /\ i > 0 /\ store[p][i].used
    BY DEF UsedIn
  <2>3. store'[p][i] = store[p][i]
    BY <2>1, <2>2 DEF Adds
  <2> QED BY <2>2, <2>3 DEF UsedIn
<1>4. ASSUME NEW dir, NEW c, NEW at, IsTrail(fat, store, dir, c, at)
      PROVE  IsTrail(fat', store', dir, c, at)
  <2>1. at \in [0 .. Len(dir) -> FoldersIn(fat', store')]
    BY <1>2, <1>4 DEF IsTrail
  <2>2. ASSUME NEW i \in 1 .. Len(dir) PROVE ListsDir(store', at[i - 1], dir[i], at[i])
    <3>1. ListsDir(store, at[i - 1], dir[i], at[i])
      BY <1>4 DEF IsTrail
    <3>2. PICK p : p = at[i - 1]
      OBVIOUS
    <3>3. p \in FoldersIn(fat, store)
      <4>1. i - 1 \in 0 .. Len(dir)
        OBVIOUS
      <4> QED BY <1>4, <3>2, <4>1 DEF IsTrail
    <3> QED BY <1>3, <3>1, <3>2, <3>3 DEF ListsDir
  <2> QED BY <1>4, <2>1, <2>2 DEF IsTrail
<1>5. Tidy(fat', store') => Tidy(fat, store)
    BY <1>2, <1>3 DEF Tidy
<1> QED BY <1>4, <1>5

\* A delete in the working directory, or of a file, leaves the trail: a folder
\* on it that is not the last lists the next, and the last one lists what is
\* deleted.
LEMMA TrailShrinks ==
    ASSUME NEW d, NEW n, NEW i, NEW h, NEW R, Removes(d, n, i, h, R),
           NEW dir \in Seq(TypedNames), NEW c, NEW at, IsTrail(fat, store, dir, c, at),
           d = c \/ h \notin Folders
    PROVE  IsTrail(fat', store', dir, c, at)
<1>1. /\ Folders' = FoldersIn(fat', store') /\ Folders = FoldersIn(fat, store)
      /\ \A x : Used(x) = UsedIn(store, x)
    BY SolidIs, SolidIsNext
<1>2. Len(dir) \in Nat
    OBVIOUS
<1>3. ASSUME NEW j \in 0 .. Len(dir) PROVE at[j] \in Folders /\ at[j] \notin R
  <2>1. at[j] \in Folders
    BY <1>1 DEF IsTrail
  <2> SUFFICES ASSUME at[j] \in R PROVE FALSE
    BY <2>1
  <2>2. at[j] = h /\ UsedIn(store, h) = {} /\ d = c
    BY <1>1, <2>1 DEF Removes
  <2>3. CASE j = Len(dir)
    BY <1>1, <2>2, <2>3 DEF Removes, IsTrail
  <2>4. CASE j # Len(dir)
    <3>1. j + 1 \in 1 .. Len(dir) /\ (j + 1) - 1 = j
      BY <1>2, <2>4
    <3>2. ListsDir(store, at[j], dir[j + 1], at[j + 1])
      BY <3>1 DEF IsTrail
    <3> QED BY <2>2, <3>2 DEF ListsDir
  <2> QED BY <2>3, <2>4
<1>4. at \in [0 .. Len(dir) -> FoldersIn(fat', store')]
  <2>1. \A j \in 0 .. Len(dir) : at[j] \in FoldersIn(fat', store')
    BY <1>1, <1>3 DEF Removes
  <2> QED BY <2>1 DEF IsTrail
<1>5. ASSUME NEW j \in 1 .. Len(dir) PROVE ListsDir(store', at[j - 1], dir[j], at[j])
  <2>1. j - 1 \in 0 .. Len(dir) /\ j \in 0 .. Len(dir)
    BY <1>2
  <2>2. PICK p : p = at[j - 1]
    OBVIOUS
  <2>3. p \in Folders /\ p \in Clusters /\ at[j] \notin R
    BY <1>3, <2>1, <2>2 DEF Folders, Allocated
  <2>4. PICK k \in UsedIn(store, p) : /\ store[p][k].name = dir[j] /\ store[p][k].ext = DirExt
                                      /\ store[p][k].cluster = at[j]
    BY <2>2 DEF IsTrail, ListsDir
  <2>5. ~(p = d /\ k = i)
    BY <2>3, <2>4 DEF Removes
  <2>6. k \in Slots /\ k > 0 /\ store[p][k].used
    BY DEF UsedIn
  <2>7. store'[p][k] = store[p][k]
    BY <2>3, <2>5, <2>6 DEF Removes
  <2> QED BY <2>2, <2>4, <2>6, <2>7 DEF ListsDir, UsedIn
<1> QED BY <1>4, <1>5 DEF IsTrail

\* cd into a folder that the last one lists.
LEMMA TrailDown ==
    ASSUME NEW dir \in Seq(TypedNames), NEW c, NEW at, IsTrail(fat, store, dir, c, at),
           NEW n \in TypedNames, NEW x \in FoldersIn(fat, store), ListsDir(store, c, n, x)
    PROVE  \E t : /\ IsTrail(fat, store, Append(dir, n), x, t)
                  /\ \A k \in 0 .. Len(dir) : t[k] = at[k]
<1>1. PICK m \in Nat : m = Len(dir)
    OBVIOUS
<1>2. PICK e : e = Append(dir, n)
    OBVIOUS
<1>3. Len(e) = m + 1 /\ e[m + 1] = n /\ \A k \in 1 .. m : e[k] = dir[k]
    BY <1>1, <1>2
<1>4. PICK t : t = [k \in 0 .. m + 1 |-> IF k <= m THEN at[k] ELSE x]
    OBVIOUS
<1>5. /\ \A k \in 0 .. m : at[k] \in FoldersIn(fat, store)
      /\ at[0] = ROOT /\ at[m] = c
      /\ \A k \in 1 .. m : ListsDir(store, at[k - 1], dir[k], at[k])
    BY <1>1 DEF IsTrail
<1>6. t[m + 1] = x /\ \A k \in 0 .. m : t[k] = at[k]
    BY <1>1, <1>4
<1>7. t \in [0 .. m + 1 -> FoldersIn(fat, store)]
    BY <1>1, <1>4, <1>5
<1>8. ASSUME NEW k \in 1 .. m + 1 PROVE ListsDir(store, t[k - 1], e[k], t[k])
  <2>1. CASE k \in 1 .. m
    <3>1. k - 1 \in 0 .. m /\ k \in 0 .. m
      BY <1>1, <2>1
    <3> QED BY <1>3, <1>5, <1>6, <2>1, <3>1
  <2>2. CASE k = m + 1
    <3>1. m \in 0 .. m /\ k - 1 = m
      BY <1>1, <2>2
    <3> QED BY <1>3, <1>5, <1>6, <2>2, <3>1
  <2> QED BY <1>1, <2>1, <2>2
<1>9. t[0] = ROOT
    BY <1>1, <1>5, <1>6
<1>10. IsTrail(fat, store, e, x, t)
    BY <1>3, <1>6, <1>7, <1>8, <1>9 DEF IsTrail
<1> QED BY <1>1, <1>2, <1>6, <1>10

\* cd .. from any folder but the root: its own entry leads to the last folder
\* but one.
LEMMA TrailUp ==
    ASSUME Ordered, NEW dir \in Seq(TypedNames), NEW c, NEW at, IsTrail(fat, store, dir, c, at),
           c # ROOT
    PROVE  /\ Len(dir) > 0 /\ store[c][0].cluster = at[Len(dir) - 1]
           /\ \E t : /\ IsTrail(fat, store, SubSeq(dir, 1, Len(dir) - 1), at[Len(dir) - 1], t)
                     /\ \A k \in 0 .. Len(dir) - 1 : t[k] = at[k]
<1>1. PICK m \in Nat : m = Len(dir)
    OBVIOUS
<1>2. /\ \A k \in 0 .. m : at[k] \in FoldersIn(fat, store)
      /\ at[0] = ROOT /\ at[m] = c
      /\ \A k \in 1 .. m : ListsDir(store, at[k - 1], dir[k], at[k])
    BY <1>1 DEF IsTrail
<1>3. m > 0 /\ m - 1 \in 0 .. m /\ m \in 1 .. m /\ m \in 0 .. m
  <2>1. m # 0
    BY <1>2
  <2> QED BY <1>1, <2>1
<1>4. store[c][0].cluster = at[m - 1]
  <2>1. PICK p : p = at[m - 1]
    OBVIOUS
  <2>2. PICK i \in UsedIn(store, p) : store[p][i].cluster = c
    BY <1>2, <1>3, <2>1 DEF ListsDir
  <2>3. p \in Folders /\ i \in Used(p) /\ c \in Folders /\ Solid
    BY <1>2, <1>3, <2>1, SolidIs DEF Ordered
  <2>4. store[p][i].attr <=> c \in Folders
    BY <2>2, <2>3, Zenon DEF Solid, FoldersLinked
  <2>5. store[p][i].attr
    BY <2>3, <2>4, Zenon
  <2>6. store[c][0].cluster = p
    BY <2>2, <2>3, <2>5, Zenon DEF Solid, FoldersLinked
  <2> QED BY <2>1, <2>6
<1>5. PICK e : e = SubSeq(dir, 1, m - 1)
    OBVIOUS
<1>6. Len(e) = m - 1 /\ \A k \in 1 .. m - 1 : e[k] = dir[k]
    BY <1>1, <1>3, <1>5
<1>7. PICK t : t = [k \in 0 .. m - 1 |-> at[k]]
    OBVIOUS
<1>8. t \in [0 .. m - 1 -> FoldersIn(fat, store)]
    BY <1>1, <1>2, <1>7
<1>9. ASSUME NEW k \in 1 .. m - 1 PROVE ListsDir(store, t[k - 1], e[k], t[k])
  <2>1. k \in 1 .. m /\ k - 1 \in 0 .. m - 1 /\ k \in 0 .. m - 1
    BY <1>1
  <2> QED BY <1>2, <1>6, <1>7, <2>1
<1>10. t[0] = ROOT /\ t[m - 1] = at[m - 1]
    BY <1>1, <1>2, <1>3, <1>7
<1>11. IsTrail(fat, store, e, at[m - 1], t)
    BY <1>6, <1>8, <1>9, <1>10 DEF IsTrail
<1> QED BY <1>1, <1>3, <1>4, <1>5, <1>7, <1>11

-----------------------------------------------------------------------------
(* Names and bytes.                                                        *)

\* What the typed names and extensions are.
LEMMA Typed ==
    /\ ByteSize \in Nat /\ ByteSize > 4
    /\ FileExts \subseteq Exts /\ DirExt \in Exts /\ DirExt # NoExt /\ NoExt \in Exts
    /\ NoName = <<>> /\ NoName \notin Names
    /\ ClusterSize \in Sizes /\ 0 \in Sizes /\ ClusterSize \in Nat /\ ClusterSize > 0
    /\ \A n \in TypedNames : /\ n \in Names /\ n # NoName /\ n \in Seq(Letters)
                             /\ \A w \in Unpadded(n) : w \in Names /\ w # NoName /\ w \in Seq(Letters)
<1>1. /\ ByteSize \in Nat /\ ByteSize > 4
      /\ FileExts \subseteq Exts /\ DirExt \in Exts /\ DirExt # NoExt /\ NoExt \in Exts
      /\ NoName = <<>> /\ NoName \notin Names
      /\ ClusterSize \in Sizes /\ 0 \in Sizes /\ ClusterSize \in Nat /\ ClusterSize > 0
    BY ShellAssumption, ConstantsAssumption
<1>2. ASSUME NEW n \in TypedNames
      PROVE  /\ n \in Names /\ n # NoName /\ n \in Seq(Letters)
             /\ \A w \in Unpadded(n) : w \in Names /\ w # NoName /\ w \in Seq(Letters)
  <2>1. n \in Seq(STRING) /\ n \in Names /\ Garbled(n) \in Names
    BY ShellAssumption
  <2>2. n \in Seq(Letters) /\ NUL \in Letters
    BY <2>1 DEF Letters
  <2>3. Garbled(n) \in Seq(Letters)
    BY <2>2 DEF Garbled
  <2> QED BY <1>1, <2>1, <2>2, <2>3 DEF Unpadded
<1> QED BY <1>1, <1>2

\* Remainders of the return codes.
LEMMA Bytes ==
    ASSUME NEW r \in Nat
    PROVE  /\ r % ByteSize \in 0 .. ByteSize - 1 /\ r % ByteSize <= r
           /\ r < ByteSize => r % ByteSize = r
           /\ (-1) % ByteSize = ByteSize - 1
<1>1. PICK B \in Nat : B = ByteSize /\ B > 4
    BY Typed
<1>2. r % B \in 0 .. B - 1
    BY <1>1
<1>3. r = B * (r \div B) + (r % B) /\ r \div B \in Nat
    BY <1>1
<1>4. r % B <= r
    BY <1>1, <1>2, <1>3, SMT
<1>5. r < B => r % B = r
    BY <1>1
<1>6. (-1) % B = B - 1
    BY <1>1
<1> QED BY <1>1, <1>2, <1>4, <1>5, <1>6

\* The answers of the calls.
LEMMA Codes ==
    ASSUME NEW d, NEW n, NEW e, NEW b
    PROVE  /\ ReadCode(d, n, e, b) \in {-1, 0, 1, 2, 3}
           /\ ReadDirectoryCode(d, n, e) \in {-1, 0, 1, 2, 3}
           /\ WriteCode(d, n, e, b) \in {-1, 0, 1, 2, 3}
           /\ DeleteCode(d, n, e) \in {-1, 0, 1, 2, 3}
<1>1. ReadCode(d, n, e, b) \in {-1, 0, 1, 2, 3}
    BY Zenon DEF ReadCode
<1>2. ReadDirectoryCode(d, n, e) \in {-1, 0, 1, 2, 3}
    BY Zenon DEF ReadDirectoryCode
<1>3. WriteCode(d, n, e, b) \in {-1, 0, 1, 2, 3}
    BY Zenon DEF WriteCode
<1>4. DeleteCode(d, n, e) \in {-1, 0, 1, 2, 3}
    BY Zenon DEF DeleteCode
<1> QED BY <1>1, <1>2, <1>3, <1>4

\* What the shell makes of an answer: nothing but a success looks like one, and
\* it reads the right code as long as the rest of retcode is zero.
LEMMA Answers ==
    ASSUME retcode \in Nat, NEW code \in {-1, 0, 1, 2, 3}
    PROVE  /\ Answer(code) \in Nat
           /\ Answer(code) = 0 => code = 0
           /\ retcode < ByteSize => Answer(code) = IF code = -1 THEN ByteSize - 1 ELSE code
<1>1. PICK B \in Nat : B = ByteSize /\ B > 4
    BY Typed
<1>2. PICK r \in Nat : r = retcode % B /\ r < B /\ r <= retcode /\ (retcode < B => r = retcode)
    BY <1>1, Bytes
<1>3. PICK q \in Nat : q = code % B /\ q = IF code = -1 THEN B - 1 ELSE code
  <2>1. CASE code = -1
    BY <1>1, <2>1, Bytes
  <2>2. CASE code # -1
    <3>1. code \in Nat /\ code < ByteSize
      BY <1>1, <2>2
    <3>2. code % ByteSize = code
      BY <3>1, Bytes
    <3> QED BY <1>1, <2>2, <3>1, <3>2
  <2> QED BY <2>1, <2>2
<1>4. Answer(code) = (retcode - r) + q
    BY <1>1, <1>2, <1>3 DEF Answer
<1> QED BY <1>1, <1>2, <1>3, <1>4

\* What cd finds in a folder.
LEMMA ChildFound ==
    ASSUME Ordered, NEW d \in Folders, NEW n, n # NoName
    PROVE  /\ \A i \in Used(d) : store[d][i].name = n /\ store[d][i].ext = DirExt =>
                  ChildOf(d, n) = store[d][i].cluster
           /\ ReadDirectoryCode(d, n, DirExt) \in {0, 1, 2}
           /\ ReadDirectoryCode(d, n, DirExt) = 0 =>
                  /\ ListsDir(store, d, n, ChildOf(d, n))
                  /\ ChildOf(d, n) \in Folders /\ ChildOf(d, n) # ROOT
           /\ ReadDirectoryCode(d, n, DirExt) = 1 =>
                  \E i \in Used(d) : store[d][i].ext = DirExt /\ ~store[d][i].attr
<1>1. Solid /\ DirExt # NoExt
    BY Typed DEF Ordered
<1>2. /\ IsFolder(d) /\ store[d] \in Tables
      /\ \A i \in Used(d) : store[d][i].name = n /\ store[d][i].ext = DirExt =>
             Matches(store[d], n, DirExt) = {i} /\ Min(Matches(store[d], n, DirExt)) = i
      /\ Matches(store[d], n, DirExt) # {} =>
             \E i \in Used(d) : store[d][i].name = n /\ store[d][i].ext = DirExt
  <2>1. IsFolder(d) /\ store[d] \in Tables
    BY FolderTable
  <2>2. ASSUME NEW i \in Used(d), store[d][i].name = n, store[d][i].ext = DirExt
        PROVE  Matches(store[d], n, DirExt) = {i} /\ Min(Matches(store[d], n, DirExt)) = i
    <3>1. i \in Slots
      BY DEF Used
    <3> QED BY <2>2, <3>1, FindsOne
  <2>3. ASSUME Matches(store[d], n, DirExt) # {}
        PROVE  \E i \in Used(d) : store[d][i].name = n /\ store[d][i].ext = DirExt
    <3>1. PICK i \in Slots : /\ store[d][i].name = n /\ store[d][i].ext = DirExt /\ store[d][i].used
                             /\ (i = 0 /\ DirExt = NoExt) \/ i \in Used(d)
      BY <2>3, FindsUsed
    <3> QED BY <1>1, <3>1
  <2> QED BY <2>1, <2>2, <2>3
<1>3. ASSUME NEW i \in Used(d), store[d][i].name = n, store[d][i].ext = DirExt
      PROVE  ChildOf(d, n) = store[d][i].cluster /\ Target(d, n, DirExt) = store[d][i]
  <2>1. i # 0
    BY DEF Used
  <2>2. ChildSlots(d, n) = Matches(store[d], n, DirExt) \ {0}
    BY <1>2 DEF ChildSlots
  <2>3. Matches(store[d], n, DirExt) = {i} /\ Min(Matches(store[d], n, DirExt)) = i
    BY <1>2, <1>3
  <2>4. ChildSlots(d, n) = Matches(store[d], n, DirExt) /\ ChildSlots(d, n) # {}
    BY <2>1, <2>2, <2>3
  <2> QED BY <2>3, <2>4, Zenon DEF ChildOf, Target
<1>4. ReadDirectoryCode(d, n, DirExt) \in {0, 1, 2}
    BY <1>2, Zenon DEF ReadDirectoryCode
<1>5. ASSUME ReadDirectoryCode(d, n, DirExt) = 0 \/ ReadDirectoryCode(d, n, DirExt) = 1
      PROVE  \E i \in Used(d) : /\ store[d][i].name = n /\ store[d][i].ext = DirExt
                                /\ store[d][i].attr <=> ReadDirectoryCode(d, n, DirExt) = 0
  <2>1. Matches(store[d], n, DirExt) # {}
    BY <1>2, <1>5 DEF ReadDirectoryCode
  <2>2. PICK i \in Used(d) : store[d][i].name = n /\ store[d][i].ext = DirExt
    BY <1>2, <2>1
  <2>3. Target(d, n, DirExt) = store[d][i]
    BY <1>3, <2>2
  <2>4. ReadDirectoryCode(d, n, DirExt) = IF ~store[d][i].attr THEN 1 ELSE 0
    BY <1>2, <2>1, <2>3, Zenon DEF ReadDirectoryCode
  <2> QED BY <2>2, <2>4
<1>6. ASSUME ReadDirectoryCode(d, n, DirExt) = 0
      PROVE  /\ ListsDir(store, d, n, ChildOf(d, n))
             /\ ChildOf(d, n) \in Folders /\ ChildOf(d, n) # ROOT
  <2>1. PICK i \in Used(d) : store[d][i].name = n /\ store[d][i].ext = DirExt /\ store[d][i].attr
    BY <1>5, <1>6
  <2>2. ChildOf(d, n) = store[d][i].cluster
    BY <1>3, <2>1
  <2>3. store[d][i].cluster \in Folders /\ store[d][i].cluster # ROOT
    BY <1>1, <2>1 DEF Solid, FoldersLinked, EntriesOwnChains
  <2> QED BY <2>1, <2>2, <2>3, SolidIs DEF ListsDir
<1> QED BY <1>3, <1>4, <1>5, <1>6

\* The steps Reached takes along a path.
PathSteps(path, at) ==
    [i \in 0 .. Len(path) |-> IF i = 0 THEN ROOT ELSE ChildOf(at[i - 1], path[i])]

\* Reached follows the trail.
LEMMA ReachedIs ==
    ASSUME Ordered, NEW dir \in Seq(TypedNames), NEW c, NEW at, IsTrail(fat, store, dir, c, at)
    PROVE  Reached(dir) = c
<1>0. PICK m \in Nat : m = Len(dir)
    OBVIOUS
<1>1. PICK g : g = CHOOSE f : f = PathSteps(dir, f)
    OBVIOUS
<1>2. Reached(dir) = g[m]
    BY <1>0, <1>1 DEF Reached, PathSteps
<1>3. at = PathSteps(dir, at)
  <2>1. at \in [0 .. m -> FoldersIn(fat, store)] /\ at[0] = ROOT
    BY <1>0 DEF IsTrail
  <2>2. ASSUME NEW i \in 0 .. m, i # 0 PROVE at[i] = ChildOf(at[i - 1], dir[i])
    <3>1. i \in 1 .. m /\ i - 1 \in 0 .. m
      BY <1>0, <2>2
    <3>2. dir[i] \in TypedNames
      BY <1>0, <3>1
    <3>3. dir[i] # NoName /\ at[i - 1] \in Folders
      BY <2>1, <3>1, <3>2, Typed, SolidIs
    <3>4. PICK p, n : p = at[i - 1] /\ n = dir[i]
      OBVIOUS
    <3>5. PICK k \in Used(p) : store[p][k].name = n /\ store[p][k].ext = DirExt
                               /\ store[p][k].cluster = at[i]
      BY <1>0, <3>1, <3>4, SolidIs DEF IsTrail, ListsDir
    <3> QED BY <3>3, <3>4, <3>5, ChildFound
  <2> QED BY <1>0, <2>1, <2>2 DEF PathSteps
<1>4. g = PathSteps(dir, g)
    BY <1>1, <1>3
<1>5. ASSUME NEW i \in 0 .. m PROVE g[i] = at[i]
  <2> SUFFICES ASSUME g[i] # at[i] PROVE FALSE
    OBVIOUS
  <2>1. PICK B : B = {k \in 0 .. m : g[k] # at[k]}
    OBVIOUS
  <2>2. B \in SUBSET Nat /\ B # {}
    BY <1>0, <2>1
  <2>3. PICK k \in B : \A y \in B : k <= y
    BY <2>2, MinLemma
  <2>4. k \in 0 .. m /\ g[k] # at[k]
    BY <2>1
  <2>5. /\ g[k] = IF k = 0 THEN ROOT ELSE ChildOf(g[k - 1], dir[k])
        /\ at[k] = IF k = 0 THEN ROOT ELSE ChildOf(at[k - 1], dir[k])
    <3>1. g[k] = IF k = 0 THEN ROOT ELSE ChildOf(g[k - 1], dir[k])
      BY <1>0, <1>4, <2>4 DEF PathSteps
    <3>2. at[k] = IF k = 0 THEN ROOT ELSE ChildOf(at[k - 1], dir[k])
      BY <1>0, <1>3, <2>4 DEF PathSteps
    <3> QED BY <3>1, <3>2
  <2>6. k # 0 => g[k - 1] = at[k - 1]
    <3> SUFFICES ASSUME k # 0, g[k - 1] # at[k - 1] PROVE FALSE
        OBVIOUS
    <3>1. k - 1 \in 0 .. m /\ ~(k <= k - 1)
        BY <1>0, <2>4
    <3> QED BY <2>1, <2>3, <3>1
  <2> QED BY <2>4, <2>5, <2>6
<1>6. m \in 0 .. m /\ at[m] = c
    BY <1>0 DEF IsTrail
<1> QED BY <1>2, <1>5, <1>6

-----------------------------------------------------------------------------
(* cd                                                                      *)

\* The root is at the start of a trail only.
LEMMA RootIsFirst ==
    ASSUME Ordered, NEW dir \in Seq(TypedNames), NEW at, IsTrail(fat, store, dir, ROOT, at)
    PROVE  Len(dir) = 0
<1>1. PICK m \in Nat : m = Len(dir)
    OBVIOUS
<1> SUFFICES ASSUME m # 0 PROVE FALSE
    BY <1>1
<1>2. m \in 1 .. m /\ m - 1 \in 0 .. m
    BY <1>1
<1>3. PICK p : p = at[m - 1]
    OBVIOUS
<1>4. p \in Folders
    BY <1>1, <1>2, <1>3, SolidIs DEF IsTrail
<1>5. PICK i \in Used(p) : store[p][i].cluster = ROOT
    BY <1>1, <1>2, <1>3, SolidIs DEF IsTrail, ListsDir
<1> QED BY <1>4, <1>5, Zenon DEF Ordered, Solid, EntriesOwnChains

\* One step up: the last name goes, unless one is at the root.
LEMMA CdUpMoves ==
    ASSUME DiskOK, current_dir \in Seq(TypedNames), retcode \in Nat,
           NEW at, IsTrail(fat, store, current_dir, cwd, at), CdUp
    PROVE  /\ DiskOK' /\ UNCHANGED <<fat, store, fault>>
           /\ current_dir' \in Seq(TypedNames) /\ retcode' \in Nat
           /\ Tidy(fat, store) /\ retcode < ByteSize => retcode' < ByteSize
           /\ \E t : /\ IsTrail(fat, store, current_dir', cwd', t)
                     /\ \A k \in 0 .. Len(current_dir') : t[k] = at[k]
                     /\ Len(current_dir') = IF Len(current_dir) = 0 THEN 0 ELSE Len(current_dir) - 1
<1>1. Ordered
    BY DEF DiskOK
<1>2. CASE cwd = ROOT
  <2>1. Len(current_dir) = 0
    BY <1>1, <1>2, RootIsFirst
  <2>2. UNCHANGED <<fat, store, fault, ret, cwd, current_dir, retcode>>
    BY <1>2 DEF CdUp, vars
  <2>3. ret' \in Int
    BY <1>1, <2>2 DEF Ordered, TypeOK
  <2>4. DiskOK'
    BY <2>2, <2>3, KeptDisk
  <2> QED BY <2>1, <2>2, <2>4
<1>3. CASE cwd # ROOT
  <2>1. PICK m \in Nat : m = Len(current_dir)
    OBVIOUS
  <2>2. /\ UNCHANGED <<fat, store, fault>> /\ ret' = store[cwd][0].cluster
        /\ retcode' = ret' /\ cwd' = ret'
        /\ current_dir' = SubSeq(current_dir, 1, Len(current_dir) - 1)
    BY <1>3 DEF CdUp, MoveToParent, UpDropsName
  <2>3. m > 0 /\ store[cwd][0].cluster = at[m - 1]
    BY <1>1, <1>3, <2>1, TrailUp
  <2>4. PICK t : /\ IsTrail(fat, store, SubSeq(current_dir, 1, m - 1), at[m - 1], t)
                 /\ \A k \in 0 .. m - 1 : t[k] = at[k]
    BY <1>1, <1>3, <2>1, TrailUp
  <2>5. current_dir' \in Seq(TypedNames) /\ Len(current_dir') = m - 1
    BY <2>1, <2>2, <2>3
  <2>6. at[m - 1] \in FoldersIn(fat, store)
    <3>1. m - 1 \in 0 .. m
      BY <2>1, <2>3
    <3> QED BY <2>1, <3>1 DEF IsTrail
  <2>7. at[m - 1] \in Nat /\ (Tidy(fat, store) => at[m - 1] < ByteSize)
    BY <2>6, Numbers DEF Tidy, FoldersIn, AllocIn
  <2>8. DiskOK'
    BY <2>2, <2>3, <2>7, KeptDisk
  <2> QED BY <2>1, <2>2, <2>3, <2>4, <2>5, <2>7, <2>8
<1> QED BY <1>2, <1>3

\* One step down: the name is added when a folder is found. When there is none
\* retcode says so, as long as it is a byte and no file passes for a folder.
LEMMA CdDownMoves ==
    ASSUME DiskOK, current_dir \in Seq(TypedNames), retcode \in Nat, NEW n \in TypedNames,
           NEW at, IsTrail(fat, store, current_dir, cwd, at), CdDown(n)
    PROVE  /\ DiskOK' /\ UNCHANGED <<fat, store, fault>>
           /\ current_dir' \in Seq(TypedNames) /\ retcode' \in Nat
           /\ Tidy(fat, store) /\ retcode < ByteSize => retcode' < ByteSize
           /\ \E t : /\ IsTrail(fat, store, current_dir', cwd', t)
                     /\ \A k \in 0 .. Len(current_dir) : t[k] = at[k]
                     /\ \/ Len(current_dir') = Len(current_dir) + 1 /\ retcode' # 2
                        \/ /\ Len(current_dir') = Len(current_dir)
                           /\ Tidy(fat, store) /\ retcode < ByteSize => retcode' = 2
<1>1. Ordered /\ n # NoName /\ ByteSize \in Nat /\ ByteSize > 4
    BY Typed DEF DiskOK
<1>2. PICK m \in Nat : m = Len(current_dir)
    OBVIOUS
<1>3. cwd \in Folders
    BY <1>2, SolidIs DEF IsTrail
<1>4. PICK code : code = ReadDirectoryCode(cwd, n, DirExt)
    OBVIOUS
<1>5. /\ code \in {0, 1, 2}
      /\ code = 0 => /\ ListsDir(store, cwd, n, ChildOf(cwd, n))
                     /\ ChildOf(cwd, n) \in Folders /\ ChildOf(cwd, n) # ROOT
      /\ code = 1 => \E i \in Used(cwd) : store[cwd][i].ext = DirExt /\ ~store[cwd][i].attr
    BY <1>1, <1>3, <1>4, ChildFound
<1>6. /\ Answer(code) \in Nat /\ (Answer(code) = 0 => code = 0)
      /\ retcode < ByteSize => Answer(code) = code
  <2>1. code \in {-1, 0, 1, 2, 3} /\ code # -1
    BY <1>5
  <2> QED BY <2>1, Answers
<1>7. CASE Answer(code) = 0
  <2>1. PICK x : x = ChildOf(cwd, n)
    OBVIOUS
  <2>2. /\ UNCHANGED <<fat, store, fault>> /\ ret' = x
        /\ retcode' = x /\ cwd' = x /\ current_dir' = Append(current_dir, n)
    BY <1>4, <1>7, <2>1 DEF CdDown, MoveToChild
  <2>3. x \in FoldersIn(fat, store) /\ x # ROOT /\ ListsDir(store, cwd, n, x)
    BY <1>5, <1>6, <1>7, <2>1, SolidIs
  <2>4. x \in Nat /\ x # 2 /\ (Tidy(fat, store) => x < ByteSize)
    BY <2>3, Numbers DEF Tidy, FoldersIn, AllocIn
  <2>5. DiskOK'
    BY <2>2, <2>4, KeptDisk
  <2>6. PICK t : /\ IsTrail(fat, store, Append(current_dir, n), x, t)
                 /\ \A k \in 0 .. Len(current_dir) : t[k] = at[k]
    BY <2>3, TrailDown
  <2>7. current_dir' \in Seq(TypedNames) /\ Len(current_dir') = m + 1
    BY <1>2, <2>2
  <2> QED BY <1>2, <2>2, <2>4, <2>5, <2>6, <2>7
<1>8. CASE Answer(code) # 0
  <2>1. /\ UNCHANGED <<fat, store, fault, cwd, current_dir>> /\ ret' = code
        /\ retcode' = Answer(code)
    BY <1>4, <1>8 DEF CdDown, ReadDirectory
  <2>2. code \in Int
    BY <1>5
  <2>3. DiskOK'
    BY <2>1, <2>2, KeptDisk
  <2>4. ASSUME Tidy(fat, store), retcode < ByteSize PROVE retcode' = 2
    <3>1. code # 1
      BY <1>3, <1>5, <2>4, SolidIs DEF Tidy
    <3>2. code # 0
      BY <1>6, <1>8, <2>4
    <3> QED BY <1>5, <1>6, <2>1, <2>4, <3>1, <3>2
  <2>5. Tidy(fat, store) /\ retcode < ByteSize => retcode' < ByteSize
    BY <1>1, <2>4
  <2> QED BY <1>2, <1>6, <2>1, <2>3, <2>4, <2>5
<1> QED BY <1>7, <1>8

-----------------------------------------------------------------------------
(* Writes and deletes.                                                     *)

\* A call of write, refused or not, in a folder.
LEMMA WriteKeeps ==
    ASSUME DiskOK, NEW d \in Folders, NEW n \in Names, NEW e \in Exts, NEW b \in Sizes,
           NEW v \in Values, Write(d, n, e, b, v), fault' = "none", fault = "none"
    PROVE  /\ DiskOK' /\ ret' \in {-1, 0, 1, 2, 3}
           /\ \A dir, c, at : IsTrail(fat, store, dir, c, at) => IsTrail(fat', store', dir, c, at)
           /\ Tidy(fat', store') => Tidy(fat, store)
<1>1. CASE WriteRefused(d, n, e, b)
  <2>1. UNCHANGED <<fat, store, fault>> /\ ret' \in {-1, 0, 1, 2, 3}
    BY <1>1, Codes DEF WriteRefused
  <2>2. ret' \in Int
    BY <2>1
  <2> QED BY <2>1, <2>2, KeptDisk
<1>2. CASE b = 0 /\ WriteFolder(d, n, e)
  <2>1. DiskOK' /\ (\E s, x, A : Adds(d, s, x, A))
    BY <1>2, WriteFolderDisk
  <2>2. ret' = 0
    BY <1>2 DEF WriteFolder
  <2> QED BY <2>1, <2>2, TrailGrows
<1>3. CASE WriteFile(d, n, e, b, v)
  <2>1. DiskOK' /\ (\E s, x, A : Adds(d, s, x, A))
    BY <1>3, WriteFileDisk
  <2>2. ret' = 0
    BY <1>3 DEF WriteFile
  <2> QED BY <2>1, <2>2, TrailGrows
<1> QED BY <1>1, <1>2, <1>3 DEF Write

\* A call of delete, refused or not, in the working directory.
LEMMA RemoveKeeps ==
    ASSUME DiskOK, NEW d \in Folders, NEW n, NEW e, n # NoName, Remove(d, n, e),
           fault' = "none", fault = "none",
           NEW dir \in Seq(TypedNames), NEW at, IsTrail(fat, store, dir, d, at)
    PROVE  DiskOK' /\ IsTrail(fat', store', dir, d, at)
<1>1. CASE DeleteRefused(d, n, e)
  <2>1. UNCHANGED <<fat, store, fault>> /\ ret' \in {-1, 0, 1, 2, 3}
    BY <1>1, Codes DEF DeleteRefused
  <2>2. ret' \in Int
    BY <2>1
  <2> QED BY <2>1, <2>2, KeptDisk
<1>2. CASE Delete(d, n, e)
  <2>1. DiskOK' /\ \E h, R : Removes(d, n, Min(Matches(store[d], n, e)), h, R)
    BY <1>2, DeleteDisk
  <2> QED BY <2>1, TrailShrinks
<1> QED BY <1>1, <1>2 DEF Remove

\* The name rm asks for is one.
LEMMA RmNames ==
    ASSUME NEW n \in TypedNames, request.name \in Seq(Letters)
    PROVE  RmName(n) \in Seq(Letters) /\ RmName(n) # NoName
<1>1. n \in Seq(Letters) /\ n # <<>> /\ NoName = <<>>
    BY Typed
<1>2. PICK o \in Seq(Letters) : o = request.name
    OBVIOUS
<1>3. CASE Len(n) >= Len(o)
    BY <1>1, <1>2, <1>3 DEF RmName, Overlay
<1>4. CASE ~(Len(n) >= Len(o))
  <2>1. RmName(n) = n \o SubSeq(o, Len(n) + 1, Len(o))
    BY <1>2, <1>4 DEF RmName, Overlay
  <2>2. SubSeq(o, Len(n) + 1, Len(o)) \in Seq(Letters)
    BY <1>1, <1>2, <1>4
  <2>3. Len(n) > 0
    BY <1>1
  <2>4. PICK u \in Seq(Letters) : RmName(n) = n \o u
    BY <2>1, <2>2
  <2>5. Len(n \o u) = Len(n) + Len(u)
    BY <1>1, <2>4
  <2>6. n \o u # <<>>
    BY <2>3, <2>5, <1>1, <2>4
  <2> QED BY <1>1, <2>4, <2>6
<1> QED BY <1>3, <1>4

-----------------------------------------------------------------------------
(* echo                                                                    *)

\* A read finds a file only in a folder, whatever cluster it is given.
LEMMA FoundInFolder ==
    ASSUME DiskOK, NEW d \in Clusters, NEW w, w # NoName, NEW x, NEW b, ReadCode(d, w, x, b) = 0
    PROVE  d \in Folders
<1> SUFFICES ASSUME d \notin Folders PROVE FALSE
    OBVIOUS
<1>1. /\ store[d] \in Tables /\ store[d][0].attr /\ Matches(store[d], w, x) # {}
      /\ ~Target(d, w, x).attr
    BY DEF ReadCode, IsFolder
<1>2. PICK i : i = Min(Matches(store[d], w, x))
    OBVIOUS
<1>3. i \in Slots /\ store[d][i].name = w
    BY <1>1, <1>2, MatchType
<1>4. i = 0
  <2>1. i > 0 => store[d][i].name = NoName
    BY <1>1, <1>3, SolidIs DEF DiskOK, DeadClean
  <2> QED BY <1>3, <2>1, Numbers
<1> QED BY <1>1, <1>2, <1>4 DEF Target

\* echo's delete of the file it has read frees a slot and a cluster for it.
LEMMA EchoDelete ==
    ASSUME DiskOK, NEW d \in Folders, NEW w, w # NoName, NEW x, NEW b,
           ReadCode(d, w, x, b) = 0, Remove(d, w, x)
    PROVE  /\ fault' = "none" /\ DiskOK' /\ d \in Folders'
           /\ \A dir \in Seq(TypedNames) : \A c, at :
                  IsTrail(fat, store, dir, c, at) => IsTrail(fat', store', dir, c, at)
           /\ Matches(store'[d], w, x) = {} /\ FreeSlots(store'[d]) # {} /\ Available' # {}
<1>1. Ordered /\ Solid
    BY DEF DiskOK, Ordered
<1>2. PICK i \in Used(d) :
          /\ store[d][i].name = w /\ store[d][i].ext = x /\ ~store[d][i].attr
          /\ Matches(store[d], w, x) = {i} /\ Min(Matches(store[d], w, x)) = i
  <2>1. Ordered
    BY <1>1
  <2>2. PICK i, m, v : Reads(d, w, x, b, i, m, v)
    BY <2>1, FileRead
  <2> QED BY <2>2 DEF Reads
<1>3. Delete(d, w, x)
  <2>1. IsFolder(d) /\ Matches(store[d], w, x) # {} /\ ~Target(d, w, x).attr
    BY <1>1, <1>2, FolderTable DEF Target
  <2>2. DeleteCode(d, w, x) = 0
    BY <2>1 DEF DeleteCode
  <2> QED BY <2>2 DEF Remove, DeleteRefused
<1>4. fault' = "none"
  <2>1. i # 0
    BY DEF Used
  <2> QED BY <1>2, <1>3, <2>1 DEF Delete
<1>5. DiskOK' /\ \E h, R : Removes(d, w, Min(Matches(store[d], w, x)), h, R)
    BY <1>3, <1>4, DeleteDisk
<1>6. PICK h, R : Removes(d, w, i, h, R)
    BY <1>2, <1>5
<1>7. h \notin Folders
  <2>1. store[d][i].cluster = h
    BY <1>6 DEF Removes
  <2>2. store[d][i].attr <=> h \in Folders
    BY <1>1, <2>1, Zenon DEF Solid, FoldersLinked
  <2> QED BY <1>2, <2>2
<1>8. d \in Folders'
    BY <1>6, <1>7 DEF Removes
<1>9. Matches(store'[d], w, x) = {}
  <2>1. ASSUME NEW j \in Slots, store'[d][j].name = w, store'[d][j].ext = x PROVE FALSE
    <3>1. j # i
      BY <1>6, <2>1 DEF Removes
    <3>2. store'[d][j] = store[d][j]
      BY <1>6, <3>1 DEF Removes
    <3>3. j \in Matches(store[d], w, x)
      BY <2>1, <3>2 DEF Matches
    <3> QED BY <1>2, <3>1, <3>3
  <2> QED BY <2>1 DEF Matches
<1>10. FreeSlots(store'[d]) # {}
  <2>1. i \in Slots /\ i > 0
    BY DEF Used
  <2> QED BY <1>6, <2>1 DEF Removes, FreeSlots
<1>11. Available' # {}
  <2>1. h \in Clusters /\ h >= 2 /\ fat'[h] = EMPTY
    BY <1>6 DEF Removes, Allocated
  <2> QED BY <2>1 DEF Available, EmptyClusters
<1>12. ASSUME NEW dir \in Seq(TypedNames), NEW c, NEW at, IsTrail(fat, store, dir, c, at)
       PROVE  IsTrail(fat', store', dir, c, at)
    BY <1>6, <1>7, <1>12, TrailShrinks
<1> QED BY <1>4, <1>5, <1>8, <1>9, <1>10, <1>11, <1>12

\* The write that follows finds them.
LEMMA RoomForOne ==
    ASSUME Ordered, NEW d \in Folders, NEW n, NEW e, Matches(store[d], n, e) = {}, Available # {}
    PROVE  WriteCode(d, n, e, ClusterSize) = 0
<1>1. IsFolder(d)
    BY FolderTable
<1>2. ceil_div(ClusterSize, ClusterSize) = 1
  <2>1. PICK C \in Nat : C = ClusterSize /\ C > 0
    BY Typed
  <2>2. C \div C = 1 /\ C % C = 0
    BY <2>1, SMT
  <2>3. ceil_div(ClusterSize, ClusterSize) = (C \div C) + (IF C % C # 0 THEN 1 ELSE 0)
    BY <2>1 DEF ceil_div
  <2> QED BY <2>2, <2>3
<1>3. Available \in SUBSET Clusters
    BY DEF Available, EmptyClusters
<1>4. Cardinality(Available) \in Nat /\ Cardinality(Available) # 0
  <2>1. IsFiniteSet(Available) /\ Cardinality(Available) \in Nat
    BY <1>3, Counted
  <2> QED BY <2>1, FS_EmptySet
<1>5. ~(Cardinality(Available) < ceil_div(ClusterSize, ClusterSize))
    BY <1>2, <1>4
<1> QED BY <1>1, <1>5, Zenon DEF WriteCode

-----------------------------------------------------------------------------
(* Every command preserves the invariant.                                  *)

\* What a command starts from.
LEMMA GoodNow ==
    ASSUME Good
    PROVE  /\ DiskOK /\ Ordered /\ TypeOK /\ cwd \in Folders /\ cwd \in Clusters /\ retcode \in Nat
           /\ current_dir \in Seq(TypedNames) /\ request \in Requests /\ job \in Jobs
           /\ \E at : IsTrail(fat, store, current_dir, cwd, at)
<1>1. PICK at : IsTrail(fat, store, current_dir, cwd, at)
    BY DEF Good, TrailOK
<1>2. current_dir \in Seq(TypedNames) /\ request \in Requests /\ job \in Jobs
    BY DEF Good, ShellTypeOK
<1>3. Len(current_dir) \in 0 .. Len(current_dir)
    BY <1>2
<1>4. cwd \in Folders
    BY <1>1, <1>3, SolidIs DEF IsTrail
<1>5. cwd \in Clusters
    BY <1>4 DEF Folders, Allocated
<1>6. DiskOK /\ retcode \in Nat
    BY DEF Good, RetOK
<1> QED BY <1>1, <1>2, <1>4, <1>5, <1>6 DEF DiskOK, Ordered

\* Which command is under way.
LEMMA JobKinds ==
    ASSUME job \in Jobs
    PROVE  /\ job.op = "cd" => job \in CdJobs
           /\ job.op = "echo" => job \in EchoJobs
           /\ job.op = "cp" => job \in CpJobs
           /\ job.op = "cp write" => job \in CpWriteJobs
           /\ job.op = "back" => job \in BackJobs
           /\ Prompt.op = "prompt"
<1>1. job \in CdJobs => job.op = "cd"
    BY DEF CdJobs
<1>2. job \in EchoJobs => job.op = "echo"
    BY DEF EchoJobs
<1>3. job \in CpJobs => job.op = "cp"
    BY DEF CpJobs
<1>4. job \in CpWriteJobs => job.op = "cp write"
    BY DEF CpWriteJobs
<1>5. job \in BackJobs => job.op = "back"
    BY DEF BackJobs
<1>6. Prompt.op = "prompt"
    BY DEF Prompt
<1>7. \/ job = Prompt \/ job \in CdJobs \/ job \in EchoJobs \/ job \in CpJobs
      \/ job \in CpWriteJobs \/ job \in BackJobs
    BY DEF Jobs
<1> QED BY <1>1, <1>2, <1>3, <1>4, <1>5, <1>6, <1>7

\* A command that is over at once and leaves the shell where it is.
LEMMA PromptGood ==
    ASSUME Good, job = Prompt, UNCHANGED <<cwd, current_dir, retcode, job>>, DiskOK',
           request' \in Requests, NEW at, IsTrail(fat', store', current_dir, cwd, at)
    PROVE  Good'
<1>1. job'.op = "prompt" /\ job.op = "prompt"
    BY DEF Prompt
<1>2. ShellTypeOK'
    BY DEF Good, ShellTypeOK
<1>3. TrailOK'
  <2>1. LeadsHome(fat', store', current_dir', job', at)
    BY <1>1 DEF LeadsHome
  <2> QED BY <2>1 DEF TrailOK
<1>4. RetOK'
    BY <1>1 DEF Good, RetOK
<1>5. EchoOK'
    BY <1>1 DEF EchoOK
<1> QED BY <1>2, <1>3, <1>4, <1>5 DEF Good

\* The same for a command that only looks.
LEMMA LookGood ==
    ASSUME Good, job = Prompt, UNCHANGED <<cwd, current_dir, retcode, job>>,
           UNCHANGED <<fat, store, fault>>, ret' \in Int, request' \in Requests
    PROVE  Good'
<1>1. DiskOK'
    BY GoodNow, KeptDisk
<1>2. PICK at : IsTrail(fat, store, current_dir, cwd, at)
    BY GoodNow
<1> QED BY <1>1, <1>2, PromptGood

\* The codes are integers.
LEMMA CodesInt ==
    /\ \A d, n, e, b : ReadCode(d, n, e, b) \in Int
    /\ \A d, n, e : ReadDirectoryCode(d, n, e) \in Int
<1>1. \A c \in {-1, 0, 1, 2, 3} : c \in Int
    OBVIOUS
<1> QED BY <1>1, Codes

\* mkdir
LEMMA MkdirGood ==
    ASSUME Good, fault = "none", fault' = "none", NEW n \in TypedNames, mkdir(n)
    PROVE  Good'
<1>1. job = Prompt /\ UNCHANGED <<cwd, current_dir, retcode, job>>
    BY DEF mkdir, AtPrompt
<1>2. request' \in Requests
    BY Typed DEF mkdir, Asks, Requests
<1>3. CASE \E v \in Values : Write(cwd, n, DirExt, 0, v)
  <2>1. PICK v \in Values : Write(cwd, n, DirExt, 0, v)
    BY <1>3
  <2>2. /\ DiskOK'
        /\ \A dir, c, at : IsTrail(fat, store, dir, c, at) => IsTrail(fat', store', dir, c, at)
    BY <2>1, GoodNow, Typed, WriteKeeps
  <2>3. PICK at : IsTrail(fat, store, current_dir, cwd, at)
    BY GoodNow
  <2> QED BY <1>1, <1>2, <2>2, <2>3, PromptGood
<1>4. CASE ReadDirectory(cwd, n, DirExt)
  <2>1. UNCHANGED <<fat, store, fault>> /\ ret' \in Int
    BY <1>4, CodesInt DEF ReadDirectory
  <2> QED BY <1>1, <1>2, <2>1, LookGood
<1> QED BY <1>3, <1>4 DEF mkdir

\* touch
LEMMA TouchGood ==
    ASSUME Good, fault = "none", fault' = "none", NEW n \in TypedNames, NEW e \in FileExts,
           touch(n, e)
    PROVE  Good'
<1>1. job = Prompt /\ UNCHANGED <<cwd, current_dir, retcode, job>>
    BY DEF touch, AtPrompt
<1>2. PICK w \in Unpadded(n) :
          /\ Asks(w, e)
          /\ \/ \E v \in Values : Write(cwd, w, e, ClusterSize, v)
             \/ Read(cwd, w, e, ClusterSize)
    BY DEF touch
<1>3. w \in Names /\ w \in Seq(Letters) /\ e \in Exts /\ ClusterSize \in Sizes
    BY Typed
<1>4. request' \in Requests
    BY <1>2, <1>3 DEF Asks, Requests
<1>5. CASE \E v \in Values : Write(cwd, w, e, ClusterSize, v)
  <2>1. PICK v \in Values : Write(cwd, w, e, ClusterSize, v)
    BY <1>5
  <2>2. /\ DiskOK'
        /\ \A dir, c, at : IsTrail(fat, store, dir, c, at) => IsTrail(fat', store', dir, c, at)
    BY <1>3, <2>1, GoodNow, WriteKeeps
  <2>3. PICK at : IsTrail(fat, store, current_dir, cwd, at)
    BY GoodNow
  <2> QED BY <1>1, <1>4, <2>2, <2>3, PromptGood
<1>6. CASE Read(cwd, w, e, ClusterSize)
  <2>1. UNCHANGED <<fat, store, fault>> /\ ret' \in Int
    BY <1>6, CodesInt DEF Read
  <2> QED BY <1>1, <1>4, <2>1, LookGood
<1> QED BY <1>2, <1>5, <1>6

\* cat, exec and find
LEMMA LooksGood ==
    ASSUME Good, fault = "none", NEW n \in TypedNames, NEW e \in FileExts \cup {NoExt},
           cat(n, e) \/ exec(n, e) \/ find(n)
    PROVE  Good'
<1>1. job = Prompt /\ UNCHANGED <<cwd, current_dir, retcode, job>>
    BY DEF cat, exec, find, AtPrompt
<1>2. UNCHANGED <<fat, store, fault>> /\ ret' \in Int
  <2>1. CASE cat(n, e)
    BY <2>1, CodesInt DEF cat, Read
  <2>2. CASE exec(n, e)
    BY <2>2, CodesInt DEF exec, Read
  <2>3. CASE find(n)
    BY <2>3, GoodNow DEF find, vars, TypeOK
  <2> QED BY <2>1, <2>2, <2>3
<1>3. request' \in Requests
  <2>1. n \in Seq(Letters) /\ e \in Exts /\ DirExt \in Exts /\ request \in Requests
    BY Typed, GoodNow
  <2> QED BY <2>1 DEF cat, exec, find, Asks, Requests
<1> QED BY <1>1, <1>2, <1>3, LookGood

\* rm
LEMMA RmGood ==
    ASSUME Good, fault = "none", fault' = "none", NEW n \in TypedNames,
           NEW e \in FileExts \cup {NoExt}, rm(n, e)
    PROVE  Good'
<1>1. job = Prompt /\ UNCHANGED <<cwd, current_dir, retcode, job>>
    BY DEF rm, AtPrompt
<1>2. e \in Exts /\ DirExt \in Exts /\ NoExt \in Exts /\ request \in Requests
    BY Typed, GoodNow
<1>3. RmName(n) \in Seq(Letters) /\ RmName(n) # NoName
    BY <1>2, RmNames DEF Requests
<1>4. RmExt(n, e) \in Exts \cup {JUNK}
  <2>1. ArgExt(n, e) \in Exts \cup {JUNK} /\ request.ext \in Exts \cup {JUNK}
    BY <1>2 DEF ArgExt, Requests
  <2> QED BY <1>2, <2>1, Zenon DEF RmExt
<1>5. request' \in Requests
    BY <1>3, <1>4 DEF rm, Asks, Requests
<1>6. PICK at : IsTrail(fat, store, current_dir, cwd, at)
    BY GoodNow
<1>7. DiskOK' /\ IsTrail(fat', store', current_dir, cwd, at)
  <2>1. Remove(cwd, RmName(n), RmExt(n, e))
    BY DEF rm
  <2> QED BY <1>3, <1>6, <2>1, GoodNow, RemoveKeeps
<1> QED BY <1>1, <1>5, <1>7, PromptGood

\* The cluster echo goes to is one.
LEMMA EchoFolderIs ==
    ASSUME cwd \in Clusters
    PROVE  EchoFolder \in Clusters
<1>1. PICK c \in Nat : c = cwd /\ c <= ClusterMapSize - 1 /\ ClusterMapSize \in Nat
    BY Numbers DEF Clusters
<1>2. PICK r \in Nat : r = c % ByteSize /\ r <= c
  <2>1. c % ByteSize \in 0 .. ByteSize - 1 /\ c % ByteSize <= c
    BY Bytes
  <2>2. ByteSize \in Nat
    BY Typed
  <2> QED BY <2>1, <2>2
<1>3. EchoFolder = c - r
    BY <1>1, <1>2 DEF EchoFolder
<1> QED BY <1>1, <1>2, <1>3 DEF Clusters

\* echo, up to its delete.
LEMMA EchoGood ==
    ASSUME Good, fault = "none", fault' = "none", NEW n \in TypedNames,
           NEW x \in FileExts \cup {NoExt, JUNK}, echo(n, x)
    PROVE  Good'
<1>1. job = Prompt /\ UNCHANGED <<cwd, current_dir, retcode>>
    BY DEF echo, AtPrompt
<1>2. PICK d : d = EchoFolder
    OBVIOUS
<1>3. d \in Clusters
    BY <1>2, GoodNow, EchoFolderIs
<1>4. PICK w \in Unpadded(n), v \in Values :
          /\ Asks(w, x)
          /\ IF Answer(ReadCode(d, w, x, ClusterSize)) \in EchoStops
             THEN Read(d, w, x, ClusterSize) /\ UNCHANGED job
             ELSE /\ Remove(d, w, x)
                  /\ job' = [op |-> "echo", found |-> ReadCode(d, w, x, ClusterSize) = 0,
                             content |-> IF ReadCode(d, w, x, ClusterSize) # 0 THEN v
                                         ELSE ReadClusters(d, w, x)[1][1]]
    BY <1>2 DEF echo
<1>5. w \in Names /\ w # NoName /\ w \in Seq(Letters) /\ x \in Exts \cup {JUNK}
    BY Typed
<1>6. request' \in Requests /\ request'.name = w /\ request'.ext = x
    BY <1>4, <1>5 DEF Asks, Requests
<1>7. PICK code : code = ReadCode(d, w, x, ClusterSize)
    OBVIOUS
<1>8. code \in {-1, 0, 1, 2, 3}
    BY <1>7, Codes
<1>9. retcode = 0
    BY <1>1, JobKinds, GoodNow DEF Good, RetOK
<1>10. Answer(code) = IF code = -1 THEN ByteSize - 1 ELSE code
    BY <1>8, <1>9, Answers, Typed
<1>11. PICK at : IsTrail(fat, store, current_dir, cwd, at)
    BY GoodNow
<1>12. CASE Answer(code) \in EchoStops
  <2>1. Read(d, w, x, ClusterSize) /\ UNCHANGED job
    BY <1>4, <1>7, <1>12
  <2>2. UNCHANGED <<fat, store, fault>> /\ ret' \in Int
    BY <2>1, CodesInt DEF Read
  <2> QED BY <1>1, <1>6, <2>1, <2>2, LookGood
<1>13. CASE Answer(code) \notin EchoStops
  <2>1. code \in {-1, 0}
    BY <1>8, <1>10, <1>13 DEF EchoStops
  <2>2. Remove(d, w, x) /\ EchoFolder' = d
    BY <1>1, <1>2, <1>4, <1>7, <1>13 DEF EchoFolder
  <2>3. /\ job'.op = "echo" /\ (job'.found <=> code = 0)
        /\ job' = [op |-> "echo", found |-> code = 0,
                   content |-> IF code # 0 THEN v ELSE ReadClusters(d, w, x)[1][1]]
    <3>1. job' = [op |-> "echo", found |-> code = 0,
                  content |-> IF code # 0 THEN v ELSE ReadClusters(d, w, x)[1][1]]
      BY <1>4, <1>7, <1>13, Zenon
    <3>2. PICK f, g : /\ f \in BOOLEAN /\ f = (code = 0)
                      /\ job' = [op |-> "echo", found |-> f, content |-> g]
      BY <3>1, Zenon
    <3>3. job'.op = "echo" /\ job'.found = f
      BY <3>2
    <3> QED BY <3>1, <3>2, <3>3, Zenon
  <2>4. TrailOK' <=> \E t : IsTrail(fat', store', current_dir, cwd, t)
    BY <1>1, <2>3 DEF TrailOK, LeadsHome
  <2>5. RetOK'
    BY <1>1, <1>9, <2>3 DEF RetOK
  <2>6. CASE code = 0
    <3>1. d \in Folders
      BY <1>3, <1>5, <1>7, <2>6, GoodNow, FoundInFolder
    <3>2. /\ DiskOK' /\ d \in Folders'
          /\ IsTrail(fat', store', current_dir, cwd, at)
          /\ Matches(store'[d], w, x) = {} /\ FreeSlots(store'[d]) # {} /\ Available' # {}
      BY <1>5, <1>7, <1>11, <2>2, <2>6, <3>1, GoodNow, EchoDelete
    <3>3. PICK i, m, u : Reads(d, w, x, ClusterSize, i, m, u)
      BY <1>5, <1>7, <2>6, <3>1, GoodNow, FileRead
    <3>4. x \in Exts
      <4>1. i \in Slots /\ store[d][i].ext = x
        BY <3>3 DEF Reads, Used
      <4>2. store[d] \in Tables
        BY <3>1 DEF Folders
      <4> QED BY <4>1, <4>2 DEF Tables, Entry
    <3>5. ReadClusters(d, w, x)[1][1] \in Values
      <4>1. m \in 1 .. ClusterMapSize /\ u \in Values /\ ReadClusters(d, w, x) = [k \in 1 .. m |-> <<u, k>>]
        BY <3>3 DEF Reads
      <4>2. 1 \in 1 .. m
        BY <4>1, Numbers
      <4>3. ReadClusters(d, w, x)[1] = <<u, 1>>
        BY <4>1, <4>2
      <4> QED BY <4>1, <4>3
    <3>6. job' \in EchoJobs
      BY <2>3, <2>6, <3>5 DEF EchoJobs
    <3>7. ShellTypeOK'
      BY <1>1, <1>6, <3>6, GoodNow DEF ShellTypeOK, Jobs
    <3>8. EchoOK'
      BY <1>5, <1>6, <2>2, <2>3, <2>6, <3>2, <3>4 DEF EchoOK
    <3> QED BY <2>4, <2>5, <3>2, <3>7, <3>8 DEF Good
  <2>7. CASE code = -1
    <3>1. ~IsFolder(d)
      BY <1>7, <2>7 DEF ReadCode
    <3>2. DeleteCode(d, w, x) = -1
      BY <3>1 DEF DeleteCode
    <3>3. UNCHANGED <<fat, store, fault>> /\ ret' \in Int
      BY <2>2, <3>2 DEF Remove, DeleteRefused, Delete
    <3>4. DiskOK'
      BY <3>3, GoodNow, KeptDisk
    <3>5. IsTrail(fat', store', current_dir, cwd, at)
      BY <1>11, <3>3
    <3>6. job' \in EchoJobs
      BY <2>3, <2>7 DEF EchoJobs
    <3>7. ShellTypeOK'
      BY <1>1, <1>6, <3>6, GoodNow DEF ShellTypeOK, Jobs
    <3>8. EchoOK'
      BY <2>2, <2>3, <2>7, <3>1, <3>3 DEF EchoOK, IsFolder
    <3> QED BY <2>4, <2>5, <3>4, <3>5, <3>7, <3>8 DEF Good
  <2> QED BY <2>1, <2>6, <2>7
<1> QED BY <1>12, <1>13

\* echo's write, and what EchoKeepsFile says of it.
LEMMA EchoWriteGood ==
    ASSUME Good, fault = "none", EchoWrite
    PROVE  /\ Good' /\ fault' = "none"
           /\ IF job.found THEN ret' = 0 ELSE UNCHANGED <<fat, store>>
<1>1. /\ job \in EchoJobs /\ job' = Prompt /\ UNCHANGED <<cwd, current_dir, request, retcode>>
      /\ Write(EchoFolder, request.name, request.ext, ClusterSize, job.content)
    BY GoodNow, JobKinds DEF EchoWrite
<1>2. PICK d, n, e, v : d = EchoFolder /\ n = request.name /\ e = request.ext /\ v = job.content
    OBVIOUS
<1>3. v \in Values /\ ClusterSize \in Sizes /\ ClusterSize # 0 /\ job.op = "echo"
    BY <1>1, <1>2, Typed DEF EchoJobs
<1>4. PICK at : IsTrail(fat, store, current_dir, cwd, at)
    BY GoodNow
<1>5. ASSUME DiskOK', IsTrail(fat', store', current_dir, cwd, at) PROVE Good'
  <2>1. job'.op = "prompt"
    BY <1>1 DEF Prompt
  <2>2. ShellTypeOK'
    BY <1>1, GoodNow DEF ShellTypeOK, Jobs
  <2>3. TrailOK'
    BY <1>1, <1>5, <2>1 DEF TrailOK, LeadsHome
  <2>4. RetOK'
    BY <1>1, <1>3, <2>1 DEF Good, RetOK
  <2>5. EchoOK'
    BY <2>1 DEF EchoOK
  <2> QED BY <1>5, <2>2, <2>3, <2>4, <2>5 DEF Good
<1>6. CASE job.found
  <2>1. /\ d \in Folders /\ n \in Names /\ e \in Exts /\ Matches(store[d], n, e) = {}
        /\ FreeSlots(store[d]) # {} /\ Available # {}
    BY <1>2, <1>3, <1>6 DEF Good, EchoOK
  <2>2. WriteCode(d, n, e, ClusterSize) = 0
    BY <2>1, GoodNow, RoomForOne
  <2>3. WriteFile(d, n, e, ClusterSize, v)
    BY <1>1, <1>2, <1>3, <2>2 DEF Write, WriteRefused
  <2>4. fault' = "none" /\ ret' = 0
    BY <2>1, <2>3 DEF WriteFile
  <2>5. /\ DiskOK'
        /\ \A dir, c, t : IsTrail(fat, store, dir, c, t) => IsTrail(fat', store', dir, c, t)
    BY <1>1, <1>2, <1>3, <2>1, <2>4, GoodNow, WriteKeeps
  <2> QED BY <1>4, <1>5, <1>6, <2>4, <2>5
<1>7. CASE ~job.found
  <2>1. ~IsFolder(d)
    BY <1>2, <1>3, <1>7 DEF Good, EchoOK
  <2>2. WriteCode(d, n, e, ClusterSize) = -1
    BY <2>1 DEF WriteCode
  <2>3. UNCHANGED <<fat, store, fault>> /\ ret' \in Int
    BY <1>1, <1>2, <1>3, <2>2 DEF Write, WriteRefused, WriteFile
  <2>4. DiskOK'
    BY <2>3, GoodNow, KeptDisk
  <2> QED BY <1>4, <1>5, <1>7, <2>3, <2>4
<1> QED BY <1>6, <1>7

\* A typed path is a sequence of names.
LEMMA PathIs ==
    ASSUME NEW S, NEW path \in Paths(S)
    PROVE  path \in Seq(S) \ {<<>>}
<1>1. PICK k \in 1 .. MaxPath : path \in [1 .. k -> S]
    BY DEF Paths
<1>2. k \in Nat /\ k > 0
    BY <1>1, ShellAssumption
<1>3. path \in Seq(S) /\ Len(path) = k
    BY <1>1, <1>2
<1> QED BY <1>2, <1>3

\* cd, when it is entered.
LEMMA CdCommandGood ==
    ASSUME Good, fault = "none", NEW path \in Paths(TypedNames \cup {DOTDOT}), CdCommand(path)
    PROVE  Good'
<1>1. /\ job' = [op |-> "cd", rest |-> path]
      /\ UNCHANGED <<fat, store, fault, ret, cwd, current_dir, request, retcode>>
    BY DEF CdCommand, vars
<1>2. job'.op = "cd" /\ job' \in CdJobs
    BY <1>1, PathIs DEF CdJobs
<1>3. DiskOK'
    BY <1>1, GoodNow, KeptDisk DEF TypeOK
<1>4. ShellTypeOK'
    BY <1>1, <1>2, GoodNow DEF ShellTypeOK, Jobs
<1>5. PICK at : IsTrail(fat, store, current_dir, cwd, at)
    BY GoodNow
<1>6. TrailOK'
    BY <1>1, <1>2, <1>5 DEF TrailOK, LeadsHome
<1>7. RetOK' /\ EchoOK'
    BY <1>1, <1>2, GoodNow DEF RetOK, EchoOK
<1> QED BY <1>3, <1>4, <1>6, <1>7 DEF Good

\* The end of cd and of cp: main resets retcode.
LEMMA EndGood ==
    ASSUME Good, fault = "none", job' = Prompt, retcode' = 0,
           UNCHANGED <<vars, cwd, current_dir, request>>
    PROVE  Good'
<1>1. UNCHANGED <<fat, store, fault, ret>>
    BY DEF vars
<1>2. job'.op = "prompt" /\ job' \in Jobs
    BY DEF Prompt, Jobs
<1>3. DiskOK'
    BY <1>1, GoodNow, KeptDisk DEF TypeOK
<1>4. ShellTypeOK'
    BY <1>2, GoodNow DEF ShellTypeOK
<1>5. PICK at : IsTrail(fat, store, current_dir, cwd, at)
    BY GoodNow
<1>6. TrailOK'
    BY <1>1, <1>2, <1>5 DEF TrailOK, LeadsHome
<1>7. RetOK' /\ EchoOK'
    BY <1>2 DEF RetOK, EchoOK
<1> QED BY <1>3, <1>4, <1>6, <1>7 DEF Good

\* One component of the path of cd.
LEMMA CdStepGood ==
    ASSUME Good, fault = "none", CdStep
    PROVE  Good'
<1>1. job \in CdJobs
    BY GoodNow, JobKinds DEF CdStep
<1>2. CASE job.rest = <<>> /\ job' = Prompt /\ retcode' = 0 /\ UNCHANGED <<vars, cwd, current_dir, request>>
    BY <1>2, EndGood
<1>3. CASE Len(job.rest) > 0 /\ cd(Head(job.rest)) /\ job' = [job EXCEPT !.rest = Tail(@)]
  <2>1. PICK p : p = job.rest
    OBVIOUS
  <2>2. p \in Seq(TypedNames \cup {DOTDOT}) /\ Len(p) > 0
    BY <1>1, <1>3, <2>1 DEF CdJobs
  <2>3. PICK n : n = Head(p)
    OBVIOUS
  <2>4. n \in TypedNames \cup {DOTDOT} /\ Tail(p) \in Seq(TypedNames \cup {DOTDOT})
    BY <2>2, <2>3
  <2>5. job'.op = "cd" /\ job' \in CdJobs
    BY <1>1, <1>3, <2>1, <2>4 DEF CdJobs
  <2>6. PICK at : IsTrail(fat, store, current_dir, cwd, at)
    BY GoodNow
  <2>7. /\ DiskOK' /\ UNCHANGED <<fat, store, fault>> /\ retcode' \in Nat
        /\ current_dir' \in Seq(TypedNames) /\ request' \in Requests
        /\ \E t : IsTrail(fat, store, current_dir', cwd', t)
    <3>1. CASE n = DOTDOT
      <4>1. CdUp /\ UNCHANGED request
        BY <1>3, <2>1, <2>3, <3>1 DEF cd
      <4> QED BY <2>6, <4>1, GoodNow, CdUpMoves
    <3>2. CASE n # DOTDOT
      <4>1. CdDown(n) /\ Asks(n, DirExt) /\ n \in TypedNames
        BY <1>3, <2>1, <2>3, <2>4, <3>2 DEF cd
      <4>2. request' \in Requests
        BY <4>1, Typed DEF Asks, Requests
      <4> QED BY <2>6, <4>1, <4>2, GoodNow, CdDownMoves
    <3> QED BY <3>1, <3>2
  <2>8. ShellTypeOK'
    BY <2>5, <2>7 DEF ShellTypeOK, Jobs
  <2>9. TrailOK'
    BY <2>5, <2>7 DEF TrailOK, LeadsHome
  <2>10. RetOK' /\ EchoOK'
    BY <2>5, <2>7 DEF RetOK, EchoOK
  <2> QED BY <2>7, <2>8, <2>9, <2>10 DEF Good
<1> QED BY <1>2, <1>3 DEF CdStep

\* cp, when it is entered: its source is read.
LEMMA CpReadGood ==
    ASSUME Good, fault = "none", NEW n \in TypedNames, NEW e \in FileExts, NEW found,
           CpRead(n, e, found)
    PROVE  /\ job = Prompt /\ DiskOK' /\ UNCHANGED <<fat, store, fault, cwd, current_dir, retcode>>
           /\ ret' \in Int /\ request' \in Requests
           /\ found => copied'[1][1] \in Values
<1>1. /\ job = Prompt /\ UNCHANGED <<fat, store, fault, cwd, current_dir, retcode>>
      /\ Asks(n, e) /\ ret' = ReadCode(cwd, n, e, ClusterSize)
      /\ copied' = IF ReadCode(cwd, n, e, ClusterSize) = 0 THEN ReadClusters(cwd, n, e) ELSE <<>>
      /\ found <=> Answer(ReadCode(cwd, n, e, ClusterSize)) = 0
    BY DEF CpRead, AtPrompt, Read
<1>2. ret' \in Int
    BY <1>1, CodesInt
<1>3. DiskOK'
    BY <1>1, <1>2, GoodNow, KeptDisk
<1>4. n \in Seq(Letters) /\ n # NoName /\ e \in Exts
    BY Typed
<1>5. request' \in Requests
    BY <1>1, <1>4 DEF Asks, Requests
<1>6. ASSUME found PROVE copied'[1][1] \in Values
  <2>1. ReadCode(cwd, n, e, ClusterSize) = 0
    BY <1>1, <1>6, Codes, GoodNow, Answers
  <2>2. PICK i, m, u : Reads(cwd, n, e, ClusterSize, i, m, u)
    BY <1>4, <2>1, GoodNow, FileRead
  <2>3. m \in 1 .. ClusterMapSize /\ u \in Values /\ copied' = [k \in 1 .. m |-> <<u, k>>]
    BY <1>1, <2>1, <2>2 DEF Reads
  <2>4. 1 \in 1 .. m
    BY <2>3, Numbers
  <2>5. copied'[1] = <<u, 1>>
    BY <2>3, <2>4
  <2> QED BY <2>3, <2>5
<1> QED BY <1>1, <1>2, <1>3, <1>5, <1>6

\* A cp of nothing.
LEMMA CpRefusedGood ==
    ASSUME Good, fault = "none", NEW n \in TypedNames, NEW e \in FileExts, CpRefused(n, e)
    PROVE  Good'
<1>1. CpRead(n, e, FALSE) /\ UNCHANGED job
    BY DEF CpRefused
<1>2. /\ job = Prompt /\ UNCHANGED <<fat, store, fault, cwd, current_dir, retcode>>
      /\ ret' \in Int /\ request' \in Requests
    BY <1>1, CpReadGood
<1> QED BY <1>1, <1>2, LookGood

\* cp has nothing to take back yet.
LEMMA CpStartGood ==
    ASSUME Good, fault = "none", NEW n \in TypedNames, NEW e \in FileExts, CpRead(n, e, TRUE),
           job' \in CpJobs \cup CpWriteJobs, job'.count = 0, job'.home = cwd
    PROVE  Good'
<1>1. /\ job = Prompt /\ DiskOK' /\ UNCHANGED <<fat, store, fault, cwd, current_dir, retcode>>
      /\ request' \in Requests
    BY CpReadGood
<1>2. ShellTypeOK'
    BY <1>1, GoodNow DEF ShellTypeOK, Jobs
<1>3. PICK at : IsTrail(fat, store, current_dir, cwd, at)
    BY GoodNow
<1>4. TrailOK'
  <2>1. PICK m \in Nat : m = Len(current_dir)
    BY GoodNow
  <2>2. at[m] = cwd /\ m - 0 = m /\ 0 <= m
    BY <1>3, <2>1 DEF IsTrail
  <2>3. LeadsHome(fat', store', current_dir', job', at)
    BY <1>1, <2>1, <2>2 DEF LeadsHome
  <2> QED BY <1>1, <1>3, <2>3 DEF TrailOK
<1>5. retcode = 0 /\ ByteSize > 4 /\ ByteSize \in Nat
    BY <1>1, JobKinds, GoodNow, Typed DEF Good, RetOK
<1>6. job'.op \in {"cp", "cp write"}
    BY DEF CpJobs, CpWriteJobs
<1>7. RetOK' /\ EchoOK'
  <2>1. retcode' = 0 /\ 0 < ByteSize
    BY <1>1, <1>5
  <2>2. RetOK'
    BY <2>1, <1>6 DEF RetOK
  <2>3. job'.op # "echo"
    BY <1>6
  <2> QED BY <2>2, <2>3 DEF EchoOK
<1> QED BY <1>1, <1>2, <1>4, <1>7 DEF Good

\* cp to a name.
LEMMA CpToFileGood ==
    ASSUME Good, fault = "none", NEW n \in TypedNames, NEW e \in FileExts,
           NEW target \in TypedNames, NEW x \in FileExts, CpToFile(n, e, target, x)
    PROVE  Good'
<1>1. /\ CpRead(n, e, TRUE)
      /\ job' = [op |-> "cp write", name |-> target, ext |-> x, count |-> 0,
                 content |-> copied'[1][1], home |-> cwd]
    BY DEF CpToFile
<1>2. copied'[1][1] \in Values /\ cwd \in Clusters
    BY <1>1, GoodNow, CpReadGood
<1>3. job' \in CpWriteJobs /\ job'.count = 0 /\ job'.home = cwd
    BY <1>1, <1>2 DEF CpWriteJobs
<1> QED BY <1>1, <1>3, CpStartGood

\* cp along a path.
LEMMA CpToPathGood ==
    ASSUME Good, fault = "none", NEW n \in TypedNames, NEW e \in FileExts,
           NEW path \in Paths(TypedNames \ {DOTDOT}), CpToPath(n, e, path)
    PROVE  Good'
<1>1. /\ CpRead(n, e, TRUE)
      /\ job' = [op |-> "cp", name |-> n, ext |-> e, rest |-> path, count |-> 0,
                 content |-> copied'[1][1], home |-> cwd]
    BY DEF CpToPath
<1>2. copied'[1][1] \in Values /\ cwd \in Clusters
    BY <1>1, GoodNow, CpReadGood
<1>3. path \in Seq(TypedNames \ {DOTDOT}) \ {<<>>}
    BY PathIs
<1>4. job' \in CpJobs /\ job'.count = 0 /\ job'.home = cwd
    BY <1>1, <1>2, <1>3 DEF CpJobs
<1> QED BY <1>1, <1>4, CpStartGood

\* One component of the path of cp: a move is counted, a failure is not.
LEMMA CpWalkGood ==
    ASSUME Good, fault = "none", CpWalk
    PROVE  Good'
<1>1. job \in CpJobs /\ job.op = "cp"
    BY GoodNow, JobKinds DEF CpWalk
<1>2. PICK p : p = job.rest
    OBVIOUS
<1>3. p \in Seq(TypedNames \ {DOTDOT}) /\ p # <<>>
    BY <1>1, <1>2 DEF CpJobs
<1>4. PICK n : n = Head(p)
    OBVIOUS
<1>5. n \in TypedNames /\ n # DOTDOT /\ Tail(p) \in Seq(TypedNames \ {DOTDOT})
    BY <1>3, <1>4
<1>6. CdDown(n) /\ Asks(n, DirExt)
    BY <1>2, <1>4, <1>5 DEF CpWalk, cd
<1>7. PICK at : /\ IsTrail(fat, store, current_dir, cwd, at)
                /\ LeadsHome(fat, store, current_dir, job, at)
    BY DEF Good, TrailOK
<1>8. /\ DiskOK' /\ UNCHANGED <<fat, store, fault>>
      /\ current_dir' \in Seq(TypedNames) /\ retcode' \in Nat
      /\ Tidy(fat, store) /\ retcode < ByteSize => retcode' < ByteSize
      /\ \E t : /\ IsTrail(fat, store, current_dir', cwd', t)
                /\ \A k \in 0 .. Len(current_dir) : t[k] = at[k]
                /\ \/ Len(current_dir') = Len(current_dir) + 1 /\ retcode' # 2
                   \/ /\ Len(current_dir') = Len(current_dir)
                      /\ Tidy(fat, store) /\ retcode < ByteSize => retcode' = 2
    BY <1>5, <1>6, <1>7, GoodNow, CdDownMoves
<1>9. request' \in Requests
    BY <1>5, <1>6, Typed DEF Asks, Requests
<1>10. PICK t : /\ IsTrail(fat, store, current_dir', cwd', t)
                /\ \A k \in 0 .. Len(current_dir) : t[k] = at[k]
                /\ \/ Len(current_dir') = Len(current_dir) + 1 /\ retcode' # 2
                   \/ /\ Len(current_dir') = Len(current_dir)
                      /\ Tidy(fat, store) /\ retcode < ByteSize => retcode' = 2
    BY <1>8
<1>11. PICK c \in Nat, h \in Clusters, m \in Nat, m2 \in Nat :
           c = job.count /\ h = job.home /\ m = Len(current_dir) /\ m2 = Len(current_dir')
    BY <1>1, <1>8, GoodNow DEF CpJobs
<1>12. Tidy(fat, store) => retcode < ByteSize /\ c <= m /\ at[m - c] = h
    BY <1>1, <1>7, <1>11 DEF Good, RetOK, LeadsHome
<1>13. PICK q : q = Count(retcode')
    OBVIOUS
<1>14. q = (IF retcode' = 2 THEN c ELSE c + 1) /\ q \in Nat
    BY <1>11, <1>13 DEF Count
<1>15. Tidy(fat, store) => q <= m2 /\ t[m2 - q] = h
  <2> SUFFICES ASSUME Tidy(fat, store) PROVE q <= m2 /\ t[m2 - q] = h
    OBVIOUS
  <2>1. retcode < ByteSize /\ c <= m /\ at[m - c] = h /\ m - c \in 0 .. m
    BY <1>11, <1>12
  <2>2. t[m - c] = h
    BY <1>10, <1>11, <2>1
  <2>3. m2 - q = m - c /\ q <= m2
    BY <1>10, <1>11, <1>14, <2>1, SMTT(40)
  <2> QED BY <2>2, <2>3
<1>16. ASSUME job' \in CpJobs \cup CpWriteJobs \cup BackJobs, job'.count = q, job'.home = h
       PROVE  Good'
  <2>1. ShellTypeOK'
    BY <1>8, <1>9, <1>16 DEF ShellTypeOK, Jobs
  <2>2. TrailOK'
    <3>1. LeadsHome(fat', store', current_dir', job', t)
      BY <1>8, <1>11, <1>15, <1>16 DEF LeadsHome
    <3> QED BY <1>8, <1>10, <3>1 DEF TrailOK
  <2>3. job'.op \in {"cp", "cp write", "back"}
    BY <1>16 DEF CpJobs, CpWriteJobs, BackJobs
  <2>4. Tidy(fat', store') => retcode' < ByteSize
    BY <1>8, <1>12
  <2>5. RetOK'
    BY <1>8, <2>3, <2>4 DEF RetOK
  <2>6. EchoOK'
    <3>1. job'.op # "echo"
      BY <2>3
    <3> QED BY <3>1 DEF EchoOK
  <2> QED BY <1>8, <2>1, <2>2, <2>5, <2>6 DEF Good
<1>17. CASE retcode' = 2
  <2>1. job' = [op |-> "back", count |-> q, home |-> h]
    BY <1>11, <1>13, <1>17 DEF CpWalk
  <2>2. job' \in BackJobs /\ job'.count = q /\ job'.home = h
    BY <1>14, <2>1 DEF BackJobs
  <2> QED BY <1>16, <2>2
<1>18. CASE retcode' # 2 /\ Len(p) > 1
  <2>1. job' = [job EXCEPT !.rest = Tail(p), !.count = q]
    BY <1>2, <1>13, <1>18 DEF CpWalk
  <2>2. Tail(p) # <<>>
    <3>1. PICK k \in Nat : k = Len(p) /\ k > 1
      BY <1>3, <1>18
    <3>2. Len(Tail(p)) = Len(p) - 1
      BY <1>3
    <3>3. PICK r \in Seq(TypedNames \ {DOTDOT}) : r = Tail(p)
      BY <1>5
    <3>4. Len(r) = k - 1
      BY <3>1, <3>2, <3>3
    <3>5. r # <<>>
      BY <3>1, <3>4
    <3> QED BY <3>3, <3>5, Zenon
  <2>3. job' \in CpJobs /\ job'.count = q /\ job'.home = h
    BY <1>1, <1>5, <1>11, <1>14, <2>1, <2>2 DEF CpJobs
  <2> QED BY <1>16, <2>3
<1>19. CASE retcode' # 2 /\ ~(Len(p) > 1)
  <2>1. job' = [op |-> "cp write", name |-> job.name, ext |-> job.ext,
                count |-> q, content |-> job.content, home |-> h]
    BY <1>2, <1>11, <1>13, <1>19 DEF CpWalk
  <2>2. job' \in CpWriteJobs /\ job'.count = q /\ job'.home = h
    BY <1>1, <1>14, <2>1 DEF CpJobs, CpWriteJobs
  <2> QED BY <1>16, <2>2
<1> QED BY <1>17, <1>18, <1>19

\* cp's write.
LEMMA CpWriteGood ==
    ASSUME Good, fault = "none", fault' = "none", CpWrite
    PROVE  Good'
<1>1. job \in CpWriteJobs /\ job.op = "cp write"
    BY GoodNow, JobKinds DEF CpWrite
<1>2. /\ Asks(job.name, job.ext) /\ Write(cwd, job.name, job.ext, ClusterSize, job.content)
      /\ retcode' = Answer(ret') /\ UNCHANGED <<cwd, current_dir>>
      /\ job' = [op |-> "back", count |-> job.count, home |-> job.home]
    BY DEF CpWrite
<1>3. PICK n \in TypedNames, e \in FileExts, v \in Values :
          n = job.name /\ e = job.ext /\ v = job.content
    BY <1>1 DEF CpWriteJobs
<1>4. n \in Names /\ n \in Seq(Letters) /\ e \in Exts /\ ClusterSize \in Sizes
    BY Typed
<1>5. /\ DiskOK' /\ ret' \in {-1, 0, 1, 2, 3}
      /\ \A dir, c, at : IsTrail(fat, store, dir, c, at) => IsTrail(fat', store', dir, c, at)
      /\ Tidy(fat', store') => Tidy(fat, store)
  <2>1. Write(cwd, n, e, ClusterSize, v)
    BY <1>2, <1>3
  <2> QED BY <1>4, <2>1, GoodNow, WriteKeeps
<1>6. request' \in Requests
    BY <1>2, <1>3, <1>4 DEF Asks, Requests
<1>7. job' \in BackJobs /\ job'.op = "back" /\ job'.count = job.count /\ job'.home = job.home
    BY <1>1, <1>2 DEF CpWriteJobs, BackJobs
<1>8. ShellTypeOK'
    BY <1>2, <1>6, <1>7, GoodNow DEF ShellTypeOK, Jobs
<1>9. TrailOK'
  <2>1. PICK at : /\ IsTrail(fat, store, current_dir, cwd, at)
                  /\ LeadsHome(fat, store, current_dir, job, at)
    BY DEF Good, TrailOK
  <2>2. LeadsHome(fat', store', current_dir', job', at)
    BY <1>1, <1>2, <1>5, <1>7, <2>1 DEF LeadsHome
  <2> QED BY <1>2, <1>5, <2>1, <2>2 DEF TrailOK
<1>10. retcode' \in Nat
    BY <1>2, <1>5, GoodNow, Answers
<1>11. RetOK' /\ EchoOK'
    BY <1>7, <1>10 DEF RetOK, EchoOK
<1> QED BY <1>5, <1>8, <1>9, <1>11 DEF Good

\* One step of cp's way back.
LEMMA CpBackGood ==
    ASSUME Good, fault = "none", CpBack
    PROVE  Good'
<1>1. job \in BackJobs /\ job.op = "back"
    BY GoodNow, JobKinds DEF CpBack
<1>2. CASE job.count = 0 /\ job' = Prompt /\ retcode' = 0 /\ UNCHANGED <<vars, cwd, current_dir, request>>
    BY <1>2, EndGood
<1>3. CASE job.count > 0 /\ cd(DOTDOT) /\ job' = [job EXCEPT !.count = @ - 1]
  <2>1. CdUp /\ UNCHANGED request
    BY <1>3 DEF cd
  <2>2. PICK at : /\ IsTrail(fat, store, current_dir, cwd, at)
                  /\ LeadsHome(fat, store, current_dir, job, at)
    BY DEF Good, TrailOK
  <2>3. /\ DiskOK' /\ UNCHANGED <<fat, store, fault>>
        /\ current_dir' \in Seq(TypedNames) /\ retcode' \in Nat
        /\ \E t : /\ IsTrail(fat, store, current_dir', cwd', t)
                  /\ \A k \in 0 .. Len(current_dir') : t[k] = at[k]
                  /\ Len(current_dir') = IF Len(current_dir) = 0 THEN 0 ELSE Len(current_dir) - 1
    BY <2>1, <2>2, GoodNow, CdUpMoves
  <2>4. PICK t : /\ IsTrail(fat, store, current_dir', cwd', t)
                 /\ \A k \in 0 .. Len(current_dir') : t[k] = at[k]
                 /\ Len(current_dir') = IF Len(current_dir) = 0 THEN 0 ELSE Len(current_dir) - 1
    BY <2>3
  <2>5. PICK c \in Nat, m \in Nat, m2 \in Nat :
            c = job.count /\ m = Len(current_dir) /\ m2 = Len(current_dir')
    BY <1>1, <2>3, GoodNow DEF BackJobs
  <2>6. job' \in BackJobs /\ job'.op = "back" /\ job'.count = c - 1 /\ job'.home = job.home
    BY <1>1, <1>3, <2>5 DEF BackJobs
  <2>7. Tidy(fat, store) => c - 1 <= m2 /\ t[m2 - (c - 1)] = job.home
    <3> SUFFICES ASSUME Tidy(fat, store) PROVE c - 1 <= m2 /\ t[m2 - (c - 1)] = job.home
      OBVIOUS
    <3>1. c <= m /\ at[m - c] = job.home /\ c > 0
      BY <1>1, <1>3, <2>2, <2>5 DEF LeadsHome
    <3>2. m2 = m - 1 /\ m2 - (c - 1) = m - c /\ m - c \in 0 .. m2 /\ c - 1 <= m2
      BY <2>4, <2>5, <3>1
    <3>3. t[m - c] = at[m - c]
      BY <2>4, <2>5, <3>2
    <3> QED BY <3>1, <3>2, <3>3
  <2>8. ShellTypeOK'
    BY <2>1, <2>3, <2>6, GoodNow DEF ShellTypeOK, Jobs
  <2>9. TrailOK'
    <3>1. LeadsHome(fat', store', current_dir', job', t)
      BY <2>3, <2>5, <2>6, <2>7 DEF LeadsHome
    <3> QED BY <2>3, <2>4, <3>1 DEF TrailOK
  <2>10. RetOK' /\ EchoOK'
    BY <2>3, <2>6 DEF RetOK, EchoOK
  <2> QED BY <2>3, <2>8, <2>9, <2>10 DEF Good
<1> QED BY <1>2, <1>3 DEF CpBack

-----------------------------------------------------------------------------
(* The theorems.                                                           *)

\* The first prompt.
LEMMA InitShell == ShellInit => ShellInv
<1> SUFFICES ASSUME ShellInit PROVE Good
    BY DEF ShellInv
<1>1. Init /\ cwd = ROOT /\ current_dir = <<>> /\ retcode = 0 /\ job = Prompt
      /\ request = [name |-> BannerName, ext |-> BannerExt]
    BY DEF ShellInit
<1>2. fat = InitFat /\ store = InitStore
    BY <1>1 DEF Init
<1>3. Ordered
    BY <1>1, InitOrdered
<1>4. DeadClean(fat, store)
  <2> SUFFICES ASSUME NEW c \in Clusters \ FoldersIn(fat, store), store[c] \in Tables,
                      NEW i \in Slots, i > 0
               PROVE  store[c][i].name = NoName
    BY DEF DeadClean
  <2>1. c # 0
    BY <1>2, ShellAssumption DEF InitStore
  <2>2. ROOT \in Folders
    BY <1>3 DEF Ordered, Solid, FoldersLinked
  <2>3. c # ROOT
    BY <2>2, SolidIs
  <2>4. store[c] = ZeroTable
    BY <1>2, <2>1, <2>3 DEF InitStore
  <2> QED BY <2>4 DEF ZeroTable, ZeroEntry
<1>5. job.op = "prompt" /\ job \in Jobs
    BY <1>1 DEF Prompt, Jobs
<1>6. ShellTypeOK
  <2>1. request \in Requests
    BY <1>1, ShellAssumption DEF Requests, Letters
  <2> QED BY <1>1, <1>5, <2>1 DEF ShellTypeOK
<1>7. TrailOK
  <2>1. PICK at : at = [k \in 0 .. 0 |-> ROOT]
    OBVIOUS
  <2>2. ROOT \in FoldersIn(fat, store)
    BY <1>3, SolidIs DEF Ordered, Solid, FoldersLinked
  <2>3. Len(current_dir) = 0
    BY <1>1
  <2>4. IsTrail(fat, store, current_dir, cwd, at)
    BY <1>1, <2>1, <2>2, <2>3 DEF IsTrail
  <2>5. LeadsHome(fat, store, current_dir, job, at)
    BY <1>5 DEF LeadsHome
  <2> QED BY <2>4, <2>5 DEF TrailOK
<1>8. RetOK /\ EchoOK
    BY <1>1, <1>5 DEF RetOK, EchoOK
<1> QED BY <1>3, <1>4, <1>6, <1>7, <1>8 DEF Good, DiskOK

\* Every step.
LEMMA NextShell == ShellInv /\ [ShellNext]_allVars => ShellInv'
<1> SUFFICES ASSUME ShellInv, [ShellNext]_allVars, fault' = "none" PROVE Good'
    BY DEF ShellInv
<1>1. CASE UNCHANGED allVars
  <2>1. UNCHANGED <<fat, store, ret, fault, cwd, current_dir, request, retcode, job>>
    BY <1>1 DEF allVars, vars, shellVars
  <2>2. Good
    BY <2>1 DEF ShellInv
  <2>3. DiskOK'
    BY <2>1, <2>2, GoodNow, KeptDisk DEF TypeOK
  <2>4. ShellTypeOK'
    BY <2>1, <2>2 DEF Good, ShellTypeOK
  <2>5. TrailOK'
    BY <2>1, <2>2 DEF Good, TrailOK
  <2>6. RetOK'
    BY <2>1, <2>2 DEF Good, RetOK
  <2>7. EchoOK'
    BY <2>1, <2>2 DEF Good, EchoOK, EchoFolder, Folders, Allocated, Available, EmptyClusters, IsFolder
  <2> QED BY <2>3, <2>4, <2>5, <2>6, <2>7 DEF Good
<1>2. CASE Stopped /\ UNCHANGED shellVars
    BY <1>2 DEF Stopped, vars
<1>3. CASE Command
  <2>1. fault = "none" /\ Good
    BY <1>3, ZenonT(60) DEF Command, AtPrompt, CdCommand, mkdir, find, cat, rm, echo, touch, exec,
              CpRefused, CpToFile, CpToPath, CpRead, ShellInv
  <2>2. CASE \E path \in Paths(TypedNames \cup {DOTDOT}) : CdCommand(path)
    BY <2>1, <2>2, CdCommandGood
  <2>3. ASSUME NEW n \in TypedNames,
               mkdir(n) \/ find(n) \/ cat(n, NoExt) \/ rm(n, NoExt)
        PROVE  Good'
    BY <2>1, <2>3, MkdirGood, LooksGood, RmGood
  <2>4. ASSUME NEW n \in TypedNames, NEW x \in FileExts \cup {NoExt, JUNK}, echo(n, x)
        PROVE  Good'
    BY <2>1, <2>4, EchoGood
  <2>5. ASSUME NEW n \in TypedNames, NEW e \in FileExts,
               touch(n, e) \/ cat(n, e) \/ exec(n, e) \/ rm(n, e) \/ CpRefused(n, e)
        PROVE  Good'
    BY <2>1, <2>5, TouchGood, LooksGood, RmGood, CpRefusedGood
  <2>6. ASSUME NEW n \in TypedNames, NEW e \in FileExts, NEW m \in TypedNames, NEW x \in FileExts,
               CpToFile(n, e, m, x)
        PROVE  Good'
    BY <2>1, <2>6, CpToFileGood
  <2>7. ASSUME NEW n \in TypedNames, NEW e \in FileExts, NEW path \in Paths(TypedNames \ {DOTDOT}),
               CpToPath(n, e, path)
        PROVE  Good'
    BY <2>1, <2>7, CpToPathGood
  <2> QED BY <1>3, <2>2, <2>3, <2>4, <2>5, <2>6, <2>7 DEF Command
<1>4. CASE Continue
  <2>1. fault = "none" /\ Good
    BY <1>4 DEF Continue, ShellInv
  <2> QED BY <1>4, <2>1, CdStepGood, EchoWriteGood, CpWalkGood, CpWriteGood, CpBackGood DEF Continue
<1> QED BY <1>1, <1>2, <1>3, <1>4 DEF ShellNext

\* The inductive invariant holds of every execution.
LEMMA AlwaysShell == ShellSpec => []ShellInv
<1> QED BY InitShell, NextShell, PTL DEF ShellSpec

\* The directory shown in the prompt is the working directory: through every
\* sequence of cd, mkdir, rm, cp, touch and echo, the names shown lead from the
\* root to cwd_cluster_number.
THEOREM PromptTrue == ShellSpec => []PromptIsTrue
<1>1. ShellInv => PromptIsTrue
  <2> SUFFICES ASSUME Good PROVE Reached(current_dir) = cwd /\ cwd \in Folders
    BY DEF ShellInv, PromptIsTrue
  <2>1. PICK at : IsTrail(fat, store, current_dir, cwd, at)
    BY GoodNow
  <2>2. Reached(current_dir) = cwd
    BY <2>1, GoodNow, ReachedIs
  <2> QED BY <2>2, GoodNow
<1> QED BY <1>1, AlwaysShell, PTL

\* A step that ends a command is one of Continue.
LEMMA EndsContinue ==
    ASSUME ShellInv, [ShellNext]_allVars, job.op \in {"back", "echo"}, job' = Prompt
    PROVE  /\ fault = "none" /\ Good
           /\ job.op = "echo" => EchoWrite
           /\ job.op = "back" => job.count = 0 /\ UNCHANGED <<fat, store, cwd>>
<1>1. Prompt.op = "prompt"
    BY DEF Prompt
<1>2. job # Prompt /\ job' # job
    BY <1>1
<1>3. ~UNCHANGED allVars /\ ~UNCHANGED shellVars
    BY <1>2 DEF allVars, shellVars
<1>4. ~Command
    BY <1>2, ZenonT(60) DEF Command, AtPrompt, CdCommand, mkdir, find, cat, rm, echo, touch, exec,
             CpRefused, CpToFile, CpToPath, CpRead
<1>5. Continue
    BY <1>3, <1>4 DEF ShellNext
<1>6. fault = "none" /\ Good
    BY <1>5 DEF Continue, ShellInv
<1>7. ASSUME job.op = "back" PROVE job.count = 0 /\ UNCHANGED <<fat, store, cwd>>
  <2>1. CpBack
    BY <1>5, <1>7 DEF Continue, CdStep, EchoWrite, CpWalk, CpWrite
  <2>2. job \in BackJobs
    BY <1>6, <1>7, GoodNow, JobKinds
  <2>3. job' # [job EXCEPT !.count = @ - 1]
    <3>1. [job EXCEPT !.count = @ - 1].op = "back"
      BY <1>7, <2>2 DEF BackJobs
    <3> QED BY <1>1, <3>1
  <2> QED BY <2>1, <2>3 DEF CpBack, vars
<1>8. job.op = "echo" => EchoWrite
    BY <1>5 DEF Continue, CdStep, CpBack, CpWalk, CpWrite
<1> QED BY <1>6, <1>7, <1>8

\* cp ends in the folder where it was entered, whatever its path: it takes back
\* the moves it made, neither more nor fewer.
THEOREM CpTakesBack == ShellSpec => CpReturns
<1>1. ASSUME ShellInv, [ShellNext]_allVars
      PROVE  [ /\ job.op = "back" /\ job' = Prompt
               /\ \A c \in Folders : c < ByteSize
               /\ \A c \in Folders : \A i \in Used(c) :
                      store[c][i].ext = DirExt => store[c][i].attr
               => cwd' = job.home ]_allVars
  <2> SUFFICES ASSUME job.op = "back", job' = Prompt, \A c \in Folders : c < ByteSize,
                      \A c \in Folders : \A i \in Used(c) : store[c][i].ext = DirExt => store[c][i].attr
               PROVE  cwd' = job.home
    OBVIOUS
  <2>1. Good /\ job.count = 0 /\ UNCHANGED cwd
    BY <1>1, EndsContinue
  <2>2. Tidy(fat, store)
    BY SolidIs DEF Tidy
  <2>3. PICK at : /\ IsTrail(fat, store, current_dir, cwd, at)
                  /\ LeadsHome(fat, store, current_dir, job, at)
    BY <2>1 DEF Good, TrailOK
  <2>4. Len(current_dir) - 0 = Len(current_dir)
    BY <2>1, GoodNow
  <2> QED BY <2>1, <2>2, <2>3, <2>4 DEF LeadsHome, IsTrail
<1> QED BY <1>1, AlwaysShell, PTL DEF ShellSpec, CpReturns

\* echo never loses the file it rewrites: after its delete the write succeeds,
\* and an echo that found none changes nothing.
THEOREM EchoKeeps == ShellSpec => EchoKeepsFile
<1>1. ASSUME ShellInv, [ShellNext]_allVars
      PROVE  [ job.op = "echo" /\ job' = Prompt =>
                   /\ fault' = "none"
                   /\ IF job.found THEN ret' = 0 ELSE UNCHANGED <<fat, store>> ]_allVars
  <2> SUFFICES ASSUME job.op = "echo", job' = Prompt
               PROVE  /\ fault' = "none"
                      /\ IF job.found THEN ret' = 0 ELSE UNCHANGED <<fat, store>>
    OBVIOUS
  <2>1. fault = "none" /\ Good /\ EchoWrite
    BY <1>1, EndsContinue
  <2> QED BY <2>1, EchoWriteGood
<1> QED BY <1>1, AlwaysShell, PTL DEF ShellSpec, EchoKeepsFile
=============================================================================
