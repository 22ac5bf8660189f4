----------------------------- MODULE FAT32Crash -----------------------------
(***************************************************************************)
(* The driver over a disk that can lose power. An operation of FAT32       *)
(* computes its result in memory and then writes clusters one at a time    *)
(* (new contents, the parent's table, the FAT last and in blocks); power   *)
(* can go between any two writes, and the next boot runs                   *)
(* initialize_filesystem_fat32 on what the disk then holds. fat and store  *)
(* are the driver's view, disk and dfat the platters'.                     *)
(*                                                                         *)
(* While the machine is off, external-inserter.c runs the same driver on a *)
(* copy of the image in the host's memory and saves the copy as a whole.   *)
(***************************************************************************)
EXTENDS FAT32

CONSTANT FatBlock      \* FAT entries in one disk block

ASSUME CrashAssumption == FatBlock \in Nat \ {0} /\ SIGNATURE # ZeroTable

VARIABLES
    disk,     \* cluster number -> what the disk holds (cluster 1 is dfat)
    dfat,     \* the FAT on disk
    io,       \* writes the running operation still has to make
    op,       \* the operation those writes belong to
    power,    \* "on", "off", or "host": off while the inserter runs
    wreck     \* what an interrupted operation left, "none" if nothing

cvars == <<vars, disk, dfat, io, op, power, wreck>>
-----------------------------------------------------------------------------
ClusterWrite(c) == <<"cluster", c>>
FatWrites ==
    [i \in 1 .. ((ClusterMapSize - 1) \div FatBlock) + 1 |-> <<"fat", i - 1>>]

RootTable == init_directory_table(RootName, ROOT)

\* The makefile creates the disk image filled with zeros.
CrashInit ==
    /\ disk = [c \in Clusters |-> ZeroTable]
    /\ dfat = [c \in Clusters |-> 0]
    /\ fat = dfat /\ store = disk
    /\ ret = 0 /\ copied = <<>> /\ fault = "none"
    /\ io = <<>> /\ op = "none" /\ power = "off" /\ wreck = "none"

\* initialize_filesystem_fat32; the signature is the first thing
\* create_fat32 writes and the root's table the last.
IsEmptyStorage == disk[0] # SIGNATURE

BootFormat ==
    /\ power = "off" /\ IsEmptyStorage /\ fault = "none"
    /\ fat' = InitFat
    /\ store' = [disk EXCEPT ![0] = SIGNATURE, ![ROOT] = RootTable]
    /\ io' = <<ClusterWrite(0)>> \o FatWrites \o <<ClusterWrite(ROOT)>>
    /\ op' = "format" /\ power' = "on"
    /\ UNCHANGED <<ret, copied, fault, disk, dfat, wreck>>

\* Mutant: the FAT is not read at boot.
BootMountBlank ==
    /\ power = "off" /\ ~IsEmptyStorage /\ fault = "none"
    /\ power' = "on"
    /\ UNCHANGED <<fat, store, ret, copied, fault, disk, dfat, io, op, wreck>>

BootMount ==
    /\ power = "off" /\ ~IsEmptyStorage /\ fault = "none"
    /\ fat' = dfat
    /\ power' = "on"
    /\ UNCHANGED <<store, ret, copied, fault, disk, dfat, io, op, wreck>>

\* Calls are made one after the other, on an image whose last write was not
\* torn: a dangling entry sends the driver's walks out of its tables.
Ready == power = "on" /\ io = <<>> /\ fault = "none" /\ wreck # "torn"

Submit(o, writes) ==
    /\ io' = writes /\ op' = o
    /\ UNCHANGED <<disk, dfat, power, wreck>>

\* empty_clusters lists free clusters from the lowest on.
InOrder(S) == {A \in [1 .. Cardinality(S) -> S] : \A i, j \in DOMAIN A : i < j => A[i] < A[j]}

SubmitWriteFolder(d, n, e) ==
    /\ Ready /\ WriteFolder(d, n, e)
    /\ Submit("write", <<ClusterWrite(EmptyCluster), ClusterWrite(d)>> \o FatWrites)

\* Mutant: the contents are written last.
SubmitWriteFileDataLast(d, n, e, b, v) ==
    /\ Ready /\ WriteFile(d, n, e, b, v)
    /\ \E A \in InOrder(LowestEmpty(ceil_div(b, ClusterSize))) :
           Submit("write", <<ClusterWrite(d)>> \o FatWrites
                           \o [i \in DOMAIN A |-> ClusterWrite(A[i])])

SubmitWriteFile(d, n, e, b, v) ==
    /\ Ready /\ WriteFile(d, n, e, b, v)
    /\ \E A \in InOrder(LowestEmpty(ceil_div(b, ClusterSize))) :
           Submit("write", [i \in DOMAIN A |-> ClusterWrite(A[i])]
                           \o <<ClusterWrite(d)>> \o FatWrites)

\* Mutants: the FAT is written before the table, and not at all.
SubmitDeleteFatFirst(d, n, e) ==
    /\ Ready /\ Delete(d, n, e)
    /\ Submit("delete", FatWrites \o <<ClusterWrite(d)>>)
SubmitDeleteNoFat(d, n, e) ==
    /\ Ready /\ Delete(d, n, e)
    /\ Submit("delete", <<ClusterWrite(d)>>)

SubmitDelete(d, n, e) ==
    /\ Ready /\ Delete(d, n, e)
    /\ Submit("delete", <<ClusterWrite(d)>> \o FatWrites)

\* Operations that return without writing.
SubmitNothing(d, n, e, b) ==
    /\ Ready
    /\ WriteRefused(d, n, e, b) \/ DeleteRefused(d, n, e) \/ Read(d, n, e, b)
    /\ Submit("none", <<>>)

\* One cluster or FAT block reaches the disk. Memory does not change while
\* writes are outstanding, so what is written is what the driver holds.
Flush ==
    /\ power = "on" /\ io # <<>>
    /\ LET w == Head(io)
       IN  IF w[1] = "cluster"
           THEN disk' = [disk EXCEPT ![w[2]] = store[w[2]]] /\ UNCHANGED dfat
           ELSE /\ dfat' = [c \in Clusters |-> IF c \div FatBlock = w[2]
                                               THEN fat[c] ELSE dfat[c]]
                /\ UNCHANGED disk
    /\ io' = Tail(io)
    /\ op' = IF Len(io) = 1 THEN "none" ELSE op
    /\ UNCHANGED <<vars, power, wreck>>

\* Power is lost. The table an operation updates is on disk once only FAT
\* blocks are outstanding.
TableOnDisk == io # <<>> /\ \A i \in DOMAIN io : io[i][1] = "fat"

Wreck ==
    CASE op = "write" /\ TableOnDisk -> "torn"
      [] op = "delete" /\ TableOnDisk -> "leak"
      [] op = "format" /\ Head(io) # ClusterWrite(0) -> "half formatted"
      [] OTHER -> wreck

Crash ==
    /\ power = "on"
    /\ power' = "off" /\ wreck' = Wreck
    /\ fat' = [c \in Clusters |-> 0] /\ store' = disk
    /\ io' = <<>> /\ op' = "none"
    /\ UNCHANGED <<ret, copied, fault, disk, dfat>>

-----------------------------------------------------------------------------
(* The inserter: initialize_filesystem_fat32, one write, and the save.     *)

\* Like a call of the shell, not on an image whose last write was torn.
InsertLoad ==
    /\ power = "off" /\ fault = "none" /\ wreck # "torn"
    /\ power' = "host"
    /\ IF IsEmptyStorage
       THEN /\ fat' = InitFat
            /\ store' = [disk EXCEPT ![0] = SIGNATURE, ![ROOT] = RootTable]
       ELSE fat' = dfat /\ UNCHANGED store
    /\ UNCHANGED <<ret, copied, fault, disk, dfat, io, op, wreck>>

\* A host file that is missing or empty has size 0 and becomes a folder.
InsertWrite(d, n, e, b, v) ==
    /\ power = "host" /\ op = "none" /\ fault = "none"
    /\ \/ WriteRefused(d, n, e, b)
       \/ b = 0 /\ WriteFolder(d, n, e)
       \/ WriteFile(d, n, e, b, v)
    /\ op' = "insert"
    /\ UNCHANGED <<disk, dfat, io, power, wreck>>

InsertSave ==
    /\ power = "host" /\ op = "insert" /\ fault = "none"
    /\ disk' = store /\ dfat' = fat
    /\ fat' = [c \in Clusters |-> 0]
    /\ op' = "none" /\ power' = "off"
    /\ UNCHANGED <<store, ret, copied, fault, io, wreck>>

Insert ==
    \/ InsertLoad \/ InsertSave
    \/ \E d \in Parents, n \in Names, e \in Exts, b \in Sizes, v \in Values :
           InsertWrite(d, n, e, b, v)
-----------------------------------------------------------------------------
Calls ==
    \E d \in Parents, n \in Names, e \in Exts :
        \/ SubmitWriteFolder(d, n, e)
        \/ SubmitDelete(d, n, e)
        \/ \E b \in Sizes : \/ SubmitNothing(d, n, e, b)
                            \/ \E v \in Values : SubmitWriteFile(d, n, e, b, v)

CrashStopped == fault # "none" /\ UNCHANGED cvars

CrashNext ==
    BootFormat \/ BootMount \/ Calls \/ Flush \/ Crash \/ Insert \/ CrashStopped

CrashSpec == CrashInit /\ [][CrashNext]_cvars
-----------------------------------------------------------------------------
(* Properties.                                                             *)

\* Mounted: what a call made now would find.
Mounted == power = "on" /\ io = <<>> /\ fault = "none"

\* A crash during delete, at whatever write, and any number of them, only
\* leaks clusters: write hands out clusters in ascending order and FAT blocks
\* are written in ascending order, so a half-written FAT frees a prefix of
\* the chain and no entry in use ever names, or leads to, a free cluster.
CrashConsistent ==
    Mounted /\ wreck \in {"none", "leak"} =>
        /\ ReservedKept /\ ChainsTerminate /\ NoCrossLinks
        /\ EntriesOwnChains /\ FoldersLinked /\ FreeSlotsNameless
        /\ wreck = "none" => NoLeak

\* Entries in use whose chain meets a free cluster.
Dangling ==
    {x \in Folders \X Slots : /\ x[2] \in Used(x[1])
                              /\ \E y \in Chain(store[x[1]][x[2]].cluster) :
                                     fat[y] = EMPTY}

\* A crash during write costs at most the entry being written: no other entry
\* dangles and no two chains meet.
TornWriteIsLocal ==
    Mounted /\ wreck = "torn" => /\ Cardinality(Dangling) <= 1
                                 /\ NoCrossLinks /\ ReservedKept

\* Contents reach the disk before the entry that names them: a file whose
\* chain is complete on disk reads back as it was written, also after a crash.
CompleteFilesWhole ==
    Mounted =>
        \A c \in Folders : \A i \in Used(c) :
            LET f == store[c][i]
                w == Walk(f.cluster)
            IN  ~f.attr /\ <<c, i>> \notin Dangling
                => /\ Len(w) = ceil_div(f.filesize, ClusterSize)
                   /\ \E v \in Values : \A k \in 1 .. Len(w) : store[w[k]] = <<v, k>>

\* No write in flight touches a cluster that the FAT on disk gives to a file:
\* the freed clusters write reuses are free on disk too.
CommittedUntouched ==
    [][fault' = "none" => \A c \in Clusters :
           (c >= 2 /\ dfat[c] # EMPTY /\ disk[c] \in Pieces) => disk'[c] = disk[c]]_cvars

\* create_fat32 writes the signature first: a disk whose formatting was cut
\* short is taken for a formatted one at every later boot, and no operation
\* ever changes it again.
HalfFormattedForGood ==
    [][wreck = "half formatted" => UNCHANGED <<disk, dfat, wreck>>]_cvars
=============================================================================
