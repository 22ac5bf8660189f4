------------------------------- MODULE FAT32 -------------------------------
(***************************************************************************)
(* The FAT32 driver of fat32.c as its callers see it: the cached file      *)
(* allocation table and the clusters of the disk, changed by write and     *)
(* delete and consulted by read, read_directory and the two moves of cd.   *)
(* System calls run behind an interrupt gate, so an operation is one step; *)
(* FAT32Crash splits the same operations into their disk writes.           *)
(*                                                                         *)
(* Three requests make the driver fall through a search that found         *)
(* nothing (no free cluster for a directory, no free slot in a directory,  *)
(* the root's own entry deleted). `fault' records the first one, and the   *)
(* model stops there: what follows is computed from tables that are no     *)
(* longer the driver's.                                                    *)
(***************************************************************************)
EXTENDS Integers, Sequences, FiniteSets, FiniteSetsExt

CONSTANTS
    ClusterMapSize,   \* CLUSTER_MAP_SIZE: entries of the allocation table
    DirSize,          \* entries of a directory table
    ClusterSize,      \* CLUSTER_SIZE in bytes
    Names, Exts,      \* names and extensions callers use
    NoName, NoExt,    \* the all-zero name and extension
    DirExt,           \* "dir", the extension cd looks for
    RootName,         \* the name create_fat32 gives the root table
    Values,           \* what a caller's buffer can hold
    Sizes,            \* buffer sizes callers ask for
    SIGNATURE         \* fs_signature, in the boot sector

ASSUME ConstantsAssumption ==
    /\ ClusterMapSize \in Nat /\ ClusterMapSize > 3
    /\ DirSize \in Nat /\ DirSize > 1
    /\ ClusterSize \in Nat /\ ClusterSize > 0
    /\ NoName \notin Names /\ RootName # NoName
    /\ NoExt \in Exts /\ DirExt \in Exts /\ DirExt # NoExt
    /\ Sizes \subseteq Nat

VARIABLES
    fat,      \* driver_state.fat_table.cluster_map
    store,    \* cluster number -> what the cluster holds; cluster 1 is kept
              \* as fat
    ret,      \* return code of the last call (cluster number for the moves)
    copied,   \* clusters the last read copied to its caller's buffer
    fault     \* the first fall-through, or "none"

vars == <<fat, store, ret, copied, fault>>
-----------------------------------------------------------------------------
Clusters == 0 .. ClusterMapSize - 1
Slots == 0 .. DirSize - 1

EMPTY == 0                        \* FAT32_FAT_EMPTY_ENTRY
EOF == -1                         \* FAT32_FAT_END_OF_FILE = CLUSTER_1_VALUE
CLUSTER_0_VALUE == -2
ROOT == 2                         \* ROOT_CLUSTER_NUMBER
FatValues == Clusters \cup {EOF, CLUSTER_0_VALUE}

\* attr is "attribute = ATTR_SUBDIRECTORY", used is "user_attribute =
\* UATTR_NOT_EMPTY", cluster is cluster_high:cluster_low.
Entry == [name : Names \cup {NoName, RootName}, ext : Exts, attr : BOOLEAN,
          used : BOOLEAN, cluster : Clusters, filesize : Nat]
ZeroEntry == [name |-> NoName, ext |-> NoExt, attr |-> FALSE,
              used |-> FALSE, cluster |-> 0, filesize |-> 0]
Tables == [Slots -> Entry]
ZeroTable == [i \in Slots |-> ZeroEntry]

\* The i-th cluster's worth of a caller's buffer holding v.
Pieces == Values \X (1 .. ClusterMapSize)
Contents == Tables \cup Pieces \cup {SIGNATURE}

init_directory_table(name, parent) ==
    [ZeroTable EXCEPT ![0] = [ZeroEntry EXCEPT !.name = name, !.attr = TRUE,
                                        !.used = TRUE, !.cluster = parent]]

\* create_fat32 on a blank disk.
InitFat == [c \in Clusters |-> CASE c = 0 -> CLUSTER_0_VALUE
                                 [] c = 1 -> EOF
                                 [] c = ROOT -> EOF
                                 [] OTHER -> EMPTY]
InitStore == [c \in Clusters |-> CASE c = 0 -> SIGNATURE
                                   [] c = ROOT -> init_directory_table(RootName, ROOT)
                                   [] OTHER -> ZeroTable]

Init ==
    /\ fat = InitFat
    /\ store = InitStore
    /\ ret = 0
    /\ copied = <<>>
    /\ fault = "none"
-----------------------------------------------------------------------------
(* What the operations compute from the tables.                            *)

\* Mutant: any table passes for a folder.
IsFolderUnchecked(c) == store[c] \in Tables

\* The test every operation starts with, on the table of the parent cluster.
IsFolder(c) == store[c] \in Tables /\ store[c][0].attr

\* Mutant: the extension is not compared.
MatchesName(t, n, e) == {i \in Slots : t[i].name = n}

\* The entries the search loops stop at; user_attribute is not consulted.
Matches(t, n, e) == {i \in Slots : t[i].name = n /\ t[i].ext = e}

ceil_div(a, b) == (a \div b) + (IF a % b # 0 THEN 1 ELSE 0)

\* Mutant: the last cluster of a file passes for a free one.
EmptyOrLast == {c \in Clusters : fat[c] = EMPTY \/ (fat[c] = EOF /\ c > ROOT)}

EmptyClusters == {c \in Clusters : fat[c] = EMPTY}
Available == {c \in EmptyClusters : c >= 2}
EmptyCluster == IF Available = {} THEN 0 ELSE Min(Available)

\* Mutants: the list is read from its second element, and a file's clusters
\* are taken to be contiguous.
SecondEmpty(k) ==
    {c \in EmptyClusters : Cardinality({d \in EmptyClusters : d < c}) \in 1 .. k}
LinkContiguous(A, c) == c + 1

\* empty_clusters[0 .. k-1], and the link the loop stores for one of them.
LowestEmpty(k) ==
    {c \in EmptyClusters : Cardinality({d \in EmptyClusters : d < c}) < k}
Link(A, c) == IF \A d \in A : d <= c THEN EOF ELSE Min({d \in A : d > c})

\* new_entry_idx: the first unused slot from 1 on, 0 when there is none.
FreeSlots(t) == {i \in Slots : i > 0 /\ ~t[i].used}
NewEntryIdx(t) == IF FreeSlots(t) = {} THEN 0 ELSE Min(FreeSlots(t))

\* Mutant: only the first cluster is visited.
ChainHead(c) == {c}

\* The clusters a do-while over cluster_map visits from c: the least set
\* that contains c and, with a cluster, its successor.
Closed(S) == \A y \in S : fat[y] \in Clusters => fat[y] \in S
Chain(c) == {x \in Clusters : \A S \in SUBSET Clusters :
                                  (c \in S /\ Closed(S)) => x \in S}

\* The same walk in the order it is made.
Walk(c) ==
    LET at[i \in 1 .. ClusterMapSize] ==
            IF i = 1 THEN c
            ELSE IF at[i - 1] \in Clusters THEN fat[at[i - 1]] ELSE EOF
        length == Cardinality({i \in DOMAIN at : at[i] \in Clusters})
    IN  SubSeq(at, 1, length)

Allocated == {c \in Clusters : c >= 2 /\ fat[c] # EMPTY}
Folders == {c \in Allocated : store[c] \in Tables}
Used(c) == {i \in Slots : i > 0 /\ store[c][i].used}

\* Parents a request may name: what a caller gets by moving from the root.
Parents == {ROOT} \cup {c \in Clusters : \E d \in Folders : \E i \in Used(d) :
                                           store[d][i].cluster = c}
-----------------------------------------------------------------------------
(* write                                                                   *)

\* Mutant: an existing entry does not stop write.
WriteCodeUnchecked(d, n, e, b) ==
    IF ~IsFolder(d) THEN -1
    ELSE IF Cardinality(Available) < ceil_div(b, ClusterSize) THEN -1
    ELSE 0

WriteCode(d, n, e, b) ==
    IF ~IsFolder(d) THEN -1
    ELSE IF Matches(store[d], n, e) # {} THEN 1
    ELSE IF Cardinality(Available) < ceil_div(b, ClusterSize) THEN -1
    ELSE 0

NewEntry(n, e, b) ==
    [name |-> n, ext |-> e, attr |-> (b = 0), used |-> TRUE,
     cluster |-> EmptyCluster, filesize |-> b]

\* The parent's table with the new entry in it.
WithEntry(d, n, e, b) ==
    [store[d] EXCEPT ![NewEntryIdx(store[d])] = NewEntry(n, e, b)]

WriteRefused(d, n, e, b) ==
    /\ WriteCode(d, n, e, b) # 0
    /\ ret' = WriteCode(d, n, e, b)
    /\ copied' = <<>>
    /\ UNCHANGED <<fat, store, fault>>

WriteFolder(d, n, e) ==
    /\ WriteCode(d, n, e, 0) = 0
    /\ fat' = [fat EXCEPT ![EmptyCluster] = EOF]
    /\ store' = [store EXCEPT ![EmptyCluster] = init_directory_table(n, d),
                              ![d] = WithEntry(d, n, e, 0)]
    /\ ret' = 0
    /\ copied' = <<>>
    /\ fault' = CASE Available = {} -> "mkdir without a cluster"
                  [] FreeSlots(store[d]) = {} -> "directory full"
                  [] OTHER -> "none"

WriteFile(d, n, e, b, v) ==
    LET A == LowestEmpty(ceil_div(b, ClusterSize))
        Piece(c) == <<v, Cardinality({x \in A : x <= c})>>
    IN  /\ b > 0
        /\ WriteCode(d, n, e, b) = 0
        /\ fat' = [c \in Clusters |-> IF c \in A THEN Link(A, c) ELSE fat[c]]
        /\ store' = [c \in Clusters |->
                        IF c = d THEN WithEntry(d, n, e, b)
                        ELSE IF c \in A THEN Piece(c) ELSE store[c]]
        /\ ret' = 0
        /\ copied' = <<>>
        /\ fault' = IF FreeSlots(store[d]) = {} THEN "directory full" ELSE "none"
-----------------------------------------------------------------------------
(* delete                                                                  *)

Target(d, n, e) == store[d][Min(Matches(store[d], n, e))]

\* The folder test of delete: entry 0 of the target's table is not counted.
HoldsEntries(c) == store[c] \in Tables /\ \E i \in Slots : i > 0 /\ store[c][i].used

DeleteCode(d, n, e) ==
    IF ~IsFolder(d) THEN -1
    ELSE IF Matches(store[d], n, e) = {} THEN 1
    ELSE IF Target(d, n, e).attr /\ HoldsEntries(Target(d, n, e).cluster) THEN 2
    ELSE 0

DeleteRefused(d, n, e) ==
    /\ DeleteCode(d, n, e) # 0
    /\ ret' = DeleteCode(d, n, e)
    /\ copied' = <<>>
    /\ UNCHANGED <<fat, store, fault>>

\* attribute, cluster number and filesize of the entry stay behind.
Delete(d, n, e) ==
    LET i == Min(Matches(store[d], n, e))
        R == Chain(store[d][i].cluster)
    IN  /\ DeleteCode(d, n, e) = 0
        /\ fat' = [c \in Clusters |-> IF c \in R THEN EMPTY ELSE fat[c]]
        /\ store' = [store EXCEPT ![d][i].used = FALSE,
                                  ![d][i].name = NoName, ![d][i].ext = NoExt]
        /\ ret' = 0
        /\ copied' = <<>>
        /\ fault' = IF i = 0 THEN "own entry deleted" ELSE "none"
-----------------------------------------------------------------------------
(* The operations that only look.                                          *)

ReadCode(d, n, e, b) ==
    IF ~IsFolder(d) THEN -1
    ELSE IF Matches(store[d], n, e) = {} THEN 3
    ELSE IF Target(d, n, e).attr THEN 1
    ELSE IF b < Target(d, n, e).filesize THEN 2
    ELSE 0

\* What read puts in the caller's buffer, cluster by cluster.
ReadClusters(d, n, e) ==
    LET w == Walk(Target(d, n, e).cluster)
    IN  [i \in 1 .. Len(w) |-> store[w[i]]]

Read(d, n, e, b) ==
    /\ ret' = ReadCode(d, n, e, b)
    /\ copied' = IF ReadCode(d, n, e, b) = 0 THEN ReadClusters(d, n, e) ELSE <<>>
    /\ UNCHANGED <<fat, store, fault>>

ReadDirectoryCode(d, n, e) ==
    IF ~IsFolder(d) THEN -1
    ELSE IF Matches(store[d], n, e) = {} THEN 2
    ELSE IF ~Target(d, n, e).attr THEN 1
    ELSE 0

ReadDirectory(d, n, e) ==
    /\ ret' = ReadDirectoryCode(d, n, e)
    /\ copied' = <<>>
    /\ UNCHANGED <<fat, store, fault>>

\* The moves of cd do not ask whether the cluster they are given, or the
\* one they find, is a directory. A file's bytes never spell an entry here.
ChildSlots(d, n) ==
    IF store[d] \in Tables THEN Matches(store[d], n, DirExt) \ {0} ELSE {}
ChildOf(d, n) == IF ChildSlots(d, n) = {} THEN 0
                 ELSE store[d][Min(ChildSlots(d, n))].cluster

MoveToChild(d, n) ==
    /\ ret' = ChildOf(d, n)
    /\ copied' = <<>>
    /\ UNCHANGED <<fat, store, fault>>

MoveToParent(d) ==
    /\ store[d] \in Tables
    /\ ret' = store[d][0].cluster
    /\ copied' = <<>>
    /\ UNCHANGED <<fat, store, fault>>
-----------------------------------------------------------------------------
\* Nothing is modelled after a fall-through.
Stopped == fault # "none" /\ UNCHANGED vars

Operation ==
    \E d \in Parents, n \in Names, e \in Exts :
        \/ WriteFolder(d, n, e)
        \/ \E b \in Sizes : \/ WriteRefused(d, n, e, b)
                            \/ Read(d, n, e, b)
                            \/ \E v \in Values : WriteFile(d, n, e, b, v)
        \/ DeleteRefused(d, n, e)
        \/ Delete(d, n, e)
        \/ ReadDirectory(d, n, e)
        \/ MoveToChild(d, n)
        \/ MoveToParent(d)

Next == (fault = "none" /\ Operation) \/ Stopped

Spec == Init /\ [][Next]_vars
-----------------------------------------------------------------------------
(* Properties.                                                             *)

Pointed(x) == \E c \in Allocated : fat[c] = x

\* The state has its type: every cached allocation value is a cluster number
\* or a reserved value, every cluster holds a table, a piece of a file or the
\* boot and FAT images (the structs of fat32.h).
TypeOK ==
    /\ fat \in [Clusters -> FatValues]
    /\ store \in [Clusters -> Contents]
    /\ ret \in Int
    /\ fault \in {"none", "mkdir without a cluster", "directory full",
                  "own entry deleted"}

\* write's search for a free cluster starts at 2 and its list of free
\* clusters at 0, yet neither ever hands out the boot cluster, the FAT's
\* cluster or the root's: their entries keep the values of create_fat32.
ReservedKept ==
    /\ fat[0] = CLUSTER_0_VALUE
    /\ fat[1] = EOF
    /\ fat[ROOT] = EOF

\* The chains write links and delete unlinks: an allocated cluster ends its
\* chain or leads to a later allocated one, so every do-while over
\* cluster_map terminates, inside the table.
ChainsTerminate ==
    \A c \in Allocated : fat[c] # EOF => fat[c] \in Allocated /\ fat[c] > c

\* No two clusters lead to the same one: freeing one file's chain in delete
\* never frees a part of another's.
NoCrossLinks ==
    \A c, d \in Allocated : fat[c] = fat[d] /\ fat[c] # EOF => c = d

\* Every entry in use names the first cluster of a chain of its own: write
\* never gives a cluster to two entries, and delete never leaves an entry
\* naming a free one.
EntriesOwnChains ==
    \A c \in Folders : \A i \in Used(c) :
        LET h == store[c][i].cluster
        IN  /\ h \in Allocated /\ h # ROOT
            /\ ~Pointed(h)
            /\ \A d \in Folders : \A j \in Used(d) :
                   store[d][j].cluster = h => c = d /\ i = j

\* An entry is a folder exactly when its cluster holds a table, and each
\* table's entry 0 leads to the folder that lists it (root: to itself):
\* cd .. after cd name is where one was, and delete's emptiness test, which
\* reads the target's table, reads a table.
FoldersLinked ==
    /\ ROOT \in Folders /\ store[ROOT][0].cluster = ROOT
    /\ \A c \in Folders : store[c][0].attr
    /\ \A c \in Folders : \A i \in Used(c) :
           LET h == store[c][i].cluster
           IN  /\ store[c][i].attr <=> h \in Folders
               /\ store[c][i].attr => fat[h] = EOF /\ store[h][0].cluster = c

\* Every table but the root's is listed in some folder.
FoldersListed ==
    \A c \in Folders \ {ROOT} :
        \E p \in Folders : \E i \in Used(p) : store[p][i].cluster = c

\* A slot that is not in use bears no name, so the searches of write, read
\* and delete, which do not ask whether a slot is in use, pass it over.
FreeSlotsNameless ==
    \A c \in Folders, i \in Slots :
        ~store[c][i].used => store[c][i].name = NoName

\* The cached allocation table agrees with the directory tables, up to the
\* first fall-through.
Consistent ==
    fault = "none" => /\ ReservedKept /\ ChainsTerminate /\ NoCrossLinks
                      /\ EntriesOwnChains /\ FoldersLinked /\ FreeSlotsNameless

\* Every allocated cluster above the root is the first of some entry's or
\* follows another.
ClustersOwned ==
    \A x \in Allocated : \/ x = ROOT
                         \/ Pointed(x)
                         \/ \E c \in Folders : \E i \in Used(c) :
                                store[c][i].cluster = x

\* No cluster is lost: delete frees the whole chain of its target, and what it
\* frees nothing else listed or led to.
NoLeak == fault = "none" => FoldersListed /\ ClustersOwned

\* A directory never lists one name and extension twice, though write, read
\* and delete compare names without asking whether a slot is in use: the slots
\* delete gives back match no request.
NamesUnique ==
    fault = "none" =>
        \A c \in Folders, i, j \in Slots :
            store[c][i].name = store[c][j].name /\ store[c][i].ext = store[c][j].ext
            => i = j \/ store[c][i].name = NoName

\* No operation changes a piece of a file it does not delete, nor relinks it.
OtherFilesUntouched ==
    [][fault' = "none" =>
           \A c \in Allocated \ Folders :
               fat'[c] # EMPTY => fat'[c] = fat[c] /\ store'[c] = store[c]]_vars

\* fat32.h reserves the values of clusters 0 and 1.
ReservedValues == fat[0] = CLUSTER_0_VALUE /\ fat[1] = EOF
=============================================================================
