---------------------------- MODULE FAT32Proofs ----------------------------
(***************************************************************************)
(* Proofs about FAT32, and that it implements FileStore, for every size of *)
(* the allocation table and of the directory tables, every cluster size    *)
(* and every set of names and values.                                      *)
(***************************************************************************)
EXTENDS FAT32Store, FiniteSetTheorems, SequenceTheorems, WellFoundedInduction, TLAPS

-----------------------------------------------------------------------------
(* Minima and maxima of sets of naturals, for the searches that return the *)
(* first index they find.                                                  *)

\* A non-empty set of naturals has a minimum, and Min is it: the searches of
\* write and delete for the first free cluster, free slot or matching entry
\* return an element of what they search.
LEMMA MinLemma ==
    ASSUME NEW S \in SUBSET Nat, S # {}
    PROVE  Min(S) \in S /\ \A y \in S : Min(S) <= y
<1> DEFINE R == {ss \in Nat \X Nat : ss[1] < ss[2]}
<1>1. R = OpToRel(<, Nat)
    BY Zenon DEF OpToRel
<1>2. IsWellFoundedOn(R, Nat)
    BY <1>1, NatLessThanWellFounded
<1> HIDE DEF R
<1>3. PICK x \in S : \A y \in S : ~(<<y, x>> \in R)
    BY <1>2, WFMin
<1>4. ASSUME NEW y \in S PROVE x <= y
  <2>1. x \in Nat /\ y \in Nat
    OBVIOUS
  <2>2. y < x => <<y, x>> \in R
    BY <2>1 DEF R
  <2>3. ~(y < x)
    BY <1>3, <2>2
  <2> QED BY <2>1, <2>3
<1> QED BY <1>4, Zenon DEF Min

\* A non-empty bounded set of naturals has a maximum.
LEMMA MaxLemma ==
    ASSUME NEW n \in Nat, NEW S \in SUBSET (0 .. n), S # {}
    PROVE  \E m \in S : \A y \in S : y <= m
<1> DEFINE T == {n - y : y \in S}
<1>1. T \in SUBSET Nat /\ T # {}
    OBVIOUS
<1>2. Min(T) \in T /\ \A t \in T : Min(T) <= t
    BY <1>1, MinLemma
<1>3. PICK m \in S : Min(T) = n - m
    BY <1>2
<1>4. \A y \in S : y <= m
    BY <1>2, <1>3
<1> QED BY <1>4
-----------------------------------------------------------------------------
(* The walk along a chain.                                                 *)

\* The walk of delete stays in the table, starts at its first cluster and
\* stays in every set closed under successors that holds that cluster.
LEMMA ChainLeast ==
    ASSUME NEW c \in Clusters
    PROVE  /\ c \in Chain(c)
           /\ Chain(c) \subseteq Clusters
           /\ \A S \in SUBSET Clusters : c \in S /\ Closed(S) => Chain(c) \subseteq S
BY DEF Chain

\* The walk goes on until a value that is no cluster number.
LEMMA ChainClosed ==
    ASSUME NEW c \in Clusters
    PROVE  Closed(Chain(c))
BY DEF Chain, Closed

\* Every cluster of the walk but the first was reached from another one.
LEMMA ChainPredecessor ==
    ASSUME NEW c \in Clusters, NEW x \in Chain(c), x # c
    PROVE  \E y \in Chain(c) : fat[y] = x
<1> SUFFICES ASSUME \A y \in Chain(c) : fat[y] # x
             PROVE  FALSE
    OBVIOUS
<1> DEFINE S == Chain(c) \ {x}
<1>1. c \in S /\ S \in SUBSET Clusters
    BY ChainLeast
<1>2. Closed(S)
    BY ChainClosed DEF Closed
<1>3. Chain(c) \subseteq S
    BY <1>1, <1>2, ChainLeast
<1> QED BY <1>3

-----------------------------------------------------------------------------
(* Type correctness.                                                       *)

\* The cluster write starts from is in the table.
LEMMA EmptyClusterType ==
    ASSUME TypeOK
    PROVE  /\ EmptyCluster \in Clusters
           /\ Available # {} => EmptyCluster \in Available
                                /\ \A c \in Available : EmptyCluster <= c
<1>1. Available \in SUBSET Nat
    BY ConstantsAssumption DEF Available, EmptyClusters, Clusters
<1>2. CASE Available = {}
    BY <1>2, ConstantsAssumption DEF EmptyCluster, Clusters
<1>3. CASE Available # {}
  <2>1. Min(Available) \in Available /\ \A y \in Available : Min(Available) <= y
    BY <1>1, <1>3, MinLemma
  <2> QED BY <1>3, <2>1 DEF EmptyCluster, Available, EmptyClusters
<1> QED BY <1>2, <1>3

\* The slot write picks is in the table, and above 0 when one is free.
LEMMA NewEntryIdxType ==
    ASSUME NEW t \in Tables
    PROVE  /\ NewEntryIdx(t) \in Slots
           /\ FreeSlots(t) # {} => NewEntryIdx(t) > 0 /\ ~t[NewEntryIdx(t)].used
<1>1. FreeSlots(t) \in SUBSET Nat
    BY ConstantsAssumption DEF FreeSlots, Slots
<1>2. CASE FreeSlots(t) = {}
    BY <1>2, ConstantsAssumption DEF NewEntryIdx, Slots
<1>3. CASE FreeSlots(t) # {}
  <2>1. Min(FreeSlots(t)) \in FreeSlots(t)
    BY <1>1, <1>3, MinLemma
  <2> QED BY <1>3, <2>1 DEF NewEntryIdx, FreeSlots
<1> QED BY <1>2, <1>3

\* The entry a search finds is a slot that bears the name asked for.
LEMMA MatchType ==
    ASSUME NEW t, NEW n, NEW e, Matches(t, n, e) # {}
    PROVE  /\ Min(Matches(t, n, e)) \in Slots
           /\ t[Min(Matches(t, n, e))].name = n
           /\ t[Min(Matches(t, n, e))].ext = e
<1>1. Matches(t, n, e) \in SUBSET Nat
    BY ConstantsAssumption DEF Matches, Slots
<1>2. Min(Matches(t, n, e)) \in Matches(t, n, e)
    BY <1>1, MinLemma
<1> QED BY <1>2 DEF Matches

\* The links write stores: the last cluster ends the chain, another leads to
\* the next higher one of those allocated.
LEMMA LinkLemma ==
    ASSUME NEW A \in SUBSET Clusters, NEW c \in A
    PROVE  \/ Link(A, c) = EOF /\ \A d \in A : d <= c
           \/ /\ Link(A, c) \in A /\ Link(A, c) > c
              /\ \A d \in A : d > c => Link(A, c) <= d
<1>0. A \in SUBSET Nat
    BY ConstantsAssumption DEF Clusters
<1>1. CASE \A d \in A : d <= c
    BY <1>1 DEF Link
<1>2. CASE ~ \A d \in A : d <= c
  <2> DEFINE H == {d \in A : d > c}
  <2>1. H \in SUBSET Nat /\ H # {}
    <3>1. PICK d \in A : ~(d <= c)
      BY <1>2
    <3>2. d \in Nat /\ c \in Nat
      BY <1>0
    <3>3. d \in H
      BY <3>1, <3>2
    <3> QED BY <1>0, <3>3
  <2>2. Min(H) \in H /\ \A y \in H : Min(H) <= y
    BY <2>1, MinLemma
  <2>3. Link(A, c) = Min(H)
    BY <1>2 DEF Link
  <2> QED BY <2>2, <2>3
<1> QED BY <1>1, <1>2

\* What a parent a request may name is, and what it holds when it is a folder.
LEMMA ParentType ==
    ASSUME TypeOK, NEW d \in Parents
    PROVE  d \in Clusters
BY ConstantsAssumption DEF Parents, Clusters, ROOT

\* The new entry and the tables write stores have their types.
LEMMA NewTableType ==
    ASSUME TypeOK, NEW d \in Clusters, store[d] \in Tables,
           NEW n \in Names, NEW e \in Exts, NEW b \in Nat
    PROVE  /\ NewEntry(n, e, b) \in Entry
           /\ WithEntry(d, n, e, b) \in Tables
           /\ init_directory_table(n, d) \in Tables
<1>1. NewEntry(n, e, b) \in Entry
    BY EmptyClusterType DEF NewEntry, Entry
<1>2. WithEntry(d, n, e, b) \in Tables
    BY <1>1, NewEntryIdxType DEF WithEntry, Tables
<1>3. ZeroEntry \in Entry
    BY ConstantsAssumption DEF ZeroEntry, Entry, Clusters
<1>4. [ZeroEntry EXCEPT !.name = n, !.attr = TRUE, !.used = TRUE, !.cluster = d] \in Entry
    BY <1>3 DEF Entry
<1>5. init_directory_table(n, d) \in Tables
    BY <1>3, <1>4 DEF init_directory_table, ZeroTable, Tables
<1> QED BY <1>1, <1>2, <1>5

\* The initial tables have their types.
LEMMA InitType == Init => TypeOK
<1> SUFFICES ASSUME Init PROVE TypeOK
    OBVIOUS
<1>1. fat \in [Clusters -> FatValues]
    BY ConstantsAssumption DEF Init, InitFat, FatValues, Clusters, ROOT, EMPTY
<1>2. ZeroEntry \in Entry
    BY ConstantsAssumption DEF ZeroEntry, Entry, Clusters
<1>3. [ZeroEntry EXCEPT !.name = RootName, !.attr = TRUE, !.used = TRUE,
                        !.cluster = ROOT] \in Entry
  <2>1. ROOT \in Clusters
    BY ConstantsAssumption DEF Clusters, ROOT
  <2> QED BY <1>2, <2>1 DEF Entry
<1>4. ZeroTable \in Tables /\ init_directory_table(RootName, ROOT) \in Tables
    BY <1>2, <1>3 DEF init_directory_table, ZeroTable, Tables
<1>5. store \in [Clusters -> Contents]
    BY <1>4 DEF Init, InitStore, Contents
<1> QED BY <1>1, <1>5 DEF Init, TypeOK

\* What a successful write has checked.
LEMMA WriteCodeZero ==
    ASSUME NEW d, NEW n, NEW e, NEW b, WriteCode(d, n, e, b) = 0
    PROVE  /\ store[d] \in Tables /\ store[d][0].attr
           /\ Matches(store[d], n, e) = {}
           /\ ~(Cardinality(Available) < ceil_div(b, ClusterSize))
<1>1. IsFolder(d)
    BY DEF WriteCode
<1>2. Matches(store[d], n, e) = {} /\ ~(Cardinality(Available) < ceil_div(b, ClusterSize))
    BY <1>1 DEF WriteCode
<1> QED BY <1>1, <1>2, Zenon DEF IsFolder

\* What a successful delete has checked.
LEMMA DeleteCodeZero ==
    ASSUME NEW d, NEW n, NEW e, DeleteCode(d, n, e) = 0
    PROVE  /\ store[d] \in Tables
           /\ Matches(store[d], n, e) # {}
           /\ Target(d, n, e).attr => ~HoldsEntries(Target(d, n, e).cluster)
<1>1. IsFolder(d)
    BY DEF DeleteCode
<1>2. Matches(store[d], n, e) # {}
    BY <1>1 DEF DeleteCode
<1>3. ~(Target(d, n, e).attr /\ HoldsEntries(Target(d, n, e).cluster))
    BY <1>1, <1>2 DEF DeleteCode
<1> QED BY <1>1, <1>2, <1>3, Zenon DEF IsFolder

\* write of a folder keeps the types.
LEMMA WriteFolderType ==
    ASSUME TypeOK, NEW d \in Parents, NEW n \in Names, NEW e \in Exts,
           WriteFolder(d, n, e)
    PROVE  TypeOK'
<1>1. d \in Clusters /\ EmptyCluster \in Clusters
    BY ParentType, EmptyClusterType
<1>2. store[d] \in Tables
    BY WriteCodeZero DEF WriteFolder
<1>3. WithEntry(d, n, e, 0) \in Contents /\ init_directory_table(n, d) \in Contents
    BY <1>1, <1>2, NewTableType DEF Contents
<1>4. fat' \in [Clusters -> FatValues]
    BY <1>1 DEF WriteFolder, TypeOK, FatValues
<1>5. store' \in [Clusters -> Contents]
    BY <1>1, <1>3 DEF WriteFolder, TypeOK
<1>6. ret' \in Int /\ fault' \in {"none", "mkdir without a cluster", "directory full",
                                  "own entry deleted"}
  <2>1. ret' = 0
    BY Zenon DEF WriteFolder
  <2>2. fault' \in {"none", "mkdir without a cluster", "directory full",
                    "own entry deleted"}
    BY Zenon DEF WriteFolder
  <2>3. ret' \in Int
    BY <2>1
  <2> QED BY <2>2, <2>3, Zenon
<1> QED BY <1>4, <1>5, <1>6 DEF TypeOK

\* write of a file keeps the types; the pieces are numbered within a table.
LEMMA WriteFileType ==
    ASSUME TypeOK, NEW d \in Parents, NEW n \in Names, NEW e \in Exts,
           NEW b \in Sizes, NEW v \in Values, WriteFile(d, n, e, b, v)
    PROVE  TypeOK'
<1> DEFINE A == LowestEmpty(ceil_div(b, ClusterSize))
           Piece(c) == <<v, Cardinality({x \in A : x <= c})>>
<1>1. d \in Clusters /\ b \in Nat
    BY ParentType, ConstantsAssumption
<1>2. store[d] \in Tables
    BY WriteCodeZero DEF WriteFile
<1>3. WithEntry(d, n, e, b) \in Contents
    BY <1>1, <1>2, NewTableType DEF Contents
<1>4. A \in SUBSET Clusters
    BY DEF LowestEmpty, EmptyClusters
<1>5. ASSUME NEW c \in A PROVE Link(A, c) \in FatValues
    BY <1>4, <1>5, LinkLemma DEF FatValues
<1>6. ASSUME NEW c \in A PROVE Piece(c) \in Pieces
  <2> DEFINE L == {x \in A : x <= c}
  <2>1. IsFiniteSet(Clusters) /\ Cardinality(Clusters) = ClusterMapSize
    BY FS_Interval, ConstantsAssumption DEF Clusters
  <2>2. L \in SUBSET Clusters /\ c \in L
    BY <1>4, ConstantsAssumption DEF Clusters
  <2>3. IsFiniteSet(L) /\ Cardinality(L) <= ClusterMapSize
    BY <2>1, <2>2, FS_Subset
  <2>4. Cardinality(L) \in Nat /\ Cardinality(L) # 0
    BY <2>2, <2>3, FS_CardinalityType, FS_EmptySet
  <2>5. Cardinality(L) \in 1 .. ClusterMapSize
    BY <2>3, <2>4, ConstantsAssumption
  <2> QED BY <2>5 DEF Pieces
<1>7. fat' \in [Clusters -> FatValues]
    BY <1>5 DEF WriteFile, TypeOK
<1>8. store' \in [Clusters -> Contents]
  <2>1. store' = [c \in Clusters |->
                     IF c = d THEN WithEntry(d, n, e, b)
                     ELSE IF c \in A THEN Piece(c) ELSE store[c]]
    BY DEF WriteFile
  <2>2. \A c \in A : Piece(c) \in Contents
    BY <1>6 DEF Contents
  <2> HIDE DEF A, Piece
  <2> QED BY <1>3, <2>1, <2>2 DEF TypeOK
<1>9. ret' \in Int /\ fault' \in {"none", "mkdir without a cluster", "directory full",
                                  "own entry deleted"}
  <2>1. ret' = 0
    BY Zenon DEF WriteFile
  <2>2. fault' \in {"none", "mkdir without a cluster", "directory full",
                    "own entry deleted"}
    BY Zenon DEF WriteFile
  <2>3. ret' \in Int
    BY <2>1
  <2> QED BY <2>2, <2>3, Zenon
<1> QED BY <1>7, <1>8, <1>9 DEF TypeOK

\* delete keeps the types.
LEMMA DeleteType ==
    ASSUME TypeOK, NEW d \in Parents, NEW n, NEW e,
           Delete(d, n, e)
    PROVE  TypeOK'
<1> DEFINE i == Min(Matches(store[d], n, e))
<1>1. d \in Clusters
    BY ParentType
<1>2. store[d] \in Tables /\ Matches(store[d], n, e) # {}
    BY DeleteCodeZero DEF Delete
<1>3. i \in Slots
    BY <1>2, MatchType
<1>4. store[d][i] \in Entry
    BY <1>2, <1>3 DEF Tables
<1>5. store' = [store EXCEPT ![d] = [store[d] EXCEPT ![i] =
                  [store[d][i] EXCEPT !.used = FALSE, !.name = NoName, !.ext = NoExt]]]
    BY <1>1, <1>2, <1>3, <1>4 DEF Delete, TypeOK, Tables, Entry
<1>6. [store[d][i] EXCEPT !.used = FALSE, !.name = NoName, !.ext = NoExt] \in Entry
    BY <1>4, ConstantsAssumption DEF Entry
<1>7. store' \in [Clusters -> Contents]
    BY <1>1, <1>2, <1>3, <1>5, <1>6 DEF TypeOK, Contents, Tables
<1>8. fat' \in [Clusters -> FatValues]
  <2>1. fat' = [c \in Clusters |-> IF c \in Chain(store[d][i].cluster)
                                    THEN EMPTY ELSE fat[c]]
    BY Zenon DEF Delete
  <2>2. EMPTY \in FatValues
    BY ConstantsAssumption DEF FatValues, Clusters, EMPTY
  <2> QED BY <2>1, <2>2 DEF TypeOK
<1>9. ret' \in Int /\ fault' \in {"none", "mkdir without a cluster", "directory full",
                                  "own entry deleted"}
  <2>1. ret' = 0
    BY Zenon DEF Delete
  <2>2. fault' \in {"none", "mkdir without a cluster", "directory full",
                    "own entry deleted"}
    BY Zenon DEF Delete
  <2>3. ret' \in Int
    BY <2>1
  <2> QED BY <2>2, <2>3, Zenon
<1> QED BY <1>7, <1>8, <1>9 DEF TypeOK

\* Every step keeps the types.
LEMMA NextType == TypeOK /\ [Next]_vars => TypeOK'
<1> SUFFICES ASSUME TypeOK, [Next]_vars PROVE TypeOK'
    OBVIOUS
<1>1. CASE UNCHANGED vars
    BY <1>1 DEF vars, TypeOK
<1>2. CASE Stopped
    BY <1>2 DEF Stopped, vars, TypeOK
<1>3. ASSUME NEW d \in Parents, NEW n \in Names, NEW e \in Exts, WriteFolder(d, n, e)
      PROVE  TypeOK'
    BY <1>3, WriteFolderType
<1>4. ASSUME NEW d \in Parents, NEW n \in Names, NEW e \in Exts, NEW b \in Sizes,
             NEW v \in Values, WriteFile(d, n, e, b, v)
      PROVE  TypeOK'
    BY <1>4, WriteFileType
<1>5. ASSUME NEW d \in Parents, NEW n \in Names, NEW e \in Exts, Delete(d, n, e)
      PROVE  TypeOK'
    BY <1>5, DeleteType
<1>6. ASSUME UNCHANGED <<fat, store, fault>>, ret' \in Int
      PROVE  TypeOK'
    BY <1>6 DEF TypeOK
<1>7. ASSUME NEW d \in Parents, NEW n \in Names, NEW e \in Exts, NEW b \in Sizes,
             WriteRefused(d, n, e, b)
      PROVE  TypeOK'
  <2>1. WriteCode(d, n, e, b) \in Int
    BY DEF WriteCode
  <2> QED BY <1>6, <1>7, <2>1 DEF WriteRefused
<1>8. ASSUME NEW d \in Parents, NEW n \in Names, NEW e \in Exts, NEW b \in Sizes,
             Read(d, n, e, b)
      PROVE  TypeOK'
  <2>1. ReadCode(d, n, e, b) \in Int
    BY DEF ReadCode
  <2> QED BY <1>6, <1>8, <2>1 DEF Read
<1>9. ASSUME NEW d \in Parents, NEW n \in Names, NEW e \in Exts, DeleteRefused(d, n, e)
      PROVE  TypeOK'
  <2>1. DeleteCode(d, n, e) \in Int
    BY DEF DeleteCode
  <2> QED BY <1>6, <1>9, <2>1 DEF DeleteRefused
<1>10. ASSUME NEW d \in Parents, NEW n \in Names, NEW e \in Exts, ReadDirectory(d, n, e)
       PROVE  TypeOK'
    BY <1>6, <1>10 DEF ReadDirectory, ReadDirectoryCode
<1>11. ASSUME NEW d \in Parents, NEW n \in Names, MoveToChild(d, n)
       PROVE  TypeOK'
  <2>1. ChildOf(d, n) \in Int
    <3>1. CASE ChildSlots(d, n) = {}
      BY <3>1 DEF ChildOf
    <3>2. CASE ChildSlots(d, n) # {}
      <4>1. store[d] \in Tables /\ ChildSlots(d, n) \in SUBSET Slots
        BY <3>2 DEF ChildSlots, Matches
      <4>2. Min(ChildSlots(d, n)) \in Slots
        BY <3>2, <4>1, MinLemma, ConstantsAssumption DEF Slots
      <4>3. store[d][Min(ChildSlots(d, n))].cluster \in Clusters
        BY <4>1, <4>2 DEF Tables, Entry
      <4> QED BY <3>2, <4>3, ConstantsAssumption DEF ChildOf, Clusters
    <3> QED BY <3>1, <3>2
  <2> QED BY <1>6, <1>11, <2>1 DEF MoveToChild
<1>12. ASSUME NEW d \in Parents, MoveToParent(d)
       PROVE  TypeOK'
  <2>1. store[d][0].cluster \in Int
    BY <1>12, ConstantsAssumption DEF MoveToParent, Tables, Entry, Slots, Clusters
  <2> QED BY <1>6, <1>12, <2>1 DEF MoveToParent
<1> QED
    BY <1>1, <1>2, <1>3, <1>4, <1>5, <1>7, <1>8, <1>9, <1>10, <1>11, <1>12
       DEF Next, Operation

\* Type correctness of the driver (the structs of fat32.h): every value the
\* driver caches or writes is one its tables can hold.
THEOREM TypeCorrect == Spec => []TypeOK
BY InitType, NextType, PTL DEF Spec

-----------------------------------------------------------------------------
(* Consistency of the allocation table with the directory tables: Solid    *)
(* is what also a power loss leaves intact, NothingLost what it may cost.  *)

\* A folder is one cluster that no other leads to.
FoldersAlone == \A c \in Folders : fat[c] = EOF /\ ~Pointed(c)

Solid ==
    /\ ReservedKept /\ ChainsTerminate /\ NoCrossLinks
    /\ EntriesOwnChains /\ FoldersLinked
    /\ FreeSlotsNameless /\ FoldersAlone

NothingLost == FoldersListed /\ ClustersOwned
Sound == Solid /\ NothingLost

IInv == TypeOK /\ (fault = "none" => Sound)

\* A request's parent is allocated, and the root is.
LEMMA ParentAllocated ==
    ASSUME TypeOK, Solid, NEW d \in Parents
    PROVE  d \in Allocated /\ ROOT \in Allocated
<1>1. ROOT \in Allocated
    BY DEF Solid, FoldersLinked, Folders
<1>2. ASSUME NEW c \in Folders, NEW i \in Used(c), store[c][i].cluster = d
      PROVE  d \in Allocated
    BY <1>2 DEF Solid, EntriesOwnChains
<1> QED BY <1>1, <1>2 DEF Parents

\* A piece of a file is not a table.
LEMMA PieceNotTable ==
    ASSUME NEW v \in Values, NEW k
    PROVE  <<v, k>> \notin Tables
<1>1. 0 \notin DOMAIN <<v, k>>
    OBVIOUS
<1>2. \A t \in Tables : 0 \in DOMAIN t
    BY ConstantsAssumption DEF Tables, Slots
<1> QED BY <1>1, <1>2

\* Linking free clusters in ascending order adds one chain to the table and
\* leaves the others as they were.
LEMMA NewChain ==
    ASSUME TypeOK, Solid,
           NEW A \in SUBSET Available, NEW z \in A, \A c \in A : z <= c,
           fat' = [c \in Clusters |-> IF c \in A THEN Link(A, c) ELSE fat[c]]
    PROVE  /\ Allocated' = Allocated \cup A
           /\ A \cap Allocated = {}
           /\ ReservedKept' /\ ChainsTerminate' /\ NoCrossLinks'
           /\ \A x \in Allocated : Pointed(x)' <=> Pointed(x)
           /\ ~Pointed(z)'
           /\ \A x \in A : x = z \/ Pointed(x)'
<1>1. A \subseteq Clusters /\ \A c \in A : c >= 2 /\ fat[c] = EMPTY
    BY DEF Available, EmptyClusters
<1>0. Clusters \subseteq Nat /\ A \subseteq Nat /\ Allocated \subseteq Nat /\ EOF \notin Nat
    BY <1>1, ConstantsAssumption DEF Clusters, Allocated, EOF
<1>2. A \cap Allocated = {}
    BY <1>1 DEF Allocated
<1>3. \A c \in A : \/ fat'[c] = EOF /\ \A d \in A : d <= c
                   \/ /\ fat'[c] \in A /\ fat'[c] > c
                      /\ \A d \in A : d > c => fat'[c] <= d
    BY <1>1, LinkLemma
<1>4. \A c \in Clusters \ A : fat'[c] = fat[c]
    OBVIOUS
<1>5. Allocated' = Allocated \cup A
  <2>1. \A c \in A : fat'[c] # EMPTY
    <3> SUFFICES ASSUME NEW c \in A PROVE fat'[c] # EMPTY
      OBVIOUS
    <3>1. fat'[c] = EOF \/ (fat'[c] \in A /\ fat'[c] > c)
      BY <1>3
    <3>2. c \in Nat /\ c >= 2
      BY <1>0, <1>1
    <3> QED BY <1>0, <3>1, <3>2 DEF EMPTY, EOF
  <2> QED BY <1>1, <1>4, <2>1 DEF Allocated
<1>6. ReservedKept'
  <2>1. {0, 1, ROOT} \subseteq Clusters \ A
    BY <1>1, ConstantsAssumption DEF Solid, ReservedKept, Clusters, ROOT, EMPTY, EOF
  <2> QED BY <1>4, <2>1 DEF Solid, ReservedKept
<1>7. ChainsTerminate'
    BY <1>2, <1>3, <1>4, <1>5 DEF Solid, ChainsTerminate, Allocated
<1>8. \A c \in Allocated : fat'[c] = fat[c] /\ (fat[c] = EOF \/ fat[c] \in Allocated)
    BY <1>2, <1>4 DEF Solid, ChainsTerminate, Allocated
<1>9. NoCrossLinks'
  <2> SUFFICES ASSUME NEW c \in Allocated \cup A, NEW d \in Allocated \cup A,
                      fat'[c] = fat'[d], fat'[c] # EOF
               PROVE  c = d
    BY <1>5 DEF NoCrossLinks
  <2>1. CASE c \in Allocated /\ d \in Allocated
    BY <1>8, <2>1 DEF Solid, NoCrossLinks
  <2>2. CASE c \in A /\ d \in A
    <3>1. fat'[c] \in A /\ fat'[c] > c /\ fat'[c] > d
      BY <1>3, <2>2
    <3>2. c \in Nat /\ d \in Nat /\ fat'[c] \in Nat
      BY <1>0, <2>2, <3>1
    <3>3. c < d => fat'[c] <= d
      BY <1>3, <2>2, <3>1, <3>2
    <3>4. d < c => fat'[d] <= c
      BY <1>3, <2>2, <3>1, <3>2
    <3> QED BY <3>1, <3>2, <3>3, <3>4
  <2>3. CASE ~(c \in Allocated <=> d \in Allocated)
    BY <1>2, <1>3, <1>8, <2>3
  <2> QED BY <2>1, <2>2, <2>3
<1>10. \A x \in Allocated : Pointed(x)' <=> Pointed(x)
  <2>1. \A x \in Allocated, c \in A : fat'[c] # x
    BY <1>0, <1>2, <1>3
  <2>2. \A x \in Allocated, c \in Allocated : fat'[c] = fat[c]
    BY <1>8
  <2> QED BY <1>5, <2>1, <2>2 DEF Pointed
<1>11. ~Pointed(z)'
  <2>1. \A c \in A : fat'[c] # z
    <3> SUFFICES ASSUME NEW c \in A PROVE fat'[c] # z
      OBVIOUS
    <3>1. fat'[c] = EOF \/ fat'[c] > c
      BY <1>3
    <3>2. c \in Nat /\ z \in Nat /\ z <= c
      BY <1>0
    <3> QED BY <1>0, <3>1, <3>2
  <2>2. \A c \in Allocated : fat'[c] # z
    BY <1>0, <1>2, <1>8
  <2> QED BY <1>5, <2>1, <2>2 DEF Pointed
<1>12. ASSUME NEW x \in A, x # z PROVE Pointed(x)'
  <2> DEFINE B == {d \in A : d < x}
  <2>1. B \in SUBSET (0 .. ClusterMapSize - 1) /\ z \in B
    <3>1. z \in Nat /\ x \in Nat /\ z <= x
      BY <1>0
    <3>2. z \in B
      BY <1>12, <3>1
    <3> QED BY <1>1, <3>2 DEF Clusters
  <2>2. ClusterMapSize - 1 \in Nat
    BY ConstantsAssumption
  <2>3. PICK m \in B : \A y \in B : y <= m
    BY <2>1, <2>2, MaxLemma
  <2>4. fat'[m] \in A /\ fat'[m] > m /\ fat'[m] <= x
    <3>1. m \in A /\ m < x /\ m \in Nat /\ x \in Nat
      BY <1>0, <2>3
    <3>2. ~(x <= m)
      BY <3>1
    <3> QED BY <1>3, <3>1, <3>2
  <2>5. fat'[m] = x
    <3>1. x \in Nat /\ fat'[m] \in Nat /\ m \in Nat
      BY <1>0, <2>3, <2>4
    <3>2. fat'[m] < x => fat'[m] \in B
      BY <2>4
    <3>3. ~(fat'[m] < x)
      BY <2>3, <2>4, <3>1, <3>2
    <3> QED BY <2>4, <3>1, <3>3
  <2> QED BY <1>5, <2>5 DEF Pointed
<1> QED BY <1>2, <1>5, <1>6, <1>7, <1>9, <1>10, <1>11, <1>12

\* A successful write that found a cluster and a slot keeps the tables
\* consistent: one more chain, and one more entry that owns it.
LEMMA WriteSound ==
    ASSUME TypeOK, Solid,
           NEW d \in Parents, NEW n \in Names, NEW e \in Exts, NEW b \in Nat,
           store[d] \in Tables, FreeSlots(store[d]) # {},
           NEW A \in SUBSET Available, EmptyCluster \in A,
           \A c \in A : EmptyCluster <= c,
           fat' = [c \in Clusters |-> IF c \in A THEN Link(A, c) ELSE fat[c]],
           store'[d] = WithEntry(d, n, e, b),
           \A c \in Clusters \ (A \cup {d}) : store'[c] = store[c],
           \/ /\ b = 0 /\ A = {EmptyCluster}
              /\ store'[EmptyCluster] = init_directory_table(n, d)
           \/ b # 0 /\ \A c \in A : store'[c] \notin Tables
    PROVE  Solid' /\ (NothingLost => NothingLost')
<1>0. PICK z : z = EmptyCluster
    OBVIOUS
<1> DEFINE s == NewEntryIdx(store[d])
           new == NewEntry(n, e, b)
           N == IF b = 0 THEN {z} ELSE {}
<1>1. /\ Allocated' = Allocated \cup A
      /\ A \cap Allocated = {}
      /\ ReservedKept' /\ ChainsTerminate' /\ NoCrossLinks'
      /\ \A x \in Allocated : Pointed(x)' <=> Pointed(x)
      /\ ~Pointed(z)'
      /\ \A x \in A : x = z \/ Pointed(x)'
    BY <1>0, NewChain
<1>2. d \in Folders /\ d \in Allocated /\ d \notin A /\ d \in Clusters /\ ROOT \in Allocated
    BY <1>1, ParentAllocated, ParentType DEF Folders
<1>3. s \in Slots /\ s > 0 /\ ~store[d][s].used
    BY NewEntryIdxType
<1>4. new \in Entry /\ WithEntry(d, n, e, b) \in Tables /\ init_directory_table(n, d) \in Tables
    BY <1>2, NewTableType
<1>5. new.cluster = z /\ (new.attr <=> b = 0) /\ new.used
    BY <1>0 DEF NewEntry
<1>6. store'[d][s] = new /\ \A j \in Slots \ {s} : store'[d][j] = store[d][j]
    BY <1>3 DEF WithEntry, Tables
<1>7. \A c \in Allocated \ {d} : store'[c] = store[c]
    BY <1>1 DEF Allocated
<1>8. b = 0 => /\ store'[z] \in Tables /\ store'[z][0].attr /\ store'[z][0].cluster = d
               /\ \A j \in Slots : j > 0 => ~store'[z][j].used
               /\ \A j \in Slots : ~store'[z][j].used => store'[z][j].name = NoName
  <2> SUFFICES ASSUME b = 0
               PROVE /\ store'[z] \in Tables /\ store'[z][0].attr /\ store'[z][0].cluster = d
                     /\ \A j \in Slots : j > 0 => ~store'[z][j].used
                     /\ \A j \in Slots : ~store'[z][j].used => store'[z][j].name = NoName
    OBVIOUS
  <2>1. store'[z] = init_directory_table(n, d)
    BY <1>0
  <2>2. 0 \in Slots
    BY ConstantsAssumption DEF Slots
  <2>3. /\ store'[z][0] = [ZeroEntry EXCEPT !.name = n, !.attr = TRUE, !.used = TRUE,
                                            !.cluster = d]
        /\ \A j \in Slots \ {0} : store'[z][j] = ZeroEntry
    BY <2>1, <2>2 DEF init_directory_table, ZeroTable
  <2>4. store'[z][0].attr /\ store'[z][0].cluster = d
    BY <2>3 DEF ZeroEntry
  <2>5. \A j \in Slots : j > 0 => ~store'[z][j].used
    BY <2>3 DEF ZeroEntry
  <2>6. \A j \in Slots : ~store'[z][j].used => store'[z][j].name = NoName
    <3>1. store'[z][0].used
      BY <2>3 DEF ZeroEntry
    <3>2. \A j \in Slots \ {0} : store'[z][j].name = NoName
      BY <2>3 DEF ZeroEntry
    <3> QED BY <3>1, <3>2, Zenon
  <2> QED BY <1>4, <2>1, <2>4, <2>5, <2>6
<1> HIDE DEF s, new
<1>9. Folders' = Folders \cup N /\ z \notin Folders
  <2>1. \A c \in Allocated : c \in Folders' <=> c \in Folders
    BY <1>1, <1>2, <1>4, <1>7 DEF Folders
  <2>2. \A c \in A : c \in Folders' <=> (b = 0 /\ c = z)
    BY <1>0, <1>1, <1>8 DEF Folders
  <2>3. Folders' \subseteq Allocated \cup A /\ Folders \subseteq Allocated
    BY <1>1 DEF Folders
  <2>4. z \in A
    BY <1>0
  <2> QED BY <1>1, <2>1, <2>2, <2>3, <2>4
<1>10. ASSUME NEW c \in Folders, NEW i \in Used(c)
       PROVE  c \in Folders' /\ i \in Used(c)' /\ store'[c][i] = store[c][i]
  <2>1. i \in Slots /\ i > 0 /\ store[c][i].used /\ c \in Allocated
    BY DEF Used, Folders
  <2>2. store'[c][i] = store[c][i]
    BY <1>3, <1>6, <1>7, <2>1
  <2> QED BY <1>9, <2>1, <2>2 DEF Used
<1>11. d \in Folders' /\ s \in Used(d)'
    BY <1>2, <1>3, <1>5, <1>6, <1>9 DEF Used
<1>12. ASSUME NEW c \in Folders', NEW i \in Used(c)'
       PROVE  \/ c \in Folders /\ i \in Used(c) /\ store'[c][i] = store[c][i]
              \/ c = d /\ i = s /\ store'[c][i] = new
  <2>1. i \in Slots /\ i > 0 /\ store'[c][i].used
    BY DEF Used
  <2>2. c \in Folders
    BY <1>8, <1>9, <2>1
  <2>3. CASE c = d /\ i = s
    BY <1>6, <2>3
  <2>4. CASE ~(c = d /\ i = s)
    <3>1. store'[c][i] = store[c][i]
      BY <1>6, <1>7, <2>1, <2>2, <2>4 DEF Folders
    <3> QED BY <2>1, <2>2, <3>1 DEF Used
  <2> QED BY <2>3, <2>4
<1>13. ASSUME NEW c \in Folders PROVE store'[c][0] = store[c][0]
    BY <1>3, <1>6, <1>7, ConstantsAssumption DEF Folders, Slots
<1>14. z \in A /\ z \in Allocated' /\ z # ROOT /\ z \notin Allocated
    BY <1>0, <1>1, <1>2
<1>15. ASSUME NEW c \in Folders, NEW i \in Used(c)
       PROVE  /\ store[c][i].cluster \in Allocated /\ store[c][i].cluster # ROOT
              /\ ~Pointed(store[c][i].cluster)
    BY DEF Solid, EntriesOwnChains
<1>16. EntriesOwnChains'
  <2> SUFFICES ASSUME NEW c \in Folders', NEW i \in Used(c)'
               PROVE  LET h == store'[c][i].cluster
                      IN  /\ h \in Allocated' /\ h # ROOT
                          /\ \A y \in Allocated' : fat'[y] # h
                          /\ \A g \in Folders' : \A j \in Used(g)' :
                                 store'[g][j].cluster = h => c = g /\ i = j
    BY DEF EntriesOwnChains, Pointed
  <2>1. CASE c \in Folders /\ i \in Used(c) /\ store'[c][i] = store[c][i]
    <3>1. /\ store'[c][i].cluster \in Allocated' /\ store'[c][i].cluster # ROOT
          /\ \A y \in Allocated' : fat'[y] # store'[c][i].cluster
      <4>1. PICK h : h = store[c][i].cluster
        OBVIOUS
      <4>2. h \in Allocated /\ h # ROOT /\ ~Pointed(h)
        BY <1>15, <2>1, <4>1
      <4>3. ~Pointed(h)'
        BY <1>1, <4>2
      <4> QED BY <1>1, <2>1, <4>1, <4>2, <4>3 DEF Pointed
    <3>2. ASSUME NEW g \in Folders', NEW j \in Used(g)',
                 store'[g][j].cluster = store'[c][i].cluster
          PROVE  c = g /\ i = j
      <4>1. store'[g][j] # new
        BY <1>5, <1>14, <1>15, <2>1, <3>2
      <4>2. g \in Folders /\ j \in Used(g) /\ store'[g][j] = store[g][j]
        BY <1>12, <4>1
      <4> QED BY <2>1, <3>2, <4>2 DEF Solid, EntriesOwnChains
    <3> QED BY <3>1, <3>2
  <2>2. CASE c = d /\ i = s /\ store'[c][i] = new
    <3>1. ASSUME NEW g \in Folders', NEW j \in Used(g)', store'[g][j].cluster = z
          PROVE  c = g /\ i = j
      BY <1>12, <1>14, <1>15, <2>2, <3>1
    <3>2. (\A y \in Allocated' : fat'[y] # z) /\ z = store'[c][i].cluster
      BY <1>1, <1>5, <2>2 DEF Pointed
    <3> QED BY <1>14, <3>1, <3>2
  <2> QED BY <1>12, <2>1, <2>2
<1>17. FoldersLinked'
  <2>1. ROOT \in Folders' /\ store'[ROOT][0].cluster = ROOT
    BY <1>9, <1>13 DEF Solid, FoldersLinked
  <2>2. \A c \in Folders' : store'[c][0].attr
    <3>1. \A c \in Folders : store[c][0].attr
      BY Zenon DEF Solid, FoldersLinked
    <3> QED BY <1>8, <1>9, <1>13, <3>1
  <2>3. ASSUME NEW c \in Folders', NEW i \in Used(c)'
        PROVE  LET h == store'[c][i].cluster
               IN  /\ store'[c][i].attr <=> h \in Folders'
                   /\ store'[c][i].attr => fat'[h] = EOF /\ store'[h][0].cluster = c
    <3>1. CASE c \in Folders /\ i \in Used(c) /\ store'[c][i] = store[c][i]
      <4> DEFINE h == store[c][i].cluster
      <4>1. /\ store[c][i].attr <=> h \in Folders
            /\ store[c][i].attr => fat[h] = EOF /\ store[h][0].cluster = c
        BY <3>1, Zenon DEF Solid, FoldersLinked
      <4>2. h \in Allocated /\ h # z
        BY <1>14, <1>15, <3>1
      <4>3. fat'[h] = fat[h]
        BY <1>1, <4>2 DEF Allocated
      <4>4. h \in Folders' <=> h \in Folders
        BY <1>9, <4>2
      <4>5. h \in Folders => store'[h][0] = store[h][0]
        BY <1>13
      <4> HIDE DEF h
      <4>6. /\ store[c][i].attr <=> h \in Folders'
            /\ store[c][i].attr => fat'[h] = EOF /\ store'[h][0].cluster = c
        BY <4>1, <4>3, <4>4, <4>5, Zenon
      <4> QED BY <3>1, <4>6 DEF h
    <3>2. CASE c = d /\ i = s /\ store'[c][i] = new
      <4>1. new.attr <=> z \in Folders'
        BY <1>5, <1>9
      <4>2. b = 0 => fat'[z] = EOF
        BY <1>0, <1>14, ConstantsAssumption DEF Link, Clusters, Available, EmptyClusters
      <4> QED BY <1>5, <1>8, <3>2, <4>1, <4>2
    <3> QED BY <1>12, <3>1, <3>2
  <2> QED BY <2>1, <2>2, <2>3 DEF FoldersLinked
<1>18. NothingLost => FoldersListed'
  <2> SUFFICES ASSUME NothingLost, NEW c \in Folders', c # ROOT
               PROVE  \E p \in Folders' : \E i \in Used(p)' : store'[p][i].cluster = c
    BY DEF FoldersListed
  <2>1. CASE c = z
    BY <1>5, <1>6, <1>11, <2>1
  <2>2. CASE c \in Folders
    <3>1. PICK p \in Folders : \E i \in Used(p) : store[p][i].cluster = c
      BY <2>2 DEF NothingLost, FoldersListed
    <3> QED BY <1>10, <3>1
  <2> QED BY <1>9, <2>1, <2>2
<1>19. NothingLost => ClustersOwned'
  <2> SUFFICES ASSUME NothingLost, NEW x \in Allocated'
               PROVE  \/ x = ROOT
                      \/ Pointed(x)'
                      \/ \E c \in Folders' : \E i \in Used(c)' : store'[c][i].cluster = x
    BY DEF ClustersOwned
  <2>1. CASE x \in A
    BY <1>1, <1>5, <1>6, <1>11, <2>1
  <2>2. CASE x \in Allocated
    <3>1. \/ x = ROOT \/ Pointed(x)
          \/ \E c \in Folders : \E i \in Used(c) : store[c][i].cluster = x
      BY <2>2 DEF NothingLost, ClustersOwned
    <3> QED BY <1>1, <1>10, <2>2, <3>1
  <2> QED BY <1>1, <2>1, <2>2
<1>20. FreeSlotsNameless'
  <2> SUFFICES ASSUME NEW c \in Folders', NEW j \in Slots, ~store'[c][j].used
               PROVE  store'[c][j].name = NoName
    BY DEF FreeSlotsNameless, Slots
  <2>1. CASE c \in Folders
    <3>1. store'[c][j] = store[c][j]
      BY <1>5, <1>6, <1>7, <2>1 DEF Folders
    <3> QED BY <2>1, <3>1 DEF Solid, FreeSlotsNameless
  <2>2. CASE c \in N
    BY <1>8, <2>2
  <2> QED BY <1>9, <2>1, <2>2
<1>21. FoldersAlone'
  <2> SUFFICES ASSUME NEW c \in Folders' PROVE fat'[c] = EOF /\ ~Pointed(c)'
    BY DEF FoldersAlone, Pointed
  <2>1. CASE c \in Folders
    <3>1. c \in Allocated /\ fat'[c] = fat[c]
      BY <1>1, <2>1 DEF Folders, Allocated
    <3> QED BY <1>1, <2>1, <3>1 DEF Solid, FoldersAlone
  <2>2. CASE b = 0 /\ c = z
    <3>1. fat'[z] = EOF
      BY <1>0, <1>14, <2>2, ConstantsAssumption DEF Link, Clusters, Available, EmptyClusters
    <3> QED BY <1>1, <2>2, <3>1
  <2> QED BY <1>9, <2>1, <2>2
<1> QED BY <1>1, <1>16, <1>17, <1>18, <1>19, <1>20, <1>21 DEF Solid, NothingLost

\* write of a folder, short of the two fall-throughs, keeps consistency.
LEMMA WriteFolderSound ==
    ASSUME TypeOK, Solid, NEW d \in Parents, NEW n \in Names, NEW e \in Exts,
           WriteFolder(d, n, e), fault' = "none"
    PROVE  Solid' /\ (NothingLost => NothingLost')
<1>1. store[d] \in Tables /\ d \in Clusters /\ d \in Allocated
    BY WriteCodeZero, ParentType, ParentAllocated DEF WriteFolder
<1>2. Available # {} /\ FreeSlots(store[d]) # {}
    BY Zenon DEF WriteFolder
<1>3. EmptyCluster \in Available /\ EmptyCluster \in Clusters
    BY <1>2, EmptyClusterType
<1>4. EmptyCluster # d /\ EmptyCluster \in Nat
    BY <1>1, <1>3, ConstantsAssumption DEF Allocated, Available, EmptyClusters, Clusters
<1> DEFINE A == {EmptyCluster}
<1>5. fat' = [c \in Clusters |-> IF c \in A THEN Link(A, c) ELSE fat[c]]
  <2>1. Link(A, EmptyCluster) = EOF
    BY <1>4 DEF Link
  <2> QED BY <1>3, <2>1 DEF WriteFolder, TypeOK
<1>6. /\ store'[d] = WithEntry(d, n, e, 0)
      /\ store'[EmptyCluster] = init_directory_table(n, d)
      /\ \A c \in Clusters \ (A \cup {d}) : store'[c] = store[c]
    BY <1>1, <1>3, <1>4 DEF WriteFolder, TypeOK
<1>7. A \in SUBSET Available /\ EmptyCluster \in A /\ \A c \in A : EmptyCluster <= c
    BY <1>3, <1>4
<1> QED BY <1>1, <1>2, <1>5, <1>6, <1>7, WriteSound

\* The lowest free clusters write links include the first one, which the
\* entry names.
LEMMA LowestClusters ==
    ASSUME TypeOK, Solid, NEW b \in Nat, b > 0,
           ~(Cardinality(Available) < ceil_div(b, ClusterSize))
    PROVE  /\ ceil_div(b, ClusterSize) \in Nat /\ ceil_div(b, ClusterSize) > 0
           /\ EmptyClusters = Available
           /\ EmptyCluster \in LowestEmpty(ceil_div(b, ClusterSize))
           /\ LowestEmpty(ceil_div(b, ClusterSize)) \in SUBSET Available
           /\ \A c \in LowestEmpty(ceil_div(b, ClusterSize)) : EmptyCluster <= c
<1> DEFINE k == ceil_div(b, ClusterSize)
           A == LowestEmpty(k)
<1>1. k \in Nat /\ k > 0
    BY ConstantsAssumption DEF ceil_div
<1>2. EmptyClusters = Available
    BY ConstantsAssumption
       DEF Available, EmptyClusters, Clusters, Solid, ReservedKept, EMPTY, EOF,
           CLUSTER_0_VALUE
<1>3. IsFiniteSet(Available) /\ Available \in SUBSET Nat
  <2>1. IsFiniteSet(Clusters)
    BY FS_Interval, ConstantsAssumption DEF Clusters
  <2> QED BY <2>1, FS_Subset, ConstantsAssumption DEF Available, EmptyClusters, Clusters
<1>4. Available # {}
    BY <1>1, FS_EmptySet
<1>5. EmptyCluster \in Available /\ \A c \in Available : EmptyCluster <= c
    BY <1>4, EmptyClusterType
<1>6. EmptyCluster \in A
  <2>1. {c \in EmptyClusters : c < EmptyCluster} = {}
    <3>1. \A c \in EmptyClusters : c \in Nat /\ EmptyCluster \in Nat /\ EmptyCluster <= c
      BY <1>2, <1>3, <1>5
    <3>2. \A c \in EmptyClusters : ~(c < EmptyCluster)
      BY <3>1
    <3> QED BY <3>2
  <2>2. Cardinality({c \in EmptyClusters : c < EmptyCluster}) < k
    BY <1>1, <2>1, FS_EmptySet
  <2> QED BY <1>2, <1>5, <2>2 DEF LowestEmpty
<1>7. A \in SUBSET Available
    BY <1>2 DEF LowestEmpty
<1>8. \A c \in A : EmptyCluster <= c
    BY <1>5, <1>7
<1> QED BY <1>1, <1>2, <1>6, <1>7, <1>8

\* write of a file, short of a full directory, keeps consistency: the lowest
\* free clusters it links include the first one, which the entry names.
LEMMA WriteFileSound ==
    ASSUME TypeOK, Solid, NEW d \in Parents, NEW n \in Names, NEW e \in Exts,
           NEW b \in Sizes, NEW v \in Values,
           WriteFile(d, n, e, b, v), fault' = "none"
    PROVE  Solid' /\ (NothingLost => NothingLost')
<1> DEFINE k == ceil_div(b, ClusterSize)
           A == LowestEmpty(k)
           Piece(c) == <<v, Cardinality({x \in A : x <= c})>>
<1>1. store[d] \in Tables /\ d \in Clusters /\ d \in Allocated /\ b \in Nat /\ b # 0
  <2>1. b > 0 /\ WriteCode(d, n, e, b) = 0
    BY DEF WriteFile
  <2> QED BY <2>1, WriteCodeZero, ParentType, ParentAllocated, ConstantsAssumption
<1>2. FreeSlots(store[d]) # {}
    BY Zenon DEF WriteFile
<1>3. EmptyCluster \in A /\ A \in SUBSET Available /\ \A c \in A : EmptyCluster <= c
  <2>1. b > 0 /\ ~(Cardinality(Available) < k)
    BY WriteCodeZero DEF WriteFile
  <2> QED BY <1>1, <2>1, LowestClusters
<1>4. d \notin A
    BY <1>1, <1>3 DEF Available, EmptyClusters, Allocated
<1>5. fat' = [c \in Clusters |-> IF c \in A THEN Link(A, c) ELSE fat[c]]
    BY DEF WriteFile
<1>6. store' = [c \in Clusters |-> IF c = d THEN WithEntry(d, n, e, b)
                                    ELSE IF c \in A THEN Piece(c) ELSE store[c]]
    BY DEF WriteFile
<1>7. \A c \in A : Piece(c) \notin Tables
    BY PieceNotTable
<1>8. A \subseteq Clusters
    BY <1>3 DEF Available, EmptyClusters
<1> HIDE DEF A, Piece
<1>9.  /\ store'[d] = WithEntry(d, n, e, b)
       /\ \A c \in A : store'[c] \notin Tables
       /\ \A c \in Clusters \ (A \cup {d}) : store'[c] = store[c]
    BY <1>1, <1>4, <1>6, <1>7, <1>8
<1> QED BY <1>1, <1>2, <1>3, <1>5, <1>9, <1>3, WriteSound

\* What delete does to slot i, whose chain R starts at h. A folder it frees
\* is one cluster that lists nothing.
LEMMA DeleteEffect ==
    ASSUME TypeOK, Solid, NEW d \in Parents, NEW n, NEW e, n # NoName,
           Delete(d, n, e), fault' = "none"
    PROVE  \E i, h, R :
      /\ store[d] \in Tables /\ i = Min(Matches(store[d], n, e)) /\ h = store[d][i].cluster
      /\ i # 0 /\ i \in Slots /\ store[d][i].name = n /\ d \in Clusters /\ d \in Folders
      /\ i \in Used(d) /\ h \in Allocated /\ h # ROOT /\ ~Pointed(h) /\ h \in Clusters
      /\ h \in R /\ R \subseteq Clusters /\ R \subseteq Allocated \ {ROOT}
      /\ \A y \in R : fat[y] \in Clusters => fat[y] \in R
      /\ \A x \in R : x # h => \E y \in R : fat[y] = x
      /\ \A c \in R : fat'[c] = EMPTY
      /\ \A c \in Clusters \ R : fat'[c] = fat[c]
      /\ store'[d] \in Tables
      /\ \A c \in Clusters \ {d} : store'[c] = store[c]
      /\ \A j \in Slots \ {i} : store'[d][j] = store[d][j]
      /\ ~store'[d][i].used /\ store'[d][i].name = NoName
      /\ \A c \in Folders : c \in R => Used(c) = {}
<1>1. store[d] \in Tables /\ Matches(store[d], n, e) # {} /\ d \in Allocated
      /\ (Target(d, n, e).attr => ~HoldsEntries(Target(d, n, e).cluster))
    BY DeleteCodeZero, ParentAllocated DEF Delete
<1>2. PICK i : i = Min(Matches(store[d], n, e))
    OBVIOUS
<1>3. PICK h : h = store[d][i].cluster
    OBVIOUS
<1>4. PICK R : R = Chain(h)
    OBVIOUS
<1>5. i # 0 /\ i \in Slots /\ store[d][i].name = n /\ d \in Clusters /\ d \in Folders
  <2>1. i \in Slots /\ store[d][i].name = n
    BY <1>1, <1>2, MatchType
  <2>2. i # 0
    BY <1>2 DEF Delete
  <2> QED BY <1>1, <2>1, <2>2 DEF Allocated, Folders
<1>6. i \in Used(d)
  <2>1. store[d][i].used
    BY <1>5 DEF Solid, FreeSlotsNameless
  <2> QED BY <1>5, <2>1, ConstantsAssumption DEF Used, Slots
<1>7. h \in Allocated /\ h # ROOT /\ ~Pointed(h) /\ h \in Clusters
    BY <1>3, <1>5, <1>6 DEF Solid, EntriesOwnChains, Allocated
<1>8. /\ h \in R /\ R \subseteq Clusters
      /\ \A y \in R : fat[y] \in Clusters => fat[y] \in R
      /\ \A x \in R : x # h => \E y \in R : fat[y] = x
    BY <1>4, <1>7, ChainLeast, ChainClosed, ChainPredecessor DEF Closed
<1>9. R \subseteq Allocated \ {ROOT}
  <2> DEFINE S == Allocated \ {ROOT}
  <2>1. S \in SUBSET Clusters /\ h \in S
    BY <1>7 DEF Allocated
  <2>2. Closed(S)
    <3> SUFFICES ASSUME NEW y \in S, fat[y] \in Clusters PROVE fat[y] \in S
      BY DEF Closed
    <3>1. fat[y] # EOF
      BY ConstantsAssumption DEF Clusters, EOF
    <3>2. fat[y] \in Allocated /\ fat[y] > y
      BY <3>1 DEF Solid, ChainsTerminate
    <3>3. y \in Nat /\ y >= 2
      BY ConstantsAssumption DEF Allocated, Clusters
    <3> QED BY <3>2, <3>3 DEF ROOT
  <2> QED BY <1>4, <1>7, <2>1, <2>2, ChainLeast
<1>10. /\ \A c \in R : fat'[c] = EMPTY
       /\ \A c \in Clusters \ R : fat'[c] = fat[c]
  <2>1. fat' = [c \in Clusters |-> IF c \in R THEN EMPTY ELSE fat[c]]
    BY <1>2, <1>3, <1>4, Zenon DEF Delete
  <2> QED BY <1>8, <2>1
<1>11. /\ store'[d] \in Tables
       /\ \A c \in Clusters \ {d} : store'[c] = store[c]
       /\ \A j \in Slots \ {i} : store'[d][j] = store[d][j]
       /\ ~store'[d][i].used /\ store'[d][i].name = NoName
  <2>1. store[d][i] \in Entry
    BY <1>1, <1>5 DEF Tables
  <2>2. store' = [store EXCEPT ![d] = [store[d] EXCEPT ![i] =
                  [store[d][i] EXCEPT !.used = FALSE, !.name = NoName, !.ext = NoExt]]]
    BY <1>1, <1>2, <1>5, <2>1 DEF Delete, TypeOK, Tables, Entry
  <2>3. [store[d][i] EXCEPT !.used = FALSE, !.name = NoName, !.ext = NoExt] \in Entry
    BY <2>1, ConstantsAssumption DEF Entry
  <2> QED BY <1>1, <1>5, <2>1, <2>2, <2>3 DEF TypeOK, Tables, Entry
<1>12. ASSUME NEW c \in Folders, NEW j \in Used(c) PROVE c \notin R
  <2> SUFFICES ASSUME c \in R PROVE FALSE
    OBVIOUS
  <2>1. ~Pointed(c)
    BY DEF Solid, FoldersAlone
  <2>2. c = h
    BY <1>8, <1>9, <2>1 DEF Pointed
  <2>3. store[d][i].attr
    BY <1>3, <1>5, <1>6, <2>2, Zenon DEF Solid, FoldersLinked
  <2>4. Target(d, n, e) = store[d][i]
    BY <1>2 DEF Target
  <2>5. ~HoldsEntries(c)
    BY <1>1, <1>3, <2>2, <2>3, <2>4
  <2> QED BY <2>5 DEF HoldsEntries, Used, Folders
<1> QED BY <1>1, <1>2, <1>3, <1>5, <1>6, <1>7, <1>8, <1>9, <1>10, <1>11, <1>12

\* delete keeps consistency, unless what it deletes is a table's own entry:
\* the chain it frees is led to from nowhere else, and a folder it deletes is
\* one cluster that lists nothing.
LEMMA DeleteSound ==
    ASSUME TypeOK, Solid, NEW d \in Parents, NEW n, NEW e, n # NoName,
           Delete(d, n, e), fault' = "none"
    PROVE  Solid' /\ (NothingLost => NothingLost')
<1>1. PICK i, h, R :
      /\ store[d] \in Tables /\ h = store[d][i].cluster
      /\ i # 0 /\ i \in Slots /\ store[d][i].name = n /\ d \in Clusters /\ d \in Folders
      /\ i \in Used(d) /\ h \in Allocated /\ h # ROOT /\ ~Pointed(h) /\ h \in Clusters
      /\ h \in R /\ R \subseteq Clusters /\ R \subseteq Allocated \ {ROOT}
      /\ \A y \in R : fat[y] \in Clusters => fat[y] \in R
      /\ \A x \in R : x # h => \E y \in R : fat[y] = x
      /\ \A c \in R : fat'[c] = EMPTY
      /\ \A c \in Clusters \ R : fat'[c] = fat[c]
      /\ store'[d] \in Tables
      /\ \A c \in Clusters \ {d} : store'[c] = store[c]
      /\ \A j \in Slots \ {i} : store'[d][j] = store[d][j]
      /\ ~store'[d][i].used /\ store'[d][i].name = NoName
      /\ \A c \in Folders : c \in R => Used(c) = {}
    BY DeleteEffect, SMTT(40)
<1>2. Allocated' = Allocated \ R
    BY <1>1 DEF Allocated
<1>3. Folders' = Folders \ R
    BY <1>1, <1>2, <1>1 DEF Folders, Allocated
<1>4. ASSUME NEW c \in Folders, NEW j \in Used(c), ~(c = d /\ j = i)
       PROVE  /\ c \in Folders' /\ j \in Used(c)' /\ store'[c][j] = store[c][j]
              /\ store[c][j].cluster \in Allocated \ R
  <2>1. store'[c][j] = store[c][j]
    BY <1>1, <1>4 DEF Used, Folders, Allocated
  <2>2. c \in Folders' /\ j \in Used(c)'
    BY <1>3, <1>1, <2>1 DEF Used
  <2>3. PICK g : g = store[c][j].cluster
    OBVIOUS
  <2>4. g \in Allocated /\ ~Pointed(g) /\ g # h
    BY <1>1, <1>4, <2>3 DEF Solid, EntriesOwnChains
  <2>5. g \notin R
    BY <1>1, <2>4 DEF Pointed
  <2> QED BY <2>1, <2>2, <2>3, <2>4, <2>5
<1>5. ASSUME NEW c \in Folders', NEW j \in Used(c)'
       PROVE  c \in Folders /\ j \in Used(c) /\ store'[c][j] = store[c][j] /\ ~(c = d /\ j = i)
  <2>1. c \in Folders /\ c \in Clusters /\ j \in Slots /\ j > 0 /\ store'[c][j].used
    BY <1>3 DEF Used, Folders, Allocated
  <2>2. ~(c = d /\ j = i)
    BY <1>1, <2>1
  <2>3. store'[c][j] = store[c][j]
    BY <1>1, <2>1, <2>2
  <2> QED BY <2>1, <2>2, <2>3 DEF Used
<1>6. \A c \in Folders : c \in Clusters /\ store'[c][0] = store[c][0]
    BY <1>1, ConstantsAssumption DEF Folders, Allocated, Slots
<1>7. \A c \in Allocated' : c \in Allocated /\ c \notin R /\ fat'[c] = fat[c]
    BY <1>1, <1>2 DEF Allocated
<1>8. ReservedKept'
  <2>1. {0, 1, ROOT} \subseteq Clusters \ R
    BY <1>1, ConstantsAssumption DEF Clusters, ROOT, Allocated
  <2> QED BY <1>1, <2>1 DEF Solid, ReservedKept
<1>9. ChainsTerminate'
  <2> SUFFICES ASSUME NEW c \in Allocated', fat'[c] # EOF
               PROVE  fat'[c] \in Allocated' /\ fat'[c] > c
    BY DEF ChainsTerminate
  <2>1. c \in Allocated /\ c \notin R /\ fat'[c] = fat[c]
    BY <1>7
  <2>2. fat[c] \in Allocated /\ fat[c] > c
    BY <2>1 DEF Solid, ChainsTerminate
  <2>3. fat[c] # h
    BY <1>1, <2>1 DEF Pointed
  <2>4. ASSUME fat[c] \in R PROVE FALSE
    <3>1. PICK y \in R : fat[y] = fat[c]
      BY <1>1, <2>3, <2>4
    <3>2. y = c
      BY <1>1, <2>1, <3>1 DEF Solid, NoCrossLinks
    <3> QED BY <2>1, <3>1, <3>2
  <2> QED BY <1>2, <2>1, <2>2, <2>4
<1>10. NoCrossLinks'
    BY <1>7 DEF Solid, NoCrossLinks
<1>11. EntriesOwnChains'
  <2> SUFFICES ASSUME NEW c \in Folders', NEW j \in Used(c)'
               PROVE  LET g == store'[c][j].cluster
                      IN  /\ g \in Allocated' /\ g # ROOT
                          /\ \A y \in Allocated' : fat'[y] # g
                          /\ \A a \in Folders' : \A k \in Used(a)' :
                                 store'[a][k].cluster = g => c = a /\ j = k
    BY DEF EntriesOwnChains, Pointed
  <2>1. c \in Folders /\ j \in Used(c) /\ store'[c][j] = store[c][j] /\ ~(c = d /\ j = i)
    BY <1>5
  <2>2. store[c][j].cluster \in Allocated' /\ store[c][j].cluster # ROOT
    BY <1>2, <1>4, <2>1 DEF Solid, EntriesOwnChains
  <2>3. \A y \in Allocated' : fat'[y] # store[c][j].cluster
    BY <1>7, <2>1 DEF Solid, EntriesOwnChains, Pointed
  <2>4. ASSUME NEW a \in Folders', NEW k \in Used(a)',
               store'[a][k].cluster = store'[c][j].cluster
        PROVE  c = a /\ j = k
    BY <1>5, <2>1, <2>4 DEF Solid, EntriesOwnChains
  <2> QED BY <2>1, <2>2, <2>3, <2>4
<1>12. FoldersLinked'
  <2>1. ROOT \in Folders' /\ store'[ROOT][0].cluster = ROOT
    BY <1>1, <1>3, <1>6 DEF Solid, FoldersLinked
  <2>2. \A c \in Folders' : store'[c][0].attr
    <3>1. \A c \in Folders : store[c][0].attr
      BY Zenon DEF Solid, FoldersLinked
    <3> QED BY <1>3, <1>6, <3>1
  <2>3. ASSUME NEW c \in Folders', NEW j \in Used(c)'
        PROVE  LET g == store'[c][j].cluster
               IN  /\ store'[c][j].attr <=> g \in Folders'
                   /\ store'[c][j].attr => fat'[g] = EOF /\ store'[g][0].cluster = c
    <3>1. c \in Folders /\ j \in Used(c) /\ store'[c][j] = store[c][j] /\ ~(c = d /\ j = i)
      BY <1>5
    <3> DEFINE g == store[c][j].cluster
    <3>2. /\ store[c][j].attr <=> g \in Folders
          /\ store[c][j].attr => fat[g] = EOF /\ store[g][0].cluster = c
      BY <3>1, ZenonT(60) DEF Solid, FoldersLinked
    <3>3. g \in Allocated \ R
      BY <1>4, <3>1
    <3>4. g \in Folders' <=> g \in Folders
      BY <1>3, <3>3
    <3>5. fat'[g] = fat[g] /\ (g \in Folders => store'[g][0] = store[g][0])
      BY <1>1, <1>6, <3>3 DEF Allocated
    <3> HIDE DEF g
    <3>6. /\ store[c][j].attr <=> g \in Folders'
          /\ store[c][j].attr => fat'[g] = EOF /\ store'[g][0].cluster = c
      BY <3>2, <3>4, <3>5, Zenon
    <3> QED BY <3>1, <3>6 DEF g
  <2> QED BY <2>1, <2>2, <2>3 DEF FoldersLinked
<1>13. NothingLost => FoldersListed'
  <2> SUFFICES ASSUME NothingLost, NEW c \in Folders', c # ROOT
               PROVE  \E p \in Folders' : \E j \in Used(p)' : store'[p][j].cluster = c
    BY DEF FoldersListed
  <2>1. c \in Folders /\ c \notin R
    BY <1>3
  <2>2. PICK p \in Folders : \E j \in Used(p) : store[p][j].cluster = c
    BY <2>1 DEF NothingLost, FoldersListed
  <2>3. PICK j \in Used(p) : store[p][j].cluster = c
    BY <2>2
  <2>4. ~(p = d /\ j = i)
    BY <1>1, <2>1, <2>3
  <2> QED BY <1>4, <2>3, <2>4
<1>14. NothingLost => ClustersOwned'
  <2> SUFFICES ASSUME NothingLost, NEW x \in Allocated'
               PROVE  \/ x = ROOT
                      \/ Pointed(x)'
                      \/ \E c \in Folders' : \E j \in Used(c)' : store'[c][j].cluster = x
    BY DEF ClustersOwned
  <2>1. x \in Allocated /\ x \notin R /\ x \in Clusters
    BY <1>7 DEF Allocated
  <2>2. CASE Pointed(x)
    <3>1. PICK y \in Allocated : fat[y] = x
      BY <2>2 DEF Pointed
    <3>2. y \notin R
      BY <1>1, <2>1, <3>1
    <3>3. y \in Allocated' /\ fat'[y] = x
      BY <1>2, <1>7, <3>1, <3>2
    <3> QED BY <3>3 DEF Pointed
  <2>3. ASSUME NEW c \in Folders, NEW j \in Used(c), store[c][j].cluster = x
        PROVE  \E a \in Folders' : \E k \in Used(a)' : store'[a][k].cluster = x
    <3>1. ~(c = d /\ j = i)
      BY <1>1, <2>1, <2>3
    <3> QED BY <1>4, <2>3, <3>1
  <2> QED BY <2>1, <2>2, <2>3 DEF NothingLost, ClustersOwned
<1>15. FreeSlotsNameless'
  <2> SUFFICES ASSUME NEW c \in Folders', NEW j \in Slots, ~store'[c][j].used
               PROVE  store'[c][j].name = NoName
    BY DEF FreeSlotsNameless, Slots
  <2>1. c \in Folders /\ c \in Clusters
    BY <1>3, <1>6
  <2>2. CASE c = d /\ j = i
    BY <1>1, <2>2
  <2>3. CASE ~(c = d /\ j = i)
    <3>1. store'[c][j] = store[c][j]
      BY <1>1, <2>1, <2>3
    <3> QED BY <2>1, <3>1 DEF Solid, FreeSlotsNameless
  <2> QED BY <2>2, <2>3
<1>16. FoldersAlone'
  <2> SUFFICES ASSUME NEW c \in Folders'
               PROVE  fat'[c] = EOF /\ \A y \in Allocated' : fat'[y] # c
    BY DEF FoldersAlone, Pointed
  <2>1. c \in Folders /\ c \notin R /\ c \in Clusters
    BY <1>3, <1>6
  <2> QED BY <1>1, <1>7, <2>1 DEF Solid, FoldersAlone, Pointed
<1> QED BY <1>8, <1>9, <1>10, <1>11, <1>12, <1>13, <1>14, <1>15, <1>16 DEF Solid, NothingLost

\* The formatted disk is consistent.
LEMMA FormattedSound ==
    ASSUME fat = InitFat, store = InitStore
    PROVE  Sound
<1>1. /\ fat = InitFat /\ store = InitStore
      /\ {0, 1, 2} \subseteq Clusters /\ ROOT = 2 /\ 0 \in Slots
    BY ConstantsAssumption DEF Clusters, Slots, ROOT
<1>2. /\ fat[0] = CLUSTER_0_VALUE /\ fat[1] = EOF /\ fat[ROOT] = EOF
      /\ \A c \in Clusters \ {0, 1, ROOT} : fat[c] = EMPTY
    BY <1>1 DEF InitFat
<1>3. Allocated = {ROOT}
    BY <1>1, <1>2, ConstantsAssumption DEF Allocated, Clusters, EMPTY, EOF
<1>4. store[ROOT] = init_directory_table(RootName, ROOT)
    BY <1>1 DEF InitStore
<1>5. store[ROOT] \in Tables
  <2>1. ZeroEntry \in Entry
    BY ConstantsAssumption DEF ZeroEntry, Entry, Clusters
  <2>2. [ZeroEntry EXCEPT !.name = RootName, !.attr = TRUE, !.used = TRUE,
                          !.cluster = ROOT] \in Entry
    BY <1>1, <2>1 DEF Entry
  <2> QED BY <1>4, <2>1, <2>2 DEF init_directory_table, ZeroTable, Tables
<1>6. Folders = {ROOT}
    BY <1>3, <1>5 DEF Folders
<1>7. /\ store[ROOT][0] = [ZeroEntry EXCEPT !.name = RootName, !.attr = TRUE, !.used = TRUE,
                                            !.cluster = ROOT]
      /\ \A j \in Slots \ {0} : store[ROOT][j] = ZeroEntry
    BY <1>1, <1>4 DEF init_directory_table, ZeroTable
<1>8. store[ROOT][0].attr /\ store[ROOT][0].cluster = ROOT /\ store[ROOT][0].used
    BY <1>7 DEF ZeroEntry
<1>9. \A j \in Slots \ {0} : ~store[ROOT][j].used /\ store[ROOT][j].name = NoName
    BY <1>7 DEF ZeroEntry
<1>10. Used(ROOT) = {}
    BY <1>9 DEF Used
<1>11. ReservedKept /\ ChainsTerminate /\ NoCrossLinks
    BY <1>2, <1>3 DEF ReservedKept, ChainsTerminate, NoCrossLinks
<1>12. EntriesOwnChains /\ FoldersListed /\ ClustersOwned
    BY <1>3, <1>6, <1>10 DEF EntriesOwnChains, FoldersListed, ClustersOwned
<1>13. FoldersLinked
    BY <1>6, <1>8, <1>10 DEF FoldersLinked
<1>14. FreeSlotsNameless
    BY <1>6, <1>8, <1>9, Zenon DEF FreeSlotsNameless
<1>15. FoldersAlone
    BY <1>2, <1>3, <1>6, <1>1 DEF FoldersAlone, Pointed, EOF
<1> QED BY <1>11, <1>12, <1>13, <1>14, <1>15 DEF Sound, Solid, NothingLost

\* create_fat32 leaves a consistent disk.
LEMMA InitSound == Init => Sound
BY FormattedSound DEF Init

\* Nothing that depends on the tables alone changes when they do not.
LEMMA UnchangedSound ==
    ASSUME UNCHANGED <<fat, store>>
    PROVE  (Solid => Solid') /\ (NothingLost => NothingLost') /\ (Sound => Sound')
BY DEF Sound, Solid, NothingLost, ReservedKept, ChainsTerminate, NoCrossLinks, EntriesOwnChains,
       FoldersLinked, FreeSlotsNameless, FoldersAlone, FoldersListed, ClustersOwned,
       Allocated, Folders, Used, Pointed

\* Every step keeps the inductive invariant.
LEMMA NextIInv == IInv /\ [Next]_vars => IInv'
<1> SUFFICES ASSUME IInv, [Next]_vars PROVE IInv'
    OBVIOUS
<1>1. TypeOK /\ TypeOK'
    BY NextType DEF IInv
<1> SUFFICES ASSUME fault' = "none" PROVE Sound'
    BY <1>1 DEF IInv
<1>2. CASE UNCHANGED vars
    BY <1>2, UnchangedSound DEF vars, IInv
<1>3. CASE Stopped
    BY <1>3, UnchangedSound DEF Stopped, vars, IInv
<1>4. CASE fault = "none" /\ Operation
  <2>1. Sound
    BY <1>4 DEF IInv
  <2>2. PICK d \in Parents, n \in Names, e \in Exts :
            \/ WriteFolder(d, n, e)
            \/ \E b \in Sizes : \/ WriteRefused(d, n, e, b)
                                \/ Read(d, n, e, b)
                                \/ \E v \in Values : WriteFile(d, n, e, b, v)
            \/ DeleteRefused(d, n, e)
            \/ Delete(d, n, e)
            \/ ReadDirectory(d, n, e)
            \/ MoveToChild(d, n)
            \/ MoveToParent(d)
    BY <1>4 DEF Operation
  <2>3. CASE WriteFolder(d, n, e)
    BY <1>1, <2>1, <2>3, WriteFolderSound DEF Sound
  <2>4. ASSUME NEW b \in Sizes, NEW v \in Values, WriteFile(d, n, e, b, v)
        PROVE  Sound'
    BY <1>1, <2>1, <2>4, WriteFileSound DEF Sound
  <2>5. CASE Delete(d, n, e)
    BY <1>1, <2>1, <2>5, DeleteSound, ConstantsAssumption DEF Sound
  <2>6. ASSUME NEW b \in Sizes, WriteRefused(d, n, e, b) \/ Read(d, n, e, b)
        PROVE  Sound'
    BY <2>1, <2>6, UnchangedSound DEF WriteRefused, Read
  <2>7. CASE \/ DeleteRefused(d, n, e) \/ ReadDirectory(d, n, e)
             \/ MoveToChild(d, n) \/ MoveToParent(d)
    BY <2>1, <2>7, UnchangedSound DEF DeleteRefused, ReadDirectory, MoveToChild, MoveToParent
  <2> QED BY <2>2, <2>3, <2>4, <2>5, <2>6, <2>7
<1> QED BY <1>2, <1>3, <1>4 DEF Next

\* write and delete keep the allocation table and the directory tables
\* consistent on a disk of any size: chains end, never meet, and each belongs
\* to the one entry that names it, until a write or delete falls through.
THEOREM AlwaysConsistent == Spec => []Consistent
<1>1. Init => IInv
    BY InitType, InitSound DEF IInv
<1>2. IInv => Consistent
    BY DEF IInv, Sound, Solid, Consistent
<1> QED BY <1>1, <1>2, NextIInv, PTL DEF Spec

\* write and delete never lose a cluster.
THEOREM NeverLeaks == Spec => []NoLeak
<1>1. Init => IInv
    BY InitType, InitSound DEF IInv
<1>2. IInv => NoLeak
    BY DEF IInv, Sound, NothingLost, NoLeak
<1> QED BY <1>1, <1>2, NextIInv, PTL DEF Spec

\* One step leaves the pieces of files it does not free as they are.
LEMMA NextUntouched ==
    ASSUME IInv, [Next]_vars, fault' = "none",
           NEW c \in Allocated \ Folders, fat'[c] # EMPTY
    PROVE  fat'[c] = fat[c] /\ store'[c] = store[c]
<1>0. c \in Clusters /\ TypeOK
    BY DEF Allocated, IInv
<1>1. CASE UNCHANGED <<fat, store>>
    BY <1>1
<1>2. CASE fault = "none" /\ Operation
  <2>1. Sound
    BY <1>2 DEF IInv
  <2>2. PICK d \in Parents, n \in Names, e \in Exts :
            \/ WriteFolder(d, n, e)
            \/ \E b \in Sizes : \/ WriteRefused(d, n, e, b)
                                \/ Read(d, n, e, b)
                                \/ \E v \in Values : WriteFile(d, n, e, b, v)
            \/ DeleteRefused(d, n, e)
            \/ Delete(d, n, e)
            \/ ReadDirectory(d, n, e)
            \/ MoveToChild(d, n)
            \/ MoveToParent(d)
    BY <1>2 DEF Operation
  <2>3. d \in Allocated /\ d \in Clusters
    BY <1>0, <2>1, ParentAllocated DEF Sound, Allocated
  <2>4. CASE WriteFolder(d, n, e)
    <3>1. c # d
      BY <2>3, <2>4, WriteCodeZero DEF WriteFolder, Folders
    <3>2. Available # {}
      BY <2>4, Zenon DEF WriteFolder
    <3>3. EmptyCluster \in Clusters /\ EmptyCluster # c
      BY <1>0, <3>2, EmptyClusterType DEF Available, EmptyClusters, Allocated
    <3> QED BY <1>0, <2>3, <2>4, <3>1, <3>3 DEF WriteFolder, TypeOK
  <2>5. ASSUME NEW b \in Sizes, NEW v \in Values, WriteFile(d, n, e, b, v)
        PROVE  fat'[c] = fat[c] /\ store'[c] = store[c]
    <3>1. c # d
      BY <2>3, <2>5, WriteCodeZero DEF WriteFile, Folders
    <3>2. c \notin LowestEmpty(ceil_div(b, ClusterSize))
      BY DEF LowestEmpty, EmptyClusters, Allocated
    <3> QED BY <1>0, <2>5, <3>1, <3>2 DEF WriteFile
  <2>6. CASE Delete(d, n, e)
    <3> DEFINE i == Min(Matches(store[d], n, e))
    <3>1. store[d] \in Tables /\ c # d
      BY <2>3, <2>6, DeleteCodeZero DEF Delete, Folders
    <3>2. fat' = [x \in Clusters |-> IF x \in Chain(store[d][i].cluster)
                                     THEN EMPTY ELSE fat[x]]
      BY <2>6, Zenon DEF Delete
    <3>3. store' = [store EXCEPT ![d][i].used = FALSE,
                                 ![d][i].name = NoName, ![d][i].ext = NoExt]
      BY <2>6, Zenon DEF Delete
    <3>4. fat'[c] = fat[c]
      BY <1>0, <3>2
    <3>5. store'[c] = store[c]
      BY <1>0, <2>3, <3>1, <3>3 DEF TypeOK
    <3> QED BY <3>4, <3>5
  <2>7. ASSUME NEW b \in Sizes, WriteRefused(d, n, e, b) \/ Read(d, n, e, b)
        PROVE  fat'[c] = fat[c] /\ store'[c] = store[c]
    BY <2>7 DEF WriteRefused, Read
  <2>8. CASE \/ DeleteRefused(d, n, e) \/ ReadDirectory(d, n, e)
             \/ MoveToChild(d, n) \/ MoveToParent(d)
    BY <2>8 DEF DeleteRefused, ReadDirectory, MoveToChild, MoveToParent
  <2> QED BY <2>2, <2>4, <2>5, <2>6, <2>7, <2>8
<1> QED BY <1>1, <1>2 DEF Next, Stopped, vars

\* No operation rewrites or relinks a piece of a file it does not delete.
THEOREM FilesStayPut == Spec => OtherFilesUntouched
<1>1. Init => IInv
    BY InitType, InitSound DEF IInv
<1>2. IInv /\ [Next]_vars =>
          [fault' = "none" =>
              \A c \in Allocated \ Folders :
                  fat'[c] # EMPTY => fat'[c] = fat[c] /\ store'[c] = store[c]]_vars
    BY NextUntouched
<1> QED BY <1>1, <1>2, NextIInv, PTL DEF Spec, OtherFilesUntouched
-----------------------------------------------------------------------------
(* Names. A table in which no name and extension stand twice stays one.    *)

Distinct(t) ==
    \A i, j \in Slots : t[i].name = t[j].name /\ t[i].ext = t[j].ext
                        => i = j \/ t[i].name = NoName

\* The table of a new folder holds one name.
LEMMA NewTableDistinct ==
    ASSUME NEW n, NEW p
    PROVE  Distinct(init_directory_table(n, p))
<1>1. \A i \in Slots \ {0} : init_directory_table(n, p)[i].name = NoName
    BY DEF init_directory_table, ZeroTable, ZeroEntry
<1> QED BY <1>1 DEF Distinct

\* write adds an entry its search did not find.
LEMMA WithEntryDistinct ==
    ASSUME TypeOK, NEW d, NEW n, NEW e, NEW b, store[d] \in Tables,
           Distinct(store[d]), Matches(store[d], n, e) = {}
    PROVE  Distinct(WithEntry(d, n, e, b))
<1> DEFINE x == NewEntryIdx(store[d])
           t == WithEntry(d, n, e, b)
<1>1. x \in Slots
    BY NewEntryIdxType
<1>2. t[x].name = n /\ t[x].ext = e /\ \A i \in Slots \ {x} : t[i] = store[d][i]
    BY <1>1 DEF WithEntry, NewEntry, Tables
<1>3. \A i \in Slots : ~(store[d][i].name = n /\ store[d][i].ext = e)
    BY DEF Matches
<1> HIDE DEF t
<1>4. \A i, j \in Slots : t[i].name = t[j].name /\ t[i].ext = t[j].ext
                          => i = j \/ t[i].name = NoName
    BY <1>2, <1>3 DEF Distinct
<1> QED BY <1>4 DEF Distinct, t

\* delete takes a name away.
LEMMA ClearedDistinct ==
    ASSUME NEW t \in Tables, NEW u \in Tables, NEW x \in Slots, Distinct(t),
           u[x].name = NoName, \A i \in Slots \ {x} : u[i] = t[i]
    PROVE  Distinct(u)
BY DEF Distinct

\* The names of every folder are distinct.
AllDistinct == \A c \in Folders : Distinct(store[c])

\* write of a folder adds a name to one table, and a table with one name.
LEMMA WriteFolderNames ==
    ASSUME TypeOK, Solid, AllDistinct, NEW d \in Parents, NEW n, NEW e,
           WriteFolder(d, n, e)
    PROVE  AllDistinct'
<1> SUFFICES ASSUME NEW c \in Folders' PROVE Distinct(store'[c])
    BY DEF AllDistinct, Distinct
<1>1. c \in Clusters /\ d \in Allocated /\ d \in Clusters
    BY ParentAllocated DEF Folders, Allocated
<1>2. store[d] \in Tables /\ Matches(store[d], n, e) = {}
    BY WriteCodeZero DEF WriteFolder
<1>3. Distinct(store[d])
    BY <1>1, <1>2 DEF AllDistinct, Folders
<1>4. Distinct(WithEntry(d, n, e, 0)) /\ Distinct(init_directory_table(n, d))
    BY <1>2, <1>3, WithEntryDistinct, NewTableDistinct
<1>5. EmptyCluster \in Clusters
    BY EmptyClusterType
<1>6. CASE c = d
    BY <1>1, <1>4, <1>6 DEF WriteFolder, TypeOK
<1>7. CASE c = EmptyCluster /\ c # d
    BY <1>1, <1>4, <1>5, <1>7 DEF WriteFolder, TypeOK
<1>8. CASE c # EmptyCluster /\ c # d
  <2>1. fat'[c] = fat[c] /\ store'[c] = store[c]
    BY <1>1, <1>5, <1>8 DEF WriteFolder, TypeOK
  <2>2. c \in Folders
    BY <2>1 DEF Folders, Allocated
  <2> QED BY <2>1, <2>2 DEF AllDistinct
<1> QED BY <1>6, <1>7, <1>8

\* write of a file adds a name to one table, and no table.
LEMMA WriteFileNames ==
    ASSUME TypeOK, Solid, AllDistinct, NEW d \in Parents, NEW n, NEW e, NEW b,
           NEW v \in Values, WriteFile(d, n, e, b, v)
    PROVE  AllDistinct'
<1> SUFFICES ASSUME NEW c \in Folders' PROVE Distinct(store'[c])
    BY DEF AllDistinct, Distinct
<1> DEFINE A == LowestEmpty(ceil_div(b, ClusterSize))
           Piece(x) == <<v, Cardinality({y \in A : y <= x})>>
<1>1. c \in Clusters /\ d \in Allocated /\ d \in Clusters
    BY ParentAllocated DEF Folders, Allocated
<1>2. store[d] \in Tables /\ Matches(store[d], n, e) = {}
    BY WriteCodeZero DEF WriteFile
<1>3. Distinct(store[d])
    BY <1>1, <1>2 DEF AllDistinct, Folders
<1>4. Distinct(WithEntry(d, n, e, b))
    BY <1>2, <1>3, WithEntryDistinct
<1>5. /\ fat'[c] = IF c \in A THEN Link(A, c) ELSE fat[c]
      /\ store'[c] = IF c = d THEN WithEntry(d, n, e, b)
                     ELSE IF c \in A THEN Piece(c) ELSE store[c]
    BY <1>1 DEF WriteFile
<1>6. Piece(c) \notin Tables
    BY PieceNotTable
<1>7. store'[c] \in Tables
    BY DEF Folders
<1>8. CASE c = d
    BY <1>4, <1>5, <1>8
<1>9. CASE c # d
  <2>1. fat'[c] = fat[c] /\ store'[c] = store[c]
    BY <1>5, <1>6, <1>7, <1>9
  <2>2. c \in Folders
    BY <2>1 DEF Folders, Allocated
  <2> QED BY <2>1, <2>2 DEF AllDistinct
<1> QED BY <1>8, <1>9

\* delete takes a name away, and perhaps a table.
LEMMA DeleteNames ==
    ASSUME TypeOK, Solid, AllDistinct, NEW d \in Parents, NEW n, NEW e, n # NoName,
           Delete(d, n, e), fault' = "none"
    PROVE  AllDistinct'
<1> SUFFICES ASSUME NEW c \in Folders' PROVE Distinct(store'[c])
    BY DEF AllDistinct, Distinct
<1>1. PICK i, h, R :
      /\ store[d] \in Tables /\ h = store[d][i].cluster
      /\ i # 0 /\ i \in Slots /\ store[d][i].name = n /\ d \in Clusters /\ d \in Folders
      /\ i \in Used(d) /\ h \in Allocated /\ h # ROOT /\ ~Pointed(h) /\ h \in Clusters
      /\ h \in R /\ R \subseteq Clusters /\ R \subseteq Allocated \ {ROOT}
      /\ \A y \in R : fat[y] \in Clusters => fat[y] \in R
      /\ \A x \in R : x # h => \E y \in R : fat[y] = x
      /\ \A x \in R : fat'[x] = EMPTY
      /\ \A x \in Clusters \ R : fat'[x] = fat[x]
      /\ store'[d] \in Tables
      /\ \A x \in Clusters \ {d} : store'[x] = store[x]
      /\ \A j \in Slots \ {i} : store'[d][j] = store[d][j]
      /\ ~store'[d][i].used /\ store'[d][i].name = NoName
      /\ \A x \in Folders : x \in R => Used(x) = {}
    BY DeleteEffect, SMTT(40)
<1>2. CASE c = d
    BY <1>1, <1>2, ClearedDistinct DEF AllDistinct
<1>3. CASE c # d
  <2>1. fat'[c] = fat[c] /\ store'[c] = store[c]
    BY <1>1, <1>3 DEF Folders, Allocated
  <2>2. c \in Folders
    BY <2>1 DEF Folders, Allocated
  <2> QED BY <2>1, <2>2 DEF AllDistinct
<1> QED BY <1>2, <1>3

\* The formatted disk lists nothing.
LEMMA FormattedNames ==
    ASSUME fat = InitFat, store = InitStore
    PROVE  AllDistinct
<1> SUFFICES ASSUME NEW c \in Folders PROVE Distinct(store[c])
    BY DEF AllDistinct
<1>1. c = ROOT
    BY ConstantsAssumption DEF InitFat, Folders, Allocated, Clusters, ROOT
<1>2. store[c] = init_directory_table(RootName, ROOT)
    BY <1>1, ConstantsAssumption DEF InitStore, Clusters, ROOT
<1> QED BY <1>2, NewTableDistinct

\* Every step keeps names unique.
LEMMA NextNamesUnique == IInv /\ NamesUnique /\ [Next]_vars => NamesUnique'
<1> SUFFICES ASSUME IInv, NamesUnique, [Next]_vars, fault' = "none"
             PROVE  AllDistinct'
    BY DEF NamesUnique, AllDistinct, Distinct
<1>1. CASE UNCHANGED <<fat, store, fault>>
    BY <1>1 DEF NamesUnique, AllDistinct, Distinct, Folders, Allocated
<1>2. CASE fault = "none" /\ Operation
  <2>1. TypeOK /\ Solid /\ AllDistinct
    BY <1>2 DEF IInv, Sound, NamesUnique, AllDistinct, Distinct
  <2>2. PICK d \in Parents, n \in Names, e \in Exts :
            \/ WriteFolder(d, n, e)
            \/ \E b \in Sizes : \/ WriteRefused(d, n, e, b)
                                \/ Read(d, n, e, b)
                                \/ \E v \in Values : WriteFile(d, n, e, b, v)
            \/ DeleteRefused(d, n, e)
            \/ Delete(d, n, e)
            \/ ReadDirectory(d, n, e)
            \/ MoveToChild(d, n)
            \/ MoveToParent(d)
    BY <1>2 DEF Operation
  <2>3. CASE WriteFolder(d, n, e)
    BY <2>1, <2>3, WriteFolderNames
  <2>4. ASSUME NEW b \in Sizes, NEW v \in Values, WriteFile(d, n, e, b, v)
        PROVE  AllDistinct'
    BY <2>1, <2>4, WriteFileNames
  <2>5. CASE Delete(d, n, e)
    BY <2>1, <2>5, DeleteNames, ConstantsAssumption
  <2>6. ASSUME NEW b \in Sizes, WriteRefused(d, n, e, b) \/ Read(d, n, e, b)
        PROVE  AllDistinct'
    BY <1>1, <2>6 DEF WriteRefused, Read
  <2>7. CASE \/ DeleteRefused(d, n, e) \/ ReadDirectory(d, n, e)
             \/ MoveToChild(d, n) \/ MoveToParent(d)
    BY <1>1, <2>7 DEF DeleteRefused, ReadDirectory, MoveToChild, MoveToParent
  <2> QED BY <2>2, <2>3, <2>4, <2>5, <2>6, <2>7
<1> QED BY <1>1, <1>2 DEF Next, Stopped, vars

\* write, read and delete search by name without looking at user_attribute; on
\* a disk of any size no directory ever lists one name and extension twice.
THEOREM NamesStayUnique == Spec => []NamesUnique
<1>1. Init => IInv
    BY InitType, InitSound DEF IInv
<1>2. Init => NamesUnique
    BY FormattedNames DEF Init, NamesUnique, AllDistinct, Distinct
<1> QED BY <1>1, <1>2, NextIInv, NextNamesUnique, PTL DEF Spec
-----------------------------------------------------------------------------
(* The parts of Solid and NothingLost, of any table F and clusters S: the  *)
(* driver's view and the platters have to satisfy them both.               *)

AllocIn(F) == {c \in Clusters : c >= 2 /\ F[c] # EMPTY}
FoldersIn(F, S) == {c \in AllocIn(F) : S[c] \in Tables}
UsedIn(S, c) == {i \in Slots : i > 0 /\ S[c][i].used}
PointedIn(F, x) == \E c \in AllocIn(F) : F[c] = x

ReservedIn(F) == F[0] = CLUSTER_0_VALUE /\ F[1] = EOF /\ F[ROOT] = EOF
TerminateIn(F) == \A c \in AllocIn(F) : F[c] # EOF => F[c] \in AllocIn(F) /\ F[c] > c
NoCrossIn(F) == \A c, d \in AllocIn(F) : F[c] = F[d] /\ F[c] # EOF => c = d
EntriesIn(F, S) ==
    \A c \in FoldersIn(F, S) : \A i \in UsedIn(S, c) :
        /\ S[c][i].cluster \in AllocIn(F) /\ S[c][i].cluster # ROOT
        /\ ~PointedIn(F, S[c][i].cluster)
        /\ \A d \in FoldersIn(F, S) : \A j \in UsedIn(S, d) :
               S[d][j].cluster = S[c][i].cluster => c = d /\ i = j
LinkedIn(F, S) ==
    /\ ROOT \in FoldersIn(F, S) /\ S[ROOT][0].cluster = ROOT
    /\ \A c \in FoldersIn(F, S) : S[c][0].attr
    /\ \A c \in FoldersIn(F, S) : \A i \in UsedIn(S, c) :
           /\ S[c][i].attr <=> S[c][i].cluster \in FoldersIn(F, S)
           /\ S[c][i].attr => F[S[c][i].cluster] = EOF /\ S[S[c][i].cluster][0].cluster = c
NamelessIn(F, S) ==
    \A c \in FoldersIn(F, S), i \in Slots : ~S[c][i].used => S[c][i].name = NoName
AloneIn(F, S) == \A c \in FoldersIn(F, S) : F[c] = EOF /\ ~PointedIn(F, c)

SolidIn(F, S) ==
    /\ ReservedIn(F) /\ TerminateIn(F) /\ NoCrossIn(F)
    /\ EntriesIn(F, S) /\ LinkedIn(F, S) /\ NamelessIn(F, S) /\ AloneIn(F, S)

NothingLostIn(F, S) ==
    /\ \A c \in FoldersIn(F, S) \ {ROOT} :
           \E p \in FoldersIn(F, S) : \E i \in UsedIn(S, p) : S[p][i].cluster = c
    /\ \A x \in AllocIn(F) :
           \/ x = ROOT \/ PointedIn(F, x)
           \/ \E c \in FoldersIn(F, S) : \E i \in UsedIn(S, c) : S[c][i].cluster = x

\* The constants' types and the reserved values.
LEMMA Numbers ==
    /\ ClusterMapSize \in Nat /\ ClusterMapSize > 3 /\ Clusters \subseteq Nat /\ {0, 1, 2} \subseteq Clusters
    /\ ROOT = 2 /\ EMPTY = 0 /\ EOF = -1 /\ EOF \notin Clusters
    /\ 0 \in Slots /\ Slots \subseteq Nat
BY ConstantsAssumption DEF Clusters, ROOT, EMPTY, EOF, Slots

\* The parts of Solid and NothingLost, of the driver's view.
LEMMA SolidIs ==
    /\ Solid <=> SolidIn(fat, store)
    /\ NothingLost <=> NothingLostIn(fat, store)
    /\ Allocated = AllocIn(fat) /\ Folders = FoldersIn(fat, store)
    /\ \A c : Used(c) = UsedIn(store, c)
    /\ \A x : Pointed(x) <=> PointedIn(fat, x)
BY DEF Solid, SolidIn, NothingLost, NothingLostIn, ReservedKept, ReservedIn, ChainsTerminate, TerminateIn,
       NoCrossLinks, NoCrossIn, EntriesOwnChains, EntriesIn, FoldersLinked, LinkedIn, FreeSlotsNameless,
       NamelessIn, FoldersAlone, AloneIn, FoldersListed, ClustersOwned, Allocated, AllocIn, Folders,
       FoldersIn, Used, UsedIn, Pointed, PointedIn

\* The same in the next state.
LEMMA SolidIsNext ==
    /\ Solid' <=> SolidIn(fat', store')
    /\ NothingLost' <=> NothingLostIn(fat', store')
    /\ Allocated' = AllocIn(fat') /\ Folders' = FoldersIn(fat', store')
    /\ \A c : Used(c)' = UsedIn(store', c)
BY DEF Solid, SolidIn, NothingLost, NothingLostIn, ReservedKept, ReservedIn, ChainsTerminate, TerminateIn,
       NoCrossLinks, NoCrossIn, EntriesOwnChains, EntriesIn, FoldersLinked, LinkedIn, FreeSlotsNameless,
       NamelessIn, FoldersAlone, AloneIn, FoldersListed, ClustersOwned, Allocated, AllocIn, Folders,
       FoldersIn, Used, UsedIn, Pointed, PointedIn

\* What a successful write of a folder changes.
LEMMA WriteFolderChanges ==
    ASSUME TypeOK, NEW d \in Clusters, fat[d] # EMPTY, NEW n, NEW e,
           WriteFolder(d, n, e), fault' = "none"
    PROVE  \E z \in Clusters, s \in Slots :
               /\ z = EmptyCluster /\ z >= 2 /\ fat[z] = EMPTY /\ z # d
               /\ \A c \in Clusters \ {z} : fat'[c] = fat[c]
               /\ \A c \in Clusters \ {z, d} : store'[c] = store[c]
               /\ UsedIn(store', z) = {}
               /\ \A i \in Slots \ {s} : store'[d][i] = store[d][i]
               /\ store'[d][s].attr
<1>1. store[d] \in Tables
    BY WriteCodeZero DEF WriteFolder
<1>2. Available # {}
    BY Zenon DEF WriteFolder
<1>3. PICK z \in Clusters : z = EmptyCluster /\ z >= 2 /\ fat[z] = EMPTY /\ z # d
    BY <1>2, EmptyClusterType DEF Available, EmptyClusters
<1>4. PICK s \in Slots : s = NewEntryIdx(store[d])
    BY <1>1, NewEntryIdxType
<1>5. /\ \A c \in Clusters \ {z} : fat'[c] = fat[c]
      /\ \A c \in Clusters \ {z, d} : store'[c] = store[c]
      /\ store'[z] = init_directory_table(n, d)
      /\ store'[d] = WithEntry(d, n, e, 0)
    BY <1>3 DEF WriteFolder, TypeOK
<1>6. \A i \in Slots \ {s} : store'[d][i] = store[d][i]
    BY <1>1, <1>4, <1>5 DEF WithEntry, Tables
<1>7. store'[d][s] = NewEntry(n, e, 0)
    BY <1>1, <1>4, <1>5 DEF WithEntry, Tables
<1>8. store'[d][s].attr
  <2>1. NewEntry(n, e, 0).attr = (0 = 0)
    BY DEF NewEntry
  <2> QED BY <1>7, <2>1
<1>9. UsedIn(store', z) = {}
  <2>1. \A i \in Slots : i > 0 => init_directory_table(n, d)[i].used = FALSE
    BY DEF init_directory_table, ZeroTable, ZeroEntry
  <2> QED BY <1>5, <2>1 DEF UsedIn
<1> QED BY <1>3, <1>5, <1>6, <1>8, <1>9

\* What a successful write of a file changes.
LEMMA WriteFileChanges ==
    ASSUME NEW d \in Clusters, fat[d] # EMPTY, SolidIn(fat, store), NEW n, NEW e, NEW b, NEW v,
           WriteFile(d, n, e, b, v)
    PROVE  \E L \in SUBSET Clusters, s \in Slots :
               /\ L = LowestEmpty(ceil_div(b, ClusterSize))
               /\ \A a \in L : a >= 2 /\ fat[a] = EMPTY
               /\ \A c \in Clusters \ L : fat'[c] = fat[c]
               /\ \A a \in L : fat'[a] = Link(L, a)
               /\ \A c \in Clusters \ (L \cup {d}) : store'[c] = store[c]
               /\ \A a \in L : store'[a] = <<v, Cardinality({x \in L : x <= a})>>
               /\ \A i \in Slots \ {s} : store'[d][i] = store[d][i]
               /\ store'[d][s] = NewEntry(n, e, b)
<1>1. store[d] \in Tables
    BY WriteCodeZero DEF WriteFile
<1>2. PICK L : L = LowestEmpty(ceil_div(b, ClusterSize))
    OBVIOUS
<1>3. L \in SUBSET Clusters /\ \A a \in L : a >= 2 /\ fat[a] = EMPTY
  <2>1. L \in SUBSET Clusters /\ \A a \in L : fat[a] = EMPTY
    BY <1>2 DEF LowestEmpty, EmptyClusters
  <2>2. fat[0] # EMPTY /\ fat[1] # EMPTY
    BY DEF SolidIn, ReservedIn, EMPTY, EOF, CLUSTER_0_VALUE
  <2>3. \A a \in Clusters : a >= 2 \/ a = 0 \/ a = 1
    BY Numbers DEF Clusters
  <2> QED BY <2>1, <2>2, <2>3
<1>4. PICK s \in Slots : s = NewEntryIdx(store[d])
    BY <1>1, NewEntryIdxType
<1>5. d \notin L
    BY <1>3
<1>6. fat' = [c \in Clusters |-> IF c \in L THEN Link(L, c) ELSE fat[c]]
    BY <1>2 DEF WriteFile
<1>7. store' = [c \in Clusters |->
                   IF c = d THEN WithEntry(d, n, e, b)
                   ELSE IF c \in L THEN <<v, Cardinality({x \in L : x <= c})>> ELSE store[c]]
    BY <1>2 DEF WriteFile
<1>8. (\A c \in Clusters \ L : fat'[c] = fat[c]) /\ \A a \in L : fat'[a] = Link(L, a)
    BY <1>3, <1>6
<1>9. (\A c \in Clusters \ (L \cup {d}) : store'[c] = store[c]) /\ store'[d] = WithEntry(d, n, e, b)
    BY <1>7
<1>10. \A a \in L : store'[a] = <<v, Cardinality({x \in L : x <= a})>>
    BY <1>3, <1>5, <1>7
<1>11. (\A i \in Slots \ {s} : store'[d][i] = store[d][i]) /\ store'[d][s] = NewEntry(n, e, b)
    BY <1>1, <1>4, <1>9 DEF WithEntry, Tables
<1> QED BY <1>2, <1>3, <1>8, <1>9, <1>10, <1>11

-----------------------------------------------------------------------------
(* The contents of files.                                                  *)

\* The clusters K hold a file of m clusters that starts at h: each of its
\* pieces once, each leading to the next.
FileOn(F, S, K, h, m, v) ==
    /\ m \in 1 .. ClusterMapSize /\ h \in K /\ S[h] = <<v, 1>>
    /\ \A y \in K : /\ F[y] # EMPTY
                    /\ \E k \in 1 .. m :
                           /\ S[y] = <<v, k>>
                           /\ IF k = m THEN F[y] = EOF ELSE F[y] \in K /\ S[F[y]] = <<v, k + 1>>
    /\ \A y, z \in K : S[y] = S[z] => y = z

IsFile(F, S, f) ==
    \E K \in SUBSET Clusters, v \in Values :
        FileOn(F, S, K, f.cluster, ceil_div(f.filesize, ClusterSize), v)
WholeIn(F, S) ==
    \A c \in FoldersIn(F, S) : \A i \in UsedIn(S, c) : ~S[c][i].attr => IsFile(F, S, S[c][i])

\* A file is where it was if its clusters are.
LEMMA FileStays ==
    ASSUME NEW F, NEW S, NEW G, NEW T, NEW K, NEW h, NEW m, NEW v, FileOn(F, S, K, h, m, v),
           \A y \in K : G[y] = F[y] /\ T[y] = S[y]
    PROVE  FileOn(G, T, K, h, m, v)
<1>1. \A y \in K : /\ G[y] # EMPTY
                   /\ \E k \in 1 .. m :
                          /\ T[y] = <<v, k>>
                          /\ IF k = m THEN G[y] = EOF ELSE G[y] \in K /\ T[G[y]] = <<v, k + 1>>
    BY DEF FileOn
<1> QED BY <1>1 DEF FileOn

\* A file is unharmed by what happens to free clusters and to tables.
LEMMA IsFileStays ==
    ASSUME NEW F, NEW S, NEW G, NEW T, NEW f, IsFile(F, S, f),
           \A y \in Clusters : F[y] # EMPTY => G[y] = F[y],
           \A y \in Clusters : F[y] # EMPTY /\ S[y] \notin Tables => T[y] = S[y]
    PROVE  IsFile(G, T, f)
<1>1. PICK K \in SUBSET Clusters, v \in Values :
          FileOn(F, S, K, f.cluster, ceil_div(f.filesize, ClusterSize), v)
    BY DEF IsFile
<1>2. PICK m : m = ceil_div(f.filesize, ClusterSize)
    OBVIOUS
<1>3. FileOn(F, S, K, f.cluster, m, v)
    BY <1>1, <1>2
<1>4. \A y \in K : y \in Clusters /\ F[y] # EMPTY /\ S[y] \notin Tables
  <2> TAKE y \in K
  <2>1. F[y] # EMPTY /\ \E k \in 1 .. m : S[y] = <<v, k>>
    BY <1>3 DEF FileOn
  <2> QED BY <2>1, PieceNotTable
<1>5. FileOn(G, T, K, f.cluster, m, v)
    BY <1>3, <1>4, FileStays
<1> QED BY <1>2, <1>5 DEF IsFile

\* A disk without entries has whole files.
LEMMA NothingUsed ==
    ASSUME NEW F, NEW S, \A c \in FoldersIn(F, S) : UsedIn(S, c) = {}
    PROVE  WholeIn(F, S)
BY DEF WholeIn

\* So has a disk with an empty root.
LEMMA BlankWhole ==
    ASSUME NEW F, NEW S, \A c \in Clusters : c # 0 /\ c # ROOT => S[c] = ZeroTable,
           \A i \in Slots : i > 0 => S[ROOT][i] = ZeroEntry
    PROVE  WholeIn(F, S)
<1>1. \A c \in FoldersIn(F, S) : c \in Clusters /\ c # 0
    BY DEF FoldersIn, AllocIn
<1>2. \A i \in Slots : ZeroTable[i] = ZeroEntry
    BY DEF ZeroTable
<1>3. \A c \in FoldersIn(F, S) : \A i \in Slots : i > 0 => S[c][i] = ZeroEntry
    BY <1>1, <1>2
<1>4. \A c \in FoldersIn(F, S) : UsedIn(S, c) = {}
    BY <1>3 DEF UsedIn, ZeroEntry
<1> QED BY <1>4, NothingUsed

\* Counting a set of clusters from the lowest on.
LEMMA Counted ==
    ASSUME NEW E \in SUBSET Clusters
    PROVE  IsFiniteSet(E) /\ Cardinality(E) \in Nat /\ Cardinality(E) <= ClusterMapSize
           /\ \A B \in SUBSET E : /\ IsFiniteSet(B) /\ Cardinality(B) \in Nat
                                  /\ Cardinality(B) <= Cardinality(E)
<1>1. IsFiniteSet(Clusters) /\ Cardinality(Clusters) = ClusterMapSize
  <2>1. /\ IsFiniteSet(0 .. ClusterMapSize - 1)
        /\ Cardinality(0 .. ClusterMapSize - 1) =
               IF 0 > ClusterMapSize - 1 THEN 0 ELSE ClusterMapSize - 1 - 0 + 1
    BY FS_Interval, Numbers
  <2> QED BY <2>1, Numbers DEF Clusters
<1>2. IsFiniteSet(E) /\ Cardinality(E) <= ClusterMapSize /\ Cardinality(E) \in Nat
    BY <1>1, FS_Subset, FS_CardinalityType
<1>3. ASSUME NEW B \in SUBSET E
      PROVE  IsFiniteSet(B) /\ Cardinality(B) \in Nat /\ Cardinality(B) <= Cardinality(E)
    BY <1>2, FS_Subset, FS_CardinalityType
<1> QED BY <1>2, <1>3

\* k of at least k clusters have fewer than k below them.
LEMMA LowestCount ==
    ASSUME NEW E \in SUBSET Clusters, NEW k \in Nat, k <= Cardinality(E)
    PROVE  Cardinality({c \in E : Cardinality({d \in E : d < c}) < k}) = k
<1>1. PICK N \in Nat : N = Cardinality(E) /\ IsFiniteSet(E) /\ E \subseteq Nat
    BY Counted, Numbers
<1>2. PICK rank : rank = [c \in E |-> Cardinality({d \in E : d < c})]
    OBVIOUS
<1>3. ASSUME NEW c \in E PROVE rank[c] \in Nat /\ rank[c] < N
  <2>1. {d \in E : d < c} \subseteq E \ {c} /\ E \ {c} \in SUBSET Clusters
    BY <1>1
  <2>2. Cardinality(E \ {c}) = N - 1 /\ IsFiniteSet(E \ {c})
    BY <1>1, FS_RemoveElement
  <2>3. Cardinality({d \in E : d < c}) \in Nat /\ Cardinality({d \in E : d < c}) <= N - 1
    BY <2>1, <2>2, FS_Subset, FS_CardinalityType
  <2> QED BY <1>2, <2>3
<1>4. ASSUME NEW c \in E, NEW e \in E, c < e PROVE rank[c] < rank[e]
  <2>1. PICK B : B = {d \in E : d < c}
    OBVIOUS
  <2>2. IsFiniteSet(B) /\ Cardinality(B) \in Nat /\ c \notin B /\ rank[c] = Cardinality(B)
    BY <1>1, <1>2, <2>1, Counted
  <2>3. Cardinality(B \cup {c}) = Cardinality(B) + 1
    BY <2>2, FS_AddElement
  <2>4. B \cup {c} \subseteq {d \in E : d < e} /\ IsFiniteSet({d \in E : d < e})
    <3>1. \A d \in E : d < c => d < e
        BY <1>1, <1>4
    <3>2. B \cup {c} \subseteq {d \in E : d < e}
        BY <1>4, <2>1, <3>1
    <3>3. {d \in E : d < e} \in SUBSET E
        OBVIOUS
    <3> QED BY <3>2, <3>3, Counted
  <2>5. Cardinality(B \cup {c}) <= Cardinality({d \in E : d < e})
    BY <2>4, FS_Subset
  <2>6. rank[e] = Cardinality({d \in E : d < e}) /\ rank[e] \in Nat
    BY <1>2, <1>3
  <2> QED BY <2>2, <2>3, <2>5, <2>6
<1>5. \A c, e \in E : rank[c] = rank[e] => c = e
  <2> SUFFICES ASSUME NEW c \in E, NEW e \in E, rank[c] = rank[e], c # e PROVE FALSE
    OBVIOUS
  <2>1. c < e \/ e < c
    BY <1>1
  <2> QED BY <1>3, <1>4, <2>1
<1>6. rank \in Surjection(E, 0 .. N - 1)
  <2>1. rank \in [E -> 0 .. N - 1]
    BY <1>2, <1>3
  <2>2. rank \in Injection(E, 0 .. N - 1)
    BY <1>5, <2>1 DEF Injection, IsInjective
  <2>3. IsFiniteSet(0 .. N - 1) /\ Cardinality(0 .. N - 1) = N
    BY FS_Interval
  <2> QED BY <1>1, <2>2, <2>3, FS_Injection
<1>7. PICK L : L = {c \in E : rank[c] < k}
    OBVIOUS
<1>8. PICK g : g = [c \in L |-> rank[c]]
    OBVIOUS
<1>9. g \in [L -> 0 .. k - 1] /\ \A c \in L : c \in E /\ g[c] = rank[c]
    BY <1>3, <1>7, <1>8
<1>10. g \in Injection(L, 0 .. k - 1)
    BY <1>5, <1>9 DEF Injection, IsInjective
<1>11. g \in Surjection(L, 0 .. k - 1)
  <2>1. ASSUME NEW t \in 0 .. k - 1 PROVE \E c \in L : g[c] = t
    <3>1. t \in 0 .. N - 1
        BY <1>1
    <3>2. PICK c \in E : rank[c] = t
        BY <1>6, <3>1 DEF Surjection
    <3>3. c \in L
        BY <1>7, <3>2
    <3> QED BY <1>9, <3>2, <3>3
  <2> QED BY <1>9, <2>1 DEF Surjection
<1>12. IsFiniteSet(0 .. k - 1) /\ Cardinality(0 .. k - 1) = k
    BY FS_Interval
<1>13. Cardinality(L) = k
    BY <1>10, <1>11, <1>12, FS_Injection
<1>14. L = {c \in E : Cardinality({d \in E : d < c}) < k}
    BY <1>2, <1>7
<1> QED BY <1>13, <1>14

\* The pieces write numbers, in the order in which it links them.
LEMMA PiecesInOrder ==
    ASSUME NEW A \in SUBSET Clusters, NEW num,
           num = [c \in A |-> Cardinality({x \in A : x <= c})]
    PROVE  /\ \A c \in A : num[c] \in 1 .. Cardinality(A)
           /\ \A c, e \in A : num[c] = num[e] => c = e
           /\ \A c \in A : (\A x \in A : c <= x) => num[c] = 1
           /\ \A c \in A : IF num[c] = Cardinality(A) THEN Link(A, c) = EOF
                           ELSE Link(A, c) \in A /\ num[Link(A, c)] = num[c] + 1
<1>1. PICK m \in Nat : m = Cardinality(A) /\ IsFiniteSet(A) /\ A \subseteq Nat
    BY Counted, Numbers
<1>2. ASSUME NEW c \in A PROVE num[c] \in 1 .. m
  <2>1. PICK B \in SUBSET A : B = {x \in A : x <= c}
    OBVIOUS
  <2>2. IsFiniteSet(B) /\ Cardinality(B) \in Nat /\ Cardinality(B) <= m /\ num[c] = Cardinality(B)
    BY <1>1, <2>1, Counted
  <2>3. c \in B
    BY <1>1, <2>1
  <2>4. Cardinality(B) # 0
    BY <2>2, <2>3, FS_EmptySet
  <2> QED BY <2>2, <2>4
<1>3. ASSUME NEW c \in A, NEW e \in A, c < e PROVE num[c] < num[e]
  <2>1. PICK B \in SUBSET A : B = {x \in A : x <= c}
    OBVIOUS
  <2>2. IsFiniteSet(B) /\ Cardinality(B) \in Nat /\ num[c] = Cardinality(B) /\ e \notin B
    BY <1>1, <1>3, <2>1, Counted
  <2>3. Cardinality(B \cup {e}) = Cardinality(B) + 1
    BY <2>2, FS_AddElement
  <2>4. PICK D \in SUBSET A : D = {x \in A : x <= e}
    OBVIOUS
  <2>5. B \cup {e} \subseteq D /\ IsFiniteSet(D) /\ num[e] = Cardinality(D)
    <3>1. \A x \in A : (x <= c => x <= e) /\ e <= e
        BY <1>1, <1>3
    <3>2. B \cup {e} \subseteq D
        BY <2>1, <2>4, <3>1
    <3>3. num[e] = Cardinality(D)
        BY <2>4
    <3> QED BY <3>2, <3>3, Counted
  <2>6. Cardinality(B \cup {e}) <= Cardinality(D)
    BY <2>5, FS_Subset
  <2> QED BY <1>2, <2>2, <2>3, <2>5, <2>6
<1>4. \A c, e \in A : num[c] = num[e] => c = e
  <2> SUFFICES ASSUME NEW c \in A, NEW e \in A, num[c] = num[e], c # e PROVE FALSE
    OBVIOUS
  <2>1. c < e \/ e < c
    BY <1>1
  <2>2. num[c] \in Int /\ num[e] \in Int
    BY <1>2
  <2> QED BY <1>3, <2>1, <2>2
<1>5. ASSUME NEW c \in A, \A x \in A : c <= x PROVE num[c] = 1
  <2>0. \A x \in A : x <= c <=> x = c
    <3>1. \A x \in A : x \in Int /\ c \in Int /\ c <= x
        BY <1>1, <1>5
    <3> QED BY <3>1
  <2>1. {x \in A : x <= c} = {c}
    BY <2>0
  <2> QED BY <2>1, FS_Singleton
<1>6. ASSUME NEW c \in A
      PROVE  IF num[c] = m THEN Link(A, c) = EOF ELSE Link(A, c) \in A /\ num[Link(A, c)] = num[c] + 1
  <2>1. CASE Link(A, c) = EOF /\ \A d \in A : d <= c
    <3>1. {x \in A : x <= c} = A
        BY <2>1
    <3> QED BY <1>1, <2>1, <3>1
  <2>2. CASE /\ Link(A, c) \in A /\ Link(A, c) > c
             /\ \A d \in A : d > c => Link(A, c) <= d
    <3>1. PICK e \in A : e = Link(A, c)
        BY <2>2
    <3>2. c < e /\ \A d \in A : d > c => e <= d
        BY <1>1, <2>2, <3>1
    <3>3. PICK B \in SUBSET A : B = {x \in A : x <= c}
        OBVIOUS
    <3>4. {x \in A : x <= e} = B \cup {e} /\ e \notin B
        <4>1. \A x \in A : x <= e <=> x <= c \/ x = e
            <5>1. \A x \in A : x \in Int /\ c \in Int /\ e \in Int /\ c < e /\ (x > c => e <= x)
                BY <1>1, <3>2
            <5> QED BY <5>1
        <4>2. ~(e <= c)
            BY <1>1, <3>2
        <4> QED BY <3>3, <4>1, <4>2
    <3>5. Cardinality(B \cup {e}) = Cardinality(B) + 1
        BY <3>3, <3>4, Counted, FS_AddElement
    <3>6. num[e] = num[c] + 1
        BY <3>3, <3>4, <3>5
    <3>7. num[c] # m
        BY <1>2, <3>6
    <3> QED BY <3>1, <3>6, <3>7
  <2> QED BY <2>1, <2>2, LinkLemma
<1> QED BY <1>1, <1>2, <1>4, <1>5, <1>6

\* An operation that takes free clusters leaves the other files whole.
LEMMA MoreWhole ==
    ASSUME NEW F, NEW S, NEW G, NEW T, WholeIn(F, S), NEW A \in SUBSET Clusters,
           NEW d \in Clusters, F[d] # EMPTY, S[d] \in Tables, NEW s \in Slots,
           \A a \in A : F[a] = EMPTY,
           \A c \in Clusters \ A : G[c] = F[c],
           \A c \in Clusters \ (A \cup {d}) : T[c] = S[c],
           \A a \in A : T[a] \in Tables => UsedIn(T, a) = {},
           \A i \in Slots \ {s} : T[d][i] = S[d][i],
           T[d][s].attr \/ IsFile(G, T, T[d][s])
    PROVE  WholeIn(G, T)
<1> SUFFICES ASSUME NEW c \in FoldersIn(G, T), NEW i \in UsedIn(T, c), ~T[c][i].attr
             PROVE  IsFile(G, T, T[c][i])
    BY DEF WholeIn
<1>1. c \in Clusters /\ c >= 2 /\ G[c] # EMPTY /\ T[c] \in Tables /\ i \in Slots /\ i > 0 /\ T[c][i].used
    BY DEF FoldersIn, AllocIn, UsedIn
<1>2. c \notin A
    BY <1>1
<1>3. CASE c = d /\ i = s
    BY <1>3
<1>4. CASE ~(c = d /\ i = s)
  <2>1. T[c][i] = S[c][i] /\ S[c] \in Tables /\ F[c] # EMPTY
    BY <1>1, <1>2, <1>4
  <2>2. c \in FoldersIn(F, S) /\ i \in UsedIn(S, c)
    BY <1>1, <2>1 DEF FoldersIn, AllocIn, UsedIn
  <2>3. PICK f : f = S[c][i]
    OBVIOUS
  <2>4. IsFile(F, S, f)
    BY <2>1, <2>2, <2>3 DEF WholeIn
  <2>5. \A y \in Clusters : F[y] # EMPTY => G[y] = F[y]
    OBVIOUS
  <2>6. \A y \in Clusters : F[y] # EMPTY /\ S[y] \notin Tables => T[y] = S[y]
    OBVIOUS
  <2>7. IsFile(G, T, f)
    BY <2>4, <2>5, <2>6, IsFileStays
  <2> QED BY <2>1, <2>3, <2>7
<1> QED BY <1>3, <1>4

\* mkdir leaves the files whole.
LEMMA WriteFolderWhole ==
    ASSUME TypeOK, Solid, WholeIn(fat, store), NEW d \in Parents, NEW n \in Names, NEW e \in Exts,
           WriteFolder(d, n, e), fault' = "none"
    PROVE  WholeIn(fat', store')
<1>1. d \in Clusters /\ fat[d] # EMPTY /\ store[d] \in Tables
    BY ParentAllocated, WriteCodeZero DEF Allocated, WriteFolder
<1>2. PICK z \in Clusters, s \in Slots :
               /\ z = EmptyCluster /\ z >= 2 /\ fat[z] = EMPTY /\ z # d
               /\ \A c \in Clusters \ {z} : fat'[c] = fat[c]
               /\ \A c \in Clusters \ {z, d} : store'[c] = store[c]
               /\ UsedIn(store', z) = {}
               /\ \A i \in Slots \ {s} : store'[d][i] = store[d][i]
               /\ store'[d][s].attr
    BY <1>1, WriteFolderChanges
<1>3. PICK A \in SUBSET Clusters : A = {z}
    OBVIOUS
<1>4. /\ \A a \in A : fat[a] = EMPTY
      /\ \A c \in Clusters \ A : fat'[c] = fat[c]
      /\ \A c \in Clusters \ (A \cup {d}) : store'[c] = store[c]
      /\ \A a \in A : store'[a] \in Tables => UsedIn(store', a) = {}
    BY <1>2, <1>3
<1> QED BY <1>1, <1>2, <1>4, MoreWhole

\* A write puts the pieces of its file where its entry says.
LEMMA WriteFileOn ==
    ASSUME TypeOK, Solid, NEW d \in Parents, NEW n \in Names, NEW e \in Exts,
           NEW b \in Sizes, NEW v \in Values, WriteFile(d, n, e, b, v)
    PROVE  FileOn(fat', store', LowestEmpty(ceil_div(b, ClusterSize)), EmptyCluster, ceil_div(b, ClusterSize), v)
<1>1. d \in Clusters /\ fat[d] # EMPTY /\ store[d] \in Tables /\ SolidIn(fat, store)
    BY ParentAllocated, WriteCodeZero, SolidIs DEF Allocated, WriteFile
<1>2. PICK L \in SUBSET Clusters, s \in Slots :
               /\ L = LowestEmpty(ceil_div(b, ClusterSize))
               /\ \A a \in L : a >= 2 /\ fat[a] = EMPTY
               /\ \A c \in Clusters \ L : fat'[c] = fat[c]
               /\ \A a \in L : fat'[a] = Link(L, a)
               /\ \A c \in Clusters \ (L \cup {d}) : store'[c] = store[c]
               /\ \A a \in L : store'[a] = <<v, Cardinality({x \in L : x <= a})>>
               /\ \A i \in Slots \ {s} : store'[d][i] = store[d][i]
               /\ store'[d][s] = NewEntry(n, e, b)
    BY <1>1, WriteFileChanges, SMTT(40)
<1>3. PICK k : k = ceil_div(b, ClusterSize)
    OBVIOUS
<1>4. PICK z : z = EmptyCluster
    OBVIOUS
<1>5. /\ k \in Nat /\ k > 0 /\ EmptyClusters = Available
      /\ z \in L /\ (\A c \in L : z <= c) /\ k <= Cardinality(EmptyClusters)
  <2>1. b > 0 /\ ~(Cardinality(Available) < ceil_div(b, ClusterSize)) /\ b \in Nat
    BY WriteCodeZero, ConstantsAssumption DEF WriteFile
  <2>2. /\ ceil_div(b, ClusterSize) \in Nat /\ ceil_div(b, ClusterSize) > 0
        /\ EmptyClusters = Available
        /\ EmptyCluster \in LowestEmpty(ceil_div(b, ClusterSize))
        /\ \A c \in LowestEmpty(ceil_div(b, ClusterSize)) : EmptyCluster <= c
    BY <2>1, LowestClusters
  <2>3. Available \in SUBSET Clusters
    BY DEF Available, EmptyClusters
  <2>4. Cardinality(Available) \in Nat
    BY <2>3, Counted
  <2>5. k <= Cardinality(Available)
    BY <1>3, <2>1, <2>2, <2>4
  <2> QED BY <1>2, <1>3, <1>4, <2>2, <2>5
<1>6. EmptyClusters \in SUBSET Clusters
    BY DEF EmptyClusters
<1>7. Cardinality(L) = k /\ k \in 1 .. ClusterMapSize
  <2>1. L = {c \in EmptyClusters : Cardinality({x \in EmptyClusters : x < c}) < k}
    BY <1>2, <1>3 DEF LowestEmpty
  <2>2. Cardinality(L) = k
    BY <1>5, <1>6, <2>1, LowestCount
  <2>3. Cardinality(L) <= ClusterMapSize
    BY Counted
  <2> QED BY <1>5, <2>2, <2>3, Numbers
<1>8. PICK num : num = [c \in L |-> Cardinality({x \in L : x <= c})]
    OBVIOUS
<1>9. /\ \A c \in L : num[c] \in 1 .. k /\ store'[c] = <<v, num[c]>>
      /\ \A c, y \in L : num[c] = num[y] => c = y
      /\ num[z] = 1
      /\ \A c \in L : IF num[c] = k THEN fat'[c] = EOF ELSE fat'[c] \in L /\ num[fat'[c]] = num[c] + 1
    BY <1>2, <1>5, <1>7, <1>8, PiecesInOrder
<1>10. \A y \in L : /\ fat'[y] # EMPTY
                    /\ \E j \in 1 .. k :
                           /\ store'[y] = <<v, j>>
                           /\ IF j = k THEN fat'[y] = EOF
                              ELSE fat'[y] \in L /\ store'[fat'[y]] = <<v, j + 1>>
  <2> TAKE y \in L
  <2>1. fat'[y] # EMPTY
    BY <1>2, <1>9, Numbers
  <2>2. num[y] \in 1 .. k /\ store'[y] = <<v, num[y]>>
    BY <1>9
  <2>3. IF num[y] = k THEN fat'[y] = EOF ELSE fat'[y] \in L /\ store'[fat'[y]] = <<v, num[y] + 1>>
    BY <1>9
  <2> QED BY <2>1, <2>2, <2>3
<1>11. \A y, x \in L : store'[y] = store'[x] => y = x
    BY <1>9
<1>12. FileOn(fat', store', L, z, k, v)
    BY <1>5, <1>7, <1>9, <1>10, <1>11 DEF FileOn
<1> QED BY <1>2, <1>3, <1>4, <1>12

\* write leaves the files whole, its own included.
LEMMA WriteFileWhole ==
    ASSUME TypeOK, Solid, WholeIn(fat, store), NEW d \in Parents, NEW n \in Names, NEW e \in Exts,
           NEW b \in Sizes, NEW v \in Values, WriteFile(d, n, e, b, v)
    PROVE  WholeIn(fat', store')
<1>1. d \in Clusters /\ fat[d] # EMPTY /\ store[d] \in Tables /\ SolidIn(fat, store)
    BY ParentAllocated, WriteCodeZero, SolidIs DEF Allocated, WriteFile
<1>2. PICK L \in SUBSET Clusters, s \in Slots :
               /\ L = LowestEmpty(ceil_div(b, ClusterSize))
               /\ \A a \in L : a >= 2 /\ fat[a] = EMPTY
               /\ \A c \in Clusters \ L : fat'[c] = fat[c]
               /\ \A a \in L : fat'[a] = Link(L, a)
               /\ \A c \in Clusters \ (L \cup {d}) : store'[c] = store[c]
               /\ \A a \in L : store'[a] = <<v, Cardinality({x \in L : x <= a})>>
               /\ \A i \in Slots \ {s} : store'[d][i] = store[d][i]
               /\ store'[d][s] = NewEntry(n, e, b)
    BY <1>1, WriteFileChanges, SMTT(40)
<1>3. FileOn(fat', store', L, EmptyCluster, ceil_div(b, ClusterSize), v)
    BY <1>2, WriteFileOn
<1>4. PICK f : f = NewEntry(n, e, b)
    OBVIOUS
<1>5. f.cluster = EmptyCluster /\ f.filesize = b
    BY <1>4 DEF NewEntry
<1>6. IsFile(fat', store', f)
    BY <1>3, <1>5 DEF IsFile
<1>7. \A a \in L : store'[a] \in Tables => UsedIn(store', a) = {}
    BY <1>2, PieceNotTable, ZenonT(60)
<1>8. IsFile(fat', store', store'[d][s])
    BY <1>2, <1>4, <1>6
<1> QED BY <1>1, <1>2, <1>7, <1>8, MoreWhole

\* Freeing the chain R of one entry leaves the other files whole.
LEMMA DeleteWhole ==
    ASSUME TypeOK, Solid, WholeIn(fat, store), NEW d \in Parents, NEW n, NEW e, n # NoName,
           Delete(d, n, e), fault' = "none"
    PROVE  WholeIn(fat', store')
<1>1. PICK i, h, R :
      /\ store[d] \in Tables /\ h = store[d][i].cluster
      /\ i # 0 /\ i \in Slots /\ store[d][i].name = n /\ d \in Clusters /\ d \in Folders
      /\ i \in Used(d) /\ h \in Allocated /\ h # ROOT /\ ~Pointed(h) /\ h \in Clusters
      /\ h \in R /\ R \subseteq Clusters /\ R \subseteq Allocated \ {ROOT}
      /\ \A y \in R : fat[y] \in Clusters => fat[y] \in R
      /\ \A x \in R : x # h => \E y \in R : fat[y] = x
      /\ \A c \in R : fat'[c] = EMPTY
      /\ \A c \in Clusters \ R : fat'[c] = fat[c]
      /\ store'[d] \in Tables
      /\ \A c \in Clusters \ {d} : store'[c] = store[c]
      /\ \A j \in Slots \ {i} : store'[d][j] = store[d][j]
      /\ ~store'[d][i].used /\ store'[d][i].name = NoName
      /\ \A c \in Folders : c \in R => Used(c) = {}
    BY DeleteEffect, SMTT(40)
<1>2. SolidIn(fat, store) /\ ~PointedIn(fat, h) /\ d \in FoldersIn(fat, store) /\ i \in UsedIn(store, d)
      /\ Allocated = AllocIn(fat)
    BY <1>1, SolidIs
<1> SUFFICES ASSUME NEW c \in FoldersIn(fat', store'), NEW j \in UsedIn(store', c), ~store'[c][j].attr
             PROVE  IsFile(fat', store', store'[c][j])
    BY DEF WholeIn
<1>3. c \in Clusters /\ c >= 2 /\ fat'[c] # EMPTY /\ store'[c] \in Tables /\ j \in Slots /\ j > 0 /\ store'[c][j].used
    BY DEF FoldersIn, AllocIn, UsedIn
<1>4. store'[c][j] = store[c][j] /\ ~(c = d /\ j = i)
    BY <1>1, <1>3
<1>5. c \in FoldersIn(fat, store) /\ j \in UsedIn(store, c)
    BY <1>1, <1>3, <1>4 DEF FoldersIn, AllocIn, UsedIn
<1>6. PICK f : f = store[c][j]
    OBVIOUS
<1>7. IsFile(fat, store, f) /\ f.cluster # h /\ ~PointedIn(fat, f.cluster) /\ f.cluster \in Clusters
    BY <1>1, <1>2, <1>4, <1>5, <1>6 DEF WholeIn, SolidIn, EntriesIn, AllocIn
<1>8. PICK m : m = ceil_div(f.filesize, ClusterSize)
    OBVIOUS
<1>9. PICK K \in SUBSET Clusters, v \in Values : FileOn(fat, store, K, f.cluster, m, v)
    BY <1>7, <1>8 DEF IsFile
<1>10. PICK B \in SUBSET Clusters : B = K \ R
    OBVIOUS
<1>11. f.cluster \notin R
    BY <1>1, <1>2, <1>7 DEF PointedIn
<1>12. ASSUME NEW y \in B
       PROVE  fat'[y] = fat[y] /\ store'[y] = store[y] /\ (fat[y] \in K => fat[y] \in B)
  <2>1. y \in K /\ y \notin R /\ fat[y] # EMPTY /\ \E k \in 1 .. m : store[y] = <<v, k>>
    BY <1>9, <1>10 DEF FileOn
  <2>2. y # d
    <3>1. store[y] \notin Tables
        BY <2>1, PieceNotTable
    <3> QED BY <1>1, <3>1
  <2>3. ASSUME fat[y] \in R PROVE FALSE
    <3>1. fat[y] \in Nat
        BY <1>1, <2>3, Numbers
    <3>2. fat[0] \notin Nat /\ fat[1] \notin Nat
        BY <1>2 DEF SolidIn, ReservedIn, CLUSTER_0_VALUE, EOF
    <3>3. y \in AllocIn(fat)
        <4>1. y = 0 \/ y = 1 \/ y >= 2
            BY Numbers
        <4> QED BY <2>1, <3>1, <3>2, <4>1 DEF AllocIn
    <3>4. fat[y] # h
        BY <1>2, <3>3 DEF PointedIn
    <3>5. PICK w \in R : fat[w] = fat[y]
        BY <1>1, <2>3, <3>4
    <3>6. w \in AllocIn(fat) /\ fat[y] # EOF
        BY <1>1, <1>2, <3>1 DEF EOF
    <3>7. w = y
        BY <1>2, <3>3, <3>5, <3>6 DEF SolidIn, NoCrossIn
    <3> QED BY <2>1, <3>7
  <2> QED BY <1>1, <1>10, <2>1, <2>2, <2>3
<1>13. ASSUME NEW y \in B
       PROVE  /\ fat[y] # EMPTY
              /\ \E k \in 1 .. m :
                     /\ store[y] = <<v, k>>
                     /\ IF k = m THEN fat[y] = EOF ELSE fat[y] \in B /\ store[fat[y]] = <<v, k + 1>>
  <2>1. y \in K /\ (fat[y] \in K => fat[y] \in B)
    BY <1>10, <1>12
  <2>2. fat[y] # EMPTY /\ \E k \in 1 .. m :
                     /\ store[y] = <<v, k>>
                     /\ IF k = m THEN fat[y] = EOF ELSE fat[y] \in K /\ store[fat[y]] = <<v, k + 1>>
    BY <1>9, <2>1 DEF FileOn
  <2> QED BY <2>1, <2>2
<1>14. m \in 1 .. ClusterMapSize /\ f.cluster \in B /\ store[f.cluster] = <<v, 1>>
       /\ \A y, x \in B : store[y] = store[x] => y = x
    BY <1>9, <1>10, <1>11 DEF FileOn
<1>15. FileOn(fat, store, B, f.cluster, m, v)
    BY <1>13, <1>14 DEF FileOn
<1>16. FileOn(fat', store', B, f.cluster, m, v)
    BY <1>12, <1>15, FileStays
<1>17. IsFile(fat', store', f)
    BY <1>8, <1>16 DEF IsFile
<1> QED BY <1>4, <1>6, <1>17

\* A formatted disk has whole files.
LEMMA FormattedWhole ==
    ASSUME NEW F, NEW S, S = InitStore
    PROVE  WholeIn(F, S)
<1>1. \A c \in Clusters : c # 0 /\ c # ROOT => S[c] = ZeroTable
    BY DEF InitStore
<1>2. S[ROOT] = init_directory_table(RootName, ROOT)
    BY Numbers DEF InitStore
<1>3. \A i \in Slots : i > 0 => S[ROOT][i] = ZeroEntry
    BY <1>2, Numbers DEF init_directory_table, ZeroTable
<1> QED BY <1>1, <1>3, BlankWhole

-----------------------------------------------------------------------------
(* What a read finds.                                                      *)

\* The walk of read, given a function that takes its steps.
Steps(h, f) ==
    [i \in 1 .. ClusterMapSize |->
        IF i = 1 THEN h ELSE IF f[i - 1] \in Clusters THEN fat[f[i - 1]] ELSE EOF]

\* The walk is given by any function that takes its steps.
LEMMA WalkSteps ==
    ASSUME NEW h, NEW f, f = Steps(h, f)
    PROVE  Walk(h) = SubSeq(f, 1, Cardinality({i \in 1 .. ClusterMapSize : f[i] \in Clusters}))
<1>1. PICK g : g = CHOOSE at : at = Steps(h, at)
    OBVIOUS
<1>2. g = Steps(h, g)
    BY <1>1
<1>3. Walk(h) = SubSeq(g, 1, Cardinality({i \in DOMAIN g : g[i] \in Clusters}))
    BY <1>1 DEF Walk, Steps
<1>4. DOMAIN g = 1 .. ClusterMapSize /\ DOMAIN f = 1 .. ClusterMapSize
    BY <1>2 DEF Steps
<1>5. ASSUME NEW i \in 1 .. ClusterMapSize PROVE g[i] = f[i]
  <2> SUFFICES ASSUME g[i] # f[i] PROVE FALSE
    OBVIOUS
  <2>1. PICK B : B = {k \in 1 .. ClusterMapSize : g[k] # f[k]}
    OBVIOUS
  <2>2. B \in SUBSET Nat /\ B # {}
    BY <2>1
  <2>3. PICK k \in B : \A y \in B : k <= y
    BY <2>2, MinLemma
  <2>4. k \in 1 .. ClusterMapSize /\ g[k] # f[k]
    BY <2>1
  <2>5. g[k] = IF k = 1 THEN h ELSE IF g[k - 1] \in Clusters THEN fat[g[k - 1]] ELSE EOF
    BY <1>2, <2>4 DEF Steps
  <2>6. f[k] = IF k = 1 THEN h ELSE IF f[k - 1] \in Clusters THEN fat[f[k - 1]] ELSE EOF
    BY <2>4 DEF Steps
  <2>7. k # 1 => g[k - 1] = f[k - 1]
    <3> SUFFICES ASSUME k # 1, g[k - 1] # f[k - 1] PROVE FALSE
        OBVIOUS
    <3>1. k - 1 \in 1 .. ClusterMapSize /\ ~(k <= k - 1)
        BY <2>4, Numbers
    <3> QED BY <2>1, <2>3, <3>1
  <2> QED BY <2>4, <2>5, <2>6, <2>7
<1>6. g = f
    BY <1>2, <1>4, <1>5 DEF Steps
<1> QED BY <1>3, <1>4, <1>6

\* A whole file is read piece by piece.
LEMMA WalkWhole ==
    ASSUME NEW K \in SUBSET Clusters, NEW h, NEW m, NEW v \in Values, FileOn(fat, store, K, h, m, v)
    PROVE  Len(Walk(h)) = m /\ \A k \in 1 .. m : store[Walk(h)[k]] = <<v, k>>
<1>0. /\ m \in Nat /\ ClusterMapSize \in Nat /\ 1 <= m /\ m <= ClusterMapSize
      /\ h \in K /\ store[h] = <<v, 1>>
      /\ \A y \in K : \E k \in 1 .. m :
             /\ store[y] = <<v, k>>
             /\ IF k = m THEN fat[y] = EOF ELSE fat[y] \in K /\ store[fat[y]] = <<v, k + 1>>
      /\ \A y, z \in K : store[y] = store[z] => y = z
    BY Numbers DEF FileOn
<1>1. \A k \in 1 .. m, y \in K : store[y] = <<v, k>> =>
          IF k = m THEN fat[y] = EOF ELSE fat[y] \in K /\ store[fat[y]] = <<v, k + 1>>
    BY <1>0
<1>2. ASSUME NEW i \in 1 .. m PROVE \E y \in K : store[y] = <<v, i>>
  <2> SUFFICES ASSUME ~\E y \in K : store[y] = <<v, i>> PROVE FALSE
    OBVIOUS
  <2>1. PICK B : B = {k \in 1 .. m : ~\E y \in K : store[y] = <<v, k>>}
    OBVIOUS
  <2>2. B \in SUBSET Nat /\ B # {}
    <3>1. \A k \in 1 .. m : k \in Nat
        BY <1>0
    <3> QED BY <2>1, <3>1
  <2>3. PICK k \in B : \A j \in B : k <= j
    BY <2>2, MinLemma
  <2>4. k \in 1 .. m /\ k # 1
    BY <1>0, <2>1
  <2>5. k - 1 \in 1 .. m /\ k - 1 # m /\ (k - 1) + 1 = k /\ ~(k <= k - 1)
    BY <1>0, <2>4
  <2>6. PICK y \in K : store[y] = <<v, k - 1>>
    BY <2>1, <2>3, <2>5
  <2>7. fat[y] \in K /\ store[fat[y]] = <<v, k>>
    BY <1>1, <2>5, <2>6
  <2> QED BY <2>1, <2>7
<1>3. PICK f : f = [i \in 1 .. ClusterMapSize |->
                       IF i <= m THEN CHOOSE y \in K : store[y] = <<v, i>> ELSE EOF]
    OBVIOUS
<1>4. ASSUME NEW i \in 1 .. ClusterMapSize
      PROVE  IF i <= m THEN f[i] \in K /\ store[f[i]] = <<v, i>> ELSE f[i] = EOF
  <2>1. i <= m => i \in 1 .. m
    BY <1>0
  <2>2. i <= m => f[i] = CHOOSE y \in K : store[y] = <<v, i>>
    BY <1>3
  <2>3. ~(i <= m) => f[i] = EOF
    BY <1>3
  <2> QED BY <1>2, <2>1, <2>2, <2>3
<1>5. ASSUME NEW i \in 1 .. ClusterMapSize
      PROVE  f[i] = IF i = 1 THEN h ELSE IF f[i - 1] \in Clusters THEN fat[f[i - 1]] ELSE EOF
  <2>1. CASE i = 1
    <3>1. i <= m
        BY <1>0, <2>1
    <3> QED BY <1>0, <1>4, <2>1, <3>1
  <2>2. CASE i # 1 /\ i <= m
    <3>1. PICK j \in 1 .. m : j = i - 1 /\ j # m /\ j + 1 = i /\ j <= m /\ j \in 1 .. ClusterMapSize
        BY <1>0, <2>2
    <3>2. f[j] \in K /\ store[f[j]] = <<v, j>>
        BY <1>4, <3>1
    <3>3. fat[f[j]] \in K /\ store[fat[f[j]]] = <<v, i>>
        BY <1>1, <3>1, <3>2
    <3>4. f[i] \in K /\ store[f[i]] = <<v, i>>
        BY <1>4, <2>2
    <3>5. f[i] = fat[f[j]]
        BY <1>0, <3>3, <3>4
    <3> QED BY <2>2, <3>1, <3>2, <3>5
  <2>3. CASE i = m + 1
    <3>1. m \in 1 .. m /\ m <= m /\ i - 1 = m /\ i # 1 /\ ~(i <= m)
        BY <1>0, <2>3
    <3>2. f[m] \in K /\ store[f[m]] = <<v, m>>
        BY <1>0, <1>4, <3>1
    <3>3. fat[f[m]] = EOF /\ f[i] = EOF
        BY <1>1, <1>4, <3>1, <3>2
    <3> QED BY <3>1, <3>2, <3>3
  <2>4. CASE i > m + 1
    <3>1. i - 1 \in 1 .. ClusterMapSize /\ ~(i - 1 <= m) /\ ~(i <= m) /\ i # 1
        BY <1>0, <2>4
    <3>2. f[i - 1] = EOF /\ f[i] = EOF
        BY <1>4, <3>1
    <3> QED BY <3>1, <3>2, Numbers
  <2> QED BY <1>0, <2>1, <2>2, <2>3, <2>4
<1>6. f = Steps(h, f)
    BY <1>3, <1>5 DEF Steps
<1>7. {i \in 1 .. ClusterMapSize : f[i] \in Clusters} = 1 .. m
  <2>1. \A i \in 1 .. ClusterMapSize : f[i] \in Clusters <=> i <= m
    BY <1>4, Numbers
  <2> QED BY <1>0, <2>1
<1>8. Cardinality(1 .. m) = m
    BY <1>0, FS_Interval
<1>9. Walk(h) = SubSeq(f, 1, m)
    BY <1>6, <1>7, <1>8, WalkSteps
<1>10. \A i \in 1 .. m : f[i] \in K /\ store[f[i]] = <<v, i>>
    BY <1>0, <1>4
<1>11. /\ Len(SubSeq(f, 1, m)) = IF 1 <= m THEN m - 1 + 1 ELSE 0
       /\ \A i \in 1 .. m - 1 + 1 : SubSeq(f, 1, m)[i] = f[1 + i - 1]
    BY <1>0, <1>10, SubSeqProperties
<1>12. Len(SubSeq(f, 1, m)) = m /\ \A i \in 1 .. m : SubSeq(f, 1, m)[i] = f[i]
    BY <1>0, <1>11
<1> QED BY <1>9, <1>10, <1>12
-----------------------------------------------------------------------------
(* What a successful write and a successful delete do to the folders.      *)

\* Slot s of folder d takes entry x, and the free clusters A are taken: for a
\* folder one cluster, which becomes a folder.
Adds(d, s, x, A) ==
    /\ d \in Folders /\ s \in Slots /\ s > 0 /\ ~store[d][s].used
    /\ A \subseteq Available /\ x.used /\ store'[d][s] = x
    /\ \A i \in Slots \ {s} : store'[d][i] = store[d][i]
    /\ \A c \in Clusters \ (A \cup {d}) : store'[c] = store[c]
    /\ \A c \in Clusters \ A : fat'[c] = fat[c]
    /\ Folders' = Folders \cup (IF x.attr THEN A ELSE {})

\* Slot i of folder d, which lists cluster h, is cleared and the clusters R
\* of its chain are free: a folder among them is h and lists nothing.
Removes(d, n, i, h, R) ==
    /\ d \in Folders /\ i \in Used(d) /\ store[d][i].name = n /\ store[d][i].cluster = h
    /\ ~store'[d][i].used /\ store'[d][i].name = NoName
    /\ \A j \in Slots \ {i} : store'[d][j] = store[d][j]
    /\ \A c \in Clusters \ {d} : store'[c] = store[c]
    /\ h \in R /\ R \subseteq Allocated \ {ROOT}
    /\ \A c \in R : fat'[c] = EMPTY
    /\ \A c \in Clusters \ R : fat'[c] = fat[c]
    /\ \A c \in Folders : c \in R => c = h /\ Used(c) = {}
    /\ Folders' = Folders \ R

\* A folder is listed, so a request may name it.
LEMMA FolderIsParent ==
    ASSUME NothingLost, NEW d \in Folders
    PROVE  d \in Parents /\ d \in Clusters
BY DEF NothingLost, FoldersListed, Parents, Folders, Allocated

\* write of a folder.
LEMMA WriteFolderAdds ==
    ASSUME TypeOK, Solid, NEW d \in Parents, NEW n \in Names, NEW e \in Exts,
           WriteFolder(d, n, e), fault' = "none"
    PROVE  \E s : /\ Adds(d, s, NewEntry(n, e, 0), {EmptyCluster})
                  /\ store'[EmptyCluster] = init_directory_table(n, d)
<1>1. /\ d \in Clusters /\ d \in Allocated /\ store[d] \in Tables
      /\ EmptyCluster \in Available /\ EmptyCluster \in Clusters /\ FreeSlots(store[d]) # {}
  <2>1. store[d] \in Tables /\ Available # {} /\ FreeSlots(store[d]) # {}
    BY WriteCodeZero, Zenon DEF WriteFolder
  <2> QED BY <2>1, ParentType, ParentAllocated, EmptyClusterType
<1>2. PICK z : z = EmptyCluster
    OBVIOUS
<1>3. z \in Clusters /\ z \in Available /\ z # d /\ fat[z] = EMPTY /\ z >= 2
    BY <1>1, <1>2 DEF Available, EmptyClusters, Allocated
<1>4. PICK s : s = NewEntryIdx(store[d])
    OBVIOUS
<1>5. s \in Slots /\ s > 0 /\ ~store[d][s].used
    BY <1>1, <1>4, NewEntryIdxType
<1>6. /\ fat' = [fat EXCEPT ![z] = EOF]
      /\ store' = [store EXCEPT ![z] = init_directory_table(n, d), ![d] = WithEntry(d, n, e, 0)]
    BY <1>2 DEF WriteFolder
<1>7. /\ \A c \in Clusters \ {z} : fat'[c] = fat[c]
      /\ fat'[z] = EOF
      /\ store'[z] = init_directory_table(n, d)
      /\ store'[d] = WithEntry(d, n, e, 0)
      /\ \A c \in Clusters \ {z, d} : store'[c] = store[c]
    BY <1>1, <1>3, <1>6 DEF TypeOK
<1>8. store'[d] \in Tables /\ store'[z] \in Tables
    BY <1>1, <1>7, NewTableType
<1>9. store'[d][s] = NewEntry(n, e, 0) /\ \A i \in Slots \ {s} : store'[d][i] = store[d][i]
    BY <1>1, <1>4, <1>5, <1>7 DEF WithEntry, Tables
<1>10. NewEntry(n, e, 0).used /\ NewEntry(n, e, 0).attr
  <2>1. NewEntry(n, e, 0).used = TRUE /\ NewEntry(n, e, 0).attr = (0 = 0)
    BY DEF NewEntry
  <2> QED BY <2>1
<1>11. Folders' = Folders \cup {z}
  <2>1. \A c \in Clusters \ {z} : c \in Folders' <=> c \in Folders
    BY <1>1, <1>7, <1>8 DEF Folders, Allocated
  <2>2. z \in Folders'
    BY <1>3, <1>7, <1>8 DEF Folders, Allocated, EOF, EMPTY
  <2>3. Folders' \subseteq Clusters /\ Folders \subseteq Clusters
    BY DEF Folders, Allocated
  <2> QED BY <2>1, <2>2, <2>3
<1>12. d \in Folders
    BY <1>1 DEF Folders
<1>13. Adds(d, s, NewEntry(n, e, 0), {z})
    BY <1>3, <1>5, <1>7, <1>9, <1>10, <1>11, <1>12 DEF Adds
<1> QED BY <1>2, <1>7, <1>13

\* write of a file.
LEMMA WriteFileAdds ==
    ASSUME TypeOK, Solid, NEW d \in Parents, NEW n \in Names, NEW e \in Exts,
           NEW b \in Sizes, NEW v \in Values, WriteFile(d, n, e, b, v), fault' = "none"
    PROVE  \E s, A : /\ Adds(d, s, NewEntry(n, e, b), A)
                     /\ FileOn(fat', store', A, EmptyCluster, ceil_div(b, ClusterSize), v)
<1>1. /\ d \in Clusters /\ d \in Allocated /\ store[d] \in Tables
      /\ FreeSlots(store[d]) # {} /\ b \in Nat /\ b > 0 /\ fat[d] # EMPTY /\ SolidIn(fat, store)
  <2>1. b > 0 /\ WriteCode(d, n, e, b) = 0
    BY DEF WriteFile
  <2>2. store[d] \in Tables /\ b \in Nat
    BY <2>1, WriteCodeZero, ConstantsAssumption
  <2>3. FreeSlots(store[d]) # {}
    BY Zenon DEF WriteFile
  <2> QED BY <2>1, <2>2, <2>3, ParentType, ParentAllocated, SolidIs DEF Allocated
<1>2. PICK A : A = LowestEmpty(ceil_div(b, ClusterSize))
    OBVIOUS
<1>3. FileOn(fat', store', A, EmptyCluster, ceil_div(b, ClusterSize), v)
    BY <1>2, WriteFileOn
<1>4. A \subseteq Available /\ A \subseteq Clusters /\ d \notin A
  <2>1. ~(Cardinality(Available) < ceil_div(b, ClusterSize))
    BY WriteCodeZero DEF WriteFile
  <2>2. A \subseteq Available
    BY <1>1, <1>2, <2>1, LowestClusters
  <2> QED BY <1>1, <2>2 DEF Available, EmptyClusters
<1>5. PICK s : s = NewEntryIdx(store[d])
    OBVIOUS
<1>6. s \in Slots /\ s > 0 /\ ~store[d][s].used
    BY <1>1, <1>5, NewEntryIdxType
<1>7. /\ fat' = [c \in Clusters |-> IF c \in A THEN Link(A, c) ELSE fat[c]]
      /\ store' = [c \in Clusters |->
                      IF c = d THEN WithEntry(d, n, e, b)
                      ELSE IF c \in A THEN <<v, Cardinality({x \in A : x <= c})>> ELSE store[c]]
    BY <1>2 DEF WriteFile
<1>8. /\ \A c \in Clusters \ A : fat'[c] = fat[c]
      /\ store'[d] = WithEntry(d, n, e, b)
      /\ \A c \in Clusters \ (A \cup {d}) : store'[c] = store[c]
      /\ \A c \in A : store'[c] = <<v, Cardinality({x \in A : x <= c})>>
    BY <1>1, <1>4, <1>7
<1>9. store'[d] \in Tables /\ \A c \in A : store'[c] \notin Tables
  <2>1. store'[d] \in Tables
    BY <1>1, <1>8, NewTableType
  <2>2. \A c \in A : store'[c] \notin Tables
    BY <1>8, PieceNotTable
  <2> QED BY <2>1, <2>2
<1>10. store'[d][s] = NewEntry(n, e, b) /\ \A i \in Slots \ {s} : store'[d][i] = store[d][i]
    BY <1>1, <1>5, <1>6, <1>8 DEF WithEntry, Tables
<1>11. NewEntry(n, e, b).used /\ ~NewEntry(n, e, b).attr
  <2>1. NewEntry(n, e, b).used = TRUE /\ NewEntry(n, e, b).attr = (b = 0)
    BY DEF NewEntry
  <2>2. ~(b = 0)
    BY <1>1
  <2> QED BY <2>1, <2>2, Zenon
<1>12. Folders' = Folders
  <2>1. \A c \in Clusters \ A : c \in Folders' <=> c \in Folders
    BY <1>1, <1>8, <1>9 DEF Folders, Allocated
  <2>2. \A c \in A : c \notin Folders' /\ c \notin Folders
    BY <1>4, <1>9 DEF Folders, Allocated, Available, EmptyClusters
  <2>3. Folders' \subseteq Clusters /\ Folders \subseteq Clusters
    BY DEF Folders, Allocated
  <2> QED BY <1>4, <2>1, <2>2, <2>3
<1>13. d \in Folders
    BY <1>1 DEF Folders
<1>14. Adds(d, s, NewEntry(n, e, b), A)
    BY <1>4, <1>6, <1>8, <1>10, <1>11, <1>12, <1>13 DEF Adds
<1> QED BY <1>3, <1>14

\* delete.
LEMMA DeleteRemoves ==
    ASSUME TypeOK, Solid, NEW d \in Parents, NEW n, NEW e, n # NoName,
           Delete(d, n, e), fault' = "none"
    PROVE  \E h, R : Removes(d, n, Min(Matches(store[d], n, e)), h, R)
<1>1. PICK i, h, R :
      /\ store[d] \in Tables /\ i = Min(Matches(store[d], n, e)) /\ h = store[d][i].cluster
      /\ i # 0 /\ i \in Slots /\ store[d][i].name = n /\ d \in Clusters /\ d \in Folders
      /\ i \in Used(d) /\ h \in Allocated /\ h # ROOT /\ ~Pointed(h) /\ h \in Clusters
      /\ h \in R /\ R \subseteq Clusters /\ R \subseteq Allocated \ {ROOT}
      /\ \A y \in R : fat[y] \in Clusters => fat[y] \in R
      /\ \A x \in R : x # h => \E y \in R : fat[y] = x
      /\ \A c \in R : fat'[c] = EMPTY
      /\ \A c \in Clusters \ R : fat'[c] = fat[c]
      /\ store'[d] \in Tables
      /\ \A c \in Clusters \ {d} : store'[c] = store[c]
      /\ \A j \in Slots \ {i} : store'[d][j] = store[d][j]
      /\ ~store'[d][i].used /\ store'[d][i].name = NoName
      /\ \A c \in Folders : c \in R => Used(c) = {}
    BY DeleteEffect, SMTT(40)
<1>2. \A c \in Folders : c \in R => c = h
    BY <1>1 DEF Solid, FoldersAlone, Pointed
<1>3. Folders' = Folders \ R
    BY <1>1 DEF Folders, Allocated
<1>4. Removes(d, n, i, h, R)
    BY <1>1, <1>2, <1>3 DEF Removes
<1> QED BY <1>1, <1>4

\* A folder's own entry has a name and no extension, and its slots in use have
\* names.
Named(t) ==
    /\ t[0].ext = NoExt /\ t[0].name # NoName
    /\ \A i \in Slots : i > 0 /\ t[i].used => t[i].name # NoName
AllNamed(F, S) == \A c \in FoldersIn(F, S) : Named(S[c])

\* All that callers may rely on, of a disk on which no search fell through.
Ordered ==
    /\ TypeOK /\ Solid /\ NothingLost /\ AllDistinct
    /\ WholeIn(fat, store) /\ AllNamed(fat, store)

\* A call that changes nothing on disk.
LEMMA KeptOrdered ==
    ASSUME Ordered, UNCHANGED <<fat, store, fault>>, ret' \in Int
    PROVE  Ordered'
<1>1. Solid' /\ NothingLost'
    BY UnchangedSound DEF Ordered
<1>2. TypeOK' /\ AllDistinct'
    BY DEF Ordered, TypeOK, AllDistinct, Distinct, Folders, Allocated
<1>3. WholeIn(fat, store)' /\ AllNamed(fat, store)'
    BY DEF Ordered
<1> QED BY <1>1, <1>2, <1>3 DEF Ordered

\* The table of a new folder.
LEMMA NewTableNamed ==
    ASSUME NEW n, n # NoName, NEW p
    PROVE  Named(init_directory_table(n, p))
<1>1. init_directory_table(n, p)[0].ext = NoExt /\ init_directory_table(n, p)[0].name = n
    BY Numbers DEF init_directory_table, ZeroTable, ZeroEntry
<1>2. \A i \in Slots : i > 0 => init_directory_table(n, p)[i].used = FALSE
    BY Numbers DEF init_directory_table, ZeroTable, ZeroEntry
<1> QED BY <1>1, <1>2 DEF Named

\* A new entry has a name.
LEMMA EntryNamed ==
    ASSUME NEW d, NEW s, NEW n \in Names, NEW e, NEW b, NEW A, Adds(d, s, NewEntry(n, e, b), A),
           NEW c \in Clusters \ A, Named(store[c])
    PROVE  Named(store'[c])
<1>1. NewEntry(n, e, b).name # NoName
    BY ConstantsAssumption DEF NewEntry
<1>2. ASSUME NEW i \in Slots PROVE store'[c][i].name # NoName \/ store'[c][i] = store[c][i]
  <2>1. CASE c = d /\ i = s
    BY <1>1, <2>1 DEF Adds
  <2>2. CASE ~(c = d /\ i = s)
    BY <2>2 DEF Adds
  <2> QED BY <2>1, <2>2
<1>3. store'[c][0] = store[c][0]
    BY Numbers DEF Adds
<1> QED BY <1>2, <1>3 DEF Named

\* write of a folder leaves the disk in order.
LEMMA WriteFolderOrdered ==
    ASSUME Ordered, NEW d \in Parents, NEW n \in Names, NEW e \in Exts,
           WriteFolder(d, n, e), fault' = "none"
    PROVE  Ordered'
<1>1. TypeOK /\ Solid /\ NothingLost /\ AllDistinct /\ WholeIn(fat, store) /\ AllNamed(fat, store)
    BY DEF Ordered
<1>2. TypeOK' /\ Solid' /\ NothingLost' /\ AllDistinct' /\ WholeIn(fat', store')
    BY <1>1, WriteFolderType, WriteFolderSound, WriteFolderNames, WriteFolderWhole
<1>3. PICK s : /\ Adds(d, s, NewEntry(n, e, 0), {EmptyCluster})
               /\ store'[EmptyCluster] = init_directory_table(n, d)
    BY <1>1, WriteFolderAdds
<1>4. Named(init_directory_table(n, d))
    BY ConstantsAssumption, NewTableNamed
<1>5. ASSUME NEW c \in Folders'
      PROVE  Named(store'[c])
  <2>1. CASE c = EmptyCluster
    BY <1>3, <1>4, <2>1
  <2>2. CASE c # EmptyCluster
    <3>1. c \in Folders /\ c \in Clusters
      BY <1>3, <2>2 DEF Adds, Folders, Allocated
    <3>2. Named(store[c])
      BY <1>1, <3>1, SolidIs DEF AllNamed
    <3> QED BY <1>3, <2>2, <3>1, <3>2, EntryNamed
  <2> QED BY <2>1, <2>2
<1> QED BY <1>2, <1>5, SolidIsNext DEF Ordered, AllNamed

\* write of a file leaves the disk in order.
LEMMA WriteFileOrdered ==
    ASSUME Ordered, NEW d \in Parents, NEW n \in Names, NEW e \in Exts,
           NEW b \in Sizes, NEW v \in Values, WriteFile(d, n, e, b, v), fault' = "none"
    PROVE  Ordered'
<1>1. TypeOK /\ Solid /\ NothingLost /\ AllDistinct /\ WholeIn(fat, store) /\ AllNamed(fat, store)
    BY DEF Ordered
<1>2. TypeOK' /\ Solid' /\ NothingLost' /\ AllDistinct' /\ WholeIn(fat', store')
    BY <1>1, WriteFileType, WriteFileSound, WriteFileNames, WriteFileWhole
<1>3. PICK s, A : /\ Adds(d, s, NewEntry(n, e, b), A)
                  /\ FileOn(fat', store', A, EmptyCluster, ceil_div(b, ClusterSize), v)
    BY <1>1, WriteFileAdds
<1>4. \A c \in A : store'[c] \notin Tables
  <2>1. \A c \in A : \E k : store'[c] = <<v, k>>
    BY <1>3 DEF FileOn
  <2> QED BY <2>1, PieceNotTable
<1>5. ASSUME NEW c \in Folders'
      PROVE  Named(store'[c])
  <2>1. c \notin A
    BY <1>4 DEF Folders
  <2>2. c \in Folders /\ c \in Clusters
    BY <1>3, <2>1 DEF Adds, Folders, Allocated
  <2>3. Named(store[c])
    BY <1>1, <2>2, SolidIs DEF AllNamed
  <2> QED BY <1>3, <2>1, <2>2, <2>3, EntryNamed
<1> QED BY <1>2, <1>5, SolidIsNext DEF Ordered, AllNamed

\* delete leaves the disk in order.
LEMMA DeleteOrdered ==
    ASSUME Ordered, NEW d \in Parents, NEW n, NEW e, n # NoName,
           Delete(d, n, e), fault' = "none"
    PROVE  Ordered'
<1>1. TypeOK /\ Solid /\ NothingLost /\ AllDistinct /\ WholeIn(fat, store) /\ AllNamed(fat, store)
    BY DEF Ordered
<1>2. TypeOK' /\ Solid' /\ NothingLost' /\ AllDistinct' /\ WholeIn(fat', store')
    BY <1>1, DeleteType, DeleteSound, DeleteNames, DeleteWhole
<1>3. PICK i, h, R : Removes(d, n, i, h, R)
    BY <1>1, DeleteRemoves
<1>4. ASSUME NEW c \in Folders'
      PROVE  Named(store'[c])
  <2>1. c \in Folders /\ c \in Clusters /\ i # 0
    BY <1>3 DEF Removes, Folders, Allocated, Used
  <2>2. Named(store[c])
    BY <1>1, <2>1, SolidIs DEF AllNamed
  <2>3. \A j \in Slots : ~store'[c][j].used \/ store'[c][j] = store[c][j]
    BY <1>3, <2>1 DEF Removes
  <2>4. store'[c][0] = store[c][0]
    BY <1>3, <2>1, Numbers DEF Removes
  <2> QED BY <2>2, <2>3, <2>4 DEF Named
<1> QED BY <1>2, <1>4, SolidIsNext DEF Ordered, AllNamed

\* The formatted disk is in order.
LEMMA InitOrdered == Init => Ordered
<1> SUFFICES ASSUME Init PROVE Ordered
    OBVIOUS
<1>1. fat = InitFat /\ store = InitStore
    BY DEF Init
<1>2. TypeOK /\ Solid /\ NothingLost /\ AllDistinct /\ WholeIn(fat, store)
    BY <1>1, InitType, InitSound, FormattedNames, FormattedWhole DEF Sound
<1>3. AllNamed(fat, store)
  <2> SUFFICES ASSUME NEW c \in FoldersIn(fat, store)
               PROVE  Named(store[c])
    BY DEF AllNamed
  <2>1. c = ROOT
    BY <1>1, ConstantsAssumption DEF InitFat, FoldersIn, AllocIn, Clusters, ROOT
  <2>2. store[c] = init_directory_table(RootName, ROOT)
    BY <1>1, <2>1, ConstantsAssumption DEF InitStore, Clusters, ROOT
  <2> QED BY <2>2, ConstantsAssumption, NewTableNamed
<1> QED BY <1>2, <1>3 DEF Ordered

-----------------------------------------------------------------------------
(* What the searches find in a folder.                                     *)

\* A folder passes the test every operation starts with.
LEMMA FolderTable ==
    ASSUME Ordered, NEW d \in Folders
    PROVE  IsFolder(d) /\ store[d] \in Tables /\ d \in Clusters
<1>1. Solid
    BY DEF Ordered
<1>2. store[d] \in Tables /\ d \in Clusters
    BY DEF Folders, Allocated
<1>3. store[d][0].attr
    BY <1>1, Zenon DEF Solid, FoldersLinked
<1> QED BY <1>2, <1>3 DEF IsFolder

\* A search finds the one slot that bears the name.
LEMMA FindsOne ==
    ASSUME Ordered, NEW d \in Folders, NEW n, NEW e, n # NoName,
           NEW i \in Slots, store[d][i].name = n, store[d][i].ext = e
    PROVE  Matches(store[d], n, e) = {i} /\ Min(Matches(store[d], n, e)) = i
<1>1. Distinct(store[d])
    BY DEF Ordered, AllDistinct
<1>2. \A j \in Matches(store[d], n, e) : j = i
    BY <1>1 DEF Matches, Distinct
<1>3. Matches(store[d], n, e) = {i}
    BY <1>2 DEF Matches
<1>4. {i} \in SUBSET Nat /\ {i} # {}
    BY Numbers
<1>5. Min({i}) \in {i}
    BY <1>4, MinLemma
<1> QED BY <1>3, <1>5

\* What a search for a name finds is the folder's own entry or in use.
LEMMA FindsUsed ==
    ASSUME Ordered, NEW d \in Folders, NEW n, NEW e, n # NoName, Matches(store[d], n, e) # {}
    PROVE  \E i \in Slots : /\ store[d][i].name = n /\ store[d][i].ext = e /\ store[d][i].used
                            /\ (i = 0 /\ e = NoExt) \/ i \in Used(d)
<1>1. Solid /\ AllNamed(fat, store)
    BY DEF Ordered
<1>2. PICK i \in Slots : store[d][i].name = n /\ store[d][i].ext = e
    BY DEF Matches
<1>3. store[d][i].used
    BY <1>1, <1>2 DEF Solid, FreeSlotsNameless
<1>4. i = 0 \/ i \in Used(d)
    BY <1>3, Numbers DEF Used
<1>5. store[d][0].ext = NoExt
    BY <1>1, SolidIs DEF AllNamed, Named
<1> QED BY <1>2, <1>3, <1>4, <1>5

\* A read into b bytes finds slot i of folder d, a file of m clusters that hold
\* v, and copies its pieces in order.
Reads(d, n, e, b, i, m, v) ==
    /\ i \in Used(d) /\ m \in 1 .. ClusterMapSize /\ v \in Values
    /\ store[d][i].name = n /\ store[d][i].ext = e /\ ~store[d][i].attr
    /\ Matches(store[d], n, e) = {i} /\ Min(Matches(store[d], n, e)) = i
    /\ ~(b < store[d][i].filesize) /\ m = ceil_div(store[d][i].filesize, ClusterSize)
    /\ ReadClusters(d, n, e) = [k \in 1 .. m |-> <<v, k>>]

\* A read that succeeds found a file.
LEMMA FileRead ==
    ASSUME Ordered, NEW d \in Folders, NEW n, NEW e, n # NoName, NEW b, ReadCode(d, n, e, b) = 0
    PROVE  \E i, m, v : Reads(d, n, e, b, i, m, v)
<1>1. Matches(store[d], n, e) # {} /\ ~Target(d, n, e).attr /\ ~(b < Target(d, n, e).filesize)
    BY DEF ReadCode
<1>2. PICK i \in Slots : /\ store[d][i].name = n /\ store[d][i].ext = e /\ store[d][i].used
                         /\ (i = 0 /\ e = NoExt) \/ i \in Used(d)
  <2>1. Matches(store[d], n, e) # {}
    BY <1>1
  <2> QED BY <2>1, FindsUsed
<1>3. Matches(store[d], n, e) = {i} /\ Min(Matches(store[d], n, e)) = i
    BY <1>2, FindsOne
<1>4. Target(d, n, e) = store[d][i]
    BY <1>3 DEF Target
<1>5. i \in Used(d)
  <2>1. store[d][0].attr
    BY FolderTable DEF IsFolder
  <2> QED BY <1>1, <1>2, <1>4, <2>1
<1>6. IsFile(fat, store, store[d][i])
    BY <1>1, <1>4, <1>5, SolidIs DEF Ordered, WholeIn
<1>7. PICK h, m : h = store[d][i].cluster /\ m = ceil_div(store[d][i].filesize, ClusterSize)
    OBVIOUS
<1>8. PICK K \in SUBSET Clusters, v \in Values : FileOn(fat, store, K, h, m, v)
    BY <1>6, <1>7 DEF IsFile
<1>9. m \in 1 .. ClusterMapSize /\ Len(Walk(h)) = m /\ \A k \in 1 .. m : store[Walk(h)[k]] = <<v, k>>
  <2>1. m \in 1 .. ClusterMapSize
    BY <1>8 DEF FileOn
  <2> QED BY <1>8, <2>1, WalkWhole, ZenonT(60)
<1>10. ReadClusters(d, n, e) = [k \in 1 .. Len(Walk(h)) |-> store[Walk(h)[k]]]
    BY <1>4, <1>7 DEF ReadClusters
<1>11. ReadClusters(d, n, e) = [k \in 1 .. m |-> <<v, k>>]
    BY <1>9, <1>10
<1>12. Reads(d, n, e, b, i, m, v)
    BY <1>1, <1>2, <1>3, <1>4, <1>5, <1>7, <1>9, <1>11 DEF Reads
<1> QED BY <1>12
-----------------------------------------------------------------------------
(* The tree of folders that the tables show.                               *)

\* r is what a directory entry x stands for: a folder and its handle, or a
\* file and its contents.
Shows(F, S, x, r) ==
    IF x.attr
    THEN r = [folder |-> TRUE, handle |-> x.cluster, size |-> x.filesize, data |-> <<>>]
    ELSE \E K \in SUBSET Clusters, v \in Values, m \in Nat :
             /\ m = ceil_div(x.filesize, ClusterSize) /\ FileOn(F, S, K, x.cluster, m, v)
             /\ r = [folder |-> FALSE, handle |-> 0, size |-> x.filesize,
                     data |-> [j \in 1 .. m |-> <<v, j>>]]

\* L is what the slots in use of folder c list.
ListShown(F, S, c, L) ==
    /\ L = [k \in {<<S[c][i].name, S[c][i].ext>> : i \in UsedIn(S, c)} |-> L[k]]
    /\ \A i \in UsedIn(S, c) : Shows(F, S, S[c][i], L[<<S[c][i].name, S[c][i].ext>>])

\* f is what the table of folder c says of it.
FolderShown(F, S, c, f) ==
    /\ f = [name |-> S[c][0].name, parent |-> S[c][0].cluster, list |-> f.list]
    /\ ListShown(F, S, c, f.list)

\* T is the tree of the folders.
TreeShown(F, S, T) ==
    /\ T = [c \in FoldersIn(F, S) |-> T[c]]
    /\ \A c \in FoldersIn(F, S) : FolderShown(F, S, c, T[c])

\* An entry stands for one thing only.
LEMMA ShowsOne ==
    ASSUME NEW F, NEW S, NEW x, NEW r, NEW q, Shows(F, S, x, r), Shows(F, S, x, q)
    PROVE  r = q
<1>1. CASE x.attr
    BY <1>1 DEF Shows
<1>2. CASE ~x.attr
  <2>1. PICK K, v, m : /\ m = ceil_div(x.filesize, ClusterSize) /\ FileOn(F, S, K, x.cluster, m, v)
                       /\ r = [folder |-> FALSE, handle |-> 0, size |-> x.filesize,
                               data |-> [j \in 1 .. m |-> <<v, j>>]]
    BY <1>2 DEF Shows
  <2>2. PICK L, u, n : /\ n = ceil_div(x.filesize, ClusterSize) /\ FileOn(F, S, L, x.cluster, n, u)
                       /\ q = [folder |-> FALSE, handle |-> 0, size |-> x.filesize,
                               data |-> [j \in 1 .. n |-> <<u, j>>]]
    BY <1>2 DEF Shows
  <2>3. S[x.cluster] = <<v, 1>> /\ S[x.cluster] = <<u, 1>>
    BY <2>1, <2>2 DEF FileOn
  <2>4. v = u /\ m = n
    BY <2>1, <2>2, <2>3
  <2> QED BY <2>1, <2>2, <2>4
<1> QED BY <1>1, <1>2

\* The tables show one tree only.
LEMMA TreeOnly ==
    ASSUME NEW F, NEW S, NEW T, NEW U, TreeShown(F, S, T), TreeShown(F, S, U)
    PROVE  T = U
<1>1. ASSUME NEW c \in FoldersIn(F, S) PROVE T[c] = U[c]
  <2>1. PICK L, M : L = T[c].list /\ M = U[c].list
    OBVIOUS
  <2>2. /\ ListShown(F, S, c, L) /\ T[c] = [name |-> S[c][0].name, parent |-> S[c][0].cluster, list |-> L]
        /\ ListShown(F, S, c, M) /\ U[c] = [name |-> S[c][0].name, parent |-> S[c][0].cluster, list |-> M]
    BY <2>1 DEF TreeShown, FolderShown
  <2>3. PICK D : D = {<<S[c][i].name, S[c][i].ext>> : i \in UsedIn(S, c)}
    OBVIOUS
  <2>4. L = [k \in D |-> L[k]] /\ M = [k \in D |-> M[k]]
    BY <2>2, <2>3 DEF ListShown
  <2>5. ASSUME NEW k \in D PROVE L[k] = M[k]
    <3>1. PICK i \in UsedIn(S, c) : k = <<S[c][i].name, S[c][i].ext>>
      BY <2>3
    <3>2. Shows(F, S, S[c][i], L[k]) /\ Shows(F, S, S[c][i], M[k])
      BY <2>2, <3>1 DEF ListShown
    <3> QED BY <3>2, ShowsOne
  <2>6. L = M
    BY <2>4, <2>5
  <2> QED BY <2>2, <2>6
<1>2. T = [c \in FoldersIn(F, S) |-> T[c]] /\ U = [c \in FoldersIn(F, S) |-> U[c]]
    BY DEF TreeShown
<1> QED BY <1>1, <1>2

\* An entry that stays, with its first cluster, stands for what it did.
LEMMA ShowsStays ==
    ASSUME NEW F, NEW S, NEW G, NEW T, NEW x, NEW r, Shows(F, S, x, r),
           ~x.attr => IsFile(G, T, x) /\ T[x.cluster] = S[x.cluster]
    PROVE  Shows(G, T, x, r)
<1>1. CASE x.attr
    BY <1>1 DEF Shows
<1>2. CASE ~x.attr
  <2>1. PICK m, h : m = ceil_div(x.filesize, ClusterSize) /\ h = x.cluster
    OBVIOUS
  <2>2. PICK K \in SUBSET Clusters, v \in Values :
               /\ m \in Nat /\ FileOn(F, S, K, h, m, v)
               /\ r = [folder |-> FALSE, handle |-> 0, size |-> x.filesize,
                       data |-> [j \in 1 .. m |-> <<v, j>>]]
    BY <1>2, <2>1 DEF Shows
  <2>3. PICK L \in SUBSET Clusters, u \in Values : FileOn(G, T, L, h, m, u)
    BY <1>2, <2>1 DEF IsFile
  <2>4. S[h] = <<v, 1>> /\ T[h] = <<u, 1>> /\ T[h] = S[h]
    BY <1>2, <2>1, <2>2, <2>3 DEF FileOn
  <2>5. u = v
    BY <2>4
  <2>6. FileOn(G, T, L, h, m, v)
    BY <2>3, <2>5
  <2>7. \E K2 \in SUBSET Clusters, v2 \in Values, m2 \in Nat :
             /\ m2 = ceil_div(x.filesize, ClusterSize) /\ FileOn(G, T, K2, x.cluster, m2, v2)
             /\ r = [folder |-> FALSE, handle |-> 0, size |-> x.filesize,
                     data |-> [j \in 1 .. m2 |-> <<v2, j>>]]
    BY <2>1, <2>2, <2>6
  <2> QED BY <1>2, <2>7 DEF Shows
<1> QED BY <1>1, <1>2

\* A slot in use is the only one with its name.
LEMMA KeyOne ==
    ASSUME Ordered, NEW c \in Folders, NEW i \in Used(c), NEW j \in Used(c),
           <<store[c][i].name, store[c][i].ext>> = <<store[c][j].name, store[c][j].ext>>
    PROVE  i = j
<1>1. i \in Slots /\ j \in Slots /\ i > 0 /\ store[c][i].used
    BY DEF Used
<1>2. Distinct(store[c]) /\ Named(store[c])
    BY SolidIs DEF Ordered, AllDistinct, AllNamed
<1>3. store[c][i].name # NoName
    BY <1>1, <1>2 DEF Named
<1>4. store[c][i].name = store[c][j].name /\ store[c][i].ext = store[c][j].ext
    OBVIOUS
<1> QED BY <1>1, <1>2, <1>3, <1>4 DEF Distinct

\* The tree of FAT32Store is the one the tables show.
LEMMA TreeIs == Ordered => TreeShown(fat, store, Tree)
<1> SUFFICES ASSUME Ordered PROVE TreeShown(fat, store, Tree)
    OBVIOUS
<1>1. ASSUME NEW c \in Folders PROVE ListShown(fat, store, c, ListOf(c))
  <2>1. PICK L, D : L = ListOf(c) /\ D = {<<store[c][i].name, store[c][i].ext>> : i \in Used(c)}
    BY ZenonT(60)
  <2>2. L = [k \in D |->
                LET x == store[c][CHOOSE i \in Used(c) : <<store[c][i].name, store[c][i].ext>> = k]
                    w == Walk(x.cluster)
                IN  [folder |-> x.attr, handle |-> IF x.attr THEN x.cluster ELSE 0,
                     size |-> x.filesize,
                     data |-> IF x.attr THEN <<>> ELSE [i \in 1 .. Len(w) |-> store[w[i]]]]]
    BY <2>1 DEF ListOf
  <2>3. L = [k \in D |-> L[k]]
    BY <2>2
  <2>4. ASSUME NEW i \in Used(c)
        PROVE  Shows(fat, store, store[c][i], L[<<store[c][i].name, store[c][i].ext>>])
    <3>1. PICK k, x : k = <<store[c][i].name, store[c][i].ext>> /\ x = store[c][i]
      OBVIOUS
    <3>2. k \in D
      BY <2>1, <3>1
    <3>3. PICK y : y = CHOOSE j \in Used(c) : <<store[c][j].name, store[c][j].ext>> = k
      OBVIOUS
    <3>4. y \in Used(c) /\ <<store[c][y].name, store[c][y].ext>> = k
      BY <3>1, <3>3
    <3>5. y = i
      BY <3>1, <3>4, KeyOne
    <3>6. L[k] = [folder |-> x.attr, handle |-> IF x.attr THEN x.cluster ELSE 0,
                  size |-> x.filesize,
                  data |-> IF x.attr THEN <<>>
                           ELSE [j \in 1 .. Len(Walk(x.cluster)) |-> store[Walk(x.cluster)[j]]]]
      BY <2>2, <3>1, <3>2, <3>3, <3>5, Zenon
    <3>7. x.attr \in BOOLEAN
      <4>1. store[c] \in Tables /\ i \in Slots
        BY DEF Folders, Used
      <4> QED BY <3>1, <4>1 DEF Tables, Entry
    <3>8. CASE x.attr
      <4>1. L[k] = [folder |-> TRUE, handle |-> x.cluster, size |-> x.filesize, data |-> <<>>]
        BY <3>6, <3>7, <3>8
      <4> QED BY <3>1, <3>8, <4>1 DEF Shows
    <3>9. CASE ~x.attr
      <4>1. IsFile(fat, store, x)
        BY <3>1, <3>9, SolidIs DEF Ordered, WholeIn
      <4>2. PICK h, m : h = x.cluster /\ m = ceil_div(x.filesize, ClusterSize)
        OBVIOUS
      <4>3. PICK K \in SUBSET Clusters, v \in Values : FileOn(fat, store, K, h, m, v)
        BY <4>1, <4>2 DEF IsFile
      <4>4. m \in 1 .. ClusterMapSize
        BY <4>3 DEF FileOn
      <4>5. Len(Walk(h)) = m /\ \A j \in 1 .. m : store[Walk(h)[j]] = <<v, j>>
        BY <4>3, WalkWhole
      <4>6. PICK z : z = [j \in 1 .. Len(Walk(h)) |-> store[Walk(h)[j]]]
        OBVIOUS
      <4>7. z = [j \in 1 .. m |-> <<v, j>>]
        BY <4>5, <4>6
      <4>8. L[k] = [folder |-> FALSE, handle |-> 0, size |-> x.filesize, data |-> z]
        BY <3>6, <3>7, <3>9, <4>2, <4>6
      <4>9. m \in Nat
        BY <4>4, Numbers
      <4>10. \E K2 \in SUBSET Clusters, v2 \in Values, m2 \in Nat :
                 /\ m2 = ceil_div(x.filesize, ClusterSize) /\ FileOn(fat, store, K2, x.cluster, m2, v2)
                 /\ L[k] = [folder |-> FALSE, handle |-> 0, size |-> x.filesize,
                            data |-> [j \in 1 .. m2 |-> <<v2, j>>]]
        BY <4>2, <4>3, <4>7, <4>8, <4>9, Zenon
      <4>11. Shows(fat, store, x, L[k])
        BY <3>9, <4>10, Zenon DEF Shows
      <4> QED BY <3>1, <4>11
    <3> QED BY <3>8, <3>9
  <2> QED BY <2>1, <2>3, <2>4, SolidIs DEF ListShown
<1>2. PICK T : T = Tree
    OBVIOUS
<1>3. T = [c \in Folders |-> [name |-> store[c][0].name, parent |-> store[c][0].cluster,
                              list |-> ListOf(c)]]
    BY <1>2 DEF Tree
<1>4. \A c \in Folders : T[c].list = ListOf(c)
    BY <1>3
<1>5. \A c \in Folders : T[c] = [name |-> store[c][0].name, parent |-> store[c][0].cluster,
                                 list |-> T[c].list]
    BY <1>3, <1>4
<1>6. T = [c \in FoldersIn(fat, store) |-> T[c]]
    BY <1>3, SolidIs
<1>7. TreeShown(fat, store, T)
    BY <1>1, <1>4, <1>5, <1>6, SolidIs DEF TreeShown, FolderShown
<1> QED BY <1>2, <1>7

\* The same after a step.
LEMMA TreeIsNext == Ordered' => TreeShown(fat', store', Tree')
<1>1. Ordered => TreeShown(fat, store, Tree)
    BY TreeIs
<1>2. (Ordered => TreeShown(fat, store, Tree))'
    BY <1>1, PTL
<1> QED BY <1>2

-----------------------------------------------------------------------------
(* The tree under changes of the tables.                                   *)

\* The slots I of folder c stay, and so do the files they list.
Stay(S, G, T, c, I) ==
    \A i \in I : /\ T[c][i] = S[c][i]
                 /\ ~S[c][i].attr => /\ IsFile(G, T, S[c][i])
                                     /\ T[S[c][i].cluster] = S[S[c][i].cluster]

\* None of the slots I of folder c bears the name and extension k.
NoKey(S, c, I, k) == \A i \in I : <<S[c][i].name, S[c][i].ext>> # k

\* A folder that lists what it did.
LEMMA ListStays ==
    ASSUME NEW F, NEW S, NEW G, NEW T, NEW c, NEW L, ListShown(F, S, c, L),
           UsedIn(T, c) = UsedIn(S, c), Stay(S, G, T, c, UsedIn(S, c))
    PROVE  ListShown(G, T, c, L)
<1>1. PICK D, E : /\ D = {<<S[c][i].name, S[c][i].ext>> : i \in UsedIn(S, c)}
                  /\ E = {<<T[c][i].name, T[c][i].ext>> : i \in UsedIn(T, c)}
    OBVIOUS
<1>2. D = E
  <2>1. D \subseteq E
    BY <1>1 DEF Stay
  <2>2. E \subseteq D
    BY <1>1 DEF Stay
  <2> QED BY <2>1, <2>2
<1>3. L = [k \in D |-> L[k]]
    BY <1>1 DEF ListShown
<1>4. ASSUME NEW i \in UsedIn(T, c) PROVE Shows(G, T, T[c][i], L[<<T[c][i].name, T[c][i].ext>>])
  <2>1. PICK x, r : x = S[c][i] /\ r = L[<<x.name, x.ext>>]
    OBVIOUS
  <2>2. Shows(F, S, x, r) /\ T[c][i] = x
    BY <2>1 DEF ListShown, Stay
  <2>3. ~x.attr => IsFile(G, T, x) /\ T[x.cluster] = S[x.cluster]
    BY <2>1 DEF Stay
  <2>4. Shows(G, T, x, r)
    BY <2>2, <2>3, ShowsStays
  <2> QED BY <2>1, <2>2, <2>4
<1> QED BY <1>1, <1>2, <1>3, <1>4 DEF ListShown

\* A folder that lists one more.
LEMMA ListAdds ==
    ASSUME NEW F, NEW S, NEW G, NEW T, NEW c, NEW L, ListShown(F, S, c, L), NEW s,
           UsedIn(T, c) = UsedIn(S, c) \cup {s}, Stay(S, G, T, c, UsedIn(S, c)),
           NEW k, k = <<T[c][s].name, T[c][s].ext>>, NoKey(S, c, UsedIn(S, c), k),
           NEW r, Shows(G, T, T[c][s], r)
    PROVE  ListShown(G, T, c, Abstract!With(L, k, r))
<1>1. PICK D, E : /\ D = {<<S[c][i].name, S[c][i].ext>> : i \in UsedIn(S, c)}
                  /\ E = {<<T[c][i].name, T[c][i].ext>> : i \in UsedIn(T, c)}
    OBVIOUS
<1>2. E = D \cup {k}
  <2>1. D \subseteq E
    <3>1. ASSUME NEW i \in UsedIn(S, c) PROVE <<S[c][i].name, S[c][i].ext>> \in E
      BY <1>1 DEF Stay
    <3> QED BY <1>1, <3>1
  <2>2. k \in E
    BY <1>1
  <2>3. ASSUME NEW i \in UsedIn(T, c) PROVE <<T[c][i].name, T[c][i].ext>> \in D \cup {k}
    BY <1>1 DEF Stay
  <2>4. E \subseteq D \cup {k}
    BY <1>1, <2>3
  <2> QED BY <2>1, <2>2, <2>4
<1>3. DOMAIN L = D
    BY <1>1 DEF ListShown
<1>4. PICK M : M = Abstract!With(L, k, r)
    OBVIOUS
<1>5. M = [j \in E |-> IF j = k THEN r ELSE L[j]]
    BY <1>2, <1>3, <1>4 DEF Abstract!With
<1>6. ASSUME NEW i \in UsedIn(T, c) PROVE Shows(G, T, T[c][i], M[<<T[c][i].name, T[c][i].ext>>])
  <2>1. CASE i \in UsedIn(S, c)
    <3>1. PICK x, q, z : x = S[c][i] /\ z = <<x.name, x.ext>> /\ q = L[z]
      OBVIOUS
    <3>2. Shows(F, S, x, q) /\ T[c][i] = x /\ z # k
      BY <2>1, <3>1 DEF ListShown, Stay, NoKey
    <3>3. ~x.attr => IsFile(G, T, x) /\ T[x.cluster] = S[x.cluster]
      BY <2>1, <3>1 DEF Stay
    <3>4. Shows(G, T, x, q)
      BY <3>2, <3>3, ShowsStays
    <3>5. z \in E
      BY <1>1, <3>1, <3>2
    <3>6. M[z] = q
      BY <1>5, <3>1, <3>2, <3>5
    <3> QED BY <3>1, <3>2, <3>4, <3>6
  <2>2. CASE i = s
    <3>1. M[k] = r
      BY <1>2, <1>5
    <3> QED BY <2>2, <3>1
  <2> QED BY <2>1, <2>2
<1>7. M = [j \in E |-> M[j]]
    BY <1>5
<1>8. ListShown(G, T, c, M)
    BY <1>1, <1>6, <1>7 DEF ListShown
<1> QED BY <1>4, <1>8

\* A folder that lists one less.
LEMMA ListDrops ==
    ASSUME NEW F, NEW S, NEW G, NEW T, NEW c, NEW L, ListShown(F, S, c, L), NEW s \in UsedIn(S, c),
           UsedIn(T, c) = UsedIn(S, c) \ {s}, Stay(S, G, T, c, UsedIn(T, c)),
           NEW k, k = <<S[c][s].name, S[c][s].ext>>, NoKey(S, c, UsedIn(T, c), k)
    PROVE  ListShown(G, T, c, Abstract!Without(L, k))
<1>1. PICK D, E : /\ D = {<<S[c][i].name, S[c][i].ext>> : i \in UsedIn(S, c)}
                  /\ E = {<<T[c][i].name, T[c][i].ext>> : i \in UsedIn(T, c)}
    OBVIOUS
<1>2. E = D \ {k}
  <2>1. ASSUME NEW i \in UsedIn(S, c), <<S[c][i].name, S[c][i].ext>> # k
        PROVE  <<S[c][i].name, S[c][i].ext>> \in E
    BY <1>1, <2>1 DEF Stay
  <2>2. D \ {k} \subseteq E
    BY <1>1, <2>1
  <2>3. ASSUME NEW i \in UsedIn(T, c) PROVE <<T[c][i].name, T[c][i].ext>> \in D \ {k}
    BY <1>1 DEF Stay, NoKey
  <2>4. E \subseteq D \ {k}
    BY <1>1, <2>3
  <2> QED BY <2>2, <2>4
<1>3. DOMAIN L = D
    BY <1>1 DEF ListShown
<1>4. PICK M : M = Abstract!Without(L, k)
    OBVIOUS
<1>5. M = [j \in E |-> L[j]]
    BY <1>2, <1>3, <1>4 DEF Abstract!Without
<1>6. ASSUME NEW i \in UsedIn(T, c) PROVE Shows(G, T, T[c][i], M[<<T[c][i].name, T[c][i].ext>>])
  <2>1. PICK x, q, z : x = S[c][i] /\ z = <<x.name, x.ext>> /\ q = L[z]
    OBVIOUS
  <2>2. Shows(F, S, x, q) /\ T[c][i] = x
    BY <2>1 DEF ListShown, Stay
  <2>3. ~x.attr => IsFile(G, T, x) /\ T[x.cluster] = S[x.cluster]
    BY <2>1 DEF Stay
  <2>4. Shows(G, T, x, q)
    BY <2>2, <2>3, ShowsStays
  <2>5. z \in E
    BY <1>1, <2>1, <2>2
  <2>6. M[z] = q
    BY <1>5, <2>1, <2>5
  <2> QED BY <2>1, <2>2, <2>4, <2>6
<1>7. M = [j \in E |-> M[j]]
    BY <1>5
<1>8. ListShown(G, T, c, M)
    BY <1>1, <1>6, <1>7 DEF ListShown
<1> QED BY <1>4, <1>8

\* The two ways of rounding up.
LEMMA CeilDiv ==
    ASSUME NEW b \in Nat
    PROVE  ceil_div(b, ClusterSize) = (b + ClusterSize - 1) \div ClusterSize
<1>1. PICK C \in Nat : C = ClusterSize /\ C > 0
    BY ConstantsAssumption
<1>2. PICK q \in Nat, r \in Nat : q = b \div C /\ r = b % C /\ r < C /\ b = C * q + r
    BY <1>1
<1>3. CASE r = 0
  <2>1. (b + C - 1) \div C = q
    BY <1>1, <1>2, <1>3
  <2> QED BY <1>1, <1>2, <1>3, <2>1 DEF ceil_div
<1>4. CASE r # 0
  <2>1. b + C - 1 = C * (q + 1) + (r - 1) /\ r - 1 \in Nat /\ r - 1 < C
    BY <1>1, <1>2, <1>4
  <2>2. (b + C - 1) \div C = q + 1
    BY <1>1, <1>2, <1>4, <2>1
  <2> QED BY <1>1, <1>2, <1>4, <2>2 DEF ceil_div
<1> QED BY <1>3, <1>4

\* A file's first cluster is allocated and holds no table.
LEMMA HeadOfFile ==
    ASSUME Solid, NEW c \in Folders, NEW i \in Used(c), ~store[c][i].attr
    PROVE  store[c][i].cluster \in Allocated /\ store[c][i].cluster \notin Folders
<1>1. PICK h : h = store[c][i].cluster
    OBVIOUS
<1>2. h \in Allocated
    BY <1>1, Zenon DEF Solid, EntriesOwnChains
<1>3. store[c][i].attr <=> h \in Folders
    BY <1>1, Zenon DEF Solid, FoldersLinked
<1> QED BY <1>1, <1>2, <1>3

\* What the folders list after a write.
LEMMA AddsLists ==
    ASSUME Ordered, Ordered', NEW d, NEW s, NEW x, NEW A, Adds(d, s, x, A),
           NEW T, TreeShown(fat, store, T), NEW k, k = <<x.name, x.ext>>,
           NoKey(store, d, Used(d), k), NEW r, Shows(fat', store', x, r)
    PROVE  /\ \A c \in Folders \ {d} : FolderShown(fat', store', c, T[c])
           /\ FolderShown(fat', store', d, [T[d] EXCEPT !.list = Abstract!With(@, k, r)])
<1>1. /\ Solid /\ Folders = FoldersIn(fat, store) /\ Folders' = FoldersIn(fat', store')
      /\ WholeIn(fat', store') /\ \A c : Used(c) = UsedIn(store, c)
    BY SolidIs, SolidIsNext DEF Ordered
<1>2. ASSUME NEW c \in Folders PROVE c \in Clusters /\ c \notin A /\ c \in Folders'
    BY DEF Adds, Folders, Allocated, Available, EmptyClusters
<1>3. ASSUME NEW c \in Folders, NEW i \in UsedIn(store, c)
      PROVE  store'[c][i] = store[c][i] /\ i \in UsedIn(store', c)
  <2>1. i \in Slots /\ i > 0 /\ store[c][i].used
    BY DEF UsedIn
  <2>2. store'[c][i] = store[c][i]
    BY <1>2, <2>1 DEF Adds
  <2> QED BY <2>1, <2>2 DEF UsedIn
<1>4. ASSUME NEW c \in Folders, NEW i \in UsedIn(store, c), ~store[c][i].attr
      PROVE  IsFile(fat', store', store[c][i]) /\ store'[store[c][i].cluster] = store[store[c][i].cluster]
  <2>1. PICK h : h = store[c][i].cluster
    OBVIOUS
  <2>2. h \in Allocated /\ h \notin Folders
    BY <1>1, <1>4, <2>1, HeadOfFile
  <2>3. h \in Clusters /\ h # d /\ h \notin A
    BY <2>2 DEF Adds, Allocated, Available, EmptyClusters
  <2>4. store'[h] = store[h]
    BY <2>3 DEF Adds
  <2>5. c \in FoldersIn(fat', store') /\ i \in UsedIn(store', c) /\ store'[c][i] = store[c][i]
    BY <1>1, <1>2, <1>3
  <2>6. IsFile(fat', store', store[c][i])
    BY <1>1, <1>4, <2>5 DEF WholeIn
  <2> QED BY <2>1, <2>4, <2>6
<1>5. ASSUME NEW c \in Folders PROVE Stay(store, fat', store', c, UsedIn(store, c))
    BY <1>3, <1>4 DEF Stay
<1>6. ASSUME NEW c \in Folders \ {d} PROVE ListShown(fat', store', c, T[c].list)
  <2>1. store'[c] = store[c]
    BY <1>2 DEF Adds
  <2>2. UsedIn(store', c) = UsedIn(store, c)
    BY <2>1 DEF UsedIn
  <2>3. ListShown(fat, store, c, T[c].list)
    BY <1>1 DEF TreeShown, FolderShown
  <2> QED BY <1>5, <2>2, <2>3, ListStays
<1>7. d \in Folders /\ store'[d][s] = x /\ s \in Slots /\ s > 0 /\ x.used
    BY DEF Adds
<1>8. UsedIn(store', d) = UsedIn(store, d) \cup {s}
  <2>1. s \in UsedIn(store', d)
    BY <1>7 DEF UsedIn
  <2>2. ASSUME NEW i \in UsedIn(store', d), i # s PROVE i \in UsedIn(store, d)
    <3>1. store'[d][i] = store[d][i]
      BY <2>2 DEF Adds, UsedIn
    <3> QED BY <3>1 DEF UsedIn
  <2> QED BY <1>3, <1>7, <2>1, <2>2
<1>9. ListShown(fat', store', d, Abstract!With(T[d].list, k, r))
  <2>1. PICK L : L = T[d].list
    OBVIOUS
  <2>2. ListShown(fat, store, d, L)
    BY <1>1, <1>7, <2>1 DEF TreeShown, FolderShown
  <2>3. k = <<store'[d][s].name, store'[d][s].ext>> /\ Shows(fat', store', store'[d][s], r)
    BY <1>7
  <2>4. NoKey(store, d, UsedIn(store, d), k)
    BY <1>1
  <2>5. Stay(store, fat', store', d, UsedIn(store, d))
    BY <1>5, <1>7
  <2>6. ListShown(fat', store', d, Abstract!With(L, k, r))
    BY <1>8, <2>2, <2>3, <2>4, <2>5, ListAdds
  <2> QED BY <2>1, <2>6
<1>10. ASSUME NEW c \in Folders PROVE store'[c][0] = store[c][0]
  <2>1. CASE c = d
    <3>1. 0 \in Slots /\ 0 # s
      BY <1>7, Numbers
    <3> QED BY <2>1, <3>1 DEF Adds
  <2>2. CASE c # d
    BY <1>2, <2>2 DEF Adds
  <2> QED BY <2>1, <2>2
<1>11. ASSUME NEW c \in Folders
      PROVE  T[c] = [name |-> store'[c][0].name, parent |-> store'[c][0].cluster, list |-> T[c].list]
    BY <1>1, <1>10 DEF TreeShown, FolderShown
<1>12. ASSUME NEW c \in Folders \ {d} PROVE FolderShown(fat', store', c, T[c])
    BY <1>6, <1>11 DEF FolderShown
<1>13. FolderShown(fat', store', d, [T[d] EXCEPT !.list = Abstract!With(@, k, r)])
  <2>1. PICK M, f : M = Abstract!With(T[d].list, k, r) /\ f = [T[d] EXCEPT !.list = Abstract!With(@, k, r)]
    OBVIOUS
  <2>2. f = [name |-> store'[d][0].name, parent |-> store'[d][0].cluster, list |-> M]
    <3>1. PICK L, p, q : L = T[d].list /\ p = store'[d][0].name /\ q = store'[d][0].cluster
      OBVIOUS
    <3>2. T[d] = [name |-> p, parent |-> q, list |-> L]
      BY <1>7, <1>11, <3>1
    <3>3. f = [T[d] EXCEPT !.list = M]
      BY <2>1
    <3>4. f = [name |-> p, parent |-> q, list |-> M]
      BY <3>2, <3>3
    <3> QED BY <3>1, <3>4
  <2>3. FolderShown(fat', store', d, f)
    BY <1>9, <2>1, <2>2 DEF FolderShown
  <2> QED BY <2>1, <2>3
<1> QED BY <1>12, <1>13

\* The tree after the write of a file.
LEMMA WriteFileTree ==
    ASSUME Ordered, Ordered', NEW d \in Folders, NEW n \in Names, NEW e \in Exts,
           NEW b \in Sizes, NEW v \in Values, WriteFile(d, n, e, b, v), fault' = "none",
           NEW T, TreeShown(fat, store, T),
           NEW U, U = [T EXCEPT ![d].list = Abstract!With(@, <<n, e>>, Abstract!File(b, v))]
    PROVE  TreeShown(fat', store', U)
<1>1. /\ TypeOK /\ Solid /\ Folders = FoldersIn(fat, store) /\ Folders' = FoldersIn(fat', store')
      /\ d \in Parents
    BY SolidIs, SolidIsNext, FolderIsParent DEF Ordered
<1>2. b \in Nat /\ b > 0 /\ Matches(store[d], n, e) = {}
    BY ConstantsAssumption, WriteCodeZero, Zenon DEF WriteFile
<1>3. PICK s, A, x : /\ Adds(d, s, x, A) /\ x = NewEntry(n, e, b)
                     /\ FileOn(fat', store', A, EmptyCluster, ceil_div(b, ClusterSize), v)
    BY <1>1, WriteFileAdds
<1>4. x.name = n /\ x.ext = e /\ ~x.attr /\ x.cluster = EmptyCluster /\ x.filesize = b
  <2>1. b # 0
    BY <1>2
  <2>2. PICK f \in BOOLEAN : f = (b = 0)
    OBVIOUS
  <2>3. x = [name |-> n, ext |-> e, attr |-> f, used |-> TRUE, cluster |-> EmptyCluster, filesize |-> b]
    BY <1>3, <2>2, Zenon DEF NewEntry
  <2> QED BY <2>1, <2>2, <2>3
<1>5. PICK k, r : k = <<n, e>> /\ r = Abstract!File(b, v)
    OBVIOUS
<1>6. Shows(fat', store', x, r)
  <2>1. PICK m : m = ceil_div(b, ClusterSize)
    OBVIOUS
  <2>2. m \in Nat /\ A \in SUBSET Clusters
    BY <1>3, <2>1, Numbers DEF FileOn, Adds, Available, EmptyClusters
  <2>3. r = [folder |-> FALSE, handle |-> 0, size |-> b, data |-> [j \in 1 .. m |-> <<v, j>>]]
    BY <1>2, <1>5, <2>1, CeilDiv DEF Abstract!File
  <2>4. \E K2 \in SUBSET Clusters, v2 \in Values, m2 \in Nat :
             /\ m2 = ceil_div(x.filesize, ClusterSize) /\ FileOn(fat', store', K2, x.cluster, m2, v2)
             /\ r = [folder |-> FALSE, handle |-> 0, size |-> x.filesize,
                     data |-> [j \in 1 .. m2 |-> <<v2, j>>]]
    BY <1>3, <1>4, <2>1, <2>2, <2>3, Zenon
  <2> QED BY <1>4, <2>4, Zenon DEF Shows
<1>7. NoKey(store, d, Used(d), k) /\ k = <<x.name, x.ext>>
    BY <1>2, <1>4, <1>5 DEF Used, Matches, NoKey
<1>8. /\ \A c \in Folders \ {d} : FolderShown(fat', store', c, T[c])
      /\ FolderShown(fat', store', d, [T[d] EXCEPT !.list = Abstract!With(@, k, r)])
    BY <1>3, <1>6, <1>7, AddsLists
<1>9. Folders' = Folders
    BY <1>3, <1>4 DEF Adds
<1>10. T = [c \in Folders |-> T[c]]
    BY <1>1 DEF TreeShown
<1>11. PICK f : f = [T[d] EXCEPT !.list = Abstract!With(@, k, r)]
    OBVIOUS
<1>12. U = [T EXCEPT ![d] = f]
    BY <1>5, <1>11
<1>13. U = [c \in Folders |-> IF c = d THEN f ELSE T[c]]
    BY <1>10, <1>12
<1>14. U = [c \in Folders |-> U[c]] /\ U[d] = f /\ \A c \in Folders \ {d} : U[c] = T[c]
    BY <1>13
<1>15. \A c \in Folders : FolderShown(fat', store', c, U[c])
    BY <1>8, <1>11, <1>14
<1> QED BY <1>1, <1>9, <1>14, <1>15 DEF TreeShown

\* The tree after the write of a folder.
LEMMA WriteFolderTree ==
    ASSUME Ordered, Ordered', NEW d \in Folders, NEW n \in Names, NEW e \in Exts,
           WriteFolder(d, n, e), fault' = "none", NEW T, TreeShown(fat, store, T)
    PROVE  \E h \in Clusters \ Folders :
               \A U : U = [g \in Folders \cup {h} |->
                              IF g = h THEN Abstract!EmptyFolder(n, d)
                              ELSE IF g = d THEN [T[d] EXCEPT !.list = Abstract!With(@, <<n, e>>, Abstract!Folder(h))]
                              ELSE T[g]]
                      => TreeShown(fat', store', U)
<1>1. /\ TypeOK /\ Solid /\ Folders = FoldersIn(fat, store) /\ Folders' = FoldersIn(fat', store')
      /\ d \in Parents
    BY SolidIs, SolidIsNext, FolderIsParent DEF Ordered
<1>2. Matches(store[d], n, e) = {}
    BY WriteCodeZero, Zenon DEF WriteFolder
<1>3. PICK h : h = EmptyCluster
    OBVIOUS
<1>4. PICK s, x : /\ Adds(d, s, x, {h}) /\ x = NewEntry(n, e, 0)
                  /\ store'[h] = init_directory_table(n, d)
    BY <1>1, <1>3, WriteFolderAdds
<1>5. x.name = n /\ x.ext = e /\ x.attr /\ x.cluster = h /\ x.filesize = 0
    BY <1>3, <1>4 DEF NewEntry
<1>6. PICK k, r : k = <<n, e>> /\ r = Abstract!Folder(h)
    OBVIOUS
<1>7. Shows(fat', store', x, r)
    BY <1>5, <1>6 DEF Shows, Abstract!Folder
<1>8. NoKey(store, d, Used(d), k) /\ k = <<x.name, x.ext>>
    BY <1>2, <1>5, <1>6 DEF Used, Matches, NoKey
<1>9. /\ \A c \in Folders \ {d} : FolderShown(fat', store', c, T[c])
      /\ FolderShown(fat', store', d, [T[d] EXCEPT !.list = Abstract!With(@, k, r)])
    BY <1>4, <1>7, <1>8, AddsLists
<1>10. Folders' = Folders \cup {h} /\ h \in Clusters \ Folders /\ h # d
    BY <1>4, <1>5 DEF Adds, Available, EmptyClusters, Folders, Allocated
<1>11. FolderShown(fat', store', h, Abstract!EmptyFolder(n, d))
  <2>1. PICK t, f, L : /\ t = init_directory_table(n, d) /\ f = Abstract!EmptyFolder(n, d)
                       /\ L = [j \in {} |-> 0]
    OBVIOUS
  <2>2. t[0].name = n /\ t[0].cluster = d /\ \A i \in Slots : i > 0 => t[i].used = FALSE
    <3>1. init_directory_table(n, d)[0].name = n /\ init_directory_table(n, d)[0].cluster = d
      BY Numbers DEF init_directory_table, ZeroTable, ZeroEntry
    <3>2. \A i \in Slots : i > 0 => init_directory_table(n, d)[i].used = FALSE
      BY Numbers DEF init_directory_table, ZeroTable, ZeroEntry
    <3> QED BY <2>1, <3>1, <3>2
  <2>3. UsedIn(store', h) = {}
    BY <1>4, <2>1, <2>2 DEF UsedIn
  <2>4. f = [name |-> n, parent |-> d, list |-> L]
    BY <2>1 DEF Abstract!EmptyFolder
  <2>5. ListShown(fat', store', h, L)
    <3>1. L = [j \in {} |-> L[j]]
      BY <2>1
    <3>2. {<<store'[h][i].name, store'[h][i].ext>> : i \in UsedIn(store', h)} = {}
      BY <2>3
    <3> QED BY <2>3, <3>1, <3>2 DEF ListShown
  <2>6. FolderShown(fat', store', h, f)
    BY <1>4, <2>1, <2>2, <2>4, <2>5 DEF FolderShown
  <2> QED BY <2>1, <2>6
<1>12. PICK f, z : f = [T[d] EXCEPT !.list = Abstract!With(@, k, r)] /\ z = Abstract!EmptyFolder(n, d)
    OBVIOUS
<1>13. ASSUME NEW U, U = [g \in Folders \cup {h} |->
                              IF g = h THEN Abstract!EmptyFolder(n, d)
                              ELSE IF g = d THEN [T[d] EXCEPT !.list = Abstract!With(@, <<n, e>>, Abstract!Folder(h))]
                              ELSE T[g]]
       PROVE  TreeShown(fat', store', U)
  <2>1. U = [g \in Folders \cup {h} |-> IF g = h THEN z ELSE IF g = d THEN f ELSE T[g]]
    BY <1>6, <1>12, <1>13
  <2>2. /\ U = [c \in Folders \cup {h} |-> U[c]] /\ U[h] = z /\ U[d] = f
        /\ \A c \in Folders \ {d} : U[c] = T[c]
    BY <1>10, <2>1
  <2>3. \A c \in Folders \cup {h} : FolderShown(fat', store', c, U[c])
    BY <1>9, <1>11, <1>12, <2>2
  <2> QED BY <1>1, <1>10, <2>2, <2>3 DEF TreeShown
<1> QED BY <1>10, <1>13

-----------------------------------------------------------------------------
(* What a search finds, and what the tree says of it.                      *)

\* Folder d has nothing called n and e, nor is it called so.
Missing(d, T, n, e) ==
    /\ Matches(store[d], n, e) = {} /\ <<n, e>> \notin DOMAIN T[d].list
    /\ <<n, e>> # <<T[d].name, NoExt>>

\* Folder d is itself called n and e.
Own(d, T, n, e) ==
    /\ Matches(store[d], n, e) = {0} /\ Min(Matches(store[d], n, e)) = 0
    /\ <<n, e>> \notin DOMAIN T[d].list /\ <<n, e>> = <<T[d].name, NoExt>>

\* Slot i of folder d is called n and e.
Listed(d, T, n, e, i) ==
    /\ i \in Used(d) /\ store[d][i].name = n /\ store[d][i].ext = e
    /\ Matches(store[d], n, e) = {i} /\ Min(Matches(store[d], n, e)) = i
    /\ <<n, e>> \in DOMAIN T[d].list /\ <<n, e>> # <<T[d].name, NoExt>>
    /\ Shows(fat, store, store[d][i], T[d].list[<<n, e>>])

\* A folder's list has a key for each slot in use, and its table its name.
LEMMA KeysOf ==
    ASSUME NEW T, TreeShown(fat, store, T), NEW d \in Folders
    PROVE  /\ DOMAIN T[d].list = {<<store[d][i].name, store[d][i].ext>> : i \in Used(d)}
           /\ T[d].name = store[d][0].name /\ T[d].parent = store[d][0].cluster
           /\ DOMAIN T = Folders
<1>1. d \in FoldersIn(fat, store) /\ Folders = FoldersIn(fat, store) /\ Used(d) = UsedIn(store, d)
    BY SolidIs
<1>2. FolderShown(fat, store, d, T[d]) /\ T = [c \in FoldersIn(fat, store) |-> T[c]]
    BY <1>1 DEF TreeShown
<1>3. T[d].name = store[d][0].name /\ T[d].parent = store[d][0].cluster
    BY <1>2 DEF FolderShown
<1>4. PICK L : L = T[d].list
    OBVIOUS
<1>5. ListShown(fat, store, d, L)
    BY <1>2, <1>4 DEF FolderShown
<1>6. DOMAIN L = {<<store[d][i].name, store[d][i].ext>> : i \in UsedIn(store, d)}
    BY <1>5 DEF ListShown
<1>7. DOMAIN T = Folders
    BY <1>1, <1>2
<1> QED BY <1>1, <1>3, <1>4, <1>6, <1>7

\* A search ends in one of three ways.
LEMMA Search ==
    ASSUME Ordered, NEW T, TreeShown(fat, store, T), NEW d \in Folders, NEW n, NEW e, n # NoName
    PROVE  Missing(d, T, n, e) \/ Own(d, T, n, e) \/ \E i : Listed(d, T, n, e, i)
<1>1. PICK L, m : L = T[d].list /\ m = T[d].name
    OBVIOUS
<1>2. DOMAIN L = {<<store[d][i].name, store[d][i].ext>> : i \in Used(d)} /\ m = store[d][0].name
    BY <1>1, KeysOf
<1>3. store[d][0].ext = NoExt /\ store[d][0].name # NoName /\ 0 \in Slots
    BY SolidIs, Numbers DEF Ordered, AllNamed, Named
<1>4. CASE Matches(store[d], n, e) = {}
  <2>1. <<n, e>> \notin DOMAIN L
    BY <1>2, <1>4 DEF Used, Matches
  <2>2. <<n, e>> # <<m, NoExt>>
    BY <1>2, <1>3, <1>4 DEF Matches
  <2> QED BY <1>1, <1>4, <2>1, <2>2 DEF Missing
<1>5. CASE Matches(store[d], n, e) # {}
  <2>1. PICK i \in Slots : /\ store[d][i].name = n /\ store[d][i].ext = e
    BY <1>5 DEF Matches
  <2>2. Matches(store[d], n, e) = {i} /\ Min(Matches(store[d], n, e)) = i
    BY <2>1, FindsOne
  <2>3. \A j \in Slots : store[d][j].name = n /\ store[d][j].ext = e => j = i
    BY <2>2 DEF Matches
  <2>4. i = 0 \/ i \in Used(d)
    <3>1. store[d][i].used
      BY <2>1 DEF Ordered, Solid, FreeSlotsNameless
    <3> QED BY <3>1, Numbers DEF Used
  <2>5. CASE i = 0
    <3>1. <<n, e>> \notin DOMAIN L
      BY <1>2, <2>3, <2>5 DEF Used
    <3>2. <<n, e>> = <<m, NoExt>>
      BY <1>2, <1>3, <2>1, <2>5
    <3>3. Own(d, T, n, e)
      BY <1>1, <2>2, <2>5, <3>1, <3>2 DEF Own
    <3> QED BY <3>3
  <2>6. CASE i \in Used(d)
    <3>1. <<n, e>> \in DOMAIN L
      BY <1>2, <2>1, <2>6
    <3>2. i # 0
      BY <2>6 DEF Used
    <3>3. <<n, e>> # <<m, NoExt>>
      BY <1>2, <1>3, <2>3, <3>2
    <3>4. Shows(fat, store, store[d][i], L[<<n, e>>])
      <4>1. ListShown(fat, store, d, L) /\ i \in UsedIn(store, d)
        BY <1>1, <2>6, SolidIs DEF TreeShown, FolderShown
      <4> QED BY <2>1, <4>1 DEF ListShown
    <3>5. Listed(d, T, n, e, i)
      BY <1>1, <2>1, <2>2, <2>6, <3>1, <3>3, <3>4 DEF Listed
    <3> QED BY <3>5
  <2> QED BY <2>4, <2>5, <2>6
<1> QED BY <1>4, <1>5

\* r says what slot i of folder d lists: a folder and its cluster, or a file
\* and its size.
Says(d, i, r) ==
    /\ store[d][i].attr \in BOOLEAN
    /\ store[d][i].attr => /\ r.folder = TRUE /\ r.handle = store[d][i].cluster
                           /\ store[d][i].cluster \in Folders
    /\ ~store[d][i].attr => /\ r.folder = FALSE /\ r.size = store[d][i].filesize
                            /\ store[d][i].cluster \in Clusters \ Folders

\* So does the tree of what a search found.
LEMMA ListedSays ==
    ASSUME Ordered, NEW T, NEW d \in Folders, NEW n, NEW e, NEW i, Listed(d, T, n, e, i)
    PROVE  Says(d, i, T[d].list[<<n, e>>])
<1>1. PICK x, r : x = store[d][i] /\ r = T[d].list[<<n, e>>]
    OBVIOUS
<1>2. Shows(fat, store, x, r) /\ i \in Used(d) /\ Solid
    BY <1>1 DEF Listed, Ordered
<1>3. x.attr \in BOOLEAN
  <2>1. store[d] \in Tables /\ i \in Slots
    BY <1>2 DEF Folders, Used
  <2> QED BY <1>1, <2>1 DEF Tables, Entry
<1>4. CASE x.attr
  <2>1. r = [folder |-> TRUE, handle |-> x.cluster, size |-> x.filesize, data |-> <<>>]
    BY <1>2, <1>4, Zenon DEF Shows
  <2>2. store[d][i].attr <=> store[d][i].cluster \in Folders
    BY <1>2, Zenon DEF Solid, FoldersLinked
  <2> QED BY <1>1, <1>3, <1>4, <2>1, <2>2 DEF Says
<1>5. CASE ~x.attr
  <2>1. \E z : r = [folder |-> FALSE, handle |-> 0, size |-> x.filesize, data |-> z]
    BY <1>2, <1>5, Zenon DEF Shows
  <2>2. x.cluster \in Allocated /\ x.cluster \notin Folders
    BY <1>1, <1>2, <1>5, HeadOfFile
  <2>3. x.cluster \in Clusters \ Folders
    BY <2>2 DEF Allocated
  <2> QED BY <1>1, <1>3, <1>5, <2>1, <2>3 DEF Says
<1> QED BY <1>4, <1>5

-----------------------------------------------------------------------------
(* The tree after a delete.                                                *)

\* What the folders list once a slot is cleared.
LEMMA RemovesLists ==
    ASSUME Ordered, Ordered', NEW d, NEW n, NEW i, NEW h, NEW R, Removes(d, n, i, h, R),
           NEW T, TreeShown(fat, store, T), NEW k, k = <<store[d][i].name, store[d][i].ext>>
    PROVE  /\ \A c \in Folders' \ {d} : FolderShown(fat', store', c, T[c])
           /\ FolderShown(fat', store', d, [T[d] EXCEPT !.list = Abstract!Without(@, k)])
<1>1. /\ Solid /\ Folders = FoldersIn(fat, store) /\ Folders' = FoldersIn(fat', store')
      /\ WholeIn(fat', store') /\ \A c : Used(c) = UsedIn(store, c)
    BY SolidIs, SolidIsNext DEF Ordered
<1>2. d \in Folders /\ i \in UsedIn(store, d) /\ ~store'[d][i].used /\ i \in Slots /\ i > 0
    BY <1>1 DEF Removes, Used
<1>3. d \in Folders' /\ \A c \in Folders' : c \in Folders /\ c \in Clusters
    BY <1>2 DEF Removes, Folders, Allocated
<1>4. ASSUME NEW c \in Folders', NEW j \in UsedIn(store', c)
      PROVE  store'[c][j] = store[c][j] /\ j \in UsedIn(store, c)
  <2>1. j \in Slots /\ j > 0 /\ store'[c][j].used
    BY DEF UsedIn
  <2>2. store'[c][j] = store[c][j]
  <3>1. CASE c = d
    BY <1>2, <2>1, <3>1 DEF Removes
  <3>2. CASE c # d
    BY <1>3, <3>2 DEF Removes
  <3> QED BY <3>1, <3>2
  <2> QED BY <2>1, <2>2 DEF UsedIn
<1>5. ASSUME NEW c \in Folders', NEW j \in UsedIn(store', c), ~store[c][j].attr
      PROVE  IsFile(fat', store', store[c][j]) /\ store'[store[c][j].cluster] = store[store[c][j].cluster]
  <2>1. PICK y : y = store[c][j].cluster
    OBVIOUS
  <2>2. store'[c][j] = store[c][j] /\ j \in Used(c) /\ c \in Folders
    BY <1>1, <1>3, <1>4
  <2>3. y \in Allocated /\ y \notin Folders
    BY <1>1, <1>5, <2>1, <2>2, HeadOfFile
  <2>4. y \in Clusters /\ y # d
    BY <1>2, <2>3 DEF Allocated
  <2>5. store'[y] = store[y]
    BY <2>4 DEF Removes
  <2>6. IsFile(fat', store', store[c][j])
    BY <1>1, <1>5, <2>2 DEF WholeIn
  <2> QED BY <2>1, <2>5, <2>6
<1>6. ASSUME NEW c \in Folders' PROVE Stay(store, fat', store', c, UsedIn(store', c))
    BY <1>4, <1>5 DEF Stay
<1>7. ASSUME NEW c \in Folders' \ {d} PROVE ListShown(fat', store', c, T[c].list)
  <2>1. store'[c] = store[c] /\ c \in Folders
    BY <1>3 DEF Removes
  <2>2. UsedIn(store', c) = UsedIn(store, c)
    BY <2>1 DEF UsedIn
  <2>3. ListShown(fat, store, c, T[c].list)
    BY <1>1, <2>1 DEF TreeShown, FolderShown
  <2>4. Stay(store, fat', store', c, UsedIn(store, c))
    BY <1>6, <2>2
  <2> QED BY <2>2, <2>3, <2>4, ListStays
<1>8. UsedIn(store', d) = UsedIn(store, d) \ {i}
  <2>1. ASSUME NEW j \in UsedIn(store', d) PROVE j \in UsedIn(store, d) /\ j # i
    BY <1>2, <1>3, <1>4 DEF UsedIn
  <2>2. ASSUME NEW j \in UsedIn(store, d), j # i PROVE j \in UsedIn(store', d)
    <3>1. store'[d][j] = store[d][j]
      BY <2>2 DEF Removes, UsedIn
    <3> QED BY <3>1 DEF UsedIn
  <2> QED BY <2>1, <2>2
<1>9. ListShown(fat', store', d, Abstract!Without(T[d].list, k))
  <2>1. PICK L : L = T[d].list
    OBVIOUS
  <2>2. ListShown(fat, store, d, L)
    BY <1>1, <1>2, <2>1 DEF TreeShown, FolderShown
  <2>3. NoKey(store, d, UsedIn(store', d), k)
    <3>1. ASSUME NEW j \in UsedIn(store', d), <<store[d][j].name, store[d][j].ext>> = k PROVE FALSE
      <4>1. j \in Used(d) /\ i \in Used(d) /\ j # i
        BY <1>1, <1>2, <1>8
      <4>2. <<store[d][j].name, store[d][j].ext>> = <<store[d][i].name, store[d][i].ext>>
        BY <3>1
      <4>3. j = i
        BY <1>2, <4>1, <4>2, KeyOne
      <4> QED BY <4>1, <4>3
    <3> QED BY <3>1 DEF NoKey
  <2>4. Stay(store, fat', store', d, UsedIn(store', d))
    BY <1>3, <1>6
  <2>5. ListShown(fat', store', d, Abstract!Without(L, k))
    BY <1>2, <1>8, <2>2, <2>3, <2>4, ListDrops
  <2> QED BY <2>1, <2>5
<1>10. ASSUME NEW c \in Folders'
      PROVE  T[c] = [name |-> store'[c][0].name, parent |-> store'[c][0].cluster, list |-> T[c].list]
  <2>1. store'[c][0] = store[c][0]
    <3>1. CASE c = d
      <4>1. 0 \in Slots /\ 0 # i
        BY <1>2, Numbers
      <4> QED BY <3>1, <4>1 DEF Removes
    <3>2. CASE c # d
      BY <1>3, <3>2 DEF Removes
    <3> QED BY <3>1, <3>2
  <2> QED BY <1>1, <1>3, <2>1 DEF TreeShown, FolderShown
<1>11. ASSUME NEW c \in Folders' \ {d} PROVE FolderShown(fat', store', c, T[c])
    BY <1>7, <1>10 DEF FolderShown
<1>12. FolderShown(fat', store', d, [T[d] EXCEPT !.list = Abstract!Without(@, k)])
  <2>1. PICK M, f : M = Abstract!Without(T[d].list, k) /\ f = [T[d] EXCEPT !.list = Abstract!Without(@, k)]
    OBVIOUS
  <2>2. f = [name |-> store'[d][0].name, parent |-> store'[d][0].cluster, list |-> M]
    <3>1. PICK L, p, q : L = T[d].list /\ p = store'[d][0].name /\ q = store'[d][0].cluster
      OBVIOUS
    <3>2. T[d] = [name |-> p, parent |-> q, list |-> L]
      BY <1>3, <1>10, <3>1
    <3>3. f = [T[d] EXCEPT !.list = M]
      BY <2>1
    <3>4. f = [name |-> p, parent |-> q, list |-> M]
      BY <3>2, <3>3
    <3> QED BY <3>1, <3>4
  <2>3. FolderShown(fat', store', d, f)
    BY <1>9, <2>1, <2>2 DEF FolderShown
  <2> QED BY <2>1, <2>3
<1> QED BY <1>11, <1>12

\* The tree after a delete.
LEMMA DeleteTree ==
    ASSUME Ordered, Ordered', NEW d \in Folders, NEW n \in Names, NEW e \in Exts,
           Delete(d, n, e), fault' = "none", NEW T, TreeShown(fat, store, T),
           NEW k, k = <<n, e>>, NEW r, r = T[d].list[k],
           NEW U, U = [g \in Folders \ (IF r.folder THEN {r.handle} ELSE {}) |->
                          IF g = d THEN [T[d] EXCEPT !.list = Abstract!Without(@, k)] ELSE T[g]]
    PROVE  /\ \E i : Listed(d, T, n, e, i)
           /\ r.folder => DOMAIN T[r.handle].list = {}
           /\ TreeShown(fat', store', U)
<1>1. /\ TypeOK /\ Solid /\ Folders = FoldersIn(fat, store) /\ Folders' = FoldersIn(fat', store')
      /\ d \in Parents /\ n # NoName
    BY SolidIs, SolidIsNext, FolderIsParent, ConstantsAssumption DEF Ordered
<1>2. Matches(store[d], n, e) # {}
  <2>1. DeleteCode(d, n, e) = 0
    BY DEF Delete
  <2> QED BY <2>1, DeleteCodeZero
<1>3. PICK i : i = Min(Matches(store[d], n, e))
    OBVIOUS
<1>4. PICK h, R : Removes(d, n, i, h, R)
    BY <1>1, <1>3, DeleteRemoves
<1>5. i # 0
    BY <1>4 DEF Removes, Used
<1>6. Listed(d, T, n, e, i)
  <2>1. ~Missing(d, T, n, e) /\ ~Own(d, T, n, e)
    BY <1>2, <1>3, <1>5 DEF Missing, Own
  <2>2. PICK j : Listed(d, T, n, e, j)
    BY <1>1, <2>1, Search
  <2>3. j = i
    BY <1>3, <2>2 DEF Listed
  <2> QED BY <2>2, <2>3
<1>7. k = <<store[d][i].name, store[d][i].ext>> /\ h = store[d][i].cluster
    BY <1>4, <1>6 DEF Listed, Removes
<1>8. /\ \A c \in Folders' \ {d} : FolderShown(fat', store', c, T[c])
      /\ FolderShown(fat', store', d, [T[d] EXCEPT !.list = Abstract!Without(@, k)])
    BY <1>4, <1>7, RemovesLists
<1>9. /\ store[d][i].attr \in BOOLEAN
      /\ store[d][i].attr => r.folder = TRUE /\ r.handle = h /\ h \in Folders
      /\ ~store[d][i].attr => r.folder = FALSE /\ h \notin Folders
  <2>1. Says(d, i, T[d].list[<<n, e>>])
    BY <1>6, ListedSays
  <2> QED BY <1>7, <2>1 DEF Says
<1>10. d \in Folders' /\ Folders' = Folders \ (IF r.folder THEN {r.handle} ELSE {})
  <2>1. h \in R /\ Folders' = Folders \ R /\ \A c \in Folders : c \in R => c = h /\ Used(c) = {}
    BY <1>4 DEF Removes
  <2>2. d \in Folders'
    BY <1>6, <2>1 DEF Listed
  <2> QED BY <1>9, <2>1, <2>2
<1>11. r.folder => DOMAIN T[r.handle].list = {}
  <2>1. r.folder => h \in Folders /\ r.handle = h /\ Used(h) = {}
    BY <1>4, <1>9 DEF Removes
  <2>2. h \in Folders => DOMAIN T[h].list = {<<store[h][j].name, store[h][j].ext>> : j \in Used(h)}
    BY KeysOf
  <2> QED BY <2>1, <2>2
<1>12. PICK f : f = [T[d] EXCEPT !.list = Abstract!Without(@, k)]
    OBVIOUS
<1>13. U = [g \in Folders' |-> IF g = d THEN f ELSE T[g]]
    BY <1>10, <1>12
<1>14. U = [c \in Folders' |-> U[c]] /\ U[d] = f /\ \A c \in Folders' \ {d} : U[c] = T[c]
    BY <1>10, <1>13
<1>15. \A c \in Folders' : FolderShown(fat', store', c, U[c])
    BY <1>8, <1>12, <1>14
<1>16. TreeShown(fat', store', U)
    BY <1>1, <1>14, <1>15 DEF TreeShown
<1> QED BY <1>6, <1>11, <1>16

-----------------------------------------------------------------------------
(* The calls answer as the tree of folders allows.                         *)

\* The driver's state, and the tree the tables show, up to a fall-through.
Mirrors == Ordered /\ TreeShown(fat, store, tree)

\* A call that is refused, or that only looks.
LEMMA RefuseIs ==
    ASSUME NEW r, ret' = r, copied' = <<>>, UNCHANGED <<fault, tree>>
    PROVE  Abstract!Refuse(r)
BY DEF Abstract!Refuse, Abstract!Answer

\* A parent that is no folder holds no table.
LEMMA NoFolder ==
    ASSUME Mirrors, NEW d \in Parents
    PROVE  /\ d \in Clusters
           /\ d \notin Folders => store[d] \notin Tables /\ ~IsFolder(d) /\ ~Abstract!Exists(d)
           /\ d \in Folders => IsFolder(d) /\ store[d] \in Tables /\ Abstract!Exists(d)
<1>1. TypeOK /\ Solid /\ Ordered /\ TreeShown(fat, store, tree)
    BY DEF Mirrors, Ordered
<1>2. d \in Allocated /\ d \in Clusters
    BY <1>1, ParentAllocated DEF Allocated
<1>3. DOMAIN tree = Folders
  <2>1. tree = [c \in FoldersIn(fat, store) |-> tree[c]]
    BY <1>1 DEF TreeShown
  <2> QED BY <2>1, SolidIs
<1>4. d \notin Folders => store[d] \notin Tables
    BY <1>2 DEF Folders
<1>5. d \in Folders => IsFolder(d) /\ store[d] \in Tables
    BY <1>1, FolderTable
<1> QED BY <1>2, <1>3, <1>4, <1>5 DEF IsFolder, Abstract!Exists

\* What a search in a folder finds, said of the tree.
LEMMA SearchTree ==
    ASSUME Mirrors, NEW d \in Folders, NEW n \in Names, NEW e
    PROVE  \/ Missing(d, tree, n, e) /\ ~Abstract!Lists(d, <<n, e>>) /\ ~Abstract!IsSelf(d, <<n, e>>)
           \/ Own(d, tree, n, e) /\ ~Abstract!Lists(d, <<n, e>>) /\ Abstract!IsSelf(d, <<n, e>>)
           \/ \E i : /\ Listed(d, tree, n, e, i) /\ Says(d, i, tree[d].list[<<n, e>>])
                     /\ Abstract!Lists(d, <<n, e>>) /\ ~Abstract!IsSelf(d, <<n, e>>)
<1>1. Ordered /\ TreeShown(fat, store, tree) /\ n # NoName
    BY ConstantsAssumption DEF Mirrors
<1>2. Missing(d, tree, n, e) \/ Own(d, tree, n, e) \/ \E i : Listed(d, tree, n, e, i)
    BY <1>1, Search
<1>3. CASE Missing(d, tree, n, e)
    BY <1>3 DEF Missing, Abstract!Lists, Abstract!IsSelf
<1>4. CASE Own(d, tree, n, e)
    BY <1>4 DEF Own, Abstract!Lists, Abstract!IsSelf
<1>5. ASSUME NEW i, Listed(d, tree, n, e, i)
      PROVE  /\ Says(d, i, tree[d].list[<<n, e>>])
             /\ Abstract!Lists(d, <<n, e>>) /\ ~Abstract!IsSelf(d, <<n, e>>)
  <2>1. Says(d, i, tree[d].list[<<n, e>>])
    BY <1>1, <1>5, ListedSays
  <2>2. Abstract!Lists(d, <<n, e>>) /\ ~Abstract!IsSelf(d, <<n, e>>)
    BY <1>5 DEF Listed, Abstract!Lists, Abstract!IsSelf
  <2> QED BY <2>1, <2>2
<1> QED BY <1>2, <1>3, <1>4, <1>5

\* A write that is refused.
LEMMA WriteRefusedStep ==
    ASSUME Mirrors, NEW d \in Parents, NEW n \in Names, NEW e \in Exts, NEW b,
           WriteRefused(d, n, e, b), UNCHANGED tree
    PROVE  Abstract!Write(d, <<n, e>>)
<1>1. /\ ret' = WriteCode(d, n, e, b) /\ copied' = <<>> /\ UNCHANGED <<fault, tree>>
      /\ WriteCode(d, n, e, b) # 0
    BY DEF WriteRefused
<1>2. PICK r : r = WriteCode(d, n, e, b)
    OBVIOUS
<1>3. Abstract!Refuse(r) /\ r # 0
    BY <1>1, <1>2, RefuseIs
<1>4. CASE d \notin Folders
  <2>1. r = -1 /\ ~Abstract!Exists(d)
    BY <1>2, <1>4, NoFolder DEF WriteCode
  <2> QED BY <1>3, <2>1 DEF Abstract!Write
<1>5. CASE d \in Folders
  <2>1. IsFolder(d) /\ Abstract!Exists(d)
    BY <1>5, NoFolder
  <2>2. CASE Missing(d, tree, n, e) /\ ~Abstract!Lists(d, <<n, e>>) /\ ~Abstract!IsSelf(d, <<n, e>>)
    <3>1. r = -1
      BY <1>2, <1>3, <2>1, <2>2 DEF WriteCode, Missing
    <3> QED BY <1>3, <2>1, <2>2, <3>1 DEF Abstract!Write
  <2>3. CASE Own(d, tree, n, e) /\ ~Abstract!Lists(d, <<n, e>>) /\ Abstract!IsSelf(d, <<n, e>>)
    <3>1. r = 1
      BY <1>2, <2>1, <2>3 DEF WriteCode, Own
    <3> QED BY <1>3, <2>1, <2>3, <3>1 DEF Abstract!Write
  <2>4. ASSUME NEW i, Listed(d, tree, n, e, i), Abstract!Lists(d, <<n, e>>) PROVE Abstract!Write(d, <<n, e>>)
    <3>1. r = 1
      BY <1>2, <2>1, <2>4 DEF WriteCode, Listed
    <3> QED BY <1>3, <2>1, <2>4, <3>1 DEF Abstract!Write
  <2> QED BY <1>5, <2>2, <2>3, <2>4, SearchTree
<1> QED BY <1>4, <1>5

\* A read.
LEMMA ReadStep ==
    ASSUME Mirrors, NEW d \in Parents, NEW n \in Names, NEW e \in Exts, NEW b \in Sizes,
           Read(d, n, e, b), UNCHANGED tree
    PROVE  Abstract!Read(d, <<n, e>>, b)
<1>1. /\ ret' = ReadCode(d, n, e, b) /\ UNCHANGED <<fault, tree>>
      /\ copied' = IF ReadCode(d, n, e, b) = 0 THEN ReadClusters(d, n, e) ELSE <<>>
    BY DEF Read
<1>2. PICK r : r = ReadCode(d, n, e, b)
    OBVIOUS
<1>3. r # 0 => Abstract!Refuse(r)
    BY <1>1, <1>2, RefuseIs
<1>4. CASE d \notin Folders
  <2>1. r = -1 /\ ~Abstract!Exists(d)
    BY <1>2, <1>4, NoFolder DEF ReadCode
  <2> QED BY <1>3, <2>1 DEF Abstract!Read
<1>5. CASE d \in Folders
  <2>1. IsFolder(d) /\ Abstract!Exists(d)
    BY <1>5, NoFolder
  <2>2. CASE Missing(d, tree, n, e) /\ ~Abstract!Lists(d, <<n, e>>) /\ ~Abstract!IsSelf(d, <<n, e>>)
    <3>1. r = 3
      BY <1>2, <2>1, <2>2 DEF ReadCode, Missing
    <3> QED BY <1>3, <2>1, <2>2, <3>1 DEF Abstract!Read
  <2>3. CASE Own(d, tree, n, e) /\ ~Abstract!Lists(d, <<n, e>>) /\ Abstract!IsSelf(d, <<n, e>>)
    <3>1. Target(d, n, e) = store[d][0] /\ Matches(store[d], n, e) # {}
      BY <2>3 DEF Own, Target
    <3>2. store[d][0].attr
      BY <2>1, Zenon DEF IsFolder
    <3>3. r = 1
      BY <1>2, <2>1, <3>1, <3>2 DEF ReadCode
    <3> QED BY <1>3, <2>1, <2>3, <3>3 DEF Abstract!Read
  <2>4. ASSUME NEW i, Listed(d, tree, n, e, i), Says(d, i, tree[d].list[<<n, e>>]),
               Abstract!Lists(d, <<n, e>>), ~Abstract!IsSelf(d, <<n, e>>)
        PROVE  Abstract!Read(d, <<n, e>>, b)
    <3>1. Target(d, n, e) = store[d][i] /\ Matches(store[d], n, e) # {}
      BY <2>4 DEF Listed, Target
    <3>2. PICK x, q : x = store[d][i] /\ q = tree[d].list[<<n, e>>]
      OBVIOUS
    <3>3. CASE x.attr
      <4>1. r = 1 /\ q.folder
        BY <1>2, <2>1, <2>4, <3>1, <3>2, <3>3 DEF ReadCode, Says
      <4> QED BY <1>3, <2>1, <2>4, <3>2, <4>1 DEF Abstract!Read
    <3>4. CASE ~x.attr /\ b < x.filesize
      <4>1. r = 2 /\ ~q.folder /\ b < q.size
        BY <1>2, <2>1, <2>4, <3>1, <3>2, <3>4 DEF ReadCode, Says
      <4> QED BY <1>3, <2>1, <2>4, <3>2, <4>1 DEF Abstract!Read
    <3>5. CASE ~x.attr /\ ~(b < x.filesize)
      <4>1. r = 0
        BY <1>2, <2>1, <3>1, <3>2, <3>5 DEF ReadCode
      <4>2. ~q.folder /\ q.size = x.filesize
        BY <2>4, <3>2, <3>5 DEF Says
      <4>3. q.data = ReadClusters(d, n, e)
        <5>1. PICK K \in SUBSET Clusters, u \in Values, l \in Nat :
                 /\ l = ceil_div(x.filesize, ClusterSize) /\ FileOn(fat, store, K, x.cluster, l, u)
                 /\ q = [folder |-> FALSE, handle |-> 0, size |-> x.filesize,
                         data |-> [k \in 1 .. l |-> <<u, k>>]]
          BY <2>4, <3>2, <3>5, Zenon DEF Listed, Shows
        <5>2. PICK w : w = Walk(x.cluster)
          OBVIOUS
        <5>3. Len(w) = l /\ \A k \in 1 .. l : store[w[k]] = <<u, k>>
          BY <5>1, <5>2, WalkWhole
        <5>4. ReadClusters(d, n, e) = [k \in 1 .. Len(w) |-> store[w[k]]]
          BY <3>1, <3>2, <5>2 DEF ReadClusters
        <5>5. ReadClusters(d, n, e) = [k \in 1 .. l |-> <<u, k>>]
          BY <5>3, <5>4
        <5>6. q.data = [k \in 1 .. l |-> <<u, k>>]
          BY <5>1
        <5> QED BY <5>5, <5>6
      <4>4. ret' = 0 /\ copied' = q.data
        BY <1>1, <1>2, <4>1, <4>3
      <4>5. b >= q.size
        <5>1. b \in Nat /\ x.filesize \in Nat
          <6>1. store[d] \in Tables /\ i \in Slots
            BY <1>5, <2>4 DEF Folders, Listed, Used
          <6> QED BY <3>2, <6>1, ConstantsAssumption DEF Tables, Entry
        <5> QED BY <3>5, <4>2, <5>1
      <4> QED BY <1>1, <2>1, <2>4, <3>2, <4>2, <4>4, <4>5 DEF Abstract!Read
    <3> QED BY <3>3, <3>4, <3>5
  <2> QED BY <1>5, <2>2, <2>3, <2>4, SearchTree
<1> QED BY <1>4, <1>5

\* read_directory.
LEMMA ReadDirectoryStep ==
    ASSUME Mirrors, NEW d \in Parents, NEW n \in Names, NEW e \in Exts,
           ReadDirectory(d, n, e), UNCHANGED tree
    PROVE  Abstract!ReadDirectory(d, <<n, e>>)
<1>1. ret' = ReadDirectoryCode(d, n, e) /\ copied' = <<>> /\ UNCHANGED <<fault, tree>>
    BY DEF ReadDirectory
<1>2. PICK r : r = ReadDirectoryCode(d, n, e)
    OBVIOUS
<1>3. Abstract!Refuse(r)
    BY <1>1, <1>2, RefuseIs
<1>4. CASE d \notin Folders
  <2>1. r = -1 /\ ~Abstract!Exists(d)
    BY <1>2, <1>4, NoFolder DEF ReadDirectoryCode
  <2> QED BY <1>3, <2>1 DEF Abstract!ReadDirectory
<1>5. CASE d \in Folders
  <2>1. IsFolder(d) /\ Abstract!Exists(d)
    BY <1>5, NoFolder
  <2>2. CASE Missing(d, tree, n, e) /\ ~Abstract!Lists(d, <<n, e>>) /\ ~Abstract!IsSelf(d, <<n, e>>)
    <3>1. r = 2
      BY <1>2, <2>1, <2>2 DEF ReadDirectoryCode, Missing
    <3> QED BY <1>3, <2>1, <2>2, <3>1 DEF Abstract!ReadDirectory
  <2>3. CASE Own(d, tree, n, e) /\ ~Abstract!Lists(d, <<n, e>>) /\ Abstract!IsSelf(d, <<n, e>>)
    <3>1. Target(d, n, e) = store[d][0] /\ Matches(store[d], n, e) # {}
      BY <2>3 DEF Own, Target
    <3>2. store[d][0].attr
      BY <2>1, Zenon DEF IsFolder
    <3>3. r = 0
      BY <1>2, <2>1, <3>1, <3>2 DEF ReadDirectoryCode
    <3> QED BY <1>3, <2>1, <2>3, <3>3 DEF Abstract!ReadDirectory
  <2>4. ASSUME NEW i, Listed(d, tree, n, e, i), Says(d, i, tree[d].list[<<n, e>>]),
               Abstract!Lists(d, <<n, e>>), ~Abstract!IsSelf(d, <<n, e>>)
        PROVE  Abstract!ReadDirectory(d, <<n, e>>)
    <3>1. Target(d, n, e) = store[d][i] /\ Matches(store[d], n, e) # {}
      BY <2>4 DEF Listed, Target
    <3>2. r = IF tree[d].list[<<n, e>>].folder THEN 0 ELSE 1
      BY <1>2, <2>1, <2>4, <3>1 DEF ReadDirectoryCode, Says
    <3> QED BY <1>3, <2>1, <2>4, <3>2 DEF Abstract!ReadDirectory
  <2> QED BY <1>5, <2>2, <2>3, <2>4, SearchTree
<1> QED BY <1>4, <1>5

\* cd into a child.
LEMMA MoveToChildStep ==
    ASSUME Mirrors, NEW d \in Parents, NEW n \in Names, MoveToChild(d, n), UNCHANGED tree
    PROVE  Abstract!MoveToChild(d, n)
<1>1. ret' = ChildOf(d, n) /\ copied' = <<>> /\ UNCHANGED <<fault, tree>>
    BY DEF MoveToChild
<1>2. PICK r : r = ChildOf(d, n)
    OBVIOUS
<1>3. Abstract!Refuse(r)
    BY <1>1, <1>2, RefuseIs
<1>4. CASE d \notin Folders
  <2>1. r = 0 /\ ~Abstract!Exists(d)
    BY <1>2, <1>4, NoFolder DEF ChildOf, ChildSlots
  <2> QED BY <1>3, <2>1 DEF Abstract!MoveToChild
<1>5. CASE d \in Folders
  <2>1. store[d] \in Tables /\ Abstract!Exists(d)
    BY <1>5, NoFolder
  <2>2. CASE Missing(d, tree, n, DirExt) /\ ~Abstract!Lists(d, <<n, DirExt>>)
    <3>1. r = 0
      BY <1>2, <2>1, <2>2 DEF ChildOf, ChildSlots, Missing
    <3> QED BY <1>3, <2>1, <2>2, <3>1 DEF Abstract!MoveToChild
  <2>3. ~Own(d, tree, n, DirExt)
    BY ConstantsAssumption DEF Own
  <2>4. ASSUME NEW i, Listed(d, tree, n, DirExt, i), Says(d, i, tree[d].list[<<n, DirExt>>]),
               Abstract!Lists(d, <<n, DirExt>>)
        PROVE  Abstract!MoveToChild(d, n)
    <3>1. i # 0 /\ Matches(store[d], n, DirExt) = {i} /\ Min(Matches(store[d], n, DirExt)) = i
      BY <2>4 DEF Listed, Used
    <3>2. Matches(store[d], n, DirExt) \ {0} = Matches(store[d], n, DirExt)
      BY <3>1
    <3>3. ChildSlots(d, n) = Matches(store[d], n, DirExt)
      BY <2>1, <3>2 DEF ChildSlots
    <3>4. r = store[d][i].cluster
      BY <1>2, <3>1, <3>3 DEF ChildOf
    <3>5. PICK q : q = tree[d].list[<<n, DirExt>>]
      OBVIOUS
    <3>6. CASE store[d][i].attr
      <4>1. q.folder /\ r = q.handle
        BY <2>4, <3>4, <3>5, <3>6 DEF Says
      <4> QED BY <1>3, <2>1, <2>4, <3>5, <4>1 DEF Abstract!MoveToChild
    <3>7. CASE ~store[d][i].attr
      <4>1. ~q.folder /\ r \in Clusters \ Folders
        BY <2>4, <3>4, <3>5, <3>7 DEF Says
      <4>2. DOMAIN tree = Folders
        BY <1>5, KeysOf DEF Mirrors
      <4> QED BY <1>3, <2>1, <2>4, <3>5, <4>1, <4>2 DEF Abstract!MoveToChild
    <3> QED BY <3>6, <3>7
  <2> QED BY <1>5, <2>2, <2>3, <2>4, SearchTree
<1> QED BY <1>4, <1>5

\* cd into the parent.
LEMMA MoveToParentStep ==
    ASSUME Mirrors, NEW d \in Parents, MoveToParent(d), UNCHANGED tree
    PROVE  Abstract!MoveToParent(d)
<1>1. /\ ret' = store[d][0].cluster /\ copied' = <<>> /\ UNCHANGED <<fault, tree>>
      /\ store[d] \in Tables
    BY DEF MoveToParent
<1>2. d \in Folders /\ Abstract!Exists(d)
    BY <1>1, NoFolder
<1>3. tree[d].parent = store[d][0].cluster
    BY <1>2, KeysOf DEF Mirrors
<1>4. Abstract!Refuse(tree[d].parent)
    BY <1>1, <1>3, RefuseIs
<1> QED BY <1>2, <1>4 DEF Abstract!MoveToParent

\* A delete that is refused.
LEMMA DeleteRefusedStep ==
    ASSUME Mirrors, NEW d \in Parents, NEW n \in Names, NEW e \in Exts,
           DeleteRefused(d, n, e), UNCHANGED tree
    PROVE  Abstract!Delete(d, <<n, e>>)
<1>1. /\ ret' = DeleteCode(d, n, e) /\ copied' = <<>> /\ UNCHANGED <<fault, tree>>
      /\ DeleteCode(d, n, e) # 0
    BY DEF DeleteRefused
<1>2. PICK r : r = DeleteCode(d, n, e)
    OBVIOUS
<1>3. Abstract!Refuse(r) /\ r # 0
    BY <1>1, <1>2, RefuseIs
<1>4. CASE d \notin Folders
  <2>1. r = -1 /\ ~Abstract!Exists(d)
    BY <1>2, <1>4, NoFolder DEF DeleteCode
  <2> QED BY <1>3, <2>1 DEF Abstract!Delete
<1>5. CASE d \in Folders
  <2>1. IsFolder(d) /\ Abstract!Exists(d)
    BY <1>5, NoFolder
  <2>2. CASE Missing(d, tree, n, e) /\ ~Abstract!Lists(d, <<n, e>>) /\ ~Abstract!IsSelf(d, <<n, e>>)
    <3>1. r = 1
      BY <1>2, <2>1, <2>2 DEF DeleteCode, Missing
    <3> QED BY <1>3, <2>1, <2>2, <3>1 DEF Abstract!Delete
  <2>3. CASE Own(d, tree, n, e) /\ ~Abstract!Lists(d, <<n, e>>) /\ Abstract!IsSelf(d, <<n, e>>)
    <3>1. Matches(store[d], n, e) # {}
      BY <2>3 DEF Own
    <3>2. r = 2
      BY <1>2, <1>3, <2>1, <3>1 DEF DeleteCode
    <3> QED BY <1>3, <2>1, <2>3, <3>2 DEF Abstract!Delete
  <2>4. ASSUME NEW i, Listed(d, tree, n, e, i), Says(d, i, tree[d].list[<<n, e>>]),
               Abstract!Lists(d, <<n, e>>), ~Abstract!IsSelf(d, <<n, e>>)
        PROVE  Abstract!Delete(d, <<n, e>>)
    <3>1. Target(d, n, e) = store[d][i] /\ Matches(store[d], n, e) # {}
      BY <2>4 DEF Listed, Target
    <3>2. PICK h, q : h = store[d][i].cluster /\ q = tree[d].list[<<n, e>>]
      OBVIOUS
    <3>3. r = 2 /\ store[d][i].attr /\ HoldsEntries(h)
      BY <1>2, <1>3, <2>1, <3>1, <3>2 DEF DeleteCode
    <3>4. q.folder /\ q.handle = h /\ h \in Folders
      BY <2>4, <3>2, <3>3 DEF Says
    <3>5. DOMAIN tree[h].list # {}
      <4>1. PICK j : j \in Used(h)
        BY <3>3 DEF HoldsEntries, Used
      <4>2. DOMAIN tree[h].list = {<<store[h][l].name, store[h][l].ext>> : l \in Used(h)}
        BY <3>4, KeysOf DEF Mirrors
      <4> QED BY <4>1, <4>2
    <3> QED BY <1>3, <2>1, <2>4, <3>2, <3>3, <3>4, <3>5 DEF Abstract!Delete
  <2> QED BY <1>5, <2>2, <2>3, <2>4, SearchTree
<1> QED BY <1>4, <1>5

-----------------------------------------------------------------------------
(* The calls change the tree as the tree of folders allows.                *)

\* A write of a file.
LEMMA WriteFileStep ==
    ASSUME Mirrors, Mirrors', NEW d \in Parents, NEW n \in Names, NEW e \in Exts, NEW b \in Sizes,
           NEW v \in Values, WriteFile(d, n, e, b, v), fault = "none", fault' = "none"
    PROVE  b > 0 /\ Abstract!WriteFile(d, <<n, e>>, b, v)
<1>1. /\ Ordered /\ Ordered' /\ TreeShown(fat, store, tree) /\ TreeShown(fat', store', tree')
    BY DEF Mirrors
<1>2. b > 0 /\ ret' = 0 /\ copied' = <<>> /\ WriteCode(d, n, e, b) = 0
    BY DEF WriteFile
<1>3. store[d] \in Tables /\ Matches(store[d], n, e) = {}
    BY <1>2, WriteCodeZero
<1>4. d \in Folders /\ Abstract!Exists(d)
    BY <1>3, NoFolder
<1>5. ~Own(d, tree, n, e) /\ \A i : ~Listed(d, tree, n, e, i)
    BY <1>3 DEF Own, Listed
<1>6. ~Abstract!Lists(d, <<n, e>>) /\ ~Abstract!IsSelf(d, <<n, e>>)
    BY <1>4, <1>5, SearchTree
<1>7. PICK U : U = [tree EXCEPT ![d].list = Abstract!With(@, <<n, e>>, Abstract!File(b, v))]
    OBVIOUS
<1>8. TreeShown(fat', store', U)
    BY <1>1, <1>4, <1>7, WriteFileTree
<1>9. tree' = U
    BY <1>1, <1>8, TreeOnly
<1> QED BY <1>2, <1>4, <1>6, <1>7, <1>9 DEF Abstract!WriteFile, Abstract!Answer

\* A write of a folder.
LEMMA WriteFolderStep ==
    ASSUME Mirrors, Mirrors', NEW d \in Parents, NEW n \in Names, NEW e \in Exts,
           WriteFolder(d, n, e), fault = "none", fault' = "none"
    PROVE  Abstract!WriteFolder(d, <<n, e>>)
<1>1. /\ Ordered /\ Ordered' /\ TreeShown(fat, store, tree) /\ TreeShown(fat', store', tree')
    BY DEF Mirrors
<1>2. ret' = 0 /\ copied' = <<>> /\ WriteCode(d, n, e, 0) = 0
    BY DEF WriteFolder
<1>3. store[d] \in Tables /\ Matches(store[d], n, e) = {}
    BY <1>2, WriteCodeZero
<1>4. d \in Folders /\ Abstract!Exists(d)
    BY <1>3, NoFolder
<1>5. ~Own(d, tree, n, e) /\ \A i : ~Listed(d, tree, n, e, i)
    BY <1>3 DEF Own, Listed
<1>6. ~Abstract!Lists(d, <<n, e>>) /\ ~Abstract!IsSelf(d, <<n, e>>)
    BY <1>4, <1>5, SearchTree
<1>7. PICK T : T = tree
    OBVIOUS
<1>8. PICK h \in Clusters \ Folders :
           \A U : U = [g \in Folders \cup {h} |->
                          IF g = h THEN Abstract!EmptyFolder(n, d)
                          ELSE IF g = d THEN [T[d] EXCEPT !.list = Abstract!With(@, <<n, e>>, Abstract!Folder(h))]
                          ELSE T[g]]
                  => TreeShown(fat', store', U)
    BY <1>1, <1>4, <1>7, WriteFolderTree
<1>9. PICK U : U = [g \in Folders \cup {h} |->
                       IF g = h THEN Abstract!EmptyFolder(n, d)
                       ELSE IF g = d THEN [T[d] EXCEPT !.list = Abstract!With(@, <<n, e>>, Abstract!Folder(h))]
                       ELSE T[g]]
    OBVIOUS
<1>10. TreeShown(fat', store', U)
    BY <1>8, <1>9
<1>11. tree' = U
    BY <1>1, <1>10, TreeOnly
<1>12. DOMAIN tree = Folders /\ <<n, e>>[1] = n
    BY <1>1, <1>4, KeysOf
<1>13. \E g \in Clusters \ DOMAIN tree :
           tree' = [c \in DOMAIN tree \cup {g} |->
                       IF c = g THEN Abstract!EmptyFolder(<<n, e>>[1], d)
                       ELSE IF c = d THEN [tree[d] EXCEPT !.list = Abstract!With(@, <<n, e>>, Abstract!Folder(g))]
                       ELSE tree[c]]
    BY <1>7, <1>9, <1>11, <1>12, Zenon
<1> QED BY <1>2, <1>4, <1>6, <1>13 DEF Abstract!WriteFolder, Abstract!Answer

\* A delete.
LEMMA DeleteStep ==
    ASSUME Mirrors, Mirrors', NEW d \in Parents, NEW n \in Names, NEW e \in Exts,
           Delete(d, n, e), fault = "none", fault' = "none"
    PROVE  Abstract!Delete(d, <<n, e>>)
<1>1. /\ Ordered /\ Ordered' /\ TreeShown(fat, store, tree) /\ TreeShown(fat', store', tree')
    BY DEF Mirrors
<1>2. ret' = 0 /\ copied' = <<>> /\ DeleteCode(d, n, e) = 0
    BY DEF Delete
<1>3. store[d] \in Tables /\ Matches(store[d], n, e) # {}
    BY <1>2, DeleteCodeZero
<1>4. d \in Folders /\ Abstract!Exists(d)
    BY <1>3, NoFolder
<1>5. PICK T, k : T = tree /\ k = <<n, e>>
    OBVIOUS
<1>6. PICK r : r = T[d].list[k]
    OBVIOUS
<1>7. PICK U : U = [g \in Folders \ (IF r.folder THEN {r.handle} ELSE {}) |->
                       IF g = d THEN [T[d] EXCEPT !.list = Abstract!Without(@, k)] ELSE T[g]]
    OBVIOUS
<1>8. /\ \E i : Listed(d, T, n, e, i)
      /\ r.folder => DOMAIN T[r.handle].list = {}
      /\ TreeShown(fat', store', U)
    BY <1>1, <1>4, <1>5, <1>6, <1>7, DeleteTree, SMTT(40)
<1>9. Abstract!Lists(d, k) /\ ~Abstract!IsSelf(d, k)
    BY <1>5, <1>8 DEF Listed, Abstract!Lists, Abstract!IsSelf
<1>10. tree' = U
    BY <1>1, <1>8, TreeOnly
<1>11. DOMAIN tree = Folders
    BY <1>1, <1>4, KeysOf
<1>12. tree' = [g \in DOMAIN tree \ (IF r.folder THEN {r.handle} ELSE {}) |->
                   IF g = d THEN [tree[d] EXCEPT !.list = Abstract!Without(@, k)] ELSE tree[g]]
    BY <1>5, <1>7, <1>10, <1>11, Zenon
<1>13. Abstract!Answer(0)
    BY <1>2 DEF Abstract!Answer
<1>14. Abstract!Delete(d, k)
    BY <1>4, <1>5, <1>6, <1>8, <1>9, <1>12, <1>13 DEF Abstract!Delete
<1> QED BY <1>5, <1>14

\* The tree follows the tables.
LEMMA MirrorsNext ==
    ASSUME Mirrors, Ordered', fault' = "none",
           tree' = IF UNCHANGED <<fat, store>> \/ fault' # "none" THEN tree ELSE Tree'
    PROVE  Mirrors'
<1>1. CASE UNCHANGED <<fat, store>>
  <2>1. tree' = tree
    BY <1>1
  <2> QED BY <1>1, <2>1 DEF Mirrors
<1>2. CASE ~UNCHANGED <<fat, store>>
  <2>1. tree' = Tree'
    BY <1>2
  <2> QED BY <2>1, TreeIsNext DEF Mirrors
<1> QED BY <1>1, <1>2

\* A call that succeeds or is refused, without a fall-through.
LEMMA CallStep ==
    ASSUME Mirrors, fault = "none", fault' = "none", Called,
           tree' = IF UNCHANGED <<fat, store>> \/ fault' # "none" THEN tree ELSE Tree'
    PROVE  Mirrors' /\ Abstract!Next
<1>1. Ordered /\ TypeOK
    BY DEF Mirrors, Ordered
<1>2. ret' \in Int
  <2>1. Next
    BY DEF Called, Next, Operation
  <2>2. TypeOK'
    BY <1>1, <2>1, NextType
  <2> QED BY <2>2 DEF TypeOK
<1>3. ASSUME UNCHANGED <<fat, store, fault>> PROVE Mirrors' /\ UNCHANGED tree
  <2>1. Ordered'
    BY <1>1, <1>2, <1>3, KeptOrdered
  <2> QED BY <1>3, <2>1, MirrorsNext
<1>4. PICK d \in Parents, n \in Names, e \in Exts :
          LET k == <<n, e>> IN
          \/ call' = <<"write", d, k, 0>> /\ WriteFolder(d, n, e)
          \/ \E b \in Sizes :
                 \/ call' = <<"write", d, k, b>> /\ WriteRefused(d, n, e, b)
                 \/ call' = <<"read", d, k, b>> /\ Read(d, n, e, b)
                 \/ \E v \in Values : call' = <<"write", d, k, b, v>> /\ WriteFile(d, n, e, b, v)
          \/ call' = <<"delete", d, k>> /\ (DeleteRefused(d, n, e) \/ Delete(d, n, e))
          \/ call' = <<"read_directory", d, k>> /\ ReadDirectory(d, n, e)
          \/ call' = <<"move_to_child", d, n>> /\ MoveToChild(d, n)
          \/ call' = <<"move_to_parent", d>> /\ MoveToParent(d)
    BY DEF Called
<1>5. d \in Clusters /\ n # NoName
    BY NoFolder, ConstantsAssumption
<1>6. CASE call' = <<"write", d, <<n, e>>, 0>> /\ WriteFolder(d, n, e)
  <2>1. Mirrors'
    BY <1>1, <1>6, WriteFolderOrdered, MirrorsNext
  <2>2. Abstract!WriteFolder(d, <<n, e>>)
    BY <1>6, <2>1, WriteFolderStep
  <2> QED BY <1>5, <1>6, <2>1, <2>2 DEF Abstract!Next
<1>7. ASSUME NEW b \in Sizes, call' = <<"write", d, <<n, e>>, b>>, WriteRefused(d, n, e, b)
      PROVE  Mirrors' /\ Abstract!Next
  <2>1. Mirrors' /\ UNCHANGED tree
    BY <1>3, <1>7 DEF WriteRefused
  <2>2. Abstract!Write(d, <<n, e>>)
    BY <1>7, <2>1, WriteRefusedStep
  <2> QED BY <1>5, <1>7, <2>1, <2>2 DEF Abstract!Next
<1>8. ASSUME NEW b \in Sizes, call' = <<"read", d, <<n, e>>, b>>, Read(d, n, e, b)
      PROVE  Mirrors' /\ Abstract!Next
  <2>1. Mirrors' /\ UNCHANGED tree
    BY <1>3, <1>8 DEF Read
  <2>2. Abstract!Read(d, <<n, e>>, b)
    BY <1>8, <2>1, ReadStep
  <2> QED BY <1>5, <1>8, <2>1, <2>2 DEF Abstract!Next
<1>9. ASSUME NEW b \in Sizes, NEW v \in Values, call' = <<"write", d, <<n, e>>, b, v>>,
             WriteFile(d, n, e, b, v)
      PROVE  Mirrors' /\ Abstract!Next
  <2>1. Mirrors'
    BY <1>1, <1>9, WriteFileOrdered, MirrorsNext
  <2>2. b > 0 /\ Abstract!WriteFile(d, <<n, e>>, b, v)
    BY <1>9, <2>1, WriteFileStep
  <2> QED BY <1>5, <1>9, <2>1, <2>2 DEF Abstract!Next
<1>10. CASE call' = <<"delete", d, <<n, e>>>> /\ DeleteRefused(d, n, e)
  <2>1. Mirrors' /\ UNCHANGED tree
    BY <1>3, <1>10 DEF DeleteRefused
  <2>2. Abstract!Delete(d, <<n, e>>)
    BY <1>10, <2>1, DeleteRefusedStep
  <2> QED BY <1>5, <1>10, <2>1, <2>2 DEF Abstract!Next
<1>11. CASE call' = <<"delete", d, <<n, e>>>> /\ Delete(d, n, e)
  <2>1. Mirrors'
    BY <1>1, <1>5, <1>11, DeleteOrdered, MirrorsNext
  <2>2. Abstract!Delete(d, <<n, e>>)
    BY <1>11, <2>1, DeleteStep
  <2> QED BY <1>5, <1>11, <2>1, <2>2 DEF Abstract!Next
<1>12. CASE call' = <<"read_directory", d, <<n, e>>>> /\ ReadDirectory(d, n, e)
  <2>1. Mirrors' /\ UNCHANGED tree
    BY <1>3, <1>12 DEF ReadDirectory
  <2>2. Abstract!ReadDirectory(d, <<n, e>>)
    BY <1>12, <2>1, ReadDirectoryStep
  <2> QED BY <1>5, <1>12, <2>1, <2>2 DEF Abstract!Next
<1>13. CASE call' = <<"move_to_child", d, n>> /\ MoveToChild(d, n)
  <2>1. Mirrors' /\ UNCHANGED tree
    BY <1>3, <1>13 DEF MoveToChild
  <2>2. Abstract!MoveToChild(d, n)
    BY <1>13, <2>1, MoveToChildStep
  <2> QED BY <1>5, <1>13, <2>1, <2>2 DEF Abstract!Next
<1>14. CASE call' = <<"move_to_parent", d>> /\ MoveToParent(d)
  <2>1. Mirrors' /\ UNCHANGED tree
    BY <1>3, <1>14 DEF MoveToParent
  <2>2. Abstract!MoveToParent(d)
    BY <1>14, <2>1, MoveToParentStep
  <2> QED BY <1>5, <1>14, <2>1, <2>2 DEF Abstract!Next
<1> QED BY <1>4, <1>6, <1>7, <1>8, <1>9, <1>10, <1>11, <1>12, <1>13, <1>14

\* A step of the driver is a step of the tree of folders or changes nothing of
\* it.
LEMMA StoreStep ==
    (fault = "none" => Mirrors) /\ [StoreNext]_<<vars, tree, call>>
    => (fault = "none" => Mirrors)' /\ [Abstract!Next]_Abstract!vars
<1> SUFFICES ASSUME fault = "none" => Mirrors, [StoreNext]_<<vars, tree, call>>
             PROVE  (fault = "none" => Mirrors)' /\ [Abstract!Next]_Abstract!vars
    OBVIOUS
<1>1. CASE UNCHANGED <<vars, tree, call>>
  <2>1. UNCHANGED <<fat, store, ret, copied, fault, tree, call>>
    BY <1>1 DEF vars
  <2>2. UNCHANGED Abstract!vars
    BY <2>1 DEF Abstract!vars
  <2>3. ASSUME fault' = "none" PROVE Mirrors'
    <3>1. Mirrors /\ ret' \in Int
      BY <2>1, <2>3 DEF Mirrors, Ordered, TypeOK
    <3>2. Ordered'
      BY <2>1, <3>1, KeptOrdered DEF Mirrors
    <3> QED BY <2>1, <3>1, <3>2 DEF Mirrors
  <2> QED BY <2>2, <2>3
<1>2. CASE Stopped /\ UNCHANGED call /\ StoreNext
  <2>1. UNCHANGED <<fat, store, ret, copied, fault, tree, call>> /\ fault # "none"
    BY <1>2 DEF Stopped, vars, StoreNext
  <2>2. UNCHANGED Abstract!vars
    BY <2>1 DEF Abstract!vars
  <2> QED BY <2>1, <2>2
<1>3. CASE fault = "none" /\ Called /\ StoreNext
  <2>1. CASE fault' # "none"
    <3>1. Abstract!Break
      BY <2>1 DEF Abstract!Break
    <3> QED BY <2>1, <3>1 DEF Abstract!Next
  <2>2. CASE fault' = "none"
    <3>1. tree' = IF UNCHANGED <<fat, store>> \/ fault' # "none" THEN tree ELSE Tree'
      BY <1>3 DEF StoreNext
    <3>2. Mirrors' /\ Abstract!Next
      BY <1>3, <2>2, <3>1, CallStep
    <3> QED BY <3>2
  <2> QED BY <2>1, <2>2
<1> QED BY <1>1, <1>2, <1>3 DEF StoreNext

\* The formatted disk is the empty tree.
LEMMA StoreStarts == StoreInit => Mirrors /\ Abstract!Init
<1> SUFFICES ASSUME StoreInit PROVE Mirrors /\ Abstract!Init
    OBVIOUS
<1>1. Init /\ tree = Tree /\ call = <<"none">>
    BY DEF StoreInit
<1>2. Ordered /\ Mirrors
    BY <1>1, InitOrdered, TreeIs DEF Mirrors
<1>3. Folders = {ROOT}
    BY <1>1, ConstantsAssumption, Numbers DEF Init, InitFat, InitStore, Folders, Allocated, Clusters, ROOT
<1>4. store[ROOT] = init_directory_table(RootName, ROOT)
    BY <1>1, Numbers DEF Init, InitStore
<1>5. store[ROOT][0].name = RootName /\ store[ROOT][0].cluster = ROOT
    BY <1>4, Numbers DEF init_directory_table, ZeroTable, ZeroEntry
<1>6. Used(ROOT) = {}
  <2>1. \A i \in Slots : i > 0 => init_directory_table(RootName, ROOT)[i].used = FALSE
    BY Numbers DEF init_directory_table, ZeroTable, ZeroEntry
  <2> QED BY <1>4, <2>1 DEF Used
<1>7. ListOf(ROOT) = [k \in {} |-> 0]
  <2>1. PICK L : L = ListOf(ROOT)
    OBVIOUS
  <2>2. DOMAIN L = {} /\ L = [k \in DOMAIN L |-> L[k]]
    BY <1>6, <2>1 DEF ListOf
  <2>3. L = [k \in {} |-> 0]
    BY <2>2
  <2> QED BY <2>1, <2>3
<1>8. tree = [h \in {ROOT} |-> Abstract!EmptyFolder(RootName, ROOT)]
    BY <1>1, <1>3, <1>5, <1>7 DEF Tree, Abstract!EmptyFolder
<1>9. ret = 0 /\ copied = <<>> /\ fault = "none"
    BY <1>1 DEF Init
<1> QED BY <1>1, <1>2, <1>8, <1>9 DEF Abstract!Init

\* fat32.c implements the tree of folders of FileStore: every call of write,
\* delete, read, read_directory and the two moves changes it, and is answered,
\* as FileStore allows, up to the first fall-through, whatever the sizes of the
\* disk and of a directory.
THEOREM DriverImplements == StoreSpec => ImplementsFileStore
<1>1. StoreInit => (fault = "none" => Mirrors) /\ Abstract!Init
    BY StoreStarts
<1> QED BY <1>1, StoreStep, PTL DEF StoreSpec, ImplementsFileStore, Abstract!Spec
=============================================================================
