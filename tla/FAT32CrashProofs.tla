-------------------------- MODULE FAT32CrashProofs --------------------------
(***************************************************************************)
(* A power loss between any two disk writes leaves what FAT32Crash says,   *)
(* for every size of the allocation table, of its blocks, of the directory *)
(* tables and of clusters, and any number of losses.                       *)
(***************************************************************************)
EXTENDS FAT32Crash, FAT32Proofs

-----------------------------------------------------------------------------
(* What a disk may hold.                                                   *)

Blank(F, S) == \A c \in Clusters : F[c] = EMPTY /\ S[c] = ZeroTable
HalfDone(S) == S[0] = SIGNATURE /\ \A c \in Clusters \ {0} : S[c] = ZeroTable

\* Every entry of the folders in D but one leads into clusters K that are
\* allocated, and so do these.
LeadsInto(F, S, D, K, x) ==
    /\ \A y \in K : F[y] # EMPTY /\ (F[y] \in Clusters => F[y] \in K)
    /\ \A c \in D : \A i \in UsedIn(S, c) : <<c, i>> # x => S[c][i].cluster \in K
Torn(F, S, D) ==
    /\ ReservedIn(F) /\ NoCrossIn(F)
    /\ \E K \in SUBSET Clusters, x \in Clusters \X Slots : LeadsInto(F, S, D, K, x)

\* A disk after wreck w.
Image(F, S, w) ==
    /\ S[0] = SIGNATURE /\ w \in {"none", "leak", "torn", "half formatted"}
    /\ w \in {"none", "leak"} => SolidIn(F, S)
    /\ w = "none" => NothingLostIn(F, S)
    /\ w = "torn" => Torn(F, S, FoldersIn(F, S))
    /\ w = "half formatted" => HalfDone(S)
OnDisk == (wreck = "none" /\ Blank(dfat, disk)) \/ Image(dfat, disk, wreck)

-----------------------------------------------------------------------------
(* The inductive invariant, by what the machine does.                      *)

Off == power = "off" /\ io = <<>> /\ op = "none" /\ store = disk /\ OnDisk

Idle ==
    /\ power = "on" /\ io = <<>> /\ op = "none"
    /\ fat = dfat /\ store = disk /\ Image(dfat, disk, wreck)

Hosted ==
    /\ power = "host" /\ io = <<>> /\ wreck # "torn"
    /\ OnDisk /\ Image(fat, store, wreck)
    /\ wreck = "half formatted" => fat = dfat /\ store = disk
    /\ \A c \in Clusters : c >= 2 /\ dfat[c] # EMPTY /\ disk[c] \in Pieces =>
           store[c] = disk[c] /\ fat[c] # EMPTY

\* The writes still to be made, and that all others are.
Writes == ({"cluster"} \X Clusters) \cup ({"fat"} \X Nat)
Outstanding(w) == \E i \in DOMAIN io : io[i] = w
Queued ==
    /\ power = "on" /\ io # <<>> /\ io \in Seq(Writes)
    /\ \A i, j \in DOMAIN io :
           i < j /\ io[i][1] = "fat" /\ io[j][1] = "fat" => io[i][2] < io[j][2]
    /\ \A c \in Clusters : /\ Outstanding(ClusterWrite(c)) \/ disk[c] = store[c]
                           /\ Outstanding(<<"fat", c \div FatBlock>>) \/ dfat[c] = fat[c]
FatLast == \A i, j \in DOMAIN io : i < j /\ io[i][1] = "fat" => io[j][1] = "fat"

Formatting ==
    /\ op = "format" /\ Queued /\ wreck = "none"
    /\ fat = InitFat /\ store = InitStore
    /\ io[Len(io)] = ClusterWrite(ROOT)
    /\ \A i \in DOMAIN io : io[i][1] = "cluster" => i = Len(io) \/ (i = 1 /\ io[i] = ClusterWrite(0))
    /\ IF Head(io) = ClusterWrite(0) THEN Blank(dfat, disk) ELSE HalfDone(disk)

\* Contents go to clusters that are free on disk, the table is written after
\* them, and until then the disk is as it was.
Writing ==
    /\ op = "write" /\ Queued /\ FatLast /\ wreck \in {"none", "leak"}
    /\ Image(fat, store, wreck)
    /\ \A c \in Clusters : dfat[c] # EMPTY => dfat[c] = fat[c]
    /\ \A i \in DOMAIN io : io[i][1] = "cluster" =>
           /\ io[i][2] >= 2
           /\ \/ dfat[io[i][2]] = EMPTY
              \/ disk[io[i][2]] \in Tables /\ i + 1 \in DOMAIN io /\ io[i + 1][1] = "fat"
    /\ ~TableOnDisk => Image(dfat, disk, wreck)
    /\ Torn(dfat, store, FoldersIn(fat, store))

\* Every FAT the disk holds meanwhile goes with the new table.
Deleting ==
    /\ op = "delete" /\ Queued /\ FatLast /\ wreck \in {"none", "leak"}
    /\ Image(fat, store, wreck)
    /\ \A c \in Clusters : fat[c] # EMPTY => dfat[c] = fat[c]
    /\ \A i \in DOMAIN io : io[i][1] = "cluster" =>
           /\ io[i][2] >= 2 /\ disk[io[i][2]] \in Tables
           /\ \A j \in DOMAIN io : io[j][1] = "cluster" => j = i
    /\ ~TableOnDisk => Image(dfat, disk, wreck)
    /\ SolidIn(dfat, store)
    /\ \A c \in FoldersIn(dfat, store) : fat[c] = EMPTY => UsedIn(store, c) = {}

CrashTypeOK ==
    /\ TypeOK /\ disk \in [Clusters -> Contents] /\ dfat \in [Clusters -> FatValues]

CInv ==
    /\ CrashTypeOK
    /\ fault = "none" => Off \/ Idle \/ Hosted \/ Formatting \/ Writing \/ Deleting
    /\ fault # "none" => wreck # "half formatted" /\ op # "format"

-----------------------------------------------------------------------------
(* Facts about tables.                                                     *)

\* The size of a block of the allocation table.
LEMMA BlockNumber == FatBlock \in Nat /\ FatBlock > 0
BY CrashAssumption

\* Only what allocated clusters hold matters.
LEMMA OnlyAllocated ==
    ASSUME NEW F, NEW S, NEW T, \A c \in AllocIn(F) : T[c] = S[c]
    PROVE  /\ SolidIn(F, S) => SolidIn(F, T)
           /\ SolidIn(F, S) /\ NothingLostIn(F, S) => NothingLostIn(F, T)
<1>1. FoldersIn(F, T) = FoldersIn(F, S) /\ FoldersIn(F, S) \subseteq AllocIn(F)
    BY DEF FoldersIn
<1>2. \A c \in FoldersIn(F, S) : T[c] = S[c] /\ UsedIn(T, c) = UsedIn(S, c)
    BY <1>1 DEF UsedIn
<1>3. ASSUME SolidIn(F, S) PROVE SolidIn(F, T)
  <2>1. EntriesIn(F, S) /\ LinkedIn(F, S) /\ NamelessIn(F, S) /\ AloneIn(F, S)
    BY <1>3 DEF SolidIn
  <2>2. EntriesIn(F, T)
    BY <1>1, <1>2, <2>1 DEF EntriesIn
  <2>3. LinkedIn(F, T)
    <3>1. \A c \in FoldersIn(F, S) : \A i \in UsedIn(S, c) : S[c][i].cluster \in AllocIn(F)
        BY <2>1 DEF EntriesIn
    <3>2. ROOT \in FoldersIn(F, S)
        BY <2>1 DEF LinkedIn
    <3> QED BY <1>1, <1>2, <2>1, <3>1, <3>2 DEF LinkedIn
  <2>4. NamelessIn(F, T) /\ AloneIn(F, T)
    BY <1>1, <1>2, <2>1 DEF NamelessIn, AloneIn
  <2> QED BY <1>3, <2>2, <2>3, <2>4 DEF SolidIn
<1>4. ASSUME NothingLostIn(F, S) PROVE NothingLostIn(F, T)
    BY <1>1, <1>2, <1>4 DEF NothingLostIn
<1> QED BY <1>3, <1>4

\* A block of the new FAT over the old one, which frees clusters: since chains
\* ascend, what was freed is the front of a chain.
LEMMA FreedInOrder ==
    ASSUME NEW F \in [Clusters -> FatValues], NEW G \in [Clusters -> FatValues],
           NEW H \in [Clusters -> FatValues], NEW S,
           SolidIn(F, S), SolidIn(G, S),
           \A c \in Clusters : F[c] # EMPTY => G[c] = F[c],
           \A c \in FoldersIn(G, S) : F[c] = EMPTY => UsedIn(S, c) = {},
           NEW k \in Nat,
           \A c \in Clusters : H[c] = IF c \div FatBlock = k THEN F[c] ELSE G[c],
           \A c \in Clusters : c \div FatBlock < k => G[c] = F[c]
    PROVE  SolidIn(H, S)
<1>1. \A c \in Clusters : (H[c] # EMPTY => H[c] = G[c]) /\ (F[c] # EMPTY => H[c] = F[c])
    OBVIOUS
<1>2. AllocIn(H) \subseteq AllocIn(G) /\ AllocIn(F) \subseteq AllocIn(H) /\ AllocIn(H) \subseteq Clusters
    BY <1>1 DEF AllocIn
<1>3. \A c \in AllocIn(H) : c \in Clusters /\ H[c] = G[c] /\ H[c] # EMPTY
    BY <1>1 DEF AllocIn
<1>4. FoldersIn(H, S) \subseteq FoldersIn(G, S) /\ FoldersIn(F, S) \subseteq FoldersIn(H, S)
    BY <1>2 DEF FoldersIn
<1>5. \A x : PointedIn(H, x) => PointedIn(G, x)
    BY <1>2, <1>3 DEF PointedIn
<1>6. /\ ReservedIn(F) /\ TerminateIn(F) /\ EntriesIn(F, S) /\ LinkedIn(F, S)
      /\ TerminateIn(G) /\ NoCrossIn(G) /\ EntriesIn(G, S) /\ LinkedIn(G, S) /\ NamelessIn(G, S)
      /\ AloneIn(G, S)
    BY DEF SolidIn
<1>7. ReservedIn(H)
  <2>1. F[0] # EMPTY /\ F[1] # EMPTY /\ F[ROOT] # EMPTY
    BY <1>6 DEF ReservedIn, EMPTY, EOF, CLUSTER_0_VALUE
  <2> QED BY <1>1, <1>6, <2>1, Numbers DEF ReservedIn
<1>8. TerminateIn(H)
  <2> SUFFICES ASSUME NEW c \in AllocIn(H), H[c] # EOF PROVE H[c] \in AllocIn(H) /\ H[c] > c
    BY DEF TerminateIn
  <2>1. PICK y : y = H[c]
    OBVIOUS
  <2>2. c \in Clusters /\ c \in AllocIn(G) /\ y = G[c] /\ y \in AllocIn(G) /\ y > c /\ y \in Clusters
    BY <1>2, <1>3, <1>6, <2>1 DEF TerminateIn, AllocIn
  <2>3. ASSUME y \notin AllocIn(H) PROVE FALSE
    <3>1. H[y] = EMPTY /\ y >= 2 /\ G[y] # EMPTY
        BY <2>2, <2>3 DEF AllocIn
    <3>2. y \div FatBlock = k /\ F[y] = EMPTY
        BY <2>2, <3>1
    <3>3. F[c] = EMPTY
        <4> SUFFICES ASSUME F[c] # EMPTY PROVE FALSE
            OBVIOUS
        <4>1. c \in AllocIn(F) /\ F[c] = y
            BY <2>2 DEF AllocIn
        <4>2. y \in AllocIn(F)
            BY <1>6, <2>1, <4>1 DEF TerminateIn
        <4> QED BY <3>2, <4>2 DEF AllocIn
    <3>4. c \div FatBlock <= k
        <4>1. c \in Nat /\ y \in Nat /\ c <= y
            BY <2>2, Numbers
        <4>2. c \div FatBlock <= y \div FatBlock
            BY <4>1, Numbers, BlockNumber
        <4> QED BY <3>2, <4>2
    <3>5. c \div FatBlock \in Int
        BY <2>2, Numbers, BlockNumber
    <3>6. H[c] = EMPTY
        BY <2>2, <3>3, <3>4, <3>5
    <3> QED BY <1>3, <3>6
  <2> QED BY <2>1, <2>2, <2>3
<1>9. NoCrossIn(H)
    BY <1>2, <1>3, <1>6 DEF NoCrossIn
<1>10. ASSUME NEW c \in FoldersIn(H, S), NEW i \in UsedIn(S, c)
       PROVE  /\ c \in FoldersIn(F, S) /\ S[c][i].cluster \in AllocIn(F)
              /\ (S[c][i].cluster \in FoldersIn(F, S) <=> S[c][i].cluster \in FoldersIn(H, S))
  <2>1. c \in FoldersIn(G, S) /\ c \in Clusters /\ c >= 2 /\ S[c] \in Tables
    BY <1>4 DEF FoldersIn, AllocIn
  <2>2. F[c] # EMPTY
    BY <2>1
  <2>3. c \in FoldersIn(F, S)
    BY <2>1, <2>2 DEF FoldersIn, AllocIn
  <2>4. S[c][i].cluster \in AllocIn(F)
    BY <1>6, <2>3 DEF EntriesIn
  <2> QED BY <1>2, <2>3, <2>4 DEF FoldersIn
<1>11. EntriesIn(H, S)
  <2>1. ASSUME NEW c \in FoldersIn(H, S), NEW i \in UsedIn(S, c)
        PROVE  /\ S[c][i].cluster \in AllocIn(H) /\ S[c][i].cluster # ROOT
               /\ ~PointedIn(H, S[c][i].cluster)
               /\ \A d \in FoldersIn(H, S) : \A j \in UsedIn(S, d) :
                      S[d][j].cluster = S[c][i].cluster => c = d /\ i = j
    BY <1>2, <1>4, <1>5, <1>6, <1>10 DEF EntriesIn
  <2> QED BY <2>1 DEF EntriesIn
<1>12. LinkedIn(H, S)
  <2>1. ROOT \in FoldersIn(H, S) /\ S[ROOT][0].cluster = ROOT
    BY <1>4, <1>6 DEF LinkedIn
  <2>2. \A c \in FoldersIn(H, S) : S[c][0].attr
    BY <1>4, <1>6, Zenon DEF LinkedIn
  <2>3. ASSUME NEW c \in FoldersIn(H, S), NEW i \in UsedIn(S, c)
        PROVE  /\ S[c][i].attr <=> S[c][i].cluster \in FoldersIn(H, S)
               /\ S[c][i].attr => F[S[c][i].cluster] = EOF /\ S[S[c][i].cluster][0].cluster = c
    BY <1>6, <1>10, Zenon DEF LinkedIn
  <2>4. \A y \in AllocIn(F) : H[y] = F[y]
    BY <1>1 DEF AllocIn
  <2>5. ASSUME NEW c \in FoldersIn(H, S), NEW i \in UsedIn(S, c), S[c][i].attr
        PROVE  H[S[c][i].cluster] = EOF /\ S[S[c][i].cluster][0].cluster = c
    BY <1>10, <2>3, <2>4, <2>5
  <2> QED BY <2>1, <2>2, <2>3, <2>5, Zenon DEF LinkedIn
<1>13. NamelessIn(H, S)
    BY <1>4, <1>6 DEF NamelessIn
<1>14. AloneIn(H, S)
    BY <1>3, <1>4, <1>5, <1>6 DEF AloneIn, FoldersIn
<1> QED BY <1>7, <1>8, <1>9, <1>11, <1>12, <1>13, <1>14 DEF SolidIn

\* A torn disk seen from fewer folders.
LEMMA TornSmaller ==
    ASSUME NEW F, NEW S, NEW D, NEW E \in SUBSET D, Torn(F, S, D)
    PROVE  Torn(F, S, E)
<1>1. PICK K \in SUBSET Clusters, x \in Clusters \X Slots : LeadsInto(F, S, D, K, x)
    BY DEF Torn
<1>2. LeadsInto(F, S, E, K, x)
    BY <1>1 DEF LeadsInto
<1> QED BY <1>2 DEF Torn

\* Links added to free clusters disturb no other.
LEMMA TornLinked ==
    ASSUME NEW F, NEW G, NEW S, NEW D, Torn(F, S, D), NoCrossIn(G),
           \A c \in Clusters : F[c] # EMPTY => G[c] = F[c]
    PROVE  Torn(G, S, D)
<1>1. PICK K \in SUBSET Clusters, x \in Clusters \X Slots : LeadsInto(F, S, D, K, x)
    BY DEF Torn
<1>2. LeadsInto(G, S, D, K, x)
    BY <1>1 DEF LeadsInto
<1>3. ReservedIn(G)
  <2>1. ReservedIn(F)
    BY DEF Torn
  <2>2. F[0] # EMPTY /\ F[1] # EMPTY /\ F[ROOT] # EMPTY
    BY <2>1 DEF ReservedIn, EMPTY, EOF, CLUSTER_0_VALUE
  <2> QED BY <2>1, <2>2, Numbers DEF ReservedIn
<1> QED BY <1>2, <1>3 DEF Torn

-----------------------------------------------------------------------------
(* One write reaches the disk.                                             *)

\* A queue of writes after its first.
LEMMA Rest ==
    ASSUME io # <<>>, io \in Seq(Writes)
    PROVE  /\ Len(io) \in Nat /\ Len(io) >= 1 /\ DOMAIN io = 1 .. Len(io) /\ Head(io) = io[1]
           /\ Tail(io) \in Seq(Writes) /\ Len(Tail(io)) = Len(io) - 1
           /\ DOMAIN Tail(io) = 1 .. Len(io) - 1
           /\ \A j \in 1 .. Len(io) - 1 : Tail(io)[j] = io[j + 1] /\ j + 1 \in DOMAIN io
           /\ \A j \in DOMAIN io : io[j] \in Writes
           /\ \A j \in DOMAIN io : j = 1 \/ j - 1 \in 1 .. Len(io) - 1
<1>1. Len(io) \in Nat /\ DOMAIN io = 1 .. Len(io) /\ Head(io) = io[1]
      /\ \A j \in DOMAIN io : io[j] \in Writes
    OBVIOUS
<1>2. Len(io) >= 1
    BY <1>1, EmptySeq
<1>3. Tail(io) \in Seq(Writes) /\ Len(Tail(io)) = Len(io) - 1
      /\ \A j \in 1 .. Len(io) - 1 : Tail(io)[j] = io[j + 1]
    BY <1>1, <1>2
<1>4. DOMAIN Tail(io) = 1 .. Len(io) - 1
    BY <1>3
<1> QED BY <1>1, <1>2, <1>3, <1>4

\* What one write does.
LEMMA FlushEffect ==
    ASSUME CrashTypeOK, Queued, Flush
    PROVE  /\ CrashTypeOK' /\ UNCHANGED <<fat, store, fault, power, wreck>> /\ io' = Tail(io)
           /\ op' = IF io' = <<>> THEN "none" ELSE op
           /\ \/ \E c \in Clusters : /\ Head(io) = ClusterWrite(c) /\ dfat' = dfat
                                     /\ disk' = [disk EXCEPT ![c] = store[c]]
              \/ \E k \in Nat : /\ Head(io) = <<"fat", k>> /\ disk' = disk
                                /\ \A c \in Clusters :
                                       dfat'[c] = IF c \div FatBlock = k THEN fat[c] ELSE dfat[c]
<1>1. io # <<>> /\ io \in Seq(Writes)
    BY DEF Queued
<1>2. Len(io) \in Nat /\ Len(io) >= 1 /\ Head(io) = io[1] /\ io[1] \in Writes
      /\ Len(Tail(io)) = Len(io) - 1 /\ Tail(io) \in Seq(Writes)
    BY <1>1, Rest
<1>3. UNCHANGED <<fat, store, ret, copied, fault, power, wreck>> /\ io' = Tail(io)
      /\ op' = IF Len(io) = 1 THEN "none" ELSE op
    BY DEF Flush, vars
<1>4. Tail(io) = <<>> <=> Len(io) = 1
    BY <1>2, EmptySeq
<1>5. CASE \E c \in Clusters : Head(io) = <<"cluster", c>>
  <2>1. PICK c \in Clusters : Head(io) = <<"cluster", c>>
    BY <1>5
  <2>2. disk' = [disk EXCEPT ![c] = store[c]] /\ dfat' = dfat
    BY <2>1 DEF Flush
  <2>3. CrashTypeOK'
    BY <1>3, <2>2 DEF CrashTypeOK, TypeOK
  <2> QED BY <1>3, <1>4, <2>1, <2>2, <2>3 DEF ClusterWrite
<1>6. CASE \E k \in Nat : Head(io) = <<"fat", k>>
  <2>1. PICK k \in Nat : Head(io) = <<"fat", k>>
    BY <1>6
  <2>2. /\ disk' = disk
        /\ dfat' = [c \in Clusters |-> IF c \div FatBlock = k THEN fat[c] ELSE dfat[c]]
    BY <2>1 DEF Flush
  <2>3. CrashTypeOK'
    <3>1. dfat' \in [Clusters -> FatValues]
        BY <2>2 DEF CrashTypeOK, TypeOK
    <3> QED BY <1>3, <2>2, <3>1 DEF CrashTypeOK, TypeOK
  <2> QED BY <1>3, <1>4, <2>1, <2>2, <2>3
<1>7. \/ \E c \in Clusters : Head(io) = <<"cluster", c>>
      \/ \E k \in Nat : Head(io) = <<"fat", k>>
    BY <1>2 DEF Writes
<1> QED BY <1>5, <1>6, <1>7

\* What is not outstanding is on disk, and blocks before the first outstanding
\* one are.
LEMMA FlushQueue ==
    ASSUME CrashTypeOK, Queued, Flush
    PROVE  /\ io' # <<>> => Queued'
           /\ io' = <<>> => disk' = store' /\ dfat' = fat'
           /\ \A k \in Nat : Head(io) = <<"fat", k>> =>
                  \A c \in Clusters : c \div FatBlock < k => dfat[c] = fat[c]
           /\ DOMAIN io = 1 .. Len(io) /\ Len(io) \in Nat /\ Head(io) = io[1] /\ 1 \in DOMAIN io
           /\ DOMAIN io' = 1 .. Len(io) - 1 /\ Len(io') = Len(io) - 1
           /\ \A j \in DOMAIN io' : io'[j] = io[j + 1] /\ j + 1 \in DOMAIN io
           /\ \A j \in DOMAIN io : j = 1 \/ (j - 1 \in DOMAIN io' /\ io'[j - 1] = io[j])
<1>1. io # <<>> /\ io \in Seq(Writes) /\ power = "on"
      /\ (\A i, j \in DOMAIN io :
              i < j /\ io[i][1] = "fat" /\ io[j][1] = "fat" => io[i][2] < io[j][2])
      /\ \A c \in Clusters : /\ Outstanding(ClusterWrite(c)) \/ disk[c] = store[c]
                             /\ Outstanding(<<"fat", c \div FatBlock>>) \/ dfat[c] = fat[c]
    BY DEF Queued
<1>2. UNCHANGED <<fat, store, power>> /\ io' = Tail(io)
    BY FlushEffect
<1>3. /\ Len(io) \in Nat /\ Len(io) >= 1 /\ DOMAIN io = 1 .. Len(io) /\ Head(io) = io[1]
      /\ io' \in Seq(Writes) /\ DOMAIN io' = 1 .. Len(io) - 1 /\ Len(io') = Len(io) - 1
      /\ \A j \in 1 .. Len(io) - 1 : io'[j] = io[j + 1] /\ j + 1 \in DOMAIN io
      /\ \A j \in DOMAIN io : io[j] \in Writes
      /\ \A j \in DOMAIN io : j = 1 \/ j - 1 \in 1 .. Len(io) - 1
    BY <1>1, <1>2, Rest
<1>4. \A j \in DOMAIN io : j = 1 \/ (j - 1 \in DOMAIN io' /\ io'[j - 1] = io[j])
  <2> TAKE j \in DOMAIN io
  <2>1. CASE j # 1
    <3>1. j - 1 \in 1 .. Len(io) - 1 /\ (j - 1) + 1 = j
        BY <1>3, <2>1
    <3> QED BY <1>3, <3>1
  <2> QED BY <2>1
<1>5. \A w : Outstanding(w) => w = Head(io) \/ Outstanding(w)'
    BY <1>3, <1>4 DEF Outstanding
<1>6. \A c \in Clusters : /\ Outstanding(ClusterWrite(c))' \/ disk'[c] = store'[c]
                          /\ Outstanding(<<"fat", c \div FatBlock>>)' \/ dfat'[c] = fat'[c]
  <2> SUFFICES ASSUME NEW c \in Clusters
               PROVE  /\ Outstanding(ClusterWrite(c))' \/ disk'[c] = store[c]
                      /\ Outstanding(<<"fat", c \div FatBlock>>)' \/ dfat'[c] = fat[c]
    BY <1>2
  <2>1. PICK k : k = c \div FatBlock
    OBVIOUS
  <2>2. /\ disk[c] = store[c] \/ Head(io) = ClusterWrite(c) \/ Outstanding(ClusterWrite(c))'
        /\ dfat[c] = fat[c] \/ Head(io) = <<"fat", k>> \/ Outstanding(<<"fat", k>>)'
    BY <1>1, <1>5, <2>1
  <2>3. CASE \E x \in Clusters : /\ Head(io) = ClusterWrite(x) /\ dfat' = dfat
                                 /\ disk' = [disk EXCEPT ![x] = store[x]]
    <3>1. PICK x \in Clusters : /\ Head(io) = ClusterWrite(x) /\ dfat' = dfat
                                /\ disk' = [disk EXCEPT ![x] = store[x]]
        BY <2>3
    <3>2. Head(io) # <<"fat", k>> /\ (Head(io) = ClusterWrite(c) => c = x)
        BY <3>1 DEF ClusterWrite
    <3>3. disk'[c] = disk[c] \/ disk'[c] = store[c]
        BY <3>1 DEF CrashTypeOK
    <3>4. c = x => disk'[c] = store[c]
        BY <3>1 DEF CrashTypeOK
    <3> QED BY <2>1, <2>2, <3>1, <3>2, <3>3, <3>4
  <2>4. CASE \E m \in Nat : /\ Head(io) = <<"fat", m>> /\ disk' = disk
                            /\ \A x \in Clusters :
                                   dfat'[x] = IF x \div FatBlock = m THEN fat[x] ELSE dfat[x]
    <3>1. PICK m \in Nat : /\ Head(io) = <<"fat", m>> /\ disk' = disk
                           /\ dfat'[c] = IF k = m THEN fat[c] ELSE dfat[c]
        BY <2>1, <2>4
    <3>2. Head(io) # ClusterWrite(c) /\ (Head(io) = <<"fat", k>> => k = m)
        BY <3>1 DEF ClusterWrite
    <3> QED BY <2>1, <2>2, <3>1, <3>2
  <2> QED BY <2>3, <2>4, FlushEffect
<1>7. ASSUME io' # <<>> PROVE Queued'
  <2>1. \A i, j \in DOMAIN io' :
            i < j /\ io'[i][1] = "fat" /\ io'[j][1] = "fat" => io'[i][2] < io'[j][2]
    <3> SUFFICES ASSUME NEW i \in DOMAIN io', NEW j \in DOMAIN io', i < j,
                        io'[i][1] = "fat", io'[j][1] = "fat"
                 PROVE  io'[i][2] < io'[j][2]
        OBVIOUS
    <3>1. PICK a \in DOMAIN io : a = i + 1 /\ io'[i] = io[a]
        BY <1>3
    <3>2. PICK b \in DOMAIN io : b = j + 1 /\ io'[j] = io[b]
        BY <1>3
    <3>3. a < b
        <4>1. i \in Int /\ j \in Int
            BY <1>3
        <4> QED BY <3>1, <3>2, <4>1
    <3>4. io[a][1] = "fat" /\ io[b][1] = "fat"
        BY <3>1, <3>2
    <3>5. io[a][2] < io[b][2]
        BY <1>1, <3>3, <3>4
    <3> QED BY <3>1, <3>2, <3>5
  <2> QED BY <1>1, <1>2, <1>3, <1>6, <1>7, <2>1 DEF Queued
<1>8. ASSUME io' = <<>> PROVE disk' = store' /\ dfat' = fat'
  <2>1. \A w : ~Outstanding(w)'
    BY <1>8 DEF Outstanding
  <2>2. \A c \in Clusters : disk'[c] = store'[c] /\ dfat'[c] = fat'[c]
    BY <1>6, <2>1
  <2>3. /\ disk' \in [Clusters -> Contents] /\ store' \in [Clusters -> Contents]
        /\ dfat' \in [Clusters -> FatValues] /\ fat' \in [Clusters -> FatValues]
    BY FlushEffect DEF CrashTypeOK, TypeOK
  <2> QED BY <2>2, <2>3
<1>9. ASSUME NEW k \in Nat, Head(io) = <<"fat", k>>, NEW c \in Clusters, c \div FatBlock < k
      PROVE  dfat[c] = fat[c]
  <2> SUFFICES ASSUME Outstanding(<<"fat", c \div FatBlock>>) PROVE FALSE
    BY <1>1
  <2>1. PICK j \in DOMAIN io : io[j] = <<"fat", c \div FatBlock>>
    BY DEF Outstanding
  <2>2. io[j][1] = "fat" /\ io[j][2] = c \div FatBlock /\ io[1][1] = "fat" /\ io[1][2] = k
    BY <1>3, <1>9, <2>1
  <2>3. c \div FatBlock \in Int
    BY Numbers, BlockNumber
  <2>4. j = 1 \/ 1 < j
    BY <1>3
  <2>5. j = 1 => k = c \div FatBlock
    BY <2>2
  <2>6. ASSUME 1 < j PROVE k < c \div FatBlock
    <3>1. 1 \in DOMAIN io
        BY <1>3
    <3>2. io[1][2] < io[j][2]
        BY <1>1, <2>2, <2>6, <3>1
    <3> QED BY <2>2, <3>2
  <2> QED BY <1>9, <2>3, <2>4, <2>5, <2>6
<1> QED BY <1>3, <1>4, <1>7, <1>8, <1>9

\* A freshly formatted disk.
LEMMA Formatted == fat = InitFat /\ store = InitStore => Image(fat, store, "none")
<1> SUFFICES ASSUME fat = InitFat, store = InitStore PROVE Image(fat, store, "none")
    OBVIOUS
<1>1. SolidIn(fat, store) /\ NothingLostIn(fat, store)
    BY FormattedSound, SolidIs DEF Sound
<1>2. store[0] = SIGNATURE
    BY Numbers DEF InitStore
<1> QED BY <1>1, <1>2, Zenon DEF Image

\* The same in the next state.
LEMMA FormattedNext == (fat = InitFat /\ store = InitStore)' => Image(fat, store, "none")'
BY Formatted, PTL

\* create_fat32's writes.
LEMMA FlushFormatting ==
    ASSUME CrashTypeOK, Formatting, Flush
    PROVE  Formatting' \/ Idle'
<1>1. /\ op = "format" /\ Queued /\ wreck = "none" /\ fat = InitFat /\ store = InitStore
      /\ io[Len(io)] = ClusterWrite(ROOT) /\ power = "on"
      /\ \A i \in DOMAIN io : io[i][1] = "cluster" =>
             i = Len(io) \/ (i = 1 /\ io[i] = ClusterWrite(0))
      /\ Head(io) = ClusterWrite(0) => Blank(dfat, disk)
      /\ Head(io) # ClusterWrite(0) => HalfDone(disk)
    BY DEF Formatting, Queued
<1>2. /\ CrashTypeOK' /\ UNCHANGED <<fat, store, power, wreck>>
      /\ op' = IF io' = <<>> THEN "none" ELSE op
    BY <1>1, FlushEffect
<1>3. CASE io' = <<>>
  <2>1. disk' = store' /\ dfat' = fat'
    BY <1>1, <1>3, FlushQueue
  <2>2. Image(fat, store, "none")
    BY <1>1, Formatted
  <2> QED BY <1>1, <1>2, <1>3, <2>1, <2>2 DEF Idle
<1>4. CASE io' # <<>>
  <2>1. Queued' /\ op' = "format" /\ wreck' = "none" /\ fat' = InitFat /\ store' = InitStore
    BY <1>1, <1>2, <1>4, FlushQueue, SMTT(40)
  <2>2. /\ DOMAIN io = 1 .. Len(io) /\ Len(io) \in Nat /\ Head(io) = io[1] /\ 1 \in DOMAIN io
        /\ DOMAIN io' = 1 .. Len(io) - 1 /\ Len(io') = Len(io) - 1
        /\ \A j \in DOMAIN io' : io'[j] = io[j + 1] /\ j + 1 \in DOMAIN io
    BY <1>1, FlushQueue
  <2>3. io' \in Seq(Writes)
    BY <2>1 DEF Queued
  <2>4. Len(io) > 1
    BY <1>4, <2>2, <2>3, EmptySeq
  <2>5. /\ Len(io') \in DOMAIN io' /\ Len(io') + 1 = Len(io)
        /\ 1 \in DOMAIN io' /\ Head(io') = io'[1] /\ io'[1] = io[2] /\ 2 \in DOMAIN io
    BY <2>2, <2>3, <2>4
  <2>6. io'[Len(io')] = ClusterWrite(ROOT)
    BY <1>1, <2>2, <2>5
  <2>7. \A i \in DOMAIN io' : io'[i][1] = "cluster" => i = Len(io')
    BY <1>1, <2>2
  <2>8. Head(io') # ClusterWrite(0)
    BY <1>1, <2>2, <2>5, Numbers DEF ClusterWrite
  <2>9. HalfDone(disk')
    <3>1. CASE \E k \in Nat : Head(io) = <<"fat", k>> /\ disk' = disk
        BY <1>1, <3>1 DEF ClusterWrite
    <3>2. CASE \E c \in Clusters : /\ Head(io) = ClusterWrite(c)
                                   /\ disk' = [disk EXCEPT ![c] = store[c]]
        <4>1. PICK c \in Clusters : /\ Head(io) = ClusterWrite(c)
                                    /\ disk' = [disk EXCEPT ![c] = store[c]]
            BY <3>2
        <4>2. io[1][1] = "cluster" /\ Len(io) # 1
            BY <2>2, <2>4, <4>1 DEF ClusterWrite
        <4>3. Head(io) = ClusterWrite(0) /\ c = 0
            BY <1>1, <2>2, <4>1, <4>2 DEF ClusterWrite
        <4>4. Blank(dfat, disk) /\ store[0] = SIGNATURE
            BY <1>1, <4>3, Numbers DEF InitStore
        <4> QED BY <4>1, <4>3, <4>4, Numbers DEF HalfDone, Blank, CrashTypeOK
    <3> QED BY <1>1, <3>1, <3>2, FlushEffect
  <2> QED BY <2>1, <2>6, <2>7, <2>8, <2>9 DEF Formatting
<1> QED BY <1>3, <1>4

\* Where contents and tables go before the FAT, they do after a write.
LEMMA FlushFatLast ==
    ASSUME CrashTypeOK, Queued, FatLast, Flush, io' # <<>>
    PROVE  /\ FatLast' /\ \A j \in DOMAIN io' : io'[j][1] = "fat" \/ io'[j][1] = "cluster"
           /\ Head(io)[1] = "fat" => TableOnDisk /\ TableOnDisk'
           /\ Head(io)[1] = "cluster" => ~TableOnDisk
<1>1. /\ DOMAIN io = 1 .. Len(io) /\ Len(io) \in Nat /\ Head(io) = io[1] /\ 1 \in DOMAIN io
      /\ DOMAIN io' = 1 .. Len(io) - 1
      /\ \A j \in DOMAIN io' : io'[j] = io[j + 1] /\ j + 1 \in DOMAIN io
    BY FlushQueue
<1>2. io \in Seq(Writes) /\ io # <<>>
    BY DEF Queued
<1>3. \A j \in DOMAIN io : io[j][1] = "fat" \/ io[j][1] = "cluster"
    BY <1>2 DEF Writes
<1>4. FatLast'
  <2> SUFFICES ASSUME NEW i \in DOMAIN io', NEW j \in DOMAIN io', i < j, io'[i][1] = "fat"
               PROVE  io'[j][1] = "fat"
    BY DEF FatLast
  <2>1. PICK a \in DOMAIN io : a = i + 1 /\ io'[i] = io[a]
    BY <1>1
  <2>2. PICK b \in DOMAIN io : b = j + 1 /\ io'[j] = io[b]
    BY <1>1
  <2>3. a < b
    BY <1>1, <2>1, <2>2
  <2> QED BY <2>1, <2>2, <2>3 DEF FatLast
<1>5. ASSUME Head(io)[1] = "fat" PROVE TableOnDisk /\ TableOnDisk'
  <2>1. \A j \in DOMAIN io : j = 1 \/ 1 < j
    BY <1>1
  <2>2. \A j \in DOMAIN io : io[j][1] = "fat"
    BY <1>1, <1>5, <2>1 DEF FatLast
  <2> QED BY <1>1, <1>2, <2>2 DEF TableOnDisk
<1>6. ASSUME Head(io)[1] = "cluster" PROVE ~TableOnDisk
    BY <1>1, <1>6 DEF TableOnDisk
<1> QED BY <1>1, <1>3, <1>4, <1>5, <1>6

\* Until the table is on disk, no write touches what the disk's FAT gives away.
Aside ==
    /\ ~TableOnDisk /\ dfat' = dfat
    /\ disk'[0] = disk[0] /\ disk'[1] = disk[1] /\ \A x \in AllocIn(dfat) : disk'[x] = disk[x]

\* write's.
LEMMA FlushWriting ==
    ASSUME CrashTypeOK, Writing, Flush
    PROVE  (Writing' /\ (~TableOnDisk' => Aside)) \/ Idle'
<1>1. /\ op = "write" /\ Queued /\ FatLast /\ wreck \in {"none", "leak"} /\ power = "on"
      /\ Image(fat, store, wreck) /\ Torn(dfat, store, FoldersIn(fat, store))
      /\ \A c \in Clusters : dfat[c] # EMPTY => dfat[c] = fat[c]
      /\ \A i \in DOMAIN io : io[i][1] = "cluster" =>
             /\ io[i][2] >= 2
             /\ \/ dfat[io[i][2]] = EMPTY
                \/ disk[io[i][2]] \in Tables /\ i + 1 \in DOMAIN io /\ io[i + 1][1] = "fat"
      /\ ~TableOnDisk => Image(dfat, disk, wreck)
    BY DEF Writing, Queued
<1>2. /\ CrashTypeOK' /\ UNCHANGED <<fat, store, power, wreck>>
      /\ op' = IF io' = <<>> THEN "none" ELSE op
    BY <1>1, FlushEffect
<1>3. CASE io' = <<>>
  <2>1. disk' = store' /\ dfat' = fat'
    BY <1>1, <1>3, FlushQueue
  <2> QED BY <1>1, <1>2, <1>3, <2>1 DEF Idle
<1>4. CASE io' # <<>>
  <2>1. /\ Queued' /\ op' = "write" /\ FatLast' /\ wreck' \in {"none", "leak"}
        /\ Image(fat', store', wreck')
    BY <1>1, <1>2, <1>4, FlushQueue, FlushFatLast
  <2>2. /\ DOMAIN io = 1 .. Len(io) /\ Len(io) \in Nat /\ Head(io) = io[1] /\ 1 \in DOMAIN io
        /\ DOMAIN io' = 1 .. Len(io) - 1
        /\ \A j \in DOMAIN io' : io'[j] = io[j + 1] /\ j + 1 \in DOMAIN io
        /\ \A j \in DOMAIN io : j = 1 \/ (j - 1 \in DOMAIN io' /\ io'[j - 1] = io[j])
    BY <1>1, FlushQueue
  <2>3. CASE \E c \in Clusters : /\ Head(io) = ClusterWrite(c) /\ dfat' = dfat
                                 /\ disk' = [disk EXCEPT ![c] = store[c]]
    <3>1. PICK c \in Clusters : /\ Head(io) = ClusterWrite(c) /\ dfat' = dfat
                                /\ disk' = [disk EXCEPT ![c] = store[c]]
        BY <2>3
    <3>2. io[1][1] = "cluster" /\ io[1][2] = c /\ Head(io)[1] = "cluster"
        BY <2>2, <3>1 DEF ClusterWrite
    <3>3. c >= 2 /\ (dfat[c] = EMPTY \/ (1 + 1 \in DOMAIN io /\ io[1 + 1][1] = "fat"))
        BY <1>1, <2>2, <3>2
    <3>4. Image(dfat, disk, wreck)
        BY <1>1, <1>4, <3>2, FlushFatLast
    <3>5. \A x \in Clusters : x # c => disk'[x] = disk[x]
        BY <3>1 DEF CrashTypeOK
    <3>6. ASSUME NEW i \in DOMAIN io', io'[i][1] = "cluster"
          PROVE  dfat[c] = EMPTY
        <4>1. PICK a \in DOMAIN io : a = i + 1 /\ io'[i] = io[a] /\ io[a][1] = "cluster"
            BY <2>2, <3>6
        <4> SUFFICES ASSUME 2 \in DOMAIN io, io[2][1] = "fat" PROVE FALSE
            BY <3>3
        <4>2. a = 2 \/ 2 < a
            BY <2>2, <4>1
        <4> QED BY <1>1, <4>1, <4>2 DEF FatLast
    <3>7. ASSUME NEW i \in DOMAIN io', io'[i][1] = "cluster"
          PROVE  /\ io'[i][2] >= 2
                 /\ \/ dfat'[io'[i][2]] = EMPTY
                    \/ disk'[io'[i][2]] \in Tables /\ i + 1 \in DOMAIN io' /\ io'[i + 1][1] = "fat"
        <4>1. PICK a \in DOMAIN io : a = i + 1 /\ io'[i] = io[a] /\ io[a][1] = "cluster"
            BY <2>2, <3>7
        <4>2. PICK w : w = io[a][2]
            OBVIOUS
        <4>3. /\ w >= 2
              /\ \/ dfat[w] = EMPTY
                 \/ disk[w] \in Tables /\ a + 1 \in DOMAIN io /\ io[a + 1][1] = "fat"
            BY <1>1, <4>1, <4>2
        <4>4. w \in Clusters
            <5>1. io[a] \in Writes
                BY <1>1 DEF Queued
            <5> QED BY <4>1, <4>2, <5>1 DEF Writes
        <4>5. CASE w = c
            BY <3>1, <3>6, <3>7, <4>1, <4>2, <4>3, <4>5
        <4>6. CASE w # c /\ dfat[w] # EMPTY
            <5>1. a + 1 \in DOMAIN io /\ a # 0
                BY <2>2, <4>3, <4>6
            <5>2. i + 1 \in DOMAIN io' /\ io'[i + 1] = io[a + 1]
                BY <2>2, <4>1, <5>1
            <5> QED BY <3>5, <4>1, <4>2, <4>3, <4>4, <4>6, <5>2
        <4> QED BY <3>1, <4>1, <4>2, <4>3, <4>5, <4>6
    <3>8. ASSUME ~TableOnDisk' PROVE Image(dfat', disk', wreck') /\ Aside
        <4>1. PICK i \in DOMAIN io' : io'[i][1] = "cluster"
            BY <1>1, <1>4, <3>8, FlushFatLast DEF TableOnDisk
        <4>2. dfat[c] = EMPTY
            BY <3>6, <4>1
        <4>3. \A x \in AllocIn(dfat) : disk'[x] = disk[x]
            BY <3>5, <4>2 DEF AllocIn
        <4>4. disk'[0] = disk[0] /\ disk'[1] = disk[1]
            BY <3>3, <3>5, Numbers
        <4>5. SolidIn(dfat, disk) /\ disk[0] = SIGNATURE /\ (wreck = "none" => NothingLostIn(dfat, disk))
            BY <1>1, <3>4, Zenon DEF Image
        <4>6. SolidIn(dfat, disk') /\ (wreck = "none" => NothingLostIn(dfat, disk'))
            BY <4>3, <4>5, OnlyAllocated
        <4>7. Aside
            BY <1>1, <1>4, <3>1, <3>2, <4>3, <4>4, FlushFatLast DEF Aside
        <4> QED BY <1>1, <1>2, <3>1, <4>4, <4>5, <4>6, <4>7 DEF Image
    <3>9. Torn(dfat', store', FoldersIn(fat', store')) /\ \A x \in Clusters : dfat'[x] # EMPTY => dfat'[x] = fat'[x]
        BY <1>1, <1>2, <3>1
    <3> QED BY <2>1, <3>7, <3>8, <3>9 DEF Writing
  <2>4. CASE \E k \in Nat : /\ Head(io) = <<"fat", k>> /\ disk' = disk
                            /\ \A x \in Clusters :
                                   dfat'[x] = IF x \div FatBlock = k THEN fat[x] ELSE dfat[x]
    <3>1. PICK k \in Nat : /\ Head(io) = <<"fat", k>> /\ disk' = disk
                           /\ \A x \in Clusters :
                                   dfat'[x] = IF x \div FatBlock = k THEN fat[x] ELSE dfat[x]
        BY <2>4
    <3>2. TableOnDisk' /\ \A j \in DOMAIN io' : io'[j][1] # "cluster"
        BY <1>1, <1>4, <3>1, FlushFatLast DEF TableOnDisk
    <3>3. \A x \in Clusters : /\ dfat'[x] # EMPTY => dfat'[x] = fat[x]
                              /\ dfat[x] # EMPTY => dfat'[x] = dfat[x]
        BY <1>1, <3>1
    <3>4. NoCrossIn(dfat')
        <4>1. NoCrossIn(fat)
            BY <1>1, Zenon DEF Image, SolidIn
        <4> QED BY <3>3, <4>1 DEF NoCrossIn, AllocIn
    <3>5. Torn(dfat', store, FoldersIn(fat, store))
        BY <1>1, <3>3, <3>4, TornLinked
    <3> QED BY <1>2, <2>1, <3>2, <3>3, <3>5 DEF Writing
  <2> QED BY <1>1, <2>3, <2>4, FlushEffect
<1> QED BY <1>3, <1>4

\* delete's.
LEMMA FlushDeleting ==
    ASSUME CrashTypeOK, Deleting, Flush
    PROVE  (Deleting' /\ TableOnDisk') \/ Idle'
<1>1. /\ op = "delete" /\ Queued /\ FatLast /\ wreck \in {"none", "leak"} /\ power = "on"
      /\ Image(fat, store, wreck) /\ SolidIn(dfat, store)
      /\ \A c \in Clusters : fat[c] # EMPTY => dfat[c] = fat[c]
      /\ \A c \in FoldersIn(dfat, store) : fat[c] = EMPTY => UsedIn(store, c) = {}
      /\ \A i \in DOMAIN io : io[i][1] = "cluster" =>
             /\ io[i][2] >= 2 /\ disk[io[i][2]] \in Tables
             /\ \A j \in DOMAIN io : io[j][1] = "cluster" => j = i
    BY DEF Deleting, Queued
<1>2. /\ CrashTypeOK' /\ UNCHANGED <<fat, store, power, wreck>>
      /\ op' = IF io' = <<>> THEN "none" ELSE op
    BY <1>1, FlushEffect
<1>3. CASE io' = <<>>
  <2>1. disk' = store' /\ dfat' = fat'
    BY <1>1, <1>3, FlushQueue
  <2> QED BY <1>1, <1>2, <1>3, <2>1 DEF Idle
<1>4. CASE io' # <<>>
  <2>1. /\ Queued' /\ op' = "delete" /\ FatLast' /\ wreck' \in {"none", "leak"}
        /\ Image(fat', store', wreck')
    BY <1>1, <1>2, <1>4, FlushQueue, FlushFatLast
  <2>2. /\ DOMAIN io = 1 .. Len(io) /\ Len(io) \in Nat /\ Head(io) = io[1] /\ 1 \in DOMAIN io
        /\ DOMAIN io' = 1 .. Len(io) - 1
        /\ \A j \in DOMAIN io' : io'[j] = io[j + 1] /\ j + 1 \in DOMAIN io
    BY <1>1, FlushQueue
  <2>3. CASE \E c \in Clusters : /\ Head(io) = ClusterWrite(c) /\ dfat' = dfat
                                 /\ disk' = [disk EXCEPT ![c] = store[c]]
    <3>1. dfat' = dfat /\ io[1][1] = "cluster"
        BY <2>2, <2>3 DEF ClusterWrite
    <3>2. ASSUME NEW j \in DOMAIN io', io'[j][1] = "cluster" PROVE FALSE
        <4>1. PICK a \in DOMAIN io : a = j + 1 /\ io'[j] = io[a]
            BY <2>2
        <4>2. a = 1
            BY <1>1, <2>2, <3>1, <3>2, <4>1
        <4> QED BY <2>2, <4>1, <4>2
    <3>3. TableOnDisk'
        BY <1>1, <1>4, <3>2, FlushFatLast DEF TableOnDisk
    <3> QED BY <1>1, <1>2, <2>1, <3>1, <3>2, <3>3 DEF Deleting
  <2>4. CASE \E k \in Nat : /\ Head(io) = <<"fat", k>> /\ disk' = disk
                            /\ \A x \in Clusters :
                                   dfat'[x] = IF x \div FatBlock = k THEN fat[x] ELSE dfat[x]
    <3>1. PICK k \in Nat : /\ Head(io) = <<"fat", k>> /\ disk' = disk
                           /\ \A x \in Clusters :
                                   dfat'[x] = IF x \div FatBlock = k THEN fat[x] ELSE dfat[x]
        BY <2>4
    <3>2. TableOnDisk' /\ \A j \in DOMAIN io' : io'[j][1] # "cluster"
        BY <1>1, <1>4, <3>1, FlushFatLast DEF TableOnDisk
    <3>3. \A x \in Clusters : /\ fat[x] # EMPTY => dfat'[x] = fat[x]
                              /\ fat[x] = EMPTY /\ dfat'[x] # EMPTY => dfat'[x] = dfat[x]
        BY <1>1, <3>1
    <3>4. \A c \in Clusters : c \div FatBlock < k => dfat[c] = fat[c]
        BY <1>1, <3>1, FlushQueue
    <3>5. SolidIn(dfat', store)
        <4>1. /\ fat \in [Clusters -> FatValues] /\ dfat \in [Clusters -> FatValues]
              /\ dfat' \in [Clusters -> FatValues]
            BY <1>2 DEF CrashTypeOK, TypeOK
        <4>2. SolidIn(fat, store)
            BY <1>1, Zenon DEF Image
        <4> QED BY <1>1, <3>1, <3>4, <4>1, <4>2, FreedInOrder
    <3>6. \A c \in FoldersIn(dfat', store) : fat[c] = EMPTY => c \in FoldersIn(dfat, store)
        BY <3>3 DEF FoldersIn, AllocIn
    <3> QED BY <1>1, <1>2, <2>1, <3>2, <3>3, <3>5, <3>6 DEF Deleting
  <2> QED BY <1>1, <2>3, <2>4, FlushEffect
<1> QED BY <1>3, <1>4

-----------------------------------------------------------------------------
(* Power fails, and comes back.                                            *)

\* A disk with a signature is no blank one.
LEMMA Signed ==
    ASSUME Off
    PROVE  /\ disk[0] = SIGNATURE => Image(dfat, disk, wreck)
           /\ disk[0] # SIGNATURE => wreck = "none" /\ Blank(dfat, disk)
<1>1. Blank(dfat, disk) => disk[0] # SIGNATURE
    BY CrashAssumption, Numbers DEF Blank
<1> QED BY <1>1 DEF Off, OnDisk, Image

\* Once only FAT blocks are outstanding, the disk's clusters are the driver's.
LEMMA TableThere ==
    ASSUME CrashTypeOK, Writing \/ Deleting, TableOnDisk
    PROVE  disk = store /\ store[0] = SIGNATURE /\ SolidIn(fat, store)
<1>1. Queued /\ Image(fat, store, wreck) /\ wreck \in {"none", "leak"}
    BY DEF Writing, Deleting
<1>2. \A c \in Clusters : ~Outstanding(ClusterWrite(c))
    BY DEF Outstanding, TableOnDisk, ClusterWrite
<1>3. \A c \in Clusters : disk[c] = store[c]
    BY <1>1, <1>2 DEF Queued
<1>4. disk = store
  <2>1. disk \in [Clusters -> Contents] /\ store \in [Clusters -> Contents]
    BY DEF CrashTypeOK, TypeOK
  <2> QED BY ONLY <1>3, <2>1
<1> QED BY <1>1, <1>4 DEF Image

\* A power loss leaves what the phase of the operation says.
LEMMA CrashOff ==
    ASSUME CrashTypeOK, Idle \/ Formatting \/ Writing \/ Deleting, Crash
    PROVE  Off'
<1>1. /\ power' = "off" /\ io' = <<>> /\ op' = "none" /\ store' = disk /\ wreck' = Wreck
      /\ disk' = disk /\ dfat' = dfat
    BY DEF Crash
<1> SUFFICES (Wreck = "none" /\ Blank(dfat, disk)) \/ Image(dfat, disk, Wreck)
    BY <1>1 DEF Off, OnDisk
<1>2. CASE Idle
    BY <1>2, Zenon DEF Idle, Wreck
<1>3. CASE Formatting
  <2>1. CASE Head(io) = ClusterWrite(0)
    <3>1. Wreck = wreck
        BY <1>3, <2>1, Zenon DEF Formatting, Wreck
    <3> QED BY <1>3, <2>1, <3>1 DEF Formatting
  <2>2. CASE Head(io) # ClusterWrite(0)
    <3>1. Wreck = "half formatted"
        BY <1>3, <2>2, Zenon DEF Formatting, Wreck
    <3>2. HalfDone(disk)
        BY <1>3, <2>2 DEF Formatting
    <3> QED BY <3>1, <3>2 DEF Image, HalfDone
  <2> QED BY <2>1, <2>2
<1>5. CASE Writing
  <2>1. CASE TableOnDisk
    <3>1. Wreck = "torn"
        BY <1>5, <2>1, Zenon DEF Writing, Wreck
    <3>2. disk = store /\ store[0] = SIGNATURE
        BY <1>5, <2>1, TableThere
    <3>3. Torn(dfat, store, FoldersIn(fat, store)) /\ \A c \in Clusters : dfat[c] # EMPTY => dfat[c] = fat[c]
        BY <1>5 DEF Writing
    <3>4. FoldersIn(dfat, store) \in SUBSET FoldersIn(fat, store)
        BY <3>3 DEF FoldersIn, AllocIn
    <3>5. Torn(dfat, store, FoldersIn(dfat, store))
        BY <3>3, <3>4, TornSmaller
    <3> QED BY <3>1, <3>2, <3>5 DEF Image
  <2>2. CASE ~TableOnDisk
    <3>1. Wreck = wreck
        BY <1>5, <2>2, Zenon DEF Writing, Wreck
    <3> QED BY <1>5, <2>2, <3>1 DEF Writing
  <2> QED BY <2>1, <2>2
<1>6. CASE Deleting
  <2>1. CASE TableOnDisk
    <3>1. Wreck = "leak"
        BY <1>6, <2>1, Zenon DEF Deleting, Wreck
    <3>2. disk = store /\ store[0] = SIGNATURE /\ SolidIn(dfat, store)
        BY <1>6, <2>1, TableThere DEF Deleting
    <3> QED BY <3>1, <3>2 DEF Image
  <2>2. CASE ~TableOnDisk
    <3>1. Wreck = wreck
        BY <1>6, <2>2, Zenon DEF Deleting, Wreck
    <3> QED BY <1>6, <2>2, <3>1 DEF Deleting
  <2> QED BY <2>1, <2>2
<1> QED BY <1>2, <1>3, <1>5, <1>6

\* A mount reads back what the disk holds.
LEMMA BootMountIdle ==
    ASSUME Off, BootMount
    PROVE  Idle'
BY Signed DEF Off, BootMount, IsEmptyStorage, Idle

\* The FAT's blocks, in order.
LEMMA FatBlocks ==
    /\ FatWrites \in Seq(Writes) /\ Len(FatWrites) \in Nat /\ Len(FatWrites) >= 1
    /\ \A i \in 1 .. Len(FatWrites) : FatWrites[i] = <<"fat", i - 1>>
    /\ \A c \in Clusters : \E i \in 1 .. Len(FatWrites) : FatWrites[i] = <<"fat", c \div FatBlock>>
<1>1. PICK m \in Nat : m = (ClusterMapSize - 1) \div FatBlock
    BY Numbers, BlockNumber
<1>2. FatWrites = [i \in 1 .. m + 1 |-> <<"fat", i - 1>>]
    BY <1>1 DEF FatWrites
<1>3. \A i \in 1 .. m + 1 : <<"fat", i - 1>> \in Writes
    BY DEF Writes
<1>4. FatWrites \in Seq(Writes) /\ Len(FatWrites) = m + 1
    BY <1>2, <1>3
<1>5. ASSUME NEW c \in Clusters
      PROVE  \E i \in 1 .. m + 1 : FatWrites[i] = <<"fat", c \div FatBlock>>
  <2>1. c \in Nat /\ c <= ClusterMapSize - 1
    BY Numbers DEF Clusters
  <2>2. c \div FatBlock \in Nat /\ c \div FatBlock <= m
    BY <1>1, <2>1, Numbers, BlockNumber
  <2>3. PICK i \in 1 .. m + 1 : i - 1 = c \div FatBlock
    BY <2>2
  <2> QED BY <1>2, <2>3
<1>6. \A i \in 1 .. m + 1 : FatWrites[i] = <<"fat", i - 1>>
    BY <1>2
<1> QED BY <1>4, <1>5, <1>6

\* The queue q makes the cluster writes of P and then writes the FAT.
FatAfter(P, q) ==
    /\ q \in Seq(Writes) /\ q # <<>> /\ Len(P) \in Nat
    /\ Len(q) = Len(P) + Len(FatWrites) /\ DOMAIN q = 1 .. Len(q)
    /\ \A i \in DOMAIN q : i <= Len(P) => i \in DOMAIN P /\ q[i] = P[i] /\ q[i][1] = "cluster"
    /\ \A i \in DOMAIN P : i \in DOMAIN q /\ q[i] = P[i]
    /\ \A i \in DOMAIN q : i > Len(P) => q[i] = <<"fat", i - Len(P) - 1>>
    /\ \A c \in Clusters : \E i \in DOMAIN q : q[i] = <<"fat", c \div FatBlock>>

\* Appending the blocks of the FAT to other writes.
LEMMA ThenFat ==
    ASSUME NEW P \in Seq({"cluster"} \X Clusters)
    PROVE  FatAfter(P, P \o FatWrites)
<1>0. PICK q : q = P \o FatWrites
    OBVIOUS
<1>1. P \in Seq(Writes) /\ Len(P) \in Nat /\ DOMAIN P = 1 .. Len(P)
  <2>1. ({"cluster"} \X Clusters) \subseteq Writes
    BY DEF Writes
  <2> QED BY <2>1
<1>2. /\ FatWrites \in Seq(Writes) /\ Len(FatWrites) \in Nat /\ Len(FatWrites) >= 1
      /\ \A i \in 1 .. Len(FatWrites) : FatWrites[i] = <<"fat", i - 1>>
    BY FatBlocks
<1>3. /\ q \in Seq(Writes) /\ Len(q) = Len(P) + Len(FatWrites) /\ DOMAIN q = 1 .. Len(q)
      /\ \A i \in 1 .. Len(q) : q[i] = IF i <= Len(P) THEN P[i] ELSE FatWrites[i - Len(P)]
    BY <1>0, <1>1, <1>2, ConcatProperties
<1>4. q # <<>>
    BY <1>1, <1>2, <1>3, EmptySeq
<1>5. \A i \in DOMAIN q : i <= Len(P) => i \in DOMAIN P /\ q[i] = P[i] /\ q[i][1] = "cluster"
  <2>1. \A i \in DOMAIN P : P[i][1] = "cluster"
    OBVIOUS
  <2> QED BY <1>1, <1>3, <2>1
<1>6. \A i \in DOMAIN P : i \in DOMAIN q /\ q[i] = P[i]
    BY <1>1, <1>2, <1>3
<1>7. \A i \in DOMAIN q : i > Len(P) => q[i] = <<"fat", i - Len(P) - 1>>
    BY <1>1, <1>2, <1>3
<1>8. ASSUME NEW c \in Clusters PROVE \E i \in DOMAIN q : q[i] = <<"fat", c \div FatBlock>>
  <2>1. PICK j \in 1 .. Len(FatWrites) : FatWrites[j] = <<"fat", c \div FatBlock>>
    BY FatBlocks
  <2>2. PICK i \in DOMAIN q : i = j + Len(P)
    BY <1>1, <1>2, <1>3
  <2>3. i \in Int /\ ~(i <= Len(P)) /\ i - Len(P) = j
    BY <1>1, <2>2
  <2>4. q[i] = FatWrites[i - Len(P)]
    BY <1>3, <2>3
  <2> QED BY <2>1, <2>3, <2>4
<1> QED BY <1>0, <1>1, <1>3, <1>4, <1>5, <1>6, <1>7, <1>8 DEF FatAfter

\* A blank disk is formatted.
LEMMA BootFormatting ==
    ASSUME CrashTypeOK, Off, BootFormat
    PROVE  Formatting'
<1>1. wreck = "none" /\ Blank(dfat, disk)
    BY Signed DEF BootFormat, IsEmptyStorage
<1>2. /\ fat' = InitFat /\ op' = "format" /\ power' = "on" /\ wreck' = "none"
      /\ disk' = disk /\ dfat' = dfat
      /\ store' = [disk EXCEPT ![0] = SIGNATURE, ![ROOT] = RootTable]
      /\ io' = (<<ClusterWrite(0)>> \o FatWrites) \o <<ClusterWrite(ROOT)>>
    BY <1>1 DEF BootFormat
<1>3. store' = InitStore
  <2>1. disk \in [Clusters -> Contents] /\ \A c \in Clusters : disk[c] = ZeroTable
    BY <1>1 DEF CrashTypeOK, Blank
  <2>2. DOMAIN store' = Clusters /\ DOMAIN InitStore = Clusters
    BY <1>2, <2>1 DEF InitStore
  <2>3. \A c \in Clusters : store'[c] = InitStore[c]
    BY <1>2, <2>1, Numbers DEF InitStore, RootTable
  <2> QED BY <1>2, <2>1, <2>2, <2>3 DEF InitStore
<1>4. PICK P \in Seq({"cluster"} \X Clusters) : P = <<ClusterWrite(0)>>
  <2>1. PICK w \in {"cluster"} \X Clusters : w = ClusterWrite(0)
    BY Numbers DEF ClusterWrite
  <2>2. <<w>> \in Seq({"cluster"} \X Clusters)
    OBVIOUS
  <2> QED BY <2>1, <2>2
<1>5. PICK q : q = P \o FatWrites
    OBVIOUS
<1>6. /\ q \in Seq(Writes) /\ Len(q) = 1 + Len(FatWrites) /\ DOMAIN q = 1 .. Len(q)
      /\ q[1] = ClusterWrite(0) /\ Len(FatWrites) \in Nat /\ Len(FatWrites) >= 1
      /\ \A i \in DOMAIN q : i > 1 => q[i] = <<"fat", i - 2>>
      /\ \A c \in Clusters : \E i \in DOMAIN q : q[i] = <<"fat", c \div FatBlock>>
  <2>1. Len(P) = 1 /\ P[1] = ClusterWrite(0) /\ 1 \in DOMAIN P
    BY <1>4
  <2>2. /\ q \in Seq(Writes) /\ q # <<>> /\ Len(P) \in Nat
        /\ Len(q) = Len(P) + Len(FatWrites) /\ DOMAIN q = 1 .. Len(q)
        /\ \A i \in DOMAIN q : i <= Len(P) => i \in DOMAIN P /\ q[i] = P[i] /\ q[i][1] = "cluster"
        /\ \A i \in DOMAIN P : i \in DOMAIN q /\ q[i] = P[i]
        /\ \A i \in DOMAIN q : i > Len(P) => q[i] = <<"fat", i - Len(P) - 1>>
        /\ \A c \in Clusters : \E i \in DOMAIN q : q[i] = <<"fat", c \div FatBlock>>
    BY <1>5, ThenFat DEF FatAfter
  <2>3. Len(FatWrites) \in Nat /\ Len(FatWrites) >= 1
    BY FatBlocks
  <2>4. ASSUME NEW i \in DOMAIN q, i > 1 PROVE q[i] = <<"fat", i - 2>>
    <3>1. i \in Int /\ i - Len(P) - 1 = i - 2 /\ i > Len(P)
        BY <2>1, <2>2, <2>3, <2>4
    <3>2. q[i] = <<"fat", i - Len(P) - 1>>
        BY <2>2, <3>1
    <3> QED BY <3>1, <3>2
  <2> QED BY <2>1, <2>2, <2>3, <2>4
<1>7. PICK n \in Nat : n = Len(q) + 1
    BY <1>6
<1>8. /\ io' \in Seq(Writes) /\ Len(io') = n /\ DOMAIN io' = 1 .. n /\ n >= 3
      /\ io'[n] = ClusterWrite(ROOT) /\ \A i \in 1 .. n - 1 : i \in DOMAIN q /\ io'[i] = q[i]
  <2>1. ClusterWrite(ROOT) \in Writes
    BY Numbers DEF ClusterWrite, Writes
  <2>2. io' = q \o <<ClusterWrite(ROOT)>>
    BY <1>2, <1>4, <1>5
  <2> QED BY <1>6, <1>7, <2>1, <2>2
<1>9. io' # <<>> /\ Head(io') = ClusterWrite(0)
    BY <1>6, <1>8
<1>10. \A i \in DOMAIN io' : io'[i][1] = "cluster" => i = n \/ (i = 1 /\ io'[i] = ClusterWrite(0))
    BY <1>6, <1>7, <1>8
<1>11. \A i, j \in DOMAIN io' :
           i < j /\ io'[i][1] = "fat" /\ io'[j][1] = "fat" => io'[i][2] < io'[j][2]
  <2> SUFFICES ASSUME NEW i \in DOMAIN io', NEW j \in DOMAIN io', i < j,
                      io'[i][1] = "fat", io'[j][1] = "fat"
               PROVE  io'[i][2] < io'[j][2]
    OBVIOUS
  <2>1. ASSUME NEW k \in DOMAIN io', io'[k][1] = "fat" PROVE io'[k] = <<"fat", k - 2>>
    <3>1. k # n /\ k # 1
        BY <1>6, <1>8, <2>1 DEF ClusterWrite
    <3>2. k \in 1 .. n - 1 /\ k > 1
        BY <1>8, <3>1
    <3> QED BY <1>6, <1>8, <3>2
  <2>2. io'[i][2] = i - 2 /\ io'[j][2] = j - 2 /\ i \in Int /\ j \in Int
    BY <1>8, <2>1
  <2> QED BY <2>2
<1>12. ASSUME NEW c \in Clusters
       PROVE  /\ Outstanding(ClusterWrite(c))' \/ disk'[c] = store'[c]
              /\ Outstanding(<<"fat", c \div FatBlock>>)'
  <2>1. PICK i \in DOMAIN q : q[i] = <<"fat", c \div FatBlock>>
    BY <1>6
  <2>2. i \in DOMAIN io' /\ io'[i] = <<"fat", c \div FatBlock>>
    BY <1>6, <1>7, <1>8, <2>1
  <2>3. Outstanding(<<"fat", c \div FatBlock>>)'
    BY <2>2 DEF Outstanding
  <2>4. Outstanding(ClusterWrite(0))' /\ Outstanding(ClusterWrite(ROOT))'
    <3>1. io'[1] = ClusterWrite(0) /\ 1 \in DOMAIN io' /\ n \in DOMAIN io'
        BY <1>6, <1>7, <1>8
    <3> QED BY <1>8, <3>1 DEF Outstanding
  <2>5. c # 0 /\ c # ROOT => disk'[c] = store'[c]
    BY <1>1, <1>2, <1>3 DEF InitStore, Blank
  <2> QED BY <2>3, <2>4, <2>5
<1>13. Queued'
    BY <1>2, <1>8, <1>9, <1>11, <1>12 DEF Queued
<1> QED BY <1>1, <1>2, <1>3, <1>8, <1>9, <1>10, <1>13 DEF Formatting

-----------------------------------------------------------------------------
(* The calls.                                                              *)

\* A disk whose formatting was cut short has no folder to write to.
LEMMA NoFolderYet ==
    ASSUME HalfDone(store), NEW d \in Parents
    PROVE  ~IsFolder(d) /\ d = ROOT
<1>1. \A c \in Clusters \ {0} : store[c] = ZeroTable
    BY DEF HalfDone
<1>2. \A i \in Slots : ZeroTable[i].used = FALSE /\ ZeroTable[i].attr = FALSE
    BY DEF ZeroTable, ZeroEntry
<1>3. \A c \in Folders : c # 0 /\ c \in Clusters
    BY DEF Folders, Allocated
<1>4. \A c \in Folders : Used(c) = {}
    BY <1>1, <1>2, <1>3 DEF Used
<1>5. d = ROOT
    BY <1>4 DEF Parents
<1>6. store[ROOT] = ZeroTable
    BY <1>1, Numbers
<1>7. ~ZeroTable[0].attr
    BY <1>2, Numbers
<1> QED BY <1>5, <1>6, <1>7, Zenon DEF IsFolder

\* A queue of clusters and then the FAT, and the state it leads to.
LEMMA QueueThenFat ==
    ASSUME NEW P \in Seq({"cluster"} \X Clusters), io' = P \o FatWrites, power' = "on",
           \A c \in Clusters : (\E i \in DOMAIN P : P[i] = ClusterWrite(c)) \/ disk'[c] = store'[c]
    PROVE  Queued' /\ FatLast'
<1>1. /\ io' \in Seq(Writes) /\ io' # <<>> /\ Len(P) \in Nat /\ DOMAIN io' = 1 .. Len(io')
      /\ Len(io') \in Nat
      /\ \A i \in DOMAIN io' : i <= Len(P) => io'[i][1] = "cluster"
      /\ \A i \in DOMAIN P : i \in DOMAIN io' /\ io'[i] = P[i]
      /\ \A i \in DOMAIN io' : i > Len(P) => io'[i] = <<"fat", i - Len(P) - 1>>
      /\ \A c \in Clusters : \E i \in DOMAIN io' : io'[i] = <<"fat", c \div FatBlock>>
  <2>1. PICK q : q = P \o FatWrites
    OBVIOUS
  <2>2. /\ q \in Seq(Writes) /\ q # <<>> /\ Len(P) \in Nat
        /\ Len(q) = Len(P) + Len(FatWrites) /\ DOMAIN q = 1 .. Len(q)
        /\ \A i \in DOMAIN q : i <= Len(P) => i \in DOMAIN P /\ q[i] = P[i] /\ q[i][1] = "cluster"
        /\ \A i \in DOMAIN P : i \in DOMAIN q /\ q[i] = P[i]
        /\ \A i \in DOMAIN q : i > Len(P) => q[i] = <<"fat", i - Len(P) - 1>>
        /\ \A c \in Clusters : \E i \in DOMAIN q : q[i] = <<"fat", c \div FatBlock>>
    BY <2>1, ThenFat DEF FatAfter
  <2>3. Len(q) \in Nat /\ io' = q
    BY <2>1, <2>2
  <2> QED BY <2>2, <2>3
<1>2. ASSUME NEW i \in DOMAIN io', io'[i][1] = "fat"
      PROVE  i > Len(P) /\ io'[i][2] = i - Len(P) - 1 /\ i \in Int
  <2>1. i \in Int /\ i > Len(P)
    BY <1>1, <1>2
  <2> QED BY <1>1, <2>1
<1>3. ASSUME NEW i \in DOMAIN io', NEW j \in DOMAIN io', i < j, io'[i][1] = "fat"
      PROVE  io'[j][1] = "fat" /\ io'[i][2] < io'[j][2]
  <2>1. i > Len(P) /\ io'[i][2] = i - Len(P) - 1 /\ i \in Int /\ j \in Int
    BY <1>1, <1>2, <1>3
  <2>2. j > Len(P)
    BY <1>1, <1>3, <2>1
  <2>3. io'[j] = <<"fat", j - Len(P) - 1>>
    BY <1>1, <2>2
  <2> QED BY <1>1, <1>3, <2>1, <2>3
<1>4. FatLast'
    BY <1>3 DEF FatLast
<1>5. \A c \in Clusters : /\ Outstanding(ClusterWrite(c))' \/ disk'[c] = store'[c]
                          /\ Outstanding(<<"fat", c \div FatBlock>>)'
    BY <1>1 DEF Outstanding
<1>6. Queued'
    BY <1>1, <1>3, <1>5 DEF Queued
<1> QED BY <1>4, <1>6

\* A write that succeeds begins: the clusters A were free, the parent's table
\* gets one entry.
LEMMA WriteStarts ==
    ASSUME Idle, wreck \in {"none", "leak"},
           NEW d \in Clusters, d >= 2, store[d] \in Tables, fat[d] # EMPTY, NEW s \in Slots,
           NEW A \in SUBSET Clusters, \A a \in A : a >= 2 /\ fat[a] = EMPTY,
           \A c \in Clusters \ A : fat'[c] = fat[c],
           \A c \in Clusters \ (A \cup {d}) : store'[c] = store[c],
           \A i \in Slots \ {s} : store'[d][i] = store[d][i],
           \A a \in A : store'[a] \in Tables => UsedIn(store', a) = {},
           SolidIn(fat', store'), NothingLostIn(fat, store) => NothingLostIn(fat', store'),
           NEW P \in Seq({"cluster"} \X Clusters), Len(P) >= 1, P[Len(P)] = ClusterWrite(d),
           \A i \in DOMAIN P : i = Len(P) \/ P[i][2] \in A,
           \A a \in A : \E i \in DOMAIN P : P[i] = ClusterWrite(a),
           Submit("write", P \o FatWrites)
    PROVE  Writing'
<1>1. /\ io' = P \o FatWrites /\ op' = "write" /\ disk' = disk /\ dfat' = dfat
      /\ power' = power /\ wreck' = wreck
    BY DEF Submit
<1>2. power = "on" /\ fat = dfat /\ store = disk /\ Image(fat, store, wreck)
    BY DEF Idle
<1>3. SolidIn(fat, store) /\ store[0] = SIGNATURE /\ (wreck = "none" => NothingLostIn(fat, store))
    BY <1>2, Zenon DEF Image
<1>4. Len(P) \in Nat /\ DOMAIN P = 1 .. Len(P) /\ Len(P) \in DOMAIN P
    OBVIOUS
<1>5. Queued' /\ FatLast'
  <2>1. \A c \in Clusters : (\E i \in DOMAIN P : P[i] = ClusterWrite(c)) \/ disk'[c] = store'[c]
    BY <1>1, <1>2, <1>4
  <2> QED BY <1>1, <1>2, <2>1, QueueThenFat
<1>6. Image(fat', store', wreck')
  <2>1. store'[0] = SIGNATURE
    BY <1>3, Numbers
  <2> QED BY <1>1, <1>3, <2>1 DEF Image
<1>7. \A c \in Clusters : dfat'[c] # EMPTY => dfat'[c] = fat'[c]
    BY <1>1, <1>2
<1>8. ASSUME NEW i \in DOMAIN io', io'[i][1] = "cluster"
      PROVE  /\ io'[i][2] >= 2
             /\ \/ dfat'[io'[i][2]] = EMPTY
                \/ disk'[io'[i][2]] \in Tables /\ i + 1 \in DOMAIN io' /\ io'[i + 1][1] = "fat"
  <2>1. FatAfter(P, io')
    BY <1>1, ThenFat
  <2>2. i <= Len(P) /\ i \in DOMAIN P /\ io'[i] = P[i]
    <3>1. i \in Int
        BY <2>1 DEF FatAfter
    <3>2. i <= Len(P)
        BY <1>4, <1>8, <2>1, <3>1 DEF FatAfter
    <3> QED BY <2>1, <3>2 DEF FatAfter
  <2>3. CASE i # Len(P)
    BY <1>1, <1>2, <2>2, <2>3
  <2>4. CASE i = Len(P)
    <3>1. io'[i][2] = d /\ disk'[d] \in Tables
        BY <1>1, <1>2, <2>2, <2>4 DEF ClusterWrite
    <3>2. i + 1 \in DOMAIN io' /\ i + 1 > Len(P)
        BY <1>4, <2>1, <2>4, FatBlocks DEF FatAfter
    <3>3. io'[i + 1][1] = "fat"
        BY <2>1, <3>2 DEF FatAfter
    <3> QED BY <3>1, <3>2, <3>3
  <2> QED BY <2>3, <2>4
<1>9. Image(dfat', disk', wreck')
    BY <1>1, <1>2
<1>10. Torn(fat, store', FoldersIn(fat', store'))
  <2>1. ReservedIn(fat) /\ NoCrossIn(fat) /\ TerminateIn(fat) /\ EntriesIn(fat, store)
    BY <1>3 DEF SolidIn
  <2>2. \A y \in AllocIn(fat) : fat[y] # EMPTY /\ (fat[y] \in Clusters => fat[y] \in AllocIn(fat))
    BY <2>1, Numbers DEF TerminateIn, AllocIn
  <2>3. ASSUME NEW c \in FoldersIn(fat', store'), NEW i \in UsedIn(store', c), <<c, i>> # <<d, s>>
        PROVE  store'[c][i].cluster \in AllocIn(fat)
    <3>1. c \in Clusters /\ c >= 2 /\ fat'[c] # EMPTY /\ store'[c] \in Tables
          /\ i \in Slots /\ i > 0 /\ store'[c][i].used
        BY DEF FoldersIn, AllocIn, UsedIn
    <3>2. c \notin A
        BY <3>1
    <3>3. c \in AllocIn(fat)
        BY <3>1, <3>2 DEF AllocIn
    <3>4. store'[c][i] = store[c][i] /\ store[c] \in Tables
        BY <2>3, <3>1, <3>2
    <3>5. c \in FoldersIn(fat, store) /\ i \in UsedIn(store, c)
        BY <3>1, <3>3, <3>4 DEF FoldersIn, UsedIn
    <3> QED BY <2>1, <3>4, <3>5 DEF EntriesIn
  <2>4. LeadsInto(fat, store', FoldersIn(fat', store'), AllocIn(fat), <<d, s>>)
    BY <2>2, <2>3 DEF LeadsInto
  <2>5. AllocIn(fat) \in SUBSET Clusters /\ <<d, s>> \in Clusters \X Slots
    BY DEF AllocIn
  <2> QED BY <2>1, <2>4, <2>5 DEF Torn
<1> QED BY <1>1, <1>2, <1>5, <1>6, <1>7, <1>8, <1>9, <1>10 DEF Writing

\* Only a sound disk takes writes and deletes.
LEMMA OnlySound ==
    ASSUME TypeOK, Image(fat, store, wreck), wreck # "torn", NEW d \in Parents, IsFolder(d)
    PROVE  /\ wreck \in {"none", "leak"} /\ Solid /\ (wreck = "none" => NothingLost)
           /\ d \in Clusters /\ d >= 2 /\ fat[d] # EMPTY
           /\ SolidIn(fat, store)
<1>1. wreck # "half formatted"
    BY NoFolderYet DEF Image
<1>2. wreck \in {"none", "leak"}
    BY <1>1 DEF Image
<1>3. Solid /\ (wreck = "none" => NothingLost)
    BY <1>2, SolidIs DEF Image
<1>4. d \in Allocated
    BY <1>3, ParentAllocated
<1> QED BY <1>2, <1>3, <1>4, SolidIs DEF Allocated

\* mkdir queues its writes.
LEMMA WriteFolderStarts ==
    ASSUME CrashTypeOK, Idle, NEW d \in Parents, NEW n \in Names, NEW e \in Exts,
           SubmitWriteFolder(d, n, e), fault' = "none"
    PROVE  Writing'
<1>1. /\ Ready /\ WriteFolder(d, n, e) /\ WriteCode(d, n, e, 0) = 0
      /\ Submit("write", <<ClusterWrite(EmptyCluster), ClusterWrite(d)>> \o FatWrites)
    BY DEF SubmitWriteFolder, WriteFolder
<1>2. store[d] \in Tables /\ IsFolder(d)
    BY <1>1, WriteCodeZero DEF IsFolder
<1>3. /\ wreck \in {"none", "leak"} /\ Solid /\ (wreck = "none" => NothingLost)
      /\ TypeOK /\ d \in Clusters /\ d >= 2 /\ fat[d] # EMPTY
    BY <1>1, <1>2, OnlySound DEF Idle, Ready, CrashTypeOK
<1>4. SolidIn(fat', store') /\ (NothingLostIn(fat, store) => NothingLostIn(fat', store'))
    BY <1>1, <1>3, WriteFolderSound, SolidIs, SolidIsNext
<1>5. PICK z \in Clusters, s \in Slots :
               /\ z = EmptyCluster /\ z >= 2 /\ fat[z] = EMPTY /\ z # d
               /\ \A c \in Clusters \ {z} : fat'[c] = fat[c]
               /\ \A c \in Clusters \ {z, d} : store'[c] = store[c]
               /\ UsedIn(store', z) = {}
               /\ \A i \in Slots \ {s} : store'[d][i] = store[d][i]
    BY <1>1, <1>3, WriteFolderChanges
<1>6. PICK P \in Seq({"cluster"} \X Clusters) : P = <<ClusterWrite(z), ClusterWrite(d)>>
  <2>1. PICK u \in {"cluster"} \X Clusters : u = ClusterWrite(z)
    BY DEF ClusterWrite
  <2>2. PICK w \in {"cluster"} \X Clusters : w = ClusterWrite(d)
    BY <1>3 DEF ClusterWrite
  <2>3. <<u, w>> \in Seq({"cluster"} \X Clusters)
    OBVIOUS
  <2> QED BY <2>1, <2>2, <2>3
<1>7. Len(P) = 2 /\ P[1] = ClusterWrite(z) /\ P[2] = ClusterWrite(d) /\ DOMAIN P = {1, 2}
    BY <1>6
<1>8. PICK A \in SUBSET Clusters : A = {z}
    OBVIOUS
<1>9. /\ \A a \in A : a >= 2 /\ fat[a] = EMPTY
      /\ \A c \in Clusters \ A : fat'[c] = fat[c]
      /\ \A c \in Clusters \ (A \cup {d}) : store'[c] = store[c]
      /\ \A a \in A : store'[a] \in Tables => UsedIn(store', a) = {}
    BY <1>5, <1>8
<1>10. /\ Len(P) >= 1 /\ P[Len(P)] = ClusterWrite(d)
       /\ \A i \in DOMAIN P : i = Len(P) \/ P[i][2] \in A
       /\ \A a \in A : \E i \in DOMAIN P : P[i] = ClusterWrite(a)
    BY <1>7, <1>8 DEF ClusterWrite
<1>11. Submit("write", P \o FatWrites)
    BY <1>1, <1>5, <1>6
<1> QED BY <1>2, <1>3, <1>4, <1>5, <1>9, <1>10, <1>11, WriteStarts

\* empty_clusters lists every cluster it should.
LEMMA ListsAll ==
    ASSUME NEW S \in SUBSET Clusters, NEW A \in InOrder(S)
    PROVE  /\ Cardinality(S) \in Nat /\ A \in [1 .. Cardinality(S) -> S]
           /\ \A x \in S : \E i \in 1 .. Cardinality(S) : A[i] = x
<1>1. IsFiniteSet(S)
  <2>1. IsFiniteSet(Clusters)
    BY Numbers, FS_Interval DEF Clusters
  <2> QED BY <2>1, FS_Subset
<1>2. PICK n \in Nat : n = Cardinality(S)
    BY <1>1, FS_CardinalityType
<1>3. A \in [1 .. n -> S] /\ \A i, j \in 1 .. n : i < j => A[i] < A[j]
    BY <1>2 DEF InOrder
<1>4. \A i, j \in 1 .. n : A[i] = A[j] => i = j
  <2> SUFFICES ASSUME NEW i \in 1 .. n, NEW j \in 1 .. n, A[i] = A[j], i # j PROVE FALSE
    OBVIOUS
  <2>1. A[i] \in Int /\ A[j] \in Int
    <3>1. S \subseteq Int
        BY Numbers
    <3> QED BY <1>3, <3>1
  <2>2. i < j \/ j < i
    OBVIOUS
  <2> QED BY <1>3, <2>1, <2>2
<1>5. A \in Injection(1 .. n, S)
    BY <1>3, <1>4 DEF Injection, IsInjective
<1>6. Cardinality(1 .. n) = n
    BY FS_Interval
<1>7. A \in Surjection(1 .. n, S)
    BY <1>1, <1>2, <1>5, <1>6, FS_Injection
<1> QED BY <1>2, <1>3, <1>7 DEF Surjection

\* A write of a file queues its writes.
LEMMA WriteFileStarts ==
    ASSUME CrashTypeOK, Idle, NEW d \in Parents, NEW n \in Names, NEW e \in Exts,
           NEW b \in Sizes, NEW v \in Values,
           SubmitWriteFile(d, n, e, b, v), fault' = "none"
    PROVE  Writing'
<1>1. Ready /\ WriteFile(d, n, e, b, v) /\ WriteCode(d, n, e, b) = 0
    BY DEF SubmitWriteFile, WriteFile
<1>2. store[d] \in Tables /\ IsFolder(d)
    BY <1>1, WriteCodeZero DEF IsFolder
<1>3. /\ wreck \in {"none", "leak"} /\ Solid /\ (wreck = "none" => NothingLost)
      /\ TypeOK /\ d \in Clusters /\ d >= 2 /\ fat[d] # EMPTY /\ SolidIn(fat, store)
    BY <1>1, <1>2, OnlySound DEF Idle, Ready, CrashTypeOK
<1>4. SolidIn(fat', store') /\ (NothingLostIn(fat, store) => NothingLostIn(fat', store'))
    BY <1>1, <1>3, WriteFileSound, SolidIs, SolidIsNext
<1>5. PICK L \in SUBSET Clusters, s \in Slots :
               /\ L = LowestEmpty(ceil_div(b, ClusterSize))
               /\ \A a \in L : a >= 2 /\ fat[a] = EMPTY
               /\ \A c \in Clusters \ L : fat'[c] = fat[c]
               /\ \A a \in L : fat'[a] = Link(L, a)
               /\ \A c \in Clusters \ (L \cup {d}) : store'[c] = store[c]
               /\ \A a \in L : store'[a] = <<v, Cardinality({x \in L : x <= a})>>
               /\ \A i \in Slots \ {s} : store'[d][i] = store[d][i]
               /\ store'[d][s] = NewEntry(n, e, b)
    BY <1>1, <1>3, WriteFileChanges
<1>6. \A a \in L : store'[a] \in Tables => UsedIn(store', a) = {}
    BY <1>5, PieceNotTable, ZenonT(60)
<1>7. PICK B \in InOrder(L) :
           Submit("write", ([i \in DOMAIN B |-> ClusterWrite(B[i])]
                            \o <<ClusterWrite(d)>>) \o FatWrites)
    BY <1>5 DEF SubmitWriteFile
<1>8. PICK m \in Nat : m = Cardinality(L)
    BY <1>5, <1>7, ListsAll
<1>9. B \in [1 .. m -> L] /\ \A x \in L : \E i \in 1 .. m : B[i] = x
    BY <1>5, <1>7, <1>8, ListsAll
<1>10. PICK w \in {"cluster"} \X Clusters : w = ClusterWrite(d)
    BY <1>3 DEF ClusterWrite
<1>11. PICK Q \in Seq({"cluster"} \X Clusters) :
           Q = [i \in DOMAIN B |-> ClusterWrite(B[i])] /\ Len(Q) = m
  <2>1. \A i \in 1 .. m : ClusterWrite(B[i]) \in {"cluster"} \X Clusters
    BY <1>5, <1>9 DEF ClusterWrite
  <2>2. [i \in DOMAIN B |-> ClusterWrite(B[i])] = [i \in 1 .. m |-> ClusterWrite(B[i])]
    BY <1>9
  <2>3. PICK Q : Q = [i \in 1 .. m |-> ClusterWrite(B[i])]
    OBVIOUS
  <2>4. Q \in [1 .. m -> {"cluster"} \X Clusters]
    BY <2>1, <2>3
  <2>5. Q \in Seq({"cluster"} \X Clusters) /\ Len(Q) = m
    BY ONLY <2>4, m \in Nat
  <2> QED BY <2>2, <2>3, <2>5
<1>12. \A i \in 1 .. m : Q[i] = ClusterWrite(B[i])
    BY <1>9, <1>11
<1>13. PICK P \in Seq({"cluster"} \X Clusters) : P = Q \o <<w>>
  <2>1. <<w>> \in Seq({"cluster"} \X Clusters)
    OBVIOUS
  <2>2. Q \o <<w>> \in Seq({"cluster"} \X Clusters)
    BY <2>1, ConcatProperties
  <2> QED BY <2>2
<1>14. Len(P) = m + 1 /\ DOMAIN P = 1 .. m + 1 /\ P[m + 1] = w /\ \A i \in 1 .. m : P[i] = Q[i]
    BY <1>11, <1>13
<1>15. /\ Len(P) >= 1 /\ P[Len(P)] = ClusterWrite(d)
    BY <1>10, <1>14
<1>16. \A i \in DOMAIN P : i = Len(P) \/ P[i][2] \in L
  <2>1. \A i \in DOMAIN P : i = Len(P) \/ i \in 1 .. m
    BY <1>14
  <2>2. \A i \in 1 .. m : P[i] = ClusterWrite(B[i]) /\ B[i] \in L
    BY <1>9, <1>12, <1>14
  <2> QED BY <2>1, <2>2 DEF ClusterWrite
<1>17. \A a \in L : \E i \in DOMAIN P : P[i] = ClusterWrite(a)
  <2> TAKE a \in L
  <2>1. PICK i \in 1 .. m : B[i] = a
    BY <1>9
  <2>2. i \in DOMAIN P /\ P[i] = ClusterWrite(a)
    BY <1>12, <1>14, <2>1
  <2> QED BY <2>2
<1>18. Submit("write", P \o FatWrites)
    BY <1>7, <1>10, <1>11, <1>13
<1> QED BY <1>2, <1>3, <1>4, <1>5, <1>6, <1>15, <1>16, <1>17, <1>18, WriteStarts

\* The old FAT goes with the table delete leaves.
LEMMA Cleared ==
    ASSUME NEW F, NEW S, NEW T, SolidIn(F, S),
           NEW d \in FoldersIn(F, S), NEW i \in Slots, i # 0,
           \A c \in Clusters \ {d} : T[c] = S[c], T[d] \in Tables,
           \A j \in Slots \ {i} : T[d][j] = S[d][j],
           ~T[d][i].used, T[d][i].name = NoName
    PROVE  SolidIn(F, T) /\ \A c \in FoldersIn(F, T) : c \in FoldersIn(F, S) /\ UsedIn(T, c) \subseteq UsedIn(S, c)
<1>1. FoldersIn(F, T) = FoldersIn(F, S) /\ \A c \in FoldersIn(F, S) : c \in Clusters
    BY DEF FoldersIn, AllocIn
<1>2. ASSUME NEW c \in FoldersIn(F, S), NEW j \in UsedIn(T, c)
      PROVE  j \in UsedIn(S, c) /\ T[c][j] = S[c][j]
  <2>1. j \in Slots /\ j > 0 /\ T[c][j].used
    BY DEF UsedIn
  <2>2. T[c][j] = S[c][j]
    BY <1>1, <2>1
  <2> QED BY <2>1, <2>2 DEF UsedIn
<1>3. \A c \in FoldersIn(F, S) : T[c][0] = S[c][0]
    BY <1>1, Numbers
<1>4. EntriesIn(F, S) /\ LinkedIn(F, S) /\ NamelessIn(F, S) /\ AloneIn(F, S)
    BY DEF SolidIn
<1>5. EntriesIn(F, T)
  <2> SUFFICES ASSUME NEW c \in FoldersIn(F, S), NEW j \in UsedIn(T, c)
               PROVE  /\ T[c][j].cluster \in AllocIn(F) /\ T[c][j].cluster # ROOT
                      /\ ~PointedIn(F, T[c][j].cluster)
                      /\ \A x \in FoldersIn(F, S) : \A k \in UsedIn(T, x) :
                             T[x][k].cluster = T[c][j].cluster => c = x /\ j = k
    BY <1>1 DEF EntriesIn
  <2> QED BY <1>2, <1>4 DEF EntriesIn
<1>6. LinkedIn(F, T)
  <2>1. ROOT \in FoldersIn(F, T) /\ T[ROOT][0].cluster = ROOT
    BY <1>1, <1>3, <1>4 DEF LinkedIn
  <2>2. \A c \in FoldersIn(F, T) : T[c][0].attr
    <3>1. \A c \in FoldersIn(F, S) : S[c][0].attr
        BY <1>4, Zenon DEF LinkedIn
    <3> QED BY <1>1, <1>3, <3>1
  <2>3. ASSUME NEW c \in FoldersIn(F, T), NEW j \in UsedIn(T, c)
        PROVE  /\ T[c][j].attr <=> T[c][j].cluster \in FoldersIn(F, T)
               /\ T[c][j].attr => F[T[c][j].cluster] = EOF /\ T[T[c][j].cluster][0].cluster = c
    <3>1. c \in FoldersIn(F, S) /\ j \in UsedIn(S, c) /\ T[c][j] = S[c][j]
        BY <1>1, <1>2
    <3>2. PICK g : g = S[c][j].cluster
        OBVIOUS
    <3>3. PICK a : a = S[c][j].attr
        OBVIOUS
    <3>4. (a <=> g \in FoldersIn(F, S)) /\ (a => F[g] = EOF /\ S[g][0].cluster = c)
        BY <1>4, <3>1, <3>2, <3>3, Zenon DEF LinkedIn
    <3>5. (a <=> g \in FoldersIn(F, S)) /\ (a => F[g] = EOF /\ T[g][0].cluster = c)
        BY <1>3, <3>4
    <3> QED BY <1>1, <3>1, <3>2, <3>3, <3>5, Zenon
  <2> QED BY <2>1, <2>2, <2>3, Zenon DEF LinkedIn
<1>7. NamelessIn(F, T)
  <2> SUFFICES ASSUME NEW c \in FoldersIn(F, S), NEW j \in Slots, ~T[c][j].used
               PROVE  T[c][j].name = NoName
    BY <1>1 DEF NamelessIn
  <2>1. CASE c = d /\ j = i
    BY <2>1
  <2>2. CASE ~(c = d /\ j = i)
    <3>1. T[c][j] = S[c][j]
        BY <1>1, <2>2
    <3> QED BY <1>4, <3>1 DEF NamelessIn
  <2> QED BY <2>1, <2>2
<1>8. AloneIn(F, T)
    BY <1>1, <1>4 DEF AloneIn
<1> QED BY <1>1, <1>2, <1>5, <1>6, <1>7, <1>8 DEF SolidIn

\* delete queues its writes.
LEMMA DeleteStarts ==
    ASSUME CrashTypeOK, Idle, NEW d \in Parents, NEW n \in Names, NEW e \in Exts,
           SubmitDelete(d, n, e), fault' = "none"
    PROVE  Deleting'
<1>1. /\ Ready /\ Delete(d, n, e) /\ DeleteCode(d, n, e) = 0
      /\ Submit("delete", <<ClusterWrite(d)>> \o FatWrites)
    BY DEF SubmitDelete, Delete
<1>2. IsFolder(d)
    BY <1>1 DEF DeleteCode
<1>3. /\ wreck \in {"none", "leak"} /\ Solid /\ (wreck = "none" => NothingLost)
      /\ TypeOK /\ d \in Clusters /\ d >= 2 /\ fat[d] # EMPTY /\ SolidIn(fat, store)
    BY <1>1, <1>2, OnlySound DEF Idle, Ready, CrashTypeOK
<1>4. SolidIn(fat', store') /\ (NothingLostIn(fat, store) => NothingLostIn(fat', store'))
    BY <1>1, <1>3, DeleteSound, SolidIs, SolidIsNext, ConstantsAssumption
<1>5. PICK i, R :
      /\ store[d] \in Tables /\ d \in Folders /\ i # 0 /\ i \in Slots
      /\ \A c \in R : fat'[c] = EMPTY
      /\ \A c \in Clusters \ R : fat'[c] = fat[c]
      /\ store'[d] \in Tables
      /\ \A c \in Clusters \ {d} : store'[c] = store[c]
      /\ \A j \in Slots \ {i} : store'[d][j] = store[d][j]
      /\ ~store'[d][i].used /\ store'[d][i].name = NoName
      /\ \A c \in Folders : c \in R => Used(c) = {}
  <2>1. n # NoName
    BY ConstantsAssumption
  <2>2. PICK i, h, R : Removes(d, n, i, h, R)
    BY <1>1, <1>3, <2>1, DeleteRemoves
  <2>3. d \in Folders /\ i \in Used(d) /\ i # 0 /\ i \in Slots /\ d \notin R
    BY <2>2 DEF Removes, Used
  <2>4. store[d] \in Tables /\ store'[d] \in Tables
    <3>1. d \in Folders'
      BY <2>2, <2>3 DEF Removes
    <3> QED BY <2>3, <3>1 DEF Folders
  <2> QED BY <2>2, <2>3, <2>4 DEF Removes
<1>6. /\ io' = <<ClusterWrite(d)>> \o FatWrites /\ op' = "delete" /\ disk' = disk /\ dfat' = dfat
      /\ power' = power /\ wreck' = wreck
    BY <1>1 DEF Submit
<1>7. power = "on" /\ fat = dfat /\ store = disk /\ Image(fat, store, wreck)
    BY DEF Idle
<1>8. /\ SolidIn(fat, store')
      /\ \A c \in FoldersIn(fat, store') :
             c \in FoldersIn(fat, store) /\ UsedIn(store', c) \subseteq UsedIn(store, c)
  <2>1. d \in FoldersIn(fat, store)
    BY <1>5, SolidIs
  <2> QED BY <1>3, <1>5, <2>1, Cleared
<1>9. PICK P \in Seq({"cluster"} \X Clusters) : P = <<ClusterWrite(d)>>
  <2>1. PICK w \in {"cluster"} \X Clusters : w = ClusterWrite(d)
    BY <1>3 DEF ClusterWrite
  <2>2. <<w>> \in Seq({"cluster"} \X Clusters)
    OBVIOUS
  <2> QED BY <2>1, <2>2
<1>10. Len(P) = 1 /\ P[1] = ClusterWrite(d) /\ DOMAIN P = {1} /\ io' = P \o FatWrites
    BY <1>6, <1>9
<1>11. Queued' /\ FatLast'
  <2>1. \A c \in Clusters : (\E k \in DOMAIN P : P[k] = ClusterWrite(c)) \/ disk'[c] = store'[c]
    BY <1>5, <1>6, <1>7, <1>10
  <2> QED BY <1>6, <1>7, <1>10, <2>1, QueueThenFat
<1>12. Image(fat', store', wreck')
  <2>1. store'[0] = SIGNATURE
    <3>1. store[0] = SIGNATURE
        BY <1>7, Zenon DEF Image
    <3>2. 0 \in Clusters /\ 0 # d
        BY <1>3, Numbers
    <3> QED BY <1>5, <3>1, <3>2
  <2>2. wreck = "none" => NothingLostIn(fat, store)
    BY <1>7 DEF Image
  <2> QED BY <1>3, <1>4, <1>6, <2>1, <2>2 DEF Image
<1>13. \A c \in Clusters : fat'[c] # EMPTY => dfat'[c] = fat'[c]
    BY <1>5, <1>6, <1>7
<1>14. \A j \in DOMAIN io' : io'[j][1] = "cluster" => j = 1 /\ io'[j][2] = d
  <2> SUFFICES ASSUME NEW j \in DOMAIN io', io'[j][1] = "cluster" PROVE j = 1 /\ io'[j][2] = d
    OBVIOUS
  <2>1. FatAfter(P, io')
    BY <1>10, ThenFat
  <2>2. j \in Int /\ Len(P) \in Nat
    BY <2>1 DEF FatAfter
  <2>3. j <= Len(P)
    BY <2>1, <2>2 DEF FatAfter
  <2>4. j \in DOMAIN P /\ io'[j] = P[j]
    BY <2>1, <2>3 DEF FatAfter
  <2> QED BY <1>10, <2>4 DEF ClusterWrite
<1>15. \A c \in FoldersIn(dfat', store') : fat'[c] = EMPTY => UsedIn(store', c) = {}
  <2> SUFFICES ASSUME NEW c \in FoldersIn(fat, store'), fat'[c] = EMPTY PROVE UsedIn(store', c) = {}
    BY <1>6, <1>7
  <2>1. c \in Folders /\ fat[c] # EMPTY /\ c \in Clusters
    BY <1>8, SolidIs DEF FoldersIn, AllocIn
  <2>2. Used(c) = {}
    BY <1>5, <2>1
  <2>3. UsedIn(store, c) = {}
    BY <2>2, SolidIs
  <2> QED BY <1>8, <2>3
<1>16. disk'[d] \in Tables /\ SolidIn(dfat', store') /\ Image(dfat', disk', wreck')
    BY <1>5, <1>6, <1>7, <1>8
<1> QED BY <1>3, <1>6, <1>11, <1>12, <1>13, <1>14, <1>15, <1>16 DEF Deleting

-----------------------------------------------------------------------------
(* The inserter.                                                           *)

\* The inserter mounts or formats a copy of the image.
LEMMA InsertLoadHosted ==
    ASSUME CrashTypeOK, Off, InsertLoad
    PROVE  Hosted'
<1>1. /\ power' = "host" /\ wreck # "torn" /\ io' = io /\ disk' = disk /\ dfat' = dfat
      /\ wreck' = wreck /\ io = <<>> /\ store = disk /\ OnDisk
    BY DEF InsertLoad, Off
<1>2. OnDisk'
    BY <1>1 DEF OnDisk
<1>3. CASE disk[0] = SIGNATURE
  <2>1. fat' = dfat /\ store' = disk /\ Image(dfat, disk, wreck)
    BY <1>1, <1>3, Signed DEF InsertLoad, IsEmptyStorage
  <2> QED BY <1>1, <1>2, <2>1 DEF Hosted
<1>4. CASE disk[0] # SIGNATURE
  <2>1. wreck = "none" /\ Blank(dfat, disk)
    BY <1>4, Signed
  <2>2. fat' = InitFat /\ store' = [disk EXCEPT ![0] = SIGNATURE, ![ROOT] = RootTable]
    BY <1>4 DEF InsertLoad, IsEmptyStorage
  <2>3. store' = InitStore
    <3>1. disk \in [Clusters -> Contents] /\ \A c \in Clusters : disk[c] = ZeroTable
        BY <2>1 DEF CrashTypeOK, Blank
    <3>2. \A c \in Clusters : store'[c] = InitStore[c]
        BY <2>2, <3>1, Numbers DEF InitStore, RootTable
    <3> QED BY <2>2, <3>1, <3>2 DEF InitStore
  <2>4. Image(fat', store', "none")
    BY <2>2, <2>3, FormattedNext
  <2>5. \A c \in Clusters : dfat[c] = EMPTY
    BY <2>1 DEF Blank
  <2> QED BY <1>1, <1>2, <2>1, <2>4, <2>5 DEF Hosted
<1> QED BY <1>3, <1>4

\* The inserter's write, on its copy.
LEMMA InsertWriteHosted ==
    ASSUME CrashTypeOK, Hosted, NEW d \in Parents, NEW n \in Names, NEW e \in Exts,
           NEW b \in Sizes, NEW v \in Values, InsertWrite(d, n, e, b, v)
    PROVE  /\ fault' = "none" => Hosted'
           /\ fault' # "none" => wreck' # "half formatted"
<1>1. /\ power = "host" /\ io = <<>> /\ wreck # "torn" /\ OnDisk /\ Image(fat, store, wreck)
      /\ (wreck = "half formatted" => fat = dfat /\ store = disk)
      /\ \A c \in Clusters : c >= 2 /\ dfat[c] # EMPTY /\ disk[c] \in Pieces =>
             store[c] = disk[c] /\ fat[c] # EMPTY
    BY DEF Hosted
<1>2. UNCHANGED <<disk, dfat, io, power, wreck>> /\ fault = "none"
    BY DEF InsertWrite
<1>3. OnDisk'
    BY <1>1, <1>2 DEF OnDisk
<1>4. CASE WriteRefused(d, n, e, b)
  <2>1. fat' = fat /\ store' = store /\ fault' = fault
    BY <1>4 DEF WriteRefused
  <2> QED BY <1>1, <1>2, <1>3, <2>1 DEF Hosted
<1>5. ASSUME IsFolder(d), NEW A \in SUBSET Clusters,
             \A a \in A : a >= 2 /\ fat[a] = EMPTY,
             \A c \in Clusters \ A : fat'[c] = fat[c],
             \A c \in Clusters \ (A \cup {d}) : store'[c] = store[c],
             fault' = "none",
             Solid => Solid' /\ (NothingLost => NothingLost')
      PROVE  Hosted'
  <2>1. /\ wreck \in {"none", "leak"} /\ Solid /\ (wreck = "none" => NothingLost)
        /\ d \in Clusters /\ d >= 2 /\ store[d] \in Tables
    BY <1>1, <1>5, OnlySound DEF CrashTypeOK, IsFolder
  <2>2. store'[0] = SIGNATURE
    <3>1. store[0] = SIGNATURE
        BY <1>1, Zenon DEF Image
    <3>2. 0 \in Clusters /\ 0 # d
        BY <2>1, Numbers
    <3>3. 0 \notin A
        BY <1>5
    <3> QED BY <1>5, <3>1, <3>2, <3>3
  <2>3. SolidIn(fat', store') /\ (wreck = "none" => NothingLostIn(fat', store'))
    BY <1>5, <2>1, SolidIsNext
  <2>4. Image(fat', store', wreck')
    BY <1>2, <2>1, <2>2, <2>3 DEF Image
  <2>5. ASSUME NEW c \in Clusters, c >= 2, dfat[c] # EMPTY, disk[c] \in Pieces
        PROVE  store'[c] = disk[c] /\ fat'[c] # EMPTY
    <3>1. store[c] = disk[c] /\ fat[c] # EMPTY
        BY <1>1, <2>5
    <3>2. c # d /\ c \notin A
        <4>1. disk[c] \notin Tables
            BY <2>5, PieceNotTable DEF Pieces
        <4> QED BY <1>5, <2>1, <3>1, <4>1
    <3> QED BY <1>5, <3>1, <3>2
  <2> QED BY <1>1, <1>2, <1>3, <2>1, <2>4, <2>5 DEF Hosted
<1>6. CASE WriteFolder(d, n, e)
  <2>1. IsFolder(d)
    BY <1>6, WriteCodeZero DEF WriteFolder, IsFolder
  <2>2. TypeOK /\ wreck \in {"none", "leak"} /\ d \in Clusters /\ fat[d] # EMPTY
    BY <1>1, <2>1, OnlySound DEF CrashTypeOK
  <2>3. ASSUME fault' = "none" PROVE Hosted'
    <3>1. PICK z \in Clusters : /\ z >= 2 /\ fat[z] = EMPTY
                                /\ \A c \in Clusters \ {z} : fat'[c] = fat[c]
                                /\ \A c \in Clusters \ {z, d} : store'[c] = store[c]
        BY <1>6, <2>2, <2>3, WriteFolderChanges
    <3>2. Solid => Solid' /\ (NothingLost => NothingLost')
        BY <1>6, <2>2, <2>3, WriteFolderSound
    <3>3. PICK A \in SUBSET Clusters : A = {z}
        OBVIOUS
    <3>4. /\ \A a \in A : a >= 2 /\ fat[a] = EMPTY
          /\ \A c \in Clusters \ A : fat'[c] = fat[c]
          /\ \A c \in Clusters \ (A \cup {d}) : store'[c] = store[c]
        BY <3>1, <3>3
    <3> QED BY <1>5, <2>1, <2>3, <3>2, <3>4
  <2> QED BY <1>2, <2>2, <2>3
<1>7. CASE WriteFile(d, n, e, b, v)
  <2>1. IsFolder(d)
    BY <1>7, WriteCodeZero DEF WriteFile, IsFolder
  <2>2. TypeOK /\ wreck \in {"none", "leak"} /\ d \in Clusters /\ fat[d] # EMPTY /\ SolidIn(fat, store)
    BY <1>1, <2>1, OnlySound DEF CrashTypeOK
  <2>3. ASSUME fault' = "none" PROVE Hosted'
    <3>1. PICK A \in SUBSET Clusters : /\ \A a \in A : a >= 2 /\ fat[a] = EMPTY
                                       /\ \A c \in Clusters \ A : fat'[c] = fat[c]
                                       /\ \A c \in Clusters \ (A \cup {d}) : store'[c] = store[c]
        BY <1>7, <2>2, WriteFileChanges
    <3>2. Solid => Solid' /\ (NothingLost => NothingLost')
        BY <1>7, <2>2, <2>3, WriteFileSound
    <3> QED BY <1>5, <2>1, <2>3, <3>1, <3>2
  <2> QED BY <1>2, <2>2, <2>3
<1> QED BY <1>4, <1>6, <1>7 DEF InsertWrite

\* The inserter's copy becomes the disk.
LEMMA InsertSaveOff ==
    ASSUME Hosted, InsertSave
    PROVE  Off'
BY DEF Hosted, InsertSave, Off, OnDisk

-----------------------------------------------------------------------------
(* Invariance.                                                             *)

\* The image the makefile creates.
LEMMA CrashInitInv == CrashInit => CInv
<1> SUFFICES ASSUME CrashInit PROVE CInv
    OBVIOUS
<1>1. ZeroTable \in Contents
  <2>1. ZeroEntry \in Entry
    BY ConstantsAssumption DEF ZeroEntry, Entry, Clusters
  <2> QED BY <2>1 DEF ZeroTable, Tables, Contents
<1>2. 0 \in FatValues
    BY Numbers DEF FatValues
<1>3. CrashTypeOK
    BY <1>1, <1>2 DEF CrashInit, CrashTypeOK, TypeOK
<1>4. Off
    BY DEF CrashInit, Off, OnDisk, Blank, EMPTY
<1> QED BY <1>3, <1>4 DEF CInv, CrashInit

\* The types of a formatted disk.
LEMMA FormattedType ==
    /\ InitFat \in [Clusters -> FatValues] /\ InitStore \in [Clusters -> Contents]
    /\ init_directory_table(RootName, ROOT) \in Tables
<1>1. ZeroEntry \in Entry
    BY ConstantsAssumption DEF ZeroEntry, Entry, Clusters
<1>2. [ZeroEntry EXCEPT !.name = RootName, !.attr = TRUE, !.used = TRUE, !.cluster = ROOT] \in Entry
    BY <1>1, Numbers DEF Entry
<1>3. init_directory_table(RootName, ROOT) \in Tables /\ ZeroTable \in Tables
    BY <1>1, <1>2 DEF init_directory_table, ZeroTable, Tables
<1>4. InitStore \in [Clusters -> Contents]
    BY <1>3 DEF InitStore, Contents
<1>5. EMPTY \in Clusters
    BY Numbers
<1>6. InitFat \in [Clusters -> FatValues]
    BY <1>5 DEF InitFat, FatValues
<1> QED BY <1>3, <1>4, <1>6

\* Stuttering keeps the invariant.
LEMMA StutterInv == CInv /\ UNCHANGED cvars => CInv'
<1> SUFFICES ASSUME CInv, UNCHANGED cvars PROVE CInv'
    OBVIOUS
<1>1. UNCHANGED <<fat, store, ret, fault, disk, dfat, io, op, power, wreck>>
    BY DEF cvars, vars
<1>2. CrashTypeOK'
    BY <1>1 DEF CInv, CrashTypeOK, TypeOK
<1>3. (Off => Off') /\ (Idle => Idle')
    BY <1>1 DEF Off, Idle, OnDisk
<1>4. Hosted => Hosted'
    BY <1>1 DEF Hosted, OnDisk
<1>5. (Queued => Queued') /\ (FatLast => FatLast') /\ (TableOnDisk <=> TableOnDisk')
    BY <1>1 DEF Queued, FatLast, Outstanding, TableOnDisk
<1>6. Formatting => Formatting'
    BY <1>1, <1>5 DEF Formatting
<1>7. Writing => Writing'
    BY <1>1, <1>5 DEF Writing
<1>8. Deleting => Deleting'
    BY <1>1, <1>5 DEF Deleting
<1> QED BY <1>1, <1>2, <1>3, <1>4, <1>6, <1>7, <1>8 DEF CInv

\* The disk's types, whatever the step.
LEMMA FlushType ==
    ASSUME CrashTypeOK, Flush
    PROVE  CrashTypeOK'
<1>1. PICK w : w = Head(io)
    OBVIOUS
<1>2. UNCHANGED <<fat, store, ret, fault>>
    BY DEF Flush, vars
<1>3. /\ fat \in [Clusters -> FatValues] /\ store \in [Clusters -> Contents]
      /\ disk \in [Clusters -> Contents] /\ dfat \in [Clusters -> FatValues]
    BY DEF CrashTypeOK, TypeOK
<1>4. CASE w[1] = "cluster"
  <2>1. disk' = [disk EXCEPT ![w[2]] = store[w[2]]] /\ dfat' = dfat
    BY <1>1, <1>4 DEF Flush
  <2>2. disk' \in [Clusters -> Contents]
    BY <1>3, <2>1
  <2> QED BY <1>2, <2>1, <2>2 DEF CrashTypeOK, TypeOK
<1>5. CASE w[1] # "cluster"
  <2>1. /\ dfat' = [c \in Clusters |-> IF c \div FatBlock = w[2] THEN fat[c] ELSE dfat[c]]
        /\ disk' = disk
    BY <1>1, <1>5 DEF Flush
  <2>2. dfat' \in [Clusters -> FatValues]
    BY <1>3, <2>1
  <2> QED BY <1>2, <2>1, <2>2 DEF CrashTypeOK, TypeOK
<1> QED BY <1>4, <1>5

\* A disk write keeps the invariant.
LEMMA FlushInv ==
    ASSUME CInv, Flush
    PROVE  CInv'
<1>1. CrashTypeOK /\ CrashTypeOK' /\ fault' = fault /\ wreck' = wreck
    BY FlushType DEF CInv, Flush, vars
<1>2. ASSUME fault = "none" PROVE Idle' \/ Formatting' \/ Writing' \/ Deleting'
  <2>1. io # <<>> /\ power = "on"
    BY DEF Flush
  <2>2. Formatting \/ Writing \/ Deleting
    BY <1>2, <2>1 DEF CInv, Off, Idle, Hosted
  <2> QED BY <1>1, <2>2, FlushFormatting, FlushWriting, FlushDeleting
<1>3. ASSUME fault # "none" PROVE wreck' # "half formatted" /\ op' # "format"
    BY <1>1, <1>3 DEF CInv, Flush
<1> QED BY <1>1, <1>2, <1>3 DEF CInv

\* A power loss keeps it.
LEMMA CrashInv ==
    ASSUME CInv, Crash
    PROVE  CInv'
<1>1. fault' = fault /\ op' = "none" /\ wreck' = Wreck
    BY DEF Crash
<1>2. CrashTypeOK /\ CrashTypeOK'
  <2>1. EMPTY \in FatValues
    BY Numbers DEF FatValues
  <2>2. fat' = [c \in Clusters |-> EMPTY] /\ store' = disk /\ UNCHANGED <<ret, disk, dfat>>
    BY DEF Crash, EMPTY
  <2> QED BY <1>1, <2>1, <2>2 DEF CInv, CrashTypeOK, TypeOK
<1>3. ASSUME fault = "none" PROVE Off'
  <2>1. Idle \/ Formatting \/ Writing \/ Deleting
    BY <1>3 DEF CInv, Crash, Off, Hosted
  <2> QED BY <1>2, <2>1, CrashOff
<1>4. ASSUME fault # "none" PROVE Wreck # "half formatted"
  <2>1. wreck # "half formatted" /\ op # "format"
    BY <1>4 DEF CInv
  <2> QED BY <2>1 DEF Wreck
<1> QED BY <1>1, <1>2, <1>3, <1>4 DEF CInv

\* A boot keeps it.
LEMMA BootInv ==
    ASSUME CInv, BootFormat \/ BootMount
    PROVE  CInv'
<1>1. CrashTypeOK /\ fault = "none" /\ power = "off" /\ fault' = fault /\ ret' = ret
      /\ disk' = disk /\ dfat' = dfat
    BY DEF CInv, BootFormat, BootMount
<1>2. Off
    BY <1>1 DEF CInv, Idle, Hosted, Formatting, Writing, Deleting, Queued
<1>3. CASE BootFormat
  <2>1. Formatting'
    BY <1>1, <1>2, <1>3, BootFormatting
  <2>2. fat' = InitFat /\ store' = InitStore
    BY <2>1 DEF Formatting
  <2>3. InitFat \in [Clusters -> FatValues] /\ InitStore \in [Clusters -> Contents]
    BY FormattedType
  <2>4. CrashTypeOK'
    BY <1>1, <2>2, <2>3 DEF CrashTypeOK, TypeOK
  <2> QED BY <1>1, <2>1, <2>4 DEF CInv
<1>4. CASE BootMount
  <2>1. Idle'
    BY <1>2, <1>4, BootMountIdle
  <2>2. fat' = dfat /\ store' = store
    BY <1>4 DEF BootMount
  <2>3. CrashTypeOK'
    BY <1>1, <2>2 DEF CrashTypeOK, TypeOK
  <2> QED BY <1>1, <2>1, <2>3 DEF CInv
<1> QED BY <1>3, <1>4

\* A call of the driver keeps it.
LEMMA CallsInv ==
    ASSUME CInv, Calls
    PROVE  CInv'
<1>1. CrashTypeOK /\ fault = "none" /\ Idle /\ Ready /\ wreck' = wreck /\ op' # "format"
      /\ disk' = disk /\ dfat' = dfat
  <2>1. Ready /\ wreck' = wreck /\ op' # "format" /\ disk' = disk /\ dfat' = dfat
    BY DEF Calls, SubmitWriteFolder, SubmitDelete, SubmitNothing, SubmitWriteFile, Submit
  <2>2. power = "on" /\ io = <<>> /\ fault = "none"
    BY <2>1 DEF Ready
  <2> QED BY <2>1, <2>2 DEF CInv, Off, Hosted, Formatting, Writing, Deleting, Queued
<1>2. Next
    BY <1>1 DEF Calls, SubmitWriteFolder, SubmitDelete, SubmitNothing, SubmitWriteFile, Next, Operation
<1>3. CrashTypeOK'
    BY <1>1, <1>2, NextType DEF CrashTypeOK
<1>4. PICK d \in Parents, n \in Names, e \in Exts :
          \/ SubmitWriteFolder(d, n, e)
          \/ SubmitDelete(d, n, e)
          \/ \E b \in Sizes : SubmitNothing(d, n, e, b)
          \/ \E b \in Sizes, v \in Values : SubmitWriteFile(d, n, e, b, v)
    BY DEF Calls
<1>5. CASE \E b \in Sizes : SubmitNothing(d, n, e, b)
  <2>1. /\ UNCHANGED <<fat, store, fault, disk, dfat, power, wreck>>
        /\ io' = <<>> /\ op' = "none"
    BY <1>5 DEF SubmitNothing, WriteRefused, DeleteRefused, Read, Submit
  <2>2. Idle'
    BY <1>1, <2>1 DEF Idle
  <2> QED BY <1>1, <1>3, <2>1, <2>2 DEF CInv
<1>6. CASE fault' = "none" /\ ~\E b \in Sizes : SubmitNothing(d, n, e, b)
  <2>1. Writing' \/ Deleting'
    BY <1>1, <1>4, <1>6, WriteFolderStarts, WriteFileStarts, DeleteStarts
  <2> QED BY <1>3, <1>6, <2>1 DEF CInv
<1>7. CASE fault' # "none" /\ ~\E b \in Sizes : SubmitNothing(d, n, e, b)
  <2>1. IsFolder(d)
    <3>1. \/ \E b : WriteCode(d, n, e, b) = 0
          \/ DeleteCode(d, n, e) = 0
        BY <1>4, <1>7 DEF SubmitWriteFolder, SubmitDelete, SubmitWriteFile, WriteFolder, Delete, WriteFile
    <3> QED BY <3>1 DEF WriteCode, DeleteCode
  <2>2. wreck \in {"none", "leak"}
    BY <1>1, <2>1, OnlySound DEF Idle, Ready, CrashTypeOK
  <2> QED BY <1>1, <1>3, <1>7, <2>2 DEF CInv
<1> QED BY <1>5, <1>6, <1>7

\* The inserter keeps it.
LEMMA InsertInv ==
    ASSUME CInv, Insert
    PROVE  CInv'
<1>0. CrashTypeOK
    BY DEF CInv
<1>1. CASE InsertLoad
  <2>1. fault = "none" /\ power = "off" /\ fault' = fault /\ ret' = ret /\ disk' = disk /\ dfat' = dfat
    BY <1>1 DEF InsertLoad
  <2>2. Off
    BY <2>1 DEF CInv, Idle, Hosted, Formatting, Writing, Deleting, Queued
  <2>3. Hosted'
    BY <1>0, <1>1, <2>2, InsertLoadHosted
  <2>4. CrashTypeOK'
    <3>1. fat' = InitFat \/ fat' = dfat
        BY <1>1 DEF InsertLoad
    <3>2. fat' \in [Clusters -> FatValues]
        BY <1>0, <3>1, FormattedType DEF CrashTypeOK
    <3>3. store' = store \/ store' = [disk EXCEPT ![0] = SIGNATURE, ![ROOT] = RootTable]
        BY <1>1 DEF InsertLoad
    <3>4. RootTable \in Contents /\ SIGNATURE \in Contents
        BY FormattedType DEF RootTable, Contents
    <3>5. store' \in [Clusters -> Contents]
        BY <1>0, <3>3, <3>4 DEF CrashTypeOK, TypeOK
    <3> QED BY <1>0, <2>1, <3>2, <3>5 DEF CrashTypeOK, TypeOK
  <2> QED BY <2>1, <2>3, <2>4 DEF CInv
<1>2. CASE InsertSave
  <2>1. fault = "none" /\ power = "host" /\ fault' = fault /\ ret' = ret
        /\ disk' = store /\ dfat' = fat /\ store' = store /\ fat' = [c \in Clusters |-> EMPTY]
    BY <1>2 DEF InsertSave, EMPTY
  <2>2. Hosted
    BY <2>1 DEF CInv, Idle, Off, Formatting, Writing, Deleting, Queued
  <2>3. Off'
    BY <1>2, <2>2, InsertSaveOff
  <2>4. EMPTY \in FatValues
    BY Numbers DEF FatValues
  <2>5. CrashTypeOK'
    BY <1>0, <2>1, <2>4 DEF CrashTypeOK, TypeOK
  <2> QED BY <2>1, <2>3, <2>5 DEF CInv
<1>3. CASE \E d \in Parents, n \in Names, e \in Exts, b \in Sizes, v \in Values :
               InsertWrite(d, n, e, b, v)
  <2>1. PICK d \in Parents, n \in Names, e \in Exts, b \in Sizes, v \in Values :
               InsertWrite(d, n, e, b, v)
    BY <1>3
  <2>2. fault = "none" /\ power = "host" /\ op' = "insert" /\ disk' = disk /\ dfat' = dfat
    BY <2>1 DEF InsertWrite
  <2>3. Hosted
    BY <2>2 DEF CInv, Idle, Off, Formatting, Writing, Deleting, Queued
  <2>4. Next
    BY <2>1, <2>2 DEF InsertWrite, Next, Operation
  <2>5. CrashTypeOK'
    BY <1>0, <2>2, <2>4, NextType DEF CrashTypeOK
  <2>6. (fault' = "none" => Hosted') /\ (fault' # "none" => wreck' # "half formatted")
    BY <1>0, <2>1, <2>3, InsertWriteHosted
  <2> QED BY <2>2, <2>5, <2>6 DEF CInv
<1> QED BY <1>1, <1>2, <1>3 DEF Insert

\* Every step keeps it.
LEMMA CrashNextInv == CInv /\ [CrashNext]_cvars => CInv'
BY StutterInv, FlushInv, CrashInv, BootInv, CallsInv, InsertInv DEF CrashNext, CrashStopped

\* Whatever operations are interrupted at whatever write, and however often,
\* memory and disk are in one of the phases that CInv describes.
THEOREM CrashInvariance == CrashSpec => []CInv
<1>1. CrashInit => CInv
    BY CrashInitInv
<1>2. CInv /\ [CrashNext]_cvars => CInv'
    BY CrashNextInv
<1> QED BY <1>1, <1>2, PTL DEF CrashSpec

-----------------------------------------------------------------------------
(* What it implies.                                                        *)

\* A call finds the driver idle, its view the disk's.
LEMMA MountedIdle ==
    ASSUME CInv, Mounted
    PROVE  Idle /\ Image(fat, store, wreck)
<1>1. power = "on" /\ io = <<>> /\ fault = "none"
    BY DEF Mounted
<1>2. Idle
    BY <1>1 DEF CInv, Off, Hosted, Formatting, Writing, Deleting, Queued
<1> QED BY <1>2 DEF Idle

\* Crashes during delete, at whatever write and any number of them, only leak
\* clusters: for every table and block size.
THEOREM AlwaysCrashConsistent == CrashSpec => []CrashConsistent
<1>1. CInv => CrashConsistent
  <2> SUFFICES ASSUME CInv, Mounted, wreck \in {"none", "leak"}
               PROVE  /\ ReservedKept /\ ChainsTerminate /\ NoCrossLinks
                      /\ EntriesOwnChains /\ FoldersLinked /\ FreeSlotsNameless
                      /\ wreck = "none" => NoLeak
    BY DEF CrashConsistent
  <2>1. Image(fat, store, wreck)
    BY MountedIdle
  <2>2. SolidIn(fat, store) /\ (wreck = "none" => NothingLostIn(fat, store))
    BY <2>1 DEF Image
  <2> QED BY <2>2, SolidIs DEF Solid, NothingLost, NoLeak
<1> QED BY <1>1, CrashInvariance, PTL

\* A crash during write costs at most the entry being written.
THEOREM TornWritesAreLocal == CrashSpec => []TornWriteIsLocal
<1>1. CInv => TornWriteIsLocal
  <2> SUFFICES ASSUME CInv, Mounted, wreck = "torn"
               PROVE  Cardinality(Dangling) <= 1 /\ NoCrossLinks /\ ReservedKept
    BY DEF TornWriteIsLocal
  <2>1. Torn(fat, store, FoldersIn(fat, store))
    BY MountedIdle DEF Image
  <2>2. PICK K \in SUBSET Clusters, x \in Clusters \X Slots :
            LeadsInto(fat, store, Folders, K, x)
    BY <2>1, SolidIs DEF Torn
  <2>3. /\ \A y \in K : fat[y] # EMPTY /\ (fat[y] \in Clusters => fat[y] \in K)
        /\ \A c \in Folders : \A i \in Used(c) : <<c, i>> # x => store[c][i].cluster \in K
    BY <2>2, SolidIs DEF LeadsInto
  <2>4. Dangling \subseteq {x}
    <3> SUFFICES ASSUME NEW z \in Dangling, z # x PROVE FALSE
        OBVIOUS
    <3>1. PICK c \in Folders, i \in Slots : z = <<c, i>>
        BY DEF Dangling
    <3>2. i \in Used(c) /\ \E y \in Chain(store[c][i].cluster) : fat[y] = EMPTY
        BY <3>1 DEF Dangling
    <3>3. PICK h : h = store[c][i].cluster
        OBVIOUS
    <3>4. h \in K
        BY <2>3, <3>1, <3>2, <3>3
    <3>5. Closed(K)
        BY <2>3 DEF Closed
    <3>6. Chain(h) \subseteq K
        BY <3>4, <3>5, ChainLeast
    <3> QED BY <2>3, <3>2, <3>3, <3>6
  <2>5. Cardinality({x}) = 1 /\ IsFiniteSet({x})
    BY FS_Singleton
  <2>6. Cardinality(Dangling) <= 1
    BY <2>4, <2>5, FS_Subset
  <2>7. ReservedIn(fat) /\ NoCrossIn(fat)
    BY <2>1 DEF Torn
  <2> QED BY <2>6, <2>7, SolidIs DEF ReservedKept, ReservedIn, NoCrossLinks, NoCrossIn
<1> QED BY <1>1, CrashInvariance, PTL

\* A write to disk goes to a table or to a cluster that is free there.
LEMMA CommittedStep ==
    ASSUME CInv, [CrashNext]_cvars, fault' = "none",
           NEW c \in Clusters, c >= 2, dfat[c] # EMPTY, disk[c] \in Pieces
    PROVE  disk'[c] = disk[c]
<1>0. disk[c] \notin Tables
    BY PieceNotTable DEF Pieces
<1>1. CASE Flush
  <2>1. CrashTypeOK /\ fault = "none" /\ io # <<>> /\ power = "on"
    BY <1>1 DEF CInv, Flush, vars
  <2>2. Formatting \/ Writing \/ Deleting
    BY <2>1 DEF CInv, Off, Idle, Hosted
  <2>3. Queued
    BY <2>2 DEF Formatting, Writing, Deleting
  <2> SUFFICES ASSUME NEW x \in Clusters, Head(io) = ClusterWrite(x),
                      disk' = [disk EXCEPT ![x] = store[x]], c = x
               PROVE  FALSE
    BY <1>1, <2>1, <2>3, FlushEffect DEF CrashTypeOK
  <2>4. io[1] = ClusterWrite(c) /\ 1 \in DOMAIN io /\ io[1][1] = "cluster" /\ io[1][2] = c
    <3>1. Head(io) = io[1] /\ 1 \in DOMAIN io
        BY <1>1, <2>1, <2>3, FlushQueue
    <3> QED BY <3>1 DEF ClusterWrite
  <2>5. CASE Formatting
    <3>1. Head(io) # ClusterWrite(0)
        BY DEF ClusterWrite
    <3>2. HalfDone(disk)
        BY <2>5, <3>1 DEF Formatting
    <3>3. disk[c] = ZeroTable
        BY <3>2 DEF HalfDone
    <3>4. ZeroEntry \in Entry
        BY ConstantsAssumption DEF ZeroEntry, Entry, Clusters
    <3> QED BY <1>0, <3>3, <3>4 DEF ZeroTable, Tables
  <2>6. CASE Writing
    BY <1>0, <2>4, <2>6 DEF Writing
  <2>7. CASE Deleting
    BY <1>0, <2>4, <2>7 DEF Deleting
  <2> QED BY <2>2, <2>5, <2>6, <2>7
<1>2. CASE InsertSave
  <2>1. fault = "none" /\ power = "host" /\ disk' = store
    BY <1>2 DEF InsertSave
  <2>2. Hosted
    BY <2>1 DEF CInv, Idle, Off, Formatting, Writing, Deleting, Queued
  <2> QED BY <2>1, <2>2 DEF Hosted
<1>3. CASE ~Flush /\ ~InsertSave
  <2>1. disk' = disk
    BY <1>3, ZenonT(60) DEF CrashNext, cvars, BootFormat, BootMount, Calls, SubmitWriteFolder, SubmitDelete,
                SubmitNothing, SubmitWriteFile, Submit, Crash, Insert, InsertLoad, InsertWrite, CrashStopped
  <2> QED BY <2>1
<1> QED BY <1>1, <1>2, <1>3

\* No write touches a cluster that the FAT on disk gives to a file.
THEOREM CommittedStaysPut == CrashSpec => CommittedUntouched
<1>1. CInv /\ [CrashNext]_cvars =>
          [fault' = "none" => \A c \in Clusters :
               (c >= 2 /\ dfat[c] # EMPTY /\ disk[c] \in Pieces) => disk'[c] = disk[c]]_cvars
    BY CommittedStep
<1> QED BY <1>1, CrashInvariance, PTL DEF CrashSpec, CommittedUntouched

\* No operation gets past the parent check on a disk without a root table.
LEMMA HalfFormattedStep ==
    ASSUME CInv, [CrashNext]_cvars, wreck = "half formatted"
    PROVE  UNCHANGED <<disk, dfat, wreck>>
<1>1. fault = "none" /\ (Off \/ Idle \/ Hosted)
    BY DEF CInv, Formatting, Writing, Deleting
<1>2. io = <<>>
    BY <1>1 DEF Off, Idle, Hosted
<1>3. CASE Crash
  <2>1. Idle
    BY <1>1, <1>3 DEF Crash, Off, Hosted
  <2>2. Wreck = wreck
    BY <2>1, Zenon DEF Idle, Wreck
  <2> QED BY <1>3, <2>2 DEF Crash
<1>4. CASE InsertSave
  <2>1. Hosted
    BY <1>1, <1>4 DEF InsertSave, Off, Idle
  <2> QED BY <1>4, <2>1 DEF Hosted, InsertSave
<1>5. CASE ~Crash /\ ~InsertSave
    BY <1>2, <1>5, ZenonT(60) DEF CrashNext, cvars, BootFormat, BootMount, Calls, SubmitWriteFolder, SubmitDelete, Flush,
                SubmitNothing, SubmitWriteFile, Submit, Insert, InsertLoad, InsertWrite, CrashStopped
<1> QED BY <1>3, <1>4, <1>5

\* A disk whose formatting was cut short never changes again.
THEOREM HalfFormattedStays == CrashSpec => HalfFormattedForGood
<1>1. CInv /\ [CrashNext]_cvars =>
          [wreck = "half formatted" => UNCHANGED <<disk, dfat, wreck>>]_cvars
    BY HalfFormattedStep
<1> QED BY <1>1, CrashInvariance, PTL DEF CrashSpec, HalfFormattedForGood

\* The same of the entries whose chain meets no free cluster.
Complete(F, C) == \A y \in C : F[y] # EMPTY /\ (F[y] \in Clusters => F[y] \in C)
CompleteWholeIn(F, S) ==
    \A c \in FoldersIn(F, S) : \A i \in UsedIn(S, c) : ~S[c][i].attr =>
        \A C \in SUBSET Clusters : S[c][i].cluster \in C /\ Complete(F, C) => IsFile(F, S, S[c][i])

DiskWhole == IF wreck = "torn" THEN CompleteWholeIn(dfat, disk) ELSE WholeIn(dfat, disk)

\* The driver's view and the disk, once it has been taken off: whole files.
WInv ==
    fault = "none" => /\ power # "off" /\ wreck # "torn" => WholeIn(fat, store)
                      /\ power # "host" /\ ~TableOnDisk => DiskWhole

\* Only what allocated clusters hold matters to files.
LEMMA WholeOnlyAllocated ==
    ASSUME NEW F, NEW S, NEW T, WholeIn(F, S), \A c \in AllocIn(F) : T[c] = S[c],
           T[0] = S[0], T[1] = S[1]
    PROVE  WholeIn(F, T)
<1>1. FoldersIn(F, T) = FoldersIn(F, S) /\ FoldersIn(F, S) \subseteq AllocIn(F)
    BY DEF FoldersIn
<1>2. \A c \in FoldersIn(F, S) : T[c] = S[c] /\ UsedIn(T, c) = UsedIn(S, c)
    BY <1>1 DEF UsedIn
<1>3. \A y \in Clusters : F[y] # EMPTY => T[y] = S[y]
    <2>1. \A y \in Clusters : y >= 2 \/ y = 0 \/ y = 1
        BY Numbers DEF Clusters
    <2> QED BY <2>1 DEF AllocIn
<1>4. ASSUME NEW f, IsFile(F, S, f) PROVE IsFile(F, T, f)
    BY <1>3, <1>4, IsFileStays
<1> QED BY <1>1, <1>2, <1>4 DEF WholeIn

\* A file whose chain is complete under a part of the FAT is whole there.
LEMMA WholeInPart ==
    ASSUME NEW F, NEW G, NEW S, WholeIn(F, S), \A c \in Clusters : G[c] # EMPTY => G[c] = F[c]
    PROVE  CompleteWholeIn(G, S)
<1> SUFFICES ASSUME NEW c \in FoldersIn(G, S), NEW i \in UsedIn(S, c), ~S[c][i].attr,
                    NEW C \in SUBSET Clusters, S[c][i].cluster \in C, Complete(G, C)
             PROVE  IsFile(G, S, S[c][i])
    BY DEF CompleteWholeIn
<1>1. PICK f : f = S[c][i]
    OBVIOUS
<1>2. c \in FoldersIn(F, S)
    BY DEF FoldersIn, AllocIn
<1>3. IsFile(F, S, f)
    BY <1>1, <1>2 DEF WholeIn
<1>4. PICK m : m = ceil_div(f.filesize, ClusterSize)
    OBVIOUS
<1>5. PICK h : h = f.cluster
    OBVIOUS
<1>6. PICK K \in SUBSET Clusters, v \in Values : FileOn(F, S, K, h, m, v)
    BY <1>3, <1>4, <1>5 DEF IsFile
<1>7. PICK B \in SUBSET Clusters : B = K \cap C
    OBVIOUS
<1>8. \A y \in B : y \in K /\ y \in C /\ y \in Clusters /\ G[y] # EMPTY /\ G[y] = F[y]
                   /\ (G[y] \in Clusters => G[y] \in C)
    BY <1>7 DEF Complete
<1>9. ASSUME NEW y \in B
      PROVE  /\ G[y] # EMPTY
             /\ \E k \in 1 .. m :
                    /\ S[y] = <<v, k>>
                    /\ IF k = m THEN G[y] = EOF ELSE G[y] \in B /\ S[G[y]] = <<v, k + 1>>
  <2>1. y \in K /\ G[y] # EMPTY /\ G[y] = F[y]
    BY <1>8
  <2>2. PICK k \in 1 .. m : /\ S[y] = <<v, k>>
                            /\ IF k = m THEN F[y] = EOF ELSE F[y] \in K /\ S[F[y]] = <<v, k + 1>>
    BY <1>6, <2>1 DEF FileOn
  <2>3. F[y] \in K => G[y] \in B
    BY <1>7, <1>8, <2>1
  <2> QED BY <2>1, <2>2, <2>3
<1>10. m \in 1 .. ClusterMapSize /\ h \in B /\ S[h] = <<v, 1>> /\ \A y, z \in B : S[y] = S[z] => y = z
    BY <1>1, <1>5, <1>6, <1>7 DEF FileOn
<1>11. FileOn(G, S, B, h, m, v)
    BY <1>9, <1>10 DEF FileOn
<1> QED BY <1>1, <1>4, <1>5, <1>11 DEF IsFile

-----------------------------------------------------------------------------
(* WInv is inductive, given CInv.                                          *)

WithW == CInv /\ WInv

\* A disk of zeros has whole files.
LEMMA BlankDiskWhole ==
    ASSUME NEW F, NEW S, \A c \in Clusters : S[c] = ZeroTable
    PROVE  WholeIn(F, S)
<1>1. \A i \in Slots : S[ROOT][i] = ZeroEntry
    BY Numbers DEF ZeroTable
<1> QED BY <1>1, BlankWhole

\* A half-formatted disk has whole files.
LEMMA HalfDoneWhole ==
    ASSUME NEW F, NEW S, HalfDone(S)
    PROVE  WholeIn(F, S)
<1>1. \A i \in Slots : S[ROOT][i] = ZeroEntry
    BY Numbers DEF ZeroTable, HalfDone
<1> QED BY <1>1, BlankWhole DEF HalfDone

\* mkdir, in any phase that allows it.
LEMMA WriteFolderW ==
    ASSUME WithW, power # "off", wreck # "torn", fault = "none", fault' = "none", Image(fat, store, wreck),
           NEW d \in Parents, NEW n \in Names, NEW e \in Exts, WriteFolder(d, n, e)
    PROVE  WholeIn(fat', store')
<1>1. WholeIn(fat, store) /\ TypeOK
    BY DEF WithW, WInv, CInv, CrashTypeOK
<1>2. IsFolder(d)
    BY WriteCodeZero DEF WriteFolder, IsFolder
<1>3. Solid
    BY <1>1, <1>2, OnlySound
<1> QED BY <1>1, <1>3, WriteFolderWhole

\* A write of a file, in any phase that allows it.
LEMMA WriteFileW ==
    ASSUME WithW, power # "off", wreck # "torn", fault = "none", fault' = "none", Image(fat, store, wreck),
           NEW d \in Parents, NEW n \in Names, NEW e \in Exts,
           NEW b \in Sizes, NEW v \in Values, WriteFile(d, n, e, b, v)
    PROVE  WholeIn(fat', store')
<1>1. WholeIn(fat, store) /\ TypeOK
    BY DEF WithW, WInv, CInv, CrashTypeOK
<1>2. IsFolder(d)
    BY WriteCodeZero DEF WriteFile, IsFolder
<1>3. Solid
    BY <1>1, <1>2, OnlySound
<1> QED BY <1>1, <1>3, WriteFileWhole

\* WInv of the image the makefile creates.
LEMMA InitW == CrashInit => WInv
<1> SUFFICES ASSUME CrashInit PROVE WInv
    OBVIOUS
<1>1. power = "off" /\ wreck = "none" /\ \A c \in Clusters : disk[c] = ZeroTable
    BY DEF CrashInit
<1>2. WholeIn(dfat, disk)
    BY <1>1, BlankDiskWhole
<1> QED BY <1>1, <1>2 DEF WInv, DiskWhole

\* A boot keeps WInv.
LEMMA BootW ==
    ASSUME WithW, BootFormat \/ BootMount
    PROVE  WInv'
<1>1. /\ power = "off" /\ power' = "on" /\ fault = "none" /\ Off /\ ~TableOnDisk
      /\ wreck' = wreck /\ dfat' = dfat /\ disk' = disk
  <2>1. power = "off" /\ power' = "on" /\ fault = "none" /\ wreck' = wreck /\ dfat' = dfat /\ disk' = disk
    BY DEF BootFormat, BootMount
  <2>2. Off
    BY <2>1 DEF WithW, CInv, Idle, Hosted, Formatting, Writing, Deleting, Queued
  <2> QED BY <2>1, <2>2 DEF Off, TableOnDisk
<1>2. DiskWhole'
  <2>1. DiskWhole
    BY <1>1 DEF WithW, WInv
  <2> QED BY <1>1, <2>1 DEF DiskWhole
<1>3. CASE BootMount
  <2>1. fat' = dfat /\ store' = disk
    BY <1>1, <1>3 DEF BootMount, Off
  <2>2. wreck' # "torn" => WholeIn(fat', store')
    BY <1>1, <1>2, <2>1 DEF DiskWhole
  <2> QED BY <1>2, <2>2 DEF WInv
<1>4. CASE BootFormat
  <2>1. Formatting'
    BY <1>1, <1>4, BootFormatting DEF WithW, CInv
  <2>2. WholeIn(fat', store')
    BY <2>1, FormattedWhole DEF Formatting
  <2> QED BY <1>2, <2>2 DEF WInv
<1> QED BY <1>3, <1>4


\* A call of the driver keeps WInv.
LEMMA CallsW ==
    ASSUME WithW, Calls
    PROVE  WInv'
<1> SUFFICES ASSUME fault' = "none"
             PROVE  WholeIn(fat', store') /\ DiskWhole'
    BY DEF WInv
<1>1. /\ Ready /\ wreck' = wreck /\ disk' = disk /\ dfat' = dfat
    BY DEF Calls, SubmitWriteFolder, SubmitDelete, SubmitNothing, SubmitWriteFile, Submit
<1>2. power = "on" /\ io = <<>> /\ fault = "none" /\ wreck # "torn" /\ ~TableOnDisk
    BY <1>1 DEF Ready, TableOnDisk
<1>3. DiskWhole /\ WholeIn(fat, store)
    BY <1>2 DEF WithW, WInv
<1>4. DiskWhole'
    BY <1>1, <1>3 DEF DiskWhole
<1>5. TypeOK /\ Image(fat, store, wreck)
    BY <1>2, MountedIdle DEF WithW, Mounted, CInv, CrashTypeOK
<1>6. PICK d \in Parents, n \in Names, e \in Exts :
          \/ SubmitWriteFolder(d, n, e)
          \/ SubmitDelete(d, n, e)
          \/ \E b \in Sizes : SubmitNothing(d, n, e, b)
          \/ \E b \in Sizes, v \in Values : SubmitWriteFile(d, n, e, b, v)
    BY DEF Calls
<1>7. CASE \E b \in Sizes : SubmitNothing(d, n, e, b)
  <2>1. fat' = fat /\ store' = store
    BY <1>7 DEF SubmitNothing, WriteRefused, DeleteRefused, Read
  <2> QED BY <1>3, <1>4, <2>1
<1>8. CASE SubmitDelete(d, n, e)
  <2>1. Delete(d, n, e)
    BY <1>8 DEF SubmitDelete
  <2>2. IsFolder(d)
    BY <2>1 DEF Delete, DeleteCode
  <2>3. Solid
    BY <1>2, <1>5, <2>2, OnlySound
  <2> QED BY <1>3, <1>4, <1>5, <2>1, <2>3, DeleteWhole, ConstantsAssumption
<1>9. CASE SubmitWriteFolder(d, n, e)
  <2>1. WriteFolder(d, n, e)
    BY <1>9 DEF SubmitWriteFolder
  <2> QED BY <1>2, <1>4, <1>5, <2>1, WriteFolderW DEF WithW
<1>10. CASE \E b \in Sizes, v \in Values : SubmitWriteFile(d, n, e, b, v)
  <2>1. PICK b \in Sizes, v \in Values : WriteFile(d, n, e, b, v)
    BY <1>10 DEF SubmitWriteFile
  <2> QED BY <1>2, <1>4, <1>5, <2>1, WriteFileW DEF WithW
<1> QED BY <1>6, <1>7, <1>8, <1>9, <1>10

\* The inserter keeps WInv.
LEMMA InsertW ==
    ASSUME WithW, Insert
    PROVE  WInv'
<1>0. CInv /\ WInv /\ CrashTypeOK
    BY DEF WithW, CInv
<1>1. CASE InsertLoad
  <2>1. fault = "none" /\ power = "off" /\ power' = "host" /\ wreck # "torn" /\ wreck' = wreck
    BY <1>1 DEF InsertLoad
  <2>2. Off
    BY <1>0, <2>1 DEF CInv, Idle, Hosted, Formatting, Writing, Deleting, Queued
  <2>3. io = <<>> /\ store = disk
    BY <2>2 DEF Off
  <2>4. WholeIn(dfat, disk)
    BY <1>0, <2>1, <2>3 DEF WInv, TableOnDisk, DiskWhole
  <2>5. WholeIn(fat', store')
    <3>1. CASE disk[0] = SIGNATURE
        <4>1. fat' = dfat /\ store' = disk
            BY <1>1, <2>3, <3>1 DEF InsertLoad, IsEmptyStorage
        <4> QED BY <2>4, <4>1
    <3>2. CASE disk[0] # SIGNATURE
        <4>1. \A c \in Clusters : disk[c] = ZeroTable
            BY <2>2, <3>2, Signed DEF Blank
        <4>2. store' = [disk EXCEPT ![0] = SIGNATURE, ![ROOT] = RootTable]
            BY <1>1, <3>2 DEF InsertLoad, IsEmptyStorage
        <4>3. disk \in [Clusters -> Contents]
            BY <1>0 DEF CrashTypeOK
        <4>4. \A c \in Clusters : c # 0 /\ c # ROOT => store'[c] = ZeroTable
            BY <4>1, <4>2, <4>3
        <4>5. store'[ROOT] = RootTable
            BY <4>2, <4>3, Numbers
        <4>6. \A i \in Slots : i > 0 => store'[ROOT][i] = ZeroEntry
            BY <4>5, Numbers DEF RootTable, init_directory_table, ZeroTable
        <4> QED BY <4>4, <4>6, BlankWhole
    <3> QED BY <3>1, <3>2
  <2> QED BY <2>1, <2>5 DEF WInv
<1>2. CASE InsertSave
  <2>1. fault = "none" /\ power = "host" /\ power' = "off" /\ wreck' = wreck /\ disk' = store /\ dfat' = fat
    BY <1>2 DEF InsertSave
  <2>2. Hosted
    BY <1>0, <2>1 DEF CInv, Idle, Off, Formatting, Writing, Deleting, Queued
  <2>3. wreck # "torn" /\ WholeIn(fat, store)
    BY <1>0, <2>1, <2>2 DEF Hosted, WInv
  <2> QED BY <2>1, <2>3 DEF WInv, DiskWhole
<1>3. CASE \E d \in Parents, n \in Names, e \in Exts, b \in Sizes, v \in Values :
               InsertWrite(d, n, e, b, v)
  <2>1. PICK d \in Parents, n \in Names, e \in Exts, b \in Sizes, v \in Values :
               InsertWrite(d, n, e, b, v)
    BY <1>3
  <2>2. fault = "none" /\ power = "host" /\ power' = power
    BY <2>1 DEF InsertWrite
  <2>3. Hosted
    BY <1>0, <2>2 DEF CInv, Idle, Off, Formatting, Writing, Deleting, Queued
  <2>4. Image(fat, store, wreck) /\ wreck # "torn" /\ power # "off" /\ WholeIn(fat, store)
    BY <1>0, <2>2, <2>3 DEF Hosted, WInv
  <2>5. ASSUME fault' = "none" PROVE WholeIn(fat', store')
    <3>1. CASE WriteRefused(d, n, e, b)
        BY <2>4, <3>1 DEF WriteRefused
    <3>2. CASE WriteFolder(d, n, e)
        BY <2>2, <2>4, <2>5, <3>2, WriteFolderW
    <3>3. CASE WriteFile(d, n, e, b, v)
        BY <2>2, <2>4, <2>5, <3>3, WriteFileW
    <3> QED BY <2>1, <3>1, <3>2, <3>3 DEF InsertWrite
  <2> QED BY <2>2, <2>5 DEF WInv
<1> QED BY <1>1, <1>2, <1>3 DEF Insert

\* A power loss keeps WInv: of a write the complete files are whole, of a
\* delete all that are left.
LEMMA CrashW ==
    ASSUME WithW, Crash
    PROVE  WInv'
<1>0. CInv /\ WInv /\ CrashTypeOK
    BY DEF WithW, CInv
<1>1. /\ power = "on" /\ power' = "off" /\ wreck' = Wreck /\ disk' = disk /\ dfat' = dfat /\ fault' = fault
    BY DEF Crash
<1> SUFFICES ASSUME fault = "none"
             PROVE  IF Wreck = "torn" THEN CompleteWholeIn(dfat, disk) ELSE WholeIn(dfat, disk)
    BY <1>1 DEF WInv, DiskWhole
<1>2. Idle \/ Formatting \/ Writing \/ Deleting
    BY <1>0, <1>1 DEF CInv, Off, Hosted
<1>3. ASSUME TableOnDisk PROVE Writing \/ Deleting
  <2>1. ~Idle
    BY <1>3 DEF Idle, TableOnDisk
  <2>2. ~Formatting
    <3> SUFFICES ASSUME Formatting PROVE FALSE
        OBVIOUS
    <3>1. io # <<>> /\ io \in Seq(Writes) /\ io[Len(io)] = <<"cluster", ROOT>>
        BY DEF Formatting, Queued, ClusterWrite
    <3>2. Len(io) \in DOMAIN io
        BY <3>1, Rest
    <3> QED BY <1>3, <3>1, <3>2 DEF TableOnDisk
  <2> QED BY <1>2, <2>1, <2>2
<1>4. CASE ~TableOnDisk
  <2>1. DiskWhole
    BY <1>0, <1>1, <1>4 DEF WInv
  <2>2. Wreck = wreck \/ (Wreck = "half formatted" /\ op = "format")
    BY <1>4, Zenon DEF Wreck
  <2>3. op = "format" => wreck = "none"
    BY <1>2 DEF Idle, Formatting, Writing, Deleting
  <2> QED BY <2>1, <2>2, <2>3 DEF DiskWhole
<1>5. CASE TableOnDisk
  <2>1. disk = store /\ wreck \in {"none", "leak"}
    BY <1>0, <1>3, <1>5, TableThere DEF Writing, Deleting
  <2>2. WholeIn(fat, store)
    BY <1>0, <1>1, <2>1 DEF WInv
  <2>3. CASE Writing
    <3>1. Wreck = "torn"
        BY <1>5, <2>3, Zenon DEF Writing, Wreck
    <3>2. \A c \in Clusters : dfat[c] # EMPTY => dfat[c] = fat[c]
        BY <2>3 DEF Writing
    <3> QED BY <2>1, <2>2, <3>1, <3>2, WholeInPart
  <2>4. CASE Deleting
    <3>1. Wreck = "leak"
        BY <1>5, <2>4, Zenon DEF Deleting, Wreck
    <3>2. /\ \A c \in Clusters : fat[c] # EMPTY => dfat[c] = fat[c]
          /\ \A c \in FoldersIn(dfat, store) : fat[c] = EMPTY => UsedIn(store, c) = {}
        BY <2>4 DEF Deleting
    <3>3. ASSUME NEW c \in FoldersIn(dfat, store), NEW i \in UsedIn(store, c), ~store[c][i].attr
          PROVE  IsFile(dfat, store, store[c][i])
        <4>1. c \in FoldersIn(fat, store)
            BY <3>2 DEF FoldersIn, AllocIn
        <4>2. PICK f : f = store[c][i]
            OBVIOUS
        <4>3. IsFile(fat, store, f)
            BY <2>2, <3>3, <4>1, <4>2 DEF WholeIn
        <4>4. IsFile(dfat, store, f)
            BY <3>2, <4>3, IsFileStays
        <4> QED BY <4>2, <4>4
    <3> QED BY <2>1, <3>1, <3>3 DEF WholeIn
  <2> QED BY <1>3, <1>5, <2>3, <2>4
<1> QED BY <1>4, <1>5

\* A disk write keeps WInv.
LEMMA FlushW ==
    ASSUME WithW, Flush
    PROVE  WInv'
<1>0. CInv /\ WInv /\ CrashTypeOK
    BY DEF WithW, CInv
<1>1. power = "on" /\ io # <<>> /\ UNCHANGED <<fat, store, fault, power, wreck>>
    BY DEF Flush, vars
<1> SUFFICES ASSUME fault = "none"
             PROVE  (wreck # "torn" => WholeIn(fat, store)) /\ (~TableOnDisk' => DiskWhole')
    BY <1>1 DEF WInv
<1>2. Formatting \/ Writing \/ Deleting
    BY <1>0, <1>1 DEF CInv, Off, Idle, Hosted
<1>3. wreck \in {"none", "leak"}
    BY <1>2 DEF Formatting, Writing, Deleting
<1>4. WholeIn(fat, store)
    BY <1>0, <1>1, <1>3 DEF WInv
<1>5. ASSUME ~TableOnDisk' PROVE WholeIn(dfat', disk')
  <2>1. CASE Idle'
    BY <1>1, <1>4, <2>1 DEF Idle
  <2>2. CASE Formatting'
    <3>1. Blank(dfat', disk') \/ HalfDone(disk')
        BY <2>2 DEF Formatting
    <3> QED BY <3>1, BlankDiskWhole, HalfDoneWhole DEF Blank
  <2>3. CASE Aside
    <3>1. ~TableOnDisk
        BY <2>3 DEF Aside
    <3>2. WholeIn(dfat, disk)
        BY <1>0, <1>1, <1>3, <3>1 DEF WInv, DiskWhole
    <3>3. WholeIn(dfat, disk')
        BY <2>3, <3>2, WholeOnlyAllocated DEF Aside
    <3> QED BY <2>3, <3>3 DEF Aside
  <2> QED BY <1>0, <1>2, <1>5, <2>1, <2>2, <2>3, FlushFormatting, FlushWriting, FlushDeleting
<1> QED BY <1>1, <1>3, <1>4, <1>5 DEF DiskWhole

\* Stuttering keeps WInv.
LEMMA StutterW ==
    ASSUME WithW, UNCHANGED cvars
    PROVE  WInv'
BY DEF WithW, WInv, DiskWhole, TableOnDisk, cvars, vars

\* Every step keeps WInv.
LEMMA NextW == CInv /\ WInv /\ [CrashNext]_cvars => WInv'
BY BootW, CallsW, FlushW, CrashW, InsertW, StutterW DEF CrashNext, CrashStopped, WithW


\* Contents reach the disk before the entry that names them: after any
\* crashes, a file whose chain is complete on disk reads back as written.
THEOREM FilesReadBackWhole == CrashSpec => []CompleteFilesWhole
<1>1. CrashInit => CInv /\ WInv
    BY CrashInitInv, InitW
<1>2. CInv /\ WInv /\ [CrashNext]_cvars => CInv' /\ WInv'
    BY CrashNextInv, NextW
<1>3. CInv /\ WInv => CompleteFilesWhole
  <2> SUFFICES ASSUME CInv, WInv, Mounted, NEW c \in Folders, NEW i \in Used(c), ~store[c][i].attr,
                      <<c, i>> \notin Dangling
               PROVE  /\ Len(Walk(store[c][i].cluster)) = ceil_div(store[c][i].filesize, ClusterSize)
                      /\ \E v \in Values : \A k \in 1 .. Len(Walk(store[c][i].cluster)) :
                             store[Walk(store[c][i].cluster)[k]] = <<v, k>>
    BY DEF CompleteFilesWhole
  <2>1. PICK f : f = store[c][i]
    OBVIOUS
  <2>2. PICK m : m = ceil_div(f.filesize, ClusterSize)
    OBVIOUS
  <2>3. PICK h : h = f.cluster
    OBVIOUS
  <2>4. Idle /\ fat = dfat /\ store = disk /\ DiskWhole
    <3>1. Idle
        BY MountedIdle
    <3> QED BY <3>1 DEF Idle, WInv, TableOnDisk, Mounted
  <2>5. c \in FoldersIn(fat, store) /\ i \in UsedIn(store, c)
    BY SolidIs
  <2>6. h \in Clusters
    <3>1. store[c] \in Tables /\ i \in Slots
        BY DEF Folders, Used
    <3>2. f \in Entry
        BY <2>1, <3>1 DEF Tables
    <3> QED BY <2>3, <3>2 DEF Entry
  <2>7. IsFile(fat, store, f)
    <3>1. CASE wreck # "torn"
        BY <2>1, <2>4, <2>5, <3>1 DEF DiskWhole, WholeIn
    <3>2. CASE wreck = "torn"
        <4>1. \A y \in Chain(h) : fat[y] # EMPTY
            <5>1. <<c, i>> \in Folders \X Slots /\ <<c, i>>[1] = c /\ <<c, i>>[2] = i
                BY DEF Used
            <5> QED BY <2>1, <2>3, <5>1 DEF Dangling
        <4>2. PICK C \in SUBSET Clusters : C = Chain(h)
            BY <2>6, ChainLeast
        <4>3. h \in C /\ Complete(fat, C)
            BY <2>6, <4>1, <4>2, ChainLeast, ChainClosed DEF Complete, Closed
        <4>4. CompleteWholeIn(fat, store)
            BY <2>4, <3>2 DEF DiskWhole
        <4> QED BY <2>1, <2>3, <2>5, <4>3, <4>4 DEF CompleteWholeIn
    <3> QED BY <3>1, <3>2
  <2>8. PICK K \in SUBSET Clusters, v \in Values : FileOn(fat, store, K, h, m, v)
    BY <2>2, <2>3, <2>7 DEF IsFile
  <2>9. Len(Walk(h)) = m /\ \A k \in 1 .. m : store[Walk(h)[k]] = <<v, k>>
    BY <2>8, WalkWhole
  <2> QED BY <2>1, <2>2, <2>3, <2>9
<1> QED BY <1>1, <1>2, <1>3, PTL DEF CrashSpec
=============================================================================
