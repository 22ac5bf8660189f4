---------------------------- MODULE SearchProofs ----------------------------
(***************************************************************************)
(* The traversals list exactly what they look for, for every tree, every   *)
(* table size and every depth limit.                                       *)
(***************************************************************************)
EXTENDS Search, SequenceTheorems, FiniteSetTheorems, WellFoundedInduction, TLAPS

\* A non-empty set of naturals has a minimum: the least counterexample, where
\* a proof goes along the depth or the numbers of the folders.
LEMMA MinLemma ==
    ASSUME NEW S \in SUBSET Nat, S # {}
    PROVE  Min(S) \in S /\ \A y \in S : Min(S) <= y
<1> DEFINE R == {ss \in Nat \X Nat : ss[1] < ss[2]}
<1>1. R = OpToRel(<, Nat)
    BY Zenon DEF OpToRel
<1>2. IsWellFoundedOn(R, Nat)
    BY <1>1, NatLessThanWellFounded
<1> HIDE DEF R
<1>3. PICK x \in S : \A y \in S : ~(<<y, x>> \in R)
    BY <1>2, WFMin
<1>4. ASSUME NEW y \in S PROVE x <= y
  <2>1. x \in Nat /\ y \in Nat
    OBVIOUS
  <2>2. y < x => <<y, x>> \in R
    BY <2>1 DEF R
  <2>3. ~(y < x)
    BY <1>3, <2>2
  <2> QED BY <2>1, <2>3
<1> QED BY <1>4, Zenon DEF Min

-----------------------------------------------------------------------------
(* The tree.                                                               *)

Entries == [name : {Short, Long, Other}, ext : {"na", "low", "dir", "txt"},
            hit : BOOLEAN, child : Folders]
IsParent(p, d) == p \in FolderPlaces /\ EntryAt(p).child = d

\* What Init and the calls leave of the trees: every folder stands in one table,
\* that of a folder with a lower number, and nothing is in tables that stand
\* nowhere.
TreeOK ==
    /\ call \in Calls /\ target \in {Short, Long}
    /\ tables \in [Folders -> [Slots -> Entries]]
    /\ \A d \in Folders : tables[d][0] = Own
    /\ \A p \in FolderPlaces : p[1] < EntryAt(p).child
    /\ \A p, q \in FolderPlaces : EntryAt(p).child = EntryAt(q).child => p = q
    /\ \A p \in Present : p[1] = 0 \/ \E q \in FolderPlaces : IsParent(q, p[1])
    /\ \A p \in Places : EntryAt(p).hit => EntryAt(p).ext = "txt"

\* Above and Depth as functions of the tables.
PlacesIn(T) == {p \in Places : T[p[1]][p[2]].ext = "dir"}
ParentIn(T, d) == (CHOOSE p \in PlacesIn(T) : T[p[1]][p[2]].child = d)[1]
AboveIn(T) ==
    LET above[d \in Folders] ==
            {d} \cup IF \E p \in PlacesIn(T) : T[p[1]][p[2]].child = d
                     THEN above[ParentIn(T, d)] ELSE {}
    IN  above
DepthIn(T) ==
    LET depth[d \in Folders] ==
            IF \E p \in PlacesIn(T) : T[p[1]][p[2]].child = d
            THEN depth[ParentIn(T, d)] + 1 ELSE 0
    IN  depth
Up(d) == AboveIn(tables)[d]
Deep(d) == DepthIn(tables)[d]

-----------------------------------------------------------------------------
(* The inductive invariant.                                                *)

OpenAt(x) == <<frames[x].dir, frames[x].i>>
IsOpen(d) == \E x \in DOMAIN frames : frames[x].dir = d

\* The search goes into a folder down to the limit.
Went(p) ==
    /\ p \in FolderPlaces /\ Entered(EntryAt(p))
    /\ call = "search_dls" => Deep(p[1]) < Limit

Activations == [dir : Folders, i : 0 .. DirSize, local_found : BOOLEAN]

\* The activations are a path of the tree.
Path ==
    /\ frames \in Seq(Activations)
    /\ level = IF frames = <<>> THEN 0 ELSE Len(frames) - 1
    /\ frames # <<>> => frames[1].dir = 0
    /\ \A x \in DOMAIN frames :
           /\ Deep(frames[x].dir) = x - 1
           /\ Up(frames[x].dir) = {frames[y].dir : y \in 1 .. x}
           /\ frames[x].i >= First
    /\ \A x, y \in DOMAIN frames : x < y => frames[x].dir < frames[y].dir
    /\ \A x \in 1 .. Len(frames) - 1 :
           Went(OpenAt(x)) /\ EntryAt(OpenAt(x)).child = frames[x + 1].dir

\* vis is what the loops have passed: in the folders of the path what lies
\* before the loop variables, and all of every other folder that was entered.
Passed(vis) ==
    /\ vis \in SUBSET Places
    /\ \A x \in DOMAIN frames, i \in Slots \ {0} :
           <<frames[x].dir, i>> \in vis <=> i < frames[x].i
    /\ \A p \in Places :
           ~IsOpen(p[1]) =>
               (p \in vis <=> p[1] = 0 \/ \E q \in vis : Went(q) /\ IsParent(q, p[1]))

Match(vis, q) == q \in vis /\ ~Entered(EntryAt(q)) /\ Reported(EntryAt(q))
MatchBelow(vis, d) == \E q \in vis : Match(vis, q) /\ d \in Up(q[1])

\* found and local_found together say whether the folder has shown a match.
FoundSo(vis) ==
    /\ found \in BOOLEAN
    /\ Tracks /\ frames # <<>> => (FoundHere <=> MatchBelow(vis, Here.dir))
    /\ Tracks => \A x \in 1 .. Len(frames) - 1 :
           frames[x].local_found <=>
               \E q \in vis : /\ Match(vis, q) /\ frames[x].dir \in Up(q[1])
                              /\ frames[x + 1].dir \notin Up(q[1])

OnOpenPath(p) == \E x \in 1 .. Len(frames) - 1 : p = OpenAt(x)
Kept(vis, p) == p \in vis /\ Went(p) /\ (Tracks => MatchBelow(vis, EntryAt(p).child))
Lowest(vis, p) == /\ p \in vis /\ p \in FolderPlaces /\ ~Went(p) /\ call = "search_dls"
                  /\ MatchBelow(vis, p[1])

TextLines == [level : Nat, at : Places]

\* What the buffer lists.
Lines(vis) ==
    /\ buffer \in Seq(TextLines)
    /\ \A x, y \in DOMAIN buffer : buffer[x].at = buffer[y].at => x = y
    /\ \A p \in Places : Match(vis, p) \/ Kept(vis, p) \/ OnOpenPath(p) => p \in Listed
    /\ \A p \in Listed : Match(vis, p) \/ Kept(vis, p) \/ OnOpenPath(p) \/ Lowest(vis, p)

\* Behind the line of a folder of the path come only lines of what is in it.
Blocks ==
    \A x \in 1 .. Len(frames) - 1 : \E y \in DOMAIN buffer :
        /\ buffer[y].at = OpenAt(x)
        /\ \A z \in DOMAIN buffer : y < z => frames[x + 1].dir \in Up(buffer[z].at[1])

LevelsRight == \A x \in DOMAIN buffer : buffer[x].level = Deep(buffer[x].at[1])

Traversed(vis) == Passed(vis) /\ FoundSo(vis) /\ Lines(vis)
IInv ==
    /\ TreeOK /\ Path /\ Blocks /\ LevelsRight /\ ListingIsTree
    /\ \E vis \in SUBSET Places : Traversed(vis)

-----------------------------------------------------------------------------
(* Facts about trees.                                                      *)

\* The constants' types.
LEMMA Constants ==
    /\ FolderCount \in Nat /\ FolderCount > 0 /\ DirSize \in Nat /\ DirSize > 0
    /\ Limit \in Nat /\ Folders \subseteq Nat /\ 0 \in Folders
    /\ Slots \subseteq Nat /\ 0 \in Slots
BY SearchAssumption DEF Folders, Slots

\* A tree as Init builds it has the shape the traversals rely on.
LEMMA TreeShape ==
    ASSUME Init
    PROVE  TreeOK
<1>1. PICK where \in Placements(call) :
          \E name \in [DOMAIN where -> FolderNames(call)],
             leaf \in [Free(where) -> Leaves(call)] : tables = Tree(where, name, leaf)
    BY DEF Init
<1>2. PICK name \in [DOMAIN where -> FolderNames(call)],
           leaf \in [Free(where) -> Leaves(call)] : tables = Tree(where, name, leaf)
    BY <1>1
<1>3. PICK k \in 0 .. FolderCount - 1 : where \in [1 .. k -> Places] /\ IsTree(where)
    BY SearchAssumption DEF Placements
<1>4. call \in Calls /\ target \in {Short, Long}
    BY DEF Init
<1>5. Len(where) = k
    BY <1>3, IsASeq
<1>6. \A d, e \in 1 .. k : where[d] = where[e] => d = e
  <2>1. ASSUME NEW d \in 1 .. k, NEW e \in 1 .. k, d < e PROVE where[d] # where[e]
    <3>1. where[d] \in Places /\ Before(where[d], where[e])
        BY <1>3, <2>1 DEF IsTree
    <3>2. where[d][1] \in Nat /\ where[d][2] \in Nat
        BY <3>1, Constants DEF Places
    <3> QED BY <3>1, <3>2 DEF Before
  <2> QED BY <2>1
<1> DEFINE Put(d, i) == {e \in 1 .. k : where[e] = <<d, i>>}
<1>7. ASSUME NEW d \in Folders, NEW i \in Slots
      PROVE  tables[d][i] =
                 IF i = 0 THEN Own
                 ELSE IF Put(d, i) # {}
                      THEN LET e == CHOOSE e \in Put(d, i) : TRUE IN Folder(name[e], e)
                 ELSE IF <<d, i>> \in Free(where) THEN leaf[<<d, i>>] ELSE Empty
  <2>1. DOMAIN where = 1 .. k /\ DOMAIN leaf = Free(where)
    BY <1>3
  <2> QED BY <1>2, <2>1 DEF Tree
<1>8. \A e \in 1 .. k : Folder(name[e], e) \in Entries /\ e \in Folders
  <2>1. \A e \in 1 .. k : e \in Folders /\ name[e] \in FolderNames(call)
    <3>1. DOMAIN where = 1 .. k
        BY <1>3
    <3>2. \A e \in 1 .. k : e \in Folders
        BY Constants DEF Folders
    <3>3. \A e \in 1 .. k : name[e] \in FolderNames(call)
        BY <1>2, <3>1
    <3> QED BY <3>2, <3>3
  <2>2. FolderNames(call) \subseteq {Short, Long, Other}
    BY DEF FolderNames
  <2>3. \A e \in 1 .. k : e \in Folders /\ name[e] \in {Short, Long, Other}
    BY <2>1, <2>2, Zenon
  <2> HIDE DEF Folders
  <2> QED BY <2>3 DEF Folder, EntryOf, Entries
<1>9. \A p \in Free(where) : leaf[p] \in Entries /\ leaf[p].ext # "dir"
                             /\ (leaf[p].hit => leaf[p].ext = "txt")
  <2> DEFINE Good(l) == l \in Entries /\ l.ext # "dir" /\ (l.hit => l.ext = "txt")
  <2>1. /\ Good(File(Other, "txt", TRUE)) /\ Good(File(Other, "txt", FALSE))
        /\ Good(File(Short, "low", FALSE)) /\ Good(File(Short, "txt", FALSE))
        /\ Good(File(Long, "txt", FALSE)) /\ Good(File(Other, "low", FALSE)) /\ Good(Empty)
    BY Constants DEF File, Empty, EntryOf, Entries
  <2> HIDE DEF Good
  <2>2. \A l \in Leaves(call) : Good(l)
    BY <2>1, Zenon DEF Leaves
  <2>3. \A p \in Free(where) : leaf[p] \in Leaves(call)
    BY <1>2
  <2> QED BY <2>2, <2>3 DEF Good
<1>10. /\ Own \in Entries /\ Own.ext = "low" /\ Own.hit = FALSE
       /\ Empty \in Entries /\ Empty.ext = "na" /\ Empty.hit = FALSE
    BY Constants DEF Own, Empty, File, EntryOf, Entries
<1>11. \A e : Folder(name[e], e).ext = "dir" /\ Folder(name[e], e).hit = FALSE
              /\ Folder(name[e], e).child = e
    BY DEF Folder, EntryOf
<1> HIDE DEF Put
<1>12. ASSUME NEW p \in Places
       PROVE  /\ EntryAt(p) \in Entries
              /\ EntryAt(p).hit => EntryAt(p).ext = "txt"
              /\ EntryAt(p).ext = "dir" => EntryAt(p).child \in Put(p[1], p[2])
              /\ EntryAt(p).ext # "na" => Put(p[1], p[2]) # {} \/ p \in Free(where)
  <2>1. p[1] \in Folders /\ p[2] \in Slots /\ p[2] # 0 /\ p = <<p[1], p[2]>>
    BY DEF Places
  <2>2. CASE Put(p[1], p[2]) # {}
    <3>1. PICK e \in Put(p[1], p[2]) : tables[p[1]][p[2]] = Folder(name[e], e)
        BY <1>7, <2>1, <2>2
    <3>2. e \in 1 .. k
        BY DEF Put
    <3> QED BY <1>8, <1>11, <2>2, <3>1, <3>2 DEF EntryAt
  <2>3. CASE Put(p[1], p[2]) = {}
    BY <1>7, <1>9, <1>10, <2>1, <2>3 DEF EntryAt
  <2> QED BY <2>2, <2>3
<1>13. tables \in [Folders -> [Slots -> Entries]]
  <2>1. \A d \in Folders, i \in Slots : tables[d][i] \in Entries
    <3> TAKE d \in Folders, i \in Slots
    <3>1. CASE i = 0
        BY <1>7, <1>10, <3>1
    <3>2. CASE i # 0
        <4>1. <<d, i>> \in Places
            BY <3>2 DEF Places
        <4>2. EntryAt(<<d, i>>) = tables[d][i]
            BY DEF EntryAt
        <4> QED BY <1>12, <4>1, <4>2
    <3> QED BY <3>1, <3>2
  <2>2. tables = [d \in Folders |-> [i \in Slots |-> tables[d][i]]]
    BY <1>2 DEF Tree
  <2> QED BY <2>1, <2>2
<1>14. \A d \in Folders : tables[d][0] = Own
    BY <1>7, Constants
<1>15. ASSUME NEW p \in FolderPlaces
       PROVE  EntryAt(p).child \in 1 .. k /\ where[EntryAt(p).child] = p
    BY <1>12 DEF FolderPlaces, Put, Places
<1>16. \A p \in FolderPlaces : p[1] < EntryAt(p).child
    BY <1>3, <1>15 DEF IsTree
<1>17. \A p, q \in FolderPlaces : EntryAt(p).child = EntryAt(q).child => p = q
    BY <1>15
<1>18. ASSUME NEW e \in 1 .. k
       PROVE  where[e] \in FolderPlaces /\ EntryAt(where[e]).child = e
  <2>1. where[e] \in Places
    BY <1>3
  <2>2. where[e][1] \in Folders /\ where[e][2] \in Slots /\ where[e][2] # 0
        /\ where[e] = <<where[e][1], where[e][2]>>
    BY <2>1 DEF Places
  <2>3. Put(where[e][1], where[e][2]) = {e}
    BY <1>6, <2>2 DEF Put
  <2>4. tables[where[e][1]][where[e][2]] = Folder(name[e], e)
    BY <1>7, <2>2, <2>3
  <2> QED BY <2>1, <2>4, <1>11 DEF FolderPlaces, EntryAt
<1>19. ASSUME NEW p \in Present, p[1] # 0
       PROVE  \E q \in FolderPlaces : IsParent(q, p[1])
  <2>1. p \in Places /\ EntryAt(p).ext # "na" /\ p[1] \in Nat
    BY Constants DEF Present, Places
  <2>2. p[1] \in 1 .. k
    <3>1. CASE Put(p[1], p[2]) # {}
        <4>1. PICK e \in 1 .. k : where[e] = <<p[1], p[2]>>
            BY <3>1 DEF Put
        <4>2. p[1] < e
            BY <1>3, <4>1 DEF IsTree
        <4> QED BY <4>2, <2>1, <1>19
    <3>2. CASE p \in Free(where)
        BY <3>2, <2>1, <1>5, <1>19 DEF Free
    <3> QED BY <1>12, <2>1, <3>1, <3>2
  <2> QED BY <1>18, <2>2 DEF IsParent
<1> QED BY <1>4, <1>12, <1>13, <1>14, <1>16, <1>17, <1>19 DEF TreeOK

\* Every recursive definition over the parents has a solution, since a parent
\* has a lower number. The two instances that are needed:
LEMMA AboveExists ==
    ASSUME NEW S \in SUBSET Folders, NEW P \in [Folders -> Folders],
           \A d \in S : P[d] < d
    PROVE  \E f : f = [d \in Folders |-> {d} \cup IF d \in S THEN f[P[d]] ELSE {}]
<1> DEFINE Solves(f, n) ==
               f \in [0 .. n - 1 -> SUBSET Folders]
               /\ \A d \in 0 .. n - 1 : f[d] = {d} \cup IF d \in S THEN f[P[d]] ELSE {}
           Bad == {n \in 0 .. FolderCount : ~\E f : Solves(f, n)}
<1>1. Bad = {}
  <2> SUFFICES ASSUME Bad # {} PROVE FALSE
    OBVIOUS
  <2>1. Bad \in SUBSET Nat
    BY Constants
  <2>2. PICK n \in Bad : \A m \in Bad : n <= m
    <3> HIDE DEF Bad
    <3> QED BY <2>1, MinLemma
  <2>3. n # 0
    <3>1. Solves([d \in 0 .. 0 - 1 |-> {}], 0)
        OBVIOUS
    <3> QED BY <3>1
  <2>4. n - 1 \in 0 .. FolderCount /\ n - 1 \notin Bad /\ n \in 1 .. FolderCount
    <3> HIDE DEF Solves
    <3>1. n \in 0 .. FolderCount
        OBVIOUS
    <3>2. n - 1 \in 0 .. FolderCount /\ n \in 1 .. FolderCount
        BY <3>1, <2>3, Constants
    <3>3. ~(n <= n - 1)
        BY <3>1
    <3> QED BY <2>2, <3>2, <3>3
  <2>5. PICK f : Solves(f, n - 1)
    BY <2>4
  <2> DEFINE g == [d \in 0 .. n - 1 |->
                      IF d < n - 1 THEN f[d]
                      ELSE {d} \cup IF d \in S THEN f[P[d]] ELSE {}]
  <2>6. ASSUME NEW d \in 0 .. n - 1
        PROVE  d \in Folders /\ (d \in S => P[d] \in 0 .. n - 2 /\ P[d] < d)
    BY <2>4, Constants DEF Folders
  <2>7. g \in [0 .. n - 1 -> SUBSET Folders]
    <3>1. \A d \in 0 .. n - 1 : g[d] \in SUBSET Folders
        BY <2>4, <2>5, <2>6
    <3> QED BY <3>1
  <2>8. ASSUME NEW d \in 0 .. n - 1
        PROVE  g[d] = {d} \cup IF d \in S THEN g[P[d]] ELSE {}
    <3>1. d \in S => P[d] \in 0 .. n - 1 /\ P[d] < n - 1 /\ g[P[d]] = f[P[d]]
        BY <2>4, <2>6
    <3>2. CASE d < n - 1
        <4>1. g[d] = f[d] /\ d \in 0 .. (n - 1) - 1
            BY <3>2, <2>4
        <4> QED BY <2>5, <3>1, <4>1
    <3>3. CASE ~(d < n - 1)
        BY <3>1, <3>3
    <3> QED BY <3>2, <3>3
  <2>9. Solves(g, n)
    BY <2>7, <2>8
  <2> QED BY <2>9, <2>2
<1>2. PICK f : Solves(f, FolderCount)
  <2> HIDE DEF Solves
  <2>1. FolderCount \in 0 .. FolderCount
    BY Constants
  <2> QED BY <1>1, <2>1
<1>3. f = [d \in Folders |-> {d} \cup IF d \in S THEN f[P[d]] ELSE {}]
    BY <1>2 DEF Folders
<1> QED BY <1>3

\* A recursion over parents, which have lower numbers, has a solution.
LEMMA DepthExists ==
    ASSUME NEW S \in SUBSET Folders, NEW P \in [Folders -> Folders],
           \A d \in S : P[d] < d
    PROVE  \E f : f = [d \in Folders |-> IF d \in S THEN f[P[d]] + 1 ELSE 0]
<1> DEFINE Solves(f, n) ==
               f \in [0 .. n - 1 -> Nat]
               /\ \A d \in 0 .. n - 1 : f[d] = IF d \in S THEN f[P[d]] + 1 ELSE 0
           Bad == {n \in 0 .. FolderCount : ~\E f : Solves(f, n)}
<1>1. Bad = {}
  <2> SUFFICES ASSUME Bad # {} PROVE FALSE
    OBVIOUS
  <2>1. Bad \in SUBSET Nat
    BY Constants
  <2>2. PICK n \in Bad : \A m \in Bad : n <= m
    <3> HIDE DEF Bad
    <3> QED BY <2>1, MinLemma
  <2>3. n # 0
    <3>1. Solves([d \in 0 .. 0 - 1 |-> 0], 0)
        OBVIOUS
    <3> QED BY <3>1
  <2>4. n - 1 \in 0 .. FolderCount /\ n - 1 \notin Bad /\ n \in 1 .. FolderCount
    <3> HIDE DEF Solves
    <3>1. n \in 0 .. FolderCount
        OBVIOUS
    <3>2. n - 1 \in 0 .. FolderCount /\ n \in 1 .. FolderCount
        BY <3>1, <2>3, Constants
    <3>3. ~(n <= n - 1)
        BY <3>1
    <3> QED BY <2>2, <3>2, <3>3
  <2>5. PICK f : Solves(f, n - 1)
    BY <2>4
  <2> DEFINE g == [d \in 0 .. n - 1 |->
                      IF d < n - 1 THEN f[d] ELSE IF d \in S THEN f[P[d]] + 1 ELSE 0]
  <2>6. ASSUME NEW d \in 0 .. n - 1
        PROVE  d \in Folders /\ (d \in S => P[d] \in 0 .. n - 2 /\ P[d] < d)
    BY <2>4, Constants DEF Folders
  <2>7. g \in [0 .. n - 1 -> Nat]
    <3>1. \A d \in 0 .. n - 1 : g[d] \in Nat
        BY <2>4, <2>5, <2>6
    <3> QED BY <3>1
  <2>8. ASSUME NEW d \in 0 .. n - 1
        PROVE  g[d] = IF d \in S THEN g[P[d]] + 1 ELSE 0
    <3>1. d \in S => P[d] \in 0 .. n - 1 /\ P[d] < n - 1 /\ g[P[d]] = f[P[d]]
        BY <2>4, <2>6
    <3>2. CASE d < n - 1
        <4>1. g[d] = f[d] /\ d \in 0 .. (n - 1) - 1
            BY <3>2, <2>4
        <4> QED BY <2>5, <3>1, <4>1
    <3>3. CASE ~(d < n - 1)
        BY <3>1, <3>3
    <3> QED BY <3>2, <3>3
  <2>9. Solves(g, n)
    BY <2>7, <2>8
  <2> QED BY <2>9, <2>2
<1>2. PICK f : Solves(f, FolderCount)
  <2> HIDE DEF Solves
  <2>1. FolderCount \in 0 .. FolderCount
    BY Constants
  <2> QED BY <1>1, <2>1
<1>3. f = [d \in Folders |-> IF d \in S THEN f[P[d]] + 1 ELSE 0]
    BY <1>2 DEF Folders
<1> QED BY <1>3

HasPlace(d) == \E p \in FolderPlaces : IsParent(p, d)

\* Above and Depth are what their recursive definitions say.
LEMMA Unfolded ==
    ASSUME TreeOK
    PROVE  \A d \in Folders :
               /\ ~HasPlace(d) => Up(d) = {d} /\ Deep(d) = 0
               /\ \A p : IsParent(p, d) =>
                      Up(d) = {d} \cup Up(p[1]) /\ Deep(d) = Deep(p[1]) + 1
<1> DEFINE T == tables
           F == PlacesIn(T)
           S == {d \in Folders : \E p \in F : T[p[1]][p[2]].child = d}
           P == [d \in Folders |-> IF d \in S THEN ParentIn(T, d) ELSE 0]
<1>1. \A p : p \in F <=> p \in FolderPlaces
    BY DEF PlacesIn, FolderPlaces, EntryAt
<1>2. ASSUME NEW p, NEW d \in Folders, IsParent(p, d)
      PROVE  d \in S /\ P[d] = p[1] /\ p[1] \in Folders /\ p[1] < d /\ ParentIn(T, d) = p[1]
  <2>1. p \in F /\ T[p[1]][p[2]].child = d /\ p[1] < d /\ p[1] \in Folders
    BY <1>1, <1>2 DEF IsParent, EntryAt, TreeOK, FolderPlaces, Places
  <2>2. \A q \in F : T[q[1]][q[2]].child = d => q = p
    BY <1>1, <1>2 DEF IsParent, EntryAt, TreeOK
  <2>3. (CHOOSE q \in F : T[q[1]][q[2]].child = d) = p
    BY <2>1, <2>2
  <2>4. ParentIn(T, d) = p[1]
    BY <2>3 DEF ParentIn
  <2>5. d \in S
    BY <2>1
  <2> QED BY <2>1, <2>4, <2>5
<1>3. \A d \in S : HasPlace(d) /\ \E p : IsParent(p, d)
    BY <1>1 DEF HasPlace, IsParent, EntryAt
<1>4. S \in SUBSET Folders /\ P \in [Folders -> Folders] /\ \A d \in S : P[d] < d
  <2> HIDE DEF P, S
  <2>1. S \in SUBSET Folders
    BY DEF S
  <2>2. \A d \in S : P[d] < d /\ P[d] \in Folders
    BY <1>2, <1>3, <2>1
  <2>3. \A d \in Folders \ S : P[d] = 0
    BY DEF P
  <2>4. P = [d \in Folders |-> P[d]]
    BY DEF P
  <2> QED BY <2>1, <2>2, <2>3, <2>4, Constants
<1> HIDE DEF F, P, S, T
<1>5. AboveIn(T) = [d \in Folders |-> {d} \cup IF d \in S THEN AboveIn(T)[P[d]] ELSE {}]
  <2>1. PICK f : f = [d \in Folders |-> {d} \cup IF d \in S THEN f[P[d]] ELSE {}]
    BY <1>4, AboveExists
  <2> DEFINE Def(h) == [d \in Folders |-> {d} \cup
                           IF \E p \in F : T[p[1]][p[2]].child = d
                           THEN h[ParentIn(T, d)] ELSE {}]
  <2>2. ASSUME NEW h PROVE Def(h) = [d \in Folders |-> {d} \cup IF d \in S THEN h[P[d]] ELSE {}]
    <3>1. \A d \in Folders : d \in S <=> \E p \in F : T[p[1]][p[2]].child = d
        BY DEF S
    <3>2. \A d \in S : d \in Folders /\ P[d] = ParentIn(T, d)
        BY DEF P, S
    <3> QED BY <3>1, <3>2
  <2>3. f = Def(f)
    BY <2>1, <2>2
  <2>4. AboveIn(T) = CHOOSE h : h = Def(h)
    BY Zenon DEF AboveIn, F
  <2> HIDE DEF Def
  <2>5. AboveIn(T) = Def(AboveIn(T))
    BY <2>3, <2>4
  <2> QED BY <2>5, <2>2
<1>6. DepthIn(T) = [d \in Folders |-> IF d \in S THEN DepthIn(T)[P[d]] + 1 ELSE 0]
  <2>1. PICK f : f = [d \in Folders |-> IF d \in S THEN f[P[d]] + 1 ELSE 0]
    BY <1>4, DepthExists
  <2> DEFINE Def(h) == [d \in Folders |->
                           IF \E p \in F : T[p[1]][p[2]].child = d
                           THEN h[ParentIn(T, d)] + 1 ELSE 0]
  <2>2. ASSUME NEW h PROVE Def(h) = [d \in Folders |-> IF d \in S THEN h[P[d]] + 1 ELSE 0]
    <3>1. \A d \in Folders : d \in S <=> \E p \in F : T[p[1]][p[2]].child = d
        BY DEF S
    <3>2. \A d \in S : d \in Folders /\ P[d] = ParentIn(T, d)
        BY DEF P, S
    <3> QED BY <3>1, <3>2
  <2>3. f = Def(f)
    BY <2>1, <2>2
  <2>4. DepthIn(T) = CHOOSE h : h = Def(h)
    BY Zenon DEF DepthIn, F
  <2> HIDE DEF Def
  <2>5. DepthIn(T) = Def(DepthIn(T))
    BY <2>3, <2>4
  <2> QED BY <2>5, <2>2
<1>7. ASSUME NEW d \in Folders
      PROVE  /\ Up(d) = {d} \cup IF d \in S THEN Up(P[d]) ELSE {}
             /\ Deep(d) = IF d \in S THEN Deep(P[d]) + 1 ELSE 0
    BY <1>5, <1>6 DEF Up, Deep, T
<1> QED BY <1>2, <1>3, <1>7

\* What holds for a folder when it holds for those with lower numbers holds
\* for all.
LEMMA FolderInduction ==
    ASSUME NEW Q \in SUBSET Folders,
           \A d \in Folders : (\A e \in Folders : e < d => e \in Q) => d \in Q
    PROVE  Q = Folders
<1> SUFFICES ASSUME Folders \ Q # {} PROVE FALSE
    OBVIOUS
<1>1. Folders \ Q \in SUBSET Nat
    BY Constants
<1>2. PICK d \in Folders \ Q : \A e \in Folders \ Q : d <= e
    BY <1>1, MinLemma
<1>3. \A e \in Folders : e < d => e \in Q
    BY <1>2, Constants
<1> QED BY <1>3

\* The folders above a folder have lower numbers, lie less deep and have no
\* others above them.
UpFacts ==
    /\ \A d \in Folders : Up(d) \in SUBSET Folders /\ d \in Up(d) /\ Deep(d) \in Nat
    /\ \A d \in Folders : \A e \in Up(d) :
           e <= d /\ Deep(e) <= Deep(d) /\ Up(e) \subseteq Up(d)
    /\ Up(0) = {0} /\ Deep(0) = 0
    /\ \A p \in FolderPlaces :
           /\ p \in Places /\ p[1] \in Folders /\ EntryAt(p).child \in Folders
           /\ p[1] < EntryAt(p).child
           /\ Up(EntryAt(p).child) = {EntryAt(p).child} \cup Up(p[1])
           /\ Deep(EntryAt(p).child) = Deep(p[1]) + 1
    /\ \A d \in Folders : ~HasPlace(d) => Up(d) = {d} /\ Deep(d) = 0

\* Ancestors and depths in a tree of folders.
LEMMA UpIsOrder ==
    ASSUME TreeOK
    PROVE  UpFacts
<1>1. ASSUME NEW p \in FolderPlaces
      PROVE  /\ p \in Places /\ p[1] \in Folders /\ EntryAt(p).child \in Folders
             /\ p[1] < EntryAt(p).child /\ IsParent(p, EntryAt(p).child)
  <2>1. p \in Places /\ p[1] \in Folders /\ p[2] \in Slots
    BY DEF FolderPlaces, Places
  <2>2. EntryAt(p) \in Entries
    BY <2>1 DEF TreeOK, EntryAt
  <2> QED BY <2>1, <2>2 DEF Entries, IsParent, TreeOK
<1>2. ASSUME NEW p \in FolderPlaces
      PROVE  /\ Up(EntryAt(p).child) = {EntryAt(p).child} \cup Up(p[1])
             /\ Deep(EntryAt(p).child) = Deep(p[1]) + 1
  <2>1. PICK c : c = EntryAt(p).child
    OBVIOUS
  <2>2. c \in Folders /\ IsParent(p, c)
    BY <1>1, <2>1 DEF IsParent
  <2>3. Up(c) = {c} \cup Up(p[1]) /\ Deep(c) = Deep(p[1]) + 1
    BY <2>2, Unfolded
  <2> QED BY <2>1, <2>3
<1>3. \A d \in Folders : ~HasPlace(d) => Up(d) = {d} /\ Deep(d) = 0
    BY Unfolded
<1>4. ~HasPlace(0)
  <2>1. \A p \in FolderPlaces : EntryAt(p).child # 0
    <3> TAKE p \in FolderPlaces
    <3>1. p[1] \in Nat /\ p[1] < EntryAt(p).child
        BY <1>1, Constants
    <3> QED BY <3>1
  <2> QED BY <2>1, Zenon DEF HasPlace, IsParent
<1> DEFINE Q == {d \in Folders :
                    /\ Up(d) \in SUBSET Folders /\ d \in Up(d) /\ Deep(d) \in Nat
                    /\ \A e \in Up(d) : e <= d /\ Deep(e) <= Deep(d) /\ Up(e) \subseteq Up(d)}
<1>5. ASSUME NEW d \in Folders, \A e \in Folders : e < d => e \in Q
      PROVE  d \in Q
  <2>1. CASE ~HasPlace(d)
    BY <1>3, <2>1, Constants
  <2>2. CASE HasPlace(d)
    <3>1. PICK p \in FolderPlaces : EntryAt(p).child = d
        BY <2>2 DEF HasPlace, IsParent
    <3>2. p[1] \in Folders /\ p[1] < d /\ p[1] \in Q
        BY <1>1, <3>1, <1>5
    <3>3. Up(d) = {d} \cup Up(p[1]) /\ Deep(d) = Deep(p[1]) + 1
        BY <1>2, <3>1
    <3>4. d \in Nat /\ p[1] \in Nat
        BY <3>2, Constants
    <3>5. /\ Up(p[1]) \in SUBSET Folders /\ Deep(p[1]) \in Nat
          /\ \A e \in Up(p[1]) : e <= p[1] /\ Deep(e) <= Deep(p[1]) /\ Up(e) \subseteq Up(p[1])
        BY <3>2
    <3>6. Up(d) \in SUBSET Folders /\ d \in Up(d) /\ Deep(d) \in Nat
        BY <3>3, <3>5
    <3>7. ASSUME NEW e \in Up(d)
          PROVE  e <= d /\ Deep(e) <= Deep(d) /\ Up(e) \subseteq Up(d)
      <4>1. CASE e = d
        BY <4>1, <3>4, <3>6
      <4>2. CASE e # d
        <5>1. e \in Up(p[1]) /\ e \in Folders /\ e \in Nat
            BY <4>2, <3>3, <3>5, Constants
        <5>2. e <= d /\ Up(e) \subseteq Up(d)
            BY <5>1, <3>2, <3>3, <3>4, <3>5
        <5>3. Deep(e) \in Nat
            <6>1. e < d
                BY <5>1, <3>2, <3>4, <3>5
            <6> QED BY <6>1, <5>1, <1>5
        <5>4. Deep(e) <= Deep(d)
            BY <5>1, <5>3, <3>3, <3>5
        <5> QED BY <5>2, <5>4
      <4> QED BY <4>1, <4>2
    <3> QED BY <3>6, <3>7
  <2> QED BY <2>1, <2>2
<1>6. Q = Folders
  <2> HIDE DEF Q
  <2>1. Q \in SUBSET Folders
    BY DEF Q
  <2> QED BY <1>5, <2>1, FolderInduction
<1>7. \A d \in Folders : d \in Q
    BY <1>6
<1>8. /\ \A d \in Folders : Up(d) \in SUBSET Folders /\ d \in Up(d) /\ Deep(d) \in Nat
      /\ \A d \in Folders : \A e \in Up(d) :
           e <= d /\ Deep(e) <= Deep(d) /\ Up(e) \subseteq Up(d)
    BY <1>7
<1> QED BY <1>1, <1>2, <1>3, <1>4, <1>8, Constants DEF UpFacts

\* The model's ancestors and depths are those of its tables.
LEMMA AboveIsUp == Above = AboveIn(tables) /\ Depth = DepthIn(tables)
BY Zenon DEF Above, AboveIn, Depth, DepthIn, FolderPlaces, PlacesIn, EntryAt, Parent, ParentIn

-----------------------------------------------------------------------------
(* Steps.                                                                  *)

\* A call changes nothing in the tree, so what the tree says stays.
LEMMA Static ==
    ASSUME UNCHANGED inputs
    PROVE  /\ call' = call /\ target' = target /\ tables' = tables
           /\ First' = First /\ Tracks' = Tracks /\ FolderPlaces' = FolderPlaces /\ Present' = Present
           /\ \A d : Up(d)' = Up(d) /\ Deep(d)' = Deep(d)
           /\ \A p : EntryAt(p)' = EntryAt(p)
           /\ \A e : Entered(e)' = Entered(e) /\ Reported(e)' = Reported(e)
           /\ \A p : Went(p)' = Went(p)
           /\ \A p, d : IsParent(p, d)' = IsParent(p, d)
<1>1. call' = call /\ target' = target /\ tables' = tables
    BY DEF inputs
<1>2. First' = First /\ Tracks' = Tracks /\ FolderPlaces' = FolderPlaces /\ Present' = Present
    BY <1>1 DEF First, Tracks, FolderPlaces, Present, EntryAt
<1>3. \A d : Up(d)' = Up(d) /\ Deep(d)' = Deep(d)
    BY <1>1 DEF Up, Deep
<1>4. \A p : EntryAt(p)' = EntryAt(p)
    BY <1>1 DEF EntryAt
<1>5. \A e : Entered(e)' = Entered(e) /\ Reported(e)' = Reported(e)
    BY <1>1, Zenon DEF Entered, Reported, IsTarget
<1>6. \A p, d : IsParent(p, d)' = IsParent(p, d)
    BY <1>2, <1>4 DEF IsParent
<1>7. \A p : Went(p)' = Went(p)
    BY <1>1, Zenon DEF Went, FolderPlaces, EntryAt, Deep, Entered, IsTarget
<1> QED BY <1>1, <1>2, <1>3, <1>4, <1>5, <1>6, <1>7


Cur == <<Here.dir, Here.i>>

\* The activation on top of the recursion.
LEMMA HereFacts ==
    ASSUME TreeOK, Path, frames # <<>>
    PROVE  /\ Top \in Nat /\ Top >= 1 /\ Top = Len(frames) /\ DOMAIN frames = 1 .. Top
           /\ Here = frames[Top] /\ Here \in Activations
           /\ Here.dir \in Folders /\ Here.i \in 0 .. DirSize /\ Here.local_found \in BOOLEAN
           /\ level = Top - 1 /\ Deep(Here.dir) = level
           /\ \A x \in 1 .. Top : frames[x] \in Activations /\ frames[x].dir \in Folders
           /\ \A x \in 1 .. Top : frames[x].dir \in Up(Here.dir)
<1>1. frames \in Seq(Activations) /\ frames # <<>>
    BY DEF Path
<1>2. Top \in Nat /\ Top >= 1 /\ Top = Len(frames) /\ DOMAIN frames = 1 .. Top
    BY <1>1 DEF Top
<1>3. \A x \in 1 .. Top : frames[x] \in Activations
    BY <1>1, <1>2
<1>4. \A r \in Activations : r.dir \in Folders /\ r.i \in 0 .. DirSize /\ r.local_found \in BOOLEAN
    BY DEF Activations
<1>5. Here = frames[Top] /\ Here \in Activations
    BY <1>2, <1>3 DEF Here
<1>6. level = Top - 1
    BY <1>2 DEF Path
<1>7. Deep(Here.dir) = level /\ Up(Here.dir) = {frames[y].dir : y \in 1 .. Top}
  <2>1. Top \in DOMAIN frames
    BY <1>2
  <2>2. Deep(frames[Top].dir) = Top - 1 /\ Up(frames[Top].dir) = {frames[y].dir : y \in 1 .. Top}
    BY <2>1 DEF Path
  <2> QED BY <2>2, <1>5, <1>6
<1> QED BY <1>2, <1>3, <1>4, <1>5, <1>6, <1>7

\* Entry 0 is neither entered nor reported, so what is has a place.
LEMMA CurrentPlace ==
    ASSUME TreeOK, Path, InLoop
    PROVE  /\ Here.dir \in Folders /\ Here.i \in Slots /\ Current = EntryAt(Cur)
           /\ Cur[1] = Here.dir /\ Cur[2] = Here.i
           /\ Here.i # 0 => Cur \in Places
           /\ Entered(Current) => Cur \in FolderPlaces
           /\ ~Entered(Current) /\ Reported(Current) => Cur \in Places
<1>1. Here.dir \in Folders /\ Here.i \in Slots /\ Here.i >= First
  <2>1. Here.i \in 0 .. DirSize /\ Here.i < DirSize /\ Top \in DOMAIN frames /\ Here = frames[Top]
        /\ Here.dir \in Folders
    BY HereFacts DEF InLoop
  <2>2. Here.i >= First
    BY <2>1 DEF Path
  <2> QED BY <2>1, <2>2, Constants DEF Slots
<1>2. Current = EntryAt(Cur) /\ Cur[1] = Here.dir /\ Cur[2] = Here.i
    BY DEF Current, EntryAt, Cur
<1>3. Here.i # 0 => Cur \in Places
    BY <1>1 DEF Cur, Places
<1>4. ASSUME Here.i = 0
      PROVE  ~Entered(Current) /\ ~Reported(Current)
  <2>1. Current.ext = "low"
    BY <1>1, <1>4 DEF Current, TreeOK, Own, File, EntryOf
  <2>2. call \notin {"list_dir_content", "print"}
    BY <1>1, <1>4 DEF First
  <2>3. ~Entered(Current)
    BY <2>1 DEF Entered
  <2>4. ~Reported(Current)
    <3>1. Current.ext \notin {"dir", "txt"}
        BY <2>1
    <3>2. call \in {"print_path_to_dir", "search_dls"}
        BY <2>2 DEF TreeOK, Calls
    <3> HIDE DEF Current
    <3>3. CASE call = "print_path_to_dir"
        BY <3>1, <3>3, Zenon DEF Reported
    <3>4. CASE call = "search_dls"
        BY <3>1, <3>4, Zenon DEF Reported
    <3> QED BY <3>2, <3>3, <3>4
  <2> QED BY <2>3, <2>4
<1>5. Entered(Current) => Cur \in FolderPlaces
    BY <1>2, <1>3, <1>4 DEF Entered, FolderPlaces
<1>6. ~Entered(Current) /\ Reported(Current) => Cur \in Places
    BY <1>3, <1>4
<1> QED BY <1>1, <1>2, <1>3, <1>5, <1>6

\* The step to the next entry of the same folder.
Over ==
    /\ frames' \in Seq(Activations) /\ Len(frames') = Len(frames)
    /\ \A x \in 1 .. Top : frames'[x].dir = frames[x].dir
    /\ \A x \in 1 .. Top - 1 : frames'[x] = frames[x]
    /\ frames'[Top].i = frames[Top].i + 1

\* Changing one field of an activation.
LEMMA ActivationFields ==
    \A r \in Activations : \A v :
        /\ [r EXCEPT !.i = v] = [dir |-> r.dir, i |-> v, local_found |-> r.local_found]
        /\ [r EXCEPT !.local_found = v] = [dir |-> r.dir, i |-> r.i, local_found |-> v]
BY DEF Activations

\* The loop goes on to the next slot.
LEMMA AdvancedOver ==
    ASSUME TreeOK, Path, InLoop
    PROVE  /\ frames' = Advanced(frames) => Over /\ frames'[Top].local_found = Here.local_found
           /\ frames' = Advanced(Remembered) /\ found \in BOOLEAN =>
                  Over /\ frames'[Top].local_found = FoundHere
<1>1. /\ Top \in Nat /\ Top >= 1 /\ Top = Len(frames) /\ DOMAIN frames = 1 .. Top
      /\ Here = frames[Top] /\ \A x \in 1 .. Top : frames[x] \in Activations
    BY HereFacts DEF InLoop
<1>2. frames \in Seq(Activations)
    BY DEF Path
<1>3. Here.i + 1 \in 0 .. DirSize /\ Here \in Activations
    BY <1>1, CurrentPlace, Constants DEF Slots
<1>4. ASSUME NEW b \in BOOLEAN,
             NEW g, g = [frames EXCEPT ![Top] = [dir |-> Here.dir, i |-> Here.i + 1, local_found |-> b]],
             frames' = g
      PROVE  Over /\ frames'[Top].local_found = b
  <2>1. [dir |-> Here.dir, i |-> Here.i + 1, local_found |-> b] \in Activations
    BY <1>3 DEF Activations
  <2>2. g \in Seq(Activations) /\ Len(g) = Len(frames)
    BY <1>1, <1>2, <1>4, <2>1, ExceptSeq
  <2>3. \A x \in 1 .. Top : g[x] = IF x = Top
             THEN [dir |-> Here.dir, i |-> Here.i + 1, local_found |-> b] ELSE frames[x]
    BY <1>1, <1>4
  <2> QED BY <1>1, <1>4, <2>2, <2>3 DEF Over
<1>5. Here = [dir |-> Here.dir, i |-> Here.i, local_found |-> Here.local_found]
      /\ Here.local_found \in BOOLEAN
    BY <1>3 DEF Activations
<1>6. ASSUME frames' = Advanced(frames)
      PROVE  Over /\ frames'[Top].local_found = Here.local_found
  <2>1. Advanced(frames) = [frames EXCEPT ![Top] =
            [dir |-> Here.dir, i |-> Here.i + 1, local_found |-> Here.local_found]]
    <3>1. Advanced(frames) = [frames EXCEPT ![Top] = [Here EXCEPT !.i = Here.i + 1]]
        BY <1>1 DEF Advanced
    <3>2. [Here EXCEPT !.i = Here.i + 1] =
              [dir |-> Here.dir, i |-> Here.i + 1, local_found |-> Here.local_found]
        BY <1>3, ActivationFields, Zenon
    <3> QED BY <3>1, <3>2
  <2> QED BY <2>1, <1>4, <1>5, <1>6
<1>7. ASSUME frames' = Advanced(Remembered), found \in BOOLEAN
      PROVE  Over /\ frames'[Top].local_found = FoundHere
  <2>1. Remembered = [frames EXCEPT ![Top] =
            [dir |-> Here.dir, i |-> Here.i, local_found |-> FoundHere]]
    <3>1. Remembered = [frames EXCEPT ![Top] = [Here EXCEPT !.local_found = Here.local_found \/ found]]
        BY <1>1 DEF Remembered
    <3>2. FoundHere = (Here.local_found \/ found)
        BY <1>5, <1>7 DEF FoundHere
    <3> QED BY <1>3, <3>1, <3>2, ActivationFields
  <2>2. FoundHere \in BOOLEAN
    BY <1>5, <1>7 DEF FoundHere
  <2>3. Len(Remembered) = Top
    BY <1>1, <1>2, <2>1
  <2>4. Advanced(Remembered) = [frames EXCEPT ![Top] =
            [dir |-> Here.dir, i |-> Here.i + 1, local_found |-> FoundHere]]
    <3> DEFINE r == [dir |-> Here.dir, i |-> Here.i, local_found |-> FoundHere]
    <3>1. Remembered[Top] = r
        BY <1>1, <2>1
    <3>2. r \in Activations /\ r.i = Here.i /\ r.dir = Here.dir /\ r.local_found = FoundHere
        BY <1>3, <2>2 DEF Activations
    <3> HIDE DEF r
    <3>3. Advanced(Remembered) = [Remembered EXCEPT ![Top] = [r EXCEPT !.i = r.i + 1]]
        BY <2>3, <3>1 DEF Advanced
    <3>4. Advanced(Remembered) = [Remembered EXCEPT ![Top] =
              [dir |-> Here.dir, i |-> Here.i + 1, local_found |-> FoundHere]]
        <4>1. [r EXCEPT !.i = r.i + 1] =
                  [dir |-> r.dir, i |-> r.i + 1, local_found |-> r.local_found]
            BY <3>2, ActivationFields, Zenon
        <4> QED BY <3>2, <3>3, <4>1
    <3> QED BY <1>1, <2>1, <3>4
  <2> QED BY <2>2, <2>4, <1>4, <1>7
<1> QED BY <1>6, <1>7

\* Going on keeps the recursion a path of the tree.
LEMMA OverPath ==
    ASSUME TreeOK, Path, InLoop, UNCHANGED inputs, level' = level, Over
    PROVE  Path'
<1>1. /\ Top \in Nat /\ Top >= 1 /\ Top = Len(frames) /\ DOMAIN frames = 1 .. Top
      /\ Here = frames[Top] /\ Here.i \in 0 .. DirSize /\ level = Top - 1
    BY HereFacts DEF InLoop
<1>2. /\ frames' \in Seq(Activations) /\ Len(frames') = Top /\ DOMAIN frames' = 1 .. Top
      /\ \A x \in 1 .. Top : frames'[x].dir = frames[x].dir
      /\ \A x \in 1 .. Top - 1 : frames'[x] = frames[x]
      /\ frames'[Top].i = Here.i + 1
    BY <1>1 DEF Over
<1>3. frames' # <<>> /\ frames # <<>>
    BY <1>1, <1>2
<1>4. frames'[1].dir = 0
    BY <1>1, <1>2, <1>3 DEF Path
<1>5. \A x \in 1 .. Top : /\ Deep(frames'[x].dir) = x - 1
                          /\ Up(frames'[x].dir) = {frames'[y].dir : y \in 1 .. x}
  <2> TAKE x \in 1 .. Top
  <2>1. PICK d : d = frames[x].dir
    OBVIOUS
  <2>2. Deep(d) = x - 1 /\ Up(d) = {frames[y].dir : y \in 1 .. x}
    BY <1>1, <2>1 DEF Path
  <2>3. {frames[y].dir : y \in 1 .. x} = {frames'[y].dir : y \in 1 .. x}
    BY <1>1, <1>2
  <2> QED BY <1>2, <2>1, <2>2, <2>3
<1>6. \A x \in 1 .. Top : frames'[x].i >= First
  <2> TAKE x \in 1 .. Top
  <2>1. frames[x].i >= First /\ First \in {0, 1}
    BY <1>1 DEF Path, First
  <2> QED BY <1>1, <1>2, <2>1
<1>7. \A x, y \in 1 .. Top : x < y => frames'[x].dir < frames'[y].dir
    BY <1>1, <1>2 DEF Path
<1>8. \A x \in 1 .. Top - 1 : OpenAt(x)' = OpenAt(x) /\ frames'[x + 1].dir = frames[x + 1].dir
    BY <1>1, <1>2 DEF OpenAt
<1>9. \A x \in 1 .. Top - 1 :
          Went(OpenAt(x)) /\ EntryAt(OpenAt(x)).child = frames[x + 1].dir
    BY <1>1 DEF Path
<1>10. level' = IF frames' = <<>> THEN 0 ELSE Len(frames') - 1
    BY <1>1, <1>2, <1>3
<1>11. \A x \in DOMAIN frames' :
           /\ Deep(frames[x].dir)' = x - 1
           /\ Up(frames[x].dir)' = {frames'[y].dir : y \in 1 .. x}
           /\ frames'[x].i >= First'
    BY <1>2, <1>5, <1>6, Static DEF Up, Deep
<1>12. \A x \in 1 .. Len(frames') - 1 :
           Went(OpenAt(x))' /\ (EntryAt(OpenAt(x)).child)' = frames'[x + 1].dir
  <2> TAKE x \in 1 .. Len(frames') - 1
  <2>1. PICK p : p = OpenAt(x)
    OBVIOUS
  <2>2. p = OpenAt(x)' /\ Went(p) /\ EntryAt(p).child = frames'[x + 1].dir
    BY <1>2, <1>8, <1>9, <2>1
  <2>3. Went(p)' /\ EntryAt(p)'.child = frames'[x + 1].dir
    BY <2>2, Static
  <2> QED BY <2>2, <2>3 DEF Went, EntryAt, Deep
<1> QED BY <1>2, <1>4, <1>7, <1>10, <1>11, <1>12 DEF Path

\* The entry at the loop variable has not been passed, nor has it a line yet.
LEMMA CurrentIsNew ==
    ASSUME TreeOK, Path, InLoop, NEW vis, Passed(vis)
    PROVE  Cur \notin vis /\ ~OnOpenPath(Cur)
<1>1. /\ Top \in Nat /\ Top >= 1 /\ Top = Len(frames) /\ DOMAIN frames = 1 .. Top
      /\ Here = frames[Top] /\ Here.i \in 0 .. DirSize /\ Here.dir \in Folders
      /\ \A x \in 1 .. Top : frames[x].dir \in Folders
    BY HereFacts DEF InLoop
<1>2. Cur \notin vis
  <2>1. CASE Here.i = 0
    BY <2>1, Constants DEF Passed, Places, Cur
  <2>2. CASE Here.i # 0
    BY <2>2, <1>1, CurrentPlace DEF Passed, Cur
  <2> QED BY <2>1, <2>2
<1>3. \A x \in 1 .. Len(frames) - 1 : frames[x].dir < Here.dir
    BY <1>1 DEF Path
<1>4. ~OnOpenPath(Cur)
  <2>1. \A x \in 1 .. Len(frames) - 1 : frames[x].dir # Here.dir
    <3> TAKE x \in 1 .. Len(frames) - 1
    <3>1. x \in 1 .. Top
        BY <1>1
    <3>2. frames[x].dir \in Folders /\ Here.dir \in Folders
        BY <1>1, <3>1
    <3>3. frames[x].dir \in Nat /\ Here.dir \in Nat
        BY <3>2, Constants
    <3> QED BY <3>3, <1>3
  <2> QED BY <2>1 DEF OnOpenPath, OpenAt, Cur
<1> QED BY <1>2, <1>4

\* Going on passes one more entry.
LEMMA OverPassed ==
    ASSUME TreeOK, Path, InLoop, UNCHANGED inputs, Over, NEW vis, Passed(vis), ~Went(Cur),
           NEW vis2, vis2 = vis \cup ({Cur} \cap Places)
    PROVE  Passed(vis2)'
<1>1. /\ Top \in Nat /\ Top >= 1 /\ Top = Len(frames) /\ DOMAIN frames = 1 .. Top
      /\ Here = frames[Top] /\ Here.i \in 0 .. DirSize /\ Here.dir \in Folders
      /\ \A x \in 1 .. Top : frames[x].dir \in Folders /\ frames[x] \in Activations
    BY HereFacts DEF InLoop
<1>2. /\ frames' \in Seq(Activations) /\ Len(frames') = Top /\ DOMAIN frames' = 1 .. Top
      /\ \A x \in 1 .. Top : frames'[x].dir = frames[x].dir
      /\ \A x \in 1 .. Top - 1 : frames'[x] = frames[x]
      /\ frames'[Top].i = Here.i + 1
    BY <1>1 DEF Over
<1>3. vis2 \in SUBSET Places
    BY DEF Passed
<1>4. \A d : IsOpen(d)' <=> IsOpen(d)
    BY <1>1, <1>2 DEF IsOpen
<1>5. IsOpen(Cur[1]) /\ Cur = <<Here.dir, Here.i>>
    BY <1>1 DEF IsOpen, Cur
<1>6. ASSUME NEW x \in 1 .. Top, NEW i \in Slots \ {0}
      PROVE  <<frames'[x].dir, i>> \in vis2 <=> i < frames'[x].i
  <2>1. <<frames[x].dir, i>> \in vis <=> i < frames[x].i
    BY <1>1 DEF Passed
  <2>2. i \in Nat /\ frames[x].i \in Nat
    BY <1>1, Constants DEF Activations
  <2>3. CASE x = Top
    <3>1. <<frames'[x].dir, i>> = Cur <=> i = Here.i
        BY <1>1, <1>2, <1>5, <2>3
    <3>2. i = Here.i => Cur \in Places
        BY CurrentPlace
    <3>3. <<frames'[x].dir, i>> \in vis2 <=> i < Here.i \/ i = Here.i
        BY <1>1, <1>2, <2>1, <2>3, <3>1, <3>2
    <3> QED BY <1>1, <1>2, <2>2, <2>3, <3>3
  <2>4. CASE x # Top
    <3>1. frames[x].dir < Here.dir /\ frames[x].dir \in Nat /\ Here.dir \in Nat
        <4>1. x < Top /\ x \in DOMAIN frames /\ Top \in DOMAIN frames
            BY <1>1, <2>4
        <4>2. frames[x].dir < frames[Top].dir
            BY <4>1 DEF Path
        <4> QED BY <1>1, <4>2, Constants
    <3>2. <<frames[x].dir, i>> # Cur
        BY <3>1, <1>5
    <3> QED BY <1>2, <2>1, <2>4, <3>2
  <2> QED BY <2>3, <2>4
<1>7. ASSUME NEW p \in Places, ~IsOpen(p[1])
      PROVE  p \in vis2 <=> p[1] = 0 \/ \E q \in vis2 : Went(q) /\ IsParent(q, p[1])
  <2>1. p \in vis2 <=> p \in vis
    BY <1>5, <1>7
  <2>2. p \in vis <=> p[1] = 0 \/ \E q \in vis : Went(q) /\ IsParent(q, p[1])
    BY <1>7 DEF Passed
  <2>3. \A q : q \in vis2 /\ Went(q) => q \in vis
    OBVIOUS
  <2> QED BY <2>1, <2>2, <2>3
<1>8. \A x \in DOMAIN frames', i \in Slots \ {0} : <<frames'[x].dir, i>> \in vis2 <=> i < frames'[x].i
    BY <1>2, <1>6
<1>9. \A p \in Places : ~IsOpen(p[1])' =>
          (p \in vis2 <=> p[1] = 0 \/ \E q \in vis2 : Went(q)' /\ IsParent(q, p[1])')
    BY <1>4, <1>7, Static
<1> QED BY <1>3, <1>8, <1>9 DEF Passed

\* A new line stands below the line of its folder.
LEMMA NewLine ==
    ASSUME TreeOK, Path, InLoop, Blocks, LevelsRight, ListingIsTree,
           buffer \in Seq(TextLines), Cur \in Places,
           UNCHANGED inputs, buffer' = WithLine
    PROVE  /\ buffer' \in Seq(TextLines) /\ Len(buffer') = Len(buffer) + 1
           /\ DOMAIN buffer = 1 .. Len(buffer) /\ DOMAIN buffer' = 1 .. Len(buffer) + 1
           /\ \A x \in 1 .. Len(buffer) : buffer'[x] = buffer[x]
           /\ buffer'[Len(buffer) + 1].at = Cur
           /\ Listed' = Listed \cup {Cur}
           /\ LevelsRight' /\ ListingIsTree'
<1> DEFINE n == Len(buffer)
           new == [level |-> level, at |-> Cur]
<1>1. /\ Top \in Nat /\ Top >= 1 /\ Top = Len(frames) /\ DOMAIN frames = 1 .. Top
      /\ Here = frames[Top] /\ Here.dir \in Folders /\ level = Top - 1 /\ Deep(Here.dir) = level
    BY HereFacts DEF InLoop
<1>2. new \in TextLines /\ new.level = level /\ new.at = Cur /\ Cur[1] = Here.dir
    BY <1>1 DEF TextLines, Cur
<1>3. /\ n \in Nat /\ buffer' \in Seq(TextLines) /\ Len(buffer') = n + 1
      /\ DOMAIN buffer = 1 .. n /\ DOMAIN buffer' = 1 .. n + 1
      /\ \A x \in 1 .. n : buffer'[x] = buffer[x]
      /\ buffer'[n + 1] = new
  <2> HIDE DEF new
  <2>1. buffer' = Append(buffer, new)
    BY DEF WithLine, Cur, new
  <2> QED BY <1>2, <2>1, AppendProperties
<1>4. \A x \in 1 .. n : buffer[x] \in TextLines /\ buffer[x].at \in Places /\ buffer[x].at[1] \in Folders
  <2>1. \A x \in 1 .. n : buffer[x] \in TextLines
    BY <1>3
  <2>2. \A l \in TextLines : l.at \in Places /\ l.at[1] \in Folders
    BY DEF TextLines, Places
  <2> QED BY <2>1, <2>2
<1> HIDE DEF n, new
<1>5. Listed' = Listed \cup {Cur}
  <2>1. {buffer'[x].at : x \in 1 .. n + 1} = {buffer[x].at : x \in 1 .. n} \cup {Cur}
    BY <1>2, <1>3
  <2> QED BY <2>1, <1>3 DEF Listed
<1>6. LevelsRight'
  <2>1. \A x \in 1 .. n : buffer[x].level = Deep(buffer[x].at[1])
    BY <1>3 DEF LevelsRight
  <2>2. \A x \in 1 .. n + 1 : buffer'[x].level = Deep(buffer'[x].at[1])
    <3> TAKE x \in 1 .. n + 1
    <3>1. CASE x = n + 1
        BY <1>1, <1>2, <1>3, <3>1
    <3>2. CASE x \in 1 .. n
        BY <1>3, <2>1, <3>2
    <3> QED BY <1>3, <3>1, <3>2
  <2> QED BY <1>3, <2>2, Static DEF LevelsRight, Deep
<1> DEFINE Below(b, x) ==
               LET l == b[x].level
                   d == b[x].at[1]
               IN  IF l = 0 THEN d = 0
                   ELSE \E y \in 1 .. x - 1 :
                           /\ b[y].level = l - 1 /\ EntryAt(b[y].at).child = d
                           /\ \A z \in y + 1 .. x - 1 : b[z].level >= l
<1>7. \A x \in 1 .. n : Below(buffer, x)
    BY <1>3 DEF ListingIsTree
<1>8. \A x \in 1 .. n : Below(buffer', x)
  <2> TAKE x \in 1 .. n
  <2>1. Below(buffer, x) /\ buffer'[x] = buffer[x]
    BY <1>3, <1>7
  <2>2. \A y \in 1 .. x - 1 : y \in 1 .. n /\ buffer'[y] = buffer[y]
    BY <1>3
  <2>3. \A y \in 1 .. x - 1 : \A z \in y + 1 .. x - 1 : z \in 1 .. x - 1
    BY <1>3
  <2> QED BY <2>1, <2>2, <2>3
<1>9. Below(buffer', n + 1)
  <2>1. buffer'[n + 1].level = level /\ buffer'[n + 1].at[1] = Here.dir
    BY <1>2, <1>3
  <2>2. CASE level = 0
    <3>1. Here.dir = 0
        <4>1. Top = 1
            <5>1. Top \in Nat /\ level = Top - 1
                BY <1>1
            <5> QED BY <5>1, <2>2
        <4>2. frames # <<>>
            BY DEF InLoop
        <4> QED BY <1>1, <4>1, <4>2 DEF Path
    <3> QED BY <2>1, <2>2, <3>1
  <2>3. CASE level # 0
    <3>1. Top - 1 \in 1 .. Len(frames) - 1 /\ Top - 1 \in DOMAIN frames
        BY <1>1, <2>3
    <3>2. PICK x : x = Top - 1 /\ x + 1 = Top
        BY <1>1
    <3>3. PICK y \in DOMAIN buffer :
              /\ buffer[y].at = OpenAt(x)
              /\ \A z \in DOMAIN buffer : y < z => frames[x + 1].dir \in Up(buffer[z].at[1])
        BY <3>1, <3>2 DEF Blocks
    <3>4. EntryAt(OpenAt(x)).child = frames[x + 1].dir /\ Deep(frames[x].dir) = x - 1
        BY <3>1, <3>2 DEF Path
    <3>5. y \in 1 .. n /\ buffer[y].level = level - 1
        <4>1. buffer[y].level = Deep(buffer[y].at[1])
            BY DEF LevelsRight
        <4>2. buffer[y].at[1] = frames[x].dir
            BY <3>3 DEF OpenAt
        <4> QED BY <1>1, <1>3, <3>2, <3>4, <4>1, <4>2
    <3>6. EntryAt(buffer[y].at).child = Here.dir
        BY <1>1, <3>2, <3>3, <3>4
    <3>7. ASSUME NEW z \in y + 1 .. n PROVE buffer[z].level >= level
        <4>1. z \in DOMAIN buffer /\ y < z /\ z \in 1 .. n
            BY <1>3, <3>5
        <4>2. PICK d : d = buffer[z].at[1]
            OBVIOUS
        <4>3. d \in Folders /\ Here.dir \in Up(d) /\ buffer[z].level = Deep(d)
            BY <1>1, <1>4, <3>2, <3>3, <4>1, <4>2 DEF LevelsRight
        <4>4. Deep(Here.dir) <= Deep(d) /\ Deep(d) \in Nat
            BY <4>3, UpIsOrder DEF UpFacts
        <4> QED BY <1>1, <4>3, <4>4
    <3>8. y \in 1 .. (n + 1) - 1 /\ buffer'[y] = buffer[y]
        BY <1>3, <3>5
    <3>9. \A z \in y + 1 .. (n + 1) - 1 : buffer'[z].level >= level
        <4> TAKE z \in y + 1 .. (n + 1) - 1
        <4>1. z \in y + 1 .. n /\ z \in 1 .. n
            BY <1>3, <3>5
        <4> QED BY <1>3, <3>7, <4>1
    <3>10. \E w \in 1 .. (n + 1) - 1 :
              /\ buffer'[w].level = level - 1 /\ EntryAt(buffer'[w].at).child = Here.dir
              /\ \A z \in w + 1 .. (n + 1) - 1 : buffer'[z].level >= level
        BY <3>5, <3>6, <3>8, <3>9
    <3> QED BY <2>1, <2>3, <3>10
  <2> QED BY <2>2, <2>3
<1>10. ListingIsTree'
  <2>1. \A x \in 1 .. n + 1 : Below(buffer', x)
    <3> HIDE DEF Below
    <3> QED BY <1>3, <1>8, <1>9
  <2>2. tables' = tables
    BY Static
  <2> QED BY <1>3, <2>1, <2>2 DEF ListingIsTree, EntryAt
<1> QED BY <1>2, <1>3, <1>5, <1>6, <1>10 DEF n

-----------------------------------------------------------------------------
(* What a step adds to the matches.                                        *)

\* The entry a step passes is the only one that can be a new match.
LEMMA MatchesAfter ==
    ASSUME UNCHANGED inputs, NEW vis, NEW c, NEW vis2, vis2 = vis \cup ({c} \cap Places)
    PROVE  /\ \A q : q # c => (Match(vis2, q)' <=> Match(vis, q))
           /\ \A q : Match(vis, q) => Match(vis2, q)'
           /\ \A d : MatchBelow(vis, d) => MatchBelow(vis2, d)'
           /\ ~(~Entered(EntryAt(c)) /\ Reported(EntryAt(c))) =>
                  /\ \A q : Match(vis2, q)' <=> Match(vis, q)
                  /\ \A d : MatchBelow(vis2, d)' <=> MatchBelow(vis, d)
<1>1. \A q : Match(vis2, q)' <=> q \in vis2 /\ ~Entered(EntryAt(q)) /\ Reported(EntryAt(q))
  <2>1. tables' = tables /\ call' = call /\ target' = target
    BY Static
  <2> QED BY <2>1, Zenon DEF Match, Entered, Reported, EntryAt, IsTarget
<1>2. \A q : Match(vis, q) <=> q \in vis /\ ~Entered(EntryAt(q)) /\ Reported(EntryAt(q))
    BY DEF Match
<1>3. \A d : MatchBelow(vis2, d)' <=> \E q \in vis2 : Match(vis2, q)' /\ d \in Up(q[1])
  <2>1. tables' = tables
    BY Static
  <2> QED BY <2>1 DEF MatchBelow, Up
<1>4. \A d : MatchBelow(vis, d) <=> \E q \in vis : Match(vis, q) /\ d \in Up(q[1])
    BY DEF MatchBelow
<1>5. \A q : q # c => (q \in vis2 <=> q \in vis)
    OBVIOUS
<1>6. vis \subseteq vis2
    OBVIOUS
<1>7. \A q : Match(vis, q) => q \in vis /\ Match(vis2, q)'
    BY <1>1, <1>2, <1>6
<1>8. ASSUME ~(~Entered(EntryAt(c)) /\ Reported(EntryAt(c)))
      PROVE  \A q : Match(vis2, q)' <=> Match(vis, q) /\ q \in vis
    BY <1>1, <1>2, <1>5, <1>7, <1>8
<1>9. \A q : Match(vis2, q)' => q \in vis2
    BY <1>1
<1> QED BY <1>1, <1>2, <1>3, <1>4, <1>5, <1>6, <1>7, <1>8, <1>9

\* What has a line.
LEMMA ListedIn ==
    ASSUME NEW vis, Lines(vis), NEW p \in Listed
    PROVE  p \in vis \/ OnOpenPath(p)
BY DEF Lines, Match, Kept, Lowest

\* The entry at the loop variable is not listed yet.
LEMMA CurrentNotListed ==
    ASSUME TreeOK, Path, InLoop, NEW vis, Passed(vis), Lines(vis)
    PROVE  Cur \notin Listed
BY CurrentIsNew, ListedIn

\* A line for an entry not listed before repeats none.
LEMMA StillOnce ==
    ASSUME NEW n \in Nat, DOMAIN buffer = 1 .. n, DOMAIN buffer' = 1 .. n + 1,
           \A x \in 1 .. n : buffer'[x] = buffer[x], buffer'[n + 1].at \notin Listed,
           \A x, y \in DOMAIN buffer : buffer[x].at = buffer[y].at => x = y
    PROVE  \A x, y \in DOMAIN buffer' : buffer'[x].at = buffer'[y].at => x = y
<1>1. \A x \in 1 .. n : buffer'[x].at # buffer'[n + 1].at
    BY DEF Listed
<1> QED BY <1>1

\* Going on changes only the activation on top.
LEMMA OpenPathOver ==
    ASSUME TreeOK, Path, InLoop, Over
    PROVE  /\ Len(frames') = Top /\ Top = Len(frames)
           /\ \A x \in 1 .. Top - 1 : OpenAt(x)' = OpenAt(x) /\ frames'[x + 1].dir = frames[x + 1].dir
           /\ \A x \in 1 .. Top - 1 : frames'[x] = frames[x]
           /\ \A p : OnOpenPath(p)' <=> OnOpenPath(p)
           /\ Top' = Top /\ Here'.dir = Here.dir
<1>1. Top \in Nat /\ Top >= 1 /\ Top = Len(frames)
    BY HereFacts DEF InLoop
<1>2. Len(frames') = Top
    BY <1>1 DEF Over
<1>3. \A x \in 1 .. Top - 1 : OpenAt(x)' = OpenAt(x) /\ frames'[x + 1].dir = frames[x + 1].dir
    BY <1>1 DEF Over, OpenAt
<1>4. Top' = Top
    BY <1>1, <1>2 DEF Top
<1>5. Here'.dir = Here.dir
    BY <1>1, <1>4 DEF Here, Over
<1> QED BY <1>1, <1>2, <1>3, <1>4, <1>5 DEF OnOpenPath, Over

\* A line behind those of the path belongs to the innermost folder.
LEMMA BlocksOver ==
    ASSUME TreeOK, Path, InLoop, Over, UNCHANGED inputs, Blocks,
           \/ buffer' = buffer
           \/ /\ DOMAIN buffer = 1 .. Len(buffer) /\ DOMAIN buffer' = 1 .. Len(buffer) + 1
              /\ \A x \in 1 .. Len(buffer) : buffer'[x] = buffer[x]
              /\ buffer'[Len(buffer) + 1].at = Cur
    PROVE  Blocks'
<1>1. /\ Top \in Nat /\ Top >= 1 /\ Top = Len(frames) /\ Cur[1] = Here.dir
      /\ \A x \in 1 .. Top : frames[x].dir \in Up(Here.dir)
    BY HereFacts DEF InLoop, Cur
<1>2. \A d : Up(d)' = Up(d)
    BY Static
<1>3. ASSUME NEW x \in 1 .. Top - 1
      PROVE  \E y \in DOMAIN buffer' :
                 /\ buffer'[y].at = OpenAt(x)
                 /\ \A z \in DOMAIN buffer' : y < z => frames[x + 1].dir \in Up(buffer'[z].at[1])
  <2>1. PICK y \in DOMAIN buffer :
            /\ buffer[y].at = OpenAt(x)
            /\ \A z \in DOMAIN buffer : y < z => frames[x + 1].dir \in Up(buffer[z].at[1])
    BY <1>1 DEF Blocks
  <2>2. frames[x + 1].dir \in Up(Here.dir)
    BY <1>1
  <2>3. CASE buffer' = buffer
    BY <2>1, <2>3
  <2>4. CASE /\ DOMAIN buffer = 1 .. Len(buffer) /\ DOMAIN buffer' = 1 .. Len(buffer) + 1
             /\ \A z \in 1 .. Len(buffer) : buffer'[z] = buffer[z]
             /\ buffer'[Len(buffer) + 1].at = Cur
    <3>1. PICK n : n = Len(buffer)
        OBVIOUS
    <3>2. y \in DOMAIN buffer' /\ buffer'[y].at = OpenAt(x)
        BY <2>1, <2>4
    <3>3. ASSUME NEW z \in DOMAIN buffer', y < z
          PROVE  frames[x + 1].dir \in Up(buffer'[z].at[1])
        <4>1. CASE z = n + 1
            <5>1. buffer'[z].at[1] = Here.dir
                BY <1>1, <2>4, <3>1, <4>1
            <5> QED BY <2>2, <5>1
        <4>2. CASE z # n + 1
            <5>1. z \in DOMAIN buffer /\ buffer'[z] = buffer[z]
                BY <2>4, <3>1, <4>2
            <5> QED BY <2>1, <3>3, <5>1
        <4> QED BY <4>1, <4>2
    <3> QED BY <3>2, <3>3
  <2> QED BY <2>3, <2>4
<1>4. \A x \in 1 .. Len(frames') - 1 : \E y \in DOMAIN buffer' :
          /\ buffer'[y].at = OpenAt(x)'
          /\ \A z \in DOMAIN buffer' : y < z => frames'[x + 1].dir \in Up(buffer'[z].at[1])
    BY <1>3, OpenPathOver, ZenonT(60)
<1> QED BY <1>4, Static DEF Blocks, Up

\* No traversal changes the tree.
LEMMA TreeStays ==
    ASSUME TreeOK, UNCHANGED inputs
    PROVE  TreeOK'
<1>1. /\ call' = call /\ target' = target /\ tables' = tables
      /\ FolderPlaces' = FolderPlaces /\ Present' = Present
    BY Static
<1> QED BY <1>1 DEF TreeOK, EntryAt, IsParent

\* What holds of the buffer stays while it does not change.
LEMMA BufferStays ==
    ASSUME LevelsRight, ListingIsTree, UNCHANGED inputs, buffer' = buffer
    PROVE  LevelsRight' /\ ListingIsTree' /\ Listed' = Listed
<1>1. tables' = tables
    BY Static
<1> QED BY <1>1 DEF LevelsRight, ListingIsTree, Listed, EntryAt, Deep

\* Without a new match the flags may stay as they are.
LEMMA FoundOver ==
    ASSUME TreeOK, Path, InLoop, UNCHANGED inputs, Over, NEW vis, FoundSo(vis),
           NEW vis2, vis2 = vis \cup ({Cur} \cap Places),
           ~(~Entered(EntryAt(Cur)) /\ Reported(EntryAt(Cur))),
           found' \in BOOLEAN, FoundHere' <=> FoundHere
    PROVE  FoundSo(vis2)'
<1>1. PICK c : c = Cur
    OBVIOUS
<1>2. /\ \A q : Match(vis2, q)' <=> Match(vis, q)
      /\ \A d : MatchBelow(vis2, d)' <=> MatchBelow(vis, d)
  <2>1. vis2 = vis \cup ({c} \cap Places) /\ ~(~Entered(EntryAt(c)) /\ Reported(EntryAt(c)))
    BY <1>1
  <2> QED BY <2>1, MatchesAfter
<1>3. Tracks' = Tracks /\ Here'.dir = Here.dir /\ frames # <<>>
    BY Static, OpenPathOver DEF InLoop
<1>4. Tracks' /\ frames' # <<>> => (FoundHere' <=> MatchBelow(vis2, Here.dir)')
  <2>1. PICK d : d = Here.dir
    OBVIOUS
  <2>2. Tracks => (FoundHere <=> MatchBelow(vis, d))
    BY <1>3, <2>1 DEF FoundSo
  <2>3. d = Here'.dir
    BY <1>3, <2>1
  <2>4. MatchBelow(vis2, Here.dir)' <=> MatchBelow(vis2, d)'
    BY <2>3 DEF MatchBelow
  <2> QED BY <1>2, <1>3, <2>2, <2>4
<1>5. ASSUME Tracks', NEW x \in 1 .. Len(frames') - 1
      PROVE  frames'[x].local_found <=>
                 \E q \in vis2 : /\ Match(vis2, q)' /\ frames'[x].dir \in Up(q[1])'
                                 /\ frames'[x + 1].dir \notin Up(q[1])'
  <2>1. x \in 1 .. Len(frames) - 1 /\ frames'[x] = frames[x]
        /\ frames'[x + 1].dir = frames[x + 1].dir
    BY OpenPathOver
  <2>2. frames[x].local_found <=>
            \E q \in vis : /\ Match(vis, q) /\ frames[x].dir \in Up(q[1])
                           /\ frames[x + 1].dir \notin Up(q[1])
    BY <1>3, <1>5, <2>1 DEF FoundSo
  <2>3. \A q : Match(vis, q) => q \in vis /\ q \in vis2
    BY DEF Match
  <2>4. \A d : Up(d)' = Up(d)
    BY Static
  <2>5. \A q : Up(q[1])' = Up(q[1])
    BY <2>4 DEF Up
  <2> QED BY <1>2, <2>1, <2>2, <2>3, <2>5
<1> QED BY <1>4, <1>5 DEF FoundSo, Up

\* Without a new match no other line is due, but a folder below the limit may
\* keep its own.
LEMMA LinesOver ==
    ASSUME TreeOK, Path, InLoop, UNCHANGED inputs, Over, NEW vis, Passed(vis), Lines(vis),
           NEW vis2, vis2 = vis \cup ({Cur} \cap Places), ~Went(Cur),
           ~(~Entered(EntryAt(Cur)) /\ Reported(EntryAt(Cur))),
           \/ buffer' = buffer
           \/ /\ buffer' \in Seq(TextLines)
              /\ DOMAIN buffer = 1 .. Len(buffer) /\ DOMAIN buffer' = 1 .. Len(buffer) + 1
              /\ \A x \in 1 .. Len(buffer) : buffer'[x] = buffer[x]
              /\ buffer'[Len(buffer) + 1].at = Cur
              /\ Listed' = Listed \cup {Cur}
              /\ Cur \in FolderPlaces /\ call = "search_dls" /\ MatchBelow(vis, Here.dir)
    PROVE  Lines(vis2)'
<1>1. PICK c : c = Cur
    OBVIOUS
<1>2. /\ \A q : Match(vis2, q)' <=> Match(vis, q)
      /\ \A d : MatchBelow(vis2, d)' <=> MatchBelow(vis, d)
  <2>1. vis2 = vis \cup ({c} \cap Places) /\ ~(~Entered(EntryAt(c)) /\ Reported(EntryAt(c)))
    BY <1>1
  <2>2. UNCHANGED inputs
    OBVIOUS
  <2> QED BY ONLY <2>1, <2>2, MatchesAfter
<1>3. \A p : OnOpenPath(p)' <=> OnOpenPath(p)
    BY OpenPathOver
<1>4. /\ \A p : Went(p)' = Went(p)
      /\ \A p : EntryAt(p)' = EntryAt(p)
      /\ call' = call /\ Tracks' = Tracks /\ FolderPlaces' = FolderPlaces
    BY Static
<1>5. \A p : p # c => (p \in vis2 <=> p \in vis)
    BY <1>1
<1>6. \A p : Kept(vis2, p)' <=> Kept(vis, p)
  <2> TAKE p
  <2>1. PICK d : d = EntryAt(p).child
    OBVIOUS
  <2>2. d = EntryAt(p)'.child
    BY <1>4, <2>1
  <2>3. Kept(vis2, p)' <=> p \in vis2 /\ Went(p)' /\ (Tracks' => MatchBelow(vis2, d)')
    BY <2>2 DEF Kept, MatchBelow
  <2>4. Kept(vis, p) <=> p \in vis /\ Went(p) /\ (Tracks => MatchBelow(vis, d))
    BY <2>1 DEF Kept
  <2>5. Went(p) => (p \in vis2 <=> p \in vis)
    BY <1>1, <1>5
  <2> QED BY <1>2, <1>4, <2>3, <2>4, <2>5
<1>7. \A p : Lowest(vis, p) => Lowest(vis2, p)'
  <2> TAKE p
  <2>1. PICK d : d = p[1]
    OBVIOUS
  <2>2. Lowest(vis2, p)' <=> /\ p \in vis2 /\ p \in FolderPlaces' /\ ~Went(p)' /\ call' = "search_dls"
                             /\ MatchBelow(vis2, d)'
    BY <2>1 DEF Lowest
  <2>3. Lowest(vis, p) <=> /\ p \in vis /\ p \in FolderPlaces /\ ~Went(p) /\ call = "search_dls"
                           /\ MatchBelow(vis, d)
    BY <2>1 DEF Lowest
  <2>4. p \in vis => p \in vis2
    OBVIOUS
  <2> QED BY <1>2, <1>4, <2>2, <2>3, <2>4
<1>8. CASE buffer' = buffer
  <2>1. Listed' = Listed
    BY <1>8 DEF Listed
  <2>2. \A p \in Places : Match(vis2, p)' \/ Kept(vis2, p)' \/ OnOpenPath(p)' => p \in Listed'
    BY <1>2, <1>3, <1>6, <2>1 DEF Lines
  <2>3. \A p \in Listed' : Match(vis2, p)' \/ Kept(vis2, p)' \/ OnOpenPath(p)' \/ Lowest(vis2, p)'
    BY <1>2, <1>3, <1>6, <1>7, <2>1 DEF Lines
  <2>4. buffer' \in Seq(TextLines) /\ \A x, y \in DOMAIN buffer' : buffer'[x].at = buffer'[y].at => x = y
    BY <1>8 DEF Lines
  <2> QED BY <2>2, <2>3, <2>4 DEF Lines
<1>9. CASE /\ buffer' \in Seq(TextLines)
           /\ DOMAIN buffer = 1 .. Len(buffer) /\ DOMAIN buffer' = 1 .. Len(buffer) + 1
           /\ \A x \in 1 .. Len(buffer) : buffer'[x] = buffer[x]
           /\ buffer'[Len(buffer) + 1].at = Cur
           /\ Listed' = Listed \cup {Cur}
           /\ Cur \in FolderPlaces /\ call = "search_dls" /\ MatchBelow(vis, Here.dir)
  <2>1. Lowest(vis2, c)'
    <3>1. PICK d : d = c[1]
        OBVIOUS
    <3>2. d = Here.dir /\ c \in vis2
        BY <1>1, <1>9, <3>1 DEF Cur, FolderPlaces
    <3>3. MatchBelow(vis2, d)'
        BY <1>2, <1>9, <3>2
    <3>4. c \in FolderPlaces' /\ ~Went(c)' /\ call' = "search_dls"
        BY <1>1, <1>4, <1>9
    <3> QED BY <3>1, <3>2, <3>3, <3>4 DEF Lowest
  <2>2. \A p \in Places : Match(vis2, p)' \/ Kept(vis2, p)' \/ OnOpenPath(p)' => p \in Listed'
    BY <1>2, <1>3, <1>6, <1>9 DEF Lines
  <2>3. \A p \in Listed' : Match(vis2, p)' \/ Kept(vis2, p)' \/ OnOpenPath(p)' \/ Lowest(vis2, p)'
    BY <1>1, <1>2, <1>3, <1>6, <1>7, <1>9, <2>1 DEF Lines
  <2>4. \A x, y \in DOMAIN buffer' : buffer'[x].at = buffer'[y].at => x = y
    <3>1. Len(buffer) \in Nat /\ \A x, y \in DOMAIN buffer : buffer[x].at = buffer[y].at => x = y
        BY DEF Lines
    <3>2. buffer'[Len(buffer) + 1].at \notin Listed
        BY <1>9, CurrentNotListed
    <3> QED BY <1>9, <3>1, <3>2, StillOnce
  <2> QED BY <1>9, <2>2, <2>3, <2>4 DEF Lines
<1> QED BY <1>8, <1>9

-----------------------------------------------------------------------------
(* The actions.                                                            *)

\* An entry that is skipped.
LEMMA PassStep ==
    ASSUME IInv, Pass
    PROVE  IInv'
<1>1. TreeOK /\ Path /\ Blocks /\ LevelsRight /\ ListingIsTree
    BY DEF IInv
<1>2. PICK vis \in SUBSET Places : Passed(vis) /\ FoundSo(vis) /\ Lines(vis)
    BY DEF IInv, Traversed
<1>3. /\ InLoop /\ ~Entered(Current) /\ ~Reported(Current) /\ frames' = Advanced(frames)
      /\ UNCHANGED inputs /\ level' = level /\ found' = found /\ buffer' = buffer
    BY DEF Pass
<1>4. Over /\ frames'[Top].local_found = Here.local_found
    BY <1>1, <1>3, AdvancedOver
<1>5. Current = EntryAt(Cur) /\ ~Went(Cur)
    BY <1>1, <1>3, CurrentPlace DEF Went
<1>6. PICK vis2 : vis2 = vis \cup ({Cur} \cap Places)
    OBVIOUS
<1>7. TreeOK' /\ Path'
    BY <1>1, <1>3, <1>4, TreeStays, OverPath
<1>8. Blocks' /\ LevelsRight' /\ ListingIsTree'
    BY <1>1, <1>3, <1>4, BlocksOver, BufferStays
<1>9. Passed(vis2)'
    BY <1>1, <1>2, <1>3, <1>4, <1>5, <1>6, OverPassed
<1>10. FoundHere' <=> FoundHere
  <2>1. Top' = Top
    BY <1>1, <1>3, <1>4, OpenPathOver
  <2>2. Here' = frames'[Top]
    BY <2>1 DEF Here
  <2> QED BY <1>3, <1>4, <2>2 DEF FoundHere
<1>11. FoundSo(vis2)'
  <2>1. found' \in BOOLEAN
    BY <1>2, <1>3 DEF FoundSo
  <2> QED BY <1>1, <1>2, <1>3, <1>4, <1>5, <1>6, <1>10, <2>1, FoundOver
<1>12. Lines(vis2)'
    BY <1>1, <1>2, <1>3, <1>4, <1>5, <1>6, LinesOver
<1>13. vis2 \in SUBSET Places
    BY <1>6
<1> QED BY <1>7, <1>8, <1>9, <1>11, <1>12, <1>13 DEF IInv, Traversed

\* A folder below the depth limit.
LEMMA EnterTooDeepStep ==
    ASSUME IInv, EnterTooDeep
    PROVE  IInv'
<1>1. TreeOK /\ Path /\ Blocks /\ LevelsRight /\ ListingIsTree
    BY DEF IInv
<1>2. PICK vis \in SUBSET Places : Passed(vis) /\ FoundSo(vis) /\ Lines(vis)
    BY DEF IInv, Traversed
<1>3. /\ InLoop /\ Entered(Current) /\ TooDeep /\ frames' = Advanced(Remembered)
      /\ UNCHANGED inputs /\ level' = level /\ found' = found
      /\ buffer' = IF found THEN WithLine ELSE buffer
    BY DEF EnterTooDeep
<1>4. found \in BOOLEAN /\ buffer \in Seq(TextLines)
    BY <1>2 DEF FoundSo, Lines
<1>5. Over /\ frames'[Top].local_found = FoundHere
    BY <1>1, <1>3, <1>4, AdvancedOver
<1>6. Current = EntryAt(Cur) /\ Cur \in FolderPlaces /\ Cur[1] = Here.dir /\ Cur \in Places
    BY <1>1, <1>3, CurrentPlace DEF FolderPlaces
<1>7. ~Went(Cur) /\ call = "search_dls"
  <2>1. call = "search_dls" /\ level + 1 > Limit
    BY <1>3 DEF TooDeep
  <2>2. Deep(Here.dir) = level /\ level \in Int
    BY <1>1, <1>3, HereFacts DEF InLoop
  <2>3. ~(Deep(Cur[1]) < Limit)
    BY <1>6, <2>1, <2>2, Constants
  <2> QED BY <2>1, <2>3 DEF Went
<1>8. PICK vis2 : vis2 = vis \cup ({Cur} \cap Places)
    OBVIOUS
<1>9. TreeOK' /\ Path'
    BY <1>1, <1>3, <1>5, TreeStays, OverPath
<1>10. Passed(vis2)'
    BY <1>1, <1>2, <1>3, <1>5, <1>7, <1>8, OverPassed
<1>11. FoundHere' <=> FoundHere
  <2>1. Top' = Top
    BY <1>1, <1>3, <1>5, OpenPathOver
  <2>2. Here' = frames'[Top]
    BY <2>1 DEF Here
  <2>3. FoundHere <=> found \/ Here.local_found
    BY DEF FoundHere
  <2>4. FoundHere' <=> found' \/ frames'[Top].local_found
    BY <2>2 DEF FoundHere
  <2> QED BY <1>3, <1>5, <2>3, <2>4
<1>12. ~(~Entered(EntryAt(Cur)) /\ Reported(EntryAt(Cur)))
    BY <1>3, <1>6
<1>13. FoundSo(vis2)'
  <2>1. found' \in BOOLEAN
    BY <1>3, <1>4
  <2> QED BY <1>1, <1>2, <1>3, <1>5, <1>8, <1>11, <1>12, <2>1, FoundOver
<1>14. vis2 \in SUBSET Places
    BY <1>8
<1>15. CASE ~found
  <2>1. buffer' = buffer
    BY <1>3, <1>15
  <2>2. Lines(vis2)'
    BY <1>1, <1>2, <1>3, <1>5, <1>7, <1>8, <1>12, <2>1, LinesOver
  <2>3. Blocks' /\ LevelsRight' /\ ListingIsTree'
    BY <1>1, <1>3, <1>5, <2>1, BlocksOver, BufferStays
  <2> QED BY <1>9, <1>10, <1>13, <1>14, <2>2, <2>3 DEF IInv, Traversed
<1>16. CASE found
  <2>1. buffer' = WithLine
    BY <1>3, <1>16
  <2>2. /\ buffer' \in Seq(TextLines)
        /\ DOMAIN buffer = 1 .. Len(buffer) /\ DOMAIN buffer' = 1 .. Len(buffer) + 1
        /\ \A x \in 1 .. Len(buffer) : buffer'[x] = buffer[x]
        /\ buffer'[Len(buffer) + 1].at = Cur
        /\ Listed' = Listed \cup {Cur}
        /\ LevelsRight' /\ ListingIsTree'
    BY <1>1, <1>3, <1>4, <1>6, <2>1, NewLine
  <2>3. MatchBelow(vis, Here.dir)
    <3>1. Tracks /\ frames # <<>> /\ FoundHere
        BY <1>3, <1>7, <1>16 DEF Tracks, FoundHere, InLoop
    <3> QED BY <1>2, <3>1 DEF FoundSo
  <2>4. Lines(vis2)'
    BY <1>1, <1>2, <1>3, <1>5, <1>6, <1>7, <1>8, <1>12, <2>2, <2>3, LinesOver
  <2>5. Blocks'
    BY <1>1, <1>3, <1>5, <2>2, BlocksOver
  <2> QED BY <1>9, <1>10, <1>13, <1>14, <2>2, <2>4, <2>5 DEF IInv, Traversed
<1> QED BY <1>15, <1>16

\* The folders of the path stand at entries that have not been passed.
LEMMA OpenNotPassed ==
    ASSUME TreeOK, Path, frames # <<>>, NEW vis, Passed(vis)
    PROVE  /\ \A x \in 1 .. Top - 1 : OpenAt(x) \in FolderPlaces /\ OpenAt(x) \notin vis
           /\ \A p \in vis : p \in FolderPlaces => EntryAt(p).child \notin Up(Here.dir)
<1>1. /\ Top \in Nat /\ Top >= 1 /\ Top = Len(frames) /\ DOMAIN frames = 1 .. Top
      /\ Here = frames[Top] /\ \A x \in 1 .. Top : frames[x] \in Activations
    BY HereFacts
<1>2. ASSUME NEW x \in 1 .. Top - 1
      PROVE  /\ OpenAt(x) \in FolderPlaces /\ OpenAt(x) \notin vis
             /\ EntryAt(OpenAt(x)).child = frames[x + 1].dir
  <2>1. Went(OpenAt(x)) /\ EntryAt(OpenAt(x)).child = frames[x + 1].dir
    BY <1>1 DEF Path
  <2>2. OpenAt(x) \in FolderPlaces
    BY <2>1 DEF Went
  <2>3. frames[x].i \in Slots \ {0} /\ frames[x].i \in Nat /\ x \in DOMAIN frames
    <3>1. <<frames[x].dir, frames[x].i>> \in Folders \X (Slots \ {0})
        BY <2>2 DEF OpenAt, FolderPlaces, Places
    <3>2. frames[x].i \in Slots \ {0}
        BY <3>1
    <3>3. x \in DOMAIN frames
        BY <1>1
    <3>4. frames[x].i \in Nat
        BY <3>2, Constants
    <3> QED BY <3>2, <3>3, <3>4
  <2>4. <<frames[x].dir, frames[x].i>> \notin vis
    BY <2>3 DEF Passed
  <2> QED BY <2>1, <2>2, <2>4 DEF OpenAt
<1>3. Up(Here.dir) = {frames[y].dir : y \in 1 .. Top}
  <2>1. Top \in DOMAIN frames
    BY <1>1
  <2> QED BY <1>1, <2>1 DEF Path
<1>4. ASSUME NEW p \in vis, p \in FolderPlaces, EntryAt(p).child \in Up(Here.dir)
      PROVE  FALSE
  <2>1. PICK y \in 1 .. Top : EntryAt(p).child = frames[y].dir
    BY <1>3, <1>4
  <2>2. p[1] < EntryAt(p).child /\ p[1] \in Nat
    BY <1>4, Constants DEF TreeOK, FolderPlaces, Places
  <2>3. y # 1
    BY <2>1, <2>2 DEF Path
  <2>4. PICK x : x = y - 1
    OBVIOUS
  <2>5. x \in 1 .. Top - 1 /\ x + 1 = y
    BY <1>1, <2>3, <2>4
  <2>6. OpenAt(x) \in FolderPlaces /\ OpenAt(x) \notin vis /\ EntryAt(OpenAt(x)).child = EntryAt(p).child
    BY <1>2, <2>1, <2>5
  <2>7. \A q \in FolderPlaces : EntryAt(q).child = EntryAt(p).child => q = p
    BY <1>4 DEF TreeOK
  <2> QED BY <2>6, <2>7
<1> QED BY <1>2, <1>4

\* An entry that is listed.
LEMMA ReportStep ==
    ASSUME IInv, Report
    PROVE  IInv'
<1>1. TreeOK /\ Path /\ Blocks /\ LevelsRight /\ ListingIsTree
    BY DEF IInv
<1>2. PICK vis \in SUBSET Places : Passed(vis) /\ FoundSo(vis) /\ Lines(vis)
    BY DEF IInv, Traversed
<1>3. /\ InLoop /\ ~Entered(Current) /\ Reported(Current) /\ frames' = Advanced(frames)
      /\ UNCHANGED inputs /\ level' = level /\ found' = Tracks /\ buffer' = WithLine
    BY DEF Report
<1>4. found' \in BOOLEAN /\ buffer \in Seq(TextLines)
    BY <1>2, <1>3 DEF Lines, Tracks
<1>5. Over
    BY <1>1, <1>3, AdvancedOver
<1>6. PICK c : c = Cur
    OBVIOUS
<1>7. Current = EntryAt(c) /\ c[1] = Here.dir /\ c \in Places /\ ~Entered(EntryAt(c)) /\ Reported(EntryAt(c))
    BY <1>1, <1>3, <1>6, CurrentPlace
<1>8. ~Went(Cur)
    BY <1>6, <1>7 DEF Went
<1>9. PICK vis2 : vis2 = vis \cup ({Cur} \cap Places)
    OBVIOUS
<1>10. vis2 = vis \cup ({c} \cap Places) /\ vis2 = vis \cup {c} /\ vis2 \in SUBSET Places
    BY <1>6, <1>7, <1>9
<1>11. /\ TreeOK' /\ Path' /\ Passed(vis2)'
    BY <1>1, <1>2, <1>3, <1>5, <1>8, <1>9, TreeStays, OverPath, OverPassed
<1>12. /\ buffer' \in Seq(TextLines)
       /\ DOMAIN buffer = 1 .. Len(buffer) /\ DOMAIN buffer' = 1 .. Len(buffer) + 1
       /\ \A x \in 1 .. Len(buffer) : buffer'[x] = buffer[x]
       /\ buffer'[Len(buffer) + 1].at = Cur
       /\ Listed' = Listed \cup {Cur}
       /\ LevelsRight' /\ ListingIsTree'
    BY <1>1, <1>3, <1>4, <1>6, <1>7, NewLine
<1>13. Blocks'
    BY <1>1, <1>3, <1>5, <1>12, BlocksOver
<1>14. /\ \A q : q # c => (Match(vis2, q)' <=> Match(vis, q))
       /\ \A q : Match(vis, q) => Match(vis2, q)' /\ q \in vis
       /\ \A d : MatchBelow(vis, d) => MatchBelow(vis2, d)'
    BY <1>3, <1>10, MatchesAfter DEF Match
<1>15. Match(vis2, c)'
  <2>1. tables' = tables /\ call' = call /\ target' = target /\ c \in vis2
    BY <1>3, <1>10, Static
  <2> QED BY <1>7, <2>1, Zenon DEF Match, Entered, Reported, EntryAt, IsTarget
<1>16. /\ \A d : Up(d)' = Up(d)
       /\ \A p : Went(p)' = Went(p) /\ EntryAt(p)' = EntryAt(p)
       /\ call' = call /\ Tracks' = Tracks /\ FolderPlaces' = FolderPlaces /\ tables' = tables
    BY <1>3, Static
<1>17. \A d : MatchBelow(vis2, d)' <=> \E q \in vis2 : Match(vis2, q)' /\ d \in Up(q[1])
    BY <1>16 DEF MatchBelow, Up
<1>18. \A d : MatchBelow(vis2, d)' <=> MatchBelow(vis, d) \/ d \in Up(c[1])
    BY <1>10, <1>14, <1>15, <1>17 DEF MatchBelow
<1>19. /\ Top \in Nat /\ Top >= 1 /\ Top = Len(frames)
       /\ \A x \in 1 .. Top : frames[x].dir \in Up(Here.dir)
       /\ Here.dir \in Folders /\ Here.dir \in Up(Here.dir)
    BY <1>1, <1>3, HereFacts DEF InLoop
<1>20. FoundSo(vis2)'
  <2>1. PICK h : h = Here.dir
    OBVIOUS
  <2>2. Tracks' /\ frames' # <<>> => (FoundHere' <=> MatchBelow(vis2, Here.dir)')
    <3>1. h = Here'.dir
        BY <1>1, <1>3, <1>5, <2>1, OpenPathOver
    <3>2. MatchBelow(vis2, h)'
        BY <1>7, <1>18, <1>19, <2>1
    <3>3. MatchBelow(vis2, Here.dir)'
        BY <3>1, <3>2 DEF MatchBelow
    <3>4. Tracks' => FoundHere'
        BY <1>3, <1>16 DEF FoundHere
    <3> QED BY <3>3, <3>4
  <2>3. ASSUME Tracks', NEW x \in 1 .. Len(frames') - 1
        PROVE  frames'[x].local_found <=>
                   \E q \in vis2 : /\ Match(vis2, q)' /\ frames'[x].dir \in Up(q[1])'
                                   /\ frames'[x + 1].dir \notin Up(q[1])'
    <3>1. x \in 1 .. Len(frames) - 1 /\ frames'[x] = frames[x]
          /\ frames'[x + 1].dir = frames[x + 1].dir
        BY <1>1, <1>3, <1>5, OpenPathOver
    <3>2. frames[x].local_found <=>
              \E q \in vis : /\ Match(vis, q) /\ frames[x].dir \in Up(q[1])
                             /\ frames[x + 1].dir \notin Up(q[1])
        BY <1>2, <1>16, <2>3, <3>1 DEF FoundSo
    <3>3. \A q : Up(q[1])' = Up(q[1])
        BY <1>16 DEF Up
    <3>4. frames[x + 1].dir \in Up(c[1])
        BY <1>7, <1>19, <3>1
    <3>5. ASSUME NEW q \in vis2, Match(vis2, q)', frames[x + 1].dir \notin Up(q[1])
          PROVE  q \in vis /\ Match(vis, q)
        BY <1>14, <3>4, <3>5
    <3>6. \A q \in vis : q \in vis2
        BY <1>10
    <3> QED BY <1>14, <3>1, <3>2, <3>3, <3>5, <3>6
  <2> QED BY <1>4, <2>2, <2>3 DEF FoundSo, Up
<1>21. \A p : Kept(vis2, p)' <=> Kept(vis, p)
  <2> TAKE p
  <2>1. PICK d : d = EntryAt(p).child
    OBVIOUS
  <2>2. d = EntryAt(p)'.child
    BY <1>16, <2>1
  <2>3. Kept(vis2, p)' <=> p \in vis2 /\ Went(p)' /\ (Tracks' => MatchBelow(vis2, d)')
    BY <2>2 DEF Kept, MatchBelow
  <2>4. Kept(vis, p) <=> p \in vis /\ Went(p) /\ (Tracks => MatchBelow(vis, d))
    BY <2>1 DEF Kept
  <2>5. Went(p) => (p \in vis2 <=> p \in vis) /\ p \in FolderPlaces
    BY <1>6, <1>8, <1>10 DEF Went
  <2>6. p \in vis /\ p \in FolderPlaces => d \notin Up(c[1])
    <3>1. frames # <<>>
        BY <1>3 DEF InLoop
    <3> QED BY <1>1, <1>2, <1>7, <2>1, <3>1, OpenNotPassed
  <2> QED BY <1>16, <1>18, <2>3, <2>4, <2>5, <2>6
<1>22. \A p : Lowest(vis, p) => Lowest(vis2, p)'
  <2> TAKE p
  <2>1. PICK d : d = p[1]
    OBVIOUS
  <2>2. Lowest(vis2, p)' <=> /\ p \in vis2 /\ p \in FolderPlaces' /\ ~Went(p)' /\ call' = "search_dls"
                             /\ MatchBelow(vis2, d)'
    BY <2>1 DEF Lowest
  <2>3. Lowest(vis, p) <=> /\ p \in vis /\ p \in FolderPlaces /\ ~Went(p) /\ call = "search_dls"
                           /\ MatchBelow(vis, d)
    BY <2>1 DEF Lowest
  <2>4. p \in vis => p \in vis2
    BY <1>10
  <2> QED BY <1>14, <1>16, <2>2, <2>3, <2>4
<1>23. \A p : OnOpenPath(p)' <=> OnOpenPath(p)
    BY <1>1, <1>3, <1>5, OpenPathOver
<1>24. Lines(vis2)'
  <2>1. \A p \in Places : Match(vis2, p)' \/ Kept(vis2, p)' \/ OnOpenPath(p)' => p \in Listed'
    BY <1>2, <1>6, <1>12, <1>14, <1>21, <1>23 DEF Lines
  <2>2. \A p \in Listed' : Match(vis2, p)' \/ Kept(vis2, p)' \/ OnOpenPath(p)' \/ Lowest(vis2, p)'
    BY <1>2, <1>6, <1>12, <1>14, <1>15, <1>21, <1>22, <1>23 DEF Lines
  <2>3. \A x, y \in DOMAIN buffer' : buffer'[x].at = buffer'[y].at => x = y
    <3>1. Len(buffer) \in Nat /\ \A x, y \in DOMAIN buffer : buffer[x].at = buffer[y].at => x = y
        BY <1>2 DEF Lines
    <3>2. buffer'[Len(buffer) + 1].at \notin Listed
        BY <1>1, <1>2, <1>3, <1>12, CurrentNotListed
    <3> QED BY <1>12, <3>1, <3>2, StillOnce
  <2> QED BY <1>12, <2>1, <2>2, <2>3 DEF Lines
<1> QED BY <1>10, <1>11, <1>12, <1>13, <1>20, <1>24 DEF IInv, Traversed

\* Whatever is passed lies below folders that are open or passed.
LEMMA SeenAbove ==
    ASSUME TreeOK, Path, NEW vis, Passed(vis), NEW c \in Folders, ~IsOpen(c),
           \A q \in vis : q[1] # c
    PROVE  \A q \in vis : c \notin Up(q[1])
<1>1. UpFacts
    BY UpIsOrder
<1> DEFINE Q == {e \in Folders : IsOpen(e) \/ (\E q \in vis : q[1] = e) => c \notin Up(e)}
<1>2. ASSUME NEW e \in Folders, \A f \in Folders : f < e => f \in Q
      PROVE  e \in Q
  <2>1. CASE IsOpen(e)
    <3>1. PICK x \in DOMAIN frames : frames[x].dir = e
        BY <2>1 DEF IsOpen
    <3>2. Up(frames[x].dir) = {frames[y].dir : y \in 1 .. x}
        BY <3>1 DEF Path
    <3>3. DOMAIN frames = 1 .. Len(frames) /\ Len(frames) \in Nat
        BY DEF Path
    <3>4. Up(e) = {frames[y].dir : y \in 1 .. x} /\ \A y \in 1 .. x : y \in DOMAIN frames
        BY <3>1, <3>2, <3>3
    <3>5. \A d \in Up(e) : IsOpen(d)
        BY <3>4 DEF IsOpen
    <3> QED BY <3>5
  <2>2. CASE ~IsOpen(e) /\ \E q \in vis : q[1] = e
    <3>1. PICK q \in vis : q[1] = e
        BY <2>2
    <3>2. e # c
        BY <3>1
    <3>3. CASE e = 0
        BY <1>1, <3>2, <3>3 DEF UpFacts
    <3>4. CASE e # 0
        <4>1. q \in Places
            BY DEF Passed
        <4>2. PICK r \in vis : Went(r) /\ IsParent(r, e)
            BY <2>2, <3>1, <3>4, <4>1 DEF Passed
        <4>3. r \in FolderPlaces /\ EntryAt(r).child = e
            BY <4>2 DEF IsParent
        <4>4. r[1] \in Folders /\ r[1] < e /\ Up(e) = {e} \cup Up(r[1])
            BY <1>1, <4>3 DEF UpFacts
        <4>5. c \notin Up(r[1])
            BY <1>2, <4>4
        <4> QED BY <3>2, <4>4, <4>5
    <3> QED BY <3>3, <3>4
  <2> QED BY <2>1, <2>2
<1>3. Q = Folders
  <2> HIDE DEF Q
  <2>1. Q \in SUBSET Folders
    BY DEF Q
  <2> QED BY <1>2, <2>1, FolderInduction
<1>4. \A q \in vis : q[1] \in Folders
    BY DEF Passed, Places
<1>5. ASSUME NEW q \in vis PROVE c \notin Up(q[1])
  <2>1. PICK e : e = q[1]
    OBVIOUS
  <2>2. e \in Q
    BY <1>3, <1>4, <2>1
  <2> QED BY <2>1, <2>2
<1> QED BY <1>5

\* The step into a folder.
Push(c) ==
    /\ frames' \in Seq(Activations) /\ Len(frames') = Top + 1 /\ DOMAIN frames' = 1 .. Top + 1
    /\ \A x \in 1 .. Top : frames'[x].dir = frames[x].dir /\ frames'[x].i = frames[x].i
    /\ \A x \in 1 .. Top - 1 : frames'[x] = frames[x]
    /\ frames'[Top].local_found = FoundHere
    /\ frames'[Top + 1].dir = c /\ frames'[Top + 1].i = First
    /\ frames'[Top + 1].local_found = FALSE

\* A call of itself adds an activation.
LEMMA EnterPush ==
    ASSUME TreeOK, Path, InLoop, found \in BOOLEAN, NEW c \in Folders,
           frames' = Append(Remembered, NewFrame(c))
    PROVE  Push(c)
<1>1. /\ Top \in Nat /\ Top >= 1 /\ Top = Len(frames) /\ DOMAIN frames = 1 .. Top
      /\ Here = frames[Top] /\ Here \in Activations
      /\ Here.dir \in Folders /\ Here.i \in 0 .. DirSize /\ Here.local_found \in BOOLEAN
    BY HereFacts DEF InLoop
<1>2. frames \in Seq(Activations)
    BY DEF Path
<1> DEFINE r == [dir |-> Here.dir, i |-> Here.i, local_found |-> FoundHere]
           n == [dir |-> c, i |-> First, local_found |-> FALSE]
<1>3. FoundHere \in BOOLEAN
    BY <1>1 DEF FoundHere
<1>4. r \in Activations /\ r.dir = Here.dir /\ r.i = Here.i /\ r.local_found = FoundHere
    BY <1>1, <1>3 DEF Activations
<1>5. /\ NewFrame(c) = n /\ n \in Activations /\ n.dir = c /\ n.i = First /\ n.local_found = FALSE
  <2>1. First \in 0 .. DirSize
    BY Constants DEF First
  <2> QED BY <2>1 DEF Activations, NewFrame
<1> HIDE DEF r, n
<1>6. Remembered = [frames EXCEPT ![Top] = r]
  <2>1. Remembered = [frames EXCEPT ![Top] = [Here EXCEPT !.local_found = Here.local_found \/ found]]
    BY <1>1 DEF Remembered
  <2>2. FoundHere = (Here.local_found \/ found)
    BY <1>1 DEF FoundHere
  <2>3. [Here EXCEPT !.local_found = Here.local_found \/ found] =
            [dir |-> Here.dir, i |-> Here.i, local_found |-> Here.local_found \/ found]
    BY <1>1, ActivationFields, Zenon
  <2> QED BY <2>1, <2>2, <2>3 DEF r
<1>7. /\ Remembered \in Seq(Activations) /\ Len(Remembered) = Top
      /\ \A x \in 1 .. Top : Remembered[x] = IF x = Top THEN r ELSE frames[x]
    BY <1>1, <1>2, <1>4, <1>6, ExceptSeq
<1>8. /\ frames' \in Seq(Activations) /\ Len(frames') = Top + 1 /\ DOMAIN frames' = 1 .. Top + 1
      /\ \A x \in 1 .. Top : frames'[x] = Remembered[x]
      /\ frames'[Top + 1] = n
  <2>1. frames' = Append(Remembered, n)
    BY <1>5
  <2> QED BY <1>1, <1>5, <1>7, <2>1, AppendProperties
<1>9. \A x \in 1 .. Top - 1 : frames'[x] = frames[x]
    BY <1>1, <1>7, <1>8
<1>10. frames'[Top] = r
    BY <1>1, <1>7, <1>8
<1>11. \A x \in 1 .. Top : frames'[x].dir = frames[x].dir /\ frames'[x].i = frames[x].i
  <2> TAKE x \in 1 .. Top
  <2>1. CASE x = Top
    BY <1>1, <1>4, <1>10, <2>1
  <2>2. CASE x # Top
    <3>1. x \in 1 .. Top - 1
        BY <1>1, <2>2
    <3> QED BY <1>9, <3>1
  <2> QED BY <2>1, <2>2
<1> QED BY <1>4, <1>5, <1>8, <1>9, <1>10, <1>11 DEF Push

\* A call of itself keeps the recursion a path of the tree.
LEMMA PushPath ==
    ASSUME TreeOK, Path, InLoop, UNCHANGED inputs, level' = level + 1, Went(Cur),
           NEW c, c = EntryAt(Cur).child, Push(c)
    PROVE  Path' /\ c \in Folders /\ c # 0 /\ ~IsOpen(c) /\ Here.dir < c
<1>1. /\ Top \in Nat /\ Top >= 1 /\ Top = Len(frames) /\ DOMAIN frames = 1 .. Top
      /\ Here = frames[Top] /\ Here.dir \in Folders /\ level = Top - 1 /\ Deep(Here.dir) = level
      /\ \A x \in 1 .. Top : frames[x].dir \in Folders
    BY HereFacts DEF InLoop
<1>2. /\ frames' \in Seq(Activations) /\ Len(frames') = Top + 1 /\ DOMAIN frames' = 1 .. Top + 1
      /\ \A x \in 1 .. Top : frames'[x].dir = frames[x].dir /\ frames'[x].i = frames[x].i
      /\ frames'[Top + 1].dir = c /\ frames'[Top + 1].i = First
    BY DEF Push
<1>3. frames' # <<>> /\ frames # <<>>
    BY <1>1, <1>2
<1>4. Cur \in FolderPlaces /\ Cur[1] = Here.dir /\ Cur = <<Here.dir, Here.i>>
    BY DEF Went, Cur
<1>5. c \in Folders /\ Here.dir < c /\ Up(c) = {c} \cup Up(Here.dir) /\ Deep(c) = Top
  <2>1. /\ EntryAt(Cur).child \in Folders /\ Cur[1] < EntryAt(Cur).child
        /\ Up(EntryAt(Cur).child) = {EntryAt(Cur).child} \cup Up(Cur[1])
        /\ Deep(EntryAt(Cur).child) = Deep(Cur[1]) + 1
    BY <1>4, UpIsOrder DEF UpFacts
  <2>2. Up(c) = {c} \cup Up(Here.dir) /\ Deep(c) = Deep(Here.dir) + 1
    BY <1>4, <2>1
  <2> QED BY <1>1, <1>4, <2>1, <2>2, SMTT(40)
<1>6. \A x \in 1 .. Top : frames[x].dir < c /\ frames[x].dir \in Nat /\ c \in Nat
  <2> TAKE x \in 1 .. Top
  <2>1. frames[x].dir \in Nat /\ c \in Nat /\ Here.dir \in Nat
    BY <1>1, <1>5, Constants
  <2>2. x = Top \/ frames[x].dir < Here.dir
    BY <1>1 DEF Path
  <2> QED BY <1>1, <1>5, <2>1, <2>2
<1>7. ~IsOpen(c) /\ c # 0
  <2>1. \A x \in 1 .. Top : frames[x].dir # c
    BY <1>6
  <2>2. frames[1].dir = 0
    BY <1>3 DEF Path
  <2> QED BY <1>1, <2>1, <2>2 DEF IsOpen
<1>8. frames'[1].dir = 0
    BY <1>1, <1>2, <1>3 DEF Path
<1>9. ASSUME NEW x \in 1 .. Top + 1
      PROVE  Deep(frames'[x].dir) = x - 1 /\ Up(frames'[x].dir) = {frames'[y].dir : y \in 1 .. x}
  <2>1. ASSUME NEW z \in 1 .. Top
        PROVE  Deep(frames'[z].dir) = z - 1 /\ Up(frames'[z].dir) = {frames'[y].dir : y \in 1 .. z}
    <3>1. PICK d : d = frames[z].dir
        OBVIOUS
    <3>2. Deep(d) = z - 1 /\ Up(d) = {frames[y].dir : y \in 1 .. z}
        BY <1>1, <3>1 DEF Path
    <3>3. {frames[y].dir : y \in 1 .. z} = {frames'[y].dir : y \in 1 .. z}
        BY <1>1, <1>2, SMTT(40)
    <3> QED BY <1>2, <3>1, <3>2, <3>3
  <2>2. CASE x \in 1 .. Top
    BY <2>1, <2>2
  <2>3. CASE x = Top + 1
    <3>1. Up(Here.dir) = {frames'[y].dir : y \in 1 .. Top}
        <4>1. Top \in 1 .. Top /\ frames'[Top].dir = Here.dir
            BY <1>1, <1>2
        <4> QED BY <2>1, <4>1
    <3>2. {frames'[y].dir : y \in 1 .. Top + 1} = {frames'[y].dir : y \in 1 .. Top} \cup {frames'[Top + 1].dir}
        <4>1. Top \in Nat
            BY <1>1
        <4>2. 1 .. Top + 1 = (1 .. Top) \cup {Top + 1}
            BY <4>1
        <4> QED BY <4>2
    <3> QED BY <1>1, <1>2, <1>5, <2>3, <3>1, <3>2
  <2> QED BY <1>1, <2>2, <2>3
<1>10. \A x \in 1 .. Top + 1 : frames'[x].i >= First
  <2> TAKE x \in 1 .. Top + 1
  <2>1. CASE x \in 1 .. Top
    BY <1>1, <1>2, <2>1 DEF Path
  <2>2. CASE x = Top + 1
    <3>1. First \in Nat
        BY DEF First
    <3> QED BY <1>2, <2>2, <3>1
  <2> QED BY <1>1, <2>1, <2>2
<1>11. \A x, y \in 1 .. Top + 1 : x < y => frames'[x].dir < frames'[y].dir
  <2>1. \A x, y \in 1 .. Top : x < y => frames'[x].dir < frames'[y].dir
    BY <1>1, <1>2 DEF Path
  <2> QED BY <1>1, <1>2, <1>6, <2>1
<1>12. ASSUME NEW x \in 1 .. Top
       PROVE  Went(OpenAt(x))' /\ (EntryAt(OpenAt(x)).child)' = frames'[x + 1].dir
  <2>1. PICK p : p = OpenAt(x)
    OBVIOUS
  <2>2. p = OpenAt(x)'
    BY <1>2, <2>1 DEF OpenAt
  <2>3. Went(p) /\ EntryAt(p).child = frames'[x + 1].dir
    <3>1. CASE x = Top
        <4>1. p = Cur
            BY <1>1, <1>4, <2>1, <3>1 DEF OpenAt
        <4> QED BY <1>2, <3>1, <4>1
    <3>2. CASE x # Top
        <4>1. x \in 1 .. Len(frames) - 1 /\ x + 1 \in 1 .. Top
            BY <1>1, <3>2
        <4>2. Went(OpenAt(x)) /\ EntryAt(OpenAt(x)).child = frames[x + 1].dir
            BY <4>1 DEF Path
        <4> QED BY <1>2, <2>1, <4>1, <4>2
    <3> QED BY <3>1, <3>2
  <2>4. Went(p)' /\ EntryAt(p)'.child = frames'[x + 1].dir
    BY <2>3, Static
  <2> QED BY <2>2, <2>4 DEF Went, EntryAt, Deep
<1>13. level' = IF frames' = <<>> THEN 0 ELSE Len(frames') - 1
    BY <1>1, <1>2, <1>3
<1>14. \A x \in DOMAIN frames' :
           /\ Deep(frames[x].dir)' = x - 1
           /\ Up(frames[x].dir)' = {frames'[y].dir : y \in 1 .. x}
           /\ frames'[x].i >= First'
    BY <1>2, <1>9, <1>10, Static DEF Up, Deep
<1>15. \A x \in 1 .. Len(frames') - 1 :
           Went(OpenAt(x))' /\ (EntryAt(OpenAt(x)).child)' = frames'[x + 1].dir
    BY <1>1, <1>2, <1>12
<1>16. Path'
    BY <1>2, <1>8, <1>11, <1>13, <1>14, <1>15 DEF Path
<1> QED BY <1>5, <1>7, <1>16

\* A folder the traversal goes into.
LEMMA EnterStep ==
    ASSUME IInv, Enter
    PROVE  IInv'
<1>1. TreeOK /\ Path /\ Blocks /\ LevelsRight /\ ListingIsTree
    BY DEF IInv
<1>2. PICK vis \in SUBSET Places : Passed(vis) /\ FoundSo(vis) /\ Lines(vis)
    BY DEF IInv, Traversed
<1>3. /\ InLoop /\ Entered(Current) /\ ~TooDeep /\ UNCHANGED inputs
      /\ buffer' = WithLine /\ level' = level + 1 /\ found' = FALSE
      /\ frames' = Append(Remembered, NewFrame(Current.child))
    BY DEF Enter
<1>4. found \in BOOLEAN /\ buffer \in Seq(TextLines)
    BY <1>2 DEF FoundSo, Lines
<1>5. Current = EntryAt(Cur) /\ Cur \in FolderPlaces /\ Cur[1] = Here.dir /\ Cur \in Places
    BY <1>1, <1>3, CurrentPlace DEF FolderPlaces
<1>6. /\ Top \in Nat /\ Top >= 1 /\ Top = Len(frames) /\ DOMAIN frames = 1 .. Top
      /\ Here = frames[Top] /\ Here.dir \in Folders /\ level = Top - 1 /\ Deep(Here.dir) = level
      /\ \A x \in 1 .. Top : frames[x].dir \in Up(Here.dir)
    BY <1>1, <1>3, HereFacts DEF InLoop
<1>7. Went(Cur)
  <2>1. call = "search_dls" => ~(level + 1 > Limit)
    BY <1>3 DEF TooDeep
  <2>2. level \in Nat
    BY <1>6
  <2>3. call = "search_dls" => level < Limit
    BY <2>1, <2>2, Constants
  <2>4. Deep(Cur[1]) = level
    BY <1>5, <1>6
  <2> QED BY <1>3, <1>5, <2>3, <2>4 DEF Went
<1>8. PICK c : c = EntryAt(Cur).child
    OBVIOUS
<1>9. c \in Folders
    BY <1>1, <1>5, <1>8, UpIsOrder DEF UpFacts
<1>10. Push(c)
    BY <1>1, <1>3, <1>4, <1>5, <1>8, <1>9, EnterPush
<1>11. TreeOK' /\ Path' /\ c # 0 /\ ~IsOpen(c) /\ Here.dir < c
    BY <1>1, <1>3, <1>7, <1>8, <1>10, TreeStays, PushPath
<1>12. /\ frames' \in Seq(Activations) /\ Len(frames') = Top + 1 /\ DOMAIN frames' = 1 .. Top + 1
       /\ \A x \in 1 .. Top : frames'[x].dir = frames[x].dir /\ frames'[x].i = frames[x].i
       /\ \A x \in 1 .. Top - 1 : frames'[x] = frames[x]
       /\ frames'[Top].local_found = FoundHere
       /\ frames'[Top + 1].dir = c /\ frames'[Top + 1].i = First
       /\ frames'[Top + 1].local_found = FALSE
    BY <1>10 DEF Push
<1>13. /\ buffer' \in Seq(TextLines) /\ Len(buffer) \in Nat
       /\ DOMAIN buffer = 1 .. Len(buffer) /\ DOMAIN buffer' = 1 .. Len(buffer) + 1
       /\ \A x \in 1 .. Len(buffer) : buffer'[x] = buffer[x]
       /\ buffer'[Len(buffer) + 1].at = Cur
       /\ Listed' = Listed \cup {Cur}
       /\ LevelsRight' /\ ListingIsTree'
    BY <1>1, <1>3, <1>4, <1>5, NewLine
<1>14. /\ \A d : Up(d)' = Up(d)
       /\ \A p : Went(p)' = Went(p) /\ EntryAt(p)' = EntryAt(p)
       /\ \A p, d : IsParent(p, d)' = IsParent(p, d)
       /\ call' = call /\ Tracks' = Tracks /\ FolderPlaces' = FolderPlaces /\ tables' = tables
    BY <1>3, Static
<1>15. \A q \in vis : q[1] # c
  <2> SUFFICES ASSUME NEW q \in vis, q[1] = c PROVE FALSE
    OBVIOUS
  <2>1. q \in Places /\ ~IsOpen(q[1]) /\ q[1] # 0
    BY <1>11
  <2>2. PICK r \in vis : Went(r) /\ IsParent(r, c)
    BY <1>2, <2>1 DEF Passed
  <2>3. r \in FolderPlaces /\ EntryAt(r).child = EntryAt(Cur).child
    BY <1>8, <2>2 DEF IsParent
  <2>4. r = Cur
    BY <1>1, <1>5, <2>3 DEF TreeOK
  <2> QED BY <1>1, <1>2, <1>3, <2>4, CurrentIsNew
<1>16. \A q \in vis : c \notin Up(q[1])
    BY <1>1, <1>2, <1>9, <1>11, <1>15, SeenAbove
<1>17. Passed(vis)'
  <2>1. ASSUME NEW x \in DOMAIN frames', NEW i \in Slots \ {0}
        PROVE  <<frames'[x].dir, i>> \in vis <=> i < frames'[x].i
    <3>1. CASE x \in 1 .. Top
        <4>1. <<frames[x].dir, i>> \in vis <=> i < frames[x].i
            BY <1>2, <1>6, <3>1 DEF Passed
        <4> QED BY <1>12, <3>1, <4>1
    <3>2. CASE x = Top + 1
        <4>1. First \in {0, 1} /\ i \in Nat /\ i # 0
            BY Constants DEF First
        <4>2. ~(i < First)
            BY <4>1
        <4>3. <<c, i>> \notin vis
            BY <1>15
        <4> QED BY <1>12, <3>2, <4>2, <4>3
    <3> QED BY <1>6, <1>12, <3>1, <3>2
  <2>2. \A d : IsOpen(d) => IsOpen(d)'
    BY <1>6, <1>12 DEF IsOpen
  <2>3. \A p \in Places : ~IsOpen(p[1])' =>
            (p \in vis <=> p[1] = 0 \/ \E q \in vis : Went(q)' /\ IsParent(q, p[1])')
    BY <1>2, <1>14, <2>2 DEF Passed
  <2> QED BY <1>2, <2>1, <2>3 DEF Passed
<1>18. /\ \A q : Match(vis, q)' <=> Match(vis, q)
       /\ \A d : MatchBelow(vis, d)' <=> MatchBelow(vis, d)
  <2>1. \A q : Match(vis, q)' <=> Match(vis, q)
    BY <1>3, Static, Zenon DEF Match, Entered, Reported, EntryAt, IsTarget
  <2> QED BY <1>14, <2>1 DEF MatchBelow, Up
<1>19. FoundSo(vis)'
  <2>1. Top' = Top + 1 /\ Here' = frames'[Top + 1]
    BY <1>12 DEF Top, Here
  <2>2. ~FoundHere'
    BY <1>3, <1>12, <2>1 DEF FoundHere
  <2>3. ~MatchBelow(vis, Here.dir)'
    <3>1. ~MatchBelow(vis, c)'
        BY <1>16, <1>18 DEF MatchBelow
    <3>2. Here'.dir = c
        BY <1>12, <2>1
    <3> QED BY <3>1, <3>2 DEF MatchBelow
  <2>4. ASSUME Tracks', NEW x \in 1 .. Len(frames') - 1
        PROVE  frames'[x].local_found <=>
                   \E q \in vis : /\ Match(vis, q)' /\ frames'[x].dir \in Up(q[1])'
                                  /\ frames'[x + 1].dir \notin Up(q[1])'
    <3>1. \A q : Up(q[1])' = Up(q[1])
        BY <1>14 DEF Up
    <3>2. CASE x = Top
        <4>1. frames # <<>> /\ Tracks
            BY <1>3, <1>14, <2>4 DEF InLoop
        <4>2. FoundHere <=> MatchBelow(vis, Here.dir)
            BY <1>2, <4>1 DEF FoundSo
        <4>3. frames'[x].local_found = FoundHere /\ frames'[x].dir = Here.dir /\ frames'[x + 1].dir = c
            BY <1>6, <1>12, <3>2
        <4>4. MatchBelow(vis, Here.dir) <=> \E q \in vis : Match(vis, q) /\ Here.dir \in Up(q[1])
            BY DEF MatchBelow
        <4> QED BY <1>16, <1>18, <3>1, <4>2, <4>3, <4>4
    <3>3. CASE x # Top
        <4>1. x \in 1 .. Top - 1 /\ x + 1 \in 1 .. Top /\ x \in 1 .. Len(frames) - 1
            BY <1>6, <1>12, <3>3
        <4>2. frames'[x] = frames[x] /\ frames'[x + 1].dir = frames[x + 1].dir
            BY <1>12, <4>1
        <4>3. frames[x].local_found <=>
                  \E q \in vis : /\ Match(vis, q) /\ frames[x].dir \in Up(q[1])
                                 /\ frames[x + 1].dir \notin Up(q[1])
            BY <1>2, <1>14, <2>4, <4>1 DEF FoundSo
        <4> QED BY <1>18, <3>1, <4>2, <4>3
    <3> QED BY <3>2, <3>3
  <2> QED BY <1>3, <2>2, <2>3, <2>4 DEF FoundSo, Up
<1>20. \A p : OnOpenPath(p)' <=> OnOpenPath(p) \/ p = Cur
  <2>1. \A x \in 1 .. Top : OpenAt(x)' = OpenAt(x)
    BY <1>12 DEF OpenAt
  <2>2. OpenAt(Top) = Cur
    BY <1>6 DEF OpenAt, Cur
  <2>3. Len(frames') - 1 = Top /\ Len(frames) - 1 = Top - 1
    BY <1>6, <1>12
  <2>4. 1 .. Top = (1 .. Top - 1) \cup {Top}
    BY <1>6
  <2> QED BY <2>1, <2>2, <2>3, <2>4 DEF OnOpenPath
<1>21. /\ \A p : Kept(vis, p)' <=> Kept(vis, p)
       /\ \A p : Lowest(vis, p)' <=> Lowest(vis, p)
  <2> SUFFICES ASSUME NEW p PROVE (Kept(vis, p)' <=> Kept(vis, p)) /\ (Lowest(vis, p)' <=> Lowest(vis, p))
    OBVIOUS
  <2>1. PICK d, e : d = EntryAt(p).child /\ e = p[1]
    OBVIOUS
  <2>2. d = EntryAt(p)'.child
    BY <1>14, <2>1
  <2>3. Kept(vis, p)' <=> p \in vis /\ Went(p)' /\ (Tracks' => MatchBelow(vis, d)')
    BY <2>2 DEF Kept, MatchBelow
  <2>4. Kept(vis, p) <=> p \in vis /\ Went(p) /\ (Tracks => MatchBelow(vis, d))
    BY <2>1 DEF Kept
  <2>5. Lowest(vis, p)' <=> /\ p \in vis /\ p \in FolderPlaces' /\ ~Went(p)' /\ call' = "search_dls"
                            /\ MatchBelow(vis, e)'
    BY <2>1 DEF Lowest
  <2>6. Lowest(vis, p) <=> /\ p \in vis /\ p \in FolderPlaces /\ ~Went(p) /\ call = "search_dls"
                           /\ MatchBelow(vis, e)
    BY <2>1 DEF Lowest
  <2> QED BY <1>14, <1>18, <2>3, <2>4, <2>5, <2>6
<1>22. Lines(vis)'
  <2>1. \A p \in Places : Match(vis, p)' \/ Kept(vis, p)' \/ OnOpenPath(p)' => p \in Listed'
    BY <1>2, <1>13, <1>18, <1>20, <1>21 DEF Lines
  <2>2. \A p \in Listed' : Match(vis, p)' \/ Kept(vis, p)' \/ OnOpenPath(p)' \/ Lowest(vis, p)'
    BY <1>2, <1>13, <1>18, <1>20, <1>21, SMTT(40) DEF Lines
  <2>3. \A x, y \in DOMAIN buffer' : buffer'[x].at = buffer'[y].at => x = y
    <3>1. \A x, y \in DOMAIN buffer : buffer[x].at = buffer[y].at => x = y
        BY <1>2 DEF Lines
    <3>2. buffer'[Len(buffer) + 1].at \notin Listed
        BY <1>1, <1>2, <1>3, <1>13, CurrentNotListed
    <3> QED BY <1>13, <3>1, <3>2, StillOnce
  <2> QED BY <1>13, <2>1, <2>2, <2>3 DEF Lines
<1>23. Blocks'
  <2>1. ASSUME NEW x \in 1 .. Top
        PROVE  \E y \in DOMAIN buffer' :
                   /\ buffer'[y].at = OpenAt(x)'
                   /\ \A z \in DOMAIN buffer' : y < z => frames'[x + 1].dir \in Up(buffer'[z].at[1])
    <3>1. PICK n : n = Len(buffer)
        OBVIOUS
    <3>2. OpenAt(x)' = OpenAt(x)
        BY <1>12 DEF OpenAt
    <3>3. CASE x = Top
        <4>1. OpenAt(x) = Cur
            BY <1>6, <3>3 DEF OpenAt, Cur
        <4>2. n + 1 \in DOMAIN buffer' /\ buffer'[n + 1].at = OpenAt(x)'
            BY <1>13, <3>1, <3>2, <4>1
        <4>3. \A z \in DOMAIN buffer' : ~(n + 1 < z)
            BY <1>13, <3>1
        <4> QED BY <4>2, <4>3
    <3>4. CASE x # Top
        <4>1. x \in 1 .. Len(frames) - 1 /\ x + 1 \in 1 .. Top
            BY <1>6, <3>4
        <4>2. PICK y \in DOMAIN buffer :
                  /\ buffer[y].at = OpenAt(x)
                  /\ \A z \in DOMAIN buffer : y < z => frames[x + 1].dir \in Up(buffer[z].at[1])
            BY <1>1, <4>1 DEF Blocks
        <4>3. y \in DOMAIN buffer' /\ buffer'[y].at = OpenAt(x)'
            BY <1>13, <3>2, <4>2
        <4>4. frames'[x + 1].dir = frames[x + 1].dir /\ frames[x + 1].dir \in Up(Here.dir)
            BY <1>6, <1>12, <4>1
        <4>5. ASSUME NEW z \in DOMAIN buffer', y < z
              PROVE  frames[x + 1].dir \in Up(buffer'[z].at[1])
            <5>1. CASE z = n + 1
                <6>1. buffer'[z].at[1] = Here.dir
                    BY <1>5, <1>13, <3>1, <5>1
                <6> QED BY <4>4, <6>1
            <5>2. CASE z # n + 1
                <6>1. z \in DOMAIN buffer /\ buffer'[z] = buffer[z]
                    BY <1>13, <3>1, <5>2
                <6> QED BY <4>2, <4>5, <6>1
            <5> QED BY <5>1, <5>2
        <4> QED BY <4>3, <4>4, <4>5
    <3> QED BY <3>3, <3>4
  <2>2. Len(frames') - 1 = Top
    BY <1>6, <1>12
  <2> QED BY <1>14, <2>1, <2>2 DEF Blocks, Up
<1> QED BY <1>11, <1>13, <1>17, <1>19, <1>22, <1>23 DEF IInv, Traversed

\* The step back out of a folder.
Pop ==
    /\ frames' \in Seq(Activations) /\ Len(frames') = Top - 1 /\ DOMAIN frames' = 1 .. Top - 1
    /\ \A x \in 1 .. Top - 1 : frames'[x].dir = frames[x].dir
                               /\ frames'[x].local_found = frames[x].local_found
    /\ \A x \in 1 .. Top - 2 : frames'[x] = frames[x]
    /\ frames'[Top - 1].i = frames[Top - 1].i + 1

\* A return drops an activation.
LEMMA ReturnPop ==
    ASSUME TreeOK, Path, frames # <<>>, Top # 1, frames' = Advanced(Front(frames))
    PROVE  Pop
<1>1. /\ Top \in Nat /\ Top >= 1 /\ Top = Len(frames) /\ DOMAIN frames = 1 .. Top
      /\ \A x \in 1 .. Top : frames[x] \in Activations
    BY HereFacts
<1>2. frames \in Seq(Activations)
    BY DEF Path
<1>3. PICK n : n = Top - 1
    OBVIOUS
<1>4. n \in Nat /\ n >= 1 /\ n + 1 = Top /\ n \in 1 .. Top
    BY <1>1, <1>3
<1>5. PICK fs : fs = Front(frames)
    OBVIOUS
<1>6. /\ fs \in Seq(Activations) /\ Len(fs) = n
      /\ \A x \in 1 .. n : fs[x] = frames[x]
  <2>1. fs = SubSeq(frames, 1, n)
    BY <1>1, <1>3, <1>5 DEF Front
  <2> QED BY <1>1, <1>2, <1>4, <2>1, SubSeqProperties
<1>7. PICK h : h = frames[n]
    OBVIOUS
<1>8. h \in Activations /\ h.i + 1 \in 0 .. DirSize /\ fs[n] = h
  <2>1. OpenAt(n) \in FolderPlaces
    <3>1. n \in 1 .. Len(frames) - 1
        BY <1>1, <1>4
    <3> QED BY <3>1 DEF Path, Went
  <2>2. <<frames[n].dir, frames[n].i>> \in Folders \X (Slots \ {0})
    BY <2>1 DEF OpenAt, FolderPlaces, Places
  <2>3. h.i \in Slots
    BY <1>7, <2>2
  <2>4. h.i + 1 \in 0 .. DirSize
    BY <2>3, Constants DEF Slots
  <2> QED BY <1>1, <1>4, <1>6, <1>7, <2>4
<1> DEFINE r == [dir |-> h.dir, i |-> h.i + 1, local_found |-> h.local_found]
<1>9. r \in Activations /\ r.dir = h.dir /\ r.i = h.i + 1 /\ r.local_found = h.local_found
    BY <1>8 DEF Activations
<1>10. frames' = [fs EXCEPT ![n] = r]
  <2>1. frames' = [fs EXCEPT ![n] = [h EXCEPT !.i = h.i + 1]]
    BY <1>5, <1>6, <1>8 DEF Advanced
  <2>2. [h EXCEPT !.i = h.i + 1] = r
    BY <1>8, ActivationFields, Zenon
  <2> QED BY <2>1, <2>2
<1> HIDE DEF r
<1>11. /\ frames' \in Seq(Activations) /\ Len(frames') = n /\ DOMAIN frames' = 1 .. n
       /\ \A x \in 1 .. n : frames'[x] = IF x = n THEN r ELSE fs[x]
    BY <1>4, <1>6, <1>9, <1>10, ExceptSeq
<1>12. ASSUME NEW x \in 1 .. n
       PROVE  /\ frames'[x].dir = frames[x].dir /\ frames'[x].local_found = frames[x].local_found
              /\ x # n => frames'[x] = frames[x]
    BY <1>6, <1>7, <1>9, <1>11
<1>13. frames'[n].i = frames[n].i + 1
    BY <1>4, <1>7, <1>9, <1>11
<1>14. \A x \in 1 .. Top - 2 : x \in 1 .. n /\ x # n
    BY <1>1, <1>3
<1> QED BY <1>3, <1>11, <1>12, <1>13, <1>14 DEF Pop

\* A return keeps the recursion a path of the tree.
LEMMA PopPath ==
    ASSUME TreeOK, Path, frames # <<>>, Top # 1, UNCHANGED inputs, level' = level - 1, Pop
    PROVE  Path'
<1>1. /\ Top \in Nat /\ Top >= 2 /\ Top = Len(frames) /\ DOMAIN frames = 1 .. Top
      /\ level = Top - 1 /\ \A x \in 1 .. Top : frames[x] \in Activations
    BY HereFacts
<1>2. /\ frames' \in Seq(Activations) /\ Len(frames') = Top - 1 /\ DOMAIN frames' = 1 .. Top - 1
      /\ \A x \in 1 .. Top - 1 : frames'[x].dir = frames[x].dir
      /\ \A x \in 1 .. Top - 2 : frames'[x] = frames[x]
      /\ frames'[Top - 1].i = frames[Top - 1].i + 1
    BY DEF Pop
<1>20. \A x \in 1 .. Top - 1 : x \in DOMAIN frames
    BY <1>1
<1>3. frames' # <<>>
    BY <1>1, <1>2
<1>4. frames'[1].dir = 0
    BY <1>1, <1>2 DEF Path
<1>5. \A x \in 1 .. Top - 1 : /\ Deep(frames'[x].dir) = x - 1
                              /\ Up(frames'[x].dir) = {frames'[y].dir : y \in 1 .. x}
  <2> TAKE x \in 1 .. Top - 1
  <2>1. PICK d : d = frames[x].dir
    OBVIOUS
  <2>2. Deep(d) = x - 1 /\ Up(d) = {frames[y].dir : y \in 1 .. x}
    <3>1. x \in DOMAIN frames
        BY <1>20
    <3> QED BY <2>1, <3>1 DEF Path
  <2>3. {frames[y].dir : y \in 1 .. x} = {frames'[y].dir : y \in 1 .. x}
    BY <1>1, <1>2, SMTT(40)
  <2> QED BY <1>2, <2>1, <2>2, <2>3
<1>6. \A x \in 1 .. Top - 1 : frames'[x].i >= First
  <2> TAKE x \in 1 .. Top - 1
  <2>1. frames[x].i >= First /\ First \in {0, 1} /\ frames[x].i \in Nat
    <3>1. x \in DOMAIN frames /\ frames[x] \in Activations
        BY <1>1, <1>20
    <3>2. frames[x].i \in Nat
        BY <3>1, Constants DEF Activations
    <3>3. frames[x].i >= First
        BY <3>1 DEF Path
    <3> QED BY <3>2, <3>3 DEF First
  <2>2. frames'[x].i = frames[x].i \/ frames'[x].i = frames[x].i + 1
    <3>1. CASE x = Top - 1
        BY <1>2, <3>1
    <3>2. CASE x # Top - 1
        <4>1. x \in 1 .. Top - 2
            BY <1>1, <3>2
        <4> QED BY <1>2, <4>1
    <3> QED BY <3>1, <3>2
  <2> QED BY <2>1, <2>2
<1>7. \A x, y \in 1 .. Top - 1 : x < y => frames'[x].dir < frames'[y].dir
  <2>1. \A x, y \in 1 .. Top - 1 : x < y => frames[x].dir < frames[y].dir
    BY <1>20 DEF Path
  <2> QED BY <1>2, <2>1
<1>8. level' = IF frames' = <<>> THEN 0 ELSE Len(frames') - 1
    BY <1>1, <1>2, <1>3
<1>9. \A x \in DOMAIN frames' :
           /\ Deep(frames[x].dir)' = x - 1
           /\ Up(frames[x].dir)' = {frames'[y].dir : y \in 1 .. x}
           /\ frames'[x].i >= First'
    BY <1>2, <1>5, <1>6, Static DEF Up, Deep
<1>10. \A x \in 1 .. Len(frames') - 1 :
           Went(OpenAt(x))' /\ (EntryAt(OpenAt(x)).child)' = frames'[x + 1].dir
  <2> TAKE x \in 1 .. Len(frames') - 1
  <2>1. PICK p : p = OpenAt(x)
    OBVIOUS
  <2>2. x \in 1 .. Top - 2 /\ x \in 1 .. Len(frames) - 1 /\ x + 1 \in 1 .. Top - 1
    BY <1>1, <1>2
  <2>3. p = OpenAt(x)'
    BY <1>2, <2>1, <2>2 DEF OpenAt
  <2>4. Went(OpenAt(x)) /\ EntryAt(OpenAt(x)).child = frames[x + 1].dir
    BY <2>2 DEF Path
  <2>5. Went(p)' /\ EntryAt(p)'.child = frames'[x + 1].dir
    BY <1>2, <2>1, <2>2, <2>4, Static
  <2> QED BY <2>3, <2>5 DEF Went, EntryAt, Deep
<1> QED BY <1>2, <1>4, <1>7, <1>8, <1>9, <1>10 DEF Path

\* A return into a folder: its line stays or is erased.
LEMMA ReturnStep ==
    ASSUME IInv, Return, Top # 1
    PROVE  IInv'
<1>1. TreeOK /\ Path /\ Blocks /\ LevelsRight /\ ListingIsTree
    BY DEF IInv
<1>2. PICK vis \in SUBSET Places : Passed(vis) /\ FoundSo(vis) /\ Lines(vis)
    BY DEF IInv, Traversed
<1>3. /\ frames # <<>> /\ Here.i = DirSize /\ found' = FoundHere /\ UNCHANGED inputs
      /\ frames' = Advanced(Front(frames)) /\ level' = level - 1 /\ buffer' = Erased(FoundHere)
    BY DEF Return
<1>4. /\ Top \in Nat /\ Top >= 2 /\ Top = Len(frames) /\ DOMAIN frames = 1 .. Top
      /\ Here = frames[Top] /\ Here.dir \in Folders /\ Here.local_found \in BOOLEAN
      /\ \A x \in 1 .. Top : frames[x] \in Activations /\ frames[x].dir \in Folders
    BY <1>1, <1>3, HereFacts
<1>5. PICK n : n = Top - 1
    OBVIOUS
<1>6. n \in Nat /\ n >= 1 /\ n + 1 = Top /\ n \in DOMAIN frames /\ n \in 1 .. Len(frames) - 1
    BY <1>4, <1>5
<1>7. Pop
    BY <1>1, <1>3, ReturnPop
<1>8. /\ frames' \in Seq(Activations) /\ Len(frames') = n /\ DOMAIN frames' = 1 .. n
      /\ \A x \in 1 .. n : frames'[x].dir = frames[x].dir
                           /\ frames'[x].local_found = frames[x].local_found
      /\ \A x \in 1 .. n - 1 : frames'[x] = frames[x]
      /\ frames'[n].i = frames[n].i + 1
  <2>1. Top - 2 = n - 1
    BY <1>4, <1>5
  <2> QED BY <1>5, <1>7, <2>1 DEF Pop
<1>9. TreeOK' /\ Path'
    BY <1>1, <1>3, <1>7, TreeStays, PopPath
<1>10. PICK P, h, g : P = OpenAt(n) /\ h = Here.dir /\ g = frames[n].dir
    OBVIOUS
<1>11. /\ P \in FolderPlaces /\ P \in Places /\ Went(P) /\ EntryAt(P).child = h
       /\ P = <<g, frames[n].i>> /\ P[1] = g /\ P \notin vis /\ g \in Folders /\ h \in Folders
  <2>1. Went(OpenAt(n)) /\ EntryAt(OpenAt(n)).child = frames[n + 1].dir
    BY <1>1, <1>6 DEF Path
  <2>2. P \in FolderPlaces /\ P \in Places /\ Went(P) /\ EntryAt(P).child = h
    BY <1>4, <1>6, <1>10, <2>1 DEF Went, FolderPlaces
  <2>3. P = <<g, frames[n].i>> /\ P[1] = g
    BY <1>10 DEF OpenAt
  <2>4. n \in 1 .. Top - 1
    BY <1>4, <1>6
  <2>5. P \notin vis
    BY <1>1, <1>2, <1>3, <1>10, <2>4, OpenNotPassed
  <2> QED BY <1>4, <1>6, <1>10, <2>2, <2>3, <2>5
<1>12. PICK vis2 : vis2 = vis \cup ({P} \cap Places)
    OBVIOUS
<1>13. vis2 = vis \cup {P} /\ vis2 \in SUBSET Places
    BY <1>11, <1>12
<1>14. /\ \A d : Up(d)' = Up(d)
       /\ \A p : Went(p)' = Went(p) /\ EntryAt(p)' = EntryAt(p)
       /\ \A p, d : IsParent(p, d)' = IsParent(p, d)
       /\ call' = call /\ Tracks' = Tracks /\ FolderPlaces' = FolderPlaces /\ tables' = tables
    BY <1>3, Static
<1>15. UpFacts
    BY <1>1, UpIsOrder
<1>16. /\ \A q : Match(vis2, q)' <=> Match(vis, q)
       /\ \A d : MatchBelow(vis2, d)' <=> MatchBelow(vis, d)
  <2>1. ~(~Entered(EntryAt(P)) /\ Reported(EntryAt(P)))
    BY <1>11 DEF Went
  <2>2. UNCHANGED inputs
    BY <1>3
  <2> QED BY ONLY <1>12, <2>1, <2>2, MatchesAfter
<1>17. \A x, y \in 1 .. Top : x # y => frames[x].dir # frames[y].dir
  <2>1. \A x, y \in 1 .. Top : x < y => frames[x].dir < frames[y].dir
    BY <1>1, <1>4 DEF Path
  <2> SUFFICES ASSUME NEW x \in 1 .. Top, NEW y \in 1 .. Top, x # y PROVE frames[x].dir # frames[y].dir
    OBVIOUS
  <2>2. frames[x].dir \in Nat /\ frames[y].dir \in Nat
    BY <1>4, Constants
  <2> QED BY <2>1, <2>2
<1>18. Passed(vis2)'
  <2>1. ASSUME NEW x \in 1 .. n, NEW i \in Slots \ {0}
        PROVE  <<frames'[x].dir, i>> \in vis2 <=> i < frames'[x].i
    <3>1. x \in DOMAIN frames /\ x \in 1 .. Top
        BY <1>4, <1>6
    <3>2. <<frames[x].dir, i>> \in vis <=> i < frames[x].i
        BY <1>2, <3>1 DEF Passed
    <3>3. i \in Nat /\ frames[x].i \in Nat
        BY <1>4, <3>1, Constants DEF Activations
    <3>4. CASE x = n
        <4>1. <<frames'[x].dir, i>> = P <=> i = frames[n].i
            BY <1>8, <1>10, <1>11, <3>4
        <4>2. <<frames'[x].dir, i>> \in vis2 <=> i < frames[x].i \/ i = frames[n].i
            BY <1>8, <1>13, <3>2, <4>1
        <4> QED BY <1>8, <3>3, <3>4, <4>2
    <3>5. CASE x # n
        <4>1. frames[x].dir # g /\ x \in 1 .. n - 1
            BY <1>4, <1>6, <1>10, <1>17, <3>1, <3>5
        <4>2. <<frames[x].dir, i>> # P
            BY <1>11, <4>1
        <4> QED BY <1>8, <1>13, <3>2, <4>1, <4>2
    <3> QED BY <3>4, <3>5
  <2>2. \A d : IsOpen(d) <=> IsOpen(d)' \/ d = h
    <3>1. 1 .. Top = (1 .. n) \cup {Top}
        BY <1>4, <1>6
    <3> QED BY <1>4, <1>8, <1>10, <3>1 DEF IsOpen
  <2>3. IsOpen(g)'
    BY <1>6, <1>8, <1>10 DEF IsOpen
  <2>4. ASSUME NEW p \in Places, ~IsOpen(p[1])'
        PROVE  p \in vis2 <=> p[1] = 0 \/ \E q \in vis2 : Went(q) /\ IsParent(q, p[1])
    <3>1. p \in vis2 <=> p \in vis
        BY <1>11, <1>13, <2>3, <2>4
    <3>2. CASE p[1] = h
        <4>1. p = <<frames[Top].dir, p[2]>> /\ p[2] \in Slots \ {0} /\ p[2] < DirSize
            BY <1>4, <1>10, <3>2, Constants DEF Places, Slots
        <4>2. p \in vis
            BY <1>2, <1>3, <1>4, <4>1 DEF Passed
        <4>3. P \in vis2 /\ Went(P) /\ IsParent(P, p[1])
            BY <1>11, <1>13, <3>2 DEF IsParent
        <4> QED BY <3>1, <4>2, <4>3
    <3>3. CASE p[1] # h
        <4>1. ~IsOpen(p[1])
            BY <2>2, <2>4, <3>3
        <4>2. p \in vis <=> p[1] = 0 \/ \E q \in vis : Went(q) /\ IsParent(q, p[1])
            BY <1>2, <4>1 DEF Passed
        <4>3. ~IsParent(P, p[1])
            BY <1>11, <3>3 DEF IsParent
        <4> QED BY <1>13, <3>1, <4>2, <4>3
    <3> QED BY <3>2, <3>3
  <2>5. \A p \in Places : ~IsOpen(p[1])' =>
            (p \in vis2 <=> p[1] = 0 \/ \E q \in vis2 : Went(q)' /\ IsParent(q, p[1])')
    BY <1>14, <2>4
  <2>6. \A x \in DOMAIN frames', i \in Slots \ {0} : <<frames'[x].dir, i>> \in vis2 <=> i < frames'[x].i
    BY <1>8, <2>1
  <2> QED BY <1>13, <2>5, <2>6 DEF Passed
<1>19. Up(h) = {h} \cup Up(g) /\ g \in Up(g) /\ h \in Up(h)
    BY <1>11, <1>15 DEF UpFacts
<1>20. \A d \in Folders : h \in Up(d) => Up(h) \subseteq Up(d)
    BY <1>15 DEF UpFacts
<1>21. \A q \in vis : q[1] \in Folders
    BY <1>2 DEF Places
<1>22. FoundSo(vis2)'
  <2>1. Top' = n /\ Here' = frames'[n]
    BY <1>8 DEF Top, Here
  <2>2. found' \in BOOLEAN /\ (found' <=> FoundHere)
    BY <1>2, <1>3, <1>4 DEF FoundSo, FoundHere
  <2>3. Tracks' /\ frames' # <<>> => (FoundHere' <=> MatchBelow(vis2, Here.dir)')
    <3> SUFFICES ASSUME Tracks' PROVE FoundHere' <=> MatchBelow(vis2, Here.dir)'
        OBVIOUS
    <3>1. Here'.dir = g /\ Here'.local_found = frames[n].local_found
        BY <1>6, <1>8, <1>10, <2>1
    <3>2. MatchBelow(vis2, Here.dir)' <=> MatchBelow(vis2, g)'
        BY <3>1 DEF MatchBelow
    <3>3. FoundHere <=> MatchBelow(vis, h)
        BY <1>2, <1>3, <1>10, <1>14 DEF FoundSo
    <3>4. frames[n].local_found <=>
              \E q \in vis : Match(vis, q) /\ g \in Up(q[1]) /\ h \notin Up(q[1])
        BY <1>2, <1>4, <1>6, <1>10, <1>14 DEF FoundSo
    <3>5. \A q \in vis : h \in Up(q[1]) => g \in Up(q[1])
        BY <1>19, <1>20, <1>21
    <3>6. MatchBelow(vis, g) <=> MatchBelow(vis, h) \/ frames[n].local_found
        BY <3>4, <3>5 DEF MatchBelow
    <3>7. FoundHere' <=> found' \/ frames[n].local_found
        BY <3>1 DEF FoundHere
    <3> QED BY <1>16, <2>2, <3>2, <3>3, <3>6, <3>7
  <2>4. ASSUME Tracks', NEW x \in 1 .. Len(frames') - 1
        PROVE  frames'[x].local_found <=>
                   \E q \in vis2 : /\ Match(vis2, q)' /\ frames'[x].dir \in Up(q[1])'
                                   /\ frames'[x + 1].dir \notin Up(q[1])'
    <3>1. x \in 1 .. Len(frames) - 1 /\ x \in 1 .. n /\ x + 1 \in 1 .. n
        BY <1>4, <1>6, <1>8
    <3>2. frames'[x].dir = frames[x].dir /\ frames'[x].local_found = frames[x].local_found
          /\ frames'[x + 1].dir = frames[x + 1].dir
        BY <1>8, <3>1
    <3>3. frames[x].local_found <=>
              \E q \in vis : /\ Match(vis, q) /\ frames[x].dir \in Up(q[1])
                             /\ frames[x + 1].dir \notin Up(q[1])
        BY <1>2, <1>14, <2>4, <3>1 DEF FoundSo
    <3>4. \A q : Up(q[1])' = Up(q[1])
        BY <1>14 DEF Up
    <3>5. \A q : Match(vis, q) => q \in vis /\ q \in vis2
        BY <1>13 DEF Match
    <3> QED BY <1>16, <3>2, <3>3, <3>4, <3>5
  <2> QED BY <2>2, <2>3, <2>4 DEF FoundSo, Up
<1>23. \A x \in 1 .. n - 1 : OpenAt(x)' = OpenAt(x)
    BY <1>8 DEF OpenAt
<1>24. \A p : OnOpenPath(p) <=> OnOpenPath(p)' \/ p = P
  <2>1. 1 .. Len(frames) - 1 = (1 .. n - 1) \cup {n} /\ Len(frames') - 1 = n - 1
    BY <1>4, <1>6, <1>8
  <2> QED BY <1>10, <1>23, <2>1 DEF OnOpenPath
<1>25. ~OnOpenPath(P)'
  <2>1. \A x \in 1 .. n - 1 : OpenAt(x)[1] # g
    <3> TAKE x \in 1 .. n - 1
    <3>1. x \in 1 .. Top /\ n \in 1 .. Top /\ x # n
        BY <1>4, <1>6
    <3>2. frames[x].dir # g
        BY <1>10, <1>17, <3>1
    <3> QED BY <3>2 DEF OpenAt
  <2>2. Len(frames') - 1 = n - 1
    BY <1>8
  <2> QED BY <1>11, <1>23, <2>1, <2>2 DEF OnOpenPath
<1>26. \A p : Lowest(vis, p) => Lowest(vis2, p)' /\ p \in vis
  <2> TAKE p
  <2>1. PICK d : d = p[1]
    OBVIOUS
  <2>2. Lowest(vis2, p)' <=> /\ p \in vis2 /\ p \in FolderPlaces' /\ ~Went(p)' /\ call' = "search_dls"
                             /\ MatchBelow(vis2, d)'
    BY <2>1 DEF Lowest
  <2>3. Lowest(vis, p) <=> /\ p \in vis /\ p \in FolderPlaces /\ ~Went(p) /\ call = "search_dls"
                           /\ MatchBelow(vis, d)
    BY <2>1 DEF Lowest
  <2> QED BY <1>13, <1>14, <1>16, <2>2, <2>3
<1>27. \A p : Kept(vis2, p)' <=> Kept(vis, p) \/ (p = P /\ (Tracks => FoundHere))
  <2> TAKE p
  <2>1. PICK d : d = EntryAt(p).child
    OBVIOUS
  <2>2. d = EntryAt(p)'.child
    BY <1>14, <2>1
  <2>3. Kept(vis2, p)' <=> p \in vis2 /\ Went(p)' /\ (Tracks' => MatchBelow(vis2, d)')
    BY <2>2 DEF Kept, MatchBelow
  <2>4. Kept(vis, p) <=> p \in vis /\ Went(p) /\ (Tracks => MatchBelow(vis, d))
    BY <2>1 DEF Kept
  <2>5. p = P => d = h
    BY <1>11, <2>1
  <2>6. Tracks => (FoundHere <=> MatchBelow(vis, h))
    BY <1>2, <1>3, <1>10 DEF FoundSo
  <2> QED BY <1>11, <1>13, <1>14, <1>16, <2>3, <2>4, <2>5, <2>6
<1>28. P \in Listed
  <2>1. OnOpenPath(P)
    BY <1>24
  <2> QED BY <1>2, <1>11, <2>1 DEF Lines
<1>29. buffer \in Seq(TextLines) /\ Len(buffer) \in Nat /\ DOMAIN buffer = 1 .. Len(buffer)
    BY <1>2 DEF Lines
<1>30. CASE ~(Tracks /\ ~FoundHere)
  <2>1. buffer' = buffer
    BY <1>3, <1>30 DEF Erased
  <2>2. Listed' = Listed /\ LevelsRight' /\ ListingIsTree'
    BY <1>1, <1>3, <2>1, BufferStays
  <2>3. Lines(vis2)'
    <3>1. \A p \in Places : Match(vis2, p)' \/ Kept(vis2, p)' \/ OnOpenPath(p)' => p \in Listed'
        BY <1>2, <1>16, <1>24, <1>27, <1>28, <2>2 DEF Lines
    <3>2. \A p \in Listed' : Match(vis2, p)' \/ Kept(vis2, p)' \/ OnOpenPath(p)' \/ Lowest(vis2, p)'
        BY <1>2, <1>16, <1>24, <1>26, <1>27, <1>30, <2>2 DEF Lines
    <3>3. buffer' \in Seq(TextLines) /\ \A x, y \in DOMAIN buffer' : buffer'[x].at = buffer'[y].at => x = y
        BY <1>2, <2>1 DEF Lines
    <3> QED BY <3>1, <3>2, <3>3 DEF Lines
  <2>4. Blocks'
    <3>1. ASSUME NEW x \in 1 .. n - 1
          PROVE  \E y \in DOMAIN buffer' :
                     /\ buffer'[y].at = OpenAt(x)'
                     /\ \A z \in DOMAIN buffer' : y < z => frames'[x + 1].dir \in Up(buffer'[z].at[1])
        <4>1. x \in 1 .. Len(frames) - 1 /\ x + 1 \in 1 .. n
            BY <1>4, <1>6
        <4> QED BY <1>1, <1>8, <1>23, <2>1, <4>1 DEF Blocks
    <3>2. Len(frames') - 1 = n - 1
        BY <1>8
    <3> QED BY <1>14, <3>1, <3>2 DEF Blocks, Up
  <2> QED BY <1>9, <1>13, <1>18, <1>22, <2>2, <2>3, <2>4 DEF IInv, Traversed
<1>31. CASE Tracks /\ ~FoundHere
  <2>1. ~MatchBelow(vis, h)
    BY <1>2, <1>3, <1>10, <1>31 DEF FoundSo
  <2>2. PICK m : m = Len(buffer)
    OBVIOUS
  <2>3. PICK y \in DOMAIN buffer :
            /\ buffer[y].at = P
            /\ \A z \in DOMAIN buffer : y < z => h \in Up(buffer[z].at[1])
    BY <1>1, <1>4, <1>6, <1>10 DEF Blocks
  <2>4. ASSUME NEW z \in DOMAIN buffer, y < z
        PROVE  FALSE
    <3>1. PICK p, d : p = buffer[z].at /\ d = p[1]
        OBVIOUS
    <3>2. p \in Listed /\ h \in Up(d)
        BY <2>3, <2>4, <3>1 DEF Listed
    <3>3. p \in Places /\ d \in Folders
        <4>1. \A l \in TextLines : l.at \in Places /\ l.at[1] \in Folders
            BY DEF TextLines, Places
        <4>2. buffer[z] \in TextLines
            BY <1>29
        <4> QED BY <3>1, <4>1, <4>2
    <3>4. ASSUME Match(vis, p) PROVE FALSE
        BY <2>1, <3>1, <3>2, <3>4 DEF MatchBelow, Match
    <3>5. ASSUME NEW e \in Folders, h \in Up(e), MatchBelow(vis, e) PROVE FALSE
        <4>1. PICK q \in vis : Match(vis, q) /\ e \in Up(q[1])
            BY <3>5 DEF MatchBelow
        <4>2. PICK f : f = q[1]
            OBVIOUS
        <4>3. f \in Folders /\ e \in Up(f)
            BY <1>21, <4>1, <4>2
        <4>4. Up(e) \subseteq Up(f)
            BY <1>15, <4>3 DEF UpFacts
        <4> QED BY <2>1, <3>5, <4>1, <4>2, <4>4 DEF MatchBelow
    <3>6. ASSUME Kept(vis, p) PROVE FALSE
        <4>1. PICK e : e = EntryAt(p).child
            OBVIOUS
        <4>2. p \in FolderPlaces /\ MatchBelow(vis, e)
            BY <1>31, <3>6, <4>1 DEF Kept, Went
        <4>3. e \in Folders /\ Up(e) = {e} \cup Up(d)
            BY <1>15, <3>1, <4>1, <4>2 DEF UpFacts
        <4> QED BY <3>2, <3>5, <4>2, <4>3
    <3>7. ASSUME Lowest(vis, p) PROVE FALSE
        BY <3>1, <3>2, <3>3, <3>5, <3>7 DEF Lowest
    <3>8. ASSUME OnOpenPath(p) PROVE FALSE
        <4>1. PICK x \in 1 .. Len(frames) - 1 : p = OpenAt(x)
            BY <3>8 DEF OnOpenPath
        <4>2. x < Top /\ x \in DOMAIN frames /\ Top \in DOMAIN frames /\ d = frames[x].dir
            BY <1>4, <3>1, <4>1 DEF OpenAt
        <4>3. d < h
            BY <1>1, <1>4, <1>10, <4>2 DEF Path
        <4>4. h <= d /\ h \in Nat /\ d \in Nat
            BY <1>11, <1>15, <3>2, <3>3, Constants DEF UpFacts
        <4> QED BY <4>3, <4>4
    <3> QED BY <1>2, <3>2, <3>4, <3>6, <3>7, <3>8 DEF Lines
  <2>5. y = m /\ m \in DOMAIN buffer /\ m \in Nat /\ m >= 1 /\ buffer[m].at = P
    <3>1. m \in Nat /\ y \in 1 .. m /\ DOMAIN buffer = 1 .. m
        BY <1>29, <2>2, <2>3
    <3>2. m \in DOMAIN buffer
        BY <3>1
    <3>3. y = m
        BY <2>4, <3>1, <3>2
    <3> QED BY <2>3, <3>1, <3>2, <3>3
  <2>6. /\ buffer' \in Seq(TextLines) /\ Len(buffer') = m - 1 /\ DOMAIN buffer' = 1 .. m - 1
        /\ \A x \in 1 .. m - 1 : buffer'[x] = buffer[x]
    <3>1. buffer' = SubSeq(buffer, 1, m - 1)
        BY <1>3, <1>31, <2>2 DEF Erased, Front
    <3> QED BY <1>29, <2>2, <2>5, <3>1, SubSeqProperties
  <2>7. \A x, z \in 1 .. m : buffer[x].at = buffer[z].at => x = z
    BY <1>2, <1>29, <2>2 DEF Lines
  <2>8. Listed' = Listed \ {P}
    <3>1. 1 .. m = (1 .. m - 1) \cup {m}
        BY <2>5
    <3>2. \A x \in 1 .. m - 1 : buffer[x].at # P
        <4> TAKE x \in 1 .. m - 1
        <4>1. x \in 1 .. m /\ m \in 1 .. m /\ x # m
            BY <2>5
        <4> QED BY <2>5, <2>7, <4>1
    <3>3. {buffer[x].at : x \in 1 .. m - 1} = {buffer[x].at : x \in 1 .. m} \ {P}
        BY <2>5, <3>1, <3>2
    <3>4. {buffer'[x].at : x \in 1 .. m - 1} = {buffer[x].at : x \in 1 .. m - 1}
        BY <2>6
    <3>5. Listed = {buffer[x].at : x \in 1 .. m}
        BY <1>29, <2>2 DEF Listed
    <3>6. Listed' = {buffer'[x].at : x \in 1 .. m - 1}
        BY <2>6 DEF Listed
    <3> QED BY <3>3, <3>4, <3>5, <3>6
  <2>9. Lines(vis2)'
    <3>1. \A p : Match(vis, p) \/ Kept(vis, p) \/ Lowest(vis, p) => p # P
        BY <1>11 DEF Match, Kept, Lowest
    <3>2. \A p \in Places : Match(vis2, p)' \/ Kept(vis2, p)' \/ OnOpenPath(p)' => p \in Listed'
        BY <1>2, <1>16, <1>24, <1>25, <1>27, <1>31, <2>8, <3>1 DEF Lines
    <3>3. \A p \in Listed' : Match(vis2, p)' \/ Kept(vis2, p)' \/ OnOpenPath(p)' \/ Lowest(vis2, p)'
        BY <1>2, <1>16, <1>24, <1>26, <1>27, <2>8 DEF Lines
    <3>4. \A x, z \in DOMAIN buffer' : buffer'[x].at = buffer'[z].at => x = z
        <4>1. \A x \in 1 .. m - 1 : x \in 1 .. m
            BY <2>5
        <4> QED BY <2>6, <2>7, <4>1
    <3> QED BY <2>6, <3>2, <3>3, <3>4 DEF Lines
  <2>10. LevelsRight'
    <3>1. \A x \in 1 .. m - 1 : x \in DOMAIN buffer
        BY <2>5, <1>29, <2>2
    <3> QED BY <1>1, <1>14, <2>6, <3>1 DEF LevelsRight, Deep
  <2>11. ListingIsTree'
    <3>1. ASSUME NEW x \in 1 .. m - 1
          PROVE  /\ x \in DOMAIN buffer /\ buffer'[x] = buffer[x]
                 /\ \A z \in 1 .. x - 1 : buffer'[z] = buffer[z]
        BY <1>29, <2>2, <2>5, <2>6
    <3>2. ASSUME NEW x \in 1 .. m - 1
          PROVE  IF buffer'[x].level = 0 THEN buffer'[x].at[1] = 0
                 ELSE \E w \in 1 .. x - 1 :
                        /\ buffer'[w].level = buffer'[x].level - 1
                        /\ EntryAt(buffer'[w].at).child = buffer'[x].at[1]
                        /\ \A z \in w + 1 .. x - 1 : buffer'[z].level >= buffer'[x].level
        <4>1. IF buffer[x].level = 0 THEN buffer[x].at[1] = 0
              ELSE \E w \in 1 .. x - 1 :
                     /\ buffer[w].level = buffer[x].level - 1
                     /\ EntryAt(buffer[w].at).child = buffer[x].at[1]
                     /\ \A z \in w + 1 .. x - 1 : buffer[z].level >= buffer[x].level
            BY <1>1, <3>1 DEF ListingIsTree
        <4>2. \A w \in 1 .. x - 1 : \A z \in w + 1 .. x - 1 : z \in 1 .. x - 1
            BY <2>5
        <4> QED BY <3>1, <4>1, <4>2
    <3> QED BY <1>14, <2>6, <3>2 DEF ListingIsTree, EntryAt
  <2>12. Blocks'
    <3>1. ASSUME NEW x \in 1 .. n - 1
          PROVE  \E w \in DOMAIN buffer' :
                     /\ buffer'[w].at = OpenAt(x)'
                     /\ \A z \in DOMAIN buffer' : w < z => frames'[x + 1].dir \in Up(buffer'[z].at[1])
        <4>1. x \in 1 .. Len(frames) - 1 /\ x + 1 \in 1 .. n /\ x \in 1 .. Top /\ n \in 1 .. Top /\ x # n
            BY <1>4, <1>6
        <4>2. PICK w \in DOMAIN buffer :
                  /\ buffer[w].at = OpenAt(x)
                  /\ \A z \in DOMAIN buffer : w < z => frames[x + 1].dir \in Up(buffer[z].at[1])
            BY <1>1, <4>1 DEF Blocks
        <4>3. OpenAt(x) # P
            <5>1. frames[x].dir # g
                BY <1>10, <1>17, <4>1
            <5> QED BY <1>11, <5>1 DEF OpenAt
        <4>4. w \in DOMAIN buffer' /\ buffer'[w].at = OpenAt(x)'
            <5>1. w \in 1 .. m /\ w # m
                BY <1>29, <2>2, <2>5, <4>2, <4>3
            <5>2. w \in 1 .. m - 1
                BY <2>5, <5>1
            <5> QED BY <1>23, <2>6, <4>2, <5>2
        <4>5. \A z \in DOMAIN buffer' : z \in DOMAIN buffer /\ buffer'[z] = buffer[z]
            BY <1>29, <2>2, <2>5, <2>6
        <4> QED BY <1>8, <4>1, <4>2, <4>4, <4>5
    <3>2. Len(frames') - 1 = n - 1
        BY <1>8
    <3> QED BY <1>14, <3>1, <3>2 DEF Blocks, Up
  <2> QED BY <1>9, <1>13, <1>18, <1>22, <2>9, <2>10, <2>11, <2>12 DEF IInv, Traversed
<1> QED BY <1>30, <1>31

\* The return to the caller.
LEMMA LastReturn ==
    ASSUME IInv, Return, Top = 1
    PROVE  IInv'
<1>1. TreeOK /\ Path /\ Blocks /\ LevelsRight /\ ListingIsTree
    BY DEF IInv
<1>2. PICK vis \in SUBSET Places : Passed(vis) /\ FoundSo(vis) /\ Lines(vis)
    BY DEF IInv, Traversed
<1>3. /\ frames # <<>> /\ Here.i = DirSize /\ found' = FoundHere /\ UNCHANGED inputs
      /\ frames' = <<>> /\ level' = level /\ buffer' = buffer
    BY DEF Return
<1>4. /\ Len(frames) = 1 /\ DOMAIN frames = 1 .. 1 /\ Here = frames[1] /\ Here.dir = 0 /\ level = 0
      /\ Here.local_found \in BOOLEAN
  <2>1. /\ Top = Len(frames) /\ DOMAIN frames = 1 .. Top /\ Here = frames[Top] /\ level = Top - 1
        /\ Here.local_found \in BOOLEAN
    BY <1>1, <1>3, HereFacts
  <2>2. frames[1].dir = 0
    BY <1>1, <1>3, Zenon DEF Path
  <2>3. Len(frames) = 1 /\ DOMAIN frames = 1 .. 1 /\ Here = frames[1] /\ level = 0
    BY <2>1
  <2> QED BY <2>1, <2>2, <2>3
<1>5. /\ \A d : Up(d)' = Up(d)
      /\ \A p : Went(p)' = Went(p) /\ EntryAt(p)' = EntryAt(p)
      /\ \A p, d : IsParent(p, d)' = IsParent(p, d)
      /\ call' = call /\ Tracks' = Tracks /\ FolderPlaces' = FolderPlaces /\ tables' = tables
    BY <1>3, Static
<1>6. TreeOK' /\ LevelsRight' /\ ListingIsTree' /\ Listed' = Listed
    BY <1>1, <1>3, TreeStays, BufferStays
<1>7. frames' \in Seq(Activations) /\ Len(frames') = 0 /\ DOMAIN frames' = {} /\ 1 .. Len(frames') - 1 = {}
    BY <1>3
<1>8. Path'
    BY <1>3, <1>4, <1>7 DEF Path
<1>9. Blocks'
    BY <1>7 DEF Blocks
<1>10. Passed(vis)'
  <2>1. \A d : IsOpen(d) <=> d = 0
    BY <1>4 DEF IsOpen
  <2>2. ASSUME NEW p \in Places
        PROVE  p \in vis <=> p[1] = 0 \/ \E q \in vis : Went(q) /\ IsParent(q, p[1])
    <3>1. CASE p[1] = 0
        <4>1. p = <<frames[1].dir, p[2]>> /\ p[2] \in Slots \ {0} /\ p[2] < DirSize
            BY <1>4, <3>1, Constants DEF Places, Slots
        <4> QED BY <1>2, <1>3, <1>4, <3>1, <4>1 DEF Passed
    <3>2. CASE p[1] # 0
        BY <1>2, <2>1, <3>2 DEF Passed
    <3> QED BY <3>1, <3>2
  <2> QED BY <1>2, <1>5, <1>7, <2>2 DEF Passed
<1>11. FoundSo(vis)'
  <2>1. found' \in BOOLEAN
    BY <1>2, <1>3, <1>4 DEF FoundSo, FoundHere
  <2> QED BY <1>3, <1>7, <2>1 DEF FoundSo
<1>12. /\ \A q : Match(vis, q)' <=> Match(vis, q)
       /\ \A d : MatchBelow(vis, d)' <=> MatchBelow(vis, d)
  <2>1. \A q : Match(vis, q)' <=> Match(vis, q)
    BY <1>3, Static, Zenon DEF Match, Entered, Reported, EntryAt, IsTarget
  <2> QED BY <1>5, <2>1 DEF MatchBelow, Up
<1>13. \A p : ~OnOpenPath(p)' /\ ~OnOpenPath(p)
    BY <1>4, <1>7 DEF OnOpenPath
<1>14. /\ \A p : Kept(vis, p)' <=> Kept(vis, p)
       /\ \A p : Lowest(vis, p)' <=> Lowest(vis, p)
  <2> SUFFICES ASSUME NEW p PROVE (Kept(vis, p)' <=> Kept(vis, p)) /\ (Lowest(vis, p)' <=> Lowest(vis, p))
    OBVIOUS
  <2>1. PICK d, e : d = EntryAt(p).child /\ e = p[1]
    OBVIOUS
  <2>2. d = EntryAt(p)'.child
    BY <1>5, <2>1
  <2>3. Kept(vis, p)' <=> p \in vis /\ Went(p)' /\ (Tracks' => MatchBelow(vis, d)')
    BY <2>2 DEF Kept, MatchBelow
  <2>4. Kept(vis, p) <=> p \in vis /\ Went(p) /\ (Tracks => MatchBelow(vis, d))
    BY <2>1 DEF Kept
  <2>5. Lowest(vis, p)' <=> /\ p \in vis /\ p \in FolderPlaces' /\ ~Went(p)' /\ call' = "search_dls"
                            /\ MatchBelow(vis, e)'
    BY <2>1 DEF Lowest
  <2>6. Lowest(vis, p) <=> /\ p \in vis /\ p \in FolderPlaces /\ ~Went(p) /\ call = "search_dls"
                           /\ MatchBelow(vis, e)
    BY <2>1 DEF Lowest
  <2> QED BY <1>5, <1>12, <2>3, <2>4, <2>5, <2>6
<1>15. Lines(vis)'
  <2>1. buffer' \in Seq(TextLines) /\ \A x, y \in DOMAIN buffer' : buffer'[x].at = buffer'[y].at => x = y
    BY <1>2, <1>3 DEF Lines
  <2>2. \A p \in Places : Match(vis, p)' \/ Kept(vis, p)' \/ OnOpenPath(p)' => p \in Listed'
    BY <1>2, <1>6, <1>12, <1>13, <1>14 DEF Lines
  <2>3. \A p \in Listed' : Match(vis, p)' \/ Kept(vis, p)' \/ OnOpenPath(p)' \/ Lowest(vis, p)'
    BY <1>2, <1>6, <1>12, <1>13, <1>14 DEF Lines
  <2> QED BY <2>1, <2>2, <2>3 DEF Lines
<1> QED BY <1>2, <1>6, <1>8, <1>9, <1>10, <1>11, <1>15 DEF IInv, Traversed

\* The invariant when a traversal is called.
LEMMA InitInv ==
    ASSUME Init
    PROVE  IInv
<1>1. TreeOK
    BY TreeShape
<1>2. frames = <<NewFrame(0)>> /\ level = 0 /\ found = FALSE /\ buffer = <<>>
    BY DEF Init
<1>3. First \in {0, 1} /\ First \in 0 .. DirSize
    BY Constants DEF First
<1> DEFINE f == [dir |-> 0, i |-> First, local_found |-> FALSE]
<1>4. frames = <<f>> /\ f \in Activations /\ f.dir = 0 /\ f.i = First /\ f.local_found = FALSE
    BY <1>2, <1>3, Constants DEF NewFrame, Activations
<1> HIDE DEF f
<1>5. /\ frames \in Seq(Activations) /\ Len(frames) = 1 /\ DOMAIN frames = 1 .. 1 /\ frames[1] = f
      /\ frames # <<>> /\ 1 .. Len(frames) - 1 = {}
    BY <1>4
<1>6. UpFacts
    BY <1>1, UpIsOrder
<1>7. Path
  <2>1. Deep(f.dir) = 0 /\ Up(f.dir) = {f.dir}
    BY <1>4, <1>6 DEF UpFacts
  <2>2. {frames[y].dir : y \in 1 .. 1} = {f.dir}
    BY <1>5
  <2>3. ASSUME NEW x \in DOMAIN frames
        PROVE  /\ Deep(frames[x].dir) = x - 1 /\ Up(frames[x].dir) = {frames[y].dir : y \in 1 .. x}
               /\ frames[x].i >= First
    <3>1. x = 1 /\ frames[x] = f
        BY <1>5
    <3>2. f.i >= First
        BY <1>3, <1>4
    <3> QED BY <2>1, <2>2, <3>1, <3>2
  <2>4. \A x, y \in DOMAIN frames : ~(x < y)
    BY <1>5
  <2> QED BY <1>2, <1>4, <1>5, <2>3, <2>4 DEF Path
<1>8. DOMAIN buffer = {} /\ buffer \in Seq(TextLines)
    BY <1>2
<1>9. Blocks /\ LevelsRight /\ ListingIsTree
    BY <1>5, <1>8 DEF Blocks, LevelsRight, ListingIsTree
<1>10. Passed({})
  <2>1. \A x \in DOMAIN frames, i \in Slots \ {0} : ~(i < frames[x].i)
    BY <1>3, <1>4, <1>5, Constants
  <2>2. IsOpen(0)
    BY <1>4, <1>5 DEF IsOpen
  <2> QED BY <2>1, <2>2 DEF Passed
<1>11. \A d : ~MatchBelow({}, d)
    BY DEF MatchBelow
<1>12. FoundSo({})
  <2>1. Top = 1 /\ Here = f
    BY <1>5 DEF Top, Here
  <2>2. ~FoundHere
    BY <1>2, <1>4, <2>1 DEF FoundHere
  <2> QED BY <1>2, <1>5, <1>11, <2>2 DEF FoundSo
<1>13. Lines({})
  <2>1. \A p : ~Match({}, p) /\ ~Kept({}, p) /\ ~OnOpenPath(p)
    BY <1>5 DEF Match, Kept, OnOpenPath
  <2>2. Listed = {}
    BY <1>8 DEF Listed
  <2> QED BY <1>8, <2>1, <2>2 DEF Lines
<1> QED BY <1>1, <1>7, <1>9, <1>10, <1>12, <1>13 DEF IInv, Traversed

\* Every step keeps the invariant.
LEMMA NextInv ==
    ASSUME IInv, [Next]_vars
    PROVE  IInv'
<1>1. CASE Pass
    BY <1>1, PassStep
<1>2. CASE Report
    BY <1>2, ReportStep
<1>3. CASE Enter
    BY <1>3, EnterStep
<1>4. CASE EnterTooDeep
    BY <1>4, EnterTooDeepStep
<1>5. CASE Return
    BY <1>5, ReturnStep, LastReturn
<1>6. CASE UNCHANGED vars
  <2>1. /\ call' = call /\ target' = target /\ tables' = tables /\ frames' = frames
        /\ level' = level /\ found' = found /\ buffer' = buffer
    BY <1>6 DEF vars, inputs
  <2>2. UNCHANGED inputs
    BY <2>1 DEF inputs
  <2>3. TreeOK /\ Path /\ Blocks /\ LevelsRight /\ ListingIsTree
    BY DEF IInv
  <2>4. PICK vis \in SUBSET Places : Passed(vis) /\ FoundSo(vis) /\ Lines(vis)
    BY DEF IInv, Traversed
  <2>5. TreeOK' /\ LevelsRight' /\ ListingIsTree'
    BY <2>1, <2>2, <2>3, TreeStays, BufferStays
  <2>6. Path'
    <3>1. /\ First' = First
          /\ \A d : Up(d)' = Up(d) /\ Deep(d)' = Deep(d)
        BY <2>2, Static
    <3>2. ASSUME NEW x \in 1 .. Len(frames) - 1
          PROVE  Went(OpenAt(x))' /\ EntryAt(OpenAt(x))'.child = frames[x + 1].dir
        <4>1. PICK p : p = OpenAt(x)
            OBVIOUS
        <4>2. p = OpenAt(x)'
            BY <2>1, <4>1 DEF OpenAt
        <4>3. Went(p) /\ EntryAt(p).child = frames[x + 1].dir
            BY <2>3, <4>1 DEF Path
        <4>4. Went(p)' /\ EntryAt(p)' = EntryAt(p)
            BY <2>2, <4>3, Static
        <4> QED BY <4>2, <4>3, <4>4 DEF Went, EntryAt
    <3> QED BY <2>1, <2>3, <3>1, <3>2 DEF Path
  <2>7. Blocks'
    BY <2>1, <2>3 DEF Blocks, OpenAt, Up
  <2>8. Passed(vis)'
    BY <2>1, <2>2, <2>4, Static DEF Passed, IsOpen
  <2>9. FoundSo(vis)' /\ Lines(vis)'
    <3>1. \A q : Match(vis, q)' <=> Match(vis, q)
        BY <2>1, Zenon DEF Match, Entered, Reported, EntryAt, IsTarget
    <3>2. \A d : MatchBelow(vis, d)' <=> MatchBelow(vis, d)
        BY <2>1, <3>1 DEF MatchBelow, Up
    <3>3. \A p : Kept(vis, p)' <=> Kept(vis, p)
        <4>1. \A p : Went(p)' = Went(p) /\ EntryAt(p)' = EntryAt(p)
            BY <2>2, Static
        <4>2. Tracks' = Tracks
            BY <2>1 DEF Tracks
        <4> TAKE p
        <4>3. PICK d : d = EntryAt(p).child
            OBVIOUS
        <4>4. d = EntryAt(p)'.child
            BY <4>1, <4>3
        <4>5. Kept(vis, p)' <=> p \in vis /\ Went(p)' /\ (Tracks' => MatchBelow(vis, d)')
            BY <4>4 DEF Kept, MatchBelow
        <4>6. Kept(vis, p) <=> p \in vis /\ Went(p) /\ (Tracks => MatchBelow(vis, d))
            BY <4>3 DEF Kept
        <4> QED BY <3>2, <4>1, <4>2, <4>5, <4>6
    <3>4. \A p : Lowest(vis, p)' <=> Lowest(vis, p)
        <4> TAKE p
        <4>1. PICK d : d = p[1]
            OBVIOUS
        <4>2. Lowest(vis, p)' <=> /\ p \in vis /\ p \in FolderPlaces' /\ ~Went(p)' /\ call' = "search_dls"
                                  /\ MatchBelow(vis, d)'
            BY <4>1 DEF Lowest
        <4>3. Lowest(vis, p) <=> /\ p \in vis /\ p \in FolderPlaces /\ ~Went(p) /\ call = "search_dls"
                                 /\ MatchBelow(vis, d)
            BY <4>1 DEF Lowest
        <4> QED BY <2>2, <3>2, <4>2, <4>3, Static
    <3>5. \A p : OnOpenPath(p)' <=> OnOpenPath(p)
        BY <2>1 DEF OnOpenPath, OpenAt
    <3>6. FoundSo(vis)'
        <4>1. (FoundHere <=> MatchBelow(vis, Here.dir))' <=> (FoundHere <=> MatchBelow(vis, Here.dir))
            <5>1. Here' = Here
                BY <2>1 DEF Here, Top
            <5>2. PICK d : d = Here.dir
                OBVIOUS
            <5>3. MatchBelow(vis, Here.dir)' <=> MatchBelow(vis, d)'
                BY <5>1, <5>2 DEF MatchBelow
            <5>4. FoundHere' <=> FoundHere
                BY <2>1, <5>1 DEF FoundHere
            <5> QED BY <3>2, <5>2, <5>3, <5>4
        <4>2. Tracks' = Tracks
            BY <2>1 DEF Tracks
        <4>3. \A d : Up(d)' = Up(d)
            BY <2>2, Static
        <4> QED BY <2>1, <2>4, <3>1, <4>1, <4>2, <4>3 DEF FoundSo
    <3>7. Lines(vis)'
        <4>1. Listed' = Listed
            BY <2>1 DEF Listed
        <4> QED BY <2>1, <2>4, <3>1, <3>3, <3>4, <3>5, <4>1 DEF Lines
    <3> QED BY <3>6, <3>7
  <2> QED BY <2>5, <2>6, <2>7, <2>8, <2>9 DEF IInv, Traversed
<1> QED BY <1>1, <1>2, <1>3, <1>4, <1>5, <1>6 DEF Next, Done

-----------------------------------------------------------------------------
(* What a finished call has listed.                                        *)

Rooted(d) == d = 0 \/ HasPlace(d)

\* Every folder on the way down to d was entered.
AllEntered(d) == \A q \in FolderPlaces : EntryAt(q).child \in Up(d) => Went(q)

\* A finished call has passed the entries of the folders it could get to.
LEMMA EndPassed ==
    ASSUME TreeOK, frames = <<>>, NEW vis, Passed(vis)
    PROVE  \A p \in Places : Rooted(p[1]) => (p \in vis <=> AllEntered(p[1]))
<1>1. \A p \in Places : p \in vis <=> p[1] = 0 \/ \E q \in vis : Went(q) /\ IsParent(q, p[1])
  <2>1. \A d : ~IsOpen(d)
    BY DEF IsOpen
  <2> QED BY <2>1 DEF Passed
<1>2. UpFacts
    BY UpIsOrder
<1> DEFINE Q == {d \in Folders : Rooted(d) =>
                     \A p \in Places : p[1] = d => (p \in vis <=> AllEntered(d))}
<1>3. ASSUME NEW d \in Folders, \A e \in Folders : e < d => e \in Q
      PROVE  d \in Q
  <2> SUFFICES ASSUME Rooted(d), NEW p \in Places, p[1] = d
               PROVE  p \in vis <=> AllEntered(d)
    OBVIOUS
  <2>1. CASE d = 0
    <3>1. \A q \in FolderPlaces : EntryAt(q).child \notin Up(0)
        <4> TAKE q \in FolderPlaces
        <4>1. q[1] \in Nat /\ q[1] < EntryAt(q).child
            BY <1>2, Constants DEF UpFacts
        <4>2. Up(0) = {0}
            BY <1>2 DEF UpFacts
        <4>3. EntryAt(q).child # 0
            BY <4>1
        <4> QED BY <4>2, <4>3
    <3> QED BY <1>1, <2>1, <3>1 DEF AllEntered
  <2>2. CASE d # 0
    <3>1. PICK r \in FolderPlaces : IsParent(r, d)
        BY <2>2 DEF Rooted, HasPlace
    <3>2. /\ r \in Places /\ r[1] \in Folders /\ r[1] < d /\ EntryAt(r).child = d
          /\ Up(d) = {d} \cup Up(r[1])
        BY <1>2, <3>1 DEF UpFacts, IsParent
    <3>3. Rooted(r[1])
        <4>1. r \in Present
            BY <3>1 DEF FolderPlaces, Present
        <4> QED BY <4>1 DEF TreeOK, Rooted, HasPlace
    <3>4. r \in vis <=> AllEntered(r[1])
        <4>1. r[1] \in Q
            BY <1>3, <3>2
        <4> QED BY <3>2, <3>3, <4>1
    <3>5. \A q : IsParent(q, d) => q = r
        BY <3>1, <3>2 DEF TreeOK, IsParent
    <3>6. p \in vis <=> r \in vis /\ Went(r)
        BY <1>1, <2>2, <3>1, <3>5
    <3>7. AllEntered(d) <=> AllEntered(r[1]) /\ Went(r)
        <4>1. \A q \in FolderPlaces : EntryAt(q).child = d => q = r
            BY <3>5 DEF IsParent
        <4> QED BY <3>1, <3>2, <4>1 DEF AllEntered
    <3> QED BY <3>4, <3>6, <3>7
  <2> QED BY <2>1, <2>2
<1>4. Q = Folders
  <2>1. Q \in SUBSET Folders
    OBVIOUS
  <2> HIDE DEF Q
  <2> QED BY <1>3, <2>1, FolderInduction
<1> SUFFICES ASSUME NEW p \in Places, Rooted(p[1]) PROVE p \in vis <=> AllEntered(p[1])
    OBVIOUS
<1>5. p[1] \in Q
    BY <1>4 DEF Places
<1> QED BY <1>5

\* What is in the tree lies below the first folder.
LEMMA PresentRooted ==
    ASSUME TreeOK
    PROVE  \A p \in Present : p \in Places /\ p[1] \in Folders /\ Rooted(p[1])
BY DEF TreeOK, Present, Places, Rooted, HasPlace

\* Only entries in use are listed or entered.
LEMMA ReportedPresent ==
    /\ \A p \in Places : Reported(EntryAt(p)) => p \in Present
    /\ \A p \in FolderPlaces : p \in Present
<1>1. ASSUME NEW e, Reported(e) PROVE e.ext # "na"
  <2>1. CASE call \in {"list_dir_content", "print"}
    BY <1>1, <2>1, Zenon DEF Reported
  <2>2. CASE call = "print_path_to_dir"
    <3>1. e.ext \in {"dir", "txt"}
        BY <1>1, <2>2 DEF Reported
    <3> QED BY <3>1
  <2>3. CASE call \notin {"list_dir_content", "print", "print_path_to_dir"}
    <3>1. e.ext = "txt"
        BY <1>1, <2>3 DEF Reported
    <3> QED BY <3>1
  <2> QED BY <2>1, <2>2, <2>3
<1> QED BY <1>1 DEF Present, FolderPlaces

\* At the end everything below the entered folders was passed.
LEMMA EndMatches ==
    ASSUME TreeOK, frames = <<>>, NEW vis, Passed(vis)
    PROVE  /\ \A p \in Present : p \in vis <=> AllEntered(p[1])
           /\ \A p : Match(vis, p) <=> /\ p \in Present /\ AllEntered(p[1])
                                      /\ ~Entered(EntryAt(p)) /\ Reported(EntryAt(p))
<1>1. \A p \in Present : p \in vis <=> AllEntered(p[1])
    BY EndPassed, PresentRooted
<1>2. \A p : Match(vis, p) => p \in Present
    BY ReportedPresent DEF Match, Passed
<1> QED BY <1>1, <1>2 DEF Match

\* What is listed at the end: the matches, the folders that lead to them, and
\* folders behind the limit.
LEMMA EndListed ==
    ASSUME TreeOK, frames = <<>>, NEW vis, Passed(vis), Lines(vis),
           NEW M, M = {p \in Places : Match(vis, p)}
    PROVE  /\ M \subseteq Present
           /\ \A p \in Present : p \in vis <=> AllEntered(p[1])
           /\ \A p \in Places : p \in M <=> /\ p \in Present /\ AllEntered(p[1])
                                            /\ ~Entered(EntryAt(p)) /\ Reported(EntryAt(p))
           /\ Tracks => M \cup OnPath(M) \subseteq Listed
           /\ Tracks => Listed \subseteq M \cup OnPath(M) \cup {p \in Present : Lowest(vis, p)}
<1>1. UpFacts
    BY UpIsOrder
<1>2. \A p \in Present : p \in vis <=> AllEntered(p[1])
    BY EndMatches
<1>3. M \subseteq Present
    BY EndMatches
<1>4. \A p \in Places : p \in M <=> /\ p \in Present /\ AllEntered(p[1])
                                    /\ ~Entered(EntryAt(p)) /\ Reported(EntryAt(p))
    BY EndMatches
<1>5. \A d : Above[d] = Up(d)
    BY AboveIsUp DEF Up
<1>6. \A p : ~OnOpenPath(p)
    BY DEF OnOpenPath
<1>7. vis \subseteq Places /\ \A q : Match(vis, q) <=> q \in M
    BY DEF Match, Passed
<1>8. Tracks => \A p \in Places : Kept(vis, p) <=> p \in OnPath(M)
  <2> SUFFICES ASSUME Tracks, NEW p \in Places PROVE Kept(vis, p) <=> p \in OnPath(M)
    OBVIOUS
  <2>1. PICK d : d = EntryAt(p).child
    OBVIOUS
  <2>2. p \in OnPath(M) <=> p \in FolderPlaces /\ \E q \in M : d \in Up(q[1])
    BY <1>5, <2>1 DEF OnPath
  <2>3. MatchBelow(vis, d) <=> \E q \in M : d \in Up(q[1])
    BY <1>7 DEF MatchBelow, Match
  <2>4. Kept(vis, p) <=> p \in vis /\ Went(p) /\ MatchBelow(vis, d)
    BY <2>1 DEF Kept
  <2>5. ASSUME p \in FolderPlaces, NEW q \in M, d \in Up(q[1]) PROVE p \in vis /\ Went(p)
    <3>1. q \in Present /\ AllEntered(q[1]) /\ q[1] \in Folders
        BY <1>3, <1>4, PresentRooted
    <3>2. Went(p)
        BY <2>1, <2>5, <3>1 DEF AllEntered
    <3>3. Up(d) \subseteq Up(q[1])
        BY <1>1, <2>5, <3>1 DEF UpFacts
    <3>4. Up(p[1]) \subseteq Up(d)
        BY <1>1, <2>1, <2>5 DEF UpFacts
    <3>5. AllEntered(p[1])
        BY <3>1, <3>3, <3>4 DEF AllEntered
    <3> QED BY <1>2, <2>5, <3>2, <3>5, ReportedPresent
  <2>6. Went(p) => p \in FolderPlaces
    BY DEF Went
  <2> QED BY <2>2, <2>3, <2>4, <2>5, <2>6
<1>9. Tracks => M \cup OnPath(M) \subseteq Listed
  <2>1. OnPath(M) \subseteq Places /\ M \subseteq Places
    BY DEF OnPath, FolderPlaces
  <2> QED BY <1>7, <1>8, <2>1 DEF Lines
<1>10. Tracks => Listed \subseteq M \cup OnPath(M) \cup {p \in Present : Lowest(vis, p)}
  <2>1. \A p : Lowest(vis, p) => p \in Present
    BY ReportedPresent DEF Lowest
  <2>2. \A p : Kept(vis, p) => p \in Places
    BY <1>7 DEF Kept
  <2> QED BY <1>6, <1>7, <1>8, <2>1, <2>2 DEF Lines
<1> QED BY <1>2, <1>3, <1>4, <1>9, <1>10

\* No entry is listed twice.
LEMMA NoneTwice ==
    ASSUME NEW vis, Lines(vis)
    PROVE  Once
<1> DEFINE n == Len(buffer)
           f == [x \in 1 .. n |-> buffer[x].at]
<1>1. n \in Nat /\ DOMAIN buffer = 1 .. n
    BY DEF Lines
<1>2. f \in [1 .. n -> Listed]
    BY <1>1 DEF Listed
<1>3. \A x, y \in 1 .. n : f[x] = f[y] => x = y
    BY <1>1 DEF Lines
<1>4. \A p \in Listed : \E x \in 1 .. n : f[x] = p
    BY <1>1 DEF Listed
<1> HIDE DEF f
<1>5. f \in Bijection(1 .. n, Listed)
    BY <1>2, <1>3, <1>4 DEF Bijection, Injection, Surjection, IsInjective
<1>6. ExistsBijection(1 .. n, Listed)
    BY <1>5 DEF ExistsBijection
<1> QED BY <1>1, <1>6, FS_CountingElements DEF Once

-----------------------------------------------------------------------------
(* The theorems.                                                           *)

\* ls and print at their end.
LEMMA EndPrint ==
    ASSUME IInv
    PROVE  ListsAll
<1>1. TreeOK
    BY DEF IInv
<1>2. PICK vis \in SUBSET Places : Passed(vis) /\ Lines(vis)
    BY DEF IInv, Traversed
<1>3. Once
    BY <1>2, NoneTwice
<1>4. PICK M : M = {p \in Places : Match(vis, p)}
    OBVIOUS
<1>5. ASSUME frames = <<>>
      PROVE  /\ \A p \in Present : p \in vis <=> AllEntered(p[1])
             /\ \A p \in Places : p \in M <=> /\ p \in Present /\ AllEntered(p[1])
                                              /\ ~Entered(EntryAt(p)) /\ Reported(EntryAt(p))
    BY <1>1, <1>2, <1>4, <1>5, EndMatches
<1>6. Present \subseteq Places /\ FolderPlaces \subseteq Present
    BY ReportedPresent DEF Present
<1>7. ASSUME frames = <<>>, ~Tracks
      PROVE  \A p : p \in Listed <=> p \in M \/ (p \in vis /\ Went(p))
  <2>1. \A p : ~OnOpenPath(p) /\ ~Lowest(vis, p)
    BY <1>7 DEF OnOpenPath, Lowest, Tracks
  <2>2. \A p : Kept(vis, p) <=> p \in vis /\ Went(p)
    BY <1>7 DEF Kept
  <2>3. \A p : Match(vis, p) \/ Kept(vis, p) => p \in Places
    BY <1>2, <2>2 DEF Match
  <2> QED BY <1>2, <1>4, <2>1, <2>2, <2>3 DEF Lines
<1>8. ASSUME Finished("print") PROVE Listed = Present
  <2>1. frames = <<>> /\ call = "print" /\ ~Tracks
    BY <1>8 DEF Finished, Tracks
  <2>2. \A e : (Entered(e) <=> e.ext = "dir") /\ (Reported(e) <=> e.ext # "na")
    BY <2>1, Zenon DEF Entered, Reported
  <2>3. \A p : Went(p) <=> p \in FolderPlaces
    BY <2>1, <2>2 DEF Went, FolderPlaces
  <2>4. \A d : AllEntered(d)
    BY <2>3 DEF AllEntered
  <2>5. \A p \in Present : p \in vis /\ (p \in M \/ Went(p))
    BY <1>5, <1>6, <2>1, <2>2, <2>3, <2>4 DEF Present, FolderPlaces
  <2>6. \A p \in Listed : p \in Present
    <3> TAKE p \in Listed
    <3>1. p \in M \/ Went(p)
        BY <1>7, <2>1
    <3>2. p \in M => p \in Present
        BY <1>4, <1>5, <2>1
    <3> QED BY <1>6, <2>3, <3>1, <3>2
  <2> QED BY <1>7, <2>1, <2>5, <2>6
<1>9. ASSUME Finished("list_dir_content") PROVE Listed = {p \in Present : p[1] = 0}
  <2>1. frames = <<>> /\ call = "list_dir_content" /\ ~Tracks
    BY <1>9 DEF Finished, Tracks
  <2>2. \A e : ~Entered(e) /\ (Reported(e) <=> e.ext # "na")
    BY <2>1, Zenon DEF Entered, Reported
  <2>3. \A p : ~Went(p)
    BY <2>2 DEF Went
  <2>4. ASSUME NEW p \in Present PROVE AllEntered(p[1]) <=> p[1] = 0
    <3>1. UpFacts /\ p[1] \in Folders /\ Rooted(p[1])
        BY <1>1, UpIsOrder, PresentRooted
    <3>2. CASE p[1] = 0
        <4>1. \A q \in FolderPlaces : EntryAt(q).child \notin Up(0)
            <5> TAKE q \in FolderPlaces
            <5>1. q[1] \in Nat /\ q[1] < EntryAt(q).child /\ Up(0) = {0}
                BY <3>1, Constants DEF UpFacts
            <5>2. EntryAt(q).child # 0
                BY <5>1
            <5> QED BY <5>1, <5>2
        <4> QED BY <3>2, <4>1 DEF AllEntered
    <3>3. CASE p[1] # 0
        <4>1. PICK r \in FolderPlaces : EntryAt(r).child = p[1]
            BY <3>1, <3>3 DEF Rooted, HasPlace, IsParent
        <4>2. p[1] \in Up(p[1])
            BY <3>1 DEF UpFacts
        <4> QED BY <2>3, <3>3, <4>1, <4>2 DEF AllEntered
    <3> QED BY <3>2, <3>3
  <2>5. \A p : p \in Listed <=> p \in M
    BY <1>7, <2>1, <2>3
  <2>6. \A p \in Present : EntryAt(p).ext # "na"
    BY DEF Present
  <2>7. \A p \in M : p \in Places
    BY <1>4
  <2>8. \A p : p \in M <=> p \in Present /\ p[1] = 0
    BY <1>5, <1>6, <2>1, <2>2, <2>4, <2>6, <2>7
  <2> QED BY <2>5, <2>8
<1> QED BY <1>3, <1>8, <1>9 DEF ListsAll

\* A depth-limited search at its end.
LEMMA EndSearch ==
    ASSUME IInv
    PROVE  SearchExact
<1> SUFFICES ASSUME Finished("search_dls")
             PROVE  LET hits == {p \in Present : EntryAt(p).hit /\ Depth[p[1]] <= Limit}
                        lowest == {p \in FolderPlaces : Depth[p[1]] = Limit}
                    IN  Once /\ hits \cup OnPath(hits) \subseteq Listed
                             /\ Listed \subseteq hits \cup OnPath(hits) \cup lowest
    BY DEF SearchExact
<1> DEFINE hits == {p \in Present : EntryAt(p).hit /\ Depth[p[1]] <= Limit}
           lowest == {p \in FolderPlaces : Depth[p[1]] = Limit}
<1>1. TreeOK /\ UpFacts
    BY UpIsOrder DEF IInv
<1>2. PICK vis \in SUBSET Places : Passed(vis) /\ Lines(vis)
    BY DEF IInv, Traversed
<1>3. Once
    BY <1>2, NoneTwice
<1>4. frames = <<>> /\ call = "search_dls" /\ Tracks
    BY DEF Finished, Tracks
<1>5. PICK M : M = {p \in Places : Match(vis, p)}
    OBVIOUS
<1>6. /\ \A p \in Present : p \in vis <=> AllEntered(p[1])
      /\ \A p \in Places : p \in M <=> /\ p \in Present /\ AllEntered(p[1])
                                       /\ ~Entered(EntryAt(p)) /\ Reported(EntryAt(p))
      /\ M \cup OnPath(M) \subseteq Listed
      /\ Listed \subseteq M \cup OnPath(M) \cup {p \in Present : Lowest(vis, p)}
    BY <1>1, <1>2, <1>4, <1>5, EndListed, SMTT(40)
<1>7. \A e : (Entered(e) <=> e.ext = "dir") /\ (Reported(e) <=> e.ext = "txt" /\ e.hit)
  <2>1. \A e : Entered(e) <=> e.ext = "dir"
    BY <1>4, Zenon DEF Entered
  <2>2. call \notin {"list_dir_content", "print"} /\ call # "print_path_to_dir"
    BY <1>4
  <2>3. \A e : Reported(e) <=> e.ext = "txt" /\ e.hit
    BY <2>2, Zenon DEF Reported
  <2> QED BY <2>1, <2>3
<1>8. \A p : Went(p) <=> p \in FolderPlaces /\ Deep(p[1]) < Limit
    BY <1>4, <1>7 DEF Went, FolderPlaces
<1>9. \A d : Depth[d] = Deep(d)
    BY AboveIsUp DEF Deep
<1>10. ASSUME NEW p \in Present PROVE AllEntered(p[1]) <=> Deep(p[1]) <= Limit
  <2>1. PICK d \in Folders : d = p[1] /\ Rooted(d)
    BY <1>1, PresentRooted
  <2>2. d \in Up(d) /\ Deep(d) \in Nat /\ \A e \in Up(d) : Deep(e) <= Deep(d)
    BY <1>1 DEF UpFacts
  <2>3. ASSUME NEW q \in FolderPlaces
        PROVE  /\ Deep(EntryAt(q).child) = Deep(q[1]) + 1 /\ Deep(q[1]) \in Nat
    BY <1>1 DEF UpFacts
  <2>4. ASSUME Deep(d) <= Limit PROVE AllEntered(d)
    <3> SUFFICES ASSUME NEW q \in FolderPlaces, EntryAt(q).child \in Up(d) PROVE Deep(q[1]) < Limit
        BY <1>8 DEF AllEntered
    <3>1. Deep(q[1]) + 1 <= Deep(d) /\ Deep(q[1]) \in Nat
        BY <2>2, <2>3
    <3> QED BY <2>2, <2>4, <3>1, Constants
  <2>5. ASSUME AllEntered(d) PROVE Deep(d) <= Limit
    <3>1. CASE d = 0
        BY <1>1, <3>1, Constants DEF UpFacts
    <3>2. CASE d # 0
        <4>1. PICK r \in FolderPlaces : EntryAt(r).child = d
            BY <2>1, <3>2 DEF Rooted, HasPlace, IsParent
        <4>2. Deep(r[1]) < Limit
            BY <1>8, <2>2, <2>5, <4>1 DEF AllEntered
        <4>3. Deep(d) = Deep(r[1]) + 1 /\ Deep(r[1]) \in Nat
            BY <2>3, <4>1
        <4> QED BY <4>2, <4>3, Constants
    <3> QED BY <3>1, <3>2
  <2> QED BY <2>1, <2>4, <2>5
<1>11. M = hits
  <2>1. \A p \in Present : p \in Places /\ (EntryAt(p).hit => EntryAt(p).ext = "txt")
    BY <1>1 DEF TreeOK, Present
  <2>2. \A p \in M : p \in Places
    BY <1>5
  <2>3. ASSUME NEW p PROVE p \in M <=> p \in Present /\ EntryAt(p).hit /\ Deep(p[1]) <= Limit
    BY <1>6, <1>7, <1>10, <2>1, <2>2
  <2> QED BY <1>9, <2>3
<1>12. \A p \in Present : Lowest(vis, p) => p \in lowest
  <2> SUFFICES ASSUME NEW p \in Present, Lowest(vis, p) PROVE p \in FolderPlaces /\ Deep(p[1]) = Limit
    BY <1>9
  <2>1. p \in FolderPlaces /\ p \in vis /\ ~(Deep(p[1]) < Limit)
    BY <1>8 DEF Lowest
  <2>2. Deep(p[1]) <= Limit /\ Deep(p[1]) \in Nat
    BY <1>1, <1>6, <1>10, <2>1, PresentRooted DEF UpFacts
  <2> QED BY <2>1, <2>2, Constants
<1> HIDE DEF hits, lowest
<1>13. hits \cup OnPath(hits) \subseteq Listed /\ Listed \subseteq hits \cup OnPath(hits) \cup lowest
    BY <1>6, <1>11, <1>12
<1> QED BY <1>3, <1>13 DEF hits, lowest

\* find at its end.
LEMMA EndFind ==
    ASSUME IInv
    PROVE  FindExact
<1> DEFINE Named(S) == {p \in Present : EntryAt(p).name \in S /\ EntryAt(p).ext # "low"}
           Reached(P) == {p \in P : \A q \in Named({Short, Long}) :
                              EntryAt(q).ext = "dir" => EntryAt(q).child \notin Above[p[1]]}
           matches == IF target = Long THEN {} ELSE Reached(Named({Short, Long}))
<1> SUFFICES ASSUME Finished("print_path_to_dir")
             PROVE  Once /\ Listed = matches \cup OnPath(matches)
    BY DEF FindExact
<1>1. TreeOK /\ UpFacts
    BY UpIsOrder DEF IInv
<1>2. PICK vis \in SUBSET Places : Passed(vis) /\ Lines(vis)
    BY DEF IInv, Traversed
<1>3. Once
    BY <1>2, NoneTwice
<1>4. frames = <<>> /\ call = "print_path_to_dir" /\ Tracks
    BY DEF Finished, Tracks
<1>5. PICK M : M = {p \in Places : Match(vis, p)}
    OBVIOUS
<1>6. /\ \A p \in Places : p \in M <=> /\ p \in Present /\ AllEntered(p[1])
                                       /\ ~Entered(EntryAt(p)) /\ Reported(EntryAt(p))
      /\ M \cup OnPath(M) \subseteq Listed
      /\ Listed \subseteq M \cup OnPath(M) \cup {p \in Present : Lowest(vis, p)}
    BY <1>1, <1>2, <1>4, <1>5, EndListed, SMTT(40)
<1>7. Listed = M \cup OnPath(M)
  <2>1. \A p : ~Lowest(vis, p)
    BY <1>4 DEF Lowest
  <2> QED BY <1>6, <2>1
<1>8. \A e : /\ Entered(e) <=> e.ext = "dir" /\ ~IsTarget(e)
             /\ Reported(e) <=> e.ext \in {"dir", "txt"} /\ IsTarget(e)
  <2>1. call \notin {"list_dir_content", "print", "search_dls"}
    BY <1>4
  <2>2. \A e : Entered(e) <=> e.ext = "dir" /\ ~IsTarget(e)
    BY <1>4, <2>1, Zenon DEF Entered
  <2>3. \A e : Reported(e) <=> e.ext \in {"dir", "txt"} /\ IsTarget(e)
    BY <1>4, <2>1, Zenon DEF Reported
  <2> QED BY <2>2, <2>3
<1>9. \A e : ~Entered(e) /\ Reported(e) <=> e.ext \in {"dir", "txt"} /\ IsTarget(e)
    BY <1>8
<1>10. \A p \in Places : EntryAt(p) \in Entries
    BY <1>1 DEF TreeOK, EntryAt, Places
<1>11. \A e \in Entries : /\ e.name \in {Short, Long, Other}
                          /\ e.ext \in {"na", "low", "dir", "txt"}
    BY DEF Entries
<1>12. \A e : IsTarget(e) <=> target = Short /\ (e.name = Short \/ e.name = Long)
  <2>1. CASE target = Short
    BY <2>1, SearchAssumption DEF IsTarget, Shortened
  <2>2. CASE target = Long
    BY <2>2, SearchAssumption DEF IsTarget, Shortened
  <2> QED BY <1>1, <2>1, <2>2 DEF TreeOK
<1>13. M \subseteq Places /\ Present \subseteq Places /\ \A p \in Present : EntryAt(p).ext # "na"
    BY <1>5 DEF Present
<1>14. CASE target = Long
  <2>1. M = {}
    BY <1>6, <1>9, <1>12, <1>13, <1>14, SearchAssumption
  <2>2. matches = {}
    BY <1>14
  <2> HIDE DEF matches
  <2> QED BY <1>3, <1>7, <2>1, <2>2
<1>15. CASE target = Short
  <2>1. target # Long /\ matches = Reached(Named({Short, Long}))
    BY <1>15, SearchAssumption
  <2>2. \A p : p \in Named({Short, Long}) <=>
                   p \in Present /\ ~Entered(EntryAt(p)) /\ Reported(EntryAt(p))
    BY <1>9, <1>10, <1>11, <1>12, <1>13, <1>15
  <2>3. \A q : q \in Named({Short, Long}) /\ EntryAt(q).ext = "dir" <=> q \in FolderPlaces /\ ~Went(q)
    <3>1. \A q : Went(q) <=> q \in FolderPlaces /\ Entered(EntryAt(q))
        BY <1>4 DEF Went
    <3>2. \A q : q \in FolderPlaces <=> q \in Present /\ EntryAt(q).ext = "dir"
        BY DEF FolderPlaces, Present
    <3>3. \A e : e.ext = "dir" => (~Entered(e) <=> ~Entered(e) /\ Reported(e))
        BY <1>8
    <3> QED BY <2>2, <3>1, <3>2, <3>3
  <2> HIDE DEF Named
  <2>4. \A d : AllEntered(d) <=> \A q \in Named({Short, Long}) :
                                     EntryAt(q).ext = "dir" => EntryAt(q).child \notin Above[d]
    <3>1. \A d : Above[d] = Up(d)
        BY AboveIsUp DEF Up
    <3> QED BY <2>3, <3>1 DEF AllEntered
  <2>5. \A p : p \in matches <=> p \in Named({Short, Long}) /\ AllEntered(p[1])
    BY <2>1, <2>4
  <2> HIDE DEF matches
  <2>6. M = matches
    BY <1>6, <1>13, <2>2, <2>5
  <2> QED BY <1>3, <1>7, <2>6
<1> QED BY <1>1, <1>14, <1>15 DEF TreeOK

\* The invariant implies the types.
LEMMA TypesRight ==
    ASSUME IInv
    PROVE  TypeOK
<1>1. TreeOK /\ Path
    BY DEF IInv
<1>2. PICK vis \in SUBSET Places : FoundSo(vis) /\ Lines(vis)
    BY DEF IInv, Traversed
<1>3. \A x \in DOMAIN frames : frames[x] \in Activations
    BY <1>1 DEF Path
<1>4. \A x \in DOMAIN frames : /\ frames[x].dir \in Folders /\ frames[x].i \in 0 .. DirSize
                               /\ frames[x].local_found \in BOOLEAN
    BY <1>3 DEF Activations
<1>5. (frames # <<>> => level = Len(frames) - 1) /\ (frames = <<>> => level = 0)
    BY <1>1 DEF Path
<1>6. Listed \subseteq Present
  <2>1. \A p \in FolderPlaces : p \in Present
    BY ReportedPresent
  <2>2. \A p : OnOpenPath(p) => p \in FolderPlaces
    BY <1>1 DEF Path, OnOpenPath, Went
  <2>3. \A p : Match(vis, p) => p \in Present
    BY ReportedPresent DEF Match
  <2>4. \A p : Kept(vis, p) \/ Lowest(vis, p) => p \in FolderPlaces
    BY DEF Kept, Lowest, Went
  <2> QED BY <1>2, <2>1, <2>2, <2>3, <2>4 DEF Lines
<1>7. ASSUME NEW x \in DOMAIN buffer
      PROVE  buffer[x].level \in Nat /\ buffer[x].at \in Present
  <2>1. buffer[x] \in TextLines
    BY <1>2 DEF Lines
  <2> QED BY <1>6, <2>1 DEF TextLines, Listed
<1> QED BY <1>1, <1>2, <1>4, <1>5, <1>7 DEF TypeOK, TreeOK, FoundSo

\* The invariant of the traversals: IInv holds of the first activation and every
\* step of a loop, of a recursion and of a return keeps it.
THEOREM Invariance == Spec => []IInv
<1>1. Init => IInv
    BY InitInv
<1>2. IInv /\ [Next]_vars => IInv'
    BY NextInv
<1> QED BY <1>1, <1>2, PTL DEF Spec

\* Every variable keeps its type: level is always the depth of the recursion, also
\* while level and found are shared by all activations, and what is listed is in
\* the tree.
THEOREM TypeCorrect == Spec => []TypeOK
BY Invariance, TypesRight, PTL

\* At every moment of ls, print, find and a search the indented lines are a picture
\* of the tree, whatever was erased from them before.
THEOREM ListingStaysTree == Spec => []ListingIsTree
<1>1. IInv => ListingIsTree
    BY DEF IInv
<1> QED BY <1>1, Invariance, PTL

\* print lists every entry of the tree and ls every entry of its folder, each once,
\* for trees and tables of any size.
THEOREM ListsEverything == Spec => []ListsAll
BY Invariance, EndPrint, PTL

\* depth_limited_search_bm and _kmp list the text files with the pattern down to the
\* limit, with the folders that lead to them: a match is neither lost when found is
\* reset by a recursion nor is a folder kept that leads to none, but for folders
\* on the last level.
THEOREM SearchIsExact == Spec => []SearchExact
BY Invariance, EndSearch, PTL

\* find_and_print_path lists the entries of the name it is given, as far as 7
\* letters tell, with the folders that lead to them and nothing else.
THEOREM FindIsExact == Spec => []FindExact
BY Invariance, EndFind, PTL
=============================================================================
