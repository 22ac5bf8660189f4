------------------------------- MODULE Search -------------------------------
(***************************************************************************)
(* The traversals of the folder tree behind ls, print, find and the two    *)
(* searches: list_dir_content, all_list_dir_content, find_and_print_path   *)
(* and depth_limited_search_bm / _kmp of fat32.c, recursion by recursion.  *)
(* The last two differ in the string matching only, which module Matching  *)
(* shows to be exact: here a text file has the pattern in it or has not.   *)
(*                                                                         *)
(* They share found, level and the write position of the buffer through    *)
(* pointers and keep local_found (found_lokal) for themselves. Interrupts  *)
(* are off, so the tree, one the driver can have produced (module FAT32),  *)
(* does not change meanwhile.                                              *)
(*                                                                         *)
(* The buffer is a sequence of lines. That it may be longer than the       *)
(* caller's array, or start behind text the caller left there (ls, print), *)
(* is not modelled.                                                        *)
(***************************************************************************)
EXTENDS Integers, Sequences, FiniteSets, SequencesExt

CONSTANTS
    FolderCount,       \* bound: folders of a tree of the searches; 0 is where the
                       \* call starts
    ListedFolders,     \* bound: folders of a tree of the other calls
    DirSize,           \* bound: entries of a directory table
    LeafSlots,         \* bound: entries of a table that may hold a file
    Limit,             \* limit of the searches (10)
    Short, Long,       \* a name of 7 letters, and one of 8 that begins with it
    Other              \* a name of no interest

ASSUME SearchAssumption ==
    /\ FolderCount \in Nat \ {0} /\ DirSize \in Nat \ {0}
    /\ ListedFolders \in 1 .. FolderCount
    /\ LeafSlots \in Nat /\ Limit \in Nat
    /\ Short # Long /\ Other \notin {Short, Long}

VARIABLES
    call,      \* the function a system call runs
    target,    \* target_dir_name of print_path_to_dir
    tables,    \* folder -> its directory table
    frames,    \* the activations, each with its folder, loop variable and
               \* local_found
    level, found,
    buffer     \* the lines: indentation and the entry each one names

inputs == <<call, target, tables>>
vars == <<inputs, frames, level, found, buffer>>
-----------------------------------------------------------------------------
(* The tree.                                                               *)

Calls == {"list_dir_content", "print", "print_path_to_dir", "search_dls"}
Folders == 0 .. FolderCount - 1
Slots == 0 .. DirSize - 1
Places == Folders \X (Slots \ {0})

\* ext: "na" is all zero, "low" sorts before "dir", and "txt" stands for what
\* sorts behind it; hit: a text file that has the pattern in it.
EntryOf(n, e, h, d) == [name |-> n, ext |-> e, hit |-> h, child |-> d]
Empty == EntryOf(Other, "na", FALSE, 0)
File(n, e, h) == EntryOf(n, e, h, 0)
Folder(n, d) == EntryOf(n, "dir", FALSE, d)

\* init_directory_table: entry 0 bears the folder's name and no extension.
Own == File(Other, "low", FALSE)

\* What a tree holds besides folders, and the folders' names.
Leaves(c) ==
    CASE c = "search_dls" -> {File(Other, "txt", TRUE), File(Other, "txt", FALSE)}
      [] c = "print_path_to_dir" -> {File(Short, "low", FALSE), File(Short, "txt", FALSE),
                                     File(Long, "txt", FALSE)}
      [] OTHER -> {Empty, File(Other, "low", FALSE), File(Other, "txt", FALSE)}
FolderNames(c) == IF c = "print_path_to_dir" THEN {Short, Long, Other} ELSE {Other}

\* Folders 1 .. k stand in the tables of earlier ones, in their order.
Before(p, q) == p[1] < q[1] \/ (p[1] = q[1] /\ p[2] < q[2])
IsTree(where) ==
    \A e \in DOMAIN where : /\ where[e][1] < e
                            /\ \A d \in 1 .. e - 1 : Before(where[d], where[e])
Placements(c) ==
    LET most == IF c = "search_dls" THEN FolderCount ELSE ListedFolders
    IN  UNION {{w \in [1 .. k -> Places] : IsTree(w)} : k \in 0 .. most - 1}

\* The driver refuses a second folder of one name (FAT32, NamesUnique). Long,
\* Other and the extensions stand for more than one.
NamesDiffer(where, name) ==
    \A d, e \in DOMAIN where :
        name[d] = Short /\ name[e] = Short /\ where[d][1] = where[e][1] => d = e

Free(where) == {p \in Places : /\ p[1] <= Len(where) /\ p[2] <= LeafSlots
                               /\ \A d \in DOMAIN where : where[d] # p}
Tree(where, name, leaf) ==
    [d \in Folders |-> [i \in Slots |->
        LET put == {e \in DOMAIN where : where[e] = <<d, i>>}
        IN  IF i = 0 THEN Own
            ELSE IF put # {} THEN LET e == CHOOSE e \in put : TRUE IN Folder(name[e], e)
            ELSE IF <<d, i>> \in DOMAIN leaf THEN leaf[<<d, i>>] ELSE Empty]]
-----------------------------------------------------------------------------
(* The calls. ls and print start at entry 1, the others at entry 0.        *)

First == IF call \in {"list_dir_content", "print"} THEN 1 ELSE 0
NewFrame(d) == [dir |-> d, i |-> First, local_found |-> FALSE]

Init ==
    /\ call \in Calls
    /\ target \in IF call = "print_path_to_dir" THEN {Short, Long} ELSE {Short}
    /\ \E where \in Placements(call) :
           \E name \in [DOMAIN where -> FolderNames(call)],
              leaf \in [Free(where) -> Leaves(call)] :
               /\ NamesDiffer(where, name)
               /\ tables = Tree(where, name, leaf)
    /\ frames = <<NewFrame(0)>>
    /\ level = 0 /\ found = FALSE /\ buffer = <<>>

Top == Len(frames)
Here == frames[Top]
Current == tables[Here.dir][Here.i]
InLoop == frames # <<>> /\ Here.i < DirSize

\* custom_strncpy into name: of 8 letters only 7 are compared.
Shortened(n) == IF n = Long THEN Short ELSE n
IsTarget(e) == Shortened(e.name) = target

\* A folder is entered, but not by ls and not by find when it is the target.
Entered(e) ==
    /\ e.ext = "dir"
    /\ call \in {"print", "search_dls"} \/ (call = "print_path_to_dir" /\ ~IsTarget(e))

\* Mutant: print lists only what sorts behind "dir".
ReportedHigh(e) ==
    CASE call \in {"list_dir_content", "print"} -> e.ext \in {"dir", "txt"}
      [] call = "print_path_to_dir" -> e.ext \in {"dir", "txt"} /\ IsTarget(e)
      [] OTHER -> e.ext = "txt" /\ e.hit

\* Mutant: the test for an empty entry is missing.
ReportedEmpty(e) ==
    CASE call \in {"list_dir_content", "print"} -> TRUE
      [] call = "print_path_to_dir" -> e.ext \in {"dir", "txt"} /\ IsTarget(e)
      [] OTHER -> e.ext = "txt" /\ e.hit

\* What gets a line of its own without being entered.
Reported(e) ==
    CASE call \in {"list_dir_content", "print"} -> e.ext # "na"
      [] call = "print_path_to_dir" -> e.ext \in {"dir", "txt"} /\ IsTarget(e)
      [] OTHER -> e.ext = "txt" /\ e.hit

Tracks == call \in {"print_path_to_dir", "search_dls"}
WithLine == Append(buffer, [level |-> level, at |-> <<Here.dir, Here.i>>])
Advanced(fs) == [fs EXCEPT ![Len(fs)].i = @ + 1]

Pass ==
    /\ InLoop /\ ~Entered(Current) /\ ~Reported(Current)
    /\ frames' = Advanced(frames)
    /\ UNCHANGED <<inputs, level, found, buffer>>

Report ==
    /\ InLoop /\ ~Entered(Current) /\ Reported(Current)
    /\ buffer' = WithLine
    /\ found' = Tracks
    /\ frames' = Advanced(frames)
    /\ UNCHANGED <<inputs, level>>

\* Mutant: only the last entry before the recursion is remembered.
RememberedLast == [frames EXCEPT ![Top].local_found = found]

\* The recursion resets found, so a match so far goes to local_found first.
Remembered == [frames EXCEPT ![Top].local_found = @ \/ found]

TooDeep == call = "search_dls" /\ level + 1 > Limit

Enter ==
    /\ InLoop /\ Entered(Current) /\ ~TooDeep
    /\ buffer' = WithLine
    /\ level' = level + 1
    /\ frames' = Append(Remembered, NewFrame(Current.child))
    /\ found' = FALSE
    /\ UNCHANGED inputs

\* The search of a folder below the limit returns before it resets found: the
\* folder's line is erased only when nothing was found before it.
EnterTooDeep ==
    /\ InLoop /\ Entered(Current) /\ TooDeep
    /\ buffer' = IF found THEN WithLine ELSE buffer
    /\ frames' = Advanced(Remembered)
    /\ UNCHANGED <<inputs, level, found>>

\* Mutant: only a match in the last entries counts.
FoundLast == found

FoundHere == found \/ Here.local_found

\* "If not found, remove the directory name from the path".
Erased(f) == IF Tracks /\ ~f THEN Front(buffer) ELSE buffer

\* Mutant: level is not taken back.
ReturnDeep ==
    /\ frames # <<>> /\ Here.i = DirSize
    /\ found' = FoundHere
    /\ IF Top = 1
       THEN frames' = <<>> /\ UNCHANGED buffer
       ELSE /\ frames' = Advanced(Front(frames))
            /\ buffer' = Erased(FoundHere)
    /\ UNCHANGED <<inputs, level>>

Return ==
    /\ frames # <<>> /\ Here.i = DirSize
    /\ found' = FoundHere
    /\ IF Top = 1
       THEN frames' = <<>> /\ UNCHANGED <<level, buffer>>
       ELSE /\ frames' = Advanced(Front(frames))
            /\ level' = level - 1
            /\ buffer' = Erased(FoundHere)
    /\ UNCHANGED inputs

Done == frames = <<>> /\ UNCHANGED vars

Next == Pass \/ Report \/ Enter \/ EnterTooDeep \/ Return \/ Done

Spec == Init /\ [][Next]_vars
-----------------------------------------------------------------------------
(* Properties.                                                             *)

EntryAt(p) == tables[p[1]][p[2]]
Present == {p \in Places : EntryAt(p).ext # "na"}
FolderPlaces == {p \in Places : EntryAt(p).ext = "dir"}
Parent(d) == (CHOOSE p \in FolderPlaces : EntryAt(p).child = d)[1]

\* Folder -> how deep it lies, and the folders from it up to the start.
Depth == LET depth[d \in Folders] ==
                 IF \E p \in FolderPlaces : EntryAt(p).child = d
                 THEN depth[Parent(d)] + 1 ELSE 0
         IN  depth
Above == LET above[d \in Folders] ==
                 {d} \cup IF \E p \in FolderPlaces : EntryAt(p).child = d
                          THEN above[Parent(d)] ELSE {}
         IN  above

Listed == {buffer[x].at : x \in DOMAIN buffer}
OnPath(P) == {p \in FolderPlaces : \E q \in P : EntryAt(p).child \in Above[q[1]]}
Finished(c) == frames = <<>> /\ call = c
Once == Len(buffer) = Cardinality(Listed)

\* Every variable holds a value of its declared type, and level is the depth of
\* the recursion. The names in a buffer are entries of the tree.
TypeOK ==
    /\ call \in Calls /\ target \in {Short, Long}
    /\ \A x \in DOMAIN frames :
           /\ frames[x].dir \in Folders /\ frames[x].i \in 0 .. DirSize
           /\ frames[x].local_found \in BOOLEAN
    /\ frames # <<>> => level = Len(frames) - 1
    /\ frames = <<>> => level = 0
    /\ found \in BOOLEAN
    /\ \A x \in DOMAIN buffer : buffer[x].level \in Nat /\ buffer[x].at \in Present

\* The listing is a picture of the tree at every moment: read with its
\* indentation, each line stands below the folder its entry is in.
ListingIsTree ==
    \A x \in DOMAIN buffer :
        LET l == buffer[x].level
            d == buffer[x].at[1]
        IN  IF l = 0 THEN d = 0
            ELSE \E y \in 1 .. x - 1 :
                    /\ buffer[y].level = l - 1 /\ EntryAt(buffer[y].at).child = d
                    /\ \A z \in y + 1 .. x - 1 : buffer[z].level >= l

\* A search lists every text file with the pattern down to the limit, once,
\* with the folders that lead to it and no other, but for folders on the last
\* level (see EnterTooDeep).
SearchExact ==
    Finished("search_dls") =>
        LET hits == {p \in Present : EntryAt(p).hit /\ Depth[p[1]] <= Limit}
            lowest == {p \in FolderPlaces : Depth[p[1]] = Limit}
        IN  Once /\ hits \cup OnPath(hits) \subseteq Listed
                 /\ Listed \subseteq hits \cup OnPath(hits) \cup lowest

\* find lists every entry of the name of up to 7 letters it is given that is not
\* below another one, and nothing but such entries, entries whose first 7 letters
\* are that name, and the folders that lead to them. A file whose extension
\* sorts before "dir" is not found.
FindExact ==
    Finished("print_path_to_dir") =>
        LET Named(S) == {p \in Present : EntryAt(p).name \in S /\ EntryAt(p).ext # "low"}
            \* not below a folder the search stops at
            Reached(P) == {p \in P : \A q \in Named({Short, Long}) :
                               EntryAt(q).ext = "dir" => EntryAt(q).child \notin Above[p[1]]}
            matches == IF target = Long THEN {} ELSE Reached(Named({Short, Long}))
        IN  Once /\ Listed = matches \cup OnPath(matches)

\* print lists the whole tree and ls one folder, every entry once.
ListsAll ==
    /\ Finished("print") => Once /\ Listed = Present
    /\ Finished("list_dir_content") => Once /\ Listed = {p \in Present : p[1] = 0}
=============================================================================
