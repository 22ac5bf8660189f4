----------------------------- MODULE FileStore -----------------------------
(***************************************************************************)
(* What the file system promises its callers, without clusters, slots or   *)
(* an allocation table: a tree of folders, each listing files and folders  *)
(* by name and extension. Return codes are those of fat32.c. A folder is   *)
(* addressed by a handle, which a caller obtains from cd.                  *)
(***************************************************************************)
EXTENDS Integers, Sequences, FiniteSets

CONSTANTS Handles, Root, Names, Exts, NoExt, DirExt, RootName, Values, Sizes,
          ClusterSize

VARIABLES
    tree,     \* handle -> [name, parent, list], for the folders that exist
    call,     \* the last call, with its arguments
    ret, copied,   \* and what it answered
    broken    \* the implementation has fallen through

vars == <<tree, call, ret, copied, broken>>
-----------------------------------------------------------------------------
File(b, v) ==
    [folder |-> FALSE, handle |-> 0, size |-> b,
     data |-> [i \in 1 .. (b + ClusterSize - 1) \div ClusterSize |-> <<v, i>>]]
Folder(h) == [folder |-> TRUE, handle |-> h, size |-> 0, data |-> <<>>]

EmptyFolder(name, parent) ==
    [name |-> name, parent |-> parent, list |-> [k \in {} |-> 0]]

Init ==
    /\ tree = [h \in {Root} |-> EmptyFolder(RootName, Root)]
    /\ call = <<"none">>
    /\ ret = 0
    /\ copied = <<>>
    /\ broken = FALSE

Exists(d) == d \in DOMAIN tree
Lists(d, k) == k \in DOMAIN tree[d].list
\* A folder also answers to its own name, without an extension.
IsSelf(d, k) == k = <<tree[d].name, NoExt>>

With(list, k, x) == [j \in DOMAIN list \cup {k} |-> IF j = k THEN x ELSE list[j]]
Without(list, k) == [j \in DOMAIN list \ {k} |-> list[j]]

Answer(r) == ret' = r /\ copied' = <<>>
Refuse(r) == Answer(r) /\ UNCHANGED <<tree, broken>>
-----------------------------------------------------------------------------
Write(d, k) ==
    \/ ~Exists(d) /\ Refuse(-1)
    \/ Exists(d) /\ (Lists(d, k) \/ IsSelf(d, k)) /\ Refuse(1)
    \/ Exists(d) /\ ~Lists(d, k) /\ ~IsSelf(d, k) /\ Refuse(-1)   \* no space

WriteFile(d, k, b, v) ==
    /\ Exists(d) /\ ~Lists(d, k) /\ ~IsSelf(d, k)
    /\ tree' = [tree EXCEPT ![d].list = With(@, k, File(b, v))]
    /\ Answer(0) /\ UNCHANGED broken

WriteFolder(d, k) ==
    /\ Exists(d) /\ ~Lists(d, k) /\ ~IsSelf(d, k)
    /\ \E h \in Handles \ DOMAIN tree :
           tree' = [g \in DOMAIN tree \cup {h} |->
                       IF g = h THEN EmptyFolder(k[1], d)
                       ELSE IF g = d THEN [tree[d] EXCEPT !.list = With(@, k, Folder(h))]
                       ELSE tree[g]]
    /\ Answer(0) /\ UNCHANGED broken

Delete(d, k) ==
    \/ ~Exists(d) /\ Refuse(-1)
    \/ Exists(d) /\ ~Lists(d, k) /\ ~IsSelf(d, k) /\ Refuse(1)
    \/ Exists(d) /\ IsSelf(d, k) /\ Refuse(2)
    \/ /\ Exists(d) /\ ~IsSelf(d, k) /\ Lists(d, k)
       /\ LET x == tree[d].list[k] IN
          \/ /\ x.folder /\ DOMAIN tree[x.handle].list # {}
             /\ Refuse(2)
          \/ /\ x.folder => DOMAIN tree[x.handle].list = {}
             /\ tree' = [g \in DOMAIN tree \ (IF x.folder THEN {x.handle} ELSE {}) |->
                            IF g = d THEN [tree[d] EXCEPT !.list = Without(@, k)]
                            ELSE tree[g]]
             /\ Answer(0) /\ UNCHANGED broken

Read(d, k, b) ==
    \/ ~Exists(d) /\ Refuse(-1)
    \/ Exists(d) /\ ~Lists(d, k) /\ ~IsSelf(d, k) /\ Refuse(3)
    \/ Exists(d) /\ IsSelf(d, k) /\ Refuse(1)
    \/ /\ Exists(d) /\ ~IsSelf(d, k) /\ Lists(d, k)
       /\ LET x == tree[d].list[k] IN
          \/ x.folder /\ Refuse(1)
          \/ ~x.folder /\ b < x.size /\ Refuse(2)
          \/ /\ ~x.folder /\ b >= x.size
             /\ ret' = 0 /\ copied' = x.data
             /\ UNCHANGED <<tree, broken>>

ReadDirectory(d, k) ==
    \/ ~Exists(d) /\ Refuse(-1)
    \/ Exists(d) /\ ~Lists(d, k) /\ ~IsSelf(d, k) /\ Refuse(2)
    \/ Exists(d) /\ IsSelf(d, k) /\ Refuse(0)
    \/ /\ Exists(d) /\ ~IsSelf(d, k) /\ Lists(d, k)
       /\ Refuse(IF tree[d].list[k].folder THEN 0 ELSE 1)

\* cd name answers the folder's handle, 0 when there is none; for a file
\* called name.dir it answers a handle that addresses no folder.
MoveToChild(d, n) ==
    LET k == <<n, DirExt>> IN
    \/ ~Exists(d) /\ Refuse(0)
    \/ Exists(d) /\ ~Lists(d, k) /\ Refuse(0)
    \/ /\ Exists(d) /\ Lists(d, k)
       /\ IF tree[d].list[k].folder THEN Refuse(tree[d].list[k].handle)
          ELSE \E h \in Handles \ DOMAIN tree : Refuse(h)

MoveToParent(d) == Exists(d) /\ Refuse(tree[d].parent)

\* Beyond a fall-through nothing is promised.
Break == broken' = TRUE

Next ==
    \/ \E d \in Handles, n \in Names, e \in Exts :
           LET k == <<n, e>> IN
           \/ \E b \in Sizes :
                  \/ call' = <<"write", d, k, b>> /\ Write(d, k)
                  \/ call' = <<"read", d, k, b>> /\ Read(d, k, b)
                  \/ \E v \in Values : /\ b > 0 /\ call' = <<"write", d, k, b, v>>
                                      /\ WriteFile(d, k, b, v)
           \/ call' = <<"write", d, k, 0>> /\ WriteFolder(d, k)
           \/ call' = <<"delete", d, k>> /\ Delete(d, k)
           \/ call' = <<"read_directory", d, k>> /\ ReadDirectory(d, k)
           \/ call' = <<"move_to_child", d, n>> /\ MoveToChild(d, n)
           \/ call' = <<"move_to_parent", d>> /\ MoveToParent(d)
    \/ Break

Spec == Init /\ [][Next]_vars
=============================================================================
