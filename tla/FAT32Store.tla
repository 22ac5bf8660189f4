----------------------------- MODULE FAT32Store -----------------------------
(***************************************************************************)
(* The FAT32 driver implements the tree of FileStore: a folder's handle is *)
(* the cluster of its table, its list is read off the slots in use, and a  *)
(* file's data is what a walk of its chain meets.                          *)
(***************************************************************************)
EXTENDS FAT32

ListOf(c) ==
    LET key(i) == <<store[c][i].name, store[c][i].ext>>
    IN  [k \in {key(i) : i \in Used(c)} |->
            LET x == store[c][CHOOSE i \in Used(c) : key(i) = k]
                w == Walk(x.cluster)
            IN  [folder |-> x.attr,
                 handle |-> IF x.attr THEN x.cluster ELSE 0,
                 size   |-> x.filesize,
                 data   |-> IF x.attr THEN <<>>
                            ELSE [i \in 1 .. Len(w) |-> store[w[i]]]]]

Tree == [c \in Folders |-> [name   |-> store[c][0].name,
                            parent |-> store[c][0].cluster,
                            list   |-> ListOf(c)]]

\* Two auxiliary variables that nothing depends on: the tree, computed once a
\* step, and the call that made the step.
VARIABLES tree, call

StoreInit == Init /\ tree = Tree /\ call = <<"none">>

Called ==
    \E d \in Parents, n \in Names, e \in Exts :
        LET k == <<n, e>> IN
        \/ call' = <<"write", d, k, 0>> /\ WriteFolder(d, n, e)
        \/ \E b \in Sizes :
               \/ call' = <<"write", d, k, b>> /\ WriteRefused(d, n, e, b)
               \/ call' = <<"read", d, k, b>> /\ Read(d, n, e, b)
               \/ \E v \in Values : /\ call' = <<"write", d, k, b, v>>
                                   /\ WriteFile(d, n, e, b, v)
        \/ call' = <<"delete", d, k>> /\ (DeleteRefused(d, n, e) \/ Delete(d, n, e))
        \/ call' = <<"read_directory", d, k>> /\ ReadDirectory(d, n, e)
        \/ call' = <<"move_to_child", d, n>> /\ MoveToChild(d, n)
        \/ call' = <<"move_to_parent", d>> /\ MoveToParent(d)

StoreNext ==
    /\ (fault = "none" /\ Called) \/ (Stopped /\ UNCHANGED call)
    /\ tree' = IF UNCHANGED <<fat, store>> \/ fault' # "none" THEN tree ELSE Tree'
StoreSpec == StoreInit /\ [][StoreNext]_<<vars, tree, call>>

Abstract == INSTANCE FileStore WITH
    Handles <- Clusters, Root <- ROOT, broken <- (fault # "none")

\* Every call of write, delete, read, read_directory and the moves changes the
\* tree of folders, and is answered, as the tree of folders allows for that
\* call, up to the first fall-through: in particular a
\* read returns exactly what the write of that file was given, however often
\* its clusters were freed and allocated in between.
ImplementsFileStore == Abstract!Spec
=============================================================================
