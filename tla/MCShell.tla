------------------------------ MODULE MCShell ------------------------------
(* Instances of Shell for TLC.                                             *)
EXTENDS Shell, TLC

OneName == {<<"a">>}
Kaguya == <<"k", "a", "g", "u", "y", "a">>
WithGarbled == TypedNames \cup {Garbled(n) : n \in TypedNames}
EmptyName == <<>>
Root == <<"root">>

\* What a later step can depend on: not the answer of the last call, nor what
\* free clusters and free slots still hold. Only echo may go to a free cluster;
\* whether that was a folder decides how echo ends.
LiveStore ==
    [c \in Allocated |->
        IF store[c] \in Tables
        THEN [i \in Slots |-> IF store[c][i].used THEN store[c][i] ELSE ZeroEntry]
        ELSE store[c]]
EchoFolders == {c \in Clusters : c % ByteSize = 0 /\ IsFolder(c)}
ShellView == <<fat, LiveStore, EchoFolders, fault, shellVars>>
=============================================================================
