------------------------------ MODULE MCFAT32 ------------------------------
(* Instances of FAT32 for TLC.                                             *)
EXTENDS FAT32

\* What the invariants look at: the tables, not what the last caller was told.
TablesView == <<fat, store, fault>>
=============================================================================
