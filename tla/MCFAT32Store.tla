---------------------------- MODULE MCFAT32Store ----------------------------
(* Instances of FAT32Store for TLC.                                        *)
EXTENDS FAT32Store, TLC

Symmetry == Permutations(Values)

\* What the properties look at: the tables, not what the last caller was told.
TablesView == <<fat, store, fault>>
=============================================================================
