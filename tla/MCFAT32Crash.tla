---------------------------- MODULE MCFAT32Crash ----------------------------
(* Instances of FAT32Crash for TLC.                                        *)
EXTENDS FAT32Crash

\* Everything but what the last caller was told.
CrashView == <<fat, store, fault, disk, dfat, io, op, power, wreck>>
=============================================================================
