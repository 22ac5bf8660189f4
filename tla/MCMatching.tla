---------------------------- MODULE MCMatching ----------------------------
(* Instances of Matching for TLC.                                          *)
EXTENDS Matching
=============================================================================
