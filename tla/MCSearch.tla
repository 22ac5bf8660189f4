----------------------------- MODULE MCSearch -----------------------------
(* Instances of Search for TLC.                                            *)
EXTENDS Search
=============================================================================
