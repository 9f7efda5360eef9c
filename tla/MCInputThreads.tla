--------------------------- MODULE MCInputThreads ---------------------------
(* Instances of the reading of an input file for TLC. *)
EXTENDS InputThreads
=============================================================================
