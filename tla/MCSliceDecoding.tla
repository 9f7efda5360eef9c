-------------------------- MODULE MCSliceDecoding --------------------------
(* Instances of slice threading for TLC. *)
EXTENDS SliceDecoding
=============================================================================
