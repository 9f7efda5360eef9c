--------------------------- MODULE MCFrameEncoder ---------------------------
(* Instances of frame threading of encoders for TLC. *)
EXTENDS FrameThreadEncoder
=============================================================================
