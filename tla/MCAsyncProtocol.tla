-------------------------- MODULE MCAsyncProtocol --------------------------
(* Instances of the asynchronous protocol for TLC. *)
EXTENDS AsyncProtocol
=============================================================================
