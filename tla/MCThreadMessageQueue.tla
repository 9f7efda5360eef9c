----------------------- MODULE MCThreadMessageQueue -----------------------
(* A small instance of ThreadMessageQueue. *)
EXTENDS ThreadMessageQueue
=============================================================================
