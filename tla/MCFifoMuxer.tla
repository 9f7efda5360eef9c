---------------------------- MODULE MCFifoMuxer ----------------------------
(* Instances of the FIFO muxer for TLC. *)
EXTENDS FifoMuxer

Default ==
  [drop |-> FALSE, keyframe |-> FALSE, attempt |-> FALSE, any |-> FALSE,
   streamtime |-> FALSE, max |-> 0]

\* Blocking or dropping, with and without recovery, limited and not.
Blocking   == [Default EXCEPT !.attempt = TRUE, !.any = TRUE]
Limited    == [Default EXCEPT !.attempt = TRUE, !.max = 1]
Dropping   == [Default EXCEPT !.drop = TRUE, !.keyframe = TRUE]
Restarting == [Dropping EXCEPT !.attempt = TRUE]
Streaming  == [Default EXCEPT !.drop = TRUE, !.attempt = TRUE, !.any = TRUE,
                              !.streamtime = TRUE]

AllModes      == {Default, Blocking, Limited, Dropping, Restarting}
DroppingOnly  == {Dropping}
StreamingOnly == {Streaming}

=============================================================================
