--------------------------- MODULE MCFrameThread ---------------------------
(***************************************************************************)
(* Instances of frame threading for TLC: the codecs and clients of a run.  *)
(***************************************************************************)
EXTENDS FrameThread

\* A codec like h264 or vp9, and a client whose callbacks any thread may call.
VideoCodec ==
  [ffv1 |-> FALSE, delay |-> TRUE, updateContext |-> TRUE, threadSafe |-> TRUE,
   customGetBuffer |-> TRUE, customGetFormat |-> TRUE, hwaccels |-> {}]

Ffv1Codec == [VideoCodec EXCEPT !.ffv1 = TRUE, !.delay = FALSE]

\* A codec whose frames do not depend on each other.
IntraCodec == [VideoCodec EXCEPT !.updateContext = FALSE, !.delay = FALSE]

\* FFV1 has one packet less in flight, and is given no empty packets.
DelayKinds == {VideoCodec, Ffv1Codec}

\* With hwaccels of both kinds to choose from, packet by packet.
Hardware == {[VideoCodec EXCEPT !.hwaccels = {"safe", "unsafe"}, !.delay = FALSE]}

\* The callbacks are for Main only, except those of the last setting.
Callbacks ==
  {[VideoCodec EXCEPT !.threadSafe = FALSE, !.delay = FALSE],
   [IntraCodec EXCEPT !.threadSafe = FALSE, !.customGetFormat = FALSE],
   IntraCodec}

\* What the workers need from the client or from each other.
Services == Hardware \cup Callbacks

=============================================================================
