--------------------------- MODULE FramePipeline ---------------------------
(***************************************************************************)
(* What frame threading promises the client of a decoder: a pipeline that  *)
(* takes packets in and gives their results out in the order of the        *)
(* packets, each once.  While it fills it may answer "again"; it signals   *)
(* the end of the stream only when nothing is left inside, and on the way  *)
(* there it passes over nothing but packets without a frame.  The same is  *)
(* promised to the client of an encoder, with frames for packets.          *)
(***************************************************************************)
EXTENDS Naturals, FiniteSets

CONSTANTS
  Packets,          \* the numbers of the packets, in the order they come
  Depth             \* the most packets inside

VARIABLES
  delay,            \* the most packets inside between two calls
  inside,           \* pairs of a packet and its result, or "busy"
  reply             \* what the last call answered

vars == <<delay, inside, reply>>

Results == {"frame", "none", "error"}

Oldest(x) == x \in inside /\ \A y \in inside : x[1] <= y[1]

Init == delay \in 0 .. Depth - 1 /\ inside = {} /\ reply = "again"

Accept(n) ==
  /\ Cardinality(inside) < Depth
  /\ \A x \in inside : x[1] < n
  /\ inside' = inside \cup {<<n, "busy">>}
  /\ UNCHANGED reply

Finish(x, result) ==
  /\ x[2] = "busy"
  /\ inside' = (inside \ {x}) \cup {<<x[1], result>>}
  /\ UNCHANGED reply

\* A call that cannot bring its packet in leaves the others alone.
Refuse ==
  /\ reply' = "error"
  /\ UNCHANGED inside

Fill ==
  /\ Cardinality(inside) <= delay
  /\ reply' = "again"
  /\ UNCHANGED inside

\* The oldest packet leaves, and its result is the answer.
Give(x) ==
  /\ Oldest(x) /\ x[2] \in Results
  /\ inside' = inside \ {x}
  /\ reply' = x[2]

\* At the end of the stream packets without a frame are passed over.
Skip(x) ==
  /\ Oldest(x) /\ x[2] = "none"
  /\ inside' = inside \ {x}
  /\ UNCHANGED reply

EndOfStream ==
  /\ \A x \in inside : Cardinality(inside) = 1 /\ x[2] = "none"
  /\ inside' = {}
  /\ reply' = "eof"

Discard ==
  /\ inside' = {}
  /\ reply' = "flushed"

Step ==
  \/ \E n \in Packets : Accept(n)
  \/ \E x \in inside :
       Give(x) \/ Skip(x) \/ \E result \in Results : Finish(x, result)
  \/ Refuse \/ Fill \/ EndOfStream \/ Discard

\* The delay is fixed when the decoder is opened.
Next == Step /\ UNCHANGED delay

Spec == Init /\ [][Next]_vars

=============================================================================
