--------------------------- MODULE SeekableStream ---------------------------
(***************************************************************************)
(* What a client of a seekable protocol relies on, whatever buffers and    *)
(* threads are behind it (libavformat/url.h, ffurl_read and ffurl_seek): a *)
(* read returns the bytes at the position, the end is reported at the end  *)
(* and nowhere else, and a seek lands where it says.                        *)
(***************************************************************************)
EXTENDS Integers, Sequences

CONSTANTS
  Size,       \* the bytes of the resource, known by their offsets
  Reads,      \* the sizes of the reads
  Targets,    \* the positions sought
  NoCall, EOF, EIO, EXIT, EINVAL

Calls == [op : {"read"}, arg : Reads] \cup [op : {"seek"}, arg : Targets]
Close  == [op |-> "close", arg |-> 0]
Closed == [op |-> "closed", arg |-> 0]

\* The value a call returns, and the bytes a read stores.
Result(code, bytes) == [code |-> code, bytes |-> bytes]

VARIABLES
  sized,      \* whether the size of the resource is known
  pos,        \* the position of the client
  call,       \* the call in progress
  ret,        \* the Result of the last one
  failed      \* the resource has failed once, or was interrupted
vars == <<sized, pos, call, ret, failed>>

Init ==
  /\ sized \in BOOLEAN
  /\ pos = 0 /\ call = NoCall /\ ret = Result(0, <<>>) /\ failed = FALSE

Begin ==
  /\ call = NoCall
  /\ call' \in Calls \cup {Close}
  /\ UNCHANGED <<sized, pos, ret, failed>>

\* A failure may come with the end of the call that meets it.
Fail == failed' \in {failed, TRUE}

Read(n) ==
  \/ \E k \in 1 .. n :
       /\ pos + k <= Size
       /\ ret' = Result(k, [i \in 1 .. k |-> pos + i - 1])
       /\ pos' = pos + k
  \/ pos = Size /\ ret' = Result(EOF, <<>>) /\ UNCHANGED pos
  \/ failed' /\ ret' \in {Result(EIO, <<>>), Result(EXIT, <<>>)} /\ UNCHANGED pos

\* A seek forwards may end early: at the end, or after a failure.
Seek(to) ==
  \/ \E p \in 0 .. Size :
       /\ p = to \/ (pos <= p /\ p < to /\ (p = Size \/ failed'))
       /\ ret' = Result(p, <<>>) /\ pos' = p
  \/ /\ to < 0 \/ to > Size \/ ~sized
     /\ ret' = Result(EINVAL, <<>>) /\ UNCHANGED pos
  \/ failed' /\ ret' \in {Result(EIO, <<>>), Result(EXIT, <<>>)} /\ UNCHANGED pos

Return ==
  /\ \/ call.op = "read" /\ Read(call.arg) /\ call' = NoCall
     \/ call.op = "seek" /\ Seek(call.arg) /\ call' = NoCall
     \/ call = Close /\ call' = Closed /\ UNCHANGED <<pos, ret>>
  /\ Fail
  /\ UNCHANGED sized

Next ==
  \/ Begin
  \/ call \notin {NoCall, Closed} /\ Return
  \/ Fail /\ UNCHANGED <<sized, pos, call, ret>>

Spec == Init /\ [][Next]_vars

=============================================================================
