--------------------------- MODULE AsyncProtocol ---------------------------
(***************************************************************************)
(* libavformat/async.c: a protocol that reads another one ahead.  A thread *)
(* fills a ring of bytes, of which some stay behind the position of the    *)
(* client for short seeks backwards; longer seeks are requests to the      *)
(* thread.  What is done with the mutex held is one step; the thread fills *)
(* the ring without it, and the client looks at the ring without it when   *)
(* it chooses the kind of a seek.                                          *)
(*                                                                         *)
(* A byte is known by its offset in the inner resource.                    *)
(***************************************************************************)
EXTENDS Integers, Sequences

CONSTANTS
  Size,                \* the bytes of the inner resource
  BufferCapacity,      \* BUFFER_CAPACITY
  ReadBackCapacity,    \* READ_BACK_CAPACITY
  ShortSeekThreshold,  \* SHORT_SEEK_THRESHOLD
  WriteSize,           \* the most that is written at once, 4096
  MaxRead,             \* bound: the largest read of the client
  MaxFailures,         \* bound: how often the inner resource fails
  NoCall, EOF, EIO, EXIT, EINVAL, NoError

ASSUME AsyncAssumption ==
  /\ {Size, ReadBackCapacity, ShortSeekThreshold, MaxFailures} \subseteq Nat
  /\ {BufferCapacity, WriteSize, MaxRead} \subseteq Nat \ {0}

Errors  == {EOF, EIO, EXIT, EINVAL}

\* Error codes are negative, positions and counts are not.
ASSUME ErrorsAssumption ==
  /\ Errors \cap Int = {} /\ NoError \notin Errors
  /\ EOF \notin {EIO, EXIT} /\ EIO # EXIT
  /\ NoCall \notin [op : {"read", "seek", "close"}, arg : Int]

Reads   == 1 .. MaxRead
Targets == -1 .. Size + 1

Lesser(a, b) == IF a < b THEN a ELSE b

VARIABLES
  sized,                \* whether logical_size is known
  fifo, readPos,        \* ring.fifo, ring.read_pos
  innerPos, innerError, \* of the inner resource; the result of its last read
  request, completed, seekRet,
  eof, ioError,         \* io_eof_reached, io_error
  logicalPos, abort,    \* logical_pos, abort_request
  thread, toCopy,       \* where the background thread is, and its to_copy
  client, asleep,       \* where the client is, and if it sleeps there
  call, from,           \* its call and the position at its beginning
  toRead, ret,          \* to_read; the Result of the last call
  failures

ringVars    == <<fifo, readPos>>
innerVars   == <<innerPos, innerError, failures>>
seekVars    == <<request, completed, seekRet>>
flagVars    == <<eof, ioError>>
threadVars  == <<thread, toCopy>>
callVars    == <<call, from, toRead, ret>>
vars == <<sized, ringVars, innerVars, seekVars, flagVars, logicalPos, abort,
          threadVars, client, asleep, callVars>>

-----------------------------------------------------------------------------
(* The ring *)

RingSize  == Len(fifo) - readPos
RingSpace == BufferCapacity + ReadBackCapacity - Len(fifo)

\* Faulty: what is behind the client is never dropped.
RingReadKeepsAll(k) == readPos' = readPos + k /\ UNCHANGED fifo

\* ring_generic_read: bytes further back than the read-back are dropped.
RingRead(k) ==
  LET drop == IF readPos + k > ReadBackCapacity
                THEN readPos + k - ReadBackCapacity ELSE 0
  IN /\ fifo' = SubSeq(fifo, drop + 1, Len(fifo))
     /\ readPos' = readPos + k - drop

RingReset == fifo' = <<>> /\ readPos' = 0

\* async_check_interrupt: once its callback has asked for it, for good.
CheckInterrupt(interrupted) ==
  /\ interrupted \in BOOLEAN
  /\ abort => interrupted
  /\ abort' = interrupted

SignalMain       == asleep' = FALSE
SignalBackground == thread' = IF thread = "asleep" THEN "loop" ELSE thread

-----------------------------------------------------------------------------
(* The client *)

Begin(c) ==
  /\ client = "idle"
  /\ call' = c /\ from' = logicalPos
  /\ client' = c.op
  /\ toRead' = IF c.op = "read" THEN c.arg ELSE 0
  /\ UNCHANGED <<sized, ringVars, innerVars, seekVars, flagVars, logicalPos,
                 abort, threadVars, asleep, ret>>

\* The value returned, and the bytes stored for the client.
Result(code, bytes) == [code |-> code, bytes |-> bytes]

Return(code, bytes) ==
  /\ client' = "idle" /\ call' = NoCall /\ ret' = Result(code, bytes)
  /\ UNCHANGED <<asleep, from>>

Sleep(where) == client' = where /\ asleep' = TRUE /\ UNCHANGED <<call, from, ret>>

\* The result of async_read_internal; async_seek reports the position instead.
ReadReturns(code, bytes) ==
  IF client = "read" THEN Return(code, bytes) ELSE Return(logicalPos', <<>>)

ReadInterrupted ==
  /\ CheckInterrupt(TRUE)
  /\ UNCHANGED <<ringVars, logicalPos, toRead>>
  /\ ReadReturns(EXIT, <<>>)

ReadBytes ==
  LET k == Lesser(toRead, RingSize)
  IN /\ CheckInterrupt(FALSE)
     /\ k > 0
     /\ RingRead(k)
     /\ logicalPos' = logicalPos + k
     /\ toRead' = toRead - k
     /\ IF toRead' = 0 \/ client = "read"
          THEN ReadReturns(k, SubSeq(fifo, readPos + 1, readPos + k))
          ELSE Sleep(client)

ReadNothing ==
  /\ CheckInterrupt(FALSE)
  /\ RingSize = 0
  /\ UNCHANGED <<ringVars, logicalPos, toRead>>
  /\ IF eof THEN ReadReturns(IF ioError = NoError THEN EOF ELSE ioError, <<>>)
            ELSE Sleep(client)

\* One turn of the loop of async_read_internal: "skip" is a seek forwards.
ReadInternal ==
  /\ client \in {"read", "skip"} /\ ~asleep
  /\ ReadInterrupted \/ ReadBytes \/ ReadNothing
  /\ SignalBackground
  /\ UNCHANGED <<sized, innerVars, seekVars, flagVars, toCopy>>

IsFast(to) ==
  /\ to >= logicalPos - readPos
  /\ to < logicalPos + RingSize + ShortSeekThreshold

FastForwards(to) ==
  /\ to > logicalPos /\ IsFast(to)
  /\ client' = "skip" /\ toRead' = to - logicalPos
  /\ UNCHANGED <<readPos, logicalPos, asleep, call, from, ret>>

FastBackwards(to) ==
  /\ to >= 0 /\ to < logicalPos /\ IsFast(to)
  /\ readPos' = readPos + (to - logicalPos)
  /\ logicalPos' = to
  /\ Return(to, <<>>)
  /\ UNCHANGED toRead

SlowSeek(to) ==
  /\ to >= 0 /\ to # logicalPos /\ ~IsFast(to)
  /\ IF ~sized \/ to > Size THEN Return(EINVAL, <<>>)
       ELSE client' = "request" /\ UNCHANGED <<asleep, call, from, ret>>
  /\ UNCHANGED <<readPos, logicalPos, toRead>>

SeekNowhere(to) ==
  /\ to < 0 \/ to = logicalPos
  /\ Return(IF to < 0 THEN EINVAL ELSE logicalPos, <<>>)
  /\ UNCHANGED <<readPos, logicalPos, toRead>>

\* The kind of seek is chosen without the mutex.
ChooseSeek ==
  /\ client = "seek"
  /\ LET to == call.arg
     IN SeekNowhere(to) \/ FastForwards(to) \/ FastBackwards(to) \/ SlowSeek(to)
  /\ UNCHANGED <<sized, fifo, innerVars, seekVars, flagVars, abort, threadVars>>

RequestSeek ==
  /\ client = "request"
  /\ request' = TRUE /\ completed' = FALSE /\ seekRet' = 0
  /\ \/ CheckInterrupt(TRUE) /\ Return(EXIT, <<>>) /\ UNCHANGED thread
     \/ CheckInterrupt(FALSE) /\ Sleep("seeking") /\ SignalBackground
  /\ UNCHANGED <<sized, ringVars, innerVars, flagVars, logicalPos, toCopy, toRead>>

\* Faulty: the client stays where it was.
SeekCompletedElsewhere ==
  /\ CheckInterrupt(FALSE)
  /\ completed
  /\ Return(seekRet, <<>>)
  /\ UNCHANGED <<logicalPos, thread>>

SeekCompleted ==
  /\ CheckInterrupt(FALSE)
  /\ completed
  /\ logicalPos' = IF seekRet \in Errors THEN logicalPos ELSE seekRet
  /\ Return(seekRet, <<>>)
  /\ UNCHANGED thread

AwaitSeek ==
  /\ client = "seeking" /\ ~asleep
  /\ \/ CheckInterrupt(TRUE) /\ Return(EXIT, <<>>) /\ UNCHANGED <<logicalPos, thread>>
     \/ SeekCompleted
     \/ /\ CheckInterrupt(FALSE) /\ ~completed
        /\ SignalBackground /\ Sleep("seeking") /\ UNCHANGED logicalPos
  /\ UNCHANGED <<sized, ringVars, innerVars, seekVars, flagVars, toCopy, toRead>>

\* Faulty: a thread that sleeps is not told of the abort.
CloseSilently ==
  /\ client = "close"
  /\ abort' = TRUE
  /\ client' = "joining"
  /\ UNCHANGED <<sized, ringVars, innerVars, seekVars, flagVars, logicalPos,
                 threadVars, asleep, callVars>>

Close ==
  /\ client = "close"
  /\ abort' = TRUE
  /\ SignalBackground
  /\ client' = "joining"
  /\ UNCHANGED <<sized, ringVars, innerVars, seekVars, flagVars, logicalPos,
                 toCopy, asleep, callVars>>

Join ==
  /\ client = "joining" /\ thread = "gone"
  /\ client' = "closed"
  /\ UNCHANGED <<sized, ringVars, innerVars, seekVars, flagVars, logicalPos,
                 abort, threadVars, asleep, callVars>>

Client == ReadInternal \/ ChooseSeek \/ RequestSeek \/ AwaitSeek \/ Close \/ Join

-----------------------------------------------------------------------------
(* async_buffer_task *)

Exit ==
  /\ CheckInterrupt(TRUE)
  /\ eof' = TRUE /\ ioError' = EXIT
  /\ thread' = "gone"
  /\ UNCHANGED <<ringVars, innerVars, seekVars, toCopy>>

SeekFails ==
  /\ failures < MaxFailures
  /\ failures' = failures + 1 /\ seekRet' = EIO
  /\ UNCHANGED <<ringVars, flagVars, innerPos, innerError>>

\* Faulty: the bytes from before the seek stay.
SeekInnerKeepsRing ==
  /\ innerPos' = call.arg /\ seekRet' = call.arg
  /\ eof' = FALSE /\ ioError' = NoError
  /\ UNCHANGED <<ringVars, innerError, failures>>

\* The position is that of the request, which the client waits for.
SeekInner ==
  /\ innerPos' = call.arg /\ seekRet' = call.arg
  /\ eof' = FALSE /\ ioError' = NoError
  /\ RingReset
  /\ UNCHANGED <<innerError, failures>>

ServeSeek ==
  /\ CheckInterrupt(FALSE)
  /\ request
  /\ SeekFails \/ SeekInner
  /\ completed' = TRUE /\ request' = FALSE
  /\ UNCHANGED threadVars

Rest ==
  /\ CheckInterrupt(FALSE)
  /\ ~request /\ (eof \/ RingSpace = 0)
  /\ thread' = "asleep"
  /\ UNCHANGED <<ringVars, innerVars, seekVars, flagVars, toCopy>>

Loop ==
  /\ thread = "loop"
  /\ Exit \/ ServeSeek \/ Rest
  /\ SignalMain
  /\ UNCHANGED <<sized, logicalPos, client, callVars>>

ChooseWrite ==
  /\ thread = "loop"
  /\ CheckInterrupt(FALSE)
  /\ ~request /\ ~eof /\ RingSpace > 0
  /\ toCopy' = Lesser(WriteSize, RingSpace)
  /\ thread' = "write"
  /\ UNCHANGED <<sized, ringVars, innerVars, seekVars, flagVars, logicalPos,
                 client, asleep, callVars>>

\* av_fifo_generic_write repeats the inner read until it has all or it fails:
\* at the end, by a failure, or because it was interrupted.
InnerRead(k) ==
  LET left == Size - innerPos
  IN \/ k = Lesser(toCopy, left)
        /\ innerError' = (IF left < toCopy THEN EOF ELSE NoError)
        /\ UNCHANGED <<failures, abort>>
     \/ k < toCopy /\ k <= left /\ failures < MaxFailures
        /\ innerError' = EIO /\ failures' = failures + 1 /\ UNCHANGED abort
     \/ k < toCopy /\ k <= left
        /\ innerError' = EXIT /\ CheckInterrupt(TRUE) /\ UNCHANGED failures

\* Without the mutex; the bytes are in the ring once all are there.
Write ==
  /\ thread = "write"
  /\ \E k \in 0 .. toCopy :
       /\ InnerRead(k)
       /\ fifo' = fifo \o [i \in 1 .. k |-> innerPos + i - 1]
       /\ innerPos' = innerPos + k
       /\ thread' = IF k = 0 THEN "failed" ELSE "written"
  /\ UNCHANGED <<sized, readPos, seekVars, flagVars, logicalPos, toCopy, client,
                 asleep, callVars>>

Written ==
  /\ thread \in {"written", "failed"}
  /\ IF thread = "failed" THEN eof' = TRUE /\ ioError' = innerError
                          ELSE UNCHANGED flagVars
  /\ SignalMain
  /\ thread' = "loop"
  /\ UNCHANGED <<sized, ringVars, innerVars, seekVars, logicalPos, abort, toCopy,
                 client, callVars>>

Background == Loop \/ ChooseWrite \/ Write \/ Written

-----------------------------------------------------------------------------
(* pthread_cond_wait may return without a signal *)

SpuriousWakeup ==
  /\ \/ asleep /\ asleep' = FALSE /\ UNCHANGED thread
     \/ thread = "asleep" /\ thread' = "loop" /\ UNCHANGED asleep
  /\ UNCHANGED <<sized, ringVars, innerVars, seekVars, flagVars, logicalPos,
                 abort, toCopy, client, callVars>>

Stream == INSTANCE SeekableStream
  WITH pos <- IF client \in {"idle", "closed"} THEN logicalPos ELSE from,
       call <- IF client = "closed" THEN [call EXCEPT !.op = "closed"] ELSE call,
       failed <- failures > 0 \/ abort

\* async_open
Init ==
  /\ sized \in BOOLEAN
  /\ fifo = <<>> /\ readPos = 0
  /\ innerPos = 0 /\ innerError = NoError /\ failures = 0
  /\ request = FALSE /\ completed = FALSE /\ seekRet = 0
  /\ eof = FALSE /\ ioError = NoError
  /\ logicalPos = 0 /\ abort = FALSE
  /\ thread = "loop" /\ toCopy = 0
  /\ client = "idle" /\ asleep = FALSE
  /\ call = NoCall /\ from = 0 /\ toRead = 0 /\ ret = Result(0, <<>>)

Next ==
  \/ \E c \in Stream!Calls \cup {Stream!Close} : Begin(c)
  \/ Client
  \/ Background
  \/ SpuriousWakeup
  \* After the close nothing happens any more.
  \/ client = "closed" /\ UNCHANGED vars

Fairness == WF_vars(Client) /\ WF_vars(Background)

Spec == Init /\ [][Next]_vars /\ Fairness

-----------------------------------------------------------------------------
(* Properties *)

(***************************************************************************)
(* Types, and the ring within its capacity with no more behind the client  *)
(* than the read-back.                                                     *)
(***************************************************************************)
TypeOK ==
  /\ sized \in BOOLEAN
  /\ fifo \in Seq(0 .. Size - 1) /\ RingSpace >= 0
  /\ readPos \in 0 .. ReadBackCapacity /\ RingSize >= 0
  /\ innerPos \in 0 .. Size /\ innerError \in {NoError, EOF, EIO, EXIT}
  /\ request \in BOOLEAN /\ completed \in BOOLEAN
  /\ seekRet \in (0 .. Size) \cup {EIO}
  /\ eof \in BOOLEAN /\ ioError \in {NoError, EOF, EIO, EXIT}
  /\ logicalPos \in 0 .. Size /\ abort \in BOOLEAN
  /\ thread \in {"loop", "asleep", "write", "written", "failed", "gone"}
  /\ toCopy \in 0 .. WriteSize
  /\ client \in {"idle", "read", "seek", "skip", "request", "seeking", "close",
                 "joining", "closed"}
  /\ asleep => client \in {"read", "skip", "seeking"}
  /\ call \in Stream!Calls \cup {NoCall, Stream!Close}
  /\ from \in 0 .. Size /\ toRead \in Nat
  /\ ret \in [code : (0 .. Size) \cup Errors, bytes : Seq(0 .. Size - 1)]
  /\ failures \in 0 .. MaxFailures

(***************************************************************************)
(* The ring is the window of the inner resource around the position of the *)
(* client, and goes on where the inner resource is read next: no byte of   *)
(* before a seek survives it, and none is skipped, whatever the thread was *)
(* doing when the seek was requested.  In a seek that is completed the     *)
(* window is already that of its target.  An end that has been seen is the *)
(* one behind the bytes in the ring.  An abort ends all this.              *)
(***************************************************************************)
Position ==
  IF client = "seeking" /\ completed /\ seekRet \notin Errors
    THEN seekRet ELSE logicalPos

RingIsWindow ==
  ~abort =>
    /\ \A i \in DOMAIN fifo : fifo[i] = Position - readPos + i - 1
    /\ innerPos = Position + RingSize
    /\ eof /\ ioError = EOF => Position + RingSize = Size

(***************************************************************************)
(* To its client the protocol is the inner resource: SeekableStream.       *)
(***************************************************************************)
ImplementsStream == Stream!Spec

(***************************************************************************)
(* Every call of the client returns, and the close joins the thread.       *)
(***************************************************************************)
CallsReturn == client \notin {"idle", "closed"} ~> client \in {"idle", "closed"}

=============================================================================
