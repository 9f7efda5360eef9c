------------------------ MODULE AsyncProtocolProofs ------------------------
(***************************************************************************)
(* Proofs about AsyncProtocol, for resources, rings and reads of any size  *)
(* and any number of failures: that the ring is the window of the inner    *)
(* resource at the position of the client, and that the protocol           *)
(* implements SeekableStream.                                              *)
(***************************************************************************)
EXTENDS AsyncProtocol, SequenceTheorems, TLAPS

-----------------------------------------------------------------------------
(* The inductive invariant *)

\* What a client that is in a call remembers of it, and how far it has come.
CallInv ==
  /\ client = "idle" <=> call = NoCall
  /\ client = "read" => call.op = "read" /\ toRead = call.arg
  /\ client \in {"seek", "skip", "request", "seeking"} => call.op = "seek"
  /\ client \in {"close", "joining", "closed"} => call = Stream!Close
  /\ client \notin {"idle", "skip", "closed"} => logicalPos = from
  /\ client = "skip" =>
       toRead > 0 /\ from <= logicalPos /\ logicalPos + toRead = call.arg

\* A request is served while the client waits for it, and only then.
SeekInv ==
  /\ request /\ ~abort => client = "seeking" /\ ~completed
  /\ client \in {"request", "seeking"} => call.arg \in 0 .. Size
  /\ client = "seeking" /\ completed => seekRet \in {call.arg, EIO}
  /\ seekRet = EIO => failures > 0

\* What the thread has found out outside of the mutex stays true.
ThreadInv ==
  /\ thread = "write" => toCopy > 0 /\ toCopy <= RingSpace
  /\ thread \in {"write", "written", "failed"} => ~eof
  /\ thread = "failed" =>
       innerError # NoError /\ (innerError = EOF => innerPos = Size)
  /\ eof => ioError # NoError
  /\ EIO \in {innerError, ioError} => failures > 0
  /\ EXIT \in {innerError, ioError} => abort

AsyncInv == TypeOK /\ RingIsWindow /\ CallInv /\ SeekInv /\ ThreadInv

\* The types of positions and counts, of flags and places, and of a call and
\* its result.
RingTypes ==
  /\ fifo \in Seq(0 .. Size - 1) /\ RingSpace >= 0
  /\ readPos \in 0 .. ReadBackCapacity /\ RingSize >= 0
  /\ innerPos \in 0 .. Size /\ logicalPos \in 0 .. Size /\ from \in 0 .. Size
  /\ seekRet \in (0 .. Size) \cup {EIO}
  /\ toCopy \in 0 .. WriteSize /\ toRead \in Nat
  /\ failures \in 0 .. MaxFailures

FlagTypes ==
  /\ sized \in BOOLEAN /\ abort \in BOOLEAN
  /\ request \in BOOLEAN /\ completed \in BOOLEAN
  /\ eof \in BOOLEAN /\ ioError \in {NoError, EOF, EIO, EXIT}
  /\ innerError \in {NoError, EOF, EIO, EXIT}
  /\ thread \in {"loop", "asleep", "write", "written", "failed", "gone"}
  /\ client \in {"idle", "read", "seek", "skip", "request", "seeking", "close",
                 "joining", "closed"}
  /\ asleep => client \in {"read", "skip", "seeking"}

CallTypes == Stream!Calls \cup {NoCall, Stream!Close}
RetTypes  == [code : (0 .. Size) \cup Errors, bytes : Seq(0 .. Size - 1)]

AnswerTypes == call \in CallTypes /\ ret \in RetTypes

(* The parts of the type invariant. *)
LEMMA TypeParts == (TypeOK <=> RingTypes /\ FlagTypes /\ AnswerTypes)
BY DEF TypeOK, RingTypes, FlagTypes, AnswerTypes, CallTypes, RetTypes

(* A call returns an offset, an error, or a count with what has been read. *)
LEMMA ReturnTypes ==
  ASSUME NEW code \in (0 .. Size) \cup Errors, NEW bytes \in Seq(0 .. Size - 1),
         Return(code, bytes)
  PROVE  AnswerTypes'
BY DEF Return, Result, AnswerTypes, RetTypes, CallTypes

(* The same for a call that returns nothing it read. *)
LEMMA ReturnCode ==
  ASSUME NEW code \in (0 .. Size) \cup Errors, Return(code, <<>>)
  PROVE  AnswerTypes'
<1>1. <<>> \in Seq(0 .. Size - 1)
  OBVIOUS
<1> QED BY <1>1, ReturnTypes

(* The sizes are numbers. *)
LEMMA SizeFacts ==
  /\ Size \in Nat /\ ReadBackCapacity \in Nat /\ ShortSeekThreshold \in Nat
  /\ BufferCapacity \in Nat /\ WriteSize \in Nat /\ WriteSize > 0 /\ MaxFailures \in Nat
BY AsyncAssumption

(* Errors are no numbers, and differ from each other. *)
LEMMA ErrorFacts ==
  /\ \A n \in Int : n \notin Errors /\ n # EIO
  /\ {EOF, EIO, EXIT, EINVAL} \subseteq Errors /\ NoError \notin Errors
  /\ EOF # EIO /\ EOF # EXIT /\ EIO # EXIT
BY ErrorsAssumption DEF Errors

(* What the operations have as their arguments. *)
LEMMA CallShapes ==
  /\ \A c \in Stream!Calls \cup {Stream!Close} :
       /\ c # NoCall /\ c \in CallTypes
       /\ c.op \in {"read", "seek", "close"}
       /\ c.op = "read" => c.arg \in Nat /\ c.arg > 0
       /\ c.op = "seek" => c.arg \in Int
       /\ c.op = "close" => c = Stream!Close
  /\ Stream!Close.op = "close"
<1>1. ASSUME NEW c \in [op : {"read"}, arg : Reads]
      PROVE  /\ c \in [op : {"read", "seek", "close"}, arg : Int]
             /\ c.op = "read"
             /\ c.arg \in Nat
             /\ c.arg > 0
  BY AsyncAssumption DEF Reads
<1>2. ASSUME NEW c \in [op : {"seek"}, arg : Targets]
      PROVE  /\ c \in [op : {"read", "seek", "close"}, arg : Int]
             /\ c.op = "seek"
             /\ c.arg \in Int
  BY AsyncAssumption DEF Targets
<1>3. Stream!Close \in [op : {"read", "seek", "close"}, arg : Int] /\ Stream!Close.op = "close"
  BY DEF Stream!Close
<1>4. ASSUME NEW c \in Stream!Calls \cup {Stream!Close}
      PROVE  \/ c \in [op : {"read"}, arg : Reads]
             \/ c \in [op : {"seek"}, arg : Targets]
             \/ c = Stream!Close
  BY DEF Stream!Calls
<1>5. \A c \in Stream!Calls \cup {Stream!Close} : c # NoCall /\ c \in CallTypes
  BY <1>1, <1>2, <1>3, <1>4, ErrorsAssumption DEF CallTypes
<1> QED BY <1>1, <1>2, <1>3, <1>4, <1>5

(* What the call in progress is. *)
LEMMA InCall ==
  ASSUME AsyncInv, client # "idle"
  PROVE  /\ call \in Stream!Calls \cup {Stream!Close}
         /\ call.op = "read" => call.arg \in Nat /\ call.arg > 0
         /\ call.op = "seek" => call.arg \in Int
<1>1. call # NoCall /\ call \in CallTypes
  BY TypeParts DEF AsyncInv, AnswerTypes, CallInv
<1> QED BY <1>1, CallShapes DEF CallTypes

-----------------------------------------------------------------------------
(* The ring *)

(* What is read leaves the window; what is dropped is behind the read-back. *)
LEMMA ReadFacts ==
  ASSUME TypeOK, NEW k \in 1 .. RingSize, RingRead(k)
  PROVE  /\ fifo' \in Seq(0 .. Size - 1) /\ readPos' \in 0 .. ReadBackCapacity
         /\ RingSize' = RingSize - k /\ RingSpace' >= RingSpace
         /\ \A n \in DOMAIN fifo' :
              /\ n + (readPos + k - readPos') \in DOMAIN fifo
              /\ fifo'[n] = fifo[n + (readPos + k - readPos')]
<1> DEFINE drop == IF readPos + k > ReadBackCapacity
                     THEN readPos + k - ReadBackCapacity ELSE 0
<1>1. /\ fifo \in Seq(0 .. Size - 1) /\ Len(fifo) \in Nat /\ readPos \in Nat
      /\ readPos <= ReadBackCapacity
      /\ ReadBackCapacity \in Nat /\ BufferCapacity \in Nat /\ k \in Nat /\ k >= 1
      /\ readPos + k <= Len(fifo)
  BY AsyncAssumption DEF TypeOK, RingSize
<1>2. drop \in Nat /\ drop <= Len(fifo) /\ readPos + k - drop \in 0 .. ReadBackCapacity
  BY <1>1
<1>3. fifo' = SubSeq(fifo, drop + 1, Len(fifo)) /\ readPos' = readPos + k - drop
  BY DEF RingRead
<1> HIDE DEF drop
<1> DEFINE rest == SubSeq(fifo, drop + 1, Len(fifo))
<1>4. drop + 1 \in Int /\ Len(fifo) \in Int
      /\ \A n \in (drop + 1) .. Len(fifo) : fifo[n] \in 0 .. Size - 1
  <2>1. \A n \in 1 .. Len(fifo) : fifo[n] \in 0 .. Size - 1
    BY <1>1, ElementOfSeq
  <2>2. \A n \in (drop + 1) .. Len(fifo) : n \in 1 .. Len(fifo)
    BY <1>1, <1>2
  <2>3. drop + 1 \in Int /\ Len(fifo) \in Int
    BY <1>1, <1>2
  <2> QED BY <2>1, <2>2, <2>3
<1>5. /\ rest \in Seq(0 .. Size - 1)
      /\ Len(rest) = IF drop + 1 <= Len(fifo) THEN Len(fifo) - (drop + 1) + 1 ELSE 0
      /\ \A n \in 1 .. Len(fifo) - (drop + 1) + 1 : rest[n] = fifo[drop + 1 + n - 1]
  <2>1. \A m, n \in Int : (\A j \in m .. n : fifo[j] \in 0 .. Size - 1) =>
           /\ SubSeq(fifo, m, n) \in Seq(0 .. Size - 1)
           /\ Len(SubSeq(fifo, m, n)) = IF m <= n THEN n - m + 1 ELSE 0
           /\ \A j \in 1 .. n - m + 1 : SubSeq(fifo, m, n)[j] = fifo[m + j - 1]
    BY SubSeqProperties
  <2> QED BY <1>4, <2>1
<1>6. /\ fifo' \in Seq(0 .. Size - 1) /\ Len(fifo') = Len(fifo) - drop
      /\ DOMAIN fifo' = 1 .. (Len(fifo) - drop)
      /\ \A n \in 1 .. (Len(fifo) - drop) :
           fifo'[n] = fifo[n + drop] /\ n + drop \in DOMAIN fifo
  <2> HIDE DEF rest
  <2>1. fifo' = rest
    BY <1>3 DEF rest
  <2> QED BY <1>1, <1>2, <1>5, <2>1
<1>7. readPos + k - readPos' = drop
  BY <1>1, <1>2, <1>3
<1>8. \A n \in DOMAIN fifo' :
        /\ n + (readPos + k - readPos') \in DOMAIN fifo
        /\ fifo'[n] = fifo[n + (readPos + k - readPos')]
  BY <1>6, <1>7
<1>9. readPos' \in 0 .. ReadBackCapacity /\ RingSize' = RingSize - k
  BY <1>1, <1>2, <1>3, <1>6 DEF RingSize
<1>10. RingSpace' >= RingSpace
  BY <1>1, <1>2, <1>6 DEF RingSpace
<1> QED BY <1>6, <1>8, <1>9, <1>10

(* What is written follows what is in the ring. *)
LEMMA WriteFacts ==
  ASSUME TypeOK, NEW k \in Nat, k <= RingSpace, innerPos + k <= Size,
         fifo' = fifo \o [j \in 1 .. k |-> innerPos + j - 1]
  PROVE  /\ fifo' \in Seq(0 .. Size - 1) /\ Len(fifo') = Len(fifo) + k
         /\ \A n \in DOMAIN fifo' :
              IF n <= Len(fifo) THEN n \in DOMAIN fifo /\ fifo'[n] = fifo[n]
                               ELSE fifo'[n] = innerPos + n - Len(fifo) - 1
<1> DEFINE new == [j \in 1 .. k |-> innerPos + j - 1]
<1>1. fifo \in Seq(0 .. Size - 1) /\ innerPos \in Nat /\ Size \in Nat
  BY AsyncAssumption DEF TypeOK
<1>2. new \in Seq(0 .. Size - 1) /\ Len(new) = k
  BY <1>1
<1>3. \A j \in 1 .. k : new[j] = innerPos + j - 1
  OBVIOUS
<1> HIDE DEF new
<1>4. fifo' = fifo \o new
  BY DEF new
<1> QED BY <1>1, <1>2, <1>3, <1>4


-----------------------------------------------------------------------------
(* The steps of the client and of the thread *)

(* The type invariant is also that of the next state. *)
LEMMA TypePartsNext == RingTypes' /\ FlagTypes' /\ AnswerTypes' => TypeOK'
<1>1. RingTypes /\ FlagTypes /\ AnswerTypes => TypeOK
  BY TypeParts
<1> QED BY <1>1, PTL

(* The client calls read, seek or close. *)
LEMMA BeginKeeps ==
  ASSUME AsyncInv, NEW c \in Stream!Calls \cup {Stream!Close}, Begin(c)
  PROVE  AsyncInv'
<1> USE SizeFacts DEF ringVars, innerVars, seekVars, flagVars, threadVars, callVars
<1>0. RingTypes /\ FlagTypes /\ AnswerTypes /\ RingIsWindow /\ CallInv /\ SeekInv /\ ThreadInv
  BY TypeParts DEF AsyncInv
<1>1. RingTypes'
  BY <1>0, CallShapes DEF RingTypes, RingSize, RingSpace, Begin
<1>2. FlagTypes'
  BY <1>0, CallShapes DEF FlagTypes, Begin
<1>3. AnswerTypes'
  BY <1>0, CallShapes DEF AnswerTypes, Begin
<1>4. RingIsWindow'
  BY <1>0, CallShapes DEF RingIsWindow, Position, RingSize, Begin
<1>5. CallInv'
  BY CallShapes DEF CallInv, Begin
<1>6. SeekInv'
  BY <1>0, CallShapes DEF SeekInv, Begin
<1>7. ThreadInv'
  BY <1>0 DEF ThreadInv, RingSpace, Begin
<1>8. TypeOK'
  BY <1>1, <1>2, <1>3, TypePartsNext
<1> QED BY <1>4, <1>5, <1>6, <1>7, <1>8 DEF AsyncInv

(* A read or a seek forwards is interrupted. *)
LEMMA InterruptKeeps ==
  ASSUME AsyncInv, ReadInternal, ReadInterrupted
  PROVE  AsyncInv'
<1> USE SizeFacts DEF ringVars, innerVars, seekVars, flagVars, threadVars, callVars
<1>0. RingTypes /\ FlagTypes /\ AnswerTypes /\ RingIsWindow /\ CallInv /\ SeekInv /\ ThreadInv
  BY TypeParts DEF AsyncInv
<1>1. RingTypes'
  BY <1>0 DEF RingTypes, RingSize, RingSpace, ReadInternal, ReadInterrupted, ReadReturns,
     Return
<1>2. FlagTypes'
  BY <1>0 DEF FlagTypes, ReadInternal, ReadInterrupted, CheckInterrupt, ReadReturns,
     Return, SignalBackground
<1>3. AnswerTypes'
  <2>1. Return(EXIT, <<>>) \/ Return(logicalPos', <<>>)
    BY DEF ReadInterrupted, ReadReturns
  <2>2. logicalPos' \in 0 .. Size
    BY <1>1 DEF RingTypes
  <2> QED BY <2>1, <2>2, ErrorFacts, ReturnCode
<1>4. RingIsWindow'
  BY DEF RingIsWindow, ReadInterrupted, CheckInterrupt
<1>5. CallInv'
  BY DEF CallInv, ReadInterrupted, ReadReturns, Return
<1>6. SeekInv'
  BY <1>0 DEF SeekInv, ReadInternal, ReadInterrupted, CheckInterrupt, ReadReturns, Return
<1>7. ThreadInv'
  BY <1>0 DEF ThreadInv, RingSpace, ReadInternal, ReadInterrupted, CheckInterrupt,
     SignalBackground
<1>8. TypeOK'
  BY <1>1, <1>2, <1>3, TypePartsNext
<1> QED BY <1>4, <1>5, <1>6, <1>7, <1>8 DEF AsyncInv

(* The ring is empty: the client sleeps, or the end has been reached. *)
LEMMA NothingKeeps ==
  ASSUME AsyncInv, ReadInternal, ReadNothing
  PROVE  AsyncInv'
<1> USE SizeFacts DEF ringVars, innerVars, seekVars, flagVars, threadVars, callVars
<1>0. RingTypes /\ FlagTypes /\ AnswerTypes /\ RingIsWindow /\ CallInv /\ SeekInv /\ ThreadInv
  BY TypeParts DEF AsyncInv
<1>1. RingTypes'
  BY <1>0 DEF RingTypes, RingSize, RingSpace, ReadInternal, ReadNothing, ReadReturns,
     Return, Sleep
<1>2. FlagTypes'
  BY <1>0 DEF FlagTypes, ReadInternal, ReadNothing, CheckInterrupt, ReadReturns, Return,
     Sleep, SignalBackground
<1>3. AnswerTypes'
  <2>1. CASE Sleep(client)
    BY <1>0, <2>1 DEF AnswerTypes, Sleep
  <2>2. CASE ~Sleep(client)
    <3>1. \E code \in (0 .. Size) \cup Errors : Return(code, <<>>)
      BY <1>0, <2>2, ErrorFacts DEF ReadNothing, ReadReturns, RingTypes, FlagTypes
    <3> QED BY <3>1, ReturnCode
  <2> QED BY <2>1, <2>2
<1>4. RingIsWindow'
  BY <1>0 DEF RingIsWindow, Position, RingSize, ReadInternal, ReadNothing, CheckInterrupt,
     ReadReturns, Return, Sleep
<1>5. CallInv'
  BY <1>0 DEF CallInv, ReadNothing, ReadReturns, Return, Sleep
<1>6. SeekInv'
  BY <1>0 DEF SeekInv, ReadInternal, ReadNothing, CheckInterrupt, ReadReturns, Return, Sleep
<1>7. ThreadInv'
  BY <1>0 DEF ThreadInv, RingSpace, ReadInternal, ReadNothing, CheckInterrupt,
     SignalBackground
<1>8. TypeOK'
  BY <1>1, <1>2, <1>3, TypePartsNext
<1> QED BY <1>4, <1>5, <1>6, <1>7, <1>8 DEF AsyncInv

(* A seek to the position itself, or to a negative one. *)
LEMMA SeekNowhereKeeps ==
  ASSUME AsyncInv, ChooseSeek, SeekNowhere(call.arg)
  PROVE  AsyncInv'
<1> USE SizeFacts DEF ringVars, innerVars, seekVars, flagVars, threadVars, callVars
<1>1. RingTypes /\ FlagTypes /\ AnswerTypes /\ RingIsWindow /\ CallInv /\ SeekInv /\ ThreadInv
  BY TypeParts DEF AsyncInv
<1>2. call.arg \in Int
  BY <1>1, InCall DEF CallInv, ChooseSeek
<1>3. /\ client = "seek"
      /\ UNCHANGED <<sized, fifo, innerVars, seekVars, flagVars, abort, threadVars>>
  BY DEF ChooseSeek
<1>4. RingTypes'
  BY <1>1, <1>3 DEF RingTypes, RingSize, RingSpace, SeekNowhere, Return
<1>5. FlagTypes'
  BY <1>1, <1>3 DEF FlagTypes, SeekNowhere, Return
<1>6. AnswerTypes'
  <2>1. Return(EINVAL, <<>>) \/ Return(logicalPos, <<>>)
    BY DEF SeekNowhere
  <2> QED BY <1>1, <2>1, ErrorFacts, ReturnCode DEF RingTypes
<1>7. RingIsWindow'
  BY <1>1, <1>3 DEF RingIsWindow, Position, RingSize, SeekNowhere, Return
<1>8. CallInv'
  BY DEF CallInv, SeekNowhere, Return
<1>9. SeekInv'
  BY <1>1, <1>3 DEF SeekInv, SeekNowhere, Return
<1>10. ThreadInv'
  BY <1>1, <1>3 DEF ThreadInv, RingSpace
<1>11. TypeOK'
  BY <1>4, <1>5, <1>6, TypePartsNext
<1> QED BY <1>7, <1>8, <1>9, <1>10, <1>11 DEF AsyncInv

(* A short seek forwards begins to read. *)
LEMMA FastForwardsKeeps ==
  ASSUME AsyncInv, ChooseSeek, FastForwards(call.arg)
  PROVE  AsyncInv'
<1> USE SizeFacts DEF ringVars, innerVars, seekVars, flagVars, threadVars, callVars
<1>1. RingTypes /\ FlagTypes /\ AnswerTypes /\ RingIsWindow /\ CallInv /\ SeekInv /\ ThreadInv
  BY TypeParts DEF AsyncInv
<1>2. call.arg \in Int
  BY <1>1, InCall DEF CallInv, ChooseSeek
<1>3. /\ client = "seek"
      /\ UNCHANGED <<sized, fifo, innerVars, seekVars, flagVars, abort, threadVars>>
  BY DEF ChooseSeek
<1>4. RingTypes'
  <2>1. logicalPos \in Nat /\ toRead' \in Nat
    BY <1>1, <1>2 DEF RingTypes, FastForwards
  <2> QED BY <1>1, <1>3, <2>1 DEF RingTypes, RingSize, RingSpace, FastForwards
<1>5. FlagTypes'
  BY <1>1, <1>3 DEF FlagTypes, FastForwards
<1>6. AnswerTypes'
  BY <1>1 DEF AnswerTypes, FastForwards
<1>7. RingIsWindow'
  BY <1>1, <1>3 DEF RingIsWindow, Position, RingSize, FastForwards
<1>8. CallInv'
  <2>1. /\ client' = "skip" /\ toRead' = call.arg - logicalPos /\ call.arg > logicalPos
        /\ UNCHANGED <<call, from, logicalPos>>
    BY DEF FastForwards
  <2>2. logicalPos \in Nat /\ logicalPos = from /\ call.op = "seek" /\ call # NoCall
    BY <1>1, <1>3 DEF RingTypes, CallInv
  <2>3. toRead' > 0 /\ logicalPos + toRead' = call.arg /\ from <= logicalPos
    BY <1>2, <2>1, <2>2
  <2> QED BY <2>1, <2>2, <2>3 DEF CallInv
<1>9. SeekInv'
  BY <1>1, <1>3 DEF SeekInv, FastForwards
<1>10. ThreadInv'
  BY <1>1, <1>3 DEF ThreadInv, RingSpace
<1>11. TypeOK'
  BY <1>4, <1>5, <1>6, TypePartsNext
<1> QED BY <1>7, <1>8, <1>9, <1>10, <1>11 DEF AsyncInv

(* A short seek backwards stays within the ring. *)
LEMMA FastBackwardsKeeps ==
  ASSUME AsyncInv, ChooseSeek, FastBackwards(call.arg)
  PROVE  AsyncInv'
<1> USE SizeFacts DEF ringVars, innerVars, seekVars, flagVars, threadVars, callVars
<1>1. RingTypes /\ FlagTypes /\ AnswerTypes /\ RingIsWindow /\ CallInv /\ SeekInv /\ ThreadInv
  BY TypeParts DEF AsyncInv
<1>2. call.arg \in Int
  BY <1>1, InCall DEF CallInv, ChooseSeek
<1>3. /\ client = "seek"
      /\ UNCHANGED <<sized, fifo, innerVars, seekVars, flagVars, abort, threadVars>>
  BY DEF ChooseSeek
<1>4. /\ readPos' = readPos + (call.arg - logicalPos) /\ logicalPos' = call.arg
      /\ call.arg >= 0 /\ call.arg < logicalPos /\ call.arg >= logicalPos - readPos
  BY DEF FastBackwards, IsFast
<1>5. logicalPos \in 0 .. Size /\ readPos \in 0 .. ReadBackCapacity /\ Len(fifo) \in Nat
  BY <1>1 DEF RingTypes
<1>6. readPos' \in 0 .. ReadBackCapacity /\ logicalPos' \in 0 .. Size /\ readPos' <= readPos
  BY <1>2, <1>4, <1>5
<1>7. /\ logicalPos' - readPos' = logicalPos - readPos
      /\ logicalPos' + (Len(fifo) - readPos') = logicalPos + (Len(fifo) - readPos)
  BY <1>2, <1>4, <1>5
<1>8. RingTypes'
  BY <1>1, <1>3, <1>6 DEF RingTypes, RingSize, RingSpace, FastBackwards, Return
<1>9. FlagTypes'
  BY <1>1, <1>3 DEF FlagTypes, FastBackwards, Return
<1>10. AnswerTypes'
  <2>1. call.arg \in 0 .. Size
    BY <1>1, <1>2 DEF FastBackwards, RingTypes
  <2> QED BY <2>1, ReturnCode DEF FastBackwards
<1>11. RingIsWindow'
  <2>1. Position = logicalPos /\ Position' = logicalPos'
    BY <1>3 DEF Position, FastBackwards, Return
  <2> QED BY <1>1, <1>3, <1>7, <2>1 DEF RingIsWindow, RingSize
<1>12. CallInv'
  BY DEF CallInv, FastBackwards, Return
<1>13. SeekInv'
  BY <1>1, <1>3 DEF SeekInv, FastBackwards, Return
<1>14. ThreadInv'
  BY <1>1, <1>3 DEF ThreadInv, RingSpace
<1>15. TypeOK'
  BY <1>8, <1>9, <1>10, TypePartsNext
<1> QED BY <1>11, <1>12, <1>13, <1>14, <1>15 DEF AsyncInv

(* A seek out of the ring, within the resource. *)
LEMMA SlowSeekKeeps ==
  ASSUME AsyncInv, ChooseSeek, SlowSeek(call.arg)
  PROVE  AsyncInv'
<1> USE SizeFacts DEF ringVars, innerVars, seekVars, flagVars, threadVars, callVars
<1>1. RingTypes /\ FlagTypes /\ AnswerTypes /\ RingIsWindow /\ CallInv /\ SeekInv /\ ThreadInv
  BY TypeParts DEF AsyncInv
<1>2. call.arg \in Int
  BY <1>1, InCall DEF CallInv, ChooseSeek
<1>3. /\ client = "seek"
      /\ UNCHANGED <<sized, fifo, innerVars, seekVars, flagVars, abort, threadVars>>
  BY DEF ChooseSeek
<1>4. RingTypes'
  BY <1>1, <1>3 DEF RingTypes, RingSize, RingSpace, SlowSeek, Return
<1>5. FlagTypes'
  BY <1>1, <1>3 DEF FlagTypes, SlowSeek, Return
<1>6. AnswerTypes'
  <2>1. CASE Return(EINVAL, <<>>)
    BY <2>1, ErrorFacts, ReturnCode
  <2>2. CASE UNCHANGED <<call, ret>>
    BY <1>1, <2>2 DEF AnswerTypes
  <2> QED BY <2>1, <2>2 DEF SlowSeek
<1>7. RingIsWindow'
  BY <1>1, <1>3 DEF RingIsWindow, Position, RingSize, SlowSeek, Return
<1>8. CallInv'
  BY <1>1, <1>3 DEF CallInv, SlowSeek, Return
<1>9. SeekInv'
  BY <1>1, <1>2, <1>3 DEF SeekInv, SlowSeek, Return
<1>10. ThreadInv'
  BY <1>1, <1>3 DEF ThreadInv, RingSpace
<1>11. TypeOK'
  BY <1>4, <1>5, <1>6, TypePartsNext
<1> QED BY <1>7, <1>8, <1>9, <1>10, <1>11 DEF AsyncInv

(* The request for a seek is left for the thread. *)
LEMMA RequestSeekKeeps ==
  ASSUME AsyncInv, RequestSeek
  PROVE  AsyncInv'
<1> USE SizeFacts DEF ringVars, innerVars, seekVars, flagVars, threadVars, callVars
<1>0. RingTypes /\ FlagTypes /\ AnswerTypes /\ RingIsWindow /\ CallInv /\ SeekInv /\ ThreadInv
  BY TypeParts DEF AsyncInv
<1>1. RingTypes'
  BY <1>0 DEF RingTypes, RingSize, RingSpace, RequestSeek, Return, CheckInterrupt, Sleep
<1>2. FlagTypes'
  <2>1. CASE CheckInterrupt(TRUE) /\ Return(EXIT, <<>>) /\ UNCHANGED thread
    BY <1>0, <2>1 DEF FlagTypes, RequestSeek, Return, CheckInterrupt
  <2>2. CASE CheckInterrupt(FALSE) /\ Sleep("seeking") /\ SignalBackground
    BY <1>0, <2>2 DEF FlagTypes, RequestSeek, CheckInterrupt, Sleep, SignalBackground
  <2> QED BY <2>1, <2>2 DEF RequestSeek
<1>3. AnswerTypes'
  <2>1. CASE Return(EXIT, <<>>)
    BY <2>1, ErrorFacts, ReturnCode
  <2>2. CASE UNCHANGED <<call, ret>>
    BY <1>0, <2>2 DEF AnswerTypes
  <2> QED BY <2>1, <2>2 DEF RequestSeek, Sleep
<1>4. RingIsWindow'
  BY <1>0 DEF RingIsWindow, Position, RingSize, RequestSeek, CheckInterrupt
<1>5. CallInv'
  BY <1>0 DEF CallInv, RequestSeek, Return, Sleep
<1>6. SeekInv'
  <2>1. CASE CheckInterrupt(TRUE) /\ Return(EXIT, <<>>) /\ UNCHANGED thread
    BY ErrorFacts, <2>1 DEF SeekInv, RequestSeek, Return, CheckInterrupt
  <2>2. CASE CheckInterrupt(FALSE) /\ Sleep("seeking") /\ SignalBackground
    BY <1>0, ErrorFacts, <2>2 DEF SeekInv, RequestSeek, Sleep
  <2> QED BY <2>1, <2>2 DEF RequestSeek
<1>7. ThreadInv'
  BY <1>0 DEF ThreadInv, RingSpace, RequestSeek, CheckInterrupt, SignalBackground
<1>8. TypeOK'
  BY <1>1, <1>2, <1>3, TypePartsNext
<1> QED BY <1>4, <1>5, <1>6, <1>7, <1>8 DEF AsyncInv

(* The client waits for its request, or sees that it is completed. *)
LEMMA AwaitSeekKeeps ==
  ASSUME AsyncInv, AwaitSeek
  PROVE  AsyncInv'
<1> USE SizeFacts DEF ringVars, innerVars, seekVars, flagVars, threadVars, callVars
<1>0. RingTypes /\ FlagTypes /\ AnswerTypes /\ RingIsWindow /\ CallInv /\ SeekInv /\ ThreadInv
  BY TypeParts DEF AsyncInv
<1>1. RingTypes'
  BY <1>0 DEF RingTypes, RingSize, RingSpace, AwaitSeek, SeekCompleted, Return, Sleep,
     Errors
<1>2. FlagTypes'
  <2>1. CASE CheckInterrupt(TRUE) /\ Return(EXIT, <<>>) /\ UNCHANGED thread
    BY <1>0, <2>1 DEF FlagTypes, AwaitSeek, Return, CheckInterrupt
  <2>2. CASE SeekCompleted
    BY <1>0, <2>2 DEF FlagTypes, AwaitSeek, SeekCompleted, Return, CheckInterrupt
  <2>3. CASE CheckInterrupt(FALSE) /\ SignalBackground /\ Sleep("seeking")
    BY <1>0, <2>3 DEF FlagTypes, AwaitSeek, CheckInterrupt, Sleep, SignalBackground
  <2> QED BY <2>1, <2>2, <2>3 DEF AwaitSeek
<1>3. AnswerTypes'
  <2>1. CASE Return(EXIT, <<>>) \/ Return(seekRet, <<>>)
    BY <1>0, <2>1, ErrorFacts, ReturnCode DEF RingTypes
  <2>2. CASE UNCHANGED <<call, ret>>
    BY <1>0, <2>2 DEF AnswerTypes
  <2> QED BY <2>1, <2>2 DEF AwaitSeek, SeekCompleted, Sleep
<1>4. RingIsWindow'
  BY <1>0 DEF RingIsWindow, Position, RingSize, AwaitSeek, SeekCompleted, CheckInterrupt
<1>5. CallInv'
  BY <1>0 DEF CallInv, AwaitSeek, SeekCompleted, Return, Sleep
<1>6. SeekInv'
  BY <1>0 DEF SeekInv, AwaitSeek, SeekCompleted, Return, CheckInterrupt, Sleep
<1>7. ThreadInv'
  BY <1>0 DEF ThreadInv, RingSpace, AwaitSeek, SeekCompleted, CheckInterrupt,
     SignalBackground
<1>8. TypeOK'
  BY <1>1, <1>2, <1>3, TypePartsNext
<1> QED BY <1>4, <1>5, <1>6, <1>7, <1>8 DEF AsyncInv

(* The client asks the thread to end. *)
LEMMA CloseKeeps ==
  ASSUME AsyncInv, Close
  PROVE  AsyncInv'
<1> USE SizeFacts DEF ringVars, innerVars, seekVars, flagVars, threadVars, callVars
<1>0. RingTypes /\ FlagTypes /\ AnswerTypes /\ RingIsWindow /\ CallInv /\ SeekInv /\ ThreadInv
  BY TypeParts DEF AsyncInv
<1>1. RingTypes'
  BY <1>0 DEF RingTypes, RingSize, RingSpace, Close
<1>2. FlagTypes'
  BY <1>0 DEF FlagTypes, Close, SignalBackground
<1>3. AnswerTypes'
  BY <1>0 DEF AnswerTypes, Close
<1>4. RingIsWindow'
  BY DEF RingIsWindow, Close
<1>5. CallInv'
  BY <1>0 DEF CallInv, Close
<1>6. SeekInv'
  BY <1>0 DEF SeekInv, Close
<1>7. ThreadInv'
  BY <1>0 DEF ThreadInv, RingSpace, Close, SignalBackground
<1>8. TypeOK'
  BY <1>1, <1>2, <1>3, TypePartsNext
<1> QED BY <1>4, <1>5, <1>6, <1>7, <1>8 DEF AsyncInv

(* The client joins the thread. *)
LEMMA JoinKeeps ==
  ASSUME AsyncInv, Join
  PROVE  AsyncInv'
<1> USE SizeFacts DEF ringVars, innerVars, seekVars, flagVars, threadVars, callVars
<1>0. RingTypes /\ FlagTypes /\ AnswerTypes /\ RingIsWindow /\ CallInv /\ SeekInv /\ ThreadInv
  BY TypeParts DEF AsyncInv
<1>1. RingTypes'
  BY <1>0 DEF RingTypes, RingSize, RingSpace, Join
<1>2. FlagTypes'
  BY <1>0 DEF FlagTypes, Join
<1>3. AnswerTypes'
  BY <1>0 DEF AnswerTypes, Join
<1>4. RingIsWindow'
  BY <1>0 DEF RingIsWindow, Position, RingSize, Join
<1>5. CallInv'
  BY <1>0 DEF CallInv, Join
<1>6. SeekInv'
  BY <1>0 DEF SeekInv, Join
<1>7. ThreadInv'
  BY <1>0 DEF ThreadInv, Join
<1>8. TypeOK'
  BY <1>1, <1>2, <1>3, TypePartsNext
<1> QED BY <1>4, <1>5, <1>6, <1>7, <1>8 DEF AsyncInv

(* The thread ends. *)
LEMMA ExitKeeps ==
  ASSUME AsyncInv, Loop, Exit
  PROVE  AsyncInv'
<1> USE SizeFacts DEF ringVars, innerVars, seekVars, flagVars, threadVars, callVars
<1>0. RingTypes /\ FlagTypes /\ AnswerTypes /\ RingIsWindow /\ CallInv /\ SeekInv /\ ThreadInv
  BY TypeParts DEF AsyncInv
<1>1. RingTypes'
  BY <1>0 DEF RingTypes, RingSize, RingSpace, Loop, Exit
<1>2. FlagTypes'
  BY <1>0 DEF FlagTypes, Loop, Exit, CheckInterrupt, SignalMain
<1>3. AnswerTypes'
  BY <1>0 DEF AnswerTypes, Loop
<1>4. RingIsWindow'
  BY DEF RingIsWindow, Exit, CheckInterrupt
<1>5. CallInv'
  BY <1>0 DEF CallInv, Loop
<1>6. SeekInv'
  BY <1>0 DEF SeekInv, Loop, Exit, CheckInterrupt
<1>7. ThreadInv'
  BY <1>0, ErrorsAssumption DEF ThreadInv, Exit, CheckInterrupt, Errors
<1>8. TypeOK'
  BY <1>1, <1>2, <1>3, TypePartsNext
<1> QED BY <1>4, <1>5, <1>6, <1>7, <1>8 DEF AsyncInv

(* The seek of the inner resource fails. *)
LEMMA SeekFailsKeeps ==
  ASSUME AsyncInv, Loop, ServeSeek, SeekFails
  PROVE  AsyncInv'
<1> USE SizeFacts DEF ringVars, innerVars, seekVars, flagVars, threadVars, callVars
<1>0. RingTypes /\ FlagTypes /\ AnswerTypes /\ RingIsWindow /\ CallInv /\ SeekInv /\ ThreadInv
  BY TypeParts DEF AsyncInv
<1>1. RingTypes'
  BY <1>0 DEF RingTypes, RingSize, RingSpace, Loop, ServeSeek, SeekFails
<1>2. FlagTypes'
  BY <1>0 DEF FlagTypes, Loop, ServeSeek, CheckInterrupt, SignalMain, SeekFails
<1>3. AnswerTypes'
  BY <1>0 DEF AnswerTypes, Loop
<1>4. RingIsWindow'
  BY <1>0 DEF RingIsWindow, Position, SeekInv, RingSize, Loop, ServeSeek, CheckInterrupt,
     SeekFails, Errors
<1>5. CallInv'
  BY <1>0 DEF CallInv, Loop
<1>6. SeekInv'
  BY <1>0 DEF RingTypes, SeekInv, Loop, ServeSeek, SeekFails
<1>7. ThreadInv'
  BY <1>0 DEF RingTypes, ThreadInv, Loop, ServeSeek, CheckInterrupt, SeekFails
<1>8. TypeOK'
  BY <1>1, <1>2, <1>3, TypePartsNext
<1> QED BY <1>4, <1>5, <1>6, <1>7, <1>8 DEF AsyncInv

(* The thread seeks in the inner resource, and empties the ring. *)
LEMMA SeekInnerKeeps ==
  ASSUME AsyncInv, Loop, ServeSeek, SeekInner
  PROVE  AsyncInv'
<1> USE SizeFacts DEF ringVars, innerVars, seekVars, flagVars, threadVars, callVars
<1>0. RingTypes /\ FlagTypes /\ AnswerTypes /\ RingIsWindow /\ CallInv /\ SeekInv /\ ThreadInv
  BY TypeParts DEF AsyncInv
<1>1. RingTypes'
  BY <1>0 DEF RingTypes, SeekInv, RingSize, RingSpace, Loop, ServeSeek, CheckInterrupt,
     SeekInner, RingReset
<1>2. FlagTypes'
  BY <1>0 DEF FlagTypes, Loop, ServeSeek, CheckInterrupt, SignalMain, SeekInner
<1>3. AnswerTypes'
  BY <1>0 DEF AnswerTypes, Loop
<1>4. RingIsWindow'
  BY <1>0, ErrorsAssumption DEF RingIsWindow, Position, SeekInv, RingSize, Loop, ServeSeek,
     CheckInterrupt, SeekInner, RingReset
<1>5. CallInv'
  BY <1>0 DEF CallInv, Loop
<1>6. SeekInv'
  BY <1>0, ErrorsAssumption DEF SeekInv, Loop, ServeSeek, CheckInterrupt, SeekInner, Errors
<1>7. ThreadInv'
  BY <1>0, ErrorsAssumption DEF ThreadInv, Loop, ServeSeek, CheckInterrupt, SeekInner,
     Errors
<1>8. TypeOK'
  BY <1>1, <1>2, <1>3, TypePartsNext
<1> QED BY <1>4, <1>5, <1>6, <1>7, <1>8 DEF AsyncInv

(* The thread has nothing to do. *)
LEMMA RestKeeps ==
  ASSUME AsyncInv, Loop, Rest
  PROVE  AsyncInv'
<1> USE SizeFacts DEF ringVars, innerVars, seekVars, flagVars, threadVars, callVars
<1>0. RingTypes /\ FlagTypes /\ AnswerTypes /\ RingIsWindow /\ CallInv /\ SeekInv /\ ThreadInv
  BY TypeParts DEF AsyncInv
<1>1. RingTypes'
  BY <1>0 DEF RingTypes, RingSize, RingSpace, Loop, Rest
<1>2. FlagTypes'
  BY <1>0 DEF FlagTypes, Loop, Rest, CheckInterrupt, SignalMain
<1>3. AnswerTypes'
  BY <1>0 DEF AnswerTypes, Loop
<1>4. RingIsWindow'
  BY <1>0 DEF RingIsWindow, Position, RingSize, Loop, Rest, CheckInterrupt
<1>5. CallInv'
  BY <1>0 DEF CallInv, Loop
<1>6. SeekInv'
  BY <1>0 DEF SeekInv, Loop, Rest
<1>7. ThreadInv'
  BY <1>0 DEF ThreadInv, Rest, CheckInterrupt
<1>8. TypeOK'
  BY <1>1, <1>2, <1>3, TypePartsNext
<1> QED BY <1>4, <1>5, <1>6, <1>7, <1>8 DEF AsyncInv

(* The thread is going to fill what is free of the ring. *)
LEMMA ChooseWriteKeeps ==
  ASSUME AsyncInv, ChooseWrite
  PROVE  AsyncInv'
<1> USE SizeFacts DEF ringVars, innerVars, seekVars, flagVars, threadVars, callVars
<1>0. RingTypes /\ FlagTypes /\ AnswerTypes /\ RingIsWindow /\ CallInv /\ SeekInv /\ ThreadInv
  BY TypeParts DEF AsyncInv
<1>1. RingTypes'
  <2>1. RingSpace \in Nat /\ WriteSize \in Nat
    BY <1>0 DEF RingTypes, RingSpace
  <2>2. toCopy' \in 0 .. WriteSize
    BY DEF ChooseWrite, Lesser
  <2> QED BY <1>0, <2>2 DEF RingTypes, RingSize, RingSpace, ChooseWrite
<1>2. FlagTypes'
  BY <1>0 DEF FlagTypes, ChooseWrite, CheckInterrupt
<1>3. AnswerTypes'
  BY <1>0 DEF AnswerTypes, ChooseWrite
<1>4. RingIsWindow'
  BY <1>0 DEF RingIsWindow, Position, RingSize, ChooseWrite, CheckInterrupt
<1>5. CallInv'
  BY <1>0 DEF CallInv, ChooseWrite
<1>6. SeekInv'
  BY <1>0 DEF SeekInv, ChooseWrite
<1>7. ThreadInv'
  BY <1>0 DEF ThreadInv, RingSpace, ChooseWrite, CheckInterrupt, Lesser
<1>8. TypeOK'
  BY <1>1, <1>2, <1>3, TypePartsNext
<1> QED BY <1>4, <1>5, <1>6, <1>7, <1>8 DEF AsyncInv

(* The thread has filled the ring, or has seen why it could not. *)
LEMMA WrittenKeeps ==
  ASSUME AsyncInv, Written
  PROVE  AsyncInv'
<1> USE SizeFacts DEF ringVars, innerVars, seekVars, flagVars, threadVars, callVars
<1>0. RingTypes /\ FlagTypes /\ AnswerTypes /\ RingIsWindow /\ CallInv /\ SeekInv /\ ThreadInv
  BY TypeParts DEF AsyncInv
<1>1. RingTypes'
  BY <1>0 DEF RingTypes, RingSize, RingSpace, Written
<1>2. FlagTypes'
  BY <1>0 DEF FlagTypes, Written, SignalMain
<1>3. AnswerTypes'
  BY <1>0 DEF AnswerTypes, Written
<1>4. RingIsWindow'
  BY <1>0 DEF RingIsWindow, Position, ThreadInv, RingSize, Written
<1>5. CallInv'
  BY <1>0 DEF CallInv, Written
<1>6. SeekInv'
  BY <1>0 DEF SeekInv, Written
<1>7. ThreadInv'
  BY <1>0 DEF ThreadInv, Written
<1>8. TypeOK'
  BY <1>1, <1>2, <1>3, TypePartsNext
<1> QED BY <1>4, <1>5, <1>6, <1>7, <1>8 DEF AsyncInv

(* Either of them wakes up for no reason. *)
LEMMA WakeupKeeps ==
  ASSUME AsyncInv, SpuriousWakeup
  PROVE  AsyncInv'
<1> USE SizeFacts DEF ringVars, innerVars, seekVars, flagVars, threadVars, callVars
<1>0. RingTypes /\ FlagTypes /\ AnswerTypes /\ RingIsWindow /\ CallInv /\ SeekInv /\ ThreadInv
  BY TypeParts DEF AsyncInv
<1>1. RingTypes'
  BY <1>0 DEF RingTypes, RingSize, RingSpace, SpuriousWakeup
<1>2. FlagTypes'
  BY <1>0 DEF FlagTypes, SpuriousWakeup
<1>3. AnswerTypes'
  BY <1>0 DEF AnswerTypes, SpuriousWakeup
<1>4. RingIsWindow'
  BY <1>0 DEF RingIsWindow, Position, RingSize, SpuriousWakeup
<1>5. CallInv'
  BY <1>0 DEF CallInv, SpuriousWakeup
<1>6. SeekInv'
  BY <1>0 DEF SeekInv, SpuriousWakeup
<1>7. ThreadInv'
  BY <1>0 DEF ThreadInv, RingSpace, SpuriousWakeup
<1>8. TypeOK'
  BY <1>1, <1>2, <1>3, TypePartsNext
<1> QED BY <1>4, <1>5, <1>6, <1>7, <1>8 DEF AsyncInv

(* Nothing happens. *)
LEMMA StutterKeeps ==
  ASSUME AsyncInv, UNCHANGED vars
  PROVE  AsyncInv'
<1> USE SizeFacts DEF ringVars, innerVars, seekVars, flagVars, threadVars, callVars
<1>0. RingTypes /\ FlagTypes /\ AnswerTypes /\ RingIsWindow /\ CallInv /\ SeekInv /\ ThreadInv
  BY TypeParts DEF AsyncInv
<1>1. RingTypes'
  BY <1>0 DEF RingTypes, RingSize, RingSpace, vars
<1>2. FlagTypes'
  BY <1>0 DEF FlagTypes, vars
<1>3. AnswerTypes'
  BY <1>0 DEF AnswerTypes, vars
<1>4. RingIsWindow'
  BY <1>0 DEF RingIsWindow, Position, RingSize, vars
<1>5. CallInv'
  BY <1>0 DEF CallInv, vars
<1>6. SeekInv'
  BY <1>0 DEF SeekInv, vars
<1>7. ThreadInv'
  BY <1>0 DEF ThreadInv, RingSpace, vars
<1>8. TypeOK'
  BY <1>1, <1>2, <1>3, TypePartsNext
<1> QED BY <1>4, <1>5, <1>6, <1>7, <1>8 DEF AsyncInv

(* The client takes bytes from the ring. *)
LEMMA BytesKeep ==
  ASSUME AsyncInv, ReadInternal, ReadBytes
  PROVE  AsyncInv'
<1> USE SizeFacts DEF ringVars, innerVars, seekVars, flagVars, threadVars, callVars
<1>1. RingTypes /\ FlagTypes /\ AnswerTypes /\ RingIsWindow /\ CallInv /\ SeekInv /\ ThreadInv
  BY TypeParts DEF AsyncInv
<1> DEFINE k == Lesser(toRead, RingSize)
<1>2. /\ ~abort /\ abort' = FALSE /\ client \in {"read", "skip"} /\ ~asleep
      /\ k > 0 /\ RingRead(k) /\ logicalPos' = logicalPos + k /\ toRead' = toRead - k
      /\ UNCHANGED <<sized, innerVars, seekVars, flagVars, toCopy>>
  BY DEF ReadInternal, ReadBytes, CheckInterrupt
<1>3. \/ /\ ReadReturns(k, SubSeq(fifo, readPos + 1, readPos + k))
         /\ client' = "idle" /\ call' = NoCall
         /\ UNCHANGED <<asleep, from>>
      \/ /\ client = "skip" /\ toRead' # 0
         /\ client' = "skip" /\ asleep' = TRUE /\ UNCHANGED <<call, from, ret>>
  BY <1>2 DEF ReadBytes, ReadReturns, Return, Sleep
<1>4. RingSize \in Nat /\ RingSpace \in Nat /\ toRead \in Nat /\ innerPos \in 0 .. Size
      /\ logicalPos \in 0 .. Size
  BY <1>1 DEF RingTypes, RingSize, RingSpace
<1>5. k \in 1 .. RingSize /\ k <= toRead
  BY <1>2, <1>4 DEF Lesser
<1> HIDE DEF k
<1>6. Position = logicalPos /\ Position' = logicalPos'
  BY <1>2, <1>3 DEF Position
<1>7. innerPos = logicalPos + RingSize
  BY <1>1, <1>2, <1>6 DEF RingIsWindow
<1>8. /\ fifo' \in Seq(0 .. Size - 1) /\ readPos' \in 0 .. ReadBackCapacity
      /\ RingSize' = RingSize - k /\ RingSpace' >= RingSpace
      /\ \A n \in DOMAIN fifo' :
           /\ n + (readPos + k - readPos') \in DOMAIN fifo
           /\ fifo'[n] = fifo[n + (readPos + k - readPos')]
  BY <1>1, <1>2, <1>5, ReadFacts, TypeParts
<1>9. RingSpace' \in Int /\ RingSize' \in Nat
  BY <1>4, <1>5, <1>8 DEF RingSpace
<1>10. RingTypes'
  <2>1. logicalPos' \in 0 .. Size /\ toRead' \in Nat
    BY <1>2, <1>4, <1>5, <1>7
  <2>2. RingSpace' >= 0 /\ RingSize' >= 0
    BY <1>4, <1>8, <1>9
  <2> QED BY <1>1, <1>2, <1>3, <1>8, <2>1, <2>2 DEF RingTypes
<1>11. FlagTypes'
  <2>1. thread' \in {"loop", "asleep", "write", "written", "failed", "gone"}
    <3>1. thread' = "loop" \/ thread' = thread
      BY DEF ReadInternal, SignalBackground
    <3>2. thread \in {"loop", "asleep", "write", "written", "failed", "gone"}
      BY <1>1 DEF FlagTypes
    <3> QED BY <3>1, <3>2
  <2>2. UNCHANGED <<sized, request, completed, eof, ioError, innerError>>
    BY <1>2
  <2>3. client' \in {"idle", "skip"} /\ (asleep' => client' = "skip")
    BY <1>2, <1>3
  <2> QED BY <1>1, <1>2, <2>1, <2>3 DEF FlagTypes
<1>12. AnswerTypes'
  <2>1. CASE ReadReturns(k, SubSeq(fifo, readPos + 1, readPos + k))
    <3> DEFINE bytes == SubSeq(fifo, readPos + 1, readPos + k)
    <3>1. k \in 0 .. Size /\ logicalPos' \in 0 .. Size
      BY <1>10, <1>4, <1>5, <1>7 DEF RingTypes
    <3>2. bytes \in Seq(0 .. Size - 1)
      <4>1. fifo \in Seq(0 .. Size - 1) /\ readPos \in Nat /\ readPos + k <= Len(fifo)
        BY <1>1, <1>5 DEF RingTypes, RingSize
      <4>2. \A j \in 1 .. Len(fifo) : fifo[j] \in 0 .. Size - 1
        BY <4>1, ElementOfSeq
      <4>3. /\ readPos + 1 \in Int /\ readPos + k \in Int
            /\ \A j \in (readPos + 1) .. (readPos + k) : j \in 1 .. Len(fifo)
        BY <1>5, <4>1
      <4>4. \A m, n \in Int : (\A j \in m .. n : fifo[j] \in 0 .. Size - 1) =>
              SubSeq(fifo, m, n) \in Seq(0 .. Size - 1)
        BY SubSeqProperties
      <4> QED BY <4>2, <4>3, <4>4
    <3> HIDE DEF bytes
    <3>3. Return(k, bytes) \/ Return(logicalPos', <<>>)
      BY <2>1 DEF ReadReturns, bytes
    <3>4. CASE Return(k, bytes)
      BY <3>1, <3>2, <3>4, ReturnTypes
    <3>5. CASE Return(logicalPos', <<>>)
      BY <3>1, <3>5, ReturnCode
    <3> QED BY <3>3, <3>4, <3>5
  <2>2. CASE UNCHANGED <<call, ret>>
    BY <1>1, <2>2 DEF AnswerTypes
  <2> QED BY <1>3, <2>1, <2>2
<1>13. RingIsWindow'
  <2>1. logicalPos' - readPos' = logicalPos - readPos + (readPos + k - readPos')
    <3>1. readPos \in Nat /\ readPos' \in Nat /\ k \in Nat /\ logicalPos \in Nat
      BY <1>1, <1>5, <1>8 DEF RingTypes
    <3> QED BY <1>2, <3>1
  <2>2. \A n \in DOMAIN fifo' : fifo'[n] = logicalPos' - readPos' + n - 1
    <3> SUFFICES ASSUME NEW n \in DOMAIN fifo'
                 PROVE  fifo'[n] = logicalPos' - readPos' + n - 1
      OBVIOUS
    <3> DEFINE m == n + (readPos + k - readPos')
    <3>1. n \in Nat /\ readPos \in Nat /\ readPos' \in Nat /\ k \in Nat
      <4>1. n \in Nat
        BY <1>8
      <4>2. readPos \in Nat /\ readPos' \in Nat
        BY <1>1, <1>8 DEF RingTypes
      <4> QED BY <1>5, <4>1, <4>2
    <3>2. fifo'[n] = logicalPos - readPos + m - 1
      BY <1>1, <1>2, <1>6, <1>8 DEF RingIsWindow
    <3> QED BY <1>2, <1>4, <3>1, <3>2
  <2>3. innerPos' = logicalPos' + RingSize'
    BY <1>2, <1>4, <1>5, <1>7, <1>8
  <2>4. eof' /\ ioError' = EOF => logicalPos' + RingSize' = Size
    BY <1>1, <1>2, <2>3 DEF RingIsWindow
  <2> QED BY <1>6, <2>2, <2>3, <2>4 DEF RingIsWindow
<1>14. CallInv'
  <2>1. CASE client' = "idle" /\ call' = NoCall
    BY <2>1 DEF CallInv
  <2>2. CASE client = "skip" /\ toRead' # 0 /\ client' = "skip" /\ UNCHANGED <<call, from>>
    <3>1. /\ call # NoCall /\ call.op = "seek" /\ from <= logicalPos
          /\ logicalPos + toRead = call.arg /\ from \in Nat
      BY <1>1, <2>2 DEF CallInv, RingTypes
    <3>2. toRead' > 0 /\ from <= logicalPos' /\ logicalPos' + toRead' = call.arg
      BY <1>2, <1>4, <1>5, <2>2, <3>1
    <3> QED BY <2>2, <3>1, <3>2 DEF CallInv
  <2> QED BY <1>3, <2>1, <2>2
<1>15. SeekInv'
  BY <1>1, <1>2, <1>3 DEF SeekInv
<1>16. ThreadInv'
  <2>1. thread' = IF thread = "asleep" THEN "loop" ELSE thread
    BY DEF ReadInternal, SignalBackground
  <2>2. thread = "write" => toCopy <= RingSpace'
    BY <1>1, <1>4, <1>8, <1>9 DEF ThreadInv, RingTypes
  <2> QED BY <1>1, <1>2, <2>1, <2>2 DEF ThreadInv
<1>17. TypeOK'
  BY <1>10, <1>11, <1>12, TypePartsNext
<1> QED BY <1>13, <1>14, <1>15, <1>16, <1>17 DEF AsyncInv

(* The thread reads from the inner resource into the ring. *)
LEMMA WriteKeeps ==
  ASSUME AsyncInv, Write
  PROVE  AsyncInv'
<1> USE SizeFacts DEF ringVars, innerVars, seekVars, flagVars, threadVars, callVars
<1>1. RingTypes /\ FlagTypes /\ AnswerTypes /\ RingIsWindow /\ CallInv /\ SeekInv /\ ThreadInv
  BY TypeParts DEF AsyncInv
<1>2. thread = "write" /\ UNCHANGED <<sized, readPos, seekVars, flagVars, logicalPos, toCopy,
                                       client, asleep, callVars>>
  BY DEF Write
<1>3. PICK k \in 0 .. toCopy :
        /\ InnerRead(k)
        /\ fifo' = fifo \o [j \in 1 .. k |-> innerPos + j - 1]
        /\ innerPos' = innerPos + k
        /\ thread' = IF k = 0 THEN "failed" ELSE "written"
  BY DEF Write
<1>4. /\ RingSize \in Nat /\ RingSpace \in Nat /\ innerPos \in 0 .. Size
      /\ toCopy \in Nat /\ toCopy > 0 /\ toCopy <= RingSpace /\ k \in Nat
      /\ Len(fifo) \in Nat /\ readPos \in Nat /\ failures \in 0 .. MaxFailures
  BY <1>1, <1>2 DEF RingTypes, RingSize, RingSpace, ThreadInv
<1>5. \/ /\ k = Lesser(toCopy, Size - innerPos) /\ UNCHANGED <<failures, abort>>
         /\ innerError' = IF Size - innerPos < toCopy THEN EOF ELSE NoError
      \/ /\ k < toCopy /\ k <= Size - innerPos /\ innerError' = EIO
         /\ failures < MaxFailures /\ failures' = failures + 1 /\ UNCHANGED abort
      \/ /\ k < toCopy /\ k <= Size - innerPos /\ innerError' = EXIT
         /\ abort' = TRUE /\ UNCHANGED failures
  BY <1>3 DEF InnerRead, CheckInterrupt
<1>6. k <= toCopy /\ k <= Size - innerPos
  BY <1>4, <1>5 DEF Lesser
<1>7. k <= RingSpace /\ innerPos + k <= Size
  BY <1>4, <1>6
<1>8. failures \in Nat /\ failures' \in 0 .. MaxFailures /\ failures' >= failures
  BY <1>4, <1>5
<1>9. innerError' \in {NoError, EOF, EIO, EXIT} /\ (innerError' = EXIT => abort')
  BY <1>5, ErrorFacts
<1>10. innerError' = EIO => failures' > 0
  BY <1>4, <1>5, ErrorFacts
<1>11. /\ abort' \in BOOLEAN /\ (abort => abort')
  BY <1>1, <1>5 DEF FlagTypes
<1>12. /\ fifo' \in Seq(0 .. Size - 1) /\ Len(fifo') = Len(fifo) + k
      /\ \A n \in DOMAIN fifo' :
           IF n <= Len(fifo) THEN n \in DOMAIN fifo /\ fifo'[n] = fifo[n]
                             ELSE fifo'[n] = innerPos + n - Len(fifo) - 1
  BY <1>1, <1>3, <1>4, <1>7, WriteFacts, TypeParts
<1>13. RingSize' = RingSize + k /\ RingSpace' = RingSpace - k
  BY <1>2, <1>4, <1>12 DEF RingSize, RingSpace
<1>14. RingTypes'
  BY <1>1, <1>2, <1>3, <1>4, <1>7, <1>13, <1>8 DEF RingTypes
<1>15. FlagTypes'
  BY <1>1, <1>2, <1>3, <1>11, <1>9 DEF FlagTypes
<1>16. AnswerTypes'
  BY <1>1, <1>2 DEF AnswerTypes
<1>17. RingIsWindow'
  <2> SUFFICES ASSUME ~abort' PROVE RingIsWindow'
    BY DEF RingIsWindow
  <2>1. /\ ~abort /\ Position' = Position
        /\ innerPos = Position + RingSize /\ ~eof
        /\ \A n \in DOMAIN fifo : fifo[n] = Position - readPos + n - 1
    BY <1>1, <1>2, <1>11 DEF RingIsWindow, Position, ThreadInv
  <2>2. Position \in Int
    BY <1>1 DEF Position, RingTypes
  <2>3. innerPos' = Position' + RingSize'
    BY <1>3, <1>4, <1>13, <2>1, <2>2
  <2>4. \A n \in DOMAIN fifo' : fifo'[n] = Position' - readPos' + n - 1
    <3> SUFFICES ASSUME NEW n \in DOMAIN fifo'
                 PROVE  fifo'[n] = Position - readPos + n - 1
      BY <1>2, <2>1
    <3>1. n \in Nat
      BY <1>12
    <3>2. innerPos = Position + (Len(fifo) - readPos)
      BY <2>1 DEF RingSize
    <3>3. CASE n <= Len(fifo)
      BY <1>12, <2>1, <3>3
    <3>4. CASE n > Len(fifo)
      BY <1>4, <1>12, <2>2, <3>1, <3>2, <3>4
    <3> QED BY <1>4, <3>1, <3>3, <3>4
  <2> QED BY <1>2, <2>1, <2>3, <2>4 DEF RingIsWindow
<1>18. CallInv'
  BY <1>1, <1>2 DEF CallInv
<1>19. SeekInv'
  BY <1>1, <1>2, <1>11, <1>8 DEF SeekInv
<1>20. ThreadInv'
  <2>1. k = 0 => innerError' # NoError /\ (innerError' = EOF => innerPos' = Size)
    <3>1. CASE k = Lesser(toCopy, Size - innerPos) /\ k = 0
      <4>1. innerPos = Size /\ Size - innerPos < toCopy
        BY <1>4, <3>1 DEF Lesser
      <4>2. innerError' = EOF \/ innerError' = EIO \/ innerError' = EXIT
        BY <1>4, <1>5, <4>1
      <4>3. innerPos' = Size
        BY <1>3, <1>4, <3>1, <4>1
      <4> QED BY <4>2, <4>3, ErrorFacts
    <3>2. CASE k # Lesser(toCopy, Size - innerPos)
      BY <1>5, <3>2, ErrorFacts
    <3> QED BY <3>1, <3>2
  <2> QED BY <1>1, <1>2, <1>3, <1>11, <1>8, <1>9, <1>10, <2>1 DEF ThreadInv
<1>21. TypeOK'
  BY <1>14, <1>15, <1>16, TypePartsNext
<1> QED BY <1>17, <1>18, <1>19, <1>20, <1>21 DEF AsyncInv

-----------------------------------------------------------------------------
(* The invariant *)

(* Every step of the client, the thread or the scheduler keeps the invariant. *)
LEMMA AsyncInductive == AsyncInv /\ [Next]_vars => AsyncInv'
<1> SUFFICES ASSUME AsyncInv, [Next]_vars PROVE AsyncInv'
  OBVIOUS
<1>1. ASSUME NEW c \in Stream!Calls \cup {Stream!Close}, Begin(c) PROVE AsyncInv'
  BY <1>1, BeginKeeps
<1>2. CASE Client
  <2>1. CASE ReadInternal
    BY <2>1, InterruptKeeps, BytesKeep, NothingKeeps DEF ReadInternal
  <2>2. CASE ChooseSeek
    BY <2>2, SeekNowhereKeeps, FastForwardsKeeps, FastBackwardsKeeps, SlowSeekKeeps
       DEF ChooseSeek
  <2> QED
    BY <1>2, <2>1, <2>2, RequestSeekKeeps, AwaitSeekKeeps, CloseKeeps, JoinKeeps DEF Client
<1>3. CASE Background
  <2>1. CASE Loop
    <3>1. Exit \/ (ServeSeek /\ (SeekFails \/ SeekInner)) \/ Rest
      BY <2>1 DEF Loop, ServeSeek
    <3> QED BY <2>1, <3>1, ExitKeeps, SeekFailsKeeps, SeekInnerKeeps, RestKeeps
  <2> QED BY <1>3, <2>1, ChooseWriteKeeps, WriteKeeps, WrittenKeeps DEF Background
<1>4. CASE SpuriousWakeup
  BY <1>4, WakeupKeeps
<1>5. CASE UNCHANGED vars
  BY <1>5, StutterKeeps
<1> QED BY <1>1, <1>2, <1>3, <1>4, <1>5 DEF Next

(* It holds when async_open returns. *)
LEMMA AsyncInvInit == Init => AsyncInv
<1> SUFFICES ASSUME Init PROVE AsyncInv
  OBVIOUS
<1> USE SizeFacts, ErrorFacts DEF Init
<1>1. <<>> \in Seq(0 .. Size - 1) /\ Len(<<>>) = 0
  OBVIOUS
<1>2. RingTypes
  BY <1>1 DEF RingTypes, RingSize, RingSpace
<1>3. FlagTypes
  BY DEF FlagTypes
<1>4. AnswerTypes
  BY <1>1 DEF AnswerTypes, RetTypes, CallTypes, Result
<1>5. RingIsWindow
  BY <1>1 DEF RingIsWindow, Position, RingSize
<1>6. CallInv /\ SeekInv /\ ThreadInv
  BY DEF CallInv, SeekInv, ThreadInv
<1> QED BY <1>2, <1>3, <1>4, <1>5, <1>6, TypeParts DEF AsyncInv

(* The protocol keeps the invariant. *)
LEMMA AsyncInvariant == Spec => []AsyncInv
BY AsyncInvInit, AsyncInductive, PTL DEF Spec

(***************************************************************************)
(* The ring never holds more than its capacity, nor more behind the client *)
(* than its read-back, and all positions are within the resource.          *)
(***************************************************************************)
THEOREM AsyncTypeCorrect == Spec => []TypeOK
BY AsyncInvariant, PTL DEF AsyncInv

(***************************************************************************)
(* The ring is the window of the inner resource around the position of the *)
(* client and goes on where the resource is read next, though the thread   *)
(* writes and the client chooses its seeks without the mutex.              *)
(***************************************************************************)
THEOREM RingStaysWindow == Spec => []RingIsWindow
BY AsyncInvariant, PTL DEF AsyncInv

-----------------------------------------------------------------------------
(* The protocol implements SeekableStream *)

\* The variables of the stream.
StreamPos    == IF client \in {"idle", "closed"} THEN logicalPos ELSE from
StreamCall   == IF client = "closed" THEN [call EXCEPT !.op = "closed"] ELSE call
StreamFailed == failures > 0 \/ abort

InCallOf(op) == client \notin {"idle", "closed"} /\ call.op = op

(* Failures and aborts are never forgotten. *)
LEMMA FailuresStay == AsyncInv /\ [Next]_vars => (StreamFailed => StreamFailed')
<1> SUFFICES ASSUME AsyncInv, [Next]_vars, StreamFailed PROVE StreamFailed'
  OBVIOUS
<1> USE DEF ringVars, innerVars, seekVars, flagVars, threadVars, callVars, StreamFailed,
            CheckInterrupt
<1>0. failures \in Nat
  BY TypeParts, SizeFacts DEF AsyncInv, RingTypes
<1>1. ASSUME NEW c \in Stream!Calls \cup {Stream!Close}, Begin(c) PROVE StreamFailed'
  BY <1>1 DEF Begin
<1>2. CASE Client
  BY <1>2 DEF Client, ReadInternal, ReadInterrupted, ReadBytes, ReadNothing, ChooseSeek,
              RequestSeek, AwaitSeek, SeekCompleted, Close, Join
<1>3. CASE Loop
  BY <1>0, <1>3 DEF Loop, Exit, ServeSeek, SeekFails, SeekInner, Rest
<1>4. CASE ChooseWrite \/ Written
  BY <1>4 DEF ChooseWrite, Written
<1>5. CASE Write
  BY <1>0, <1>5 DEF Write, InnerRead
<1>6. CASE SpuriousWakeup \/ UNCHANGED vars
  BY <1>6 DEF SpuriousWakeup, vars
<1> QED BY <1>1, <1>2, <1>3, <1>4, <1>5, <1>6 DEF Next, Background

(* A step that the client does not see, but for a failure. *)
LEMMA StreamStutters ==
  ASSUME AsyncInv, [Next]_vars, UNCHANGED <<sized, StreamPos, StreamCall, ret>>
  PROVE  [Stream!Next]_Stream!vars
<1>1. StreamFailed \in BOOLEAN /\ StreamFailed' \in BOOLEAN
  BY DEF StreamFailed
<1>2. Stream!Fail \/ UNCHANGED StreamFailed
  BY <1>1, FailuresStay DEF Stream!Fail, StreamFailed
<1> QED
  BY <1>2 DEF Stream!Next, Stream!vars, StreamPos, StreamCall, StreamFailed

\* What a read, or a seek, that returns may tell the client.
ReadAnswer(n) ==
  \/ \E k \in 1 .. n :
       /\ from + k <= Size
       /\ ret' = Result(k, [j \in 1 .. k |-> from + j - 1])
       /\ logicalPos' = from + k
  \/ from = Size /\ ret' = Result(EOF, <<>>) /\ logicalPos' = from
  \/ /\ StreamFailed' /\ logicalPos' = from
     /\ ret' \in {Result(EIO, <<>>), Result(EXIT, <<>>)}

SeekAnswer(to) ==
  \/ \E p \in 0 .. Size :
       /\ p = to \/ (from <= p /\ p < to /\ (p = Size \/ StreamFailed'))
       /\ ret' = Result(p, <<>>) /\ logicalPos' = p
  \/ /\ to < 0 \/ to > Size \/ ~sized
     /\ ret' = Result(EINVAL, <<>>) /\ logicalPos' = from
  \/ /\ StreamFailed' /\ logicalPos' = from
     /\ ret' \in {Result(EIO, <<>>), Result(EXIT, <<>>)}

(* The end of a call of the client is that of a call of the stream. *)
LEMMA StreamReturns ==
  ASSUME AsyncInv, [Next]_vars, client \notin {"idle", "closed"},
         client' = "idle", call' = NoCall, UNCHANGED sized,
         \/ call.op = "read" /\ ReadAnswer(call.arg)
         \/ call.op = "seek" /\ SeekAnswer(call.arg)
  PROVE  [Stream!Next]_Stream!vars
<1>1. StreamFailed \in BOOLEAN /\ StreamFailed' \in BOOLEAN
  BY DEF StreamFailed
<1>2. Stream!Fail
  BY <1>1, FailuresStay DEF Stream!Fail, StreamFailed
<1>3. /\ StreamPos = from /\ StreamPos' = logicalPos'
      /\ StreamCall = call /\ StreamCall' = NoCall
  BY DEF StreamPos, StreamCall
<1>4. call # NoCall /\ call \in CallTypes
  BY TypeParts DEF AsyncInv, CallInv, AnswerTypes
<1>5. call # Stream!Closed
  BY <1>4, CallShapes DEF CallTypes, Stream!Closed
<1>6. ASSUME call.op = "read", ReadAnswer(call.arg)
      PROVE  Stream!Return
  <2>1. Stream!Read(call.arg)
    BY <1>3, <1>6 DEF Stream!Read, Stream!Result, Result, ReadAnswer, StreamPos,
       StreamFailed
  <2> QED BY <1>2, <1>3, <1>6, <2>1 DEF Stream!Return, StreamCall
<1>7. ASSUME call.op = "seek", SeekAnswer(call.arg)
      PROVE  Stream!Return
  <2>1. Stream!Seek(call.arg)
    BY <1>3, <1>7 DEF Stream!Seek, Stream!Result, Result, SeekAnswer, StreamPos,
       StreamFailed
  <2> QED BY <1>2, <1>3, <1>7, <2>1 DEF Stream!Return, StreamCall
<1> QED BY <1>3, <1>4, <1>5, <1>6, <1>7 DEF Stream!Next, StreamCall

(* A client that is interrupted gets an error, or where the seek has come to. *)
LEMMA InterruptMaps ==
  ASSUME AsyncInv, [Next]_vars, ReadInternal, ReadInterrupted
  PROVE  [Stream!Next]_Stream!vars
<1> USE SizeFacts
<1>0. /\ client \in {"read", "skip"} /\ abort' = TRUE
      /\ UNCHANGED <<sized, logicalPos>> /\ client' = "idle" /\ call' = NoCall
      /\ ret' = IF client = "read" THEN Result(EXIT, <<>>) ELSE Result(logicalPos, <<>>)
  BY DEF ReadInternal, ReadInterrupted, CheckInterrupt, ReadReturns, Return
<1>1. StreamFailed'
  BY <1>0 DEF StreamFailed
<1>2. CASE client = "read"
  BY <1>0, <1>1, <1>2, StreamReturns DEF AsyncInv, CallInv, ReadAnswer
<1>3. CASE client = "skip"
  <2>1. /\ logicalPos \in 0 .. Size /\ from <= logicalPos /\ logicalPos < call.arg
        /\ call.op = "seek"
    <3>1. /\ logicalPos \in 0 .. Size /\ toRead \in Nat /\ toRead > 0
          /\ logicalPos + toRead = call.arg
      BY <1>3, TypeParts DEF AsyncInv, CallInv, RingTypes
    <3> QED BY <1>3, <3>1 DEF AsyncInv, CallInv
  <2>2. SeekAnswer(call.arg)
    BY <1>0, <1>1, <1>3, <2>1 DEF SeekAnswer
  <2> QED BY <1>0, <1>3, <2>1, <2>2, StreamReturns
<1> QED BY <1>0, <1>2, <1>3

(* A client that finds the ring empty sleeps, or it is at the end. *)
LEMMA NothingMaps ==
  ASSUME AsyncInv, [Next]_vars, ReadInternal, ReadNothing
  PROVE  [Stream!Next]_Stream!vars
<1> USE SizeFacts
<1>0. /\ client \in {"read", "skip"} /\ abort' = abort /\ RingSize = 0
      /\ ~abort /\ UNCHANGED <<sized, logicalPos>>
  BY TypeParts DEF ReadInternal, ReadNothing, CheckInterrupt, AsyncInv, FlagTypes
<1>1. CASE ~eof
  <2>1. UNCHANGED <<client, call, from, ret, logicalPos, sized>>
    BY <1>0, <1>1 DEF ReadInternal, ReadNothing, Sleep
  <2> QED BY <2>1, StreamStutters DEF StreamPos, StreamCall
<1>2. CASE eof
  <2> DEFINE code == IF ioError = NoError THEN EOF ELSE ioError
  <2>1. /\ client' = "idle" /\ call' = NoCall /\ UNCHANGED failures
        /\ ret' = IF client = "read" THEN Result(code, <<>>) ELSE Result(logicalPos, <<>>)
    BY <1>0, <1>2 DEF ReadInternal, ReadNothing, ReadReturns, Return, innerVars
  <2>2. \/ code = EOF /\ logicalPos = Size
        \/ code = EIO /\ StreamFailed'
    <3>1. /\ ioError \in {EOF, EIO} /\ code = ioError
          /\ ioError = EIO => failures > 0
      BY <1>0, <1>2, TypeParts DEF AsyncInv, FlagTypes, ThreadInv
    <3>2. Position = logicalPos /\ logicalPos \in 0 .. Size
      BY <1>0, TypeParts DEF Position, AsyncInv, RingTypes
    <3>3. ioError = EOF => logicalPos = Size
      BY <1>0, <1>2, <3>2 DEF AsyncInv, RingIsWindow
    <3> HIDE DEF code
    <3>4. failures > 0 => StreamFailed'
      BY <2>1 DEF StreamFailed
    <3> QED BY <3>1, <3>3, <3>4
  <2> HIDE DEF code
  <2>3. CASE client = "read"
    <3>1. logicalPos = from /\ call.op = "read"
      BY <2>3 DEF AsyncInv, CallInv
    <3>2. ReadAnswer(call.arg)
      BY <1>0, <2>1, <2>2, <2>3, <3>1 DEF ReadAnswer
    <3> QED BY <1>0, <2>1, <3>1, <3>2, StreamReturns
  <2>4. CASE client = "skip"
    <3>1. /\ logicalPos \in 0 .. Size /\ toRead \in Nat /\ toRead > 0
          /\ logicalPos + toRead = call.arg /\ from <= logicalPos /\ call.op = "seek"
      BY <2>4, TypeParts DEF AsyncInv, CallInv, RingTypes
    <3>2. logicalPos < call.arg
      BY <3>1
    <3>3. SeekAnswer(call.arg)
      BY <1>0, <2>1, <2>2, <2>4, <3>1, <3>2 DEF SeekAnswer
    <3> QED BY <1>0, <2>1, <2>4, <3>1, <3>3, StreamReturns
  <2> QED BY <1>0, <2>3, <2>4
<1> QED BY <1>1, <1>2 DEF AsyncInv, TypeOK

(* The bytes of the window are those of the resource at the position. *)
LEMMA WindowBytes ==
  ASSUME AsyncInv, ~abort, Position = logicalPos, NEW k \in 1 .. RingSize
  PROVE  /\ SubSeq(fifo, readPos + 1, readPos + k) = [j \in 1 .. k |-> logicalPos + j - 1]
         /\ logicalPos + k <= Size
<1>1. /\ fifo \in Seq(0 .. Size - 1) /\ Len(fifo) \in Nat /\ readPos \in Nat
      /\ logicalPos \in Nat /\ RingSize = Len(fifo) - readPos /\ innerPos \in 0 .. Size
  BY TypeParts, SizeFacts DEF AsyncInv, RingTypes, RingSize
<1>2. /\ innerPos = logicalPos + RingSize
      /\ \A n \in DOMAIN fifo : fifo[n] = logicalPos - readPos + n - 1
  BY DEF AsyncInv, RingIsWindow
<1>3. /\ k \in Nat /\ k >= 1 /\ readPos + k <= Len(fifo) /\ logicalPos + k <= Size
      /\ DOMAIN fifo = 1 .. Len(fifo)
  <2>1. k \in Nat /\ k >= 1 /\ k <= RingSize
    BY <1>1
  <2>2. DOMAIN fifo = 1 .. Len(fifo)
    BY <1>1
  <2>3. logicalPos + k <= Size
    BY <1>1, <1>2, <2>1, SizeFacts
  <2> QED BY <1>1, <2>1, <2>2, <2>3
<1>4. \A n \in 1 .. Len(fifo) : fifo[n] \in Int
  <2>1. \A n \in 1 .. Len(fifo) : fifo[n] \in 0 .. Size - 1
    BY <1>1, ElementOfSeq
  <2> QED BY <2>1
<1> DEFINE read == SubSeq(fifo, readPos + 1, readPos + k)
           window == [j \in 1 .. k |-> logicalPos + j - 1]
<1>5. /\ read \in Seq(Int) /\ Len(read) = k
      /\ \A j \in 1 .. k : read[j] = fifo[readPos + j]
  <2> DEFINE m == readPos + 1
             n == readPos + k
  <2>1. /\ m \in Int /\ n \in Int /\ m <= n /\ n - m + 1 = k
        /\ \A j \in 1 .. k : m + j - 1 = readPos + j
    BY <1>1, <1>3
  <2>2. \A j \in m .. n : fifo[j] \in Int
    BY <1>1, <1>3, <1>4
  <2>3. read = SubSeq(fifo, m, n)
    OBVIOUS
  <2> HIDE DEF m, n, read
  <2>4. /\ read \in Seq(Int)
        /\ Len(read) = IF m <= n THEN n - m + 1 ELSE 0
        /\ \A j \in 1 .. n - m + 1 : read[j] = fifo[m + j - 1]
    BY <2>1, <2>2, <2>3, SubSeqProperties
  <2> QED BY <2>1, <2>4
<1>6. /\ window \in Seq(Int) /\ Len(window) = k
      /\ \A j \in 1 .. k : window[j] = logicalPos + j - 1
  BY <1>1, <1>3
<1> HIDE DEF read, window
<1>7. ASSUME NEW j \in 1 .. k PROVE read[j] = window[j]
  <2>1. j \in Nat /\ readPos + j \in DOMAIN fifo
    BY <1>1, <1>3
  <2>2. fifo[readPos + j] = logicalPos - readPos + (readPos + j) - 1
    BY <1>2, <2>1
  <2> QED BY <1>1, <1>5, <1>6, <2>1, <2>2
<1>8. read = window
  BY <1>5, <1>6, <1>7, SeqEqual
<1> QED BY <1>3, <1>8 DEF read, window

(* A read returns what the window holds, a seek forwards goes over it. *)
LEMMA BytesMap ==
  ASSUME AsyncInv, [Next]_vars, ReadInternal, ReadBytes
  PROVE  [Stream!Next]_Stream!vars
<1> USE SizeFacts
<1> DEFINE k == Lesser(toRead, RingSize)
           bytes == SubSeq(fifo, readPos + 1, readPos + k)
<1>1. /\ ~abort /\ client \in {"read", "skip"} /\ k > 0
      /\ logicalPos' = logicalPos + k /\ toRead' = toRead - k /\ UNCHANGED sized
  BY TypeParts DEF ReadInternal, ReadBytes, CheckInterrupt, AsyncInv, FlagTypes
<1>2. \/ /\ client' = "idle" /\ call' = NoCall
         /\ ret' = IF client = "read" THEN Result(k, bytes) ELSE Result(logicalPos', <<>>)
         /\ client = "read" \/ toRead' = 0
      \/ client' = client /\ UNCHANGED <<call, from, ret>>
  BY <1>1 DEF ReadBytes, ReadReturns, Return, Sleep
<1>3. RingSize \in Nat /\ toRead \in Nat /\ logicalPos \in 0 .. Size
  BY TypeParts DEF AsyncInv, RingTypes, RingSize
<1>4. k \in 1 .. RingSize /\ k <= toRead
  BY <1>1, <1>3 DEF Lesser
<1>5. bytes = [j \in 1 .. k |-> logicalPos + j - 1] /\ logicalPos + k <= Size
  <2>1. Position = logicalPos
    BY <1>1 DEF Position
  <2> QED BY <1>1, <1>4, <2>1, WindowBytes
<1> HIDE DEF k, bytes
<1>6. CASE client' = client /\ UNCHANGED <<call, from, ret>>
  BY <1>1, <1>6, StreamStutters DEF StreamPos, StreamCall
<1>7. CASE client = "read" /\ client' = "idle" /\ call' = NoCall /\ ret' = Result(k, bytes)
  <2>1. logicalPos = from /\ call.op = "read" /\ toRead = call.arg
    BY <1>7 DEF AsyncInv, CallInv
  <2>2. k \in 1 .. call.arg
    BY <1>3, <1>4, <2>1
  <2>3. ReadAnswer(call.arg)
    BY <1>1, <1>5, <1>7, <2>1, <2>2 DEF ReadAnswer
  <2> QED BY <1>1, <1>7, <2>1, <2>3, StreamReturns
<1>8. CASE /\ client = "skip" /\ client' = "idle" /\ call' = NoCall
           /\ toRead' = 0 /\ ret' = Result(logicalPos', <<>>)
  <2>1. call.op = "seek" /\ logicalPos + toRead = call.arg
    BY <1>8 DEF AsyncInv, CallInv
  <2>2. logicalPos' = call.arg /\ call.arg \in 0 .. Size
    BY <1>1, <1>3, <1>4, <1>5, <1>8, <2>1
  <2>3. SeekAnswer(call.arg)
    BY <1>8, <2>2 DEF SeekAnswer
  <2> QED BY <1>1, <1>8, <2>1, <2>3, StreamReturns
<1> QED BY <1>1, <1>2, <1>6, <1>7, <1>8

(* The choice of a seek: it is done at once, or begins. *)
LEMMA ChooseSeekMaps ==
  ASSUME AsyncInv, [Next]_vars, ChooseSeek
  PROVE  [Stream!Next]_Stream!vars
<1> USE SizeFacts
<1>1. /\ client = "seek" /\ UNCHANGED sized
      /\ \/ SeekNowhere(call.arg) \/ FastForwards(call.arg)
         \/ FastBackwards(call.arg) \/ SlowSeek(call.arg)
  BY DEF ChooseSeek
<1>2. call.op = "seek" /\ logicalPos = from /\ call.arg \in Int
  BY <1>1, InCall DEF AsyncInv, CallInv
<1>3. logicalPos \in 0 .. Size
  BY TypeParts DEF AsyncInv, RingTypes
<1>4. ASSUME client' = "idle", call' = NoCall, SeekAnswer(call.arg)
      PROVE  [Stream!Next]_Stream!vars
  BY <1>1, <1>2, <1>4, StreamReturns
<1>5. ASSUME client' \in {"skip", "request"}, UNCHANGED <<call, from, ret>>
      PROVE  [Stream!Next]_Stream!vars
  BY <1>1, <1>5, StreamStutters DEF StreamPos, StreamCall
<1>6. CASE SeekNowhere(call.arg)
  BY <1>2, <1>3, <1>4, <1>6 DEF SeekNowhere, Return, SeekAnswer
<1>7. CASE FastForwards(call.arg)
  BY <1>5, <1>7 DEF FastForwards
<1>8. CASE FastBackwards(call.arg)
  <2>1. call.arg \in 0 .. Size
    BY <1>2, <1>3, <1>8 DEF FastBackwards
  <2> QED BY <1>4, <1>8, <2>1 DEF FastBackwards, Return, SeekAnswer
<1>9. CASE SlowSeek(call.arg)
  BY <1>2, <1>4, <1>5, <1>9 DEF SlowSeek, Return, SeekAnswer
<1> QED BY <1>1, <1>6, <1>7, <1>8, <1>9

(* A seek by request ends when it is completed, or is interrupted. *)
LEMMA RequestMaps ==
  ASSUME AsyncInv, [Next]_vars, RequestSeek \/ AwaitSeek
  PROVE  [Stream!Next]_Stream!vars
<1> USE SizeFacts
<1>1. client \in {"request", "seeking"} /\ UNCHANGED sized
  BY DEF RequestSeek, AwaitSeek
<1>2. call.op = "seek" /\ logicalPos = from /\ call.arg \in 0 .. Size
  BY <1>1 DEF AsyncInv, CallInv, SeekInv
<1>3. CASE CheckInterrupt(TRUE) /\ Return(EXIT, <<>>) /\ UNCHANGED logicalPos
  <2>1. StreamFailed'
    BY <1>3 DEF CheckInterrupt, StreamFailed
  <2>2. SeekAnswer(call.arg)
    BY <1>2, <1>3, <2>1 DEF Return, SeekAnswer
  <2> QED BY <1>1, <1>2, <1>3, <2>2, StreamReturns DEF Return
<1>4. CASE Sleep("seeking")
  BY <1>1, <1>4, StreamStutters DEF Sleep, StreamPos, StreamCall
<1>5. CASE client = "seeking" /\ SeekCompleted /\ UNCHANGED failures
  <2>1. /\ seekRet = call.arg \/ (seekRet = EIO /\ failures > 0)
        /\ client' = "idle" /\ call' = NoCall /\ ret' = Result(seekRet, <<>>)
        /\ logicalPos' = IF seekRet \in Errors THEN logicalPos ELSE seekRet
    BY <1>5 DEF SeekCompleted, Return, AsyncInv, SeekInv
  <2>2. call.arg \notin Errors /\ EIO \in Errors
    BY <1>2, ErrorFacts
  <2>3. failures > 0 => StreamFailed'
    BY <1>5 DEF StreamFailed
  <2>4. CASE seekRet = call.arg
    <3>1. logicalPos' = call.arg /\ ret' = Result(call.arg, <<>>)
      BY <2>1, <2>2, <2>4
    <3>2. SeekAnswer(call.arg)
      BY <1>2, <3>1 DEF SeekAnswer
    <3> QED BY <1>1, <1>2, <2>1, <3>2, StreamReturns
  <2>5. CASE seekRet = EIO /\ failures > 0
    <3>1. logicalPos' = from /\ ret' = Result(EIO, <<>>) /\ StreamFailed'
      BY <1>2, <2>1, <2>2, <2>3, <2>5
    <3>2. SeekAnswer(call.arg)
      BY <3>1 DEF SeekAnswer
    <3> QED BY <1>1, <1>2, <2>1, <3>2, StreamReturns
  <2> QED BY <2>1, <2>4, <2>5
<1> QED BY <1>3, <1>4, <1>5 DEF RequestSeek, AwaitSeek, innerVars

(* The client begins a call, or its close ends. *)
LEMMA CallsMap ==
  ASSUME AsyncInv, [Next]_vars,
         (\E c \in Stream!Calls \cup {Stream!Close} : Begin(c)) \/ Close \/ Join
  PROVE  [Stream!Next]_Stream!vars
<1>1. ASSUME NEW c \in Stream!Calls \cup {Stream!Close}, Begin(c)
      PROVE  [Stream!Next]_Stream!vars
  <2>1. client = "idle" /\ call = NoCall /\ call' = c /\ client' = c.op /\ from' = logicalPos
        /\ UNCHANGED <<sized, logicalPos, ret, failures, abort>>
    BY <1>1 DEF Begin, AsyncInv, CallInv, innerVars
  <2>2. client' \notin {"idle", "closed"}
    BY <2>1, CallShapes
  <2>3. Stream!Begin
    BY <2>1, <2>2 DEF Stream!Begin, StreamPos, StreamCall
  <2> QED BY <2>3 DEF Stream!Next
<1>2. CASE Close
  BY <1>2, StreamStutters DEF Close, StreamPos, StreamCall, callVars
<1>3. CASE Join
  <2>1. client = "joining" /\ client' = "closed" /\ UNCHANGED <<callVars, logicalPos, sized>>
    BY <1>3 DEF Join
  <2>2. call = Stream!Close /\ logicalPos = from
    BY <2>1 DEF AsyncInv, CallInv
  <2>3. StreamPos' = StreamPos /\ StreamCall = Stream!Close /\ StreamCall' = Stream!Closed
    BY <2>1, <2>2 DEF StreamPos, StreamCall, Stream!Close, Stream!Closed, callVars
  <2>4. call # NoCall /\ Stream!Close # Stream!Closed
    BY <2>1, <2>2, CallShapes DEF Stream!Closed
  <2>5. StreamFailed \in BOOLEAN /\ StreamFailed' \in BOOLEAN
    BY DEF StreamFailed
  <2>6. Stream!Fail
    BY <2>5, FailuresStay DEF Stream!Fail, StreamFailed
  <2>7. Stream!Return
    BY <2>1, <2>3, <2>6 DEF Stream!Return, StreamPos, StreamCall, callVars
  <2> QED BY <2>2, <2>3, <2>4, <2>7 DEF Stream!Next, StreamCall
<1> QED BY <1>1, <1>2, <1>3

(* Every step is one of the stream, or none. *)
LEMMA StepIsStreamStep == AsyncInv /\ [Next]_vars => [Stream!Next]_Stream!vars
<1> SUFFICES ASSUME AsyncInv, [Next]_vars PROVE [Stream!Next]_Stream!vars
  OBVIOUS
<1>1. CASE Client
  BY <1>1, InterruptMaps, BytesMap, NothingMaps, ChooseSeekMaps, RequestMaps, CallsMap
     DEF Client, ReadInternal
<1>2. CASE Background \/ SpuriousWakeup \/ UNCHANGED vars
  <2>1. UNCHANGED <<sized, client, logicalPos, callVars>>
    BY <1>2 DEF Background, Loop, ChooseWrite, Write, Written, SpuriousWakeup, vars
  <2> QED BY <2>1, StreamStutters DEF StreamPos, StreamCall, callVars
<1> QED BY <1>1, <1>2, CallsMap DEF Next

(***************************************************************************)
(* What the client sees of the ring, the thread and the requests is the    *)
(* inner resource itself: reads return its bytes in order, the end comes   *)
(* at its end, and a seek lands where it says or reports a failure.        *)
(***************************************************************************)
THEOREM AsyncIsStream == Spec => ImplementsStream
<1>1. Init => Stream!Init
  BY SizeFacts DEF Init, Stream!Init, Result, Stream!Result
<1> QED
  BY <1>1, AsyncInvariant, StepIsStreamStep, PTL DEF Spec, ImplementsStream, Stream!Spec

=============================================================================
