------------------------- MODULE InputThreadsProofs -------------------------
(***************************************************************************)
(* Proofs about InputThreads, for files and queues of any size and any     *)
(* number of loops: the order of the packets, the one user of the demuxer, *)
(* and what is left when the queue is freed.  Then about Transcoding:      *)
(* however its loop schedules outputs and inputs, each step of it is a     *)
(* step of InputThreads or none at all, so the input threads keep this.    *)
(***************************************************************************)
EXTENDS Transcoding, FiniteSetTheorems, SequenceTheorems, TLAPS

\* The theorems about the queue, for the queue of the file.
QueueProofs == INSTANCE ThreadMessageQueueProofs
  WITH Threads <- {Main, Reader}, Messages <- Packets, Errors <- {EOF, EIO}

-----------------------------------------------------------------------------
(* The inductive invariant *)

\* free_input_threads has begun.
Leaving == main \in {"drain", "join", "freed"}

\* The reader is gone and all that it sent has been taken.
Exhausted == reader = "gone" /\ fifo = <<>>

\* The reader has a packet that is not in the queue yet.
Pending == reader \in {"send", "sending"} \/ (reader = "sent" /\ ret[Reader] = EAGAIN)

FileTypes ==
  /\ nbInputFiles \in InputFiles /\ nonBlocking \in BOOLEAN
  /\ position \in 0 .. NbPackets /\ pass \in 0 .. Loops
  /\ loop \in 0 .. Loops
  /\ eofReached \in BOOLEAN /\ failed \in BOOLEAN
  /\ got \in Seq(Packets)

PlaceTypes ==
  /\ reader \in {"none", "read", "send", "sending", "sent", "close", "gone"}
  /\ flags \in BOOLEAN
  /\ held \in Packets \cup {NoMessage}
  /\ code \in {EOF, EIO, NoError}
  /\ main \in Attempts \cup {"init", "loop", "seek", "finish", "drain", "join", "freed"}

\* The calls of the queue that each thread may be in.
CallInv ==
  /\ pc[Reader] = IF reader = "sending" THEN "send" ELSE "idle"
  /\ pc[Main] \in {"idle", "recv"}
  /\ pc[Main] = "recv" => Threaded /\ main \in Attempts \cup {"drain"}
  /\ nonblock[Main] = TRUE => pc[Main] = "recv" /\ main # "drain"
  /\ reader = "sending" => arg[Reader] = held
  /\ nonblock[Reader] = TRUE => reader = "sending" /\ flags = TRUE

\* The reader holds a packet from av_read_frame until it is sent, and closes
\* the queue with the error it stops with; nobody else does, and only Main
\* closes it for the reader.
ReaderInv ==
  /\ held # NoMessage <=> reader \in {"send", "sending", "sent"}
  /\ ~Threaded \/ main = "init" => reader = "none"
  /\ reader = "none" => fifo = <<>> /\ (Threaded => main \in {"init", "freed"})
  /\ code # NoError <=> reader \in {"close", "gone"}
  /\ errRecv = IF reader = "gone" THEN code ELSE NoError
  /\ errSend # NoError => Leaving
  /\ reader = "sent" => ret[Reader] \in {NoError, EAGAIN} \/ Leaving
  /\ reader = "sent" /\ ret[Reader] = EAGAIN => flags = TRUE

\* With a thread Main gets to the end of the file, and out of the drain, when
\* there is nothing more to come.
MainInv ==
  /\ Threaded /\ (main \in {"seek", "second", "finish"} \/ pass > 0 \/ eofReached = TRUE)
       => Exhausted
  /\ main \in {"drain", "join"} => Threaded
  /\ main = "join" => Exhausted
  /\ main = "freed" => reader \in {"none", "gone"} /\ fifo = <<>>
  /\ loop = Loops - pass /\ (main = "seek" => loop > 0)

\* What was processed, what is in the queue and what the reader holds are the
\* packets that the demuxer has read.
ThreadedInv ==
  Threaded =>
    /\ \A n \in DOMAIN got : got[n] = n
    /\ ~Leaving =>
         /\ \A j \in DOMAIN fifo : fifo[j] = Len(got) + j
         /\ pass = 0 => Len(got) + Len(fifo) + (IF Pending THEN 1 ELSE 0) = position
    /\ Pending => held = position

\* Without a thread what was processed was read; a failure may cut a pass short.
DirectInv ==
  ~Threaded =>
    /\ \A m, n \in DOMAIN got : m < n => got[m] < got[n]
    /\ \A n \in DOMAIN got : got[n] <= pass * NbPackets + position
    /\ ~failed => /\ Len(got) = pass * NbPackets + position
                  /\ \A n \in DOMAIN got : got[n] = n
    /\ pass = 0 => Len(got) = position
    /\ main = "second" => position = 0
    /\ main = "seek" /\ ~failed => position = NbPackets
    /\ main = "finish" /\ ~failed => position = NbPackets /\ (loop = 0 \/ NbPackets = 0)
    /\ eofReached = TRUE => main \in {"loop", "freed"}
    /\ eofReached = TRUE /\ ~failed => Len(got) = NbPackets * (Loops + 1)

Types   == Queue!TypeOK /\ FileTypes /\ PlaceTypes
Control == CallInv /\ ReaderInv /\ MainInv

-----------------------------------------------------------------------------
(* The queue *)

(* What the theorems about the queue assume holds of the queue here. *)
LEMMA QueueIsSound == QueueProofs!QueueAssumption
<1> DEFINE T == {Main} \cup {Reader}
<1>1. IsFiniteSet(T)
  <2>1. IsFiniteSet({Main})
    BY FS_Singleton
  <2> QED BY <2>1, FS_AddElement
<1>2. QueueProofs!IsFiniteSet(T)
  BY <1>1 DEF IsFiniteSet, QueueProofs!IsFiniteSet
<1>3. T = {Main, Reader}
  OBVIOUS
<1> HIDE DEF T
<1> QED BY <1>2, <1>3, InputAssumption DEF QueueProofs!QueueAssumption

(* The steps of a call of the queue keep the types of the queue. *)
LEMMA QueueStepTypes ==
  ASSUME Queue!TypeOK, NEW t \in {Main, Reader},
         Queue!SendStep(t) \/ Queue!RecvStep(t) \/ Queue!SpuriousWakeup(t)
  PROVE  Queue!TypeOK'
<1> USE DEF QueueProofs!queueVars, QueueProofs!condVars, QueueProofs!callVars,
            Queue!queueVars, Queue!condVars, Queue!callVars
<1>1. QueueProofs!TypeOK
  BY DEF Queue!TypeOK, Queue!Codes, Queue!Fates,
         QueueProofs!TypeOK, QueueProofs!Codes, QueueProofs!Fates
<1>2. QueueProofs!TypeOK'
  <2>1. Queue!SendStep(t) => QueueProofs!SendStep(t)
    BY DEF Queue!SendStep, Queue!SendAgain, Queue!SendWait, Queue!SendError,
           Queue!SendWrite, Queue!Sending, Queue!SendBlocked, Queue!HasSpace,
           Queue!SendRefused, Queue!Return, Queue!AfterSignal,
           QueueProofs!SendStep, QueueProofs!SendAgain, QueueProofs!SendWait,
           QueueProofs!SendError, QueueProofs!SendWrite, QueueProofs!Sending,
           QueueProofs!SendBlocked, QueueProofs!HasSpace,
           QueueProofs!SendRefused, QueueProofs!Return,
           QueueProofs!AfterSignal
  <2>2. Queue!RecvStep(t) => QueueProofs!RecvStep(t)
    BY DEF Queue!RecvStep, Queue!RecvAgain, Queue!RecvWait, Queue!RecvError,
           Queue!RecvRead, Queue!Receiving, Queue!RecvBlocked, Queue!IsEmpty,
           Queue!Return, Queue!AfterSignal,
           QueueProofs!RecvStep, QueueProofs!RecvAgain, QueueProofs!RecvWait,
           QueueProofs!RecvError, QueueProofs!RecvRead,
           QueueProofs!Receiving, QueueProofs!RecvBlocked,
           QueueProofs!IsEmpty, QueueProofs!Return, QueueProofs!AfterSignal
  <2>3. Queue!SpuriousWakeup(t) => QueueProofs!SpuriousWakeup(t)
    BY DEF Queue!SpuriousWakeup, QueueProofs!SpuriousWakeup
  <2> QED BY <1>1, <2>1, <2>2, <2>3, QueueIsSound, QueueProofs!SendStepTypes,
             QueueProofs!RecvStepTypes, QueueProofs!CallTypes
<1> QED BY <1>2 DEF Queue!TypeOK, Queue!Codes, Queue!Fates,
                    QueueProofs!TypeOK, QueueProofs!Codes, QueueProofs!Fates

(* So do the calls. *)
LEMMA QueueCallTypes ==
  ASSUME Queue!TypeOK, NEW t \in {Main, Reader},
         \/ \E m \in Packets, nb \in BOOLEAN : Queue!Send(t, m, nb)
         \/ \E nb \in BOOLEAN : Queue!Recv(t, nb)
         \/ \E err \in {EOF, EIO, NoError} :
              Queue!SetErrSend(t, err) \/ Queue!SetErrRecv(t, err)
  PROVE  Queue!TypeOK'
<1> USE DEF QueueProofs!queueVars, QueueProofs!condVars, QueueProofs!callVars,
            Queue!queueVars, Queue!condVars, Queue!callVars
<1>1. QueueProofs!TypeOK
  BY DEF Queue!TypeOK, Queue!Codes, Queue!Fates,
         QueueProofs!TypeOK, QueueProofs!Codes, QueueProofs!Fates
<1>2. QueueProofs!Call(t)
  BY DEF Queue!Send, Queue!Recv, Queue!SetErrSend, Queue!SetErrRecv,
         Queue!AfterBroadcast, QueueProofs!Call,
         QueueProofs!Send, QueueProofs!Recv, QueueProofs!SetErrSend,
         QueueProofs!SetErrRecv, QueueProofs!AfterBroadcast
<1>3. QueueProofs!TypeOK'
  BY <1>1, <1>2, QueueIsSound, QueueProofs!CallTypes
<1> QED BY <1>3 DEF Queue!TypeOK, Queue!Codes, Queue!Fates,
                    QueueProofs!TypeOK, QueueProofs!Codes, QueueProofs!Fates

(* What a step of av_thread_message_queue_send does for the reader. *)
LEMMA SendEffect ==
  ASSUME Queue!TypeOK, Queue!SendStep(Reader)
  PROVE  /\ pc[Reader] = "send" /\ UNCHANGED <<errSend, errRecv>>
         /\ pc'[Main] = pc[Main] /\ nonblock'[Main] = nonblock[Main]
         /\ \/ pc'[Reader] = "send" /\ UNCHANGED <<fifo, arg, nonblock>>
            \/ /\ pc'[Reader] = "idle" /\ nonblock'[Reader] = FALSE
               /\ \/ fifo' = Append(fifo, arg[Reader]) /\ ret'[Reader] = NoError
                  \/ /\ fifo' = fifo /\ ret'[Reader] = EAGAIN
                     /\ nonblock[Reader] = TRUE
                  \/ /\ fifo' = fifo /\ ret'[Reader] = errSend
                     /\ errSend # NoError
<1> USE InputAssumption DEF Queue!TypeOK, Queue!Sending, Queue!Return,
        Queue!queueVars, Queue!condVars, Queue!callVars
<1>1. CASE Queue!SendAgain(Reader)
  BY <1>1 DEF Queue!SendAgain, Queue!SendRefused
<1>2. CASE Queue!SendWait(Reader)
  BY <1>2 DEF Queue!SendWait
<1>3. CASE Queue!SendError(Reader)
  BY <1>3 DEF Queue!SendError, Queue!SendRefused
<1>4. CASE Queue!SendWrite(Reader)
  BY <1>4 DEF Queue!SendWrite
<1> QED BY <1>1, <1>2, <1>3, <1>4 DEF Queue!SendStep

(* What a step of av_thread_message_queue_recv does for Main. *)
LEMMA RecvEffect ==
  ASSUME Queue!TypeOK, Queue!RecvStep(Main)
  PROVE  /\ pc[Main] = "recv" /\ UNCHANGED <<errSend, errRecv>>
         /\ pc'[Reader] = pc[Reader] /\ arg'[Reader] = arg[Reader]
         /\ nonblock'[Reader] = nonblock[Reader] /\ ret'[Reader] = ret[Reader]
         /\ \/ pc'[Main] = "recv" /\ nonblock' = nonblock /\ fifo' = fifo
            \/ /\ pc'[Main] = "idle" /\ nonblock'[Main] = FALSE
               /\ \/ ret'[Main] = NoError /\ fifo # <<>> /\ fifo' = Tail(fifo)
                  \/ /\ ret'[Main] = errRecv /\ errRecv # NoError
                     /\ fifo = <<>> /\ fifo' = fifo
                  \/ /\ ret'[Main] = EAGAIN /\ nonblock[Main] = TRUE
                     /\ fifo' = fifo
<1> USE InputAssumption DEF Queue!TypeOK, Queue!Receiving, Queue!Return,
        Queue!queueVars, Queue!condVars, Queue!callVars
<1>1. CASE Queue!RecvAgain(Main)
  BY <1>1 DEF Queue!RecvAgain
<1>2. CASE Queue!RecvWait(Main)
  BY <1>2 DEF Queue!RecvWait
<1>3. CASE Queue!RecvError(Main)
  <2>1. fifo = <<>>
    BY <1>3, EmptySeq DEF Queue!RecvError, Queue!IsEmpty
  <2> QED BY <1>3, <2>1 DEF Queue!RecvError
<1>4. CASE Queue!RecvRead(Main)
  <2>1. fifo # <<>>
    BY <1>4 DEF Queue!RecvRead, Queue!IsEmpty
  <2> QED BY <1>4, <2>1 DEF Queue!RecvRead
<1> QED BY <1>1, <1>2, <1>3, <1>4 DEF Queue!RecvStep

-----------------------------------------------------------------------------
(* Numbers *)

(* The bounds are numbers. *)
LEMMA Bounds ==
  /\ NbPackets \in Nat /\ Loops \in Nat /\ 0 \in 0 .. NbPackets /\ 0 \in 0 .. Loops
  /\ Loops \in 0 .. Loops /\ Packets \subseteq Nat /\ NoMessage \notin Packets
BY InputAssumption DEF Packets

(* The packets of all passes have different numbers, and none has a greater  *)
(* one than the last packet of the last pass.                                *)
LEMMA NextInRange ==
  ASSUME pass \in 0 .. Loops, position \in 0 .. NbPackets
  PROVE  /\ pass * NbPackets \in Nat /\ (pass + 1) * NbPackets = pass * NbPackets + NbPackets
         /\ position < NbPackets => NextPacket \in Packets
         /\ pass = 0 => pass * NbPackets = 0
         /\ pass = Loops => pass * NbPackets + NbPackets = NbPackets * (Loops + 1)
         /\ NbPackets = 0 => pass * NbPackets = 0 /\ NbPackets * (Loops + 1) = 0
<1>1. pass \in Nat /\ pass <= Loops /\ NbPackets \in Nat /\ Loops \in Nat /\ position \in Nat
  BY Bounds
<1>2. pass * NbPackets \in Nat
  BY <1>1
<1>3. (pass + 1) * NbPackets = pass * NbPackets + NbPackets
  BY <1>1
<1>4. NbPackets * (Loops + 1) = Loops * NbPackets + NbPackets
  BY <1>1
<1>5. pass * NbPackets <= Loops * NbPackets
  <2>1. \A a, b, c \in Nat : a <= b => a * c <= b * c
    <3> SUFFICES ASSUME NEW a \in Nat, NEW b \in Nat, NEW c \in Nat, a <= b
                 PROVE  a * c <= b * c
      OBVIOUS
    <3>1. b - a \in Nat
      OBVIOUS
    <3>2. (b - a) * c \in Nat
      BY <3>1
    <3>3. (b - a) * c = b * c - a * c
      OBVIOUS
    <3> QED BY <3>2, <3>3
  <2> QED BY <1>1, <2>1
<1>6. position < NbPackets => NextPacket \in Packets
  <2> DEFINE a == pass * NbPackets
             b == Loops * NbPackets
  <2>1. a \in Nat /\ b \in Nat /\ a <= b
    BY <1>1, <1>2, <1>5
  <2>2. NextPacket = a + position + 1 /\ Packets = 1 .. b + NbPackets
    BY <1>4 DEF NextPacket, Packets
  <2> HIDE DEF a, b
  <2> QED BY <1>1, <2>1, <2>2
<1>7. pass = Loops => pass * NbPackets + NbPackets = NbPackets * (Loops + 1)
  BY <1>4
<1>8. NbPackets = 0 => pass * NbPackets = 0 /\ NbPackets * (Loops + 1) = 0
  BY <1>1
<1>9. pass = 0 => pass * NbPackets = 0
  BY <1>1
<1> QED BY <1>2, <1>3, <1>6, <1>7, <1>8, <1>9

-----------------------------------------------------------------------------
(* Types *)

(* Steps without the queue keep its types. *)
LEMMA QueueKept ==
  ASSUME Queue!TypeOK, UNCHANGED queueVars
  PROVE  Queue!TypeOK'
BY DEF queueVars, Queue!TypeOK, Queue!Codes, Queue!Fates

(* The steps of the reader keep the types. *)
LEMMA ReaderTypes ==
  ASSUME Types, CallInv, ReaderInv, ReadStep
  PROVE  Types'
<1> USE DEF Types, FileTypes, PlaceTypes, demuxVars, fileVars
<1>1. CASE ReaderReads
  <2>1. NextPacket \in Packets /\ position' \in 0 .. NbPackets
    BY <1>1, NextInRange, Bounds DEF ReaderReads, ReadPacket
  <2> QED BY <1>1, <2>1, QueueKept DEF ReaderReads, ReadPacket
<1>2. CASE ReaderEnds
  BY <1>2, QueueKept DEF ReaderEnds, ReadFails
<1>3. CASE ReaderSends
  <2>1. held \in Packets
    BY <1>3 DEF ReaderSends, ReaderInv
  <2>2. Queue!TypeOK'
    BY <1>3, <2>1, QueueCallTypes DEF ReaderSends
  <2> QED BY <1>3, <2>2 DEF ReaderSends
<1>4. CASE ReaderInSend
  <2>1. Queue!TypeOK'
    BY <1>4, QueueStepTypes DEF ReaderInSend
  <2> QED BY <1>4, <2>1 DEF ReaderInSend
<1>5. CASE ReaderSent
  <2>1. ret[Reader] \in {EOF, EIO, NoError, EAGAIN}
    BY DEF Queue!TypeOK, Queue!Codes
  <2>2. ret[Reader] = EAGAIN => flags
    BY <1>5 DEF ReaderSent, ReaderInv
  <2> QED BY <1>5, <2>1, <2>2, QueueKept DEF ReaderSent
<1>6. CASE ReaderCloses
  <2>1. Queue!TypeOK'
    BY <1>6, QueueCallTypes DEF ReaderCloses
  <2> QED BY <1>6, <2>1 DEF ReaderCloses
<1> QED BY <1>1, <1>2, <1>3, <1>4, <1>5, <1>6 DEF ReadStep

(* So do those of Main. *)
LEMMA MainTypes ==
  ASSUME Types, CallInv, ReaderInv, MainInv, MainStep \/ Stop
  PROVE  Types'
<1> USE DEF Types, FileTypes, PlaceTypes, demuxVars, fileVars, readerVars, Attempts
<1>1. CASE InitInput \/ ProcessInput \/ Join
  BY <1>1, QueueKept DEF InitInput, ProcessInput, Join
<1>2. CASE Receive \/ Drain
  <2>1. Queue!TypeOK'
    BY <1>2, QueueCallTypes DEF Receive, Drain
  <2>2. UNCHANGED <<readerVars, main, demuxVars, fileVars>>
    BY <1>2 DEF Receive, Drain
  <2> QED BY <2>1, <2>2
<1>3. CASE InReceive
  <2>1. Queue!TypeOK'
    BY <1>3, QueueStepTypes DEF InReceive
  <2>2. got' \in Seq(Packets)
    <3>1. fifo' # fifo => fifo # <<>>
      BY <1>3, RecvEffect DEF InReceive
    <3>2. fifo # <<>> => Head(fifo) \in Packets
      BY HeadTailProperties DEF Queue!TypeOK
    <3> QED BY <1>3, <3>1, <3>2 DEF InReceive
  <2>3. main' \in Attempts \cup {"loop", "seek", "finish"}
    BY <1>3 DEF InReceive, AfterInput
  <2> QED BY <1>3, <2>1, <2>2, <2>3 DEF InReceive
<1>4. CASE ReadDirectly
  <2>1. main' \in {"loop", "seek", "finish"}
    BY <1>4 DEF ReadDirectly, AfterInput
  <2>2. position' \in 0 .. NbPackets /\ pass' = pass /\ failed' \in BOOLEAN
    <3>1. CASE ReadPacket
      BY <3>1, Bounds DEF ReadPacket
    <3>2. CASE \E err \in {EOF, EIO} : ReadFails(err)
      BY <3>2 DEF ReadFails
    <3> QED BY <1>4, <3>1, <3>2 DEF ReadDirectly
  <2>3. got' \in Seq(Packets)
    BY <1>4, NextInRange DEF ReadDirectly, ReadPacket
  <2> QED BY <1>4, <2>1, <2>2, <2>3, QueueKept DEF ReadDirectly
<1>5. CASE Seek
  <2>1. pass' \in 0 .. Loops /\ loop' \in 0 .. Loops /\ position' \in 0 .. NbPackets
    BY <1>5, Bounds DEF Seek, MainInv
  <2> QED BY <1>5, <2>1, QueueKept DEF Seek
<1>6. CASE Finish
  BY <1>6, QueueKept DEF Finish
<1>7. CASE InDrain
  <2>1. Queue!TypeOK'
    BY <1>7, QueueStepTypes DEF InDrain
  <2> QED BY <1>7, <2>1 DEF InDrain
<1>8. CASE Stop
  <2>1. Queue!TypeOK'
    BY <1>8, QueueCallTypes, QueueKept DEF Stop
  <2> QED BY <1>8, <2>1 DEF Stop
<1> QED BY <1>1, <1>2, <1>3, <1>4, <1>5, <1>6, <1>7, <1>8 DEF MainStep

(* Every step keeps the types. *)
LEMMA StepTypes ==
  ASSUME Types, Control, [Next]_vars
  PROVE  Types'
<1>1. CASE UNCHANGED vars
  BY <1>1, QueueKept DEF vars, Types, FileTypes, PlaceTypes, demuxVars, fileVars, readerVars
<1>2. CASE SpuriousWakeup
  <2>1. Queue!TypeOK'
    BY <1>2, QueueStepTypes DEF SpuriousWakeup, Types
  <2> QED BY <1>2, <2>1
          DEF SpuriousWakeup, Types, FileTypes, PlaceTypes, demuxVars, fileVars, readerVars
<1> QED BY <1>1, <1>2, ReaderTypes, MainTypes DEF Next, Over, Control

-----------------------------------------------------------------------------
(* Who is where *)

(* The queue is unchanged but for those who sleep. *)
LEMMA SpuriousEffect ==
  ASSUME SpuriousWakeup \/ UNCHANGED vars
  PROVE  /\ UNCHANGED <<fifo, errSend, errRecv, pc, arg, nonblock, ret>>
         /\ UNCHANGED <<readerVars, main, demuxVars, fileVars>>
BY DEF SpuriousWakeup, Queue!SpuriousWakeup, Queue!queueVars, Queue!callVars, vars, queueVars

(* The steps of the reader. *)
LEMMA ReaderControl ==
  ASSUME Types, Control, ReadStep
  PROVE  Control'
<1> USE InputAssumption, Bounds
    DEF Control, CallInv, ReaderInv, MainInv, Leaving, Exhausted, Threaded, demuxVars, fileVars
<1>1. reader # "gone" /\ reader # "none" /\ Threaded /\ main # "init"
  BY DEF ReadStep, ReaderReads, ReaderEnds, ReaderSends, ReaderInSend, ReaderSent,
     ReaderCloses
<1>2. CASE ReaderReads
  <2>1. held' # NoMessage
    BY <1>2, NextInRange DEF ReaderReads, ReadPacket, Types, FileTypes
  <2> QED BY <1>1, <1>2, <2>1 DEF ReaderReads, ReadPacket, queueVars
<1>3. CASE ReaderEnds
  BY <1>1, <1>3 DEF ReaderEnds, ReadFails, queueVars
<1>4. CASE ReaderSends
  <2>1. /\ pc' = [pc EXCEPT ![Reader] = "send"] /\ arg' = [arg EXCEPT ![Reader] = held]
        /\ nonblock' = [nonblock EXCEPT ![Reader] = flags]
        /\ UNCHANGED <<fifo, errSend, errRecv, ret>>
    BY <1>4 DEF ReaderSends, Queue!Send, Queue!queueVars
  <2> QED BY <1>1, <1>4, <2>1 DEF ReaderSends, Types, Queue!TypeOK
<1>5. CASE ReaderInSend
  <2>1. /\ UNCHANGED <<errSend, errRecv>>
        /\ pc'[Main] = pc[Main] /\ nonblock'[Main] = nonblock[Main]
        /\ \/ pc'[Reader] = "send" /\ UNCHANGED <<fifo, arg, nonblock>>
           \/ /\ pc'[Reader] = "idle" /\ nonblock'[Reader] = FALSE
              /\ \/ ret'[Reader] = NoError
                 \/ ret'[Reader] = EAGAIN /\ nonblock[Reader] = TRUE
                 \/ ret'[Reader] = errSend /\ errSend # NoError
    BY <1>5, SendEffect DEF ReaderInSend, Types
  <2>2. /\ UNCHANGED <<flags, held, code, main, position, pass, failed, nbInputFiles,
                       nonBlocking, loop, eofReached, got>>
        /\ reader = "sending"
        /\ reader' = IF pc'[Reader] = "idle" THEN "sent" ELSE "sending"
    BY <1>5 DEF ReaderInSend
  <2>3. /\ main \notin {"init", "freed"} \/ Leaving
        /\ reader' \in {"sending", "sent"} /\ main # "join" /\ main # "freed"
        /\ ~(main \in {"seek", "second", "finish"} \/ pass > 0 \/ eofReached = TRUE)
        /\ errSend # EAGAIN
    BY <1>1, <2>2 DEF Types, Queue!TypeOK
  <2>4. CallInv'
    BY <1>1, <2>1, <2>2, <2>3
  <2>5. ReaderInv'
    BY <1>1, <2>1, <2>2, <2>3
  <2>6. MainInv'
    BY <1>1, <2>2, <2>3
  <2> QED BY <2>4, <2>5, <2>6
<1>6. CASE ReaderSent
  BY <1>1, <1>6 DEF ReaderSent, queueVars
<1>7. CASE ReaderCloses
  <2>1. errRecv' = code /\ UNCHANGED <<fifo, errSend, pc, arg, nonblock, ret>>
    BY <1>7 DEF ReaderCloses, Queue!SetErrRecv, Queue!callVars
  <2> QED BY <1>1, <1>7, <2>1 DEF ReaderCloses
<1> QED BY <1>2, <1>3, <1>4, <1>5, <1>6, <1>7 DEF ReadStep

(* The steps of Main. *)
LEMMA MainControl ==
  ASSUME Types, Control, MainStep \/ Stop
  PROVE  Control'
<1> USE InputAssumption, Bounds
    DEF Control, CallInv, ReaderInv, MainInv, Leaving, Exhausted, Threaded, demuxVars,
        fileVars, readerVars, Attempts
<1>1. CASE InitInput \/ ProcessInput \/ Join
  BY <1>1 DEF InitInput, ProcessInput, Join, queueVars
<1>2. CASE Receive \/ Drain
  <2>1. \E nb \in BOOLEAN :
          /\ pc' = [pc EXCEPT ![Main] = "recv"]
          /\ nonblock' = [nonblock EXCEPT ![Main] = nb]
          /\ UNCHANGED <<fifo, errSend, errRecv, arg, ret>>
          /\ main = "drain" => nb = FALSE
          /\ main = "drain" \/ (main \in Attempts /\ Threaded)
    BY <1>2 DEF Receive, Drain, Queue!Recv, Queue!queueVars, Types, FileTypes
  <2> QED BY <1>2, <2>1 DEF Receive, Drain, Types, Queue!TypeOK
<1>3. CASE InReceive
  <2>1. /\ UNCHANGED <<errSend, errRecv>>
        /\ pc'[Reader] = pc[Reader] /\ arg'[Reader] = arg[Reader]
        /\ nonblock'[Reader] = nonblock[Reader] /\ ret'[Reader] = ret[Reader]
        /\ \/ pc'[Main] = "recv" /\ nonblock' = nonblock /\ fifo' = fifo
           \/ /\ pc'[Main] = "idle" /\ nonblock'[Main] = FALSE
              /\ \/ ret'[Main] = NoError /\ fifo # <<>>
                 \/ /\ ret'[Main] = errRecv /\ errRecv # NoError
                    /\ fifo = <<>> /\ fifo' = fifo
                 \/ ret'[Main] = EAGAIN /\ fifo' = fifo
        /\ Threaded
    BY <1>3, RecvEffect DEF InReceive, Types
  <2>2. main' = IF pc'[Main] = "idle"
                THEN IF ret'[Main] \in {NoError, EAGAIN} THEN "loop"
                     ELSE IF main = "first" /\ loop > 0 THEN "seek" ELSE "finish"
                ELSE main
    BY <1>3 DEF InReceive, AfterInput
  <2>3. errRecv # EAGAIN
    BY DEF Types, Queue!TypeOK
  <2> QED BY <1>3, <2>1, <2>2, <2>3 DEF InReceive
<1>4. CASE ReadDirectly
  BY <1>4 DEF ReadDirectly, ReadPacket, ReadFails, AfterInput, queueVars
<1>5. CASE Seek \/ Finish
  <2>1. CASE Seek
    BY <1>5, <2>1 DEF Seek, queueVars, Types, FileTypes
  <2>2. CASE Finish
    BY <1>5, <2>2 DEF Finish, queueVars, Types, FileTypes
  <2> QED BY <1>5, <2>1, <2>2
<1>6. CASE InDrain
  <2>1. /\ UNCHANGED <<errSend, errRecv>>
        /\ pc'[Reader] = pc[Reader] /\ arg'[Reader] = arg[Reader]
        /\ nonblock'[Reader] = nonblock[Reader] /\ ret'[Reader] = ret[Reader]
        /\ \/ pc'[Main] = "recv" /\ nonblock' = nonblock /\ fifo' = fifo
           \/ /\ pc'[Main] = "idle" /\ nonblock'[Main] = FALSE
              /\ \/ ret'[Main] = NoError /\ fifo # <<>>
                 \/ /\ ret'[Main] = errRecv /\ errRecv # NoError
                    /\ fifo = <<>> /\ fifo' = fifo
    BY <1>6, RecvEffect DEF InDrain, Types
  <2>2. main = "drain"
        /\ main' = IF pc'[Main] = "idle" /\ ret'[Main] # NoError THEN "join" ELSE "drain"
    BY <1>6 DEF InDrain
  <2> QED BY <1>6, <2>1, <2>2 DEF InDrain
<1>7. CASE Stop
  <2>1. UNCHANGED <<fifo, errRecv, pc, arg, nonblock, ret>>
    BY <1>7 DEF Stop, Queue!SetErrSend, Queue!callVars, queueVars
  <2> QED BY <1>7, <2>1 DEF Stop, queueVars
<1> QED BY <1>1, <1>2, <1>3, <1>4, <1>5, <1>6, <1>7 DEF MainStep

-----------------------------------------------------------------------------
(* What is processed *)

(* What is appended to a sequence of packets. *)
LEMMA Appended ==
  ASSUME NEW s \in Seq(Packets), NEW x \in Packets
  PROVE  /\ Len(s) \in Nat /\ DOMAIN s = 1 .. Len(s)
         /\ Len(Append(s, x)) = Len(s) + 1 /\ DOMAIN Append(s, x) = 1 .. Len(s) + 1
         /\ Append(s, x)[Len(s) + 1] = x
         /\ \A i \in 1 .. Len(s) : Append(s, x)[i] = s[i]
BY AppendProperties, LenProperties

(* The first and the others of a sequence of packets. *)
LEMMA Taken ==
  ASSUME NEW s \in Seq(Packets), s # <<>>
  PROVE  /\ Len(s) \in Nat \ {0} /\ DOMAIN s = 1 .. Len(s) /\ 1 \in DOMAIN s
         /\ Len(Tail(s)) = Len(s) - 1 /\ DOMAIN Tail(s) = 1 .. Len(s) - 1
         /\ \A i \in 1 .. Len(s) - 1 : Tail(s)[i] = s[i + 1]
         /\ Head(s) = s[1] /\ Head(s) \in Packets /\ Tail(s) # s
BY HeadTailProperties, LenProperties, EmptySeq

(* The types that the counting needs. *)
LEMMA Counts ==
  ASSUME Types
  PROVE  /\ got \in Seq(Packets) /\ Len(got) \in Nat /\ DOMAIN got = 1 .. Len(got)
         /\ fifo \in Seq(Packets) /\ Len(fifo) \in Nat /\ DOMAIN fifo = 1 .. Len(fifo)
         /\ position \in Nat /\ pass \in Nat
         /\ \A n \in DOMAIN got : got[n] \in Nat
<1>1. got \in Seq(Packets) /\ fifo \in Seq(Packets) /\ position \in Nat /\ pass \in Nat
  BY DEF Types, FileTypes, Queue!TypeOK
<1>2. /\ Len(got) \in Nat /\ DOMAIN got = 1 .. Len(got)
      /\ Len(fifo) \in Nat /\ DOMAIN fifo = 1 .. Len(fifo)
  BY <1>1, LenProperties
<1>3. \A n \in DOMAIN got : got[n] \in Packets
  BY <1>1, <1>2, ElementOfSeq
<1> QED BY <1>1, <1>2, <1>3, Bounds

(* The reader alone: what it reads is numbered on, and sent in that order. *)
LEMMA ReaderStream ==
  ASSUME Types, Control, ThreadedInv, Threaded, ReadStep
  PROVE  ThreadedInv'
<1>1. /\ reader # "gone" /\ pass = 0 /\ errSend # EAGAIN
      /\ UNCHANGED <<pass, got, main, nbInputFiles>>
  BY InputAssumption, Counts DEF ReadStep, ReaderReads, ReaderEnds, ReaderSends,
     ReaderInSend, ReaderSent, ReaderCloses, ReadPacket, ReadFails, demuxVars, fileVars,
     Control, MainInv, Exhausted, Types, Queue!TypeOK
<1>2. /\ \A n \in DOMAIN got : got[n] = n
      /\ ~Leaving =>
           /\ \A j \in DOMAIN fifo : fifo[j] = Len(got) + j
           /\ Len(got) + Len(fifo) + (IF Pending THEN 1 ELSE 0) = position
      /\ Pending => held = position
  BY <1>1 DEF ThreadedInv
<1>3. ASSUME ~Leaving => /\ \A j \in DOMAIN fifo' : fifo'[j] = Len(got) + j
                         /\ Len(got) + Len(fifo') + (IF Pending' THEN 1 ELSE 0) = position',
             Pending' => held' = position'
      PROVE  ThreadedInv'
  BY <1>1, <1>2, <1>3 DEF ThreadedInv, Leaving
<1>4. CASE ReaderReads
  <2>1. ~Pending /\ Pending' /\ fifo' = fifo /\ position' = position + 1
        /\ held' = NextPacket
    BY <1>4 DEF ReaderReads, ReadPacket, Pending, queueVars
  <2>2. NextPacket = position + 1
    BY <1>1, NextInRange DEF NextPacket, Types, FileTypes
  <2> QED BY <1>2, <1>3, <2>1, <2>2, Counts
<1>5. CASE ReaderEnds \/ ReaderCloses
  <2>1. ~Pending /\ ~Pending' /\ fifo' = fifo /\ position' = position
    BY <1>5 DEF ReaderEnds, ReadFails, ReaderCloses, Pending, queueVars, demuxVars,
       Queue!SetErrRecv
  <2> QED BY <1>2, <1>3, <2>1
<1>6. CASE ReaderSends
  <2>1. Pending /\ Pending' /\ fifo' = fifo /\ position' = position /\ held' = held
    BY <1>6 DEF ReaderSends, Queue!Send, Queue!queueVars, Pending, demuxVars
  <2> QED BY <1>2, <1>3, <2>1
<1>7. CASE ReaderInSend
  <2>1. Pending /\ position' = position /\ held' = held
    BY <1>7 DEF ReaderInSend, Pending, demuxVars
  <2>2. held \in Packets /\ arg[Reader] = held
    BY <1>7 DEF ReaderInSend, Control, CallInv, ReaderInv, Types, PlaceTypes
  <2>3. CASE Pending' /\ fifo' = fifo
    BY <1>2, <1>3, <2>1, <2>3
  <2>4. CASE ~Pending' /\ Leaving
    BY <1>3, <2>4
  <2>5. CASE ~Pending' /\ fifo' = Append(fifo, held)
    <3>1. /\ Len(fifo') = Len(fifo) + 1 /\ DOMAIN fifo' = 1 .. Len(fifo) + 1
          /\ fifo'[Len(fifo) + 1] = held
          /\ \A i \in 1 .. Len(fifo) : fifo'[i] = fifo[i]
      BY <2>2, <2>5, Appended, Counts
    <3>2. \A j \in DOMAIN fifo' : j \in DOMAIN fifo \/ j = Len(fifo) + 1
      BY <3>1, Counts
    <3>3. ASSUME ~Leaving
          PROVE  /\ held = Len(got) + (Len(fifo) + 1)
                 /\ Len(got) + Len(fifo') = position'
      BY <1>2, <2>1, <3>1, <3>3, Counts
    <3>4. ASSUME ~Leaving, NEW j \in DOMAIN fifo' PROVE fifo'[j] = Len(got) + j
      <4>1. CASE j \in DOMAIN fifo
        BY <1>2, <3>1, <3>4, <4>1, Counts
      <4>2. CASE j = Len(fifo) + 1
        BY <3>1, <3>3, <3>4, <4>2
      <4> QED BY <3>2, <4>1, <4>2
    <3>5. ASSUME ~Leaving
          PROVE  Len(got) + Len(fifo') + (IF Pending' THEN 1 ELSE 0) = position'
      BY <2>5, <3>1, <3>3, <3>5, Counts
    <3> QED BY <1>3, <2>5, <3>4, <3>5
  <2>6. \/ reader' = "sending" /\ fifo' = fifo
        \/ reader' = "sent" /\ ret'[Reader] = NoError /\ fifo' = Append(fifo, held)
        \/ reader' = "sent" /\ ret'[Reader] = EAGAIN /\ fifo' = fifo
        \/ reader' = "sent" /\ ret'[Reader] = errSend /\ errSend # NoError
    BY <1>7, <2>2, SendEffect DEF ReaderInSend, Types
  <2>7. errSend # NoError => Leaving
    BY DEF Control, ReaderInv
  <2> QED BY <1>1, <2>3, <2>4, <2>5, <2>6, <2>7, InputAssumption DEF Pending
<1>8. CASE ReaderSent
  <2>1. fifo' = fifo /\ position' = position
    BY <1>8 DEF ReaderSent, queueVars, demuxVars
  <2>2. CASE ret[Reader] = EAGAIN
    <3>1. flags = TRUE
      BY <1>8, <2>2 DEF ReaderSent, Control, ReaderInv
    <3>2. Pending /\ Pending' /\ held' = held
      BY <1>8, <2>2, <3>1, InputAssumption DEF ReaderSent, Pending
    <3> QED BY <1>2, <1>3, <2>1, <3>2
  <2>3. CASE ret[Reader] # EAGAIN
    <3>1. ~Pending /\ ~Pending'
      BY <1>8, <2>3 DEF ReaderSent, Pending
    <3> QED BY <1>2, <1>3, <2>1, <3>1
  <2> QED BY <2>2, <2>3
<1> QED BY <1>4, <1>5, <1>6, <1>7, <1>8 DEF ReadStep

(* Main takes from the queue what comes next. *)
LEMMA MainStream ==
  ASSUME Types, Control, ThreadedInv, Threaded, MainStep \/ Stop
  PROVE  ThreadedInv'
<1>1. CASE Stop \/ Drain \/ InDrain \/ Join
  <2>1. UNCHANGED <<got, held, position>> /\ Leaving'
    BY <1>1 DEF Stop, Drain, InDrain, Join, demuxVars, fileVars, readerVars, Leaving
  <2>2. Pending' => Pending
    BY <1>1, RecvEffect DEF Stop, Drain, InDrain, Join, readerVars, Pending, queueVars,
       Queue!SetErrSend, Queue!callVars, Queue!Recv, Types
  <2> QED BY <2>1, <2>2 DEF ThreadedInv
<1>2. CASE InitInput \/ ProcessInput \/ Receive \/ Finish
  <2>1. /\ UNCHANGED <<got, held, position, pass, fifo, ret>>
        /\ Leaving => Leaving'
    BY <1>2 DEF InitInput, ProcessInput, Receive, Finish, demuxVars, fileVars, readerVars,
       queueVars, Queue!Recv, Queue!queueVars, Leaving, Attempts
  <2>2. Pending' <=> Pending
    <3>1. reader' = reader \/ (reader = "none" /\ reader' = "read")
      BY <1>2 DEF InitInput, ProcessInput, Receive, Finish, readerVars, Control, ReaderInv
    <3> QED BY <2>1, <3>1 DEF Pending
  <2> QED BY <2>1, <2>2 DEF ThreadedInv
<1>3. CASE Seek
  <2>1. /\ UNCHANGED <<got, fifo, reader, ret, held>> /\ ~Leaving
        /\ \/ pass' = pass + 1
           \/ UNCHANGED <<pass, position>>
    BY <1>3 DEF Seek, readerVars, queueVars, Leaving
  <2>2. ~Pending /\ ~Pending'
    BY <1>3, <2>1 DEF Seek, Control, MainInv, Exhausted, Pending
  <2>3. pass' = pass + 1 => pass' # 0
    BY Counts
  <2> QED BY <2>1, <2>2, <2>3 DEF ThreadedInv
<1>4. CASE InReceive
  <2>1. /\ UNCHANGED <<reader, held, position, pass>> /\ ret'[Reader] = ret[Reader]
        /\ ~Leaving
    BY <1>4, RecvEffect DEF InReceive, readerVars, demuxVars, Types, Leaving, Attempts
  <2>2. Pending' <=> Pending
    BY <2>1 DEF Pending
  <2>3. CASE fifo' = fifo
    <3>1. got' = got
      BY <1>4, <2>3 DEF InReceive
    <3> QED BY <2>1, <2>2, <2>3, <3>1 DEF ThreadedInv
  <2>4. CASE fifo # <<>> /\ fifo' = Tail(fifo)
    <3>1. /\ Len(fifo') = Len(fifo) - 1 /\ DOMAIN fifo' = 1 .. Len(fifo) - 1
          /\ \A i \in 1 .. Len(fifo) - 1 : fifo'[i] = fifo[i + 1]
          /\ 1 \in DOMAIN fifo /\ Head(fifo) = fifo[1] /\ Head(fifo) \in Packets
          /\ fifo' # fifo
      BY <2>4, Taken, Counts
    <3>2. /\ Len(got') = Len(got) + 1 /\ DOMAIN got' = 1 .. Len(got) + 1
          /\ got'[Len(got) + 1] = fifo[1]
          /\ \A i \in 1 .. Len(got) : got'[i] = got[i]
      BY <1>4, <3>1, Appended, Counts DEF InReceive
    <3>3. /\ \A n \in DOMAIN got : got[n] = n
          /\ \A j \in DOMAIN fifo : fifo[j] = Len(got) + j
      BY <2>1 DEF ThreadedInv
    <3>4. \A n \in DOMAIN got' : got'[n] = n
      <4>1. \A n \in DOMAIN got' : n \in DOMAIN got \/ n = Len(got) + 1
        BY <3>2, Counts
      <4> QED BY <3>1, <3>2, <3>3, <4>1, Counts
    <3>5. \A j \in DOMAIN fifo' : fifo'[j] = Len(got') + j
      <4>1. \A j \in DOMAIN fifo' : j + 1 \in DOMAIN fifo /\ fifo'[j] = fifo[j + 1]
        BY <3>1, Counts
      <4> QED BY <3>1, <3>2, <3>3, <4>1, Counts
    <3>6. pass = 0 => Len(got') + Len(fifo') + (IF Pending' THEN 1 ELSE 0) = position
      <4>1. pass = 0 => Len(got) + Len(fifo) + (IF Pending THEN 1 ELSE 0) = position
        BY <2>1 DEF ThreadedInv
      <4> QED BY <2>2, <3>1, <3>2, <4>1, Counts
    <3> QED BY <2>1, <2>2, <3>4, <3>5, <3>6 DEF ThreadedInv
  <2> QED BY <1>4, <2>3, <2>4, RecvEffect DEF InReceive, Types
<1>5. ~ReadDirectly
  BY DEF ReadDirectly
<1> QED BY <1>1, <1>2, <1>3, <1>4, <1>5 DEF MainStep

(* Main alone: a packet is processed as soon as it is read. *)
LEMMA DirectStream ==
  ASSUME Types, Control, DirectInv, ~Threaded, MainStep \/ Stop
  PROVE  DirectInv'
<1>1. /\ reader = "none" /\ Threaded' = Threaded /\ main \notin {"drain", "join"}
  BY DEF Control, ReaderInv, MainInv, MainStep, InitInput, ProcessInput, Receive,
     InReceive, ReadDirectly, Seek, Finish, Drain, InDrain, Join, Stop, Threaded, fileVars
<1>2. /\ loop = Loops - pass /\ (main = "seek" => loop > 0)
      /\ pass * NbPackets \in Nat /\ (pass + 1) * NbPackets = pass * NbPackets + NbPackets
      /\ NbPackets \in Nat /\ Loops \in Nat /\ position <= NbPackets
  BY NextInRange, Bounds DEF Control, MainInv, Types, FileTypes
<1>3. CASE InitInput \/ ProcessInput \/ Stop
  <2>1. /\ UNCHANGED <<got, position, pass, loop, failed, eofReached>>
        /\ main' \in {"loop", "first", "freed"}
        /\ main' = "first" => eofReached = FALSE
        /\ main = "init" \/ main = "loop"
    BY <1>1, <1>3 DEF InitInput, ProcessInput, Stop, demuxVars, fileVars, Types, FileTypes
  <2>2. main = "init" /\ eofReached = TRUE => main' = "freed" \/ main' = "loop"
    BY <1>1, <1>3 DEF InitInput, ProcessInput, Stop
  <2> QED BY <1>1, <2>1, <2>2 DEF DirectInv
<1>4. CASE ReadDirectly
  <2>1. eofReached' = eofReached /\ loop' = loop /\ main \in Attempts
    BY <1>4 DEF ReadDirectly
  <2>2. eofReached # TRUE
    BY <1>1, <2>1 DEF DirectInv, Attempts
  <2>3. CASE ReadPacket /\ got' = Append(got, NextPacket) /\ AfterInput(NoError)
    <3>1. position < NbPackets /\ position' = position + 1 /\ UNCHANGED <<pass, failed>>
          /\ main' = "loop" /\ NextPacket \in Packets
          /\ NextPacket = pass * NbPackets + position + 1
      BY <2>3, NextInRange DEF ReadPacket, AfterInput, NextPacket, Types, FileTypes
    <3>2. /\ Len(got') = Len(got) + 1 /\ DOMAIN got' = 1 .. Len(got) + 1
          /\ got'[Len(got) + 1] = NextPacket
          /\ \A i \in 1 .. Len(got) : got'[i] = got[i]
      BY <2>3, <3>1, Appended, Counts
    <3> DEFINE base == pass * NbPackets
    <3>3. /\ \A m, n \in DOMAIN got : m < n => got[m] < got[n]
          /\ \A n \in DOMAIN got : got[n] <= base + position
          /\ ~failed => Len(got) = base + position /\ \A n \in DOMAIN got : got[n] = n
          /\ pass = 0 => Len(got) = position
          /\ base \in Nat /\ NextPacket = base + position + 1
      BY <1>1, <1>2, <3>1 DEF DirectInv
    <3>4. pass' * NbPackets = base
      BY <3>1
    <3> HIDE DEF base
    <3>5. \A n \in DOMAIN got' : \/ n \in DOMAIN got /\ got'[n] = got[n]
                                 \/ n = Len(got) + 1 /\ got'[n] = base + position + 1
      BY <3>2, <3>3, Counts
    <3>6. \A m, n \in DOMAIN got' : m < n => got'[m] < got'[n]
      <4> SUFFICES ASSUME NEW m \in DOMAIN got', NEW n \in DOMAIN got', m < n
                   PROVE  got'[m] < got'[n]
        OBVIOUS
      <4>1. m \in DOMAIN got /\ got'[m] = got[m]
        BY <3>2, <3>5, Counts
      <4> QED BY <3>3, <3>5, <4>1, Counts
    <3>7. \A n \in DOMAIN got' : got'[n] <= base + position'
      BY <3>1, <3>3, <3>5, Counts
    <3>8. ~failed => Len(got') = base + position' /\ \A n \in DOMAIN got' : got'[n] = n
      <4>1. Len(got') = Len(got) + 1 /\ position' = position + 1
        BY <3>1, <3>2
      <4>2. ~failed => Len(got') = base + position'
        BY <3>3, <4>1, Counts
      <4>3. ~failed => \A n \in DOMAIN got' : got'[n] = n
        BY <3>3, <3>5
      <4> QED BY <4>2, <4>3
    <3>9. pass = 0 => Len(got') = position'
      BY <3>1, <3>2, <3>3, Counts
    <3> QED BY <1>1, <2>1, <2>2, <3>1, <3>4, <3>6, <3>7, <3>8, <3>9 DEF DirectInv
  <2>4. ASSUME NEW err \in {EOF, EIO}, ReadFails(err), AfterInput(err), got' = got
        PROVE  DirectInv'
    <3>1. /\ UNCHANGED <<position, pass>> /\ (failed => failed')
          /\ ~failed' => position = NbPackets
      BY <2>4 DEF ReadFails
    <3>2. main' = IF main = "first" /\ loop > 0 THEN "seek" ELSE "finish"
      BY <2>4, InputAssumption DEF AfterInput
    <3>3. main' = "finish" /\ ~failed' => loop = 0 \/ NbPackets = 0
      <4>1. main = "second" => position = 0
        BY <1>1 DEF DirectInv
      <4>2. loop \in Nat
        BY DEF Types, FileTypes
      <4> QED BY <2>1, <3>1, <3>2, <4>1, <4>2 DEF Attempts
    <3> QED BY <1>1, <2>1, <2>2, <2>4, <3>1, <3>2, <3>3 DEF DirectInv
  <2>5. CASE AfterInput(EAGAIN) /\ UNCHANGED <<got, demuxVars>>
    <3>1. main' = "loop" /\ UNCHANGED <<got, position, pass, failed>>
      BY <2>5 DEF AfterInput, demuxVars
    <3> QED BY <1>1, <2>1, <2>2, <3>1 DEF DirectInv
  <2> QED BY <1>4, <2>3, <2>4, <2>5 DEF ReadDirectly
<1>5. CASE Seek
  <2>1. /\ main = "seek" /\ UNCHANGED <<got, eofReached>>
        /\ \/ /\ pass' = pass + 1 /\ position' = 0 /\ failed' = failed
              /\ main' = "second"
           \/ /\ failed' = TRUE /\ main' = "finish" /\ UNCHANGED <<pass, position, loop>>
    BY <1>5 DEF Seek
  <2>2. eofReached # TRUE
    BY <1>1, <2>1 DEF DirectInv
  <2>3. CASE /\ pass' = pass + 1 /\ position' = 0 /\ failed' = failed
             /\ main' = "second"
    <3> DEFINE base == pass * NbPackets
    <3>1. /\ \A m, n \in DOMAIN got : m < n => got[m] < got[n]
          /\ \A n \in DOMAIN got : got[n] <= base + position
          /\ ~failed => Len(got) = base + position /\ \A n \in DOMAIN got : got[n] = n
          /\ ~failed => position = NbPackets
          /\ base \in Nat
      BY <1>1, <1>2, <2>1 DEF DirectInv
    <3>2. pass' * NbPackets = base + NbPackets /\ pass' # 0
      BY <1>2, <2>3, Counts
    <3> HIDE DEF base
    <3>3. \A n \in DOMAIN got : got[n] <= pass' * NbPackets + 0
      BY <1>2, <3>1, <3>2, Counts
    <3>4. ~failed => Len(got) = pass' * NbPackets + 0
      BY <1>2, <3>1, <3>2
    <3> QED BY <1>1, <2>1, <2>2, <2>3, <3>1, <3>2, <3>3, <3>4 DEF DirectInv
  <2>4. CASE failed' = TRUE /\ main' = "finish" /\ UNCHANGED <<pass, position, loop>>
    BY <1>1, <2>1, <2>2, <2>4 DEF DirectInv
  <2> QED BY <2>1, <2>3, <2>4
<1>6. CASE Finish
  <2>1. /\ main = "finish" /\ main' = "loop" /\ eofReached' \in {eofReached, TRUE}
        /\ UNCHANGED <<got, position, pass, failed, loop>>
    BY <1>6 DEF Finish, demuxVars
  <2>2. ~failed => Len(got) = NbPackets * (Loops + 1)
    <3> SUFFICES ASSUME ~failed PROVE Len(got) = NbPackets * (Loops + 1)
      OBVIOUS
    <3>1. /\ Len(got) = pass * NbPackets + NbPackets
          /\ loop = 0 \/ NbPackets = 0
      BY <1>1, <2>1 DEF DirectInv
    <3>2. pass = Loops \/ NbPackets = 0
      BY <1>2, <3>1, Counts
    <3> QED BY <3>1, <3>2, NextInRange DEF Types, FileTypes
  <2> QED BY <1>1, <2>1, <2>2 DEF DirectInv
<1>7. ~Receive /\ ~InReceive /\ ~Drain /\ ~InDrain /\ ~Join
  BY <1>1, RecvEffect DEF Receive, InReceive, Drain, InDrain, Join, Control, CallInv, Types
<1> QED BY <1>3, <1>4, <1>5, <1>6, <1>7 DEF MainStep

-----------------------------------------------------------------------------
(* The theorems *)

InputInv == Types /\ Control /\ ThreadedInv /\ DirectInv

(* The reading of an input file keeps the invariant. *)
LEMMA InputInvariant == Spec => []InputInv
<1>1. Init => InputInv
  <2> SUFFICES ASSUME Init PROVE InputInv
    OBVIOUS
  <2>1. Queue!TypeOK
    BY InputAssumption DEF Init, Queue!Init, Queue!TypeOK, Queue!Codes, Queue!Fates
  <2>2. FileTypes /\ PlaceTypes
    <3>1. position \in 0 .. NbPackets /\ pass \in 0 .. Loops /\ loop \in 0 .. Loops
      BY Bounds DEF Init
    <3>2. got \in Seq(Packets)
      BY DEF Init
    <3>3. FileTypes
      BY <3>1, <3>2 DEF Init, FileTypes
    <3>4. PlaceTypes
      BY DEF Init, PlaceTypes
    <3> QED BY <3>3, <3>4
  <2>3. Control
    BY Bounds DEF Init, Queue!Init, Control, CallInv, ReaderInv, MainInv, Leaving,
       Exhausted, Threaded
  <2>4. got = <<>> /\ fifo = <<>> /\ position = 0 /\ pass = 0
        /\ reader = "none" /\ main = "init" /\ eofReached = FALSE
    BY DEF Init, Queue!Init
  <2>5. pass * NbPackets = 0 /\ Len(got) = 0 /\ Len(fifo) = 0
    BY <2>2, <2>4, NextInRange, EmptySeq DEF FileTypes
  <2>6. ThreadedInv
    BY <2>4, <2>5 DEF ThreadedInv, Pending
  <2>7. DirectInv
    BY <2>4, <2>5 DEF DirectInv
  <2> QED BY <2>1, <2>2, <2>3, <2>6, <2>7 DEF InputInv, Types
<1>2. ASSUME InputInv, [Next]_vars PROVE InputInv'
  <2>1. Types'
    BY <1>2, StepTypes DEF InputInv
  <2>2. CASE SpuriousWakeup \/ UNCHANGED vars
    <3>1. /\ UNCHANGED <<fifo, errSend, errRecv, pc, arg, nonblock, ret>>
          /\ UNCHANGED <<reader, flags, held, code, main, position, pass, failed,
                         nbInputFiles, nonBlocking, loop, eofReached, got>>
      BY <2>2, SpuriousEffect DEF readerVars, demuxVars, fileVars
    <3>2. Control'
      BY <1>2, <3>1 DEF InputInv, Control, CallInv, ReaderInv, MainInv, Leaving,
         Exhausted, Threaded
    <3>3. ThreadedInv' /\ DirectInv'
      BY <1>2, <3>1 DEF InputInv, ThreadedInv, DirectInv, Leaving, Pending, Threaded
    <3> QED BY <2>1, <3>2, <3>3 DEF InputInv
  <2>3. CASE MainStep \/ Stop \/ ReadStep
    <3>1. Control'
      BY <1>2, <2>3, ReaderControl, MainControl DEF InputInv
    <3>2. Threaded' <=> Threaded
      BY <2>3 DEF MainStep, InitInput, ProcessInput, Receive, InReceive, ReadDirectly,
         Seek, Finish, Drain, InDrain, Join, Stop, ReadStep, ReaderReads, ReaderEnds,
         ReaderSends, ReaderInSend, ReaderSent, ReaderCloses, fileVars, Threaded
    <3>3. ThreadedInv'
      BY <1>2, <2>3, <3>2, ReaderStream, MainStream DEF InputInv, ThreadedInv
    <3>4. ReadStep => Threaded
      BY <1>2 DEF InputInv, Control, ReaderInv, ReadStep, ReaderReads, ReaderEnds,
         ReaderSends, ReaderInSend, ReaderSent, ReaderCloses
    <3>5. DirectInv'
      BY <1>2, <2>3, <3>2, <3>4, DirectStream DEF InputInv, DirectInv
    <3> QED BY <2>1, <3>1, <3>3, <3>5 DEF InputInv
  <2> QED BY <1>2, <2>2, <2>3 DEF Next, Over
<1> QED BY <1>1, <1>2, PTL DEF Spec

(***************************************************************************)
(* Every variable keeps its type, whatever the file is and however often   *)
(* the queue is full or empty.                                             *)
(***************************************************************************)
THEOREM InputTypeCorrect == Spec => []TypeOK
<1>1. InputInv => TypeOK
  BY DEF InputInv, Types, FileTypes, PlaceTypes, TypeOK
<1> QED BY <1>1, InputInvariant, PTL

(***************************************************************************)
(* Packets are processed in the order of the file, none twice and none     *)
(* left out, with sends that are refused and tried again in between; the   *)
(* end of the file overtakes none of them.                                 *)
(***************************************************************************)
THEOREM InputInOrder == Spec => []InOrder
<1>1. ASSUME InputInv PROVE InOrder
  <2>1. Types
    BY <1>1 DEF InputInv
  <2>2. /\ \A m, n \in DOMAIN got : m < n => got[m] < got[n]
        /\ Threaded \/ ~failed => \A n \in DOMAIN got : got[n] = n
    BY <1>1 DEF InputInv, ThreadedInv, DirectInv
  <2>3. ASSUME eofReached, main \in {"loop", "first"}, pass = 0
        PROVE  Len(got) = position
    <3>1. CASE Threaded
      <4>1. Exhausted /\ ~Leaving
        BY <1>1, <2>1, <2>3, <3>1 DEF InputInv, Control, MainInv, Leaving, Types, FileTypes
      <4>2. ~Pending /\ Len(fifo) = 0
        BY <4>1, EmptySeq DEF Exhausted, Pending
      <4> QED BY <1>1, <2>1, <2>3, <3>1, <4>1, <4>2, Counts DEF InputInv, ThreadedInv
    <3>2. CASE ~Threaded
      BY <1>1, <2>3, <3>2 DEF InputInv, DirectInv
    <3> QED BY <3>1, <3>2
  <2> QED BY <2>2, <2>3 DEF InOrder
<1> QED BY <1>1, InputInvariant, PTL

(***************************************************************************)
(* Main seeks in the file only when no thread reads it, and a single input *)
(* is looped as often as documented.                                       *)
(***************************************************************************)
THEOREM InputLoopsSafely == Spec => []LoopsSafely
<1>1. ASSUME InputInv PROVE LoopsSafely
  <2>1. SeekAlone
    BY <1>1 DEF InputInv, Control, MainInv, ReaderInv, Exhausted, SeekAlone
  <2>2. SingleLoopedAsOften
    BY <1>1 DEF InputInv, DirectInv, SingleLoopedAsOften, LoopedAsOften, Types, FileTypes
  <2> QED BY <2>1, <2>2 DEF LoopsSafely
<1> QED BY <1>1, InputInvariant, PTL

(***************************************************************************)
(* When free_input_threads is done the queue is empty, the reader is gone  *)
(* without a packet and nobody is in a call of the queue.                  *)
(***************************************************************************)
THEOREM InputNothingLeft == Spec => []NothingLeft
<1>1. InputInv => NothingLeft
  BY DEF InputInv, Control, CallInv, MainInv, ReaderInv, NothingLeft, Attempts
<1> QED BY <1>1, InputInvariant, PTL

-----------------------------------------------------------------------------
(* The transcoder as the client *)

(***************************************************************************)
(* A step of the transcoder, seen from the inputs: process_input makes one *)
(* call of get_input_packet or the demuxer, and choose_output and the      *)
(* other parts of transcode_step leave the inputs alone.                   *)
(***************************************************************************)
LEMMA TranscodingStepReads == [TranscodingNext]_allVars => [Next]_vars
<1> SUFFICES ASSUME [TranscodingNext]_allVars PROVE [Next]_vars
  OBVIOUS
<1> USE DEF inputVars
<1>1. CASE MainRuns
  BY <1>1 DEF MainRuns, InitThreads, Schedule, BeginInput, AskReader, ReaderAnswers,
     DemuxerAnswers, LoopInput, EndInput, OtherAgain, OtherAnswers, Leave, FreeThreads,
     Flush, Next, MainStep
<1>2. CASE LeaveEarly \/ ReaderRuns \/ Wakeup \/ Finished
  BY <1>2 DEF LeaveEarly, ReaderRuns, Wakeup, Finished, Next, allVars
<1>3. CASE UNCHANGED allVars
  BY <1>3 DEF allVars
<1> QED BY <1>1, <1>2, <1>3 DEF TranscodingNext

(***************************************************************************)
(* The transcoder implements InputThreads, with the loop as its client.    *)
(***************************************************************************)
LEMMA TranscodingReads == TranscodingSpec => Spec
BY TranscodingStepReads, PTL DEF TranscodingSpec, TranscodingInit, Spec

(***************************************************************************)
(* process_input gets the packets of an input file in the order of the     *)
(* file, each once, through the thread of the file and without it.         *)
(***************************************************************************)
THEOREM TranscodingInOrder == TranscodingSpec => []InOrder
BY TranscodingReads, InputInOrder, PTL

(***************************************************************************)
(* The transcoder never seeks or decodes in a file while the thread of     *)
(* that file reads it: seek_to_start joins the thread first.  A file that  *)
(* it reads without a thread is looped as often as asked for.              *)
(***************************************************************************)
THEOREM TranscodingLoopsSafely == TranscodingSpec => []LoopsSafely
BY TranscodingReads, InputLoopsSafely, PTL

(***************************************************************************)
(* When the transcoder has freed its input threads, whether it came to the *)
(* end of its outputs or left early, nothing is left of them.              *)
(***************************************************************************)
THEOREM TranscodingNothingLeft == TranscodingSpec => []NothingLeft
BY TranscodingReads, InputNothingLeft, PTL

=============================================================================
