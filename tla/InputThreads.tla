---------------------------- MODULE InputThreads ----------------------------
(***************************************************************************)
(* fftools/ffmpeg.c: how one input file is read.  With a single input the  *)
(* main thread calls the demuxer itself.  With several, each file has a    *)
(* reader thread that sends its packets to the main thread through a       *)
(* thread message queue; the queue is ThreadMessageQueue.                  *)
(*                                                                         *)
(* One file is modelled.  What the main thread does with the packets, and  *)
(* with other files in between, leaves this state alone; Transcoding adds  *)
(* it.                                                                     *)
(***************************************************************************)
EXTENDS Integers, Sequences, FiniteSets

CONSTANTS
  InputFiles,     \* the numbers of input files considered
  NbPackets,      \* the packets of the file
  Loops,          \* the option -stream_loop
  Capacity,       \* f->thread_queue_size
  Main, Reader,   \* the two threads
  EOF, EIO,       \* the errors of av_read_frame
  EAGAIN, NoError, NoMessage

\* The packets, numbered through all passes over the file.
Packets == 1 .. NbPackets * (Loops + 1)

ASSUME InputAssumption ==
  /\ InputFiles \subseteq Nat \ {0}
  /\ NbPackets \in Nat /\ Loops \in Nat
  /\ Capacity \in Nat \ {0}
  /\ Main # Reader
  \* the codes are distinct where the threads tell them apart
  /\ NoError \notin {EOF, EIO, EAGAIN} /\ EAGAIN \notin {EOF, EIO}
  /\ NoMessage \notin Packets

VARIABLES
  fifo, errSend, errRecv, waitSend, waitRecv, pc, arg, nonblock, ret, fate,
  nbInputFiles,   \* nb_input_files
  nonBlocking,    \* f->non_blocking, which depends on the format of the file
  reader,         \* where input_thread is
  flags,          \* its flags: whether it sends without blocking
  held,           \* its packet
  code,           \* the error it stops with
  main,           \* where the main thread is
  position,       \* the packets of this pass that the demuxer has read
  pass,           \* how often the demuxer was sent back to the start
  loop,           \* ifile->loop
  eofReached,     \* ifile->eof_reached
  got,            \* the packets process_input has processed (history)
  failed          \* whether a read or a seek failed (history)

Queue == INSTANCE ThreadMessageQueue
  WITH Threads <- {Main, Reader}, Messages <- Packets, Errors <- {EOF, EIO}

queueVars  == <<fifo, errSend, errRecv, waitSend, waitRecv, pc, arg, nonblock, ret, fate>>
readerVars == <<reader, flags, held, code>>
demuxVars  == <<position, pass, failed>>
fileVars   == <<nbInputFiles, nonBlocking, loop, eofReached, got>>
vars       == <<queueVars, readerVars, main, demuxVars, fileVars>>

\* Whether the file has a thread of its own.
Threaded == nbInputFiles > 1

-----------------------------------------------------------------------------
(* av_read_frame: EAGAIN, a packet, the end of the file or an error *)

NextPacket == pass * NbPackets + position + 1

ReadPacket == position < NbPackets /\ position' = position + 1
              /\ UNCHANGED <<pass, failed>>

ReadFails(err) ==
  /\ \/ err = EOF /\ position = NbPackets /\ UNCHANGED failed
     \/ err = EIO /\ failed' = TRUE
  /\ UNCHANGED <<position, pass>>

-----------------------------------------------------------------------------
(* input_thread; an EAGAIN of the demuxer is a sleep and no step *)

ReaderReads ==
  /\ reader = "read"
  /\ ReadPacket
  /\ held' = NextPacket
  /\ reader' = "send"
  /\ UNCHANGED <<queueVars, flags, code, main, fileVars>>

ReaderEnds ==
  /\ reader = "read"
  /\ \E err \in {EOF, EIO} : ReadFails(err) /\ code' = err
  /\ reader' = "close"
  /\ UNCHANGED <<queueVars, flags, held, main, fileVars>>

ReaderSends ==
  /\ reader = "send"
  /\ Queue!Send(Reader, held, flags)
  /\ reader' = "sending"
  /\ UNCHANGED <<flags, held, code, main, demuxVars, fileVars>>

ReaderInSend ==
  /\ reader = "sending"
  /\ Queue!SendStep(Reader)
  /\ reader' = IF pc'[Reader] = "idle" THEN "sent" ELSE "sending"
  /\ UNCHANGED <<flags, held, code, main, demuxVars, fileVars>>

\* Faulty: a packet that finds the queue full is dropped.
ReaderSentOnce ==
  /\ reader = "sent"
  /\ held' = NoMessage
  /\ IF ret[Reader] \in {NoError, EAGAIN}
     THEN reader' = "read" /\ UNCHANGED code
     ELSE reader' = "close" /\ code' = ret[Reader]
  /\ UNCHANGED <<queueVars, flags, main, demuxVars, fileVars>>

\* A full queue makes the reader block from then on.
ReaderSent ==
  /\ reader = "sent"
  /\ CASE ret[Reader] = NoError ->
            reader' = "read" /\ held' = NoMessage /\ UNCHANGED <<flags, code>>
       [] ret[Reader] = EAGAIN /\ flags ->
            reader' = "send" /\ flags' = FALSE /\ UNCHANGED <<held, code>>
       [] OTHER ->
            /\ reader' = "close" /\ held' = NoMessage
            /\ code' = ret[Reader]
            /\ UNCHANGED flags
  /\ UNCHANGED <<queueVars, main, demuxVars, fileVars>>

ReaderCloses ==
  /\ reader = "close"
  /\ Queue!SetErrRecv(Reader, code)
  /\ reader' = "gone"
  /\ UNCHANGED <<flags, held, code, main, demuxVars, fileVars>>

ReadStep ==
  ReaderReads \/ ReaderEnds \/ ReaderSends \/ ReaderInSend \/ ReaderSent \/ ReaderCloses

-----------------------------------------------------------------------------
(* init_input_threads, for this file *)

InitInput ==
  /\ main = "init"
  /\ IF Threaded
     THEN \/ reader' = "read" /\ flags' = nonBlocking /\ main' = "loop"
          \/ UNCHANGED <<reader, flags>> /\ main' = "freed"
     ELSE UNCHANGED <<reader, flags>> /\ main' = "loop"
  /\ UNCHANGED <<queueVars, held, code, demuxVars, fileVars>>

-----------------------------------------------------------------------------
(* process_input; "first" and "second" are its calls of get_input_packet *)

ProcessInput ==
  /\ main = "loop" /\ ~eofReached
  /\ main' = "first"
  /\ UNCHANGED <<queueVars, readerVars, demuxVars, fileVars>>

Attempts == {"first", "second"}

\* get_input_packet_mt begins.
Receive ==
  /\ main \in Attempts /\ Threaded /\ pc[Main] = "idle"
  /\ Queue!Recv(Main, nonBlocking)
  /\ UNCHANGED <<readerVars, main, demuxVars, fileVars>>

\* Faulty: an empty queue is taken for the end of the file.
AfterInputEagainEnds(result) ==
  main' = CASE result = NoError -> "loop"
            [] result # NoError /\ main = "first" /\ loop > 0 -> "seek"
            [] OTHER -> "finish"

\* What process_input goes on with, by the result of get_input_packet.
AfterInput(result) ==
  main' = CASE result \in {NoError, EAGAIN}             -> "loop"
            [] result \notin {NoError, EAGAIN}
               /\ main = "first" /\ loop > 0            -> "seek"
            [] OTHER                                    -> "finish"

InReceive ==
  /\ main \in Attempts
  /\ Queue!RecvStep(Main)
  /\ IF pc'[Main] = "idle" THEN AfterInput(ret'[Main]) ELSE UNCHANGED main
  /\ got' = IF fifo' = fifo THEN got ELSE Append(got, Head(fifo))
  /\ UNCHANGED <<readerVars, demuxVars, nbInputFiles, nonBlocking, loop, eofReached>>

\* With one input file the demuxer is called here.
ReadDirectly ==
  /\ main \in Attempts /\ ~Threaded
  /\ \/ ReadPacket /\ got' = Append(got, NextPacket) /\ AfterInput(NoError)
     \/ /\ \E err \in {EOF, EIO} : ReadFails(err) /\ AfterInput(err)
        /\ UNCHANGED got
     \/ AfterInput(EAGAIN) /\ UNCHANGED <<got, demuxVars>>
  /\ UNCHANGED <<queueVars, readerVars, nbInputFiles, nonBlocking, loop, eofReached>>

\* seek_to_start.  When it fails the end is reached.
Seek ==
  /\ main = "seek"
  /\ \/ /\ pass' = pass + 1 /\ position' = 0
        /\ loop' = loop - 1
        /\ main' = "second"
        /\ UNCHANGED failed
     \/ /\ failed' = TRUE
        /\ main' = "finish"
        /\ UNCHANGED <<pass, position, loop>>
  /\ UNCHANGED <<queueVars, readerVars, nbInputFiles, nonBlocking, eofReached, got>>

\* The decoders are drained; while one still has output the file stays open.
Finish ==
  /\ main = "finish"
  /\ main' = "loop"
  /\ eofReached' \in {eofReached, TRUE}
  /\ UNCHANGED <<queueVars, readerVars, demuxVars, nbInputFiles, nonBlocking, loop,
                 got>>

-----------------------------------------------------------------------------
(* free_input_threads, when transcode leaves its loop *)

Stop ==
  /\ main = "loop"
  /\ IF Threaded
     THEN Queue!SetErrSend(Main, EOF) /\ main' = "drain"
     ELSE UNCHANGED queueVars /\ main' = "freed"
  /\ UNCHANGED <<readerVars, demuxVars, fileVars>>

Drain ==
  /\ main = "drain" /\ pc[Main] = "idle"
  /\ Queue!Recv(Main, FALSE)
  /\ UNCHANGED <<readerVars, main, demuxVars, fileVars>>

\* Faulty: at most one packet is taken out.
InDrainOnce ==
  /\ main = "drain"
  /\ Queue!RecvStep(Main)
  /\ main' = IF pc'[Main] = "idle" THEN "join" ELSE "drain"
  /\ UNCHANGED <<readerVars, demuxVars, fileVars>>

\* What was left in the queue is unreferenced.
InDrain ==
  /\ main = "drain"
  /\ Queue!RecvStep(Main)
  /\ main' = IF pc'[Main] = "idle" /\ ret'[Main] # NoError THEN "join" ELSE "drain"
  /\ UNCHANGED <<readerVars, demuxVars, fileVars>>

\* pthread_join, and av_thread_message_queue_free.
Join ==
  /\ main = "join" /\ reader = "gone"
  /\ main' = "freed"
  /\ UNCHANGED <<queueVars, readerVars, demuxVars, fileVars>>

-----------------------------------------------------------------------------

Init ==
  /\ Queue!Init
  /\ nbInputFiles \in InputFiles /\ nonBlocking \in BOOLEAN
  /\ reader = "none" /\ flags = FALSE /\ held = NoMessage /\ code = NoError
  /\ main = "init"
  /\ position = 0 /\ pass = 0 /\ failed = FALSE
  /\ loop = Loops /\ eofReached = FALSE /\ got = <<>>

MainStep ==
  \/ InitInput \/ ProcessInput \/ Receive \/ InReceive \/ ReadDirectly
  \/ Seek \/ Finish \/ Drain \/ InDrain \/ Join

SpuriousWakeup ==
  /\ \E t \in {Main, Reader} : Queue!SpuriousWakeup(t)
  /\ UNCHANGED <<readerVars, main, demuxVars, fileVars>>

\* The program goes on without the input.
Over == main = "freed" /\ UNCHANGED vars

Next == MainStep \/ Stop \/ ReadStep \/ SpuriousWakeup \/ Over

Spec == Init /\ [][Next]_vars

-----------------------------------------------------------------------------

(* The types of the variables; those of the queue are its own. *)
TypeOK ==
  /\ Queue!TypeOK
  /\ nbInputFiles \in InputFiles /\ nonBlocking \in BOOLEAN
  /\ reader \in {"none", "read", "send", "sending", "sent", "close", "gone"}
  /\ flags \in BOOLEAN
  /\ held \in Packets \cup {NoMessage}
  /\ code \in {EOF, EIO, NoError}
  /\ main \in Attempts \cup {"init", "loop", "seek", "finish", "drain", "join", "freed"}
  /\ position \in 0 .. NbPackets /\ pass \in 0 .. Loops
  /\ loop \in 0 .. Loops
  /\ eofReached \in BOOLEAN /\ failed \in BOOLEAN
  /\ got \in Seq(Packets)

(***************************************************************************)
(* The main thread processes the packets in the order of the file, with    *)
(* none repeated and none left out, in spite of the sends that found the   *)
(* queue full and were tried again.  Only a file that is read directly is  *)
(* read again from the start after an error, with the rest of that pass    *)
(* left out.  The end of the file overtakes no packet: a file is marked as *)
(* finished when all that the demuxer has read has been processed.         *)
(***************************************************************************)
InOrder ==
  /\ \A m, n \in DOMAIN got : m < n => got[m] < got[n]
  /\ Threaded \/ ~failed => \A n \in DOMAIN got : got[n] = n
  /\ eofReached /\ main \in {"loop", "first"} /\ pass = 0 => Len(got) = position

(***************************************************************************)
(* The demuxer has one user at a time: the main thread seeks in the file,  *)
(* without any lock, only when the reader will not read any more.          *)
(***************************************************************************)
SeekAlone == main = "seek" => reader \in {"none", "gone"}

(***************************************************************************)
(* The queue has no free function, so nothing may be left in it when it is *)
(* freed; nor with the reader, which must not use it any more.             *)
(***************************************************************************)
NothingLeft ==
  main = "freed" =>
    /\ fifo = <<>> /\ held = NoMessage
    /\ reader \in {"none", "gone"}
    /\ pc[Main] = "idle" /\ pc[Reader] = "idle"

(***************************************************************************)
(* doc/ffmpeg.texi on -stream_loop: "Set number of times input stream      *)
(* shall be looped."  An input without failures has been processed once    *)
(* and that many times more when it is finished.                           *)
(***************************************************************************)
LoopedAsOften ==
  eofReached /\ ~failed => Len(got) = NbPackets * (Loops + 1)

(***************************************************************************)
(* As documented with a single input file, where seek_to_start and the     *)
(* second get_input_packet of process_input follow each other: no pass     *)
(* over the file is lost, cut short or made once too often.                *)
(***************************************************************************)
SingleLoopedAsOften == ~Threaded => LoopedAsOften

(***************************************************************************)
(* Looping with both kinds of input: never beside a reader thread, and     *)
(* without one as often as documented.                                     *)
(***************************************************************************)
LoopsSafely == SeekAlone /\ SingleLoopedAsOften

=============================================================================
