------------------------- MODULE FrameThreadEncoder -------------------------
(***************************************************************************)
(* libavcodec/frame_thread_encoder.c: workers that encode the frames of an *)
(* intra-only encoder, behind avcodec_send_frame and avcodec_receive_      *)
(* packet (libavcodec/encode.c).  The frames are in buffers of a pool      *)
(* (BufferPool) of the client, which may go on with its own reference      *)
(* while a worker encodes: change the frame, drop it, give up the pool.    *)
(*                                                                         *)
(* What is done with one mutex held is one step, but for buffer_mutex,     *)
(* which a worker keeps while it gives a buffer back.  The content of a    *)
(* frame is the number of the frame it was made for.                       *)
(***************************************************************************)
EXTENDS Naturals, Sequences, FiniteSets

CONSTANTS
  NbThreads,        \* avctx->thread_count
  BufferSize,       \* BUFFER_SIZE
  MaxFrames,        \* bound: the frames of the client
  MayFail,          \* bound: those whose encoding may fail
  Data, NoData,     \* the memory of the frames
  Client

Workers == 1 .. NbThreads
Threads == Workers \cup {Client}
Frames  == 1 .. MaxFrames
Slots   == 0 .. BufferSize - 1

ASSUME EncoderAssumption ==
  \* ff_frame_thread_encoder_init; BUFFER_SIZE is 2 * MAX_THREADS
  /\ NbThreads \in Nat /\ NbThreads > 1 /\ BufferSize \in Nat
  /\ BufferSize >= 2 * NbThreads
  /\ MaxFrames \in Nat /\ MayFail \subseteq Frames
  /\ Data \subseteq Nat /\ NoData \notin Data
  /\ Client \notin 1 .. NbThreads

VARIABLES
  content, refcount, home, list, poolRefs, uninited, poolFreed, stage, buffer,
  own,              \* the frame of the client
  client, made, sent,    \* where the client is; the last frame it made and sent
  draining, bufferPkt,   \* avctx->internal: draining, buffer_pkt
  reply,            \* what the client got last
  taskFifo,         \* of tasks: the frame, its slot, and its number
  finished,         \* finished_tasks
  taskIndex, finishedIndex, exit,
  worker, task, result   \* of each worker: where it is, its task and packet

poolVars   == <<content, refcount, home, list, poolRefs, uninited, poolFreed, stage, buffer>>
frameVars  == <<own, made, sent>>
apiVars    == <<draining, bufferPkt, reply>>
ringVars   == <<finished, taskIndex, finishedIndex>>
workerVars == <<worker, task, result>>
vars == <<poolVars, frameVars, client, apiVars, taskFifo, ringVars, exit, workerVars>>

Pool == INSTANCE BufferPool WITH Contents <- Frames, Poison <- 0

NoPacket == [frame |-> 0, code |-> "none"]
Packets  == [frame : Frames, code : {"frame", "error"}]
NoTask   == [data |-> NoData, index |-> 0, frame |-> 0]
Tasks    == [data : Data, index : Slots, frame : Frames]

\* Faulty: the ring has no end.
NextSlotUnbounded(i) == i + 1

NextSlot(i) == (i + 1) % BufferSize

Outstanding == (taskIndex + BufferSize - finishedIndex) % BufferSize

-----------------------------------------------------------------------------
(* The client and its frames *)

\* Every frame is sent before it is changed, dropped, or followed by another.
Idle == client \in {"idle", "closed"} /\ Pool!Rests(Client)

\* A frame from the pool, written by its only owner.
MakeFrame ==
  /\ client = "idle" /\ Idle /\ own = NoData
  /\ made < MaxFrames /\ sent = made
  /\ \E d \in Data :
       /\ Pool!Get(Client, d, made + 1)
       /\ own' = d
  /\ made' = made + 1
  /\ UNCHANGED <<sent, client, apiVars, taskFifo, ringVars, exit, workerVars>>

\* av_buffer_make_writable: the frame itself, or a copy of it.
ChangeFrame ==
  /\ client = "idle" /\ Idle /\ own # NoData
  /\ made < MaxFrames /\ sent = made
  /\ made' = made + 1
  /\ \/ /\ Pool!IsWritable(own)
        /\ Pool!Write(own, made')
        /\ UNCHANGED <<client, own>>
     \/ /\ ~Pool!IsWritable(own)
        /\ \E copy \in Data : Pool!Create(copy, made')
        /\ client' = "replace"
        /\ UNCHANGED own
  /\ UNCHANGED <<sent, apiVars, taskFifo, ringVars, exit, workerVars>>

ReplaceFrame ==
  /\ client = "replace"
  /\ Pool!Unref(Client, own)
  /\ own' = CHOOSE d \in Data : content[d] = made
  /\ client' = "idle"
  /\ UNCHANGED <<made, sent, apiVars, taskFifo, ringVars, exit, workerVars>>

DropFrame ==
  /\ Idle /\ own # NoData /\ sent = made
  /\ Pool!Unref(Client, own)
  /\ own' = NoData
  /\ UNCHANGED <<made, sent, client, apiVars, taskFifo, ringVars, exit, workerVars>>

UninitPool ==
  /\ Idle
  /\ Pool!Uninit(Client)
  /\ UNCHANGED <<frameVars, client, apiVars, taskFifo, ringVars, exit, workerVars>>

ContinueBuffer ==
  /\ Pool!Continue(Client)
  /\ UNCHANGED <<frameVars, client, apiVars, taskFifo, ringVars, exit, workerVars>>

-----------------------------------------------------------------------------
(* avcodec_send_frame, avcodec_receive_packet, ff_frame_thread_encoder_free *)

Ready == client = "idle" /\ Idle

\* A frame that was not sent yet; memory may run out.
Send ==
  /\ Ready /\ own # NoData /\ sent < made
  /\ ~draining /\ bufferPkt = NoPacket
  /\ \/ /\ Pool!Ref(own)
        /\ client' = "submit" /\ UNCHANGED reply
     \/ /\ reply' = "error" /\ UNCHANGED <<client, poolVars>>
  /\ UNCHANGED <<frameVars, draining, bufferPkt, taskFifo, ringVars, exit, workerVars>>

\* pthread_cond_signal of task_fifo_cond.
SignalTask ==
  LET asleep == {w \in Workers : worker[w] = "asleep"}
  IN \/ asleep = {} /\ UNCHANGED worker
     \/ \E w \in asleep : worker' = [worker EXCEPT ![w] = "fetch"]

Submit ==
  /\ client = "submit"
  /\ taskFifo' = Append(taskFifo, [data |-> own, index |-> taskIndex, frame |-> made])
  /\ SignalTask
  /\ taskIndex' = NextSlot(taskIndex)
  /\ sent' = made
  /\ client' = "output"
  /\ UNCHANGED <<poolVars, own, made, apiVars, finished, finishedIndex,
                 exit, task, result>>

SendNull ==
  /\ Ready /\ ~draining
  /\ draining' = TRUE
  /\ UNCHANGED <<poolVars, frameVars, client, bufferPkt, reply, taskFifo, ringVars,
                 exit, workerVars>>

Receive ==
  /\ Ready
  /\ IF bufferPkt # NoPacket
       THEN reply' = "frame" /\ bufferPkt' = NoPacket /\ UNCHANGED client
     ELSE IF draining
       THEN client' = "drain" /\ UNCHANGED <<reply, bufferPkt>>
     ELSE reply' = "again" /\ UNCHANGED <<client, bufferPkt>>
  /\ UNCHANGED <<poolVars, frameVars, draining, taskFifo, ringVars, exit, workerVars>>

Oldest == finished[finishedIndex]

\* While a frame is sent nothing is waited for that the workers can still do;
\* at the end of the drain there is nothing to wait for.
OutputNothing ==
  \/ /\ Outstanding = 0
     /\ reply' = IF client = "drain" THEN "eof" ELSE reply
  \/ /\ Outstanding > 0 /\ Oldest = NoPacket
     /\ client = "output" /\ Outstanding <= NbThreads
     /\ UNCHANGED reply

\* Faulty: a packet that is there is left, and its slot passed over.
TakeSkips ==
  /\ Outstanding > 0 /\ Oldest # NoPacket
  /\ IF Oldest.code = "error" THEN reply' = "error" /\ UNCHANGED bufferPkt
     ELSE bufferPkt' = Oldest /\ UNCHANGED reply
  /\ finishedIndex' = NextSlot(finishedIndex)
  /\ UNCHANGED finished

\* In a drain the packet goes on to the client.
Take ==
  /\ Outstanding > 0 /\ Oldest # NoPacket
  /\ IF Oldest.code = "error" THEN reply' = "error" /\ UNCHANGED bufferPkt
     ELSE IF client = "drain" THEN reply' = "frame" /\ UNCHANGED bufferPkt
     ELSE bufferPkt' = Oldest /\ UNCHANGED reply
  /\ finished' = [finished EXCEPT ![finishedIndex] = NoPacket]
  /\ finishedIndex' = NextSlot(finishedIndex)

AwaitOutput ==
  /\ Outstanding > 0 /\ Oldest = NoPacket
  /\ client = "output" => Outstanding > NbThreads
  /\ client' = IF client = "output" THEN "output asleep" ELSE "drain asleep"
  /\ UNCHANGED <<bufferPkt, reply, ringVars>>

\* The second half of ff_thread_video_encode_frame, for do_encode.
Output ==
  /\ client \in {"output", "drain"}
  /\ \/ OutputNothing /\ client' = "idle" /\ UNCHANGED <<bufferPkt, ringVars>>
     \/ Take /\ client' = "idle" /\ UNCHANGED taskIndex
     \/ AwaitOutput
  /\ UNCHANGED <<poolVars, frameVars, draining, taskFifo, exit, workerVars>>

\* ff_frame_thread_encoder_free; what is queued or finished stays where it is.
Close ==
  /\ Ready
  /\ exit' = TRUE
  /\ worker' = [w \in Workers |-> IF worker[w] = "asleep" THEN "fetch" ELSE worker[w]]
  /\ reply' = "flushed"
  /\ client' = "joining"
  /\ UNCHANGED <<poolVars, frameVars, draining, bufferPkt, taskFifo, ringVars, task, result>>

Join ==
  /\ client = "joining" /\ \A w \in Workers : worker[w] = "gone"
  /\ client' = "closed"
  /\ UNCHANGED <<poolVars, frameVars, apiVars, taskFifo, ringVars, exit, workerVars>>

ClientStep ==
  ContinueBuffer \/ ReplaceFrame \/ Submit \/ Output \/ Join

-----------------------------------------------------------------------------
(* worker *)

Fetch(w) ==
  /\ worker[w] = "fetch" /\ ~exit
  /\ IF taskFifo = <<>>
       THEN /\ worker' = [worker EXCEPT ![w] = "asleep"]
            /\ UNCHANGED <<taskFifo, task>>
       ELSE /\ worker' = [worker EXCEPT ![w] = "encode"]
            /\ task' = [task EXCEPT ![w] = Head(taskFifo)]
            /\ taskFifo' = Tail(taskFifo)
  /\ UNCHANGED <<poolVars, result>>

\* buffer_mutex
NobodyFrees == \A w \in Workers : worker[w] # "free"

\* The encoder looks at the frame until it returns, with a packet or an error;
\* the frame is unreferenced with buffer_mutex.
Encode(w) ==
  /\ worker[w] = "encode" /\ NobodyFrees
  /\ \E code \in {"frame"} \cup (IF task[w].frame \in MayFail THEN {"error"} ELSE {}) :
       result' = [result EXCEPT ![w] =
                    [frame |-> content[task[w].data], code |-> code]]
  /\ Pool!Unref(w, task[w].data)
  /\ worker' = [worker EXCEPT ![w] = IF Pool!Rests(w)' THEN "deliver" ELSE "free"]
  /\ task' = [task EXCEPT ![w].data = NoData]
  /\ UNCHANGED taskFifo

FreeFrame(w) ==
  /\ worker[w] = "free"
  /\ Pool!Continue(w)
  /\ worker' = [worker EXCEPT ![w] = IF Pool!Rests(w)' THEN "deliver" ELSE "free"]
  /\ UNCHANGED <<taskFifo, task, result>>

\* pthread_cond_signal of finished_task_cond.
SignalFinished ==
  client' = CASE client = "output asleep" -> "output"
              [] client = "drain asleep"  -> "drain"
              [] OTHER                    -> client

\* Faulty: the client is not woken.
DeliverSilently(w) ==
  /\ worker[w] = "deliver"
  /\ finished' = [finished EXCEPT ![task[w].index] = result[w]]
  /\ worker' = [worker EXCEPT ![w] = "fetch"]
  /\ task' = [task EXCEPT ![w] = NoTask]
  /\ result' = [result EXCEPT ![w] = NoPacket]
  /\ UNCHANGED client

Deliver(w) ==
  /\ worker[w] = "deliver"
  /\ finished' = [finished EXCEPT ![task[w].index] = result[w]]
  /\ SignalFinished
  /\ worker' = [worker EXCEPT ![w] = "fetch"]
  /\ task' = [task EXCEPT ![w] = NoTask]
  /\ result' = [result EXCEPT ![w] = NoPacket]

\* The codec is closed with buffer_mutex.
Leave(w) ==
  /\ worker[w] = "fetch" /\ exit /\ NobodyFrees
  /\ worker' = [worker EXCEPT ![w] = "gone"]
  /\ UNCHANGED <<poolVars, taskFifo, task, result>>

Worker(w) ==
  /\ \/ /\ Fetch(w) \/ Encode(w) \/ FreeFrame(w) \/ Leave(w)
        /\ UNCHANGED <<finished, client>>
     \/ Deliver(w) /\ UNCHANGED <<poolVars, taskFifo>>
  /\ UNCHANGED <<frameVars, apiVars, taskIndex, finishedIndex, exit>>

\* pthread_cond_wait may return without a signal.
SpuriousWakeup ==
  /\ \/ client \in {"output asleep", "drain asleep"} /\ SignalFinished /\ UNCHANGED worker
     \/ SignalTask /\ worker' # worker /\ UNCHANGED client
  /\ UNCHANGED <<poolVars, frameVars, apiVars, taskFifo, ringVars, exit, task, result>>

-----------------------------------------------------------------------------
Init ==
  /\ Pool!Init
  /\ own = NoData /\ made = 0 /\ sent = 0
  /\ client = "idle"
  /\ draining = FALSE /\ bufferPkt = NoPacket /\ reply = "again"
  /\ taskFifo = <<>>
  /\ finished = [i \in Slots |-> NoPacket]
  /\ taskIndex = 0 /\ finishedIndex = 0 /\ exit = FALSE
  /\ worker = [w \in Workers |-> "fetch"]
  /\ task = [w \in Workers |-> NoTask]
  /\ result = [w \in Workers |-> NoPacket]

Next ==
  \/ MakeFrame \/ ChangeFrame \/ DropFrame \/ UninitPool
  \/ Send \/ SendNull \/ Receive \/ Close
  \/ ClientStep
  \/ \E w \in Workers : Worker(w)
  \/ SpuriousWakeup

Fairness == WF_vars(ClientStep) /\ \A w \in Workers : WF_vars(Worker(w))

Spec == Init /\ [][Next]_vars /\ Fairness

-----------------------------------------------------------------------------
(* Properties *)

(***************************************************************************)
(* Types; the tasks fit into their FIFO and the slots into the ring.       *)
(***************************************************************************)
TypeOK ==
  /\ Pool!TypeOK
  /\ own \in Data \cup {NoData}
  /\ made \in {0} \cup Frames /\ sent \in 0 .. made
  /\ client \in {"idle", "replace", "submit", "output", "output asleep", "drain",
                 "drain asleep", "joining", "closed"}
  /\ draining \in BOOLEAN /\ bufferPkt \in Packets \cup {NoPacket}
  /\ reply \in {"again", "frame", "error", "eof", "flushed"}
  /\ taskFifo \in Seq(Tasks) /\ Len(taskFifo) <= BufferSize
  /\ finished \in [Slots -> Packets \cup {NoPacket}]
  /\ taskIndex \in Slots /\ finishedIndex \in Slots /\ exit \in BOOLEAN
  /\ worker \in [Workers -> {"fetch", "asleep", "encode", "free",
                             "deliver", "gone"}]
  /\ task \in [Workers -> [data : Data \cup {NoData}, index : Slots,
                           frame : {0} \cup Frames]]
  /\ result \in [Workers -> Packets \cup {NoPacket}]

(***************************************************************************)
(* A buffer has as many references as there are frames that refer to it:   *)
(* that of the client, those of the queued tasks, and those of the tasks   *)
(* of workers that have not unreferenced their frame.                      *)
(***************************************************************************)
Queued(d)  == {i \in DOMAIN taskFifo : taskFifo[i].data = d}
Encoded(d) == {w \in Workers : task[w].data = d}

Referrers(d) ==
  Cardinality(Queued(d)) + Cardinality(Encoded(d))
    + (IF own = d THEN 1 ELSE 0)
    + (IF client = "submit" /\ own = d THEN 1 ELSE 0)
    + (IF client = "replace" /\ content[d] = made THEN 1 ELSE 0)

RefsCounted == \A d \in Data : refcount[d] = Referrers(d)

(***************************************************************************)
(* A frame that was sent does not change before it is encoded, whatever    *)
(* the client does with its own (av_buffer_make_writable).                 *)
(***************************************************************************)
FramesIntact ==
  /\ \A i \in DOMAIN taskFifo : content[taskFifo[i].data] = taskFifo[i].frame
  /\ \A w \in Workers :
       task[w].data # NoData => content[task[w].data] = task[w].frame

(***************************************************************************)
(* The pool of the frames is freed with the last user, be it the client or *)
(* a worker, and its list holds free buffers only.                         *)
(***************************************************************************)
PoolFreedWithLastUser == Pool!FreedWithLastUser /\ Pool!ListedIsFree

(***************************************************************************)
(* The client and the workers share buffers by their counts alone: none is *)
(* freed, handed out again or changed while somebody needs it, and all go  *)
(* in the end.                                                             *)
(***************************************************************************)
BuffersShared == RefsCounted /\ FramesIntact /\ PoolFreedWithLastUser

(***************************************************************************)
(* To its client the encoder is the pipeline that frame threading of       *)
(* decoders is: packets in the order of the frames, each once, at most     *)
(* NbThreads behind; the end of the stream when no packet is left.         *)
(***************************************************************************)
Inside ==
  IF client \in {"joining", "closed"} THEN {}
  ELSE {<<taskFifo[i].frame, "busy">> : i \in DOMAIN taskFifo}
       \cup {<<task[w].frame, "busy">> : w \in {v \in Workers : task[v] # NoTask}}
       \cup {<<p.frame, p.code>> :
               p \in ({finished[i] : i \in Slots} \cup {bufferPkt}) \ {NoPacket}}

Pipeline == INSTANCE FramePipeline WITH
  Packets <- Frames, Depth <- NbThreads + 1, delay <- NbThreads, inside <- Inside

ImplementsPipeline == Pipeline!Spec

(***************************************************************************)
(* Every call of the client returns: it does not wait for a packet that    *)
(* nobody is encoding, nor does the close for a worker that sleeps.  The   *)
(* client is outside of every call again and again, or for good.           *)
(***************************************************************************)
CallsReturn == []<>(client \in {"idle", "closed"})

=============================================================================
