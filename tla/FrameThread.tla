---------------------------- MODULE FrameThread ----------------------------
(***************************************************************************)
(* libavcodec/pthread_frame.c: frame threading of a decoder.  The client's *)
(* thread (Main) gives each packet to the next worker of a ring and takes  *)
(* the result of the oldest one.  A worker decodes its packet in two       *)
(* parts: the setup, which the setup of the next packet depends on, and    *)
(* the body, which runs while later packets are decoded already.           *)
(*                                                                         *)
(* Each worker has a mutex, held from the moment it gets a packet until it *)
(* waits for the next one, and a progress_mutex whose sections never block *)
(* and are one step each.  The order in which a decoder calls back into    *)
(* this file is the one doc/multithreading.txt and thread.h ask for.       *)
(***************************************************************************)
EXTENDS Integers, FiniteSets

CONSTANTS
  NbThreads,        \* avctx->thread_count
  MaxPackets,       \* bound: the packets submitted
  Settings,         \* the codecs and clients considered, see below
  Main, NoThread

\* What pthread_frame.c asks of a codec and of the client's AVCodecContext.
Setting ==
  [ffv1            : BOOLEAN,   \* the codec is AV_CODEC_ID_FFV1
   delay           : BOOLEAN,   \* it has AV_CODEC_CAP_DELAY
   updateContext   : BOOLEAN,   \* it has an update_thread_context
   threadSafe      : BOOLEAN,   \* avctx->thread_safe_callbacks
   customGetBuffer : BOOLEAN,   \* get_buffer2 is not the default one
   customGetFormat : BOOLEAN,   \* get_format is not the default one
   hwaccels        : SUBSET {"safe", "unsafe"}]
       \* the hwaccels get_format may choose: HWACCEL_CAP_ASYNC_SAFE or not

ASSUME FrameAssumption ==
  /\ NbThreads \in Nat /\ NbThreads > 1
  /\ MaxPackets \in Nat
  /\ Settings \subseteq Setting
  \* "the decoder is required to implement update_thread_context()"
  /\ \A s \in Settings : s.hwaccels # {} => s.updateContext
  /\ Main # NoThread /\ {Main, NoThread} \cap (0 .. NbThreads - 1) = {}

Workers == 0 .. NbThreads - 1
Threads == Workers \cup {Main}
Packets == 1 .. MaxPackets

VARIABLES
  avctx,            \* the setting, which does not change
  \* the FrameThreadContext, and the call of the client in progress
  nextDecoding, nextFinished, delaying, prev,
  op,               \* the call: "init", "decode", "flush" or "free"
  empty,            \* whether its packet has size 0
  k,                \* the worker its loop is at
  reply,            \* what the last call answered
  ending,           \* "no", "draining" or "done": AVCodecInternal's draining
  sent,             \* the number of packets submitted (bounded)
  count,            \* the contexts there are: thread_count, or fewer when
                    \* ff_frame_thread_init failed
  \* the locks and who sleeps on which condition
  mutex,            \* p->mutex of each worker: its holder or NoThread
  hwMutex,          \* holder of hwaccel_mutex; a worker that holds it has
                    \* hwaccel_serializing set
  bufMutex,         \* holder of buffer_mutex
  asyncLock,        \* fctx->async_lock
  asyncSer,         \* p->async_serializing
  asleep,           \* the condition each thread sleeps on, or Awake
  pc,               \* where each thread is
  \* the PerThreadContexts
  state,            \* p->state
  die,              \* p->die
  pkt,              \* p->avpkt: its number until its result is taken
  out,              \* p->frame, p->got_frame and p->result
  released,         \* p->num_released_buffers
  \* the AVCodecContext of each worker, and the frames of the decoder
  parsed,           \* the last packet whose setup the context includes
  lastFrame,        \* the last frame of that context
  refFrame,         \* the frame the packet in decoding refers to
  hw,               \* avctx->hwaccel
  owner,            \* of each frame: the worker that reports its progress
  reported          \* the frames whose progress is complete

ringVars == <<avctx, nextDecoding, nextFinished, delaying, prev>>
callVars == <<op, empty, k, reply, ending, sent, count>>
lockVars == <<mutex, hwMutex, bufMutex, asyncLock, asyncSer>>
jobVars  == <<state, die, pkt, out, released>>
codecVars == <<parsed, lastFrame, refFrame, hw, owner, reported>>
vars == <<ringVars, callVars, lockVars, asleep, pc, jobVars, codecVars>>

Awake == <<"awake", NoThread>>
Input(p)    == <<"input_cond", p>>
Progress(p) == <<"progress_cond", p>>
Output(p)   == <<"output_cond", p>>
Async       == <<"async_cond", NoThread>>

Sleepers(cond) == {t \in Threads : asleep[t] = cond}

\* THREAD_SAFE_CALLBACKS
SafeCallbacks == avctx.threadSafe \/ ~avctx.customGetBuffer

\* Whether submit_packet stays to serve the callbacks of the worker.
Serves == ~avctx.threadSafe /\ (avctx.customGetFormat \/ avctx.customGetBuffer)

-----------------------------------------------------------------------------
(* Moving a thread on, and the conditions *)

At(t, place) == pc[t] = place /\ asleep[t] = Awake
Goto(t, place) == pc' = [pc EXCEPT ![t] = place]

\* pthread_cond_wait: the loop around it comes back to the same place.
Sleep(t, cond) == asleep' = [asleep EXCEPT ![t] = cond] /\ UNCHANGED pc

WakeAll(conds) ==
  asleep' = [t \in Threads |-> IF asleep[t] \in conds THEN Awake ELSE asleep[t]]

WakeOne(cond) ==
  \/ Sleepers(cond) = {} /\ UNCHANGED asleep
  \/ \E t \in Sleepers(cond) : asleep' = [asleep EXCEPT ![t] = Awake]

-----------------------------------------------------------------------------
(* frame_worker_thread *)

\* The worker has its mutex when pthread_cond_wait returns.
AwaitPacket(p) ==
  /\ At(p, "wait") /\ mutex[p] \in {p, NoThread}
  /\ CASE die[p] ->
            /\ mutex' = [mutex EXCEPT ![p] = NoThread]
            /\ Goto(p, "gone") /\ UNCHANGED asleep
       [] ~die[p] /\ state[p] = "INPUT_READY" ->
            /\ mutex' = [mutex EXCEPT ![p] = NoThread]
            /\ Sleep(p, Input(p))
       [] OTHER ->
            /\ mutex' = [mutex EXCEPT ![p] = p]
            /\ Goto(p, IF ~avctx.updateContext /\ SafeCallbacks THEN "early" ELSE "start")
            /\ UNCHANGED asleep
  /\ UNCHANGED <<ringVars, callVars, hwMutex, bufMutex, asyncLock, asyncSer,
                 jobVars, codecVars>>

\* The end of ff_thread_finish_setup, under progress_mutex.
SetupFinished(p) ==
  /\ state' = [state EXCEPT ![p] = "SETUP_FINISHED"]
  /\ WakeAll({Progress(p)})

\* There is no hwaccel here, and no lock of one to take.
FinishEarly(p) ==
  /\ At(p, "early")
  /\ SetupFinished(p)
  /\ Goto(p, "start")
  /\ UNCHANGED <<ringVars, callVars, lockVars, die, pkt, out, released, codecVars>>

UsesHw(p) == hw[p] # "none"
CanLockHw(p) == hwMutex \in {p, NoThread}

\* If the packet before used the hwaccel, decode in turn with it.
StartDecode(p) ==
  /\ At(p, "start")
  /\ UsesHw(p) => CanLockHw(p)
  /\ hwMutex' = IF UsesHw(p) THEN p ELSE hwMutex
  /\ out' = [out EXCEPT ![p] = "none"]
  /\ Goto(p, "setup")
  /\ UNCHANGED <<ringVars, callVars, mutex, bufMutex, asyncLock, asyncSer,
                 asleep, state, die, pkt, released, codecVars>>

-----------------------------------------------------------------------------
(* codec->decode, as far as it calls back into pthread_frame.c *)

Parse(p) == parsed' = [parsed EXCEPT ![p] = pkt[p]]

\* Where a worker goes on to when nothing of the hwaccel is to be done.
ToFinish(p)  == IF UsesHw(p) THEN "finish" ELSE "ready"
ToPublish(p) == IF hwMutex = p THEN "unlock" ELSE "publish"

\* The worker finishes the setup of a decoder that did not.
Return(p, result) ==
  /\ out' = [out EXCEPT ![p] = result]
  /\ Goto(p, IF state'[p] = "SETTING_UP" THEN ToFinish(p) ELSE ToPublish(p))

\* A packet without a picture, or a broken one.
DecodeNothing(p) ==
  /\ At(p, "setup")
  /\ UNCHANGED <<ringVars, callVars, lockVars, asleep, state, die, pkt,
                 released, lastFrame, refFrame, hw, owner, reported>>
  /\ Parse(p)
  /\ \E result \in {"none", "error"} : Return(p, result)

\* ff_get_format: the hwaccel the client chose, or none.
ChooseFormat(p) ==
  \E choice \in avctx.hwaccels \cup {"none"} :
    hw' = [hw EXCEPT ![p] = choice]

\* ff_thread_get_format; without a thread-safe client Main is asked.
GetFormat(p) ==
  /\ At(p, "setup") /\ state[p] = "SETTING_UP" /\ avctx.updateContext
  /\ Parse(p)
  /\ IF avctx.threadSafe \/ ~avctx.customGetFormat
     THEN /\ ChooseFormat(p)
          /\ Goto(p, "format")
          /\ UNCHANGED <<state, asleep>>
     ELSE /\ state' = [state EXCEPT ![p] = "GET_FORMAT"]
          /\ WakeAll({Progress(p)})
          /\ Goto(p, "awaitFormat")
          /\ UNCHANGED hw
  /\ UNCHANGED <<ringVars, callVars, lockVars, die, pkt, out, released,
                 lastFrame, refFrame, owner, reported>>

AwaitFormat(p) ==
  /\ At(p, "awaitFormat")
  /\ IF state[p] = "SETTING_UP"
     THEN ChooseFormat(p) /\ Goto(p, "format") /\ UNCHANGED asleep
     ELSE Sleep(p, Progress(p)) /\ UNCHANGED hw
  /\ UNCHANGED <<ringVars, callVars, lockVars, jobVars, parsed, lastFrame,
                 refFrame, owner, reported>>

\* ff_thread_get_buffer, up to the client's get_buffer2.
GetBuffer(p) ==
  /\ At(p, "setup") \/ At(p, "format")
  /\ bufMutex = NoThread
  /\ bufMutex' = p
  /\ Parse(p)
  /\ IF SafeCallbacks
     THEN Goto(p, "gotBuffer") /\ UNCHANGED <<state, asleep>>
     ELSE /\ state' = [state EXCEPT ![p] = "GET_BUFFER"]
          /\ WakeAll({Progress(p)})
          /\ Goto(p, "awaitBuffer")
  /\ UNCHANGED <<ringVars, callVars, mutex, hwMutex, asyncLock, asyncSer, die,
                 pkt, out, released, lastFrame, refFrame, hw, owner, reported>>

AwaitBuffer(p) ==
  /\ At(p, "awaitBuffer")
  /\ IF state[p] = "SETTING_UP"
     THEN Goto(p, "gotBuffer") /\ UNCHANGED asleep
     ELSE Sleep(p, Progress(p))
  /\ UNCHANGED <<ringVars, callVars, lockVars, jobVars, codecVars>>

\* The rest of it: a decoder without update_thread_context is set up now.
GotBuffer(p) ==
  /\ At(p, "gotBuffer")
  /\ IF ~SafeCallbacks /\ ~avctx.updateContext
     THEN SetupFinished(p) ELSE UNCHANGED <<state, asleep>>
  /\ bufMutex' = NoThread
  /\ \/ /\ owner' = [owner EXCEPT ![pkt[p]] = p]
        /\ lastFrame' = [lastFrame EXCEPT ![p] = pkt[p]]
        /\ refFrame' = [refFrame EXCEPT ![p] = IF avctx.updateContext
                                               THEN lastFrame[p] ELSE 0]
        /\ Goto(p, IF avctx.updateContext THEN ToFinish(p) ELSE "end")
        /\ UNCHANGED out
     \/ Return(p, "error") /\ UNCHANGED <<owner, lastFrame, refFrame>>
  /\ UNCHANGED <<ringVars, callVars, mutex, hwMutex, asyncLock, asyncSer, die,
                 pkt, released, parsed, hw, reported>>

-----------------------------------------------------------------------------
(* ff_thread_finish_setup *)

\* Faulty: hwaccel_mutex is left to frame_worker_thread.
FinishSetupNoLock(p) ==
  /\ At(p, "finish")
  /\ asyncSer' = [asyncSer EXCEPT ![p] = hw[p] = "unsafe"]
  /\ Goto(p, IF asyncSer'[p] THEN "async" ELSE "ready")
  /\ UNCHANGED <<ringVars, callVars, mutex, hwMutex, bufMutex, asyncLock, asleep,
                 jobVars, codecVars>>

\* With a hwaccel: takes hwaccel_mutex unless the worker has it already.
FinishSetup(p) ==
  /\ At(p, "finish")
  /\ CanLockHw(p)
  /\ hwMutex' = p
  /\ asyncSer' = [asyncSer EXCEPT ![p] = hw[p] = "unsafe"]
  /\ Goto(p, IF asyncSer'[p] THEN "async" ELSE "ready")
  /\ UNCHANGED <<ringVars, callVars, mutex, bufMutex, asyncLock, asleep,
                 jobVars, codecVars>>

\* async_lock, by a worker.
LockAsync(p) ==
  /\ At(p, "async")
  /\ IF asyncLock
     THEN Sleep(p, Async) /\ UNCHANGED asyncLock
     ELSE asyncLock' = TRUE /\ Goto(p, "ready") /\ UNCHANGED asleep
  /\ UNCHANGED <<ringVars, callVars, mutex, hwMutex, bufMutex, asyncSer,
                 jobVars, codecVars>>

\* Called by the decoder, or by the worker after a decoder that did not.
Ready(p) ==
  /\ At(p, "ready")
  /\ SetupFinished(p)
  /\ Goto(p, IF owner[pkt[p]] = p THEN "body" ELSE ToPublish(p))
  /\ UNCHANGED <<ringVars, callVars, lockVars, die, pkt, out, released, codecVars>>

-----------------------------------------------------------------------------
(* The body of the decoder: await_progress, report_progress, release_buffer *)

Complete(f) == f = 0 \/ f \in reported

\* The condition belongs to the worker that decodes the frame.
AwaitProgress(p) ==
  /\ At(p, "body")
  /\ IF Complete(refFrame[p])
     THEN Goto(p, "render") /\ UNCHANGED asleep
     ELSE Sleep(p, Progress(owner[refFrame[p]]))
  /\ UNCHANGED <<ringVars, callVars, lockVars, jobVars, codecVars>>

ReportProgress(p) ==
  /\ At(p, "render")
  /\ reported' = reported \cup {pkt[p]}
  /\ WakeAll({Progress(p)})
  /\ Goto(p, "end")
  /\ UNCHANGED <<ringVars, callVars, lockVars, jobVars, parsed, lastFrame,
                 refFrame, hw, owner>>

\* ff_thread_release_buffer: the client may be called from Main only.
ReleaseBuffer(p) ==
  /\ At(p, "end") /\ ~SafeCallbacks
  /\ bufMutex = NoThread
  /\ released' = [released EXCEPT ![p] = @ + 1]
  /\ Goto(p, "released")
  /\ UNCHANGED <<ringVars, callVars, lockVars, asleep, state, die, pkt, out, codecVars>>

DecodeReturns(p) ==
  /\ At(p, "end") \/ At(p, "released")
  /\ UNCHANGED <<ringVars, callVars, lockVars, asleep, state, die, pkt,
                 released, codecVars>>
  /\ \E result \in {"frame", "none", "error"} : Return(p, result)

-----------------------------------------------------------------------------
(* frame_worker_thread, after the decoder returned *)

UnlockHw(p) ==
  /\ At(p, "unlock")
  /\ hwMutex' = NoThread
  /\ Goto(p, IF asyncSer[p] THEN "unasync" ELSE "publish")
  /\ UNCHANGED <<ringVars, callVars, mutex, bufMutex, asyncLock, asyncSer,
                 asleep, jobVars, codecVars>>

\* Faulty: nobody that waits for the lock is woken.
UnlockAsyncSilently(p) ==
  /\ At(p, "unasync")
  /\ asyncLock' = FALSE
  /\ asyncSer' = [asyncSer EXCEPT ![p] = FALSE]
  /\ Goto(p, "publish")
  /\ UNCHANGED <<ringVars, callVars, mutex, hwMutex, bufMutex, asleep, jobVars,
                 codecVars>>

\* async_unlock, by a worker.
UnlockAsync(p) ==
  /\ At(p, "unasync")
  /\ asyncLock' = FALSE
  /\ asyncSer' = [asyncSer EXCEPT ![p] = FALSE]
  /\ WakeAll({Async})
  /\ Goto(p, "publish")
  /\ UNCHANGED <<ringVars, callVars, mutex, hwMutex, bufMutex, jobVars, codecVars>>

Publish(p) ==
  /\ At(p, "publish")
  /\ state' = [state EXCEPT ![p] = "INPUT_READY"]
  /\ WakeAll({Progress(p), Output(p)})
  /\ Goto(p, "wait")
  /\ UNCHANGED <<ringVars, callVars, lockVars, die, pkt, out, released, codecVars>>

Decoder(p) ==
  \/ DecodeNothing(p) \/ GetFormat(p) \/ AwaitFormat(p)
  \/ GetBuffer(p) \/ AwaitBuffer(p) \/ GotBuffer(p)
  \/ AwaitProgress(p) \/ ReportProgress(p) \/ ReleaseBuffer(p) \/ DecodeReturns(p)

Worker(p) ==
  \/ AwaitPacket(p) \/ FinishEarly(p) \/ StartDecode(p) \/ Decoder(p)
  \/ FinishSetup(p) \/ LockAsync(p) \/ Ready(p)
  \/ UnlockHw(p) \/ UnlockAsync(p) \/ Publish(p)

-----------------------------------------------------------------------------
(* ff_frame_thread_init *)

InitThread ==
  /\ pc[Main] = "init" /\ k < NbThreads
  /\ Goto(k, "wait")
  /\ k' = k + 1
  /\ UNCHANGED <<ringVars, op, empty, reply, ending, sent, count, lockVars, asleep,
                 jobVars, codecVars>>

Initialised ==
  /\ pc[Main] = "init" /\ k = NbThreads
  /\ Goto(Main, "user")
  /\ UNCHANGED <<ringVars, callVars, lockVars, asleep, jobVars, codecVars>>

\* Every call of the client begins by giving the async lock up.
BeginCall(name, place) ==
  /\ op' = name
  /\ k' = 0
  /\ asyncLock' = FALSE
  /\ WakeAll({Async})
  /\ Goto(Main, place)

\* Faulty: the context that failed is not counted.
InitFailsOneLess ==
  /\ pc[Main] = "init" /\ k < NbThreads
  /\ BeginCall("free", "park")
  /\ reply' = "flushed"
  /\ count' = k
  /\ UNCHANGED <<ringVars, empty, ending, sent, mutex, hwMutex, bufMutex,
                 asyncSer, jobVars, codecVars>>

\* A thread cannot be created: the ones that exist are freed.
InitFails ==
  /\ pc[Main] = "init" /\ k < NbThreads
  /\ BeginCall("free", "park")
  /\ reply' = "flushed"
  /\ count' = k + 1
  /\ UNCHANGED <<ringVars, empty, ending, sent, mutex, hwMutex, bufMutex,
                 asyncSer, jobVars, codecVars>>

-----------------------------------------------------------------------------
(* ff_thread_decode_frame *)

\* The client drains with empty packets once it has no more, to the end.
Decode(e) ==
  /\ pc[Main] = "user" /\ sent < MaxPackets
  /\ ending = "no" \/ (ending = "draining" /\ e)
  /\ ending' = IF e THEN "draining" ELSE "no"
  /\ empty' = e
  /\ BeginCall("decode", IF e /\ ~avctx.delay THEN "delay" ELSE "lock")
  /\ UNCHANGED <<ringVars, reply, sent, count, mutex, hwMutex, bufMutex, asyncSer,
                 jobVars, codecVars>>

\* The worker submit_packet is called on.
P == nextDecoding

\* Out of submit_packet with an error: the packet is not submitted.
SubmitFails ==
  /\ mutex' = [mutex EXCEPT ![P] = NoThread]
  /\ reply' = "error"
  /\ Goto(Main, "relock")
  /\ UNCHANGED <<op, empty, k, ending, sent, count>>

ToPrev == IF prev = NoThread THEN "ref" ELSE "prev"

\* update_context_from_user fails or not.
LockThread ==
  /\ At(Main, "lock")
  /\ mutex[P] = NoThread
  /\ \/ /\ mutex' = [mutex EXCEPT ![P] = Main]
        /\ Goto(Main, IF released[P] > 0 THEN "release" ELSE ToPrev)
        /\ UNCHANGED callVars
     \/ SubmitFails
  /\ UNCHANGED <<ringVars, hwMutex, bufMutex, asyncLock, asyncSer, asleep,
                 jobVars, codecVars>>

ReleaseDelayed ==
  /\ At(Main, "release")
  /\ bufMutex = NoThread
  /\ released' = [released EXCEPT ![P] = 0]
  /\ Goto(Main, ToPrev)
  /\ UNCHANGED <<ringVars, callVars, lockVars, asleep, state, die, pkt, out, codecVars>>

\* Faulty: does not wait.
AwaitSetupNoWait ==
  /\ At(Main, "prev")
  /\ Goto(Main, "copy")
  /\ UNCHANGED <<ringVars, callVars, lockVars, asleep, jobVars, codecVars>>

\* Wait until the setup of the packet before is finished.
AwaitSetup ==
  /\ At(Main, "prev")
  /\ IF state[prev] = "SETTING_UP"
     THEN Sleep(Main, Progress(prev))
     ELSE Goto(Main, "copy") /\ UNCHANGED asleep
  /\ UNCHANGED <<ringVars, callVars, lockVars, jobVars, codecVars>>

\* update_context_from_thread
CopyContext(dst, src) ==
  /\ parsed'    = [parsed EXCEPT ![dst] = parsed[src]]
  /\ lastFrame' = [lastFrame EXCEPT ![dst] = lastFrame[src]]
  /\ hw'        = [hw EXCEPT ![dst] = hw[src]]
  /\ UNCHANGED <<refFrame, owner, reported>>

Copy ==
  /\ At(Main, "copy")
  /\ CopyContext(P, prev)
  /\ \/ Goto(Main, "ref") /\ UNCHANGED <<mutex, callVars>>
     \/ SubmitFails
  /\ UNCHANGED <<ringVars, hwMutex, bufMutex, asyncLock, asyncSer, asleep, jobVars>>

\* av_packet_ref, and the worker is told.
Submit ==
  /\ At(Main, "ref")
  /\ \/ /\ sent' = sent + 1
        /\ pkt' = [pkt EXCEPT ![P] = sent']
        /\ state' = [state EXCEPT ![P] = "SETTING_UP"]
        /\ WakeOne(Input(P))
        /\ mutex' = [mutex EXCEPT ![P] = NoThread]
        /\ Goto(Main, IF Serves THEN "serve" ELSE "submitted")
        /\ UNCHANGED <<op, empty, k, reply, ending, count>>
     \/ SubmitFails /\ UNCHANGED <<pkt, state, asleep>>
  /\ UNCHANGED <<ringVars, hwMutex, bufMutex, asyncLock, asyncSer, die, out,
                 released, codecVars>>

\* Calls the client's get_buffer2 and get_format for the worker.
Serve ==
  /\ At(Main, "serve")
  /\ CASE state[P] \in {"SETUP_FINISHED", "INPUT_READY"} ->
            Goto(Main, "submitted") /\ UNCHANGED <<state, asleep>>
       [] state[P] = "SETTING_UP" ->
            Sleep(Main, Progress(P)) /\ UNCHANGED state
       [] OTHER ->
            /\ state' = [state EXCEPT ![P] = "SETTING_UP"]
            /\ WakeOne(Progress(P))
            /\ UNCHANGED pc
  /\ UNCHANGED <<ringVars, callVars, lockVars, die, pkt, out, released, codecVars>>

LastDelayed == NbThreads - 1 - (IF avctx.ffv1 THEN 1 ELSE 0)

\* No result is returned while the workers are being filled.
Delays(next) ==
  /\ delaying' = (delaying /\ next <= LastDelayed)
  /\ k' = nextFinished
  /\ IF delaying' /\ ~empty
     THEN reply' = "again" /\ Goto(Main, "relock")
     ELSE UNCHANGED reply /\ Goto(Main, "collect")
  /\ UNCHANGED <<avctx, nextFinished, op, empty, ending, sent, count, lockVars,
                 asleep, jobVars, codecVars>>

Submitted ==
  /\ At(Main, "submitted")
  /\ prev' = P
  /\ nextDecoding' = nextDecoding + 1
  /\ Delays(nextDecoding + 1)

\* An empty packet is no input for a codec without delay.
NotSubmitted ==
  /\ At(Main, "delay")
  /\ Delays(nextDecoding)
  /\ UNCHANGED <<prev, nextDecoding>>

AwaitOutput ==
  /\ At(Main, "collect")
  /\ IF state[k] # "INPUT_READY"
     THEN Sleep(Main, Output(k))
     ELSE Goto(Main, "take") /\ UNCHANGED asleep
  /\ UNCHANGED <<ringVars, callVars, lockVars, jobVars, codecVars>>

AfterThis == IF k + 1 >= NbThreads THEN 0 ELSE k + 1

\* Faulty: got_frame and result keep their values.
TakeKeepsResult ==
  /\ At(Main, "take")
  /\ pkt' = [pkt EXCEPT ![k] = 0]
  /\ IF empty /\ out[k] = "none" /\ AfterThis # nextFinished
     THEN /\ k' = AfterThis
          /\ Goto(Main, "collect")
          /\ UNCHANGED <<nextDecoding, nextFinished, reply, ending>>
     ELSE /\ nextFinished' = AfterThis
          /\ nextDecoding' = IF nextDecoding >= NbThreads THEN 0 ELSE nextDecoding
          /\ IF empty /\ out[k] = "none"
             THEN reply' = "eof" /\ ending' = "done"
             ELSE reply' = out[k] /\ UNCHANGED ending
          /\ Goto(Main, "relock")
          /\ UNCHANGED k
  /\ UNCHANGED <<avctx, delaying, prev, op, empty, sent, count, lockVars, asleep, state,
                 die, out, released, codecVars>>

\* The loop passes over a worker without a frame or error when draining.
Take ==
  /\ At(Main, "take")
  /\ pkt' = [pkt EXCEPT ![k] = 0]
  /\ out' = [out EXCEPT ![k] = "none"]
  /\ IF empty /\ out[k] = "none" /\ AfterThis # nextFinished
     THEN /\ k' = AfterThis
          /\ Goto(Main, "collect")
          /\ UNCHANGED <<nextDecoding, nextFinished, reply, ending>>
     ELSE /\ nextFinished' = AfterThis
          /\ nextDecoding' = IF nextDecoding >= NbThreads THEN 0 ELSE nextDecoding
          /\ IF empty /\ out[k] = "none"
             THEN reply' = "eof" /\ ending' = "done"
             ELSE reply' = out[k] /\ UNCHANGED ending
          /\ Goto(Main, "relock")
          /\ UNCHANGED k
  /\ UNCHANGED <<avctx, delaying, prev, op, empty, sent, count, lockVars, asleep, state,
                 die, released, codecVars>>

\* async_lock, by Main, at the end of every call.
Relock ==
  /\ At(Main, "relock")
  /\ IF asyncLock
     THEN Sleep(Main, Async) /\ UNCHANGED <<asyncLock, k>>
     ELSE /\ asyncLock' = TRUE
          /\ k' = 0
          /\ Goto(Main, CASE op = "decode" -> "user"
                          [] op = "flush"  -> "flush"
                          [] op = "free"   -> "kill")
          /\ UNCHANGED asleep
  /\ UNCHANGED <<ringVars, op, empty, reply, ending, sent, count, mutex, hwMutex,
                 bufMutex, asyncSer, jobVars, codecVars>>

-----------------------------------------------------------------------------
(* ff_thread_flush and ff_frame_thread_free *)

Flush ==
  /\ pc[Main] = "user"
  /\ BeginCall("flush", "park")
  /\ reply' = "flushed"
  /\ UNCHANGED <<ringVars, empty, ending, sent, count, mutex, hwMutex, bufMutex,
                 asyncSer, jobVars, codecVars>>

Free ==
  /\ pc[Main] = "user"
  /\ BeginCall("free", "park")
  /\ reply' = "flushed"
  /\ UNCHANGED <<ringVars, empty, ending, sent, count, mutex, hwMutex, bufMutex,
                 asyncSer, jobVars, codecVars>>

\* park_frame_worker_threads, one worker.
Park ==
  /\ At(Main, "park") /\ k < count
  /\ IF state[k] # "INPUT_READY"
     THEN Sleep(Main, Output(k)) /\ UNCHANGED <<out, k>>
     ELSE /\ out' = [out EXCEPT ![k] = IF @ = "frame" THEN "none" ELSE @]
          /\ k' = k + 1
          /\ UNCHANGED <<asleep, pc>>
  /\ UNCHANGED <<ringVars, op, empty, reply, ending, sent, count, lockVars, state,
                 die, pkt, released, codecVars>>

Parked ==
  /\ At(Main, "park") /\ k = count
  /\ Goto(Main, "relock")
  /\ UNCHANGED <<ringVars, callVars, lockVars, asleep, jobVars, codecVars>>

\* Faulty: thread 0 goes on with its own, older context.
CopyToFirstForgotten == UNCHANGED codecVars

\* The context of thread 0 takes over from the last one used.
CopyToFirst ==
  IF prev # NoThread /\ prev # 0
  THEN CopyContext(0, prev) ELSE UNCHANGED codecVars

\* A decoder that is flushed or closed may release buffers, too.
MoreReleased(n) == IF SafeCallbacks THEN {n} ELSE {n, n + 1}

FlushRing ==
  /\ At(Main, "flush")
  /\ CopyToFirst
  /\ nextDecoding' = 0 /\ nextFinished' = 0
  /\ delaying' = TRUE
  /\ prev' = NoThread
  /\ ending' = "no"
  /\ Goto(Main, "flushThread")
  /\ UNCHANGED <<avctx, op, empty, k, reply, sent, count, lockVars, asleep, jobVars>>

\* release_delayed_buffers and codec->flush of one worker.
FlushThread ==
  /\ At(Main, "flushThread") /\ k < count
  /\ released[k] = 0 \/ bufMutex = NoThread
  /\ \E n \in MoreReleased(0) : released' = [released EXCEPT ![k] = n]
  /\ out' = [out EXCEPT ![k] = "none"]
  /\ pkt' = [pkt EXCEPT ![k] = 0]
  /\ lastFrame' = [lastFrame EXCEPT ![k] = 0]
  /\ k' = k + 1
  /\ UNCHANGED <<ringVars, op, empty, reply, ending, sent, count, lockVars, asleep,
                 pc, state, die, parsed, refFrame, hw, owner, reported>>

Flushed ==
  /\ At(Main, "flushThread") /\ k = count
  /\ Goto(Main, "user")
  /\ UNCHANGED <<ringVars, callVars, lockVars, asleep, jobVars, codecVars>>

\* p->die, under p->mutex.
Kill ==
  /\ At(Main, "kill") /\ k < count
  /\ mutex[k] = NoThread
  /\ IF k = 0 THEN CopyToFirst ELSE UNCHANGED codecVars
  /\ die' = [die EXCEPT ![k] = TRUE]
  /\ WakeOne(Input(k))
  /\ Goto(Main, "join")
  /\ UNCHANGED <<ringVars, callVars, lockVars, state, pkt, out, released>>

\* pthread_join, unless the thread was never created, and codec->close.
Join ==
  /\ At(Main, "join")
  /\ pc[k] \in {"gone", "none"}
  /\ \E n \in MoreReleased(released[k]) : released' = [released EXCEPT ![k] = n]
  /\ Goto(Main, "close")
  /\ UNCHANGED <<ringVars, callVars, lockVars, asleep, state, die, pkt, out, codecVars>>

\* Faulty: the buffers that codec->close releases are not given back.
CloseKeepsBuffers ==
  /\ At(Main, "close")
  /\ k' = k + 1
  /\ Goto(Main, "kill")
  /\ UNCHANGED <<ringVars, op, empty, reply, ending, sent, count, lockVars, asleep,
                 jobVars, codecVars>>

Close ==
  /\ At(Main, "close")
  /\ released[k] = 0 \/ bufMutex = NoThread
  /\ released' = [released EXCEPT ![k] = 0]
  /\ k' = k + 1
  /\ Goto(Main, "kill")
  /\ UNCHANGED <<ringVars, op, empty, reply, ending, sent, count, lockVars, asleep,
                 state, die, pkt, out, codecVars>>

Freed ==
  /\ At(Main, "kill") /\ k = count
  /\ Goto(Main, "freed")
  /\ UNCHANGED <<ringVars, callVars, lockVars, asleep, jobVars, codecVars>>

-----------------------------------------------------------------------------

Init ==
  /\ avctx \in Settings
  /\ nextDecoding = 0 /\ nextFinished = 0 /\ delaying = TRUE /\ prev = NoThread
  /\ op = "init" /\ empty = FALSE /\ k = 0 /\ reply = "again"
  /\ ending = "no" /\ sent = 0 /\ count = NbThreads
  /\ mutex = [p \in Workers |-> NoThread]
  /\ hwMutex = NoThread /\ bufMutex = NoThread
  /\ asyncLock = TRUE
  /\ asyncSer = [p \in Workers |-> FALSE]
  /\ asleep = [t \in Threads |-> Awake]
  /\ pc = [t \in Threads |-> IF t = Main THEN "init" ELSE "none"]
  /\ state = [p \in Workers |-> "INPUT_READY"]
  /\ die = [p \in Workers |-> FALSE]
  /\ pkt = [p \in Workers |-> 0]
  /\ out = [p \in Workers |-> "none"]
  /\ released = [p \in Workers |-> 0]
  /\ parsed = [p \in Workers |-> 0]
  /\ lastFrame = [p \in Workers |-> 0]
  /\ refFrame = [p \in Workers |-> 0]
  /\ hw = [p \in Workers |-> "none"]
  /\ owner = [f \in Packets |-> NoThread]
  /\ reported = {}

Client == (\E e \in BOOLEAN : Decode(e)) \/ Flush \/ Free

\* The steps of Main inside a call.
Calling ==
  \/ InitThread \/ Initialised \/ InitFails
  \/ LockThread \/ ReleaseDelayed \/ AwaitSetup \/ Copy \/ Submit \/ Serve
  \/ Submitted \/ NotSubmitted \/ AwaitOutput \/ Take \/ Relock
  \/ Park \/ Parked \/ FlushRing \/ FlushThread \/ Flushed
  \/ Kill \/ Join \/ Close \/ Freed

\* Any pthread_cond_wait may return without a signal.
SpuriousWakeup(t) ==
  /\ asleep[t] # Awake
  /\ asleep' = [asleep EXCEPT ![t] = Awake]
  /\ UNCHANGED <<ringVars, callVars, lockVars, pc, jobVars, codecVars>>

\* After ff_frame_thread_free nothing is left to run.
Over == pc[Main] = "freed" /\ UNCHANGED vars

Next ==
  \/ Client \/ Calling
  \/ \E p \in Workers : Worker(p)
  \/ \E t \in Threads : SpuriousWakeup(t)
  \/ Over

Spec == Init /\ [][Next]_vars

\* Every thread that can run does, and codec->decode and the callbacks of
\* the client return; nothing is assumed of when the client calls.
FairSpec ==
  /\ Spec
  /\ WF_vars(Calling)
  /\ \A p \in Workers : WF_vars(Worker(p))

-----------------------------------------------------------------------------

CallResults == {"frame", "none", "error", "again", "eof", "flushed"}

WorkerPlaces ==
  {"none", "wait", "early", "start", "setup", "format", "awaitFormat",
   "awaitBuffer", "gotBuffer", "finish", "async", "ready", "body", "render",
   "end", "released", "unlock", "unasync", "publish", "gone"}

MainPlaces ==
  {"init", "user", "lock", "release", "prev", "copy", "ref", "serve",
   "submitted", "delay", "collect", "take", "relock", "park", "flush",
   "flushThread", "kill", "join", "close", "freed"}

(* The types of the variables. *)
TypeOK ==
  /\ avctx \in Settings
  /\ nextDecoding \in 0 .. NbThreads /\ nextFinished \in Workers
  /\ delaying \in BOOLEAN /\ prev \in Workers \cup {NoThread}
  /\ op \in {"init", "decode", "flush", "free"}
  /\ empty \in BOOLEAN /\ k \in 0 .. NbThreads
  /\ reply \in CallResults /\ ending \in {"no", "draining", "done"}
  /\ sent \in 0 .. MaxPackets /\ count \in 1 .. NbThreads
  /\ \A p \in Workers : mutex[p] \in {p, Main, NoThread}
  /\ {hwMutex, bufMutex} \subseteq Workers \cup {NoThread}
  /\ asyncLock \in BOOLEAN /\ asyncSer \in [Workers -> BOOLEAN]
  /\ asleep \in [Threads -> {Awake, Async} \cup
                   UNION {{Input(p), Progress(p), Output(p)} : p \in Workers}]
  /\ pc[Main] \in MainPlaces /\ \A p \in Workers : pc[p] \in WorkerPlaces
  /\ state \in [Workers -> {"INPUT_READY", "SETTING_UP", "GET_BUFFER",
                            "GET_FORMAT", "SETUP_FINISHED"}]
  /\ die \in [Workers -> BOOLEAN]
  /\ pkt \in [Workers -> 0 .. MaxPackets]
  /\ out \in [Workers -> {"frame", "none", "error"}]
  /\ released \in [Workers -> Nat]
  /\ parsed \in [Workers -> 0 .. MaxPackets]
  /\ lastFrame \in [Workers -> 0 .. MaxPackets]
  /\ refFrame \in [Workers -> 0 .. MaxPackets]
  /\ hw \in [Workers -> {"none", "safe", "unsafe"}]
  /\ owner \in [Packets -> Workers \cup {NoThread}]
  /\ reported \subseteq Packets

(***************************************************************************)
(* The setups of the packets follow each other in the order of the stream: *)
(* a worker starts with the context as the packet before left it, also     *)
(* after packets that failed to be submitted and after a flush.            *)
(***************************************************************************)
Unparsed(p) == pc[p] \in {"start", "setup"} \/ (pc[p] = "wait" /\ state[p] = "SETTING_UP")

SetupInOrder ==
  avctx.updateContext => \A p \in Workers : Unparsed(p) => parsed[p] = pkt[p] - 1

(***************************************************************************)
(* update_context_from_thread reads the context of the previous worker     *)
(* while that worker may still decode: only after its setup, in which it   *)
(* changes the context.                                                    *)
(***************************************************************************)
InSetup(p) ==
  \/ Unparsed(p)
  \/ pc[p] \in {"format", "awaitFormat", "awaitBuffer", "gotBuffer", "finish",
                "async", "ready"}

CopyAfterSetup ==
  avctx.updateContext /\ pc[Main] \in {"copy", "ref"} /\ prev # NoThread => ~InSetup(prev)

(***************************************************************************)
(* Main takes a result, flushes or closes the decoder of a worker without  *)
(* that worker's mutex: the worker must be between packets, and its own    *)
(* callbacks and locks given up.                                           *)
(***************************************************************************)
Resting(p) ==
  /\ pc[p] \in {"none", "wait", "gone"} /\ state[p] = "INPUT_READY"
  /\ hwMutex # p /\ bufMutex # p /\ ~asyncSer[p]

MainOwnsContext ==
  /\ pc[Main] = "take" => Resting(k)
  /\ pc[Main] \in {"flush", "flushThread", "kill", "join", "close", "freed"} =>
       \A p \in Workers : Resting(p)

(***************************************************************************)
(* The context of a worker goes from thread to thread without its mutex:   *)
(* to the next worker after its setup, to Main between packets.            *)
(***************************************************************************)
ContextsHandedOver == CopyAfterSetup /\ MainOwnsContext

(***************************************************************************)
(* The async lock: its holder is Main outside a call (and in the flush or  *)
(* free that ends with it), or the one worker with an unsafe hwaccel.  So  *)
(* no such worker runs while the client's own code does, the assertion in  *)
(* async_unlock holds, and the lock is never held by nobody.               *)
(***************************************************************************)
MainHasAsync ==
  pc[Main] \in {"init", "user", "flush", "flushThread", "kill", "join", "close", "freed"}

HasAsync(p) == asyncSer[p] /\ pc[p] # "async"

AsyncExclusive ==
  /\ asyncLock <=> MainHasAsync \/ \E p \in Workers : HasAsync(p)
  /\ MainHasAsync => \A p \in Workers : ~HasAsync(p)
  /\ \A p, q \in Workers : HasAsync(p) /\ HasAsync(q) => p = q

(***************************************************************************)
(* Workers with a hwaccel decode one at a time, from the end of the setup  *)
(* on, whichever of them set it up or inherited it.                        *)
(***************************************************************************)
Decoding(p) ==
  pc[p] \in {"ready", "body", "render", "end", "released"}

HwaccelSerial ==
  \A p, q \in Workers :
    UsesHw(p) /\ UsesHw(q) /\ Decoding(p) /\ Decoding(q) => p = q

(***************************************************************************)
(* The two locks of hwaccels together: one user of the hwaccel, and the    *)
(* client's own code apart from a hwaccel that is not safe.                *)
(***************************************************************************)
HwaccelLocked == AsyncExclusive /\ HwaccelSerial

(***************************************************************************)
(* Every buffer that a decoder released from a worker has been given back  *)
(* to the client, by Main, when ff_frame_thread_free is done.              *)
(***************************************************************************)
NoBufferLeft == pc[Main] = "freed" => \A p \in Workers : released[p] = 0

(***************************************************************************)
(* A call of the client returns, whatever the decoders wait for: no        *)
(* worker waits for progress, a callback, the hwaccel or the async lock    *)
(* for ever, and no signal is taken by the wrong thread.  Main is outside  *)
(* of every call again and again, or for good.                             *)
(***************************************************************************)
CallsReturn == []<>(pc[Main] \in {"user", "freed"})

(***************************************************************************)
(* The ring of workers implements the pipeline: results come out in the    *)
(* order of the packets, each once, none overwritten in its worker or lost *)
(* at the end of the stream, with a delay of at most PipelineDelay packets.  *)
(***************************************************************************)
Inside ==
  IF op \in {"flush", "free"} THEN {}
  ELSE {<<pkt[p], IF state[p] = "INPUT_READY" THEN out[p] ELSE "busy">> :
          p \in {q \in Workers : pkt[q] # 0}}

\* The delay of the pipeline: a packet for each other worker, but one for FFV1.
PipelineDelay == IF avctx.ffv1 THEN NbThreads - 2 ELSE NbThreads - 1

Pipeline == INSTANCE FramePipeline WITH
  Depth <- NbThreads, delay <- PipelineDelay, inside <- Inside

ImplementsPipeline == Pipeline!Spec

=============================================================================
