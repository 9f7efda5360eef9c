------------------------- MODULE FrameThreadProofs -------------------------
(***************************************************************************)
(* Proofs about FrameThread, for any number of workers and packets and any *)
(* codecs and clients: who owns which context, which locks protect the     *)
(* hwaccel, the order of the setups, and that the ring of workers          *)
(* implements the abstract pipeline.                                       *)
(***************************************************************************)
EXTENDS FrameThread, FiniteSetTheorems, TLAPS

-----------------------------------------------------------------------------
(* The inductive invariant *)

\* The parts of the type invariant.
CallTypes ==
  /\ avctx \in Settings
  /\ nextDecoding \in 0 .. NbThreads /\ nextFinished \in Workers
  /\ delaying \in BOOLEAN /\ prev \in Workers \cup {NoThread}
  /\ op \in {"init", "decode", "flush", "free"}
  /\ empty \in BOOLEAN /\ k \in 0 .. NbThreads
  /\ reply \in CallResults /\ ending \in {"no", "draining", "done"}
  /\ sent \in 0 .. MaxPackets /\ count \in 1 .. NbThreads

LockTypes ==
  /\ mutex \in [Workers -> Workers \cup {Main, NoThread}]
  /\ \A p \in Workers : mutex[p] \in {p, Main, NoThread}
  /\ hwMutex \in Workers \cup {NoThread} /\ bufMutex \in Workers \cup {NoThread}
  /\ asyncLock \in BOOLEAN /\ asyncSer \in [Workers -> BOOLEAN]

Conditions ==
  {Awake, Async} \cup UNION {{Input(p), Progress(p), Output(p)} : p \in Workers}

PlaceTypes ==
  /\ asleep \in [Threads -> Conditions]
  /\ pc \in [Threads -> MainPlaces \cup WorkerPlaces]
  /\ pc[Main] \in MainPlaces /\ \A p \in Workers : pc[p] \in WorkerPlaces

JobTypes ==
  /\ state \in [Workers -> {"INPUT_READY", "SETTING_UP", "GET_BUFFER",
                            "GET_FORMAT", "SETUP_FINISHED"}]
  /\ die \in [Workers -> BOOLEAN]
  /\ pkt \in [Workers -> 0 .. MaxPackets]
  /\ out \in [Workers -> {"frame", "none", "error"}]
  /\ released \in [Workers -> Nat]

CodecTypes ==
  /\ parsed \in [Workers -> 0 .. MaxPackets]
  /\ lastFrame \in [Workers -> 0 .. MaxPackets]
  /\ refFrame \in [Workers -> 0 .. MaxPackets]
  /\ hw \in [Workers -> {"none", "safe", "unsafe"}]
  /\ owner \in [Packets -> Workers \cup {NoThread}]
  /\ reported \subseteq Packets

\* The state that the client sees of a worker, by the place of the worker.
StateFits(s, place) ==
  /\ s = "INPUT_READY" => place \in {"none", "wait", "gone"}
  /\ s = "GET_FORMAT" => place = "awaitFormat"
  /\ s = "GET_BUFFER" => place = "awaitBuffer"
  /\ s = "SETTING_UP" => place \in {"wait", "early", "start", "setup", "format",
       "awaitFormat", "awaitBuffer", "gotBuffer", "finish", "async", "ready"}
  /\ s = "SETUP_FINISHED" => place \in {"start", "setup", "gotBuffer", "body", "render",
       "end", "released", "unlock", "unasync", "publish"}

\* A setup is finished at once, if nothing of the context is handed on and no
\* callback needs the client.
EarlySetup == ~avctx.updateContext /\ SafeCallbacks

\* What is true of a worker at its place.
WorkerFits(p) ==
  /\ StateFits(state[p], pc[p])
  /\ avctx.updateContext /\ state[p] = "SETUP_FINISHED" =>
       pc[p] \notin {"start", "setup", "gotBuffer"}
  /\ EarlySetup /\ state[p] = "SETTING_UP" => pc[p] \in {"wait", "early"}
  /\ ~SafeCallbacks /\ pc[p] \in {"start", "setup", "gotBuffer"} =>
       state[p] = "SETTING_UP"
  /\ pc[p] = "early" => EarlySetup
  /\ pc[p] \in {"format", "awaitFormat"} => avctx.updateContext
  /\ pc[p] = "awaitBuffer" => ~SafeCallbacks
  /\ state[p] # "INPUT_READY" => pkt[p] # 0

WorkerInv == \A p \in Workers : WorkerFits(p)

\* The places of a worker that may have the lock of the hwaccel.
MayHoldHw ==
  {"setup", "format", "awaitFormat", "awaitBuffer", "gotBuffer", "finish", "async",
   "ready", "body", "render", "end", "released", "unlock"}

\* Who has buffer_mutex and hwaccel_mutex, by the place of the worker; a worker
\* that has or wants the async lock has hwaccel_mutex as long as it decodes.
LockInv ==
  \A p \in Workers :
    /\ bufMutex = p <=> pc[p] \in {"awaitBuffer", "gotBuffer"}
    /\ hwMutex = p => pc[p] \in MayHoldHw
    /\ pc[p] \in {"async", "unlock"} => hwMutex = p
    /\ UsesHw(p) => avctx.updateContext
    /\ UsesHw(p) /\ Decoding(p) => hwMutex = p
    /\ asyncSer[p] => hwMutex = p \/ pc[p] = "unasync"
    /\ asyncSer[p] => pc[p] \in {"async", "ready", "body", "render", "end", "released",
                                 "unlock", "unasync"}
    /\ pc[p] \in {"async", "unasync"} => asyncSer[p]

Submitting == {"lock", "release", "prev", "copy", "ref"}
Deciding == Submitting \cup {"serve", "submitted", "delay"}
Closing == {"kill", "join", "close", "freed"}

\* The call that Main is in, and where its loop is.
CallInv ==
  /\ pc[Main] = "init" => op = "init"
  /\ op = "init" => pc[Main] \in {"init", "user"}
  /\ pc[Main] \in Deciding \cup {"collect", "take"} => op = "decode"
  /\ pc[Main] \in {"flush", "flushThread"} => op = "flush"
  /\ pc[Main] \in Closing => op = "free"
  /\ pc[Main] = "park" => op \in {"flush", "free"}
  /\ pc[Main] = "user" => op # "free"
  /\ op # "free" => count = NbThreads
  /\ pc[Main] \in Submitting => sent < MaxPackets
  /\ pc[Main] \notin {"collect", "take"} => nextDecoding < NbThreads
  /\ pc[Main] \in {"collect", "take"} => k < NbThreads
  /\ pc[Main] \in {"park", "flushThread", "kill"} => k <= count
  /\ pc[Main] \in {"join", "close"} => k < count
  /\ pc[Main] \in {"prev", "copy"} => prev # NoThread
  /\ pc[Main] \in Deciding \cup {"collect", "take"} =>
       (ending = "no" <=> ~empty) /\ ending # "done"
  /\ pc[Main] = "delay" => empty = TRUE
  /\ pc[Main] = "flush" => k = 0
  /\ pc[Main] \in {"collect", "take"} /\ delaying = TRUE => ending # "no"
  /\ delaying = TRUE /\ ending = "no" => nextFinished = 0

\* The workers that there are, from the first call to the last.
ExistInv ==
  /\ pc[Main] = "init" => \A p \in Workers : p >= k <=> pc[p] = "none"
  /\ pc[Main] # "init" /\ op # "free" => \A p \in Workers : pc[p] # "none"
  /\ \A p \in Workers : p >= count => pc[p] = "none"
  /\ \A p \in Workers : die[p] => pc[Main] \in Closing
  /\ \A p \in Workers : pc[p] = "gone" => die[p]

\* Main waits for the worker it takes a result from, and parks all of them before
\* it flushes or frees the decoder.
RestInv ==
  /\ pc[Main] = "take" => state[k] = "INPUT_READY"
  /\ pc[Main] = "park" => \A p \in Workers : p < k => state[p] = "INPUT_READY"
  /\ pc[Main] = "relock" /\ op # "decode" =>
       \A p \in Workers : state[p] = "INPUT_READY"
  /\ pc[Main] \in {"init", "flush", "flushThread"} \cup Closing =>
       \A p \in Workers : state[p] = "INPUT_READY"

\* From first up to next, around the ring: nobody, or everybody, if they are equal.
Window(first, next, p) ==
  IF first <= next THEN first <= p /\ p < next ELSE first <= p \/ p < next
FullWindow(first, next, p) ==
  IF first < next THEN first <= p /\ p < next ELSE first <= p \/ p < next

\* The workers whose results are not taken follow each other in the ring, and
\* nextDecoding is none of them.
RingInv ==
  \A p \in Workers : pkt[p] # 0 =>
    /\ pc[Main] \in {"serve", "submitted"} => Window(nextFinished, nextDecoding, p)
                                               \/ p = nextDecoding
    /\ pc[Main] \in {"collect", "take"} => /\ FullWindow(nextFinished, nextDecoding, p)
                                           /\ ~Window(nextFinished, k, p)
    /\ pc[Main] = "flushThread" => p >= k
    /\ pc[Main] \notin {"serve", "submitted", "collect", "take", "flushThread"} \cup Closing
         => Window(nextFinished, nextDecoding, p)

\* Each frame that a context or a worker refers to has a worker.
OwnerInv ==
  \A p \in Workers :
    /\ lastFrame[p] # 0 => owner[lastFrame[p]] # NoThread
    /\ refFrame[p] # 0 => owner[refFrame[p]] # NoThread

\* Callbacks are served before submit_packet returns.
ServeInv ==
  \A p \in Workers :
    /\ state[p] \in {"GET_FORMAT", "GET_BUFFER"} => Serves
    /\ Serves /\ state[p] \in {"SETTING_UP", "GET_FORMAT", "GET_BUFFER"} =>
         pc[Main] = "serve" /\ p = nextDecoding

\* The worker of the last packet, or the one that has its context.
Latest ==
  IF pc[Main] \in {"serve", "submitted"} THEN nextDecoding
  ELSE IF prev = NoThread THEN 0 ELSE prev

SetupInv ==
  avctx.updateContext =>
    /\ \A p \in Workers : Unparsed(p) => p = Latest /\ pkt[p] = sent /\ parsed[p] = sent - 1
    /\ ~Unparsed(Latest) => parsed[Latest] = sent
    /\ \A p \in Workers : pc[p] \in {"format", "awaitFormat"} => parsed[p] = pkt[p]
    /\ pc[Main] \in {"copy", "ref"} /\ prev # NoThread => ~InSetup(prev)
    /\ pc[Main] = "ref" => parsed[nextDecoding] = sent
    /\ prev = NoThread /\ pc[Main] \notin Closing => nextDecoding = 0

ReleaseInv ==
  /\ \A p \in Workers : p >= count \/ pc[Main] = "init" => released[p] = 0
  /\ pc[Main] \in Closing => \A p \in Workers : p < k => released[p] = 0
  /\ pc[Main] = "freed" => k = count

\* Around the ring from first on, p comes before q.
Before(first, p, q) == IF first <= p THEN p < q \/ q < first ELSE p < q /\ q < first

\* The packets in the order of the ring; until the end of the stream the window is
\* full of them.
OrderInv ==
  /\ \A p \in Workers : pkt[p] <= sent
  /\ \A p \in Workers : pkt[p] = 0 => out[p] = "none"
  /\ op = "flush" /\ pc[Main] = "user" => \A p \in Workers : pkt[p] = 0
  /\ pc[Main] = "flushThread" \/ (op = "flush" /\ pc[Main] = "user") =>
       nextDecoding = nextFinished
  /\ op \in {"init", "decode"} => \A p, q \in Workers :
       pkt[p] # 0 /\ pkt[q] # 0 /\ Before(nextFinished, p, q) => pkt[p] < pkt[q]

FilledInv ==
  op \in {"init", "decode"} /\ ending = "no" =>
    /\ pc[Main] \notin {"collect", "take"} =>
         \A p \in Workers : Window(nextFinished, nextDecoding, p) => pkt[p] # 0
    /\ pc[Main] \in {"serve", "submitted"} => pkt[nextDecoding] # 0
    /\ pc[Main] \in {"collect", "take"} =>
         /\ k = nextFinished
         /\ \A p \in Workers : FullWindow(nextFinished, nextDecoding, p) => pkt[p] # 0

Types == CallTypes /\ LockTypes /\ PlaceTypes /\ JobTypes /\ CodecTypes

FrameInv ==
  /\ Types /\ WorkerInv /\ LockInv /\ AsyncExclusive /\ CallInv /\ ExistInv
  /\ RestInv /\ RingInv /\ OwnerInv /\ ServeInv /\ SetupInv /\ ReleaseInv
  /\ OrderInv /\ FilledInv

-----------------------------------------------------------------------------
(* Facts about the constants *)

\* What is assumed of the constants.
LEMMA Sizes ==
  /\ NbThreads \in Nat /\ NbThreads > 1 /\ MaxPackets \in Nat
  /\ Workers \subseteq Nat /\ 0 \in Workers /\ Main \notin Workers /\ NoThread \notin Workers
  /\ Main # NoThread /\ Main \in Threads /\ Workers \subseteq Threads
BY FrameAssumption DEF Workers, Threads

\* What pthread_frame.c makes of the setting.
LEMMA SettingFacts ==
  ASSUME avctx \in Settings
  PROVE  /\ avctx.updateContext \in BOOLEAN /\ SafeCallbacks \in BOOLEAN /\ Serves \in BOOLEAN
         /\ avctx.hwaccels \subseteq {"safe", "unsafe"}
         /\ avctx.hwaccels # {} => avctx.updateContext
BY FrameAssumption DEF Setting, SafeCallbacks, Serves

\* The conditions that a thread may sleep on.
LEMMA ConditionFacts ==
  /\ Awake \in Conditions /\ Async \in Conditions
  /\ \A p \in Workers : {Input(p), Progress(p), Output(p)} \subseteq Conditions
BY DEF Conditions

-----------------------------------------------------------------------------
(* Types of the steps of a worker *)

\* A step of a worker keeps the types of all but the places.
LEMMA WorkerCallTypes ==
  ASSUME Types, WorkerInv, NEW p \in Workers, Worker(p)
  PROVE  CallTypes' /\ LockTypes' /\ JobTypes' /\ CodecTypes'
<1> USE Sizes, SettingFacts DEF Types, At, Goto, Sleep, WakeAll, ringVars, callVars,
      lockVars, jobVars, codecVars
<1>1. CASE AwaitPacket(p) \/ FinishEarly(p) \/ StartDecode(p)
  BY <1>1 DEF AwaitPacket, FinishEarly, StartDecode, SetupFinished, UsesHw, CanLockHw,
     CallTypes, LockTypes, JobTypes, CodecTypes
<1>2. CASE DecodeNothing(p) \/ GetFormat(p) \/ AwaitFormat(p)
  BY <1>2 DEF DecodeNothing, GetFormat, AwaitFormat, Parse, Return, ToFinish, ToPublish,
     UsesHw, ChooseFormat, CallTypes, LockTypes, JobTypes, CodecTypes
<1>3. CASE GetBuffer(p) \/ AwaitBuffer(p) \/ GotBuffer(p)
  BY <1>3 DEF GetBuffer, AwaitBuffer, GotBuffer, Parse, SetupFinished, Return, ToFinish,
     ToPublish, UsesHw, CallTypes, LockTypes, JobTypes, CodecTypes
<1>4. CASE AwaitProgress(p) \/ ReportProgress(p) \/ ReleaseBuffer(p) \/ DecodeReturns(p)
  <2>1. CallTypes'
    BY <1>4 DEF AwaitProgress, ReportProgress, ReleaseBuffer, DecodeReturns, Return, CallTypes
  <2>2. LockTypes'
    BY <1>4 DEF AwaitProgress, ReportProgress, ReleaseBuffer, DecodeReturns, Return, LockTypes
  <2>3. JobTypes'
    BY <1>4 DEF AwaitProgress, ReportProgress, ReleaseBuffer, DecodeReturns, Return, JobTypes
  <2>4. CodecTypes'
    <3>1. UNCHANGED <<parsed, lastFrame, refFrame, hw, owner>>
      BY <1>4 DEF AwaitProgress, ReportProgress, ReleaseBuffer, DecodeReturns
    <3>2. reported' = reported \/ ReportProgress(p)
      BY <1>4 DEF AwaitProgress, ReportProgress, ReleaseBuffer, DecodeReturns
    <3>3. ReportProgress(p) => pkt[p] \in Packets
      BY DEF ReportProgress, WorkerInv, WorkerFits, StateFits, JobTypes, Packets
    <3>4. reported' \subseteq Packets
      BY <3>2, <3>3 DEF ReportProgress, CodecTypes
    <3> QED BY <3>1, <3>4 DEF CodecTypes
  <2> QED BY <2>1, <2>2, <2>3, <2>4
<1>5. CASE FinishSetup(p) \/ LockAsync(p) \/ Ready(p)
  <2>1. CallTypes'
    BY <1>5 DEF FinishSetup, LockAsync, Ready, SetupFinished, CallTypes
  <2>2. LockTypes'
    BY <1>5 DEF FinishSetup, LockAsync, Ready, SetupFinished, LockTypes
  <2>3. JobTypes'
    BY <1>5 DEF FinishSetup, LockAsync, Ready, SetupFinished, JobTypes
  <2>4. CodecTypes'
    BY <1>5 DEF FinishSetup, LockAsync, Ready, SetupFinished, CodecTypes
  <2> QED BY <2>1, <2>2, <2>3, <2>4
<1>6. CASE UnlockHw(p)
  BY <1>6 DEF UnlockHw, CallTypes, LockTypes, JobTypes, CodecTypes
<1>7. CASE UnlockAsync(p) \/ Publish(p)
  <2>1. CallTypes'
    BY <1>7 DEF UnlockAsync, Publish, CallTypes
  <2>2. LockTypes'
    BY <1>7 DEF UnlockAsync, Publish, LockTypes
  <2>3. JobTypes'
    BY <1>7 DEF UnlockAsync, Publish, JobTypes
  <2>4. CodecTypes'
    BY <1>7 DEF UnlockAsync, Publish, CodecTypes
  <2> QED BY <2>1, <2>2, <2>3, <2>4
<1> QED BY <1>1, <1>2, <1>3, <1>4, <1>5, <1>6, <1>7 DEF Worker, Decoder

\* A worker goes from place to place of a worker.
LEMMA WorkerPlace ==
  ASSUME Types, NEW p \in Workers, Worker(p)
  PROVE  /\ pc' \in [Threads -> MainPlaces \cup WorkerPlaces]
         /\ pc'[Main] \in MainPlaces /\ \A q \in Workers : pc'[q] \in WorkerPlaces
<1> USE Sizes, SettingFacts DEF Types, At, Goto, Sleep, WakeAll, ringVars, callVars,
      lockVars, jobVars, codecVars
<1>1. CASE AwaitPacket(p) \/ FinishEarly(p) \/ StartDecode(p)
  BY <1>1 DEF AwaitPacket, FinishEarly, StartDecode, SetupFinished, UsesHw, CanLockHw,
     PlaceTypes, MainPlaces, WorkerPlaces
<1>2. CASE DecodeNothing(p) \/ GetFormat(p) \/ AwaitFormat(p)
  BY <1>2 DEF DecodeNothing, GetFormat, AwaitFormat, Parse, Return, ToFinish, ToPublish,
     UsesHw, ChooseFormat, PlaceTypes, MainPlaces, WorkerPlaces
<1>3. CASE GetBuffer(p) \/ AwaitBuffer(p) \/ GotBuffer(p)
  BY <1>3 DEF GetBuffer, AwaitBuffer, GotBuffer, Parse, SetupFinished, Return, ToFinish,
     ToPublish, UsesHw, PlaceTypes, MainPlaces, WorkerPlaces
<1>4. CASE AwaitProgress(p) \/ ReportProgress(p) \/ ReleaseBuffer(p) \/ DecodeReturns(p)
  BY <1>4 DEF AwaitProgress, ReportProgress, ReleaseBuffer, DecodeReturns, Complete,
     Return, ToFinish, ToPublish, UsesHw, PlaceTypes, MainPlaces, WorkerPlaces
<1>5. CASE FinishSetup(p) \/ LockAsync(p) \/ Ready(p)
  BY <1>5 DEF FinishSetup, LockAsync, Ready, CanLockHw, SetupFinished, ToPublish,
     PlaceTypes, MainPlaces, WorkerPlaces
<1>6. CASE UnlockHw(p) \/ UnlockAsync(p) \/ Publish(p)
  BY <1>6 DEF UnlockHw, UnlockAsync, Publish, PlaceTypes, MainPlaces, WorkerPlaces
<1> QED BY <1>1, <1>2, <1>3, <1>4, <1>5, <1>6 DEF Worker, Decoder

\* A worker that awaits the progress of a frame sleeps with the worker of the frame.
LEMMA WorkerSleep ==
  ASSUME Types, OwnerInv, NEW p \in Workers, Worker(p)
  PROVE  asleep' \in [Threads -> Conditions]
<1> USE Sizes, SettingFacts DEF Types, At, Goto, Sleep, WakeAll, ringVars, callVars,
      lockVars, jobVars, codecVars
<1>1. CASE AwaitPacket(p) \/ FinishEarly(p) \/ StartDecode(p)
  BY <1>1, ConditionFacts DEF AwaitPacket, FinishEarly, StartDecode, SetupFinished,
     UsesHw, CanLockHw, PlaceTypes
<1>2. CASE DecodeNothing(p) \/ GetFormat(p) \/ AwaitFormat(p)
  BY <1>2, ConditionFacts DEF DecodeNothing, GetFormat, AwaitFormat, Parse, Return,
     ToFinish, ToPublish, UsesHw, ChooseFormat, PlaceTypes
<1>3. CASE GetBuffer(p) \/ AwaitBuffer(p) \/ GotBuffer(p)
  BY <1>3, ConditionFacts DEF GetBuffer, AwaitBuffer, GotBuffer, Parse, SetupFinished,
     Return, ToFinish, ToPublish, UsesHw, PlaceTypes
<1>4. CASE AwaitProgress(p)
  <2>1. CASE Complete(refFrame[p])
    BY <1>4, <2>1 DEF AwaitProgress, PlaceTypes
  <2>2. CASE ~Complete(refFrame[p])
    <3>1. refFrame[p] # 0
      BY <2>2 DEF Complete
    <3>2. refFrame[p] \in Packets /\ owner[refFrame[p]] # NoThread
      BY <3>1 DEF OwnerInv, CodecTypes, Packets
    <3>3. owner[refFrame[p]] \in Workers
      BY <3>2 DEF CodecTypes
    <3> QED BY <1>4, <2>2, <3>3, ConditionFacts DEF AwaitProgress, PlaceTypes
  <2> QED BY <2>1, <2>2
<1>5. CASE ReportProgress(p) \/ ReleaseBuffer(p) \/ DecodeReturns(p)
  BY <1>5, ConditionFacts DEF ReportProgress, ReleaseBuffer, DecodeReturns, Return,
     ToFinish, ToPublish, UsesHw, PlaceTypes
<1>6. CASE FinishSetup(p) \/ LockAsync(p) \/ Ready(p)
  BY <1>6, ConditionFacts DEF FinishSetup, LockAsync, Ready, CanLockHw, SetupFinished,
     ToPublish, PlaceTypes
<1>7. CASE UnlockHw(p) \/ UnlockAsync(p) \/ Publish(p)
  BY <1>7, ConditionFacts DEF UnlockHw, UnlockAsync, Publish, PlaceTypes
<1> QED BY <1>1, <1>2, <1>3, <1>4, <1>5, <1>6, <1>7 DEF Worker, Decoder

-----------------------------------------------------------------------------
(* Types of the steps of Main *)

\* A step of Main keeps the types of the call and the ring.
LEMMA MainCallTypes ==
  ASSUME Types, CallInv, Client \/ Calling
  PROVE  CallTypes'
<1> USE Sizes, SettingFacts DEF Types, At, Goto, Sleep, WakeAll, ringVars, callVars,
      lockVars, jobVars, codecVars
<1>1. CASE InitThread
  BY <1>1 DEF InitThread, CallTypes, JobTypes, CallInv, Workers, CallResults
<1>2. CASE Initialised
  BY <1>2 DEF Initialised, CallTypes, JobTypes, CallInv, Workers, CallResults
<1>3. CASE InitFails
  BY <1>3 DEF InitFails, BeginCall, CallTypes, JobTypes, CallInv, Workers, CallResults
<1>4. CASE LockThread
  BY <1>4 DEF LockThread, SubmitFails, ToPrev, P, CallTypes, JobTypes, CallInv, Workers,
     CallResults
<1>5. CASE ReleaseDelayed
  BY <1>5 DEF ReleaseDelayed, ToPrev, P, CallTypes, JobTypes, CallInv, Workers,
     CallResults
<1>6. CASE AwaitSetup
  BY <1>6 DEF AwaitSetup, CallTypes, JobTypes, CallInv, Workers, CallResults
<1>7. CASE Copy
  BY <1>7 DEF Copy, CopyContext, SubmitFails, P, CallTypes, JobTypes, CallInv, Workers,
     CallResults
<1>8. CASE Submit
  <2>1. sent < MaxPackets
    BY <1>8 DEF Submit, CallInv, Submitting, PlaceTypes
  <2>2. sent' \in {sent, sent + 1} /\ reply' \in {reply, "error"}
    BY <1>8 DEF Submit, SubmitFails
  <2>3. UNCHANGED <<ringVars, op, empty, k, ending, count>>
    BY <1>8 DEF Submit, SubmitFails
  <2> QED BY <2>1, <2>2, <2>3 DEF CallTypes, CallResults
<1>9. CASE Serve
  BY <1>9 DEF Serve, WakeOne, P, CallTypes, JobTypes, CallInv, Workers, CallResults
<1>10. CASE Submitted
  BY <1>10 DEF Submitted, Delays, P, CallTypes, JobTypes, CallInv, Workers, CallResults
<1>11. CASE NotSubmitted
  BY <1>11 DEF NotSubmitted, Delays, CallTypes, JobTypes, CallInv, Workers, CallResults
<1>12. CASE AwaitOutput
  BY <1>12 DEF AwaitOutput, CallTypes, JobTypes, CallInv, Workers, CallResults
<1>13. CASE Take
  <2>1. k < NbThreads /\ out[k] \in CallResults
    BY <1>13 DEF Take, CallInv, JobTypes, CallTypes, Workers, CallResults
  <2>2. AfterThis \in Workers
    BY <2>1 DEF AfterThis, CallTypes, Workers
  <2>3. UNCHANGED <<avctx, delaying, prev, op, empty, sent, count>>
    BY <1>13 DEF Take
  <2>4. k' \in {k, AfterThis} /\ nextFinished' \in {nextFinished, AfterThis}
    BY <1>13 DEF Take
  <2>5. nextDecoding' \in {0, nextDecoding} /\ reply' \in {reply, "eof", out[k]}
          /\ ending' \in {ending, "done"}
    BY <1>13 DEF Take
  <2> QED BY <2>1, <2>2, <2>3, <2>4, <2>5 DEF CallTypes, Workers, CallResults
<1>14. CASE Relock
  BY <1>14 DEF Relock, CallTypes, JobTypes, CallInv, Workers, CallResults
<1>15. CASE Park
  BY <1>15 DEF Park, CallTypes, JobTypes, CallInv, Workers, CallResults
<1>16. CASE Parked
  BY <1>16 DEF Parked, CallTypes, JobTypes, CallInv, Workers, CallResults
<1>17. CASE FlushRing
  BY <1>17 DEF FlushRing, CopyToFirst, CopyContext, CallTypes, JobTypes, CallInv, Workers,
     CallResults
<1>18. CASE FlushThread
  BY <1>18 DEF FlushThread, MoreReleased, CallTypes, JobTypes, CallInv, Workers,
     CallResults
<1>19. CASE Flushed
  BY <1>19 DEF Flushed, CallTypes, JobTypes, CallInv, Workers, CallResults
<1>20. CASE Kill
  BY <1>20 DEF Kill, WakeOne, CopyToFirst, CopyContext, CallTypes, JobTypes, CallInv,
     Workers, CallResults
<1>21. CASE Join
  BY <1>21 DEF Join, MoreReleased, CallTypes, JobTypes, CallInv, Workers, CallResults
<1>22. CASE Close
  BY <1>22 DEF Close, CallTypes, JobTypes, CallInv, Workers, CallResults
<1>23. CASE Freed
  BY <1>23 DEF Freed, CallTypes, JobTypes, CallInv, Workers, CallResults
<1>24. CASE Client
  <2>1. UNCHANGED <<ringVars, sent, count>> /\ op' \in {"decode", "flush", "free"} /\ k' = 0
    BY <1>24 DEF Client, Decode, Flush, Free, BeginCall
  <2>2. reply' \in {reply, "flushed"} /\ empty' \in {empty, TRUE, FALSE}
          /\ ending' \in {ending, "draining", "no"}
    BY <1>24 DEF Client, Decode, Flush, Free, BeginCall
  <2>3. reply' \in CallResults /\ empty' \in BOOLEAN /\ ending' \in {"no", "draining", "done"}
    BY <2>2 DEF CallTypes, CallResults
  <2>4. k' \in 0 .. NbThreads
    BY <2>1
  <2> QED BY <2>1, <2>3, <2>4 DEF CallTypes
<1> QED BY <1>1, <1>2, <1>3, <1>4, <1>5, <1>6, <1>7, <1>8, <1>9, <1>10, <1>11, <1>12,
      <1>13, <1>14, <1>15, <1>16, <1>17, <1>18, <1>19, <1>20, <1>21, <1>22, <1>23, <1>24
      DEF Calling

\* A step of Main keeps the types of the jobs, where its loop is at a worker.
LEMMA MainJobTypes ==
  ASSUME Types, CallInv, Client \/ Calling
  PROVE  JobTypes'
<1> USE Sizes, SettingFacts DEF Types, At, Goto, Sleep, WakeAll, ringVars, callVars,
      lockVars, jobVars, codecVars
<1>1. CASE InitThread \/ Initialised \/ InitFails
  BY <1>1 DEF InitThread, Initialised, InitFails, BeginCall, JobTypes, CallTypes, CallInv
<1>2. CASE LockThread \/ ReleaseDelayed \/ AwaitSetup \/ Copy
  BY <1>2 DEF LockThread, ReleaseDelayed, AwaitSetup, Copy, SubmitFails, ToPrev, P,
     CopyContext, JobTypes, CallTypes, CallInv
<1>3. CASE Submit
  <2>1. UNCHANGED <<die, out, released>>
          /\ \/ UNCHANGED <<pkt, state>>
             \/ /\ sent' = sent + 1 /\ pkt' = [pkt EXCEPT ![nextDecoding] = sent']
                /\ state' = [state EXCEPT ![nextDecoding] = "SETTING_UP"]
    BY <1>3 DEF Submit, SubmitFails, P
  <2>2. sent < MaxPackets
    BY <1>3 DEF Submit, CallInv, Submitting
  <2>3. sent \in Nat /\ sent + 1 \in 0 .. MaxPackets
    BY <2>2 DEF CallTypes
  <2> QED BY <2>1, <2>3 DEF JobTypes
<1>4. CASE Serve
  BY <1>4 DEF Serve, WakeOne, P, JobTypes, CallTypes, CallInv
<1>5. CASE Submitted \/ NotSubmitted \/ AwaitOutput \/ Take
  BY <1>5 DEF Submitted, NotSubmitted, AwaitOutput, Take, Delays, P, AfterThis, JobTypes,
     CallTypes, CallInv
<1>6. CASE Relock \/ Park \/ Parked
  BY <1>6 DEF Relock, Park, Parked, JobTypes, CallTypes, CallInv
<1>7. CASE FlushRing \/ FlushThread \/ Flushed
  BY <1>7 DEF FlushRing, FlushThread, Flushed, CopyToFirst, CopyContext, MoreReleased,
     JobTypes, CallTypes, CallInv
<1>8. CASE Kill
  BY <1>8 DEF Kill, WakeOne, CopyToFirst, CopyContext, JobTypes, CallTypes, CallInv
<1>9. CASE Join
  <2>1. k \in Workers
    BY <1>9 DEF Join, CallInv, CallTypes, Workers
  <2>2. released[k] \in Nat
    BY <2>1 DEF JobTypes
  <2>3. MoreReleased(released[k]) \subseteq Nat
    BY <2>2 DEF MoreReleased
  <2> QED BY <1>9, <2>3 DEF Join, JobTypes
<1>10. CASE Close \/ Freed
  BY <1>10 DEF Close, Freed, JobTypes, CallTypes, CallInv
<1>11. CASE Client
  BY <1>11 DEF Client, Decode, Flush, Free, BeginCall, JobTypes, CallTypes, CallInv
<1> QED BY <1>1, <1>2, <1>3, <1>4, <1>5, <1>6, <1>7, <1>8, <1>9, <1>10, <1>11 DEF Calling

\* A step of Main keeps the types of the contexts.
LEMMA MainCodecTypes ==
  ASSUME Types, CallInv, Client \/ Calling
  PROVE  CodecTypes'
<1> USE Sizes, SettingFacts DEF Types, At, Goto, Sleep, WakeAll, ringVars, callVars,
      lockVars, jobVars, codecVars
<1>1. CASE InitThread \/ Initialised \/ InitFails
  BY <1>1 DEF InitThread, Initialised, InitFails, BeginCall, CallTypes, CodecTypes,
     JobTypes
<1>2. CASE LockThread \/ ReleaseDelayed \/ AwaitSetup \/ Copy
  <2>1. CASE Copy
    <3>1. prev \in Workers
      BY <2>1 DEF Copy, CallInv, CallTypes
    <3>2. {parsed[prev], lastFrame[prev]} \subseteq 0 .. MaxPackets
            /\ hw[prev] \in {"none", "safe", "unsafe"}
      <4>1. parsed[prev] \in 0 .. MaxPackets /\ lastFrame[prev] \in 0 .. MaxPackets
        BY <3>1 DEF CodecTypes
      <4>2. hw[prev] \in {"none", "safe", "unsafe"}
        BY <3>1 DEF CodecTypes
      <4> QED BY <4>1, <4>2
    <3> QED BY <2>1, <3>2 DEF Copy, CopyContext, CodecTypes
  <2>2. CASE LockThread \/ ReleaseDelayed \/ AwaitSetup
    BY <2>2 DEF LockThread, ReleaseDelayed, AwaitSetup, CodecTypes
  <2> QED BY <1>2, <2>1, <2>2
<1>3. CASE Submit \/ Serve
  BY <1>3 DEF Submit, Serve, WakeOne, SubmitFails, P, CallTypes, CodecTypes, JobTypes
<1>4. CASE Submitted \/ NotSubmitted \/ AwaitOutput \/ Take
  BY <1>4 DEF Submitted, NotSubmitted, AwaitOutput, Take, Delays, P, AfterThis, CallTypes,
     CodecTypes, JobTypes
<1>5. CASE Relock \/ Park \/ Parked
  BY <1>5 DEF Relock, Park, Parked, CallTypes, CodecTypes, JobTypes
<1>6. CASE FlushRing
  BY <1>6 DEF FlushRing, CopyToFirst, CopyContext, CallTypes, CodecTypes, JobTypes
<1>7. CASE FlushThread
  <2>1. UNCHANGED <<parsed, refFrame, hw, owner, reported>>
          /\ lastFrame' = [lastFrame EXCEPT ![k] = 0]
    BY <1>7 DEF FlushThread
  <2>2. 0 \in 0 .. MaxPackets
    OBVIOUS
  <2> QED BY <2>1, <2>2 DEF CodecTypes
<1>8. CASE Flushed
  BY <1>8 DEF Flushed, CallTypes, CodecTypes, JobTypes
<1>9. CASE Kill \/ Join \/ Close \/ Freed
  BY <1>9 DEF Kill, Join, Close, Freed, WakeOne, CopyToFirst, CopyContext, MoreReleased,
     CallTypes, CodecTypes, JobTypes
<1>10. CASE Client
  BY <1>10 DEF Client, Decode, Flush, Free, BeginCall, CallTypes, CodecTypes, JobTypes
<1> QED BY <1>1, <1>2, <1>3, <1>4, <1>5, <1>6, <1>7, <1>8, <1>9, <1>10 DEF Calling

\* A step of Main keeps the types of the locks.
LEMMA MainLockTypes ==
  ASSUME Types, Client \/ Calling
  PROVE  LockTypes'
<1> USE Sizes, SettingFacts DEF Types, At, Goto, Sleep, WakeAll, ringVars, callVars,
      lockVars, jobVars, codecVars
<1>1. CASE InitThread \/ Initialised \/ InitFails
  BY <1>1 DEF InitThread, Initialised, InitFails, BeginCall, LockTypes, CallTypes
<1>2. CASE LockThread \/ ReleaseDelayed \/ AwaitSetup \/ Copy
  BY <1>2 DEF LockThread, ReleaseDelayed, AwaitSetup, Copy, SubmitFails, ToPrev, P,
     CopyContext, LockTypes, CallTypes
<1>3. CASE Submit \/ Serve
  BY <1>3 DEF Submit, Serve, WakeOne, SubmitFails, P, LockTypes, CallTypes
<1>4. CASE Submitted \/ NotSubmitted \/ AwaitOutput \/ Take
  BY <1>4 DEF Submitted, NotSubmitted, AwaitOutput, Take, Delays, P, AfterThis, LockTypes,
     CallTypes
<1>5. CASE Relock \/ Park \/ Parked
  BY <1>5 DEF Relock, Park, Parked, LockTypes, CallTypes
<1>6. CASE FlushRing \/ FlushThread \/ Flushed
  BY <1>6 DEF FlushRing, FlushThread, Flushed, CopyToFirst, CopyContext, MoreReleased,
     LockTypes, CallTypes
<1>7. CASE Kill \/ Join \/ Close \/ Freed
  BY <1>7 DEF Kill, Join, Close, Freed, WakeOne, CopyToFirst, CopyContext, MoreReleased,
     LockTypes, CallTypes
<1>8. CASE Client
  BY <1>8 DEF Client, Decode, Flush, Free, BeginCall, LockTypes, CallTypes
<1> QED BY <1>1, <1>2, <1>3, <1>4, <1>5, <1>6, <1>7, <1>8 DEF Calling

\* Main goes from place to place of Main, and creates workers.
LEMMA MainPlace ==
  ASSUME Types, CallInv, Client \/ Calling
  PROVE  /\ pc' \in [Threads -> MainPlaces \cup WorkerPlaces]
         /\ pc'[Main] \in MainPlaces /\ \A q \in Workers : pc'[q] \in WorkerPlaces
<1> USE Sizes, SettingFacts DEF Types, At, Goto, Sleep, WakeAll, ringVars, callVars,
      lockVars, jobVars, codecVars
<1>1. CASE InitThread \/ Initialised \/ InitFails
  BY <1>1 DEF InitThread, Initialised, InitFails, BeginCall, PlaceTypes, MainPlaces,
     WorkerPlaces, CallTypes, CallInv, Workers
<1>2. CASE LockThread \/ ReleaseDelayed \/ AwaitSetup \/ Copy
  BY <1>2 DEF LockThread, ReleaseDelayed, AwaitSetup, Copy, SubmitFails, ToPrev, P,
     CopyContext, PlaceTypes, MainPlaces, WorkerPlaces, CallTypes, CallInv, Workers
<1>3. CASE Submit \/ Serve
  BY <1>3 DEF Submit, Serve, WakeOne, SubmitFails, P, PlaceTypes, MainPlaces,
     WorkerPlaces, CallTypes, CallInv, Workers
<1>4. CASE Submitted \/ NotSubmitted \/ AwaitOutput \/ Take
  BY <1>4 DEF Submitted, NotSubmitted, AwaitOutput, Take, Delays, P, AfterThis,
     PlaceTypes, MainPlaces, WorkerPlaces, CallTypes, CallInv, Workers
<1>5. CASE Relock
  BY <1>5 DEF Relock, PlaceTypes, MainPlaces, WorkerPlaces, CallTypes, CallInv, Workers
<1>6. CASE Park
  BY <1>6 DEF Park, PlaceTypes, MainPlaces, WorkerPlaces, CallTypes, CallInv, Workers
<1>7. CASE Parked
  BY <1>7 DEF Parked, PlaceTypes, MainPlaces, WorkerPlaces, CallTypes, CallInv, Workers
<1>8. CASE FlushRing \/ FlushThread \/ Flushed
  BY <1>8 DEF FlushRing, FlushThread, Flushed, CopyToFirst, CopyContext, MoreReleased,
     PlaceTypes, MainPlaces, WorkerPlaces, CallTypes, CallInv, Workers
<1>9. CASE Kill \/ Join \/ Close \/ Freed
  BY <1>9 DEF Kill, Join, Close, Freed, WakeOne, CopyToFirst, CopyContext, MoreReleased,
     PlaceTypes, MainPlaces, WorkerPlaces, CallTypes, CallInv, Workers
<1>10. CASE Client
  BY <1>10 DEF Client, Decode, Flush, Free, BeginCall, PlaceTypes, MainPlaces,
     WorkerPlaces, CallTypes, CallInv, Workers
<1> QED BY <1>1, <1>2, <1>3, <1>4, <1>5, <1>6, <1>7, <1>8, <1>9, <1>10 DEF Calling

\* Main sleeps on a condition of a worker that there is.
LEMMA MainSleep ==
  ASSUME Types, CallInv, Client \/ Calling
  PROVE  asleep' \in [Threads -> Conditions]
<1> USE Sizes, SettingFacts DEF Types, At, Goto, Sleep, WakeAll, ringVars, callVars,
      lockVars, jobVars, codecVars
<1>1. CASE InitThread \/ Initialised \/ InitFails
  BY <1>1, ConditionFacts DEF InitThread, Initialised, InitFails, BeginCall, PlaceTypes,
     CallTypes
<1>2. CASE LockThread \/ ReleaseDelayed
  BY <1>2, ConditionFacts DEF LockThread, ReleaseDelayed, SubmitFails, ToPrev, P,
     PlaceTypes, CallTypes
<1>3. CASE AwaitSetup
  <2>1. prev \in Workers
    BY <1>3 DEF AwaitSetup, CallTypes, CallInv
  <2> QED BY <1>3, <2>1, ConditionFacts DEF AwaitSetup, PlaceTypes, WakeOne, Sleepers
<1>4. CASE Copy
  BY <1>4, ConditionFacts DEF Copy, CopyContext, SubmitFails, P, PlaceTypes, CallTypes
<1>5. CASE Submit
  BY <1>5, ConditionFacts DEF Submit, WakeOne, SubmitFails, P, PlaceTypes, CallTypes
<1>6. CASE Serve
  <2>1. P \in Workers
    BY <1>6 DEF Serve, P, CallTypes, CallInv, Deciding, Workers
  <2> QED BY <1>6, <2>1, ConditionFacts DEF Serve, PlaceTypes, WakeOne, Sleepers
<1>7. CASE Submitted \/ NotSubmitted
  BY <1>7, ConditionFacts DEF Submitted, NotSubmitted, Delays, P, PlaceTypes, CallTypes
<1>8. CASE AwaitOutput
  <2>1. k \in Workers
    BY <1>8 DEF AwaitOutput, CallTypes, CallInv, Workers
  <2> QED BY <1>8, <2>1, ConditionFacts DEF AwaitOutput, PlaceTypes, WakeOne, Sleepers
<1>9. CASE Take
  BY <1>9, ConditionFacts DEF Take, AfterThis, PlaceTypes, CallTypes
<1>10. CASE Relock
  BY <1>10, ConditionFacts DEF Relock, PlaceTypes, CallTypes
<1>11. CASE Park
  <2>1. k \in Workers
    BY <1>11 DEF Park, CallTypes, CallInv, Workers
  <2> QED BY <1>11, <2>1, ConditionFacts DEF Park, PlaceTypes, WakeOne, Sleepers
<1>12. CASE Parked
  BY <1>12, ConditionFacts DEF Parked, PlaceTypes, CallTypes
<1>13. CASE FlushRing \/ FlushThread \/ Flushed
  BY <1>13, ConditionFacts DEF FlushRing, FlushThread, Flushed, CopyToFirst, CopyContext,
     MoreReleased, PlaceTypes, CallTypes
<1>14. CASE Kill \/ Join \/ Close \/ Freed
  BY <1>14, ConditionFacts DEF Kill, Join, Close, Freed, WakeOne, CopyToFirst,
     CopyContext, MoreReleased, PlaceTypes, CallTypes
<1>15. CASE Client
  BY <1>15, ConditionFacts DEF Client, Decode, Flush, Free, BeginCall, PlaceTypes,
     CallTypes
<1> QED BY <1>1, <1>2, <1>3, <1>4, <1>5, <1>6, <1>7, <1>8, <1>9, <1>10, <1>11, <1>12,
      <1>13, <1>14, <1>15 DEF Calling

\* A step of a worker keeps the types.
LEMMA WorkerTypes ==
  ASSUME Types, WorkerInv, OwnerInv, NEW p \in Workers, Worker(p)
  PROVE  Types'
<1>1. CallTypes' /\ LockTypes' /\ JobTypes' /\ CodecTypes'
  BY WorkerCallTypes
<1>2. PlaceTypes'
  BY WorkerPlace, WorkerSleep DEF PlaceTypes
<1> QED BY <1>1, <1>2 DEF Types

\* A step of Main keeps the types.
LEMMA MainTypes ==
  ASSUME Types, CallInv, Client \/ Calling
  PROVE  Types'
<1>1. PlaceTypes'
  BY MainPlace, MainSleep DEF PlaceTypes
<1> QED BY <1>1, MainCallTypes, MainLockTypes, MainJobTypes, MainCodecTypes DEF Types

-----------------------------------------------------------------------------
(* What a step leaves alone *)

\* A worker changes nothing of the other workers, or of the call.
LEMMA WorkerTouches ==
  ASSUME Types, NEW p \in Workers, Worker(p)
  PROVE  /\ UNCHANGED <<ringVars, callVars, die, pkt>> /\ pc'[Main] = pc[Main]
         /\ \A q \in Workers \ {p} :
              pc'[q] = pc[q] /\ state'[q] = state[q] /\ released'[q] = released[q]
<1> USE Sizes, SettingFacts DEF Types, At, Goto, Sleep, WakeAll, ringVars, callVars,
      lockVars, jobVars, codecVars
<1>1. CASE AwaitPacket(p) \/ FinishEarly(p) \/ StartDecode(p)
  BY <1>1 DEF AwaitPacket, FinishEarly, StartDecode, SetupFinished, UsesHw, CanLockHw,
     PlaceTypes, JobTypes
<1>2. CASE DecodeNothing(p) \/ GetFormat(p) \/ AwaitFormat(p)
  BY <1>2 DEF DecodeNothing, GetFormat, AwaitFormat, Parse, Return, ToFinish, ToPublish,
     UsesHw, ChooseFormat, PlaceTypes, JobTypes
<1>3. CASE GetBuffer(p) \/ AwaitBuffer(p) \/ GotBuffer(p)
  BY <1>3 DEF GetBuffer, AwaitBuffer, GotBuffer, Parse, SetupFinished, Return, ToFinish,
     ToPublish, UsesHw, PlaceTypes, JobTypes
<1>4. CASE AwaitProgress(p) \/ ReportProgress(p) \/ ReleaseBuffer(p) \/ DecodeReturns(p)
  BY <1>4 DEF AwaitProgress, ReportProgress, ReleaseBuffer, DecodeReturns, Complete,
     Return, ToFinish, ToPublish, UsesHw, PlaceTypes, JobTypes
<1>5. CASE FinishSetup(p) \/ LockAsync(p) \/ Ready(p)
  BY <1>5 DEF FinishSetup, LockAsync, Ready, CanLockHw, SetupFinished, ToPublish,
     PlaceTypes, JobTypes
<1>6. CASE UnlockHw(p) \/ UnlockAsync(p) \/ Publish(p)
  BY <1>6 DEF UnlockHw, UnlockAsync, Publish, PlaceTypes, JobTypes
<1> QED BY <1>1, <1>2, <1>3, <1>4, <1>5, <1>6 DEF Worker, Decoder

\* A worker that steps was created, and one that rests does not leave its rest.
LEMMA WorkerBusy ==
  ASSUME Types, WorkerInv, NEW p \in Workers, Worker(p)
  PROVE  /\ pc[p] \notin {"none", "gone"} /\ pc'[p] # "none"
         /\ state[p] = "INPUT_READY" =>
              state'[p] = "INPUT_READY" /\ released'[p] = released[p]
<1> USE Sizes, SettingFacts DEF Types, At, Goto, Sleep, WakeAll, ringVars, callVars,
      lockVars, jobVars, codecVars
<1>1. CASE AwaitPacket(p) \/ FinishEarly(p) \/ StartDecode(p)
  BY <1>1 DEF AwaitPacket, FinishEarly, StartDecode, SetupFinished, UsesHw, CanLockHw,
     WorkerInv, WorkerFits, StateFits, PlaceTypes, JobTypes
<1>2. CASE DecodeNothing(p) \/ GetFormat(p) \/ AwaitFormat(p)
  BY <1>2 DEF DecodeNothing, GetFormat, AwaitFormat, Parse, Return, ToFinish, ToPublish,
     UsesHw, ChooseFormat, WorkerInv, WorkerFits, StateFits, PlaceTypes, JobTypes
<1>3. CASE GetBuffer(p) \/ AwaitBuffer(p) \/ GotBuffer(p)
  BY <1>3 DEF GetBuffer, AwaitBuffer, GotBuffer, Parse, SetupFinished, Return, ToFinish,
     ToPublish, UsesHw, WorkerInv, WorkerFits, StateFits, PlaceTypes, JobTypes
<1>4. CASE AwaitProgress(p) \/ ReportProgress(p) \/ ReleaseBuffer(p) \/ DecodeReturns(p)
  BY <1>4 DEF AwaitProgress, ReportProgress, ReleaseBuffer, DecodeReturns, Complete,
     Return, ToFinish, ToPublish, UsesHw, WorkerInv, WorkerFits, StateFits, PlaceTypes,
     JobTypes
<1>5. CASE FinishSetup(p) \/ LockAsync(p) \/ Ready(p)
  BY <1>5 DEF FinishSetup, LockAsync, Ready, CanLockHw, SetupFinished, ToPublish,
     WorkerInv, WorkerFits, StateFits, PlaceTypes, JobTypes
<1>6. CASE UnlockHw(p) \/ UnlockAsync(p) \/ Publish(p)
  BY <1>6 DEF UnlockHw, UnlockAsync, Publish, WorkerInv, WorkerFits, StateFits,
     PlaceTypes, JobTypes
<1> QED BY <1>1, <1>2, <1>3, <1>4, <1>5, <1>6 DEF Worker, Decoder

\* Main moves no worker, except that it creates them.
LEMMA MainTouches ==
  ASSUME Types, ExistInv, Client \/ Calling
  PROVE  /\ avctx' = avctx
         /\ \A q \in Workers :
              pc'[q] = pc[q] \/ (pc[Main] = "init" /\ pc[q] = "none" /\ pc'[q] = "wait")
<1> USE Sizes, SettingFacts DEF Types, At, Goto, Sleep, WakeAll, ringVars, callVars,
      lockVars, jobVars, codecVars
<1>1. CASE InitThread \/ Initialised \/ InitFails
  BY <1>1 DEF InitThread, Initialised, InitFails, BeginCall, PlaceTypes, ExistInv,
     CallTypes
<1>2. CASE LockThread \/ ReleaseDelayed \/ AwaitSetup \/ Copy
  BY <1>2 DEF LockThread, ReleaseDelayed, AwaitSetup, Copy, SubmitFails, ToPrev, P,
     CopyContext, PlaceTypes, ExistInv, CallTypes
<1>3. CASE Submit \/ Serve
  BY <1>3 DEF Submit, Serve, WakeOne, SubmitFails, P, PlaceTypes, ExistInv, CallTypes
<1>4. CASE Submitted \/ NotSubmitted \/ AwaitOutput \/ Take
  BY <1>4 DEF Submitted, NotSubmitted, AwaitOutput, Take, Delays, P, AfterThis,
     PlaceTypes, ExistInv, CallTypes
<1>5. CASE Relock \/ Park \/ Parked
  BY <1>5 DEF Relock, Park, Parked, PlaceTypes, ExistInv, CallTypes
<1>6. CASE FlushRing \/ FlushThread \/ Flushed
  BY <1>6 DEF FlushRing, FlushThread, Flushed, CopyToFirst, CopyContext, MoreReleased,
     PlaceTypes, ExistInv, CallTypes
<1>7. CASE Kill \/ Join \/ Close \/ Freed
  BY <1>7 DEF Kill, Join, Close, Freed, WakeOne, CopyToFirst, CopyContext, MoreReleased,
     PlaceTypes, ExistInv, CallTypes
<1>8. CASE Client
  BY <1>8 DEF Client, Decode, Flush, Free, BeginCall, PlaceTypes, ExistInv, CallTypes
<1> QED BY <1>1, <1>2, <1>3, <1>4, <1>5, <1>6, <1>7, <1>8 DEF Calling

\* The steps of Main that do anything for a worker are few.
LEMMA MainJobs ==
  ASSUME Types, Client \/ Calling
  PROVE  \/ UNCHANGED <<state, pkt>>
         \/ Submit \/ Serve \/ Take \/ FlushThread
<1> USE Sizes, SettingFacts DEF Types, At, Goto, Sleep, WakeAll, ringVars, callVars,
      lockVars, jobVars, codecVars
<1>1. CASE InitThread \/ Initialised \/ InitFails
  BY <1>1 DEF InitThread, Initialised, InitFails, BeginCall, CallTypes
<1>2. CASE LockThread \/ ReleaseDelayed \/ AwaitSetup \/ Copy
  BY <1>2 DEF LockThread, ReleaseDelayed, AwaitSetup, Copy, SubmitFails, ToPrev, P,
     CopyContext, CallTypes
<1>3. CASE Submitted \/ NotSubmitted \/ AwaitOutput
  BY <1>3 DEF Submitted, NotSubmitted, AwaitOutput, Delays, P, CallTypes
<1>4. CASE Relock \/ Park \/ Parked
  BY <1>4 DEF Relock, Park, Parked, CallTypes
<1>5. CASE FlushRing \/ Flushed
  BY <1>5 DEF FlushRing, Flushed, CopyToFirst, CopyContext, CallTypes
<1>6. CASE Kill \/ Join \/ Close \/ Freed
  BY <1>6 DEF Kill, Join, Close, Freed, WakeOne, CopyToFirst, CopyContext, MoreReleased,
     CallTypes
<1>7. CASE Client
  BY <1>7 DEF Client, Decode, Flush, Free, BeginCall, CallTypes
<1>8. CASE Submit \/ Serve \/ Take \/ FlushThread
  BY <1>8 DEF Submit, Serve, Take, FlushThread, WakeOne, SubmitFails, P, AfterThis,
     MoreReleased, CallTypes
<1> QED BY <1>1, <1>2, <1>3, <1>4, <1>5, <1>6, <1>7, <1>8 DEF Calling

\* Main takes and gives up no lock of the hwaccels or of the buffers.
LEMMA MainLocks ==
  ASSUME Client \/ Calling
  PROVE  UNCHANGED <<hwMutex, bufMutex, asyncSer>>
<1> USE DEF lockVars
<1>1. CASE \/ InitThread \/ Initialised \/ InitFails \/ LockThread \/ ReleaseDelayed \/ AwaitSetup
           \/ Copy \/ Submit \/ Serve
  BY <1>1 DEF InitThread, Initialised, InitFails, LockThread, ReleaseDelayed, AwaitSetup,
     Copy, Submit, Serve
<1>2. CASE Submitted \/ NotSubmitted \/ AwaitOutput \/ Take \/ Relock \/ Park \/ Parked
  BY <1>2 DEF Submitted, NotSubmitted, Delays, AwaitOutput, Take, Relock, Park, Parked
<1>3. CASE \/ FlushRing \/ FlushThread \/ Flushed \/ Kill \/ Join \/ Close \/ Freed \/ Client
  BY <1>3 DEF FlushRing, FlushThread, Flushed, Kill, Join, Close, Freed, Client, Decode,
     Flush, Free
<1> QED BY <1>1, <1>2, <1>3 DEF Calling

\* Main changes a context only while its worker rests: from that of another worker.
LEMMA MainCopies ==
  ASSUME Types, WorkerInv, CallInv, RestInv, RingInv, Client \/ Calling
  PROVE  \/ UNCHANGED <<parsed, lastFrame, refFrame, hw, owner, reported>>
         \/ FlushThread /\ UNCHANGED <<parsed, refFrame, hw, owner, reported>>
         \/ \E dst, src \in Workers : state[dst] = "INPUT_READY" /\ CopyContext(dst, src)
<1> USE Sizes DEF Types, codecVars
<1>1. CASE \/ InitThread \/ Initialised \/ InitFails \/ LockThread \/ ReleaseDelayed \/ AwaitSetup
           \/ Submit \/ Serve \/ Submitted \/ NotSubmitted \/ AwaitOutput \/ Take
  BY <1>1 DEF InitThread, Initialised, InitFails, LockThread, ReleaseDelayed, AwaitSetup,
     Submit, Serve, Submitted, NotSubmitted, Delays, AwaitOutput, Take
<1>2. CASE Relock \/ Park \/ Parked \/ Flushed \/ Join \/ Close \/ Freed \/ Client
  BY <1>2 DEF Relock, Park, Parked, Flushed, Join, Close, Freed, Client, Decode, Flush, Free
<1>3. CASE Copy
  <2>1. prev \in Workers /\ P \in Workers /\ pc[Main] = "copy"
    BY <1>3 DEF Copy, At, CallInv, CallTypes, P, Workers
  <2>2. pkt[P] = 0
    BY <2>1 DEF P, RingInv, Window, Closing, CallTypes, Workers
  <2>3. state[P] = "INPUT_READY"
    BY <2>1, <2>2 DEF WorkerInv, WorkerFits
  <2> QED BY <1>3, <2>1, <2>3 DEF Copy
<1>4. CASE FlushRing \/ Kill
  <2>1. pc[Main] \in {"flush", "kill"}
    BY <1>4 DEF FlushRing, Kill, At
  <2>2. state[0] = "INPUT_READY"
    BY <2>1 DEF RestInv, Closing
  <2>3. UNCHANGED codecVars \/ (prev \in Workers /\ CopyContext(0, prev))
    BY <1>4 DEF FlushRing, Kill, CopyToFirst, CallTypes
  <2> QED BY <2>2, <2>3
<1>5. CASE FlushThread
  BY <1>5 DEF FlushThread
<1> QED BY <1>1, <1>2, <1>3, <1>4, <1>5 DEF Calling

\* The worker that submit_packet is called on has no packet, and rests.
LEMMA NextRests ==
  ASSUME Types, WorkerInv, CallInv, RingInv, pc[Main] \in Submitting
  PROVE  nextDecoding \in Workers /\ pkt[nextDecoding] = 0 /\ state[nextDecoding] = "INPUT_READY"
<1>1. nextDecoding \in Workers
  BY Sizes DEF Types, CallTypes, CallInv, Submitting, Workers
<1>2. pkt[nextDecoding] = 0
  BY <1>1, Sizes DEF RingInv, Window, Submitting, Closing, Types, CallTypes, Workers
<1> QED BY <1>1, <1>2 DEF WorkerInv, WorkerFits

\* A worker ends only when it was told to.
LEMMA WorkerDies ==
  ASSUME Types, NEW p \in Workers, Worker(p)
  PROVE  pc'[p] = "gone" => die[p]
<1> USE Sizes, SettingFacts DEF Types, At, Goto, Sleep, WakeAll, ringVars, callVars,
      lockVars, jobVars, codecVars
<1>1. CASE AwaitPacket(p) \/ FinishEarly(p) \/ StartDecode(p)
  BY <1>1 DEF AwaitPacket, FinishEarly, StartDecode, SetupFinished, UsesHw, CanLockHw,
     PlaceTypes, JobTypes, WorkerPlaces
<1>2. CASE DecodeNothing(p) \/ GetFormat(p) \/ AwaitFormat(p)
  BY <1>2 DEF DecodeNothing, GetFormat, AwaitFormat, Parse, Return, ToFinish, ToPublish,
     UsesHw, ChooseFormat, PlaceTypes, JobTypes, WorkerPlaces
<1>3. CASE GetBuffer(p) \/ AwaitBuffer(p) \/ GotBuffer(p)
  BY <1>3 DEF GetBuffer, AwaitBuffer, GotBuffer, Parse, SetupFinished, Return, ToFinish,
     ToPublish, UsesHw, PlaceTypes, JobTypes, WorkerPlaces
<1>4. CASE AwaitProgress(p) \/ ReportProgress(p) \/ ReleaseBuffer(p) \/ DecodeReturns(p)
  BY <1>4 DEF AwaitProgress, ReportProgress, ReleaseBuffer, DecodeReturns, Complete,
     Return, ToFinish, ToPublish, UsesHw, PlaceTypes, JobTypes, WorkerPlaces
<1>5. CASE FinishSetup(p) \/ LockAsync(p) \/ Ready(p)
  BY <1>5 DEF FinishSetup, LockAsync, Ready, CanLockHw, SetupFinished, ToPublish,
     PlaceTypes, JobTypes, WorkerPlaces
<1>6. CASE UnlockHw(p) \/ UnlockAsync(p) \/ Publish(p)
  BY <1>6 DEF UnlockHw, UnlockAsync, Publish, PlaceTypes, JobTypes, WorkerPlaces
<1> QED BY <1>1, <1>2, <1>3, <1>4, <1>5, <1>6 DEF Worker, Decoder

-----------------------------------------------------------------------------
(* WorkerInv *)

\* A worker that stays where it is.
LEMMA WorkerStays ==
  ASSUME NEW q \in Workers, WorkerInv, avctx' = avctx, pc'[q] = pc[q], state'[q] = state[q],
         state[q] = "INPUT_READY" \/ pkt'[q] = pkt[q]
  PROVE  WorkerFits(q)'
<1>1. WorkerFits(q)
  BY DEF WorkerInv
<1>2. (SafeCallbacks' <=> SafeCallbacks) /\ (EarlySetup' <=> EarlySetup)
  BY DEF SafeCallbacks, EarlySetup
<1>3. StateFits(state[q], pc[q])'
  BY <1>1 DEF WorkerFits, StateFits
<1> QED BY <1>1, <1>2, <1>3 DEF WorkerFits

\* A worker changes its state as it goes from place to place.
LEMMA WorkerKeepsWorkerInv ==
  ASSUME Types, WorkerInv, LockInv, ExistInv, RestInv, NEW p \in Workers, Worker(p)
  PROVE  WorkerInv'
<1> USE Sizes, SettingFacts DEF Types, At, Goto, Sleep, WakeAll, ringVars, callVars,
      lockVars, jobVars, codecVars
<1>1. UNCHANGED <<avctx, pkt>>
  BY WorkerTouches
<1>2. \A q \in Workers \ {p} : pc'[q] = pc[q] /\ state'[q] = state[q]
  BY WorkerTouches
<1>3. (SafeCallbacks' <=> SafeCallbacks) /\ (EarlySetup' <=> EarlySetup)
  BY <1>1 DEF SafeCallbacks, EarlySetup
<1>4. WorkerFits(p)
  BY DEF WorkerInv
<1>5. ASSUME WorkerFits(p)' PROVE WorkerInv'
  BY <1>1, <1>2, <1>5, WorkerStays DEF WorkerInv
<1> DEFINE Goes(from, to) == pc[p] \in from /\ pc'[p] \in to /\ state'[p] = state[p]
<1>6. CASE AwaitPacket(p)
  <2>1. /\ pc[p] = "wait" /\ state'[p] = state[p]
        /\ \/ pc'[p] \in {"wait", "gone"} /\ (pc'[p] = "gone" => state[p] = "INPUT_READY")
           \/ pc'[p] = "early" /\ EarlySetup /\ state[p] # "INPUT_READY"
           \/ pc'[p] = "start" /\ ~EarlySetup /\ state[p] # "INPUT_READY"
    BY <1>6 DEF AwaitPacket, EarlySetup, PlaceTypes, ExistInv, RestInv
  <2>2. state[p] \in {"INPUT_READY", "SETTING_UP"}
    BY <1>4, <2>1 DEF WorkerFits, StateFits, JobTypes
  <2>3. WorkerFits(p)'
    BY <1>1, <1>3, <1>4, <2>1, <2>2 DEF WorkerFits, StateFits
  <2> QED BY <1>5, <2>3
<1>7. CASE FinishEarly(p)
  <2>1. pc[p] = "early" /\ pc'[p] = "start" /\ state'[p] = "SETUP_FINISHED"
    BY <1>7 DEF FinishEarly, SetupFinished, PlaceTypes, JobTypes
  <2>2. EarlySetup /\ SafeCallbacks /\ ~avctx.updateContext /\ pkt[p] # 0
    BY <1>4, <2>1 DEF WorkerFits, StateFits, EarlySetup
  <2>3. WorkerFits(p)'
    BY <1>1, <1>3, <2>1, <2>2 DEF WorkerFits, StateFits
  <2> QED BY <1>5, <2>3
<1>8. CASE StartDecode(p)
  <2>1. Goes({"start"}, {"setup"})
    BY <1>8 DEF StartDecode, PlaceTypes
  <2>2. WorkerFits(p)'
    BY <1>1, <1>3, <1>4, <2>1 DEF WorkerFits, StateFits
  <2> QED BY <1>5, <2>2
<1>9. CASE DecodeNothing(p)
  <2>1. Goes({"setup"}, IF state[p] = "SETTING_UP" THEN {"finish", "ready"}
                                                   ELSE {"unlock", "publish"})
    BY <1>9 DEF DecodeNothing, Return, ToFinish, ToPublish, PlaceTypes
  <2>2. state[p] \in {"SETTING_UP", "SETUP_FINISHED"}
    BY <1>4, <2>1 DEF WorkerFits, StateFits, JobTypes
  <2>3. ~EarlySetup \/ state[p] # "SETTING_UP"
    BY <1>4, <2>1 DEF WorkerFits
  <2>4. WorkerFits(p)'
    BY <1>1, <1>3, <1>4, <2>1, <2>2, <2>3 DEF WorkerFits, StateFits
  <2> QED BY <1>5, <2>4
<1>10. CASE GetFormat(p)
  <2>1. /\ pc[p] = "setup" /\ state[p] = "SETTING_UP" /\ avctx.updateContext
        /\ \/ state'[p] = "SETTING_UP" /\ pc'[p] = "format"
           \/ state'[p] = "GET_FORMAT" /\ pc'[p] = "awaitFormat"
    BY <1>10 DEF GetFormat, PlaceTypes, JobTypes
  <2>2. WorkerFits(p)'
    BY <1>1, <1>3, <1>4, <2>1 DEF WorkerFits, StateFits, EarlySetup
  <2> QED BY <1>5, <2>2
<1>11. CASE AwaitFormat(p)
  <2>1. /\ pc[p] = "awaitFormat" /\ state'[p] = state[p]
        /\ pc'[p] = "awaitFormat" \/ (pc'[p] = "format" /\ state[p] = "SETTING_UP")
    BY <1>11 DEF AwaitFormat, PlaceTypes
  <2>2. WorkerFits(p)'
    BY <1>1, <1>3, <1>4, <2>1 DEF WorkerFits, StateFits
  <2> QED BY <1>5, <2>2
<1>12. CASE GetBuffer(p)
  <2>1. /\ pc[p] \in {"setup", "format"}
        /\ \/ SafeCallbacks /\ state'[p] = state[p] /\ pc'[p] = "gotBuffer"
           \/ ~SafeCallbacks /\ state'[p] = "GET_BUFFER" /\ pc'[p] = "awaitBuffer"
    BY <1>12 DEF GetBuffer, PlaceTypes, JobTypes
  <2>2. state[p] \in {"SETTING_UP", "SETUP_FINISHED"}
    BY <1>4, <2>1 DEF WorkerFits, StateFits, JobTypes
  <2>3. WorkerFits(p)'
    BY <1>1, <1>3, <1>4, <2>1, <2>2 DEF WorkerFits, StateFits
  <2> QED BY <1>5, <2>3
<1>13. CASE AwaitBuffer(p)
  <2>1. /\ pc[p] = "awaitBuffer" /\ state'[p] = state[p]
        /\ pc'[p] = "awaitBuffer" \/ (pc'[p] = "gotBuffer" /\ state[p] = "SETTING_UP")
    BY <1>13 DEF AwaitBuffer, PlaceTypes
  <2>2. WorkerFits(p)'
    BY <1>1, <1>3, <1>4, <2>1 DEF WorkerFits, StateFits
  <2> QED BY <1>5, <2>2
<1>14. CASE GotBuffer(p)
  <2>1. /\ pc[p] = "gotBuffer"
        /\ state'[p] = IF ~SafeCallbacks /\ ~avctx.updateContext THEN "SETUP_FINISHED" ELSE state[p]
    BY <1>14 DEF GotBuffer, SetupFinished, JobTypes
  <2>2. \/ avctx.updateContext /\ pc'[p] \in {"finish", "ready"}
        \/ ~avctx.updateContext /\ pc'[p] = "end"
        \/ pc'[p] \in IF state'[p] = "SETTING_UP" THEN {"finish", "ready"} ELSE {"unlock", "publish"}
    BY <1>14 DEF GotBuffer, Return, ToFinish, ToPublish, PlaceTypes
  <2>3. /\ state[p] \in {"SETTING_UP", "SETUP_FINISHED"}
        /\ avctx.updateContext => state[p] = "SETTING_UP"
        /\ EarlySetup => state[p] # "SETTING_UP"
    BY <1>4, <2>1 DEF WorkerFits, StateFits, JobTypes
  <2>4. ~avctx.updateContext => state'[p] = "SETUP_FINISHED"
    BY <2>1, <2>3 DEF EarlySetup
  <2>5. WorkerFits(p)'
    BY <1>1, <1>3, <1>4, <2>1, <2>2, <2>3, <2>4 DEF WorkerFits, StateFits
  <2> QED BY <1>5, <2>5
<1>15. CASE AwaitProgress(p) \/ ReportProgress(p) \/ ReleaseBuffer(p) \/ DecodeReturns(p)
  <2>1. pc[p] \in {"body", "render", "end", "released"} /\ state'[p] = state[p]
    BY <1>15 DEF AwaitProgress, ReportProgress, ReleaseBuffer, DecodeReturns
  <2>2. state[p] = "SETUP_FINISHED"
    BY <1>4, <2>1 DEF WorkerFits, StateFits, JobTypes
  <2>3. pc'[p] \in {"body", "render", "end", "released", "unlock", "publish"}
    BY <1>15, <2>2 DEF AwaitProgress, ReportProgress, ReleaseBuffer, DecodeReturns,
       Return, ToPublish, PlaceTypes
  <2>4. WorkerFits(p)'
    BY <1>1, <1>3, <1>4, <2>1, <2>2, <2>3 DEF WorkerFits, StateFits
  <2> QED BY <1>5, <2>4
<1>16. CASE FinishSetup(p) \/ LockAsync(p)
  <2>1. Goes({"finish", "async"}, {"async", "ready"})
    BY <1>16 DEF FinishSetup, LockAsync, PlaceTypes
  <2>2. WorkerFits(p)'
    BY <1>1, <1>3, <1>4, <2>1 DEF WorkerFits, StateFits
  <2> QED BY <1>5, <2>2
<1>17. CASE Ready(p)
  <2>1. pc[p] = "ready" /\ state'[p] = "SETUP_FINISHED" /\ pc'[p] \in {"body", "unlock", "publish"}
    BY <1>17 DEF Ready, SetupFinished, ToPublish, PlaceTypes, JobTypes
  <2>2. pkt[p] # 0
    BY <1>4, <2>1 DEF WorkerFits, StateFits
  <2>3. WorkerFits(p)'
    BY <1>1, <1>3, <2>1, <2>2 DEF WorkerFits, StateFits
  <2> QED BY <1>5, <2>3
<1>18. CASE UnlockHw(p) \/ UnlockAsync(p)
  <2>1. Goes({"unlock", "unasync"}, {"unasync", "publish"})
    BY <1>18 DEF UnlockHw, UnlockAsync, PlaceTypes
  <2>2. WorkerFits(p)'
    BY <1>1, <1>3, <1>4, <2>1 DEF WorkerFits, StateFits
  <2> QED BY <1>5, <2>2
<1>19. CASE Publish(p)
  <2>1. pc'[p] = "wait" /\ state'[p] = "INPUT_READY"
    BY <1>19 DEF Publish, PlaceTypes, JobTypes
  <2>2. WorkerFits(p)'
    BY <2>1 DEF WorkerFits, StateFits
  <2> QED BY <1>5, <2>2
<1> QED BY <1>6, <1>7, <1>8, <1>9, <1>10, <1>11, <1>12, <1>13, <1>14, <1>15, <1>16, <1>17,
      <1>18, <1>19 DEF Worker, Decoder

\* Main gives a packet to a worker that waits, and takes the result of one that rests.
LEMMA MainKeepsWorkerInv ==
  ASSUME Types, WorkerInv, CallInv, ExistInv, RestInv, RingInv, Client \/ Calling
  PROVE  WorkerInv'
<1> SUFFICES ASSUME NEW q \in Workers PROVE WorkerFits(q)'
  BY DEF WorkerInv
<1> USE Sizes DEF Types
<1>1. /\ avctx' = avctx
      /\ pc'[q] = pc[q] \/ (state[q] = "INPUT_READY" /\ pc[q] = "none" /\ pc'[q] = "wait")
  BY MainTouches DEF RestInv
<1>2. CASE UNCHANGED <<state, pkt>>
  <2>1. CASE pc'[q] = pc[q]
    BY <1>1, <1>2, <2>1, WorkerStays
  <2>2. CASE state'[q] = "INPUT_READY" /\ pc'[q] = "wait"
    BY <2>2 DEF WorkerFits, StateFits
  <2> QED BY <1>1, <1>2, <2>1, <2>2
<1>3. CASE Submit
  <2>1. pc[Main] = "ref"
    BY <1>3 DEF Submit, At
  <2>2. P \in Workers /\ pkt[P] = 0 /\ state[P] = "INPUT_READY"
    BY <2>1, NextRests DEF P, Submitting
  <2>3. pc[P] = "wait"
    <3>1. pc[P] \in {"none", "wait", "gone"}
      BY <2>2 DEF WorkerInv, WorkerFits, StateFits
    <3>2. pc[P] \notin {"none", "gone"}
      BY <2>1, <2>2 DEF ExistInv, CallInv, Deciding, Submitting, Closing
    <3> QED BY <3>1, <3>2
  <2>4. CASE UNCHANGED <<state, pkt>>
    BY <1>2, <2>4
  <2>5. CASE /\ state' = [state EXCEPT ![P] = "SETTING_UP"]
             /\ pkt' = [pkt EXCEPT ![P] = sent + 1]
    <3>1. CASE q = P
      <4>1. state'[q] = "SETTING_UP" /\ pc'[q] = "wait" /\ pkt'[q] # 0
        BY <1>1, <2>2, <2>3, <2>5, <3>1 DEF JobTypes, CallTypes
      <4> QED BY <4>1 DEF WorkerFits, StateFits
    <3>2. CASE q # P
      <4>1. state'[q] = state[q] /\ pkt'[q] = pkt[q] /\ pc'[q] = pc[q]
        <5>1. state'[q] = state[q] /\ pkt'[q] = pkt[q]
          BY <2>5, <3>2 DEF JobTypes
        <5>2. pc'[q] = pc[q]
          BY <1>3 DEF Submit, SubmitFails, Goto, PlaceTypes
        <5> QED BY <5>1, <5>2
      <4> QED BY <1>1, <4>1, WorkerStays
    <3> QED BY <3>1, <3>2
  <2> QED BY <1>3, <2>4, <2>5 DEF Submit, SubmitFails, P
<1>4. CASE Serve
  <2>1. pkt' = pkt /\ pc'[q] = pc[q]
    BY <1>4 DEF Serve, Goto, Sleep, jobVars, PlaceTypes
  <2>2. \/ state'[q] = state[q]
        \/ state'[q] = "SETTING_UP" /\ state[q] \in {"GET_FORMAT", "GET_BUFFER"}
    BY <1>4 DEF Serve, JobTypes
  <2>3. CASE state'[q] = state[q]
    BY <1>1, <2>1, <2>3, WorkerStays
  <2>4. CASE state'[q] = "SETTING_UP" /\ state[q] \in {"GET_FORMAT", "GET_BUFFER"}
    <3>1. WorkerFits(q)
      BY DEF WorkerInv
    <3>2. pc[q] \in {"awaitFormat", "awaitBuffer"} /\ pkt[q] # 0 /\ ~EarlySetup
      BY <2>4, <3>1 DEF WorkerFits, StateFits, EarlySetup
    <3>3. (SafeCallbacks' <=> SafeCallbacks) /\ (EarlySetup' <=> EarlySetup)
      BY <1>1 DEF SafeCallbacks, EarlySetup
    <3> QED BY <1>1, <2>1, <2>4, <3>1, <3>2, <3>3 DEF WorkerFits, StateFits
  <2> QED BY <2>2, <2>3, <2>4
<1>5. CASE Take
  <2>1. state[k] = "INPUT_READY" /\ UNCHANGED state
    BY <1>5 DEF Take, At, RestInv
  <2>2. pc'[q] = pc[q] /\ (q = k \/ pkt'[q] = pkt[q])
    BY <1>5 DEF Take, Goto, PlaceTypes, JobTypes
  <2> QED BY <1>1, <2>1, <2>2, WorkerStays
<1>6. CASE FlushThread
  <2>1. state[q] = "INPUT_READY" /\ state'[q] = state[q] /\ pc'[q] = pc[q]
    BY <1>6 DEF FlushThread, At, RestInv
  <2> QED BY <1>1, <2>1, WorkerStays
<1> QED BY <1>2, <1>3, <1>4, <1>5, <1>6, MainJobs

-----------------------------------------------------------------------------
(* LockInv *)

\* A worker gives up each lock before it leaves the places that need it.
LEMMA WorkerKeepsLockInv ==
  ASSUME Types, WorkerInv, LockInv, NEW p \in Workers, Worker(p)
  PROVE  LockInv'
<1> USE Sizes, SettingFacts DEF Types, At, Goto, Sleep, WakeAll, ringVars, callVars,
      lockVars, jobVars, codecVars
<1>1. CASE AwaitPacket(p) \/ FinishEarly(p) \/ StartDecode(p)
  BY <1>1 DEF AwaitPacket, FinishEarly, StartDecode, SetupFinished, UsesHw, CanLockHw,
     LockInv, Decoding, MayHoldHw, PlaceTypes, LockTypes, CodecTypes, CallTypes,
     StateFits, JobTypes, WorkerInv, WorkerFits
<1>2. CASE DecodeNothing(p) \/ GetFormat(p) \/ AwaitFormat(p)
  BY <1>2 DEF DecodeNothing, GetFormat, AwaitFormat, Parse, Return, ToFinish, ToPublish,
     UsesHw, ChooseFormat, LockInv, Decoding, MayHoldHw, PlaceTypes, LockTypes,
     CodecTypes, CallTypes, StateFits, JobTypes, WorkerInv, WorkerFits
<1>3. CASE GetBuffer(p) \/ AwaitBuffer(p) \/ GotBuffer(p)
  BY <1>3 DEF GetBuffer, AwaitBuffer, GotBuffer, Parse, SetupFinished, Return, ToFinish,
     ToPublish, UsesHw, LockInv, Decoding, MayHoldHw, PlaceTypes, LockTypes, CodecTypes,
     CallTypes, StateFits, JobTypes, WorkerInv, WorkerFits
<1>4. CASE AwaitProgress(p) \/ ReportProgress(p) \/ ReleaseBuffer(p) \/ DecodeReturns(p)
  BY <1>4 DEF AwaitProgress, ReportProgress, ReleaseBuffer, DecodeReturns, Complete,
     Return, ToFinish, ToPublish, UsesHw, LockInv, Decoding, MayHoldHw, PlaceTypes,
     LockTypes, CodecTypes, CallTypes, StateFits, JobTypes, WorkerInv, WorkerFits
<1>5. CASE FinishSetup(p) \/ LockAsync(p) \/ Ready(p)
  BY <1>5 DEF FinishSetup, LockAsync, Ready, CanLockHw, SetupFinished, ToPublish, LockInv,
     UsesHw, Decoding, MayHoldHw, PlaceTypes, LockTypes, CodecTypes, CallTypes, StateFits,
     JobTypes, WorkerInv, WorkerFits
<1>6. CASE UnlockHw(p) \/ UnlockAsync(p) \/ Publish(p)
  BY <1>6 DEF UnlockHw, UnlockAsync, Publish, LockInv, UsesHw, Decoding, MayHoldHw,
     PlaceTypes, LockTypes, CodecTypes, CallTypes, StateFits, JobTypes, WorkerInv,
     WorkerFits
<1> QED BY <1>1, <1>2, <1>3, <1>4, <1>5, <1>6 DEF Worker, Decoder

\* Main takes no lock of a worker; a context may inherit a hwaccel.
LEMMA MainKeepsLockInv ==
  ASSUME Types, WorkerInv, LockInv, CallInv, ExistInv, RestInv, RingInv, Client \/ Calling
  PROVE  LockInv'
<1> USE Sizes
<1>1. avctx' = avctx /\ \A q \in Workers : pc'[q] = pc[q] \/ (pc[q] = "none" /\ pc'[q] = "wait")
  BY MainTouches
<1>2. UNCHANGED <<hwMutex, bufMutex, asyncSer>>
  BY MainLocks
<1>3. CASE UNCHANGED hw
  BY <1>1, <1>2, <1>3 DEF LockInv, UsesHw, Decoding, MayHoldHw
<1>4. ASSUME NEW dst \in Workers, NEW src \in Workers, state[dst] = "INPUT_READY",
             CopyContext(dst, src)
      PROVE  LockInv'
  <2>1. \A q \in Workers : hw'[q] = IF q = dst THEN hw[src] ELSE hw[q]
    BY <1>4 DEF CopyContext, Types, CodecTypes
  <2>2. pc[dst] \in {"none", "wait", "gone"}
    BY <1>4 DEF WorkerInv, WorkerFits, StateFits
  <2>3. ~Decoding(dst)'
    BY <1>1, <2>2 DEF Decoding
  <2> QED BY <1>1, <1>2, <2>1, <2>3 DEF LockInv, UsesHw, Decoding, MayHoldHw
<1> QED BY <1>3, <1>4, MainCopies

-----------------------------------------------------------------------------
(* The async lock *)

\* A worker takes the async lock when nobody has it.
LEMMA WorkerKeepsAsync ==
  ASSUME Types, LockInv, AsyncExclusive, NEW p \in Workers, Worker(p)
  PROVE  AsyncExclusive'
<1> USE Sizes, SettingFacts DEF Types, At, Goto, Sleep, WakeAll, ringVars, callVars,
      lockVars, jobVars, codecVars
<1>1. CASE AwaitPacket(p) \/ FinishEarly(p) \/ StartDecode(p)
  BY <1>1 DEF AwaitPacket, FinishEarly, StartDecode, SetupFinished, UsesHw, CanLockHw,
     AsyncExclusive, MainHasAsync, HasAsync, PlaceTypes, LockTypes, LockInv
<1>2. CASE DecodeNothing(p) \/ GetFormat(p) \/ AwaitFormat(p)
  BY <1>2 DEF DecodeNothing, GetFormat, AwaitFormat, Parse, Return, ToFinish, ToPublish,
     UsesHw, ChooseFormat, AsyncExclusive, MainHasAsync, HasAsync, PlaceTypes, LockTypes,
     LockInv
<1>3. CASE GetBuffer(p) \/ AwaitBuffer(p) \/ GotBuffer(p)
  BY <1>3 DEF GetBuffer, AwaitBuffer, GotBuffer, Parse, SetupFinished, Return, ToFinish,
     ToPublish, UsesHw, AsyncExclusive, MainHasAsync, HasAsync, PlaceTypes, LockTypes,
     LockInv
<1>4. CASE AwaitProgress(p) \/ ReportProgress(p) \/ ReleaseBuffer(p) \/ DecodeReturns(p)
  BY <1>4 DEF AwaitProgress, ReportProgress, ReleaseBuffer, DecodeReturns, Complete,
     Return, ToFinish, ToPublish, UsesHw, AsyncExclusive, MainHasAsync, HasAsync,
     PlaceTypes, LockTypes, LockInv
<1>5. CASE FinishSetup(p) \/ LockAsync(p) \/ Ready(p)
  BY <1>5 DEF FinishSetup, LockAsync, Ready, CanLockHw, SetupFinished, ToPublish,
     AsyncExclusive, MainHasAsync, HasAsync, PlaceTypes, LockTypes, LockInv
<1>6. CASE UnlockHw(p) \/ UnlockAsync(p) \/ Publish(p)
  BY <1>6 DEF UnlockHw, UnlockAsync, Publish, AsyncExclusive, MainHasAsync, HasAsync,
     PlaceTypes, LockTypes, LockInv
<1> QED BY <1>1, <1>2, <1>3, <1>4, <1>5, <1>6 DEF Worker, Decoder

\* Main takes the lock when nobody has it, and gives it up when no worker has it.
LEMMA MainKeepsAsync ==
  ASSUME Types, LockInv, AsyncExclusive, CallInv, ExistInv, Client \/ Calling
  PROVE  AsyncExclusive'
<1> USE Sizes, SettingFacts DEF Types, At, Goto, Sleep, WakeAll, ringVars, callVars,
      lockVars, jobVars, codecVars
<1>1. UNCHANGED asyncSer
  <2>1. CASE Client
    BY <2>1 DEF Client, Decode, Flush, Free
  <2>2. CASE Calling
    BY <2>2 DEF Calling, InitThread, Initialised, InitFails, LockThread, ReleaseDelayed,
       AwaitSetup, Copy, Submit, Serve, Submitted, NotSubmitted, Delays, AwaitOutput,
       Take, Relock, Park, Parked, FlushRing, FlushThread, Flushed, Kill, Join, Close,
       Freed
  <2> QED BY <2>1, <2>2
<1>2. ASSUME NEW q \in Workers
      PROVE  HasAsync(q)' <=> HasAsync(q)
  BY <1>1, MainTouches DEF HasAsync, LockInv, LockTypes
<1>3. CASE InitThread \/ Initialised
  <2>1. UNCHANGED asyncLock /\ {pc[Main], pc'[Main]} \subseteq {"init", "user"}
    BY <1>3 DEF InitThread, Initialised, PlaceTypes, CallTypes, Workers
  <2> QED BY <1>2, <2>1 DEF AsyncExclusive, MainHasAsync
<1>4. CASE InitFails \/ Client
  <2>1. /\ ~asyncLock' /\ pc[Main] \in {"init", "user"}
        /\ pc'[Main] \in {"lock", "delay", "park"}
    BY <1>4 DEF InitFails, Client, Decode, Flush, Free, BeginCall, PlaceTypes
  <2> QED BY <1>2, <2>1 DEF AsyncExclusive, MainHasAsync
<1>5. CASE LockThread \/ ReleaseDelayed \/ AwaitSetup \/ Copy
  <2>1. UNCHANGED asyncLock /\ pc[Main] \in {"lock", "release", "prev", "copy"}
    BY <1>5 DEF LockThread, ReleaseDelayed, AwaitSetup, Copy, SubmitFails
  <2>2. pc'[Main] \in {"release", "prev", "copy", "ref", "relock"}
    BY <1>5, <2>1 DEF LockThread, ReleaseDelayed, AwaitSetup, Copy, SubmitFails, ToPrev,
       PlaceTypes
  <2> QED BY <1>2, <2>1, <2>2 DEF AsyncExclusive, MainHasAsync
<1>6. CASE Submit \/ Serve
  <2>1. UNCHANGED asyncLock /\ pc[Main] \in {"ref", "serve"}
    BY <1>6 DEF Submit, Serve, SubmitFails
  <2>2. pc'[Main] \in {"serve", "submitted", "relock"}
    BY <1>6, <2>1 DEF Submit, Serve, SubmitFails, PlaceTypes
  <2> QED BY <1>2, <2>1, <2>2 DEF AsyncExclusive, MainHasAsync
<1>7. CASE Submitted \/ NotSubmitted \/ AwaitOutput \/ Take
  <2>1. UNCHANGED asyncLock /\ pc[Main] \in {"submitted", "delay", "collect", "take"}
    BY <1>7 DEF Submitted, NotSubmitted, Delays, AwaitOutput, Take
  <2>2. pc'[Main] \in {"collect", "take", "relock"}
    BY <1>7, <2>1 DEF Submitted, NotSubmitted, Delays, AwaitOutput, Take, PlaceTypes
  <2> QED BY <1>2, <2>1, <2>2 DEF AsyncExclusive, MainHasAsync
<1>8. CASE Park \/ Parked
  <2>1. UNCHANGED asyncLock /\ pc[Main] = "park" /\ pc'[Main] \in {"park", "relock"}
    BY <1>8 DEF Park, Parked, PlaceTypes
  <2> QED BY <1>2, <2>1 DEF AsyncExclusive, MainHasAsync
<1>9. CASE Relock
  <2>1. CASE asyncLock
    <3>1. UNCHANGED asyncLock /\ pc'[Main] = pc[Main]
      BY <1>9, <2>1 DEF Relock
    <3> QED BY <1>2, <3>1 DEF AsyncExclusive, MainHasAsync
  <2>2. CASE ~asyncLock
    <3>1. asyncLock' = TRUE /\ pc'[Main] \in {"user", "flush", "kill"}
      BY <1>9, <2>2 DEF Relock, PlaceTypes, CallInv, CallTypes
    <3> QED BY <1>2, <2>2, <3>1 DEF AsyncExclusive, MainHasAsync
  <2> QED BY <2>1, <2>2
<1>10. CASE FlushRing \/ FlushThread \/ Flushed
  <2>1. UNCHANGED asyncLock /\ pc[Main] \in {"flush", "flushThread"}
    BY <1>10 DEF FlushRing, FlushThread, Flushed
  <2>2. pc'[Main] \in {"flushThread", "user"}
    BY <1>10, <2>1 DEF FlushRing, FlushThread, Flushed, PlaceTypes
  <2> QED BY <1>2, <2>1, <2>2 DEF AsyncExclusive, MainHasAsync
<1>11. CASE Kill \/ Join \/ Close \/ Freed
  <2>1. UNCHANGED asyncLock /\ pc[Main] \in {"kill", "join", "close"}
    BY <1>11 DEF Kill, Join, Close, Freed
  <2>2. pc'[Main] \in {"kill", "join", "close", "freed"}
    BY <1>11, <2>1 DEF Kill, Join, Close, Freed, PlaceTypes
  <2> QED BY <1>2, <2>1, <2>2 DEF AsyncExclusive, MainHasAsync
<1> QED BY <1>3, <1>4, <1>5, <1>6, <1>7, <1>8, <1>9, <1>10, <1>11 DEF Calling

-----------------------------------------------------------------------------
(* The call of the client *)

\* A worker does not interfere with the call.
LEMMA WorkerKeepsCallInv ==
  ASSUME Types, CallInv, NEW p \in Workers, Worker(p)
  PROVE  CallInv'
BY WorkerTouches DEF CallInv, ringVars, callVars

\* Main goes through the call that it is in.
LEMMA MainKeepsCallInv ==
  ASSUME Types, CallInv, RingInv, Client \/ Calling
  PROVE  CallInv'
<1> USE Sizes, SettingFacts DEF Types, At, Goto, Sleep, WakeAll, ringVars, callVars,
      lockVars, jobVars, codecVars
<1> DEFINE Same == UNCHANGED <<nextDecoding, nextFinished, delaying, prev, op, empty, k,
                               ending, sent, count>>
<1>1. CASE InitThread \/ Initialised \/ InitFails
  <2>1. UNCHANGED <<nextDecoding, nextFinished, delaying, prev, empty, ending, sent>>
    BY <1>1 DEF InitThread, Initialised, InitFails
  <2>2. pc[Main] = "init" /\ op = "init" /\ count = NbThreads /\ count' \in 1 .. NbThreads
    BY <1>1 DEF InitThread, Initialised, InitFails, BeginCall, CallInv, CallTypes
  <2>3. \/ op' = "init" /\ pc'[Main] \in {"init", "user"} /\ count' = count
        \/ op' = "free" /\ pc'[Main] = "park" /\ k' = 0
    <3>1. CASE InitThread
      <4>1. k \in Workers
        BY <3>1 DEF InitThread, CallTypes, Workers
      <4> QED BY <3>1, <4>1, <2>2 DEF InitThread, PlaceTypes
    <3>2. CASE Initialised \/ InitFails
      BY <3>2, <2>2 DEF Initialised, InitFails, BeginCall, PlaceTypes
    <3> QED BY <1>1, <3>1, <3>2
  <2> QED BY <2>1, <2>2, <2>3 DEF CallInv, Deciding, Submitting, Closing
<1>2. CASE LockThread \/ ReleaseDelayed
  <2>1. Same /\ pc[Main] \in {"lock", "release"}
    BY <1>2 DEF LockThread, ReleaseDelayed, SubmitFails
  <2>2. /\ pc'[Main] \in {"release", "prev", "ref", "relock"}
        /\ pc'[Main] = "prev" => prev # NoThread
    BY <1>2 DEF LockThread, ReleaseDelayed, SubmitFails, ToPrev, PlaceTypes
  <2> QED BY <2>1, <2>2 DEF CallInv, Deciding, Submitting, Closing
<1>3. CASE AwaitSetup \/ Copy
  <2>1. Same /\ pc[Main] \in {"prev", "copy"}
    BY <1>3 DEF AwaitSetup, Copy, SubmitFails
  <2>2. pc'[Main] \in {"prev", "copy", "ref", "relock"}
    BY <1>3 DEF AwaitSetup, Copy, SubmitFails, PlaceTypes
  <2> QED BY <2>1, <2>2 DEF CallInv, Deciding, Submitting, Closing
<1>4. CASE Submit
  <2>1. /\ UNCHANGED <<nextDecoding, nextFinished, delaying, prev, op, empty, k, ending, count>>
        /\ pc[Main] = "ref"
    BY <1>4 DEF Submit, SubmitFails
  <2>2. pc'[Main] \in {"serve", "submitted", "relock"}
    BY <1>4 DEF Submit, SubmitFails, PlaceTypes
  <2> QED BY <2>1, <2>2 DEF CallInv, Deciding, Submitting, Closing
<1>5. CASE Serve
  <2>1. Same /\ {pc[Main], pc'[Main]} \subseteq {"serve", "submitted"}
    BY <1>5 DEF Serve, PlaceTypes
  <2> QED BY <2>1 DEF CallInv, Deciding, Submitting, Closing
<1>6. CASE Submitted
  BY <1>6 DEF Submitted, Delays, P, LastDelayed, CallInv, Submitting, Deciding, Closing,
     CallTypes, PlaceTypes, Workers
<1>7. CASE NotSubmitted
  BY <1>7 DEF NotSubmitted, Delays, LastDelayed, CallInv, Submitting, Deciding, Closing,
     CallTypes, PlaceTypes, Workers
<1>8. CASE AwaitOutput
  <2>1. Same /\ pc[Main] = "collect" /\ pc'[Main] \in {"collect", "take"}
    BY <1>8 DEF AwaitOutput, PlaceTypes
  <2> QED BY <2>1 DEF CallInv, Deciding, Submitting, Closing
<1>9. CASE Take
  <2>1. UNCHANGED <<delaying, prev, op, empty, sent, count>> /\ pc[Main] = "take" /\ op = "decode"
    BY <1>9 DEF Take, CallInv
  <2>2. AfterThis \in 0 .. NbThreads - 1
    BY <2>1 DEF AfterThis, CallInv, CallTypes
  <2>3. CASE /\ k' = AfterThis /\ pc'[Main] = "collect"
             /\ UNCHANGED <<nextDecoding, nextFinished, ending>>
    BY <2>1, <2>2, <2>3 DEF CallInv, Deciding, Submitting, Closing
  <2>4. CASE /\ pc'[Main] = "relock" /\ UNCHANGED k
             /\ nextDecoding' = IF nextDecoding >= NbThreads THEN 0 ELSE nextDecoding
             /\ ending' \in {ending, "done"}
    <3>1. nextDecoding' < NbThreads
      BY <2>4 DEF CallTypes
    <3>2. delaying = TRUE => ending' # "no"
      BY <2>1, <2>4 DEF CallInv
    <3> QED BY <2>1, <2>4, <3>1, <3>2 DEF CallInv, Deciding, Submitting, Closing
  <2> QED BY <1>9, <2>3, <2>4 DEF Take, PlaceTypes
<1>10. CASE Relock
  <2>1. /\ UNCHANGED <<nextDecoding, nextFinished, delaying, prev, op, empty, ending, sent, count>>
        /\ pc[Main] = "relock" /\ op \in {"decode", "flush", "free"}
    BY <1>10 DEF Relock, CallInv, CallTypes
  <2>2. \/ pc'[Main] = "relock"
        \/ k' = 0 /\ op = "decode" /\ pc'[Main] = "user"
        \/ k' = 0 /\ op = "flush" /\ pc'[Main] = "flush"
        \/ k' = 0 /\ op = "free" /\ pc'[Main] = "kill"
    BY <1>10, <2>1 DEF Relock, PlaceTypes
  <2> QED BY <2>1, <2>2 DEF CallInv, Deciding, Submitting, Closing, CallTypes
<1>11. CASE Park \/ Parked
  <2>1. /\ UNCHANGED <<nextDecoding, nextFinished, delaying, prev, op, empty, ending, sent, count>>
        /\ pc[Main] = "park" /\ pc'[Main] \in {"park", "relock"}
        /\ pc'[Main] = "park" => k' <= count
    BY <1>11 DEF Park, Parked, PlaceTypes, CallTypes
  <2> QED BY <2>1 DEF CallInv, Deciding, Submitting, Closing
<1>12. CASE FlushRing
  <2>1. /\ UNCHANGED <<op, empty, k, sent, count>> /\ pc[Main] = "flush"
        /\ nextDecoding' = 0 /\ nextFinished' = 0 /\ ending' = "no" /\ pc'[Main] = "flushThread"
    BY <1>12 DEF FlushRing, PlaceTypes
  <2> QED BY <2>1 DEF CallInv, Deciding, Submitting, Closing, CallTypes
<1>13. CASE FlushThread
  <2>1. /\ UNCHANGED <<nextDecoding, nextFinished, delaying, prev, op, empty, ending, sent, count>>
        /\ pc[Main] = "flushThread" /\ pc'[Main] = "flushThread" /\ k' <= count
    BY <1>13 DEF FlushThread, CallTypes
  <2> QED BY <2>1 DEF CallInv, Deciding, Submitting, Closing
<1>14. CASE Flushed
  <2>1. Same /\ pc[Main] = "flushThread" /\ pc'[Main] = "user"
    BY <1>14 DEF Flushed, PlaceTypes
  <2> QED BY <2>1 DEF CallInv, Deciding, Submitting, Closing
<1>15. CASE Kill \/ Join \/ Close \/ Freed
  <2>1. UNCHANGED <<nextDecoding, nextFinished, delaying, prev, op, empty, ending, sent, count>>
    BY <1>15 DEF Kill, Join, Close, Freed
  <2>2. /\ pc[Main] \in Closing /\ pc'[Main] \in Closing
        /\ pc'[Main] = "kill" => k' <= count
        /\ pc'[Main] \in {"join", "close"} => k' < count
    BY <1>15 DEF Kill, Join, Close, Freed, Closing, PlaceTypes, CallInv, CallTypes
  <2> QED BY <2>1, <2>2 DEF CallInv, Deciding, Submitting, Closing
<1>16. CASE Client
  <2>1. UNCHANGED <<ringVars, sent, count>> /\ pc[Main] = "user" /\ k' = 0
    BY <1>16 DEF Client, Decode, Flush, Free, BeginCall
  <2>2. \/ /\ op' = "decode" /\ pc'[Main] \in {"lock", "delay"} /\ sent < MaxPackets
           /\ (pc'[Main] = "delay" => empty' = TRUE)
           /\ ending' = (IF empty' THEN "draining" ELSE "no") /\ empty' \in BOOLEAN
           /\ ending' = "no" => ending = "no"
        \/ op' \in {"flush", "free"} /\ pc'[Main] = "park" /\ UNCHANGED <<empty, ending>>
    BY <1>16 DEF Client, Decode, Flush, Free, BeginCall, PlaceTypes
  <2> QED BY <2>1, <2>2 DEF CallInv, Deciding, Submitting, Closing, CallTypes
<1> QED BY <1>1, <1>2, <1>3, <1>4, <1>5, <1>6, <1>7, <1>8, <1>9, <1>10, <1>11, <1>12,
      <1>13, <1>14, <1>15, <1>16 DEF Calling

-----------------------------------------------------------------------------
(* The workers that exist and those that rest *)

\* A worker ends only when it is told to.
LEMMA WorkerKeepsExistInv ==
  ASSUME Types, WorkerInv, ExistInv, NEW p \in Workers, Worker(p)
  PROVE  ExistInv'
<1>1. \A q \in Workers : pc[q] = "none" <=> pc'[q] = "none"
  BY WorkerTouches, WorkerBusy
<1>2. \A q \in Workers : pc'[q] = "gone" => die[q]
  BY WorkerTouches, WorkerDies DEF ExistInv
<1>3. UNCHANGED <<k, count, op, die>> /\ pc'[Main] = pc[Main]
  BY WorkerTouches DEF callVars
<1> QED BY <1>1, <1>2, <1>3 DEF ExistInv

\* A worker that rests keeps resting until Main gives it a packet.
LEMMA WorkerKeepsRestInv ==
  ASSUME Types, WorkerInv, CallInv, RestInv, NEW p \in Workers, Worker(p)
  PROVE  RestInv'
<1>1. \A q \in Workers : state[q] = "INPUT_READY" => state'[q] = "INPUT_READY"
  BY WorkerTouches, WorkerBusy
<1>2. UNCHANGED <<k, op>> /\ pc'[Main] = pc[Main]
  BY WorkerTouches DEF callVars
<1>3. pc[Main] = "take" => k \in Workers
  BY Sizes DEF Types, CallInv, CallTypes, Workers
<1> QED BY <1>1, <1>2, <1>3 DEF RestInv

\* Main creates the workers, or frees those it could create.
LEMMA MainKeepsExistInv ==
  ASSUME Types, CallInv, ExistInv, Client \/ Calling
  PROVE  ExistInv'
<1> USE Sizes, SettingFacts DEF Types, At, Goto, Sleep, WakeAll, ringVars, callVars,
      lockVars, jobVars, codecVars
<1>1. CASE InitThread
  BY <1>1 DEF InitThread, ExistInv, Closing, PlaceTypes, CallTypes, CallInv, Workers
<1>2. CASE Initialised
  BY <1>2 DEF Initialised, ExistInv, Closing, PlaceTypes, CallTypes, CallInv, Workers
<1>3. CASE InitFails
  BY <1>3 DEF InitFails, BeginCall, ExistInv, Closing, PlaceTypes, CallTypes, CallInv,
     Workers
<1>4. CASE LockThread \/ ReleaseDelayed \/ AwaitSetup \/ Copy
  BY <1>4 DEF LockThread, ReleaseDelayed, AwaitSetup, Copy, SubmitFails, ToPrev, P,
     CopyContext, ExistInv, Closing, PlaceTypes, CallTypes, CallInv, Workers
<1>5. CASE Submit \/ Serve
  BY <1>5 DEF Submit, Serve, WakeOne, SubmitFails, P, ExistInv, Closing, PlaceTypes,
     CallTypes, CallInv, Workers
<1>6. CASE Submitted \/ NotSubmitted \/ AwaitOutput \/ Take
  BY <1>6 DEF Submitted, NotSubmitted, AwaitOutput, Take, Delays, P, AfterThis, ExistInv,
     Closing, PlaceTypes, CallTypes, CallInv, Workers
<1>7. CASE Relock
  BY <1>7 DEF Relock, ExistInv, Closing, PlaceTypes, CallTypes, CallInv, Workers
<1>8. CASE Park
  BY <1>8 DEF Park, ExistInv, Closing, PlaceTypes, CallTypes, CallInv, Workers
<1>9. CASE Parked
  BY <1>9 DEF Parked, ExistInv, Closing, PlaceTypes, CallTypes, CallInv, Workers
<1>10. CASE FlushRing \/ FlushThread \/ Flushed
  BY <1>10 DEF FlushRing, FlushThread, Flushed, CopyToFirst, CopyContext, MoreReleased,
     ExistInv, Closing, PlaceTypes, CallTypes, CallInv, Workers
<1>11. CASE Kill
  BY <1>11 DEF Kill, WakeOne, CopyToFirst, CopyContext, ExistInv, Closing, PlaceTypes,
     CallTypes, CallInv, Workers
<1>12. CASE Join \/ Close \/ Freed
  BY <1>12 DEF Join, Close, Freed, MoreReleased, ExistInv, Closing, PlaceTypes, CallTypes,
     CallInv, Workers
<1>13. CASE Client
  <2>1. pc[Main] = "user" /\ pc'[Main] \notin {"init"} \cup Closing
    BY <1>13 DEF Client, Decode, Flush, Free, BeginCall, PlaceTypes, Closing
  <2>2. UNCHANGED <<count, die>> /\ \A q \in Workers : pc'[q] = pc[q]
    BY <1>13 DEF Client, Decode, Flush, Free, BeginCall, PlaceTypes
  <2>3. op # "free"
    BY <2>1 DEF CallInv
  <2> QED BY <2>1, <2>2, <2>3 DEF ExistInv, Closing
<1> QED BY <1>1, <1>2, <1>3, <1>4, <1>5, <1>6, <1>7, <1>8, <1>9, <1>10, <1>11, <1>12,
      <1>13 DEF Calling

\* Main goes on only when the workers rest that it waits for.
LEMMA MainKeepsRestInv ==
  ASSUME Types, WorkerInv, CallInv, ExistInv, RestInv, Client \/ Calling
  PROVE  RestInv'
<1> USE Sizes DEF Types, At, Goto, Sleep, WakeAll, ringVars, callVars, lockVars, jobVars,
      codecVars
<1>1. CASE \/ InitThread \/ Initialised \/ LockThread \/ ReleaseDelayed \/ AwaitSetup
           \/ Copy \/ Submit \/ Serve \/ Submitted \/ NotSubmitted \/ Take
  <2>1. CASE pc'[Main] \in {"user"} \cup Deciding \cup {"collect"}
    BY <2>1 DEF RestInv, Closing, Deciding, Submitting
  <2>2. CASE pc'[Main] = "relock" /\ op' = "decode"
    BY <2>2 DEF RestInv, Closing
  <2>3. CASE InitThread \/ Initialised
    BY <2>1, <2>3 DEF InitThread, Initialised, RestInv, PlaceTypes
  <2>4. CASE LockThread \/ ReleaseDelayed \/ AwaitSetup \/ Copy
    BY <2>1, <2>2, <2>4 DEF LockThread, ReleaseDelayed, AwaitSetup, Copy, SubmitFails,
       ToPrev, CallInv, PlaceTypes, Deciding, Submitting
  <2>5. CASE Submit \/ Serve
    BY <2>1, <2>2, <2>5 DEF Submit, Serve, SubmitFails, CallInv, PlaceTypes, Deciding,
       Submitting
  <2>6. CASE Submitted \/ NotSubmitted \/ Take
    BY <2>1, <2>2, <2>6 DEF Submitted, NotSubmitted, Delays, Take, CallInv, PlaceTypes,
       Deciding
  <2> QED BY <1>1, <2>3, <2>4, <2>5, <2>6
<1>2. CASE AwaitOutput
  BY <1>2 DEF AwaitOutput, RestInv, Closing, PlaceTypes
<1>3. CASE InitFails \/ Client
  <2>1. state' = state /\ k' = 0 /\ pc'[Main] \in {"lock", "delay", "park"}
    BY <1>3 DEF InitFails, Client, Decode, Flush, Free, BeginCall, PlaceTypes
  <2> QED BY <2>1 DEF RestInv, Closing, Workers
<1>4. CASE Park
  <2>1. state' = state /\ pc'[Main] = "park" /\ k \in Nat
    BY <1>4 DEF Park, CallTypes
  <2>2. k' = k \/ (k' = k + 1 /\ state[k] = "INPUT_READY")
    BY <1>4 DEF Park
  <2> QED BY <1>4, <2>1, <2>2 DEF Park, RestInv, Closing, Workers
<1>5. CASE Parked
  <2>1. state' = state /\ pc'[Main] = "relock" /\ k \in Nat
    BY <1>5 DEF Parked, CallTypes, PlaceTypes
  <2>2. \A q \in Workers : q < k => state[q] = "INPUT_READY"
    BY <1>5 DEF Parked, RestInv
  <2>3. \A q \in Workers : q >= count => state[q] = "INPUT_READY"
    BY DEF ExistInv, WorkerInv, WorkerFits, StateFits, JobTypes
  <2> QED BY <1>5, <2>1, <2>2, <2>3 DEF Parked, RestInv, Closing, Workers, CallTypes
<1>6. CASE Relock
  <2>1. state' = state /\ pc'[Main] \in {"relock", "user", "flush", "kill"} /\ op' = op
    BY <1>6 DEF Relock, PlaceTypes, CallInv, CallTypes
  <2>2. pc'[Main] \in {"flush", "kill"} => op # "decode"
    BY <1>6 DEF Relock, PlaceTypes, CallInv, CallTypes
  <2> QED BY <1>6, <2>1, <2>2 DEF Relock, RestInv, Closing
<1>7. CASE FlushRing \/ FlushThread \/ Flushed \/ Kill \/ Join \/ Close \/ Freed
  <2>1. state' = state /\ pc[Main] \in {"flush", "flushThread"} \cup Closing
    BY <1>7 DEF FlushRing, FlushThread, Flushed, Kill, Join, Close, Freed, Closing
  <2>2. pc'[Main] \in {"user", "flushThread"} \cup Closing
    BY <1>7 DEF FlushRing, FlushThread, Flushed, Kill, Join, Close, Freed, Closing,
       PlaceTypes
  <2> QED BY <2>1, <2>2 DEF RestInv, Closing
<1> QED BY <1>1, <1>2, <1>3, <1>4, <1>5, <1>6, <1>7 DEF Calling

-----------------------------------------------------------------------------
(* The ring *)

\* With the result of one worker taken or passed over, the window begins after it.
LEMMA WindowAdvances ==
  ASSUME NEW first \in Workers, NEW next \in 0 .. NbThreads, NEW at \in Workers,
         NEW after \in Workers, after = IF at + 1 >= NbThreads THEN 0 ELSE at + 1,
         NEW p \in Workers, FullWindow(first, next, p), ~Window(first, at, p), p # at
  PROVE  /\ Window(after, IF next >= NbThreads THEN 0 ELSE next, p)
         /\ after # first => ~Window(first, after, p)
BY Sizes DEF Workers, Window, FullWindow

\* A worker has no part in the ring.
LEMMA WorkerKeepsRingInv ==
  ASSUME Types, RingInv, NEW p \in Workers, Worker(p)
  PROVE  RingInv'
BY WorkerTouches DEF RingInv, Window, FullWindow, ringVars, callVars

\* Main submits at the end of the window and takes at its beginning.
LEMMA MainKeepsRingInv ==
  ASSUME Types, CallInv, RingInv, Client \/ Calling
  PROVE  RingInv'
<1> USE Sizes DEF Types, At, Goto, Sleep, WakeAll, ringVars, callVars, lockVars, jobVars,
      codecVars
<1> DEFINE Special == {"serve", "submitted", "collect", "take", "flushThread"}
<1>1. CASE \/ InitThread \/ Initialised \/ InitFails \/ LockThread \/ ReleaseDelayed \/ AwaitSetup
           \/ Copy \/ Relock \/ Park \/ Parked \/ Client
  <2>1. UNCHANGED <<pkt, nextDecoding, nextFinished>>
    BY <1>1 DEF InitThread, Initialised, InitFails, LockThread, ReleaseDelayed,
       AwaitSetup, Copy, SubmitFails, Relock, Park, Parked, Client, Decode, Flush, Free
  <2>2. pc[Main] \notin Special \cup Closing
    BY <1>1 DEF InitThread, Initialised, InitFails, LockThread, ReleaseDelayed,
       AwaitSetup, Copy, Relock, Park, Parked, Client, Decode, Flush, Free, Closing
  <2>3. pc'[Main] \notin Special
    <3>1. CASE \/ InitThread \/ Initialised \/ LockThread \/ ReleaseDelayed \/ AwaitSetup \/ Copy
      BY <3>1, <2>2 DEF InitThread, Initialised, LockThread, ReleaseDelayed, AwaitSetup,
         Copy, SubmitFails, ToPrev, PlaceTypes, CallTypes
    <3>2. CASE InitFails \/ Relock \/ Park \/ Parked \/ Client
      BY <3>2, <2>2 DEF InitFails, BeginCall, Relock, Park, Parked, Client, Decode, Flush,
         Free, PlaceTypes, CallTypes, CallInv
    <3> QED BY <1>1, <3>1, <3>2
  <2> QED BY <2>1, <2>2, <2>3 DEF RingInv, Window, FullWindow
<1>2. CASE Submit
  <2>1. nextDecoding \in Workers /\ pc[Main] = "ref" /\ UNCHANGED <<nextDecoding, nextFinished>>
    BY <1>2 DEF Submit, CallInv, CallTypes, Workers
  <2>2. CASE pkt' = pkt /\ pc'[Main] = "relock"
    BY <2>1, <2>2 DEF RingInv, Window, FullWindow, Closing
  <2>3. CASE /\ \A q \in Workers : q # nextDecoding => pkt'[q] = pkt[q]
             /\ pc'[Main] \in {"serve", "submitted"}
    BY <2>1, <2>3 DEF RingInv, Window, FullWindow, Closing
  <2> QED BY <1>2, <2>2, <2>3 DEF Submit, SubmitFails, P, PlaceTypes, JobTypes
<1>3. CASE Serve
  <2>1. /\ UNCHANGED <<pkt, nextDecoding, nextFinished>>
        /\ {pc[Main], pc'[Main]} \subseteq {"serve", "submitted"}
    BY <1>3 DEF Serve, PlaceTypes
  <2> QED BY <2>1 DEF RingInv, Window, FullWindow, Closing
<1>4. CASE Submitted
  BY <1>4 DEF Submitted, Delays, P, RingInv, Window, FullWindow, Closing, PlaceTypes,
     CallTypes, CallInv, Deciding, Workers
<1>5. CASE NotSubmitted
  BY <1>5 DEF NotSubmitted, Delays, RingInv, Window, FullWindow, Closing, PlaceTypes,
     CallTypes, CallInv, Deciding, Workers
<1>6. CASE AwaitOutput
  BY <1>6 DEF AwaitOutput, RingInv, Window, FullWindow, Closing, PlaceTypes
<1>7. CASE Take
  <2>1. k \in Workers /\ AfterThis \in Workers /\ nextFinished \in Workers
          /\ nextDecoding \in 0 .. NbThreads
    BY <1>7 DEF Take, CallInv, CallTypes, Workers, AfterThis
  <2>2. \A q \in Workers : pkt'[q] # 0 => /\ q # k
                                          /\ FullWindow(nextFinished, nextDecoding, q)
                                          /\ ~Window(nextFinished, k, q)
    BY <1>7, <2>1 DEF Take, RingInv, JobTypes
  <2>3. \A q \in Workers : pkt'[q] # 0 =>
          /\ Window(AfterThis, IF nextDecoding >= NbThreads THEN 0 ELSE nextDecoding, q)
          /\ AfterThis # nextFinished => ~Window(nextFinished, AfterThis, q)
    BY <2>1, <2>2, WindowAdvances DEF AfterThis
  <2>4. CASE /\ k' = AfterThis /\ AfterThis # nextFinished /\ pc'[Main] = "collect"
             /\ UNCHANGED <<nextDecoding, nextFinished>>
    BY <2>2, <2>3, <2>4 DEF RingInv, Window, FullWindow, Closing
  <2>5. CASE /\ nextFinished' = AfterThis /\ pc'[Main] = "relock"
             /\ nextDecoding' = IF nextDecoding >= NbThreads THEN 0 ELSE nextDecoding
    BY <2>3, <2>5 DEF RingInv, Window, Closing
  <2> QED BY <1>7, <2>4, <2>5 DEF Take, PlaceTypes
<1>8. CASE FlushRing
  <2>1. pc'[Main] = "flushThread" /\ k' = 0
    BY <1>8 DEF FlushRing, CallInv, PlaceTypes
  <2> QED BY <2>1 DEF RingInv, Closing, Workers
<1>9. CASE FlushThread
  <2>1. /\ pc[Main] = "flushThread" /\ pc'[Main] = "flushThread" /\ k' = k + 1 /\ k \in Nat
        /\ \A q \in Workers : pkt'[q] # 0 => q # k /\ pkt[q] # 0
    BY <1>9 DEF FlushThread, CallTypes, JobTypes
  <2> QED BY <2>1 DEF RingInv, Closing
<1>10. CASE Flushed
  <2>1. \A q \in Workers : pkt'[q] = 0
    BY <1>10 DEF Flushed, RingInv, CallInv, CallTypes, JobTypes, Workers
  <2> QED BY <2>1 DEF RingInv
<1>11. CASE Kill \/ Join \/ Close \/ Freed
  <2>1. pc'[Main] \in Closing
    BY <1>11 DEF Kill, Join, Close, Freed, Closing, PlaceTypes
  <2> QED BY <2>1 DEF RingInv, Closing
<1> QED BY <1>1, <1>2, <1>3, <1>4, <1>5, <1>6, <1>7, <1>8, <1>9, <1>10, <1>11 DEF Calling

-----------------------------------------------------------------------------
(* The frames and their workers *)

\* A worker enters itself as the owner of its frame before it refers to it.
LEMMA WorkerKeepsOwnerInv ==
  ASSUME Types, WorkerInv, OwnerInv, NEW p \in Workers, Worker(p)
  PROVE  OwnerInv'
<1> USE Sizes, SettingFacts DEF Types, At, Goto, Sleep, WakeAll, ringVars, callVars,
      lockVars, jobVars, codecVars
<1>1. CASE AwaitPacket(p)
  BY <1>1 DEF AwaitPacket, OwnerInv, CodecTypes, JobTypes, WorkerInv, WorkerFits,
     StateFits, Packets, PlaceTypes
<1>2. CASE FinishEarly(p)
  BY <1>2 DEF FinishEarly, SetupFinished, OwnerInv, CodecTypes, JobTypes, WorkerInv,
     WorkerFits, StateFits, Packets, PlaceTypes
<1>3. CASE StartDecode(p)
  BY <1>3 DEF StartDecode, UsesHw, CanLockHw, OwnerInv, CodecTypes, JobTypes, WorkerInv,
     WorkerFits, StateFits, Packets, PlaceTypes
<1>4. CASE DecodeNothing(p)
  BY <1>4 DEF DecodeNothing, Parse, Return, ToFinish, ToPublish, UsesHw, OwnerInv,
     CodecTypes, JobTypes, WorkerInv, WorkerFits, StateFits, Packets, PlaceTypes
<1>5. CASE GetFormat(p)
  BY <1>5 DEF GetFormat, Parse, ChooseFormat, OwnerInv, CodecTypes, JobTypes, WorkerInv,
     WorkerFits, StateFits, Packets, PlaceTypes
<1>6. CASE AwaitFormat(p)
  BY <1>6 DEF AwaitFormat, ChooseFormat, OwnerInv, CodecTypes, JobTypes, WorkerInv,
     WorkerFits, StateFits, Packets, PlaceTypes
<1>7. CASE GetBuffer(p) \/ AwaitBuffer(p) \/ GotBuffer(p)
  <2>1. CASE GetBuffer(p) \/ AwaitBuffer(p)
    BY <2>1 DEF GetBuffer, AwaitBuffer, OwnerInv
  <2>2. CASE GotBuffer(p)
    <3>1. pkt[p] \in Packets
      BY <2>2 DEF GotBuffer, WorkerInv, WorkerFits, StateFits, JobTypes, Packets
    <3>2. CASE UNCHANGED <<owner, lastFrame, refFrame>>
      BY <3>2 DEF OwnerInv
    <3>3. CASE /\ owner' = [owner EXCEPT ![pkt[p]] = p]
               /\ lastFrame' = [lastFrame EXCEPT ![p] = pkt[p]]
               /\ \E f \in {lastFrame[p], 0} : refFrame' = [refFrame EXCEPT ![p] = f]
      <4>1. owner'[pkt[p]] # NoThread
        BY <3>1, <3>3 DEF CodecTypes
      <4>2. \A f \in Packets : owner[f] # NoThread => owner'[f] # NoThread
        BY <3>1, <3>3 DEF CodecTypes
      <4>3. \A q \in Workers : /\ lastFrame'[q] \in {lastFrame[q], pkt[p]}
                               /\ refFrame'[q] \in {refFrame[q], lastFrame[q], 0}
        BY <3>3 DEF CodecTypes
      <4>4. \A q \in Workers : {lastFrame[q], refFrame[q]} \subseteq Packets \cup {0}
        BY DEF CodecTypes, Packets
      <4> QED BY <4>1, <4>2, <4>3, <4>4 DEF OwnerInv
    <3> QED BY <2>2, <3>2, <3>3 DEF GotBuffer
  <2> QED BY <1>7, <2>1, <2>2
<1>8. CASE AwaitProgress(p) \/ ReportProgress(p) \/ ReleaseBuffer(p) \/ DecodeReturns(p)
  BY <1>8 DEF AwaitProgress, ReportProgress, ReleaseBuffer, DecodeReturns, Complete,
     Return, ToFinish, ToPublish, UsesHw, OwnerInv, CodecTypes, JobTypes, WorkerInv,
     WorkerFits, StateFits, Packets, PlaceTypes
<1>9. CASE FinishSetup(p) \/ LockAsync(p) \/ Ready(p)
  BY <1>9 DEF FinishSetup, LockAsync, Ready, CanLockHw, SetupFinished, ToPublish,
     OwnerInv, CodecTypes, JobTypes, WorkerInv, WorkerFits, StateFits, Packets, PlaceTypes
<1>10. CASE UnlockHw(p) \/ UnlockAsync(p) \/ Publish(p)
  BY <1>10 DEF UnlockHw, UnlockAsync, Publish, OwnerInv, CodecTypes, JobTypes, WorkerInv,
     WorkerFits, StateFits, Packets, PlaceTypes
<1> QED BY <1>1, <1>2, <1>3, <1>4, <1>5, <1>6, <1>7, <1>8, <1>9, <1>10 DEF Worker, Decoder

\* Main copies frames that have an owner.
LEMMA MainKeepsOwnerInv ==
  ASSUME Types, WorkerInv, CallInv, RestInv, RingInv, OwnerInv, Client \/ Calling
  PROVE  OwnerInv'
<1>1. CASE UNCHANGED <<parsed, lastFrame, refFrame, hw, owner, reported>>
  BY <1>1 DEF OwnerInv
<1>2. CASE FlushThread /\ UNCHANGED <<parsed, refFrame, hw, owner, reported>>
  <2>1. \A q \in Workers : lastFrame'[q] \in {0, lastFrame[q]}
    BY <1>2 DEF FlushThread, Types, CodecTypes
  <2> QED BY <1>2, <2>1 DEF OwnerInv
<1>3. ASSUME NEW dst \in Workers, NEW src \in Workers, CopyContext(dst, src)
      PROVE  OwnerInv'
  <2>1. \A q \in Workers : lastFrame'[q] \in {lastFrame[src], lastFrame[q]}
    BY <1>3 DEF CopyContext, Types, CodecTypes
  <2> QED BY <1>3, <2>1 DEF CopyContext, OwnerInv
<1> QED BY <1>1, <1>2, <1>3, MainCopies

-----------------------------------------------------------------------------
(* The callbacks of the client *)

\* A worker asks Main for a callback only while Main waits to serve it.
LEMMA WorkerKeepsServeInv ==
  ASSUME Types, WorkerInv, ServeInv, NEW p \in Workers, Worker(p)
  PROVE  ServeInv'
<1> USE Sizes, SettingFacts DEF Types, At, Goto, Sleep, WakeAll, ringVars, callVars,
      lockVars, jobVars, codecVars
<1>1. CASE AwaitPacket(p) \/ FinishEarly(p) \/ StartDecode(p)
  BY <1>1 DEF AwaitPacket, FinishEarly, StartDecode, SetupFinished, UsesHw, CanLockHw,
     ServeInv, JobTypes, PlaceTypes, WorkerInv, WorkerFits, StateFits, Serves,
     SafeCallbacks
<1>2. CASE DecodeNothing(p) \/ GetFormat(p) \/ AwaitFormat(p)
  BY <1>2 DEF DecodeNothing, GetFormat, AwaitFormat, Parse, Return, ToFinish, ToPublish,
     UsesHw, ChooseFormat, ServeInv, JobTypes, PlaceTypes, WorkerInv, WorkerFits,
     StateFits, Serves, SafeCallbacks
<1>3. CASE GetBuffer(p) \/ AwaitBuffer(p) \/ GotBuffer(p)
  BY <1>3 DEF GetBuffer, AwaitBuffer, GotBuffer, Parse, SetupFinished, Return, ToFinish,
     ToPublish, UsesHw, ServeInv, JobTypes, PlaceTypes, WorkerInv, WorkerFits, StateFits,
     Serves, SafeCallbacks
<1>4. CASE AwaitProgress(p) \/ ReportProgress(p) \/ ReleaseBuffer(p) \/ DecodeReturns(p)
  BY <1>4 DEF AwaitProgress, ReportProgress, ReleaseBuffer, DecodeReturns, Complete,
     Return, ToFinish, ToPublish, UsesHw, ServeInv, JobTypes, PlaceTypes, WorkerInv,
     WorkerFits, StateFits, Serves, SafeCallbacks
<1>5. CASE FinishSetup(p)
  BY <1>5 DEF FinishSetup, CanLockHw, ServeInv, JobTypes, PlaceTypes, WorkerInv,
     WorkerFits, StateFits, Serves, SafeCallbacks
<1>6. CASE LockAsync(p)
  BY <1>6 DEF LockAsync, ServeInv, JobTypes, PlaceTypes, WorkerInv, WorkerFits, StateFits,
     Serves, SafeCallbacks
<1>7. CASE Ready(p)
  BY <1>7 DEF Ready, SetupFinished, ToPublish, ServeInv, JobTypes, PlaceTypes, WorkerInv,
     WorkerFits, StateFits, Serves, SafeCallbacks
<1>8. CASE UnlockHw(p) \/ UnlockAsync(p) \/ Publish(p)
  BY <1>8 DEF UnlockHw, UnlockAsync, Publish, ServeInv, JobTypes, PlaceTypes, WorkerInv,
     WorkerFits, StateFits, Serves, SafeCallbacks
<1> QED BY <1>1, <1>2, <1>3, <1>4, <1>5, <1>6, <1>7, <1>8 DEF Worker, Decoder

\* Main does not return from submit_packet while a callback may be asked for.
LEMMA MainKeepsServeInv ==
  ASSUME Types, ServeInv, CallInv, RestInv, Client \/ Calling
  PROVE  ServeInv'
<1> USE Sizes, SettingFacts DEF Types, At, Goto, Sleep, WakeAll, ringVars, callVars,
      lockVars, jobVars, codecVars
<1>1. CASE InitThread \/ Initialised \/ InitFails
  BY <1>1 DEF InitThread, Initialised, InitFails, BeginCall, ServeInv, JobTypes,
     PlaceTypes, Serves, CallTypes
<1>2. CASE LockThread \/ ReleaseDelayed \/ AwaitSetup \/ Copy
  BY <1>2 DEF LockThread, ReleaseDelayed, AwaitSetup, Copy, SubmitFails, ToPrev, P,
     CopyContext, ServeInv, JobTypes, PlaceTypes, Serves, CallTypes
<1>3. CASE Submit \/ Serve
  BY <1>3 DEF Submit, Serve, WakeOne, SubmitFails, P, ServeInv, JobTypes, PlaceTypes,
     Serves, CallTypes
<1>4. CASE Submitted \/ NotSubmitted \/ AwaitOutput \/ Take
  BY <1>4 DEF Submitted, NotSubmitted, AwaitOutput, Take, Delays, P, AfterThis, ServeInv,
     JobTypes, PlaceTypes, Serves, CallTypes
<1>5. CASE Relock \/ Park \/ Parked
  BY <1>5 DEF Relock, Park, Parked, ServeInv, JobTypes, PlaceTypes, Serves, CallTypes
<1>6. CASE FlushRing \/ FlushThread \/ Flushed
  BY <1>6 DEF FlushRing, FlushThread, Flushed, CopyToFirst, CopyContext, MoreReleased,
     ServeInv, JobTypes, PlaceTypes, Serves, CallTypes
<1>7. CASE Kill \/ Join \/ Close \/ Freed
  BY <1>7 DEF Kill, Join, Close, Freed, WakeOne, CopyToFirst, CopyContext, MoreReleased,
     ServeInv, JobTypes, PlaceTypes, Serves, CallTypes
<1>8. CASE Client
  BY <1>8 DEF Client, Decode, Flush, Free, BeginCall, ServeInv, JobTypes, PlaceTypes,
     Serves, CallTypes
<1> QED BY <1>1, <1>2, <1>3, <1>4, <1>5, <1>6, <1>7, <1>8 DEF Calling

-----------------------------------------------------------------------------
(* The order of the setups *)

\* There is always a worker whose context is the latest.
LEMMA LatestIsWorker ==
  ASSUME Types, CallInv
  PROVE  Latest \in Workers
BY Sizes DEF Types, CallTypes, CallInv, Deciding, Latest, Workers

\* A step of a worker that does not set the context up.
LEMMA SetupKept ==
  ASSUME Types, CallInv, SetupInv, NEW p \in Workers, Worker(p), UNCHANGED parsed,
         avctx.updateContext =>
           /\ Unparsed(p)' <=> Unparsed(p)
           /\ InSetup(p)' => InSetup(p)
           /\ pc'[p] \in {"format", "awaitFormat"} => pc[p] \in {"format", "awaitFormat"}
  PROVE  SetupInv'
<1>1. UNCHANGED <<ringVars, callVars, pkt>> /\ pc'[Main] = pc[Main]
  BY WorkerTouches
<1>2. Latest' = Latest
  BY <1>1 DEF Latest, ringVars
<1>3. ASSUME avctx.updateContext, NEW q \in Workers
      PROVE  /\ Unparsed(q)' <=> Unparsed(q)
             /\ InSetup(q)' => InSetup(q)
             /\ pc'[q] \in {"format", "awaitFormat"} => pc[q] \in {"format", "awaitFormat"}
  BY <1>3, WorkerTouches DEF Unparsed, InSetup
<1>4. prev # NoThread => prev \in Workers
  BY DEF Types, CallTypes
<1> QED BY <1>1, <1>2, <1>3, <1>4, LatestIsWorker DEF SetupInv, Closing, ringVars, callVars

\* The step of a worker after which its context includes its packet.
LEMMA SetupDone ==
  ASSUME Types, WorkerInv, CallInv, RingInv, SetupInv, NEW p \in Workers, Worker(p),
         pc[p] = "setup", pc'[p] \notin {"wait", "start", "setup"},
         parsed' = [parsed EXCEPT ![p] = pkt[p]]
  PROVE  SetupInv'
<1> USE DEF Types
<1>1. UNCHANGED <<ringVars, callVars, pkt>> /\ pc'[Main] = pc[Main]
  BY WorkerTouches
<1>2. Latest' = Latest
  BY <1>1 DEF Latest, ringVars
<1>3. avctx.updateContext => p = Latest /\ pkt[p] = sent
  BY DEF SetupInv, Unparsed
<1>4. avctx.updateContext => \A q \in Workers : ~Unparsed(q)'
  BY <1>3, WorkerTouches DEF SetupInv, Unparsed
<1>5. InSetup(p) /\ \A q \in Workers \ {p} : InSetup(q)' <=> InSetup(q)
  BY WorkerTouches DEF InSetup, Unparsed
<1>6. parsed'[p] = pkt[p] /\ \A q \in Workers \ {p} : parsed'[q] = parsed[q]
  BY DEF CodecTypes
<1>7. pc[Main] = "ref" => p # nextDecoding
  <2>1. pc[Main] = "ref" => nextDecoding \in Workers /\ pkt[nextDecoding] = 0
    BY Sizes DEF RingInv, Window, CallInv, Submitting, Deciding, Closing, CallTypes, Workers
  <2>2. pkt[p] # 0
    BY DEF WorkerInv, WorkerFits, StateFits, JobTypes
  <2> QED BY <2>1, <2>2
<1>8. prev # NoThread => prev \in Workers
  BY DEF CallTypes
<1>9. \A q \in Workers \ {p} : pc'[q] = pc[q]
  BY WorkerTouches
<1> QED BY <1>1, <1>2, <1>3, <1>4, <1>5, <1>6, <1>7, <1>8, <1>9 DEF SetupInv, Closing,
      ringVars, callVars

\* The setups happen in the worker of the last packet.
LEMMA WorkerKeepsSetupInv ==
  ASSUME Types, WorkerInv, CallInv, ExistInv, RestInv, RingInv, SetupInv,
         NEW p \in Workers, Worker(p)
  PROVE  SetupInv'
<1> USE Sizes, SettingFacts DEF Types, At, Goto, Sleep, WakeAll, ringVars, callVars,
      lockVars, jobVars, codecVars
<1> DEFINE Kept == /\ UNCHANGED parsed
                   /\ avctx.updateContext =>
                        /\ Unparsed(p)' <=> Unparsed(p)
                        /\ InSetup(p)' => InSetup(p)
                        /\ pc'[p] \in {"format", "awaitFormat"} =>
                             pc[p] \in {"format", "awaitFormat"}
           Done == /\ pc[p] = "setup" /\ pc'[p] \notin {"wait", "start", "setup"}
                   /\ parsed' = [parsed EXCEPT ![p] = pkt[p]]
<1>1. CASE AwaitPacket(p)
  <2>1. UNCHANGED <<avctx, state, parsed>> /\ pc[p] = "wait"
    BY <1>1 DEF AwaitPacket
  <2>2. \/ pc'[p] = "wait"
        \/ pc'[p] = "gone" /\ die[p]
        \/ pc'[p] = "early" /\ ~avctx.updateContext
        \/ pc'[p] = "start" /\ state[p] = "SETTING_UP"
    BY <1>1 DEF AwaitPacket, PlaceTypes, JobTypes, WorkerInv, WorkerFits, StateFits
  <2>3. die[p] => state[p] = "INPUT_READY"
    BY DEF ExistInv, RestInv
  <2>4. Kept
    BY <2>1, <2>2, <2>3 DEF Unparsed, InSetup
  <2> QED BY <2>4, SetupKept
<1>2. CASE FinishEarly(p) \/ StartDecode(p)
  <2>1. Kept
    BY <1>2 DEF FinishEarly, StartDecode, SetupFinished, Unparsed, InSetup, PlaceTypes,
       JobTypes, WorkerInv, WorkerFits, EarlySetup
  <2> QED BY <2>1, SetupKept
<1>3. CASE DecodeNothing(p) \/ GetFormat(p)
  <2>1. Done
    BY <1>3 DEF DecodeNothing, GetFormat, Parse, Return, ToFinish, ToPublish, PlaceTypes
  <2> QED BY <2>1, SetupDone
<1>4. CASE GetBuffer(p)
  <2>1. CASE pc[p] = "setup"
    <3>1. Done
      BY <1>4, <2>1 DEF GetBuffer, Parse, PlaceTypes
    <3> QED BY <3>1, SetupDone
  <2>2. CASE pc[p] = "format" /\ avctx.updateContext
    <3>1. parsed' = parsed
      BY <1>4, <2>2 DEF GetBuffer, Parse, SetupInv, CodecTypes
    <3>2. pc'[p] \in {"gotBuffer", "awaitBuffer"}
      BY <1>4 DEF GetBuffer, PlaceTypes
    <3>3. Kept
      BY <2>2, <3>1, <3>2 DEF Unparsed, InSetup
    <3> QED BY <3>3, SetupKept
  <2> QED BY <1>4, <2>1, <2>2 DEF GetBuffer, WorkerInv, WorkerFits
<1>5. CASE AwaitFormat(p) \/ AwaitBuffer(p) \/ GotBuffer(p)
  <2>1. Kept
    BY <1>5 DEF AwaitFormat, ChooseFormat, AwaitBuffer, GotBuffer, Return, ToFinish,
       ToPublish, SetupFinished, Unparsed, InSetup, PlaceTypes
  <2> QED BY <2>1, SetupKept
<1>6. CASE AwaitProgress(p) \/ ReportProgress(p) \/ ReleaseBuffer(p)
  <2>1. Kept
    BY <1>6 DEF AwaitProgress, ReportProgress, ReleaseBuffer, Unparsed, InSetup, PlaceTypes
  <2> QED BY <2>1, SetupKept
<1>7. CASE DecodeReturns(p)
  <2>1. pc[p] \in {"end", "released"} /\ UNCHANGED <<avctx, state, parsed>>
    BY <1>7 DEF DecodeReturns
  <2>2. pc'[p] \in {"unlock", "publish"}
    BY <1>7, <2>1 DEF DecodeReturns, Return, ToPublish, PlaceTypes, JobTypes, WorkerInv,
       WorkerFits, StateFits
  <2>3. Kept
    BY <2>1, <2>2 DEF Unparsed, InSetup
  <2> QED BY <2>3, SetupKept
<1>8. CASE FinishSetup(p) \/ LockAsync(p) \/ Ready(p)
  <2>1. Kept
    BY <1>8 DEF FinishSetup, LockAsync, Ready, SetupFinished, ToPublish, Unparsed,
       InSetup, PlaceTypes
  <2> QED BY <2>1, SetupKept
<1>9. CASE UnlockHw(p) \/ UnlockAsync(p) \/ Publish(p)
  <2>1. Kept
    BY <1>9 DEF UnlockHw, UnlockAsync, Publish, Unparsed, InSetup, PlaceTypes, JobTypes
  <2> QED BY <2>1, SetupKept
<1> QED BY <1>1, <1>2, <1>3, <1>4, <1>5, <1>6, <1>7, <1>8, <1>9 DEF Worker, Decoder

\* Main begins a setup only when it submits a packet, and takes no packet from one.
LEMMA MainLeavesSetups ==
  ASSUME Types, WorkerInv, CallInv, ExistInv, RestInv, Client \/ Calling, NEW q \in Workers,
         UNCHANGED <<state, pkt>> \/ Serve \/ Take \/ FlushThread
  PROVE  /\ Unparsed(q)' <=> Unparsed(q)
         /\ InSetup(q)' <=> InSetup(q)
         /\ pc'[q] \in {"format", "awaitFormat"} <=> pc[q] \in {"format", "awaitFormat"}
         /\ InSetup(q) => pkt'[q] = pkt[q]
<1> USE Sizes DEF Types
<1>1. pc'[q] = pc[q] \/ (state[q] = "INPUT_READY" /\ pc[q] = "none" /\ pc'[q] = "wait")
  BY MainTouches DEF RestInv
<1>2. CASE UNCHANGED <<state, pkt>>
  BY <1>1, <1>2 DEF Unparsed, InSetup
<1>3. CASE Serve
  <2>1. pkt' = pkt /\ pc'[q] = pc[q]
    BY <1>3 DEF Serve, jobVars, Goto, Sleep, PlaceTypes
  <2>2. state'[q] = state[q] \/ state[q] \in {"GET_FORMAT", "GET_BUFFER"}
    BY <1>3 DEF Serve, JobTypes
  <2>3. pc[q] = "wait" => state'[q] = state[q]
    BY <2>2 DEF WorkerInv, WorkerFits, StateFits
  <2> QED BY <2>1, <2>3 DEF Unparsed, InSetup
<1>4. CASE Take
  <2>1. state[k] = "INPUT_READY" /\ k \in Workers /\ state' = state
    BY <1>4 DEF Take, At, RestInv, CallInv, CallTypes, Workers
  <2>2. ~InSetup(k)
    BY <2>1 DEF WorkerInv, WorkerFits, StateFits, InSetup, Unparsed
  <2>3. q = k \/ pkt'[q] = pkt[q]
    BY <1>4 DEF Take, JobTypes
  <2> QED BY <1>1, <2>1, <2>2, <2>3 DEF Unparsed, InSetup
<1>5. CASE FlushThread
  <2>1. state[q] = "INPUT_READY" /\ state' = state /\ pc' = pc
    BY <1>5 DEF FlushThread, At, RestInv
  <2>2. ~InSetup(q)
    BY <2>1 DEF WorkerInv, WorkerFits, StateFits, InSetup, Unparsed
  <2> QED BY <2>1, <2>2 DEF Unparsed, InSetup
<1> QED BY <1>2, <1>3, <1>4, <1>5

\* A step of Main that neither submits a packet nor copies a context.
LEMMA SetupCarried ==
  ASSUME Types, WorkerInv, CallInv, ExistInv, RestInv, SetupInv, Client \/ Calling,
         UNCHANGED <<state, pkt>> \/ Serve \/ Take \/ FlushThread,
         UNCHANGED <<avctx, parsed, sent>>, Latest' = Latest,
         avctx.updateContext =>
           /\ pc'[Main] \in {"copy", "ref"} /\ prev' # NoThread =>
                prev' \in Workers /\ ~InSetup(prev')
           /\ pc'[Main] = "ref" => parsed[nextDecoding'] = sent
           /\ prev' = NoThread /\ pc'[Main] \notin Closing => nextDecoding' = 0
  PROVE  SetupInv'
<1> SUFFICES ASSUME avctx.updateContext PROVE SetupInv'
  BY DEF SetupInv
<1>1. \A q \in Workers : /\ Unparsed(q)' <=> Unparsed(q)
                         /\ InSetup(q)' <=> InSetup(q)
  BY MainLeavesSetups
<1>2. \A q \in Workers :
        pc'[q] \in {"format", "awaitFormat"} <=> pc[q] \in {"format", "awaitFormat"}
  BY MainLeavesSetups
<1>3. \A q \in Workers : Unparsed(q) \/ pc[q] \in {"format", "awaitFormat"} => pkt'[q] = pkt[q]
  BY MainLeavesSetups DEF InSetup
<1>4. Latest \in Workers
  BY LatestIsWorker
<1>5. \A q \in Workers : Unparsed(q)' => q = Latest' /\ pkt'[q] = sent' /\ parsed'[q] = sent' - 1
  BY <1>1, <1>3 DEF SetupInv
<1>6. ~Unparsed(Latest)' => parsed'[Latest'] = sent'
  <2> SUFFICES ~Unparsed(Latest) <=> ~Unparsed(Latest)'
    BY DEF SetupInv
  <2> QED BY <1>1, <1>4
<1>7. \A q \in Workers : pc'[q] \in {"format", "awaitFormat"} => parsed'[q] = pkt'[q]
  BY <1>2, <1>3 DEF SetupInv
<1>8. pc'[Main] \in {"copy", "ref"} /\ prev' # NoThread => ~InSetup(prev)'
  <2>1. \A q \in Workers : q = prev' /\ ~InSetup(q) => ~InSetup(prev)'
    BY <1>1 DEF InSetup, Unparsed
  <2> QED BY <2>1
<1> QED BY <1>5, <1>6, <1>7, <1>8 DEF SetupInv, Closing

\* Main hands the latest context on before it submits the next packet.
LEMMA MainKeepsSetupInv ==
  ASSUME Types, WorkerInv, CallInv, ExistInv, RestInv, RingInv, ServeInv, SetupInv, Client \/ Calling
  PROVE  SetupInv'
<1> USE Sizes DEF Types, At, Goto, Sleep, ringVars, callVars, jobVars, codecVars
<1> DEFINE Easy == UNCHANGED <<state, pkt>> \/ Serve \/ Take \/ FlushThread
           Same == UNCHANGED <<avctx, parsed, sent, prev, nextDecoding>>
           Quiet == {"init", "user", "lock", "delay", "park", "release", "relock", "collect",
                     "take", "flush", "flushThread"} \cup Closing
<1>1. ASSUME Easy, Same, pc[Main] \in Quiet, pc'[Main] \in Quiet,
             pc[Main] \in Closing => pc'[Main] \in Closing
      PROVE  SetupInv'
  <2>1. Latest' = Latest
    BY <1>1 DEF Latest, Closing
  <2>2. pc'[Main] \notin {"copy", "ref"}
    BY <1>1 DEF Closing
  <2>3. avctx.updateContext /\ prev' = NoThread /\ pc'[Main] \notin Closing => nextDecoding' = 0
    BY <1>1 DEF SetupInv
  <2> QED BY <1>1, <2>1, <2>2, <2>3, SetupCarried
<1>2. CASE InitThread \/ Initialised \/ InitFails \/ Client
  <2>1. Easy /\ Same /\ pc[Main] \in {"init", "user"}
    BY <1>2 DEF InitThread, Initialised, InitFails, Client, Decode, Flush, Free
  <2>2. pc'[Main] \in {"init", "user", "lock", "delay", "park"}
    <3>1. CASE InitThread
      BY <2>1, <3>1 DEF InitThread, PlaceTypes, CallTypes, Workers
    <3>2. CASE Initialised \/ InitFails \/ Client
      BY <3>2 DEF Initialised, InitFails, Client, Decode, Flush, Free, BeginCall, PlaceTypes
    <3> QED BY <1>2, <3>1, <3>2
  <2> QED BY <1>1, <2>1, <2>2 DEF Closing
<1>3. CASE LockThread \/ ReleaseDelayed
  <2>1. Easy /\ Same /\ pc[Main] \in {"lock", "release"}
    BY <1>3 DEF LockThread, ReleaseDelayed, SubmitFails
  <2>2. pc'[Main] \in {"release", "prev", "relock"} \/ (pc'[Main] = "ref" /\ prev = NoThread)
    BY <1>3 DEF LockThread, ReleaseDelayed, SubmitFails, ToPrev, PlaceTypes
  <2>3. Latest' = Latest
    BY <2>1, <2>2 DEF Latest
  <2>4. avctx.updateContext /\ prev = NoThread => nextDecoding = 0 /\ parsed[0] = sent
    <3>1. SUFFICES ASSUME avctx.updateContext, prev = NoThread PROVE nextDecoding = 0 /\ parsed[0] = sent
      OBVIOUS
    <3>2. nextDecoding = 0 /\ Latest = 0
      BY <2>1, <3>1 DEF SetupInv, Closing, Latest
    <3>3. ~Unparsed(0)
      BY <2>1, <3>2, NextRests DEF Submitting, WorkerInv, WorkerFits, StateFits, Unparsed
    <3> QED BY <3>1, <3>2, <3>3 DEF SetupInv
  <2> QED BY <2>1, <2>2, <2>3, <2>4, SetupCarried DEF Closing
<1>4. CASE AwaitSetup
  <2>1. Easy /\ Same /\ pc[Main] = "prev" /\ prev \in Workers
    BY <1>4 DEF AwaitSetup, CallInv, CallTypes
  <2>2. pc'[Main] = "prev" \/ (pc'[Main] = "copy" /\ state[prev] # "SETTING_UP")
    BY <1>4 DEF AwaitSetup, PlaceTypes
  <2>3. Latest' = Latest
    BY <2>1, <2>2 DEF Latest
  <2>4. avctx.updateContext /\ state[prev] # "SETTING_UP" => ~InSetup(prev)
    <3>1. state[prev] \notin {"GET_FORMAT", "GET_BUFFER"}
      BY <2>1 DEF ServeInv
    <3> QED BY <2>1, <3>1 DEF WorkerInv, WorkerFits, StateFits, JobTypes, InSetup, Unparsed
  <2> QED BY <2>1, <2>2, <2>3, <2>4, SetupCarried DEF Closing
<1>5. CASE Copy
  <2>1. /\ UNCHANGED <<avctx, state, pkt, sent, prev, nextDecoding>> /\ pc[Main] = "copy"
        /\ prev \in Workers /\ CopyContext(nextDecoding, prev)
    BY <1>5 DEF Copy, SubmitFails, P, CallInv, CallTypes
  <2>2. pc'[Main] \in {"ref", "relock"}
    BY <1>5 DEF Copy, SubmitFails, PlaceTypes
  <2>3. nextDecoding \in Workers /\ state[nextDecoding] = "INPUT_READY"
    BY <2>1, NextRests DEF Submitting
  <2>4. SUFFICES ASSUME avctx.updateContext PROVE SetupInv'
    BY <2>1 DEF SetupInv
  <2>5. Latest = prev /\ Latest' = prev
    BY <2>1, <2>2 DEF Latest
  <2>6. ~InSetup(prev)
    BY <2>1, <2>4 DEF SetupInv
  <2>7. parsed[prev] = sent
    BY <2>4, <2>5, <2>6 DEF SetupInv, InSetup
  <2>8. \A q \in Workers : parsed'[q] = IF q = nextDecoding THEN sent ELSE parsed[q]
    BY <2>1, <2>3, <2>7 DEF CopyContext, CodecTypes
  <2>9. ~InSetup(nextDecoding)
    BY <2>3 DEF WorkerInv, WorkerFits, StateFits, InSetup, Unparsed
  <2>10. \A q \in Workers : pc'[q] = pc[q]
    BY <2>1, MainTouches
  <2>11. \A q \in Workers : (Unparsed(q)' <=> Unparsed(q)) /\ (InSetup(q)' <=> InSetup(q))
    BY <2>1, <2>10 DEF Unparsed, InSetup
  <2>12. \A q \in Workers : ~Unparsed(q)'
    BY <2>4, <2>5, <2>6, <2>11 DEF SetupInv, InSetup
  <2>13. ~InSetup(prev)'
    BY <2>1, <2>6, <2>11 DEF InSetup, Unparsed
  <2>14. \A q \in Workers : pc'[q] \in {"format", "awaitFormat"} => parsed'[q] = pkt'[q]
    BY <2>1, <2>4, <2>8, <2>9, <2>10 DEF SetupInv, InSetup
  <2> QED BY <2>1, <2>2, <2>3, <2>5, <2>7, <2>8, <2>12, <2>13, <2>14 DEF SetupInv
<1>6. CASE Submit
  <2>1. UNCHANGED <<avctx, parsed, prev, nextDecoding>> /\ pc[Main] = "ref"
    BY <1>6 DEF Submit, SubmitFails
  <2>2. \/ UNCHANGED <<state, pkt, sent>> /\ pc'[Main] = "relock"
        \/ /\ sent' = sent + 1 /\ pc'[Main] \in {"serve", "submitted"}
           /\ pkt' = [pkt EXCEPT ![nextDecoding] = sent + 1]
           /\ state' = [state EXCEPT ![nextDecoding] = "SETTING_UP"]
    BY <1>6 DEF Submit, SubmitFails, P, PlaceTypes
  <2>3. CASE UNCHANGED <<state, pkt, sent>> /\ pc'[Main] = "relock"
    <3>1. Latest' = Latest
      BY <2>1, <2>3 DEF Latest
    <3>2. avctx.updateContext /\ prev = NoThread => nextDecoding = 0
      BY <2>1 DEF SetupInv, Closing
    <3> QED BY <2>1, <2>3, <3>1, <3>2, SetupCarried
  <2>4. CASE /\ sent' = sent + 1 /\ pc'[Main] \in {"serve", "submitted"}
             /\ pkt' = [pkt EXCEPT ![nextDecoding] = sent + 1]
             /\ state' = [state EXCEPT ![nextDecoding] = "SETTING_UP"]
    <3>1. SUFFICES ASSUME avctx.updateContext PROVE SetupInv'
      BY <2>1 DEF SetupInv
    <3>2. nextDecoding \in Workers /\ state[nextDecoding] = "INPUT_READY"
      BY <2>1, NextRests DEF Submitting
    <3>3. ~InSetup(nextDecoding)
      BY <3>2 DEF WorkerInv, WorkerFits, StateFits, InSetup, Unparsed
    <3>4. \A q \in Workers : ~Unparsed(q)
      <4>1. CASE prev # NoThread
        BY <2>1, <3>1, <4>1 DEF SetupInv, Latest, InSetup
      <4>2. CASE prev = NoThread
        BY <2>1, <3>1, <3>3, <4>2 DEF SetupInv, Latest, InSetup, Closing
      <4> QED BY <4>1, <4>2
    <3>5. \A q \in Workers : pc'[q] = pc[q]
      BY <2>1, MainTouches
    <3>6. \A q \in Workers \ {nextDecoding} : state'[q] = state[q] /\ pkt'[q] = pkt[q]
      BY <2>4 DEF JobTypes
    <3>7. pkt'[nextDecoding] = sent + 1
      BY <2>4, <3>2 DEF JobTypes
    <3>8. Latest' = nextDecoding
      BY <2>1, <2>4 DEF Latest
    <3>9. \A q \in Workers \ {nextDecoding} : ~Unparsed(q)'
      BY <3>4, <3>5, <3>6 DEF Unparsed
    <3>10. pc[nextDecoding] = "wait"
      <4>1. pc[nextDecoding] \in {"none", "wait", "gone"}
        BY <3>2 DEF WorkerInv, WorkerFits, StateFits
      <4>2. pc[nextDecoding] \notin {"none", "gone"}
        BY <2>1, <3>2 DEF ExistInv, CallInv, Deciding, Submitting, Closing
      <4> QED BY <4>1, <4>2
    <3>11. pc'[nextDecoding] = "wait" /\ state'[nextDecoding] = "SETTING_UP"
      BY <2>1, <2>4, <3>2, <3>5, <3>10 DEF JobTypes
    <3>12. parsed[nextDecoding] = sent /\ sent \in Int
      BY <2>1, <3>1 DEF SetupInv, CallTypes
    <3>13. \A q \in Workers : pc'[q] \in {"format", "awaitFormat"} => parsed'[q] = pkt'[q]
      BY <2>1, <3>1, <3>5, <3>6, <3>10 DEF SetupInv
    <3>14. \A q \in Workers : Unparsed(q)' => q = Latest' /\ pkt'[q] = sent' /\ parsed'[q] = sent' - 1
      BY <2>1, <2>4, <3>7, <3>8, <3>9, <3>12
    <3>15. Unparsed(Latest)'
      BY <3>8, <3>11 DEF Unparsed
    <3>16. prev' = NoThread => nextDecoding' = 0
      BY <2>1, <3>1 DEF SetupInv, Closing
    <3>17. pc'[Main] \notin {"copy", "ref"}
      BY <2>4
    <3> QED BY <3>13, <3>14, <3>15, <3>16, <3>17 DEF SetupInv
  <2> QED BY <2>2, <2>3, <2>4
<1>7. CASE Serve
  <2>1. UNCHANGED <<avctx, parsed, sent, prev, nextDecoding>>
    BY <1>7 DEF Serve
  <2>2. {pc[Main], pc'[Main]} \subseteq {"serve", "submitted"}
    BY <1>7 DEF Serve, PlaceTypes
  <2>3. Latest' = Latest
    BY <2>1, <2>2 DEF Latest
  <2>4. avctx.updateContext /\ prev = NoThread => nextDecoding = 0
    BY <2>2 DEF SetupInv, Closing
  <2> QED BY <1>7, <2>1, <2>2, <2>3, <2>4, SetupCarried
<1>8. CASE Submitted
  <2>1. /\ UNCHANGED <<avctx, state, pkt, parsed, sent>> /\ prev' = nextDecoding
        /\ pc[Main] = "submitted"
    BY <1>8 DEF Submitted, Delays, P
  <2>2. pc'[Main] \in {"relock", "collect"}
    BY <1>8 DEF Submitted, Delays, PlaceTypes
  <2>3. prev' # NoThread
    BY <2>1 DEF CallInv, CallTypes, Workers
  <2>4. Latest' = Latest
    BY <2>1, <2>2, <2>3 DEF Latest
  <2> QED BY <2>1, <2>2, <2>3, <2>4, SetupCarried
<1>9. CASE NotSubmitted \/ AwaitOutput \/ Relock \/ Park \/ Parked
  <2>1. Easy /\ Same /\ pc[Main] \in {"delay", "collect", "relock", "park"}
    BY <1>9 DEF NotSubmitted, Delays, AwaitOutput, Relock, Park, Parked
  <2>2. pc'[Main] \in Quiet
    <3>1. CASE NotSubmitted \/ AwaitOutput \/ Park \/ Parked
      BY <3>1 DEF NotSubmitted, Delays, AwaitOutput, Park, Parked, PlaceTypes
    <3>2. CASE Relock
      BY <3>2 DEF Relock, PlaceTypes, CallInv, CallTypes, Closing
    <3> QED BY <1>9, <3>1, <3>2
  <2> QED BY <1>1, <2>1, <2>2 DEF Closing
<1>10. CASE Take
  <2>1. UNCHANGED <<avctx, parsed, sent, prev>> /\ pc[Main] = "take"
    BY <1>10 DEF Take
  <2>2. pc'[Main] \in {"relock", "collect"}
    BY <1>10 DEF Take, PlaceTypes
  <2>3. nextDecoding' \in {nextDecoding, 0}
    BY <1>10 DEF Take
  <2>4. Latest' = Latest
    BY <2>1, <2>2 DEF Latest
  <2>5. avctx.updateContext /\ prev = NoThread => nextDecoding = 0
    BY <2>1 DEF SetupInv, Closing
  <2> QED BY <1>10, <2>1, <2>2, <2>3, <2>4, <2>5, SetupCarried
<1>11. CASE FlushThread \/ Flushed \/ Join \/ Close \/ Freed
  <2>1. Easy /\ Same
    BY <1>11 DEF FlushThread, Flushed, Join, Close, Freed
  <2>2. \/ pc[Main] = "flushThread" /\ pc'[Main] \in {"flushThread", "user"}
        \/ {pc[Main], pc'[Main]} \subseteq Closing
    BY <1>11 DEF FlushThread, Flushed, Join, Close, Freed, PlaceTypes, Closing
  <2> QED BY <1>1, <2>1, <2>2 DEF Closing
<1>12. CASE FlushRing \/ Kill
  <2>1. /\ UNCHANGED <<avctx, state, pkt, sent>> /\ prev' \in {prev, NoThread}
        /\ pc[Main] \in {"flush", "kill"} /\ pc'[Main] \in {"flushThread", "join"}
        /\ FlushRing => prev' = NoThread /\ nextDecoding' = 0 /\ CopyToFirst
        /\ Kill => prev' = prev /\ (CopyToFirst \/ UNCHANGED parsed) /\ pc'[Main] = "join"
    BY <1>12 DEF FlushRing, Kill, PlaceTypes
  <2>2. SUFFICES ASSUME avctx.updateContext PROVE SetupInv'
    BY <2>1 DEF SetupInv
  <2>3. \A q \in Workers : state[q] = "INPUT_READY"
    BY <2>1 DEF RestInv, Closing
  <2>4. \A q \in Workers : ~InSetup(q)
    BY <2>3 DEF WorkerInv, WorkerFits, StateFits, InSetup, Unparsed
  <2>5. \A q \in Workers : pc'[q] = pc[q]
    BY <2>1, MainTouches
  <2>6. \A q \in Workers : ~Unparsed(q)' /\ pc'[q] \notin {"format", "awaitFormat"}
    BY <2>1, <2>4, <2>5 DEF Unparsed, InSetup
  <2>7. parsed[Latest] = sent
    BY <2>2, <2>4, LatestIsWorker DEF SetupInv, InSetup
  <2>8. Latest = IF prev = NoThread THEN 0 ELSE prev
    BY <2>1 DEF Latest
  <2>9. Latest' = IF prev' = NoThread THEN 0 ELSE prev'
    BY <2>1 DEF Latest
  <2>10. ASSUME CopyToFirst PROVE parsed'[0] = sent /\ parsed'[Latest] = sent
    <3>1. CASE prev # NoThread /\ prev # 0
      <4>1. prev \in Workers /\ parsed' = [parsed EXCEPT ![0] = parsed[prev]]
        BY <2>10, <3>1 DEF CopyToFirst, CopyContext, CallTypes
      <4>2. Latest = prev
        BY <2>8, <3>1
      <4> QED BY <2>7, <3>1, <4>1, <4>2 DEF CodecTypes
    <3>2. CASE prev = NoThread \/ prev = 0
      BY <2>7, <2>8, <2>10, <3>2 DEF CopyToFirst
    <3> QED BY <3>1, <3>2
  <2>11. parsed'[Latest'] = sent'
    <3>1. CASE FlushRing
      BY <2>1, <2>9, <2>10, <3>1
    <3>2. CASE Kill
      <4>1. Latest' = Latest
        BY <2>1, <2>8, <2>9, <3>2
      <4> QED BY <2>1, <2>7, <2>10, <3>2, <4>1
    <3> QED BY <1>12, <3>1, <3>2
  <2>12. pc'[Main] \in Closing \/ nextDecoding' = 0
    BY <1>12, <2>1 DEF Closing
  <2>13. pc'[Main] \notin {"copy", "ref"}
    BY <2>1
  <2> QED BY <2>6, <2>11, <2>12, <2>13 DEF SetupInv
<1> QED BY <1>2, <1>3, <1>4, <1>5, <1>6, <1>7, <1>8, <1>9, <1>10, <1>11, <1>12 DEF Calling

-----------------------------------------------------------------------------
(* The buffers that were released *)

\* A worker releases buffers only while it decodes.
LEMMA WorkerKeepsReleaseInv ==
  ASSUME Types, WorkerInv, ExistInv, RestInv, ReleaseInv, NEW p \in Workers, Worker(p)
  PROVE  ReleaseInv'
<1>1. pc[p] # "none"
  BY WorkerBusy
<1>2. p < count
  BY <1>1, Sizes DEF ExistInv, Types, CallTypes, Workers
<1>3. pc[Main] \in {"init"} \cup Closing => released'[p] = released[p]
  BY WorkerBusy DEF RestInv
<1>4. \A q \in Workers \ {p} : released'[q] = released[q]
  BY WorkerTouches
<1>5. UNCHANGED <<k, count>> /\ pc'[Main] = pc[Main]
  BY WorkerTouches DEF callVars
<1> QED BY <1>2, <1>3, <1>4, <1>5, Sizes DEF ReleaseInv, Closing, Types, CallTypes, Workers

\* Main gives the buffers of every worker back before it counts the worker as closed.
LEMMA MainKeepsReleaseInv ==
  ASSUME Types, CallInv, ExistInv, ReleaseInv, Client \/ Calling
  PROVE  ReleaseInv'
<1> USE Sizes, SettingFacts DEF Types, At, Goto, Sleep, WakeAll, ringVars, callVars,
      lockVars, jobVars, codecVars
<1>1. CASE InitThread \/ Initialised \/ InitFails
  <2>1. UNCHANGED released /\ pc[Main] = "init"
    BY <1>1 DEF InitThread, Initialised, InitFails
  <2>2. CASE InitThread
    <3>1. pc'[Main] = pc[Main]
      BY <2>2 DEF InitThread, PlaceTypes, CallTypes, Workers
    <3> QED BY <2>1, <3>1 DEF ReleaseInv, Closing
  <2>3. CASE Initialised \/ InitFails
    <3>1. pc'[Main] \in {"user", "park"}
      BY <2>3 DEF Initialised, InitFails, BeginCall, PlaceTypes
    <3> QED BY <2>1, <3>1 DEF ReleaseInv, Closing
  <2> QED BY <1>1, <2>2, <2>3
<1>2. CASE LockThread \/ AwaitSetup \/ Copy \/ Submit \/ Serve
  <2>1. UNCHANGED <<released, count>>
    BY <1>2 DEF LockThread, AwaitSetup, Copy, Submit, Serve, SubmitFails
  <2>2. pc'[Main] \notin {"init"} \cup Closing
    <3>1. CASE LockThread \/ AwaitSetup \/ Copy
      BY <3>1 DEF LockThread, AwaitSetup, Copy, SubmitFails, ToPrev, PlaceTypes, Closing
    <3>2. CASE Submit \/ Serve
      BY <3>2 DEF Submit, Serve, SubmitFails, PlaceTypes, Closing
    <3> QED BY <1>2, <3>1, <3>2
  <2> QED BY <2>1, <2>2 DEF ReleaseInv, Closing
<1>3. CASE ReleaseDelayed \/ FlushThread
  <2>1. /\ UNCHANGED count /\ pc'[Main] \notin {"init"} \cup Closing
    BY <1>3 DEF ReleaseDelayed, FlushThread, ToPrev, PlaceTypes, Closing
  <2>2. \A q \in Workers : q >= count => released'[q] \in {0, released[q]}
    <3>1. CASE ReleaseDelayed
      BY <3>1 DEF ReleaseDelayed, JobTypes
    <3>2. CASE FlushThread
      <4>1. /\ k < count /\ k \in Nat /\ count \in Nat
            /\ \A q \in Workers : q # k => released'[q] = released[q]
        BY <3>2 DEF FlushThread, JobTypes, CallTypes
      <4> QED BY <4>1
    <3> QED BY <1>3, <3>1, <3>2
  <2> QED BY <2>1, <2>2 DEF ReleaseInv, Closing
<1>4. CASE \/ Submitted \/ NotSubmitted \/ AwaitOutput \/ Take \/ Park \/ Parked
           \/ FlushRing \/ Flushed \/ Client
  <2>1. UNCHANGED <<released, count>>
    BY <1>4 DEF Submitted, NotSubmitted, Delays, AwaitOutput, Take, Park, Parked,
       FlushRing, Flushed, Client, Decode, Flush, Free
  <2>2. pc'[Main] \notin {"init"} \cup Closing
    <3>1. CASE Submitted \/ NotSubmitted \/ AwaitOutput \/ Take
      BY <3>1 DEF Submitted, NotSubmitted, Delays, AwaitOutput, Take, PlaceTypes, Closing
    <3>2. CASE Park \/ Parked \/ FlushRing \/ Flushed \/ Client
      BY <3>2 DEF Park, Parked, FlushRing, Flushed, Client, Decode, Flush, Free,
         BeginCall, PlaceTypes, Closing
    <3> QED BY <1>4, <3>1, <3>2
  <2> QED BY <2>1, <2>2 DEF ReleaseInv, Closing
<1>5. CASE Relock
  <2>1. /\ UNCHANGED <<released, count>> /\ pc[Main] = "relock"
        /\ pc'[Main] \in {"relock", "user", "flush"} \/ (pc'[Main] = "kill" /\ k' = 0)
    BY <1>5 DEF Relock, PlaceTypes, CallInv, CallTypes
  <2> QED BY <2>1 DEF ReleaseInv, Closing, Workers
<1>6. CASE Kill \/ Freed
  <2>1. /\ UNCHANGED <<released, count, k>> /\ pc[Main] = "kill"
        /\ pc'[Main] = "join" \/ (pc'[Main] = "freed" /\ k = count)
    BY <1>6 DEF Kill, Freed, PlaceTypes
  <2> QED BY <2>1 DEF ReleaseInv, Closing
<1>7. CASE Join
  <2>1. UNCHANGED <<count, k>> /\ pc[Main] = "join" /\ pc'[Main] = "close" /\ k < count
    BY <1>7 DEF Join, PlaceTypes, CallInv
  <2>2. \A q \in Workers : q # k => released'[q] = released[q]
    BY <1>7 DEF Join, JobTypes
  <2> QED BY <2>1, <2>2 DEF ReleaseInv, Closing, CallTypes, Workers
<1>8. CASE Close
  <2>1. UNCHANGED count /\ pc[Main] = "close" /\ pc'[Main] = "kill" /\ k' = k + 1 /\ k < count
    BY <1>8 DEF Close, PlaceTypes, CallInv
  <2>2. \A q \in Workers : released'[q] = IF q = k THEN 0 ELSE released[q]
    BY <1>8 DEF Close, JobTypes
  <2> QED BY <2>1, <2>2 DEF ReleaseInv, Closing, CallTypes, Workers
<1> QED BY <1>1, <1>2, <1>3, <1>4, <1>5, <1>6, <1>7, <1>8 DEF Calling

-----------------------------------------------------------------------------
(* The packets in the ring *)

\* A worker has its result when it publishes it, and keeps it while it rests.
LEMMA WorkerResults ==
  ASSUME Types, WorkerInv, NEW p \in Workers, Worker(p)
  PROVE  /\ \A q \in Workers \ {p} : out'[q] = out[q]
         /\ \/ state[p] # "INPUT_READY" /\ state'[p] # "INPUT_READY"
            \/ state'[p] = "INPUT_READY" /\ out'[p] = out[p]
<1> USE Sizes, SettingFacts DEF Types, At, Goto, Sleep, WakeAll, ringVars, callVars,
      lockVars, jobVars, codecVars
<1>1. CASE AwaitPacket(p)
  BY <1>1 DEF AwaitPacket, JobTypes, PlaceTypes, WorkerInv, WorkerFits, StateFits
<1>2. CASE FinishEarly(p)
  BY <1>2 DEF FinishEarly, SetupFinished, JobTypes, PlaceTypes, WorkerInv, WorkerFits,
     StateFits
<1>3. CASE StartDecode(p)
  BY <1>3 DEF StartDecode, UsesHw, CanLockHw, JobTypes, PlaceTypes, WorkerInv, WorkerFits,
     StateFits
<1>4. CASE DecodeNothing(p) \/ GetFormat(p) \/ AwaitFormat(p)
  BY <1>4 DEF DecodeNothing, GetFormat, AwaitFormat, Parse, Return, ToFinish, ToPublish,
     UsesHw, ChooseFormat, JobTypes, PlaceTypes, WorkerInv, WorkerFits, StateFits
<1>5. CASE GetBuffer(p) \/ AwaitBuffer(p) \/ GotBuffer(p)
  BY <1>5 DEF GetBuffer, AwaitBuffer, GotBuffer, Parse, SetupFinished, Return, ToFinish,
     ToPublish, UsesHw, JobTypes, PlaceTypes, WorkerInv, WorkerFits, StateFits
<1>6. CASE AwaitProgress(p) \/ ReportProgress(p) \/ ReleaseBuffer(p) \/ DecodeReturns(p)
  BY <1>6 DEF AwaitProgress, ReportProgress, ReleaseBuffer, DecodeReturns, Complete,
     Return, ToFinish, ToPublish, UsesHw, JobTypes, PlaceTypes, WorkerInv, WorkerFits,
     StateFits
<1>7. CASE FinishSetup(p) \/ LockAsync(p) \/ Ready(p)
  BY <1>7 DEF FinishSetup, LockAsync, Ready, CanLockHw, SetupFinished, ToPublish,
     JobTypes, PlaceTypes, WorkerInv, WorkerFits, StateFits
<1>8. CASE UnlockHw(p) \/ UnlockAsync(p) \/ Publish(p)
  BY <1>8 DEF UnlockHw, UnlockAsync, Publish, JobTypes, PlaceTypes, WorkerInv, WorkerFits,
     StateFits
<1> QED BY <1>1, <1>2, <1>3, <1>4, <1>5, <1>6, <1>7, <1>8 DEF Worker, Decoder

\* A worker has no part in the order, and no result without a packet.
LEMMA WorkerKeepsOrderInv ==
  ASSUME Types, WorkerInv, OrderInv, NEW p \in Workers, Worker(p)
  PROVE  OrderInv'
<1>1. UNCHANGED <<ringVars, callVars, pkt>> /\ pc'[Main] = pc[Main]
  BY WorkerTouches
<1>2. \A q \in Workers : pkt[q] = 0 => out'[q] = out[q]
  BY WorkerResults DEF WorkerInv, WorkerFits
<1> QED BY <1>1, <1>2 DEF OrderInv, Before, ringVars, callVars

\* Nor does it empty the window.
LEMMA WorkerKeepsFilledInv ==
  ASSUME Types, FilledInv, NEW p \in Workers, Worker(p)
  PROVE  FilledInv'
BY WorkerTouches DEF FilledInv, Window, FullWindow, ringVars, callVars

\* The next packet is the last of the ring, the oldest result the first one.
LEMMA MainKeepsOrderInv ==
  ASSUME Types, WorkerInv, CallInv, ExistInv, RestInv, RingInv, OrderInv, Client \/ Calling
  PROVE  OrderInv'
<1> USE Sizes DEF Types, At, Goto, Sleep, WakeAll, ringVars, callVars, lockVars, jobVars,
      codecVars
<1>1. CASE \/ InitThread \/ Initialised \/ LockThread \/ ReleaseDelayed \/ AwaitSetup \/ Copy
           \/ Serve \/ Relock
  <2>1. UNCHANGED <<pkt, out, sent, nextFinished, nextDecoding, op>>
    BY <1>1 DEF InitThread, Initialised, LockThread, ReleaseDelayed, AwaitSetup, Copy,
       SubmitFails, Serve, Relock
  <2>2. pc'[Main] # "flushThread" /\ (pc'[Main] = "user" => op # "flush")
    <3>1. CASE InitThread \/ Initialised \/ LockThread \/ ReleaseDelayed
      BY <3>1 DEF InitThread, Initialised, LockThread, ReleaseDelayed, SubmitFails,
         ToPrev, PlaceTypes, CallTypes, CallInv
    <3>2. CASE AwaitSetup \/ Copy \/ Serve
      BY <3>2 DEF AwaitSetup, Copy, SubmitFails, Serve, PlaceTypes
    <3>3. CASE Relock
      BY <3>3 DEF Relock, PlaceTypes, CallInv, CallTypes
    <3> QED BY <1>1, <3>1, <3>2, <3>3
  <2> QED BY <2>1, <2>2 DEF OrderInv, Before
<1>2. CASE InitFails \/ Client
  <2>1. UNCHANGED <<pkt, out, sent, nextFinished, nextDecoding>>
    BY <1>2 DEF InitFails, Client, Decode, Flush, Free
  <2>2. pc'[Main] \in {"lock", "delay", "park"} /\ op' \in {"decode", "flush", "free"}
    BY <1>2 DEF InitFails, Client, Decode, Flush, Free, BeginCall, PlaceTypes
  <2>3. op \in {"init", "decode", "flush"} /\ (op = "flush" => pc[Main] = "user")
    BY <1>2 DEF InitFails, Client, Decode, Flush, Free, CallInv, CallTypes
  <2>4. op = "flush" => \A p \in Workers : pkt[p] = 0
    BY <2>3 DEF OrderInv
  <2> QED BY <2>1, <2>2, <2>3, <2>4 DEF OrderInv, Before
<1>3. CASE Submit
  <2>1. UNCHANGED <<out, nextFinished, nextDecoding, op>> /\ pc[Main] = "ref" /\ op = "decode"
    BY <1>3 DEF Submit, SubmitFails, CallInv, Deciding, Submitting
  <2>2. pc'[Main] \in {"serve", "submitted", "relock"}
    BY <1>3 DEF Submit, SubmitFails, PlaceTypes
  <2>3. CASE UNCHANGED <<pkt, sent>>
    BY <2>1, <2>2, <2>3 DEF OrderInv, Before
  <2>4. CASE sent' = sent + 1 /\ pkt' = [pkt EXCEPT ![nextDecoding] = sent + 1]
    <3>1. nextDecoding \in Workers
      BY <2>1 DEF CallInv, CallTypes, Workers
    <3>2. \A q \in Workers : pkt[q] # 0 => Window(nextFinished, nextDecoding, q)
      BY <2>1 DEF RingInv, Closing
    <3>3. \A q \in Workers : pkt'[q] = IF q = nextDecoding THEN sent + 1 ELSE pkt[q]
      BY <2>4, <3>1 DEF JobTypes
    <3>4. \A q \in Workers : pkt[q] # 0 => ~Before(nextFinished, nextDecoding, q)
      BY <3>1, <3>2 DEF Before, Window, CallTypes, Workers
    <3>5. \A q \in Workers : pkt[q] \in Nat /\ pkt[q] <= sent /\ sent \in Nat
      BY DEF OrderInv, JobTypes, CallTypes
    <3>6. \A p, q \in Workers :
            pkt'[p] # 0 /\ pkt'[q] # 0 /\ Before(nextFinished, p, q) => pkt'[p] < pkt'[q]
      <4> TAKE p, q \in Workers
      <4>1. CASE p = nextDecoding
        <5>1. ~Before(nextFinished, nextDecoding, nextDecoding)
          BY <3>1 DEF Before, CallTypes, Workers
        <5> QED BY <4>1, <5>1, <3>3, <3>4
      <4>2. CASE q = nextDecoding /\ p # nextDecoding
        BY <4>2, <3>3, <3>5
      <4>3. CASE q # nextDecoding /\ p # nextDecoding
        BY <4>3, <3>3, <2>1 DEF OrderInv
      <4> QED BY <4>1, <4>2, <4>3
    <3>7. \A q \in Workers : pkt'[q] <= sent' /\ (pkt'[q] = 0 => out'[q] = "none")
      BY <3>3, <3>5, <2>1, <2>4 DEF OrderInv
    <3> QED BY <2>1, <2>2, <3>6, <3>7 DEF OrderInv, Before
  <2> QED BY <1>3, <2>3, <2>4 DEF Submit, SubmitFails, P
<1>4. CASE Submitted \/ NotSubmitted \/ AwaitOutput
  <2>1. UNCHANGED <<pkt, out, sent, nextFinished, op>>
    BY <1>4 DEF Submitted, NotSubmitted, Delays, AwaitOutput
  <2>2. pc'[Main] \in {"relock", "collect", "take"}
    BY <1>4 DEF Submitted, NotSubmitted, Delays, AwaitOutput, PlaceTypes
  <2> QED BY <2>1, <2>2 DEF OrderInv, Before
<1>5. CASE Take
  <2>1. UNCHANGED <<sent, op>> /\ k \in Workers /\ op = "decode" /\ pc'[Main] \in {"relock", "collect"}
    BY <1>5 DEF Take, CallInv, CallTypes, PlaceTypes, Workers
  <2>2. \A q \in Workers : /\ pkt'[q] = IF q = k THEN 0 ELSE pkt[q]
                           /\ out'[q] = IF q = k THEN "none" ELSE out[q]
    BY <1>5 DEF Take, JobTypes
  <2>3. \A q \in Workers : pkt[q] # 0 => q = k \/ Before(nextFinished, k, q)
    BY <1>5, <2>1 DEF Take, RingInv, Window, Before, CallTypes, Workers
  <2>4. nextFinished' \in {nextFinished, AfterThis}
    BY <1>5 DEF Take
  <2>5. \A p, q \in Workers :
          pkt'[p] # 0 /\ pkt'[q] # 0 /\ Before(AfterThis, p, q) => Before(nextFinished, p, q)
    BY <2>1, <2>2, <2>3 DEF Before, AfterThis, CallTypes, Workers
  <2>6. \A p, q \in Workers :
          pkt'[p] # 0 /\ pkt'[q] # 0 /\ Before(nextFinished', p, q) => pkt'[p] < pkt'[q]
    BY <2>1, <2>2, <2>4, <2>5 DEF OrderInv
  <2>7. \A q \in Workers : pkt'[q] <= sent' /\ (pkt'[q] = 0 => out'[q] = "none")
    BY <2>1, <2>2 DEF OrderInv, CallTypes
  <2> QED BY <2>1, <2>6, <2>7 DEF OrderInv, Before
<1>6. CASE Park \/ Parked
  <2>1. UNCHANGED <<pkt, sent, nextFinished, nextDecoding, op>>
          /\ \A q \in Workers : out[q] = "none" => out'[q] = "none"
    BY <1>6 DEF Park, Parked, JobTypes
  <2>2. pc'[Main] \in {"park", "relock"}
    BY <1>6 DEF Park, Parked, PlaceTypes
  <2> QED BY <2>1, <2>2 DEF OrderInv, Before
<1>7. CASE FlushRing
  <2>1. UNCHANGED <<pkt, out, sent, op>> /\ op = "flush" /\ nextDecoding' = nextFinished'
          /\ pc'[Main] = "flushThread"
    BY <1>7 DEF FlushRing, CallInv, PlaceTypes
  <2> QED BY <2>1 DEF OrderInv
<1>8. CASE FlushThread
  <2>1. UNCHANGED <<sent, op, nextDecoding, nextFinished, pc>> /\ op = "flush"
          /\ pc[Main] = "flushThread"
    BY <1>8 DEF FlushThread, CallInv
  <2>2. \A q \in Workers : \/ pkt'[q] = 0 /\ out'[q] = "none"
                           \/ pkt'[q] = pkt[q] /\ out'[q] = out[q]
    BY <1>8 DEF FlushThread, JobTypes
  <2> QED BY <2>1, <2>2 DEF OrderInv, CallTypes
<1>9. CASE Flushed
  <2>1. UNCHANGED <<pkt, out, sent, op, nextDecoding, nextFinished>> /\ op = "flush"
          /\ pc[Main] = "flushThread"
    BY <1>9 DEF Flushed, CallInv
  <2>2. \A q \in Workers : pkt[q] = 0
    BY <1>9 DEF Flushed, RingInv, CallInv, CallTypes, JobTypes, Workers
  <2> QED BY <2>1, <2>2 DEF OrderInv
<1>10. CASE Kill \/ Join \/ Close \/ Freed
  <2>1. UNCHANGED <<pkt, out, sent, op>> /\ op = "free" /\ pc'[Main] # "flushThread"
    BY <1>10 DEF Kill, Join, Close, Freed, CallInv, Closing, PlaceTypes
  <2> QED BY <2>1 DEF OrderInv
<1> QED BY <1>1, <1>2, <1>3, <1>4, <1>5, <1>6, <1>7, <1>8, <1>9, <1>10 DEF Calling

\* A worker's place in the window is filled from the packet's submission to its result.
LEMMA MainKeepsFilledInv ==
  ASSUME Types, CallInv, OrderInv, FilledInv, Client \/ Calling
  PROVE  FilledInv'
<1> USE Sizes DEF Types, At, Goto, Sleep, WakeAll, ringVars, callVars, lockVars, jobVars,
      codecVars
<1>1. CASE \/ InitThread \/ Initialised \/ LockThread \/ ReleaseDelayed \/ AwaitSetup \/ Copy
           \/ Relock
  <2>1. UNCHANGED <<pkt, nextFinished, nextDecoding, op, ending>>
    BY <1>1 DEF InitThread, Initialised, LockThread, ReleaseDelayed, AwaitSetup, Copy,
       SubmitFails, Relock
  <2>2. pc[Main] \notin {"collect", "take"}
    BY <1>1 DEF InitThread, Initialised, LockThread, ReleaseDelayed, AwaitSetup, Copy,
       Relock
  <2>3. pc'[Main] \notin {"collect", "take", "serve", "submitted"}
    <3>1. CASE InitThread \/ Initialised \/ LockThread \/ ReleaseDelayed
      BY <3>1 DEF InitThread, Initialised, LockThread, ReleaseDelayed, SubmitFails,
         ToPrev, PlaceTypes, CallTypes
    <3>2. CASE AwaitSetup \/ Copy \/ Relock
      BY <3>2 DEF AwaitSetup, Copy, SubmitFails, Relock, PlaceTypes, CallTypes, CallInv
    <3> QED BY <1>1, <3>1, <3>2
  <2> QED BY <2>1, <2>2, <2>3 DEF FilledInv, Window, FullWindow
<1>2. CASE InitFails \/ Client
  <2>1. UNCHANGED <<pkt, nextFinished, nextDecoding>> /\ pc[Main] \in {"init", "user"}
    BY <1>2 DEF InitFails, Client, Decode, Flush, Free
  <2>2. pc'[Main] \in {"lock", "delay", "park"}
    BY <1>2 DEF InitFails, Client, Decode, Flush, Free, BeginCall, PlaceTypes
  <2>3. op' \in {"init", "decode"} /\ ending' = "no" => op \in {"init", "decode", "flush"} /\ ending = "no"
    BY <1>2 DEF InitFails, Client, Decode, Flush, Free, BeginCall, CallInv, CallTypes
  <2>4. op = "flush" => \A p \in Workers : ~Window(nextFinished, nextDecoding, p)
    BY <2>1 DEF OrderInv, CallInv, Window, CallTypes, Workers
  <2> QED BY <2>1, <2>2, <2>3, <2>4 DEF FilledInv, Window
<1>3. CASE Submit
  <2>1. UNCHANGED <<nextFinished, nextDecoding, op, ending>> /\ pc[Main] = "ref"
    BY <1>3 DEF Submit, SubmitFails
  <2>2. \/ UNCHANGED pkt /\ pc'[Main] = "relock"
        \/ pkt' = [pkt EXCEPT ![nextDecoding] = sent + 1] /\ pc'[Main] \in {"serve", "submitted"}
    BY <1>3 DEF Submit, SubmitFails, P, PlaceTypes
  <2>3. nextDecoding \in Workers /\ sent + 1 # 0
    BY <2>1 DEF CallInv, CallTypes, Workers
  <2>4. \A q \in Workers : pkt[q] # 0 => pkt'[q] # 0
    BY <2>2, <2>3 DEF JobTypes
  <2>5. pc'[Main] \in {"serve", "submitted"} => pkt'[nextDecoding] # 0
    BY <2>2, <2>3 DEF JobTypes
  <2>6. pc'[Main] \notin {"collect", "take"}
    BY <2>2
  <2> QED BY <2>1, <2>4, <2>5, <2>6 DEF FilledInv, Window
<1>4. CASE Serve
  <2>1. UNCHANGED <<pkt, nextFinished, nextDecoding, op, ending>>
    BY <1>4 DEF Serve
  <2>2. pc[Main] = "serve" /\ pc'[Main] \in {"serve", "submitted"}
    BY <1>4 DEF Serve, PlaceTypes
  <2> QED BY <2>1, <2>2 DEF FilledInv, Window
<1>5. CASE Submitted
  <2>1. /\ UNCHANGED <<pkt, nextFinished, op, empty, ending>> /\ nextDecoding' = nextDecoding + 1
        /\ delaying' = (delaying /\ nextDecoding + 1 <= LastDelayed) /\ k' = nextFinished
        /\ pc[Main] = "submitted"
    BY <1>5 DEF Submitted, Delays
  <2>2. IF delaying' /\ ~empty THEN pc'[Main] = "relock" ELSE pc'[Main] = "collect"
    BY <1>5 DEF Submitted, Delays, PlaceTypes
  <2>3. nextDecoding \in Workers /\ nextFinished \in Workers
    BY <2>1 DEF CallInv, Deciding, CallTypes, Workers
  <2>4. SUFFICES ASSUME op \in {"init", "decode"}, ending = "no" PROVE FilledInv'
    BY <2>1 DEF FilledInv
  <2>5. \A p \in Workers : Window(nextFinished, nextDecoding, p) \/ p = nextDecoding => pkt[p] # 0
    BY <2>1, <2>4 DEF FilledInv
  <2>6. CASE delaying' /\ ~empty
    <3>1. nextFinished = 0
      BY <2>1, <2>4, <2>6 DEF CallInv, CallTypes
    <3>2. \A p \in Workers : Window(nextFinished, nextDecoding + 1, p) => pkt[p] # 0
      BY <2>3, <2>5, <3>1 DEF Window, Workers
    <3> QED BY <2>1, <2>2, <2>6, <3>2 DEF FilledInv, Window
  <2>7. CASE ~(delaying' /\ ~empty)
    <3>1. \A p \in Workers : FullWindow(nextFinished, nextDecoding + 1, p) => pkt[p] # 0
      BY <2>3, <2>5 DEF Window, FullWindow, Workers
    <3> QED BY <2>1, <2>2, <2>7, <3>1 DEF FilledInv, FullWindow
  <2> QED BY <2>6, <2>7
<1>6. CASE NotSubmitted
  <2>1. ending = "draining" /\ ending' = ending
    BY <1>6 DEF NotSubmitted, Delays, CallInv, Deciding, CallTypes
  <2> QED BY <2>1 DEF FilledInv
<1>7. CASE AwaitOutput
  <2>1. UNCHANGED <<pkt, nextFinished, nextDecoding, op, ending, k>>
    BY <1>7 DEF AwaitOutput
  <2>2. pc[Main] = "collect" /\ pc'[Main] \in {"collect", "take"}
    BY <1>7 DEF AwaitOutput, PlaceTypes
  <2> QED BY <2>1, <2>2 DEF FilledInv, FullWindow
<1>8. CASE Take
  <2>1. SUFFICES ASSUME op \in {"init", "decode"}, ending = "no", ending' = "no" PROVE FilledInv'
    BY <1>8 DEF Take, FilledInv, CallTypes
  <2>2. k = nextFinished
          /\ \A p \in Workers : FullWindow(nextFinished, nextDecoding, p) => pkt[p] # 0
    BY <1>8, <2>1 DEF Take, FilledInv
  <2>3. AfterThis # nextFinished
    BY <2>2 DEF AfterThis, CallTypes, Workers
  <2>4. /\ nextFinished' = AfterThis /\ pc'[Main] = "relock"
        /\ nextDecoding' = IF nextDecoding >= NbThreads THEN 0 ELSE nextDecoding
    BY <1>8, <2>1, <2>3 DEF Take, PlaceTypes, CallInv
  <2>5. \A p \in Workers : p # k => pkt'[p] = pkt[p]
    BY <1>8 DEF Take, JobTypes
  <2>6. \A p \in Workers : Window(nextFinished', nextDecoding', p) =>
                             p # k /\ FullWindow(nextFinished, nextDecoding, p)
    BY <2>2, <2>4 DEF AfterThis, Window, FullWindow, CallTypes, Workers
  <2> QED BY <2>2, <2>4, <2>5, <2>6 DEF FilledInv, Window
<1>9. CASE Park \/ Parked \/ FlushRing \/ FlushThread \/ Flushed
  <2>1. op' = op /\ op \in {"flush", "free"}
    BY <1>9 DEF Park, Parked, FlushRing, FlushThread, Flushed, CallInv
  <2> QED BY <2>1 DEF FilledInv
<1>10. CASE Kill \/ Join \/ Close \/ Freed
  <2>1. op' = op /\ op = "free"
    BY <1>10 DEF Kill, Join, Close, Freed, CallInv, Closing
  <2> QED BY <2>1 DEF FilledInv
<1> QED BY <1>1, <1>2, <1>3, <1>4, <1>5, <1>6, <1>7, <1>8, <1>9, <1>10 DEF Calling

-----------------------------------------------------------------------------
(* The inductive invariant *)

\* The invariant holds at first.
LEMMA InitInv == Init => FrameInv
<1> SUFFICES ASSUME Init PROVE FrameInv
  OBVIOUS
<1> USE Sizes DEF Init
<1>1. CallTypes /\ LockTypes /\ JobTypes /\ CodecTypes
  <2>1. CallTypes
    <3>1. count \in 1 .. NbThreads /\ {k, nextDecoding} \subseteq 0 .. NbThreads /\ sent \in 0 .. MaxPackets
      OBVIOUS
    <3>2. nextFinished \in Workers /\ reply \in CallResults
      BY DEF CallResults
    <3> QED BY <3>1, <3>2 DEF CallTypes
  <2>2. LockTypes
    BY DEF LockTypes
  <2>3. JobTypes /\ CodecTypes
    BY DEF JobTypes, CodecTypes
  <2> QED BY <2>1, <2>2, <2>3
<1>2. PlaceTypes
  BY ConditionFacts DEF PlaceTypes, MainPlaces, WorkerPlaces, Threads
<1>3. \A p \in Workers : pc[p] = "none" /\ state[p] = "INPUT_READY"
  OBVIOUS
<1>4. pc[Main] = "init"
  OBVIOUS
<1>5. WorkerInv /\ LockInv /\ AsyncExclusive
  BY <1>3, <1>4 DEF WorkerInv, WorkerFits, StateFits, LockInv, UsesHw, Decoding,
     AsyncExclusive, MainHasAsync, HasAsync
<1>6. CallInv /\ ExistInv /\ RestInv
  BY <1>3, <1>4 DEF CallInv, ExistInv, RestInv, Submitting, Deciding, Closing, Workers
<1>7. RingInv /\ OwnerInv /\ ServeInv /\ ReleaseInv
  BY <1>3, <1>4 DEF RingInv, OwnerInv, ServeInv, ReleaseInv, Closing
<1>8. SetupInv
  BY <1>3, <1>4 DEF SetupInv, Unparsed, InSetup, Latest
<1>9. OrderInv /\ FilledInv
  BY <1>4 DEF OrderInv, FilledInv, Window, Workers
<1> QED BY <1>1, <1>2, <1>5, <1>6, <1>7, <1>8, <1>9 DEF FrameInv, Types

\* A spurious wakeup does not disturb it.
LEMMA WakeupKeepsInv ==
  ASSUME FrameInv, NEW t \in Threads, SpuriousWakeup(t)
  PROVE  FrameInv'
<1>1. UNCHANGED <<ringVars, callVars, lockVars, pc, jobVars, codecVars>>
  BY DEF SpuriousWakeup
<1>2. asleep' = [asleep EXCEPT ![t] = Awake]
  BY DEF SpuriousWakeup
<1>3. Types'
  BY <1>1, <1>2, ConditionFacts DEF FrameInv, Types, CallTypes, LockTypes, PlaceTypes,
     JobTypes, CodecTypes, ringVars, callVars, lockVars, jobVars, codecVars
<1> USE <1>1 DEF FrameInv, ringVars, callVars, lockVars, jobVars, codecVars
<1>4. WorkerInv' /\ LockInv' /\ AsyncExclusive'
  BY DEF WorkerInv, WorkerFits, StateFits, EarlySetup, SafeCallbacks, LockInv, UsesHw,
     Decoding, AsyncExclusive, MainHasAsync, HasAsync
<1>5. CallInv' /\ ExistInv' /\ RestInv' /\ RingInv'
  BY DEF CallInv, ExistInv, RestInv, RingInv, Window, FullWindow
<1>6. OwnerInv' /\ ServeInv' /\ ReleaseInv'
  BY DEF OwnerInv, ServeInv, Serves, ReleaseInv
<1>7. SetupInv'
  BY DEF SetupInv, Latest, Unparsed, InSetup
<1>8. OrderInv' /\ FilledInv'
  BY DEF OrderInv, Before, FilledInv, Window, FullWindow
<1> QED BY <1>3, <1>4, <1>5, <1>6, <1>7, <1>8

\* Nor does a step that changes nothing.
LEMMA StutterKeepsInv ==
  ASSUME FrameInv, UNCHANGED vars
  PROVE  FrameInv'
<1>1. UNCHANGED <<ringVars, callVars, lockVars, asleep, pc, jobVars, codecVars>>
  BY DEF vars
<1> USE <1>1 DEF FrameInv, ringVars, callVars, lockVars, jobVars, codecVars
<1>2. Types'
  BY DEF Types, CallTypes, LockTypes, PlaceTypes, JobTypes, CodecTypes
<1>3. WorkerInv' /\ LockInv' /\ AsyncExclusive'
  BY DEF WorkerInv, WorkerFits, StateFits, EarlySetup, SafeCallbacks, LockInv, UsesHw,
     Decoding, AsyncExclusive, MainHasAsync, HasAsync
<1>4. CallInv' /\ ExistInv' /\ RestInv' /\ RingInv'
  BY DEF CallInv, ExistInv, RestInv, RingInv, Window, FullWindow
<1>5. OwnerInv' /\ ServeInv' /\ ReleaseInv'
  BY DEF OwnerInv, ServeInv, Serves, ReleaseInv
<1>6. SetupInv'
  BY DEF SetupInv, Latest, Unparsed, InSetup
<1>7. OrderInv' /\ FilledInv'
  BY DEF OrderInv, Before, FilledInv, Window, FullWindow
<1> QED BY <1>2, <1>3, <1>4, <1>5, <1>6, <1>7

\* Every step of a worker keeps it.
LEMMA WorkerKeepsInv ==
  ASSUME FrameInv, NEW p \in Workers, Worker(p)
  PROVE  FrameInv'
<1> USE DEF FrameInv
<1>1. Types' /\ WorkerInv' /\ LockInv' /\ AsyncExclusive'
  BY WorkerTypes, WorkerKeepsWorkerInv, WorkerKeepsLockInv, WorkerKeepsAsync
<1>2. CallInv' /\ ExistInv' /\ RestInv' /\ RingInv'
  BY WorkerKeepsCallInv, WorkerKeepsExistInv, WorkerKeepsRestInv, WorkerKeepsRingInv
<1>3. OwnerInv' /\ ServeInv' /\ SetupInv' /\ ReleaseInv'
  BY WorkerKeepsOwnerInv, WorkerKeepsServeInv, WorkerKeepsSetupInv, WorkerKeepsReleaseInv
<1>4. OrderInv' /\ FilledInv'
  BY WorkerKeepsOrderInv, WorkerKeepsFilledInv
<1> QED BY <1>1, <1>2, <1>3, <1>4

\* Every step of Main keeps it.
LEMMA MainKeepsInv ==
  ASSUME FrameInv, Client \/ Calling
  PROVE  FrameInv'
<1> USE DEF FrameInv
<1>1. Types' /\ WorkerInv' /\ LockInv' /\ AsyncExclusive'
  BY MainTypes, MainKeepsWorkerInv, MainKeepsLockInv, MainKeepsAsync
<1>2. CallInv' /\ ExistInv' /\ RestInv' /\ RingInv'
  BY MainKeepsCallInv, MainKeepsExistInv, MainKeepsRestInv, MainKeepsRingInv
<1>3. OwnerInv' /\ ServeInv' /\ SetupInv' /\ ReleaseInv'
  BY MainKeepsOwnerInv, MainKeepsServeInv, MainKeepsSetupInv, MainKeepsReleaseInv
<1>4. OrderInv' /\ FilledInv'
  BY MainKeepsOrderInv, MainKeepsFilledInv
<1> QED BY <1>1, <1>2, <1>3, <1>4

\* So every step keeps it.
LEMMA StepInv == FrameInv /\ [Next]_vars => FrameInv'
<1> SUFFICES ASSUME FrameInv, [Next]_vars PROVE FrameInv'
  OBVIOUS
<1>1. CASE Client \/ Calling
  BY <1>1, MainKeepsInv
<1>2. CASE \E p \in Workers : Worker(p)
  BY <1>2, WorkerKeepsInv
<1>3. CASE \E t \in Threads : SpuriousWakeup(t)
  BY <1>3, WakeupKeepsInv
<1>4. CASE Over \/ UNCHANGED vars
  BY <1>4, StutterKeepsInv DEF Over
<1> QED BY <1>1, <1>2, <1>3, <1>4 DEF Next

\* And it holds always.
LEMMA SpecInv == Spec => []FrameInv
BY InitInv, StepInv, PTL DEF Spec

-----------------------------------------------------------------------------
(* What follows *)

(***************************************************************************)
(* Types are correct: in particular a thread sleeps only on a condition    *)
(* that there is, also when a worker awaits the progress of a frame.       *)
(***************************************************************************)
THEOREM FrameTypeCorrect == Spec => []TypeOK
<1>1. FrameInv => TypeOK
  <2> SUFFICES ASSUME FrameInv PROVE TypeOK
    OBVIOUS
  <2>1. asleep \in [Threads -> {Awake, Async} \cup
                      UNION {{Input(p), Progress(p), Output(p)} : p \in Workers}]
    BY DEF FrameInv, Types, PlaceTypes, Conditions
  <2>2. {hwMutex, bufMutex} \subseteq Workers \cup {NoThread}
    BY DEF FrameInv, Types, LockTypes
  <2> QED BY <2>1, <2>2 DEF TypeOK, FrameInv, Types, CallTypes, LockTypes, PlaceTypes,
        JobTypes, CodecTypes
<1> QED BY <1>1, SpecInv, PTL

(***************************************************************************)
(* A worker begins a packet with the context as the packet before left it, *)
(* however the submissions, the setups and the flushes follow each other.  *)
(***************************************************************************)
THEOREM FrameSetupInOrder == Spec => []SetupInOrder
<1>1. FrameInv => SetupInOrder
  BY DEF FrameInv, SetupInv, SetupInOrder
<1> QED BY <1>1, SpecInv, PTL

(***************************************************************************)
(* One worker at a time decodes with a hwaccel, and none with an unsafe    *)
(* one while the client's own code runs; the async lock is never lost.     *)
(***************************************************************************)
THEOREM FrameHwaccelLocked == Spec => []HwaccelLocked
<1>1. FrameInv => HwaccelLocked
  <2> SUFFICES ASSUME FrameInv PROVE HwaccelLocked
    OBVIOUS
  <2>1. HwaccelSerial
    BY Sizes DEF FrameInv, LockInv, HwaccelSerial
  <2> QED BY <2>1 DEF FrameInv, HwaccelLocked
<1> QED BY <1>1, SpecInv, PTL

(***************************************************************************)
(* A context is copied after its setup, and Main takes a result, flushes   *)
(* or closes only the context of a worker that rests and holds no lock.    *)
(***************************************************************************)
THEOREM FrameContextsHandedOver == Spec => []ContextsHandedOver
<1>1. FrameInv => ContextsHandedOver
  <2> SUFFICES ASSUME FrameInv PROVE ContextsHandedOver
    OBVIOUS
  <2>1. CopyAfterSetup
    BY DEF FrameInv, SetupInv, CopyAfterSetup
  <2>2. \A p \in Workers : state[p] = "INPUT_READY" => Resting(p)
    BY DEF FrameInv, WorkerInv, WorkerFits, StateFits, LockInv, MayHoldHw, Resting
  <2>3. pc[Main] = "take" => k \in Workers
    BY Sizes DEF FrameInv, Types, CallTypes, CallInv, Workers
  <2>4. MainOwnsContext
    BY <2>2, <2>3 DEF FrameInv, RestInv, Closing, MainOwnsContext
  <2> QED BY <2>1, <2>4 DEF ContextsHandedOver
<1> QED BY <1>1, SpecInv, PTL

(***************************************************************************)
(* When the threads are freed every buffer a decoder released is back with *)
(* the client, also when only some of the threads had been created.        *)
(***************************************************************************)
THEOREM FrameNoBufferLeft == Spec => []NoBufferLeft
<1>1. FrameInv => NoBufferLeft
  BY Sizes DEF FrameInv, Types, CallTypes, ReleaseInv, Closing, Workers, NoBufferLeft
<1> QED BY <1>1, SpecInv, PTL

-----------------------------------------------------------------------------
(* The ring implements the pipeline *)

\* What the client may know of the packet in a worker.
Entry(p) == <<pkt[p], IF state[p] = "INPUT_READY" THEN out[p] ELSE "busy">>

Filled == {p \in Workers : pkt[p] # 0}

\* In a flush or free nothing is inside any more.
LEMMA InsideIs ==
  /\ op \in {"flush", "free"} => Inside = {}
  /\ op \notin {"flush", "free"} => Inside = {Entry(p) : p \in Filled}
BY DEF Inside, Entry, Filled

\* A step that changes nothing of the workers' packets and results.
LEMMA InsideKept ==
  ASSUME op' \in {"flush", "free"} <=> op \in {"flush", "free"}, pkt' = pkt,
         \A p \in Workers : Entry(p)' = Entry(p)
  PROVE  Inside' = Inside
<1>1. Filled' = Filled
  BY DEF Filled
<1>2. {Entry(p) : p \in Filled}' = {Entry(p) : p \in Filled}
  BY <1>1 DEF Filled
<1>3. /\ op' \in {"flush", "free"} => Inside' = {}
      /\ op' \notin {"flush", "free"} => Inside' = {Entry(p) : p \in Filled}'
  BY DEF Inside, Entry, Filled
<1> QED BY <1>2, <1>3, InsideIs

\* A packet is in one worker only.
LEMMA PacketsDiffer ==
  ASSUME Types, OrderInv, op \notin {"flush", "free"}, NEW p \in Workers, NEW q \in Workers,
         p # q, pkt[p] # 0, pkt[q] # 0
  PROVE  pkt[p] # pkt[q]
<1>1. op \in {"init", "decode"} /\ nextFinished \in Workers
  BY DEF Types, CallTypes
<1>2. Before(nextFinished, p, q) \/ Before(nextFinished, q, p)
  BY <1>1, Sizes DEF Before, Workers
<1>3. pkt[p] \in Int /\ pkt[q] \in Int
  BY Sizes DEF Types, JobTypes
<1> QED BY <1>1, <1>2, <1>3 DEF OrderInv

\* The packets of some workers are no more than the workers.
LEMMA InsideSize ==
  ASSUME Types, NEW S \in SUBSET Workers, Filled \subseteq S
  PROVE  IsFiniteSet(Inside) /\ Cardinality(Inside) <= Cardinality(S)
         /\ Cardinality(S) \in Nat /\ Cardinality(Inside) \in Nat
<1>1. IsFiniteSet(Workers)
  BY Sizes, FS_Interval DEF Workers
<1>2. IsFiniteSet(S)
  BY <1>1, FS_Subset
<1>3. IsFiniteSet(Filled) /\ Cardinality(Filled) <= Cardinality(S)
  BY <1>2, FS_Subset
<1>4. Cardinality(S) \in Nat /\ Cardinality(Filled) \in Nat
  BY <1>2, <1>3, FS_CardinalityType
<1>5. CASE op \in {"flush", "free"}
  BY <1>4, <1>5, InsideIs, FS_EmptySet
<1>6. CASE op \notin {"flush", "free"}
  <2> DEFINE T == {Entry(p) : p \in Filled}
             f == [p \in Filled |-> Entry(p)]
  <2>1. f \in Surjection(Filled, T)
    BY DEF Surjection
  <2>2. IsFiniteSet(T) /\ Cardinality(T) <= Cardinality(Filled)
    <3> HIDE DEF T, f
    <3> QED BY <1>3, <2>1, FS_Surjection
  <2>3. Cardinality(T) \in Nat
    BY <2>2, FS_CardinalityType
  <2> QED BY <1>3, <1>4, <1>6, <2>2, <2>3, InsideIs
<1> QED BY <1>5, <1>6

\* A worker that publishes a result finishes its packet; its other steps are no
\* steps of the pipeline.
LEMMA WorkerIsPipelineStep ==
  ASSUME FrameInv, FrameInv', NEW p \in Workers, Worker(p)
  PROVE  [Pipeline!Next]_(Pipeline!vars)
<1> USE DEF FrameInv
<1>1. UNCHANGED <<avctx, op, reply, pkt>>
  BY WorkerTouches DEF ringVars, callVars
<1>2. PipelineDelay' = PipelineDelay
  BY <1>1 DEF PipelineDelay
<1>3. \A q \in Workers \ {p} : state'[q] = state[q] /\ out'[q] = out[q]
  BY WorkerTouches, WorkerResults
<1>4. \A q \in Workers \ {p} : Entry(q)' = Entry(q)
  BY <1>1, <1>3 DEF Entry
<1>5. CASE Entry(p)' = Entry(p)
  <2>1. \A q \in Workers : Entry(q)' = Entry(q)
    BY <1>4, <1>5
  <2> QED BY <1>1, <1>2, <2>1, InsideKept DEF Pipeline!vars
<1>6. CASE state[p] # "INPUT_READY" /\ state'[p] = "INPUT_READY" /\ op \notin {"flush", "free"}
  <2>1. pkt[p] # 0
    BY <1>6 DEF WorkerInv, WorkerFits
  <2>2. Entry(p) = <<pkt[p], "busy">> /\ Entry(p)' = <<pkt[p], out'[p]>>
    BY <1>1, <1>6 DEF Entry
  <2>3. out'[p] \in Pipeline!Results
    BY DEF Types, JobTypes, Pipeline!Results
  <2>4. Inside = {Entry(q) : q \in Filled} /\ Inside' = {Entry(q) : q \in Filled}'
    BY <1>1, <1>6 DEF Inside, Entry, Filled
  <2>5. Filled' = Filled /\ p \in Filled /\ Filled \subseteq Workers
    BY <1>1, <2>1 DEF Filled
  <2>6. \A q \in Filled : q # p => Entry(q) # Entry(p)
    BY <1>6, <2>1, PacketsDiffer DEF Filled, Entry
  <2>7. \A y : y \in Inside <=> \E q \in Filled : y = Entry(q)
    BY <2>4
  <2>8. \A y : y \in Inside' <=> \E q \in Filled : y = Entry(q)'
    BY <2>4, <2>5
  <2>9. Entry(p) \in Inside
    BY <2>5, <2>7
  <2>10. Inside' = (Inside \ {Entry(p)}) \cup {<<pkt[p], out'[p]>>}
    <3> DEFINE done == <<pkt[p], out'[p]>>
    <3>1. Entry(p)' = done
      BY <2>2
    <3> HIDE DEF done
    <3>2. \A y : y \in Inside' <=> y = done \/ \E q \in Filled : q # p /\ y = Entry(q)
      BY <1>4, <2>5, <2>8, <3>1
    <3>3. \A y : y \in Inside \ {Entry(p)} <=> \E q \in Filled : q # p /\ y = Entry(q)
      BY <2>6, <2>7
    <3>4. Inside' = (Inside \ {Entry(p)}) \cup {done}
      BY <3>2, <3>3
    <3> QED BY <3>4 DEF done
  <2>11. Pipeline!Finish(Entry(p), out'[p])
    <3>1. Entry(p)[1] = pkt[p] /\ Entry(p)[2] = "busy"
      BY <2>2
    <3> QED BY <1>1, <2>10, <3>1 DEF Pipeline!Finish
  <2> QED BY <1>2, <2>3, <2>9, <2>11 DEF Pipeline!Next, Pipeline!Step
<1>7. CASE op \in {"flush", "free"}
  <2>1. Inside = {} /\ Inside' = {}
    BY <1>1, <1>7 DEF Inside
  <2> QED BY <1>1, <1>2, <2>1 DEF Pipeline!vars
<1>8. Entry(p)' = Entry(p) \/ (state[p] # "INPUT_READY" /\ state'[p] = "INPUT_READY")
  <2>1. \/ state[p] # "INPUT_READY" /\ state'[p] # "INPUT_READY"
        \/ state'[p] = "INPUT_READY" /\ out'[p] = out[p]
    BY WorkerResults
  <2> QED BY <1>1, <2>1 DEF Entry
<1> QED BY <1>5, <1>6, <1>7, <1>8

\* The module of the pipeline counts as this one does.
LEMMA SameCount == \A S : Pipeline!Cardinality(S) = Cardinality(S)
BY DEF Pipeline!Cardinality, Cardinality

\* The setting, and the delay it makes, do not change.
LEMMA DelayIsFixed ==
  ASSUME FrameInv, Client \/ Calling
  PROVE  PipelineDelay' = PipelineDelay
BY MainTouches DEF FrameInv, PipelineDelay

\* A packet that is submitted is accepted by the pipeline.
LEMMA SubmitIsPipelineStep ==
  ASSUME FrameInv, FrameInv', Submit
  PROVE  [Pipeline!Next]_(Pipeline!vars)
<1> USE Sizes DEF FrameInv, Types
<1>1. UNCHANGED <<avctx, op, out, nextDecoding>> /\ pc[Main] = "ref" /\ op = "decode"
  BY DEF Submit, SubmitFails, At, CallInv, Deciding, Submitting, ringVars
<1>2. PipelineDelay' = PipelineDelay
  BY <1>1 DEF PipelineDelay
<1>3. nextDecoding \in Workers /\ pkt[nextDecoding] = 0
  BY <1>1, NextRests DEF Submitting
<1>4. CASE UNCHANGED <<pkt, state>> /\ reply' = "error"
  <2>1. Inside' = Inside
    BY <1>1, <1>4, InsideKept DEF Entry
  <2> QED BY <1>2, <1>4, <2>1 DEF Pipeline!Next, Pipeline!Step, Pipeline!Refuse
<1>5. CASE /\ pkt' = [pkt EXCEPT ![nextDecoding] = sent + 1] /\ UNCHANGED reply
           /\ state' = [state EXCEPT ![nextDecoding] = "SETTING_UP"]
  <2>1. sent + 1 \in Packets
    BY <1>1 DEF CallInv, Submitting, CallTypes, Packets
  <2>2. \A q \in Workers : q # nextDecoding => Entry(q)' = Entry(q)
    BY <1>1, <1>5 DEF Entry, JobTypes
  <2>3. \A q \in Workers : q = nextDecoding => Entry(q)' = <<sent + 1, "busy">>
    BY <1>1, <1>3, <1>5 DEF Entry, JobTypes
  <2>4. /\ Filled' = Filled \cup {nextDecoding} /\ nextDecoding \notin Filled
        /\ Filled \subseteq Workers
    BY <1>3, <1>5, <2>1 DEF Filled, JobTypes, Packets
  <2>5. Inside = {Entry(q) : q \in Filled} /\ Inside' = {Entry(q) : q \in Filled}'
    BY <1>1 DEF Inside, Entry, Filled
  <2>6. \A y : y \in Inside <=> \E q \in Filled : y = Entry(q)
    BY <2>5
  <2>7. \A y : y \in Inside' <=> \E q \in Filled' : y = Entry(q)'
    BY <2>5
  <2>8. Inside' = Inside \cup {<<sent + 1, "busy">>}
    <3> DEFINE new == <<sent + 1, "busy">>
    <3>1. \A q \in Workers : q = nextDecoding => Entry(q)' = new
      BY <2>3
    <3> HIDE DEF new
    <3>2. \A y : y \in Inside' <=> \E q \in Filled \cup {nextDecoding} : y = Entry(q)'
      BY <2>4, <2>7
    <3>3. \A q \in Filled : Entry(q)' = Entry(q)
      BY <2>2, <2>4
    <3>4. \A y : y \in Inside' <=> y = new \/ \E q \in Filled : y = Entry(q)
      BY <1>3, <3>1, <3>2, <3>3
    <3>5. Inside' = Inside \cup {new}
      BY <2>6, <3>4
    <3> QED BY <3>5 DEF new
  <2>9. \A x \in Inside : x[1] < sent + 1
    <3>1. \A q \in Filled : Entry(q)[1] = pkt[q] /\ pkt[q] <= sent /\ pkt[q] \in Int
      BY <2>4 DEF Entry, OrderInv, JobTypes
    <3>2. sent \in Int
      BY DEF CallTypes
    <3> QED BY <2>6, <3>1, <3>2
  <2>10. Cardinality(Inside) < NbThreads
    <3> DEFINE S == Workers \ {nextDecoding}
    <3>1. IsFiniteSet(Workers) /\ Cardinality(Workers) = NbThreads
      BY FS_Interval DEF Workers
    <3>2. Cardinality(S) = NbThreads - 1
      BY <1>3, <3>1, FS_RemoveElement
    <3>3. Filled \subseteq S /\ S \in SUBSET Workers
      BY <2>4
    <3>4. /\ Cardinality(Inside) <= Cardinality(S) /\ Cardinality(Inside) \in Nat
      <4> HIDE DEF S
      <4> QED BY <3>3, InsideSize
    <3> QED BY <3>2, <3>4
  <2>11. Pipeline!Accept(sent + 1)
    BY <1>5, <2>8, <2>9, <2>10, SameCount DEF Pipeline!Accept
  <2> QED BY <1>2, <2>1, <2>11 DEF Pipeline!Next, Pipeline!Step
<1> QED BY <1>4, <1>5 DEF Submit, SubmitFails, P, callVars

\* While the workers are filled no result is given, and then there is room for one
\* packet more.
LEMMA FillIsPipelineStep ==
  ASSUME FrameInv, FrameInv', Submitted \/ NotSubmitted
  PROVE  [Pipeline!Next]_(Pipeline!vars)
<1> USE Sizes DEF FrameInv, Types
<1>1. UNCHANGED <<avctx, op, state, pkt, out>>
  BY DEF Submitted, NotSubmitted, Delays, jobVars
<1>2. PipelineDelay' = PipelineDelay /\ Inside' = Inside
  BY <1>1, InsideKept DEF PipelineDelay, Entry
<1>3. CASE UNCHANGED reply
  BY <1>2, <1>3 DEF Pipeline!vars
<1>4. CASE reply' = "again" /\ delaying' /\ ~empty
  <2>1. Submitted /\ pc[Main] = "submitted"
    BY <1>4 DEF Submitted, NotSubmitted, At, CallInv
  <2>2. delaying = TRUE /\ nextDecoding + 1 <= LastDelayed
    BY <1>4, <2>1 DEF Submitted, Delays, CallTypes
  <2>3. nextFinished = 0
    BY <1>4, <2>1, <2>2 DEF CallInv, Deciding
  <2>4. nextDecoding \in Nat /\ nextDecoding < NbThreads
    BY <2>1 DEF CallInv, CallTypes
  <2> DEFINE S == 0 .. nextDecoding
  <2>5. Filled \subseteq S /\ S \in SUBSET Workers
    BY <2>1, <2>3, <2>4 DEF Filled, RingInv, Window, Workers
  <2>6. Cardinality(S) = nextDecoding + 1
    BY <2>4, FS_Interval
  <2>7. Cardinality(Inside) <= Cardinality(S) /\ Cardinality(Inside) \in Nat
    <3> HIDE DEF S
    <3> QED BY <2>5, InsideSize
  <2>8. PipelineDelay = LastDelayed /\ LastDelayed \in Int
    BY DEF PipelineDelay, LastDelayed
  <2>9. Cardinality(Inside) <= PipelineDelay
    BY <2>2, <2>4, <2>6, <2>7, <2>8
  <2>10. Pipeline!Fill
    BY <1>2, <1>4, <2>9, SameCount DEF Pipeline!Fill
  <2> QED BY <1>2, <2>10 DEF Pipeline!Next, Pipeline!Step
<1> QED BY <1>3, <1>4 DEF Submitted, NotSubmitted, Delays

\* Main takes the oldest result, or passes over it, or finds nothing more at the end.
LEMMA TakeIsPipelineStep ==
  ASSUME FrameInv, FrameInv', Take
  PROVE  [Pipeline!Next]_(Pipeline!vars)
<1> USE Sizes DEF FrameInv, Types
<1>1. UNCHANGED <<avctx, op, state>> /\ pc[Main] = "take" /\ op = "decode"
  BY DEF Take, At, CallInv
<1>2. PipelineDelay' = PipelineDelay
  BY <1>1 DEF PipelineDelay
<1>3. PICK w \in Workers : w = k
  BY <1>1 DEF CallInv, CallTypes, Workers
<1>4. state[w] = "INPUT_READY"
  BY <1>1, <1>3 DEF RestInv
<1>5. \A q \in Workers : /\ pkt'[q] = IF q = w THEN 0 ELSE pkt[q]
                         /\ out'[q] = IF q = w THEN "none" ELSE out[q]
  BY <1>3 DEF Take, JobTypes
<1>6. \A q \in Workers : q # w => Entry(q)' = Entry(q)
  BY <1>1, <1>5 DEF Entry
<1>7. Filled \subseteq Workers /\ Filled' = Filled \ {w}
  BY <1>5 DEF Filled
<1>8. Inside = {Entry(q) : q \in Filled} /\ Inside' = {Entry(q) : q \in Filled}'
  BY <1>1 DEF Inside, Entry, Filled
<1>9. \A y : y \in Inside <=> \E q \in Filled : y = Entry(q)
  BY <1>8
<1>10. \A y : y \in Inside' <=> \E q \in Filled' : y = Entry(q)'
  BY <1>8
<1>11. \A y : y \in Inside' <=> \E q \in Filled : q # w /\ y = Entry(q)
  BY <1>6, <1>7, <1>10
<1>12. Entry(w)[1] = pkt[w] /\ Entry(w)[2] = out[w] /\ out[w] \in Pipeline!Results
  BY <1>4 DEF Entry, JobTypes, Pipeline!Results
<1>13. \A q \in Filled : q = w \/ Before(nextFinished, w, q)
  BY <1>1, <1>3 DEF Filled, RingInv, Window, Before, CallTypes, Workers
<1>14. \A q \in Filled : w \in Filled /\ q # w => pkt[w] < pkt[q]
  BY <1>1, <1>13 DEF Filled, OrderInv
<1>15. CASE w \in Filled
  <2>1. Entry(w) \in Inside
    BY <1>9, <1>15
  <2>2. \A q \in Filled : q # w => Entry(q) # Entry(w)
    BY <1>1, <1>7, <1>15, PacketsDiffer DEF Filled, Entry
  <2>3. \A y : y \in Inside' <=> y \in Inside /\ y # Entry(w)
    BY <1>9, <1>11, <2>2
  <2>4. Inside' = Inside \ {Entry(w)}
    BY <2>3
  <2>5. \A q \in Filled : Entry(q)[1] = pkt[q] /\ pkt[q] \in Int
    BY <1>7 DEF Entry, JobTypes
  <2>6. \A q \in Filled : Entry(w)[1] <= Entry(q)[1]
    BY <1>14, <1>15, <2>5
  <2>7. Pipeline!Oldest(Entry(w))
    BY <1>9, <2>1, <2>6 DEF Pipeline!Oldest
  <2>8. CASE reply' = out[k]
    <3>1. Pipeline!Give(Entry(w))
      BY <1>3, <1>12, <2>4, <2>7, <2>8 DEF Pipeline!Give
    <3> QED BY <1>2, <2>1, <3>1 DEF Pipeline!Next, Pipeline!Step
  <2>9. CASE out[k] = "none" /\ UNCHANGED reply
    <3>1. Pipeline!Skip(Entry(w))
      BY <1>3, <1>12, <2>4, <2>7, <2>9 DEF Pipeline!Skip
    <3> QED BY <1>2, <2>1, <3>1 DEF Pipeline!Next, Pipeline!Step
  <2>10. CASE out[k] = "none" /\ AfterThis = nextFinished /\ reply' = "eof"
    <3>1. \A q \in Workers : ~Before(nextFinished, w, q)
      BY <1>3, <2>10 DEF AfterThis, Before, CallTypes, Workers
    <3>2. \A q \in Filled : q = w
      BY <1>7, <1>13, <3>1
    <3>3. Inside = {Entry(w)}
      BY <1>9, <1>15, <3>2
    <3>4. Inside' = {}
      BY <2>4, <3>3
    <3>5. Cardinality(Inside) = 1
      BY <3>3, FS_Singleton
    <3>6. Pipeline!EndOfStream
      BY <1>3, <1>12, <2>10, <3>3, <3>4, <3>5, SameCount DEF Pipeline!EndOfStream
    <3> QED BY <1>2, <3>6 DEF Pipeline!Next, Pipeline!Step
  <2> QED BY <2>8, <2>9, <2>10 DEF Take
<1>16. CASE w \notin Filled
  <2>1. pkt[w] = 0 /\ out[w] = "none"
    BY <1>16 DEF Filled, OrderInv
  <2>2. \A y : y \in Inside' <=> y \in Inside
    BY <1>9, <1>11, <1>16
  <2>3. Inside' = Inside
    BY <2>2
  <2>4. CASE ~empty
    <3>1. ending = "no"
      BY <1>1, <2>4 DEF CallInv
    <3>2. k = nextFinished /\ FullWindow(nextFinished, nextDecoding, k)
      <4>1. k = nextFinished
        BY <1>1, <3>1 DEF FilledInv
      <4> QED BY <1>3, <4>1 DEF FullWindow, Workers
    <3>3. pkt[w] # 0
      BY <1>1, <1>3, <3>1, <3>2 DEF FilledInv
    <3> QED BY <2>1, <3>3
  <2>5. CASE empty /\ UNCHANGED reply
    BY <1>2, <2>3, <2>5 DEF Pipeline!vars
  <2>6. CASE empty /\ AfterThis = nextFinished /\ reply' = "eof"
    <3>1. \A q \in Workers : ~Before(nextFinished, w, q)
      BY <1>3, <2>6 DEF AfterThis, Before, CallTypes, Workers
    <3>2. Filled = {}
      BY <1>7, <1>13, <1>16, <3>1
    <3>3. Inside = {}
      BY <1>9, <3>2
    <3>4. Pipeline!EndOfStream
      BY <2>3, <2>6, <3>3 DEF Pipeline!EndOfStream
    <3> QED BY <1>2, <3>4 DEF Pipeline!Next, Pipeline!Step
  <2> QED BY <1>3, <2>1, <2>4, <2>5, <2>6 DEF Take, CallTypes
<1> QED BY <1>15, <1>16

\* Every other step of Main answers a call or changes nothing of the pipeline.
LEMMA MainIsPipelineStep ==
  ASSUME FrameInv, FrameInv', Client \/ Calling
  PROVE  [Pipeline!Next]_(Pipeline!vars)
<1> USE DEF FrameInv, Types, At, ringVars, callVars, lockVars, jobVars, codecVars
<1>1. PipelineDelay' = PipelineDelay
  BY DelayIsFixed
<1>2. ASSUME UNCHANGED <<pkt, state, out>>, reply' \in {reply, "error"},
             op' \in {"flush", "free"} <=> op \in {"flush", "free"}
      PROVE  [Pipeline!Next]_(Pipeline!vars)
  <2>1. Inside' = Inside
    BY <1>2, InsideKept DEF Entry
  <2>2. CASE UNCHANGED reply
    BY <1>1, <2>1, <2>2 DEF Pipeline!vars
  <2>3. CASE reply' = "error"
    BY <1>1, <2>1, <2>3 DEF Pipeline!Next, Pipeline!Step, Pipeline!Refuse
  <2> QED BY <1>2, <2>2, <2>3
<1>3. CASE InitFails \/ Flush \/ Free
  <2>1. op' \in {"flush", "free"} /\ reply' = "flushed"
    BY <1>3 DEF InitFails, Flush, Free, BeginCall
  <2>2. Inside' = {}
    BY <2>1 DEF Inside
  <2> QED BY <1>1, <2>1, <2>2 DEF Pipeline!Next, Pipeline!Step, Pipeline!Discard
<1>4. CASE \E e \in BOOLEAN : Decode(e)
  <2>1. /\ UNCHANGED <<pkt, state, out, reply>> /\ op' = "decode" /\ pc[Main] = "user"
        /\ op # "free"
    BY <1>4 DEF Decode, BeginCall, CallInv
  <2>2. CASE op # "flush"
    BY <1>2, <2>1, <2>2
  <2>3. CASE op = "flush"
    <3>1. \A q \in Workers : pkt'[q] = 0
      BY <2>1, <2>3 DEF OrderInv
    <3>2. Filled' = {}
      BY <3>1 DEF Filled
    <3>3. Inside' = {Entry(q) : q \in Filled}'
      BY <2>1 DEF Inside, Entry, Filled
    <3>4. Inside' = {} /\ Inside = {}
      BY <2>3, <3>2, <3>3, InsideIs
    <3> QED BY <1>1, <2>1, <3>4 DEF Pipeline!vars
  <2> QED BY <2>2, <2>3
<1>5. CASE InitThread \/ Initialised \/ ReleaseDelayed \/ AwaitSetup \/ AwaitOutput \/ Relock
  <2>1. UNCHANGED <<pkt, state, out, reply, op>>
    BY <1>5 DEF InitThread, Initialised, ReleaseDelayed, AwaitSetup, AwaitOutput, Relock
  <2> QED BY <1>2, <2>1
<1>6. CASE LockThread \/ Copy
  <2>1. UNCHANGED <<pkt, state, out, op>> /\ reply' \in {reply, "error"}
    BY <1>6 DEF LockThread, Copy, SubmitFails
  <2> QED BY <1>2, <2>1
<1>7. CASE Serve
  <2>1. UNCHANGED <<pkt, out, op, reply>>
    BY <1>7 DEF Serve
  <2>2. \A q \in Workers : \/ state'[q] = state[q]
                           \/ state'[q] # "INPUT_READY" /\ state[q] # "INPUT_READY"
    BY <1>7 DEF Serve, JobTypes
  <2>3. \A q \in Workers : Entry(q)' = Entry(q)
    BY <2>1, <2>2 DEF Entry
  <2> QED BY <1>1, <2>1, <2>3, InsideKept DEF Pipeline!vars
<1>8. CASE \/ Park \/ Parked \/ FlushRing \/ FlushThread \/ Flushed
           \/ Kill \/ Join \/ Close \/ Freed
  <2>1. op \in {"flush", "free"}
    BY <1>8 DEF Park, Parked, FlushRing, FlushThread, Flushed, Kill, Join, Close, Freed,
       CallInv, Closing
  <2>2. UNCHANGED <<op, reply>>
    BY <1>8 DEF Park, Parked, FlushRing, FlushThread, Flushed, Kill, Join, Close, Freed
  <2>3. Inside = {} /\ Inside' = {}
    BY <2>1, <2>2 DEF Inside
  <2> QED BY <1>1, <2>2, <2>3 DEF Pipeline!vars
<1>9. CASE Submit \/ Submitted \/ NotSubmitted \/ Take
  BY <1>9, SubmitIsPipelineStep, FillIsPipelineStep, TakeIsPipelineStep
<1> QED BY <1>3, <1>4, <1>5, <1>6, <1>7, <1>8, <1>9 DEF Client, Calling

\* So every step is one of the pipeline, or none.
LEMMA StepIsPipelineStep ==
  FrameInv /\ FrameInv' /\ [Next]_vars => [Pipeline!Next]_(Pipeline!vars)
<1> SUFFICES ASSUME FrameInv, FrameInv', [Next]_vars PROVE [Pipeline!Next]_(Pipeline!vars)
  OBVIOUS
<1>1. CASE Client \/ Calling
  BY <1>1, MainIsPipelineStep
<1>2. CASE \E p \in Workers : Worker(p)
  BY <1>2, WorkerIsPipelineStep
<1>3. CASE (\E t \in Threads : SpuriousWakeup(t)) \/ Over \/ UNCHANGED vars
  <2>1. UNCHANGED <<avctx, op, reply, pkt, state, out>>
    BY <1>3 DEF SpuriousWakeup, Over, vars, ringVars, callVars, jobVars
  <2>2. PipelineDelay' = PipelineDelay /\ Inside' = Inside
    BY <2>1, InsideKept DEF PipelineDelay, Entry
  <2> QED BY <2>1, <2>2 DEF Pipeline!vars
<1> QED BY <1>1, <1>2, <1>3 DEF Next

(***************************************************************************)
(* Frame threading is a pipeline, for any number of threads and packets:   *)
(* results come out in the order of the packets, each once, none is lost   *)
(* at the end of the stream, and a call that fails disturbs no other.      *)
(***************************************************************************)
THEOREM FrameIsPipeline == Spec => ImplementsPipeline
<1>1. Init => Pipeline!Init
  <2> SUFFICES ASSUME Init PROVE Pipeline!Init
    OBVIOUS
  <2>1. Inside = {} /\ reply = "again"
    BY DEF Init, Inside
  <2>2. PipelineDelay \in 0 .. NbThreads - 1
    BY Sizes DEF PipelineDelay
  <2> QED BY <2>1, <2>2 DEF Pipeline!Init
<1> QED BY <1>1, SpecInv, StepIsPipelineStep, PTL DEF Spec, ImplementsPipeline, Pipeline!Spec

=============================================================================
