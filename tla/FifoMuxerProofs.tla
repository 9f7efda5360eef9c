-------------------------- MODULE FifoMuxerProofs --------------------------
(***************************************************************************)
(* Proofs about FifoMuxer, for any options, queues, numbers of messages    *)
(* and failures of the real muxer: the types, that packets are written     *)
(* once and in order, headers and trailers, the end of the consumer, and   *)
(* the key frame that is waited for after a gap.                           *)
(***************************************************************************)
EXTENDS FifoMuxer, FiniteSetTheorems, SequenceTheorems, TLAPS

\* The theorems about the queue, for the queue of the muxer.
QueueProofs == INSTANCE ThreadMessageQueueProofs
  WITH Threads <- {Client, Consumer}, Errors <- EndErrors

-----------------------------------------------------------------------------

(* What the theorems about the queue assume holds of the queue here. *)
LEMMA QueueIsSound == QueueProofs!QueueAssumption
<1> DEFINE T == {Client} \cup {Consumer}
<1>1. IsFiniteSet(T)
  <2>1. IsFiniteSet({Client})
    BY FS_Singleton
  <2> QED BY <2>1, FS_AddElement
<1>2. QueueProofs!IsFiniteSet(T)
  BY <1>1 DEF IsFiniteSet, QueueProofs!IsFiniteSet
<1>3. T = {Client, Consumer}
  OBVIOUS
<1> HIDE DEF T
<1>4. NoError \notin EndErrors \cup {EAGAIN}
  BY FifoAssumption DEF Failures, EndErrors
<1> QED BY <1>2, <1>3, <1>4, FifoAssumption DEF QueueProofs!QueueAssumption, Messages

(* The steps of a call of the queue keep the types of the queue. *)
LEMMA QueueStepTypes ==
  ASSUME Queue!TypeOK, NEW t \in {Client, Consumer},
         Queue!SendStep(t) \/ Queue!RecvStep(t) \/ Queue!SpuriousWakeup(t)
  PROVE  Queue!TypeOK'
<1> USE DEF QueueProofs!queueVars, QueueProofs!condVars, QueueProofs!callVars,
            Queue!queueVars, Queue!condVars, Queue!callVars
<1>1. QueueProofs!TypeOK
  BY DEF Queue!TypeOK, Queue!Codes, Queue!Fates,
         QueueProofs!TypeOK, QueueProofs!Codes, QueueProofs!Fates
<1>2. QueueProofs!TypeOK'
  <2>1. Queue!SendStep(t) => QueueProofs!SendStep(t)
    BY DEF Queue!SendStep, Queue!SendAgain, Queue!SendWait, Queue!SendError,
           Queue!SendWrite, Queue!Sending, Queue!SendBlocked, Queue!HasSpace,
           Queue!SendRefused, Queue!Return, Queue!AfterSignal,
           QueueProofs!SendStep, QueueProofs!SendAgain, QueueProofs!SendWait,
           QueueProofs!SendError, QueueProofs!SendWrite, QueueProofs!Sending,
           QueueProofs!SendBlocked, QueueProofs!HasSpace,
           QueueProofs!SendRefused, QueueProofs!Return,
           QueueProofs!AfterSignal
  <2>2. Queue!RecvStep(t) => QueueProofs!RecvStep(t)
    BY DEF Queue!RecvStep, Queue!RecvAgain, Queue!RecvWait, Queue!RecvError,
           Queue!RecvRead, Queue!Receiving, Queue!RecvBlocked, Queue!IsEmpty,
           Queue!Return, Queue!AfterSignal,
           QueueProofs!RecvStep, QueueProofs!RecvAgain, QueueProofs!RecvWait,
           QueueProofs!RecvError, QueueProofs!RecvRead,
           QueueProofs!Receiving, QueueProofs!RecvBlocked,
           QueueProofs!IsEmpty, QueueProofs!Return, QueueProofs!AfterSignal
  <2>3. Queue!SpuriousWakeup(t) => QueueProofs!SpuriousWakeup(t)
    BY DEF Queue!SpuriousWakeup, QueueProofs!SpuriousWakeup
  <2> QED BY <1>1, <2>1, <2>2, <2>3, QueueIsSound, QueueProofs!SendStepTypes,
             QueueProofs!RecvStepTypes, QueueProofs!CallTypes
<1> QED BY <1>2 DEF Queue!TypeOK, Queue!Codes, Queue!Fates,
                    QueueProofs!TypeOK, QueueProofs!Codes, QueueProofs!Fates

(* So do the calls. *)
LEMMA QueueCallTypes ==
  ASSUME Queue!TypeOK, NEW t \in {Client, Consumer},
         \/ \E m \in Messages, nb \in BOOLEAN : Queue!Send(t, m, nb)
         \/ Queue!Recv(t, FALSE)
         \/ \E err \in EndErrors \cup {NoError} :
              Queue!SetErrSend(t, err) \/ Queue!SetErrRecv(t, err)
         \/ Queue!Flush(t)
  PROVE  Queue!TypeOK'
<1> USE DEF QueueProofs!queueVars, QueueProofs!condVars, QueueProofs!callVars,
            Queue!queueVars, Queue!condVars, Queue!callVars
<1>1. QueueProofs!TypeOK
  BY DEF Queue!TypeOK, Queue!Codes, Queue!Fates,
         QueueProofs!TypeOK, QueueProofs!Codes, QueueProofs!Fates
<1>2. QueueProofs!Call(t)
  BY DEF Queue!Send, Queue!Recv, Queue!SetErrSend, Queue!SetErrRecv,
         Queue!Flush, Queue!AfterBroadcast, QueueProofs!Call,
         QueueProofs!Send, QueueProofs!Recv, QueueProofs!SetErrSend,
         QueueProofs!SetErrRecv, QueueProofs!Flush, QueueProofs!AfterBroadcast
<1>3. QueueProofs!TypeOK'
  BY <1>1, <1>2, QueueIsSound, QueueProofs!CallTypes
<1> QED BY <1>3 DEF Queue!TypeOK, Queue!Codes, Queue!Fates,
                    QueueProofs!TypeOK, QueueProofs!Codes, QueueProofs!Fates

-----------------------------------------------------------------------------
(* What the calls of the queue do to the variables they are used through *)

(* A step of av_thread_message_queue_send by the client. *)
LEMMA SendEffect ==
  ASSUME Queue!TypeOK, Queue!SendStep(Client)
  PROVE  /\ pc[Client] = "send" /\ UNCHANGED <<errSend, errRecv>>
         /\ pc'[Consumer] = pc[Consumer]
         /\ nonblock'[Consumer] = nonblock[Consumer]
         /\ \/ pc'[Client] = "send" /\ UNCHANGED <<fifo, pc, arg, nonblock>>
            \/ /\ pc'[Client] = "idle" /\ arg'[Client] = NoMessage
               /\ nonblock'[Client] = FALSE
               /\ \/ fifo' = Append(fifo, arg[Client]) /\ ret'[Client] = NoError
                  \/ /\ fifo' = fifo /\ ret'[Client] = EAGAIN
                     /\ nonblock[Client] = TRUE
                  \/ /\ fifo' = fifo /\ ret'[Client] = errSend
                     /\ errSend # NoError
<1> USE FifoAssumption DEF Queue!TypeOK, Queue!Sending, Queue!Return,
        Queue!queueVars, Queue!condVars, Queue!callVars
<1>1. CASE Queue!SendAgain(Client)
  BY <1>1 DEF Queue!SendAgain, Queue!SendRefused
<1>2. CASE Queue!SendWait(Client)
  BY <1>2 DEF Queue!SendWait
<1>3. CASE Queue!SendError(Client)
  BY <1>3 DEF Queue!SendError, Queue!SendRefused
<1>4. CASE Queue!SendWrite(Client)
  BY <1>4 DEF Queue!SendWrite
<1> QED BY <1>1, <1>2, <1>3, <1>4 DEF Queue!SendStep

(* A step of av_thread_message_queue_recv by the consumer, which waits. *)
LEMMA RecvEffect ==
  ASSUME Queue!TypeOK, nonblock[Consumer] = FALSE, Queue!RecvStep(Consumer)
  PROVE  /\ pc[Consumer] = "recv" /\ UNCHANGED <<errSend, errRecv>>
         /\ pc'[Client] = pc[Client] /\ arg'[Client] = arg[Client]
         /\ nonblock'[Client] = nonblock[Client]
         /\ nonblock'[Consumer] = FALSE
         /\ \/ pc'[Consumer] = "recv" /\ fifo' = fifo
            \/ /\ pc'[Consumer] = "idle" /\ ret'[Consumer] = NoError
               /\ fifo # <<>> /\ fifo' = Tail(fifo)
            \/ /\ pc'[Consumer] = "idle" /\ ret'[Consumer] = errRecv
               /\ errRecv # NoError /\ fifo = <<>> /\ fifo' = fifo
<1> USE FifoAssumption DEF Queue!TypeOK, Queue!Receiving, Queue!Return,
        Queue!queueVars, Queue!condVars, Queue!callVars
<1>1. CASE Queue!RecvAgain(Consumer)
  BY <1>1 DEF Queue!RecvAgain
<1>2. CASE Queue!RecvWait(Consumer)
  BY <1>2 DEF Queue!RecvWait
<1>3. CASE Queue!RecvError(Consumer)
  <2>1. fifo = <<>>
    BY <1>3, EmptySeq DEF Queue!RecvError, Queue!IsEmpty
  <2> QED BY <1>3, <2>1 DEF Queue!RecvError
<1>4. CASE Queue!RecvRead(Consumer)
  <2>1. fifo # <<>>
    BY <1>4 DEF Queue!RecvRead, Queue!IsEmpty
  <2> QED BY <1>4, <2>1 DEF Queue!RecvRead
<1> QED BY <1>1, <1>2, <1>3, <1>4 DEF Queue!RecvStep

-----------------------------------------------------------------------------
(* The inductive invariant: types, and who is where *)

ClientTypes ==
  /\ setting \in Settings
  /\ client \in {"init", "idle", "sending", "overflow", "joining", "deinit", "freed"}
  /\ sent \in 0 .. MaxMessages
  /\ kind \in [Messages -> AllKinds]
  /\ overflowFlag \in BOOLEAN

WriterTypes ==
  /\ writer \in {"none", "dispatch", "recover", "check", "receive", "receiving",
                 "stop", "trailer", "gone"}
  /\ msg \in 0 .. sent \cup {NoMessage}
  /\ writer = "dispatch" \/ (writer = "recover" /\ ~Spins) => msg # NoMessage
  /\ result \in Failures \cup {EOF, NoError}
  /\ writer \in {"stop", "trailer", "gone"} => result # EAGAIN
  /\ attemptError \in Failures \cup {NoError}
  /\ forsaken \subseteq 1 .. sent
  /\ recoveryNr \in 0 .. MaxFailures
  /\ lastTs \in {NoTs} \cup 0 .. sent
  /\ dropUntilKeyframe \in BOOLEAN /\ headerWritten \in BOOLEAN

MuxerTypes ==
  /\ failures \in 0 .. MaxFailures
  /\ headers \in Nat /\ trailers \in Nat
  /\ output \in Seq(Messages)

\* Each thread is in the call of the queue that its place says, and only the
\* client may call without blocking.
Calls ==
  /\ pc[Client] = IF client = "sending" THEN "send" ELSE "idle"
  /\ pc[Consumer] = IF writer = "receiving" THEN "recv" ELSE "idle"
  /\ client = "sending" => arg[Client] = sent /\ sent \in Messages
  /\ nonblock[Consumer] = FALSE
  /\ nonblock[Client] = TRUE => setting.drop = TRUE

Types == Queue!TypeOK /\ ClientTypes /\ WriterTypes /\ MuxerTypes /\ Calls

\* The consumer goes on to no other message.
Ended == writer \in {"stop", "trailer", "gone"}

\* The consumer has a message only while it works on it, and starts to
\* recover with the one that failed.
MessageInv ==
  /\ client = "init" => writer = "none"
  /\ writer = "none" => msg = Header /\ recoveryNr = 0
  /\ writer \in {"check", "receive", "receiving"} => msg = NoMessage
  /\ writer = "dispatch" => recoveryNr = 0
  /\ recoveryNr <= failures

(* EAGAIN is an error that can be recovered from where any is, and the other *)
(* failures can end the queue.                                               *)
LEMMA ErrorFacts ==
  /\ Failures \cup {EOF} = EndErrors \cup {EAGAIN}
  /\ EAGAIN \notin EndErrors /\ EAGAIN # EOF
  /\ setting.attempt => Recoverable(EAGAIN)
BY FifoAssumption DEF Failures, EndErrors, Recoverable

(* The parts make up the type invariant. *)
LEMMA TypeParts == Types => TypeOK
BY DEF Types, ClientTypes, WriterTypes, MuxerTypes, Calls, TypeOK

(* What is assumed of the options and the bounds. *)
LEMMA SettingFacts ==
  ASSUME setting \in Settings
  PROVE  /\ setting.drop \in BOOLEAN /\ setting.keyframe \in BOOLEAN
         /\ setting.attempt \in BOOLEAN /\ setting.any \in BOOLEAN
         /\ setting.streamtime \in BOOLEAN /\ setting.max \in Nat
BY FifoAssumption DEF Setting

-----------------------------------------------------------------------------
(* What the consumer does for one message *)

\* Nothing is written: the packet is waited over, or there is none, or the
\* header or a flush fails.
Kept(dropping, r) ==
  /\ output' = output /\ dropUntilKeyframe' = dropping
  /\ r = NoError /\ IsPacket => dropping

\* A packet is given to the real muxer, which takes it or fails.
Given(dropping, r) ==
  /\ IsPacket /\ (dropping => kind[msg] = "key")
  /\ dropUntilKeyframe' = FALSE
  /\ output' = IF r = NoError THEN Append(output, msg) ELSE output

(* What comes of a message that is dispatched. *)
LEMMA DispatchEffect ==
  ASSUME Types, NEW written \in BOOLEAN, NEW dropping \in BOOLEAN,
         NEW r \in Failures \cup {NoError}, msg # NoMessage,
         DispatchMessage(written, dropping, r)
  PROVE  /\ headerWritten' \in BOOLEAN
         /\ headers' = IF headerWritten' /\ ~written THEN headers + 1 ELSE headers
         /\ trailers' = trailers
         /\ failures' = IF r = NoError THEN failures ELSE failures + 1
         /\ failures' \in 0 .. MaxFailures
         /\ written => headerWritten'
         /\ Kept(dropping, r) \/ Given(dropping, r)
<1> USE FifoAssumption DEF Types, MuxerTypes, Succeed, Fail, HeaderDone, Kept, Given
<1>1. trailers' = trailers
  BY DEF DispatchMessage
<1>2. CASE HeaderFails(written, dropping, r)
  <2>1. /\ ~written /\ r \in Failures /\ Fail
        /\ headerWritten' \in {FALSE, r = EINVAL}
        /\ headers' = IF headerWritten' THEN headers + 1 ELSE headers
        /\ dropUntilKeyframe' = dropping /\ output' = output
    BY <1>2, Zenon DEF HeaderFails
  <2>2. headerWritten' \in BOOLEAN
    BY <2>1, Zenon
  <2>3. headers' = IF headerWritten' /\ ~written THEN headers + 1 ELSE headers
    BY <2>1, Zenon
  <2>4. Kept(dropping, r)
    BY <2>1
  <2>5. failures' = failures + 1 /\ failures' \in 0 .. MaxFailures /\ r # NoError
    BY <2>1
  <2>6. failures' = IF r = NoError THEN failures ELSE failures + 1
    BY <2>5
  <2> QED BY <1>1, <2>1, <2>2, <2>3, <2>4, <2>5, <2>6, Zenon
<1>3. CASE DropPacket(written, dropping, r)
  BY <1>1, <1>3 DEF DropPacket
<1>4. CASE WritePacket(written, dropping, r)
  BY <1>1, <1>4 DEF WritePacket
<1>5. CASE WriteOther(written, dropping, r)
  BY <1>1, <1>5 DEF WriteOther
<1> QED BY <1>2, <1>3, <1>4, <1>5 DEF DispatchMessage

(* A packet that is dispatched is one of the messages of the client. *)
LEMMA PacketIsMessage ==
  ASSUME Types, msg # NoMessage, IsPacket
  PROVE  msg \in Messages /\ msg \in Packets
BY FifoAssumption DEF Types, ClientTypes, WriterTypes, IsPacket, Header,
   Messages, Packets, AllKinds

-----------------------------------------------------------------------------
(* Types *)

TypesInv == Types /\ MessageInv

(* A message of the client that is no flush is dispatched as a packet. *)
LEMMA PacketsAreDispatched ==
  ASSUME TypesInv, msg \in Packets
  PROVE  IsPacket
<1>1. msg \in 1 .. sent /\ sent \in 0 .. MaxMessages /\ MaxMessages \in Nat
  BY FifoAssumption DEF Packets, TypesInv, Types, ClientTypes
<1>2. msg \in Messages /\ msg # 0
  BY <1>1 DEF Messages
<1>3. kind[msg] \in AllKinds /\ kind[msg] # "flush"
  BY <1>2 DEF Packets, TypesInv, Types, ClientTypes
<1> QED BY <1>2, <1>3 DEF IsPacket, Header, AllKinds

(* Steps without the queue keep its types. *)
LEMMA QueueKept ==
  ASSUME Queue!TypeOK, UNCHANGED queueVars
  PROVE  Queue!TypeOK'
BY DEF queueVars, Queue!TypeOK, Queue!Codes, Queue!Fates

(* What the threads share is unchanged by the steps of the client that only  *)
(* change its place, or set the flag.                                        *)
LEMMA ClientOwnTypes ==
  ASSUME TypesInv, Start \/ Overflow \/ Join
  PROVE  TypesInv'
<1>1. Queue!TypeOK'
  BY QueueKept DEF TypesInv, Types, Start, Overflow, Join
<1>2. UNCHANGED <<pc, arg, nonblock, sent, setting, kind>>
  BY DEF Start, Overflow, Join, queueVars
<1>3. ClientTypes' /\ MuxerTypes'
  BY <1>2 DEF TypesInv, Types, ClientTypes, MuxerTypes, Start, Overflow, Join,
     writerVars, muxerVars
<1>4. WriterTypes' /\ MessageInv' /\ Calls'
  <2>1. CASE Start
    BY <1>2, <2>1, FifoAssumption DEF Start, Header, TypesInv, Types, WriterTypes, MessageInv,
       Calls, writerVars, muxerVars, stateVars, lossVars
  <2>2. CASE Overflow \/ Join
    BY <1>2, <2>2 DEF Overflow, Join, TypesInv, Types, WriterTypes, MessageInv,
       Calls, writerVars, muxerVars, stateVars, lossVars, Spins
  <2> QED BY <2>1, <2>2
<1> QED BY <1>1, <1>3, <1>4 DEF TypesInv, Types

(* The client begins a call to write a packet. *)
LEMMA WriteTypes ==
  ASSUME TypesInv, NEW k \in Kinds, Write(k)
  PROVE  TypesInv'
<1> DEFINE m == sent + 1
<1>1. sent' = m /\ m \in Messages /\ kind' = [kind EXCEPT ![m] = k]
  BY FifoAssumption DEF Write, TypesInv, Types, ClientTypes, Messages
<1> HIDE DEF m
<1>2. Queue!Send(Client, m, setting.drop) /\ setting.drop \in BOOLEAN
  BY <1>1, SettingFacts DEF Write, TypesInv, Types, ClientTypes
<1>3. Queue!TypeOK'
  BY <1>1, <1>2, QueueCallTypes DEF TypesInv, Types
<1>4. ClientTypes' /\ sent < sent'
  BY <1>1, FifoAssumption DEF Write, TypesInv, Types, ClientTypes, m
<1>5. WriterTypes'
  BY <1>4 DEF Write, TypesInv, Types, ClientTypes, WriterTypes, writerVars,
     stateVars, lossVars, Spins
<1>6. MuxerTypes' /\ MessageInv'
  BY DEF Write, TypesInv, Types, MuxerTypes, MessageInv, writerVars, muxerVars,
     stateVars
<1>7. Calls'
  <2>1. /\ pc' = [pc EXCEPT ![Client] = "send"]
        /\ arg' = [arg EXCEPT ![Client] = m]
        /\ nonblock' = [nonblock EXCEPT ![Client] = setting.drop]
    BY <1>2 DEF Queue!Send
  <2>2. client' = "sending" /\ writer' = writer /\ setting' = setting
    BY DEF Write, writerVars
  <2> QED BY <1>1, <2>1, <2>2, FifoAssumption
          DEF TypesInv, Types, Calls, Queue!TypeOK
<1> QED BY <1>3, <1>4, <1>5, <1>6, <1>7 DEF TypesInv, Types

(* The client goes on in a call to write a packet. *)
LEMMA InSendTypes ==
  ASSUME TypesInv, InSend
  PROVE  TypesInv'
<1>1. Queue!TypeOK'
  BY QueueStepTypes DEF TypesInv, Types, InSend
<1>2. UNCHANGED <<setting, sent, kind, overflowFlag, writerVars>>
  BY DEF InSend
<1>3. client' \in {"sending", "overflow", "idle"}
  BY DEF InSend
<1>4. ClientTypes' /\ WriterTypes' /\ MuxerTypes' /\ MessageInv'
  BY <1>2, <1>3 DEF TypesInv, Types, ClientTypes, WriterTypes, MuxerTypes,
     MessageInv, writerVars, muxerVars, stateVars, lossVars, Spins
<1>5. Calls'
  <2>1. pc'[Client] = "send" <=> client' = "sending"
    BY SendEffect DEF InSend, TypesInv, Types
  <2> QED BY <1>2, <1>3, <2>1, SendEffect
          DEF InSend, TypesInv, Types, Calls, writerVars
<1> QED BY <1>1, <1>4, <1>5 DEF TypesInv, Types

(* The client closes the queue, or frees it. *)
LEMMA ClosingTypes ==
  ASSUME TypesInv, WriteTrailer \/ Deinit
  PROVE  TypesInv'
<1>1. Queue!TypeOK'
  BY QueueCallTypes DEF TypesInv, Types, WriteTrailer, Deinit, EndErrors
<1>2. /\ UNCHANGED <<setting, sent, kind, overflowFlag, writerVars>>
      /\ client \in {"idle", "deinit"} /\ client' \in {"joining", "freed"}
      /\ UNCHANGED <<pc, arg, nonblock>>
  BY DEF WriteTrailer, Deinit, Queue!SetErrRecv, Queue!Flush, Queue!callVars
<1>3. ClientTypes' /\ WriterTypes' /\ MuxerTypes' /\ MessageInv' /\ Calls'
  BY <1>2 DEF TypesInv, Types, ClientTypes, WriterTypes, MuxerTypes,
     MessageInv, Calls, writerVars, muxerVars, stateVars, lossVars, Spins
<1> QED BY <1>1, <1>3 DEF TypesInv, Types

(* The steps that leave the queue and the client alone keep the types if     *)
(* they keep those of the consumer and are in no call.                       *)
LEMMA OwnStepTypes ==
  ASSUME TypesInv, UNCHANGED <<queueVars, clientVars, overflowFlag>>,
         WriterTypes', MuxerTypes', MessageInv',
         writer # "receiving", writer' # "receiving"
  PROVE  TypesInv'
<1>1. Queue!TypeOK'
  BY QueueKept DEF TypesInv, Types
<1>2. ClientTypes' /\ Calls'
  BY DEF TypesInv, Types, ClientTypes, Calls, clientVars, queueVars
<1> QED BY <1>1, <1>2 DEF TypesInv, Types

\* What comes of a message that is dispatched, or that an attempt to recover
\* is made with.
Outcome(dropping, r) ==
  /\ Kept(dropping, r) \/ Given(dropping, r)
  /\ failures' = IF r = NoError THEN failures ELSE failures + 1
  /\ failures' \in 0 .. MaxFailures
  /\ headerWritten' \in BOOLEAN /\ trailers' = trailers
  /\ headers' = IF headerWritten' /\ ~headerWritten THEN headers + 1 ELSE headers
  /\ headerWritten => headerWritten'
  /\ forsaken' = forsaken
  /\ \/ /\ writer = "dispatch" /\ (dropping <=> dropUntilKeyframe)
        /\ result' = r /\ UNCHANGED <<recoveryNr, lastTs, attemptError>>
        /\ IF r = NoError THEN writer' = "check" /\ msg' = NoMessage
                          ELSE writer' = "recover" /\ UNCHANGED msg
     \/ /\ writer = "recover" /\ setting.attempt /\ attemptError' = r
        /\ dropping <=> dropUntilKeyframe \/ (setting.keyframe /\ setting.drop)
        /\ IF r = NoError THEN Recovered ELSE Failed(recoveryNr + 1, r)

(* Every such step has one of the outcomes. *)
LEMMA HasOutcome ==
  ASSUME TypesInv, Dispatch \/ Attempt
  PROVE  \E dropping \in BOOLEAN, r \in Failures \cup {NoError} : Outcome(dropping, r)
<1>1. msg # NoMessage /\ headerWritten \in BOOLEAN /\ dropUntilKeyframe \in BOOLEAN
  BY DEF TypesInv, Types, WriterTypes, Dispatch, Attempt, Recoverable, Spins
<1>2. CASE Dispatch
  <2>1. PICK r \in Failures \cup {NoError} :
          /\ DispatchMessage(headerWritten, dropUntilKeyframe, r)
          /\ result' = r /\ UNCHANGED <<recoveryNr, lastTs, attemptError, forsaken>>
          /\ IF r = NoError THEN writer' = "check" /\ msg' = NoMessage
                            ELSE writer' = "recover" /\ UNCHANGED msg
    BY <1>2 DEF Dispatch, lossVars
  <2>2. Outcome(dropUntilKeyframe, r)
    BY <1>1, <1>2, <2>1, DispatchEffect DEF Outcome, Dispatch, TypesInv
  <2> QED BY <1>1, <2>2
<1>3. CASE Attempt
  <2> DEFINE waiting == dropUntilKeyframe \/ (setting.keyframe /\ setting.drop)
  <2>1. waiting \in BOOLEAN
    OBVIOUS
  <2>2. PICK r \in Failures \cup {NoError} :
          /\ DispatchMessage(FALSE, waiting, r) /\ attemptError' = r
          /\ IF r = NoError THEN Recovered ELSE Failed(recoveryNr + 1, r)
    BY <1>3 DEF Attempt
  <2>3. /\ writer = "recover" /\ ~headerWritten /\ setting.attempt
        /\ forsaken' = forsaken
    BY <1>3 DEF Attempt, Recoverable
  <2>4. waiting <=> dropUntilKeyframe \/ (setting.keyframe /\ setting.drop)
    OBVIOUS
  <2> HIDE DEF waiting
  <2>5. Outcome(waiting, r)
    BY <1>1, <2>1, <2>2, <2>3, <2>4, DispatchEffect DEF Outcome, TypesInv
  <2> QED BY <2>1, <2>5
<1> QED BY <1>2, <1>3

(* The consumer dispatches a message, or tries to recover with it. *)
LEMMA DispatchTypes ==
  ASSUME TypesInv, Dispatch \/ Attempt,
         UNCHANGED <<queueVars, clientVars, overflowFlag>>
  PROVE  TypesInv'
<1>1. msg # NoMessage /\ msg \in 0 .. sent /\ writer \in {"dispatch", "recover"}
  BY DEF TypesInv, Types, WriterTypes, Dispatch, Attempt, Recoverable, Spins
<1>2. /\ sent' = sent /\ sent \in Nat /\ client' = client
      /\ client # "init" /\ MaxFailures \in Nat
  BY <1>1, FifoAssumption
     DEF TypesInv, Types, ClientTypes, WriterTypes, MessageInv, clientVars
<1>3. PICK dropping \in BOOLEAN, r \in Failures \cup {NoError} : Outcome(dropping, r)
  BY HasOutcome
<1>4. /\ Kept(dropping, r) \/ Given(dropping, r)
      /\ headerWritten' \in BOOLEAN
      /\ headers' = headers \/ headers' = headers + 1
      /\ trailers' = trailers
      /\ failures' = IF r = NoError THEN failures ELSE failures + 1
      /\ failures' \in 0 .. MaxFailures
  BY <1>3 DEF Outcome
<1>5. MuxerTypes'
  <2>1. output' \in Seq(Messages)
    BY <1>1, <1>4, PacketIsMessage
       DEF TypesInv, Types, MuxerTypes, Kept, Given
  <2> QED BY <1>4, <2>1 DEF TypesInv, Types, MuxerTypes
<1>6. dropUntilKeyframe' \in BOOLEAN
  BY <1>4 DEF Kept, Given
<1>7. writer' # "none" /\ writer' # "receiving" /\ writer' # "dispatch"
  BY <1>3 DEF Outcome, Recovered, Failed, TryLater
<1>8. WriterTypes' /\ MessageInv'
  <2>1. CASE writer = "dispatch"
    BY <1>1, <1>2, <1>3, <1>6, <1>7, <2>1
       DEF Outcome, TypesInv, Types, WriterTypes, MuxerTypes, MessageInv
  <2>2. CASE writer = "recover" /\ r = NoError
    BY <1>1, <1>2, <1>3, <1>6, <1>7, <2>2
       DEF Outcome, TypesInv, Types, WriterTypes, MuxerTypes, MessageInv, Recovered
  <2>3. CASE writer = "recover" /\ r # NoError
    <3>1. Failed(recoveryNr + 1, r)
      BY <1>3, <2>3 DEF Outcome
    <3>2. recoveryNr' = recoveryNr + 1 /\ recoveryNr' \in 0 .. MaxFailures
          /\ recoveryNr' <= failures'
      BY <1>2, <1>4, <2>3, <3>1
         DEF Failed, TypesInv, Types, WriterTypes, MuxerTypes, MessageInv
    <3>3. lastTs' \in {NoTs} \cup 0 .. sent
      BY <1>1, <1>2, <3>1
         DEF Failed, Pts, Header, TypesInv, Types, WriterTypes
    <3>4. /\ writer' \in {"stop", "check", "recover"}
          /\ msg' \in {msg, NoMessage}
          /\ writer' = "check" => msg' = NoMessage
          /\ writer' = "recover" => msg' = msg
          /\ result' \in {r, result}
          /\ writer' = "stop" => result' # EAGAIN
      BY <1>3, <2>3, <3>1, ErrorFacts DEF Failed, TryLater, Outcome
    <3>5. attemptError' = r /\ forsaken' = forsaken
      BY <1>3, <2>3 DEF Outcome
    <3> QED BY <1>1, <1>2, <1>4, <1>6, <2>3, <3>2, <3>3, <3>4, <3>5
            DEF TypesInv, Types, WriterTypes, MessageInv
  <2> QED BY <1>1, <2>1, <2>2, <2>3
<1> QED BY <1>1, <1>5, <1>7, <1>8, OwnStepTypes

(* The other steps that the consumer takes alone. *)
LEMMA OtherOwnTypes ==
  ASSUME TypesInv, GiveUp \/ Finalise \/ TooEarly \/ Finish,
         UNCHANGED <<queueVars, clientVars, overflowFlag>>
  PROVE  TypesInv'
<1>1. MuxerTypes'
  BY DEF TypesInv, Types, MuxerTypes, muxerVars, GiveUp, Finalise, TooEarly,
     Finish
<1>2. WriterTypes'
  <2>1. CASE GiveUp
    <3>1. setting' = setting /\ sent' = sent
      BY DEF clientVars
    <3>2. writer' \in {"stop", "check"} \/ Spins'
      BY <2>1, <3>1, ErrorFacts, SettingFacts
         DEF GiveUp, Spins, TypesInv, Types, ClientTypes
    <3>3. /\ writer' \in {"stop", "check", "recover"}
          /\ msg' \in 0 .. sent \cup {NoMessage} /\ result' = result
          /\ writer' \in {"stop", "trailer", "gone"} => result' # EAGAIN
          /\ UNCHANGED <<stateVars, attemptError>>
      BY <2>1 DEF GiveUp
    <3>4. forsaken' \subseteq 1 .. sent
      <4>1. forsaken \subseteq 1 .. sent /\ sent \in Nat
        BY DEF TypesInv, Types, ClientTypes, WriterTypes
      <4>2. {msg} \cap Messages \subseteq 1 .. sent
        BY <4>1, FifoAssumption DEF TypesInv, Types, WriterTypes, Messages
      <4> QED BY <2>1, <4>1, <4>2 DEF GiveUp
    <3> QED BY <3>1, <3>2, <3>3, <3>4
            DEF TypesInv, Types, WriterTypes, stateVars, Spins
  <2>2. CASE Finalise \/ TooEarly \/ Finish
    BY <2>2 DEF TypesInv, Types, WriterTypes, stateVars, lossVars, clientVars, Finalise,
       TooEarly, Finish, Spins, Recoverable
  <2> QED BY <2>1, <2>2
<1>3. MessageInv'
  BY DEF TypesInv, MessageInv, muxerVars, stateVars, clientVars, GiveUp,
     Finalise, TooEarly, Finish
<1>4. writer # "receiving" /\ writer' # "receiving"
  BY DEF GiveUp, Finalise, TooEarly, Finish
<1> QED BY <1>1, <1>2, <1>3, <1>4, OwnStepTypes

(* The consumer looks at the overflow flag, and may empty the queue. *)
LEMMA CheckOverflowTypes ==
  ASSUME TypesInv, CheckOverflow
  PROVE  TypesInv'
<1>1. Queue!TypeOK' /\ UNCHANGED <<pc, arg, nonblock>>
  <2>1. CASE overflowFlag
    BY <2>1, QueueCallTypes
       DEF CheckOverflow, Queue!Flush, Queue!callVars, TypesInv, Types
  <2>2. CASE ~overflowFlag
    BY <2>2, QueueKept DEF CheckOverflow, queueVars, TypesInv, Types
  <2> QED BY <2>1, <2>2
<1>2. dropUntilKeyframe' \in BOOLEAN
  BY SettingFacts DEF CheckOverflow, TypesInv, Types, ClientTypes, WriterTypes
<1>3. ClientTypes' /\ WriterTypes' /\ MuxerTypes' /\ MessageInv' /\ Calls'
  BY <1>1, <1>2 DEF CheckOverflow, TypesInv, Types, ClientTypes, WriterTypes,
     MuxerTypes, MessageInv, Calls, clientVars, muxerVars, lossVars
<1> QED BY <1>1, <1>3 DEF TypesInv, Types

(* The consumer calls to receive a message. *)
LEMMA ReceiveTypes ==
  ASSUME TypesInv, Receive
  PROVE  TypesInv'
<1>1. Queue!TypeOK'
  BY QueueCallTypes DEF Receive, TypesInv, Types
<1>2. /\ pc' = [pc EXCEPT ![Consumer] = "recv"] /\ arg' = arg
      /\ nonblock' = [nonblock EXCEPT ![Consumer] = FALSE]
  BY DEF Receive, Queue!Recv
<1>3. Calls'
  BY <1>2, FifoAssumption
     DEF Receive, clientVars, TypesInv, Types, Calls, Queue!TypeOK
<1>4. ClientTypes' /\ WriterTypes' /\ MuxerTypes' /\ MessageInv'
  BY DEF Receive, TypesInv, Types, ClientTypes, WriterTypes, MuxerTypes,
     MessageInv, clientVars, muxerVars, stateVars, lossVars
<1> QED BY <1>1, <1>3, <1>4 DEF TypesInv, Types

(* What the consumer gets of a call that ends. *)
LEMMA ReceivedEffect ==
  ASSUME TypesInv, InReceive, pc'[Consumer] = "idle"
  PROVE  \/ /\ result' = NoError /\ fifo # <<>>
            /\ msg' = Head(fifo) /\ msg' \in Messages /\ fifo' = Tail(fifo)
            /\ writer' = IF recoveryNr = 0 THEN "dispatch" ELSE "recover"
         \/ /\ result' = errRecv /\ errRecv # NoError
            /\ fifo = <<>> /\ fifo' = fifo
            /\ writer' = "stop" /\ msg' = msg
<1>1. Received
  BY DEF InReceive
<1>2. CASE ret'[Consumer] = NoError
  <2>1. fifo # <<>> /\ fifo' = Tail(fifo)
    BY <1>2, RecvEffect DEF InReceive, TypesInv, Types, Calls
  <2>2. Head(fifo) \in Messages
    BY <2>1, HeadTailProperties DEF TypesInv, Types, Queue!TypeOK
  <2> QED BY <1>1, <1>2, <2>1, <2>2 DEF Received
<1>3. CASE ret'[Consumer] # NoError
  BY <1>1, <1>3, RecvEffect DEF Received, InReceive, TypesInv, Types, Calls
<1> QED BY <1>2, <1>3

-----------------------------------------------------------------------------
(* Order *)

Increasing(s) == \A i, j \in DOMAIN s : i < j => s[i] < s[j]

\* What the client has handed over, but for the message it is sending.
Offered == IF client = "sending" THEN sent - 1 ELSE sent

\* The packets that were written, the message of the consumer, the messages
\* in the queue and the one that is being sent are in the order of the client.
OrderInv ==
  /\ Increasing(output) /\ Increasing(fifo)
  /\ \A i \in DOMAIN output : output[i] <= Offered
  /\ \A j \in DOMAIN fifo : fifo[j] <= Offered
  /\ \A i \in DOMAIN output, j \in DOMAIN fifo : output[i] < fifo[j]
  /\ msg # NoMessage =>
       /\ msg <= Offered
       /\ \A i \in DOMAIN output : output[i] < msg
       /\ \A j \in DOMAIN fifo : msg < fifo[j]

(* Messages are numbers, and so are the elements of a sequence of them. *)
LEMMA AreNumbers ==
  /\ Messages \subseteq Nat
  /\ \A s \in Seq(Messages) : \A i \in DOMAIN s : s[i] \in Messages
<1>1. Messages \subseteq Nat
  BY DEF Messages
<1>2. ASSUME NEW s \in Seq(Messages), NEW i \in DOMAIN s PROVE s[i] \in Messages
  BY ElementOfSeq, LenProperties
<1> QED BY <1>1, <1>2

(* A sequence that is extended by something greater stays increasing. *)
LEMMA AppendedLast ==
  ASSUME NEW s \in Seq(Messages), NEW m \in Messages, Increasing(s),
         \A i \in DOMAIN s : s[i] < m
  PROVE  /\ Increasing(Append(s, m))
         /\ \A i \in DOMAIN Append(s, m) :
              \/ i \in DOMAIN s /\ Append(s, m)[i] = s[i]
              \/ Append(s, m)[i] = m
<1> DEFINE t == Append(s, m)
<1>1. /\ Len(s) \in Nat /\ DOMAIN s = 1 .. Len(s)
      /\ DOMAIN t = 1 .. Len(s) + 1
      /\ t[Len(s) + 1] = m /\ \A i \in 1 .. Len(s) : t[i] = s[i]
  BY AppendProperties, LenProperties
<1>2. m \in Nat /\ \A i \in DOMAIN s : s[i] \in Nat
  BY AreNumbers
<1> HIDE DEF t
<1>3. \A i \in DOMAIN t : (i \in DOMAIN s /\ t[i] = s[i]) \/ (i = Len(s) + 1 /\ t[i] = m)
  BY <1>1
<1>4. Increasing(t)
  <2> SUFFICES ASSUME NEW i \in DOMAIN t, NEW j \in DOMAIN t, i < j
               PROVE  t[i] < t[j]
    BY DEF Increasing
  <2>1. i \in DOMAIN s /\ t[i] = s[i]
    BY <1>1
  <2> QED BY <1>1, <1>3, <2>1 DEF Increasing
<1> QED BY <1>3, <1>4 DEF t

(* What follows the first of a sequence that increases. *)
LEMMA FirstTaken ==
  ASSUME NEW s \in Seq(Messages), s # <<>>, Increasing(s)
  PROVE  /\ Increasing(Tail(s))
         /\ 1 \in DOMAIN s /\ Head(s) = s[1]
         /\ \A j \in DOMAIN Tail(s) : /\ j + 1 \in DOMAIN s
                                      /\ Tail(s)[j] = s[j + 1]
                                      /\ Head(s) < Tail(s)[j]
<1> DEFINE t == Tail(s)
<1>1. \A j \in DOMAIN s : s[j] \in Nat
  BY AreNumbers
<1>2. /\ Len(s) \in Nat \ {0} /\ DOMAIN s = 1 .. Len(s)
      /\ DOMAIN t = 1 .. Len(s) - 1
      /\ \A j \in 1 .. Len(s) - 1 : t[j] = s[j + 1]
      /\ Head(s) = s[1]
  BY HeadTailProperties, LenProperties, EmptySeq
<1> HIDE DEF t
<1>3. \A j \in DOMAIN t : j + 1 \in DOMAIN s /\ t[j] = s[j + 1] /\ s[1] < t[j]
  BY <1>1, <1>2 DEF Increasing
<1>4. Increasing(t)
  BY <1>2, <1>3 DEF Increasing
<1> QED BY <1>2, <1>3, <1>4 DEF t

(* The types that the proofs about the order need. *)
LEMMA OrderFacts ==
  ASSUME TypesInv
  PROVE  /\ fifo \in Seq(Messages) /\ output \in Seq(Messages) /\ sent \in Nat
         /\ \A i \in DOMAIN output : output[i] \in Messages
         /\ \A j \in DOMAIN fifo : fifo[j] \in Messages
         /\ Messages \subseteq Nat /\ NoMessage \notin Nat
         /\ msg # NoMessage => msg \in Nat
         /\ Offered \in Int /\ Offered <= sent
<1>1. fifo \in Seq(Messages) /\ output \in Seq(Messages) /\ Messages \subseteq Nat
  BY DEF TypesInv, Types, Queue!TypeOK, MuxerTypes, Messages
<1>2. /\ \A i \in DOMAIN output : output[i] \in Messages
      /\ \A j \in DOMAIN fifo : fifo[j] \in Messages
  BY <1>1, AreNumbers
<1> QED BY <1>1, <1>2, FifoAssumption
        DEF TypesInv, Types, ClientTypes, WriterTypes, Offered


(* A step that changes none of what is ordered keeps the order, if it does   *)
(* not take back what is offered.                                            *)
LEMMA OrderKept ==
  ASSUME TypesInv, TypesInv', OrderInv, output' = output, msg' \in {msg, NoMessage},
         fifo' = fifo \/ fifo' = <<>>, Offered' >= Offered
  PROVE  OrderInv'
<1>1. fifo' = <<>> => DOMAIN fifo' = {}
  OBVIOUS
<1>2. Offered \in Int /\ Offered' \in Int
  BY DEF TypesInv, Types, ClientTypes, Offered
<1>3. /\ \A i \in DOMAIN output : output[i] \in Int
      /\ \A j \in DOMAIN fifo : fifo[j] \in Int
      /\ msg # NoMessage => msg \in Int
  BY OrderFacts DEF Messages
<1> HIDE DEF Offered
<1>4. Increasing(fifo') /\ Increasing(output')
  BY <1>1 DEF OrderInv, Increasing
<1> QED BY <1>1, <1>2, <1>3, <1>4 DEF OrderInv

(* The client keeps the order. *)
LEMMA ClientOrder ==
  ASSUME TypesInv, TypesInv', OrderInv,
         ClientStep \/ (\E k \in Kinds : Write(k)) \/ WriteTrailer
  PROVE  OrderInv'
<1>1. output' = output /\ msg' = msg
  BY DEF ClientStep, Start, InSend, Overflow, Join, Deinit, Write, WriteTrailer,
     writerVars, muxerVars
<1>2. sent \in Nat
  BY DEF TypesInv, Types, ClientTypes
<1>3. CASE Start \/ Overflow \/ Join \/ Deinit \/ WriteTrailer
  <2>1. (fifo' = fifo \/ fifo' = <<>>) /\ Offered' >= Offered
    BY <1>2, <1>3 DEF Start, Overflow, Join, Deinit, WriteTrailer, Offered,
       queueVars, Queue!Flush, Queue!SetErrRecv
  <2> QED BY <1>1, <2>1, OrderKept
<1>4. ASSUME NEW k \in Kinds, Write(k) PROVE OrderInv'
  <2>1. fifo' = fifo
    BY <1>4 DEF Write, Queue!Send, Queue!queueVars
  <2>2. Offered' = Offered
    BY <1>2, <1>4 DEF Write, Offered
  <2> QED BY <1>1, <1>2, <2>1, <2>2, OrderKept DEF Offered
<1>5. CASE InSend
  <2>1. sent' = sent /\ client = "sending" /\ Offered = sent - 1
    BY <1>5 DEF InSend, Offered
  <2>2. CASE fifo' = fifo
    <3>1. Offered' >= Offered
      BY <1>2, <2>1 DEF Offered
    <3> QED BY <1>1, <2>2, <3>1, OrderKept
  <2>3. CASE fifo' = Append(fifo, sent) /\ client' = "idle"
    <3>1. /\ \A i \in DOMAIN output : output[i] < sent
          /\ \A j \in DOMAIN fifo : fifo[j] < sent
          /\ msg # NoMessage => msg < sent
      BY <1>2, <2>1, OrderFacts DEF OrderInv, Messages
    <3>2. sent \in Messages
      BY <2>1 DEF TypesInv, Types, Calls
    <3>3. /\ Increasing(fifo')
          /\ \A j \in DOMAIN fifo' :
               \/ j \in DOMAIN fifo /\ fifo'[j] = fifo[j]
               \/ fifo'[j] = sent
      BY <2>3, <3>1, <3>2, OrderFacts, AppendedLast DEF OrderInv
    <3>4. Offered' = sent
      BY <2>1, <2>3 DEF Offered
    <3>5. /\ \A i \in DOMAIN output : output[i] \in Int
          /\ \A j \in DOMAIN fifo : fifo[j] \in Int
          /\ msg # NoMessage => msg \in Int
      BY OrderFacts DEF Messages
    <3> QED BY <1>1, <1>2, <3>1, <3>3, <3>4, <3>5 DEF OrderInv
  <2> QED BY <2>2, <2>3, <1>5, SendEffect, FifoAssumption
          DEF InSend, TypesInv, Types, Calls, Failures
<1> QED BY <1>3, <1>4, <1>5 DEF ClientStep

(* The consumer goes on in a call to receive a message. *)
LEMMA InReceiveTypes ==
  ASSUME TypesInv, OrderInv, InReceive
  PROVE  TypesInv'
<1>1. Queue!TypeOK'
  BY QueueStepTypes DEF TypesInv, Types, InReceive
<1>2. UNCHANGED <<clientVars, overflowFlag, stateVars, muxerVars, lossVars>>
  BY DEF InReceive
<1>3. ClientTypes' /\ MuxerTypes' /\ writer = "receiving" /\ msg = NoMessage
  BY <1>2 DEF InReceive, TypesInv, Types, ClientTypes, MuxerTypes, MessageInv,
     clientVars, muxerVars
<1>4. /\ pc'[Client] = pc[Client] /\ arg'[Client] = arg[Client]
      /\ nonblock'[Client] = nonblock[Client] /\ nonblock'[Consumer] = FALSE
      /\ pc'[Consumer] \in {"recv", "idle"}
  BY RecvEffect DEF InReceive, TypesInv, Types, Calls
<1>5. CASE pc'[Consumer] = "recv"
  <2>1. UNCHANGED <<writer, msg, result>>
    BY <1>5 DEF InReceive
  <2>2. WriterTypes' /\ MessageInv' /\ Calls'
    BY <1>2, <1>3, <1>4, <1>5, <2>1 DEF TypesInv, Types, WriterTypes, MessageInv,
       Calls, clientVars, stateVars, muxerVars, lossVars, Spins
  <2> QED BY <1>1, <1>3, <2>2 DEF TypesInv, Types
<1>6. CASE pc'[Consumer] = "idle"
  <2>1. \/ /\ result' = NoError /\ fifo # <<>>
           /\ msg' = Head(fifo) /\ msg' \in Messages
           /\ writer' = IF recoveryNr = 0 THEN "dispatch" ELSE "recover"
        \/ /\ result' = errRecv /\ writer' = "stop" /\ msg' = msg
    BY <1>6, ReceivedEffect
  <2>2. fifo # <<>> => Head(fifo) \in 0 .. sent
    <3> SUFFICES ASSUME fifo # <<>> PROVE Head(fifo) \in 0 .. sent
      OBVIOUS
    <3>1. 1 \in DOMAIN fifo /\ Head(fifo) = fifo[1]
      BY OrderFacts, FirstTaken DEF OrderInv
    <3>2. fifo[1] \in Nat /\ fifo[1] <= Offered /\ Offered <= sent
          /\ Offered \in Int /\ sent \in Nat
      BY <3>1, OrderFacts DEF OrderInv
    <3> QED BY <3>1, <3>2
  <2>3. /\ errRecv \in Failures \cup {EOF, NoError} /\ errRecv # EAGAIN
        /\ NoError # EAGAIN
    BY ErrorFacts, FifoAssumption DEF TypesInv, Types, Queue!TypeOK, Failures
  <2>4. Messages \subseteq Nat /\ NoMessage \notin Nat
    BY OrderFacts
  <2>5. WriterTypes'
    BY <1>2, <1>3, <2>1, <2>2, <2>3, <2>4
       DEF TypesInv, Types, WriterTypes, clientVars, stateVars, lossVars
  <2>6. MessageInv' /\ Calls'
    BY <1>2, <1>3, <1>4, <1>6, <2>1
       DEF TypesInv, Types, WriterTypes, MessageInv, Calls, clientVars, stateVars,
           muxerVars
  <2> QED BY <1>1, <1>3, <2>5, <2>6 DEF TypesInv, Types
<1> QED BY <1>4, <1>5, <1>6

(* The consumer tells the client that it ends. *)
LEMMA StopTypes ==
  ASSUME TypesInv, Stop
  PROVE  TypesInv'
<1>0. result \in EndErrors \cup {NoError}
  BY ErrorFacts DEF TypesInv, Types, WriterTypes, Stop
<1>1. Queue!TypeOK' /\ UNCHANGED <<pc, arg, nonblock>>
  BY <1>0, QueueCallTypes DEF TypesInv, Types, Stop, Queue!SetErrSend,
     Queue!callVars
<1>2. ClientTypes' /\ WriterTypes' /\ MuxerTypes' /\ MessageInv' /\ Calls'
  BY <1>1 DEF Stop, TypesInv, Types, ClientTypes, WriterTypes, MuxerTypes,
     MessageInv, Calls, clientVars, muxerVars, stateVars, lossVars
<1> QED BY <1>1, <1>2 DEF TypesInv, Types

(* A thread that sleeps in a call may wake up without being signalled. *)
LEMMA SpuriousTypes ==
  ASSUME TypesInv, SpuriousWakeup
  PROVE  TypesInv'
<1>1. Queue!TypeOK' /\ UNCHANGED <<fifo, errSend, errRecv, pc, arg, nonblock>>
  BY QueueStepTypes DEF TypesInv, Types, SpuriousWakeup, Queue!SpuriousWakeup,
     Queue!queueVars, Queue!callVars
<1>2. ClientTypes' /\ WriterTypes' /\ MuxerTypes' /\ MessageInv' /\ Calls'
  BY <1>1 DEF SpuriousWakeup, TypesInv, Types, ClientTypes, WriterTypes, MuxerTypes,
     MessageInv, Calls, clientVars, writerVars, muxerVars, stateVars, lossVars, Spins
<1> QED BY <1>1, <1>2 DEF TypesInv, Types

(* No step keeps the types from holding. *)
LEMMA StepTypes ==
  ASSUME TypesInv, OrderInv, [Next]_vars
  PROVE  TypesInv'
<1>1. CASE UNCHANGED vars
  <2>1. Queue!TypeOK'
    BY <1>1, QueueKept DEF vars, TypesInv, Types
  <2>2. ClientTypes' /\ WriterTypes' /\ MuxerTypes' /\ MessageInv' /\ Calls'
    BY <1>1 DEF vars, TypesInv, Types, ClientTypes, WriterTypes, MuxerTypes,
       MessageInv, Calls, clientVars, writerVars, muxerVars, stateVars, lossVars,
       queueVars, Spins
  <2> QED BY <2>1, <2>2 DEF TypesInv, Types
<1>2. CASE ClientStep \/ (\E k \in Kinds : Write(k)) \/ WriteTrailer
  BY <1>2, ClientOwnTypes, WriteTypes, InSendTypes, ClosingTypes DEF ClientStep
<1>3. CASE OwnStep
  BY <1>3, DispatchTypes, OtherOwnTypes DEF OwnStep
<1>4. CASE ConsumerStep
  BY <1>3, <1>4, CheckOverflowTypes, ReceiveTypes, InReceiveTypes, StopTypes
     DEF ConsumerStep
<1> QED BY <1>1, <1>2, <1>4, SpuriousTypes DEF Next, Over

(* A message is written after all that were written before. *)
LEMMA DispatchOrder ==
  ASSUME TypesInv, TypesInv', OrderInv, Dispatch \/ Attempt,
         UNCHANGED <<queueVars, clientVars, overflowFlag>>
  PROVE  OrderInv'
<1>1. PICK dropping \in BOOLEAN, r \in Failures \cup {NoError} : Outcome(dropping, r)
  BY HasOutcome
<1>2. fifo' = fifo /\ Offered' = Offered
  BY DEF queueVars, clientVars, Offered
<1>3. msg # NoMessage
  BY DEF TypesInv, Types, WriterTypes, Dispatch, Attempt, Recoverable, Spins
<1>4. msg' \in {msg, NoMessage} /\ (r = NoError => msg' = NoMessage)
  BY <1>1 DEF Outcome, Recovered, Failed, TryLater
<1>5. CASE output' = output
  <2>1. Offered \in Int
    BY OrderFacts
  <2> QED BY <1>2, <1>4, <1>5, <2>1, OrderKept
<1>6. CASE r = NoError /\ IsPacket /\ output' = Append(output, msg)
  <2>1. msg \in Messages
    BY <1>3, <1>6, PacketIsMessage DEF TypesInv
  <2>2. /\ Increasing(output')
        /\ \A i \in DOMAIN output' :
             \/ i \in DOMAIN output /\ output'[i] = output[i]
             \/ output'[i] = msg
    BY <1>3, <1>6, <2>1, OrderFacts, AppendedLast DEF OrderInv
  <2> QED BY <1>2, <1>3, <1>4, <1>6, <2>2 DEF OrderInv
<1> QED BY <1>1, <1>5, <1>6 DEF Outcome, Kept, Given

(* What is received is the first of the queue. *)
LEMMA InReceiveOrder ==
  ASSUME TypesInv, TypesInv', OrderInv, InReceive
  PROVE  OrderInv'
<1>1. /\ output' = output /\ Offered' = Offered /\ Offered \in Int
  BY OrderFacts DEF InReceive, muxerVars, clientVars, Offered
<1>2. CASE pc'[Consumer] # "idle"
  <2>1. fifo' = fifo /\ msg' = msg
    BY <1>2, RecvEffect DEF InReceive, TypesInv, Types, Calls
  <2> QED BY <1>1, <2>1, OrderKept
<1>3. CASE pc'[Consumer] = "idle" /\ fifo' = fifo /\ msg' = msg
  BY <1>1, <1>3, OrderKept
<1>4. CASE fifo # <<>> /\ msg' = Head(fifo) /\ fifo' = Tail(fifo)
  <2>1. /\ Increasing(fifo') /\ 1 \in DOMAIN fifo /\ msg' = fifo[1]
        /\ \A j \in DOMAIN fifo' : /\ j + 1 \in DOMAIN fifo
                                   /\ fifo'[j] = fifo[j + 1]
                                   /\ msg' < fifo'[j]
    BY <1>4, OrderFacts, FirstTaken DEF OrderInv
  <2> QED BY <1>1, <2>1 DEF OrderInv
<1> QED BY <1>2, <1>3, <1>4, ReceivedEffect

(* No step changes the order. *)
LEMMA StepOrder ==
  ASSUME TypesInv, TypesInv', OrderInv, [Next]_vars
  PROVE  OrderInv'
<1>0. Offered \in Int
  BY OrderFacts
<1>1. CASE UNCHANGED vars
  <2>1. fifo' = fifo /\ output' = output /\ msg' = msg /\ Offered' = Offered
    BY <1>1 DEF vars, queueVars, clientVars, writerVars, muxerVars, Offered
  <2> QED BY <1>0, <2>1, OrderKept
<1>2. CASE ClientStep \/ (\E k \in Kinds : Write(k)) \/ WriteTrailer
  BY <1>2, ClientOrder
<1>3. CASE OwnStep /\ (GiveUp \/ Finalise \/ TooEarly \/ Finish)
  <2>1. output' = output /\ msg' \in {msg, NoMessage}
    BY <1>3 DEF GiveUp, Finalise, TooEarly, Finish, muxerVars
  <2>2. fifo' = fifo /\ Offered' = Offered
    BY <1>3 DEF OwnStep, queueVars, clientVars, Offered
  <2> QED BY <1>0, <2>1, <2>2, OrderKept
<1>4. CASE OwnStep /\ (Dispatch \/ Attempt)
  BY <1>4, DispatchOrder DEF OwnStep
<1>5. CASE CheckOverflow \/ Receive \/ Stop \/ SpuriousWakeup
  <2>1. output' = output /\ msg' = msg
    BY <1>5 DEF CheckOverflow, Receive, Stop, SpuriousWakeup, muxerVars, writerVars
  <2>2. fifo' = fifo \/ fifo' = <<>>
    BY <1>5 DEF CheckOverflow, Receive, Stop, SpuriousWakeup, Queue!Flush,
       Queue!Recv, Queue!SetErrSend, Queue!SpuriousWakeup, Queue!queueVars,
       queueVars
  <2>3. Offered' = Offered
    BY <1>5 DEF CheckOverflow, Receive, Stop, SpuriousWakeup, clientVars, Offered
  <2> QED BY <1>0, <2>1, <2>2, <2>3, OrderKept
<1> QED BY <1>1, <1>2, <1>3, <1>4, <1>5, InReceiveOrder
        DEF Next, ConsumerStep, OwnStep, Over

(* The bounds are numbers. *)
LEMMA BoundFacts == 0 \in 0 .. MaxMessages /\ 0 \in 0 .. MaxFailures
BY FifoAssumption

(* The muxer starts well. *)
LEMMA InitTypes == Init => TypesInv /\ OrderInv
<1> SUFFICES ASSUME Init PROVE TypesInv /\ OrderInv
  OBVIOUS
<1>1. Queue!TypeOK
  BY FifoAssumption DEF Init, Queue!Init, Queue!TypeOK, Queue!Codes, Queue!Fates
<1>2. ClientTypes /\ WriterTypes /\ MuxerTypes /\ MessageInv
  <2>1. ClientTypes
    BY BoundFacts DEF Init, ClientTypes, AllKinds
  <2>2. WriterTypes
    <3>1. msg \in 0 .. sent
      BY DEF Init, Header
    <3>2. recoveryNr \in 0 .. MaxFailures /\ writer = "none" /\ lastTs = NoTs
      BY BoundFacts DEF Init
    <3>3. /\ result \in Failures \cup {EOF, NoError}
          /\ attemptError = NoError /\ forsaken = {}
          /\ dropUntilKeyframe \in BOOLEAN /\ headerWritten \in BOOLEAN
      BY DEF Init
    <3> QED BY <3>1, <3>2, <3>3 DEF WriterTypes
  <2>3. MuxerTypes
    BY BoundFacts DEF Init, MuxerTypes
  <2>4. MessageInv
    BY DEF Init, MessageInv
  <2> QED BY <2>1, <2>2, <2>3, <2>4
<1>3. Calls
  BY DEF Init, Queue!Init, Calls
<1>4. output = <<>> /\ fifo = <<>> /\ Offered = 0 /\ msg = 0
  BY DEF Init, Queue!Init, Header, Offered
<1>5. OrderInv
  BY <1>4 DEF OrderInv, Increasing
<1> QED BY <1>1, <1>2, <1>3, <1>5 DEF TypesInv, Types

(* The types and the order, for any options and any number of messages. *)
LEMMA FifoInvariant == Spec => [](TypesInv /\ OrderInv)
<1>1. TypesInv /\ OrderInv /\ [Next]_vars => TypesInv' /\ OrderInv'
  BY StepTypes, StepOrder
<1> QED BY <1>1, InitTypes, PTL DEF Spec

(***************************************************************************)
(* Every variable of fifo.c keeps its type, a message or a call is held    *)
(* only where the threads have one, whatever the queue refuses and however *)
(* often the real muxer fails.                                             *)
(***************************************************************************)
THEOREM FifoTypeCorrect == Spec => []TypeOK
<1>1. TypesInv => TypeOK
  BY TypeParts DEF TypesInv
<1> QED BY <1>1, FifoInvariant, PTL

-----------------------------------------------------------------------------
(* Headers and trailers, attempts, and what is left *)

\* The steps of the client, and those that nobody takes.
Others ==
  \/ ClientStep \/ (\E k \in Kinds : Write(k)) \/ WriteTrailer
  \/ SpuriousWakeup \/ UNCHANGED vars

(* They leave the consumer alone, but for its start. *)
LEMMA OthersLeave ==
  ASSUME Others
  PROVE  /\ UNCHANGED <<setting, msg, result, recoveryNr, dropUntilKeyframe,
                        headerWritten, failures, headers, trailers, output,
                        attemptError, forsaken>>
         /\ \/ writer' = writer
            \/ client = "init" /\ client' = "idle" /\ writer' = "dispatch"
<1>1. CASE Start
  BY <1>1 DEF Start, stateVars, muxerVars, lossVars
<1>2. CASE ~Start
  <2>1. UNCHANGED <<setting, writerVars>>
    BY <1>2 DEF Others, ClientStep, InSend, Overflow, Join, Deinit, Write,
       WriteTrailer, SpuriousWakeup, vars, clientVars
  <2> QED BY <2>1 DEF writerVars, stateVars, muxerVars, lossVars
<1> QED BY <1>1, <1>2

(* The steps of the consumer with the queue leave the real muxer alone. *)
LEMMA QueueStepsLeave ==
  ASSUME CheckOverflow \/ Receive \/ InReceive \/ Stop
  PROVE  /\ UNCHANGED <<clientVars, recoveryNr, lastTs, headerWritten, failures,
                        headers, trailers, output, attemptError, forsaken>>
         /\ writer \in {"check", "receive", "receiving", "stop"}
BY DEF CheckOverflow, Receive, InReceive, Stop, stateVars, muxerVars, lossVars

(* Every step is one of these. *)
LEMMA StepCases ==
  ASSUME [Next]_vars
  PROVE  \/ Others \/ CheckOverflow \/ Receive \/ InReceive \/ Stop
         \/ /\ Dispatch \/ Attempt \/ GiveUp \/ Finalise \/ TooEarly \/ Finish
            /\ UNCHANGED <<queueVars, clientVars, overflowFlag>>
BY DEF Next, Others, ConsumerStep, OwnStep, Over

(* No step leaves a header without its trailer, or adds a second one. *)
LEMMA StepFinalised ==
  ASSUME TypesInv, FinalisedOnce, [Next]_vars
  PROVE  FinalisedOnce'
<1>1. headers \in Nat /\ trailers \in Nat /\ headerWritten \in BOOLEAN
  BY DEF TypesInv, Types, MuxerTypes, WriterTypes
<1>2. CASE Others
  <2>1. client = "init" => writer = "none"
    BY DEF TypesInv, MessageInv
  <2> QED BY <1>2, <2>1, OthersLeave DEF FinalisedOnce
<1>3. CASE CheckOverflow \/ Receive \/ InReceive \/ Stop
  <2>1. writer' # "gone"
    BY <1>3 DEF CheckOverflow, Receive, InReceive, Stop, Received
  <2> QED BY <1>3, <2>1, QueueStepsLeave DEF FinalisedOnce
<1>4. CASE Dispatch \/ Attempt
  <2>1. PICK dropping \in BOOLEAN, r \in Failures \cup {NoError} : Outcome(dropping, r)
    BY <1>4, HasOutcome
  <2>2. writer # "gone" /\ writer' # "gone"
    BY <2>1 DEF Outcome, Recovered, Failed, TryLater
  <2>3. /\ trailers' = trailers /\ headerWritten' \in BOOLEAN
        /\ headers' = IF headerWritten' /\ ~headerWritten THEN headers + 1 ELSE headers
        /\ headerWritten => headerWritten'
    BY <2>1 DEF Outcome
  <2> QED BY <1>1, <2>2, <2>3 DEF FinalisedOnce
<1>5. CASE GiveUp \/ Finalise \/ TooEarly \/ Finish
  BY <1>1, <1>5 DEF GiveUp, Finalise, TooEarly, Finish, stateVars, muxerVars,
     FinalisedOnce
<1> QED BY <1>2, <1>3, <1>4, <1>5, StepCases

(***************************************************************************)
(* Every muxer whose header fifo_thread_write_header has written is        *)
(* finished with exactly one trailer, through any number of failures and   *)
(* recoveries.                                                             *)
(***************************************************************************)
THEOREM FifoFinalises == Spec => []FinalisedOnce
<1>1. Init => FinalisedOnce
  BY DEF Init, FinalisedOnce
<1>2. TypesInv /\ FinalisedOnce /\ [Next]_vars => FinalisedOnce'
  BY StepFinalised
<1> QED BY <1>1, <1>2, FifoInvariant, PTL DEF Spec

\* When the consumer has ended it holds a packet only if no attempt is left;
\* the client frees the queue when the consumer has ended or never started.
LeavingInv ==
  /\ AttemptsBounded
  /\ Ended /\ msg \in Messages =>
       setting.max > 0 /\ recoveryNr >= setting.max /\ attemptError # EAGAIN
  /\ client \in {"deinit", "freed"} => writer \in {"none", "gone"}
  /\ client = "freed" => fifo = <<>>

(* The consumer gives up in time, and lets go of what it holds. *)
LEMMA StepLeaves ==
  ASSUME TypesInv, TypesInv', LeavingInv, [Next]_vars
  PROVE  LeavingInv'
<1>1. /\ recoveryNr \in Nat /\ setting.max \in Nat
      /\ client = "init" => writer = "none"
      /\ writer = "none" => msg = Header /\ recoveryNr = 0
      /\ writer \in {"check", "receive", "receiving"} => msg = NoMessage
      /\ Header \notin Messages /\ NoMessage \notin Messages
  BY SettingFacts, FifoAssumption DEF TypesInv, MessageInv, Types, WriterTypes,
     ClientTypes, Header, Messages
<1>2. CASE Others
  <2>1. /\ UNCHANGED <<setting, msg, recoveryNr, attemptError>>
        /\ \/ writer' = writer
           \/ client = "init" /\ client' = "idle" /\ writer' = "dispatch"
    BY <1>2, OthersLeave
  <2>2. /\ client' \in {"deinit", "freed"} => writer \in {"none", "gone"}
        /\ client' = "freed" => fifo' = <<>>
    <3>1. CASE Start \/ Overflow
      BY <1>1, <3>1 DEF Start, Overflow, queueVars
    <3>2. CASE InSend
      BY <3>2 DEF InSend
    <3>3. CASE Join \/ Deinit
      BY <3>3 DEF Join, Deinit, queueVars, Queue!Flush, LeavingInv
    <3>4. CASE (\E k \in Kinds : Write(k)) \/ WriteTrailer
      BY <3>4 DEF Write, WriteTrailer
    <3>5. CASE SpuriousWakeup \/ UNCHANGED vars
      BY <3>5 DEF SpuriousWakeup, vars, queueVars, clientVars, LeavingInv,
         Queue!SpuriousWakeup, Queue!queueVars
    <3> QED BY <1>2, <3>1, <3>2, <3>3, <3>4, <3>5 DEF Others, ClientStep
  <2>3. writer' # writer => client' = "idle" /\ recoveryNr = 0
                            /\ writer' = "dispatch"
    BY <1>1, <2>1
  <2> QED BY <1>1, <2>1, <2>2, <2>3 DEF LeavingInv, AttemptsBounded, Ended
<1>3. CASE CheckOverflow \/ Receive \/ InReceive \/ Stop
  <2>1. /\ UNCHANGED <<setting, client, recoveryNr, attemptError>>
        /\ writer \in {"check", "receive", "receiving", "stop"}
    BY <1>3, QueueStepsLeave DEF clientVars
  <2>2. \/ msg' = msg /\ (writer = "stop" => writer' = "trailer")
        \/ ~Ended'
    BY <1>3 DEF CheckOverflow, Receive, InReceive, Stop, Received, Ended
  <2>3. writer = "stop" => writer' = "trailer"
    BY <1>3 DEF CheckOverflow, Receive, InReceive, Stop
  <2> QED BY <1>1, <2>1, <2>2, <2>3 DEF LeavingInv, AttemptsBounded, Ended
<1>4. CASE /\ Dispatch \/ Attempt
           /\ UNCHANGED <<queueVars, clientVars, overflowFlag>>
  <2>1. PICK dropping \in BOOLEAN, r \in Failures \cup {NoError} : Outcome(dropping, r)
    BY <1>4, HasOutcome
  <2>2. UNCHANGED <<setting, client>> /\ writer \in {"dispatch", "recover"}
    BY <1>4, <2>1 DEF clientVars, Outcome
  <2>3. client \notin {"deinit", "freed"}
    BY <2>2 DEF LeavingInv
  <2>4. CASE UNCHANGED <<recoveryNr, attemptError>> /\ ~Ended'
    BY <1>1, <2>2, <2>3, <2>4 DEF LeavingInv, AttemptsBounded, Ended
  <2>5. CASE recoveryNr' = 0 /\ ~Ended'
    BY <1>1, <2>2, <2>3, <2>5 DEF LeavingInv, AttemptsBounded, Ended
  <2>6. CASE Failed(recoveryNr + 1, r) /\ attemptError' = r
    <3>1. recoveryNr' = recoveryNr + 1
      BY <2>6 DEF Failed
    <3>2. \/ writer' = "stop" /\ msg' = NoMessage
          \/ writer' = "stop" /\ Exhausted(recoveryNr') /\ r # EAGAIN
          \/ ~Ended' /\ (Exhausted(recoveryNr') => r = EAGAIN)
      BY <2>2, <2>6, <3>1 DEF Failed, TryLater, Ended
    <3> QED BY <1>1, <2>2, <2>3, <2>6, <3>1, <3>2
            DEF LeavingInv, AttemptsBounded, Ended, Exhausted
  <2> QED BY <2>1, <2>4, <2>5, <2>6 DEF Outcome, Recovered, Ended
<1>5. CASE /\ GiveUp \/ Finalise \/ TooEarly \/ Finish
           /\ UNCHANGED <<queueVars, clientVars, overflowFlag>>
  <2>1. UNCHANGED <<setting, client, recoveryNr, fifo, attemptError>>
    BY <1>5 DEF GiveUp, Finalise, TooEarly, Finish, clientVars, stateVars, lossVars,
       queueVars
  <2>2. \/ /\ writer = "recover"
           /\ writer' \in {"stop", "check", "recover"} /\ msg' = NoMessage
        \/ writer' = writer /\ msg' = msg /\ writer = "recover"
        \/ writer = "trailer" /\ writer' = "gone" /\ msg' = msg
    BY <1>5 DEF GiveUp, Finalise, TooEarly, Finish
  <2> QED BY <1>1, <2>1, <2>2 DEF LeavingInv, AttemptsBounded, Ended
<1> QED BY <1>2, <1>3, <1>4, <1>5, StepCases

(***************************************************************************)
(* max_recovery_attempts bounds the attempts in a row: the consumer stops  *)
(* when they are used up, unless the last one failed with EAGAIN; and when *)
(* the client is done nothing is left but the packet of the last attempt.  *)
(***************************************************************************)
THEOREM FifoGivesUp == Spec => []GivesUpClean
<1>1. Init => LeavingInv
  BY SettingFacts DEF Init, Queue!Init, LeavingInv, AttemptsBounded, Ended
<1>2. TypesInv /\ TypesInv' /\ LeavingInv /\ [Next]_vars => LeavingInv'
  BY StepLeaves
<1>3. TypesInv /\ LeavingInv => GivesUpClean
  <2> SUFFICES ASSUME TypesInv, LeavingInv PROVE NothingLeft
    BY DEF LeavingInv, GivesUpClean
  <2>1. writer = "none" => msg \notin Messages
    BY DEF TypesInv, MessageInv, Header, Messages
  <2> QED BY <2>1 DEF LeavingInv, NothingLeft, Ended
<1> QED BY <1>1, <1>2, <1>3, FifoInvariant, PTL DEF Spec

-----------------------------------------------------------------------------
(* No packet is lost while the client is made to wait *)

In(m, s) == \E i \in DOMAIN s : s[i] = m

Written(m) == In(m, output)

\* The message is on its way to the real muxer.
Held(m) == m = msg \/ In(m, fifo) \/ (client = "sending" /\ m = sent)

\* Only the client that finishes closes the queue for the consumer, and only
\* a consumer that has ended closes it for the client.
ClosingInv ==
  /\ writer = "none" => sent = 0 /\ client \in {"init", "deinit", "freed"}
  /\ client = "deinit" => writer \in {"none", "gone"}
  /\ errRecv # NoError => client \in {"joining", "deinit", "freed"}
  /\ errSend # NoError => writer \in {"trailer", "gone"}
  /\ result = EOF => /\ Ended /\ fifo = <<>> /\ msg = NoMessage
                     /\ client \in {"joining", "deinit", "freed"}

\* The consumer goes on to no other message, or repeats a call for ever.
Halted == Ended \/ (Spins /\ msg = NoMessage)

\* Without drop_pkts_on_overflow nothing is dropped.
BlockingInv ==
  ~setting.drop =>
    /\ overflowFlag = FALSE /\ client # "overflow" /\ dropUntilKeyframe = FALSE
    /\ ~Halted \/ result = EOF => \A m \in Packets : Written(m) \/ Held(m)
    /\ \A m \in Packets, i \in DOMAIN output : m < output[i] => Written(m)
    /\ \A i \in DOMAIN output : output[i] \in Packets

(* What is appended is in a sequence, and what was. *)
LEMMA InAppended ==
  ASSUME NEW s \in Seq(Messages), NEW m \in Messages
  PROVE  In(m, Append(s, m)) /\ \A x : In(x, s) => In(x, Append(s, m))
<1> DEFINE t == Append(s, m)
<1>1. /\ Len(s) \in Nat /\ DOMAIN s = 1 .. Len(s) /\ DOMAIN t = 1 .. Len(s) + 1
      /\ t[Len(s) + 1] = m /\ \A i \in 1 .. Len(s) : t[i] = s[i]
  BY AppendProperties, LenProperties
<1> HIDE DEF t
<1>2. Len(s) + 1 \in DOMAIN t /\ DOMAIN s \subseteq DOMAIN t
  BY <1>1
<1>3. In(m, t) /\ \A x : In(x, s) => In(x, t)
  BY <1>1, <1>2 DEF In
<1> QED BY <1>3 DEF t

(* What the steps of the client do to the ends of the queue. *)
LEMMA OthersClose ==
  ASSUME TypesInv, ClosingInv, Others
  PROVE  /\ errSend' = errSend
         /\ errRecv' = errRecv \/ client' = "joining"
         /\ client \in {"joining", "deinit", "freed"} =>
              /\ client' \in {"joining", "deinit", "freed"}
              /\ fifo' = fifo \/ fifo' = <<>>
         /\ writer' = "none" =>
              sent' = sent /\ client' \in {"init", "deinit", "freed"}
         /\ client' = "deinit" => writer' \in {"none", "gone"}
<1> USE DEF queueVars, clientVars, Queue!queueVars
<1>0. writer' = writer \/ (client = "init" /\ client' = "idle")
  BY OthersLeave
<1>1. CASE Start \/ Overflow \/ Join
  BY <1>1 DEF Start, Overflow, Join, ClosingInv, TypesInv, MessageInv, writerVars
<1>2. CASE InSend
  BY <1>2, SendEffect DEF InSend, TypesInv, Types, writerVars, ClosingInv
<1>3. CASE Deinit \/ WriteTrailer
  BY <1>3 DEF Deinit, WriteTrailer, Queue!Flush, Queue!SetErrRecv, writerVars,
     ClosingInv
<1>4. CASE \E k \in Kinds : Write(k)
  BY <1>4 DEF Write, Queue!Send, writerVars, ClosingInv
<1>5. CASE SpuriousWakeup \/ UNCHANGED vars
  BY <1>5 DEF SpuriousWakeup, Queue!SpuriousWakeup, vars, writerVars, ClosingInv
<1> QED BY <1>1, <1>2, <1>3, <1>4, <1>5 DEF Others, ClientStep

(* The ends of the queue are closed by those who may. *)
LEMMA StepCloses ==
  ASSUME TypesInv, ClosingInv, [Next]_vars
  PROVE  ClosingInv'
<1>1. /\ client = "init" => writer = "none"
      /\ EOF \notin Failures /\ EOF # NoError
      /\ writer \in {"check", "receive", "receiving"} => msg = NoMessage
  BY FifoAssumption DEF TypesInv, MessageInv
<1>2. CASE Others
  <2>1. writer' = writer \/ (writer = "none" /\ writer' = "dispatch" /\ client = "init")
    BY <1>1, <1>2, OthersLeave
  <2>2. UNCHANGED <<msg, result>>
    BY <1>2, OthersLeave
  <2> QED BY <1>2, <2>1, <2>2, OthersClose DEF ClosingInv, Ended
<1>3. CASE CheckOverflow \/ Receive
  <2>1. /\ UNCHANGED <<client, msg, result, errSend, errRecv>>
        /\ writer \in {"check", "receive"} /\ writer' \in {"receive", "receiving"}
    BY <1>3 DEF CheckOverflow, Receive, clientVars, Queue!Flush, Queue!Recv,
       Queue!queueVars, queueVars
  <2> QED BY <2>1 DEF ClosingInv, Ended
<1>4. CASE InReceive
  <2>1. UNCHANGED <<client, errSend, errRecv>> /\ writer = "receiving"
    BY <1>4, RecvEffect DEF InReceive, clientVars, TypesInv, Types, Calls
  <2>2. CASE pc'[Consumer] # "idle"
    <3>1. UNCHANGED <<writer, msg, result>>
      BY <1>4, <2>2 DEF InReceive
    <3> QED BY <2>1, <3>1 DEF ClosingInv, Ended
  <2>3. CASE pc'[Consumer] = "idle"
    BY <1>1, <1>4, <2>1, <2>3, ReceivedEffect DEF ClosingInv, Ended
  <2> QED BY <2>2, <2>3
<1>5. CASE Stop
  <2>1. UNCHANGED <<client, msg, result, fifo, errRecv>>
        /\ writer = "stop" /\ writer' = "trailer"
    BY <1>5 DEF Stop, clientVars, Queue!SetErrSend
  <2> QED BY <2>1 DEF ClosingInv, Ended
<1>6. CASE /\ Dispatch \/ Attempt
           /\ UNCHANGED <<queueVars, clientVars, overflowFlag>>
  <2>1. PICK dropping \in BOOLEAN, r \in Failures \cup {NoError} : Outcome(dropping, r)
    BY <1>6, HasOutcome
  <2>2. /\ writer \in {"dispatch", "recover"} /\ result' \in {result, r}
        /\ writer' \in {"check", "recover", "stop"}
    BY <2>1 DEF Outcome, Recovered, Failed, TryLater
  <2>3. result # EOF /\ r # EOF
    BY <1>1, <2>2 DEF ClosingInv, Ended
  <2>4. UNCHANGED <<client, sent, errSend, errRecv, fifo>>
    BY <1>6 DEF queueVars, clientVars
  <2> QED BY <2>2, <2>3, <2>4 DEF ClosingInv
<1>7. CASE /\ GiveUp \/ Finalise \/ TooEarly \/ Finish
           /\ UNCHANGED <<queueVars, clientVars, overflowFlag>>
  <2>1. UNCHANGED <<client, sent, result, errSend, errRecv, fifo>>
    BY <1>7 DEF GiveUp, Finalise, TooEarly, Finish, clientVars, queueVars
  <2>2. \/ writer = "recover" /\ writer' \in {"recover", "stop", "check"}
        \/ writer = "trailer" /\ writer' = "gone" /\ msg' = msg
    BY <1>7 DEF GiveUp, Finalise, TooEarly, Finish
  <2> QED BY <2>1, <2>2 DEF ClosingInv, Ended
<1> QED BY <1>2, <1>3, <1>4, <1>5, <1>6, <1>7, StepCases

(* Nothing is sent twice or lost by the client while it is made to wait. *)
LEMMA OthersBlock ==
  ASSUME TypesInv, TypesInv', OrderInv, ClosingInv, BlockingInv, Others
  PROVE  BlockingInv'
<1> SUFFICES ASSUME ~setting'.drop PROVE BlockingInv'
  BY DEF BlockingInv
<1>1. /\ UNCHANGED <<setting, msg, result, dropUntilKeyframe, output>>
      /\ Halted' <=> Halted
  BY OthersLeave DEF Ended, Halted, Spins, TypesInv, MessageInv
<1>2. /\ overflowFlag = FALSE /\ client # "overflow" /\ dropUntilKeyframe = FALSE
      /\ ~Halted \/ result = EOF => \A m \in Packets : Written(m) \/ Held(m)
      /\ \A m \in Packets, i \in DOMAIN output : m < output[i] => Written(m)
      /\ \A i \in DOMAIN output : output[i] \in Packets
  BY <1>1 DEF BlockingInv
<1>3. ASSUME NEW m PROVE Written(m)' <=> Written(m)
  BY <1>1 DEF Written
<1>4. ASSUME Packets' = Packets,
             overflowFlag' = FALSE, client' # "overflow",
             ~Halted \/ result = EOF =>
               \A m \in Packets : Held(m) => \/ m = msg \/ In(m, fifo')
                                             \/ client' = "sending" /\ m = sent'
      PROVE  BlockingInv'
  BY <1>1, <1>2, <1>3, <1>4 DEF BlockingInv, Held, Written
<1>5. CASE Start \/ Overflow \/ Join \/ Deinit \/ WriteTrailer \/ SpuriousWakeup
           \/ UNCHANGED vars
  <2>1. Packets' = Packets /\ overflowFlag' = FALSE
    BY <1>2, <1>5 DEF Start, Overflow, Join, Deinit, WriteTrailer, SpuriousWakeup,
       vars, clientVars, Packets
  <2>2. client' # "overflow" /\ (client' = client \/ client # "sending")
    BY <1>2, <1>5 DEF Start, Overflow, Join, Deinit, WriteTrailer, SpuriousWakeup,
       vars, clientVars
  <2>3. sent' = sent
    BY <1>5 DEF Start, Overflow, Join, Deinit, WriteTrailer, SpuriousWakeup,
       vars, clientVars
  <2>4. CASE fifo' = fifo
    BY <1>4, <2>1, <2>2, <2>3, <2>4 DEF Held
  <2>5. CASE Deinit
    <3>1. writer = "none" => Packets = {}
      BY DEF ClosingInv, Packets
    <3>2. Ended /\ result = EOF => fifo = <<>>
      BY DEF ClosingInv
    <3>3. fifo = <<>> \/ writer = "none" \/ (Halted /\ result # EOF)
      BY <2>5, <3>2 DEF Deinit, ClosingInv, Ended, Halted
    <3>4. \A m : fifo = <<>> => ~In(m, fifo)
      BY DEF In
    <3>5. client # "sending"
      BY <2>5 DEF Deinit
    <3> QED BY <1>4, <2>1, <2>2, <2>3, <3>1, <3>3, <3>4, <3>5 DEF Held
  <2> QED BY <1>5, <2>4, <2>5 DEF Start, Overflow, Join, WriteTrailer,
        SpuriousWakeup, vars, queueVars, Queue!SetErrRecv, Queue!SpuriousWakeup,
        Queue!queueVars
<1>6. ASSUME NEW k \in Kinds, Write(k) PROVE BlockingInv'
  <2>1. /\ fifo' = fifo /\ sent' = sent + 1 /\ client' = "sending" /\ client = "idle"
        /\ overflowFlag' = overflowFlag /\ kind' = [kind EXCEPT ![sent + 1] = k]
    BY <1>6 DEF Write, Queue!Send, Queue!queueVars
  <2>2. sent \in Nat /\ kind \in [Messages -> AllKinds] /\ sent' \in Messages
    BY <1>6, FifoAssumption DEF TypesInv, Types, ClientTypes, Write, Messages
  <2>3. /\ \A m \in Packets' : m \in Packets \/ m = sent'
        /\ Packets \subseteq Packets'
    BY <2>1, <2>2 DEF Packets, Messages
  <2>4. \A i \in DOMAIN output : output[i] < sent'
    BY <2>1, <2>2, OrderFacts DEF OrderInv, Offered, Messages
  <2>5. ASSUME NEW m \in Packets PROVE Held(m) => Held(m)'
    BY <1>1, <2>1 DEF Held
  <2>6. ASSUME NEW m, m = sent' PROVE Held(m)'
    BY <2>1, <2>6 DEF Held
  <2>7. ASSUME NEW m \in Packets', NEW i \in DOMAIN output, m < output[i]
        PROVE  Written(m)
    <3>1. output[i] \in Nat
      BY OrderFacts DEF Messages
    <3>2. m # sent'
      BY <2>2, <2>4, <2>7, <3>1 DEF Messages
    <3> QED BY <1>2, <2>3, <2>7, <3>2
  <2>8. ~Halted \/ result = EOF => \A m \in Packets' : Written(m) \/ Held(m)'
    BY <1>2, <2>3, <2>5, <2>6 DEF Written
  <2> QED BY <1>1, <1>2, <1>3, <2>1, <2>3, <2>7, <2>8 DEF BlockingInv
<1>7. CASE InSend
  <2>1. /\ Packets' = Packets /\ sent' = sent /\ overflowFlag' = FALSE
        /\ client = "sending"
    BY <1>2, <1>7 DEF InSend, Packets
  <2>2. CASE client' = "sending" /\ fifo' = fifo
    BY <1>4, <2>1, <2>2 DEF Held
  <2>3. CASE client' = "idle" /\ fifo' = Append(fifo, sent)
    <3>1. In(sent, fifo') /\ \A m : In(m, fifo) => In(m, fifo')
      <4>1. sent \in Messages /\ fifo \in Seq(Messages)
        BY <2>1, OrderFacts DEF TypesInv, Types, Calls
      <4> QED BY <2>3, <4>1, InAppended
    <3> QED BY <1>4, <2>1, <2>3, <3>1 DEF Held
  <2>4. CASE client' = "idle" /\ fifo' = fifo /\ errSend # NoError
    <3>1. Halted /\ result # EOF
      BY <2>1, <2>4 DEF ClosingInv, Ended, Halted
    <3> QED BY <1>4, <2>1, <2>4, <3>1
  <2>5. nonblock[Client] # TRUE
    BY <1>1 DEF TypesInv, Types, Calls
  <2>6. \/ pc'[Client] = "send" /\ fifo' = fifo
        \/ pc'[Client] = "idle" /\ fifo' = Append(fifo, sent) /\ ret'[Client] = NoError
        \/ /\ pc'[Client] = "idle" /\ fifo' = fifo
           /\ ret'[Client] = errSend /\ errSend # NoError
    BY <1>7, <2>1, <2>5, SendEffect DEF InSend, TypesInv, Types, Calls
  <2>7. errSend # EAGAIN
    BY ErrorFacts, FifoAssumption DEF TypesInv, Types, Queue!TypeOK, Failures
  <2>8. client' = IF pc'[Client] = "idle"
                  THEN IF ret'[Client] = EAGAIN THEN "overflow" ELSE "idle"
                  ELSE "sending"
    BY <1>7 DEF InSend
  <2> QED BY <2>2, <2>3, <2>4, <2>6, <2>7, <2>8, FifoAssumption DEF Failures
<1> QED BY <1>5, <1>6, <1>7 DEF Others, ClientStep

(* Nor does the consumer lose any when it receives or looks at the flag. *)
LEMMA QueueStepsBlock ==
  ASSUME TypesInv, OrderInv, ClosingInv, BlockingInv,
         CheckOverflow \/ Receive \/ InReceive \/ Stop
  PROVE  BlockingInv'
<1> SUFFICES ASSUME ~setting'.drop PROVE BlockingInv'
  BY DEF BlockingInv
<1>1. /\ UNCHANGED <<setting, client, sent, kind, output>> /\ Packets' = Packets
      /\ ~Halted \/ writer = "stop"
      /\ writer \in {"check", "receive", "receiving"} => msg = NoMessage
  BY QueueStepsLeave DEF clientVars, Packets, Ended, Halted, Spins, TypesInv, MessageInv
<1>2. /\ overflowFlag = FALSE /\ client # "overflow" /\ dropUntilKeyframe = FALSE
      /\ ~Halted \/ result = EOF => \A m \in Packets : Written(m) \/ Held(m)
      /\ \A m \in Packets, i \in DOMAIN output : m < output[i] => Written(m)
      /\ \A i \in DOMAIN output : output[i] \in Packets
  BY <1>1 DEF BlockingInv
<1>3. overflowFlag' = FALSE /\ dropUntilKeyframe' = FALSE
  BY <1>2 DEF CheckOverflow, Receive, InReceive, Stop, stateVars
<1>4. \A m : Written(m)' <=> Written(m)
  BY <1>1 DEF Written
<1>5. ASSUME ~Halted' \/ result' = EOF =>
               /\ ~Halted \/ result = EOF
               /\ \A m \in Packets : m = msg \/ In(m, fifo) => m = msg' \/ In(m, fifo')
      PROVE  BlockingInv'
  BY <1>1, <1>2, <1>3, <1>4, <1>5 DEF BlockingInv, Held
<1>6. CASE CheckOverflow \/ Receive \/ Stop
  <2>1. /\ fifo' = fifo /\ msg' = msg /\ result' = result
        /\ ~Halted' => ~Halted
    BY <1>2, <1>6 DEF CheckOverflow, Receive, Stop, Queue!Recv, Queue!SetErrSend,
       Queue!queueVars, queueVars, Ended, Halted, Spins
  <2> QED BY <1>5, <2>1
<1>7. CASE InReceive
  <2>1. ~Halted /\ msg = NoMessage
    BY <1>1, <1>7 DEF InReceive
  <2>2. CASE pc'[Consumer] # "idle"
    <3>1. fifo' = fifo /\ msg' = msg
      BY <1>7, <2>2, RecvEffect DEF InReceive, TypesInv, Types, Calls
    <3> QED BY <1>5, <2>1, <3>1
  <2>3. CASE fifo' = fifo /\ msg' = msg
    BY <1>5, <2>1, <2>3
  <2>4. CASE fifo # <<>> /\ msg' = Head(fifo) /\ fifo' = Tail(fifo)
    <3>1. \A m \in Packets : In(m, fifo) => m = msg' \/ In(m, fifo')
      <4>1. /\ fifo \in Seq(Messages) /\ Len(fifo) \in Nat /\ DOMAIN fifo = 1 .. Len(fifo)
            /\ DOMAIN Tail(fifo) = 1 .. Len(fifo) - 1
            /\ \A j \in 1 .. Len(fifo) - 1 : Tail(fifo)[j] = fifo[j + 1]
            /\ Head(fifo) = fifo[1]
        BY <2>4, OrderFacts, HeadTailProperties, LenProperties
      <4>2. ASSUME NEW m, NEW j \in DOMAIN fifo, fifo[j] = m, j # 1
            PROVE  In(m, Tail(fifo))
        <5>1. j - 1 \in DOMAIN Tail(fifo) /\ Tail(fifo)[j - 1] = m
          BY <4>1, <4>2
        <5> QED BY <5>1 DEF In
      <4> QED BY <2>4, <4>1, <4>2 DEF In
    <3>2. NoMessage \notin Packets
      BY FifoAssumption DEF Packets
    <3> QED BY <1>5, <2>1, <3>1, <3>2
  <2> QED BY <1>7, <2>2, <2>3, <2>4, ReceivedEffect
<1> QED BY <1>6, <1>7

(* Nor when it writes, fails and recovers. *)
LEMMA OwnStepsBlock ==
  ASSUME TypesInv, OrderInv, ClosingInv, BlockingInv,
         UNCHANGED <<queueVars, clientVars, overflowFlag>>,
         Dispatch \/ Attempt \/ GiveUp \/ Finalise \/ TooEarly \/ Finish
  PROVE  BlockingInv'
<1> SUFFICES ASSUME ~setting'.drop PROVE BlockingInv'
  BY DEF BlockingInv
<1>1. /\ UNCHANGED <<setting, client, sent, kind, fifo, overflowFlag>>
      /\ Packets' = Packets
  BY DEF clientVars, queueVars, Packets
<1>2. /\ overflowFlag = FALSE /\ client # "overflow" /\ dropUntilKeyframe = FALSE
      /\ ~Halted \/ result = EOF => \A m \in Packets : Written(m) \/ Held(m)
      /\ \A m \in Packets, i \in DOMAIN output : m < output[i] => Written(m)
      /\ \A i \in DOMAIN output : output[i] \in Packets
  BY <1>1 DEF BlockingInv
<1>3. CASE GiveUp \/ Finalise \/ TooEarly \/ Finish
  <2>1. output' = output /\ result' = result /\ dropUntilKeyframe' = dropUntilKeyframe
    BY <1>3 DEF GiveUp, Finalise, TooEarly, Finish, stateVars, muxerVars
  <2>2. CASE GiveUp
    <3>1. Ended' \/ (Spins' /\ msg' = NoMessage)
      BY <1>1, <2>1, <2>2, ErrorFacts, SettingFacts
         DEF GiveUp, Ended, Spins, TypesInv, Types, ClientTypes
    <3>2. Halted' /\ result' # EOF
      BY <2>1, <2>2, <3>1 DEF GiveUp, Ended, Halted, ClosingInv
    <3> QED BY <1>1, <1>2, <2>1, <3>2 DEF BlockingInv, Written
  <2>3. CASE Finalise \/ Finish
    <3>1. msg' = msg /\ (Halted' <=> Halted)
      BY <1>1, <2>1, <2>3 DEF Finalise, Finish, Ended, Halted, Spins, Recoverable
    <3> QED BY <1>1, <1>2, <2>1, <3>1 DEF BlockingInv, Written, Held
  <2>4. ~TooEarly
    BY <1>1 DEF TooEarly
  <2> QED BY <1>3, <2>2, <2>3, <2>4
<1>4. CASE Dispatch \/ Attempt
  <2>1. PICK dropping \in BOOLEAN, r \in Failures \cup {NoError} : Outcome(dropping, r)
    BY <1>4, HasOutcome
  <2>2. /\ dropping = FALSE /\ ~Halted
        /\ dropUntilKeyframe' = FALSE
        /\ msg # NoMessage
    BY <1>1, <1>2, <2>1 DEF Outcome, Kept, Given, Ended, Halted, Spins, TypesInv,
       Types, WriterTypes
  <2>3. /\ r = NoError => msg' = NoMessage
        /\ r # NoError => \/ msg' = msg
                          \/ Halted' /\ result' # EOF
    BY <1>1, <2>1, FifoAssumption
       DEF Outcome, Recovered, Failed, TryLater, Ended, Halted
  <2>4. IsPacket <=> msg \in Packets
    BY <2>2, PacketIsMessage, PacketsAreDispatched DEF TypesInv
  <2>5. CASE output' = output
    <3>1. \A m : Written(m)' <=> Written(m)
      BY <2>5 DEF Written
    <3>2. r = NoError => msg \notin Packets
      BY <2>1, <2>2, <2>4, <2>5 DEF Outcome, Kept, Given
    <3> QED BY <1>1, <1>2, <2>2, <2>3, <2>5, <3>1, <3>2 DEF BlockingInv, Held
  <2>6. CASE r = NoError /\ output' = Append(output, msg) /\ IsPacket
    <3>1. msg \in Messages /\ output \in Seq(Messages)
      BY <2>2, <2>6, PacketIsMessage, OrderFacts DEF TypesInv
    <3>2. /\ In(msg, output') /\ \A m : In(m, output) => In(m, output')
          /\ \A i \in DOMAIN output' :
               \/ i \in DOMAIN output /\ output'[i] = output[i]
               \/ output'[i] = msg
      BY <2>2, <2>6, <3>1, InAppended, AppendedLast DEF OrderInv
    <3>3. ASSUME NEW m \in Packets, m < msg PROVE In(m, output)
      <4>1. /\ \A j \in DOMAIN fifo : msg < fifo[j] /\ fifo[j] \in Int
            /\ m \in Int /\ msg \in Int
            /\ client = "sending" => msg < sent /\ sent \in Int
        BY <2>2, <3>1, OrderFacts DEF OrderInv, Offered, Packets, Messages
      <4>2. ~Held(m)
        BY <3>3, <4>1 DEF Held, In
      <4> QED BY <1>2, <2>2, <4>2 DEF Written
    <3>4. \A m \in Packets, i \in DOMAIN output' : m < output'[i] => In(m, output')
      BY <1>2, <3>2, <3>3 DEF Written
    <3>5. \A m \in Packets : In(m, output') \/ Held(m)'
      BY <1>1, <1>2, <2>2, <3>2 DEF Held, Written
    <3>6. \A i \in DOMAIN output' : output'[i] \in Packets
      BY <1>2, <2>4, <2>6, <3>2
    <3> QED BY <1>1, <1>2, <2>2, <3>4, <3>5, <3>6 DEF BlockingInv, Written
  <2> QED BY <2>1, <2>5, <2>6 DEF Outcome, Kept, Given
<1> QED BY <1>3, <1>4

(* The invariant of the packets that wait. *)
LEMMA NothingDropped ==
  Spec => [](TypesInv /\ OrderInv /\ ClosingInv /\ BlockingInv)
<1>1. Init => ClosingInv /\ BlockingInv
  <2> SUFFICES ASSUME Init PROVE ClosingInv /\ BlockingInv
    OBVIOUS
  <2>1. ClosingInv
    BY FifoAssumption DEF Init, Queue!Init, ClosingInv
  <2>2. Packets = {} /\ output = <<>> /\ overflowFlag = FALSE
        /\ client = "init" /\ dropUntilKeyframe = FALSE
    BY DEF Init, Packets
  <2> QED BY <2>1, <2>2 DEF BlockingInv
<1>2. ASSUME TypesInv, OrderInv, ClosingInv, BlockingInv, [Next]_vars
      PROVE  ClosingInv' /\ BlockingInv'
  BY <1>2, StepCases, StepTypes, StepCloses, OthersBlock, QueueStepsBlock, OwnStepsBlock
<1> QED BY <1>1, <1>2, FifoInvariant, PTL DEF Spec

(***************************************************************************)
(* Through every failure and recovery the real muxer gets each packet      *)
(* once and in the order of the client; and without drop_pkts_on_overflow  *)
(* it has got all of them when the consumer ends with the queue.           *)
(***************************************************************************)
THEOREM FifoEachOnce == Spec => []EachOnce
<1>1. ASSUME TypesInv, OrderInv, ClosingInv, BlockingInv PROVE EachOnce
  <2>1. InOrder
    <3>1. output \in Seq(Messages)
      BY <1>1, OrderFacts
    <3>2. \A i \in 1 .. Len(output) - 1 : i \in DOMAIN output /\ i + 1 \in DOMAIN output
      BY <3>1, LenProperties
    <3> QED BY <1>1, <3>2 DEF InOrder, OrderInv, Increasing
  <2>2. NoneLost
    <3> SUFFICES ASSUME ~setting.drop, result = EOF
                 PROVE  {output[i] : i \in DOMAIN output} = Packets
      BY DEF NoneLost
    <3>1. \A m \in Packets : ~Held(m)
      BY <1>1, FifoAssumption DEF ClosingInv, Held, In, Packets
    <3>2. /\ \A m \in Packets : Written(m)
          /\ \A i \in DOMAIN output : output[i] \in Packets
      BY <1>1, <3>1 DEF BlockingInv
    <3> QED BY <3>2 DEF Written, In
  <2> QED BY <2>1, <2>2 DEF EachOnce
<1> QED BY <1>1, NothingDropped, PTL

-----------------------------------------------------------------------------
(* What follows a gap *)

\* A packet that was dropped, refused or flushed, after all that were written.
Lost(m) == ~Held(m) /\ \A i \in DOMAIN output : output[i] < m

\* The consumer has yet to get past something earlier.
Ahead(m) == (msg # NoMessage /\ msg < m) \/ \E j \in DOMAIN fifo : fifo[j] < m

\* The consumer will wait for a key frame, stop, or give up the packet it has; with a
\* message that is none it goes on, when it failed with EAGAIN without recovery.
Recovering ==
  \/ recoveryNr > 0
  \/ writer = "recover" /\ (setting.attempt \/ result # EAGAIN \/ msg \in Packets)

\* A packet was given up for EAGAIN, after all that were written.
Forsaken == \E m \in forsaken \cap Packets : \A i \in DOMAIN output : output[i] < m

\* What was given up is earlier than all the consumer still has to do.
ForsakenInv ==
  /\ forsaken # {} => setting.drop /\ ~setting.attempt
  /\ \A m \in forsaken :
       /\ m <= Offered
       /\ msg # NoMessage => m < msg
       /\ \A j \in DOMAIN fifo : m < fifo[j]

Refused(m) == overflowFlag \/ (client = "overflow" /\ m = sent)

\* Only a refusal makes a gap behind what the consumer still has to do.
AheadInv ==
  setting.drop /\ ~Ended =>
    \A m \in Packets : ~Held(m) /\ Ahead(m) => Refused(m)

\* Something sees to it that a key frame is waited for after a gap, unless a packet
\* in it was given up.
GapInv ==
  setting.keyframe /\ setting.drop /\ ~Ended =>
    \A m \in Packets :
      Lost(m) => dropUntilKeyframe \/ Recovering \/ Refused(m) \/ Forsaken

\* When a stray was written the next packet is not.
StrayInv ==
  setting.keyframe =>
    \A i \in 2 .. Len(output) :
      i = Len(output) /\ Stray(i) /\ ~Unwaited(i) =>
        \/ dropUntilKeyframe \/ Recovering \/ Ended \/ Forsaken
        \/ overflowFlag /\ writer = "check"

\* The first part of OneStray.
KeyAfterStray ==
  setting.keyframe =>
    \A i \in 2 .. Len(output) - 1 :
      Stray(i) /\ ~Unwaited(i) => kind[output[i + 1]] = "key" \/ Unwaited(i + 1)

(* A step that takes nothing back keeps what was given up in the past. *)
LEMMA ForsakenKept ==
  ASSUME TypesInv, TypesInv', ForsakenInv, UNCHANGED <<setting, forsaken>>,
         msg' \in {msg, NoMessage}, fifo' = fifo \/ fifo' = <<>>, Offered' >= Offered
  PROVE  ForsakenInv'
<1>1. fifo' = <<>> => DOMAIN fifo' = {}
  OBVIOUS
<1>2. \A m \in forsaken : m \in Int
  BY DEF TypesInv, Types, WriterTypes, ClientTypes
<1>3. Offered \in Int /\ Offered' \in Int
  BY DEF TypesInv, Types, ClientTypes, Offered
<1> HIDE DEF Offered
<1> QED BY <1>1, <1>2, <1>3 DEF ForsakenInv

(* The client goes on behind what was given up. *)
LEMMA OthersForsake ==
  ASSUME TypesInv, TypesInv', ForsakenInv, Others
  PROVE  ForsakenInv'
<1>1. UNCHANGED <<setting, msg, forsaken>> /\ sent \in Nat
  BY OthersLeave DEF TypesInv, Types, ClientTypes
<1>2. CASE Start \/ Overflow \/ Join \/ Deinit \/ WriteTrailer \/ SpuriousWakeup
           \/ UNCHANGED vars
  <2>1. (fifo' = fifo \/ fifo' = <<>>) /\ Offered' >= Offered
    BY <1>1, <1>2 DEF Start, Overflow, Join, Deinit, WriteTrailer, SpuriousWakeup, vars,
       clientVars, Offered, queueVars, Queue!Flush, Queue!SetErrRecv,
       Queue!SpuriousWakeup, Queue!queueVars
  <2> QED BY <1>1, <2>1, ForsakenKept
<1>3. ASSUME NEW k \in Kinds, Write(k) PROVE ForsakenInv'
  <2>1. fifo' = fifo /\ Offered' = Offered
    BY <1>1, <1>3 DEF Write, Offered, Queue!Send, Queue!queueVars
  <2>2. Offered \in Int
    BY <1>1 DEF Offered
  <2> QED BY <1>1, <2>1, <2>2, ForsakenKept
<1>4. CASE InSend
  <2>1. sent' = sent /\ client = "sending" /\ Offered = sent - 1 /\ Offered' \in Int
    BY <1>1, <1>4 DEF InSend, Offered
  <2>2. CASE fifo' = fifo
    <3>1. Offered' >= Offered
      BY <1>1, <2>1 DEF Offered
    <3> QED BY <1>1, <2>2, <3>1, ForsakenKept
  <2>3. CASE fifo' = Append(fifo, sent) /\ client' = "idle"
    <3>1. /\ fifo \in Seq(Messages) /\ Len(fifo) \in Nat /\ DOMAIN fifo = 1 .. Len(fifo)
          /\ sent \in Messages
      BY <2>1, OrderFacts, LenProperties DEF TypesInv, Types, Calls
    <3>2. /\ DOMAIN fifo' = 1 .. Len(fifo) + 1 /\ fifo'[Len(fifo) + 1] = sent
          /\ \A j \in 1 .. Len(fifo) : fifo'[j] = fifo[j]
      BY <2>3, <3>1, AppendProperties
    <3>3. \A j \in DOMAIN fifo' : fifo'[j] = sent \/ (j \in DOMAIN fifo /\ fifo'[j] = fifo[j])
      BY <3>1, <3>2
    <3>4. Offered' = sent
      BY <2>1, <2>3 DEF Offered
    <3>5. \A m \in forsaken : m \in Nat
      BY DEF TypesInv, Types, WriterTypes, ClientTypes
    <3> QED BY <1>1, <2>1, <3>3, <3>4, <3>5 DEF ForsakenInv
  <2> QED BY <2>2, <2>3, <1>4, SendEffect, FifoAssumption
          DEF InSend, TypesInv, Types, Calls, Failures
<1> QED BY <1>2, <1>3, <1>4 DEF Others, ClientStep

(* The consumer gives up only what is next, without recovery. *)
LEMMA StepForsakes ==
  ASSUME TypesInv, TypesInv', OrderInv, ForsakenInv, [Next]_vars
  PROVE  ForsakenInv'
<1>1. Offered \in Int /\ \A m \in forsaken : m \in Int
  BY DEF TypesInv, Types, WriterTypes, ClientTypes, Offered
<1>2. CASE Others
  BY <1>2, OthersForsake
<1>3. CASE CheckOverflow \/ Receive \/ Stop
  <2>1. UNCHANGED <<setting, forsaken, msg>> /\ Offered' = Offered
    BY <1>3, QueueStepsLeave DEF CheckOverflow, Receive, Stop, clientVars, Offered
  <2>2. fifo' = fifo \/ fifo' = <<>>
    BY <1>3 DEF CheckOverflow, Receive, Stop, Queue!Flush, Queue!Recv, Queue!SetErrSend,
       Queue!queueVars, queueVars
  <2> QED BY <1>1, <2>1, <2>2, ForsakenKept
<1>4. CASE InReceive
  <2>1. UNCHANGED <<setting, forsaken>> /\ Offered' = Offered
    BY <1>4, QueueStepsLeave DEF clientVars, Offered
  <2>2. CASE pc'[Consumer] # "idle"
    <3>1. fifo' = fifo /\ msg' = msg
      BY <1>4, <2>2, RecvEffect DEF InReceive, TypesInv, Types, Calls
    <3> QED BY <1>1, <2>1, <3>1, ForsakenKept
  <2>3. CASE fifo' = fifo /\ msg' = msg
    BY <1>1, <2>1, <2>3, ForsakenKept
  <2>4. CASE fifo # <<>> /\ msg' = Head(fifo) /\ fifo' = Tail(fifo)
    <3>1. /\ 1 \in DOMAIN fifo /\ msg' = fifo[1]
          /\ \A j \in DOMAIN fifo' : j + 1 \in DOMAIN fifo /\ fifo'[j] = fifo[j + 1]
      BY <2>4, OrderFacts, FirstTaken DEF OrderInv
    <3> QED BY <2>1, <3>1 DEF ForsakenInv
  <2> QED BY <1>4, <2>2, <2>3, <2>4, ReceivedEffect
<1>5. CASE /\ Dispatch \/ Attempt \/ Finalise \/ TooEarly \/ Finish
           /\ UNCHANGED <<queueVars, clientVars, overflowFlag>>
  <2>1. UNCHANGED <<setting, fifo>> /\ Offered' = Offered
    BY <1>5 DEF clientVars, queueVars, Offered
  <2>2. forsaken' = forsaken
    BY <1>5 DEF Dispatch, Attempt, Finalise, TooEarly, Finish, lossVars
  <2>3. msg' \in {msg, NoMessage}
    BY <1>5 DEF Dispatch, Attempt, Finalise, TooEarly, Finish, Recovered, Failed, TryLater
  <2> QED BY <1>1, <2>1, <2>2, <2>3, ForsakenKept
<1>6. CASE GiveUp /\ UNCHANGED <<queueVars, clientVars, overflowFlag>>
  <2>1. UNCHANGED <<setting, fifo>> /\ Offered' = Offered /\ msg' = NoMessage
    BY <1>6 DEF GiveUp, clientVars, queueVars, Offered
  <2>2. CASE forsaken' = forsaken
    BY <1>1, <2>1, <2>2, ForsakenKept
  <2>3. CASE result = EAGAIN /\ setting.drop /\ forsaken' = forsaken \cup ({msg} \cap Messages)
    <3>1. ~setting.attempt
      BY <1>6, <2>3, ErrorFacts DEF GiveUp
    <3>2. ASSUME msg \in Messages PROVE msg <= Offered /\ \A j \in DOMAIN fifo : msg < fifo[j]
      BY <3>2, FifoAssumption DEF OrderInv, Messages
    <3> QED BY <2>1, <2>3, <3>1, <3>2 DEF ForsakenInv
  <2> QED BY <1>6, <2>2, <2>3 DEF GiveUp
<1> QED BY <1>2, <1>3, <1>4, <1>5, <1>6, StepCases

(* What is earlier than the message of the consumer is on its way no more. *)
LEMMA EarlierIsPast ==
  ASSUME TypesInv, OrderInv, msg # NoMessage, NEW m \in Packets, m < msg
  PROVE  ~Held(m)
<1>1. /\ \A j \in DOMAIN fifo : msg < fifo[j] /\ fifo[j] \in Int
      /\ m \in Int /\ msg \in Int
      /\ client = "sending" => msg < sent /\ sent \in Int
  BY OrderFacts DEF OrderInv, Offered, Packets, Messages
<1> QED BY <1>1 DEF Held, In

(* The last packet that was written is the greatest. *)
LEMMA LastIsGreatest ==
  ASSUME TypesInv, OrderInv, NEW n \in Nat, n = Len(output), n > 0
  PROVE  /\ DOMAIN output = 1 .. n /\ n \in DOMAIN output
         /\ \A i \in DOMAIN output : output[i] <= output[n]
         /\ \A i \in DOMAIN output : output[i] \in Nat
<1>1. DOMAIN output = 1 .. n /\ \A i \in DOMAIN output : output[i] \in Nat
  BY OrderFacts, LenProperties
<1>2. \A i \in 1 .. n : i < n \/ i = n
  OBVIOUS
<1> QED BY <1>1, <1>2 DEF OrderInv, Increasing

(* There are gaps only where packets may be dropped. *)
LEMMA GapsAreDropped ==
  ASSUME TypesInv, OrderInv, BlockingInv, NEW i \in 2 .. Len(output), Missing(i) # {}
  PROVE  setting.drop
<1> SUFFICES ASSUME ~setting.drop PROVE FALSE
  OBVIOUS
<1>1. /\ DOMAIN output = 1 .. Len(output) /\ Len(output) \in Nat
      /\ \A j \in DOMAIN output : output[j] \in Nat
  BY OrderFacts, LenProperties
<1>2. i \in DOMAIN output /\ i - 1 \in DOMAIN output
  BY <1>1
<1>3. PICK m \in Packets : output[i - 1] < m /\ m < output[i]
  BY DEF Missing
<1>4. PICK j \in DOMAIN output : output[j] = m
  BY <1>2, <1>3 DEF BlockingInv, Written, In
<1>5. /\ j < i - 1 => output[j] < output[i - 1]
      /\ i < j => output[i] < output[j]
  BY <1>2 DEF OrderInv, Increasing
<1>6. j < i - 1 \/ j = i - 1 \/ j = i \/ i < j
  BY <1>1
<1>7. m \in Nat /\ output[i] \in Nat /\ output[i - 1] \in Nat
  BY <1>1, <1>2, <1>4
<1> QED BY <1>3, <1>4, <1>5, <1>6, <1>7

(* A step that writes nothing makes no stray, and takes back nothing that    *)
(* was given up.                                                             *)
LEMMA StraysKept ==
  ASSUME TypesInv, OrderInv, output' = output, forsaken \subseteq forsaken',
         NEW i \in 2 .. Len(output),
         \/ UNCHANGED <<sent, kind>>
         \/ \E k \in AllKinds : /\ sent' = sent + 1
                                 /\ kind' = [kind EXCEPT ![sent'] = k]
  PROVE  (Stray(i)' => Stray(i)) /\ (Unwaited(i) => Unwaited(i)')
<1>1. CASE UNCHANGED <<sent, kind>>
  BY <1>1 DEF Stray, Unwaited, Missing, Packets
<1>2. ASSUME NEW k \in AllKinds, sent' = sent + 1, kind' = [kind EXCEPT ![sent'] = k]
      PROVE  (Stray(i)' => Stray(i)) /\ (Unwaited(i) => Unwaited(i)')
  <2>1. i \in DOMAIN output
    BY OrderFacts, LenProperties
  <2>2. output[i] \in Nat /\ output[i] <= sent /\ sent \in Nat
        /\ output[i] \in Messages
    BY <2>1, OrderFacts DEF OrderInv
  <2>3. kind \in [Messages -> AllKinds]
    BY DEF TypesInv, Types, ClientTypes
  <2>4. kind'[output[i]] = kind[output[i]]
    BY <1>2, <2>2, <2>3
  <2>5. \A m \in Packets' : m < output[i] => m \in Packets
    BY <1>2, <2>2, <2>3 DEF Packets
  <2>6. Packets \subseteq Packets'
    <3> SUFFICES ASSUME NEW m \in Packets PROVE m \in Packets'
      OBVIOUS
    <3>1. m \in 1 .. sent /\ kind[m] # "flush" /\ m # sent'
      BY <1>2, <2>2 DEF Packets
    <3>2. m \in Messages
      BY <3>1, FifoAssumption DEF Messages, TypesInv, Types, ClientTypes
    <3>3. kind'[m] = kind[m] /\ m \in 1 .. sent'
      BY <1>2, <2>2, <2>3, <3>1, <3>2
    <3> QED BY <3>1, <3>3 DEF Packets
  <2> QED BY <1>2, <2>4, <2>5, <2>6 DEF Stray, Unwaited, Missing
<1> QED BY <1>1, <1>2

(* What the steps of the client can lose. *)
LEMMA OthersLose ==
  ASSUME TypesInv, OrderInv, ClosingInv, Others, ~Ended',
         NEW m \in Packets', ~Held(m)'
  PROVE  \/ Refused(m)'
         \/ /\ m \in Packets /\ ~Held(m) /\ (Ahead(m)' => Ahead(m))
            /\ ~Refused(m)
<1> SUFFICES ASSUME ~Refused(m)'
             PROVE  m \in Packets /\ ~Held(m) /\ (Ahead(m)' => Ahead(m)) /\ ~Refused(m)
  OBVIOUS
<1>1. /\ msg' = msg /\ sent \in Nat
      /\ overflowFlag' = FALSE
      /\ ~(client' = "overflow" /\ m = sent')
  BY OthersLeave DEF Refused, TypesInv, Types, ClientTypes
<1>2. CASE Start \/ Join \/ WriteTrailer \/ SpuriousWakeup \/ UNCHANGED vars
  <2>1. /\ UNCHANGED <<fifo, sent, kind, overflowFlag>>
        /\ client' = client \/ (client \notin {"overflow", "sending"}
                                /\ client' # "sending")
    BY <1>2 DEF Start, Join, WriteTrailer, SpuriousWakeup, vars, queueVars, clientVars,
       Queue!SetErrRecv, Queue!SpuriousWakeup, Queue!queueVars
  <2> QED BY <1>1, <2>1 DEF Packets, Held, Ahead, Refused
<1>3. CASE Overflow
  BY <1>1, <1>3 DEF Overflow
<1>4. CASE Deinit
  <2>1. writer \in {"none", "gone"} /\ writer' = writer /\ sent' = sent
    BY <1>4 DEF Deinit, ClosingInv, writerVars
  <2>2. sent' = 0
    BY <2>1 DEF ClosingInv, Ended
  <2> QED BY <2>2 DEF Packets
<1>5. ASSUME NEW k \in Kinds, Write(k)
      PROVE  m \in Packets /\ ~Held(m) /\ (Ahead(m)' => Ahead(m)) /\ ~Refused(m)
  <2>1. /\ fifo' = fifo /\ sent' = sent + 1 /\ client' = "sending" /\ client = "idle"
        /\ overflowFlag' = overflowFlag /\ kind' = [kind EXCEPT ![sent + 1] = k]
    BY <1>5 DEF Write, Queue!Send, Queue!queueVars
  <2>2. m # sent'
    BY <2>1 DEF Held
  <2>3. m \in Packets
    BY <1>1, <2>1, <2>2 DEF Packets, TypesInv, Types, ClientTypes
  <2> QED BY <1>1, <2>1, <2>3 DEF Held, Ahead, Refused
<1>6. CASE InSend
  <2>1. /\ UNCHANGED <<sent, kind, overflowFlag>> /\ Packets' = Packets
        /\ client = "sending"
    BY <1>6 DEF InSend, Packets
  <2>2. ~Refused(m)
    BY <1>1, <2>1 DEF Refused
  <2>3. CASE client' = "sending" /\ fifo' = fifo
    BY <1>1, <2>1, <2>2, <2>3 DEF Held, Ahead
  <2>4. CASE client' = "idle" /\ fifo' = Append(fifo, sent)
    <3>1. sent \in Messages /\ fifo \in Seq(Messages)
      BY <2>1, OrderFacts DEF TypesInv, Types, Calls
    <3>2. In(sent, fifo') /\ \A x : In(x, fifo) => In(x, fifo')
      BY <2>4, <3>1, InAppended
    <3>3. ~Held(m)
      BY <1>1, <2>1, <3>2 DEF Held
    <3>4. ASSUME NEW j \in DOMAIN fifo', fifo'[j] < m PROVE \E x \in DOMAIN fifo : fifo[x] < m
      <4>1. /\ DOMAIN fifo = 1 .. Len(fifo) /\ Len(fifo) \in Nat
            /\ DOMAIN fifo' = 1 .. Len(fifo) + 1
            /\ fifo'[Len(fifo) + 1] = sent /\ \A x \in 1 .. Len(fifo) : fifo'[x] = fifo[x]
        BY <2>4, <3>1, AppendProperties, LenProperties
      <4>2. m \in Nat /\ m <= sent
        BY <1>1, <2>1 DEF Packets
      <4>3. j # Len(fifo) + 1
        BY <1>1, <3>4, <4>1, <4>2
      <4>4. j \in DOMAIN fifo /\ fifo'[j] = fifo[j]
        BY <4>1, <4>3
      <4> QED BY <3>4, <4>4
    <3> QED BY <1>1, <2>1, <2>2, <3>3, <3>4 DEF Ahead
  <2>5. CASE client' = "idle" /\ fifo' = fifo /\ errSend # NoError
    BY <1>6, <2>5 DEF ClosingInv, Ended, InSend, writerVars
  <2>6. CASE client' = "overflow" /\ fifo' = fifo
    <3>1. m # sent
      BY <1>1, <2>1, <2>6
    <3> QED BY <1>1, <2>1, <2>2, <2>6, <3>1 DEF Held, Ahead
  <2>7. \/ pc'[Client] = "send" /\ fifo' = fifo
        \/ pc'[Client] = "idle" /\ fifo' = Append(fifo, sent) /\ ret'[Client] = NoError
        \/ pc'[Client] = "idle" /\ fifo' = fifo /\ ret'[Client] = EAGAIN
        \/ /\ pc'[Client] = "idle" /\ fifo' = fifo
           /\ ret'[Client] = errSend /\ errSend # NoError
    BY <1>6, <2>1, SendEffect DEF InSend, TypesInv, Types, Calls
  <2>8. errSend # EAGAIN
    BY ErrorFacts, FifoAssumption DEF TypesInv, Types, Queue!TypeOK, Failures
  <2>9. client' = IF pc'[Client] = "idle"
                  THEN IF ret'[Client] = EAGAIN THEN "overflow" ELSE "idle"
                  ELSE "sending"
    BY <1>6 DEF InSend
  <2> QED BY <2>3, <2>4, <2>5, <2>6, <2>7, <2>8, <2>9, FifoAssumption DEF Failures
<1> QED BY <1>2, <1>3, <1>4, <1>5, <1>6 DEF Others, ClientStep

(* The client leaves what waits for a key frame alone. *)
LEMMA OthersWait ==
  ASSUME TypesInv, Others
  PROVE  /\ UNCHANGED <<setting, output, dropUntilKeyframe, forsaken>>
         /\ Recovering => Recovering'
         /\ Forsaken => Forsaken'
         /\ Ended' <=> Ended
         /\ writer = "check" => writer' = "check"
         /\ overflowFlag => overflowFlag'
<1>1. /\ UNCHANGED <<setting, output, dropUntilKeyframe, forsaken>>
      /\ UNCHANGED <<msg, result, recoveryNr>>
      /\ writer' = writer \/ (writer = "none" /\ writer' = "dispatch")
  BY OthersLeave DEF TypesInv, MessageInv
<1>2. overflowFlag => overflowFlag'
  BY DEF Others, ClientStep, Start, InSend, Overflow, Join, Deinit, Write,
     WriteTrailer, SpuriousWakeup, vars
<1>3. Packets \subseteq Packets' /\ setting' = setting
  <2>1. CASE UNCHANGED <<sent, kind>>
    BY <1>1, <2>1 DEF Packets
  <2>2. ASSUME NEW k \in Kinds, Write(k) PROVE Packets \subseteq Packets'
    <3>1. sent \in Nat /\ kind \in [Messages -> AllKinds] /\ sent <= MaxMessages
          /\ MaxMessages \in Nat
      BY FifoAssumption DEF TypesInv, Types, ClientTypes
    <3>2. sent' = sent + 1 /\ kind' = [kind EXCEPT ![sent + 1] = k]
      BY <2>2 DEF Write
    <3>3. \A m \in 1 .. sent : m \in 1 .. sent' /\ m # sent + 1 /\ m \in Messages
      BY <3>1, <3>2 DEF Messages
    <3> QED BY <3>1, <3>2, <3>3 DEF Packets
  <2> QED BY <1>1, <2>1, <2>2 DEF Others, ClientStep, Start, InSend, Overflow, Join,
        Deinit, WriteTrailer, SpuriousWakeup, vars, clientVars
<1>4. Recovering => Recovering'
  BY <1>1, <1>3 DEF Recovering
<1>5. Forsaken => Forsaken'
  BY <1>1, <1>3 DEF Forsaken
<1>6. (Ended' <=> Ended) /\ (writer = "check" => writer' = "check")
  BY <1>1 DEF Ended
<1> QED BY <1>1, <1>2, <1>4, <1>5, <1>6

(* What the client does about gaps. *)
LEMMA OthersGap ==
  ASSUME TypesInv, OrderInv, ClosingInv, AheadInv, GapInv, StrayInv, KeyAfterStray, Others
  PROVE  AheadInv' /\ GapInv' /\ StrayInv' /\ KeyAfterStray'
<1>1. AheadInv'
  BY OthersLose, OthersWait DEF AheadInv
<1>2. GapInv'
  <2> SUFFICES ASSUME setting.keyframe, setting.drop, ~Ended', NEW m \in Packets', Lost(m)'
               PROVE  dropUntilKeyframe' \/ Recovering' \/ Refused(m)' \/ Forsaken'
    BY OthersWait DEF GapInv
  <2>1. CASE m \in Packets /\ ~Held(m) /\ ~Refused(m)
    <3>1. Lost(m)
      BY <2>1, OthersWait DEF Lost
    <3> QED BY <2>1, <3>1, OthersWait DEF GapInv
  <2> QED BY <2>1, OthersLose DEF Lost
<1>3. ASSUME NEW i \in 2 .. Len(output)
      PROVE  (Stray(i)' => Stray(i)) /\ (Unwaited(i) => Unwaited(i)')
  <2>1. \/ UNCHANGED <<sent, kind>>
        \/ \E k \in AllKinds : sent' = sent + 1 /\ kind' = [kind EXCEPT ![sent'] = k]
    BY FifoAssumption DEF Others, ClientStep, Start, InSend, Overflow, Join, Deinit, Write,
       WriteTrailer, SpuriousWakeup, vars, clientVars
  <2> QED BY <2>1, OthersWait, StraysKept
<1>4. StrayInv'
  BY <1>3, OthersWait DEF StrayInv
<1>5. KeyAfterStray'
  <2> SUFFICES ASSUME setting.keyframe, NEW i \in 2 .. Len(output) - 1, Stray(i)',
                      ~Unwaited(i)', ~Unwaited(i + 1)'
               PROVE  kind'[output[i + 1]] = "key"
    BY OthersWait DEF KeyAfterStray
  <2>1. /\ Len(output) \in Nat /\ i \in 2 .. Len(output) /\ i + 1 \in 2 .. Len(output)
        /\ i + 1 \in DOMAIN output
    BY OrderFacts, LenProperties
  <2>2. kind[output[i + 1]] = "key"
    BY <1>3, <2>1 DEF KeyAfterStray
  <2>3. output[i + 1] \in Messages /\ output[i + 1] <= sent /\ sent \in Nat
    BY <2>1, OrderFacts DEF OrderInv, Messages
  <2>4. kind' = kind \/ \E k \in Kinds : kind' = [kind EXCEPT ![sent + 1] = k]
    BY DEF Others, ClientStep, Start, InSend, Overflow, Join, Deinit, Write,
       WriteTrailer, SpuriousWakeup, vars, clientVars
  <2>5. output[i + 1] # sent + 1
    BY <2>3 DEF Messages
  <2> QED BY <2>2, <2>3, <2>4, <2>5 DEF TypesInv, Types, ClientTypes
<1> QED BY <1>1, <1>2, <1>4, <1>5

(* Steps of the consumer that write nothing keep what holds of the strays if *)
(* they keep on waiting for what follows the last one.                       *)
LEMMA StraysWait ==
  ASSUME TypesInv, OrderInv, BlockingInv, StrayInv, KeyAfterStray,
         UNCHANGED clientVars, output' = output, forsaken \subseteq forsaken',
         setting.keyframe /\ setting.drop
           /\ (\/ dropUntilKeyframe \/ Recovering \/ Ended
               \/ overflowFlag /\ writer = "check")
           => \/ dropUntilKeyframe' \/ Recovering' \/ Ended' \/ Forsaken'
              \/ overflowFlag' /\ writer' = "check"
  PROVE  StrayInv' /\ KeyAfterStray'
<1>1. UNCHANGED <<setting, sent, kind>>
  BY DEF clientVars
<1>2. ASSUME NEW i \in 2 .. Len(output)
      PROVE  /\ Stray(i)' => Stray(i) /\ setting.drop
             /\ Unwaited(i) => Unwaited(i)'
  <2>1. (Stray(i)' => Stray(i)) /\ (Unwaited(i) => Unwaited(i)')
    BY <1>1, StraysKept
  <2> QED BY <2>1, GapsAreDropped DEF Stray
<1>5. Forsaken => Forsaken'
  BY <1>1 DEF Forsaken, Packets
<1>3. StrayInv'
  BY <1>1, <1>2, <1>5 DEF StrayInv
<1>4. KeyAfterStray'
  <2>1. \A i \in 2 .. Len(output) - 1 : i \in 2 .. Len(output) /\ i + 1 \in 2 .. Len(output)
    BY OrderFacts, LenProperties
  <2> QED BY <1>1, <1>2, <2>1 DEF KeyAfterStray
<1> QED BY <1>3, <1>4

(* What the consumer does about gaps when it looks at the flag or receives. *)
LEMMA QueueStepsGap ==
  ASSUME TypesInv, OrderInv, BlockingInv, AheadInv, GapInv, StrayInv, KeyAfterStray,
         CheckOverflow \/ Receive \/ InReceive \/ Stop
  PROVE  AheadInv' /\ GapInv' /\ StrayInv' /\ KeyAfterStray'
<1>1. /\ UNCHANGED <<clientVars, setting, client, sent, kind, recoveryNr, output, forsaken>>
      /\ Packets' = Packets
      /\ writer \in {"check", "receive", "receiving"} => msg = NoMessage
      /\ NoMessage \notin Packets
  BY QueueStepsLeave, FifoAssumption DEF clientVars, Packets, TypesInv, MessageInv
<1>2. CASE CheckOverflow /\ overflowFlag
  <2>1. /\ fifo' = <<>> /\ msg' = NoMessage
        /\ setting.keyframe => dropUntilKeyframe' = TRUE
    BY <1>1, <1>2 DEF CheckOverflow, Queue!Flush
  <2>2. AheadInv'
    BY <2>1 DEF AheadInv, Ahead
  <2>3. GapInv'
    BY <1>1, <2>1 DEF GapInv
  <2> QED BY <1>1, <2>1, <2>2, <2>3, StraysWait
<1>3. CASE (CheckOverflow /\ ~overflowFlag) \/ Receive
  <2>1. /\ UNCHANGED <<fifo, msg, overflowFlag, dropUntilKeyframe>>
        /\ ~Ended /\ ~Ended' /\ writer' \in {"receive", "receiving"}
        /\ writer \in {"check", "receive"} /\ (writer = "check" => ~overflowFlag)
    BY <1>3 DEF CheckOverflow, Receive, Queue!Recv, Queue!queueVars, queueVars, Ended,
       stateVars, TypesInv, Types, ClientTypes
  <2>2. AheadInv' /\ GapInv'
    BY <1>1, <2>1 DEF AheadInv, GapInv, Held, Ahead, Lost, Refused, Recovering, Forsaken
  <2> QED BY <1>1, <2>1, <2>2, StraysWait DEF Recovering
<1>4. CASE Stop
  <2>1. Ended'
    BY <1>4 DEF Stop, Ended
  <2> QED BY <1>1, <2>1, StraysWait DEF AheadInv, GapInv
<1>5. CASE InReceive
  <2>1. /\ UNCHANGED <<overflowFlag, dropUntilKeyframe>> /\ writer = "receiving"
        /\ msg = NoMessage /\ ~Ended
    BY <1>1, <1>5 DEF InReceive, stateVars, Ended
  <2>2. StrayInv' /\ KeyAfterStray'
    BY <1>1, <2>1, StraysWait DEF Recovering
  <2>3. CASE pc'[Consumer] # "idle"
    <3>1. UNCHANGED <<fifo, msg, writer>>
      BY <1>5, <2>3, RecvEffect DEF InReceive, TypesInv, Types, Calls
    <3> QED BY <1>1, <2>1, <2>2, <3>1
            DEF AheadInv, GapInv, Held, Ahead, Lost, Refused, Recovering, Forsaken, Ended
  <2>4. CASE writer' = "stop"
    BY <2>2, <2>4 DEF AheadInv, GapInv, Ended
  <2>5. CASE /\ fifo # <<>> /\ msg' = Head(fifo) /\ fifo' = Tail(fifo)
             /\ writer' = IF recoveryNr = 0 THEN "dispatch" ELSE "recover"
    <3>1. ASSUME NEW m \in Packets PROVE (Held(m)' <=> Held(m)) /\ (Ahead(m)' => Ahead(m))
      <4>1. /\ fifo \in Seq(Messages) /\ Len(fifo) \in Nat
            /\ DOMAIN fifo = 1 .. Len(fifo) /\ 1 \in DOMAIN fifo
            /\ DOMAIN fifo' = 1 .. Len(fifo) - 1
            /\ \A j \in 1 .. Len(fifo) - 1 : fifo'[j] = fifo[j + 1]
            /\ msg' = fifo[1]
        BY <2>5, OrderFacts, HeadTailProperties, LenProperties, FirstTaken DEF OrderInv
      <4>2. In(m, fifo) => m = msg' \/ In(m, fifo')
        <5>1. ASSUME NEW j \in DOMAIN fifo, fifo[j] = m, j # 1 PROVE In(m, fifo')
          <6>1. j - 1 \in DOMAIN fifo' /\ fifo'[j - 1] = m
            BY <4>1, <5>1
          <6> QED BY <6>1 DEF In
        <5> QED BY <4>1, <5>1 DEF In
      <4>3. \A j \in DOMAIN fifo' : j + 1 \in DOMAIN fifo /\ fifo'[j] = fifo[j + 1]
        BY <4>1
      <4>4. m = msg' \/ In(m, fifo') => In(m, fifo)
        BY <4>1, <4>3 DEF In
      <4>5. Held(m)' <=> Held(m)
        BY <1>1, <2>1, <4>2, <4>4 DEF Held
      <4>6. Ahead(m)' => Ahead(m)
        BY <2>1, <4>1, <4>3 DEF Ahead
      <4> QED BY <4>5, <4>6
    <3>2. ~Ended' /\ (Recovering => Recovering')
      BY <1>1, <2>1, <2>5 DEF Ended, Recovering, TypesInv, Types, WriterTypes
    <3> QED BY <1>1, <2>1, <2>2, <3>1, <3>2 DEF AheadInv, GapInv, Lost, Refused, Forsaken
  <2> QED BY <1>5, <2>3, <2>4, <2>5, ReceivedEffect
<1> QED BY <1>2, <1>3, <1>4, <1>5

(* What it does about them when it writes, fails and recovers. *)
LEMMA OwnStepsGap ==
  ASSUME TypesInv, OrderInv, BlockingInv, ForsakenInv, AheadInv, GapInv, StrayInv, KeyAfterStray,
         UNCHANGED <<queueVars, clientVars, overflowFlag>>,
         Dispatch \/ Attempt \/ GiveUp \/ Finalise \/ TooEarly \/ Finish
  PROVE  AheadInv' /\ GapInv' /\ StrayInv' /\ KeyAfterStray'
<1>1. /\ UNCHANGED <<setting, client, sent, kind, fifo, overflowFlag>>
      /\ Packets' = Packets /\ NoMessage \notin Packets
  BY FifoAssumption DEF queueVars, clientVars, Packets
<1>0. ~Ended' => ~Ended
  BY DEF Ended, Dispatch, Attempt, GiveUp, Finalise, TooEarly, Finish
<1>2. msg' \in {msg, NoMessage}
  <2>1. CASE Dispatch
    BY <2>1 DEF Dispatch
  <2>2. CASE Attempt
    BY <2>2 DEF Attempt, Recovered, Failed, TryLater
  <2>3. CASE GiveUp \/ Finalise \/ TooEarly \/ Finish
    BY <2>3 DEF GiveUp, Finalise, TooEarly, Finish
  <2> QED BY <2>1, <2>2, <2>3
<1>3. AheadInv'
  <2> SUFFICES ASSUME setting.drop, ~Ended', NEW m \in Packets, ~Held(m)', Ahead(m)'
               PROVE  Refused(m)'
    BY <1>0, <1>1 DEF AheadInv
  <2>1. Ahead(m)
    BY <1>1, <1>2 DEF Ahead
  <2>2. m # msg
    <3>1. msg' = msg \/ \E j \in DOMAIN fifo : fifo[j] < m
      BY <1>1, <1>2 DEF Ahead
    <3>2. ASSUME m = msg, NEW j \in DOMAIN fifo, fifo[j] < m PROVE FALSE
      BY <1>1, <3>2, OrderFacts DEF OrderInv, Messages
    <3>3. m = msg => msg' # msg
      BY DEF Held
    <3> QED BY <3>1, <3>2, <3>3
  <2>3. ~Held(m)
    BY <1>1, <2>2 DEF Held
  <2> QED BY <1>0, <1>1, <2>1, <2>3 DEF AheadInv, Refused
<1>4. CASE GiveUp \/ Finalise \/ TooEarly \/ Finish
  <2>1. /\ output' = output /\ dropUntilKeyframe' = dropUntilKeyframe
        /\ recoveryNr' = recoveryNr /\ forsaken \subseteq forsaken'
    BY <1>4 DEF GiveUp, Finalise, TooEarly, Finish, stateVars, muxerVars, lossVars
  <2>2. CASE ~setting.drop \/ Ended' \/ Recovering' \/ Forsaken'
    BY <1>1, <1>3, <2>1, <2>2, StraysWait DEF GapInv
  <2>3. CASE GiveUp /\ msg \in Packets /\ forsaken' = forsaken \cup ({msg} \cap Messages)
    <3>1. msg \in Messages
      BY <2>3, FifoAssumption DEF Packets, Messages, TypesInv, Types, ClientTypes
    <3>2. \A i \in DOMAIN output : output[i] < msg
      BY <1>1, <2>3 DEF OrderInv
    <3>3. Forsaken'
      BY <1>1, <2>1, <2>3, <3>1, <3>2 DEF Forsaken
    <3> QED BY <2>2, <3>3
  <2>4. CASE GiveUp /\ result = EAGAIN /\ writer' = "check" /\ msg \notin Packets
    <3>1. writer = "recover" /\ ~setting.attempt
      BY <2>4, ErrorFacts DEF GiveUp
    <3>2. (Recovering => Recovering') /\ ~Ended
      BY <2>1, <2>4, <3>1 DEF Recovering, Ended
    <3>3. ASSUME NEW m \in Packets, Lost(m)' PROVE Lost(m)
      BY <1>1, <2>1, <2>4, <3>3 DEF Lost, Held
    <3>4. Forsaken => Forsaken'
      BY <1>1, <2>1 DEF Forsaken
    <3>5. GapInv'
      BY <1>1, <2>1, <3>2, <3>3, <3>4 DEF GapInv, Refused
    <3> QED BY <1>1, <1>3, <2>1, <3>1, <3>2, <3>5, StraysWait
  <2>5. CASE Finalise \/ TooEarly
    <3>1. Recovering'
      BY <1>1, <2>5 DEF Finalise, TooEarly, stateVars, MayWait, Recovering, Recoverable
    <3> QED BY <2>2, <3>1
  <2>6. CASE Finish \/ writer' = "stop"
    BY <2>2, <2>6 DEF Finish, Ended
  <2> QED BY <1>4, <2>2, <2>3, <2>4, <2>5, <2>6 DEF GiveUp
<1>5. CASE Dispatch \/ Attempt
  <2>1. PICK dropping \in BOOLEAN, r \in Failures \cup {NoError} : Outcome(dropping, r)
    BY <1>5, HasOutcome
  <2>2. /\ msg # NoMessage /\ ~Ended /\ recoveryNr \in Nat
        /\ writer = "dispatch" => ~Recovering
        /\ writer \in {"dispatch", "recover"}
    BY <2>1 DEF Outcome, Ended, Recovering, Spins, TypesInv, MessageInv, Types, WriterTypes
  <2>3. r # NoError => \/ Recovering'
                       \/ /\ writer = "dispatch" /\ ~IsPacket
                          /\ msg' = msg /\ ~Ended'
    BY <1>1, <2>1, <2>2, PacketIsMessage DEF Outcome, Failed, Recovering, Ended, TypesInv
  <2>4. /\ writer = "dispatch" => (dropping <=> dropUntilKeyframe)
        /\ writer = "recover" => (dropping <=> dropUntilKeyframe
                                               \/ (setting.keyframe /\ setting.drop))
    BY <2>1 DEF Outcome
  <2>0. forsaken' = forsaken
    BY <2>1 DEF Outcome
  <2>5. CASE r # NoError
    <3>1. output' = output
      BY <2>1, <2>5 DEF Outcome, Kept, Given
    <3>2. CASE Recovering'
      BY <1>1, <1>3, <2>0, <3>1, <3>2, StraysWait DEF GapInv
    <3>3. CASE writer = "dispatch" /\ ~IsPacket /\ msg' = msg /\ ~Ended'
      <4>1. dropUntilKeyframe' <=> dropUntilKeyframe
        BY <2>1, <2>4, <3>3 DEF Outcome, Kept, Given
      <4>2. GapInv'
        BY <1>1, <2>0, <2>2, <3>1, <3>3, <4>1
           DEF GapInv, Lost, Held, Refused, Forsaken
      <4> QED BY <1>1, <1>3, <2>0, <2>2, <3>1, <3>3, <4>1, <4>2, StraysWait
    <3> QED BY <2>3, <2>5, <3>2, <3>3
  <2>6. CASE r = NoError /\ Kept(dropping, r)
    <3>1. /\ output' = output /\ (dropUntilKeyframe' <=> dropping)
          /\ IsPacket => dropping
      BY <2>6 DEF Kept
    <3>2. GapInv'
      <4> SUFFICES ASSUME setting.keyframe, setting.drop, ~Ended, ~dropping,
                          NEW m \in Packets, Lost(m)'
                   PROVE  Refused(m) \/ Forsaken'
        BY <1>0, <1>1, <3>1 DEF GapInv, Refused
      <4>0. Forsaken => Forsaken'
        BY <1>1, <2>0, <3>1 DEF Forsaken
      <4>1. ~dropUntilKeyframe /\ ~Recovering
        BY <2>2, <2>4
      <4>2. m # msg
        BY <2>2, <3>1, PacketsAreDispatched
      <4>3. Lost(m)
        BY <1>1, <1>2, <3>1, <4>2 DEF Lost, Held
      <4> QED BY <4>0, <4>1, <4>3 DEF GapInv
    <3>3. StrayInv' /\ KeyAfterStray'
      BY <1>1, <2>0, <2>2, <2>4, <3>1, StraysWait
    <3> QED BY <1>3, <3>2, <3>3
  <2>7. CASE r = NoError /\ Given(dropping, r)
    <3> DEFINE n == Len(output)
    <3>1. /\ output' = Append(output, msg) /\ IsPacket
          /\ dropping => kind[msg] = "key"
          /\ msg \in Messages /\ output \in Seq(Messages)
      BY <2>2, <2>7, PacketIsMessage, OrderFacts DEF Given, TypesInv
    <3>2. writer' = "check"
      BY <2>1, <2>7 DEF Outcome, Recovered
    <3>3. /\ n \in Nat /\ DOMAIN output = 1 .. n /\ Len(output') = n + 1
          /\ DOMAIN output' = 1 .. n + 1
          /\ output'[n + 1] = msg /\ \A i \in 1 .. n : output'[i] = output[i]
      BY <3>1, AppendProperties, LenProperties
    <3> HIDE DEF n
    <3>4. ASSUME setting.keyframe, setting.drop PROVE dropping \/ writer = "dispatch"
      BY <2>2, <2>4, <3>4
    <3>5. ASSUME NEW m \in Packets, m > msg, Lost(m)' PROVE setting.drop => Refused(m)
      <4>1. ~Held(m)
        BY <1>1, <1>2, <3>5, OrderFacts DEF Lost, Held, Messages
      <4> QED BY <2>2, <3>5, <4>1 DEF AheadInv, Ahead
    <3>6. GapInv'
      <4> SUFFICES ASSUME setting.keyframe, setting.drop, ~Ended,
                          NEW m \in Packets, Lost(m)'
                   PROVE  Refused(m)
        BY <1>0, <1>1 DEF GapInv, Refused
      <4>1. n + 1 \in DOMAIN output' /\ output'[n + 1] = msg
        BY <3>3
      <4>2. m > msg
        BY <4>1 DEF Lost
      <4> QED BY <3>5, <4>2
    <3>7. ASSUME NEW i \in 2 .. n
          PROVE  (Stray(i)' <=> Stray(i)) /\ (Unwaited(i)' <=> Unwaited(i))
      <4>1. i \in 1 .. n /\ i - 1 \in 1 .. n
        BY <3>3
      <4>2. output'[i] = output[i] /\ output'[i - 1] = output[i - 1]
        BY <3>3, <4>1
      <4> QED BY <1>1, <2>0, <4>2 DEF Stray, Unwaited, Missing
    <3>8. ASSUME Forsaken, n > 0, NEW i \in Nat, i = n + 1 PROVE Unwaited(i)'
      <4>1. PICK m \in forsaken \cap Packets : \A j \in DOMAIN output : output[j] < m
        BY <3>8 DEF Forsaken
      <4>2. m < msg
        BY <2>2, <4>1 DEF ForsakenInv
      <4>3. output'[i - 1] < m /\ m < output'[i]
        BY <3>3, <3>8, <4>1, <4>2
      <4>4. m \in Missing(i)'
        BY <1>1, <4>1, <4>3 DEF Missing
      <4> QED BY <2>0, <4>1, <4>4 DEF Unwaited
    <3>9. ASSUME setting.keyframe, NEW i \in 2 .. n, i = n, Stray(i), ~Unwaited(i),
                 ~Unwaited(i + 1)'
          PROVE  kind[msg] = "key"
      <4>1. setting.drop
        BY <3>9, GapsAreDropped DEF Stray, n
      <4>2. ~Forsaken
        BY <3>3, <3>9, <3>8
      <4>3. dropUntilKeyframe \/ Recovering
        BY <2>2, <3>9, <4>2 DEF StrayInv, n
      <4> QED BY <2>2, <2>4, <3>1, <3>4, <3>9, <4>1, <4>3
    <3>10. KeyAfterStray'
      <4> SUFFICES ASSUME setting.keyframe, NEW i \in 2 .. n, Stray(i)', ~Unwaited(i)',
                          ~Unwaited(i + 1)'
                   PROVE  kind[output'[i + 1]] = "key"
        BY <1>1, <3>3 DEF KeyAfterStray
      <4>1. Stray(i) /\ ~Unwaited(i)
        BY <3>7
      <4>2. CASE i = n
        BY <3>3, <3>9, <4>1, <4>2
      <4>3. CASE i \in 2 .. n - 1
        <5>1. i + 1 \in 1 .. n /\ i + 1 \in 2 .. n
          BY <3>3, <4>3
        <5>2. ~Unwaited(i + 1)
          BY <3>7, <5>1
        <5> QED BY <3>3, <4>1, <4>3, <5>1, <5>2 DEF KeyAfterStray, n
      <4> QED BY <3>3, <4>2, <4>3
    <3>11. StrayInv'
      <4> SUFFICES ASSUME setting.keyframe, n >= 1, NEW i \in Nat, i = n + 1, Stray(i)',
                          ~Unwaited(i)'
                   PROVE  overflowFlag
        BY <1>1, <3>2, <3>3 DEF StrayInv
      <4>1. output'[i] = msg /\ output'[i - 1] = output[n] /\ n > 0
        BY <3>3
      <4>2. PICK m \in Packets : output[n] < m /\ m < msg
        BY <1>1, <4>1 DEF Stray, Missing
      <4>3. ~Forsaken
        BY <3>3, <3>8
      <4>4. kind[msg] # "key"
        BY <1>1, <4>1 DEF Stray
      <4>5. Lost(m)
        <5>1. ~Held(m)
          BY <2>2, <4>2, EarlierIsPast
        <5>2. \A j \in DOMAIN output : output[j] <= output[n] /\ output[j] \in Nat
              /\ output[n] \in Nat
          BY <3>3, <4>1, LastIsGreatest DEF n
        <5>3. m \in Nat
          BY DEF Packets
        <5> QED BY <4>2, <5>1, <5>2, <5>3 DEF Lost
      <4>6. setting.drop
        <5>1. ~Written(m)
          <6>1. \A j \in DOMAIN output : output[j] # m
            BY <4>5 DEF Lost, Packets
          <6> QED BY <6>1 DEF Written, In
        <5> QED BY <2>2, <4>5, <5>1 DEF BlockingInv, Halted, Lost
      <4>7. ~dropUntilKeyframe /\ ~Recovering
        <5>1. ~dropping
          BY <3>1, <4>4
        <5>2. writer = "dispatch"
          BY <3>4, <4>6, <5>1
        <5> QED BY <2>2, <2>4, <5>1, <5>2
      <4>8. m # sent
        <5>1. msg <= sent /\ msg \in Nat /\ sent \in Nat /\ m \in Nat
          BY <2>2, OrderFacts DEF OrderInv, Packets
        <5> QED BY <4>2, <5>1
      <4> QED BY <2>2, <4>5, <4>6, <4>7, <4>8, <4>3 DEF GapInv, Refused
    <3> QED BY <1>3, <3>6, <3>10, <3>11
  <2> QED BY <2>1, <2>5, <2>6, <2>7 DEF Outcome
<1> QED BY <1>4, <1>5

(***************************************************************************)
(* With restart_with_keyframe at most one packet that is not a key frame   *)
(* follows a gap, however often the queue overflows and the real muxer     *)
(* fails: the one the client had queued before the flag was seen.  Nobody  *)
(* waits at a gap with a packet in it that was given up for EAGAIN, and    *)
(* packets are given up so only where they may be dropped and nothing is   *)
(* recovered from.                                                         *)
(***************************************************************************)
THEOREM FifoOneStray == Spec => []OneStray
<1>1. Init => ForsakenInv /\ AheadInv /\ GapInv /\ StrayInv /\ KeyAfterStray
  <2> SUFFICES ASSUME Init
               PROVE  ForsakenInv /\ AheadInv /\ GapInv /\ StrayInv /\ KeyAfterStray
    OBVIOUS
  <2>1. Packets = {} /\ Len(output) = 0 /\ forsaken = {}
    BY EmptySeq DEF Init, Packets
  <2> QED BY <2>1 DEF ForsakenInv, AheadInv, GapInv, StrayInv, KeyAfterStray
<1>2. ASSUME TypesInv, TypesInv', OrderInv, ClosingInv, BlockingInv, ForsakenInv,
             AheadInv, GapInv, StrayInv, KeyAfterStray, [Next]_vars
      PROVE  ForsakenInv' /\ AheadInv' /\ GapInv' /\ StrayInv' /\ KeyAfterStray'
  <2>1. ForsakenInv'
    BY <1>2, StepForsakes
  <2> QED BY <1>2, <2>1, StepCases, OthersGap, QueueStepsGap, OwnStepsGap
<1>3. ForsakenInv /\ KeyAfterStray => OneStray
  BY DEF ForsakenInv, KeyAfterStray, OneStray
<1> QED BY <1>1, <1>2, <1>3, NothingDropped, PTL DEF Spec

=============================================================================
