----------------------------- MODULE FifoMuxer -----------------------------
(***************************************************************************)
(* libavformat/fifo.c: a muxer that hands its packets over to a thread     *)
(* which writes them with the real muxer.  The queue between the two is    *)
(* ThreadMessageQueue.  When it is full packets may be dropped, and when   *)
(* the real muxer fails it may be finished and started again.              *)
(*                                                                         *)
(* The real muxer belongs to the consumer thread alone, so all it does for *)
(* one message is one step; the threads share the queue and the overflow   *)
(* flag only.                                                              *)
(***************************************************************************)
EXTENDS Integers, Sequences, FiniteSets

CONSTANTS
  Settings,         \* the options considered, see below
  Capacity,         \* queue_size
  WaitTime,         \* recovery_wait_time, in time of the stream
  MaxMessages,      \* bound: the packets and flushes of the client
  Kinds,            \* the kinds of messages considered, among AllKinds
  MaxFailures,      \* bound: how often the real muxer fails
  Client, Consumer, \* the two threads
  EOF,              \* the error the client closes the queue with
  EXIT, EINVAL, EIO,\* an exit request, a permanent and a passing failure
  EAGAIN,           \* "try again later", of the queue and of the real muxer
  NoError, NoMessage

\* The options of the muxer.
Setting ==
  [drop       : BOOLEAN,  \* drop_pkts_on_overflow
   keyframe   : BOOLEAN,  \* restart_with_keyframe
   attempt    : BOOLEAN,  \* attempt_recovery
   any        : BOOLEAN,  \* recover_any_error
   streamtime : BOOLEAN,  \* recovery_wait_streamtime
   max        : Nat]      \* max_recovery_attempts

\* The messages in the order of the client; the consumer makes the first one.
Header   == 0
Messages == 1 .. MaxMessages
AllKinds == {"key", "delta", "flush"}

\* What the real muxer may return; EINVAL stands for AVERROR_EOF and the others that
\* is_recoverable lists with it.
Failures == {EXIT, EINVAL, EIO, EAGAIN}

\* What ends the queue; the consumer never gives it EAGAIN (see TypeOK).
EndErrors == {EXIT, EINVAL, EIO, EOF}

ASSUME FifoAssumption ==
  /\ Settings \subseteq Setting
  \* fifo_init refuses other options
  /\ \A s \in Settings : s.streamtime => s.drop
  /\ Capacity \in Nat \ {0}
  /\ {WaitTime, MaxMessages, MaxFailures} \subseteq Nat
  /\ Kinds \subseteq AllKinds
  /\ Client # Consumer
  \* the codes are distinct where the threads tell them apart
  /\ NoError \notin Failures \cup {EOF}
  /\ EOF \notin Failures /\ EAGAIN \notin EndErrors
  /\ NoMessage \notin Nat

VARIABLES
  fifo, errSend, errRecv, waitSend, waitRecv, pc, arg, nonblock, ret, fate,
  setting,          \* the options, which do not change
  client,           \* where the client is
  sent,             \* the number of its messages
  kind,             \* a key frame, another packet, or a flush, see AllKinds
  overflowFlag,     \* fifo->overflow_flag
  writer,           \* where the consumer is
  msg,              \* its message, until it is unreferenced
  result,           \* its ret
  recoveryNr,       \* ctx->recovery_nr
  lastTs,           \* ctx->last_recovery_ts, in time of the stream
  dropUntilKeyframe, headerWritten,
  attemptError,     \* what the last attempt of recovery returned (history)
  forsaken,         \* the messages given up for EAGAIN without an attempt (history)
  failures,         \* of the real muxer (bounded)
  headers, trailers,\* its headers and trailers (history)
  output            \* the packets it has written (history)

Queue == INSTANCE ThreadMessageQueue
  WITH Threads <- {Client, Consumer}, Errors <- EndErrors

queueVars  == <<fifo, errSend, errRecv, waitSend, waitRecv, pc, arg, nonblock, ret, fate>>
clientVars == <<setting, client, sent, kind>>
stateVars  == <<recoveryNr, lastTs, dropUntilKeyframe, headerWritten>>
muxerVars  == <<failures, headers, trailers, output>>
lossVars   == <<attemptError, forsaken>>
writerVars == <<writer, msg, result, stateVars, muxerVars, lossVars>>
vars       == <<queueVars, clientVars, overflowFlag, writerVars>>

-----------------------------------------------------------------------------
(* fifo_write_header, fifo_write_packet, fifo_write_trailer, fifo_deinit *)

\* pthread_create, which may fail.
Start ==
  /\ client = "init"
  /\ \/ client' = "idle" /\ writer' = "dispatch"
     \/ client' = "deinit" /\ UNCHANGED writer
  /\ UNCHANGED <<queueVars, setting, sent, kind, overflowFlag, msg, result,
                 stateVars, muxerVars, lossVars>>

Write(k) ==
  /\ client = "idle" /\ sent < MaxMessages
  /\ sent' = sent + 1
  /\ kind' = [kind EXCEPT ![sent'] = k]
  /\ Queue!Send(Client, sent', setting.drop)
  /\ client' = "sending"
  /\ UNCHANGED <<setting, overflowFlag, writerVars>>

\* A packet that is refused is unreferenced.
InSend ==
  /\ client = "sending"
  /\ Queue!SendStep(Client)
  /\ client' = CASE pc'[Client] # "idle"      -> "sending"
                 [] pc'[Client] = "idle"
                    /\ ret'[Client] = EAGAIN  -> "overflow"
                 [] OTHER                     -> "idle"
  /\ UNCHANGED <<setting, sent, kind, overflowFlag, writerVars>>

Overflow ==
  /\ client = "overflow"
  /\ overflowFlag' = TRUE
  /\ client' = "idle"
  /\ UNCHANGED <<queueVars, setting, sent, kind, writerVars>>

WriteTrailer ==
  /\ client = "idle"
  /\ Queue!SetErrRecv(Client, EOF)
  /\ client' = "joining"
  /\ UNCHANGED <<setting, sent, kind, overflowFlag, writerVars>>

Join ==
  /\ client = "joining" /\ writer = "gone"
  /\ client' = "deinit"
  /\ UNCHANGED <<queueVars, setting, sent, kind, overflowFlag, writerVars>>

\* Faulty: the queue is freed with its messages.
DeinitKeepsQueue ==
  /\ client = "deinit"
  /\ client' = "freed"
  /\ UNCHANGED <<queueVars, setting, sent, kind, overflowFlag, writerVars>>

\* av_thread_message_queue_free gives what is left to free_message.
Deinit ==
  /\ client = "deinit"
  /\ Queue!Flush(Client)
  /\ client' = "freed"
  /\ UNCHANGED <<setting, sent, kind, overflowFlag, writerVars>>

ClientStep == Start \/ InSend \/ Overflow \/ Join \/ Deinit

-----------------------------------------------------------------------------
(* fifo_thread_dispatch_message, in one step *)

IsPacket == msg # Header /\ kind[msg] \in {"key", "delta"}

Succeed == UNCHANGED failures
Fail    == failures < MaxFailures /\ failures' = failures + 1

\* fifo_thread_write_header fails; unknown options are found when it is done.
HeaderFails(written, dropping, r) ==
  /\ ~written /\ r \in Failures /\ Fail
  /\ headerWritten' \in {FALSE, r = EINVAL}
  /\ headers' = IF headerWritten' THEN headers + 1 ELSE headers
  /\ dropUntilKeyframe' = dropping
  /\ UNCHANGED output

HeaderDone(written) ==
  /\ headerWritten' = TRUE
  /\ headers' = IF written THEN headers ELSE headers + 1

\* fifo_thread_write_packet, of a packet that is waited over.
DropPacket(written, dropping, r) ==
  /\ IsPacket /\ dropping /\ kind[msg] # "key"
  /\ r = NoError /\ Succeed
  /\ HeaderDone(written)
  /\ dropUntilKeyframe' = dropping
  /\ UNCHANGED output

\* The rescaling of the timestamps is not modelled.
WritePacket(written, dropping, r) ==
  /\ IsPacket /\ (dropping => kind[msg] = "key")
  /\ HeaderDone(written)
  /\ dropUntilKeyframe' = FALSE
  /\ \/ r = NoError /\ Succeed /\ output' = Append(output, msg)
     \/ r \in Failures /\ Fail /\ UNCHANGED output

\* The first message has no more to write than the header; a flush has.
WriteOther(written, dropping, r) ==
  /\ ~IsPacket
  /\ HeaderDone(written)
  /\ dropUntilKeyframe' = dropping
  /\ \/ r = NoError /\ Succeed
     \/ msg # Header /\ r \in Failures /\ Fail
  /\ UNCHANGED output

DispatchMessage(written, dropping, r) ==
  /\ \/ HeaderFails(written, dropping, r)
     \/ DropPacket(written, dropping, r)
     \/ WritePacket(written, dropping, r)
     \/ WriteOther(written, dropping, r)
  /\ UNCHANGED trailers

-----------------------------------------------------------------------------
(* fifo_thread_recover and fifo_thread_attempt_recovery *)

\* EINVAL stands for all the errors listed there.
Recoverable(r) ==
  /\ setting.attempt
  /\ r \notin IF setting.any THEN {EXIT} ELSE {EINVAL, EOF, EXIT}

\* Every packet has a timestamp, one more than the last; other messages have 0.
Pts(m) == IF m # Header /\ kind[m] # "flush" THEN m ELSE 0

NoTs == -1

\* The message is freed.  fifo_thread_recover takes EAGAIN of the real muxer for the
\* wish to try again later: it goes on with the next message, or calls again for ever.
GiveUp ==
  /\ writer = "recover" /\ ~Recoverable(result)
  /\ msg' = NoMessage
  /\ \/ result # EAGAIN /\ writer' = "stop" /\ UNCHANGED forsaken
     \/ result = EAGAIN /\ ~setting.drop /\ UNCHANGED <<writer, forsaken>>
     \/ /\ result = EAGAIN /\ setting.drop
        /\ writer' = "check"
        /\ forsaken' = forsaken \cup ({msg} \cap Messages)
  /\ UNCHANGED <<result, stateVars, muxerVars, attemptError>>

\* Faulty: the muxer is still taken for an open one.
FinaliseKeepsFlag ==
  /\ writer = "recover" /\ Recoverable(result) /\ headerWritten
  /\ trailers' = trailers + 1
  /\ UNCHANGED <<writer, msg, result, stateVars, failures, headers, output, lossVars>>

\* The muxer that failed is finished before the next attempt.
Finalise ==
  /\ writer = "recover" /\ Recoverable(result) /\ headerWritten
  /\ headerWritten' = FALSE
  /\ trailers' = trailers + 1
  /\ UNCHANGED <<writer, msg, result, recoveryNr, lastTs, dropUntilKeyframe,
                 failures, headers, output, lossVars>>

\* With stream time the wait is over as soon as the last attempt has a time.
MayWait ==
  /\ recoveryNr > 0
  /\ WaitTime > 0
  /\ setting.streamtime => lastTs = NoTs

\* A packet that comes too early for the next attempt is dropped, or sleeps.
TooEarly ==
  /\ writer = "recover" /\ Recoverable(result) /\ ~headerWritten
  /\ MayWait /\ setting.drop
  /\ writer' = "check" /\ msg' = NoMessage
  /\ UNCHANGED <<result, stateVars, muxerVars, lossVars>>

\* Faulty: the message that was freed is dispatched once more.
RecoveredFreed ==
  /\ writer' = "dispatch" /\ msg' = NoMessage
  /\ recoveryNr' = 0
  /\ UNCHANGED <<result, lastTs>>

\* What comes of attempt n, which returned r.
Recovered ==
  /\ writer' = "check" /\ msg' = NoMessage
  /\ recoveryNr' = 0
  /\ UNCHANGED <<result, lastTs>>

Exhausted(n) == setting.max > 0 /\ n >= setting.max

\* Faulty: the message is dropped in either mode.
TryLaterDrops == writer' = "check" /\ msg' = NoMessage

TryLater ==
  IF setting.drop THEN writer' = "check" /\ msg' = NoMessage
                  ELSE UNCHANGED <<writer, msg>>

\* Nobody unreferences the packet of the last attempt.  When the attempts are exhausted
\* the error is returned, and EAGAIN is taken for another try to come.
Failed(n, r) ==
  /\ recoveryNr' = n
  /\ lastTs' = IF Recoverable(r) /\ setting.streamtime THEN Pts(msg) ELSE lastTs
  /\ \/ ~Recoverable(r) /\ writer' = "stop" /\ msg' = NoMessage /\ result' = r
     \/ Recoverable(r) /\ Exhausted(n) /\ r # EAGAIN
        /\ writer' = "stop" /\ result' = r /\ UNCHANGED msg
     \/ Recoverable(r) /\ (Exhausted(n) => r = EAGAIN) /\ TryLater /\ UNCHANGED result

Attempt ==
  /\ writer = "recover" /\ Recoverable(result) /\ ~headerWritten
  /\ \E r \in Failures \cup {NoError} :
       /\ DispatchMessage(FALSE,
            dropUntilKeyframe \/ (setting.keyframe /\ setting.drop), r)
       /\ attemptError' = r
       /\ IF r = NoError THEN Recovered ELSE Failed(recoveryNr + 1, r)
  /\ UNCHANGED forsaken

-----------------------------------------------------------------------------
(* fifo_consumer_thread *)

Dispatch ==
  /\ writer = "dispatch"
  /\ \E r \in Failures \cup {NoError} :
       /\ DispatchMessage(headerWritten, dropUntilKeyframe, r)
       /\ result' = r
       /\ IF r = NoError THEN writer' = "check" /\ msg' = NoMessage
                         ELSE writer' = "recover" /\ UNCHANGED msg
  /\ UNCHANGED <<recoveryNr, lastTs, lossVars>>

\* Faulty: what follows the gap is not waited over.
CheckOverflowOnly ==
  /\ writer = "check"
  /\ IF overflowFlag THEN Queue!Flush(Consumer) ELSE UNCHANGED queueVars
  /\ overflowFlag' = FALSE
  /\ writer' = "receive"
  /\ UNCHANGED <<clientVars, msg, result, stateVars, muxerVars, lossVars>>

\* The overflow flag is looked at before the next message is waited for.
CheckOverflow ==
  /\ writer = "check"
  /\ IF overflowFlag
     THEN /\ Queue!Flush(Consumer)
          /\ dropUntilKeyframe' = (dropUntilKeyframe \/ setting.keyframe)
     ELSE UNCHANGED <<queueVars, dropUntilKeyframe>>
  /\ overflowFlag' = FALSE
  /\ writer' = "receive"
  /\ UNCHANGED <<clientVars, msg, result, recoveryNr, lastTs, headerWritten, muxerVars,
                 lossVars>>

Receive ==
  /\ writer = "receive"
  /\ Queue!Recv(Consumer, FALSE)
  /\ writer' = "receiving"
  /\ UNCHANGED <<clientVars, overflowFlag, msg, result, stateVars, muxerVars, lossVars>>

\* While it recovers a message goes to fifo_thread_recover at once.
Received ==
  /\ result' = ret'[Consumer]
  /\ IF result' = NoError
     THEN /\ msg' = Head(fifo)
          /\ writer' = IF recoveryNr = 0 THEN "dispatch" ELSE "recover"
     ELSE writer' = "stop" /\ UNCHANGED msg

InReceive ==
  /\ writer = "receiving"
  /\ Queue!RecvStep(Consumer)
  /\ IF pc'[Consumer] = "idle" THEN Received ELSE UNCHANGED <<writer, msg, result>>
  /\ UNCHANGED <<clientVars, overflowFlag, stateVars, muxerVars, lossVars>>

\* Faulty: the client is not told.
StopSilently ==
  /\ writer = "stop"
  /\ writer' = "trailer"
  /\ UNCHANGED <<queueVars, clientVars, overflowFlag, msg, result, stateVars, muxerVars,
                 lossVars>>

Stop ==
  /\ writer = "stop"
  /\ Queue!SetErrSend(Consumer, result)
  /\ writer' = "trailer"
  /\ UNCHANGED <<clientVars, overflowFlag, msg, result, stateVars, muxerVars, lossVars>>

Finish ==
  /\ writer = "trailer"
  /\ trailers' = IF headerWritten THEN trailers + 1 ELSE trailers
  /\ writer' = "gone"
  /\ UNCHANGED <<msg, result, stateVars, failures, headers, output, lossVars>>

\* The steps that leave the queue and the flag alone.
OwnStep ==
  /\ Dispatch \/ GiveUp \/ Finalise \/ TooEarly \/ Attempt \/ Finish
  /\ UNCHANGED <<queueVars, clientVars, overflowFlag>>

ConsumerStep == OwnStep \/ CheckOverflow \/ Receive \/ InReceive \/ Stop

-----------------------------------------------------------------------------

\* fifo_init, and the first message of fifo_consumer_thread.
Init ==
  /\ Queue!Init
  /\ setting \in Settings
  /\ client = "init" /\ sent = 0 /\ kind = [m \in Messages |-> "flush"]
  /\ overflowFlag = FALSE
  /\ writer = "none" /\ msg = Header /\ result = NoError
  /\ recoveryNr = 0 /\ lastTs = NoTs
  /\ dropUntilKeyframe = FALSE /\ headerWritten = FALSE
  /\ attemptError = NoError /\ forsaken = {}
  /\ failures = 0 /\ headers = 0 /\ trailers = 0
  /\ output = <<>>

SpuriousWakeup ==
  /\ \E t \in {Client, Consumer} : Queue!SpuriousWakeup(t)
  /\ UNCHANGED <<clientVars, overflowFlag, writerVars>>

Over ==
  /\ client = "freed"
  /\ UNCHANGED vars

Next ==
  \/ ClientStep
  \/ \E k \in Kinds : Write(k)
  \/ WriteTrailer
  \/ ConsumerStep
  \/ SpuriousWakeup
  \/ Over

Spec == Init /\ [][Next]_vars

\* Both threads run whenever they can; when the client calls is its affair.
FairSpec == Spec /\ WF_vars(ClientStep) /\ WF_vars(ConsumerStep)

-----------------------------------------------------------------------------

Packets == {m \in 1 .. sent : kind[m] # "flush"}

\* The real muxer returned EAGAIN, no recovery is asked for and nothing may be dropped:
\* fifo_thread_recover never returns.
Spins ==
  /\ writer = "recover" /\ result = EAGAIN
  /\ ~setting.attempt /\ ~setting.drop

(***************************************************************************)
(* The types of the variables.  The consumer has a message where it works  *)
(* on one, unless it repeats a call for ever, and it is in a call of the   *)
(* queue only where it receives.  It never ends with EAGAIN.               *)
(***************************************************************************)
TypeOK ==
  /\ Queue!TypeOK
  /\ setting \in Settings
  /\ client \in {"init", "idle", "sending", "overflow", "joining", "deinit", "freed"}
  /\ sent \in 0 .. MaxMessages
  /\ kind \in [Messages -> AllKinds]
  /\ overflowFlag \in BOOLEAN
  /\ writer \in {"none", "dispatch", "recover", "check", "receive", "receiving",
                 "stop", "trailer", "gone"}
  /\ msg \in 0 .. sent \cup {NoMessage}
  /\ writer = "dispatch" \/ (writer = "recover" /\ ~Spins) => msg # NoMessage
  /\ result \in Failures \cup {EOF, NoError}
  /\ writer \in {"stop", "trailer", "gone"} => result # EAGAIN
  /\ attemptError \in Failures \cup {NoError}
  /\ forsaken \subseteq 1 .. sent
  /\ recoveryNr \in 0 .. MaxFailures
  /\ lastTs \in {NoTs} \cup 0 .. sent
  /\ dropUntilKeyframe \in BOOLEAN /\ headerWritten \in BOOLEAN
  /\ failures \in 0 .. MaxFailures
  /\ {headers, trailers} \subseteq Nat
  /\ output \in Seq(Messages)
  /\ pc[Client] = "send" <=> client = "sending"
  /\ pc[Consumer] = "recv" <=> writer = "receiving"

(***************************************************************************)
(* Whatever is dropped, flushed or tried again (fifo_thread_recover), the  *)
(* real muxer is never given a packet twice, nor two packets in another    *)
(* order than the client's.                                                *)
(***************************************************************************)
InOrder == \A i \in 1 .. Len(output) - 1 : output[i] < output[i + 1]

(***************************************************************************)
(* Without drop_pkts_on_overflow the client is made to wait instead: when  *)
(* the consumer has ended with the end of the queue, every packet has been *)
(* written, however often the muxer failed and was started again.          *)
(***************************************************************************)
NoneLost ==
  ~setting.drop /\ writer = "gone" /\ result = EOF =>
    {output[i] : i \in DOMAIN output} = Packets

(***************************************************************************)
(* Through every failure and restart each packet gets to the real muxer    *)
(* once and in its place, or was dropped as asked for.                     *)
(***************************************************************************)
EachOnce == InOrder /\ NoneLost

(***************************************************************************)
(* Every muxer whose header was written is finished with exactly one       *)
(* trailer: in recovery, before the next header is tried, or by the end of *)
(* the consumer (header_written).                                          *)
(***************************************************************************)
FinalisedOnce ==
  headers = trailers + (IF headerWritten /\ writer # "gone" THEN 1 ELSE 0)

(***************************************************************************)
(* When max_recovery_attempts have failed in a row the consumer stops,     *)
(* unless the last one failed with EAGAIN: it goes on then, past the limit,*)
(* until an attempt succeeds or fails with another error.                  *)
(***************************************************************************)
AttemptsBounded ==
  setting.max > 0 /\ recoveryNr >= setting.max =>
    writer \in {"stop", "trailer", "gone"} \/ attemptError = EAGAIN

(***************************************************************************)
(* What is not written is freed: when the client is done no message is in  *)
(* the queue, and the consumer holds one only if the attempts it was       *)
(* allowed are exhausted and the last did not ask for another.             *)
(***************************************************************************)
NothingLeft ==
  client = "freed" =>
    /\ fifo = <<>>
    /\ msg \in Messages =>
         setting.max > 0 /\ recoveryNr >= setting.max /\ attemptError # EAGAIN

(***************************************************************************)
(* The consumer stops when it has used up its attempts, EAGAIN apart, and  *)
(* what has not been written by then is freed.                             *)
(***************************************************************************)
GivesUpClean == AttemptsBounded /\ NothingLeft

(***************************************************************************)
(* After a gap in the output restart_with_keyframe lets at most one packet *)
(* pass that is not a key frame: the one that the client queued before the *)
(* consumer looked at the flag of the overflow.  Only a packet that was    *)
(* given up for EAGAIN, without recovery, leaves a gap that nobody waits   *)
(* at.                                                                     *)
(***************************************************************************)
Missing(i) == {m \in Packets : output[i - 1] < m /\ m < output[i]}

Unwaited(i) == Missing(i) \cap forsaken # {}

Stray(i) == kind[output[i]] # "key" /\ Missing(i) # {}

OneStray ==
  /\ setting.keyframe =>
       \A i \in 2 .. Len(output) - 1 :
         Stray(i) /\ ~Unwaited(i) => kind[output[i + 1]] = "key" \/ Unwaited(i + 1)
  /\ forsaken # {} => setting.drop /\ ~setting.attempt

(***************************************************************************)
(* The client is never left in a call: a packet that cannot be queued is   *)
(* refused or finds room, and fifo_write_trailer ends, as long as the real *)
(* muxer ends to fail.  The exception is EAGAIN of the real muxer with the *)
(* options of recovery and of dropping left alone.                         *)
(***************************************************************************)
ClientReturns ==
  client \in {"sending", "joining"} ~> client \in {"idle", "freed"} \/ Spins

(***************************************************************************)
(* doc/muxers.texi, restart_with_keyframe: wait for the keyframe after     *)
(* recovering from queue overflow.                                         *)
(***************************************************************************)
KeyframeAfterGap == setting.keyframe => \A i \in 2 .. Len(output) : ~Stray(i)

(***************************************************************************)
(* doc/muxers.texi, recovery_wait_streamtime: the recovery is attempted    *)
(* after at least recovery_wait_time of the stream is omitted.             *)
(***************************************************************************)
WaitsStreamTime ==
  [][Attempt /\ setting.streamtime /\ recoveryNr > 0 /\ lastTs > 0 =>
       Pts(msg) - lastTs >= WaitTime]_vars

=============================================================================
