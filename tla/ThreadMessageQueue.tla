------------------------- MODULE ThreadMessageQueue -------------------------
(***************************************************************************)
(* libavutil/threadmessage.c: a bounded FIFO of messages protected by one  *)
(* mutex, with one condition variable for the senders and one for the      *)
(* receivers, and two error codes that close either end.                   *)
(*                                                                         *)
(* Every call runs between a lock and an unlock of the mutex; the only     *)
(* place inside where the mutex is let go is pthread_cond_wait.  A call is *)
(* therefore a sequence of atomic segments that end in a wait or in the    *)
(* return.  A thread inside a call that is not in a wait set competes for  *)
(* the mutex: it has just called, or it has just been woken.               *)
(***************************************************************************)
EXTENDS Naturals, Sequences, FiniteSets

CONSTANTS
  Threads,    \* the threads that share the queue
  Messages,   \* the messages they may send, each delivered at most once
  Capacity,   \* nelem of av_thread_message_queue_alloc
  Errors,     \* the non-zero error codes a client may set
  NoError,    \* the error code 0
  EAGAIN,     \* what a non-blocking call returns when it cannot proceed
  NoMessage   \* the argument of a thread that is not sending

ASSUME QueueAssumption ==
  /\ IsFiniteSet(Threads)
  /\ Capacity \in Nat \ {0}
  /\ NoError \notin Errors \cup {EAGAIN}
  /\ NoMessage \notin Messages

VARIABLES
  fifo,       \* mq->fifo, in units of elsize
  errSend,    \* mq->err_send
  errRecv,    \* mq->err_recv
  waitSend,   \* the threads asleep on mq->cond_send
  waitRecv,   \* the threads asleep on mq->cond_recv
  pc,         \* "idle", or the call the thread is in: "send" or "recv"
  arg,        \* the message of the thread's send in progress
  nonblock,   \* whether its call has AV_THREAD_MESSAGE_NONBLOCK
  ret,        \* the return code of its last call
  fate        \* where each message is (history of the message, see Fates)

queueVars == <<fifo, errSend, errRecv>>
condVars  == <<waitSend, waitRecv>>
callVars  == <<pc, arg, nonblock, ret>>
vars      == <<queueVars, condVars, callVars, fate>>

(***************************************************************************)
(* A message is new, then with its sender, then in the queue, and leaves   *)
(* it to a receiver or to the free function of a flush; a send that fails  *)
(* leaves it with the caller, who disposes of it or sends it again.        *)
(***************************************************************************)
Fates == {"new", "sending", "queued", "received", "flushed", "refused"}

Codes == Errors \cup {NoError, EAGAIN}

-----------------------------------------------------------------------------

\* pthread_cond_signal wakes one sleeper, if there is any.
AfterSignal(sleepers) ==
  IF sleepers = {} THEN {sleepers} ELSE {sleepers \ {t} : t \in sleepers}

\* Faulty: the broadcast is forgotten.
AfterBroadcastForgotten(sleepers) == sleepers

\* pthread_cond_broadcast wakes them all.
AfterBroadcast(sleepers) == {}

\* Faulty: one message too many.
HasSpaceOffByOne == Len(fifo) <= Capacity

HasSpace == Len(fifo) < Capacity
IsEmpty  == Len(fifo) = 0

Return(t, code) ==
  /\ pc'       = [pc EXCEPT ![t] = "idle"]
  /\ ret'      = [ret EXCEPT ![t] = code]
  /\ arg'      = [arg EXCEPT ![t] = NoMessage]
  /\ nonblock' = [nonblock EXCEPT ![t] = FALSE]

-----------------------------------------------------------------------------
(* av_thread_message_queue_send *)

Send(t, m, nb) ==
  /\ pc[t] = "idle"
  /\ fate[m] \in {"new", "refused"}
  /\ pc'       = [pc EXCEPT ![t] = "send"]
  /\ arg'      = [arg EXCEPT ![t] = m]
  /\ nonblock' = [nonblock EXCEPT ![t] = nb]
  /\ fate'     = [fate EXCEPT ![m] = "sending"]
  /\ UNCHANGED <<queueVars, condVars, ret>>

\* In the call and not asleep: the next to run may be this thread.
Sending(t) == pc[t] = "send" /\ t \notin waitSend

SendBlocked == errSend = NoError /\ ~HasSpace

SendRefused(t, code) ==
  /\ Return(t, code)
  /\ fate' = [fate EXCEPT ![arg[t]] = "refused"]
  /\ UNCHANGED <<queueVars, condVars>>

SendAgain(t) ==
  /\ Sending(t) /\ SendBlocked /\ nonblock[t]
  /\ SendRefused(t, EAGAIN)

SendWait(t) ==
  /\ Sending(t) /\ SendBlocked /\ ~nonblock[t]
  /\ waitSend' = waitSend \cup {t}
  /\ UNCHANGED <<queueVars, waitRecv, callVars, fate>>

SendError(t) ==
  /\ Sending(t) /\ errSend # NoError
  /\ SendRefused(t, errSend)

\* Faulty: signals the condition of the senders.
SendWriteSignalsSend(t) ==
  /\ Sending(t) /\ errSend = NoError /\ HasSpace
  /\ fifo' = Append(fifo, arg[t])
  /\ fate' = [fate EXCEPT ![arg[t]] = "queued"]
  /\ waitSend' \in AfterSignal(waitSend)
  /\ Return(t, NoError)
  /\ UNCHANGED <<errSend, errRecv, waitRecv>>

SendWrite(t) ==
  /\ Sending(t) /\ errSend = NoError /\ HasSpace
  /\ fifo' = Append(fifo, arg[t])
  /\ fate' = [fate EXCEPT ![arg[t]] = "queued"]
  /\ waitRecv' \in AfterSignal(waitRecv)
  /\ Return(t, NoError)
  /\ UNCHANGED <<errSend, errRecv, waitSend>>

-----------------------------------------------------------------------------
(* av_thread_message_queue_recv *)

Recv(t, nb) ==
  /\ pc[t] = "idle"
  /\ pc'       = [pc EXCEPT ![t] = "recv"]
  /\ nonblock' = [nonblock EXCEPT ![t] = nb]
  /\ UNCHANGED <<queueVars, condVars, arg, ret, fate>>

Receiving(t) == pc[t] = "recv" /\ t \notin waitRecv

RecvBlocked == errRecv = NoError /\ IsEmpty

RecvAgain(t) ==
  /\ Receiving(t) /\ RecvBlocked /\ nonblock[t]
  /\ Return(t, EAGAIN)
  /\ UNCHANGED <<queueVars, condVars, fate>>

\* Faulty: sleeps on the condition of the senders.
RecvWaitOnSend(t) ==
  /\ Receiving(t) /\ RecvBlocked /\ ~nonblock[t]
  /\ waitSend' = waitSend \cup {t}
  /\ UNCHANGED <<queueVars, waitRecv, callVars, fate>>

RecvWait(t) ==
  /\ Receiving(t) /\ RecvBlocked /\ ~nonblock[t]
  /\ waitRecv' = waitRecv \cup {t}
  /\ UNCHANGED <<queueVars, waitSend, callVars, fate>>

\* Faulty: the error overtakes the messages in the queue.
RecvErrorFirst(t) ==
  /\ Receiving(t) /\ errRecv # NoError
  /\ Return(t, errRecv)
  /\ UNCHANGED <<queueVars, condVars, fate>>

\* The error is returned only once the queue has been emptied.
RecvError(t) ==
  /\ Receiving(t) /\ IsEmpty /\ errRecv # NoError
  /\ Return(t, errRecv)
  /\ UNCHANGED <<queueVars, condVars, fate>>

RecvRead(t) ==
  /\ Receiving(t) /\ ~IsEmpty
  /\ fifo' = Tail(fifo)
  /\ fate' = [fate EXCEPT ![Head(fifo)] = "received"]
  /\ waitSend' \in AfterSignal(waitSend)
  /\ Return(t, NoError)
  /\ UNCHANGED <<errSend, errRecv, waitRecv>>

-----------------------------------------------------------------------------
(* av_thread_message_queue_set_err_send, _set_err_recv, _flush *)

SetErrSend(t, err) ==
  /\ pc[t] = "idle"
  /\ errSend' = err
  /\ waitSend' = AfterBroadcast(waitSend)
  /\ UNCHANGED <<fifo, errRecv, waitRecv, callVars, fate>>

SetErrRecv(t, err) ==
  /\ pc[t] = "idle"
  /\ errRecv' = err
  /\ waitRecv' = AfterBroadcast(waitRecv)
  /\ UNCHANGED <<fifo, errSend, waitSend, callVars, fate>>

Flush(t) ==
  /\ pc[t] = "idle"
  /\ fifo' = <<>>
  /\ fate' = [m \in Messages |->
                IF \E i \in DOMAIN fifo : fifo[i] = m
                THEN "flushed" ELSE fate[m]]
  /\ waitSend' = AfterBroadcast(waitSend)
  /\ UNCHANGED <<errSend, errRecv, waitRecv, callVars>>

\* POSIX lets a thread return from pthread_cond_wait without a signal.
SpuriousWakeup(t) ==
  \/ /\ t \in waitSend
     /\ waitSend' = waitSend \ {t}
     /\ UNCHANGED <<queueVars, waitRecv, callVars, fate>>
  \/ /\ t \in waitRecv
     /\ waitRecv' = waitRecv \ {t}
     /\ UNCHANGED <<queueVars, waitSend, callVars, fate>>

-----------------------------------------------------------------------------

\* av_thread_message_queue_alloc
Init ==
  /\ fifo = <<>>
  /\ errSend = NoError /\ errRecv = NoError
  /\ waitSend = {} /\ waitRecv = {}
  /\ pc = [t \in Threads |-> "idle"]
  /\ arg = [t \in Threads |-> NoMessage]
  /\ nonblock = [t \in Threads |-> FALSE]
  /\ ret = [t \in Threads |-> NoError]
  /\ fate = [m \in Messages |-> "new"]

SendStep(t) == SendAgain(t) \/ SendWait(t) \/ SendError(t) \/ SendWrite(t)
RecvStep(t) == RecvAgain(t) \/ RecvWait(t) \/ RecvError(t) \/ RecvRead(t)

Call(t) ==
  \/ \E m \in Messages, nb \in BOOLEAN : Send(t, m, nb)
  \/ \E nb \in BOOLEAN : Recv(t, nb)
  \/ \E err \in Errors \cup {NoError} : SetErrSend(t, err) \/ SetErrRecv(t, err)
  \/ Flush(t)

Next == \E t \in Threads :
          Call(t) \/ SendStep(t) \/ RecvStep(t) \/ SpuriousWakeup(t)

Spec == Init /\ [][Next]_vars

\* The scheduler runs every thread that is awake inside a call; nothing is
\* assumed of when clients call, nor of spurious wakeups.
FairSpec == Spec /\ \A t \in Threads : WF_vars(SendStep(t) \/ RecvStep(t))

-----------------------------------------------------------------------------

(***************************************************************************)
(* The types of the variables, and who may be where: only a thread inside  *)
(* a send holds a message to send or sleeps on cond_send, and only one     *)
(* inside a receive sleeps on cond_recv.                                   *)
(***************************************************************************)
TypeOK ==
  /\ fifo \in Seq(Messages)
  /\ errSend \in Errors \cup {NoError}
  /\ errRecv \in Errors \cup {NoError}
  /\ waitSend \subseteq {t \in Threads : pc[t] = "send"}
  /\ waitRecv \subseteq {t \in Threads : pc[t] = "recv"}
  /\ pc \in [Threads -> {"idle", "send", "recv"}]
  /\ arg \in [Threads -> Messages \cup {NoMessage}]
  /\ \A t \in Threads : pc[t] = "send" <=> arg[t] # NoMessage
  /\ nonblock \in [Threads -> BOOLEAN]
  /\ ret \in [Threads -> Codes]
  /\ fate \in [Messages -> Fates]

(***************************************************************************)
(* No lost wakeup for senders (av_thread_message_queue_send_locked waits   *)
(* on cond_send; a recv signals it once, a flush and set_err_send          *)
(* broadcast): while a sender is asleep the sending end is open, and every *)
(* free slot is already promised to a sender that is awake inside its call.*)
(***************************************************************************)
AwakeSenders == {t \in Threads : Sending(t)}

NoLostSendWakeup ==
  waitSend # {} =>
    /\ errSend = NoError
    /\ Capacity - Len(fifo) <= Cardinality(AwakeSenders)

(***************************************************************************)
(* The same for receivers: while one is asleep the receiving end is open   *)
(* and every message in the queue has an awake receiver to take it.        *)
(***************************************************************************)
AwakeReceivers == {t \in Threads : Receiving(t)}

NoLostRecvWakeup ==
  waitRecv # {} =>
    /\ errRecv = NoError
    /\ Len(fifo) <= Cardinality(AwakeReceivers)

(***************************************************************************)
(* Every message is accounted for exactly once: the queued ones are those  *)
(* in the FIFO, once each, and within the capacity; the ones being sent    *)
(* belong to exactly one thread.  A message that was received or flushed   *)
(* is thus never delivered again.                                          *)
(***************************************************************************)
Accounting ==
  /\ Len(fifo) <= Capacity
  /\ \A i, j \in DOMAIN fifo : fifo[i] = fifo[j] => i = j
  /\ \A m \in Messages :
       /\ fate[m] = "queued"  <=> \E i \in DOMAIN fifo : fifo[i] = m
       /\ fate[m] = "sending" <=> \E t \in Threads : arg[t] = m
  /\ \A t, u \in Threads : arg[t] = arg[u] /\ arg[t] # NoMessage => t = u

(***************************************************************************)
(* The queue implements the abstract channel, which has no mutex and no    *)
(* condition variables and in which a call takes effect in one step as     *)
(* soon as it can: a call that can go on and stays able to, returns.       *)
(***************************************************************************)
Channel == INSTANCE MessageChannel WITH queue <- fifo

ImplementsChannel == Channel!FairSpec

=============================================================================
