--------------------------- MODULE MessageChannel ---------------------------
(***************************************************************************)
(* What libavutil/threadmessage.h promises of a message queue: a bounded   *)
(* FIFO whose two ends can be closed with an error.  A call is invoked,    *)
(* and later takes effect and returns in one step, as soon as the state of *)
(* the channel lets it; a non-blocking call returns EAGAIN instead of      *)
(* waiting.  There are no locks and nothing to be woken.                   *)
(***************************************************************************)
EXTENDS Naturals, Sequences

CONSTANTS Threads, Messages, Capacity, Errors, NoError, EAGAIN, NoMessage

VARIABLES queue, errSend, errRecv, pc, arg, nonblock, ret, fate

vars == <<queue, errSend, errRecv, pc, arg, nonblock, ret, fate>>

Ends(t, code) ==
  /\ pc'       = [pc EXCEPT ![t] = "idle"]
  /\ ret'      = [ret EXCEPT ![t] = code]
  /\ arg'      = [arg EXCEPT ![t] = NoMessage]
  /\ nonblock' = [nonblock EXCEPT ![t] = FALSE]

InvokeSend(t, m, nb) ==
  /\ pc[t] = "idle" /\ fate[m] \in {"new", "refused"}
  /\ pc'       = [pc EXCEPT ![t] = "send"]
  /\ arg'      = [arg EXCEPT ![t] = m]
  /\ nonblock' = [nonblock EXCEPT ![t] = nb]
  /\ fate'     = [fate EXCEPT ![m] = "sending"]
  /\ UNCHANGED <<queue, errSend, errRecv, ret>>

InvokeRecv(t, nb) ==
  /\ pc[t] = "idle"
  /\ pc'       = [pc EXCEPT ![t] = "recv"]
  /\ nonblock' = [nonblock EXCEPT ![t] = nb]
  /\ UNCHANGED <<queue, errSend, errRecv, arg, ret, fate>>

SendEnds(t) ==
  /\ pc[t] = "send"
  /\ UNCHANGED <<errSend, errRecv>>
  /\ \/ /\ errSend = NoError /\ Len(queue) < Capacity
        /\ queue' = Append(queue, arg[t])
        /\ fate' = [fate EXCEPT ![arg[t]] = "queued"]
        /\ Ends(t, NoError)
     \/ /\ \/ errSend # NoError /\ Ends(t, errSend)
           \/ errSend = NoError /\ Len(queue) = Capacity /\ nonblock[t]
              /\ Ends(t, EAGAIN)
        /\ fate' = [fate EXCEPT ![arg[t]] = "refused"]
        /\ UNCHANGED queue

RecvEnds(t) ==
  /\ pc[t] = "recv"
  /\ UNCHANGED <<errSend, errRecv>>
  /\ \/ /\ queue # <<>>
        /\ queue' = Tail(queue)
        /\ fate' = [fate EXCEPT ![Head(queue)] = "received"]
        /\ Ends(t, NoError)
     \/ /\ queue = <<>>
        /\ \/ errRecv # NoError /\ Ends(t, errRecv)
           \/ errRecv = NoError /\ nonblock[t] /\ Ends(t, EAGAIN)
        /\ UNCHANGED <<queue, fate>>

CloseSend(t) ==
  /\ pc[t] = "idle"
  /\ errSend' \in Errors \cup {NoError}
  /\ UNCHANGED <<queue, errRecv, pc, arg, nonblock, ret, fate>>

CloseRecv(t) ==
  /\ pc[t] = "idle"
  /\ errRecv' \in Errors \cup {NoError}
  /\ UNCHANGED <<queue, errSend, pc, arg, nonblock, ret, fate>>

Discard(t) ==
  /\ pc[t] = "idle"
  /\ queue' = <<>>
  /\ fate' = [m \in Messages |->
                IF fate[m] = "queued" THEN "flushed" ELSE fate[m]]
  /\ UNCHANGED <<errSend, errRecv, pc, arg, nonblock, ret>>

Init ==
  /\ queue = <<>>
  /\ errSend = NoError /\ errRecv = NoError
  /\ pc = [t \in Threads |-> "idle"]
  /\ arg = [t \in Threads |-> NoMessage]
  /\ nonblock = [t \in Threads |-> FALSE]
  /\ ret = [t \in Threads |-> NoError]
  /\ fate = [m \in Messages |-> "new"]

Next ==
  \E t \in Threads :
    \/ \E m \in Messages, nb \in BOOLEAN : InvokeSend(t, m, nb)
    \/ \E nb \in BOOLEAN : InvokeRecv(t, nb)
    \/ SendEnds(t) \/ RecvEnds(t)
    \/ CloseSend(t) \/ CloseRecv(t) \/ Discard(t)

Spec == Init /\ [][Next]_vars

\* A call that can return, and stays able to, returns.
FairSpec == Spec /\ \A t \in Threads : WF_vars(SendEnds(t) \/ RecvEnds(t))

=============================================================================
