---------------------- MODULE ThreadMessageQueueProofs ----------------------
(***************************************************************************)
(* Proofs about ThreadMessageQueue: type correctness, that no wakeup is    *)
(* ever lost at either end of the queue, that every message is in one      *)
(* place, and that the queue implements the abstract channel; for any      *)
(* number of threads, any capacity and any mix of blocking and             *)
(* non-blocking calls, flushes, closings, re-openings and spurious         *)
(* wakeups.                                                                *)
(***************************************************************************)
EXTENDS ThreadMessageQueue, FiniteSetTheorems, SequenceTheorems, TLAPS

-----------------------------------------------------------------------------

(* Waking threads never adds a sleeper. *)
LEMMA WakeupsOnlyWake ==
  ASSUME NEW sleepers, NEW s \in AfterSignal(sleepers)
  PROVE  s \subseteq sleepers
BY DEF AfterSignal

(* Each step of a call to send keeps the types. *)
LEMMA SendStepTypes ==
  ASSUME TypeOK, NEW t \in Threads, SendStep(t)
  PROVE  TypeOK'
<1> USE DEF TypeOK, Fates, Codes, queueVars, condVars, callVars
<1>1. CASE SendAgain(t)
  BY <1>1, QueueAssumption DEF SendAgain, SendRefused, Return, Sending
<1>2. CASE SendWait(t)
  BY <1>2 DEF SendWait, Sending
<1>3. CASE SendError(t)
  BY <1>3, QueueAssumption DEF SendError, SendRefused, Return, Sending
<1>4. CASE SendWrite(t)
  <2>1. waitRecv' \subseteq waitRecv
    BY <1>4, WakeupsOnlyWake DEF SendWrite
  <2>2. fifo' \in Seq(Messages)
    <3>1. arg[t] \in Messages
      BY <1>4 DEF SendWrite, Sending
    <3> QED BY <1>4, <3>1, AppendProperties DEF SendWrite
  <2>3. UNCHANGED <<errSend, errRecv, waitSend>>
    BY <1>4 DEF SendWrite
  <2>4. pc[t] = "send" /\ t \notin waitSend /\ Return(t, NoError)
    BY <1>4 DEF SendWrite, Sending
  <2>5. fate' \in [Messages -> Fates]
    BY <1>4 DEF SendWrite
  <2> QED BY <2>1, <2>2, <2>3, <2>4, <2>5, QueueAssumption DEF Return
<1> QED BY <1>1, <1>2, <1>3, <1>4 DEF SendStep

(* Each step of a call to recv keeps the types. *)
LEMMA RecvStepTypes ==
  ASSUME TypeOK, NEW t \in Threads, RecvStep(t)
  PROVE  TypeOK'
<1> USE DEF TypeOK, Fates, Codes, queueVars, condVars, callVars
<1>1. CASE RecvAgain(t)
  BY <1>1, QueueAssumption DEF RecvAgain, Return, Receiving
<1>2. CASE RecvWait(t)
  BY <1>2 DEF RecvWait, Receiving
<1>3. CASE RecvError(t)
  BY <1>3, QueueAssumption DEF RecvError, Return, Receiving
<1>4. CASE RecvRead(t)
  <2>1. waitSend' \subseteq waitSend
    BY <1>4, WakeupsOnlyWake DEF RecvRead
  <2>2. fifo' \in Seq(Messages)
    <3>1. fifo # <<>>
      BY <1>4 DEF RecvRead, IsEmpty
    <3> QED BY <1>4, <3>1, HeadTailProperties DEF RecvRead
  <2>3. UNCHANGED <<errSend, errRecv, waitRecv>>
    BY <1>4 DEF RecvRead
  <2>4. pc[t] = "recv" /\ t \notin waitRecv /\ Return(t, NoError)
    BY <1>4 DEF RecvRead, Receiving
  <2>5. fate' \in [Messages -> Fates]
    BY <1>4 DEF RecvRead
  <2> QED BY <2>1, <2>2, <2>3, <2>4, <2>5, QueueAssumption DEF Return
<1> QED BY <1>1, <1>2, <1>3, <1>4 DEF RecvStep

(* Every other step keeps them too. *)
LEMMA CallTypes ==
  ASSUME TypeOK, NEW t \in Threads, Call(t) \/ SpuriousWakeup(t)
  PROVE  TypeOK'
<1> USE DEF TypeOK, Fates, Codes, queueVars, condVars, callVars
<1>1. ASSUME NEW m \in Messages, NEW nb \in BOOLEAN, Send(t, m, nb)
      PROVE TypeOK'
  BY <1>1, QueueAssumption DEF Send
<1>2. ASSUME NEW nb \in BOOLEAN, Recv(t, nb) PROVE TypeOK'
  BY <1>2 DEF Recv
<1>3. ASSUME NEW err \in Errors \cup {NoError},
             SetErrSend(t, err) \/ SetErrRecv(t, err)
      PROVE TypeOK'
  BY <1>3 DEF SetErrSend, SetErrRecv, AfterBroadcast
<1>4. CASE Flush(t)
  BY <1>4 DEF Flush, AfterBroadcast
<1>5. CASE SpuriousWakeup(t)
  BY <1>5 DEF SpuriousWakeup
<1> QED BY <1>1, <1>2, <1>3, <1>4, <1>5 DEF Call

(* Every variable keeps its type through every step of every call. *)
THEOREM TypeCorrect == Spec => []TypeOK
<1>1. Init => TypeOK
  BY QueueAssumption DEF Init, TypeOK, Fates, Codes
<1>2. TypeOK /\ [Next]_vars => TypeOK'
  <2>1. TypeOK /\ UNCHANGED vars => TypeOK'
    BY DEF TypeOK, vars, queueVars, condVars, callVars
  <2> QED BY <2>1, SendStepTypes, RecvStepTypes, CallTypes DEF Next
<1> QED BY <1>1, <1>2, PTL DEF Spec

-----------------------------------------------------------------------------

(* The sets of threads that are awake inside a call are finite. *)
LEMMA AwakeFinite ==
  /\ IsFiniteSet(AwakeSenders) /\ IsFiniteSet(AwakeSenders')
  /\ IsFiniteSet(AwakeReceivers) /\ IsFiniteSet(AwakeReceivers')
BY QueueAssumption, FS_Subset DEF AwakeSenders, AwakeReceivers

(***************************************************************************)
(* A signal wakes exactly one of a non-empty set of sleepers.              *)
(***************************************************************************)
LEMMA SignalWakesOne ==
  ASSUME NEW sleepers, NEW s \in AfterSignal(sleepers), s # {}
  PROVE  \E t \in sleepers : s = sleepers \ {t}
BY DEF AfterSignal

-----------------------------------------------------------------------------

(* Steps of a call to send keep every free slot promised to a sender. *)
LEMMA SendStepSlots ==
  ASSUME TypeOK, TypeOK', NoLostSendWakeup, NEW t \in Threads, SendStep(t)
  PROVE  NoLostSendWakeup'
<1> DEFINE A == AwakeSenders
<1> USE DEF queueVars, condVars, callVars
<1>0. /\ IsFiniteSet(A) /\ IsFiniteSet(A')
      /\ Cardinality(A) \in Nat /\ Cardinality(A') \in Nat
      /\ Len(fifo) \in Nat /\ Len(fifo') \in Nat /\ Capacity \in Nat
  BY AwakeFinite, FS_CardinalityType, QueueAssumption DEF TypeOK
<1>1. CASE SendAgain(t)
  <2>1. Capacity - Len(fifo') <= 0
    BY <1>0, <1>1 DEF SendAgain, SendRefused, SendBlocked, HasSpace
  <2>2. errSend' = errSend /\ waitSend' = waitSend
    BY <1>1 DEF SendAgain, SendRefused
  <2> QED BY <1>0, <2>1, <2>2 DEF NoLostSendWakeup
<1>2. CASE SendWait(t)
  <2>1. Capacity - Len(fifo') <= 0
    BY <1>0, <1>2 DEF SendWait, SendBlocked, HasSpace
  <2>2. errSend' = NoError
    BY <1>2 DEF SendWait, SendBlocked
  <2> QED BY <1>0, <2>1, <2>2 DEF NoLostSendWakeup
<1>3. CASE SendError(t)
  BY <1>3 DEF SendError, SendRefused, NoLostSendWakeup
<1>4. CASE SendWrite(t)
  <2>1. A' = A \ {t} /\ t \in A
    BY <1>4 DEF SendWrite, Return, AwakeSenders, Sending, TypeOK
  <2>2. Cardinality(A') = Cardinality(A) - 1
    BY <1>0, <2>1, FS_RemoveElement
  <2>3. Len(fifo') = Len(fifo) + 1
    <3>1. fifo' = Append(fifo, arg[t]) /\ arg[t] \in Messages
      BY <1>4 DEF SendWrite, Sending, TypeOK
    <3> QED BY <3>1, AppendProperties DEF TypeOK
  <2>4. errSend' = errSend /\ waitSend' = waitSend
    BY <1>4 DEF SendWrite
  <2> QED BY <1>0, <2>2, <2>3, <2>4 DEF NoLostSendWakeup
<1> QED BY <1>1, <1>2, <1>3, <1>4 DEF SendStep

(* Steps of a call to recv do too: the slot freed goes to the one woken. *)
LEMMA RecvStepSlots ==
  ASSUME TypeOK, TypeOK', NoLostSendWakeup, NEW t \in Threads, RecvStep(t)
  PROVE  NoLostSendWakeup'
<1> DEFINE A == AwakeSenders
<1> USE DEF queueVars, condVars, callVars
<1>0. /\ IsFiniteSet(A) /\ IsFiniteSet(A')
      /\ Cardinality(A) \in Nat /\ Cardinality(A') \in Nat
      /\ Len(fifo) \in Nat /\ Len(fifo') \in Nat /\ Capacity \in Nat
  BY AwakeFinite, FS_CardinalityType, QueueAssumption DEF TypeOK
<1>1. CASE RecvAgain(t) \/ RecvError(t)
  <2>1. A' = A
    BY <1>1 DEF RecvAgain, RecvError, Return, AwakeSenders, Sending,
                Receiving, TypeOK
  <2> QED BY <1>1, <2>1 DEF RecvAgain, RecvError, NoLostSendWakeup
<1>2. CASE RecvWait(t)
  <2>1. A' = A
    BY <1>2 DEF RecvWait, AwakeSenders, Sending
  <2> QED BY <1>2, <2>1 DEF RecvWait, NoLostSendWakeup
<1>3. CASE RecvRead(t)
  <2> SUFFICES ASSUME waitSend' # {}
               PROVE  /\ errSend' = NoError
                      /\ Capacity - Len(fifo') <= Cardinality(A')
    BY DEF NoLostSendWakeup
  <2>1. PICK u \in waitSend : waitSend' = waitSend \ {u}
    BY <1>3, SignalWakesOne DEF RecvRead
  <2>2. A' = A \cup {u} /\ u \notin A
    BY <1>3, <2>1 DEF RecvRead, Return, AwakeSenders, Sending, Receiving,
                      TypeOK
  <2>3. Cardinality(A') = Cardinality(A) + 1
    BY <1>0, <2>2, FS_AddElement
  <2>4. Len(fifo') = Len(fifo) - 1
    <3>1. fifo # <<>> /\ fifo' = Tail(fifo)
      BY <1>3 DEF RecvRead, IsEmpty
    <3> QED BY <3>1, HeadTailProperties DEF TypeOK
  <2>5. errSend' = NoError /\ Capacity - Len(fifo) <= Cardinality(A)
    BY <1>3, <2>1 DEF RecvRead, NoLostSendWakeup
  <2> QED BY <1>0, <2>3, <2>4, <2>5
<1> QED BY <1>1, <1>2, <1>3 DEF RecvStep

(* A call that begins, a closing, a flush or a spurious wakeup only adds   *)
(* awake senders, or wakes them all.                                       *)
LEMMA CallSlots ==
  ASSUME TypeOK, TypeOK', NoLostSendWakeup, NEW t \in Threads,
         Call(t) \/ SpuriousWakeup(t)
  PROVE  NoLostSendWakeup'
<1> DEFINE A == AwakeSenders
<1> USE DEF queueVars, condVars, callVars
<1>1. /\ IsFiniteSet(A) /\ IsFiniteSet(A')
      /\ Cardinality(A) \in Nat /\ Cardinality(A') \in Nat
      /\ Len(fifo) \in Nat /\ Capacity \in Nat
  BY AwakeFinite, FS_CardinalityType, QueueAssumption DEF TypeOK
<1>2. ASSUME A \subseteq A', waitSend' \subseteq waitSend,
             UNCHANGED <<fifo, errSend>>
      PROVE  NoLostSendWakeup'
  <2>1. Cardinality(A) <= Cardinality(A')
    BY <1>1, <1>2, FS_Subset
  <2> QED BY <1>1, <1>2, <2>1 DEF NoLostSendWakeup
<1>3. ASSUME NEW m \in Messages, NEW nb \in BOOLEAN, Send(t, m, nb)
      PROVE  A \subseteq A' /\ UNCHANGED <<waitSend, fifo, errSend>>
  BY <1>3 DEF Send, AwakeSenders, Sending, TypeOK
<1>4. ASSUME NEW nb \in BOOLEAN, Recv(t, nb)
      PROVE  A \subseteq A' /\ UNCHANGED <<waitSend, fifo, errSend>>
  BY <1>4 DEF Recv, AwakeSenders, Sending, TypeOK
<1>5. ASSUME NEW err \in Errors \cup {NoError}, SetErrRecv(t, err)
      PROVE  A \subseteq A' /\ UNCHANGED <<waitSend, fifo, errSend>>
  BY <1>5 DEF SetErrRecv, AwakeSenders, Sending
<1>6. ASSUME NEW err \in Errors \cup {NoError}, SetErrSend(t, err)
      PROVE  NoLostSendWakeup'
  BY <1>6 DEF SetErrSend, AfterBroadcast, NoLostSendWakeup
<1>7. CASE Flush(t)
  BY <1>7 DEF Flush, AfterBroadcast, NoLostSendWakeup
<1>8. CASE SpuriousWakeup(t)
  <2>1. /\ A \subseteq A' /\ waitSend' \subseteq waitSend
        /\ UNCHANGED <<fifo, errSend>>
    BY <1>8 DEF SpuriousWakeup, AwakeSenders, Sending
  <2> QED BY <2>1, <1>2
<1> QED BY <1>2, <1>3, <1>4, <1>5, <1>6, <1>7, <1>8 DEF Call

(* Together: no sender sleeps through its wakeup, whatever the threads do. *)
THEOREM SendersWoken == Spec => []NoLostSendWakeup
<1>1. Init => NoLostSendWakeup
  BY DEF Init, NoLostSendWakeup
<1>2. TypeOK /\ TypeOK' /\ NoLostSendWakeup /\ [Next]_vars => NoLostSendWakeup'
  <2>1. NoLostSendWakeup /\ UNCHANGED vars => NoLostSendWakeup'
    BY DEF NoLostSendWakeup, AwakeSenders, Sending, vars, queueVars,
           condVars, callVars
  <2> QED BY <2>1, SendStepSlots, RecvStepSlots, CallSlots DEF Next
<1> QED BY <1>1, <1>2, TypeCorrect, PTL DEF Spec

-----------------------------------------------------------------------------

(* The message a send adds goes to the receiver its signal wakes.          *)
LEMMA SendStepMessages ==
  ASSUME TypeOK, TypeOK', NoLostRecvWakeup, NEW t \in Threads, SendStep(t)
  PROVE  NoLostRecvWakeup'
<1> DEFINE A == AwakeReceivers
<1> USE DEF queueVars, condVars, callVars
<1>0. /\ IsFiniteSet(A) /\ IsFiniteSet(A')
      /\ Cardinality(A) \in Nat /\ Cardinality(A') \in Nat
      /\ Len(fifo) \in Nat /\ Len(fifo') \in Nat
  BY AwakeFinite, FS_CardinalityType DEF TypeOK
<1>1. CASE SendAgain(t) \/ SendError(t)
  <2>1. A' = A
    BY <1>1 DEF SendAgain, SendError, SendRefused, Return, AwakeReceivers,
                Receiving, Sending, TypeOK
  <2> QED BY <1>1, <2>1 DEF SendAgain, SendError, SendRefused, NoLostRecvWakeup
<1>2. CASE SendWait(t)
  <2>1. A' = A
    BY <1>2 DEF SendWait, AwakeReceivers, Receiving
  <2> QED BY <1>2, <2>1 DEF SendWait, NoLostRecvWakeup
<1>3. CASE SendWrite(t)
  <2> SUFFICES ASSUME waitRecv' # {}
               PROVE  errRecv' = NoError /\ Len(fifo') <= Cardinality(A')
    BY DEF NoLostRecvWakeup
  <2>1. PICK u \in waitRecv : waitRecv' = waitRecv \ {u}
    BY <1>3, SignalWakesOne DEF SendWrite
  <2>2. A' = A \cup {u} /\ u \notin A
    BY <1>3, <2>1 DEF SendWrite, Return, AwakeReceivers, Receiving, Sending,
                      TypeOK
  <2>3. Cardinality(A') = Cardinality(A) + 1
    BY <1>0, <2>2, FS_AddElement
  <2>4. Len(fifo') = Len(fifo) + 1
    <3>1. fifo' = Append(fifo, arg[t]) /\ arg[t] \in Messages
      BY <1>3 DEF SendWrite, Sending, TypeOK
    <3> QED BY <3>1, AppendProperties DEF TypeOK
  <2>5. errRecv' = NoError /\ Len(fifo) <= Cardinality(A)
    BY <1>3, <2>1 DEF SendWrite, NoLostRecvWakeup
  <2> QED BY <1>0, <2>3, <2>4, <2>5
<1> QED BY <1>1, <1>2, <1>3 DEF SendStep

(* A receiver that goes leaves an empty queue or takes its message.        *)
LEMMA RecvStepMessages ==
  ASSUME TypeOK, TypeOK', NoLostRecvWakeup, NEW t \in Threads, RecvStep(t)
  PROVE  NoLostRecvWakeup'
<1> DEFINE A == AwakeReceivers
<1> USE DEF queueVars, condVars, callVars
<1>0. /\ IsFiniteSet(A) /\ IsFiniteSet(A')
      /\ Cardinality(A) \in Nat /\ Cardinality(A') \in Nat
      /\ Len(fifo) \in Nat /\ Len(fifo') \in Nat
  BY AwakeFinite, FS_CardinalityType DEF TypeOK
<1>1. CASE RecvAgain(t) \/ RecvError(t)
  BY <1>0, <1>1 DEF RecvAgain, RecvError, RecvBlocked, IsEmpty, NoLostRecvWakeup
<1>2. CASE RecvWait(t)
  BY <1>0, <1>2 DEF RecvWait, RecvBlocked, IsEmpty, NoLostRecvWakeup
<1>3. CASE RecvRead(t)
  <2>1. A' = A \ {t} /\ t \in A
    BY <1>3 DEF RecvRead, Return, AwakeReceivers, Receiving, TypeOK
  <2>2. Cardinality(A') = Cardinality(A) - 1
    BY <1>0, <2>1, FS_RemoveElement
  <2>3. Len(fifo') = Len(fifo) - 1
    <3>1. fifo # <<>> /\ fifo' = Tail(fifo)
      BY <1>3 DEF RecvRead, IsEmpty
    <3> QED BY <3>1, HeadTailProperties DEF TypeOK
  <2>4. errRecv' = errRecv /\ waitRecv' = waitRecv
    BY <1>3 DEF RecvRead
  <2> QED BY <1>0, <2>2, <2>3, <2>4 DEF NoLostRecvWakeup
<1> QED BY <1>1, <1>2, <1>3 DEF RecvStep

(* A call that begins, a closing, a flush or a spurious wakeup only adds   *)
(* awake receivers, wakes them all, or empties the queue.                  *)
LEMMA CallMessages ==
  ASSUME TypeOK, TypeOK', NoLostRecvWakeup, NEW t \in Threads,
         Call(t) \/ SpuriousWakeup(t)
  PROVE  NoLostRecvWakeup'
<1> DEFINE A == AwakeReceivers
<1> USE DEF queueVars, condVars, callVars
<1>1. /\ IsFiniteSet(A) /\ IsFiniteSet(A')
      /\ Cardinality(A) \in Nat /\ Cardinality(A') \in Nat
      /\ Len(fifo) \in Nat /\ Len(fifo') \in Nat
  BY AwakeFinite, FS_CardinalityType DEF TypeOK
<1>2. ASSUME A \subseteq A', waitRecv' \subseteq waitRecv,
             Len(fifo') <= Len(fifo), errRecv' = errRecv
      PROVE  NoLostRecvWakeup'
  <2>1. Cardinality(A) <= Cardinality(A')
    BY <1>1, <1>2, FS_Subset
  <2> QED BY <1>1, <1>2, <2>1 DEF NoLostRecvWakeup
<1>3. ASSUME NEW m \in Messages, NEW nb \in BOOLEAN, Send(t, m, nb)
      PROVE  A \subseteq A' /\ UNCHANGED <<waitRecv, fifo, errRecv>>
  BY <1>3 DEF Send, AwakeReceivers, Receiving, TypeOK
<1>4. ASSUME NEW nb \in BOOLEAN, Recv(t, nb)
      PROVE  A \subseteq A' /\ UNCHANGED <<waitRecv, fifo, errRecv>>
  BY <1>4 DEF Recv, AwakeReceivers, Receiving, TypeOK
<1>5. ASSUME NEW err \in Errors \cup {NoError}, SetErrSend(t, err)
      PROVE  A \subseteq A' /\ UNCHANGED <<waitRecv, fifo, errRecv>>
  BY <1>5 DEF SetErrSend, AwakeReceivers, Receiving
<1>6. ASSUME NEW err \in Errors \cup {NoError}, SetErrRecv(t, err)
      PROVE  NoLostRecvWakeup'
  BY <1>6 DEF SetErrRecv, AfterBroadcast, NoLostRecvWakeup
<1>7. CASE Flush(t)
  <2>1. A \subseteq A' /\ UNCHANGED <<waitRecv, errRecv>> /\ fifo' = <<>>
    BY <1>7 DEF Flush, AwakeReceivers, Receiving
  <2>2. Len(fifo') <= Len(fifo)
    BY <1>1, <2>1
  <2> QED BY <2>1, <2>2, <1>2
<1>8. CASE SpuriousWakeup(t)
  <2>1. /\ A \subseteq A' /\ waitRecv' \subseteq waitRecv
        /\ UNCHANGED <<fifo, errRecv>>
    BY <1>8 DEF SpuriousWakeup, AwakeReceivers, Receiving
  <2> QED BY <1>1, <2>1, <1>2
<1> QED BY <1>1, <1>2, <1>3, <1>4, <1>5, <1>6, <1>7, <1>8 DEF Call

(* Together: no receiver sleeps through its wakeup.                        *)
THEOREM ReceiversWoken == Spec => []NoLostRecvWakeup
<1>1. Init => NoLostRecvWakeup
  BY DEF Init, NoLostRecvWakeup
<1>2. TypeOK /\ TypeOK' /\ NoLostRecvWakeup /\ [Next]_vars => NoLostRecvWakeup'
  <2>1. NoLostRecvWakeup /\ UNCHANGED vars => NoLostRecvWakeup'
    BY DEF NoLostRecvWakeup, AwakeReceivers, Receiving, vars, queueVars,
           condVars, callVars
  <2> QED BY <2>1, SendStepMessages, RecvStepMessages, CallMessages DEF Next
<1> QED BY <1>1, <1>2, TypeCorrect, PTL DEF Spec

-----------------------------------------------------------------------------

(* A step that leaves the queue alone keeps the books if the messages of   *)
(* the threads are the ones marked as being sent.                          *)
LEMMA FifoKept ==
  ASSUME Accounting, fifo' = fifo,
         \A m \in Messages : fate'[m] = "queued" <=> fate[m] = "queued",
         \A m \in Messages : fate'[m] = "sending" <=> \E t \in Threads : arg'[t] = m,
         \A t, u \in Threads : arg'[t] = arg'[u] /\ arg'[t] # NoMessage => t = u
  PROVE  Accounting'
BY DEF Accounting

(* A send that is refused takes its message out of the books of the sends. *)
LEMMA RefusedAccounts ==
  ASSUME TypeOK, Accounting, NEW t \in Threads, NEW code,
         Sending(t), SendRefused(t, code)
  PROVE  Accounting'
<1>1. /\ arg[t] \in Messages
      /\ arg' = [arg EXCEPT ![t] = NoMessage]
      /\ fate' = [fate EXCEPT ![arg[t]] = "refused"]
      /\ fifo' = fifo
  BY DEF TypeOK, Sending, SendRefused, Return, queueVars
<1>2. fate[arg[t]] = "sending"
  BY <1>1 DEF Accounting
<1>3. \A m \in Messages : fate'[m] = "queued" <=> fate[m] = "queued"
  BY <1>1, <1>2 DEF TypeOK
<1>4. \A m \in Messages : fate'[m] = "sending" <=> \E u \in Threads : arg'[u] = m
  BY <1>1, QueueAssumption DEF TypeOK, Accounting
<1>5. \A u, v \in Threads : arg'[u] = arg'[v] /\ arg'[u] # NoMessage => u = v
  BY <1>1 DEF TypeOK, Accounting
<1> QED BY <1>1, <1>3, <1>4, <1>5, FifoKept

(* A message that is queued was not in the queue, which had a free slot.   *)
LEMMA WriteAccounts ==
  ASSUME TypeOK, Accounting, NEW t \in Threads, SendWrite(t)
  PROVE  Accounting'
<1> DEFINE n == Len(fifo)
<1>1. /\ arg[t] \in Messages
      /\ arg' = [arg EXCEPT ![t] = NoMessage]
      /\ fate' = [fate EXCEPT ![arg[t]] = "queued"]
      /\ fifo' = Append(fifo, arg[t])
      /\ n < Capacity
  BY DEF TypeOK, SendWrite, Sending, Return, HasSpace
<1>2. /\ n \in Nat /\ Len(fifo') = n + 1
      /\ DOMAIN fifo = 1 .. n /\ DOMAIN fifo' = 1 .. n + 1
      /\ \A i \in 1 .. n : fifo'[i] = fifo[i]
      /\ fifo'[n + 1] = arg[t]
  <2>1. fifo \in Seq(Messages) /\ fifo' \in Seq(Messages)
    BY <1>1, AppendProperties DEF TypeOK
  <2> QED BY <1>1, <2>1, AppendProperties, LenProperties
<1>3. fate[arg[t]] = "sending"
  BY <1>1 DEF Accounting
<1>4. \A i \in 1 .. n : fifo[i] # arg[t]
  BY <1>1, <1>2, <1>3 DEF Accounting
<1>5. Len(fifo') <= Capacity
  BY <1>1, <1>2, QueueAssumption
<1>6. \A i, j \in DOMAIN fifo' : fifo'[i] = fifo'[j] => i = j
  <2>1. \A i, j \in 1 .. n : fifo[i] = fifo[j] => i = j
    BY <1>2 DEF Accounting
  <2>2. \A i \in 1 .. n + 1 : i \in 1 .. n \/ i = n + 1
    BY <1>2
  <2> QED BY <1>2, <1>4, <2>1, <2>2
<1>7. \A m \in Messages : fate'[m] = "queued" <=> \E i \in DOMAIN fifo' : fifo'[i] = m
  <2> SUFFICES ASSUME NEW m \in Messages
               PROVE  fate'[m] = "queued" <=> \E i \in DOMAIN fifo' : fifo'[i] = m
    OBVIOUS
  <2>1. CASE m = arg[t]
    <3>1. fate'[m] = "queued"
      BY <1>1, <2>1 DEF TypeOK
    <3>2. n + 1 \in DOMAIN fifo'
      BY <1>2
    <3> QED BY <1>2, <2>1, <3>1, <3>2
  <2>2. CASE m # arg[t]
    <3>1. fate'[m] = fate[m]
      BY <1>1, <2>2 DEF TypeOK
    <3>2. (\E i \in 1 .. n + 1 : fifo'[i] = m) <=> \E i \in 1 .. n : fifo[i] = m
      BY <1>2, <2>2
    <3> QED BY <1>2, <3>1, <3>2 DEF Accounting
  <2> QED BY <2>1, <2>2
<1>8. \A m \in Messages : fate'[m] = "sending" <=> \E u \in Threads : arg'[u] = m
  BY <1>1, QueueAssumption DEF TypeOK, Accounting
<1>9. \A u, v \in Threads : arg'[u] = arg'[v] /\ arg'[u] # NoMessage => u = v
  BY <1>1 DEF TypeOK, Accounting
<1> QED BY <1>5, <1>6, <1>7, <1>8, <1>9 DEF Accounting

(* A message that is received was the first, and is nowhere else.          *)
LEMMA ReadAccounts ==
  ASSUME TypeOK, Accounting, NEW t \in Threads, RecvRead(t)
  PROVE  Accounting'
<1> DEFINE n == Len(fifo)
<1>1. /\ arg[t] = NoMessage
      /\ arg' = [arg EXCEPT ![t] = NoMessage]
      /\ fate' = [fate EXCEPT ![Head(fifo)] = "received"]
      /\ fifo' = Tail(fifo)
      /\ fifo # <<>>
  BY DEF TypeOK, RecvRead, Receiving, Return, IsEmpty
<1>2. /\ n \in Nat \ {0} /\ Len(fifo') = n - 1
      /\ DOMAIN fifo = 1 .. n /\ DOMAIN fifo' = 1 .. n - 1
      /\ \A i \in 1 .. n - 1 : fifo'[i] = fifo[i + 1]
      /\ Head(fifo) = fifo[1] /\ Head(fifo) \in Messages
  <2>1. fifo \in Seq(Messages) /\ fifo' \in Seq(Messages)
    BY <1>1, HeadTailProperties DEF TypeOK
  <2>2. Len(fifo') = n - 1 /\ n \in Nat \ {0}
    BY <1>1, <2>1, HeadTailProperties, EmptySeq
  <2>3. DOMAIN fifo = 1 .. n /\ DOMAIN fifo' = 1 .. n - 1
    BY <2>1, <2>2, LenProperties
  <2> QED BY <1>1, <2>1, <2>2, <2>3, HeadTailProperties
<1>3. arg' = arg
  BY <1>1 DEF TypeOK
<1>4. fate[Head(fifo)] = "queued"
  BY <1>2 DEF Accounting
<1>5. Len(fifo') <= Capacity
  BY <1>2, QueueAssumption DEF Accounting
<1>6. \A i, j \in DOMAIN fifo' : fifo'[i] = fifo'[j] => i = j
  <2> SUFFICES ASSUME NEW i \in 1 .. n - 1, NEW j \in 1 .. n - 1, fifo'[i] = fifo'[j]
               PROVE  i = j
    BY <1>2
  <2>1. i + 1 \in 1 .. n /\ j + 1 \in 1 .. n
    BY <1>2
  <2>2. fifo[i + 1] = fifo[j + 1]
    BY <1>2
  <2>3. i + 1 = j + 1
    BY <1>2, <2>1, <2>2 DEF Accounting
  <2> QED BY <2>3
<1>7. \A m \in Messages : fate'[m] = "queued" <=> \E i \in DOMAIN fifo' : fifo'[i] = m
  <2> SUFFICES ASSUME NEW m \in Messages
               PROVE  fate'[m] = "queued" <=> \E i \in 1 .. n - 1 : fifo[i + 1] = m
    BY <1>2
  <2>1. CASE m = Head(fifo)
    <3>1. fate'[m] # "queued"
      BY <1>1, <2>1 DEF TypeOK
    <3>2. \A i \in 1 .. n - 1 : fifo[i + 1] # m
      <4> SUFFICES ASSUME NEW i \in 1 .. n - 1, fifo[i + 1] = m PROVE FALSE
        OBVIOUS
      <4>1. i + 1 \in 1 .. n /\ 1 \in 1 .. n /\ i + 1 # 1
        BY <1>2
      <4> QED BY <1>2, <2>1, <4>1 DEF Accounting
    <3> QED BY <3>1, <3>2
  <2>2. CASE m # Head(fifo)
    <3>1. fate'[m] = fate[m]
      BY <1>1, <2>2 DEF TypeOK
    <3>2. (\E i \in 1 .. n : fifo[i] = m) <=> \E i \in 1 .. n - 1 : fifo[i + 1] = m
      <4>1. ASSUME NEW i \in 1 .. n, fifo[i] = m
            PROVE  \E k \in 1 .. n - 1 : fifo[k + 1] = m
        <5>1. i # 1
          BY <1>2, <2>2, <4>1
        <5>2. i - 1 \in 1 .. n - 1 /\ (i - 1) + 1 = i
          BY <1>2, <5>1
        <5> QED BY <4>1, <5>2
      <4>2. ASSUME NEW i \in 1 .. n - 1, fifo[i + 1] = m
            PROVE  \E k \in 1 .. n : fifo[k] = m
        <5>1. i + 1 \in 1 .. n
          BY <1>2
        <5> QED BY <4>2, <5>1
      <4> QED BY <4>1, <4>2
    <3> QED BY <1>2, <3>1, <3>2 DEF Accounting
  <2> QED BY <2>1, <2>2
<1>8. \A m \in Messages : fate'[m] = "sending" <=> \E u \in Threads : arg'[u] = m
  <2>1. \A m \in Messages : fate'[m] = "sending" <=> fate[m] = "sending"
    BY <1>1, <1>2, <1>4 DEF TypeOK
  <2> QED BY <1>3, <2>1 DEF Accounting
<1>9. \A u, v \in Threads : arg'[u] = arg'[v] /\ arg'[u] # NoMessage => u = v
  BY <1>3 DEF Accounting
<1> QED BY <1>5, <1>6, <1>7, <1>8, <1>9 DEF Accounting

(* The beginning of a send, and a flush, are the other steps that move     *)
(* messages.                                                               *)
LEMMA SendAccounts ==
  ASSUME TypeOK, Accounting, NEW t \in Threads, NEW m \in Messages,
         NEW nb \in BOOLEAN, Send(t, m, nb)
  PROVE  Accounting'
<1>1. /\ arg[t] = NoMessage
      /\ arg' = [arg EXCEPT ![t] = m]
      /\ fate' = [fate EXCEPT ![m] = "sending"]
      /\ fifo' = fifo
      /\ fate[m] # "queued" /\ fate[m] # "sending"
  BY DEF TypeOK, Send, queueVars
<1>2. \A u \in Threads : arg[u] # m
  BY <1>1 DEF Accounting
<1>3. \A k \in Messages : fate'[k] = "queued" <=> fate[k] = "queued"
  BY <1>1 DEF TypeOK
<1>4. \A k \in Messages : fate'[k] = "sending" <=> \E u \in Threads : arg'[u] = k
  BY <1>1, QueueAssumption DEF TypeOK, Accounting
<1>5. \A u, v \in Threads : arg'[u] = arg'[v] /\ arg'[u] # NoMessage => u = v
  BY <1>1, <1>2 DEF TypeOK, Accounting
<1> QED BY <1>1, <1>3, <1>4, <1>5, FifoKept

(* A flush frees what is in the queue, and nothing else. *)
LEMMA FlushAccounts ==
  ASSUME TypeOK, Accounting, NEW t \in Threads, Flush(t)
  PROVE  Accounting'
<1>1. /\ fifo' = <<>> /\ arg' = arg
      /\ fate' = [m \in Messages |->
                    IF \E i \in DOMAIN fifo : fifo[i] = m
                    THEN "flushed" ELSE fate[m]]
  BY DEF Flush, callVars
<1>2. Len(fifo') <= Capacity /\ DOMAIN fifo' = {}
  BY <1>1, QueueAssumption
<1>3. \A m \in Messages : fate'[m] # "queued"
  BY <1>1 DEF Accounting
<1>4. \A m \in Messages : fate'[m] = "sending" <=> fate[m] = "sending"
  BY <1>1 DEF Accounting
<1> QED BY <1>1, <1>2, <1>3, <1>4 DEF Accounting

(* Every message is in one place, and leaves the queue for good.           *)
THEOREM Accounted == Spec => []Accounting
<1>1. Init => Accounting
  BY QueueAssumption DEF Init, Accounting
<1>2. TypeOK /\ Accounting /\ [Next]_vars => Accounting'
  <2> SUFFICES ASSUME TypeOK, Accounting, [Next]_vars PROVE Accounting'
    OBVIOUS
  <2>1. ASSUME fifo' = fifo, arg' = arg, fate' = fate PROVE Accounting'
    BY <2>1 DEF Accounting
  <2>2. CASE UNCHANGED vars
    BY <2>1, <2>2 DEF vars, queueVars, callVars
  <2>3. ASSUME NEW t \in Threads, SendStep(t) PROVE Accounting'
    <3>1. CASE SendAgain(t)
      BY <3>1, RefusedAccounts DEF SendAgain
    <3>2. CASE SendWait(t)
      BY <2>1, <3>2 DEF SendWait, queueVars, callVars
    <3>3. CASE SendError(t)
      BY <3>3, RefusedAccounts DEF SendError
    <3> QED BY <2>3, <3>1, <3>2, <3>3, WriteAccounts DEF SendStep
  <2>4. ASSUME NEW t \in Threads, RecvStep(t) PROVE Accounting'
    <3>1. ASSUME NEW code, Receiving(t), Return(t, code), UNCHANGED <<fifo, fate>>
          PROVE  Accounting'
      <4>1. arg' = arg
        BY <3>1 DEF Return, Receiving, TypeOK
      <4> QED BY <2>1, <3>1, <4>1
    <3>2. CASE RecvAgain(t)
      BY <3>1, <3>2 DEF RecvAgain, queueVars
    <3>3. CASE RecvWait(t)
      BY <2>1, <3>3 DEF RecvWait, queueVars, callVars
    <3>4. CASE RecvError(t)
      BY <3>1, <3>4 DEF RecvError, queueVars
    <3> QED BY <2>4, <3>2, <3>3, <3>4, ReadAccounts DEF RecvStep
  <2>5. ASSUME NEW t \in Threads, Call(t) PROVE Accounting'
    <3>1. ASSUME NEW nb \in BOOLEAN, Recv(t, nb) PROVE Accounting'
      BY <2>1, <3>1 DEF Recv, queueVars
    <3>2. ASSUME NEW err \in Errors \cup {NoError}, SetErrSend(t, err) \/ SetErrRecv(t, err)
          PROVE  Accounting'
      BY <2>1, <3>2 DEF SetErrSend, SetErrRecv, callVars
    <3> QED BY <2>5, <3>1, <3>2, SendAccounts, FlushAccounts DEF Call
  <2>6. ASSUME NEW t \in Threads, SpuriousWakeup(t) PROVE Accounting'
    BY <2>1, <2>6 DEF SpuriousWakeup, queueVars, callVars
  <2> QED BY <2>2, <2>3, <2>4, <2>5, <2>6 DEF Next
<1> QED BY <1>1, <1>2, TypeCorrect, PTL DEF Spec

-----------------------------------------------------------------------------

(* A pass through the loop of a send is the end of the call or invisible.  *)
LEMMA SendStepMaps ==
  ASSUME TypeOK, Accounting, NEW t \in Threads, SendStep(t)
  PROVE  Channel!SendEnds(t) \/ UNCHANGED Channel!vars
<1> USE DEF queueVars, condVars, callVars
<1>1. CASE SendAgain(t)
  <2>1. Len(fifo) = Capacity
    <3>1. Len(fifo) \in Nat /\ Len(fifo) <= Capacity /\ ~(Len(fifo) < Capacity)
      BY <1>1 DEF TypeOK, Accounting, SendAgain, SendBlocked, HasSpace
    <3> QED BY <3>1, QueueAssumption
  <2>2. Channel!Ends(t, EAGAIN)
    BY <1>1 DEF SendAgain, SendRefused, Return, Channel!Ends
  <2> QED BY <1>1, <2>1, <2>2 DEF SendAgain, SendRefused, SendBlocked, Sending,
             Channel!SendEnds
<1>2. CASE SendWait(t)
  BY <1>2 DEF SendWait, Channel!vars
<1>3. CASE SendError(t)
  <2>1. Channel!Ends(t, errSend)
    BY <1>3 DEF SendError, SendRefused, Return, Channel!Ends
  <2> QED BY <1>3, <2>1 DEF SendError, SendRefused, Sending, Channel!SendEnds
<1>4. CASE SendWrite(t)
  <2>1. Channel!Ends(t, NoError)
    BY <1>4 DEF SendWrite, Return, Channel!Ends
  <2> QED BY <1>4, <2>1 DEF SendWrite, Sending, HasSpace, Channel!SendEnds
<1> QED BY <1>1, <1>2, <1>3, <1>4 DEF SendStep

(* So is a pass through the loop of a receive.                             *)
LEMMA RecvStepMaps ==
  ASSUME TypeOK, NEW t \in Threads, RecvStep(t)
  PROVE  Channel!RecvEnds(t) \/ UNCHANGED Channel!vars
<1> USE DEF queueVars, condVars, callVars
<1>0. IsEmpty <=> fifo = <<>>
  BY EmptySeq DEF TypeOK, IsEmpty
<1>1. CASE RecvAgain(t)
  <2>1. Channel!Ends(t, EAGAIN)
    BY <1>1 DEF RecvAgain, Return, Channel!Ends
  <2> QED BY <1>0, <1>1, <2>1 DEF RecvAgain, RecvBlocked, Receiving, Channel!RecvEnds
<1>2. CASE RecvWait(t)
  BY <1>2 DEF RecvWait, Channel!vars
<1>3. CASE RecvError(t)
  <2>1. Channel!Ends(t, errRecv)
    BY <1>3 DEF RecvError, Return, Channel!Ends
  <2> QED BY <1>0, <1>3, <2>1 DEF RecvError, Receiving, Channel!RecvEnds
<1>4. CASE RecvRead(t)
  <2>1. Channel!Ends(t, NoError)
    BY <1>4 DEF RecvRead, Return, Channel!Ends
  <2> QED BY <1>0, <1>4, <2>1 DEF RecvRead, Receiving, Channel!RecvEnds
<1> QED BY <1>1, <1>2, <1>3, <1>4 DEF RecvStep

(* Every other step is a step of the channel or invisible; a flush takes   *)
(* exactly the messages that the channel calls queued.                     *)
LEMMA CallMaps ==
  ASSUME TypeOK, Accounting, NEW t \in Threads, Call(t)
  PROVE  [Channel!Next]_(Channel!vars)
<1> USE DEF queueVars, condVars, callVars
<1>1. ASSUME NEW m \in Messages, NEW nb \in BOOLEAN, Send(t, m, nb)
      PROVE  Channel!InvokeSend(t, m, nb)
  BY <1>1 DEF Send, Channel!InvokeSend
<1>2. ASSUME NEW nb \in BOOLEAN, Recv(t, nb)
      PROVE  Channel!InvokeRecv(t, nb)
  BY <1>2 DEF Recv, Channel!InvokeRecv
<1>3. ASSUME NEW err \in Errors \cup {NoError}, SetErrSend(t, err)
      PROVE  Channel!CloseSend(t)
  BY <1>3 DEF SetErrSend, Channel!CloseSend
<1>4. ASSUME NEW err \in Errors \cup {NoError}, SetErrRecv(t, err)
      PROVE  Channel!CloseRecv(t)
  BY <1>4 DEF SetErrRecv, Channel!CloseRecv
<1>5. CASE Flush(t)
  <2>1. \A m \in Messages : fate[m] = "queued" <=> \E i \in DOMAIN fifo : fifo[i] = m
    BY DEF Accounting
  <2>2. fate' = [m \in Messages |-> IF fate[m] = "queued" THEN "flushed" ELSE fate[m]]
    BY <1>5, <2>1 DEF Flush
  <2>3. Channel!Discard(t)
    BY <1>5, <2>2 DEF Flush, Channel!Discard
  <2> QED BY <2>3 DEF Channel!Next
<1> QED BY <1>1, <1>2, <1>3, <1>4, <1>5 DEF Call, Channel!Next

(* The queue implements the abstract channel (MessageChannel), its safety  *)
(* part: what clients see of av_thread_message_queue_send, _recv, the      *)
(* errors and the flush is a bounded FIFO with two ends that close.        *)
THEOREM Implements == Spec => Channel!Spec
<1>1. Init => Channel!Init
  BY DEF Init, Channel!Init
<1>2. TypeOK /\ Accounting /\ [Next]_vars => [Channel!Next]_(Channel!vars)
  <2> SUFFICES ASSUME TypeOK, Accounting, [Next]_vars
               PROVE  [Channel!Next]_(Channel!vars)
    OBVIOUS
  <2>1. CASE UNCHANGED vars
    BY <2>1 DEF vars, queueVars, callVars, Channel!vars
  <2>2. ASSUME NEW t \in Threads, SendStep(t) PROVE [Channel!Next]_(Channel!vars)
    BY <2>2, SendStepMaps DEF Channel!Next
  <2>3. ASSUME NEW t \in Threads, RecvStep(t) PROVE [Channel!Next]_(Channel!vars)
    BY <2>3, RecvStepMaps DEF Channel!Next
  <2>4. ASSUME NEW t \in Threads, SpuriousWakeup(t) PROVE UNCHANGED Channel!vars
    BY <2>4 DEF SpuriousWakeup, queueVars, callVars, Channel!vars
  <2> QED BY <2>1, <2>2, <2>3, <2>4, CallMaps DEF Next
<1> QED BY <1>1, <1>2, TypeCorrect, Accounted, PTL DEF Spec, Channel!Spec

=============================================================================
