----------------------------- MODULE BufferPool -----------------------------
(***************************************************************************)
(* libavutil/buffer.c: reference-counted buffers, and a pool that gets     *)
(* them back.  The counts are atomic and the list of the pool has a mutex, *)
(* but a release is two steps, the list and then the count of the pool,    *)
(* and a get is two, and other threads come in between.  Who drops the     *)
(* last count of the pool frees it.                                        *)
(*                                                                         *)
(* This is a component: its clients say in Next who calls what, and keep   *)
(* the references.                                                         *)
(***************************************************************************)
EXTENDS Naturals, Sequences, FiniteSets

CONSTANTS
  Threads,    \* the threads that use buffers
  Data,       \* the memory of the buffers, numbers
  Contents,   \* what may be in it
  Poison, NoData

VARIABLES
  content,    \* of the memory; Poison where nobody may look
  refcount,   \* of the buffer that has this memory; 0 if there is none
  home,       \* "unused", "plain", or "pool" for the memory of its entries
  list,       \* pool->pool
  poolRefs,   \* pool->refcount
  uninited,   \* whether the client has called av_buffer_pool_uninit
  poolFreed,
  stage,      \* what a thread has left to do in get or in a release
  buffer      \* and with which buffer

vars == <<content, refcount, home, list, poolRefs, uninited, poolFreed, stage, buffer>>

\* Memory that malloc may return; any is as good as any other.
Unused(d) ==
  home[d] = "unused" /\ \A e \in Data : home[e] = "unused" => d <= e

Rests(t) == stage[t] = "none"

\* av_buffer_pool_get, with the mutex: a buffer of the list or a new one, which
\* its only owner writes.
Get(t, d, c) ==
  /\ Rests(t) /\ ~uninited
  /\ \/ /\ list # <<>> /\ d = Head(list)
        /\ list' = Tail(list) /\ UNCHANGED home
     \/ /\ list = <<>> /\ Unused(d)
        /\ home' = [home EXCEPT ![d] = "pool"] /\ UNCHANGED list
  /\ refcount' = [refcount EXCEPT ![d] = 1]
  /\ stage' = [stage EXCEPT ![t] = "count"]
  /\ buffer' = [buffer EXCEPT ![t] = d]
  /\ content' = [content EXCEPT ![d] = c]
  /\ UNCHANGED <<poolRefs, uninited, poolFreed>>

Count(t) ==
  /\ stage[t] = "count"
  /\ poolRefs' = poolRefs + 1
  /\ stage' = [stage EXCEPT ![t] = "none"]
  /\ buffer' = [buffer EXCEPT ![t] = NoData]
  /\ UNCHANGED <<content, refcount, home, list, uninited, poolFreed>>

\* av_buffer_alloc, for memory that is not of the pool and is written at once.
Create(d, c) ==
  /\ Unused(d)
  /\ home' = [home EXCEPT ![d] = "plain"]
  /\ refcount' = [refcount EXCEPT ![d] = 1]
  /\ content' = [content EXCEPT ![d] = c]
  /\ UNCHANGED <<list, poolRefs, uninited, poolFreed, stage, buffer>>

Ref(d) ==
  /\ refcount' = [refcount EXCEPT ![d] = @ + 1]
  /\ UNCHANGED <<content, home, list, poolRefs, uninited, poolFreed, stage, buffer>>

\* buffer_replace without src: the last reference frees the buffer, for a
\* buffer of the pool by pool_release_buffer.
Unref(t, d) ==
  /\ Rests(t)
  /\ refcount' = [refcount EXCEPT ![d] = @ - 1]
  /\ IF refcount[d] = 1 /\ home[d] = "pool"
       THEN /\ stage' = [stage EXCEPT ![t] = "release"]
            /\ buffer' = [buffer EXCEPT ![t] = d]
       ELSE UNCHANGED <<stage, buffer>>
  /\ IF refcount[d] = 1 /\ home[d] = "plain"
       THEN /\ home' = [home EXCEPT ![d] = "unused"]
            /\ content' = [content EXCEPT ![d] = Poison]
       ELSE UNCHANGED <<home, content>>
  /\ UNCHANGED <<list, poolRefs, uninited, poolFreed>>

Release(t) ==
  /\ stage[t] = "release"
  /\ content' = [content EXCEPT ![buffer[t]] = Poison]
  /\ list' = <<buffer[t]>> \o list
  /\ stage' = [stage EXCEPT ![t] = "drop"]
  /\ UNCHANGED <<refcount, home, poolRefs, uninited, poolFreed, buffer>>

\* One count less; with the last one buffer_pool_free empties the list.
DropCount ==
  /\ poolRefs' = poolRefs - 1
  /\ poolFreed' = (poolRefs = 1)
  /\ list' = IF poolRefs = 1 THEN <<>> ELSE list

Drop(t) ==
  /\ stage[t] = "drop"
  /\ DropCount
  /\ stage' = [stage EXCEPT ![t] = "none"]
  /\ buffer' = [buffer EXCEPT ![t] = NoData]
  /\ UNCHANGED <<content, refcount, home, uninited>>

Uninit(t) ==
  /\ Rests(t) /\ ~uninited
  /\ uninited' = TRUE
  /\ DropCount
  /\ UNCHANGED <<content, refcount, home, stage, buffer>>

\* What is left of a get or a release.
Continue(t) == Count(t) \/ Release(t) \/ Drop(t)

\* Faulty: a buffer may be changed by whoever has a reference.
IsWritableAlways(d) == refcount[d] >= 1

IsWritable(d) == refcount[d] = 1

Write(d, c) ==
  /\ content' = [content EXCEPT ![d] = c]
  /\ UNCHANGED <<refcount, home, list, poolRefs, uninited, poolFreed, stage, buffer>>

Init ==
  /\ content = [d \in Data |-> Poison]
  /\ refcount = [d \in Data |-> 0]
  /\ home = [d \in Data |-> "unused"]
  /\ list = <<>>
  /\ poolRefs = 1 /\ uninited = FALSE /\ poolFreed = FALSE
  /\ stage = [t \in Threads |-> "none"]
  /\ buffer = [t \in Threads |-> NoData]

-----------------------------------------------------------------------------
(* Properties *)

(***************************************************************************)
(* Types; a thread that is in a get or a release has a buffer.             *)
(***************************************************************************)
TypeOK ==
  /\ content \in [Data -> Contents \cup {Poison}]
  /\ refcount \in [Data -> Nat]
  /\ home \in [Data -> {"unused", "plain", "pool"}]
  /\ list \in Seq(Data)
  /\ poolRefs \in Nat
  /\ uninited \in BOOLEAN /\ poolFreed \in BOOLEAN
  /\ stage \in [Threads -> {"none", "count", "release", "drop"}]
  /\ buffer \in [Threads -> Data \cup {NoData}]
  /\ \A t \in Threads : stage[t] = "none" <=> buffer[t] = NoData

(***************************************************************************)
(* The pool is freed when it has been uninitialised and its last buffer is *)
(* back, by whichever comes last, and not while a thread is still to use   *)
(* it (av_buffer_pool_uninit: it is freed once all buffers are released).  *)
(***************************************************************************)
InUse ==
  \/ \E d \in Data : home[d] = "pool" /\ refcount[d] > 0
  \/ \E t \in Threads : ~Rests(t)

FreedWithLastUser == poolFreed <=> uninited /\ ~InUse

(***************************************************************************)
(* A buffer is on the list at most once, and only if nobody refers to it.  *)
(***************************************************************************)
ListedIsFree ==
  /\ \A i, j \in DOMAIN list : list[i] = list[j] => i = j
  /\ \A i \in DOMAIN list : refcount[list[i]] = 0 /\ home[list[i]] = "pool"

=============================================================================
