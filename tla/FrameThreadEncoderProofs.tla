---------------------- MODULE FrameThreadEncoderProofs ----------------------
(***************************************************************************)
(* Proofs about FrameThreadEncoder, for any number of workers, frames and  *)
(* buffers and any encoder and client: that buffers are shared by their    *)
(* counts, that the pool is freed with its last user, and that the workers *)
(* and their ring implement the abstract pipeline.                         *)
(***************************************************************************)
EXTENDS FrameThreadEncoder, FiniteSetTheorems, SequenceTheorems, TLAPS

-----------------------------------------------------------------------------
(* The inductive invariant *)

Returning(t) == stage[t] \in {"release", "drop"}

\* A thread that has dropped the last reference and not yet listed the buffer.
Releases(t, d) == stage[t] = "release" /\ buffer[t] = d

\* Memory has a content while somebody refers to it, and until its buffer is
\* back on the list, which is of one thread.
MemoryInv ==
  /\ \A d \in Data : home[d] = "unused" => refcount[d] = 0
  /\ \A d \in Data : home[d] = "plain" => refcount[d] > 0
  /\ \A d \in Data : content[d] # 0 <=>
       refcount[d] > 0 \/ \E t \in Threads : Releases(t, d)
  /\ \A t \in Threads, d \in Data : Releases(t, d) =>
       home[d] = "pool" /\ refcount[d] = 0
  /\ \A t, u \in Threads, d \in Data : Releases(t, d) /\ Releases(u, d) => t = u
  /\ \A i \in DOMAIN list : content[list[i]] = 0

\* The pool counts its buffers that are in use, those that are being returned,
\* and itself.
Live      == {d \in Data : home[d] = "pool" /\ refcount[d] > 0}
Returners == {t \in Threads : Returning(t)}

CountInv ==
  /\ IsFiniteSet(Live)
  /\ poolRefs + (IF stage[Client] = "count" THEN 1 ELSE 0) =
       Cardinality(Live) + Cardinality(Returners) + (IF uninited THEN 0 ELSE 1)
  /\ poolFreed <=> poolRefs = 0
  /\ poolFreed => list = <<>>
  /\ \A w \in Workers : stage[w] # "count"
  /\ stage[Client] = "count" => ~uninited /\ own # NoData /\ home[own] = "pool"

\* The memory of a frame is written for it alone.
ContentInv ==
  /\ \A d \in Data : content[d] <= made
  /\ \A d, e \in Data : content[d] = content[e] /\ content[d] # 0 => d = e
  /\ own # NoData /\ client # "replace" => content[own] = made
  /\ client = "replace" =>
       own # NoData /\ content[own] < made /\ \E d \in Data : content[d] = made

InSend == {"submit", "output", "output asleep"}
InDrain == {"drain", "drain asleep"}

ClientInv ==
  /\ made \in {sent, sent + 1}
  /\ own = NoData => made = sent
  /\ client \in {"submit", "replace"} => made = sent + 1 /\ own # NoData
  /\ ~Pool!Rests(Client) => client \in {"idle", "closed"}
  /\ bufferPkt # NoPacket => client \notin InSend \cup InDrain

\* What a worker has, by its place.
WorkerInv ==
  \A w \in Workers :
    /\ worker[w] = "free" <=> Returning(w)
    /\ worker[w] = "encode" => task[w] \in Tasks
    /\ worker[w] \in {"free", "deliver"} =>
         /\ task[w].data = NoData /\ task[w].frame \in Frames
         /\ result[w] \in Packets /\ result[w].frame = task[w].frame
    /\ worker[w] \in {"fetch", "asleep", "gone"} => task[w] = NoTask
    /\ worker[w] \notin {"free", "deliver"} => result[w] = NoPacket

\* The frames before the one that the ring begins with.
Taken == sent - Outstanding

\* How far a slot is from the one that the ring begins with.
Distance(i) ==
  IF i >= finishedIndex THEN i - finishedIndex ELSE i + BufferSize - finishedIndex

\* Every frame from there to the last one sent has its slot in the ring; first
\* come those that workers have or have had, then those in the FIFO.
Fetched == sent - Len(taskFifo)

RingSize ==
  /\ Taken >= 0 /\ Fetched >= Taken
  /\ Outstanding <= NbThreads + 1
  /\ client \notin {"output", "output asleep"} => Outstanding <= NbThreads

QueuedInv ==
  \A i \in DOMAIN taskFifo :
    /\ taskFifo[i].frame = Fetched + i
    /\ Distance(taskFifo[i].index) = Fetched + i - Taken - 1

EncodedInv ==
  /\ \A w \in Workers : task[w] # NoTask =>
       /\ task[w].frame > Taken /\ task[w].frame <= Fetched
       /\ Distance(task[w].index) = task[w].frame - Taken - 1
  /\ \A v, w \in Workers :
       task[v] # NoTask /\ task[w] # NoTask /\ task[v].frame = task[w].frame => v = w

FinishedInv ==
  /\ \A i \in Slots : finished[i] # NoPacket =>
       /\ finished[i].frame > Taken /\ finished[i].frame <= Fetched
       /\ Distance(i) = finished[i].frame - Taken - 1
  /\ \A i \in Slots, w \in Workers :
       finished[i] # NoPacket /\ task[w] # NoTask => task[w].frame # finished[i].frame
  /\ bufferPkt # NoPacket => bufferPkt.code = "frame" /\ bufferPkt.frame <= Taken

RingInv == RingSize /\ QueuedInv /\ EncodedInv /\ FinishedInv

\* What TypeOK says of the variables outside the pool; that the FIFO and the ring
\* are large enough follows from RingInv.
FieldsOK ==
  /\ own \in Data \cup {NoData}
  /\ made \in {0} \cup Frames /\ sent \in 0 .. made
  /\ client \in {"idle", "replace", "submit", "output", "output asleep", "drain",
                 "drain asleep", "joining", "closed"}
  /\ draining \in BOOLEAN /\ bufferPkt \in Packets \cup {NoPacket}
  /\ reply \in {"again", "frame", "error", "eof", "flushed"}
  /\ taskFifo \in Seq(Tasks)
  /\ finished \in [Slots -> Packets \cup {NoPacket}]
  /\ taskIndex \in Slots /\ finishedIndex \in Slots /\ exit \in BOOLEAN
  /\ worker \in [Workers -> {"fetch", "asleep", "encode", "free", "deliver", "gone"}]
  /\ task \in [Workers -> [data : Data \cup {NoData}, index : Slots,
                           frame : {0} \cup Frames]]
  /\ result \in [Workers -> Packets \cup {NoPacket}]

PoolInv == Pool!TypeOK /\ MemoryInv /\ Pool!ListedIsFree /\ CountInv

EncoderInv ==
  /\ PoolInv /\ FieldsOK /\ ContentInv /\ RefsCounted /\ FramesIntact
  /\ ClientInv /\ WorkerInv /\ RingInv

-----------------------------------------------------------------------------
(* Facts about the constants *)

(* What is assumed of them. *)
LEMMA ConstantFacts ==
  /\ NbThreads \in Nat /\ NbThreads > 1
  /\ BufferSize \in Nat /\ BufferSize >= NbThreads + 2
  /\ MaxFrames \in Nat /\ MayFail \subseteq Frames
  /\ NoData \notin Data
  /\ Client \in Threads /\ Client \notin Workers /\ Workers \subseteq Threads
  /\ \A t \in Threads : t \in Workers \/ t = Client
BY EncoderAssumption DEF Workers, Threads

(* The slots of the ring *)
LEMMA SlotNumbers == \A i \in Slots : i \in Nat /\ i < BufferSize
BY EncoderAssumption DEF Slots

(* There are finitely many threads. *)
LEMMA ThreadsFinite == IsFiniteSet(Workers) /\ IsFiniteSet(Threads)
<1>1. IsFiniteSet(Workers)
  BY ConstantFacts, FS_Interval DEF Workers
<1>2. IsFiniteSet(Workers \cup {Client})
  BY <1>1, FS_AddElement
<1> QED BY <1>1, <1>2 DEF Threads

(* The arithmetic of the ring, without modulo. *)
LEMMA RingArithmetic ==
  /\ \A i, j \in Slots : (i + BufferSize - j) % BufferSize =
       IF i >= j THEN i - j ELSE i + BufferSize - j
  /\ \A i \in Slots : NextSlot(i) = IF i + 1 = BufferSize THEN 0 ELSE i + 1
<1>1. /\ BufferSize \in Nat /\ BufferSize > 0
      /\ \A i \in Slots : i \in Nat /\ i < BufferSize
  BY ConstantFacts DEF Slots
<1>2. \A n \in Nat : n < BufferSize => n % BufferSize = n
  BY <1>1
<1>3. \A n \in Nat : BufferSize <= n /\ n < 2 * BufferSize => n % BufferSize = n - BufferSize
  BY <1>1
<1>4. ASSUME NEW i \in Slots, NEW j \in Slots
      PROVE  (i + BufferSize - j) % BufferSize = IF i >= j THEN i - j ELSE i + BufferSize - j
  <2> DEFINE x == i + BufferSize - j
  <2>1. x \in Nat /\ x < 2 * BufferSize
    BY <1>1
  <2>2. x % BufferSize = IF x < BufferSize THEN x ELSE x - BufferSize
    BY <1>1, <1>2, <1>3, <2>1
  <2> QED BY <1>1, <2>2
<1>5. ASSUME NEW i \in Slots
      PROVE  NextSlot(i) = IF i + 1 = BufferSize THEN 0 ELSE i + 1
  <2>1. i + 1 \in Nat /\ i + 1 <= BufferSize
    BY <1>1
  <2> QED BY <1>1, <1>2, <1>3, <2>1 DEF NextSlot
<1> QED BY <1>4, <1>5

-----------------------------------------------------------------------------
(* What the operations of the pool keep *)

(* Its sets and counts are finite. *)
LEMMA CountFacts ==
  ASSUME PoolInv
  PROVE  /\ IsFiniteSet(Live) /\ Cardinality(Live) \in Nat
         /\ IsFiniteSet(Returners) /\ Cardinality(Returners) \in Nat
         /\ poolRefs \in Nat
         /\ \A t \in Threads : stage[t] \in {"none", "count", "release", "drop"}
         /\ \A d \in Data : refcount[d] \in Nat
<1>1. IsFiniteSet(Returners)
  BY ThreadsFinite, FS_Subset DEF Returners
<1>2. IsFiniteSet(Live)
  BY DEF PoolInv, CountInv
<1> QED BY <1>1, <1>2, FS_CardinalityType DEF PoolInv, Pool!TypeOK

(* A thread more or less that returns a buffer, or the same threads. *)
LEMMA ReturnersStep ==
  ASSUME PoolInv, NEW t \in Threads,
         \A u \in Threads : u # t => stage'[u] = stage[u]
  PROVE  Cardinality(Returners') = Cardinality(Returners)
           + (IF Returning(t)' THEN 1 ELSE 0) - (IF Returning(t) THEN 1 ELSE 0)
<1>1. IsFiniteSet(Returners)
  BY CountFacts
<1>2. Cardinality(Returners) \in Nat
  BY CountFacts
<1>3. CASE Returning(t)' /\ ~Returning(t)
  <2>1. Returners' = Returners \cup {t} /\ t \notin Returners
    BY <1>3 DEF Returners, Returning
  <2>2. Cardinality(Returners') = Cardinality(Returners) + 1
    BY <1>1, <2>1, FS_AddElement
  <2> QED BY <1>2, <1>3, <2>2
<1>4. CASE ~Returning(t)' /\ Returning(t)
  <2>1. Returners' = Returners \ {t} /\ t \in Returners
    BY <1>4 DEF Returners, Returning
  <2>2. Cardinality(Returners') = Cardinality(Returners) - 1
    BY <1>1, <2>1, FS_RemoveElement
  <2> QED BY <1>2, <1>4, <2>2
<1>5. CASE Returning(t)' <=> Returning(t)
  <2>1. Returners' = Returners
    BY <1>5 DEF Returners, Returning
  <2> QED BY <1>2, <1>5, <2>1
<1> QED BY <1>3, <1>4, <1>5

(* A buffer more or less that is in use, or the same. *)
LEMMA LiveStep ==
  ASSUME PoolInv, NEW d \in Data,
         \A e \in Data : e # d => home'[e] = home[e] /\ refcount'[e] = refcount[e]
  PROVE  /\ IsFiniteSet(Live')
         /\ Cardinality(Live') = Cardinality(Live)
              + (IF d \in Live' THEN 1 ELSE 0) - (IF d \in Live THEN 1 ELSE 0)
<1>1. IsFiniteSet(Live) /\ Cardinality(Live) \in Nat
  BY CountFacts
<1>2. CASE d \in Live' /\ d \notin Live
  <2>1. Live' = Live \cup {d}
    BY <1>2 DEF Live
  <2> QED BY <1>1, <1>2, <2>1, FS_AddElement
<1>3. CASE d \notin Live' /\ d \in Live
  <2>1. Live' = Live \ {d}
    BY <1>3 DEF Live
  <2>2. IsFiniteSet(Live \ {d}) /\ Cardinality(Live \ {d}) = Cardinality(Live) - 1
    BY <1>1, <1>3, FS_RemoveElement
  <2> QED BY <1>1, <1>3, <2>1, <2>2
<1>4. CASE d \in Live' <=> d \in Live
  <2>1. Live' = Live
    BY <1>4 DEF Live
  <2> QED BY <1>1, <1>4, <2>1
<1> QED BY <1>2, <1>3, <1>4

(* av_buffer_pool_get: the buffer that it hands out was free. *)
LEMMA GetIsFree ==
  ASSUME PoolInv, NEW d \in Data, NEW c \in Frames, Pool!Get(Client, d, c)
  PROVE  /\ refcount[d] = 0 /\ content[d] = 0 /\ home[d] # "plain"
         /\ \A t \in Threads : ~Releases(t, d)
         /\ list' \in Seq(Data)
         /\ \A i \in DOMAIN list' : list'[i] # d /\ \E j \in DOMAIN list : list'[i] = list[j]
         /\ \A i, j \in DOMAIN list' : list'[i] = list'[j] => i = j
         /\ list = <<>> => list' = <<>>
         /\ home' = [home EXCEPT ![d] = "pool"]
<1>1. /\ list \in Seq(Data) /\ refcount \in [Data -> Nat]
      /\ home \in [Data -> {"unused", "plain", "pool"}]
  BY DEF PoolInv, Pool!TypeOK
<1>2. CASE list # <<>> /\ d = Head(list) /\ list' = Tail(list) /\ UNCHANGED home
  <2>1. /\ Len(list) \in Nat /\ Len(list) > 0 /\ DOMAIN list = 1 .. Len(list)
        /\ list[1] = d
    BY <1>1, <1>2, LenProperties, EmptySeq
  <2>2. /\ list' \in Seq(Data) /\ Len(list') = Len(list) - 1
        /\ \A i \in 1 .. Len(list') : list'[i] = list[i + 1]
        /\ DOMAIN list' = 1 .. Len(list')
    BY <1>1, <1>2, HeadTailProperties, LenProperties
  <2>3. refcount[d] = 0 /\ content[d] = 0 /\ home[d] = "pool"
    BY <2>1 DEF PoolInv, MemoryInv, Pool!ListedIsFree
  <2>4. \A i \in DOMAIN list' : list'[i] # d /\ \E j \in DOMAIN list : list'[i] = list[j]
    BY <2>1, <2>2 DEF PoolInv, Pool!ListedIsFree
  <2>5. \A t \in Threads : ~Releases(t, d)
    BY <2>3 DEF PoolInv, MemoryInv
  <2>6. home' = [home EXCEPT ![d] = "pool"]
    BY <1>1, <1>2, <2>3
  <2>7. \A i, j \in DOMAIN list' : list'[i] = list'[j] => i = j
    BY <2>1, <2>2 DEF PoolInv, Pool!ListedIsFree
  <2> QED BY <1>2, <2>2, <2>3, <2>4, <2>5, <2>6, <2>7
<1>3. CASE /\ list = <<>> /\ Pool!Unused(d)
           /\ home' = [home EXCEPT ![d] = "pool"] /\ UNCHANGED list
  <2>1. home[d] = "unused"
    BY <1>3 DEF Pool!Unused
  <2>2. refcount[d] = 0 /\ \A t \in Threads : ~Releases(t, d)
    BY <2>1 DEF PoolInv, MemoryInv
  <2>3. content[d] = 0
    BY <2>2 DEF PoolInv, MemoryInv
  <2>4. DOMAIN list' = {}
    BY <1>1, <1>3, LenProperties, EmptySeq
  <2> QED BY <1>1, <1>3, <2>1, <2>2, <2>3, <2>4
<1> QED BY <1>2, <1>3 DEF Pool!Get

(* av_buffer_pool_get *)
LEMMA GetKeeps ==
  ASSUME PoolInv, NEW d \in Data, NEW c \in Frames, Pool!Get(Client, d, c), own' = d
  PROVE  PoolInv'
<1>1. /\ Client \in Threads /\ stage[Client] = "none" /\ ~uninited
      /\ stage' = [stage EXCEPT ![Client] = "count"]
      /\ buffer' = [buffer EXCEPT ![Client] = d]
      /\ refcount' = [refcount EXCEPT ![d] = 1]
      /\ content' = [content EXCEPT ![d] = c]
      /\ UNCHANGED <<poolRefs, uninited, poolFreed>>
  BY ConstantFacts DEF Pool!Get, Pool!Rests
<1>2. /\ refcount[d] = 0 /\ content[d] = 0 /\ home[d] # "plain"
      /\ \A t \in Threads : ~Releases(t, d)
      /\ list' \in Seq(Data)
      /\ \A i \in DOMAIN list' : list'[i] # d /\ \E j \in DOMAIN list : list'[i] = list[j]
      /\ \A i, j \in DOMAIN list' : list'[i] = list'[j] => i = j
      /\ list = <<>> => list' = <<>>
      /\ home' = [home EXCEPT ![d] = "pool"]
  BY GetIsFree
<1>3. Pool!TypeOK
  BY DEF PoolInv
<1>4. c # 0 /\ NoData \notin Data
  BY ConstantFacts DEF Frames
<1>5. Pool!TypeOK'
  BY <1>1, <1>2, <1>3, <1>4 DEF Pool!TypeOK
<1>6. \A t \in Threads, e \in Data : Releases(t, e)' <=> Releases(t, e)
  BY <1>1, <1>3 DEF Releases, Pool!TypeOK
<1>7. /\ \A i \in DOMAIN list : list[i] \in Data
      /\ \A i \in DOMAIN list' : list'[i] \in Data
  BY <1>2, <1>3, LenProperties, ElementOfSeq DEF Pool!TypeOK
<1>8. Pool!ListedIsFree'
  BY <1>1, <1>2, <1>3, <1>7 DEF PoolInv, Pool!ListedIsFree, Pool!TypeOK
<1>9. MemoryInv'
  BY <1>1, <1>2, <1>3, <1>4, <1>6, <1>7 DEF PoolInv, MemoryInv, Pool!TypeOK
<1>10. CountInv'
  <2>1. /\ IsFiniteSet(Live')
        /\ Cardinality(Live') = Cardinality(Live)
             + (IF d \in Live' THEN 1 ELSE 0) - (IF d \in Live THEN 1 ELSE 0)
    BY <1>1, <1>2, <1>3, LiveStep DEF Pool!TypeOK
  <2>2. d \in Live' /\ d \notin Live
    BY <1>1, <1>2, <1>3 DEF Live, Pool!TypeOK
  <2>3. Cardinality(Returners') = Cardinality(Returners)
    <3>1. \A u \in Threads : u # Client => stage'[u] = stage[u]
      BY <1>1, <1>3 DEF Pool!TypeOK
    <3>2. ~Returning(Client) /\ ~Returning(Client)'
      BY <1>1, <1>3 DEF Returning, Pool!TypeOK
    <3>3. Client \in Threads
      BY <1>1
    <3>4. Cardinality(Returners') = Cardinality(Returners) + 0 - 0
      BY <3>1, <3>2, <3>3, ReturnersStep
    <3> QED BY <3>4, CountFacts
  <2>4. stage'[Client] = "count" /\ \A w \in Workers : stage'[w] = stage[w]
    BY <1>1, <1>3, ConstantFacts DEF Pool!TypeOK
  <2>5. ~poolFreed
    BY <1>1, CountFacts DEF PoolInv, CountInv
  <2>6. home'[d] = "pool" /\ d # NoData
    BY <1>2, <1>3, <1>4 DEF Pool!TypeOK
  <2>7. /\ poolRefs' = poolRefs /\ poolRefs \in Nat
        /\ poolRefs + 0 = Cardinality(Live) + Cardinality(Returners) + (IF uninited THEN 0 ELSE 1)
        /\ ~uninited /\ ~uninited'
        /\ Cardinality(Live) \in Nat /\ Cardinality(Returners) \in Nat
    BY <1>1, CountFacts DEF PoolInv, CountInv, Pool!TypeOK
  <2>8. Cardinality(Live') = Cardinality(Live) + 1
    BY <2>1, <2>2, <2>7
  <2>9. poolRefs' + 1 = Cardinality(Live') + Cardinality(Returners') + 1
    BY <2>3, <2>7, <2>8
  <2>10. poolFreed' <=> poolRefs' = 0
    BY <1>1, <2>7 DEF PoolInv, CountInv
  <2>11. \A w \in Workers : stage'[w] # "count"
    BY <2>4 DEF PoolInv, CountInv
  <2> QED BY <1>1, <2>1, <2>4, <2>5, <2>6, <2>7, <2>9, <2>10, <2>11 DEF CountInv
<1> QED BY <1>5, <1>8, <1>9, <1>10 DEF PoolInv

(* The second half of av_buffer_pool_get *)
LEMMA CountKeeps ==
  ASSUME PoolInv, Pool!Count(Client), UNCHANGED own, own \in Data, refcount[own] > 0
  PROVE  PoolInv'
<1>1. /\ Client \in Threads /\ stage[Client] = "count"
      /\ poolRefs' = poolRefs + 1
      /\ stage' = [stage EXCEPT ![Client] = "none"]
      /\ buffer' = [buffer EXCEPT ![Client] = NoData]
      /\ UNCHANGED <<content, refcount, home, list, uninited, poolFreed>>
  BY ConstantFacts DEF Pool!Count
<1>2. Pool!TypeOK
  BY DEF PoolInv
<1>3. Pool!TypeOK'
  BY <1>1, <1>2, ConstantFacts DEF Pool!TypeOK
<1>4. \A t \in Threads, e \in Data : Releases(t, e)' <=> Releases(t, e)
  BY <1>1, <1>2 DEF Releases, Pool!TypeOK
<1>5. Pool!ListedIsFree'
  BY <1>1 DEF PoolInv, Pool!ListedIsFree
<1>6. MemoryInv'
  BY <1>1, <1>4 DEF PoolInv, MemoryInv
<1>7. CountInv'
  <2>1. Live' = Live
    BY <1>1 DEF Live
  <2>2. Cardinality(Returners') = Cardinality(Returners)
    <3>1. \A u \in Threads : u # Client => stage'[u] = stage[u]
      BY <1>1, <1>2 DEF Pool!TypeOK
    <3>2. ~Returning(Client) /\ ~Returning(Client)'
      BY <1>1, <1>2 DEF Returning, Pool!TypeOK
    <3> QED BY <1>1, <3>1, <3>2, ReturnersStep, CountFacts
  <2>3. stage'[Client] = "none" /\ \A w \in Workers : stage'[w] = stage[w]
    BY <1>1, <1>2, ConstantFacts DEF Pool!TypeOK
  <2>4. poolRefs > 0
    <3>1. own \in Live
      BY <1>1 DEF PoolInv, CountInv, Live
    <3>2. Cardinality(Live) > 0
      BY <3>1, CountFacts, FS_EmptySet
    <3> QED BY <1>1, <3>2, CountFacts DEF PoolInv, CountInv
  <2> QED BY <1>1, <2>1, <2>2, <2>3, <2>4, CountFacts DEF PoolInv, CountInv
<1> QED BY <1>3, <1>5, <1>6, <1>7 DEF PoolInv

(* av_buffer_alloc *)
LEMMA CreateKeeps ==
  ASSUME PoolInv, NEW d \in Data, NEW c \in Frames, Pool!Create(d, c), UNCHANGED own
  PROVE  PoolInv'
<1>1. /\ home[d] = "unused"
      /\ home' = [home EXCEPT ![d] = "plain"]
      /\ refcount' = [refcount EXCEPT ![d] = 1]
      /\ content' = [content EXCEPT ![d] = c]
      /\ UNCHANGED <<list, poolRefs, uninited, poolFreed, stage, buffer>>
  BY DEF Pool!Create, Pool!Unused
<1>2. Pool!TypeOK
  BY DEF PoolInv
<1>3. refcount[d] = 0 /\ \A t \in Threads : ~Releases(t, d)
  BY <1>1 DEF PoolInv, MemoryInv
<1>4. Pool!TypeOK'
  BY <1>1, <1>2 DEF Pool!TypeOK
<1>5. \A t \in Threads, e \in Data : Releases(t, e)' <=> Releases(t, e)
  BY <1>1 DEF Releases
<1>6. \A i \in DOMAIN list : list[i] \in Data /\ list[i] # d
  BY <1>1, <1>2, LenProperties, ElementOfSeq DEF PoolInv, Pool!TypeOK, Pool!ListedIsFree
<1>7. Pool!ListedIsFree'
  BY <1>1, <1>2, <1>6 DEF PoolInv, Pool!ListedIsFree, Pool!TypeOK
<1>8. c # 0
  BY ConstantFacts DEF Frames
<1>9. MemoryInv'
  BY <1>1, <1>2, <1>3, <1>5, <1>6, <1>8 DEF PoolInv, MemoryInv, Pool!TypeOK
<1>10. CountInv'
  <2>1. Live' = Live
    BY <1>1, <1>2 DEF Live, Pool!TypeOK
  <2>2. Returners' = Returners
    BY <1>1 DEF Returners, Returning
  <2>3. own = d => home[own] # "pool"
    BY <1>1
  <2>4. stage[Client] = "count" => ~uninited /\ own # NoData /\ home'[own] = "pool"
    BY <1>1, <1>2, <2>3 DEF PoolInv, CountInv, Pool!TypeOK
  <2> QED BY <1>1, <2>1, <2>2, <2>4 DEF PoolInv, CountInv
<1> QED BY <1>4, <1>7, <1>9, <1>10 DEF PoolInv

(* av_buffer_ref *)
LEMMA RefKeeps ==
  ASSUME PoolInv, NEW d \in Data, Pool!Ref(d), refcount[d] > 0, UNCHANGED own
  PROVE  PoolInv'
<1>1. /\ refcount' = [refcount EXCEPT ![d] = refcount[d] + 1]
      /\ UNCHANGED <<content, home, list, poolRefs, uninited, poolFreed, stage, buffer>>
  BY DEF Pool!Ref
<1>2. Pool!TypeOK
  BY DEF PoolInv
<1>3. Pool!TypeOK'
  BY <1>1, <1>2 DEF Pool!TypeOK
<1>4. \A e \in Data : refcount'[e] \in Nat /\ (refcount'[e] = 0 <=> refcount[e] = 0)
  BY <1>1, <1>2 DEF Pool!TypeOK
<1>5. \A t \in Threads, e \in Data : Releases(t, e)' <=> Releases(t, e)
  BY <1>1 DEF Releases
<1>6. \A i \in DOMAIN list : list[i] \in Data
  BY <1>2, LenProperties, ElementOfSeq DEF Pool!TypeOK
<1>7. Pool!ListedIsFree'
  BY <1>1, <1>4, <1>6 DEF PoolInv, Pool!ListedIsFree
<1>8. \A e \in Data : refcount'[e] > 0 <=> refcount[e] > 0
  BY <1>2, <1>4 DEF Pool!TypeOK
<1>9. MemoryInv'
  BY <1>1, <1>4, <1>5, <1>8 DEF PoolInv, MemoryInv
<1>10. CountInv'
  <2>1. Live' = Live
    BY <1>1, <1>8 DEF Live
  <2>2. Returners' = Returners
    BY <1>1 DEF Returners, Returning
  <2> QED BY <1>1, <2>1, <2>2 DEF PoolInv, CountInv
<1> QED BY <1>3, <1>7, <1>9, <1>10 DEF PoolInv

(* Writing to a buffer that somebody refers to *)
LEMMA WriteKeeps ==
  ASSUME PoolInv, NEW d \in Data, NEW c \in Frames, Pool!Write(d, c), refcount[d] > 0,
         UNCHANGED own
  PROVE  PoolInv'
<1>1. /\ content' = [content EXCEPT ![d] = c]
      /\ UNCHANGED <<refcount, home, list, poolRefs, uninited, poolFreed, stage, buffer>>
  BY DEF Pool!Write
<1>2. Pool!TypeOK
  BY DEF PoolInv
<1>3. Pool!TypeOK'
  BY <1>1, <1>2 DEF Pool!TypeOK
<1>4. \A t \in Threads, e \in Data : Releases(t, e)' <=> Releases(t, e)
  BY <1>1 DEF Releases
<1>5. Pool!ListedIsFree'
  BY <1>1 DEF PoolInv, Pool!ListedIsFree
<1>6. c # 0 /\ \A i \in DOMAIN list : list[i] \in Data /\ list[i] # d
  BY <1>2, ConstantFacts, LenProperties, ElementOfSeq DEF Frames, PoolInv, Pool!TypeOK,
     Pool!ListedIsFree
<1>7. MemoryInv'
  BY <1>1, <1>2, <1>4, <1>6 DEF PoolInv, MemoryInv, Pool!TypeOK
<1>8. CountInv'
  <2>1. Live' = Live /\ Returners' = Returners
    BY <1>1 DEF Live, Returners, Returning
  <2> QED BY <1>1, <2>1 DEF PoolInv, CountInv
<1> QED BY <1>3, <1>5, <1>7, <1>8 DEF PoolInv

(* av_buffer_unref *)
LEMMA UnrefKeeps ==
  ASSUME PoolInv, NEW t \in Threads, NEW d \in Data, Pool!Unref(t, d), refcount[d] > 0,
         own \in Data \cup {NoData}, UNCHANGED own \/ t = Client
  PROVE  PoolInv'
<1>1. /\ stage[t] = "none"
      /\ refcount' = [refcount EXCEPT ![d] = refcount[d] - 1]
      /\ UNCHANGED <<list, poolRefs, uninited, poolFreed>>
  BY DEF Pool!Unref, Pool!Rests
<1>2. /\ content \in [Data -> Frames \cup {0}] /\ refcount \in [Data -> Nat]
      /\ home \in [Data -> {"unused", "plain", "pool"}] /\ list \in Seq(Data)
      /\ stage \in [Threads -> {"none", "count", "release", "drop"}]
      /\ buffer \in [Threads -> Data \cup {NoData}] /\ buffer[t] = NoData
      /\ \A u \in Threads : stage[u] = "none" <=> buffer[u] = NoData
      /\ d # NoData /\ poolRefs \in Nat /\ uninited \in BOOLEAN /\ poolFreed \in BOOLEAN
  BY <1>1, ConstantFacts DEF PoolInv, Pool!TypeOK
<1>3. home[d] \in {"plain", "pool"} /\ \A u \in Threads : ~Releases(u, d)
  BY <1>2 DEF PoolInv, MemoryInv
<1>4. /\ \A e \in Data : e # d => refcount'[e] = refcount[e]
      /\ refcount'[d] = refcount[d] - 1 /\ refcount' \in [Data -> Nat]
  BY <1>1, <1>2
<1>5. /\ \A i \in DOMAIN list : list[i] \in Data /\ list[i] # d
      /\ \A i \in DOMAIN list : refcount[list[i]] = 0
  BY <1>2, LenProperties, ElementOfSeq DEF PoolInv, Pool!ListedIsFree
<1>6. CASE refcount[d] = 1 /\ home[d] = "pool"
  <2>1. /\ stage' = [stage EXCEPT ![t] = "release"] /\ buffer' = [buffer EXCEPT ![t] = d]
        /\ UNCHANGED <<home, content>>
    BY <1>6 DEF Pool!Unref
  <2>2. Pool!TypeOK'
    BY <1>1, <1>2, <1>4, <2>1 DEF Pool!TypeOK
  <2>3. \A u \in Threads, e \in Data : Releases(u, e)' <=>
          Releases(u, e) \/ (u = t /\ e = d)
    BY <1>1, <1>2, <2>1 DEF Releases
  <2>4. Pool!ListedIsFree'
    BY <1>1, <1>4, <1>5, <2>1 DEF PoolInv, Pool!ListedIsFree
  <2>5. refcount'[d] = 0
    BY <1>4, <1>6
  <2>6. MemoryInv'
    <3>1. \A e \in Data :
            refcount'[e] > 0 \/ (e = d) <=> refcount[e] > 0
      BY <1>2, <1>4, <1>6, <2>5
    <3>2. \A e \in Data : content'[e] # 0 <=>
            refcount'[e] > 0 \/ \E u \in Threads : Releases(u, e)'
      BY <1>3, <2>1, <2>3, <2>5, <3>1 DEF PoolInv, MemoryInv
    <3>3. \A e \in Data : home'[e] = "unused" => refcount'[e] = 0
      BY <1>4, <2>1, <2>5 DEF PoolInv, MemoryInv
    <3>4. \A e \in Data : home'[e] = "plain" => refcount'[e] > 0
      BY <1>4, <1>6, <2>1 DEF PoolInv, MemoryInv
    <3>5. \A u \in Threads, e \in Data : Releases(u, e)' =>
            home'[e] = "pool" /\ refcount'[e] = 0
      BY <1>3, <1>4, <1>6, <2>1, <2>3, <2>5 DEF PoolInv, MemoryInv
    <3>6. \A u, v \in Threads, e \in Data : Releases(u, e)' /\ Releases(v, e)' => u = v
      BY <1>3, <2>3 DEF PoolInv, MemoryInv
    <3>7. \A i \in DOMAIN list' : content'[list'[i]] = 0
      BY <1>1, <2>1 DEF PoolInv, MemoryInv
    <3> QED BY <3>2, <3>3, <3>4, <3>5, <3>6, <3>7 DEF MemoryInv
  <2>7. CountInv'
    <3>1. /\ IsFiniteSet(Live')
          /\ Cardinality(Live') = Cardinality(Live) - 1
      <4>1. d \in Live /\ d \notin Live'
        BY <1>6, <2>5 DEF Live
      <4> QED BY <4>1, <1>4, <2>1, LiveStep, CountFacts
    <3>2. Cardinality(Returners') = Cardinality(Returners) + 1
      <4>1. \A u \in Threads : u # t => stage'[u] = stage[u]
        BY <1>2, <2>1
      <4>2. ~Returning(t) /\ Returning(t)'
        BY <1>1, <1>2, <2>1 DEF Returning
      <4> QED BY <4>1, <4>2, ReturnersStep, CountFacts
    <3>3. /\ stage'[Client] = "count" <=> stage[Client] = "count"
          /\ \A w \in Workers : stage'[w] # "count"
      BY <1>1, <1>2, <2>1, ConstantFacts DEF PoolInv, CountInv
    <3> QED BY <1>1, <2>1, <3>1, <3>2, <3>3, CountFacts DEF PoolInv, CountInv
  <2> QED BY <2>2, <2>4, <2>6, <2>7 DEF PoolInv
<1>7. CASE ~(refcount[d] = 1 /\ home[d] = "pool")
  <2>1. /\ UNCHANGED <<stage, buffer>>
        /\ IF refcount[d] = 1
           THEN /\ home' = [home EXCEPT ![d] = "unused"]
                /\ content' = [content EXCEPT ![d] = 0]
           ELSE UNCHANGED <<home, content>>
    BY <1>3, <1>7 DEF Pool!Unref
  <2>2. /\ \A e \in Data : e # d => home'[e] = home[e] /\ content'[e] = content[e]
        /\ IF refcount[d] = 1 THEN home'[d] = "unused" /\ content'[d] = 0
           ELSE home'[d] = home[d] /\ content'[d] = content[d]
        /\ home' \in [Data -> {"unused", "plain", "pool"}]
        /\ content' \in [Data -> Frames \cup {0}]
    BY <1>2, <2>1
  <2>3. Pool!TypeOK'
    BY <1>1, <1>2, <1>4, <2>1, <2>2 DEF Pool!TypeOK
  <2>4. \A u \in Threads, e \in Data : Releases(u, e)' <=> Releases(u, e)
    BY <2>1 DEF Releases
  <2>5. Pool!ListedIsFree'
    BY <1>1, <1>4, <1>5, <2>2 DEF PoolInv, Pool!ListedIsFree
  <2>6. MemoryInv'
    BY <1>1, <1>2, <1>3, <1>4, <1>5, <1>7, <2>2, <2>4 DEF PoolInv, MemoryInv
  <2>7. CountInv'
    <3>1. Live' = Live
      <4>1. d \in Live' <=> d \in Live
        BY <1>2, <1>3, <1>4, <1>7, <2>2 DEF Live
      <4> QED BY <1>4, <2>2, <4>1 DEF Live
    <3>2. Returners' = Returners
      BY <2>1 DEF Returners, Returning
    <3>3. stage[Client] = "count" => ~uninited /\ own' # NoData /\ home'[own'] = "pool"
      <4> SUFFICES ASSUME stage[Client] = "count"
                   PROVE  ~uninited /\ own' # NoData /\ home'[own'] = "pool"
        OBVIOUS
      <4>1. UNCHANGED own /\ own \in Data /\ ~uninited /\ home[own] = "pool"
        BY <1>1 DEF PoolInv, CountInv
      <4>2. own # d \/ home'[d] = home[d]
        BY <1>3, <1>7, <2>2, <4>1
      <4> QED BY <2>2, <4>1, <4>2, ConstantFacts
    <3> QED BY <1>1, <2>1, <3>1, <3>2, <3>3 DEF PoolInv, CountInv
  <2> QED BY <2>3, <2>5, <2>6, <2>7 DEF PoolInv
<1> QED BY <1>6, <1>7

(* A buffer that goes back to the list *)
LEMMA ReleaseKeeps ==
  ASSUME PoolInv, NEW t \in Threads, Pool!Release(t), UNCHANGED own
  PROVE  PoolInv'
<1> DEFINE b == buffer[t]
<1>1. /\ stage[t] = "release"
      /\ content' = [content EXCEPT ![b] = 0]
      /\ list' = <<b>> \o list
      /\ stage' = [stage EXCEPT ![t] = "drop"]
      /\ UNCHANGED <<refcount, home, poolRefs, uninited, poolFreed, buffer>>
  BY DEF Pool!Release
<1>2. /\ content \in [Data -> Frames \cup {0}] /\ refcount \in [Data -> Nat]
      /\ home \in [Data -> {"unused", "plain", "pool"}] /\ list \in Seq(Data)
      /\ stage \in [Threads -> {"none", "count", "release", "drop"}]
      /\ buffer \in [Threads -> Data \cup {NoData}]
      /\ \A u \in Threads : stage[u] = "none" <=> buffer[u] = NoData
      /\ poolRefs \in Nat /\ uninited \in BOOLEAN /\ poolFreed \in BOOLEAN
  BY DEF PoolInv, Pool!TypeOK
<1>3. b \in Data /\ Releases(t, b)
  BY <1>1, <1>2 DEF Releases
<1>4. home[b] = "pool" /\ refcount[b] = 0 /\ content[b] # 0
  BY <1>3 DEF PoolInv, MemoryInv
<1> HIDE DEF b
<1>5. /\ \A i \in DOMAIN list : list[i] \in Data /\ list[i] # b /\ content[list[i]] = 0
      /\ DOMAIN list = 1 .. Len(list) /\ Len(list) \in Nat
  BY <1>2, <1>4, LenProperties, ElementOfSeq DEF PoolInv, MemoryInv
<1>6. /\ list' \in Seq(Data) /\ Len(list') = Len(list) + 1
      /\ list'[1] = b
      /\ \A i \in 2 .. Len(list') : i - 1 \in DOMAIN list /\ list'[i] = list[i - 1]
      /\ DOMAIN list' = 1 .. Len(list')
  <2>1. <<b>> \in Seq(Data) /\ Len(<<b>>) = 1 /\ <<b>>[1] = b
    BY <1>3
  <2>2. /\ list' \in Seq(Data) /\ Len(list') = 1 + Len(list)
        /\ \A i \in 1 .. 1 + Len(list) :
             list'[i] = IF i <= 1 THEN <<b>>[i] ELSE list[i - 1]
    BY <1>1, <1>2, <2>1, ConcatProperties
  <2>3. DOMAIN list' = 1 .. Len(list')
    BY <2>2, LenProperties
  <2> QED BY <1>5, <2>1, <2>2, <2>3
<1>7. Pool!TypeOK'
  <2>1. content' \in [Data -> Frames \cup {0}]
    BY <1>1, <1>2
  <2>2. /\ stage' \in [Threads -> {"none", "count", "release", "drop"}]
        /\ \A u \in Threads : stage'[u] = "none" <=> stage[u] = "none"
    BY <1>1, <1>2
  <2> QED BY <1>1, <1>2, <1>6, <2>1, <2>2 DEF Pool!TypeOK
<1>8. \A i \in DOMAIN list' :
        list'[i] = b \/ \E j \in DOMAIN list : j = i - 1 /\ list'[i] = list[j]
  BY <1>5, <1>6
<1>9. Pool!ListedIsFree'
  <2>1. \A i \in DOMAIN list' : refcount'[list'[i]] = 0 /\ home'[list'[i]] = "pool"
    BY <1>1, <1>4, <1>8 DEF PoolInv, Pool!ListedIsFree
  <2>2. \A i, j \in DOMAIN list' : list'[i] = list'[j] => i = j
    BY <1>5, <1>6 DEF PoolInv, Pool!ListedIsFree
  <2> QED BY <2>1, <2>2 DEF Pool!ListedIsFree
<1>10. \A u \in Threads, e \in Data : Releases(u, e)' <=> Releases(u, e) /\ e # b
  BY <1>1, <1>2, <1>3 DEF Releases, PoolInv, MemoryInv
<1>11. MemoryInv'
  <2>1. \A e \in Data : content'[e] = IF e = b THEN 0 ELSE content[e]
    BY <1>1, <1>2
  <2>2. \A e \in Data : content'[e] # 0 <=>
          refcount'[e] > 0 \/ \E u \in Threads : Releases(u, e)'
    BY <1>1, <1>4, <1>10, <2>1 DEF PoolInv, MemoryInv
  <2>3. \A i \in DOMAIN list' : content'[list'[i]] = 0
    BY <1>3, <1>5, <1>8, <2>1
  <2> QED BY <1>1, <1>10, <2>2, <2>3 DEF PoolInv, MemoryInv
<1>12. CountInv'
  <2>1. Live' = Live
    BY <1>1 DEF Live
  <2>2. \A u \in Threads : Returning(u)' <=> Returning(u)
    BY <1>1, <1>2 DEF Returning
  <2>3. Returners' = Returners /\ t \in Returners
    BY <1>1, <2>2 DEF Returners, Returning
  <2>4. /\ stage'[Client] = "count" <=> stage[Client] = "count"
        /\ \A w \in Workers : stage'[w] # "count"
    BY <1>1, <1>2, ConstantFacts DEF PoolInv, CountInv
  <2>5. Cardinality(Returners) > 0
    BY <2>3, CountFacts, FS_EmptySet
  <2>6. ~poolFreed
    BY <2>5, CountFacts DEF PoolInv, CountInv
  <2> QED BY <1>1, <2>1, <2>3, <2>4, <2>6 DEF PoolInv, CountInv
<1> QED BY <1>7, <1>9, <1>11, <1>12 DEF PoolInv

(* One count of the pool less: the last one frees it. *)
LEMMA CountDown ==
  ASSUME PoolInv, Pool!DropCount, poolRefs > 0
  PROVE  /\ poolRefs' \in Nat /\ poolRefs' = poolRefs - 1
         /\ poolFreed' \in BOOLEAN /\ (poolFreed' <=> poolRefs' = 0)
         /\ poolFreed' => list' = <<>>
         /\ list' \in {list, <<>>} /\ list' \in Seq(Data)
         /\ Pool!ListedIsFree /\ UNCHANGED <<refcount, home>> => Pool!ListedIsFree'
         /\ \A i \in DOMAIN list' : i \in DOMAIN list /\ list'[i] = list[i]
<1>1. poolRefs \in Nat /\ list \in Seq(Data)
  BY DEF PoolInv, Pool!TypeOK
<1>2. /\ poolRefs' = poolRefs - 1 /\ poolFreed' = (poolRefs = 1)
      /\ list' = IF poolRefs = 1 THEN <<>> ELSE list
  BY DEF Pool!DropCount
<1>3. <<>> \in Seq(Data) /\ DOMAIN <<>> = {}
  BY EmptySeq, LenProperties
<1>4. list' \in {list, <<>>} /\ list' \in Seq(Data)
  BY <1>1, <1>2, <1>3
<1>5. \A i \in DOMAIN list' : i \in DOMAIN list /\ list'[i] = list[i]
  BY <1>3, <1>4
<1>6. poolFreed' \in BOOLEAN /\ (poolFreed' <=> poolRefs' = 0) /\ (poolFreed' => list' = <<>>)
  <2>1. poolRefs' = 0 <=> poolRefs = 1
    BY <1>1, <1>2
  <2>2. poolFreed' <=> poolRefs = 1
    BY <1>2
  <2>3. poolFreed' \in BOOLEAN
    BY <1>2
  <2> QED BY <1>2, <2>1, <2>2, <2>3
<1>7. Pool!ListedIsFree /\ UNCHANGED <<refcount, home>> => Pool!ListedIsFree'
  BY <1>5 DEF Pool!ListedIsFree
<1> QED BY <1>1, <1>2, <1>4, <1>5, <1>6, <1>7

(* A buffer that is back *)
LEMMA DropKeeps ==
  ASSUME PoolInv, NEW t \in Threads, Pool!Drop(t), UNCHANGED own
  PROVE  PoolInv'
<1>1. /\ stage[t] = "drop" /\ Pool!DropCount
      /\ stage' = [stage EXCEPT ![t] = "none"]
      /\ buffer' = [buffer EXCEPT ![t] = NoData]
      /\ UNCHANGED <<content, refcount, home, uninited>>
  BY DEF Pool!Drop
<1>2. Pool!TypeOK
  BY DEF PoolInv
<1>3. t \in Returners /\ Returning(t) /\ ~Returning(t)'
  BY <1>1, <1>2 DEF Returners, Returning, Pool!TypeOK
<1>4. poolRefs > 0
  <2>1. Cardinality(Returners) > 0
    BY <1>3, CountFacts, FS_EmptySet
  <2> QED BY <2>1, CountFacts DEF PoolInv, CountInv
<1>5. /\ poolRefs' \in Nat /\ poolRefs' = poolRefs - 1
      /\ poolFreed' \in BOOLEAN /\ (poolFreed' <=> poolRefs' = 0)
      /\ poolFreed' => list' = <<>>
      /\ list' \in Seq(Data)
      /\ Pool!ListedIsFree'
      /\ \A i \in DOMAIN list' : i \in DOMAIN list /\ list'[i] = list[i]
  BY <1>1, <1>4, CountDown DEF PoolInv
<1>6. Pool!TypeOK'
  BY <1>1, <1>2, <1>5, ConstantFacts DEF Pool!TypeOK
<1>7. \A u \in Threads, e \in Data : Releases(u, e)' <=> Releases(u, e)
  BY <1>1, <1>2 DEF Releases, Pool!TypeOK
<1>8. MemoryInv'
  BY <1>1, <1>5, <1>7 DEF PoolInv, MemoryInv
<1>9. CountInv'
  <2>1. Live' = Live
    BY <1>1 DEF Live
  <2>2. Cardinality(Returners') = Cardinality(Returners) - 1
    <3>1. \A u \in Threads : u # t => stage'[u] = stage[u]
      BY <1>1, <1>2 DEF Pool!TypeOK
    <3> QED BY <1>3, <3>1, ReturnersStep, CountFacts
  <2>3. /\ stage'[Client] = "count" <=> stage[Client] = "count"
        /\ \A w \in Workers : stage'[w] # "count"
    BY <1>1, <1>2, ConstantFacts DEF PoolInv, CountInv, Pool!TypeOK
  <2> QED BY <1>1, <1>5, <2>1, <2>2, <2>3, CountFacts DEF PoolInv, CountInv
<1> QED BY <1>5, <1>6, <1>8, <1>9 DEF PoolInv

(* av_buffer_pool_uninit *)
LEMMA UninitKeeps ==
  ASSUME PoolInv, Pool!Uninit(Client), UNCHANGED own
  PROVE  PoolInv'
<1>1. /\ stage[Client] = "none" /\ ~uninited /\ uninited' = TRUE /\ Pool!DropCount
      /\ UNCHANGED <<content, refcount, home, stage, buffer>>
  BY DEF Pool!Uninit, Pool!Rests
<1>2. Pool!TypeOK
  BY DEF PoolInv
<1>3. poolRefs > 0
  BY <1>1, CountFacts DEF PoolInv, CountInv
<1>4. /\ poolRefs' \in Nat /\ poolRefs' = poolRefs - 1
      /\ poolFreed' \in BOOLEAN /\ (poolFreed' <=> poolRefs' = 0)
      /\ poolFreed' => list' = <<>>
      /\ list' \in Seq(Data)
      /\ Pool!ListedIsFree'
      /\ \A i \in DOMAIN list' : i \in DOMAIN list /\ list'[i] = list[i]
  BY <1>1, <1>3, CountDown DEF PoolInv
<1>5. Pool!TypeOK'
  BY <1>1, <1>2, <1>4 DEF Pool!TypeOK
<1>6. MemoryInv'
  BY <1>1, <1>4 DEF PoolInv, MemoryInv, Releases
<1>7. CountInv'
  <2>1. Live' = Live /\ Returners' = Returners
    BY <1>1 DEF Live, Returners, Returning
  <2> QED BY <1>1, <1>4, <2>1, CountFacts DEF PoolInv, CountInv
<1> QED BY <1>4, <1>5, <1>6, <1>7 DEF PoolInv

(* A step that leaves the pool alone *)
LEMMA NothingKeeps ==
  ASSUME PoolInv, UNCHANGED poolVars, UNCHANGED own
  PROVE  PoolInv'
<1>1. UNCHANGED <<content, refcount, home, list, poolRefs, uninited, poolFreed, stage, buffer>>
  BY DEF poolVars
<1>2. Live' = Live /\ Returners' = Returners
  BY <1>1 DEF Live, Returners, Returning
<1> QED BY <1>1, <1>2 DEF PoolInv, Pool!TypeOK, MemoryInv, Releases, Pool!ListedIsFree,
      CountInv

-----------------------------------------------------------------------------
(* What follows from the invariant *)

(* The arithmetic of the ring *)
LEMMA RingFacts ==
  ASSUME FieldsOK
  PROVE  /\ Outstanding \in Nat /\ Outstanding < BufferSize
         /\ sent \in Nat /\ made \in Nat /\ Taken \in Int
         /\ Len(taskFifo) \in Nat /\ DOMAIN taskFifo = 1 .. Len(taskFifo)
         /\ Fetched \in Int
         /\ \A i \in Slots : Distance(i) \in Nat /\ Distance(i) < BufferSize
         /\ \A i, j \in Slots : Distance(i) = Distance(j) => i = j
         /\ \A i \in Slots : Distance(i) = 0 <=> i = finishedIndex
<1>1. /\ BufferSize \in Nat /\ BufferSize > 0
      /\ taskIndex \in Nat /\ taskIndex < BufferSize
      /\ finishedIndex \in Nat /\ finishedIndex < BufferSize
      /\ \A i \in Slots : i \in Nat /\ i < BufferSize
  <2>1. taskIndex \in Slots /\ finishedIndex \in Slots
    BY DEF FieldsOK
  <2> QED BY <2>1, ConstantFacts DEF Slots
<1>2. Outstanding \in Nat /\ Outstanding < BufferSize
  <2>1. taskIndex \in Slots /\ finishedIndex \in Slots
    BY DEF FieldsOK
  <2>2. Outstanding = IF taskIndex >= finishedIndex THEN taskIndex - finishedIndex
                      ELSE taskIndex + BufferSize - finishedIndex
    BY <2>1, RingArithmetic DEF Outstanding
  <2> QED BY <1>1, <2>2
<1>3. made \in Nat /\ sent \in Nat
  <2>1. made \in {0} \cup Frames /\ sent \in 0 .. made
    BY DEF FieldsOK
  <2> QED BY <2>1, ConstantFacts DEF Frames
<1>4. Len(taskFifo) \in Nat /\ DOMAIN taskFifo = 1 .. Len(taskFifo)
  BY LenProperties DEF FieldsOK
<1>5. Taken \in Int /\ Fetched \in Int
  BY <1>2, <1>3, <1>4 DEF Taken, Fetched
<1>6. /\ \A i \in Slots : Distance(i) \in Nat /\ Distance(i) < BufferSize
      /\ \A i, j \in Slots : Distance(i) = Distance(j) => i = j
      /\ \A i \in Slots : Distance(i) = 0 <=> i = finishedIndex
  BY <1>1 DEF Distance
<1> QED BY <1>2, <1>3, <1>4, <1>5, <1>6

(* The types *)
LEMMA InvTypes ==
  ASSUME EncoderInv
  PROVE  TypeOK
<1>1. Len(taskFifo) <= BufferSize
  <2>1. Fetched >= Taken /\ Outstanding <= NbThreads + 1
    BY DEF EncoderInv, RingInv, RingSize
  <2> QED BY <2>1, RingFacts, ConstantFacts DEF EncoderInv, Fetched, Taken
<1> QED BY <1>1 DEF EncoderInv, PoolInv, FieldsOK, TypeOK

\* The references of the client
ClientRefs(d) ==
  (IF own = d THEN 1 ELSE 0)
    + (IF client = "submit" /\ own = d THEN 1 ELSE 0)
    + (IF client = "replace" /\ content[d] = made THEN 1 ELSE 0)

(* Who refers to a buffer is counted: nobody else refers to one of a single reference. *)
LEMMA HolderFacts ==
  ASSUME EncoderInv, NEW d \in Data
  PROVE  /\ IsFiniteSet(Queued(d)) /\ Cardinality(Queued(d)) \in Nat
         /\ IsFiniteSet(Encoded(d)) /\ Cardinality(Encoded(d)) \in Nat
         /\ refcount[d] = Cardinality(Queued(d)) + Cardinality(Encoded(d)) + ClientRefs(d)
         /\ refcount[d] \in Nat /\ ClientRefs(d) \in Nat
         /\ refcount[d] = ClientRefs(d) => Queued(d) = {} /\ Encoded(d) = {}
         /\ Queued(d) # {} => refcount[d] > 0
         /\ Encoded(d) # {} => refcount[d] > 0
         /\ own = d => refcount[d] > 0
         /\ client = "replace" /\ content[d] = made => refcount[d] > 0
<1>1. IsFiniteSet(Queued(d))
  <2>1. IsFiniteSet(1 .. Len(taskFifo))
    BY RingFacts, FS_Interval DEF EncoderInv
  <2>2. Queued(d) \in SUBSET (1 .. Len(taskFifo))
    BY RingFacts DEF EncoderInv, Queued
  <2> QED BY <2>1, <2>2, FS_Subset
<1>2. IsFiniteSet(Encoded(d))
  <2>1. Encoded(d) \in SUBSET Workers
    BY DEF Encoded
  <2> QED BY <2>1, ThreadsFinite, FS_Subset
<1>3. Cardinality(Queued(d)) \in Nat /\ Cardinality(Encoded(d)) \in Nat
  BY <1>1, <1>2, FS_CardinalityType
<1>4. /\ Cardinality(Queued(d)) = 0 <=> Queued(d) = {}
      /\ Cardinality(Encoded(d)) = 0 <=> Encoded(d) = {}
  BY <1>1, <1>2, FS_EmptySet
<1>5. ClientRefs(d) \in Nat
  BY DEF ClientRefs
<1>6. refcount[d] = Cardinality(Queued(d)) + Cardinality(Encoded(d)) + ClientRefs(d)
  <2>1. refcount[d] = Referrers(d)
    BY DEF EncoderInv, RefsCounted
  <2> QED BY <2>1, <1>3 DEF Referrers, ClientRefs
<1>7. own = d => ClientRefs(d) > 0
  BY DEF ClientRefs
<1>8. client = "replace" /\ content[d] = made => ClientRefs(d) > 0
  BY DEF ClientRefs
<1> HIDE DEF ClientRefs
<1> DEFINE q == Cardinality(Queued(d))
           e == Cardinality(Encoded(d))
           c == ClientRefs(d)
<1>9. /\ refcount[d] = q + e + c /\ q \in Nat /\ e \in Nat /\ c \in Nat
      /\ q = 0 <=> Queued(d) = {}
      /\ e = 0 <=> Encoded(d) = {}
  BY <1>3, <1>4, <1>5, <1>6
<1> HIDE DEF q, e, c
<1>10. /\ refcount[d] \in Nat
       /\ refcount[d] = c => q = 0 /\ e = 0
       /\ q # 0 => refcount[d] > 0
       /\ e # 0 => refcount[d] > 0
       /\ c > 0 => refcount[d] > 0
  BY <1>9
<1>11. /\ refcount[d] = c => Queued(d) = {} /\ Encoded(d) = {}
       /\ Queued(d) # {} => refcount[d] > 0
       /\ Encoded(d) # {} => refcount[d] > 0
  BY <1>9, <1>10
<1>12. c = ClientRefs(d)
  BY DEF c
<1> QED BY <1>1, <1>2, <1>3, <1>5, <1>6, <1>7, <1>8, <1>10, <1>11, <1>12

(* The other way round *)
LEMMA CountedAfter ==
  ASSUME \A d \in Data :
           refcount'[d] = Cardinality(Queued(d)') + Cardinality(Encoded(d)') + ClientRefs(d)',
         \A d \in Data : Cardinality(Queued(d)') \in Nat /\ Cardinality(Encoded(d)') \in Nat
  PROVE  RefsCounted'
<1> SUFFICES ASSUME NEW d \in Data
             PROVE  refcount'[d] = Referrers(d)'
  BY DEF RefsCounted
<1> QED BY DEF Referrers, ClientRefs

(* The buffers of tasks that somebody has or that wait *)
LEMMA TaskFacts ==
  ASSUME EncoderInv
  PROVE  /\ \A i \in DOMAIN taskFifo : taskFifo[i] \in Tasks
         /\ \A i \in DOMAIN taskFifo :
              taskFifo[i].data \in Data /\ refcount[taskFifo[i].data] > 0
         /\ \A w \in Workers : task[w].data # NoData =>
              task[w].data \in Data /\ refcount[task[w].data] > 0
         /\ \A w \in Workers : task[w] # NoTask <=> worker[w] \in {"encode", "free", "deliver"}
         /\ \A w \in Workers : task[w].data # NoData => worker[w] = "encode"
         /\ \A w \in Workers : worker[w] = "encode" => task[w] \in Tasks
         /\ NoTask \notin Tasks /\ NoPacket \notin Packets
<1>1. \A i \in DOMAIN taskFifo : taskFifo[i] \in Tasks
  BY RingFacts, ElementOfSeq DEF EncoderInv, FieldsOK
<1>2. \A i \in DOMAIN taskFifo : taskFifo[i].data \in Data
  BY <1>1 DEF Tasks
<1>3. \A i \in DOMAIN taskFifo : refcount[taskFifo[i].data] > 0
  <2> TAKE i \in DOMAIN taskFifo
  <2>1. PICK d \in Data : d = taskFifo[i].data
    BY <1>2
  <2>2. Queued(d) # {}
    BY <2>1 DEF Queued
  <2> QED BY <2>1, <2>2, HolderFacts
<1>4. \A w \in Workers : task[w].data # NoData =>
        task[w].data \in Data /\ refcount[task[w].data] > 0
  <2> SUFFICES ASSUME NEW w \in Workers, task[w].data # NoData
               PROVE  task[w].data \in Data /\ refcount[task[w].data] > 0
    OBVIOUS
  <2>1. PICK d \in Data : d = task[w].data
    BY DEF EncoderInv, FieldsOK
  <2>2. Encoded(d) # {}
    BY <2>1 DEF Encoded
  <2> QED BY <2>1, <2>2, HolderFacts
<1>5. NoTask \notin Tasks /\ NoPacket \notin Packets
  BY ConstantFacts DEF NoTask, Tasks, NoPacket, Packets, Frames
<1>6. \A w \in Workers : task[w] # NoTask <=> worker[w] \in {"encode", "free", "deliver"}
  <2> TAKE w \in Workers
  <2>1. CASE worker[w] = "encode"
    BY <2>1, <1>5 DEF EncoderInv, WorkerInv
  <2>2. CASE worker[w] \in {"free", "deliver"}
    BY <2>2, ConstantFacts DEF EncoderInv, WorkerInv, NoTask, Frames
  <2>3. CASE worker[w] \in {"fetch", "asleep", "gone"}
    BY <2>3 DEF EncoderInv, WorkerInv
  <2> QED BY <2>1, <2>2, <2>3 DEF EncoderInv, FieldsOK
<1>7. \A w \in Workers : task[w].data # NoData => worker[w] = "encode"
  <2> SUFFICES ASSUME NEW w \in Workers, worker[w] # "encode"
               PROVE  task[w].data = NoData
    OBVIOUS
  <2>1. worker[w] \in {"free", "deliver", "fetch", "asleep", "gone"}
    BY DEF EncoderInv, FieldsOK
  <2>2. task[w].data = NoData \/ task[w] = NoTask
    BY <2>1 DEF EncoderInv, WorkerInv
  <2> QED BY <2>2 DEF NoTask
<1>8. \A w \in Workers : worker[w] = "encode" => task[w] \in Tasks
  BY DEF EncoderInv, WorkerInv
<1> QED BY <1>1, <1>2, <1>3, <1>4, <1>5, <1>6, <1>7, <1>8

-----------------------------------------------------------------------------
(* The client and its frames *)

\* What these steps leave alone.
Outside == <<sent, draining, bufferPkt, taskFifo, ringVars, exit, workerVars>>

(* A ring that stays as it is *)
LEMMA RingAlone ==
  ASSUME EncoderInv, UNCHANGED <<sent, taskFifo, ringVars>>,
         \A w \in Workers :
           /\ task'[w].frame = task[w].frame /\ task'[w].index = task[w].index
           /\ task'[w] = NoTask <=> task[w] = NoTask,
         client' \notin {"output", "output asleep"} => Outstanding <= NbThreads,
         bufferPkt' \in {bufferPkt, NoPacket}
  PROVE  RingInv'
<1>1. UNCHANGED <<sent, taskFifo, finished, taskIndex, finishedIndex>>
  BY DEF ringVars
<1>2. Outstanding' = Outstanding /\ Taken' = Taken /\ Fetched' = Fetched
  BY <1>1 DEF Outstanding, Taken, Fetched
<1>3. \A i \in Nat : Distance(i)' = Distance(i)
  BY <1>1 DEF Distance
<1>4. /\ \A i \in Slots : Distance(i)' = Distance(i)
      /\ \A i \in DOMAIN taskFifo : Distance(taskFifo[i].index)' = Distance(taskFifo[i].index)
      /\ \A w \in Workers : Distance(task[w].index)' = Distance(task[w].index)
  <2>1. \A i \in DOMAIN taskFifo : taskFifo[i].index \in Slots
    BY TaskFacts DEF Tasks
  <2>2. \A w \in Workers : task[w].index \in Slots
    BY DEF EncoderInv, FieldsOK
  <2> QED BY <1>1, <1>3, <2>1, <2>2, SlotNumbers
<1>5. RingSize'
  BY <1>2 DEF EncoderInv, RingInv, RingSize
<1>6. QueuedInv'
  BY <1>1, <1>2, <1>4 DEF EncoderInv, RingInv, QueuedInv
<1>7. EncodedInv'
  BY <1>1, <1>2, <1>4 DEF EncoderInv, RingInv, EncodedInv
<1>8. FinishedInv'
  BY <1>1, <1>2, <1>4 DEF EncoderInv, RingInv, FinishedInv
<1> QED BY <1>5, <1>6, <1>7, <1>8 DEF RingInv

(* Tasks, packets and their slots stay as they are. *)
LEMMA OutsideKept ==
  ASSUME EncoderInv, UNCHANGED Outside,
         client \in {"idle", "replace", "closed"},
         client' \in {"idle", "replace", "submit", "closed"}
  PROVE  /\ RingInv'
         /\ \A d \in Data : Queued(d)' = Queued(d) /\ Encoded(d)' = Encoded(d)
         /\ (\A w \in Workers : stage'[w] = stage[w]) => WorkerInv'
         /\ (\A e \in Data : Queued(e) # {} \/ Encoded(e) # {} => content'[e] = content[e])
              => FramesIntact'
<1>1. UNCHANGED <<sent, draining, bufferPkt, taskFifo, finished, taskIndex, finishedIndex,
                  exit, worker, task, result>>
  BY DEF Outside, ringVars, workerVars
<1>2. \A d \in Data : Queued(d)' = Queued(d) /\ Encoded(d)' = Encoded(d)
  BY <1>1 DEF Queued, Encoded
<1>3. RingInv'
  <2>1. Outstanding <= NbThreads
    BY DEF EncoderInv, RingInv, RingSize
  <2> QED BY <1>1, <2>1, RingAlone DEF ringVars
<1>4. (\A w \in Workers : stage'[w] = stage[w]) => WorkerInv'
  <2> HAVE \A w \in Workers : stage'[w] = stage[w]
  <2>1. \A w \in Workers : Returning(w)' <=> Returning(w)
    BY DEF Returning
  <2> QED BY <1>1, <2>1 DEF EncoderInv, WorkerInv
<1>5. (\A e \in Data : Queued(e) # {} \/ Encoded(e) # {} => content'[e] = content[e])
        => FramesIntact'
  <2> HAVE \A e \in Data : Queued(e) # {} \/ Encoded(e) # {} => content'[e] = content[e]
  <2>1. \A i \in DOMAIN taskFifo : content'[taskFifo[i].data] = content[taskFifo[i].data]
    <3> TAKE i \in DOMAIN taskFifo
    <3>1. PICK d \in Data : d = taskFifo[i].data
      BY TaskFacts
    <3>2. Queued(d) # {}
      BY <3>1 DEF Queued
    <3> QED BY <3>1, <3>2
  <2>2. \A w \in Workers : task[w].data # NoData =>
          content'[task[w].data] = content[task[w].data]
    <3> SUFFICES ASSUME NEW w \in Workers, task[w].data # NoData
                 PROVE  content'[task[w].data] = content[task[w].data]
      OBVIOUS
    <3>1. PICK d \in Data : d = task[w].data
      BY TaskFacts
    <3>2. Encoded(d) # {}
      BY <3>1 DEF Encoded
    <3> QED BY <3>1, <3>2
  <2> QED BY <1>1, <2>1, <2>2 DEF EncoderInv, FramesIntact
<1> QED BY <1>2, <1>3, <1>4, <1>5

(* The references are counted, when the client's are. *)
LEMMA ClientCounts ==
  ASSUME EncoderInv, \A d \in Data : Queued(d)' = Queued(d) /\ Encoded(d)' = Encoded(d),
         \A d \in Data : refcount'[d] - ClientRefs(d)' = refcount[d] - ClientRefs(d),
         \A d \in Data : refcount'[d] \in Nat
  PROVE  RefsCounted'
<1>1. \A d \in Data : ClientRefs(d)' \in Nat
  BY DEF ClientRefs
<1>2. \A d \in Data :
        /\ refcount'[d] = Cardinality(Queued(d)') + Cardinality(Encoded(d)') + ClientRefs(d)'
        /\ Cardinality(Queued(d)') \in Nat /\ Cardinality(Encoded(d)') \in Nat
  BY <1>1, HolderFacts
<1> QED BY <1>2, CountedAfter

(* MakeFrame *)
LEMMA MakeFrameKeeps ==
  ASSUME EncoderInv, MakeFrame
  PROVE  EncoderInv'
<1>1. /\ client = "idle" /\ own = NoData /\ made < MaxFrames /\ sent = made
      /\ made' = made + 1 /\ UNCHANGED <<client, reply, Outside>>
  BY DEF MakeFrame, apiVars, Outside
<1>2. PICK d \in Data : Pool!Get(Client, d, made + 1) /\ own' = d
  BY DEF MakeFrame
<1>3. made + 1 \in Frames /\ made \in Nat /\ NoData \notin Data
  BY <1>1, RingFacts, ConstantFacts DEF EncoderInv, Frames
<1>4. PoolInv'
  BY <1>2, <1>3, GetKeeps DEF EncoderInv
<1>5. /\ refcount[d] = 0 /\ content[d] = 0
      /\ refcount' = [refcount EXCEPT ![d] = 1]
      /\ content' = [content EXCEPT ![d] = made + 1]
      /\ \A w \in Workers : stage'[w] = stage[w]
  <2>1. stage' = [stage EXCEPT ![Client] = "count"]
    BY <1>2 DEF Pool!Get
  <2>2. \A w \in Workers : stage'[w] = stage[w]
    BY <2>1, ConstantFacts DEF EncoderInv, PoolInv, Pool!TypeOK
  <2> QED BY <1>2, <1>3, <2>2, GetIsFree DEF EncoderInv, Pool!Get
<1>6. /\ refcount \in [Data -> Nat] /\ content \in [Data -> Frames \cup {0}]
  BY DEF EncoderInv, PoolInv, Pool!TypeOK
<1>7. Queued(d) = {} /\ Encoded(d) = {}
  BY <1>5, HolderFacts
<1>8. FieldsOK'
  BY <1>1, <1>2, <1>3 DEF EncoderInv, FieldsOK, Outside, ringVars, workerVars
<1>9. RingInv' /\ WorkerInv' /\ FramesIntact'
  BY <1>1, <1>5, <1>6, <1>7, OutsideKept
<1>10. ContentInv'
  <2>1. /\ \A e \in Data : content'[e] = IF e = d THEN made + 1 ELSE content[e]
        /\ \A e \in Data : content[e] \in Nat /\ content[e] <= made
    BY <1>5, <1>6, ConstantFacts DEF EncoderInv, ContentInv, Frames
  <2>2. \A e, g \in Data : content'[e] = content'[g] /\ content'[e] # 0 => e = g
    BY <1>3, <2>1 DEF EncoderInv, ContentInv
  <2>3. \A e \in Data : content'[e] <= made'
    BY <1>1, <1>3, <2>1
  <2> QED BY <1>1, <1>2, <2>1, <2>2, <2>3 DEF ContentInv
<1>11. RefsCounted'
  <2>1. \A e \in Data : ClientRefs(e)' = IF e = d THEN 1 ELSE 0
    BY <1>1, <1>2 DEF ClientRefs
  <2>2. \A e \in Data : ClientRefs(e) = 0
    BY <1>1, <1>3 DEF ClientRefs
  <2> QED BY <1>1, <1>5, <1>6, <2>1, <2>2, OutsideKept, ClientCounts
<1>12. ClientInv'
  BY <1>1, <1>2, <1>3 DEF EncoderInv, ClientInv, Outside
<1> QED BY <1>4, <1>8, <1>9, <1>10, <1>11, <1>12 DEF EncoderInv

(* The memory of the buffers *)
LEMMA DataFacts ==
  ASSUME EncoderInv
  PROVE  /\ refcount \in [Data -> Nat] /\ content \in [Data -> Frames \cup {0}]
         /\ home \in [Data -> {"unused", "plain", "pool"}]
         /\ \A e \in Data : content[e] \in Nat /\ content[e] <= made
         /\ own # NoData => own \in Data
         /\ made \in Nat /\ NoData \notin Data
         /\ \A e \in Data : refcount[e] > 0 => content[e] # 0
<1>1. /\ refcount \in [Data -> Nat] /\ content \in [Data -> Frames \cup {0}]
      /\ home \in [Data -> {"unused", "plain", "pool"}]
  BY DEF EncoderInv, PoolInv, Pool!TypeOK
<1>2. \A e \in Data : content[e] \in Nat /\ content[e] <= made
  BY <1>1, ConstantFacts DEF Frames, EncoderInv, ContentInv
<1>3. \A e \in Data : refcount[e] > 0 => content[e] # 0
  BY DEF EncoderInv, PoolInv, MemoryInv
<1>4. made \in Nat
  BY RingFacts DEF EncoderInv
<1>5. own # NoData => own \in Data
  BY DEF EncoderInv, FieldsOK
<1> QED BY <1>1, <1>2, <1>3, <1>4, <1>5, ConstantFacts

(* ChangeFrame: the frame itself, when nobody else has it *)
LEMMA ChangeInPlaceKeeps ==
  ASSUME EncoderInv, ChangeFrame, UNCHANGED <<client, own>>,
         Pool!IsWritable(own), Pool!Write(own, made')
  PROVE  EncoderInv'
<1>1. /\ client = "idle" /\ own # NoData /\ made < MaxFrames /\ sent = made
      /\ made' = made + 1 /\ UNCHANGED <<reply, Outside>>
      /\ Pool!Rests(Client)
  BY DEF ChangeFrame, Idle, apiVars, Outside
<1>2. PICK d \in Data : d = own
  BY <1>1, DataFacts
<1>3. /\ made + 1 \in Frames /\ made \in Nat
  BY <1>1, DataFacts, ConstantFacts DEF Frames
<1>4. /\ refcount[d] = 1
      /\ content' = [content EXCEPT ![d] = made + 1]
      /\ UNCHANGED <<refcount, stage>>
  BY <1>1, <1>2 DEF Pool!IsWritable, Pool!Write
<1>5. PoolInv'
  BY <1>1, <1>2, <1>3, <1>4, WriteKeeps DEF EncoderInv
<1>6. FieldsOK'
  BY <1>1, <1>3 DEF EncoderInv, FieldsOK, Outside, ringVars, workerVars
<1>7. Queued(d) = {} /\ Encoded(d) = {}
  <2>1. ClientRefs(d) = 1
    BY <1>1, <1>2 DEF ClientRefs
  <2> QED BY <1>4, <2>1, HolderFacts
<1>8. RingInv' /\ WorkerInv' /\ FramesIntact'
  BY <1>1, <1>4, <1>7, OutsideKept, DataFacts
<1>9. ContentInv'
  <2>1. /\ \A e \in Data : content'[e] = IF e = d THEN made + 1 ELSE content[e]
        /\ \A e \in Data : content[e] \in Nat /\ content[e] <= made
    BY <1>4, DataFacts
  <2>2. \A e, g \in Data : content'[e] = content'[g] /\ content'[e] # 0 => e = g
    BY <1>3, <2>1 DEF EncoderInv, ContentInv
  <2>3. \A e \in Data : content'[e] <= made'
    BY <1>1, <1>3, <2>1
  <2> QED BY <1>1, <1>2, <2>1, <2>2, <2>3 DEF ContentInv
<1>10. RefsCounted'
  <2>1. \A e \in Data : ClientRefs(e)' = ClientRefs(e)
    BY <1>1 DEF ClientRefs
  <2> QED BY <1>1, <1>4, <2>1, OutsideKept, ClientCounts, DataFacts
<1>11. ClientInv'
  BY <1>1, <1>3, <1>4 DEF EncoderInv, ClientInv, Outside, Pool!Rests
<1> QED BY <1>5, <1>6, <1>8, <1>9, <1>10, <1>11 DEF EncoderInv

(* ChangeFrame: a copy of it, when somebody has *)
LEMMA CopyFrameKeeps ==
  ASSUME EncoderInv, ChangeFrame, client' = "replace", UNCHANGED own,
         NEW copy \in Data, Pool!Create(copy, made')
  PROVE  EncoderInv'
<1>1. /\ client = "idle" /\ own # NoData /\ made < MaxFrames /\ sent = made
      /\ made' = made + 1 /\ UNCHANGED <<reply, Outside>>
      /\ Pool!Rests(Client)
  BY DEF ChangeFrame, Idle, apiVars, Outside
<1>2. made + 1 \in Frames /\ made \in Nat /\ own \in Data
  BY <1>1, DataFacts, ConstantFacts DEF Frames
<1>3. /\ home[copy] = "unused"
      /\ refcount' = [refcount EXCEPT ![copy] = 1]
      /\ content' = [content EXCEPT ![copy] = made + 1]
      /\ UNCHANGED stage
  BY <1>1 DEF Pool!Create, Pool!Unused
<1>4. refcount[copy] = 0
  BY <1>3 DEF EncoderInv, PoolInv, MemoryInv
<1>5. PoolInv'
  BY <1>1, <1>2, CreateKeeps DEF EncoderInv
<1>6. FieldsOK'
  BY <1>1, <1>2 DEF EncoderInv, FieldsOK, Outside, ringVars, workerVars
<1>7. Queued(copy) = {} /\ Encoded(copy) = {} /\ own # copy
  BY <1>4, HolderFacts
<1>8. /\ \A e \in Data : content'[e] = IF e = copy THEN made + 1 ELSE content[e]
      /\ \A e \in Data : refcount'[e] = IF e = copy THEN 1 ELSE refcount[e]
  BY <1>3, DataFacts
<1>9. RingInv' /\ WorkerInv' /\ FramesIntact'
  BY <1>1, <1>3, <1>7, <1>8, OutsideKept
<1>10. ContentInv'
  <2>1. \A e \in Data : content[e] \in Nat /\ content[e] <= made
    BY DataFacts
  <2>2. \A e, g \in Data : content'[e] = content'[g] /\ content'[e] # 0 => e = g
    BY <1>2, <1>8, <2>1 DEF EncoderInv, ContentInv
  <2>3. \A e \in Data : content'[e] <= made'
    BY <1>1, <1>2, <1>8, <2>1
  <2>4. content'[own] < made' /\ content'[copy] = made'
    BY <1>1, <1>2, <1>7, <1>8, <2>1
  <2> QED BY <1>1, <2>2, <2>3, <2>4 DEF ContentInv
<1>11. RefsCounted'
  <2>1. \A e \in Data : content'[e] = made' <=> e = copy
    BY <1>1, <1>2, <1>8, DataFacts
  <2>2. \A e \in Data : ClientRefs(e)' =
          (IF own = e THEN 1 ELSE 0) + (IF e = copy THEN 1 ELSE 0)
    BY <1>1, <2>1 DEF ClientRefs
  <2>3. \A e \in Data : ClientRefs(e) = IF own = e THEN 1 ELSE 0
    BY <1>1 DEF ClientRefs
  <2>4. \A e \in Data : /\ refcount'[e] - ClientRefs(e)' = refcount[e] - ClientRefs(e)
                        /\ refcount'[e] \in Nat
    BY <1>4, <1>7, <1>8, <2>2, <2>3, DataFacts
  <2> QED BY <1>1, <2>4, OutsideKept, ClientCounts
<1>12. ClientInv'
  BY <1>1, <1>2, <1>3 DEF EncoderInv, ClientInv, Outside, Pool!Rests, InSend, InDrain
<1> QED BY <1>5, <1>6, <1>9, <1>10, <1>11, <1>12 DEF EncoderInv

(* What the client unreferences goes, or stays as it is for others. *)
LEMMA UnrefEffect ==
  ASSUME EncoderInv, NEW t \in Threads, NEW d \in Data, Pool!Unref(t, d), refcount[d] > 0
  PROVE  /\ \A e \in Data : refcount'[e] = IF e = d THEN refcount[d] - 1 ELSE refcount[e]
         /\ \A e \in Data : refcount'[e] \in Nat
         /\ \A e \in Data : e # d \/ refcount[d] > 1 => content'[e] = content[e]
         /\ content'[d] \in {content[d], 0}
         /\ \A u \in Threads : u # t => stage'[u] = stage[u]
         /\ stage'[t] \in {"none", "release"} /\ stage[t] = "none"
<1>1. /\ refcount' = [refcount EXCEPT ![d] = refcount[d] - 1]
      /\ \/ /\ refcount[d] = 1
            /\ content' = [content EXCEPT ![d] = 0]
         \/ UNCHANGED content
      /\ stage' = [stage EXCEPT ![t] = "release"] \/ UNCHANGED stage
      /\ stage[t] = "none"
  BY DEF Pool!Unref, Pool!Rests
<1>2. stage \in [Threads -> {"none", "count", "release", "drop"}]
  BY DEF EncoderInv, PoolInv, Pool!TypeOK
<1>3. /\ \A e \in Data : refcount'[e] = IF e = d THEN refcount[d] - 1 ELSE refcount[e]
      /\ \A e \in Data : refcount'[e] \in Nat
  BY <1>1, DataFacts
<1>4. /\ \A u \in Threads : u # t => stage'[u] = stage[u]
      /\ stage'[t] \in {"none", "release"}
  BY <1>1, <1>2
<1>5. /\ \A e \in Data : e # d \/ refcount[d] > 1 => content'[e] = content[e]
      /\ content'[d] \in {content[d], 0}
  BY <1>1, DataFacts
<1> QED BY <1>1, <1>3, <1>4, <1>5

(* What the client unreferences, its references included *)
LEMMA ClientUnrefKeeps ==
  ASSUME EncoderInv, NEW d \in Data, Pool!Unref(Client, d), UNCHANGED Outside,
         client \in {"idle", "replace", "closed"}, client' \in {"idle", "closed"},
         ClientRefs(d) = 1, ClientRefs(d)' = 0,
         \A e \in Data : e # d => ClientRefs(e)' = ClientRefs(e)
  PROVE  PoolInv' /\ RefsCounted' /\ RingInv' /\ WorkerInv' /\ FramesIntact'
<1>1. refcount[d] > 0 /\ refcount[d] \in Nat /\ own \in Data \cup {NoData}
  <2>1. own \in Data \cup {NoData}
    BY DEF EncoderInv, FieldsOK
  <2>2. /\ refcount[d] = Cardinality(Queued(d)) + Cardinality(Encoded(d)) + ClientRefs(d)
        /\ Cardinality(Queued(d)) \in Nat /\ Cardinality(Encoded(d)) \in Nat
        /\ refcount[d] \in Nat
    BY HolderFacts
  <2> QED BY <2>1, <2>2
<1>2. PoolInv'
  BY <1>1, UnrefKeeps, ConstantFacts DEF EncoderInv
<1>3. /\ \A e \in Data : refcount'[e] = IF e = d THEN refcount[d] - 1 ELSE refcount[e]
      /\ \A e \in Data : refcount'[e] \in Nat
      /\ \A e \in Data : e # d \/ refcount[d] > 1 => content'[e] = content[e]
      /\ \A u \in Threads : u # Client => stage'[u] = stage[u]
  BY <1>1, UnrefEffect, ConstantFacts
<1>4. refcount[d] > 1 \/ (Queued(d) = {} /\ Encoded(d) = {})
  <2>1. refcount[d] = ClientRefs(d) => Queued(d) = {} /\ Encoded(d) = {}
    BY HolderFacts
  <2> QED BY <1>1, <2>1
<1>5. \A w \in Workers : stage'[w] = stage[w]
  BY <1>3, ConstantFacts
<1>6. \A e \in Data : Queued(e) # {} \/ Encoded(e) # {} => content'[e] = content[e]
  BY <1>3, <1>4
<1>7. \A e \in Data : refcount'[e] - ClientRefs(e)' = refcount[e] - ClientRefs(e)
  BY <1>1, <1>3
<1>8. RefsCounted'
  BY <1>3, <1>7, OutsideKept, ClientCounts
<1> QED BY <1>2, <1>5, <1>6, <1>8, OutsideKept

(* The frame that nobody has any more loses its content; no other one changes. *)
LEMMA ContentLess ==
  ASSUME EncoderInv, \A e \in Data : content'[e] \in {content[e], 0}, made' = made
  PROVE  /\ \A e \in Data : content'[e] <= made'
         /\ \A e, g \in Data : content'[e] = content'[g] /\ content'[e] # 0 => e = g
<1>1. \A e \in Data : content'[e] <= made'
  BY DataFacts
<1>2. \A e, g \in Data : content'[e] = content'[g] /\ content'[e] # 0 => e = g
  BY DEF EncoderInv, ContentInv
<1> QED BY <1>1, <1>2

(* ReplaceFrame *)
LEMMA ReplaceFrameKeeps ==
  ASSUME EncoderInv, ReplaceFrame
  PROVE  EncoderInv'
<1>1. /\ client = "replace" /\ client' = "idle" /\ Pool!Unref(Client, own)
      /\ own' = CHOOSE d \in Data : content[d] = made
      /\ UNCHANGED <<made, reply, Outside>>
  BY DEF ReplaceFrame, apiVars, Outside
<1>2. /\ made = sent + 1 /\ own \in Data /\ content[own] < made
      /\ \E d \in Data : content[d] = made
  BY <1>1, DataFacts DEF EncoderInv, ClientInv, ContentInv
<1>3. own' \in Data /\ content[own'] = made
  BY <1>1, <1>2
<1>4. PICK new \in Data : new = own' /\ content[new] = made
  BY <1>3
<1>5. new # own /\ made # 0
  BY <1>2, <1>4, DataFacts, RingFacts DEF EncoderInv
<1>6. \A e \in Data : content[e] = made <=> e = new
  BY <1>4, <1>5 DEF EncoderInv, ContentInv
<1>7. /\ \A e \in Data : ClientRefs(e) =
           (IF own = e THEN 1 ELSE 0) + (IF e = new THEN 1 ELSE 0)
      /\ \A e \in Data : ClientRefs(e)' = IF e = new THEN 1 ELSE 0
  BY <1>1, <1>4, <1>6 DEF ClientRefs
<1>8. PoolInv' /\ RefsCounted' /\ RingInv' /\ WorkerInv' /\ FramesIntact'
  <2>1. PICK d \in Data : d = own
    BY <1>2
  <2>2. /\ Pool!Unref(Client, d) /\ ClientRefs(d) = 1 /\ ClientRefs(d)' = 0
        /\ \A e \in Data : e # d => ClientRefs(e)' = ClientRefs(e)
    BY <1>1, <1>5, <1>7, <2>1
  <2> QED BY <1>1, <2>2, ClientUnrefKeeps
<1>9. FieldsOK'
  BY <1>1, <1>3 DEF EncoderInv, FieldsOK, Outside, ringVars, workerVars
<1>10. ContentInv'
  <2>1. refcount[own] > 0
    BY <1>2, HolderFacts
  <2>2. \A e \in Data : e # own => content'[e] = content[e]
    BY <1>1, <1>2, <2>1, UnrefEffect, ConstantFacts
  <2>3. content'[own] \in {content[own], 0}
    BY <1>1, <1>2, <2>1, UnrefEffect, ConstantFacts
  <2>4. /\ \A e \in Data : content'[e] <= made'
        /\ \A e, g \in Data : content'[e] = content'[g] /\ content'[e] # 0 => e = g
    BY <1>1, <2>2, <2>3, ContentLess
  <2>5. content'[own'] = made'
    BY <1>1, <1>4, <1>5, <2>2
  <2> QED BY <1>1, <2>4, <2>5 DEF ContentInv
<1>11. ClientInv'
  BY <1>1, <1>2, <1>3, DataFacts DEF EncoderInv, ClientInv, Outside, InSend, InDrain
<1> QED BY <1>8, <1>9, <1>10, <1>11 DEF EncoderInv

(* DropFrame *)
LEMMA DropFrameKeeps ==
  ASSUME EncoderInv, DropFrame
  PROVE  EncoderInv'
<1>1. /\ client \in {"idle", "closed"} /\ own # NoData /\ own' = NoData /\ sent = made
      /\ Pool!Unref(Client, own) /\ UNCHANGED <<made, client, reply, Outside>>
  BY DEF DropFrame, Idle, apiVars, Outside
<1>2. PICK d \in Data : d = own
  BY <1>1, DataFacts
<1>3. /\ \A e \in Data : ClientRefs(e) = IF e = d THEN 1 ELSE 0
      /\ \A e \in Data : ClientRefs(e)' = 0
  BY <1>1, <1>2, DataFacts DEF ClientRefs
<1>4. PoolInv' /\ RefsCounted' /\ RingInv' /\ WorkerInv' /\ FramesIntact'
  BY <1>1, <1>2, <1>3, ClientUnrefKeeps
<1>5. FieldsOK'
  BY <1>1 DEF EncoderInv, FieldsOK, Outside, ringVars, workerVars
<1>6. ContentInv'
  <2>1. refcount[d] > 0
    BY <1>2, HolderFacts
  <2>2. \A e \in Data : content'[e] \in {content[e], 0}
    BY <1>1, <1>2, <2>1, UnrefEffect, ConstantFacts
  <2> QED BY <1>1, <2>2, ContentLess DEF ContentInv
<1>7. ClientInv'
  BY <1>1 DEF EncoderInv, ClientInv, Outside, InSend, InDrain
<1> QED BY <1>4, <1>5, <1>6, <1>7 DEF EncoderInv

(* UninitPool, and what is left of a get or of a release of the client *)
LEMMA PoolStepKeeps ==
  ASSUME EncoderInv, UninitPool \/ ContinueBuffer
  PROVE  EncoderInv'
<1>1. UNCHANGED <<own, made, client, reply, Outside>>
  BY DEF UninitPool, ContinueBuffer, apiVars, frameVars, Outside
<1>2. client \in {"idle", "closed"}
  BY DEF UninitPool, Idle, ContinueBuffer, Pool!Continue, Pool!Count, Pool!Release,
     Pool!Drop, EncoderInv, ClientInv, Pool!Rests
<1>3. PoolInv'
  <2>1. CASE UninitPool
    BY <1>1, <2>1, UninitKeeps DEF UninitPool, EncoderInv
  <2>2. CASE Pool!Count(Client)
    <3>1. own # NoData
      BY <2>2 DEF Pool!Count, EncoderInv, PoolInv, CountInv
    <3>2. own \in Data /\ refcount[own] > 0
      BY <3>1, DataFacts, HolderFacts
    <3> QED BY <1>1, <2>2, <3>2, CountKeeps DEF EncoderInv
  <2>3. CASE Pool!Release(Client)
    BY <1>1, <2>3, ReleaseKeeps, ConstantFacts DEF EncoderInv
  <2>4. CASE Pool!Drop(Client)
    BY <1>1, <2>4, DropKeeps, ConstantFacts DEF EncoderInv
  <2> QED BY <2>1, <2>2, <2>3, <2>4 DEF ContinueBuffer, Pool!Continue
<1>4. /\ UNCHANGED refcount
      /\ \A e \in Data : refcount[e] > 0 => content'[e] = content[e]
      /\ \A e \in Data : content'[e] \in {content[e], 0}
      /\ \A w \in Workers : stage'[w] = stage[w]
  <2>1. stage \in [Threads -> {"none", "count", "release", "drop"}]
    BY DEF EncoderInv, PoolInv, Pool!TypeOK
  <2>2. \/ UNCHANGED content
        \/ /\ stage[Client] = "release"
           /\ content' = [content EXCEPT ![buffer[Client]] = 0]
    BY DEF UninitPool, ContinueBuffer, Pool!Uninit, Pool!Continue, Pool!Count,
       Pool!Release, Pool!Drop
  <2>3. \/ UNCHANGED stage
        \/ stage' = [stage EXCEPT ![Client] = "none"]
        \/ stage' = [stage EXCEPT ![Client] = "drop"]
    BY DEF UninitPool, ContinueBuffer, Pool!Uninit, Pool!Continue, Pool!Count,
       Pool!Release, Pool!Drop
  <2>4. UNCHANGED refcount
    BY DEF UninitPool, ContinueBuffer, Pool!Uninit, Pool!Continue, Pool!Count,
       Pool!Release, Pool!Drop
  <2>5. \A w \in Workers : stage'[w] = stage[w]
    BY <2>1, <2>3, ConstantFacts
  <2>6. \A e \in Data : e = buffer[Client] /\ stage[Client] = "release" => refcount[e] = 0
    BY ConstantFacts DEF EncoderInv, PoolInv, MemoryInv, Releases
  <2>7. /\ \A e \in Data : refcount[e] > 0 => content'[e] = content[e]
        /\ \A e \in Data : content'[e] \in {content[e], 0}
    BY <2>2, <2>6, DataFacts
  <2> QED BY <2>4, <2>5, <2>7
<1>5. FieldsOK'
  BY <1>1 DEF EncoderInv, FieldsOK, Outside, ringVars, workerVars
<1>6. RingInv' /\ WorkerInv' /\ FramesIntact'
  <2>1. \A e \in Data : Queued(e) # {} \/ Encoded(e) # {} => content'[e] = content[e]
    BY <1>4, HolderFacts
  <2> QED BY <1>1, <1>2, <1>4, <2>1, OutsideKept
<1>7. RefsCounted'
  <2>1. \A e \in Data : ClientRefs(e)' = ClientRefs(e)
    BY <1>1, <1>2 DEF ClientRefs
  <2> QED BY <1>1, <1>2, <1>4, <2>1, OutsideKept, ClientCounts, DataFacts
<1>8. ContentInv'
  <2>1. /\ \A e \in Data : content'[e] <= made'
        /\ \A e, g \in Data : content'[e] = content'[g] /\ content'[e] # 0 => e = g
    BY <1>1, <1>4, ContentLess
  <2>2. own # NoData => content'[own] = content[own]
    BY <1>4, HolderFacts, DataFacts
  <2> QED BY <1>1, <1>2, <2>1, <2>2 DEF EncoderInv, ContentInv
<1>9. ClientInv'
  BY <1>1, <1>2 DEF EncoderInv, ClientInv, Outside, InSend, InDrain
<1> QED BY <1>3, <1>5, <1>6, <1>7, <1>8, <1>9 DEF EncoderInv

(* Send *)
LEMMA SendKeeps ==
  ASSUME EncoderInv, Send
  PROVE  EncoderInv'
<1>1. /\ client = "idle" /\ own # NoData /\ sent < made /\ Pool!Rests(Client)
      /\ bufferPkt = NoPacket
      /\ UNCHANGED <<own, made, Outside>>
  BY DEF Send, Ready, Idle, frameVars, Outside
<1>2. PICK d \in Data : d = own
  BY <1>1, DataFacts
<1>3. refcount[d] > 0
  BY <1>2, HolderFacts
<1>4. CASE Pool!Ref(own) /\ client' = "submit" /\ UNCHANGED reply
  <2>1. /\ refcount' = [refcount EXCEPT ![d] = refcount[d] + 1]
        /\ UNCHANGED <<content, stage>>
    BY <1>2, <1>4 DEF Pool!Ref
  <2>2. PoolInv'
    BY <1>1, <1>2, <1>3, <1>4, RefKeeps DEF EncoderInv
  <2>3. FieldsOK'
    BY <1>1, <1>4 DEF EncoderInv, FieldsOK, Outside, ringVars, workerVars
  <2>4. RingInv' /\ WorkerInv' /\ FramesIntact'
    BY <1>1, <1>4, <2>1, OutsideKept
  <2>5. RefsCounted'
    <3>1. /\ \A e \in Data : ClientRefs(e) = IF e = d THEN 1 ELSE 0
          /\ \A e \in Data : ClientRefs(e)' = IF e = d THEN 2 ELSE 0
      BY <1>1, <1>2, <1>4 DEF ClientRefs
    <3>2. \A e \in Data : /\ refcount'[e] - ClientRefs(e)' = refcount[e] - ClientRefs(e)
                          /\ refcount'[e] \in Nat
      BY <2>1, <3>1, DataFacts
    <3> QED BY <1>1, <1>4, <3>2, OutsideKept, ClientCounts
  <2>6. ContentInv'
    BY <1>1, <1>4, <2>1 DEF EncoderInv, ContentInv
  <2>7. ClientInv'
    <3>1. made = sent + 1
      BY <1>1, RingFacts DEF EncoderInv, ClientInv
    <3> QED BY <1>1, <1>4, <2>1, <3>1 DEF EncoderInv, ClientInv, Outside, InSend, InDrain,
          Pool!Rests
  <2> QED BY <2>2, <2>3, <2>4, <2>5, <2>6, <2>7 DEF EncoderInv
<1>5. CASE reply' = "error" /\ UNCHANGED <<client, poolVars>>
  <2>1. UNCHANGED <<content, refcount, stage>>
    BY <1>5 DEF poolVars
  <2>2. PoolInv'
    BY <1>1, <1>5, NothingKeeps DEF EncoderInv
  <2>3. FieldsOK'
    BY <1>1, <1>5 DEF EncoderInv, FieldsOK, Outside, ringVars, workerVars
  <2>4. RingInv' /\ WorkerInv' /\ FramesIntact'
    BY <1>1, <1>5, <2>1, OutsideKept
  <2>5. RefsCounted'
    <3>1. \A e \in Data : ClientRefs(e)' = ClientRefs(e)
      BY <1>1, <1>5, <2>1 DEF ClientRefs
    <3> QED BY <1>1, <1>5, <2>1, <3>1, OutsideKept, ClientCounts, DataFacts
  <2>6. ContentInv' /\ ClientInv'
    BY <1>1, <1>5, <2>1 DEF EncoderInv, ContentInv, ClientInv, Outside, InSend, InDrain,
       Pool!Rests
  <2> QED BY <2>2, <2>3, <2>4, <2>5, <2>6 DEF EncoderInv
<1> QED BY <1>4, <1>5 DEF Send

-----------------------------------------------------------------------------
(* The client and the ring *)

(* A task more in the ring *)
LEMMA RingGrows ==
  ASSUME FieldsOK, Outstanding + 1 < BufferSize,
         taskIndex' = NextSlot(taskIndex), UNCHANGED finishedIndex
  PROVE  /\ taskIndex' \in Slots /\ Outstanding' = Outstanding + 1
         /\ \A i \in Nat : Distance(i)' = Distance(i)
         /\ Distance(taskIndex) = Outstanding
<1>1. taskIndex \in Slots /\ finishedIndex \in Slots
  BY DEF FieldsOK
<1>2. /\ BufferSize \in Nat /\ BufferSize > 1
      /\ taskIndex \in Nat /\ taskIndex < BufferSize
      /\ finishedIndex \in Nat /\ finishedIndex < BufferSize
  BY <1>1, ConstantFacts DEF Slots
<1>3. taskIndex' = IF taskIndex + 1 = BufferSize THEN 0 ELSE taskIndex + 1
  BY <1>1, RingArithmetic
<1>4. taskIndex' \in Slots
  BY <1>2, <1>3 DEF Slots
<1>5. Outstanding = IF taskIndex >= finishedIndex THEN taskIndex - finishedIndex
                    ELSE taskIndex + BufferSize - finishedIndex
  BY <1>1, RingArithmetic DEF Outstanding
<1>6. Outstanding' = IF taskIndex' >= finishedIndex THEN taskIndex' - finishedIndex
                     ELSE taskIndex' + BufferSize - finishedIndex
  BY <1>1, <1>4, RingArithmetic DEF Outstanding
<1>7. Outstanding' = Outstanding + 1
  BY <1>2, <1>3, <1>5, <1>6
<1>8. \A i \in Nat : Distance(i)' = Distance(i)
  BY DEF Distance
<1>9. Distance(taskIndex) = Outstanding
  BY <1>5 DEF Distance
<1> QED BY <1>4, <1>7, <1>8, <1>9

(* A packet less in the ring *)
LEMMA RingShrinks ==
  ASSUME FieldsOK, Outstanding > 0,
         finishedIndex' = NextSlot(finishedIndex), UNCHANGED taskIndex
  PROVE  /\ finishedIndex' \in Slots /\ Outstanding' = Outstanding - 1
         /\ \A i \in Slots : i # finishedIndex => Distance(i)' = Distance(i) - 1
<1>1. taskIndex \in Slots /\ finishedIndex \in Slots
  BY DEF FieldsOK
<1>2. /\ BufferSize \in Nat /\ BufferSize > 1
      /\ taskIndex \in Nat /\ taskIndex < BufferSize
      /\ finishedIndex \in Nat /\ finishedIndex < BufferSize
  BY <1>1, ConstantFacts DEF Slots
<1>3. finishedIndex' = IF finishedIndex + 1 = BufferSize THEN 0 ELSE finishedIndex + 1
  BY <1>1, RingArithmetic
<1>4. finishedIndex' \in Slots
  BY <1>2, <1>3 DEF Slots
<1>5. Outstanding = IF taskIndex >= finishedIndex THEN taskIndex - finishedIndex
                    ELSE taskIndex + BufferSize - finishedIndex
  BY <1>1, RingArithmetic DEF Outstanding
<1>6. Outstanding' = IF taskIndex >= finishedIndex' THEN taskIndex - finishedIndex'
                     ELSE taskIndex + BufferSize - finishedIndex'
  BY <1>1, <1>4, RingArithmetic DEF Outstanding
<1>7. Outstanding' = Outstanding - 1
  BY <1>2, <1>3, <1>5, <1>6
<1>8. \A i \in Slots : i # finishedIndex => Distance(i)' = Distance(i) - 1
  <2> TAKE i \in Slots
  <2>1. i \in Nat /\ i < BufferSize
    BY <1>2 DEF Slots
  <2> QED BY <1>2, <1>3, <2>1 DEF Distance
<1> QED BY <1>4, <1>7, <1>8

(* What is left alone when only the ring or the API changes *)
LEMMA FramesAlone ==
  ASSUME EncoderInv, UNCHANGED <<poolVars, own, made>>,
         client' = "replace" <=> client = "replace"
  PROVE  /\ PoolInv' /\ ContentInv' /\ UNCHANGED <<content, refcount, stage>>
         /\ UNCHANGED <<taskFifo, task>> => FramesIntact'
         /\ UNCHANGED <<taskFifo, task>> /\ (client' = "submit" <=> client = "submit")
              => RefsCounted'
         /\ UNCHANGED <<task, result>>
              /\ (\A w \in Workers : worker'[w] = worker[w]
                    \/ (worker[w] = "asleep" /\ worker'[w] = "fetch"))
              => WorkerInv'
<1>1. UNCHANGED <<content, refcount, stage>>
  BY DEF poolVars
<1>2. PoolInv'
  BY NothingKeeps DEF EncoderInv
<1>3. ContentInv'
  BY <1>1 DEF EncoderInv, ContentInv
<1>4. UNCHANGED <<taskFifo, task>> => FramesIntact'
  BY <1>1 DEF EncoderInv, FramesIntact
<1>5. UNCHANGED <<taskFifo, task>> /\ (client' = "submit" <=> client = "submit")
        => RefsCounted'
  <2> HAVE UNCHANGED <<taskFifo, task>> /\ (client' = "submit" <=> client = "submit")
  <2>1. \A d \in Data : Queued(d)' = Queued(d) /\ Encoded(d)' = Encoded(d)
    BY DEF Queued, Encoded
  <2>2. \A d \in Data : ClientRefs(d)' = ClientRefs(d)
    BY <1>1 DEF ClientRefs
  <2> QED BY <1>1, <2>1, <2>2, ClientCounts, DataFacts
<1>6. UNCHANGED <<task, result>>
        /\ (\A w \in Workers : worker'[w] = worker[w]
              \/ (worker[w] = "asleep" /\ worker'[w] = "fetch"))
        => WorkerInv'
  <2> SUFFICES ASSUME UNCHANGED <<task, result>>,
                      \A w \in Workers : worker'[w] = worker[w]
                        \/ (worker[w] = "asleep" /\ worker'[w] = "fetch")
               PROVE  WorkerInv'
    OBVIOUS
  <2>1. \A w \in Workers : Returning(w)' <=> Returning(w)
    BY <1>1 DEF Returning
  <2> QED BY <2>1 DEF EncoderInv, WorkerInv
<1> QED BY <1>1, <1>2, <1>3, <1>4, <1>5, <1>6

(* Who waits on task_fifo_cond is woken, or nobody is. *)
LEMMA SignalWakes ==
  ASSUME FieldsOK, SignalTask
  PROVE  /\ worker' \in [Workers -> {"fetch", "asleep", "encode", "free", "deliver", "gone"}]
         /\ \A w \in Workers : worker'[w] = worker[w]
              \/ (worker[w] = "asleep" /\ worker'[w] = "fetch")
<1>1. worker \in [Workers -> {"fetch", "asleep", "encode", "free", "deliver", "gone"}]
  BY DEF FieldsOK
<1>2. \/ UNCHANGED worker
      \/ \E w \in Workers : worker[w] = "asleep" /\ worker' = [worker EXCEPT ![w] = "fetch"]
  BY DEF SignalTask
<1> QED BY <1>1, <1>2

(* Submit *)
LEMMA SubmitKeeps ==
  ASSUME EncoderInv, Submit
  PROVE  EncoderInv'
<1> DEFINE new == [data |-> own, index |-> taskIndex, frame |-> made]
<1>0. PICK n \in Nat : n = Len(taskFifo) + 1
  BY RingFacts DEF EncoderInv
<1>1. /\ client = "submit" /\ client' = "output" /\ sent' = made
      /\ taskFifo' = Append(taskFifo, new)
      /\ SignalTask /\ taskIndex' = NextSlot(taskIndex)
      /\ UNCHANGED <<poolVars, own, made, draining, bufferPkt, reply, finished,
                     finishedIndex, exit, task, result>>
  BY DEF Submit, apiVars
<1>2. /\ made = sent + 1 /\ own \in Data /\ Pool!Rests(Client) /\ bufferPkt = NoPacket
      /\ content[own] = made /\ Outstanding <= NbThreads
  BY <1>1, DataFacts DEF EncoderInv, ClientInv, ContentInv, RingInv, RingSize, InSend
<1>3. /\ sent \in Nat /\ Outstanding \in Nat /\ Len(taskFifo) \in Nat
      /\ DOMAIN taskFifo = 1 .. Len(taskFifo)
      /\ \A i \in Slots : Distance(i) \in Nat
  BY RingFacts DEF EncoderInv
<1>4. /\ taskIndex' \in Slots /\ Outstanding' = Outstanding + 1
      /\ \A i \in Nat : Distance(i)' = Distance(i)
      /\ Distance(taskIndex) = Outstanding
      /\ \A i \in Slots : i \in Nat
  <2>1. Outstanding + 1 < BufferSize
    BY <1>2, <1>3, ConstantFacts
  <2>2. \A i \in Slots : i \in Nat
    BY ConstantFacts DEF Slots
  <2> QED BY <1>1, <2>1, <2>2, RingGrows DEF EncoderInv
<1>5. new \in Tasks
  <2>1. made \in Frames
    <3>1. made \in {0} \cup Frames
      BY DEF EncoderInv, FieldsOK
    <3> QED BY <1>2, <1>3, <3>1
  <2>2. taskIndex \in Slots
    BY DEF EncoderInv, FieldsOK
  <2> QED BY <1>2, <2>1, <2>2 DEF Tasks
<1>6. /\ taskFifo' \in Seq(Tasks) /\ Len(taskFifo') = n /\ taskFifo'[n] = new
      /\ \A i \in DOMAIN taskFifo : taskFifo'[i] = taskFifo[i]
      /\ DOMAIN taskFifo' = 1 .. n
      /\ DOMAIN taskFifo' = DOMAIN taskFifo \cup {n} /\ n \notin DOMAIN taskFifo
  <2>1. taskFifo \in Seq(Tasks)
    BY DEF EncoderInv, FieldsOK
  <2> HIDE DEF new
  <2>2. /\ taskFifo' \in Seq(Tasks) /\ Len(taskFifo') = n /\ taskFifo'[n] = new
        /\ \A i \in 1 .. Len(taskFifo) : taskFifo'[i] = taskFifo[i]
    BY <1>0, <1>1, <1>5, <2>1, AppendProperties
  <2>3. DOMAIN taskFifo' = 1 .. n
    BY <2>2, LenProperties
  <2> QED BY <1>0, <1>3, <2>2, <2>3
<1>7. /\ worker' \in [Workers -> {"fetch", "asleep", "encode", "free", "deliver", "gone"}]
      /\ \A w \in Workers : worker'[w] = worker[w]
           \/ (worker[w] = "asleep" /\ worker'[w] = "fetch")
  BY <1>1, SignalWakes DEF EncoderInv
<1>8. PoolInv' /\ ContentInv' /\ WorkerInv' /\ UNCHANGED <<content, refcount, stage>>
  BY <1>1, <1>7, FramesAlone
<1>9. FieldsOK'
  <2>1. made \in {0} \cup Frames /\ sent' \in 0 .. made
    BY <1>1, <1>2, <1>3 DEF EncoderInv, FieldsOK
  <2> QED BY <1>1, <1>4, <1>6, <1>7, <2>1 DEF EncoderInv, FieldsOK
<1>10. FramesIntact'
  <2>1. content'[taskFifo'[n].data] = taskFifo'[n].frame
    BY <1>2, <1>6, <1>8
  <2> QED BY <1>1, <1>6, <1>8, <2>1 DEF EncoderInv, FramesIntact
<1>11. RefsCounted'
  <2>1. \A d \in Data : Queued(d)' = IF d = own THEN Queued(d) \cup {n} ELSE Queued(d)
    BY <1>6 DEF Queued
  <2>2. \A d \in Data : n \notin Queued(d)
    BY <1>6 DEF Queued
  <2>3. \A d \in Data : /\ Cardinality(Queued(d)') =
                             Cardinality(Queued(d)) + (IF d = own THEN 1 ELSE 0)
                        /\ Cardinality(Queued(d)') \in Nat
    <3> TAKE d \in Data
    <3>1. IsFiniteSet(Queued(d)) /\ Cardinality(Queued(d)) \in Nat
      BY HolderFacts
    <3>2. CASE d = own
      <4>1. Queued(d)' = Queued(d) \cup {n} /\ n \notin Queued(d)
        BY <2>1, <2>2, <3>2
      <4>2. Cardinality(Queued(d) \cup {n}) = Cardinality(Queued(d)) + 1
        BY <3>1, <4>1, FS_AddElement
      <4>3. Cardinality(Queued(d)') = Cardinality(Queued(d)) + 1
        BY <4>1, <4>2
      <4> QED BY <3>1, <3>2, <4>3
    <3>3. CASE d # own
      BY <2>1, <3>1, <3>3
    <3> QED BY <3>2, <3>3
  <2>4. \A d \in Data : Encoded(d)' = Encoded(d)
    BY <1>1 DEF Encoded
  <2>5. \A d \in Data : ClientRefs(d) = (IF d = own THEN 2 ELSE 0)
                        /\ ClientRefs(d)' = (IF d = own THEN 1 ELSE 0)
    BY <1>1 DEF ClientRefs
  <2>6. \A d \in Data :
          refcount'[d] = Cardinality(Queued(d)') + Cardinality(Encoded(d)') + ClientRefs(d)'
    BY <1>8, <2>3, <2>4, <2>5, HolderFacts
  <2>7. \A d \in Data : Cardinality(Queued(d)') \in Nat /\ Cardinality(Encoded(d)') \in Nat
    BY <2>3, <2>4, HolderFacts
  <2> QED BY <2>6, <2>7, CountedAfter
<1>12. ClientInv'
  BY <1>1, <1>2, <1>3, <1>8, DataFacts DEF EncoderInv, ClientInv, InSend, InDrain,
     Pool!Rests
<1>13. RingInv'
  <2>1. Taken' = Taken /\ Fetched' = Fetched
    BY <1>0, <1>1, <1>2, <1>3, <1>4, <1>6 DEF Taken, Fetched
  <2>2. /\ taskFifo'[n].frame = Fetched + n
        /\ Distance(taskFifo[n].index)' = Fetched + n - Taken - 1
    <3>1. Fetched + n = sent + 1 /\ Fetched + n - Taken - 1 = Outstanding
      BY <1>0, <1>3 DEF Fetched, Taken
    <3>2. taskFifo'[n].frame = sent + 1 /\ taskFifo'[n].index = taskIndex
      BY <1>2, <1>6
    <3>3. taskIndex \in Nat
      BY <1>4 DEF EncoderInv, FieldsOK
    <3>4. taskFifo'[n].frame = Fetched + n
      BY <3>1, <3>2
    <3>5. PICK k \in Nat : k = taskIndex
      BY <3>3
    <3>6. Distance(k)' = Distance(k)
      BY <1>4
    <3>7. Distance(k)' = Outstanding
      BY <1>4, <3>5, <3>6
    <3>8. Distance(taskFifo[n].index)' = Outstanding
      BY <3>2, <3>5, <3>7 DEF Distance
    <3> QED BY <3>1, <3>4, <3>8
  <2>3. \A i \in DOMAIN taskFifo : taskFifo[i].index \in Nat
    BY <1>4, TaskFacts DEF Tasks
  <2>4. \A w \in Workers : task[w].index \in Nat
    BY <1>4 DEF EncoderInv, FieldsOK
  <2>5. QueuedInv'
    <3>1. \A i \in DOMAIN taskFifo : Distance(taskFifo[i].index)' = Distance(taskFifo[i].index)
      BY <1>1, <1>6, <2>3 DEF Distance
    <3>2. \A i \in DOMAIN taskFifo :
            /\ taskFifo'[i].frame = Fetched + i
            /\ Distance(taskFifo[i].index)' = Fetched + i - Taken - 1
      BY <1>6, <3>1 DEF EncoderInv, RingInv, QueuedInv
    <3> QED BY <1>6, <2>1, <2>2, <3>2 DEF QueuedInv
  <2>6. RingSize'
    BY <1>1, <1>2, <1>3, <1>4, <2>1, ConstantFacts DEF EncoderInv, RingInv, RingSize
  <2>7. EncodedInv'
    BY <1>1, <1>4, <2>1, <2>4 DEF EncoderInv, RingInv, EncodedInv
  <2>8. FinishedInv'
    BY <1>1, <1>2, <1>4, <2>1 DEF EncoderInv, RingInv, FinishedInv
  <2> QED BY <2>5, <2>6, <2>7, <2>8 DEF RingInv
<1> QED BY <1>8, <1>9, <1>10, <1>11, <1>12, <1>13 DEF EncoderInv

(* What SendNull, Receive, Close, Join and an output that takes nothing have in common *)
LEMMA CallKeeps ==
  ASSUME EncoderInv,
         UNCHANGED <<poolVars, frameVars, taskFifo, ringVars, task, result>>,
         client \in {"idle", "output", "drain", "joining"},
         client' \notin {"replace", "submit"},
         client' \notin {"output", "output asleep"} => Outstanding <= NbThreads,
         bufferPkt' \in {bufferPkt, NoPacket},
         client' \in InSend \cup InDrain => bufferPkt' = NoPacket,
         ~Pool!Rests(Client) => client' \in {"idle", "closed"},
         \A w \in Workers : worker'[w] = worker[w]
           \/ (worker[w] = "asleep" /\ worker'[w] = "fetch"),
         FieldsOK'
  PROVE  EncoderInv'
<1>1. UNCHANGED <<own, made, sent, stage>>
  BY DEF frameVars, poolVars
<1>2. PoolInv' /\ ContentInv' /\ RefsCounted' /\ FramesIntact' /\ WorkerInv'
  BY <1>1, FramesAlone
<1>3. RingInv'
  BY <1>1, RingAlone
<1>4. ClientInv'
  BY <1>1 DEF EncoderInv, ClientInv, Pool!Rests
<1> QED BY <1>2, <1>3, <1>4 DEF EncoderInv

(* SendNull *)
LEMMA SendNullKeeps ==
  ASSUME EncoderInv, SendNull
  PROVE  EncoderInv'
<1>1. /\ client = "idle" /\ Pool!Rests(Client) /\ draining' = TRUE
      /\ UNCHANGED <<poolVars, frameVars, client, bufferPkt, reply, taskFifo, ringVars,
                     exit, worker, task, result>>
  BY DEF SendNull, Ready, Idle, workerVars
<1>2. FieldsOK'
  BY <1>1 DEF EncoderInv, FieldsOK, frameVars, ringVars
<1>3. Outstanding <= NbThreads
  BY <1>1 DEF EncoderInv, RingInv, RingSize
<1> QED BY <1>1, <1>2, <1>3, CallKeeps DEF InSend, InDrain

(* Receive *)
LEMMA ReceiveKeeps ==
  ASSUME EncoderInv, Receive
  PROVE  EncoderInv'
<1>1. /\ client = "idle" /\ Pool!Rests(Client)
      /\ UNCHANGED <<poolVars, frameVars, draining, taskFifo, ringVars,
                     exit, worker, task, result>>
      /\ \/ reply' = "frame" /\ bufferPkt' = NoPacket /\ client' = "idle"
         \/ client' = "drain" /\ bufferPkt = NoPacket /\ UNCHANGED <<reply, bufferPkt>>
         \/ reply' = "again" /\ UNCHANGED <<client, bufferPkt>>
  BY DEF Receive, Ready, Idle, workerVars
<1>2. FieldsOK'
  BY <1>1 DEF EncoderInv, FieldsOK, frameVars, ringVars
<1>3. Outstanding <= NbThreads
  BY <1>1 DEF EncoderInv, RingInv, RingSize
<1> QED BY <1>1, <1>2, <1>3, CallKeeps DEF InSend, InDrain

(* Close *)
LEMMA CloseKeeps ==
  ASSUME EncoderInv, Close
  PROVE  EncoderInv'
<1>1. /\ client = "idle" /\ Pool!Rests(Client) /\ client' = "joining"
      /\ exit' = TRUE /\ reply' = "flushed"
      /\ worker' = [w \in Workers |-> IF worker[w] = "asleep" THEN "fetch" ELSE worker[w]]
      /\ UNCHANGED <<poolVars, frameVars, draining, bufferPkt, taskFifo, ringVars,
                     task, result>>
  BY DEF Close, Ready, Idle
<1>2. worker' \in [Workers -> {"fetch", "asleep", "encode", "free", "deliver", "gone"}]
  BY <1>1 DEF EncoderInv, FieldsOK
<1>3. FieldsOK'
  BY <1>1, <1>2 DEF EncoderInv, FieldsOK, frameVars, ringVars
<1>4. Outstanding <= NbThreads
  BY <1>1 DEF EncoderInv, RingInv, RingSize
<1> QED BY <1>1, <1>3, <1>4, CallKeeps DEF InSend, InDrain

(* Join *)
LEMMA JoinKeeps ==
  ASSUME EncoderInv, Join
  PROVE  EncoderInv'
<1>1. /\ client = "joining" /\ client' = "closed"
      /\ UNCHANGED <<poolVars, frameVars, draining, bufferPkt, reply, taskFifo, ringVars,
                     exit, worker, task, result>>
  BY DEF Join, apiVars, workerVars
<1>2. FieldsOK'
  BY <1>1 DEF EncoderInv, FieldsOK, frameVars, ringVars
<1>3. Outstanding <= NbThreads
  BY <1>1 DEF EncoderInv, RingInv, RingSize
<1> QED BY <1>1, <1>2, <1>3, CallKeeps DEF InSend, InDrain

(* Output: nothing is taken, or it is waited for. *)
LEMMA OutputNothingKeeps ==
  ASSUME EncoderInv, Output,
         \/ OutputNothing /\ client' = "idle" /\ UNCHANGED <<bufferPkt, ringVars>>
         \/ AwaitOutput
  PROVE  EncoderInv'
<1>1. /\ client \in {"output", "drain"}
      /\ UNCHANGED <<poolVars, frameVars, draining, taskFifo, exit, worker, task, result>>
      /\ UNCHANGED <<bufferPkt, ringVars>>
  BY DEF Output, AwaitOutput, workerVars
<1>2. /\ reply' \in {reply, "eof"}
      /\ \/ client' = "idle"
         \/ client = "output" /\ client' = "output asleep"
         \/ client = "drain" /\ client' = "drain asleep"
  BY <1>1 DEF OutputNothing, AwaitOutput
<1>3. FieldsOK'
  BY <1>1, <1>2 DEF EncoderInv, FieldsOK, frameVars, ringVars
<1>4. client' \notin {"output", "output asleep"} => Outstanding <= NbThreads
  <2>1. Outstanding = 0 => Outstanding <= NbThreads
    BY ConstantFacts
  <2>2. client = "drain" => Outstanding <= NbThreads
    BY DEF EncoderInv, RingInv, RingSize
  <2> QED BY <1>1, <2>1, <2>2 DEF OutputNothing, AwaitOutput
<1>5. bufferPkt = NoPacket /\ Pool!Rests(Client)
  BY <1>1 DEF EncoderInv, ClientInv, InSend, InDrain
<1> QED BY <1>1, <1>2, <1>3, <1>4, <1>5, CallKeeps

(* Output: the oldest packet is taken out of its slot. *)
LEMMA TakeKeeps ==
  ASSUME EncoderInv, Output, Take, client' = "idle", UNCHANGED taskIndex
  PROVE  EncoderInv'
<1>1. /\ client \in {"output", "drain"}
      /\ UNCHANGED <<poolVars, own, made, sent, draining, taskFifo, exit, worker, task, result>>
      /\ Outstanding > 0 /\ Oldest # NoPacket
      /\ finished' = [finished EXCEPT ![finishedIndex] = NoPacket]
      /\ finishedIndex' = NextSlot(finishedIndex)
  BY DEF Output, Take, workerVars, frameVars
<1>2. PICK k \in Slots : k = finishedIndex
  BY DEF EncoderInv, FieldsOK
<1>3. PICK p \in Packets : p = finished[k]
  BY <1>1, <1>2 DEF Oldest, EncoderInv, FieldsOK
<1>4. /\ reply' \in {"error", "frame", reply}
      /\ \/ UNCHANGED bufferPkt
         \/ bufferPkt' = p /\ p.code # "error"
  BY <1>1, <1>2, <1>3 DEF Take, Oldest
<1>5. bufferPkt = NoPacket /\ Pool!Rests(Client)
  BY <1>1 DEF EncoderInv, ClientInv, InSend, InDrain
<1>6. p.frame \in Nat /\ p.code \in {"frame", "error"} /\ p # NoPacket
  BY <1>3, ConstantFacts, TaskFacts DEF Packets, Frames
<1>7. /\ sent \in Nat /\ Outstanding \in Nat /\ Taken \in Int /\ Fetched \in Int
      /\ DOMAIN taskFifo = 1 .. Len(taskFifo) /\ Len(taskFifo) \in Nat
      /\ \A i \in Slots : Distance(i) \in Nat
      /\ \A i \in Slots : Distance(i) = 0 <=> i = k
  BY <1>2, RingFacts DEF EncoderInv
<1>8. /\ finishedIndex' \in Slots /\ Outstanding' = Outstanding - 1
      /\ \A i \in Slots : i # k => Distance(i)' = Distance(i) - 1
  BY <1>1, <1>2, RingShrinks DEF EncoderInv
<1>9. Taken' = Taken + 1 /\ Fetched' = Fetched
  BY <1>1, <1>7, <1>8 DEF Taken, Fetched
<1>10. p.frame = Taken + 1 /\ Fetched >= Taken + 1
  <2>1. /\ p.frame > Taken /\ p.frame <= Fetched
        /\ Distance(k) = p.frame - Taken - 1
    BY <1>3, <1>6 DEF EncoderInv, RingInv, FinishedInv
  <2> QED BY <1>6, <1>7, <2>1
<1>11. /\ finished' \in [Slots -> Packets \cup {NoPacket}]
       /\ \A i \in Slots : finished'[i] = IF i = k THEN NoPacket ELSE finished[i]
  BY <1>1, <1>2 DEF EncoderInv, FieldsOK
<1>12. PoolInv' /\ ContentInv' /\ RefsCounted' /\ FramesIntact' /\ WorkerInv'
       /\ UNCHANGED stage
  BY <1>1, FramesAlone
<1>13. FieldsOK'
  <2>1. bufferPkt' \in Packets \cup {NoPacket}
    BY <1>4, <1>5
  <2> QED BY <1>1, <1>4, <1>8, <1>11, <2>1 DEF EncoderInv, FieldsOK
<1>14. ClientInv'
  BY <1>1, <1>5, <1>12 DEF EncoderInv, ClientInv, InSend, InDrain, Pool!Rests
<1>15. RingInv'
  <2>1. RingSize'
    <3>1. Outstanding <= NbThreads + 1 /\ Taken >= 0
      BY DEF EncoderInv, RingInv, RingSize
    <3> QED BY <1>7, <1>8, <1>9, <1>10, <3>1, ConstantFacts DEF RingSize
  <2>2. QueuedInv'
    <3> SUFFICES ASSUME NEW i \in DOMAIN taskFifo
                 PROVE  /\ taskFifo[i].frame = Fetched + i
                        /\ Distance(taskFifo[i].index)' = Fetched + i - (Taken + 1) - 1
      BY <1>1, <1>9 DEF QueuedInv
    <3>1. PICK j \in Slots : j = taskFifo[i].index
      BY TaskFacts DEF Tasks
    <3>2. taskFifo[i].frame = Fetched + i /\ Distance(j) = Fetched + i - Taken - 1
      BY <3>1 DEF EncoderInv, RingInv, QueuedInv
    <3>3. i \in Nat /\ i > 0
      BY <1>7
    <3>4. j # k
      BY <1>7, <1>10, <3>2, <3>3
    <3>5. Distance(j)' = Distance(j) - 1
      BY <1>8, <3>4
    <3>6. Distance(taskFifo[i].index)' = Distance(j)'
      BY <1>1, <3>1
    <3> QED BY <1>7, <3>2, <3>3, <3>5, <3>6
  <2>3. EncodedInv'
    <3>1. ASSUME NEW w \in Workers, task[w] # NoTask
          PROVE  /\ task[w].frame > Taken + 1 /\ task[w].frame <= Fetched
                 /\ Distance(task[w].index)' = task[w].frame - (Taken + 1) - 1
      <4>1. PICK j \in Slots : j = task[w].index
        BY DEF EncoderInv, FieldsOK
      <4>2. /\ task[w].frame > Taken /\ task[w].frame <= Fetched
            /\ Distance(j) = task[w].frame - Taken - 1
        BY <3>1, <4>1 DEF EncoderInv, RingInv, EncodedInv
      <4>3. task[w].frame # p.frame
        BY <1>3, <1>6, <3>1 DEF EncoderInv, RingInv, FinishedInv
      <4>4. task[w].frame \in Int
        <5>1. task[w].frame \in {0} \cup Frames
          BY DEF EncoderInv, FieldsOK
        <5> QED BY <5>1, ConstantFacts DEF Frames
      <4>5. j # k
        BY <1>7, <1>10, <4>2, <4>3, <4>4
      <4>6. Distance(j)' = Distance(j) - 1
        BY <1>8, <4>5
      <4>7. Distance(task[w].index)' = Distance(j)'
        BY <1>1, <4>1
      <4> QED BY <1>7, <1>10, <4>2, <4>3, <4>4, <4>6, <4>7
    <3> QED BY <1>1, <1>9, <3>1 DEF EncoderInv, RingInv, EncodedInv
  <2>4. FinishedInv'
    <3>1. ASSUME NEW i \in Slots, finished'[i] # NoPacket
          PROVE  /\ finished[i] = finished'[i] /\ finished[i] # NoPacket
                 /\ finished[i].frame > Taken + 1 /\ finished[i].frame <= Fetched
                 /\ Distance(i)' = finished[i].frame - (Taken + 1) - 1
      <4>1. i # k /\ finished[i] = finished'[i]
        BY <1>11, <3>1
      <4>2. /\ finished[i].frame > Taken /\ finished[i].frame <= Fetched
            /\ Distance(i) = finished[i].frame - Taken - 1
        BY <3>1, <4>1 DEF EncoderInv, RingInv, FinishedInv
      <4>3. finished[i] \in Packets
        BY <3>1, <4>1 DEF EncoderInv, FieldsOK
      <4>4. finished[i].frame \in Int
        BY <4>3, ConstantFacts DEF Packets, Frames
      <4>5. Distance(i) # 0 /\ Distance(i)' = Distance(i) - 1
        BY <1>7, <1>8, <4>1
      <4> QED BY <1>7, <3>1, <4>1, <4>2, <4>4, <4>5
    <3>2. bufferPkt' # NoPacket => bufferPkt'.code = "frame" /\ bufferPkt'.frame <= Taken + 1
      BY <1>4, <1>5, <1>6, <1>7, <1>10
    <3> QED BY <1>1, <1>9, <3>1, <3>2 DEF EncoderInv, RingInv, FinishedInv
  <2> QED BY <2>1, <2>2, <2>3, <2>4 DEF RingInv
<1> QED BY <1>12, <1>13, <1>14, <1>15 DEF EncoderInv

-----------------------------------------------------------------------------
(* The workers *)

(* Places of workers and of the client that change without their tasks *)
LEMMA PlacesKeep ==
  ASSUME EncoderInv,
         UNCHANGED <<poolVars, frameVars, bufferPkt, taskFifo, ringVars, task, result>>,
         \/ UNCHANGED client
         \/ client = "output asleep" /\ client' = "output"
         \/ client = "drain asleep" /\ client' = "drain",
         \A w \in Workers : worker'[w] = worker[w]
           \/ (worker[w] \in {"fetch", "asleep"} /\ worker'[w] \in {"fetch", "asleep", "gone"}),
         FieldsOK'
  PROVE  EncoderInv'
<1>1. UNCHANGED <<own, made, sent, stage>>
  BY DEF frameVars, poolVars
<1>2. PoolInv' /\ ContentInv' /\ RefsCounted' /\ FramesIntact'
  BY <1>1, FramesAlone
<1>3. WorkerInv'
  <2>1. \A w \in Workers : Returning(w)' <=> Returning(w)
    BY <1>1 DEF Returning
  <2> QED BY <2>1 DEF EncoderInv, WorkerInv
<1>4. RingInv'
  <2>1. client' \notin {"output", "output asleep"} => Outstanding <= NbThreads
    BY DEF EncoderInv, RingInv, RingSize
  <2> QED BY <1>1, <2>1, RingAlone
<1>5. ClientInv'
  BY <1>1 DEF EncoderInv, ClientInv, Pool!Rests, InSend, InDrain
<1> QED BY <1>2, <1>3, <1>4, <1>5 DEF EncoderInv

(* Leave *)
LEMMA LeaveKeeps ==
  ASSUME EncoderInv, NEW w \in Workers, Worker(w), Leave(w), UNCHANGED <<finished, client>>
  PROVE  EncoderInv'
<1>1. /\ worker[w] = "fetch" /\ worker' = [worker EXCEPT ![w] = "gone"]
      /\ UNCHANGED <<poolVars, frameVars, client, draining, bufferPkt, reply, taskFifo,
                     finished, taskIndex, finishedIndex, exit, task, result>>
  BY DEF Leave, Worker, apiVars
<1>2. FieldsOK'
  <2>1. FieldsOK
    BY DEF EncoderInv
  <2>2. worker' \in [Workers -> {"fetch", "asleep", "encode", "free", "deliver", "gone"}]
    BY <1>1, <2>1 DEF FieldsOK
  <2>3. UNCHANGED <<own, made, sent>>
    BY <1>1 DEF frameVars
  <2> QED BY <1>1, <2>1, <2>2, <2>3 DEF FieldsOK
<1>3. \A v \in Workers : worker'[v] = worker[v] \/ (worker[v] = "fetch" /\ worker'[v] = "gone")
  BY <1>1 DEF EncoderInv, FieldsOK
<1> QED BY <1>1, <1>2, <1>3, PlacesKeep DEF ringVars

(* Fetch, from a FIFO that is empty *)
LEMMA FetchNothingKeeps ==
  ASSUME EncoderInv, NEW w \in Workers, Worker(w), Fetch(w), UNCHANGED <<finished, client>>,
         taskFifo = <<>>
  PROVE  EncoderInv'
<1>1. /\ worker[w] = "fetch" /\ worker' = [worker EXCEPT ![w] = "asleep"]
      /\ UNCHANGED <<poolVars, frameVars, client, draining, bufferPkt, reply, taskFifo,
                     finished, taskIndex, finishedIndex, exit, task, result>>
  BY DEF Fetch, Worker, apiVars
<1>2. FieldsOK'
  BY <1>1 DEF EncoderInv, FieldsOK, frameVars
<1>3. \A v \in Workers : worker'[v] = worker[v] \/ (worker[v] = "fetch" /\ worker'[v] = "asleep")
  BY <1>1 DEF EncoderInv, FieldsOK
<1> QED BY <1>1, <1>2, <1>3, PlacesKeep DEF ringVars

(* SpuriousWakeup *)
LEMMA SpuriousWakeupKeeps ==
  ASSUME EncoderInv, SpuriousWakeup
  PROVE  EncoderInv'
<1>1. UNCHANGED <<poolVars, frameVars, draining, bufferPkt, reply, taskFifo, finished,
                  taskIndex, finishedIndex, exit, task, result>>
  BY DEF SpuriousWakeup, apiVars, ringVars
<1>2. \/ UNCHANGED client
      \/ client = "output asleep" /\ client' = "output"
      \/ client = "drain asleep" /\ client' = "drain"
  BY DEF SpuriousWakeup, SignalFinished
<1>3. /\ worker' \in [Workers -> {"fetch", "asleep", "encode", "free", "deliver", "gone"}]
      /\ \A w \in Workers : worker'[w] = worker[w]
           \/ (worker[w] = "asleep" /\ worker'[w] = "fetch")
  <2>1. CASE UNCHANGED worker
    BY <2>1 DEF EncoderInv, FieldsOK
  <2>2. CASE SignalTask
    BY <2>2, SignalWakes DEF EncoderInv
  <2> QED BY <2>1, <2>2 DEF SpuriousWakeup
<1>4. FieldsOK'
  <2>1. FieldsOK
    BY DEF EncoderInv
  <2>2. UNCHANGED <<own, made, sent, draining, bufferPkt, reply, taskFifo, finished,
                    taskIndex, finishedIndex, exit, task, result>>
    BY <1>1 DEF frameVars
  <2>3. client' \in {"idle", "replace", "submit", "output", "output asleep", "drain",
                     "drain asleep", "joining", "closed"}
    BY <1>2, <2>1 DEF FieldsOK
  <2> QED BY <1>3, <2>1, <2>2, <2>3 DEF FieldsOK
<1> QED BY <1>1, <1>2, <1>3, <1>4, PlacesKeep DEF ringVars

(* A task that leaves the FIFO: the others move up. *)
LEMMA QueuedTail ==
  ASSUME EncoderInv, taskFifo # <<>>, taskFifo' = Tail(taskFifo), NEW d \in Data
  PROVE  /\ Cardinality(Queued(d)') =
              Cardinality(Queued(d)) - (IF taskFifo[1].data = d THEN 1 ELSE 0)
         /\ Cardinality(Queued(d)') \in Nat
<1>1. taskFifo \in Seq(Tasks)
  BY DEF EncoderInv, FieldsOK
<1>2. PICK n \in Nat : n = Len(taskFifo)
  BY RingFacts DEF EncoderInv
<1>3. n > 0 /\ DOMAIN taskFifo = 1 .. n
  BY <1>1, <1>2, LenProperties, EmptySeq
<1>4. /\ DOMAIN taskFifo' = 1 .. n - 1
      /\ \A i \in 1 .. n - 1 : taskFifo'[i] = taskFifo[i + 1]
  <2>1. /\ taskFifo' \in Seq(Tasks) /\ Len(taskFifo') = n - 1
        /\ \A i \in 1 .. Len(taskFifo') : taskFifo'[i] = taskFifo[i + 1]
    BY <1>1, <1>2, HeadTailProperties
  <2> QED BY <2>1, LenProperties
<1> DEFINE S == Queued(d) \ {1}
           f == [i \in S |-> i - 1]
<1>5. /\ IsFiniteSet(S)
      /\ Cardinality(S) = Cardinality(Queued(d)) - (IF taskFifo[1].data = d THEN 1 ELSE 0)
  <2>1. 1 \in Queued(d) <=> taskFifo[1].data = d
    BY <1>3 DEF Queued
  <2>2. /\ IsFiniteSet(Queued(d) \ {1})
        /\ Cardinality(Queued(d) \ {1}) = IF 1 \in Queued(d) THEN Cardinality(Queued(d)) - 1
                                          ELSE Cardinality(Queued(d))
    BY HolderFacts, FS_RemoveElement
  <2>3. Cardinality(Queued(d)) \in Nat
    BY HolderFacts
  <2> QED BY <2>1, <2>2, <2>3
<1>6. \A i : i \in S <=> i \in 2 .. n /\ taskFifo[i].data = d
  BY <1>2, <1>3 DEF Queued
<1>7. \A i : i \in Queued(d)' <=> i \in 1 .. n - 1 /\ taskFifo[i + 1].data = d
  BY <1>4 DEF Queued
<1>8. PICK T : T = Queued(d)'
  OBVIOUS
<1> HIDE DEF S
<1>9. f \in Bijection(S, T)
  <2>1. \A i \in S : i \in Nat /\ i - 1 \in T
    BY <1>2, <1>6, <1>7, <1>8
  <2>2. f \in [S -> T]
    BY <2>1
  <2>3. \A i, j \in S : f[i] = f[j] => i = j
    BY <2>1
  <2>4. \A t \in T : t + 1 \in S /\ t \in Nat
    BY <1>2, <1>6, <1>7, <1>8
  <2>5. \A t \in T : \E i \in S : f[i] = t
    <3> TAKE t \in T
    <3>1. t + 1 \in S /\ f[t + 1] = t
      BY <2>4
    <3> QED BY <3>1
  <2> HIDE DEF f
  <2> QED BY <2>2, <2>3, <2>5 DEF Bijection, Injection, Surjection, IsInjective
<1>10. ExistsBijection(S, T)
  BY <1>9 DEF ExistsBijection
<1>11. Cardinality(T) = Cardinality(S) /\ Cardinality(T) \in Nat
  BY <1>5, <1>10, FS_Bijection, FS_CardinalityType
<1> QED BY <1>5, <1>8, <1>11

(* Fetch, of a task *)
LEMMA FetchKeeps ==
  ASSUME EncoderInv, NEW w \in Workers, Worker(w), Fetch(w), UNCHANGED <<finished, client>>,
         taskFifo # <<>>
  PROVE  EncoderInv'
<1>1. /\ worker[w] = "fetch" /\ worker' = [worker EXCEPT ![w] = "encode"]
      /\ task' = [task EXCEPT ![w] = Head(taskFifo)] /\ taskFifo' = Tail(taskFifo)
      /\ UNCHANGED <<poolVars, own, made, sent, client, draining, bufferPkt, reply,
                     finished, taskIndex, finishedIndex, exit, result>>
  BY DEF Fetch, Worker, apiVars, frameVars
<1>2. PICK n \in Nat : n = Len(taskFifo)
  BY RingFacts DEF EncoderInv
<1>3. /\ taskFifo \in Seq(Tasks) /\ n > 0 /\ DOMAIN taskFifo = 1 .. n
      /\ taskFifo' \in Seq(Tasks) /\ DOMAIN taskFifo' = 1 .. n - 1 /\ Len(taskFifo') = n - 1
      /\ \A i \in 1 .. n - 1 : taskFifo'[i] = taskFifo[i + 1]
  <2>1. taskFifo \in Seq(Tasks)
    BY DEF EncoderInv, FieldsOK
  <2>2. n > 0 /\ DOMAIN taskFifo = 1 .. n
    BY <1>2, <2>1, LenProperties, EmptySeq
  <2>3. /\ taskFifo' \in Seq(Tasks) /\ Len(taskFifo') = n - 1
        /\ \A i \in 1 .. Len(taskFifo') : taskFifo'[i] = taskFifo[i + 1]
    BY <1>1, <1>2, <2>1, HeadTailProperties
  <2> QED BY <2>1, <2>2, <2>3, LenProperties
<1>4. PICK first \in Tasks : first = taskFifo[1] /\ first = Head(taskFifo)
  BY <1>1, <1>3, TaskFacts
<1>5. /\ task' = [task EXCEPT ![w] = first]
      /\ \A v \in Workers : v # w => task'[v] = task[v] /\ worker'[v] = worker[v]
      /\ task'[w] = first /\ worker'[w] = "encode"
      /\ task[w] = NoTask /\ first # NoTask /\ first.data \in Data /\ first.frame \in Frames
      /\ NoData \notin Data
  BY <1>1, <1>4, TaskFacts, ConstantFacts DEF EncoderInv, FieldsOK, Tasks
<1>6. PoolInv' /\ ContentInv' /\ UNCHANGED <<content, refcount, stage>>
  BY <1>1, FramesAlone
<1>7. FieldsOK'
  <2>1. worker' \in [Workers -> {"fetch", "asleep", "encode", "free", "deliver", "gone"}]
    BY <1>1 DEF EncoderInv, FieldsOK
  <2>2. first \in [data : Data \cup {NoData}, index : Slots, frame : {0} \cup Frames]
    BY DEF Tasks
  <2>3. task' \in [Workers -> [data : Data \cup {NoData}, index : Slots,
                               frame : {0} \cup Frames]]
    BY <1>5, <2>2 DEF EncoderInv, FieldsOK
  <2> QED BY <1>1, <1>3, <2>1, <2>3 DEF EncoderInv, FieldsOK
<1>8. FramesIntact'
  <2>1. content[first.data] = first.frame
    BY <1>3, <1>4 DEF EncoderInv, FramesIntact
  <2>2. \A i \in 1 .. n - 1 : i + 1 \in DOMAIN taskFifo
    BY <1>3
  <2>5. \A i \in DOMAIN taskFifo : content[taskFifo[i].data] = taskFifo[i].frame
    BY DEF EncoderInv, FramesIntact
  <2>6. \A i \in 1 .. n - 1 : content[taskFifo'[i].data] = taskFifo'[i].frame
    <3> TAKE i \in 1 .. n - 1
    <3>1. taskFifo'[i] = taskFifo[i + 1] /\ i + 1 \in DOMAIN taskFifo
      BY <1>3, <2>2
    <3>2. content[taskFifo[i + 1].data] = taskFifo[i + 1].frame
      BY <3>1, <2>5
    <3> QED BY <3>1, <3>2, Zenon
  <2>3. \A i \in DOMAIN taskFifo' : content[taskFifo'[i].data] = taskFifo'[i].frame
    BY <1>3, <2>6
  <2>4. \A v \in Workers :
          task'[v].data # NoData => content[task'[v].data] = task'[v].frame
    BY <1>5, <2>1 DEF EncoderInv, FramesIntact
  <2> QED BY <1>6, <2>3, <2>4 DEF FramesIntact
<1>9. RefsCounted'
  <2>1. \A d \in Data :
          /\ Cardinality(Queued(d)') =
               Cardinality(Queued(d)) - (IF first.data = d THEN 1 ELSE 0)
          /\ Cardinality(Queued(d)') \in Nat
    BY <1>1, <1>4, QueuedTail
  <2>2. \A d \in Data :
          /\ Cardinality(Encoded(d)') =
               Cardinality(Encoded(d)) + (IF first.data = d THEN 1 ELSE 0)
          /\ Cardinality(Encoded(d)') \in Nat
    <3> TAKE d \in Data
    <3>1. IsFiniteSet(Encoded(d)) /\ Cardinality(Encoded(d)) \in Nat
      BY HolderFacts
    <3>2. CASE first.data = d
      <4>1. Encoded(d)' = Encoded(d) \cup {w} /\ w \notin Encoded(d)
        BY <1>5, <3>2 DEF Encoded, NoTask
      <4>2. Cardinality(Encoded(d) \cup {w}) = Cardinality(Encoded(d)) + 1
        BY <3>1, <4>1, FS_AddElement
      <4> QED BY <3>1, <3>2, <4>1, <4>2
    <3>3. CASE first.data # d
      <4>1. Encoded(d)' = Encoded(d)
        BY <1>5, <3>3 DEF Encoded, NoTask
      <4> QED BY <3>1, <3>3, <4>1
    <3> QED BY <3>2, <3>3
  <2>3. \A d \in Data : ClientRefs(d)' = ClientRefs(d) /\ ClientRefs(d) \in Nat
    BY <1>1, <1>6 DEF ClientRefs
  <2>4. \A d \in Data :
          refcount'[d] = Cardinality(Queued(d)') + Cardinality(Encoded(d)') + ClientRefs(d)'
    <3> TAKE d \in Data
    <3>1. /\ refcount[d] = Cardinality(Queued(d)) + Cardinality(Encoded(d)) + ClientRefs(d)
          /\ Cardinality(Queued(d)) \in Nat /\ Cardinality(Encoded(d)) \in Nat
      BY HolderFacts
    <3>2. /\ Cardinality(Queued(d)') =
               Cardinality(Queued(d)) - (IF first.data = d THEN 1 ELSE 0)
          /\ Cardinality(Encoded(d)') =
               Cardinality(Encoded(d)) + (IF first.data = d THEN 1 ELSE 0)
          /\ ClientRefs(d)' = ClientRefs(d) /\ ClientRefs(d) \in Nat
          /\ refcount'[d] = refcount[d]
      BY <1>6, <2>1, <2>2, <2>3
    <3>3. CASE first.data = d
      BY <3>1, <3>2, <3>3
    <3>4. CASE first.data # d
      BY <3>1, <3>2, <3>4
    <3> QED BY <3>3, <3>4
  <2> QED BY <2>1, <2>2, <2>4, CountedAfter
<1>10. ClientInv'
  BY <1>1, <1>6 DEF EncoderInv, ClientInv, Pool!Rests
<1>11. WorkerInv'
  <2>1. \A v \in Workers : Returning(v)' <=> Returning(v)
    BY <1>6 DEF Returning
  <2>2. result'[w] = NoPacket /\ ~Returning(w)
    BY <1>1 DEF EncoderInv, WorkerInv
  <2> QED BY <1>1, <1>4, <1>5, <2>1, <2>2 DEF EncoderInv, WorkerInv
<1>12. RingInv'
  <2>1. /\ sent \in Nat /\ Outstanding \in Nat /\ Taken \in Int /\ Fetched \in Int
        /\ Fetched >= Taken
    BY RingFacts DEF EncoderInv, RingInv, RingSize
  <2>2. Outstanding' = Outstanding /\ Taken' = Taken /\ Fetched' = Fetched + 1
    BY <1>1, <1>2, <1>3, <2>1 DEF Outstanding, Taken, Fetched
  <2>3. \A i \in Slots : Distance(i)' = Distance(i)
    BY <1>1 DEF Distance
  <2>4. /\ first.index \in Slots /\ first.frame = Fetched + 1
        /\ Distance(first.index) = Fetched - Taken
    <3>1. /\ first.frame = Fetched + 1
          /\ Distance(first.index) = Fetched + 1 - Taken - 1
      BY <1>3, <1>4 DEF EncoderInv, RingInv, QueuedInv
    <3> QED BY <2>1, <3>1 DEF Tasks
  <2>5. RingSize'
    <3>1. RingSize
      BY DEF EncoderInv, RingInv
    <3>2. Fetched + 1 >= Taken
      BY <2>1
    <3> QED BY <1>1, <2>2, <3>1, <3>2 DEF RingSize
  <2>6. QueuedInv'
    <3> SUFFICES ASSUME NEW i \in DOMAIN taskFifo'
                 PROVE  /\ taskFifo'[i].frame = Fetched + 1 + i
                        /\ Distance(taskFifo[i].index)' = Fetched + 1 + i - Taken - 1
      BY <2>2 DEF QueuedInv
    <3>1. i \in Nat /\ i + 1 \in DOMAIN taskFifo /\ taskFifo'[i] = taskFifo[i + 1]
      BY <1>3
    <3>2. PICK t \in Tasks : t = taskFifo[i + 1]
      BY <3>1, TaskFacts
    <3>3. t.frame = Fetched + (i + 1) /\ Distance(t.index) = Fetched + (i + 1) - Taken - 1
      BY <3>1, <3>2 DEF EncoderInv, RingInv, QueuedInv
    <3>4. Distance(t.index)' = Distance(t.index)
      BY <2>3 DEF Tasks
    <3>5. Distance(taskFifo[i].index)' = Distance(t.index)'
      BY <3>1, <3>2
    <3> QED BY <2>1, <3>1, <3>2, <3>3, <3>4, <3>5
  <2>7. EncodedInv'
    <3>1. Distance(task[w].index)' = Fetched - Taken
      BY <1>5, <2>3, <2>4
    <3>2. \A v \in Workers : v # w => Distance(task[v].index)' = Distance(task[v].index)
      <4>1. \A v \in Workers : task[v].index \in Slots
        BY DEF EncoderInv, FieldsOK
      <4> QED BY <1>5, <2>3, <4>1
    <3>3. \A v \in Workers : task'[v] # NoTask =>
            /\ task'[v].frame > Taken /\ task'[v].frame <= Fetched + 1
            /\ Distance(task[v].index)' = task'[v].frame - Taken - 1
      <4> SUFFICES ASSUME NEW v \in Workers, task'[v] # NoTask
                   PROVE  /\ task'[v].frame > Taken /\ task'[v].frame <= Fetched + 1
                          /\ Distance(task[v].index)' = task'[v].frame - Taken - 1
        OBVIOUS
      <4>1. CASE v = w
        BY <1>5, <2>1, <2>4, <3>1, <4>1
      <4>2. CASE v # w
        <5>1. /\ task[v].frame > Taken /\ task[v].frame <= Fetched
              /\ Distance(task[v].index) = task[v].frame - Taken - 1
          BY <1>5, <4>2 DEF EncoderInv, RingInv, EncodedInv
        <5>2. task[v].frame \in {0} \cup Frames
          BY DEF EncoderInv, FieldsOK
        <5>3. task[v].frame \in Int
          BY <5>2, ConstantFacts DEF Frames
        <5> QED BY <1>5, <2>1, <3>2, <4>2, <5>1, <5>3
      <4> QED BY <4>1, <4>2
    <3>4. \A v \in Workers : v # w /\ task[v] # NoTask => task[v].frame # first.frame
      BY <2>1, <2>4 DEF EncoderInv, RingInv, EncodedInv
    <3>5. \A u, v \in Workers :
            task'[u] # NoTask /\ task'[v] # NoTask /\ task'[u].frame = task'[v].frame => u = v
      BY <1>5, <3>4 DEF EncoderInv, RingInv, EncodedInv
    <3> QED BY <2>2, <3>3, <3>5 DEF EncodedInv
  <2>8. FinishedInv'
    <3>1. \A i \in Slots : finished[i] # NoPacket =>
            /\ finished[i].frame > Taken /\ finished[i].frame <= Fetched + 1
            /\ Distance(i)' = finished[i].frame - Taken - 1
            /\ finished[i].frame # first.frame
      <4> SUFFICES ASSUME NEW i \in Slots, finished[i] # NoPacket
                   PROVE  /\ finished[i].frame > Taken /\ finished[i].frame <= Fetched + 1
                          /\ Distance(i)' = finished[i].frame - Taken - 1
                          /\ finished[i].frame # first.frame
        OBVIOUS
      <4>1. finished[i] \in Packets
        BY DEF EncoderInv, FieldsOK
      <4>2. finished[i].frame \in Int
        BY <4>1, ConstantFacts DEF Packets, Frames
      <4>3. /\ finished[i].frame > Taken /\ finished[i].frame <= Fetched
            /\ Distance(i) = finished[i].frame - Taken - 1
        BY DEF EncoderInv, RingInv, FinishedInv
      <4> QED BY <2>1, <2>3, <2>4, <4>2, <4>3
    <3>2. \A i \in Slots, v \in Workers :
            finished[i] # NoPacket /\ task'[v] # NoTask => task'[v].frame # finished[i].frame
      BY <1>5, <3>1 DEF EncoderInv, RingInv, FinishedInv
    <3>3. bufferPkt # NoPacket => bufferPkt.code = "frame" /\ bufferPkt.frame <= Taken
      BY DEF EncoderInv, RingInv, FinishedInv
    <3> QED BY <1>1, <2>2, <3>1, <3>2, <3>3 DEF FinishedInv
  <2> QED BY <2>5, <2>6, <2>7, <2>8 DEF RingInv
<1> QED BY <1>6, <1>7, <1>8, <1>9, <1>10, <1>11, <1>12 DEF EncoderInv

(* Encode *)
LEMMA EncodeKeeps ==
  ASSUME EncoderInv, NEW w \in Workers, Worker(w), Encode(w), UNCHANGED <<finished, client>>
  PROVE  EncoderInv'
<1>1. /\ worker[w] = "encode" /\ Pool!Unref(w, task[w].data)
      /\ task' = [task EXCEPT ![w].data = NoData]
      /\ worker' = [worker EXCEPT ![w] = IF Pool!Rests(w)' THEN "deliver" ELSE "free"]
      /\ UNCHANGED <<own, made, sent, client, draining, bufferPkt, reply, taskFifo,
                     finished, taskIndex, finishedIndex, exit>>
  BY DEF Encode, Worker, apiVars, frameVars
<1>2. PICK code \in {"frame", "error"} :
        result' = [result EXCEPT ![w] = [frame |-> content[task[w].data], code |-> code]]
  BY DEF Encode
<1>3. PICK d \in Data : d = task[w].data
  BY <1>1, TaskFacts DEF Tasks
<1>4. PICK f \in Frames : f = task[w].frame
  BY <1>1, TaskFacts DEF Tasks
<1>5. /\ d # NoData /\ w \in Threads /\ refcount[d] > 0 /\ refcount[d] \in Nat
      /\ content[d] = f /\ own \in Data \cup {NoData} /\ f # 0
  <2>1. d # NoData /\ w \in Threads /\ f # 0
    BY ConstantFacts DEF Frames
  <2>2. refcount[d] > 0 /\ refcount[d] \in Nat
    BY <1>3, <2>1, TaskFacts, HolderFacts
  <2>3. content[d] = f
    BY <1>3, <1>4, <2>1 DEF EncoderInv, FramesIntact
  <2> QED BY <2>1, <2>2, <2>3 DEF EncoderInv, FieldsOK
<1>6. PoolInv'
  BY <1>1, <1>3, <1>5, UnrefKeeps DEF EncoderInv
<1>7. /\ \A e \in Data : refcount'[e] = IF e = d THEN refcount[d] - 1 ELSE refcount[e]
      /\ \A e \in Data : refcount'[e] \in Nat
      /\ \A e \in Data : e # d \/ refcount[d] > 1 => content'[e] = content[e]
      /\ content'[d] \in {content[d], 0}
      /\ \A u \in Threads : u # w => stage'[u] = stage[u]
      /\ stage'[w] \in {"none", "release"} /\ stage[w] = "none"
  BY <1>1, <1>3, <1>5, UnrefEffect
<1>8. /\ \A v \in Workers : v # w =>
           task'[v] = task[v] /\ worker'[v] = worker[v] /\ result'[v] = result[v]
      /\ task'[w].data = NoData /\ task'[w].frame = f /\ task'[w].index = task[w].index
      /\ result'[w] = [frame |-> f, code |-> code]
      /\ worker'[w] = IF stage'[w] = "none" THEN "deliver" ELSE "free"
  BY <1>1, <1>2, <1>3, <1>4, <1>5 DEF EncoderInv, FieldsOK, Pool!Rests
<1>9. FieldsOK'
  <2>1. worker' \in [Workers -> {"fetch", "asleep", "encode", "free", "deliver", "gone"}]
    BY <1>1 DEF EncoderInv, FieldsOK
  <2>2. task' \in [Workers -> [data : Data \cup {NoData}, index : Slots,
                               frame : {0} \cup Frames]]
    BY <1>1 DEF EncoderInv, FieldsOK
  <2>3. result' \in [Workers -> Packets \cup {NoPacket}]
    <3>1. [frame |-> f, code |-> code] \in Packets
      BY DEF Packets
    <3> QED BY <1>2, <1>3, <1>5, <3>1 DEF EncoderInv, FieldsOK
  <2>4. FieldsOK
    BY DEF EncoderInv
  <2> QED BY <1>1, <2>1, <2>2, <2>3, <2>4 DEF FieldsOK
<1>10. w \in Encoded(d)
  BY <1>3 DEF Encoded
<1>11. /\ Encoded(d)' = Encoded(d) \ {w}
       /\ \A e \in Data : e # d => Encoded(e)' = Encoded(e)
       /\ \A e \in Data : Queued(e)' = Queued(e)
  BY <1>1, <1>3, <1>5, <1>8, ConstantFacts DEF Encoded, Queued
<1>12. Cardinality(Encoded(d)') = Cardinality(Encoded(d)) - 1
       /\ Cardinality(Encoded(d)') \in Nat
  <2>1. IsFiniteSet(Encoded(d)) /\ Cardinality(Encoded(d)) \in Nat
    BY HolderFacts
  <2>2. /\ Cardinality(Encoded(d) \ {w}) = Cardinality(Encoded(d)) - 1
        /\ IsFiniteSet(Encoded(d) \ {w})
    BY <1>10, <2>1, FS_RemoveElement
  <2>3. Cardinality(Encoded(d) \ {w}) \in Nat
    BY <2>2, FS_CardinalityType
  <2> QED BY <1>11, <2>2, <2>3
\* Who still refers to the frame finds it as it was.
<1>13. \A e \in Data :
         Queued(e) # {} \/ Encoded(e)' # {} \/ ClientRefs(e) > 0 => content'[e] = content[e]
  <2>1. /\ refcount[d] = Cardinality(Queued(d)) + Cardinality(Encoded(d)) + ClientRefs(d)
        /\ IsFiniteSet(Queued(d)) /\ Cardinality(Queued(d)) \in Nat
        /\ Cardinality(Encoded(d)) \in Nat /\ ClientRefs(d) \in Nat
    BY HolderFacts
  <2>2. Queued(d) # {} => Cardinality(Queued(d)) > 0
    BY <2>1, FS_EmptySet
  <2>3. Encoded(d)' # {} => Cardinality(Encoded(d)') > 0
    <3>1. IsFiniteSet(Encoded(d)')
      BY <1>11, HolderFacts, FS_RemoveElement
    <3> QED BY <1>12, <3>1, FS_EmptySet
  <2>4. Queued(d) # {} \/ Encoded(d)' # {} \/ ClientRefs(d) > 0 => refcount[d] > 1
    BY <1>12, <2>1, <2>2, <2>3
  <2> QED BY <1>7, <2>4
<1>14. FramesIntact'
  <2>1. \A i \in DOMAIN taskFifo : content'[taskFifo[i].data] = taskFifo[i].frame
    <3> TAKE i \in DOMAIN taskFifo
    <3>1. PICK e \in Data : e = taskFifo[i].data
      BY TaskFacts
    <3>2. Queued(e) # {}
      BY <3>1 DEF Queued
    <3>3. content'[e] = content[e]
      BY <1>13, <3>2
    <3> QED BY <3>1, <3>3 DEF EncoderInv, FramesIntact
  <2>2. \A v \in Workers : task'[v].data # NoData => content'[task'[v].data] = task'[v].frame
    <3> SUFFICES ASSUME NEW v \in Workers, task'[v].data # NoData
                 PROVE  content'[task'[v].data] = task'[v].frame
      OBVIOUS
    <3>1. v # w /\ task'[v] = task[v]
      BY <1>8
    <3>2. PICK e \in Data : e = task[v].data
      BY <3>1, TaskFacts
    <3>3. Encoded(e)' # {}
      BY <3>1, <3>2 DEF Encoded
    <3>4. content'[e] = content[e]
      BY <1>13, <3>3
    <3> QED BY <3>1, <3>2, <3>4 DEF EncoderInv, FramesIntact
  <2> QED BY <1>1, <2>1, <2>2 DEF FramesIntact
<1>15. \A e \in Data : ClientRefs(e)' = ClientRefs(e)
  <2> TAKE e \in Data
  <2>1. ClientRefs(e) > 0 => content'[e] = content[e]
    BY <1>13
  <2>2. ClientRefs(e) > 0 \/ ~(client = "replace" /\ content[e] = made)
    BY DEF ClientRefs
  <2>3. content'[e] \in {content[e], 0}
    BY <1>7
  <2>4. client = "replace" => made # 0
    BY RingFacts DEF EncoderInv, ClientInv
  <2>5. client = "replace" => (content'[e] = made <=> content[e] = made)
    BY <2>1, <2>2, <2>3, <2>4
  <2> QED BY <1>1, <2>5 DEF ClientRefs
<1>16. RefsCounted'
  <2>1. \A e \in Data :
          /\ refcount'[e] = Cardinality(Queued(e)') + Cardinality(Encoded(e)') + ClientRefs(e)'
          /\ Cardinality(Queued(e)') \in Nat /\ Cardinality(Encoded(e)') \in Nat
    <3> TAKE e \in Data
    <3>1. /\ refcount[e] = Cardinality(Queued(e)) + Cardinality(Encoded(e)) + ClientRefs(e)
          /\ Cardinality(Queued(e)) \in Nat /\ Cardinality(Encoded(e)) \in Nat
          /\ ClientRefs(e) \in Nat
      BY HolderFacts
    <3>2. CASE e = d
      <4>1. /\ refcount'[e] = refcount[e] - 1 /\ Queued(e)' = Queued(e)
            /\ ClientRefs(e)' = ClientRefs(e)
        BY <1>7, <1>11, <1>15, <3>2
      <4>2. Cardinality(Encoded(e)') = Cardinality(Encoded(e)) - 1
            /\ Cardinality(Encoded(e)') \in Nat
        BY <1>12, <3>2
      <4> QED BY <3>1, <4>1, <4>2
    <3>3. CASE e # d
      BY <1>7, <1>11, <1>15, <3>1, <3>3
    <3> QED BY <3>2, <3>3
  <2> QED BY <2>1, CountedAfter
<1>17. ContentInv'
  <2>1. \A e \in Data : content'[e] \in {content[e], 0}
    BY <1>7
  <2>2. /\ \A e \in Data : content'[e] <= made'
        /\ \A e, g \in Data : content'[e] = content'[g] /\ content'[e] # 0 => e = g
    BY <1>1, <2>1, ContentLess
  <2>3. own # NoData => content'[own] = content[own]
    <3>1. \A e \in Data : own = e => ClientRefs(e) > 0
      BY DEF ClientRefs
    <3> QED BY <1>5, <1>13, <3>1
  <2>4. client = "replace" /\ (\E e \in Data : content[e] = made)
          => \E e \in Data : content'[e] = made
    <3>1. \A e \in Data : client = "replace" /\ content[e] = made => ClientRefs(e) > 0
      BY DEF ClientRefs
    <3> QED BY <1>13, <3>1
  <2> QED BY <1>1, <2>2, <2>3, <2>4 DEF EncoderInv, ContentInv
<1>18. ClientInv'
  <2>1. stage'[Client] = stage[Client]
    BY <1>7, ConstantFacts
  <2> QED BY <1>1, <2>1 DEF EncoderInv, ClientInv, Pool!Rests
<1>19. WorkerInv'
  <2>1. \A v \in Workers : v # w => (Returning(v)' <=> Returning(v))
    BY <1>7, ConstantFacts DEF Returning
  <2>2. Returning(w)' <=> worker'[w] = "free"
    BY <1>7, <1>8 DEF Returning
  <2>3. worker'[w] \in {"free", "deliver"}
    BY <1>8
  <2>4. /\ result'[w] \in Packets /\ result'[w].frame = task'[w].frame
        /\ task'[w].data = NoData /\ task'[w].frame \in Frames
    BY <1>8 DEF Packets
  <2> QED BY <1>8, <2>1, <2>2, <2>3, <2>4 DEF EncoderInv, WorkerInv
<1>20. RingInv'
  <2>1. \A v \in Workers :
          /\ task'[v].frame = task[v].frame /\ task'[v].index = task[v].index
          /\ task'[v] = NoTask <=> task[v] = NoTask
    <3>1. task'[w] # NoTask /\ task[w] # NoTask
      BY <1>4, <1>5, <1>8 DEF NoTask
    <3> QED BY <1>4, <1>8, <3>1
  <2>2. client' \notin {"output", "output asleep"} => Outstanding <= NbThreads
    BY <1>1 DEF EncoderInv, RingInv, RingSize
  <2> QED BY <1>1, <2>1, <2>2, RingAlone DEF ringVars
<1> QED BY <1>6, <1>9, <1>14, <1>16, <1>17, <1>18, <1>19, <1>20 DEF EncoderInv

(* FreeFrame *)
LEMMA FreeFrameKeeps ==
  ASSUME EncoderInv, NEW w \in Workers, Worker(w), FreeFrame(w), UNCHANGED <<finished, client>>
  PROVE  EncoderInv'
<1>1. /\ worker[w] = "free" /\ Pool!Continue(w)
      /\ worker' = [worker EXCEPT ![w] = IF Pool!Rests(w)' THEN "deliver" ELSE "free"]
      /\ UNCHANGED <<own, made, sent, client, draining, bufferPkt, reply, taskFifo,
                     finished, taskIndex, finishedIndex, exit, task, result>>
  BY DEF FreeFrame, Worker, apiVars, frameVars
<1>2. w \in Threads /\ w # Client
  BY ConstantFacts
<1>3. stage \in [Threads -> {"none", "count", "release", "drop"}]
  BY DEF EncoderInv, PoolInv, Pool!TypeOK
<1>4. \/ Pool!Release(w) /\ stage' = [stage EXCEPT ![w] = "drop"]
      \/ Pool!Drop(w) /\ stage' = [stage EXCEPT ![w] = "none"] /\ UNCHANGED content
  <2>1. ~Pool!Count(w)
    BY DEF Pool!Count, EncoderInv, PoolInv, CountInv
  <2> QED BY <1>1, <2>1 DEF Pool!Continue, Pool!Release, Pool!Drop
<1>5. PoolInv'
  <2>1. CASE Pool!Release(w)
    BY <1>1, <1>2, <2>1, ReleaseKeeps DEF EncoderInv
  <2>2. CASE Pool!Drop(w)
    BY <1>1, <1>2, <2>2, DropKeeps DEF EncoderInv
  <2> QED BY <1>4, <2>1, <2>2
<1>6. /\ UNCHANGED refcount
      /\ \A e \in Data : refcount[e] > 0 => content'[e] = content[e]
      /\ \A e \in Data : content'[e] \in {content[e], 0}
  <2>1. \/ UNCHANGED content
        \/ stage[w] = "release" /\ content' = [content EXCEPT ![buffer[w]] = 0]
    BY <1>4 DEF Pool!Release
  <2>2. UNCHANGED refcount
    BY <1>4 DEF Pool!Release, Pool!Drop
  <2>3. \A e \in Data : e = buffer[w] /\ stage[w] = "release" => refcount[e] = 0
    BY <1>2 DEF EncoderInv, PoolInv, MemoryInv, Releases
  <2>4. /\ \A e \in Data : refcount[e] > 0 => content'[e] = content[e]
        /\ \A e \in Data : content'[e] \in {content[e], 0}
    BY <2>1, <2>3, DataFacts
  <2> QED BY <2>2, <2>4
<1>7. FieldsOK'
  BY <1>1 DEF EncoderInv, FieldsOK
<1>8. \A d \in Data : Queued(d)' = Queued(d) /\ Encoded(d)' = Encoded(d)
  BY <1>1 DEF Queued, Encoded
<1>9. FramesIntact'
  <2>1. \A i \in DOMAIN taskFifo : content'[taskFifo[i].data] = content[taskFifo[i].data]
    BY <1>6, TaskFacts
  <2>2. \A v \in Workers : task[v].data # NoData =>
          content'[task[v].data] = content[task[v].data]
    BY <1>6, TaskFacts
  <2> QED BY <1>1, <2>1, <2>2 DEF EncoderInv, FramesIntact
<1>10. RefsCounted'
  <2> SUFFICES \A e \in Data : ClientRefs(e)' = ClientRefs(e)
    BY <1>6, <1>8, ClientCounts, DataFacts
  <2> TAKE e \in Data
  <2>1. client = "replace" => made # 0
    BY RingFacts DEF EncoderInv, ClientInv
  <2>2. client = "replace" /\ content[e] = made => refcount[e] > 0
    BY HolderFacts
  <2>3. client = "replace" => (content'[e] = made <=> content[e] = made)
    BY <1>6, <2>1, <2>2
  <2> QED BY <1>1, <2>3 DEF ClientRefs
<1>11. ContentInv'
  <2>1. /\ \A e \in Data : content'[e] <= made'
        /\ \A e, g \in Data : content'[e] = content'[g] /\ content'[e] # 0 => e = g
    BY <1>1, <1>6, ContentLess
  <2>2. own # NoData => content'[own] = content[own]
    BY <1>6, HolderFacts, DataFacts
  <2>3. client = "replace" /\ (\E e \in Data : content[e] = made)
          => \E e \in Data : content'[e] = made
    BY <1>6, HolderFacts
  <2> QED BY <1>1, <2>1, <2>2, <2>3 DEF EncoderInv, ContentInv
<1>12. ClientInv'
  <2>1. stage'[Client] = stage[Client]
    BY <1>2, <1>3, <1>4, ConstantFacts
  <2> QED BY <1>1, <2>1 DEF EncoderInv, ClientInv, Pool!Rests
<1>13. WorkerInv'
  <2>1. \A v \in Workers : v # w => (Returning(v)' <=> Returning(v)) /\ worker'[v] = worker[v]
    BY <1>1, <1>3, <1>4, ConstantFacts DEF Returning, EncoderInv, FieldsOK
  <2>2. Returning(w)' <=> worker'[w] = "free"
    BY <1>1, <1>2, <1>3, <1>4 DEF Returning, EncoderInv, FieldsOK, Pool!Rests
  <2>3. worker'[w] \in {"free", "deliver"}
    BY <1>1 DEF EncoderInv, FieldsOK
  <2> QED BY <1>1, <2>1, <2>2, <2>3 DEF EncoderInv, WorkerInv
<1>14. RingInv'
  <2>1. client' \notin {"output", "output asleep"} => Outstanding <= NbThreads
    BY <1>1 DEF EncoderInv, RingInv, RingSize
  <2> QED BY <1>1, <2>1, RingAlone DEF ringVars
<1> QED BY <1>5, <1>7, <1>9, <1>10, <1>11, <1>12, <1>13, <1>14 DEF EncoderInv

(* Deliver *)
LEMMA DeliverKeeps ==
  ASSUME EncoderInv, NEW w \in Workers, Worker(w), Deliver(w)
  PROVE  EncoderInv'
<1>1. /\ worker[w] = "deliver"
      /\ finished' = [finished EXCEPT ![task[w].index] = result[w]]
      /\ worker' = [worker EXCEPT ![w] = "fetch"]
      /\ task' = [task EXCEPT ![w] = NoTask]
      /\ result' = [result EXCEPT ![w] = NoPacket]
      /\ UNCHANGED <<poolVars, own, made, sent, draining, bufferPkt, reply, taskFifo,
                     taskIndex, finishedIndex, exit>>
  <2>1. worker[w] = "deliver"
    BY DEF Deliver
  <2> QED BY <2>1 DEF Deliver, Worker, Fetch, Encode, FreeFrame, Leave, apiVars, frameVars
<1>2. \/ UNCHANGED client
      \/ client = "output asleep" /\ client' = "output"
      \/ client = "drain asleep" /\ client' = "drain"
  BY DEF Deliver, SignalFinished
<1>3. PICK i \in Slots, n \in Frames, p \in Packets :
        /\ i = task[w].index /\ n = task[w].frame /\ p = result[w] /\ p.frame = n
        /\ task[w].data = NoData
  BY <1>1 DEF EncoderInv, WorkerInv, FieldsOK
<1>4. task[w] # NoTask
  BY <1>1, TaskFacts
<1>5. /\ \A v \in Workers : v # w =>
           task'[v] = task[v] /\ worker'[v] = worker[v] /\ result'[v] = result[v]
      /\ task'[w] = NoTask /\ worker'[w] = "fetch" /\ result'[w] = NoPacket
      /\ \A j \in Slots : finished'[j] = IF j = i THEN p ELSE finished[j]
  BY <1>1, <1>3 DEF EncoderInv, FieldsOK
<1>6. PoolInv' /\ ContentInv' /\ UNCHANGED <<content, refcount, stage>>
  BY <1>1, <1>2, FramesAlone
<1>7. FieldsOK'
  <2>1. worker' \in [Workers -> {"fetch", "asleep", "encode", "free", "deliver", "gone"}]
    BY <1>1 DEF EncoderInv, FieldsOK
  <2>2. NoTask \in [data : Data \cup {NoData}, index : Slots, frame : {0} \cup Frames]
    <3>1. 0 \in Slots
      BY ConstantFacts DEF Slots
    <3> QED BY <3>1 DEF NoTask
  <2>3. task' \in [Workers -> [data : Data \cup {NoData}, index : Slots,
                               frame : {0} \cup Frames]]
    BY <1>1, <2>2 DEF EncoderInv, FieldsOK
  <2>4. result' \in [Workers -> Packets \cup {NoPacket}]
    BY <1>1 DEF EncoderInv, FieldsOK
  <2>5. finished' \in [Slots -> Packets \cup {NoPacket}]
    BY <1>1, <1>3 DEF EncoderInv, FieldsOK
  <2>6. client' \in {"idle", "replace", "submit", "output", "output asleep", "drain",
                     "drain asleep", "joining", "closed"}
    BY <1>2 DEF EncoderInv, FieldsOK
  <2> QED BY <1>1, <2>1, <2>3, <2>4, <2>5, <2>6 DEF EncoderInv, FieldsOK
<1>8. FramesIntact'
  BY <1>1, <1>5, <1>6 DEF EncoderInv, FramesIntact, NoTask
<1>9. RefsCounted'
  <2>1. \A d \in Data : Encoded(d)' = Encoded(d)
    BY <1>3, <1>5, ConstantFacts DEF Encoded, NoTask
  <2>2. \A d \in Data : Queued(d)' = Queued(d)
    BY <1>1 DEF Queued
  <2>3. \A d \in Data : ClientRefs(d)' = ClientRefs(d)
    BY <1>1, <1>2, <1>6 DEF ClientRefs
  <2> QED BY <1>6, <2>1, <2>2, <2>3, ClientCounts, DataFacts
<1>10. ClientInv'
  BY <1>1, <1>2, <1>6 DEF EncoderInv, ClientInv, Pool!Rests, InSend, InDrain
<1>11. WorkerInv'
  <2>1. \A v \in Workers : Returning(v)' <=> Returning(v)
    BY <1>6 DEF Returning
  <2>2. ~Returning(w)
    BY <1>1 DEF EncoderInv, WorkerInv
  <2> QED BY <1>5, <2>1, <2>2 DEF EncoderInv, WorkerInv
<1>12. RingInv'
  <2>1. /\ n > Taken /\ n <= Fetched /\ Distance(i) = n - Taken - 1
    BY <1>3, <1>4 DEF EncoderInv, RingInv, EncodedInv
  <2>2. Outstanding' = Outstanding /\ Taken' = Taken /\ Fetched' = Fetched
    BY <1>1 DEF Outstanding, Taken, Fetched
  <2>3. \A j \in Slots : Distance(j)' = Distance(j)
    BY <1>1 DEF Distance
  <2>4. RingSize'
    BY <1>2, <2>2 DEF EncoderInv, RingInv, RingSize
  <2>5. QueuedInv'
    <3>1. \A j \in DOMAIN taskFifo : Distance(taskFifo[j].index)' = Distance(taskFifo[j].index)
      <4>1. \A j \in DOMAIN taskFifo : taskFifo[j].index \in Slots
        BY TaskFacts DEF Tasks
      <4> QED BY <1>1, <2>3, <4>1
    <3> QED BY <1>1, <2>2, <3>1 DEF EncoderInv, RingInv, QueuedInv
  <2>6. EncodedInv'
    <3>1. \A v \in Workers : v # w => Distance(task[v].index)' = Distance(task[v].index)
      <4>1. \A v \in Workers : task[v].index \in Slots
        BY DEF EncoderInv, FieldsOK
      <4> QED BY <1>5, <2>3, <4>1
    <3> QED BY <1>5, <2>2, <3>1 DEF EncoderInv, RingInv, EncodedInv
  <2>7. FinishedInv'
    <3>1. \A j \in Slots : finished'[j] # NoPacket =>
            /\ finished'[j].frame > Taken /\ finished'[j].frame <= Fetched
            /\ Distance(j)' = finished'[j].frame - Taken - 1
      BY <1>3, <1>5, <2>1, <2>3 DEF EncoderInv, RingInv, FinishedInv
    <3>2. \A v \in Workers : v # w /\ task[v] # NoTask => task[v].frame # n
      BY <1>3, <1>4 DEF EncoderInv, RingInv, EncodedInv
    <3>3. \A j \in Slots, v \in Workers :
            finished'[j] # NoPacket /\ task'[v] # NoTask => task'[v].frame # finished'[j].frame
      BY <1>3, <1>5, <3>2 DEF EncoderInv, RingInv, FinishedInv
    <3>4. bufferPkt # NoPacket => bufferPkt.code = "frame" /\ bufferPkt.frame <= Taken
      BY DEF EncoderInv, RingInv, FinishedInv
    <3> QED BY <1>1, <2>2, <3>1, <3>3, <3>4 DEF FinishedInv
  <2> QED BY <2>4, <2>5, <2>6, <2>7 DEF RingInv
<1> QED BY <1>6, <1>7, <1>8, <1>9, <1>10, <1>11, <1>12 DEF EncoderInv

-----------------------------------------------------------------------------
(* The invariant *)

(* It holds when the encoder is opened. *)
LEMMA EncoderInit ==
  ASSUME Init
  PROVE  EncoderInv
<1>1. /\ content = [d \in Data |-> 0] /\ refcount = [d \in Data |-> 0]
      /\ home = [d \in Data |-> "unused"] /\ list = <<>>
      /\ poolRefs = 1 /\ uninited = FALSE /\ poolFreed = FALSE
      /\ stage = [t \in Threads |-> "none"] /\ buffer = [t \in Threads |-> NoData]
      /\ own = NoData /\ made = 0 /\ sent = 0 /\ client = "idle"
      /\ draining = FALSE /\ bufferPkt = NoPacket /\ reply = "again" /\ taskFifo = <<>>
      /\ finished = [i \in Slots |-> NoPacket]
      /\ taskIndex = 0 /\ finishedIndex = 0 /\ exit = FALSE
      /\ worker = [w \in Workers |-> "fetch"] /\ task = [w \in Workers |-> NoTask]
      /\ result = [w \in Workers |-> NoPacket]
  BY DEF Init, Pool!Init
<1>2. /\ <<>> \in Seq(Data) /\ <<>> \in Seq(Tasks) /\ Len(<<>>) = 0 /\ DOMAIN <<>> = {}
  BY EmptySeq, LenProperties
<1>3. 0 \in Slots /\ Outstanding = 0 /\ Taken = 0 /\ Fetched = 0
  <2>1. 0 \in Slots
    BY ConstantFacts DEF Slots
  <2>2. Outstanding = 0
    BY <1>1, <2>1, RingArithmetic DEF Outstanding
  <2>3. sent = 0 /\ Len(taskFifo) = 0
    BY <1>1, <1>2
  <2>4. Taken = 0 /\ Fetched = 0
    BY <2>2, <2>3 DEF Taken, Fetched
  <2> QED BY <2>1, <2>2, <2>4
<1>4. PoolInv
  <2>1. Pool!TypeOK
    BY <1>1, <1>2 DEF Pool!TypeOK
  <2>2. MemoryInv /\ Pool!ListedIsFree
    BY <1>1, <1>2 DEF MemoryInv, Releases, Pool!ListedIsFree
  <2>3. Live = {} /\ Returners = {}
    BY <1>1 DEF Live, Returners, Returning
  <2>4. CountInv
    BY <1>1, <2>3, FS_EmptySet, ConstantFacts DEF CountInv
  <2> QED BY <2>1, <2>2, <2>4 DEF PoolInv
<1>5. FieldsOK
  <2>1. NoTask \in [data : Data \cup {NoData}, index : Slots, frame : {0} \cup Frames]
    BY <1>3 DEF NoTask
  <2>2. own \in Data \cup {NoData} /\ made \in {0} \cup Frames /\ sent \in 0 .. made
    BY <1>1
  <2>3. /\ finished \in [Slots -> Packets \cup {NoPacket}]
        /\ worker \in [Workers -> {"fetch", "asleep", "encode", "free", "deliver", "gone"}]
        /\ task \in [Workers -> [data : Data \cup {NoData}, index : Slots,
                                 frame : {0} \cup Frames]]
        /\ result \in [Workers -> Packets \cup {NoPacket}]
    BY <1>1, <2>1
  <2>4. taskFifo \in Seq(Tasks) /\ taskIndex \in Slots /\ finishedIndex \in Slots
    BY <1>1, <1>2, <1>3
  <2> QED BY <1>1, <2>2, <2>3, <2>4 DEF FieldsOK
<1>6. ContentInv /\ ClientInv /\ WorkerInv /\ FramesIntact
  BY <1>1, <1>2, ConstantFacts DEF ContentInv, ClientInv, WorkerInv, Returning,
     Pool!Rests, FramesIntact, NoTask
<1>7. RefsCounted
  <2> SUFFICES ASSUME NEW d \in Data
               PROVE  refcount[d] = Referrers(d)
    BY DEF RefsCounted
  <2>1. Queued(d) = {} /\ Encoded(d) = {} /\ own # d
    BY <1>1, <1>2, ConstantFacts DEF Queued, Encoded, NoTask
  <2> QED BY <1>1, <2>1, FS_EmptySet DEF Referrers
<1>8. RingInv
  BY <1>1, <1>2, <1>3, ConstantFacts DEF RingInv, RingSize, QueuedInv, EncodedInv,
     FinishedInv
<1> QED BY <1>4, <1>5, <1>6, <1>7, <1>8 DEF EncoderInv

(* Every step keeps it. *)
LEMMA EncoderStep ==
  ASSUME EncoderInv, [Next]_vars
  PROVE  EncoderInv'
<1>1. CASE MakeFrame
  BY <1>1, MakeFrameKeeps
<1>2. CASE ChangeFrame
  BY <1>2, ChangeInPlaceKeeps, CopyFrameKeeps DEF ChangeFrame
<1>3. CASE DropFrame
  BY <1>3, DropFrameKeeps
<1>4. CASE UninitPool \/ ContinueBuffer
  BY <1>4, PoolStepKeeps
<1>5. CASE Send
  BY <1>5, SendKeeps
<1>6. CASE SendNull
  BY <1>6, SendNullKeeps
<1>7. CASE Receive
  BY <1>7, ReceiveKeeps
<1>8. CASE Close
  BY <1>8, CloseKeeps
<1>9. CASE ReplaceFrame
  BY <1>9, ReplaceFrameKeeps
<1>10. CASE Submit
  BY <1>10, SubmitKeeps
<1>11. CASE Output
  BY <1>11, OutputNothingKeeps, TakeKeeps DEF Output
<1>12. CASE Join
  BY <1>12, JoinKeeps
<1>13. ASSUME NEW w \in Workers, Worker(w)
       PROVE  EncoderInv'
  <2>1. CASE Fetch(w) /\ UNCHANGED <<finished, client>>
    BY <1>13, <2>1, FetchNothingKeeps, FetchKeeps
  <2>2. CASE Encode(w) /\ UNCHANGED <<finished, client>>
    BY <1>13, <2>2, EncodeKeeps
  <2>3. CASE FreeFrame(w) /\ UNCHANGED <<finished, client>>
    BY <1>13, <2>3, FreeFrameKeeps
  <2>4. CASE Leave(w) /\ UNCHANGED <<finished, client>>
    BY <1>13, <2>4, LeaveKeeps
  <2>5. CASE Deliver(w)
    BY <1>13, <2>5, DeliverKeeps
  <2> QED BY <1>13, <2>1, <2>2, <2>3, <2>4, <2>5 DEF Worker
<1>14. CASE SpuriousWakeup
  BY <1>14, SpuriousWakeupKeeps
<1>15. CASE UNCHANGED vars
  <2>1. UNCHANGED <<poolVars, frameVars, bufferPkt, taskFifo, ringVars, task, result,
                    client, draining, reply, exit, worker>>
    BY <1>15 DEF vars, apiVars, workerVars
  <2>2. FieldsOK'
    BY <2>1 DEF EncoderInv, FieldsOK, frameVars, ringVars
  <2> QED BY <2>1, <2>2, PlacesKeep
<1> QED BY <1>1, <1>2, <1>3, <1>4, <1>5, <1>6, <1>7, <1>8, <1>9, <1>10, <1>11, <1>12,
      <1>13, <1>14, <1>15 DEF Next, ClientStep

(* The pool counts its users: it is freed with the last one. *)
LEMMA PoolGoesWithLastUser ==
  ASSUME EncoderInv
  PROVE  Pool!FreedWithLastUser
<1> DEFINE c == IF stage[Client] = "count" THEN 1 ELSE 0
           u == IF uninited THEN 0 ELSE 1
<1>1. /\ IsFiniteSet(Live) /\ Cardinality(Live) \in Nat
      /\ IsFiniteSet(Returners) /\ Cardinality(Returners) \in Nat
      /\ poolRefs \in Nat
      /\ \A t \in Threads : stage[t] \in {"none", "count", "release", "drop"}
  BY CountFacts DEF EncoderInv
<1>2. /\ Cardinality(Live) = 0 <=> Live = {}
      /\ Cardinality(Returners) = 0 <=> Returners = {}
  BY <1>1, FS_EmptySet
<1>3. /\ poolRefs + c = Cardinality(Live) + Cardinality(Returners) + u
      /\ poolFreed <=> poolRefs = 0
      /\ \A w \in Workers : stage[w] # "count"
      /\ stage[Client] = "count" => ~uninited /\ own # NoData /\ home[own] = "pool"
  BY DEF EncoderInv, PoolInv, CountInv
<1>4. stage[Client] = "count" => Live # {}
  <2> HAVE stage[Client] = "count"
  <2>1. own \in Data /\ refcount[own] > 0
    BY <1>3, DataFacts, HolderFacts
  <2> QED BY <1>3, <2>1 DEF Live
<1>5. poolRefs = 0 => stage[Client] # "count" /\ uninited /\ Live = {} /\ Returners = {}
  BY <1>1, <1>2, <1>3, <1>4
<1>6. stage[Client] # "count" /\ uninited /\ Live = {} /\ Returners = {} => poolRefs = 0
  BY <1>1, <1>2, <1>3
<1>7. stage[Client] # "count" /\ Returners = {} <=> \A t \in Threads : stage[t] = "none"
  BY <1>1, <1>3, ConstantFacts DEF Returners, Returning
<1>8. Pool!InUse <=> Live # {} \/ \E t \in Threads : stage[t] # "none"
  BY DEF Pool!InUse, Pool!Rests, Live
<1> QED BY <1>3, <1>5, <1>6, <1>7, <1>8 DEF Pool!FreedWithLastUser

(* So it holds always. *)
LEMMA EncoderInvariant == Spec => []EncoderInv
<1>1. Init => EncoderInv
  BY EncoderInit
<1>2. EncoderInv /\ [Next]_vars => EncoderInv'
  BY EncoderStep
<1> QED BY <1>1, <1>2, PTL DEF Spec

(***************************************************************************)
(* Whatever the client does with its frames and the workers with theirs,   *)
(* the variables keep their types, and the tasks fit into their FIFO and   *)
(* into the ring.                                                          *)
(***************************************************************************)
THEOREM EncoderTypeCorrect == Spec => []TypeOK
<1>1. EncoderInv => TypeOK
  BY InvTypes
<1> QED BY <1>1, EncoderInvariant, PTL

(***************************************************************************)
(* The client and the workers share the buffers of the frames by their     *)
(* counts alone: every reference is counted (av_buffer_ref, buffer_        *)
(* replace), a frame that was sent is not changed before it is encoded     *)
(* (av_buffer_make_writable), and the pool is freed with its last user     *)
(* (pool_release_buffer, av_buffer_pool_uninit), in whatever order the     *)
(* client and the workers come.                                            *)
(***************************************************************************)
THEOREM EncoderBuffersShared == Spec => []BuffersShared
<1>1. EncoderInv => BuffersShared
  BY PoolGoesWithLastUser DEF EncoderInv, PoolInv, BuffersShared, PoolFreedWithLastUser
<1> QED BY <1>1, EncoderInvariant, PTL

-----------------------------------------------------------------------------
(* The ring implements the pipeline *)

\* The frames and packets that are inside, by where they are.
IsQueued(x)   == \E i \in DOMAIN taskFifo : x = <<taskFifo[i].frame, "busy">>
IsEncoded(x)  == \E w \in Workers : task[w] # NoTask /\ x = <<task[w].frame, "busy">>
IsFinished(x) == \E i \in Slots :
                   finished[i] # NoPacket /\ x = <<finished[i].frame, finished[i].code>>
IsBuffered(x) == bufferPkt # NoPacket /\ x = <<bufferPkt.frame, bufferPkt.code>>

Closing == client \in {"joining", "closed"}

(* What is inside, now and after a step *)
LEMMA InsideIs ==
  /\ Closing => Inside = {}
  /\ ~Closing => \A x : x \in Inside <=>
       IsQueued(x) \/ IsEncoded(x) \/ IsFinished(x) \/ IsBuffered(x)
<1>1. Closing => Inside = {}
  BY DEF Closing, Inside
<1>2. ASSUME ~Closing, NEW x
      PROVE  x \in Inside <=> IsQueued(x) \/ IsEncoded(x) \/ IsFinished(x) \/ IsBuffered(x)
  <2>1. x \in {<<taskFifo[i].frame, "busy">> : i \in DOMAIN taskFifo} <=> IsQueued(x)
    BY DEF IsQueued
  <2>2. x \in {<<task[w].frame, "busy">> : w \in {v \in Workers : task[v] # NoTask}}
          <=> IsEncoded(x)
    BY DEF IsEncoded
  <2>3. x \in {<<p.frame, p.code>> :
                 p \in ({finished[i] : i \in Slots} \cup {bufferPkt}) \ {NoPacket}}
          <=> IsFinished(x) \/ IsBuffered(x)
    BY DEF IsFinished, IsBuffered
  <2> QED BY <1>2, <2>1, <2>2, <2>3 DEF Inside, Closing
<1> QED BY <1>1, <1>2

(* The same, after a step *)
LEMMA InsideIsNext ==
  /\ Closing' => Inside' = {}
  /\ ~Closing' => \A x : x \in Inside' <=>
       IsQueued(x)' \/ IsEncoded(x)' \/ IsFinished(x)' \/ IsBuffered(x)'
<1>1. Closing' => Inside' = {}
  BY DEF Closing, Inside
<1>2. ASSUME ~Closing', NEW x
      PROVE  x \in Inside' <=>
               IsQueued(x)' \/ IsEncoded(x)' \/ IsFinished(x)' \/ IsBuffered(x)'
  <2>1. x \in {<<taskFifo'[i].frame, "busy">> : i \in DOMAIN taskFifo'} <=> IsQueued(x)'
    BY DEF IsQueued
  <2>2. x \in {<<task'[w].frame, "busy">> : w \in {v \in Workers : task'[v] # NoTask}}
          <=> IsEncoded(x)'
    BY DEF IsEncoded
  <2>3. x \in {<<p.frame, p.code>> :
                 p \in ({finished'[i] : i \in Slots} \cup {bufferPkt'}) \ {NoPacket}}
          <=> IsFinished(x)' \/ IsBuffered(x)'
    BY DEF IsFinished, IsBuffered
  <2> QED BY <1>2, <2>1, <2>2, <2>3 DEF Inside, Closing
<1> QED BY <1>1, <1>2

(* A step that changes nothing of what the client may know *)
LEMMA InsideKept ==
  ASSUME Closing' <=> Closing,
         \A x : IsQueued(x)' \/ IsEncoded(x)' <=> IsQueued(x) \/ IsEncoded(x),
         \A x : IsFinished(x)' \/ IsBuffered(x)' <=> IsFinished(x) \/ IsBuffered(x)
  PROVE  Inside' = Inside
<1>1. CASE Closing
  BY <1>1, InsideIs, InsideIsNext
<1>2. CASE ~Closing
  <2>1. \A x : x \in Inside' <=> x \in Inside
    BY <1>2, InsideIs, InsideIsNext
  <2>2. \A x : x \in Inside' => x \in Inside
    BY <2>1
  <2>3. \A x : x \in Inside => x \in Inside'
    BY <2>1
  <2> QED BY <2>2, <2>3
<1> QED BY <1>1, <1>2

(* A packet in avctx->internal->buffer_pkt is older than all that is in the ring. *)
LEMMA InsideFacts ==
  ASSUME EncoderInv
  PROVE  /\ \A x : IsQueued(x) =>
              x[1] \in Frames /\ x[1] > Fetched /\ x[1] <= sent /\ x[2] = "busy"
         /\ \A x : IsEncoded(x) =>
              x[1] \in Frames /\ x[1] > Taken /\ x[1] <= Fetched /\ x[2] = "busy"
         /\ \A x : IsFinished(x) => /\ x[1] \in Frames /\ x[1] > Taken /\ x[1] <= Fetched
                                    /\ x[2] \in {"frame", "error"}
         /\ \A x : IsBuffered(x) => x[1] \in Frames /\ x[1] <= Taken /\ x[2] = "frame"
         /\ \A x, y : IsFinished(x) /\ IsEncoded(y) => x[1] # y[1]
         /\ \A x, y : IsFinished(x) /\ IsFinished(y) /\ x[1] = y[1] => x = y
         /\ \A f \in Frames : f \in Nat
<1>1. /\ sent \in Nat /\ Taken \in Int /\ Fetched \in Int /\ Fetched = sent - Len(taskFifo)
      /\ DOMAIN taskFifo = 1 .. Len(taskFifo) /\ Len(taskFifo) \in Nat
      /\ \A i \in Slots : Distance(i) \in Nat
      /\ \A i, j \in Slots : Distance(i) = Distance(j) => i = j
  BY RingFacts DEF EncoderInv, Fetched
<1>2. \A f \in Frames : f \in Nat
  BY ConstantFacts DEF Frames
<1>3. ASSUME NEW x, IsQueued(x)
      PROVE  x[1] \in Frames /\ x[1] > Fetched /\ x[1] <= sent /\ x[2] = "busy"
  <2>1. PICK i \in DOMAIN taskFifo : x = <<taskFifo[i].frame, "busy">>
    BY <1>3 DEF IsQueued
  <2>2. taskFifo[i].frame \in Frames
    BY TaskFacts DEF Tasks
  <2>3. taskFifo[i].frame = Fetched + i
    BY DEF EncoderInv, RingInv, QueuedInv
  <2>4. Fetched + i > Fetched /\ Fetched + i <= sent
    BY <1>1
  <2> QED BY <2>1, <2>2, <2>3, <2>4
<1>4. ASSUME NEW x, IsEncoded(x)
      PROVE  x[1] \in Frames /\ x[1] > Taken /\ x[1] <= Fetched /\ x[2] = "busy"
  <2>1. PICK w \in Workers : task[w] # NoTask /\ x = <<task[w].frame, "busy">>
    BY <1>4 DEF IsEncoded
  <2>2. task[w].frame > Taken /\ task[w].frame <= Fetched
    BY <2>1 DEF EncoderInv, RingInv, EncodedInv
  <2>3. task[w].frame \in Frames
    <3>1. worker[w] \in {"encode", "free", "deliver"}
      BY <2>1, TaskFacts
    <3> QED BY <3>1 DEF EncoderInv, WorkerInv, Tasks
  <2> QED BY <2>1, <2>2, <2>3
<1>5. ASSUME NEW x, NEW i \in Slots, finished[i] # NoPacket,
             x = <<finished[i].frame, finished[i].code>>
      PROVE  /\ x[1] \in Frames /\ x[1] > Taken /\ x[1] <= Fetched
             /\ x[2] \in {"frame", "error"}
             /\ Distance(i) = x[1] - Taken - 1
             /\ \A w \in Workers : task[w] # NoTask => task[w].frame # x[1]
  <2>1. finished[i] \in Packets
    BY <1>5 DEF EncoderInv, FieldsOK
  <2>2. finished[i].frame \in Frames /\ finished[i].code \in {"frame", "error"}
    BY <2>1 DEF Packets
  <2>3. /\ finished[i].frame > Taken /\ finished[i].frame <= Fetched
        /\ Distance(i) = finished[i].frame - Taken - 1
        /\ \A w \in Workers : task[w] # NoTask => task[w].frame # finished[i].frame
    BY <1>5 DEF EncoderInv, RingInv, FinishedInv
  <2> QED BY <1>5, <2>2, <2>3
<1>6. \A x : IsFinished(x) => /\ x[1] \in Frames /\ x[1] > Taken /\ x[1] <= Fetched
                              /\ x[2] \in {"frame", "error"}
  BY <1>5 DEF IsFinished
<1>7. ASSUME NEW x, IsBuffered(x)
      PROVE  x[1] \in Frames /\ x[1] <= Taken /\ x[2] = "frame"
  <2>1. bufferPkt # NoPacket /\ x = <<bufferPkt.frame, bufferPkt.code>>
    BY <1>7 DEF IsBuffered
  <2>2. bufferPkt \in Packets
    BY <2>1 DEF EncoderInv, FieldsOK
  <2>3. bufferPkt.code = "frame" /\ bufferPkt.frame <= Taken
    BY <2>1 DEF EncoderInv, RingInv, FinishedInv
  <2> QED BY <2>1, <2>2, <2>3 DEF Packets
<1>8. \A x, y : IsFinished(x) /\ IsEncoded(y) => x[1] # y[1]
  <2>1. ASSUME NEW x, NEW y, IsFinished(x), IsEncoded(y)
        PROVE  x[1] # y[1]
    <3>1. PICK i \in Slots :
            finished[i] # NoPacket /\ x = <<finished[i].frame, finished[i].code>>
      BY <2>1 DEF IsFinished
    <3>2. PICK w \in Workers : task[w] # NoTask /\ y = <<task[w].frame, "busy">>
      BY <2>1 DEF IsEncoded
    <3>3. task[w].frame # x[1]
      BY <1>5, <3>1, <3>2
    <3> QED BY <3>2, <3>3
  <2> QED BY <2>1
<1>9. \A x, y : IsFinished(x) /\ IsFinished(y) /\ x[1] = y[1] => x = y
  <2>1. ASSUME NEW x, NEW y, IsFinished(x), IsFinished(y), x[1] = y[1]
        PROVE  x = y
    <3>1. PICK i \in Slots :
            finished[i] # NoPacket /\ x = <<finished[i].frame, finished[i].code>>
      BY <2>1 DEF IsFinished
    <3>2. PICK j \in Slots :
            finished[j] # NoPacket /\ y = <<finished[j].frame, finished[j].code>>
      BY <2>1 DEF IsFinished
    <3>3. Distance(i) = Distance(j)
      BY <1>5, <2>1, <3>1, <3>2
    <3>4. i = j
      BY <1>1, <3>3
    <3> QED BY <3>1, <3>2, <3>4
  <2> QED BY <2>1
<1> QED BY <1>2, <1>3, <1>4, <1>6, <1>7, <1>8, <1>9

(* Each frame is inside once. *)
LEMMA InsideOnce ==
  ASSUME EncoderInv, ~Closing
  PROVE  /\ \A x \in Inside : x[1] \in Frames /\ x[1] <= sent
         /\ \A x, y \in Inside : x[1] = y[1] => x = y
         /\ bufferPkt = NoPacket => \A x \in Inside : x[1] > Taken
<1>1. /\ sent \in Nat /\ Taken \in Int /\ Fetched \in Int /\ Fetched <= sent
      /\ Taken <= Fetched /\ \A f \in Frames : f \in Nat
  <2>1. /\ sent \in Nat /\ Taken \in Int /\ Fetched \in Int /\ Fetched = sent - Len(taskFifo)
        /\ Len(taskFifo) \in Nat
    BY RingFacts DEF EncoderInv, Fetched
  <2>2. Taken <= Fetched
    BY <2>1 DEF EncoderInv, RingInv, RingSize
  <2> QED BY <2>1, <2>2, InsideFacts
<1>2. \A x \in Inside : IsQueued(x) \/ IsEncoded(x) \/ IsFinished(x) \/ IsBuffered(x)
  BY InsideIs
<1>3. \A x \in Inside : x[1] \in Frames /\ x[1] <= sent
  <2> TAKE x \in Inside
  <2>1. CASE IsQueued(x)
    BY <2>1, InsideFacts
  <2>2. CASE IsEncoded(x)
    BY <1>1, <2>2, InsideFacts
  <2>3. CASE IsFinished(x)
    BY <1>1, <2>3, InsideFacts
  <2>4. CASE IsBuffered(x)
    BY <1>1, <2>4, InsideFacts
  <2> QED BY <1>2, <2>1, <2>2, <2>3, <2>4
<1>4. ASSUME NEW x \in Inside, NEW y \in Inside, x[1] = y[1]
      PROVE  x = y
  <2>1. x[1] \in Nat /\ y[1] \in Nat
    BY <1>1, <1>3
  <2>2. CASE IsFinished(x)
    <3>1. x[1] > Taken /\ x[1] <= Fetched
      BY <2>2, InsideFacts
    <3>2. ~IsQueued(y) /\ ~IsBuffered(y)
      BY <1>1, <1>4, <2>1, <3>1, InsideFacts
    <3>3. ~IsEncoded(y)
      BY <1>4, <2>2, InsideFacts
    <3> QED BY <1>2, <1>4, <2>2, <3>2, <3>3, InsideFacts
  <2>3. CASE IsFinished(y)
    <3>1. y[1] > Taken /\ y[1] <= Fetched
      BY <2>3, InsideFacts
    <3>2. ~IsQueued(x) /\ ~IsBuffered(x)
      BY <1>1, <1>4, <2>1, <3>1, InsideFacts
    <3>3. ~IsEncoded(x)
      BY <1>4, <2>3, InsideFacts
    <3> QED BY <1>2, <1>4, <2>3, <3>2, <3>3, InsideFacts
  <2>4. CASE IsBuffered(x)
    <3>1. x[1] <= Taken
      BY <2>4, InsideFacts
    <3>2. ~IsQueued(y) /\ ~IsEncoded(y)
      BY <1>1, <1>4, <2>1, <3>1, InsideFacts
    <3> QED BY <1>2, <2>3, <2>4, <3>2 DEF IsBuffered
  <2>5. CASE IsBuffered(y)
    <3>1. y[1] <= Taken
      BY <2>5, InsideFacts
    <3>2. ~IsQueued(x) /\ ~IsEncoded(x)
      BY <1>1, <1>4, <2>1, <3>1, InsideFacts
    <3> QED BY <1>2, <2>2, <2>5, <3>2 DEF IsBuffered
  <2>6. CASE (IsQueued(x) \/ IsEncoded(x)) /\ (IsQueued(y) \/ IsEncoded(y))
    <3>1. \E n : x = <<n, "busy">>
      BY <2>6 DEF IsQueued, IsEncoded
    <3>2. \E n : y = <<n, "busy">>
      BY <2>6 DEF IsQueued, IsEncoded
    <3> QED BY <1>4, <3>1, <3>2
  <2> QED BY <1>2, <2>2, <2>3, <2>4, <2>5, <2>6
<1>5. ASSUME bufferPkt = NoPacket, NEW x \in Inside
      PROVE  x[1] > Taken
  <2>1. ~IsBuffered(x)
    BY <1>5 DEF IsBuffered
  <2>2. x[1] \in Nat
    BY <1>1, <1>3
  <2>3. CASE IsQueued(x)
    BY <1>1, <2>2, <2>3, InsideFacts
  <2> QED BY <1>2, <2>1, <2>3, InsideFacts
<1> QED BY <1>3, <1>4, <1>5

(* What is inside fits into the ring, when no packet waits for the client. *)
LEMMA InsideFits ==
  ASSUME EncoderInv, ~Closing, bufferPkt = NoPacket
  PROVE  IsFiniteSet(Inside) /\ Cardinality(Inside) \in Nat /\ Cardinality(Inside) <= Outstanding
<1>1. sent \in Nat /\ Outstanding \in Nat /\ Taken \in Int /\ Taken = sent - Outstanding
  BY RingFacts DEF EncoderInv, Taken
<1>2. PICK S : S = Taken + 1 .. sent
  OBVIOUS
<1>3. IsFiniteSet(S) /\ Cardinality(S) = Outstanding
  <2>1. Taken + 1 \in Int /\ sent \in Int
    BY <1>1
  <2>2. IsFiniteSet(S) /\ Cardinality(S) = IF Taken + 1 > sent THEN 0 ELSE sent - (Taken + 1) + 1
    BY <1>2, <2>1, FS_Interval
  <2> QED BY <1>1, <2>2
<1> DEFINE number == [x \in Inside |-> x[1]]
<1>4. number \in Injection(Inside, S)
  <2>1. \A x \in Inside : x[1] \in S
    <3> TAKE x \in Inside
    <3>1. x[1] \in Frames /\ x[1] <= sent /\ x[1] > Taken
      BY InsideOnce
    <3>2. x[1] \in Nat
      BY <3>1, InsideFacts
    <3> QED BY <1>1, <1>2, <3>1, <3>2
  <2>2. number \in [Inside -> S]
    BY <2>1
  <2>3. \A x, y \in Inside : number[x] = number[y] => x = y
    BY InsideOnce
  <2> HIDE DEF number
  <2> QED BY <2>2, <2>3 DEF Injection, IsInjective
<1>5. IsFiniteSet(Inside) /\ Cardinality(Inside) <= Cardinality(S)
  <2> HIDE DEF number
  <2> QED BY <1>3, <1>4, FS_Injection
<1> QED BY <1>3, <1>5, FS_CardinalityType

(* The module of the pipeline counts as this one does. *)
LEMMA SameCount == \A S : Pipeline!Cardinality(S) = Cardinality(S)
BY DEF Pipeline!Cardinality, Cardinality

\* A step of the pipeline, or none
PipelineStep == [Pipeline!Next]_(Pipeline!vars)

(* What changes neither what is inside nor the answer is no step of the pipeline. *)
LEMMA StutterIsPipelineStep ==
  ASSUME Inside' = Inside, UNCHANGED reply
  PROVE  PipelineStep
BY DEF PipelineStep, Pipeline!vars

(* A frame that is submitted is accepted. *)
LEMMA SubmitIsPipelineStep ==
  ASSUME EncoderInv, EncoderInv', Submit
  PROVE  PipelineStep
<1>1. /\ client = "submit" /\ client' = "output" /\ sent' = made
      /\ taskFifo' = Append(taskFifo, [data |-> own, index |-> taskIndex, frame |-> made])
      /\ UNCHANGED <<bufferPkt, reply, finished, task>>
  BY DEF Submit, apiVars
<1>2. made = sent + 1 /\ bufferPkt = NoPacket /\ Outstanding <= NbThreads
  BY <1>1 DEF EncoderInv, ClientInv, RingInv, RingSize, InSend
<1>3. sent \in Nat /\ made \in Frames
  <2>1. sent \in Nat /\ made \in {0} \cup Frames
    BY RingFacts DEF EncoderInv, FieldsOK
  <2> QED BY <1>2, <2>1
<1>4. PICK new : new = <<made, "busy">>
  OBVIOUS
<1>5. PICK n \in Nat : n = Len(taskFifo)
  BY RingFacts DEF EncoderInv
<1>6. /\ DOMAIN taskFifo = 1 .. n /\ DOMAIN taskFifo' = 1 .. n + 1
      /\ \A i \in 1 .. n : taskFifo'[i] = taskFifo[i]
      /\ taskFifo'[n + 1].frame = made
  <2>1. taskFifo \in Seq(Tasks) /\ taskFifo' \in Seq(Tasks)
    BY DEF EncoderInv, FieldsOK
  <2> DEFINE t == [data |-> own, index |-> taskIndex, frame |-> made]
  <2>2. taskFifo' = Append(taskFifo, t) /\ t.frame = made
    BY <1>1
  <2> HIDE DEF t
  <2>3. /\ \A i \in 1 .. n : taskFifo'[i] = taskFifo[i]
        /\ taskFifo'[n + 1] = t /\ Len(taskFifo') = n + 1
    BY <1>5, <2>1, <2>2, AppendProperties
  <2> QED BY <1>5, <2>1, <2>2, <2>3, LenProperties
<1>7. \A x : IsQueued(x)' <=> IsQueued(x) \/ x = new
  BY <1>4, <1>5, <1>6 DEF IsQueued
<1>8. \A x : /\ IsEncoded(x)' <=> IsEncoded(x)
             /\ IsFinished(x)' <=> IsFinished(x)
             /\ IsBuffered(x)' <=> IsBuffered(x)
  BY <1>1 DEF IsEncoded, IsFinished, IsBuffered
<1>9. ~Closing /\ ~Closing'
  BY <1>1 DEF Closing
<1>10. Inside' = Inside \cup {new}
  <2>1. \A x : x \in Inside' <=> x \in Inside \/ x = new
    BY <1>7, <1>8, <1>9, InsideIs, InsideIsNext
  <2> QED BY <2>1
<1>11. \A x \in Inside : x[1] < made
  <2> TAKE x \in Inside
  <2>1. x[1] \in Frames /\ x[1] <= sent
    BY <1>9, InsideOnce
  <2>2. x[1] \in Nat
    BY <2>1, InsideFacts
  <2> QED BY <1>2, <1>3, <2>1, <2>2
<1>12. Pipeline!Cardinality(Inside) < NbThreads + 1
  BY <1>2, <1>9, InsideFits, SameCount, ConstantFacts, RingFacts DEF EncoderInv
<1>13. Pipeline!Accept(made)
  BY <1>1, <1>4, <1>10, <1>11, <1>12 DEF Pipeline!Accept
<1> QED BY <1>3, <1>13 DEF PipelineStep, Pipeline!Next, Pipeline!Step

(* A frame that cannot be sent is refused; what else the client does with its frames is
   no step of the pipeline. *)
LEMMA FrameIsPipelineStep ==
  ASSUME \/ MakeFrame \/ ChangeFrame \/ ReplaceFrame \/ DropFrame \/ UninitPool
         \/ ContinueBuffer \/ Send
  PROVE  PipelineStep
<1>1. /\ UNCHANGED <<bufferPkt, taskFifo, finished, task>>
      /\ \/ UNCHANGED client
         \/ client = "idle" /\ client' \in {"replace", "submit"}
         \/ client = "replace" /\ client' = "idle"
      /\ UNCHANGED reply \/ reply' = "error"
  BY DEF MakeFrame, ChangeFrame, ReplaceFrame, DropFrame, UninitPool, ContinueBuffer,
     Send, Ready, apiVars, ringVars, workerVars
<1>2. Inside' = Inside
  <2>1. Closing' <=> Closing
    BY <1>1 DEF Closing
  <2>2. \A x : /\ IsQueued(x)' <=> IsQueued(x)
               /\ IsEncoded(x)' <=> IsEncoded(x)
               /\ IsFinished(x)' <=> IsFinished(x)
               /\ IsBuffered(x)' <=> IsBuffered(x)
    BY <1>1 DEF IsQueued, IsEncoded, IsFinished, IsBuffered
  <2> QED BY <2>1, <2>2, InsideKept
<1>3. CASE UNCHANGED reply
  BY <1>2, <1>3, StutterIsPipelineStep
<1>4. CASE reply' = "error"
  <2>1. Pipeline!Refuse
    BY <1>2, <1>4 DEF Pipeline!Refuse
  <2> QED BY <2>1 DEF PipelineStep, Pipeline!Next, Pipeline!Step
<1> QED BY <1>1, <1>3, <1>4

(* The oldest packet leaves, when it goes from where it is to the client. *)
LEMMA GiveIsPipelineStep ==
  ASSUME EncoderInv, ~Closing, ~Closing', NEW x \in Inside,
         x[2] \in {"frame", "error"}, reply' = x[2],
         \A y \in Inside : x[1] <= y[1],
         \A y : y \in Inside' <=> y \in Inside /\ y # x
  PROVE  PipelineStep
<1>1. Inside' = Inside \ {x}
  OBVIOUS
<1>2. Pipeline!Give(x)
  BY <1>1 DEF Pipeline!Give, Pipeline!Oldest, Pipeline!Results
<1> QED BY <1>2 DEF PipelineStep, Pipeline!Next, Pipeline!Step

(* avcodec_receive_packet gives the packet that waits, or the pipeline fills. *)
LEMMA ReceiveIsPipelineStep ==
  ASSUME EncoderInv, EncoderInv', Receive
  PROVE  PipelineStep
<1>1. client = "idle" /\ UNCHANGED <<taskFifo, finished, task>>
  BY DEF Receive, Ready, ringVars, workerVars
<1>2. ~Closing /\ ~Closing'
  BY <1>1 DEF Closing, Receive
<1>3. \A x : /\ IsQueued(x)' <=> IsQueued(x)
             /\ IsEncoded(x)' <=> IsEncoded(x)
             /\ IsFinished(x)' <=> IsFinished(x)
  BY <1>1 DEF IsQueued, IsEncoded, IsFinished
<1>4. CASE bufferPkt # NoPacket
  <2>1. reply' = "frame" /\ bufferPkt' = NoPacket
    BY <1>4 DEF Receive
  <2>2. PICK x : x = <<bufferPkt.frame, bufferPkt.code>>
    OBVIOUS
  <2>3. IsBuffered(x) /\ \A y : (IsBuffered(y) <=> y = x) /\ ~IsBuffered(y)'
    BY <1>4, <2>1, <2>2 DEF IsBuffered
  <2>4. x \in Inside /\ x[1] \in Frames /\ x[1] <= Taken /\ x[2] = "frame"
    BY <1>2, <2>3, InsideIs, InsideFacts
  <2>5. Taken \in Int /\ Fetched \in Int /\ Taken <= Fetched /\ \A f \in Frames : f \in Nat
    BY RingFacts, InsideFacts DEF EncoderInv, RingInv, RingSize
  <2>6. \A y \in Inside : ~IsBuffered(y) => x[1] < y[1]
    <3> SUFFICES ASSUME NEW y \in Inside, ~IsBuffered(y)
                 PROVE  x[1] < y[1]
      OBVIOUS
    <3>1. y[1] \in Nat
      BY <1>2, <2>5, InsideOnce
    <3>2. IsQueued(y) \/ IsEncoded(y) \/ IsFinished(y)
      BY <1>2, InsideIs
    <3>3. y[1] > Taken
      BY <2>5, <3>1, <3>2, InsideFacts
    <3> QED BY <2>4, <2>5, <3>1, <3>3
  <2>7. \A y \in Inside : x[1] <= y[1]
    BY <2>3, <2>4, <2>5, <2>6, InsideOnce, <1>2
  <2>8. \A y : IsQueued(y) \/ IsEncoded(y) \/ IsFinished(y) => y # x
    <3>1. \A y : IsQueued(y) \/ IsEncoded(y) \/ IsFinished(y) => y[1] > Taken \/ y[1] > Fetched
      BY InsideFacts
    <3> QED BY <2>4, <2>5, <3>1
  <2>9. \A y : y \in Inside' <=> y \in Inside /\ y # x
    BY <1>2, <1>3, <2>3, <2>8, InsideIs, InsideIsNext
  <2> QED BY <1>2, <2>1, <2>4, <2>7, <2>9, GiveIsPipelineStep
<1>5. CASE bufferPkt = NoPacket
  <2>1. UNCHANGED bufferPkt
    BY <1>5 DEF Receive
  <2>2. Inside' = Inside
    <3>1. \A x : IsBuffered(x)' <=> IsBuffered(x)
      BY <2>1 DEF IsBuffered
    <3> QED BY <1>2, <1>3, <3>1, InsideKept
  <2>3. CASE UNCHANGED reply
    BY <2>2, <2>3, StutterIsPipelineStep
  <2>4. CASE reply' = "again"
    <3>1. Outstanding <= NbThreads
      BY <1>1 DEF EncoderInv, RingInv, RingSize
    <3>2. Pipeline!Cardinality(Inside) <= NbThreads
      BY <1>2, <1>5, <3>1, InsideFits, SameCount, ConstantFacts, RingFacts DEF EncoderInv
    <3>3. Pipeline!Fill
      BY <2>2, <2>4, <3>2 DEF Pipeline!Fill
    <3> QED BY <3>3 DEF PipelineStep, Pipeline!Next, Pipeline!Step
  <2> QED BY <1>5, <2>3, <2>4 DEF Receive
<1> QED BY <1>4, <1>5

(* The close discards what is inside. *)
LEMMA CloseIsPipelineStep ==
  ASSUME Close \/ Join
  PROVE  PipelineStep
<1>1. CASE Close
  <2>1. Closing' /\ reply' = "flushed"
    BY <1>1 DEF Close, Closing
  <2>2. Inside' = {}
    BY <2>1, InsideIsNext
  <2>3. Pipeline!Discard
    BY <2>1, <2>2 DEF Pipeline!Discard
  <2> QED BY <2>3 DEF PipelineStep, Pipeline!Next, Pipeline!Step
<1>2. CASE Join
  <2>1. Closing /\ Closing' /\ UNCHANGED reply
    BY <1>2 DEF Join, Closing, apiVars
  <2>2. Inside' = Inside
    BY <2>1, InsideIs, InsideIsNext
  <2> QED BY <2>1, <2>2, StutterIsPipelineStep
<1> QED BY <1>1, <1>2

(* Output: without a packet the end of the stream, or nothing yet. *)
LEMMA OutputNothingIsPipelineStep ==
  ASSUME EncoderInv, Output, (OutputNothing /\ client' = "idle") \/ AwaitOutput,
         UNCHANGED <<bufferPkt, ringVars>>
  PROVE  PipelineStep
<1>1. /\ client \in {"output", "drain"}
      /\ client' \in {"idle", "output asleep", "drain asleep"}
      /\ UNCHANGED <<taskFifo, task, finished, bufferPkt>>
  BY DEF Output, AwaitOutput, ringVars, workerVars
<1>2. ~Closing /\ ~Closing'
  BY <1>1 DEF Closing
<1>3. Inside' = Inside
  <2>1. \A x : /\ IsQueued(x)' <=> IsQueued(x)
               /\ IsEncoded(x)' <=> IsEncoded(x)
               /\ IsFinished(x)' <=> IsFinished(x)
               /\ IsBuffered(x)' <=> IsBuffered(x)
    BY <1>1 DEF IsQueued, IsEncoded, IsFinished, IsBuffered
  <2> QED BY <1>2, <2>1, InsideKept
<1>4. CASE UNCHANGED reply
  BY <1>3, <1>4, StutterIsPipelineStep
<1>5. CASE Outstanding = 0 /\ reply' = "eof"
  <2>1. bufferPkt = NoPacket
    BY <1>1 DEF EncoderInv, ClientInv, InSend, InDrain
  <2>2. IsFiniteSet(Inside) /\ Cardinality(Inside) \in Nat /\ Cardinality(Inside) <= 0
    BY <1>2, <1>5, <2>1, InsideFits
  <2>3. Inside = {}
    BY <2>2, FS_EmptySet
  <2>4. Pipeline!EndOfStream
    BY <1>3, <1>5, <2>3 DEF Pipeline!EndOfStream
  <2> QED BY <2>4 DEF PipelineStep, Pipeline!Next, Pipeline!Step
<1> QED BY <1>1, <1>4, <1>5 DEF OutputNothing, AwaitOutput

(* Output: the packet that is taken is the oldest; it goes to the client, or waits for it. *)
LEMMA TakeIsPipelineStep ==
  ASSUME EncoderInv, Output, Take, client' = "idle"
  PROVE  PipelineStep
<1>1. /\ client \in {"output", "drain"}
      /\ UNCHANGED <<taskFifo, task>>
      /\ Outstanding > 0 /\ Oldest # NoPacket
      /\ finished' = [finished EXCEPT ![finishedIndex] = NoPacket]
  BY DEF Output, Take, workerVars
<1>2. PICK k \in Slots : k = finishedIndex
  BY DEF EncoderInv, FieldsOK
<1>3. PICK p \in Packets : p = finished[k]
  BY <1>1, <1>2 DEF Oldest, EncoderInv, FieldsOK
<1>4. \/ reply' = p.code /\ UNCHANGED bufferPkt
      \/ bufferPkt' = p /\ UNCHANGED reply
  <2>1. p.code \in {"frame", "error"} /\ Oldest = p
    BY <1>2, <1>3 DEF Oldest, Packets
  <2>2. CASE Oldest.code = "error"
    BY <2>1, <2>2 DEF Take
  <2>3. CASE Oldest.code # "error" /\ client = "drain"
    BY <2>1, <2>3 DEF Take
  <2>4. CASE Oldest.code # "error" /\ client # "drain"
    BY <2>1, <2>4 DEF Take
  <2> QED BY <2>2, <2>3, <2>4
<1>5. bufferPkt = NoPacket
  BY <1>1 DEF EncoderInv, ClientInv, InSend, InDrain
<1>6. ~Closing /\ ~Closing'
  BY <1>1 DEF Closing
<1>7. \A i \in Slots : finished'[i] = IF i = k THEN NoPacket ELSE finished[i]
  BY <1>1, <1>2 DEF EncoderInv, FieldsOK
<1>8. PICK x : x = <<p.frame, p.code>>
  OBVIOUS
<1>9. p # NoPacket /\ p.frame \in Frames /\ p.code \in {"frame", "error"}
  BY <1>3, TaskFacts DEF Packets
<1>10. IsFinished(x)
  BY <1>3, <1>8, <1>9 DEF IsFinished
<1>11. \A y : IsFinished(y)' <=> IsFinished(y) /\ y # x
  <2>1. ASSUME NEW y, IsFinished(y)'
        PROVE  IsFinished(y) /\ y # x
    <3>1. PICK i \in Slots :
            finished'[i] # NoPacket /\ y = <<finished'[i].frame, finished'[i].code>>
      BY <2>1 DEF IsFinished
    <3>2. i # k /\ finished'[i] = finished[i]
      BY <1>7, <3>1
    <3>3. IsFinished(y)
      BY <3>1, <3>2 DEF IsFinished
    <3>4. y[1] # x[1]
      <4>1. Distance(i) # Distance(k)
        BY <3>2, RingFacts DEF EncoderInv
      <4>2. Distance(i) = y[1] - Taken - 1 /\ Distance(k) = x[1] - Taken - 1
        BY <1>3, <1>8, <1>9, <3>1, <3>2 DEF EncoderInv, RingInv, FinishedInv
      <4> QED BY <4>1, <4>2
    <3> QED BY <3>3, <3>4
  <2>2. ASSUME NEW y, IsFinished(y), y # x
        PROVE  IsFinished(y)'
    <3>1. PICK i \in Slots :
            finished[i] # NoPacket /\ y = <<finished[i].frame, finished[i].code>>
      BY <2>2 DEF IsFinished
    <3>2. i # k
      BY <1>3, <1>8, <2>2, <3>1
    <3> QED BY <1>7, <3>1, <3>2 DEF IsFinished
  <2> QED BY <2>1, <2>2
<1>12. \A y : /\ IsQueued(y)' <=> IsQueued(y)
              /\ IsEncoded(y)' <=> IsEncoded(y)
              /\ ~IsBuffered(y)
  BY <1>1, <1>5 DEF IsQueued, IsEncoded, IsBuffered
<1>13. CASE bufferPkt' = p /\ UNCHANGED reply
  <2>1. \A y : IsBuffered(y)' <=> y = x
    BY <1>8, <1>9, <1>13 DEF IsBuffered
  <2>2. Inside' = Inside
    BY <1>6, <1>10, <1>11, <1>12, <2>1, InsideKept
  <2> QED BY <1>13, <2>2, StutterIsPipelineStep
<1>14. CASE reply' = p.code /\ UNCHANGED bufferPkt
  <2>1. \A y : ~IsBuffered(y)'
    BY <1>5, <1>14 DEF IsBuffered
  <2>2. x \in Inside
    BY <1>6, <1>10, InsideIs
  <2>3. \A y : IsQueued(y) \/ IsEncoded(y) => y # x
    <3>1. x[2] # "busy"
      BY <1>8, <1>9
    <3> QED BY <3>1, InsideFacts
  <2>4. \A y : y \in Inside' <=> y \in Inside /\ y # x
    BY <1>6, <1>11, <1>12, <2>1, <2>3, InsideIs, InsideIsNext
  <2>5. \A y \in Inside : x[1] <= y[1]
    <3> TAKE y \in Inside
    <3>1. x[1] \in Nat /\ y[1] \in Nat /\ y[1] > Taken
      BY <1>5, <1>6, <2>2, InsideOnce, InsideFacts
    <3>2. x[1] = Taken + 1
      <4>1. Distance(k) = 0 /\ Taken \in Int
        BY <1>2, RingFacts DEF EncoderInv
      <4>2. Distance(k) = p.frame - Taken - 1
        BY <1>3, <1>9 DEF EncoderInv, RingInv, FinishedInv
      <4>3. x[1] = p.frame
        BY <1>8
      <4> QED BY <3>1, <4>1, <4>2, <4>3
    <3>3. Taken \in Int
      BY RingFacts DEF EncoderInv
    <3> QED BY <3>1, <3>2, <3>3
  <2>6. x[2] \in {"frame", "error"} /\ reply' = x[2]
    BY <1>8, <1>9, <1>14
  <2> QED BY <1>6, <2>2, <2>4, <2>5, <2>6, GiveIsPipelineStep
<1> QED BY <1>4, <1>13, <1>14

(* A worker that takes a task, encodes, or waits changes nothing for the client. *)
LEMMA FetchIsPipelineStep ==
  ASSUME EncoderInv, NEW w \in Workers, Worker(w), Fetch(w), UNCHANGED <<finished, client>>
  PROVE  PipelineStep
<1>1. UNCHANGED <<bufferPkt, reply, finished, client>>
  BY DEF Worker, apiVars
<1>2. (Closing' <=> Closing) /\ \A x : /\ IsFinished(x)' <=> IsFinished(x)
                                       /\ IsBuffered(x)' <=> IsBuffered(x)
  BY <1>1 DEF Closing, IsFinished, IsBuffered
<1>3. CASE taskFifo = <<>>
  <2>1. UNCHANGED <<taskFifo, task>>
    BY <1>3 DEF Fetch
  <2>2. \A x : (IsQueued(x)' <=> IsQueued(x)) /\ (IsEncoded(x)' <=> IsEncoded(x))
    BY <2>1 DEF IsQueued, IsEncoded
  <2> QED BY <1>1, <1>2, <2>2, InsideKept, StutterIsPipelineStep
<1>4. CASE taskFifo # <<>>
  <2>1. /\ worker[w] = "fetch" /\ task' = [task EXCEPT ![w] = Head(taskFifo)]
        /\ taskFifo' = Tail(taskFifo)
    BY <1>4 DEF Fetch
  <2>2. PICK n \in Nat : n = Len(taskFifo)
    BY RingFacts DEF EncoderInv
  <2>3. /\ n > 0 /\ DOMAIN taskFifo = 1 .. n /\ DOMAIN taskFifo' = 1 .. n - 1
        /\ \A i \in 1 .. n - 1 : taskFifo'[i] = taskFifo[i + 1]
        /\ Head(taskFifo) = taskFifo[1]
    <3>1. taskFifo \in Seq(Tasks)
      BY DEF EncoderInv, FieldsOK
    <3>2. n > 0 /\ DOMAIN taskFifo = 1 .. n
      BY <1>4, <2>2, <3>1, LenProperties, EmptySeq
    <3>3. /\ taskFifo' \in Seq(Tasks) /\ Len(taskFifo') = n - 1
          /\ \A i \in 1 .. Len(taskFifo') : taskFifo'[i] = taskFifo[i + 1]
          /\ Head(taskFifo) = taskFifo[1]
      BY <1>4, <2>1, <2>2, <3>1, HeadTailProperties
    <3> QED BY <3>2, <3>3, LenProperties
  <2>4. PICK first \in Tasks : first = taskFifo[1]
    BY <2>3, TaskFacts
  <2>5. /\ first # NoTask /\ task[w] = NoTask
        /\ \A v \in Workers : task'[v] = IF v = w THEN first ELSE task[v]
    BY <2>1, <2>3, <2>4, TaskFacts DEF EncoderInv, FieldsOK
  <2>6. \A x : IsQueued(x) <=> IsQueued(x)' \/ x = <<first.frame, "busy">>
    <3>1. ASSUME NEW x, IsQueued(x)
          PROVE  IsQueued(x)' \/ x = <<first.frame, "busy">>
      <4>1. PICK i \in 1 .. n : x = <<taskFifo[i].frame, "busy">>
        BY <2>3, <3>1 DEF IsQueued
      <4>2. CASE i = 1
        BY <2>4, <4>1, <4>2
      <4>3. CASE i # 1
        <5>1. i - 1 \in 1 .. n - 1 /\ (i - 1) + 1 = i
          BY <4>3
        <5> QED BY <2>3, <4>1, <5>1 DEF IsQueued
      <4> QED BY <4>2, <4>3
    <3>2. ASSUME NEW x, IsQueued(x)'
          PROVE  IsQueued(x)
      <4>1. PICK i \in 1 .. n - 1 : x = <<taskFifo'[i].frame, "busy">>
        BY <2>3, <3>2 DEF IsQueued
      <4>2. i + 1 \in 1 .. n /\ x = <<taskFifo[i + 1].frame, "busy">>
        BY <2>3, <4>1
      <4> QED BY <2>3, <4>2 DEF IsQueued
    <3>3. IsQueued(<<first.frame, "busy">>)
      BY <2>3, <2>4 DEF IsQueued
    <3> QED BY <3>1, <3>2, <3>3
  <2>7. \A x : IsEncoded(x)' <=> IsEncoded(x) \/ x = <<first.frame, "busy">>
    BY <2>5 DEF IsEncoded
  <2> QED BY <1>1, <1>2, <2>6, <2>7, InsideKept, StutterIsPipelineStep
<1> QED BY <1>3, <1>4

(* The same of one that encodes, gives its frame back, or leaves *)
LEMMA EncodeIsPipelineStep ==
  ASSUME EncoderInv, NEW w \in Workers, Worker(w), Encode(w) \/ FreeFrame(w) \/ Leave(w),
         UNCHANGED <<finished, client>>
  PROVE  PipelineStep
<1>1. UNCHANGED <<bufferPkt, reply, finished, client, taskFifo>>
  BY DEF Worker, Encode, FreeFrame, Leave, apiVars
<1>2. \A v \in Workers : /\ task'[v].frame = task[v].frame
                         /\ task'[v] = NoTask <=> task[v] = NoTask
  <2>1. CASE UNCHANGED task
    BY <2>1
  <2>2. CASE worker[w] = "encode" /\ task' = [task EXCEPT ![w].data = NoData]
    <3>1. task[w] \in Tasks /\ task[w] # NoTask
      BY <2>2, TaskFacts
    <3>2. task'[w].frame = task[w].frame /\ task[w].frame \in Frames
      BY <2>2, <3>1 DEF EncoderInv, FieldsOK, Tasks
    <3>3. task'[w] # NoTask
      BY <3>2, ConstantFacts DEF NoTask, Frames
    <3>4. \A v \in Workers : v # w => task'[v] = task[v]
      BY <2>2 DEF EncoderInv, FieldsOK
    <3> QED BY <3>1, <3>2, <3>3, <3>4
  <2> QED BY <2>1, <2>2 DEF Encode, FreeFrame, Leave
<1>3. \A x : /\ IsQueued(x)' <=> IsQueued(x)
             /\ IsEncoded(x)' <=> IsEncoded(x)
             /\ IsFinished(x)' <=> IsFinished(x)
             /\ IsBuffered(x)' <=> IsBuffered(x)
  BY <1>1, <1>2 DEF IsQueued, IsEncoded, IsFinished, IsBuffered
<1>4. Closing' <=> Closing
  BY <1>1 DEF Closing
<1> QED BY <1>1, <1>3, <1>4, InsideKept, StutterIsPipelineStep

(* A packet that is delivered finishes its frame, where it stands in the order. *)
LEMMA DeliverIsPipelineStep ==
  ASSUME EncoderInv, NEW w \in Workers, Worker(w), Deliver(w)
  PROVE  PipelineStep
<1>1. /\ worker[w] = "deliver"
      /\ finished' = [finished EXCEPT ![task[w].index] = result[w]]
      /\ task' = [task EXCEPT ![w] = NoTask]
      /\ UNCHANGED <<bufferPkt, reply, taskFifo>>
  <2>1. worker[w] = "deliver"
    BY DEF Deliver
  <2> QED BY <2>1 DEF Deliver, Worker, Fetch, Encode, FreeFrame, Leave, apiVars
<1>2. Closing' <=> Closing
  BY DEF Deliver, SignalFinished, Closing
<1>3. PICK i \in Slots, n \in Frames, p \in Packets :
        i = task[w].index /\ n = task[w].frame /\ p = result[w] /\ p.frame = n
  BY <1>1 DEF EncoderInv, WorkerInv, FieldsOK
<1>4. task[w] # NoTask /\ p # NoPacket /\ p.code \in {"frame", "error"}
  BY <1>1, <1>3, TaskFacts DEF Packets
<1>5. PICK busy, done : busy = <<n, "busy">> /\ done = <<n, p.code>>
  OBVIOUS
<1>6. IsEncoded(busy)
  BY <1>3, <1>4, <1>5 DEF IsEncoded
<1>7. finished[i] = NoPacket
  <2> SUFFICES ASSUME finished[i] # NoPacket
               PROVE  FALSE
    OBVIOUS
  <2>1. /\ Distance(i) = finished[i].frame - Taken - 1
        /\ task[w].frame # finished[i].frame
    BY <1>4 DEF EncoderInv, RingInv, FinishedInv
  <2>2. Distance(i) = n - Taken - 1
    BY <1>3, <1>4 DEF EncoderInv, RingInv, EncodedInv
  <2>3. finished[i].frame \in Frames
    BY DEF EncoderInv, FieldsOK, Packets
  <2>4. n \in Nat /\ finished[i].frame \in Nat /\ Taken \in Int
    BY <2>3, InsideFacts, RingFacts DEF EncoderInv
  <2> QED BY <1>3, <2>1, <2>2, <2>4
<1>8. \A y : IsFinished(y)' <=> IsFinished(y) \/ y = done
  <2>1. \A j \in Slots : finished'[j] = IF j = i THEN p ELSE finished[j]
    BY <1>1, <1>3 DEF EncoderInv, FieldsOK
  <2> QED BY <1>3, <1>4, <1>5, <1>7, <2>1 DEF IsFinished
<1>9. \A y : IsEncoded(y)' <=> IsEncoded(y) /\ y # busy
  <2>1. \A v \in Workers : task'[v] = IF v = w THEN NoTask ELSE task[v]
    BY <1>1 DEF EncoderInv, FieldsOK
  <2>2. \A v \in Workers : v # w /\ task[v] # NoTask => task[v].frame # n
    BY <1>3, <1>4 DEF EncoderInv, RingInv, EncodedInv
  <2> QED BY <1>3, <1>5, <2>1, <2>2 DEF IsEncoded
<1>10. \A y : /\ IsQueued(y)' <=> IsQueued(y)
              /\ IsBuffered(y)' <=> IsBuffered(y)
  BY <1>1 DEF IsQueued, IsBuffered
<1>11. \A y : IsQueued(y) \/ IsFinished(y) \/ IsBuffered(y) => y # busy
  <2>1. Fetched \in Int /\ busy[1] \in Nat /\ busy[1] <= Fetched /\ busy[2] = "busy"
    BY <1>5, <1>6, InsideFacts, RingFacts DEF EncoderInv
  <2>2. \A y : IsQueued(y) => y[1] > Fetched
    BY InsideFacts
  <2> QED BY <2>1, <2>2, InsideFacts
<1>12. CASE Closing
  <2>1. Inside' = Inside
    BY <1>2, <1>12, InsideIs, InsideIsNext
  <2> QED BY <1>1, <2>1, StutterIsPipelineStep
<1>13. CASE ~Closing
  <2>1. busy \in Inside
    BY <1>6, <1>13, InsideIs
  <2>2. \A y : y \in Inside' <=> (y \in Inside /\ y # busy) \/ y = done
    BY <1>2, <1>8, <1>9, <1>10, <1>11, <1>13, InsideIs, InsideIsNext
  <2>3. Inside' = (Inside \ {busy}) \cup {done}
    BY <2>2
  <2>4. Pipeline!Finish(busy, p.code)
    BY <1>1, <1>5, <2>3 DEF Pipeline!Finish
  <2>5. p.code \in Pipeline!Results
    BY <1>4 DEF Pipeline!Results
  <2> QED BY <2>1, <2>4, <2>5 DEF PipelineStep, Pipeline!Next, Pipeline!Step
<1> QED BY <1>12, <1>13

(* So every step is one of the pipeline, or none. *)
LEMMA StepIsPipelineStep ==
  EncoderInv /\ EncoderInv' /\ [Next]_vars => [Pipeline!Next]_(Pipeline!vars)
<1> SUFFICES ASSUME EncoderInv, EncoderInv', [Next]_vars
             PROVE  PipelineStep
  BY DEF PipelineStep
<1>1. CASE \/ MakeFrame \/ ChangeFrame \/ ReplaceFrame \/ DropFrame \/ UninitPool
           \/ ContinueBuffer \/ Send
  BY <1>1, FrameIsPipelineStep
<1>2. CASE Submit \/ Receive \/ Close \/ Join
  BY <1>2, SubmitIsPipelineStep, ReceiveIsPipelineStep, CloseIsPipelineStep
<1>3. CASE Output
  BY <1>3, OutputNothingIsPipelineStep, TakeIsPipelineStep DEF Output, AwaitOutput
<1>4. ASSUME NEW w \in Workers, Worker(w)
      PROVE  PipelineStep
  BY <1>4, FetchIsPipelineStep, EncodeIsPipelineStep, DeliverIsPipelineStep DEF Worker
<1>5. CASE SendNull \/ SpuriousWakeup \/ UNCHANGED vars
  <2>1. UNCHANGED <<bufferPkt, reply, taskFifo, finished, task>> /\ (Closing' <=> Closing)
    BY <1>5 DEF SendNull, SpuriousWakeup, SignalFinished, Closing, vars, apiVars,
       ringVars, workerVars
  <2>2. \A x : /\ IsQueued(x)' <=> IsQueued(x)
               /\ IsEncoded(x)' <=> IsEncoded(x)
               /\ IsFinished(x)' <=> IsFinished(x)
               /\ IsBuffered(x)' <=> IsBuffered(x)
    BY <2>1 DEF IsQueued, IsEncoded, IsFinished, IsBuffered
  <2> QED BY <2>1, <2>2, InsideKept, StutterIsPipelineStep
<1> QED BY <1>1, <1>2, <1>3, <1>4, <1>5 DEF Next, ClientStep

(***************************************************************************)
(* The encoder is the pipeline that frame threading of decoders is, for    *)
(* any number of workers, frames and buffers: packets come out in the      *)
(* order of the frames, each once, whichever worker is done first; the     *)
(* end of the stream comes when none is left, and a frame that cannot be   *)
(* sent or encoded disturbs no other.                                      *)
(***************************************************************************)
THEOREM EncoderIsPipeline == Spec => ImplementsPipeline
<1>1. Init => Pipeline!Init
  <2> SUFFICES ASSUME Init PROVE Pipeline!Init
    OBVIOUS
  <2>1. reply = "again" /\ bufferPkt = NoPacket /\ client = "idle" /\ DOMAIN taskFifo = {}
    BY EmptySeq DEF Init
  <2>2. (\A w \in Workers : task[w] = NoTask) /\ (\A i \in Slots : finished[i] = NoPacket)
    BY DEF Init
  <2>3. ~Closing /\ \A x : ~IsQueued(x) /\ ~IsEncoded(x) /\ ~IsFinished(x) /\ ~IsBuffered(x)
    BY <2>1, <2>2 DEF Closing, IsQueued, IsEncoded, IsFinished, IsBuffered
  <2>4. Inside = {}
    BY <2>3, InsideIs
  <2>5. NbThreads \in 0 .. (NbThreads + 1) - 1
    BY ConstantFacts
  <2> QED BY <2>1, <2>4, <2>5 DEF Pipeline!Init
<1>2. EncoderInv /\ EncoderInv' /\ [Next]_vars => [Pipeline!Next]_(Pipeline!vars)
  BY StepIsPipelineStep
<1> QED BY <1>1, <1>2, EncoderInvariant, PTL DEF Spec, ImplementsPipeline, Pipeline!Spec
=============================================================================
