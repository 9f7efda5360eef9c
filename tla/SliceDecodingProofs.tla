------------------------ MODULE SliceDecodingProofs ------------------------
(***************************************************************************)
(* Proofs about SliceDecoding: whatever the codecs do in their jobs, and   *)
(* however these wait for each other, the pool keeps what it promises to   *)
(* any client, and each codec decodes and filters in the order that its    *)
(* prediction needs.                                                       *)
(***************************************************************************)
EXTENDS SliceDecoding, SliceThreadProofs

-----------------------------------------------------------------------------
(* The inductive invariant of the jobs *)

\* A job that was not called by this execute, and one that has returned.
NotCalled(j) == runs[j] = 0
Returned(j) == runs[j] = 1 /\ \A t \in Threads : pc[t] = "job" => Job(t) # j

\* Each job is called once, by one thread, and the thread keeps nothing of it.
JobsOnce ==
  /\ \A j \in Jobs : runs[j] \in {0, 1} /\ (runs[j] = 1 => j < nbJobs)
  /\ \A t \in Threads : pc[t] = "job" => Job(t) \in Jobs /\ runs[Job(t)] = 1
  /\ \A t, u \in Threads : pc[t] = "job" /\ pc[u] = "job" /\ Job(t) = Job(u) => t = u
  /\ \A t \in Threads : ~InFunc(t) => step[t] = "begin" /\ row[t] = 0

\* What a codec asks of the pool.
UseInv ==
  /\ codec \in Codecs
  /\ codec \in {"hevc", "vp8"} => ~mainFunc
  /\ codec = "vp9" => mainFunc /\ (Busy => mainJobs)
  /\ codec = "vp8" /\ Busy => nbActive = nbJobs
  /\ codec = "vp8" => \A t \in Threads : pc[t] = "job" => Job(t) = local[t].nr

DataTypes ==
  /\ step \in [Threads -> JobPlaces] /\ row \in [Threads -> Nat]
  /\ entries \in [Jobs -> 0 .. Ctbs + Shift] /\ wppErr \in BOOLEAN
  /\ cabacState \in Jobs \cup {NoRow} /\ decoded \in [Jobs -> 0 .. Ctbs]
  /\ deblock \in BOOLEAN
  /\ mbPos \in [Jobs -> 0 .. Never] /\ waitPos \in [Jobs -> 0 .. Never]
  /\ col \in [Threads -> 0 .. 2 * MbWidth] /\ below \in [Threads -> BOOLEAN]
  /\ tileEntries \in [0 .. SbRows - 1 -> Nat]
  /\ codec # "vp9" => tileEntries = Vp9Cleared

JobInv == JobsOnce /\ UseInv /\ DataTypes

\* HEVC: a row that ends before its last CTB leaves an error behind, or is the last.
Complete(r) == decoded[r] = Ctbs \/ wppErr \/ r = nbJobs - 1

HevcPlaces == {"begin", "await", "asleep", "decode", "report", "fail", "finish", "return"}

\* The entry of a row is what it has decoded and reported, and more at its end.
EntryInv(t) ==
  LET r == Job(t)
  IN /\ step[t] \in HevcPlaces
     /\ IF step[t] = "begin" THEN decoded[r] = 0 ELSE row[t] = r
     /\ entries[r] = IF step[t] = "report" THEN decoded[r] - 1
                     ELSE IF step[t] = "return" THEN decoded[r] + Shift ELSE decoded[r]
     /\ step[t] \in {"await", "asleep", "decode"} => decoded[r] < Ctbs
     /\ step[t] = "decode" /\ r > 0 => entries[r - 1] >= entries[r] + Shift
     /\ step[t] \in {"finish", "return"} => Complete(r)

\* Rows have begun in their order, each after two CTBs of those above; the state of
\* the entropy decoder is that of the last row that has saved one.
WavefrontInv ==
  codec = "hevc" =>
    /\ \A t \in Threads : pc[t] = "job" => EntryInv(t)
    /\ \A j \in Jobs : NotCalled(j) => entries[j] = 0 /\ decoded[j] = 0
    /\ \A j \in Jobs : Returned(j) => entries[j] = decoded[j] + Shift /\ Complete(j)
    /\ \A q, r \in Jobs : q < r /\ decoded[r] > 0 => decoded[q] >= 2
    /\ \A r \in Jobs : decoded[r] >= 2 => r <= cabacState
    /\ cabacState # NoRow => decoded[cabacState] >= 2

\* VP9: the columns of tiles that have decoded a row.
Columns(y) ==
  {j \in 0 .. nbJobs - 1 :
     runs[j] = 1 /\ \A t \in Workers : pc[t] = "job" /\ Job(t) = j => row[t] > y}

TilesInv ==
  codec = "vp9" =>
    /\ \A y \in 0 .. SbRows - 1 : tileEntries[y] = Cardinality(Columns(y))
    /\ \A t \in Workers : pc[t] = "job" =>
         \/ step[t] \in {"begin", "report"} /\ row[t] < SbRows
         \/ step[t] = "return" /\ row[t] = SbRows
    /\ pc[Main] = "mainfunc" =>
         \/ step[Main] \in {"begin", "lock", "asleep", "filter"} /\ row[Main] < SbRows
         \/ step[Main] = "return"
    /\ At(Main, "filter") => tileEntries[row[Main]] >= nbJobs

\* VP8: the places of a job in a row, and those before it has published a macroblock.
BeforeStore == {"load", "lock", "check", "asleep", "relock", "work", "quiet", "announce"}
Vp8Places == BeforeStore \cup {"begin", "row", "wake", "end", "wakeAll", "return"}

\* The column that a job has published last in its row.
Published(t) ==
  IF step[t] = "wake" THEN IF Filters(t) THEN col[t] + 3 ELSE col[t]
  ELSE IF step[t] \in BeforeStore
    THEN IF col[t] = 0 THEN 0 ELSE IF col[t] <= MbWidth THEN col[t] - 1 ELSE col[t] + 2
  ELSE End

RowInv(t) ==
  /\ step[t] \in Vp8Places
  /\ step[t] = "begin" => row[t] = 0
  /\ IF step[t] = "begin" THEN mbPos[Job(t)] = 0
     ELSE IF step[t] \in {"row", "return"}
       THEN mbPos[Job(t)] = 0 \/ mbPos[Job(t)] < Pos(row[t], 0)
     ELSE mbPos[Job(t)] <= Pos(row[t], Published(t))
  /\ step[t] \in BeforeStore \cup {"wake"} =>
       row[t] < MbHeight /\ col[t] < 2 * MbWidth /\ (below[t] => Filters(t))
  /\ step[t] = "lock" => ~NothingToCheck(t)
  /\ step[t] \in {"end", "wakeAll"} => row[t] <= MbHeight
  /\ step[t] = "return" => row[t] >= MbHeight
  /\ step[t] \notin {"begin", "return"} /\ row[t] < MbHeight =>
       \E k \in 0 .. row[t] : row[t] = nbJobs * k + Job(t)

\* What MacroblocksInOrder asks of the rows above and below.
Right(t) == Min2((IF Filters(t) THEN col[t] - MbWidth ELSE col[t]) + 2, MbWidth)
AboveDone(t) ==
  row[t] > 0 => Progress(row[t] - 1) >=
                  IF Filters(t) \/ Job(t) = 0 THEN MbWidth + Right(t) ELSE Right(t)
BelowDone(t) ==
  Filters(t) /\ row[t] < MbHeight - 1 /\ NextJob(t) # 0 =>
    Progress(row[t] + 1) >= Right(t)

\* A check that was passed stays passed.
CheckInv(t) ==
  /\ step[t] = "work" => AboveDone(t) /\ BelowDone(t)
  /\ step[t] \in {"load", "lock", "check", "asleep", "relock"} /\ below[t] => AboveDone(t)

RowsInv ==
  codec = "vp8" =>
    /\ \A t \in Threads : pc[t] = "job" => RowInv(t) /\ CheckInv(t)
    /\ \A j \in Jobs : NotCalled(j) => mbPos[j] = 0

DecodingInv == JobInv /\ WavefrontInv /\ TilesInv /\ RowsInv

-----------------------------------------------------------------------------
(* Positions of VP8 *)

(* Positions are numbers: rows of End + 1 columns. *)
LEMMA PosIsNat ==
  /\ End \in Nat /\ End = 2 * MbWidth + 4 /\ Never \in Nat
  /\ \A y, x \in Nat : Pos(y, x) \in Nat /\ Pos(y, 0) = y * (End + 1)
                       /\ Pos(y, x) = Pos(y, 0) + x
<1>1. End \in Nat /\ End = 2 * MbWidth + 4
  BY MbAssumption DEF End
<1>2. \A y \in Nat : y * (End + 1) \in Nat
  BY <1>1
<1>3. \A y, x \in Nat : Pos(y, x) = y * (End + 1) + x
  BY DEF Pos
<1>4. \A y, x \in Nat : Pos(y, x) \in Nat /\ Pos(y, 0) = y * (End + 1)
                         /\ Pos(y, x) = Pos(y, 0) + x
  <2> TAKE y, x \in Nat
  <2>1. PICK p \in Nat : p = y * (End + 1)
    BY <1>2
  <2>2. Pos(y, x) = p + x /\ Pos(y, 0) = p + 0
    BY <1>3, <2>1
  <2> QED BY <2>1, <2>2
<1>5. Never \in Nat
  BY <1>1, <1>4, MbAssumption DEF Never
<1> QED BY <1>1, <1>4, <1>5

(* A row lies before the next. *)
LEMMA PosInOrder ==
  \A y, z, x \in Nat : y < z /\ x <= End => Pos(y, x) < Pos(z, 0)
<1> SUFFICES ASSUME NEW y \in Nat, NEW z \in Nat, NEW x \in Nat, y < z, x <= End
             PROVE  Pos(y, x) < Pos(z, 0)
  OBVIOUS
<1>1. PICK d \in Nat : z = y + 1 + d
  <2>1. z - y - 1 \in Nat /\ z = y + 1 + (z - y - 1)
    OBVIOUS
  <2> QED BY <2>1
<1>2. PICK e \in Nat : e = End + 1
  BY PosIsNat
<1>3. (y + 1 + d) * e = y * e + e + d * e /\ d * e \in Nat /\ y * e \in Nat
  BY SMTT(30)
<1>4. Pos(z, 0) = y * e + e + d * e /\ Pos(y, x) = y * e + x /\ x < e
  BY <1>1, <1>2, <1>3, PosIsNat
<1> QED BY <1>3, <1>4

(* No position lies behind Never. *)
LEMMA PosBounded ==
  \A y, x \in Nat : y <= MbHeight /\ x <= End => Pos(y, x) \in 0 .. Never - 1
<1> SUFFICES ASSUME NEW y \in Nat, NEW x \in Nat, y <= MbHeight, x <= End
             PROVE  Pos(y, x) \in 0 .. Never - 1
  OBVIOUS
<1>1. MbHeight \in Nat /\ End \in Nat /\ Never = Pos(MbHeight, End) + 1
  BY MbAssumption, PosIsNat DEF Never
<1>2. y < MbHeight => Pos(y, x) < Pos(MbHeight, 0)
  BY <1>1, PosInOrder
<1>3. /\ Pos(y, x) \in Nat /\ Pos(MbHeight, 0) \in Nat /\ Pos(MbHeight, End) \in Nat
      /\ Pos(MbHeight, End) = Pos(MbHeight, 0) + End
      /\ Pos(MbHeight, x) = Pos(MbHeight, 0) + x
  BY <1>1, PosIsNat
<1>4. CASE y = MbHeight
  BY <1>1, <1>3, <1>4
<1>5. CASE y < MbHeight
  BY <1>1, <1>2, <1>3, <1>5
<1> QED BY <1>1, <1>4, <1>5

-----------------------------------------------------------------------------
(* The codecs as clients of the pool *)

(* A context stays with its codec. *)
LEMMA CodecKept == codec \in Codecs /\ [DecodingNext]_allVars => codec' = codec
<1> SUFFICES ASSUME codec \in Codecs, [DecodingNext]_allVars PROVE codec' = codec
  OBVIOUS
<1>1. CASE Client
  BY <1>1 DEF Client, Frame, Codecs, jobVars
<1>2. ASSUME NEW t \in Threads, ThreadStep(t) PROVE codec' = codec
  <2>1. CASE PoolStep(t) /\ UNCHANGED jobVars
    BY <2>1 DEF jobVars
  <2>2. CASE Returns(t)
    BY <2>2 DEF Returns
  <2>3. CASE codec = "hevc" /\ HevcStep(t)
    BY <2>3 DEF HevcStep, HevcBegin, HevcAwait, HevcDecode, HevcReport, HevcFail, HevcFinish
  <2>4. CASE codec = "vp8" /\ Vp8Step(t)
    BY <2>4 DEF Vp8Step, Vp8Begin, BeginRow, DataMissing, Check, CheckLoad, CheckLock,
       CheckPos, CheckRelock, Update, LookForWaits, PublishQuietly, Publish, Wake, EndRow,
       WakeAll
  <2>5. CASE codec = "vp9" /\ Vp9Step(t)
    BY <2>5 DEF Vp9Step, DecodeTile, ReportTile, LookAtTiles, AwaitTiles, FilterTiles
  <2>6. JobStep(t) => \/ codec = "hevc" /\ HevcStep(t)
                      \/ codec = "vp8" /\ Vp8Step(t)
                      \/ codec = "vp9" /\ Vp9Step(t)
    BY DEF JobStep, Codecs
  <2> QED BY <1>2, <2>1, <2>2, <2>3, <2>4, <2>5, <2>6 DEF ThreadStep
<1>3. CASE UNCHANGED jobVars
  BY <1>3 DEF jobVars
<1> QED BY <1>1, <1>2, <1>3 DEF DecodingNext, allVars

(* A step of the codecs is a step of the pool with its clients, or none. *)
LEMMA DecodingStepIsPoolStep ==
  codec \in Codecs /\ [DecodingNext]_allVars => [PoolNext]_vars
<1> SUFFICES ASSUME codec \in Codecs, [DecodingNext]_allVars PROVE [PoolNext]_vars
  OBVIOUS
<1>1. CASE Client
  BY <1>1 DEF Client, PoolNext
<1>2. ASSUME NEW t \in Threads, ThreadStep(t) PROVE [PoolNext]_vars
  <2>1. CASE PoolStep(t)
    BY <2>1 DEF PoolNext
  <2>2. CASE Returns(t)
    BY <2>2 DEF Returns, PoolNext
  <2>3. CASE JobStep(t)
    BY <2>3 DEF JobStep, Codecs
  <2> QED BY <1>2, <2>1, <2>2, <2>3 DEF ThreadStep
<1>3. CASE \E t \in Threads : SpuriousWakeup(t)
  BY <1>3 DEF PoolNext
<1>4. CASE UNCHANGED allVars
  BY <1>4 DEF allVars
<1> QED BY <1>1, <1>2, <1>3, <1>4 DEF DecodingNext

(* The codecs and the other clients use the pool of SliceThread. *)
LEMMA DecodingUsesPool == DecodingSpec => PoolSpec /\ [](codec \in Codecs)
<1>1. DecodingInit => Init /\ codec \in Codecs
  BY DEF DecodingInit, JobInit
<1>2. codec \in Codecs /\ [DecodingNext]_allVars => (codec \in Codecs)'
  BY CodecKept
<1>3. DecodingSpec => [](codec \in Codecs)
  BY <1>1, <1>2, PTL DEF DecodingSpec
<1> QED BY <1>1, <1>3, DecodingStepIsPoolStep, PTL DEF DecodingSpec, PoolSpec

(***************************************************************************)
(* Rows, macroblock rows and tiles that wait for each other inside the     *)
(* pool do not disturb it: its flag and its last thread belong to the      *)
(* execute of the slice or frame that is being decoded.                    *)
(***************************************************************************)
THEOREM DecodingKeepsPoolSafe == DecodingSpec => []PoolSafe
BY DecodingUsesPool, PoolKeepsApart, PTL

(***************************************************************************)
(* A codec that asks for the next frame or slice never changes the counts  *)
(* under a worker that still reads those of the one before.                *)
(***************************************************************************)
THEOREM DecodingUpdatesQuiescent == DecodingSpec => QuiescentUpdate
BY DecodingUsesPool, UpdatesAreQuiescent, PTL

(***************************************************************************)
(* Under every codec an execute is the parallel loop of ParallelFor.       *)
(***************************************************************************)
THEOREM DecodingIsParallelFor == DecodingSpec => ImplementsParallelFor
BY DecodingUsesPool, PoolIsParallelFor, PTL


-----------------------------------------------------------------------------
(* What the pool does to the jobs *)

\* A step of the pool between two jobs, for which no call is made or returns.
Quiet ==
  /\ UNCHANGED <<mainFunc, nbJobs, runs>>
  /\ \A t \in Threads :
       /\ pc'[t] = "job" <=> pc[t] = "job"
       /\ pc[t] = "job" => local'[t] = local[t]
  /\ pc[Main] = "mainfunc" => pc'[Main] = "mainfunc"
  /\ Busy' => Busy /\ UNCHANGED <<nbActive, mainJobs>>

\* A thread takes a job that was not called before: its first, whose number is its own
\* from now on, or one after those that are first jobs.
Takes(t, j) ==
  /\ j \in Jobs /\ j < nbJobs /\ runs[j] = 0
  /\ pc[t] \notin {"job", "mainfunc"} /\ pc' = [pc EXCEPT ![t] = "job"]
  /\ runs' = [runs EXCEPT ![j] = 1]
  /\ Job(t)' = j
  /\ \A u \in Threads : u # t => local'[u] = local[u]
  /\ UNCHANGED <<mainFunc, nbJobs, nbActive, mainJobs>>
  /\ Busy /\ Busy'
  /\ local'[t].nr = j \/ nbActive < nbJobs

\* Its job returns.
Ends(t) ==
  /\ UNCHANGED <<mainFunc, nbJobs, runs, local, nbActive, mainJobs>>
  /\ pc[t] = "job" /\ pc' = [pc EXCEPT ![t] = "claim"]
  /\ Busy

(* run_jobs *)
LEMMA RunStepIs ==
  ASSUME PoolInv, NEW t \in Threads, RunJobs(t)
  PROVE  Quiet \/ \E j \in Jobs : Takes(t, j)
<1> USE ThreadFacts
<1>0. /\ PcTypeOK /\ local \in [Threads -> Copies]
      /\ runs \in [Jobs -> Nat] /\ nbJobs \in 0 .. MaxJobs /\ nbActive \in Nat
      /\ firstJob \in Nat /\ currentJob \in Nat
  BY DEF PoolInv, PoolTypeOK, PcTypeOK, Copies
<1>1. pc[t] \in RunPlaces
  BY DEF RunJobs, RunEnter, ClaimFirst, ClaimNext, RunPlaces
<1>2. Busy
  BY <1>1, RunIsBusy
<1>3. nbActive <= nbJobs
  BY <1>2 DEF PoolInv, PlaceInv
<1>4. CASE RunEnter(t)
  <2>1. /\ pc[t] = "enter" /\ pc' = [pc EXCEPT ![t] = "first"]
        /\ \A u \in Threads : u # t => local'[u] = local[u]
        /\ UNCHANGED <<mainFunc, nbJobs, runs, nbActive, mainJobs>>
    BY <1>0, <1>4 DEF RunEnter, Goto, ctxVars
  <2> QED BY <1>0, <1>2, <2>1 DEF Quiet, PcTypeOK
<1>5. CASE ClaimFirst(t)
  <2>1. /\ pc[t] = "first" /\ pc' = [pc EXCEPT ![t] = "job"]
        /\ local' = [local EXCEPT ![t].nr = firstJob, ![t].job = firstJob]
        /\ runs' = [runs EXCEPT ![firstJob] = runs[firstJob] + 1]
        /\ UNCHANGED <<mainFunc, nbJobs, nbActive, mainJobs>>
    BY <1>5 DEF ClaimFirst, CallJob, Goto
  <2>2. firstJob \in 0 .. NbWorkers /\ firstJob < nbActive
    BY <1>2, <1>5, StartSets, NumbersInRange
  <2>3. firstJob \in Jobs /\ firstJob < nbJobs
    BY <1>0, <1>3, <2>2 DEF Jobs
  <2>4. runs[firstJob] = 0
    <3>1. ~(firstJob < firstJob) /\ ~(nbActive <= firstJob)
      BY <1>0, <2>2
    <3> QED BY <1>2, <2>3, <3>1 DEF PoolInv, CountInv
  <2>5. /\ local'[t].job = firstJob /\ local'[t].nr = firstJob
        /\ \A u \in Threads : u # t => local'[u] = local[u]
    BY <1>0, <2>1 DEF Copies
  <2>6. Busy'
    BY <1>0, <1>2, <2>1 DEF Busy, PcTypeOK, RunPlaces
  <2>7. PICK j \in Jobs : j = firstJob
    BY <2>3
  <2>8. runs' = [runs EXCEPT ![j] = 1]
    BY <2>1, <2>4, <2>7
  <2>9. Takes(t, j)
    BY <1>2, <2>1, <2>3, <2>4, <2>5, <2>6, <2>7, <2>8 DEF Takes, Job
  <2> QED BY <2>9
<1>6. CASE ClaimNext(t) /\ currentJob < local[t].jobs
  <2>1. /\ pc[t] = "claim" /\ pc' = [pc EXCEPT ![t] = "job"]
        /\ local' = [local EXCEPT ![t].job = currentJob]
        /\ runs' = [runs EXCEPT ![currentJob] = runs[currentJob] + 1]
        /\ UNCHANGED <<mainFunc, nbJobs, nbActive, mainJobs>>
    BY <1>6 DEF ClaimNext, CallJob, Goto
  <2>2. currentJob < nbJobs
    BY <1>6, <2>1 DEF PoolInv, LocalInv
  <2>3. firstJob <= nbActive /\ nbActive <= currentJob
    BY <1>0, <1>2, SetFacts DEF PoolInv, CountInv
  <2>4. currentJob \in Jobs
    BY <1>0, <2>2 DEF Jobs
  <2>5. runs[currentJob] = 0
    <3>1. ~(currentJob < firstJob) /\ ~(currentJob < currentJob)
      BY <1>0, <2>3
    <3> QED BY <1>2, <2>4, <3>1 DEF PoolInv, CountInv
  <2>6. /\ local'[t].job = currentJob
        /\ \A u \in Threads : u # t => local'[u] = local[u]
    BY <1>0, <2>1 DEF Copies
  <2>7. Busy'
    BY <1>0, <1>2, <2>1 DEF Busy, PcTypeOK, RunPlaces
  <2>8. nbActive < nbJobs
    BY <1>0, <2>2, <2>3
  <2>9. Takes(t, currentJob)
    BY <1>2, <2>1, <2>2, <2>4, <2>5, <2>6, <2>7, <2>8 DEF Takes, Job
  <2> QED BY <2>4, <2>9
<1>7. CASE ClaimNext(t) /\ ~(currentJob < local[t].jobs)
  <2>1. /\ pc[t] = "claim" /\ UNCHANGED <<mainFunc, nbJobs, runs, nbActive, mainJobs>>
        /\ local' = [local EXCEPT ![t].job = currentJob]
    BY <1>7 DEF ClaimNext
  <2>2. PICK place : pc' = [pc EXCEPT ![t] = place] /\ place # "job"
    BY <1>7 DEF ClaimNext, Goto, AfterRun
  <2>3. \A u \in Threads : u # t => local'[u] = local[u]
    BY <1>0, <2>1
  <2> QED BY <1>0, <1>2, <2>1, <2>2, <2>3 DEF Quiet, PcTypeOK
<1> QED BY <1>4, <1>5, <1>6, <1>7 DEF RunJobs

(* The other steps of the pool *)
LEMMA OtherStepIsQuiet ==
  ASSUME PoolInv, NEW t \in Threads,
         \/ t # Main /\ (WorkerStart(t) \/ WorkerWake(t) \/ WorkerLast(t) \/ WorkerRest(t))
         \/ Create \/ Dispatch \/ Dispatched \/ WaitDone \/ Freeing \/ Free
         \/ SpuriousWakeup(t)
  PROVE  Quiet
<1> USE ThreadFacts
<1>0. PcTypeOK /\ i \in Nat
  BY DEF PoolInv, PoolTypeOK, PcTypeOK
<1>1. UNCHANGED <<mainFunc, nbJobs, runs, nbActive, mainJobs, local>>
  BY DEF WorkerStart, WorkerWake, WorkerLast, WorkerRest, Create, CreateWorker,
     CreateWait, CreateFails, Created, Dispatch, Dispatched, WaitDone, Freeing, Free,
     Kill, Killed, Join, Freed, SpuriousWakeup, ctxVars
<1>2. /\ \A u \in Threads : pc'[u] = "job" <=> pc[u] = "job"
      /\ pc[Main] = "mainfunc" => pc'[Main] = "mainfunc"
      /\ Busy' => Busy
  <2>1. CASE t # Main /\ (WorkerStart(t) \/ WorkerWake(t) \/ WorkerLast(t) \/ WorkerRest(t))
    BY <1>0, <2>1 DEF WorkerStart, WorkerWake, WorkerLast, WorkerRest, Goto, PcTypeOK,
       Busy, RunPlaces
  <2>2. CASE CreateWorker
    BY <1>0, <2>2 DEF CreateWorker, PcTypeOK, Busy, RunPlaces, PoolInv, PhaseInv, Creating
  <2>3. CASE CreateWait \/ CreateFails \/ Created \/ WaitDone \/ Free \/ SpuriousWakeup(t)
    BY <1>0, <2>3 DEF CreateWait, CreateFails, Created, WaitDone, Free, SpuriousWakeup,
       Goto, PcTypeOK, Busy, RunPlaces
  <2>4. CASE Dispatch \/ Kill
    BY <1>0, <2>4 DEF Dispatch, Kill, WakeWorker, PcTypeOK, Busy, RunPlaces
  <2>5. CASE Dispatched \/ Killed \/ Join \/ Freed
    BY <1>0, <2>5 DEF Dispatched, Killed, Join, Freed, Goto, PcTypeOK, Busy, RunPlaces
  <2> QED BY <2>1, <2>2, <2>3, <2>4, <2>5 DEF Create, Freeing
<1> QED BY <1>1, <1>2 DEF Quiet

(* So a step of the pool is quiet, or a call. *)
LEMMA PoolStepIs ==
  ASSUME PoolInv, NEW t \in Threads, PoolStep(t) \/ SpuriousWakeup(t)
  PROVE  Quiet \/ \E j \in Jobs : Takes(t, j)
<1>1. CASE t = Main /\ PoolStep(t)
  BY <1>1, RunStepIs, OtherStepIsQuiet DEF PoolStep, Executing
<1>2. CASE t # Main /\ PoolStep(t)
  BY <1>2, RunStepIs, OtherStepIsQuiet DEF PoolStep, Worker
<1> QED BY <1>1, <1>2, OtherStepIsQuiet

\* What belongs to the codecs.
codecVars == <<jobVars, hevcVars, vp8Vars, tileEntries>>

(* Main is in a main function for VP9 and other clients only, and then in no job. *)
LEMMA MainPlacesFacts ==
  ASSUME PoolInv, JobInv
  PROVE  /\ codec \in {"hevc", "vp8"} => \A t \in Threads : InFunc(t) <=> pc[t] = "job"
         /\ codec = "vp9" => pc[Main] # "job"
         /\ \A t \in Threads : pc[t] = "job" => Busy /\ t \in Threads
         /\ pc[Main] = "mainfunc" => Busy
<1>1. pc[Main] = "mainfunc" => Busy
  BY DEF Busy
<1>2. \A t \in Threads : pc[t] = "job" => Busy
  BY RunIsBusy DEF RunPlaces
<1>3. pc[Main] = "mainfunc" => mainFunc
  BY <1>1 DEF PoolInv, PlaceInv
<1>4. codec = "vp9" => pc[Main] # "job"
  BY <1>2, ThreadFacts DEF PoolInv, PlaceInv, JobInv, UseInv, RunPlaces
<1> QED BY <1>1, <1>2, <1>3, <1>4 DEF JobInv, UseInv, InFunc

(* Between two jobs nothing changes for those that run. *)
LEMMA QuietKeepsJobs ==
  ASSUME JobInv, Quiet, UNCHANGED codecVars
  PROVE  JobInv'
<1>1. UNCHANGED <<codec, step, row, hevcVars, vp8Vars, tileEntries, mainFunc, nbJobs, runs>>
  BY DEF codecVars, jobVars, Quiet
<1>2. \A t \in Threads : pc'[t] = "job" =>
        pc[t] = "job" /\ local'[t] = local[t] /\ Job(t)' = Job(t)
  BY DEF Quiet, Job
<1>3. \A t \in Threads : ~InFunc(t)' => ~InFunc(t)
  BY DEF Quiet, InFunc
<1>4. JobsOnce'
  BY <1>1, <1>2, <1>3 DEF JobInv, JobsOnce
<1>5. UseInv'
  BY <1>1, <1>2 DEF JobInv, UseInv, Quiet
<1>6. DataTypes'
  BY <1>1 DEF JobInv, DataTypes, hevcVars, vp8Vars, Vp9Cleared, Never, Pos, End
<1> QED BY <1>4, <1>5, <1>6 DEF JobInv

(* A thread that takes a job begins it. *)
LEMMA TakesKeepsJobs ==
  ASSUME PoolInv, JobInv, NEW t \in Threads, NEW j \in Jobs, Takes(t, j), UNCHANGED codecVars
  PROVE  JobInv'
<1>0. PcTypeOK /\ runs \in [Jobs -> Nat] /\ nbJobs \in Int
  BY ThreadFacts DEF PoolInv, PoolTypeOK, PcTypeOK
<1>1. UNCHANGED <<codec, step, row, hevcVars, vp8Vars, tileEntries, mainFunc, nbJobs,
                  nbActive, mainJobs>>
  BY DEF codecVars, jobVars, Takes
<1>2. /\ \A u \in Threads : u # t => pc'[u] = pc[u] /\ Job(u)' = Job(u) /\ local'[u] = local[u]
      /\ pc'[t] = "job" /\ Job(t)' = j /\ pc[t] \notin {"job", "mainfunc"}
      /\ \A q \in Jobs : runs'[q] = IF q = j THEN 1 ELSE runs[q]
      /\ j < nbJobs /\ runs[j] = 0
  BY <1>0 DEF Takes, PcTypeOK, Job
<1>3. \A u \in Threads : pc[u] = "job" => Job(u) # j
  BY <1>2 DEF JobInv, JobsOnce
<1>4. JobsOnce'
  <2>1. \A q \in Jobs : runs'[q] \in {0, 1} /\ (runs'[q] = 1 => q < nbJobs')
    BY <1>1, <1>2 DEF JobInv, JobsOnce
  <2>2. \A u \in Threads : pc'[u] = "job" => Job(u)' \in Jobs /\ runs'[Job(u)'] = 1
    BY <1>2 DEF JobInv, JobsOnce
  <2>3. \A u, v \in Threads : pc'[u] = "job" /\ pc'[v] = "job" /\ Job(u)' = Job(v)' => u = v
    BY <1>2, <1>3 DEF JobInv, JobsOnce
  <2>4. \A u \in Threads : ~InFunc(u)' => step'[u] = "begin" /\ row'[u] = 0
    BY <1>1, <1>2 DEF JobInv, JobsOnce, InFunc
  <2>5. \A u \in Threads : (runs[Job(u)])' = runs'[Job(u)']
    OBVIOUS
  <2> QED BY <2>1, <2>2, <2>3, <2>4, <2>5 DEF JobsOnce
<1>5. UseInv'
  <2>1. codec = "vp8" => local'[t].nr = j
    BY <1>0 DEF JobInv, UseInv, Takes
  <2>2. codec = "vp8" => \A u \in Threads : pc'[u] = "job" => Job(u)' = local'[u].nr
    BY <1>2, <2>1 DEF JobInv, UseInv
  <2> QED BY <1>1, <2>2 DEF JobInv, UseInv, Takes
<1>6. DataTypes'
  BY <1>1 DEF JobInv, DataTypes, hevcVars, vp8Vars, Vp9Cleared, Never, Pos, End
<1> QED BY <1>4, <1>5, <1>6 DEF JobInv

(* A job that returns leaves its thread as it was before. *)
LEMMA EndsKeepsJobs ==
  ASSUME PoolInv, JobInv, NEW t \in Threads,
         Ends(t) \/ (t = Main /\ MainFuncReturns),
         step' = [step EXCEPT ![t] = "begin"], row' = [row EXCEPT ![t] = 0],
         UNCHANGED <<codec, hevcVars, vp8Vars, tileEntries>>
  PROVE  JobInv'
<1>0. PcTypeOK /\ step \in [Threads -> JobPlaces] /\ row \in [Threads -> Nat]
  BY DEF PoolInv, PoolTypeOK, PcTypeOK, JobInv, DataTypes
<1>1. UNCHANGED <<mainFunc, nbJobs, runs, local, nbActive, mainJobs>> /\ Busy
  BY DEF Ends, MainFuncReturns, ctxVars, Busy
<1>2. \A u \in Threads : /\ pc'[u] = "job" => pc[u] = "job" /\ u # t
                         /\ u # t => pc'[u] = pc[u]
                         /\ Job(u)' = Job(u)
  BY <1>0, <1>1 DEF Ends, MainFuncReturns, Goto, PcTypeOK, Job
<1>3. \A u \in Threads : /\ step'[u] = IF u = t THEN "begin" ELSE step[u]
                         /\ row'[u] = IF u = t THEN 0 ELSE row[u]
  BY <1>0
<1>4. JobsOnce'
  <2>1. \A u \in Threads : ~InFunc(u)' => step'[u] = "begin" /\ row'[u] = 0
    BY <1>2, <1>3 DEF JobInv, JobsOnce, InFunc
  <2> QED BY <1>1, <1>2, <2>1 DEF JobInv, JobsOnce
<1>5. UseInv'
  BY <1>1, <1>2 DEF JobInv, UseInv
<1>6. DataTypes'
  <2>1. step' \in [Threads -> JobPlaces]
    BY <1>0 DEF JobPlaces
  <2>2. row' \in [Threads -> Nat]
    BY <1>0
  <2> QED BY <2>1, <2>2 DEF JobInv, DataTypes, hevcVars, vp8Vars, Vp9Cleared, Never, Pos, End
<1> QED BY <1>4, <1>5, <1>6 DEF JobInv

(* An execute begins when no job runs, and with all counters of its codec reset. *)
LEMMA ExecuteKeepsDecoding ==
  ASSUME PoolInv, JobInv, NEW n \in 1 .. MaxJobs, NEW executeMain \in BOOLEAN,
         Execute(n, executeMain), Frame(n, executeMain)
  PROVE  DecodingInv'
<1> USE ThreadFacts
<1>0. PcTypeOK /\ nbThreads \in Nat
  BY DEF PoolInv, PoolTypeOK, PcTypeOK
<1>1. pc[Main] = "idle" /\ pc' = [pc EXCEPT ![Main] = "dispatch"]
  BY DEF Execute, Goto
<1>2. \A t \in Threads : ~InFunc(t)
  BY <1>1 DEF PoolInv, PhaseInv, Ready, Resting, InFunc
<1>3. \A t \in Threads : pc'[t] # "job" /\ ~InFunc(t)'
  BY <1>0, <1>1, <1>2 DEF PcTypeOK, InFunc
<1>4. /\ \A j \in Jobs : runs'[j] = 0
      /\ nbJobs' = n /\ nbActive' = Min2(n, nbThreads) /\ UNCHANGED <<mainFunc, local>>
      /\ mainJobs' = (mainFunc /\ executeMain)
  BY DEF Execute
<1>5. codec \in Codecs /\ UNCHANGED <<codec, step, row>>
  BY DEF JobInv, UseInv, Frame, jobVars, Codecs
<1>6. \/ codec \in {"independent", "vp9"} /\ UNCHANGED hevcVars
      \/ codec = "vp8" /\ UNCHANGED hevcVars
      \/ codec = "hevc" /\ HevcReset
  BY <1>5 DEF Frame, Codecs
<1>7. \/ codec \in {"independent", "vp9", "hevc"} /\ UNCHANGED vp8Vars
      \/ codec = "vp8" /\ Vp8Reset
  BY <1>5 DEF Frame, Codecs
<1>8. \/ codec \in {"independent", "vp8", "hevc"} /\ UNCHANGED tileEntries
      \/ codec = "vp9" /\ tileEntries' = Vp9Cleared
  BY <1>5 DEF Frame, Codecs
<1>9. JobsOnce'
  <2>1. \A t \in Threads : ~InFunc(t)' => step'[t] = "begin" /\ row'[t] = 0
    BY <1>2, <1>5 DEF JobInv, JobsOnce
  <2> QED BY <1>3, <1>4, <2>1 DEF JobsOnce
<1>10. UseInv'
  <2>1. codec = "vp9" => mainFunc /\ executeMain
    BY DEF JobInv, UseInv, Frame
  <2>2. codec = "vp8" => nbActive' = nbJobs'
    BY <1>0, <1>4 DEF Frame, Min2
  <2> QED BY <1>3, <1>4, <1>5, <2>1, <2>2 DEF JobInv, UseInv
<1>11. DataTypes'
  <2>1. (entries \in [Jobs -> 0 .. Ctbs + Shift] /\ wppErr \in BOOLEAN)'
    <3>1. NoProgress \in [Jobs -> 0 .. Ctbs + Shift]
      BY CtbsAssumption DEF NoProgress, Shift
    <3> QED BY <1>6, <3>1 DEF JobInv, DataTypes, hevcVars, HevcReset
  <2>2. (cabacState \in Jobs \cup {NoRow} /\ decoded \in [Jobs -> 0 .. Ctbs])'
    BY <1>6, CtbsAssumption DEF JobInv, DataTypes, hevcVars, HevcReset, NoProgress
  <2>3. (deblock \in BOOLEAN /\ col \in [Threads -> 0 .. 2 * MbWidth]
           /\ below \in [Threads -> BOOLEAN])'
    BY <1>7 DEF JobInv, DataTypes, vp8Vars, Vp8Reset
  <2>4. Never \in Nat
    BY PosIsNat
  <2>5. (mbPos \in [Jobs -> 0 .. Never] /\ waitPos \in [Jobs -> 0 .. Never])'
    <3>1. AtTop \in [Jobs -> 0 .. Never] /\ NoneWaits \in [Jobs -> 0 .. Never]
      BY <2>4 DEF AtTop, NoneWaits
    <3> QED BY <1>7, <3>1 DEF JobInv, DataTypes, vp8Vars, Vp8Reset
  <2>6. (tileEntries \in [0 .. SbRows - 1 -> Nat]
           /\ (codec # "vp9" => tileEntries = Vp9Cleared))'
    BY <1>5, <1>8 DEF JobInv, DataTypes, Vp9Cleared
  <2> QED BY <1>5, <2>1, <2>2, <2>3, <2>5, <2>6 DEF JobInv, DataTypes
<1>12. WavefrontInv'
  <2>1. codec = "hevc" => \A j \in Jobs : entries'[j] = 0 /\ decoded'[j] = 0
    BY <1>6 DEF HevcReset, NoProgress
  <2>2. codec = "hevc" => cabacState' = NoRow
    BY <1>6 DEF HevcReset
  <2> QED BY <1>3, <1>4, <1>5, <2>1, <2>2 DEF WavefrontInv, NotCalled, Returned, NoRow, Jobs
<1>13. TilesInv'
  <2>1. \A y \in 0 .. SbRows - 1 : Columns(y)' = {}
    <3>1. \A j \in 0 .. n - 1 : j \in Jobs
      BY DEF Jobs
    <3> QED BY <1>4, <3>1 DEF Columns
  <2>2. \A y \in 0 .. SbRows - 1 : Cardinality(Columns(y)') = 0
    BY <2>1, FS_EmptySet
  <2>3. codec = "vp9" => \A y \in 0 .. SbRows - 1 : tileEntries'[y] = 0
    BY <1>8 DEF Vp9Cleared
  <2>4. pc'[Main] # "mainfunc" /\ \A t \in Workers : pc'[t] # "job"
    BY <1>0, <1>1, <1>3 DEF PcTypeOK
  <2>5. \A y \in 0 .. SbRows - 1 : Cardinality(Columns(y))' = 0
    BY <2>2
  <2> QED BY <1>3, <1>5, <2>3, <2>4, <2>5 DEF TilesInv, At
<1>14. RowsInv'
  <2>1. codec = "vp8" => \A j \in Jobs : mbPos'[j] = 0
    BY <1>7 DEF Vp8Reset, AtTop
  <2> QED BY <1>3, <1>5, <2>1 DEF RowsInv
<1> QED BY <1>9, <1>10, <1>11, <1>12, <1>13, <1>14 DEF DecodingInv, JobInv

(* A step of a function touches the jobs that run. *)
LEMMA FunctionKeepsCalls ==
  ASSUME JobInv, UNCHANGED <<vars, codec>>,
         \A u \in Threads : ~InFunc(u) => step'[u] = step[u] /\ row'[u] = row[u]
  PROVE  JobsOnce' /\ UseInv'
<1>1. UNCHANGED <<pc, local, runs, nbJobs, nbActive, mainJobs, mainFunc>>
  BY DEF vars, ctxVars
<1>2. \A u \in Threads : (InFunc(u)' <=> InFunc(u)) /\ Job(u)' = Job(u)
  BY <1>1 DEF InFunc, Job
<1>3. JobsOnce'
  BY <1>1, <1>2 DEF JobInv, JobsOnce
<1>4. UseInv'
  BY <1>1, <1>2 DEF JobInv, UseInv, Busy
<1> QED BY <1>3, <1>4

-----------------------------------------------------------------------------
(* HEVC: the rows and their entries *)

(* In a wavefront nobody is in a main function, and rows are what jobs are. *)
LEMMA WavefrontFacts ==
  ASSUME PoolInv, JobInv, codec = "hevc"
  PROVE  /\ \A t \in Threads : InFunc(t) <=> pc[t] = "job"
         /\ \A t \in Threads : pc[t] = "job" => Job(t) \in Jobs /\ Job(t) < nbJobs
         /\ \A j \in Jobs : j \in Nat /\ decoded[j] \in Nat /\ decoded[j] <= Ctbs
                            /\ entries[j] \in Nat /\ entries[j] <= Ctbs + 2
         /\ \A j \in Jobs : j > 0 => j - 1 \in Jobs
         /\ nbJobs \in Nat /\ Ctbs \in Nat /\ Ctbs >= 2 /\ Shift = 2
<1>1. nbJobs \in Nat
  BY ThreadFacts DEF PoolInv, PoolTypeOK
<1>2. Ctbs \in Nat /\ Ctbs >= 2 /\ Shift = 2
  BY CtbsAssumption DEF Shift
<1>3. \A t \in Threads : InFunc(t) <=> pc[t] = "job"
  BY MainPlacesFacts
<1>4. \A t \in Threads : pc[t] = "job" => Job(t) \in Jobs /\ Job(t) < nbJobs
  BY DEF JobInv, JobsOnce
<1>5. \A j \in Jobs : entries[j] \in 0 .. Ctbs + 2 /\ decoded[j] \in 0 .. Ctbs
  BY <1>2 DEF JobInv, DataTypes
<1>6. \A j \in Jobs : j \in Nat /\ (j > 0 => j - 1 \in Jobs)
  BY ThreadFacts DEF Jobs
<1> QED BY <1>1, <1>2, <1>3, <1>4, <1>5, <1>6

(* What an entry tells: nothing yet, what is decoded, or that the row has ended. *)
LEMMA EntryTells ==
  ASSUME PoolInv, JobInv, WavefrontInv, codec = "hevc", NEW r \in Jobs
  PROVE  entries[r] <= decoded[r] \/ (entries[r] = decoded[r] + 2 /\ Complete(r))
<1> USE WavefrontFacts
<1>1. CASE NotCalled(r)
  BY <1>1 DEF WavefrontInv
<1>2. CASE Returned(r)
  BY <1>2 DEF WavefrontInv
<1>3. CASE \E t \in Threads : pc[t] = "job" /\ Job(t) = r
  <2>1. PICK t \in Threads : pc[t] = "job" /\ Job(t) = r
    BY <1>3
  <2>2. EntryInv(t)
    BY <2>1 DEF WavefrontInv
  <2>3. entries[r] = (IF step[t] = "report" THEN decoded[r] - 1
                      ELSE IF step[t] = "return" THEN decoded[r] + 2 ELSE decoded[r])
    BY <2>1, <2>2 DEF EntryInv
  <2>4. step[t] = "return" => Complete(r)
    BY <2>1, <2>2 DEF EntryInv
  <2> QED BY <2>3, <2>4
<1> QED BY <1>1, <1>2, <1>3 DEF JobInv, JobsOnce, NotCalled, Returned

(* A row that may go on has the CTBs above it, or the whole row. *)
LEMMA RowAboveDecoded ==
  ASSUME PoolInv, JobInv, WavefrontInv, codec = "hevc", ~wppErr,
         NEW t \in Threads, pc[t] = "job", step[t] = "decode", Job(t) > 0
  PROVE  /\ row[t] = Job(t)
         /\ \/ decoded[Job(t) - 1] = Ctbs
            \/ decoded[Job(t) - 1] >= decoded[Job(t)] + 2
<1> USE WavefrontFacts
<1> DEFINE r == Job(t)
<1>1. EntryInv(t)
  BY DEF WavefrontInv
<1>2. entries[r] = decoded[r] /\ entries[r - 1] >= entries[r] + 2 /\ row[t] = r
  BY <1>1 DEF EntryInv
<1>3. entries[r - 1] <= decoded[r - 1]
        \/ (entries[r - 1] = decoded[r - 1] + 2 /\ Complete(r - 1))
  BY EntryTells
<1>4. r - 1 # nbJobs - 1
  OBVIOUS
<1>5. Complete(r - 1) => decoded[r - 1] = Ctbs
  BY <1>4 DEF Complete
<1>6. r \in Jobs /\ r - 1 \in Jobs
  OBVIOUS
<1> QED BY <1>2, <1>3, <1>5, <1>6

(* A step of one row leaves the others where they are. *)
LEMMA RowKeepsOthers ==
  ASSUME PoolInv, JobInv, WavefrontInv, codec = "hevc", codec' = "hevc", UNCHANGED vars,
         NEW t \in Threads, pc[t] = "job",
         \A u \in Threads \ {t} :
           row'[u] = row[u] /\ (step'[u] = step[u] \/ (step[u] = "asleep" /\ step'[u] = "await")),
         \A q \in Jobs \ {Job(t)} : entries'[q] = entries[q] /\ decoded'[q] = decoded[q],
         entries'[Job(t)] \in Nat, entries'[Job(t)] >= entries[Job(t)],
         wppErr => wppErr', decoded[Job(t)] = Ctbs => decoded'[Job(t)] = Ctbs,
         EntryInv(t)',
         \A q, r \in Jobs : q < r /\ decoded'[r] > 0 => decoded'[q] >= 2,
         \A r \in Jobs : decoded'[r] >= 2 => r <= cabacState',
         cabacState' # NoRow => decoded'[cabacState'] >= 2
  PROVE  WavefrontInv'
<1> USE WavefrontFacts
<1>1. UNCHANGED <<pc, local, runs, nbJobs>>
  BY DEF vars, ctxVars
<1>2. \A u \in Threads : Job(u)' = Job(u)
  BY <1>1 DEF Job
<1>3. \A r \in Jobs : Complete(r) => Complete(r)'
  BY <1>1 DEF Complete
<1>4. ASSUME NEW u \in Threads, u # t, pc[u] = "job" PROVE EntryInv(u)'
  <2>1. PICK r \in Jobs : r = Job(u)
    BY <1>4
  <2>2. Job(u) # Job(t)
    BY <1>4 DEF JobInv, JobsOnce
  <2>3. EntryInv(u)
    BY <1>4 DEF WavefrontInv
  <2>4. entries'[r] = entries[r] /\ decoded'[r] = decoded[r] /\ row'[u] = row[u]
    BY <1>4, <2>1, <2>2
  <2>5. r > 0 => entries'[r - 1] >= entries[r - 1] /\ entries'[r - 1] \in Nat
    OBVIOUS
  <2>6. step'[u] = step[u] \/ (step[u] = "asleep" /\ step'[u] = "await")
    BY <1>4
  <2>7. Job(u)' = r
    BY <1>2, <2>1
  <2>8. \/ step'[u] \in {"begin", "asleep", "decode", "report", "fail", "finish", "return"}
           /\ step'[u] = step[u]
        \/ step'[u] = "await" /\ step[u] \in {"await", "asleep"}
    BY <2>3, <2>6 DEF EntryInv, HevcPlaces
  <2>9. step'[u] = "decode" /\ r > 0 => entries'[r - 1] >= entries'[r] + Shift
    <3>1. step[u] = "decode" /\ r > 0 => entries[r - 1] >= entries[r] + Shift
      BY <2>1, <2>3 DEF EntryInv
    <3> QED BY <2>4, <2>5, <2>8, <3>1
  <2>10. step'[u] \in HevcPlaces
    BY <2>8 DEF HevcPlaces
  <2>11. step'[u] \in {"finish", "return"} => Complete(r)'
    BY <1>3, <2>1, <2>3, <2>8 DEF EntryInv
  <2>12. /\ IF step'[u] = "begin" THEN decoded'[r] = 0 ELSE row'[u] = r
         /\ entries'[r] = IF step'[u] = "report" THEN decoded'[r] - 1
                          ELSE IF step'[u] = "return" THEN decoded'[r] + Shift ELSE decoded'[r]
         /\ step'[u] \in {"await", "asleep", "decode"} => decoded'[r] < Ctbs
    BY <2>1, <2>3, <2>4, <2>8 DEF EntryInv
  <2> QED BY <2>7, <2>9, <2>10, <2>11, <2>12 DEF EntryInv
<1>5. \A u \in Threads : pc'[u] = "job" => EntryInv(u)'
  BY <1>1, <1>4
<1>6. ASSUME NEW j \in Jobs, NotCalled(j)' PROVE entries'[j] = 0 /\ decoded'[j] = 0
  <2>1. NotCalled(j) /\ j # Job(t)
    BY <1>1, <1>6 DEF NotCalled, JobInv, JobsOnce
  <2> QED BY <2>1 DEF WavefrontInv
<1>7. ASSUME NEW j \in Jobs, Returned(j)'
      PROVE  entries'[j] = decoded'[j] + Shift /\ Complete(j)'
  <2>1. Returned(j) /\ j # Job(t)
    BY <1>1, <1>2, <1>7 DEF Returned
  <2> QED BY <1>3, <2>1 DEF WavefrontInv
<1> QED BY <1>5, <1>6, <1>7 DEF WavefrontInv

(* A CTB is reached in the order of the wavefront, and its row saves the state. *)
LEMMA DecodeKeepsOrder ==
  ASSUME PoolInv, JobInv, WavefrontInv, codec = "hevc", ~wppErr,
         NEW t \in Threads, pc[t] = "job", step[t] = "decode",
         decoded' = [decoded EXCEPT ![Job(t)] = decoded[Job(t)] + 1],
         cabacState' = IF decoded'[Job(t)] = 2 THEN Job(t) ELSE cabacState
  PROVE  /\ \A q, r \in Jobs : q < r /\ decoded'[r] > 0 => decoded'[q] >= 2
         /\ \A r \in Jobs : decoded'[r] >= 2 => r <= cabacState'
         /\ cabacState' # NoRow => decoded'[cabacState'] >= 2
<1> USE WavefrontFacts
<1>0. /\ decoded \in [Jobs -> 0 .. Ctbs] /\ cabacState \in Jobs \cup {NoRow}
      /\ \A q, r \in Jobs : q < r /\ decoded[r] > 0 => decoded[q] >= 2
      /\ \A r \in Jobs : decoded[r] >= 2 => r <= cabacState
      /\ cabacState # NoRow => decoded[cabacState] >= 2
  BY DEF JobInv, DataTypes, WavefrontInv
<1>1. PICK r \in Jobs : r = Job(t)
  OBVIOUS
<1>2. \A q \in Jobs : decoded'[q] = IF q = r THEN decoded[r] + 1 ELSE decoded[q]
  BY <1>0, <1>1
<1>3. \A q \in Jobs : q < r => decoded[q] >= 2
  <2> SUFFICES ASSUME NEW q \in Jobs, q < r PROVE decoded[q] >= 2
    OBVIOUS
  <2>1. r > 0 /\ r - 1 \in Jobs
    OBVIOUS
  <2>2. decoded[r - 1] >= 2
    BY <1>1, <2>1, RowAboveDecoded
  <2>3. q = r - 1 \/ q < r - 1
    OBVIOUS
  <2> QED BY <1>0, <2>1, <2>2, <2>3
<1>4. \A q, s \in Jobs : q < s /\ decoded'[s] > 0 => decoded'[q] >= 2
  <2> SUFFICES ASSUME NEW q \in Jobs, NEW s \in Jobs, q < s, decoded'[s] > 0
               PROVE  decoded'[q] >= 2
    OBVIOUS
  <2>1. decoded[q] >= 2
    <3>1. CASE s = r
      BY <1>3, <3>1
    <3>2. CASE s # r
      BY <1>0, <1>2, <3>2
    <3> QED BY <3>1, <3>2
  <2> QED BY <1>2, <2>1
<1>5. \A s \in Jobs : decoded'[s] >= 2 => s <= cabacState'
  <2> SUFFICES ASSUME NEW s \in Jobs, decoded'[s] >= 2 PROVE s <= cabacState'
    OBVIOUS
  <2>1. CASE decoded'[r] = 2
    <3>1. cabacState' = r /\ decoded[r] = 1
      BY <1>1, <1>2, <2>1
    <3>2. s # r => ~(r < s)
      BY <1>0, <1>2, <3>1
    <3> QED BY <3>1, <3>2
  <2>2. CASE decoded'[r] # 2
    <3>1. cabacState' = cabacState
      BY <1>1, <2>2
    <3>2. decoded[s] >= 2
      BY <1>2, <2>2
    <3> QED BY <1>0, <3>1, <3>2
  <2> QED BY <2>1, <2>2
<1>6. cabacState' # NoRow => decoded'[cabacState'] >= 2
  <2>1. CASE decoded'[r] = 2
    BY <1>1, <2>1
  <2>2. CASE decoded'[r] # 2
    <3>1. cabacState' = cabacState
      BY <1>1, <2>2
    <3>2. PICK s : s = cabacState
      OBVIOUS
    <3>3. s # NoRow => s \in Jobs /\ decoded[s] >= 2 /\ decoded'[s] >= decoded[s]
      BY <1>0, <1>2, <3>2
    <3>4. s # NoRow => decoded'[s] >= 2
      BY <1>0, <1>2, <3>3
    <3> QED BY <3>1, <3>2, <3>4
  <2> QED BY <2>1, <2>2
<1> QED BY <1>4, <1>5, <1>6

(* A report raises one entry, and wakes at most one row. *)
LEMMA ReportIs ==
  ASSUME PoolInv, JobInv, codec = "hevc", NEW t \in Threads, pc[t] = "job",
         row[t] = Job(t), step[t] # "asleep",
         NEW n \in Nat, NEW place \in JobPlaces, Report(t, n, place)
  PROVE  /\ \A q \in Jobs : entries'[q] = IF q = Job(t) THEN entries[q] + n ELSE entries[q]
         /\ DOMAIN entries' = Jobs
         /\ step'[t] = place
         /\ \A u \in Threads \ {t} :
              \/ step'[u] = step[u]
              \/ InFunc(u) /\ step[u] = "asleep" /\ step'[u] = "await"
         /\ step' \in [Threads -> JobPlaces]
<1>0. step \in [Threads -> JobPlaces] /\ entries \in [Jobs -> 0 .. Ctbs + Shift]
  BY DEF JobInv, DataTypes
<1>1. entries' = [entries EXCEPT ![Job(t)] = entries[Job(t)] + n]
  BY DEF Report
<1>2. \/ step' = [step EXCEPT ![t] = place]
      \/ \E u \in Threads : At(u, "asleep") /\ step' = [step EXCEPT ![t] = place, ![u] = "await"]
  BY DEF Report, Step
<1>3. "await" \in JobPlaces
  BY DEF JobPlaces
<1>4. CASE step' = [step EXCEPT ![t] = place]
  BY <1>0, <1>1, <1>4
<1>5. ASSUME NEW u \in Threads, At(u, "asleep"),
             step' = [step EXCEPT ![t] = place, ![u] = "await"]
      PROVE  /\ step'[t] = place /\ step' \in [Threads -> JobPlaces]
             /\ \A v \in Threads \ {t} :
                  \/ step'[v] = step[v]
                  \/ InFunc(v) /\ step[v] = "asleep" /\ step'[v] = "await"
  <2>1. u # t /\ step[u] = "asleep" /\ InFunc(u)
    BY <1>5 DEF At
  <2> QED BY <1>0, <1>3, <1>5, <2>1
<1> QED BY <1>0, <1>1, <1>2, <1>4, <1>5

(* A step of a row keeps the types of what the rows share, and the wavefront. *)
LEMMA HevcKeepsWavefront ==
  ASSUME PoolInv, JobInv, WavefrontInv, codec = "hevc", codec' = "hevc", UNCHANGED vars,
         NEW t \in Threads, HevcStep(t)
  PROVE  /\ WavefrontInv'
         /\ \A u \in Threads : ~InFunc(u) => step'[u] = step[u] /\ row'[u] = row[u]
         /\ step' \in [Threads -> JobPlaces] /\ row' \in [Threads -> Nat]
         /\ entries' \in [Jobs -> 0 .. Ctbs + Shift] /\ wppErr' \in BOOLEAN
         /\ cabacState' \in Jobs \cup {NoRow} /\ decoded' \in [Jobs -> 0 .. Ctbs]
<1> USE WavefrontFacts
<1>0. /\ step \in [Threads -> JobPlaces] /\ row \in [Threads -> Nat]
      /\ entries \in [Jobs -> 0 .. Ctbs + Shift] /\ wppErr \in BOOLEAN
      /\ cabacState \in Jobs \cup {NoRow} /\ decoded \in [Jobs -> 0 .. Ctbs]
  BY DEF JobInv, DataTypes
<1>1. InFunc(t) /\ pc[t] = "job"
  BY DEF HevcStep, HevcBegin, HevcAwait, HevcDecode, HevcReport, HevcFail, HevcFinish, At
<1>2. PICK r \in Jobs : r = Job(t)
  BY <1>1
<1>3. EntryInv(t) /\ r < nbJobs /\ UNCHANGED <<local, nbJobs, pc>>
  BY <1>1, <1>2 DEF WavefrontInv, vars, ctxVars
<1>4. Job(t)' = r
  BY <1>2, <1>3 DEF Job
<1>5. /\ \A q, s \in Jobs : q < s /\ decoded[s] > 0 => decoded[q] >= 2
      /\ \A s \in Jobs : decoded[s] >= 2 => s <= cabacState
      /\ cabacState # NoRow => decoded[cabacState] >= 2
  BY DEF WavefrontInv
<1>6. CASE HevcBegin(t)
  <2>1. UNCHANGED hevcVars /\ step[t] = "begin" /\ row' = [row EXCEPT ![t] = r]
    BY <1>2, <1>6 DEF HevcBegin, At
  <2>2. PICK place \in {"await", "fail"} : step' = [step EXCEPT ![t] = place]
    BY <1>6 DEF HevcBegin, Step
  <2>3. step' \in [Threads -> JobPlaces] /\ row' \in [Threads -> Nat]
    <3>1. place \in JobPlaces
      BY DEF JobPlaces
    <3> QED BY <1>0, <2>1, <2>2, <3>1
  <2>4. \A u \in Threads \ {t} : step'[u] = step[u] /\ row'[u] = row[u]
    BY <1>0, <2>1, <2>2
  <2>5. step'[t] = place /\ row'[t] = r /\ decoded'[r] = 0 /\ entries'[r] = 0
    BY <1>0, <1>2, <1>3, <2>1, <2>2 DEF EntryInv, hevcVars
  <2>6. EntryInv(t)'
    BY <1>4, <2>5 DEF EntryInv, HevcPlaces
  <2>7. UNCHANGED <<entries, wppErr, cabacState, decoded>>
    BY <2>1 DEF hevcVars
  <2>8. WavefrontInv'
    BY <1>1, <1>5, <2>4, <2>6, <2>7, RowKeepsOthers
  <2> QED BY <1>0, <1>1, <2>3, <2>4, <2>7, <2>8
<1>7. CASE HevcAwait(t)
  <2>1. UNCHANGED <<entries, wppErr, cabacState, decoded, row>> /\ step[t] = "await"
    BY <1>7 DEF HevcAwait, At, hevcVars
  <2>2. row[t] = r /\ decoded[r] < Ctbs /\ entries[r] = decoded[r]
    BY <1>2, <1>3, <2>1 DEF EntryInv
  <2>3. PICK place \in {"decode", "asleep"} :
          /\ step' = [step EXCEPT ![t] = place]
          /\ place = "decode" /\ r > 0 => entries[r - 1] - entries[r] >= 2
    <3>1. step' = [step EXCEPT ![t] = IF RowAboveReady(r) THEN "decode" ELSE "asleep"]
      BY <1>7, <2>2 DEF HevcAwait, Step
    <3>2. RowAboveReady(r) /\ r > 0 => entries[r - 1] - entries[r] >= 2
      BY DEF RowAboveReady
    <3> QED BY <3>1, <3>2
  <2>4. step' \in [Threads -> JobPlaces]
    <3>1. place \in JobPlaces
      BY DEF JobPlaces
    <3> QED BY <1>0, <2>3, <3>1
  <2>5. \A u \in Threads \ {t} : step'[u] = step[u] /\ row'[u] = row[u]
    BY <1>0, <2>1, <2>3
  <2>6. step'[t] = place
    BY <1>0, <2>3
  <2>7. place = "decode" /\ r > 0 => entries[r - 1] >= entries[r] + 2
    BY <2>3
  <2>8. EntryInv(t)'
    BY <1>4, <2>1, <2>2, <2>6, <2>7 DEF EntryInv, HevcPlaces
  <2>9. WavefrontInv'
    BY <1>1, <1>5, <2>1, <2>5, <2>8, RowKeepsOthers
  <2> QED BY <1>0, <1>1, <2>1, <2>4, <2>5, <2>9
<1>8. CASE HevcDecode(t)
  <2>1. UNCHANGED <<entries, wppErr, row>> /\ step[t] = "decode"
    BY <1>8 DEF HevcDecode, At, hevcVars
  <2>2. row[t] = r /\ decoded[r] < Ctbs /\ entries[r] = decoded[r]
    BY <1>2, <1>3, <2>1 DEF EntryInv
  <2>3. CASE UNCHANGED <<cabacState, decoded>> /\ ((Step(t, "finish") /\ wppErr) \/ Step(t, "fail"))
    <3>1. PICK place \in {"finish", "fail"} :
            step' = [step EXCEPT ![t] = place] /\ (place = "finish" => wppErr)
      BY <2>3 DEF Step
    <3>2. step' \in [Threads -> JobPlaces]
      <4>1. place \in JobPlaces
        BY DEF JobPlaces
      <4> QED BY <1>0, <3>1, <4>1
    <3>3. \A u \in Threads \ {t} : step'[u] = step[u] /\ row'[u] = row[u]
      BY <1>0, <2>1, <3>1
    <3>4. step'[t] = place /\ UNCHANGED decoded
      BY <1>0, <2>3, <3>1
    <3>5. EntryInv(t)'
      BY <1>4, <2>1, <2>2, <3>1, <3>4 DEF EntryInv, HevcPlaces, Complete
    <3>6. WavefrontInv'
      BY <1>1, <1>5, <2>1, <2>3, <3>3, <3>5, RowKeepsOthers
    <3> QED BY <1>0, <1>1, <2>1, <2>3, <3>2, <3>3, <3>6
  <2>4. CASE /\ ~wppErr
             /\ decoded' = [decoded EXCEPT ![row[t]] = @ + 1]
             /\ cabacState' = IF decoded'[row[t]] = 2 THEN row[t] ELSE cabacState
             /\ Step(t, "report")
    <3>1. /\ decoded' = [decoded EXCEPT ![Job(t)] = decoded[Job(t)] + 1]
          /\ cabacState' = IF decoded'[Job(t)] = 2 THEN Job(t) ELSE cabacState
      BY <1>2, <2>2, <2>4
    <3>2. /\ \A q \in Jobs : decoded'[q] = IF q = r THEN decoded[r] + 1 ELSE decoded[q]
          /\ decoded' \in [Jobs -> 0 .. Ctbs] /\ cabacState' \in Jobs \cup {NoRow}
      BY <1>0, <1>2, <2>2, <3>1
    <3>3. "report" \in JobPlaces /\ step' = [step EXCEPT ![t] = "report"]
      BY <2>4 DEF JobPlaces, Step
    <3>4. /\ step' \in [Threads -> JobPlaces] /\ step'[t] = "report"
          /\ \A u \in Threads \ {t} : step'[u] = step[u] /\ row'[u] = row[u]
      BY <1>0, <2>1, <3>3
    <3>5. EntryInv(t)'
      BY <1>4, <2>1, <2>2, <3>2, <3>4 DEF EntryInv, HevcPlaces
    <3>6. /\ \A q, s \in Jobs : q < s /\ decoded'[s] > 0 => decoded'[q] >= 2
          /\ \A s \in Jobs : decoded'[s] >= 2 => s <= cabacState'
          /\ cabacState' # NoRow => decoded'[cabacState'] >= 2
      BY <1>1, <2>1, <2>4, <3>1, DecodeKeepsOrder
    <3>7. decoded[Job(t)] # Ctbs
      BY <1>2, <2>2
    <3>8. \A q \in Jobs \ {Job(t)} : entries'[q] = entries[q] /\ decoded'[q] = decoded[q]
      BY <1>2, <2>1, <3>2
    <3>9. entries'[Job(t)] \in Nat /\ entries'[Job(t)] >= entries[Job(t)]
      BY <1>2, <2>1
    <3>10. WavefrontInv'
      BY <1>1, <2>1, <3>4, <3>5, <3>6, <3>7, <3>8, <3>9, RowKeepsOthers
    <3> QED BY <1>0, <1>1, <2>1, <3>2, <3>4, <3>10
  <2> QED BY <1>8, <2>3, <2>4 DEF HevcDecode, hevcVars
<1>9. CASE HevcReport(t)
  <2>1. UNCHANGED <<wppErr, cabacState, decoded, row>> /\ step[t] = "report"
    BY <1>9 DEF HevcReport, At
  <2>2. row[t] = r /\ entries[r] = decoded[r] - 1
    BY <1>2, <1>3, <2>1 DEF EntryInv
  <2>3. PICK place \in AfterCtb(r) : Report(t, 1, place)
    BY <1>9, <2>2 DEF HevcReport
  <2>4. place \in {"finish", "await", "fail"}
    BY DEF AfterCtb
  <2>5. place \in JobPlaces
    BY <2>4 DEF JobPlaces
  <2>6. /\ \A q \in Jobs : entries'[q] = IF q = Job(t) THEN entries[q] + 1 ELSE entries[q]
        /\ DOMAIN entries' = Jobs /\ step'[t] = place /\ step' \in [Threads -> JobPlaces]
        /\ \A u \in Threads \ {t} :
             \/ step'[u] = step[u]
             \/ InFunc(u) /\ step[u] = "asleep" /\ step'[u] = "await"
    BY <1>1, <1>2, <2>1, <2>2, <2>3, <2>5, ReportIs
  <2>7. entries' \in [Jobs -> 0 .. Ctbs + Shift]
    <3>1. \A q \in Jobs : entries'[q] \in 0 .. Ctbs + Shift
      BY <1>0, <1>2, <2>2, <2>6
    <3>2. entries' = [q \in Jobs |-> entries'[q]]
      BY <1>0, <2>3 DEF Report
    <3> QED BY <3>1, <3>2
  <2>8. /\ place = "await" => decoded[r] < Ctbs
        /\ place = "finish" => decoded[r] = Ctbs \/ r = nbJobs - 1
    BY DEF AfterCtb
  <2>9. entries'[r] = decoded'[r] /\ row'[t] = r /\ decoded'[r] = decoded[r]
    BY <1>2, <2>1, <2>2, <2>6
  <2>10. place = "finish" => Complete(r)'
    BY <1>3, <2>1, <2>8 DEF Complete
  <2>11. EntryInv(t)'
    BY <1>4, <2>4, <2>6, <2>8, <2>9, <2>10 DEF EntryInv, HevcPlaces
  <2>12. \A q \in Jobs \ {Job(t)} : entries'[q] = entries[q] /\ decoded'[q] = decoded[q]
    BY <2>1, <2>6
  <2>13. entries'[Job(t)] \in Nat /\ entries'[Job(t)] >= entries[Job(t)]
    BY <1>2, <2>6
  <2>14. WavefrontInv'
    BY <1>1, <1>5, <2>1, <2>6, <2>11, <2>12, <2>13, RowKeepsOthers
  <2> QED BY <1>0, <1>1, <2>1, <2>6, <2>7, <2>14
<1>10. CASE HevcFail(t)
  <2>1. /\ UNCHANGED <<entries, cabacState, decoded, row>> /\ step[t] = "fail"
        /\ wppErr' = TRUE /\ step' = [step EXCEPT ![t] = "finish"]
    BY <1>10 DEF HevcFail, At, Step
  <2>2. row[t] = r /\ entries[r] = decoded[r]
    BY <1>2, <1>3, <2>1 DEF EntryInv
  <2>3. "finish" \in JobPlaces
    BY DEF JobPlaces
  <2>4. /\ step' \in [Threads -> JobPlaces] /\ step'[t] = "finish"
        /\ \A u \in Threads \ {t} : step'[u] = step[u] /\ row'[u] = row[u]
    BY <1>0, <2>1, <2>3
  <2>5. EntryInv(t)'
    BY <1>4, <2>1, <2>2, <2>4 DEF EntryInv, HevcPlaces, Complete
  <2>6. WavefrontInv'
    BY <1>1, <1>5, <2>1, <2>4, <2>5, RowKeepsOthers
  <2> QED BY <1>0, <1>1, <2>1, <2>4, <2>6
<1>11. CASE HevcFinish(t)
  <2>1. UNCHANGED <<wppErr, cabacState, decoded, row>> /\ step[t] = "finish"
    BY <1>11 DEF HevcFinish, At
  <2>2. row[t] = r /\ entries[r] = decoded[r] /\ Complete(r)
    BY <1>2, <1>3, <2>1 DEF EntryInv
  <2>3. "return" \in JobPlaces /\ Report(t, 2, "return")
    BY <1>11 DEF JobPlaces, HevcFinish
  <2>4. /\ \A q \in Jobs : entries'[q] = IF q = Job(t) THEN entries[q] + 2 ELSE entries[q]
        /\ DOMAIN entries' = Jobs /\ step'[t] = "return" /\ step' \in [Threads -> JobPlaces]
        /\ \A u \in Threads \ {t} :
             \/ step'[u] = step[u]
             \/ InFunc(u) /\ step[u] = "asleep" /\ step'[u] = "await"
    BY <1>1, <1>2, <2>1, <2>2, <2>3, ReportIs
  <2>5. entries' \in [Jobs -> 0 .. Ctbs + Shift]
    <3>1. \A q \in Jobs : entries'[q] \in 0 .. Ctbs + Shift
      BY <1>0, <1>2, <2>2, <2>4
    <3>2. entries' = [q \in Jobs |-> entries'[q]]
      BY <1>0, <2>3 DEF Report
    <3> QED BY <3>1, <3>2
  <2>6. entries'[r] = decoded'[r] + 2 /\ row'[t] = r /\ decoded'[r] = decoded[r]
    BY <1>2, <2>1, <2>2, <2>4
  <2>7. Complete(r)'
    BY <1>3, <2>1, <2>2 DEF Complete
  <2>8. EntryInv(t)'
    BY <1>4, <2>4, <2>6, <2>7 DEF EntryInv, HevcPlaces
  <2>9. \A q \in Jobs \ {Job(t)} : entries'[q] = entries[q] /\ decoded'[q] = decoded[q]
    BY <2>1, <2>4
  <2>10. entries'[Job(t)] \in Nat /\ entries'[Job(t)] >= entries[Job(t)]
    BY <1>2, <2>4
  <2>11. WavefrontInv'
    BY <1>1, <1>5, <2>1, <2>4, <2>8, <2>9, <2>10, RowKeepsOthers
  <2> QED BY <1>0, <1>1, <2>1, <2>4, <2>5, <2>11
<1> QED BY <1>6, <1>7, <1>8, <1>9, <1>10, <1>11 DEF HevcStep

-----------------------------------------------------------------------------
(* VP9: the columns of tiles and the rows they report *)

(* The columns that have decoded a row are some of those of the frame, or all. *)
LEMMA ColumnFacts ==
  ASSUME PoolInv, NEW y
  PROVE  /\ IsFiniteSet(Columns(y)) /\ Cardinality(Columns(y)) \in 0 .. nbJobs
         /\ Cardinality(Columns(y)) = nbJobs => Columns(y) = 0 .. nbJobs - 1
<1>1. nbJobs \in Nat
  BY ThreadFacts DEF PoolInv, PoolTypeOK
<1>2. IsFiniteSet(0 .. nbJobs - 1) /\ Cardinality(0 .. nbJobs - 1) = nbJobs
  BY <1>1, FS_Interval
<1>3. Columns(y) \subseteq 0 .. nbJobs - 1
  BY DEF Columns
<1>4. /\ IsFiniteSet(Columns(y)) /\ Cardinality(Columns(y)) <= nbJobs
      /\ Cardinality(Columns(y)) = nbJobs => Columns(y) = 0 .. nbJobs - 1
  BY <1>2, <1>3, FS_Subset
<1>5. Cardinality(Columns(y)) \in Nat
  BY <1>4, FS_CardinalityType
<1> QED BY <1>1, <1>4, <1>5

(* Only Main is in a main function, and only workers have tiles. *)
LEMMA TileFacts ==
  ASSUME PoolInv, JobInv, codec = "vp9"
  PROVE  /\ \A t \in Threads : pc[t] = "job" => t \in Workers /\ t # Main
         /\ \A t \in Workers : InFunc(t) <=> pc[t] = "job"
         /\ InFunc(Main) <=> pc[Main] = "mainfunc"
         /\ \A t \in Workers : pc[t] = "job" =>
              Job(t) \in 0 .. nbJobs - 1 /\ runs[Job(t)] = 1 /\ Job(t) \in Jobs
         /\ \A t, u \in Workers : pc[t] = "job" /\ pc[u] = "job" /\ Job(t) = Job(u) => t = u
<1>1. nbJobs \in Nat
  BY ThreadFacts DEF PoolInv, PoolTypeOK
<1>2. pc[Main] # "job"
  BY MainPlacesFacts
<1>3. \A t \in Workers : t \in Threads /\ t # Main
  BY ThreadFacts
<1>4. \A t \in Workers : pc[t] = "job" =>
        Job(t) \in Jobs /\ Job(t) < nbJobs /\ runs[Job(t)] = 1
  BY <1>3 DEF JobInv, JobsOnce
<1> QED BY <1>1, <1>2, <1>3, <1>4, ThreadFacts DEF InFunc, JobInv, JobsOnce, Jobs

(* A column that reports a row is one more that has decoded it. *)
LEMMA ReportIsCounted ==
  ASSUME PoolInv, JobInv, TilesInv, codec = "vp9", UNCHANGED vars,
         NEW t \in Workers, pc[t] = "job", row[t] \in 0 .. SbRows - 1,
         row' = [row EXCEPT ![t] = row[t] + 1],
         tileEntries' = [tileEntries EXCEPT ![row[t]] = tileEntries[row[t]] + 1]
  PROVE  \A y \in 0 .. SbRows - 1 : tileEntries'[y] = Cardinality(Columns(y)')
<1> USE TileFacts
<1>0. row \in [Threads -> Nat] /\ tileEntries \in [0 .. SbRows - 1 -> Nat]
  BY DEF JobInv, DataTypes
<1>1. UNCHANGED <<pc, local, runs, nbJobs>>
  BY DEF vars, ctxVars
<1>2. \A u \in Workers : u \in Threads /\ Job(u)' = Job(u)
                         /\ row'[u] = IF u = t THEN row[t] + 1 ELSE row[u]
  BY <1>0, <1>1, ThreadFacts DEF Job
<1> SUFFICES ASSUME NEW y \in 0 .. SbRows - 1
             PROVE  tileEntries'[y] = Cardinality(Columns(y)')
  OBVIOUS
<1>3. tileEntries[y] = Cardinality(Columns(y))
  BY DEF TilesInv
<1>4. CASE y # row[t]
  <2>1. \A u \in Workers : row'[u] > y <=> row[u] > y
    BY <1>0, <1>2, <1>4
  <2>2. Columns(y)' = Columns(y)
    BY <1>1, <1>2, <2>1 DEF Columns
  <2> QED BY <1>0, <1>3, <1>4, <2>2
<1>5. CASE y = row[t]
  <2>1. \A u \in Workers : u # t => (row'[u] > y <=> row[u] > y)
    BY <1>2
  <2>2. row'[t] > y /\ ~(row[t] > y)
    BY <1>0, <1>2, <1>5
  <2>3. Job(t) \notin Columns(y)
    BY <2>2 DEF Columns
  <2>4. Columns(y)' = Columns(y) \cup {Job(t)}
    <3>1. \A j : j \in Columns(y)' <=> j \in Columns(y) \/ j = Job(t)
      BY <1>1, <1>2, <2>1, <2>2 DEF Columns
    <3> QED BY <3>1
  <2>5. Cardinality(Columns(y) \cup {Job(t)}) = Cardinality(Columns(y)) + 1
    BY <2>3, ColumnFacts, FS_AddElement
  <2> QED BY <1>0, <1>3, <1>5, <2>4, <2>5
<1> QED BY <1>4, <1>5

(* A step of a tile or of the loop filter keeps the counts. *)
LEMMA Vp9KeepsTiles ==
  ASSUME PoolInv, JobInv, TilesInv, codec = "vp9", codec' = "vp9", UNCHANGED vars,
         NEW t \in Threads, Vp9Step(t)
  PROVE  /\ TilesInv'
         /\ \A u \in Threads : ~InFunc(u) => step'[u] = step[u] /\ row'[u] = row[u]
         /\ step' \in [Threads -> JobPlaces] /\ row' \in [Threads -> Nat]
         /\ tileEntries' \in [0 .. SbRows - 1 -> Nat]
<1> USE TileFacts
<1>0. /\ step \in [Threads -> JobPlaces] /\ row \in [Threads -> Nat]
      /\ tileEntries \in [0 .. SbRows - 1 -> Nat] /\ SbRows \in Nat /\ nbJobs \in Nat
  <2>1. SbRows \in Nat /\ nbJobs \in Nat
    BY ThreadFacts, SbRowsAssumption DEF PoolInv, PoolTypeOK
  <2> QED BY <2>1 DEF JobInv, DataTypes
<1>1. UNCHANGED <<pc, local, runs, nbJobs>>
  BY DEF vars, ctxVars
<1>2. \A u \in Threads : (Job(u)' = Job(u)) /\ (InFunc(u)' <=> InFunc(u))
  BY <1>1 DEF Job, InFunc
<1>3. {"begin", "report", "return", "lock", "asleep", "filter"} \subseteq JobPlaces
  BY DEF JobPlaces
<1>4. ASSUME row' = [u \in Threads |-> IF u = Main THEN row'[Main] ELSE row[u]],
             UNCHANGED tileEntries
      PROVE  \A y \in 0 .. SbRows - 1 : tileEntries'[y] = Cardinality(Columns(y)')
  <2>1. \A u \in Workers : u \in Threads /\ u # Main /\ row'[u] = row[u] /\ Job(u)' = Job(u)
    BY <1>2, <1>4, ThreadFacts
  <2>2. \A y \in 0 .. SbRows - 1 : Columns(y)' = Columns(y)
    BY <1>1, <2>1 DEF Columns
  <2> QED BY <1>4, <2>2 DEF TilesInv
<1>5. CASE DecodeTile(t)
  <2>1. /\ pc[t] = "job" /\ step[t] = "begin" /\ t \in Workers /\ t # Main
        /\ step' = [step EXCEPT ![t] = "report"] /\ UNCHANGED <<row, tileEntries>>
    BY <1>5, ThreadFacts DEF DecodeTile, At, Step
  <2>2. row[t] < SbRows
    BY <2>1 DEF TilesInv
  <2>3. row' = [u \in Threads |-> IF u = Main THEN row'[Main] ELSE row[u]]
    BY <1>0, <2>1
  <2>4. \A y \in 0 .. SbRows - 1 : tileEntries'[y] = Cardinality(Columns(y)')
    BY <1>4, <2>1, <2>3
  <2>5. step' \in [Threads -> JobPlaces]
    BY <1>0, <1>3, <2>1
  <2>6. \A u \in Threads : step'[u] = IF u = t THEN "report" ELSE step[u]
    BY <1>0, <2>1
  <2>7. TilesInv'
    BY <1>1, <1>2, <2>1, <2>2, <2>4, <2>6, ThreadFacts DEF TilesInv, At
  <2> QED BY <1>0, <2>1, <2>5, <2>6, <2>7
<1>6. CASE ReportTile(t)
  <2>1. /\ InFunc(t) /\ step[t] = "report" /\ row' = [row EXCEPT ![t] = row[t] + 1]
        /\ tileEntries' = [tileEntries EXCEPT ![row[t]] = tileEntries[row[t]] + 1]
    BY <1>6 DEF ReportTile, At
  <2>2. t \in Workers /\ t # Main /\ pc[t] = "job" /\ row[t] < SbRows
    BY <2>1, ThreadFacts DEF TilesInv
  <2>3. row[t] \in 0 .. SbRows - 1
    BY <1>0, <2>2
  <2>4. \A y \in 0 .. SbRows - 1 : tileEntries'[y] = Cardinality(Columns(y)')
    BY <2>1, <2>2, <2>3, ReportIsCounted
  <2>5. \A u \in Threads :
          step'[u] = IF u = t THEN IF row[t] + 1 < SbRows THEN "begin" ELSE "return"
                     ELSE IF u = Main /\ At(Main, "asleep") THEN "lock" ELSE step[u]
    BY <1>0, <1>6, <2>2, ThreadFacts DEF ReportTile
  <2>6. step' = [u \in Threads |-> step'[u]]
    BY <1>0, <1>6 DEF ReportTile
  <2>7. step' \in [Threads -> JobPlaces]
    <3>1. \A u \in Threads : step'[u] \in JobPlaces
      BY <1>0, <1>3, <2>5
    <3> QED BY <2>6, <3>1
  <2>8. row' \in [Threads -> Nat] /\ tileEntries' \in [0 .. SbRows - 1 -> Nat]
    BY <1>0, <2>1, <2>3
  <2>9. \A u \in Threads : row'[u] = IF u = t THEN row[t] + 1 ELSE row[u]
    BY <1>0, <2>1
  <2>10. \A y \in 0 .. SbRows - 1 : tileEntries'[y] >= tileEntries[y]
    BY <1>0, <2>1, <2>3
  <2>11. At(Main, "filter")' =>
           /\ At(Main, "filter") /\ row'[Main] = row[Main]
           /\ row[Main] \in 0 .. SbRows - 1
    <3>1. pc[Main] = "mainfunc" /\ step[Main] = "filter" => row[Main] < SbRows
      BY DEF TilesInv
    <3> QED BY <1>0, <1>2, <2>2, <2>5, <2>9, <3>1, ThreadFacts DEF At
  <2>12. At(Main, "filter")' => tileEntries'[row'[Main]] >= nbJobs
    <3>1. PICK y : y = row[Main]
      OBVIOUS
    <3>2. At(Main, "filter") => tileEntries[y] >= nbJobs
      BY <3>1 DEF TilesInv
    <3> QED BY <1>0, <2>8, <2>10, <2>11, <3>1, <3>2
  <2>13. \A u \in Workers : pc'[u] = "job" =>
           \/ step'[u] \in {"begin", "report"} /\ row'[u] < SbRows
           \/ step'[u] = "return" /\ row'[u] = SbRows
    <3> SUFFICES ASSUME NEW u \in Workers, pc[u] = "job"
                 PROVE  \/ step'[u] \in {"begin", "report"} /\ row'[u] < SbRows
                        \/ step'[u] = "return" /\ row'[u] = SbRows
      BY <1>1
    <3>1. u \in Threads /\ u # Main
      BY ThreadFacts
    <3>2. CASE u = t
      BY <1>0, <2>2, <2>5, <2>9, <3>1, <3>2
    <3>3. CASE u # t
      BY <2>5, <2>9, <3>1, <3>3 DEF TilesInv
    <3> QED BY <3>2, <3>3
  <2>14. pc'[Main] = "mainfunc" =>
           \/ step'[Main] \in {"begin", "lock", "asleep", "filter"} /\ row'[Main] < SbRows
           \/ step'[Main] = "return"
    <3>1. pc[Main] = "mainfunc" =>
            \/ step[Main] \in {"begin", "lock", "asleep", "filter"} /\ row[Main] < SbRows
            \/ step[Main] = "return"
      BY DEF TilesInv
    <3> QED BY <1>1, <2>2, <2>5, <2>9, <3>1, ThreadFacts DEF At
  <2>15. TilesInv'
    BY <1>1, <2>4, <2>12, <2>13, <2>14 DEF TilesInv
  <2>16. \A u \in Threads : ~InFunc(u) => step'[u] = step[u] /\ row'[u] = row[u]
    BY <2>1, <2>5, <2>9 DEF At
  <2> QED BY <2>7, <2>8, <2>15, <2>16
<1>7. CASE t = Main /\ (LookAtTiles \/ AwaitTiles \/ FilterTiles)
  <2>1. PICK place \in {"begin", "return", "filter", "lock", "asleep"} :
          /\ step' = [step EXCEPT ![Main] = place]
          /\ place = "filter" => tileEntries[row[Main]] >= nbJobs /\ row' = row
          /\ place \in {"lock", "asleep"} => row' = row
          /\ place = "begin" => row'[Main] < SbRows
          /\ step[Main] \in {"begin", "lock", "filter"}
    <3>1. CASE LookAtTiles
      BY <3>1 DEF LookAtTiles, Step, At
    <3>2. CASE AwaitTiles
      <4>1. step[Main] = "lock" /\ row' = row
        BY <3>2 DEF AwaitTiles, At
      <4>2. \/ step' = [step EXCEPT ![Main] = "filter"] /\ tileEntries[row[Main]] = nbJobs
            \/ step' = [step EXCEPT ![Main] = "asleep"]
        BY <3>2 DEF AwaitTiles, Step
      <4>3. tileEntries[row[Main]] = nbJobs => tileEntries[row[Main]] >= nbJobs
        BY <1>0
      <4> QED BY <4>1, <4>2, <4>3
    <3>3. CASE FilterTiles
      BY <1>0, <3>3, ThreadFacts DEF FilterTiles, NextRow, Step, At
    <3> QED BY <1>7, <3>1, <3>2, <3>3
  <2>2. pc[Main] = "mainfunc" /\ UNCHANGED tileEntries /\ InFunc(Main)
        /\ (row' = row \/ row' = [row EXCEPT ![Main] = row[Main] + 1])
    BY <1>7 DEF LookAtTiles, AwaitTiles, FilterTiles, NextRow, At
  <2>3. /\ row' \in [Threads -> Nat]
        /\ \A u \in Threads : u # Main => row'[u] = row[u]
        /\ row' = [u \in Threads |-> IF u = Main THEN row'[Main] ELSE row[u]]
    <3>1. CASE row' = row
      BY <1>0, <3>1
    <3>2. CASE row' = [row EXCEPT ![Main] = row[Main] + 1]
      <4>1. row[Main] + 1 \in Nat
        BY <1>0, ThreadFacts
      <4>2. row' \in [Threads -> Nat] /\ \A u \in Threads : u # Main => row'[u] = row[u]
        BY <1>0, <3>2, <4>1
      <4> QED BY <4>2
    <3> QED BY <2>2, <3>1, <3>2
  <2>4. \A u \in Threads : step'[u] = IF u = Main THEN place ELSE step[u]
    BY <1>0, <2>1
  <2>5. step' \in [Threads -> JobPlaces]
    BY <1>0, <1>3, <2>1
  <2>6. \A y \in 0 .. SbRows - 1 : tileEntries'[y] = Cardinality(Columns(y)')
    BY <1>4, <2>2, <2>3
  <2>7. At(Main, "filter")' => tileEntries'[row'[Main]] >= nbJobs
    BY <2>1, <2>2, <2>4, ThreadFacts DEF At
  <2>8. row[Main] < SbRows
    BY <2>1, <2>2 DEF TilesInv
  <2>9. \/ step'[Main] \in {"begin", "lock", "asleep", "filter"} /\ row'[Main] < SbRows
        \/ step'[Main] = "return"
    BY <2>1, <2>4, <2>8, ThreadFacts
  <2>10. \A u \in Workers : pc'[u] = "job" =>
           \/ step'[u] \in {"begin", "report"} /\ row'[u] < SbRows
           \/ step'[u] = "return" /\ row'[u] = SbRows
    BY <1>1, <2>3, <2>4, ThreadFacts DEF TilesInv
  <2>11. TilesInv'
    BY <1>1, <2>6, <2>7, <2>9, <2>10 DEF TilesInv
  <2>12. \A u \in Threads : ~InFunc(u) => step'[u] = step[u] /\ row'[u] = row[u]
    BY <2>2, <2>3, <2>4
  <2> QED BY <1>0, <2>2, <2>3, <2>5, <2>11, <2>12
<1> QED BY <1>5, <1>6, <1>7 DEF Vp9Step

-----------------------------------------------------------------------------
(* The pool calls and ends the jobs of a wavefront, and the columns of tiles *)

(* Between two calls the rows of a wavefront stay. *)
LEMMA QuietKeepsWavefront ==
  ASSUME WavefrontInv, Quiet, UNCHANGED codecVars
  PROVE  WavefrontInv'
<1>1. /\ UNCHANGED <<codec, step, row, entries, wppErr, cabacState, decoded, nbJobs, runs>>
      /\ \A t \in Threads : (pc'[t] = "job" <=> pc[t] = "job")
                            /\ (pc[t] = "job" => Job(t)' = Job(t))
  BY DEF codecVars, jobVars, hevcVars, Quiet, Job
<1>2. \A t \in Threads : EntryInv(t) /\ Job(t)' = Job(t) => EntryInv(t)'
  BY <1>1 DEF EntryInv, Complete
<1>3. \A t \in Threads : codec = "hevc" /\ pc'[t] = "job" => EntryInv(t)'
  BY <1>1, <1>2 DEF WavefrontInv
<1>4. \A j \in Jobs : NotCalled(j)' <=> NotCalled(j)
  BY <1>1 DEF NotCalled
<1>5. \A j \in Jobs : (Returned(j)' <=> Returned(j)) /\ (Complete(j)' <=> Complete(j))
  BY <1>1 DEF Returned, Complete
<1> QED BY <1>1, <1>3, <1>4, <1>5 DEF WavefrontInv

(* A row that is called has decoded nothing. *)
LEMMA TakesKeepsWavefront ==
  ASSUME PoolInv, JobInv, WavefrontInv, NEW t \in Threads, NEW j \in Jobs, Takes(t, j),
         UNCHANGED codecVars
  PROVE  WavefrontInv'
<1>0. PcTypeOK /\ runs \in [Jobs -> Nat]
  BY DEF PoolInv, PoolTypeOK, PcTypeOK
<1>1. /\ UNCHANGED <<codec, step, row, entries, wppErr, cabacState, decoded, nbJobs>>
      /\ \A u \in Threads : u # t => pc'[u] = pc[u] /\ Job(u)' = Job(u)
      /\ pc'[t] = "job" /\ Job(t)' = j /\ pc[t] \notin {"job", "mainfunc"} /\ runs[j] = 0
      /\ \A q \in Jobs : runs'[q] = IF q = j THEN 1 ELSE runs[q]
  BY <1>0 DEF codecVars, jobVars, hevcVars, Takes, Job, PcTypeOK
<1> SUFFICES ASSUME codec = "hevc" PROVE WavefrontInv'
  BY <1>1 DEF WavefrontInv
<1>2. \A u \in Threads : EntryInv(u) /\ Job(u)' = Job(u) => EntryInv(u)'
  BY <1>1 DEF EntryInv, Complete
<1>3. step[t] = "begin"
  BY <1>1 DEF JobInv, JobsOnce, InFunc
<1>4. entries[j] = 0 /\ decoded[j] = 0
  BY <1>1 DEF WavefrontInv, NotCalled
<1>5. EntryInv(t)'
  BY <1>1, <1>3, <1>4 DEF EntryInv, HevcPlaces
<1>6. \A u \in Threads : pc'[u] = "job" => EntryInv(u)'
  BY <1>1, <1>2, <1>5 DEF WavefrontInv
<1>7. \A q \in Jobs : NotCalled(q)' => NotCalled(q)
  BY <1>1 DEF NotCalled
<1>8. \A q \in Jobs : (Returned(q)' => Returned(q)) /\ (Complete(q)' <=> Complete(q))
  BY <1>1 DEF Returned, Complete
<1> QED BY <1>1, <1>6, <1>7, <1>8 DEF WavefrontInv

(* A row that returns has reported all that it will. *)
LEMMA EndsKeepsWavefront ==
  ASSUME PoolInv, JobInv, WavefrontInv, NEW t \in Threads, Ends(t),
         codec # "independent" => step[t] = "return",
         step' = [step EXCEPT ![t] = "begin"], row' = [row EXCEPT ![t] = 0],
         UNCHANGED <<codec, hevcVars>>
  PROVE  WavefrontInv'
<1>0. PcTypeOK /\ step \in [Threads -> JobPlaces] /\ row \in [Threads -> Nat]
  BY DEF PoolInv, PoolTypeOK, PcTypeOK, JobInv, DataTypes
<1>1. /\ UNCHANGED <<codec, entries, wppErr, cabacState, decoded, nbJobs, runs>>
      /\ \A u \in Threads : Job(u)' = Job(u)
      /\ \A u \in Threads : u # t => pc'[u] = pc[u] /\ step'[u] = step[u] /\ row'[u] = row[u]
      /\ pc'[t] # "job" /\ pc[t] = "job"
  BY <1>0 DEF hevcVars, Ends, Job, PcTypeOK
<1> SUFFICES ASSUME codec = "hevc" PROVE WavefrontInv'
  BY <1>1 DEF WavefrontInv
<1>2. \A u \in Threads : u # t /\ EntryInv(u) => EntryInv(u)'
  BY <1>1 DEF EntryInv, Complete
<1>3. \A u \in Threads : pc'[u] = "job" => EntryInv(u)'
  BY <1>1, <1>2 DEF WavefrontInv
<1>4. \A q \in Jobs : (NotCalled(q)' <=> NotCalled(q)) /\ (Complete(q)' <=> Complete(q))
  BY <1>1 DEF NotCalled, Complete
<1>5. \A q \in Jobs : Returned(q)' => Returned(q) \/ q = Job(t)
  BY <1>1 DEF Returned
<1>6. entries[Job(t)] = decoded[Job(t)] + Shift /\ Complete(Job(t))
  <2>1. EntryInv(t) /\ step[t] = "return"
    BY <1>1 DEF WavefrontInv
  <2> QED BY <2>1 DEF EntryInv
<1> QED BY <1>1, <1>3, <1>4, <1>5, <1>6 DEF WavefrontInv

(* Between two calls no column of tiles is added, and Main may begin to filter. *)
LEMMA QuietKeepsTiles ==
  ASSUME PoolInv, JobInv, TilesInv, Quiet, UNCHANGED codecVars
  PROVE  TilesInv'
<1>1. /\ UNCHANGED <<codec, step, row, tileEntries, nbJobs, runs>>
      /\ \A t \in Threads : (pc'[t] = "job" <=> pc[t] = "job")
                            /\ (pc[t] = "job" => Job(t)' = Job(t))
  BY DEF codecVars, jobVars, Quiet, Job
<1>2. \A t \in Workers : t \in Threads
  BY ThreadFacts
<1>3. \A y \in 0 .. SbRows - 1 : Columns(y)' = Columns(y)
  BY <1>1, <1>2 DEF Columns
<1>4. pc[Main] # "mainfunc" /\ pc[Main] # "job" => step[Main] = "begin" /\ row[Main] = 0
  BY ThreadFacts DEF JobInv, JobsOnce, InFunc
<1>5. codec = "vp9" => pc[Main] # "job"
  BY MainPlacesFacts
<1>6. codec = "vp9" /\ pc'[Main] = "mainfunc" =>
        /\ \/ step'[Main] \in {"begin", "lock", "asleep", "filter"} /\ row'[Main] < SbRows
           \/ step'[Main] = "return"
        /\ step'[Main] = "filter" => tileEntries'[row'[Main]] >= nbJobs'
  <2>1. 0 < SbRows
    BY SbRowsAssumption
  <2>2. CASE pc[Main] = "mainfunc"
    BY <1>1, <2>2, ThreadFacts DEF TilesInv, At, InFunc
  <2>3. CASE pc[Main] # "mainfunc"
    BY <1>1, <1>4, <1>5, <2>1, <2>3
  <2> QED BY <2>2, <2>3
<1>7. pc'[Main] # "job" \/ codec # "vp9"
  BY <1>1, <1>5, ThreadFacts
<1> QED BY <1>1, <1>2, <1>3, <1>6, <1>7 DEF TilesInv, At, InFunc

(* A column that is called has decoded no row. *)
LEMMA TakesKeepsTiles ==
  ASSUME PoolInv, JobInv, PoolInv', JobInv', TilesInv, NEW t \in Threads, NEW j \in Jobs,
         Takes(t, j), UNCHANGED codecVars
  PROVE  TilesInv'
<1>0. PcTypeOK /\ runs \in [Jobs -> Nat]
  BY DEF PoolInv, PoolTypeOK, PcTypeOK
<1>1. /\ UNCHANGED <<codec, step, row, tileEntries, nbJobs>>
      /\ \A u \in Threads : u # t => pc'[u] = pc[u] /\ Job(u)' = Job(u)
      /\ pc'[t] = "job" /\ Job(t)' = j /\ pc[t] \notin {"job", "mainfunc"} /\ runs[j] = 0
      /\ \A q \in Jobs : runs'[q] = IF q = j THEN 1 ELSE runs[q]
  BY <1>0 DEF codecVars, jobVars, Takes, Job, PcTypeOK
<1> SUFFICES ASSUME codec = "vp9" PROVE TilesInv'
  BY <1>1 DEF TilesInv
<1>2. t # Main
  <2>1. codec' = "vp9"
    BY <1>1
  <2>2. mainJobs' /\ Busy'
    BY <2>1 DEF JobInv, UseInv, Takes
  <2>3. pc'[Main] \notin RunPlaces
    BY <2>2 DEF PoolInv, PlaceInv
  <2> QED BY <1>1, <2>3 DEF RunPlaces
<1>3. t \in Workers /\ \A u \in Workers : u \in Threads
  BY <1>2, ThreadFacts
<1>4. step[t] = "begin" /\ row[t] = 0
  BY <1>1 DEF JobInv, JobsOnce, InFunc
<1>5. \A y \in 0 .. SbRows - 1 : Columns(y)' = Columns(y)
  <2> TAKE y \in 0 .. SbRows - 1
  <2>1. \A q \in Jobs : q # j => (q \in Columns(y)' <=> q \in Columns(y))
    BY <1>1, <1>3 DEF Columns
  <2>2. j \notin Columns(y)' /\ j \notin Columns(y)
    BY <1>1, <1>3, <1>4 DEF Columns
  <2>3. \A q \in 0 .. nbJobs - 1 : q \in Jobs
    BY ThreadFacts DEF PoolInv, PoolTypeOK, Jobs
  <2>4. Columns(y) \subseteq 0 .. nbJobs - 1 /\ Columns(y)' \subseteq 0 .. nbJobs - 1
    BY <1>1 DEF Columns
  <2> QED BY <2>1, <2>2, <2>3, <2>4
<1>6. \A u \in Workers : pc'[u] = "job" =>
        \/ step'[u] \in {"begin", "report"} /\ row'[u] < SbRows
        \/ step'[u] = "return" /\ row'[u] = SbRows
  BY <1>1, <1>3, <1>4, SbRowsAssumption DEF TilesInv
<1>7. pc'[Main] = pc[Main]
  BY <1>1, <1>2, ThreadFacts
<1> QED BY <1>1, <1>5, <1>6, <1>7 DEF TilesInv, At, InFunc

(* A column that returns has decoded every row. *)
LEMMA EndsKeepsTiles ==
  ASSUME PoolInv, JobInv, TilesInv, NEW t \in Threads,
         Ends(t) \/ (t = Main /\ MainFuncReturns),
         codec # "independent" => step[t] = "return",
         step' = [step EXCEPT ![t] = "begin"], row' = [row EXCEPT ![t] = 0],
         UNCHANGED <<codec, tileEntries>>
  PROVE  TilesInv'
<1> USE TileFacts
<1>0. /\ PcTypeOK /\ step \in [Threads -> JobPlaces] /\ row \in [Threads -> Nat]
      /\ runs \in [Jobs -> Nat]
  BY DEF PoolInv, PoolTypeOK, PcTypeOK, JobInv, DataTypes
<1>1. /\ UNCHANGED <<codec, tileEntries, nbJobs, runs>>
      /\ \A u \in Threads : Job(u)' = Job(u)
      /\ \A u \in Threads : u # t => pc'[u] = pc[u] /\ step'[u] = step[u] /\ row'[u] = row[u]
      /\ pc'[t] \notin {"job", "mainfunc"}
      /\ pc[t] = "job" \/ (t = Main /\ pc[t] = "mainfunc")
  BY <1>0 DEF Ends, MainFuncReturns, Goto, ctxVars, Job, PcTypeOK
<1> SUFFICES ASSUME codec = "vp9" PROVE TilesInv'
  BY <1>1 DEF TilesInv
<1>2. \A u \in Workers : u \in Threads
  BY ThreadFacts
<1>3. t \in Workers => row[t] = SbRows
  BY <1>1, ThreadFacts DEF TilesInv
<1>4. \A y \in 0 .. SbRows - 1 : Columns(y)' = Columns(y)
  <2> TAKE y \in 0 .. SbRows - 1
  <2>1. t \in Workers => row[t] > y
    BY <1>3, SbRowsAssumption
  <2>2. \A u \in Workers : (pc'[u] = "job" <=> pc[u] = "job" /\ u # t)
                           /\ (u # t => row'[u] = row[u] /\ Job(u)' = Job(u))
    BY <1>1, <1>2
  <2> QED BY <1>1, <2>1, <2>2 DEF Columns
<1>5. \A u \in Workers : pc'[u] = "job" =>
        \/ step'[u] \in {"begin", "report"} /\ row'[u] < SbRows
        \/ step'[u] = "return" /\ row'[u] = SbRows
  BY <1>1, <1>2 DEF TilesInv
<1>6. t = Main => pc'[Main] \notin {"job", "mainfunc"}
  BY <1>1
<1>7. t # Main => pc'[Main] = pc[Main] /\ step'[Main] = step[Main] /\ row'[Main] = row[Main]
  BY <1>1, ThreadFacts
<1> QED BY <1>1, <1>4, <1>5, <1>6, <1>7 DEF TilesInv, At, InFunc

-----------------------------------------------------------------------------
(* VP8: rows, jobs and progress *)

(* The numbers of rows and jobs. *)
LEMMA RowFacts ==
  ASSUME PoolInv, JobInv, codec = "vp8"
  PROVE  /\ \A t \in Threads : InFunc(t) <=> pc[t] = "job"
         /\ \A t \in Threads : pc[t] = "job" =>
              /\ Job(t) \in Jobs /\ Job(t) \in Nat /\ Job(t) < nbJobs
              /\ local[t].nr = Job(t) /\ nbJobs > 0
         /\ nbJobs \in Nat /\ MbWidth \in Nat /\ MbWidth > 0 /\ MbHeight \in Nat /\ MbHeight > 0
         /\ \A t \in Threads : row[t] \in Nat /\ col[t] \in Nat /\ col[t] <= 2 * MbWidth
         /\ \A j \in Jobs : mbPos[j] \in Nat
         /\ \A t, u \in Threads : pc[t] = "job" /\ pc[u] = "job" /\ Job(t) = Job(u) => t = u
         /\ \A j \in 0 .. nbJobs - 1 : j \in Jobs
<1>1. nbJobs \in Nat /\ MbWidth \in Nat /\ MbWidth > 0 /\ MbHeight \in Nat /\ MbHeight > 0
  BY ThreadFacts, MbAssumption DEF PoolInv, PoolTypeOK
<1>2. \A t \in Threads : InFunc(t) <=> pc[t] = "job"
  BY MainPlacesFacts
<1>3. \A t \in Threads : pc[t] = "job" =>
        Job(t) \in Jobs /\ Job(t) < nbJobs /\ local[t].nr = Job(t)
  BY DEF JobInv, JobsOnce, UseInv
<1>4. \A t, u \in Threads : pc[t] = "job" /\ pc[u] = "job" /\ Job(t) = Job(u) => t = u
  BY DEF JobInv, JobsOnce
<1>5. \A t \in Threads : row[t] \in Nat /\ col[t] \in 0 .. 2 * MbWidth
  BY DEF JobInv, DataTypes
<1>6. \A j \in Jobs : mbPos[j] \in Nat
  BY DEF JobInv, DataTypes
<1>7. \A j \in 0 .. nbJobs - 1 : j \in Jobs
  BY ThreadFacts DEF PoolInv, PoolTypeOK, Jobs
<1>8. \A j \in Jobs : j \in Nat
  BY DEF Jobs
<1> QED BY <1>1, <1>2, <1>3, <1>4, <1>5, <1>6, <1>7, <1>8

(* What a remainder is. *)
LEMMA RemainderIs ==
  \A n \in Nat \ {0}, q, j \in Nat : j < n => (n * q + j) % n = j
BY SMTT(30)

(* Any row is of one of the jobs. *)
LEMMA RemainderInRange == \A n \in Nat \ {0}, y \in Nat : y % n \in 0 .. n - 1
OBVIOUS

(* The row above, and the row below, are of the jobs that PrevJob and NextJob name. *)
LEMMA NeighbourJobs ==
  \A n \in Nat \ {0}, k, j \in Nat : j < n =>
    /\ n * k + j > 0 => (n * k + j - 1) % n = (j + n - 1) % n
    /\ (n * k + j + 1) % n = (j + 1) % n
<1> SUFFICES ASSUME NEW n \in Nat \ {0}, NEW k \in Nat, NEW j \in Nat, j < n
             PROVE  /\ n * k + j > 0 => (n * k + j - 1) % n = (j + n - 1) % n
                    /\ (n * k + j + 1) % n = (j + 1) % n
  OBVIOUS
<1>1. n * 0 = 0 /\ n * 1 = n
  BY SMTT(30)
<1>2. n * k \in Nat /\ n * (k + 1) = n * k + n /\ (k > 0 => n * (k - 1) = n * k - n)
  BY SMTT(30)
<1>3. ASSUME j > 0 PROVE (n * k + j - 1) % n = (j + n - 1) % n
  <2>1. (n * k + (j - 1)) % n = j - 1
    BY <1>3, RemainderIs
  <2>2. (n * 1 + (j - 1)) % n = j - 1
    BY <1>3, RemainderIs
  <2>3. n * k + j - 1 = n * k + (j - 1) /\ j + n - 1 = n * 1 + (j - 1)
    BY <1>1, <1>2, <1>3
  <2> QED BY <2>1, <2>2, <2>3
<1>4. ASSUME j = 0, k > 0 PROVE (n * k + j - 1) % n = (j + n - 1) % n
  <2>1. (n * (k - 1) + (n - 1)) % n = n - 1
    BY <1>4, RemainderIs
  <2>2. (n * 0 + (n - 1)) % n = n - 1
    BY RemainderIs
  <2>3. n * k + j - 1 = n * (k - 1) + (n - 1) /\ j + n - 1 = n * 0 + (n - 1)
    BY <1>1, <1>2, <1>4
  <2> QED BY <2>1, <2>2, <2>3
<1>5. n * k + j > 0 => (n * k + j - 1) % n = (j + n - 1) % n
  <2>1. k = 0 /\ j = 0 => ~(n * k + j > 0)
    BY <1>1
  <2> QED BY <1>3, <1>4, <2>1
<1>6. ASSUME j + 1 < n PROVE (n * k + j + 1) % n = (j + 1) % n
  <2>1. (n * k + (j + 1)) % n = j + 1
    BY <1>6, RemainderIs
  <2>2. (n * 0 + (j + 1)) % n = j + 1
    BY <1>6, RemainderIs
  <2>3. n * k + j + 1 = n * k + (j + 1) /\ n * 0 + (j + 1) = j + 1
    BY <1>1, <1>2
  <2> QED BY <2>1, <2>2, <2>3
<1>7. ASSUME j + 1 = n PROVE (n * k + j + 1) % n = (j + 1) % n
  <2>1. (n * (k + 1) + 0) % n = 0
    BY RemainderIs
  <2>2. (n * 1 + 0) % n = 0
    BY RemainderIs
  <2>3. n * k + j + 1 = n * (k + 1) + 0 /\ j + 1 = n * 1 + 0
    BY <1>1, <1>2, <1>7
  <2>4. (n * k + j + 1) % n = 0
    BY <2>1, <2>3, Zenon
  <2>5. (j + 1) % n = 0
    BY <2>2, <2>3, Zenon
  <2> QED BY <2>4, <2>5, Zenon
<1> QED BY <1>5, <1>6, <1>7

\* The progress of a row, by the thread that runs its job.
ProgressFacts ==
  codec = "vp8" /\ nbJobs > 0 =>
    \A y \in 0 .. MbHeight - 1 :
      /\ \A t \in Threads : pc[t] = "job" /\ Job(t) = y % nbJobs => Progress(y) = Within(t, y)
      /\ (\A t \in Threads : pc[t] = "job" => Job(t) # y % nbJobs) =>
           Progress(y) = IF runs[y % nbJobs] = 1 THEN 2 * MbWidth ELSE 0

(* A thread has done some of the macroblocks of a row, at most all. *)
LEMMA WithinRange ==
  ASSUME PoolInv, JobInv, RowsInv, codec = "vp8", NEW t \in Threads, pc[t] = "job", NEW y \in Nat
  PROVE  Within(t, y) \in 0 .. 2 * MbWidth
<1> USE RowFacts
<1>1. RowInv(t)
  BY DEF RowsInv
<1>2. step[t] \in {"quiet", "announce", "wake"} => col[t] + 1 <= 2 * MbWidth
  BY <1>1 DEF RowInv, BeforeStore
<1> QED BY <1>2 DEF Within

(* Progress is what the thread of the row has done. *)
LEMMA ProgressIs == PoolInv /\ JobInv => ProgressFacts
<1> SUFFICES ASSUME PoolInv, JobInv, codec = "vp8", nbJobs > 0,
                    NEW y \in 0 .. MbHeight - 1
             PROVE  /\ \A t \in Threads :
                         pc[t] = "job" /\ Job(t) = y % nbJobs => Progress(y) = Within(t, y)
                    /\ (\A t \in Threads : pc[t] = "job" => Job(t) # y % nbJobs) =>
                         Progress(y) = IF runs[y % nbJobs] = 1 THEN 2 * MbWidth ELSE 0
  BY DEF ProgressFacts
<1> USE RowFacts
<1> DEFINE inJob == {t \in Threads : InFunc(t) /\ Job(t) = y % nbJobs}
<1>1. ASSUME NEW t \in Threads, pc[t] = "job", Job(t) = y % nbJobs
      PROVE  Progress(y) = Within(t, y)
  <2>1. inJob = {t}
    BY <1>1
  <2>2. inJob # {} /\ (CHOOSE u \in inJob : TRUE) = t
    BY <2>1
  <2> QED BY <2>2 DEF Progress
<1>2. ASSUME \A t \in Threads : pc[t] = "job" => Job(t) # y % nbJobs
      PROVE  Progress(y) = IF runs[y % nbJobs] = 1 THEN 2 * MbWidth ELSE 0
  <2>1. inJob = {}
    BY <1>2
  <2> QED BY <2>1 DEF Progress
<1> QED BY <1>1, <1>2

(* So it is a number of macroblocks. *)
LEMMA ProgressRange ==
  ASSUME PoolInv, JobInv, RowsInv, codec = "vp8", nbJobs > 0, NEW y \in 0 .. MbHeight - 1
  PROVE  Progress(y) \in 0 .. 2 * MbWidth
<1>1. CASE \A t \in Threads : pc[t] = "job" => Job(t) # y % nbJobs
  BY <1>1, ProgressIs, RowFacts DEF ProgressFacts
<1>2. CASE \E t \in Threads : pc[t] = "job" /\ Job(t) = y % nbJobs
  BY <1>2, ProgressIs, WithinRange DEF ProgressFacts
<1> QED BY <1>1, <1>2

(* A job that has published a position in a row has done what lies before it. *)
LEMMA PublishedIsDone ==
  ASSUME PoolInv, JobInv, RowsInv, codec = "vp8", nbJobs > 0,
         NEW y \in 0 .. MbHeight - 1, NEW x \in 1 .. End,
         mbPos[y % nbJobs] >= Pos(y, x)
  PROVE  \/ Progress(y) = 2 * MbWidth
         \/ Progress(y) >= x + 1
         \/ Progress(y) >= x - 2 /\ Progress(y) >= MbWidth + 1
<1> USE RowFacts
<1>0. /\ ProgressFacts /\ End = 2 * MbWidth + 4 /\ End \in Nat /\ y \in Nat /\ x \in Nat
      /\ y < MbHeight /\ x >= 1
      /\ Pos(y, 0) \in Nat /\ Pos(y, x) = Pos(y, 0) + x
  BY ProgressIs, PosIsNat
<1>1. PICK p \in Jobs : p = y % nbJobs
  BY <1>0, RemainderInRange
<1>2. mbPos[p] > Pos(y, 0) /\ mbPos[p] > 0
  BY <1>0, <1>1
<1>3. runs[p] = 1
  BY <1>2 DEF RowsInv, NotCalled, JobInv, JobsOnce
<1>4. CASE \A t \in Threads : pc[t] = "job" => Job(t) # p
  BY <1>0, <1>1, <1>3, <1>4 DEF ProgressFacts
<1>5. CASE \E t \in Threads : pc[t] = "job" /\ Job(t) = p
  <2>1. PICK t \in Threads : pc[t] = "job" /\ Job(t) = p
    BY <1>5
  <2>2. RowInv(t) /\ Progress(y) = Within(t, y)
    BY <1>0, <1>1, <2>1 DEF RowsInv, ProgressFacts
  <2>3. step[t] # "begin"
    BY <1>2, <2>1, <2>2 DEF RowInv
  <2>4. step[t] \in Vp8Places
    BY <2>2 DEF RowInv
  <2>5. row[t] < y => Pos(row[t], End) < Pos(y, 0) /\ Pos(row[t], 0) < Pos(y, 0)
    BY <1>0, PosInOrder
  <2>6. CASE step[t] \in {"row", "return"}
    <3>1. mbPos[p] < Pos(row[t], 0)
      BY <1>2, <2>1, <2>2, <2>6 DEF RowInv
    <3>2. Pos(row[t], 0) \in Nat
      BY PosIsNat
    <3>3. row[t] # y /\ ~(row[t] < y)
      BY <1>0, <1>2, <2>5, <3>1, <3>2
    <3> QED BY <2>2, <2>3, <3>3 DEF Within
  <2>7. CASE step[t] \notin {"row", "return"}
    <3>1. mbPos[p] <= Pos(row[t], Published(t))
      BY <2>1, <2>2, <2>3, <2>7 DEF RowInv
    <3>2. step[t] \in BeforeStore \cup {"wake"} => col[t] < 2 * MbWidth
      BY <2>2 DEF RowInv
    <3>3. Published(t) \in 0 .. End
      BY <1>0, <3>2 DEF Published
    <3>4. /\ Pos(row[t], Published(t)) = Pos(row[t], 0) + Published(t)
          /\ Pos(row[t], End) = Pos(row[t], 0) + End /\ Pos(row[t], 0) \in Nat
      <4>1. PICK p1 \in Nat, r \in Nat : p1 = Published(t) /\ r = row[t]
        BY <1>0, <3>3
      <4>2. Pos(r, p1) = Pos(r, 0) + p1 /\ Pos(r, End) = Pos(r, 0) + End /\ Pos(r, 0) \in Nat
        BY <1>0, PosIsNat
      <4> QED BY <4>1, <4>2
    <3>5. ~(row[t] < y)
      BY <1>0, <1>2, <2>5, <3>1, <3>3, <3>4
    <3>6. row[t] > y \/ step[t] \in {"end", "wakeAll"} => Within(t, y) = 2 * MbWidth
      BY <2>3, <3>5 DEF Within
    <3>7. CASE row[t] = y /\ step[t] \in BeforeStore \cup {"wake"}
      <4>1. Published(t) >= x
        BY <1>0, <1>1, <3>1, <3>3, <3>4, <3>7
      <4>2. Within(t, y) = IF step[t] \in {"quiet", "announce", "wake"} THEN col[t] + 1 ELSE col[t]
        BY <2>3, <2>7, <3>7 DEF Within, BeforeStore
      <4>3. CASE step[t] = "wake"
        <5>1. Published(t) = IF col[t] >= MbWidth THEN col[t] + 3 ELSE col[t]
          BY <4>3 DEF Published, Filters
        <5> QED BY <1>0, <2>2, <4>1, <4>2, <4>3, <5>1
      <4>4. CASE step[t] \in BeforeStore
        <5>1. Published(t) = IF col[t] = 0 THEN 0
                             ELSE IF col[t] <= MbWidth THEN col[t] - 1 ELSE col[t] + 2
          BY <4>4 DEF Published, BeforeStore
        <5> QED BY <1>0, <2>2, <4>1, <4>2, <5>1
      <4> QED BY <3>7, <4>3, <4>4
    <3> QED BY <2>2, <2>3, <2>4, <2>7, <3>5, <3>6, <3>7 DEF Vp8Places
  <2> QED BY <2>6, <2>7
<1> QED BY <1>4, <1>5

(* A row of a job that has begun is one of its rows, and those around it have jobs. *)
LEMMA RowsOfJobs ==
  ASSUME PoolInv, JobInv, codec = "vp8", NEW t \in Threads, pc[t] = "job", RowInv(t),
         step[t] \in BeforeStore
  PROVE  /\ row[t] > 0 => (row[t] - 1) % nbJobs = PrevJob(t)
         /\ row[t] < MbHeight - 1 => (row[t] + 1) % nbJobs = NextJob(t)
         /\ row[t] < MbHeight /\ col[t] < 2 * MbWidth
<1> USE RowFacts
<1>1. row[t] < MbHeight /\ col[t] < 2 * MbWidth /\ step[t] \notin {"begin", "return"}
  BY DEF RowInv, BeforeStore
<1>2. PICK k \in 0 .. row[t] : row[t] = nbJobs * k + Job(t)
  BY <1>1 DEF RowInv
<1>3. k \in Nat /\ nbJobs \in Nat \ {0} /\ Job(t) \in Nat /\ Job(t) < nbJobs
  OBVIOUS
<1>4. /\ nbJobs * k + Job(t) > 0 =>
           (nbJobs * k + Job(t) - 1) % nbJobs = (Job(t) + nbJobs - 1) % nbJobs
      /\ (nbJobs * k + Job(t) + 1) % nbJobs = (Job(t) + 1) % nbJobs
  BY <1>3, NeighbourJobs
<1>5. row[t] > 0 => (row[t] - 1) % nbJobs = (Job(t) + nbJobs - 1) % nbJobs
  BY <1>2, <1>4
<1>6. (row[t] + 1) % nbJobs = (Job(t) + 1) % nbJobs
  BY <1>2, <1>4
<1>7. row[t] # 0 => PrevJob(t) = (Job(t) + nbJobs - 1) % nbJobs
  BY DEF PrevJob
<1>8. row[t] # MbHeight - 1 => NextJob(t) = (Job(t) + 1) % nbJobs
  BY DEF NextJob
<1> QED BY <1>1, <1>5, <1>6, <1>7, <1>8

(* Where a thread waits for is in the row above or below, before its end. *)
LEMMA TargetIs ==
  ASSUME PoolInv, JobInv, codec = "vp8", NEW t \in Threads, pc[t] = "job", RowInv(t),
         step[t] \in BeforeStore, ~NothingToCheck(t)
  PROVE  /\ below[t] => /\ row[t] < MbHeight - 1 /\ Filters(t)
                        /\ Target(t) = Pos(row[t] + 1, col[t] - MbWidth + 1)
                        /\ col[t] - MbWidth + 1 \in 1 .. MbWidth
         /\ ~below[t] => /\ row[t] > 0
                         /\ \E x \in 1 .. End :
                              /\ Target(t) = Pos(row[t] - 1, x)
                              /\ x = IF Filters(t) THEN col[t] + 4
                                     ELSE IF Job(t) # 0 THEN col[t] + 1
                                     ELSE col[t] + MbWidth + 4
         /\ Target(t) \in 0 .. Never
<1> USE RowFacts
<1>0. /\ row[t] < MbHeight /\ col[t] < 2 * MbWidth /\ (below[t] => Filters(t))
      /\ End = 2 * MbWidth + 4 /\ End \in Nat
  BY PosIsNat DEF RowInv
<1>1. CASE below[t]
  <2>1. NextJob(t) # Job(t)
    BY <1>1 DEF NothingToCheck, Checked
  <2>2. row[t] < MbHeight - 1
    BY <1>0, <2>1 DEF NextJob
  <2>3. Target(t) = Pos(row[t] + 1, col[t] - MbWidth + 1)
    BY <1>1 DEF Target
  <2>4. col[t] - MbWidth + 1 \in 1 .. MbWidth
    BY <1>0, <1>1 DEF Filters
  <2>5. Target(t) \in 0 .. Never
    <3>1. Pos(row[t] + 1, col[t] - MbWidth + 1) \in 0 .. Never - 1
      BY <1>0, <2>2, <2>4, PosBounded
    <3> QED BY <2>3, <3>1, PosIsNat
  <2> QED BY <1>0, <1>1, <2>2, <2>3, <2>4, <2>5
<1>2. CASE ~below[t]
  <2>1. PrevJob(t) # Job(t)
    BY <1>2 DEF NothingToCheck, Checked
  <2>2. row[t] > 0
    BY <1>0, <2>1 DEF PrevJob
  <2>3. PICK x \in Nat : x = IF Filters(t) THEN col[t] + 4
                             ELSE IF Job(t) # 0 THEN col[t] + 1 ELSE col[t] + MbWidth + 4
    OBVIOUS
  <2>4. x \in 1 .. End
    BY <1>0, <2>3 DEF Filters
  <2>5. Target(t) = Pos(row[t] - 1, x)
    <3>1. col[t] + 1 + MbWidth + 3 = col[t] + MbWidth + 4
      OBVIOUS
    <3>2. local[t].nr = Job(t)
      OBVIOUS
    <3> QED BY <1>2, <2>3, <3>1, <3>2 DEF Target
  <2>6. Target(t) \in 0 .. Never
    <3>1. Pos(row[t] - 1, x) \in 0 .. Never - 1
      BY <1>0, <2>2, <2>4, PosBounded
    <3> QED BY <2>5, <3>1, PosIsNat
  <2> QED BY <1>2, <2>2, <2>3, <2>4, <2>5, <2>6
<1> QED BY <1>1, <1>2

(* A check of the row above that is passed finds what decoding and filtering need. *)
LEMMA AboveIsDone ==
  ASSUME PoolInv, JobInv, RowsInv, codec = "vp8", NEW t \in Threads, pc[t] = "job",
         step[t] \in {"load", "check"}, ~below[t], NothingToCheck(t) \/ Reached(t)
  PROVE  AboveDone(t)
<1> USE RowFacts
<1>0. RowInv(t) /\ step[t] \in BeforeStore /\ nbJobs > 0 /\ ProgressFacts
  BY ProgressIs DEF RowsInv, BeforeStore
<1> SUFFICES ASSUME row[t] > 0
             PROVE  Progress(row[t] - 1) >=
                      IF Filters(t) \/ Job(t) = 0 THEN MbWidth + Right(t) ELSE Right(t)
  BY DEF AboveDone
<1>1. PICK y \in 0 .. MbHeight - 1 : y = row[t] - 1
  BY <1>0, RowsOfJobs
<1>2. y % nbJobs = PrevJob(t) /\ Checked(t) = PrevJob(t) /\ Progress(y) \in 0 .. 2 * MbWidth
  BY <1>0, <1>1, RowsOfJobs, ProgressRange DEF Checked
<1>3. /\ Right(t) \in Int /\ Right(t) <= MbWidth
      /\ Right(t) <= (IF Filters(t) THEN col[t] - MbWidth ELSE col[t]) + 2
  BY DEF Right, Min2
<1>4. CASE NothingToCheck(t)
  <2>1. PrevJob(t) = Job(t)
    BY <1>2, <1>4 DEF NothingToCheck
  <2>2. Progress(y) = Within(t, y)
    BY <1>0, <1>2, <2>1 DEF ProgressFacts
  <2>3. Within(t, y) = 2 * MbWidth
    BY <1>0, <1>1 DEF Within, BeforeStore
  <2> QED BY <1>1, <1>3, <2>2, <2>3
<1>5. CASE ~NothingToCheck(t)
  <2>1. PICK x \in 1 .. End :
          /\ Target(t) = Pos(y, x)
          /\ x = IF Filters(t) THEN col[t] + 4
                 ELSE IF Job(t) # 0 THEN col[t] + 1 ELSE col[t] + MbWidth + 4
    BY <1>0, <1>1, <1>5, TargetIs
  <2>2. mbPos[y % nbJobs] >= Pos(y, x)
    BY <1>2, <1>5, <2>1 DEF Reached
  <2>3. \/ Progress(y) = 2 * MbWidth
        \/ Progress(y) >= x + 1
        \/ Progress(y) >= x - 2 /\ Progress(y) >= MbWidth + 1
    BY <1>0, <2>2, PublishedIsDone
  <2>4. CASE Filters(t)
    BY <1>1, <1>2, <1>3, <2>1, <2>3, <2>4
  <2>5. CASE ~Filters(t) /\ Job(t) = 0
    BY <1>1, <1>2, <1>3, <2>1, <2>3, <2>5
  <2>6. CASE ~Filters(t) /\ Job(t) # 0
    BY <1>1, <1>2, <1>3, <2>1, <2>3, <2>6
  <2> QED BY <2>4, <2>5, <2>6
<1> QED BY <1>4, <1>5

(* One of the row below finds what filtering must not disturb. *)
LEMMA BelowIsDone ==
  ASSUME PoolInv, JobInv, RowsInv, codec = "vp8", NEW t \in Threads, pc[t] = "job",
         step[t] \in {"load", "check"}, below[t], NothingToCheck(t) \/ Reached(t)
  PROVE  BelowDone(t)
<1> USE RowFacts
<1>0. /\ RowInv(t) /\ step[t] \in BeforeStore /\ nbJobs > 0 /\ ProgressFacts
      /\ End = 2 * MbWidth + 4
  BY ProgressIs, PosIsNat DEF RowsInv, BeforeStore
<1> SUFFICES ASSUME Filters(t), row[t] < MbHeight - 1, NextJob(t) # 0
             PROVE  Progress(row[t] + 1) >= Right(t)
  BY DEF BelowDone
<1>1. PICK y \in 0 .. MbHeight - 1 : y = row[t] + 1
  OBVIOUS
<1>2. y % nbJobs = NextJob(t) /\ Checked(t) = NextJob(t) /\ Progress(y) \in 0 .. 2 * MbWidth
  BY <1>0, <1>1, RowsOfJobs, ProgressRange DEF Checked
<1>3. Right(t) \in Int /\ Right(t) <= MbWidth /\ Right(t) <= col[t] - MbWidth + 2
  BY DEF Right, Min2
<1>4. NextJob(t) # Job(t)
  <2>1. NextJob(t) = (Job(t) + 1) % nbJobs
    BY DEF NextJob
  <2>2. CASE Job(t) + 1 < nbJobs
    <3>1. (nbJobs * 0 + (Job(t) + 1)) % nbJobs = Job(t) + 1
      BY <2>2, RemainderIs
    <3>2. nbJobs * 0 + (Job(t) + 1) = Job(t) + 1
      BY SMTT(30)
    <3> QED BY <2>1, <3>1, <3>2
  <2>3. CASE Job(t) + 1 = nbJobs
    <3>1. (nbJobs * 1 + 0) % nbJobs = 0
      BY RemainderIs
    <3>2. nbJobs * 1 + 0 = Job(t) + 1
      BY <2>3, SMTT(30)
    <3> QED BY <2>1, <3>1, <3>2
  <2> QED BY <2>2, <2>3
<1>5. ~NothingToCheck(t)
  BY <1>2, <1>4 DEF NothingToCheck
<1>6. Target(t) = Pos(y, col[t] - MbWidth + 1) /\ col[t] - MbWidth + 1 \in 1 .. MbWidth
  BY <1>0, <1>1, <1>5, TargetIs
<1>7. PICK x \in 1 .. End : x = col[t] - MbWidth + 1 /\ Target(t) = Pos(y, x)
  <2>1. col[t] - MbWidth + 1 \in 1 .. End
    BY <1>0, <1>6
  <2> QED BY <1>6, <2>1
<1>8. mbPos[y % nbJobs] >= Pos(y, x)
  BY <1>2, <1>5, <1>7 DEF Reached
<1>9. \/ Progress(y) = 2 * MbWidth
      \/ Progress(y) >= x + 1
      \/ Progress(y) >= x - 2 /\ Progress(y) >= MbWidth + 1
  BY <1>0, <1>8, PublishedIsDone
<1> QED BY <1>1, <1>2, <1>3, <1>7, <1>9

-----------------------------------------------------------------------------
(* VP8: the steps of the jobs *)

\* No row loses what has been done of it.
Advances == \A y \in 0 .. MbHeight - 1 : Progress(y)' \in Nat /\ Progress(y)' >= Progress(y)

(* Progress is also what the threads have done after a step. *)
LEMMA ProgressWillBe == PoolInv' /\ JobInv' => ProgressFacts'
BY ProgressIs, PTL

(* Where every thread goes on, every row does. *)
LEMMA ThreadsAdvance ==
  ASSUME PoolInv, JobInv, PoolInv', JobInv', codec = "vp8", codec' = "vp8", nbJobs > 0,
         UNCHANGED vars,
         \A u \in Threads : pc[u] = "job" =>
           \A y \in 0 .. MbHeight - 1 : Within(u, y)' \in Nat /\ Within(u, y)' >= Within(u, y)
  PROVE  Advances
<1>1. ProgressFacts /\ ProgressFacts'
  BY ProgressIs, ProgressWillBe
<1>2. UNCHANGED <<pc, local, runs, nbJobs>>
  BY DEF vars, ctxVars
<1>3. \A u \in Threads : Job(u)' = Job(u)
  BY <1>2 DEF Job
<1> SUFFICES ASSUME NEW y \in 0 .. MbHeight - 1
             PROVE  Progress(y)' \in Nat /\ Progress(y)' >= Progress(y)
  BY DEF Advances
<1>4. CASE \A t \in Threads : pc[t] = "job" => Job(t) # y % nbJobs
  <2>1. Progress(y) = IF runs[y % nbJobs] = 1 THEN 2 * MbWidth ELSE 0
    BY <1>1, <1>4 DEF ProgressFacts
  <2>2. Progress(y)' = IF runs[y % nbJobs] = 1 THEN 2 * MbWidth ELSE 0
    BY <1>1, <1>2, <1>3, <1>4 DEF ProgressFacts
  <2> QED BY <2>1, <2>2, RowFacts
<1>5. ASSUME NEW t \in Threads, pc[t] = "job", Job(t) = y % nbJobs
      PROVE  Progress(y)' \in Nat /\ Progress(y)' >= Progress(y)
  <2>1. Progress(y) = Within(t, y)
    BY <1>1, <1>5 DEF ProgressFacts
  <2>2. Progress(y)' = Within(t, y)'
    BY <1>1, <1>2, <1>3, <1>5 DEF ProgressFacts
  <2> QED BY <1>5, <2>1, <2>2
<1> QED BY <1>4, <1>5

(* What was done above and below a macroblock stays done. *)
LEMMA DoneStaysDone ==
  ASSUME PoolInv, JobInv, RowsInv, codec = "vp8", nbJobs' = nbJobs, Advances,
         NEW t \in Threads, pc[t] = "job", local'[t] = local[t], step[t] \in BeforeStore,
         row'[t] = row[t], col'[t] = col[t]
  PROVE  (AboveDone(t) => AboveDone(t)') /\ (BelowDone(t) => BelowDone(t)')
<1> USE RowFacts
<1>0. row[t] < MbHeight /\ nbJobs > 0
  BY DEF RowsInv, RowInv
<1>1. /\ Filters(t)' = Filters(t) /\ Job(t)' = Job(t) /\ Right(t)' = Right(t)
      /\ NextJob(t)' = NextJob(t)
  BY DEF Filters, Job, Right, NextJob
<1>2. Right(t) \in Int
  BY DEF Right, Min2
<1>3. ASSUME AboveDone(t), row[t] > 0 PROVE AboveDone(t)'
  <2>1. PICK y \in 0 .. MbHeight - 1 : y = row[t] - 1
    BY <1>0, <1>3
  <2>2. Progress(y) >= IF Filters(t) \/ Job(t) = 0 THEN MbWidth + Right(t) ELSE Right(t)
    BY <1>3, <2>1 DEF AboveDone
  <2>3. Progress(y)' \in Nat /\ Progress(y)' >= Progress(y) /\ Progress(y) \in Nat
    BY <1>0, ProgressRange DEF Advances
  <2>4. Progress(y)' >= IF Filters(t) \/ Job(t) = 0 THEN MbWidth + Right(t) ELSE Right(t)
    BY <1>2, <2>2, <2>3
  <2>5. Progress(row[t] - 1)' = Progress(y)'
    BY <2>1
  <2> QED BY <1>1, <2>4, <2>5 DEF AboveDone
<1>4. row[t] = 0 => AboveDone(t)'
  BY DEF AboveDone
<1>5. ASSUME BelowDone(t), Filters(t), row[t] < MbHeight - 1, NextJob(t) # 0
      PROVE  BelowDone(t)'
  <2>1. PICK y \in 0 .. MbHeight - 1 : y = row[t] + 1
    BY <1>0, <1>5
  <2>2. Progress(y) >= Right(t)
    BY <1>5, <2>1 DEF BelowDone
  <2>3. Progress(y)' \in Nat /\ Progress(y)' >= Progress(y) /\ Progress(y) \in Nat
    BY <1>0, ProgressRange DEF Advances
  <2>4. Progress(y)' >= Right(t)
    BY <1>2, <2>2, <2>3
  <2>5. Progress(row[t] + 1)' = Progress(y)'
    BY <2>1
  <2> QED BY <1>1, <2>4, <2>5 DEF BelowDone
<1>6. ~(Filters(t) /\ row[t] < MbHeight - 1 /\ NextJob(t) # 0) => BelowDone(t)'
  BY <1>1 DEF BelowDone
<1> QED BY <1>3, <1>4, <1>5, <1>6

(* A step of a job moves its own thread; it may wake others. *)
LEMMA Vp8StepMoves ==
  ASSUME PoolInv, JobInv, codec = "vp8", NEW t \in Threads, Vp8Step(t)
  PROVE  /\ pc[t] = "job" /\ InFunc(t)
         /\ \A u \in Threads : u # t =>
              /\ row'[u] = row[u] /\ col'[u] = col[u] /\ below'[u] = below[u]
              /\ \/ step'[u] = step[u]
                 \/ InFunc(u) /\ step[u] = "asleep" /\ step'[u] = "relock"
         /\ \A j \in Jobs : j # Job(t) => mbPos'[j] = mbPos[j]
         /\ deblock' = deblock
<1> USE RowFacts
<1>0. /\ step \in [Threads -> JobPlaces] /\ row \in [Threads -> Nat]
      /\ col \in [Threads -> 0 .. 2 * MbWidth] /\ below \in [Threads -> BOOLEAN]
      /\ mbPos \in [Jobs -> 0 .. Never]
  BY DEF JobInv, DataTypes
<1>1. pc[t] = "job" /\ InFunc(t)
  BY DEF Vp8Step, Vp8Begin, BeginRow, DataMissing, Check, CheckLoad, CheckLock, CheckPos,
     CheckRelock, Update, LookForWaits, PublishQuietly, Publish, Wake, EndRow, WakeAll, At
<1>2. row' = row \/ \E r : row' = [row EXCEPT ![t] = r]
  BY DEF Vp8Step, Vp8Begin, BeginRow, DataMissing, Check, CheckLoad, CheckLock, CheckPos,
     CheckRelock, Update, LookForWaits, PublishQuietly, Publish, Wake, EndRow, WakeAll,
     vp8Vars, checkVars
<1>3. col' = col \/ \E c : col' = [col EXCEPT ![t] = c]
  BY DEF Vp8Step, Vp8Begin, BeginRow, DataMissing, Check, CheckLoad, CheckLock, CheckPos,
     CheckRelock, Update, LookForWaits, PublishQuietly, Publish, Wake, EndRow, WakeAll,
     vp8Vars, checkVars, NextMb
<1>4. below' = below \/ \E b : below' = [below EXCEPT ![t] = b]
  BY DEF Vp8Step, Vp8Begin, BeginRow, DataMissing, Check, CheckLoad, CheckLock, CheckPos,
     CheckRelock, Update, LookForWaits, PublishQuietly, Publish, Wake, EndRow, WakeAll,
     vp8Vars, checkVars, NextMb, Pass
<1>5. mbPos' = mbPos \/ \E p : mbPos' = [mbPos EXCEPT ![Job(t)] = p]
  BY DEF Vp8Step, Vp8Begin, BeginRow, DataMissing, Check, CheckLoad, CheckLock, CheckPos,
     CheckRelock, Update, LookForWaits, PublishQuietly, Publish, Wake, EndRow, WakeAll,
     vp8Vars, checkVars, Store
<1>6. deblock' = deblock
  BY DEF Vp8Step, Vp8Begin, BeginRow, DataMissing, Check, CheckLoad, CheckLock, CheckPos,
     CheckRelock, Update, LookForWaits, PublishQuietly, Publish, Wake, EndRow, WakeAll,
     vp8Vars, checkVars
<1>7. (\E place : Step(t, place)) \/ (\E place : Broadcast(t, place))
  BY DEF Vp8Step, Vp8Begin, BeginRow, DataMissing, Check, CheckLoad, CheckLock, CheckPos,
     CheckRelock, Update, LookForWaits, PublishQuietly, Publish, Wake, EndRow, WakeAll,
     Pass
<1>8. \A u \in Threads : u # t =>
        \/ step'[u] = step[u]
        \/ InFunc(u) /\ step[u] = "asleep" /\ step'[u] = "relock"
  <2>1. ASSUME NEW place, Step(t, place)
        PROVE  \A u \in Threads : u # t => step'[u] = step[u]
    BY <1>0, <2>1 DEF Step
  <2>2. ASSUME NEW place, Broadcast(t, place)
        PROVE  \A u \in Threads : u # t =>
                 \/ step'[u] = step[u]
                 \/ InFunc(u) /\ step[u] = "asleep" /\ step'[u] = "relock"
    BY <2>2 DEF Broadcast, At
  <2> QED BY <1>7, <2>1, <2>2
<1>9. \A u \in Threads : u # t => row'[u] = row[u]
  BY <1>0, <1>2
<1>10. \A u \in Threads : u # t => col'[u] = col[u]
  BY <1>0, <1>3
<1>11. \A u \in Threads : u # t => below'[u] = below[u]
  BY <1>0, <1>4
<1>12. \A j \in Jobs : j # Job(t) => mbPos'[j] = mbPos[j]
  BY <1>0, <1>5
<1> QED BY <1>1, <1>6, <1>8, <1>9, <1>10, <1>11, <1>12

(* The rows of the other threads stay where they are. *)
LEMMA OtherRowsStay ==
  ASSUME PoolInv, JobInv, RowsInv, codec = "vp8", nbJobs' = nbJobs, Advances,
         NEW u \in Threads, pc[u] = "job", local'[u] = local[u],
         row'[u] = row[u], col'[u] = col[u], below'[u] = below[u],
         mbPos'[Job(u)] = mbPos[Job(u)],
         \/ step'[u] = step[u]
         \/ step[u] = "asleep" /\ step'[u] = "relock"
  PROVE  RowInv(u)' /\ CheckInv(u)'
<1>1. local'[u] = local[u] /\ nbJobs' = nbJobs
  OBVIOUS
<1>2. /\ RowInv(u) /\ CheckInv(u) /\ Job(u)' = Job(u) /\ Filters(u)' = Filters(u)
      /\ PrevJob(u)' = PrevJob(u) /\ NextJob(u)' = NextJob(u)
  BY <1>1 DEF RowsInv, Job, Filters, PrevJob, NextJob
<1>3. /\ NothingToCheck(u)' <=> NothingToCheck(u)
  BY <1>2 DEF NothingToCheck, Checked
<1>4. \/ step'[u] = step[u]
      \/ step[u] \in BeforeStore /\ step'[u] = "relock"
  BY DEF BeforeStore
<1>5. step[u] \in BeforeStore \cup {"wake"} => Published(u)' = Published(u)
  BY <1>2, <1>4 DEF Published, BeforeStore
<1>6. step[u] \notin BeforeStore \cup {"wake"} => Published(u)' = Published(u)
  BY <1>2, <1>4 DEF Published, BeforeStore
<1>7. PICK j \in Jobs : j = Job(u)
  BY RowFacts
<1>8. RowInv(u)'
  <2>1. mbPos'[j] = mbPos[j] /\ Published(u)' = Published(u)
    BY <1>5, <1>6, <1>7
  <2>2. PICK p : p = Published(u)
    OBVIOUS
  <2>3. /\ step'[u] \in Vp8Places
        /\ step'[u] = "begin" => row'[u] = 0
        /\ IF step'[u] = "begin" THEN mbPos'[j] = 0
           ELSE IF step'[u] \in {"row", "return"}
             THEN mbPos'[j] = 0 \/ mbPos'[j] < Pos(row'[u], 0)
           ELSE mbPos'[j] <= Pos(row'[u], p)
    BY <1>2, <1>4, <1>7, <2>1, <2>2 DEF RowInv, BeforeStore, Vp8Places
  <2>4. /\ step'[u] \in BeforeStore \cup {"wake"} =>
             row'[u] < MbHeight /\ col'[u] < 2 * MbWidth /\ (below'[u] => Filters(u))
        /\ step'[u] = "lock" => ~NothingToCheck(u)
        /\ step'[u] \in {"end", "wakeAll"} => row'[u] <= MbHeight
        /\ step'[u] = "return" => row'[u] >= MbHeight
    BY <1>2, <1>4 DEF RowInv, BeforeStore
  <2>5. step'[u] \notin {"begin", "return"} /\ row'[u] < MbHeight =>
          \E k \in 0 .. row'[u] : row'[u] = nbJobs * k + Job(u)
    BY <1>2, <1>4 DEF RowInv, BeforeStore
  <2> QED BY <1>1, <1>2, <1>3, <1>7, <2>1, <2>2, <2>3, <2>4, <2>5 DEF RowInv
<1>9. CheckInv(u)'
  <2>1. CASE step[u] \in BeforeStore
    <3>1. (AboveDone(u) => AboveDone(u)') /\ (BelowDone(u) => BelowDone(u)')
      BY <1>1, <2>1, DoneStaysDone
    <3> QED BY <1>2, <1>4, <3>1 DEF CheckInv
  <2>2. CASE step[u] \notin BeforeStore
    BY <1>4, <2>2 DEF CheckInv, BeforeStore
  <2> QED BY <2>1, <2>2
<1> QED BY <1>8, <1>9

\* What is to be shown of a step of thread t, for its row and for the types.
RowGoesOn(t) ==
  /\ RowInv(t)' /\ (Advances => CheckInv(t)')
  /\ \A y \in 0 .. MbHeight - 1 : Within(t, y)' \in Nat /\ Within(t, y)' >= Within(t, y)
Vp8TypesOK ==
  /\ step \in [Threads -> JobPlaces] /\ row \in [Threads -> Nat]
  /\ mbPos \in [Jobs -> 0 .. Never] /\ waitPos \in [Jobs -> 0 .. Never]
  /\ col \in [Threads -> 0 .. 2 * MbWidth] /\ below \in [Threads -> BOOLEAN]

(* A check that fails waits, one that is passed is remembered. *)
LEMMA CheckGoesOn ==
  ASSUME PoolInv, JobInv, RowsInv, codec = "vp8", UNCHANGED vars, NEW t \in Threads, Check(t)
  PROVE  RowGoesOn(t) /\ Vp8TypesOK'
<1> USE RowFacts
<1>0. Vp8TypesOK
  BY DEF Vp8TypesOK, JobInv, DataTypes
<1>1. UNCHANGED <<pc, local, runs, nbJobs>> /\ Job(t)' = Job(t)
  BY DEF vars, ctxVars, Job
<1>2. /\ pc[t] = "job" /\ step[t] \in {"load", "lock", "check", "relock"}
      /\ UNCHANGED <<row, col, mbPos>>
  BY DEF Check, CheckLoad, CheckLock, CheckPos, CheckRelock, At, vp8Vars, checkVars
<1>3. RowInv(t) /\ CheckInv(t)
  BY <1>2 DEF RowsInv
<1>4. /\ Filters(t)' = Filters(t) /\ PrevJob(t)' = PrevJob(t) /\ NextJob(t)' = NextJob(t)
  BY <1>1, <1>2 DEF Filters, PrevJob, NextJob
<1>5. CASE /\ step[t] \in {"load", "check"} /\ (NothingToCheck(t) \/ Reached(t))
           /\ Pass(t) /\ (UNCHANGED waitPos \/ waitPos' = [waitPos EXCEPT ![Job(t)] = Never])
  <2>1. \/ /\ Filters(t) /\ ~below[t]
           /\ step' = [step EXCEPT ![t] = "load"] /\ below' = [below EXCEPT ![t] = TRUE]
        \/ /\ ~Filters(t) \/ below[t]
           /\ step' = [step EXCEPT ![t] = "work"] /\ below' = below
    BY <1>5 DEF Pass, Step
  <2>2. \/ Filters(t) /\ ~below[t] /\ step'[t] = "load" /\ below'[t] = TRUE
        \/ (~Filters(t) \/ below[t]) /\ step'[t] = "work" /\ below'[t] = below[t]
    BY <1>0, <2>1 DEF Vp8TypesOK
  <2>3. step' \in [Threads -> JobPlaces] /\ below' \in [Threads -> BOOLEAN]
    <3>1. "load" \in JobPlaces /\ "work" \in JobPlaces
      BY DEF JobPlaces
    <3>2. step' \in [Threads -> JobPlaces]
      BY <1>0, <2>1, <3>1 DEF Vp8TypesOK
    <3>3. below' \in [Threads -> BOOLEAN]
      BY <1>0, <2>1 DEF Vp8TypesOK
    <3> QED BY <3>2, <3>3
  <2>4. Never \in 0 .. Never
    BY PosIsNat
  <2>5. waitPos' \in [Jobs -> 0 .. Never]
    BY <1>0, <1>5, <2>4 DEF Vp8TypesOK
  <2>6. Vp8TypesOK'
    BY <1>0, <1>2, <2>3, <2>5, PosIsNat DEF Vp8TypesOK, Never, Pos, End
  <2>7. Published(t)' = Published(t)
    BY <1>2, <1>4, <2>2 DEF Published, BeforeStore
  <2>8. RowInv(t)'
    <3>1. PICK j \in Jobs, p \in {Published(t)} : j = Job(t) /\ mbPos[j] <= Pos(row[t], p)
      BY <1>2, <1>3 DEF RowInv
    <3>2. mbPos'[j] <= Pos(row'[t], p)
      BY <1>2, <3>1
    <3>3. /\ step'[t] \in BeforeStore /\ row'[t] < MbHeight /\ col'[t] < 2 * MbWidth
          /\ (below'[t] => Filters(t))
      BY <1>2, <1>3, <2>2 DEF RowInv, BeforeStore
    <3>4. \E k \in 0 .. row'[t] : row'[t] = nbJobs * k + Job(t)
      BY <1>2, <1>3 DEF RowInv, BeforeStore
    <3> QED BY <1>1, <1>4, <2>2, <2>7, <3>1, <3>2, <3>3, <3>4 DEF RowInv, BeforeStore,
          Vp8Places
  <2>9. AboveDone(t)
    BY <1>2, <1>3, <1>5, AboveIsDone DEF CheckInv
  <2>10. below[t] => BelowDone(t)
    BY <1>2, <1>5, BelowIsDone
  <2>11. ~Filters(t) => BelowDone(t)
    BY DEF BelowDone
  <2>12. Advances => CheckInv(t)'
    <3>1. SUFFICES ASSUME Advances PROVE CheckInv(t)'
      OBVIOUS
    <3>2. (AboveDone(t) => AboveDone(t)') /\ (BelowDone(t) => BelowDone(t)')
      <4>1. step[t] \in BeforeStore /\ row'[t] = row[t] /\ col'[t] = col[t]
        BY <1>2 DEF BeforeStore
      <4> QED BY <1>1, <1>2, <3>1, <4>1, DoneStaysDone
    <3> QED BY <2>2, <2>9, <2>10, <2>11, <3>2 DEF CheckInv
  <2>13. \A y \in 0 .. MbHeight - 1 : Within(t, y)' = Within(t, y)
    BY <1>2, <2>2 DEF Within
  <2>14. \A y \in 0 .. MbHeight - 1 : Within(t, y) \in Nat
    BY <1>2, WithinRange
  <2> QED BY <2>6, <2>8, <2>12, <2>13, <2>14 DEF RowGoesOn
<1>6. CASE /\ UNCHANGED below
           /\ \/ step[t] = "load" /\ ~NothingToCheck(t) /\ Step(t, "lock") /\ UNCHANGED waitPos
              \/ /\ step[t] = "lock" /\ waitPos' = [waitPos EXCEPT ![Job(t)] = Target(t)]
                 /\ Step(t, "check")
              \/ step[t] = "check" /\ Step(t, "asleep") /\ UNCHANGED waitPos
              \/ step[t] = "relock" /\ Step(t, "check") /\ UNCHANGED waitPos
  <2>1. PICK place \in {"lock", "check", "asleep"} :
          step' = [step EXCEPT ![t] = place] /\ (place = "lock" => ~NothingToCheck(t))
    BY <1>6 DEF Step
  <2>2. step' \in [Threads -> JobPlaces] /\ step'[t] = place
    <3>1. place \in JobPlaces
      BY DEF JobPlaces
    <3> QED BY <1>0, <2>1, <3>1 DEF Vp8TypesOK
  <2>3. waitPos' \in [Jobs -> 0 .. Never]
    <3>1. step[t] = "lock" => Target(t) \in 0 .. Never
      BY <1>2, <1>3, TargetIs DEF RowInv, BeforeStore
    <3> QED BY <1>0, <1>6, <3>1 DEF Vp8TypesOK
  <2>4. Vp8TypesOK'
    BY <1>0, <1>2, <1>6, <2>2, <2>3 DEF Vp8TypesOK, Never, Pos, End
  <2>5. Published(t)' = Published(t)
    BY <1>2, <1>4, <2>2 DEF Published, BeforeStore
  <2>6. NothingToCheck(t)' <=> NothingToCheck(t)
    BY <1>1, <1>4, <1>6 DEF NothingToCheck, Checked
  <2>7. RowInv(t)'
    <3>1. PICK j \in Jobs, p \in {Published(t)} : j = Job(t) /\ mbPos[j] <= Pos(row[t], p)
      BY <1>2, <1>3 DEF RowInv
    <3>2. mbPos'[j] <= Pos(row'[t], p)
      BY <1>2, <3>1
    <3>3. /\ step'[t] \in BeforeStore /\ row'[t] < MbHeight /\ col'[t] < 2 * MbWidth
          /\ (below'[t] => Filters(t))
      BY <1>2, <1>3, <1>6, <2>2 DEF RowInv, BeforeStore
    <3>4. \E k \in 0 .. row'[t] : row'[t] = nbJobs * k + Job(t)
      BY <1>2, <1>3 DEF RowInv, BeforeStore
    <3> QED BY <1>1, <1>4, <2>1, <2>2, <2>5, <2>6, <3>1, <3>2, <3>3, <3>4 DEF RowInv,
          BeforeStore, Vp8Places
  <2>8. Advances => CheckInv(t)'
    <3>1. SUFFICES ASSUME Advances PROVE CheckInv(t)'
      OBVIOUS
    <3>2. AboveDone(t) => AboveDone(t)'
      <4>1. step[t] \in BeforeStore /\ row'[t] = row[t] /\ col'[t] = col[t]
        BY <1>2 DEF BeforeStore
      <4> QED BY <1>1, <1>2, <3>1, <4>1, DoneStaysDone
    <3> QED BY <1>2, <1>3, <1>6, <2>2, <3>2 DEF CheckInv
  <2>9. \A y \in 0 .. MbHeight - 1 : Within(t, y)' = Within(t, y)
    BY <1>2, <2>2 DEF Within
  <2>10. \A y \in 0 .. MbHeight - 1 : Within(t, y) \in Nat
    BY <1>2, WithinRange
  <2> QED BY <2>4, <2>7, <2>8, <2>9, <2>10 DEF RowGoesOn
<1>7. CASE CheckLoad(t)
  BY <1>5, <1>6, <1>7 DEF CheckLoad, At
<1>8. CASE CheckLock(t)
  BY <1>6, <1>8 DEF CheckLock, At, checkVars
<1>9. CASE CheckPos(t)
  BY <1>5, <1>6, <1>9 DEF CheckPos, At
<1>10. CASE CheckRelock(t)
  BY <1>6, <1>10 DEF CheckRelock, At, vp8Vars
<1> QED BY <1>7, <1>8, <1>9, <1>10 DEF Check

(* The position that is stored lies in the row, behind the macroblock. *)
LEMMA PositionIs ==
  ASSUME PoolInv, JobInv, codec = "vp8", NEW t \in Threads, pc[t] = "job", RowInv(t),
         step[t] \in {"quiet", "announce", "end"}
  PROVE  /\ Position(t) = Pos(row[t], IF step[t] = "end" THEN End
                                      ELSE IF Filters(t) THEN col[t] + 3 ELSE col[t])
         /\ Position(t) \in 0 .. Never
<1> USE RowFacts
<1>1. InFunc(t)
  BY DEF InFunc
<1>2. Position(t) = Pos(row[t], IF step[t] = "end" THEN End
                                ELSE IF Filters(t) THEN col[t] + 3 ELSE col[t])
  BY <1>1 DEF Position, At
<1>3. PICK x : x = IF step[t] = "end" THEN End ELSE IF Filters(t) THEN col[t] + 3 ELSE col[t]
  OBVIOUS
<1>4. row[t] <= MbHeight /\ (step[t] # "end" => col[t] < 2 * MbWidth)
  BY DEF RowInv, BeforeStore
<1>5. x \in Nat /\ x <= End
  <2>1. End = 2 * MbWidth + 4 /\ End \in Nat
    BY PosIsNat
  <2>2. CASE step[t] = "end"
    BY <1>3, <2>1, <2>2
  <2>3. CASE step[t] # "end"
    <3>1. x = IF Filters(t) THEN col[t] + 3 ELSE col[t]
      BY <1>3, <2>3
    <3> QED BY <1>4, <2>1, <2>3, <3>1
  <2> QED BY <2>2, <2>3
<1>6. Pos(row[t], x) \in 0 .. Never - 1
  BY <1>4, <1>5, PosBounded
<1> QED BY <1>2, <1>3, <1>6, PosIsNat

(* A thread that has decoded or filtered a macroblock goes to the next. *)
LEMMA MacroblockGoesOn ==
  ASSUME PoolInv, JobInv, RowsInv, codec = "vp8", UNCHANGED vars, NEW t \in Threads,
         pc[t] = "job", step[t] \in {"quiet", "wake"}, row' = row,
         NEW place, place = AfterMb(t), step'[t] = place, NextMb(t),
         mbPos'[Job(t)] \in Int,
         mbPos'[Job(t)] <= Pos(row[t], IF Filters(t) THEN col[t] + 3 ELSE col[t])
  PROVE  /\ RowGoesOn(t)
         /\ place \in JobPlaces
         /\ col' \in [Threads -> 0 .. 2 * MbWidth] /\ below' \in [Threads -> BOOLEAN]
<1> USE RowFacts
<1>0. col \in [Threads -> 0 .. 2 * MbWidth] /\ below \in [Threads -> BOOLEAN]
  BY DEF JobInv, DataTypes
<1>1. UNCHANGED <<pc, local, runs, nbJobs>> /\ Job(t)' = Job(t)
  BY DEF vars, ctxVars, Job
<1>2. /\ RowInv(t) /\ row[t] < MbHeight /\ col[t] < 2 * MbWidth
      /\ step[t] \notin {"begin", "return"}
  BY DEF RowsInv, RowInv, BeforeStore
<1>3. col' = [col EXCEPT ![t] = col[t] + 1] /\ below' = [below EXCEPT ![t] = FALSE]
  BY DEF NextMb
<1>4. col'[t] = col[t] + 1 /\ below'[t] = FALSE
  BY <1>0, <1>3
<1>5. /\ place = "end" \/ place = "load"
      /\ place = "load" => col'[t] < 2 * MbWidth
  BY <1>2, <1>4 DEF AfterMb
<1>6. /\ place \in JobPlaces
      /\ col' \in [Threads -> 0 .. 2 * MbWidth] /\ below' \in [Threads -> BOOLEAN]
  <2>1. col[t] + 1 \in 0 .. 2 * MbWidth
    BY <1>2
  <2>2. col' \in [Threads -> 0 .. 2 * MbWidth]
    BY <1>0, <1>3, <2>1
  <2>3. below' \in [Threads -> BOOLEAN]
    BY <1>0, <1>3
  <2> QED BY <1>5, <2>2, <2>3 DEF JobPlaces
<1>7. RowInv(t)'
  <2>1. PICK x \in Nat : x = IF Filters(t) THEN col[t] + 3 ELSE col[t]
    OBVIOUS
  <2>2. PICK p \in Nat : p = Published(t)'
    BY <1>4, <1>5, PosIsNat DEF Published, BeforeStore
  <2>3. x <= p
    <3>1. CASE place = "end"
      <4>1. p = End /\ End = 2 * MbWidth + 4
        BY <2>2, <3>1, PosIsNat DEF Published, BeforeStore
      <4> QED BY <1>2, <2>1, <4>1
    <3>2. CASE place = "load"
      <4>1. p = IF col'[t] <= MbWidth THEN col'[t] - 1 ELSE col'[t] + 2
        BY <1>4, <2>2, <3>2 DEF Published, BeforeStore
      <4> QED BY <1>4, <2>1, <4>1 DEF Filters
    <3> QED BY <1>5, <3>1, <3>2
  <2>4. PICK j \in Jobs : j = Job(t)
    OBVIOUS
  <2>5. PICK y \in Nat : y = row[t]
    OBVIOUS
  <2>6. Pos(y, x) <= Pos(y, p)
    <3>1. Pos(y, x) = Pos(y, 0) + x /\ Pos(y, p) = Pos(y, 0) + p /\ Pos(y, 0) \in Nat
      BY PosIsNat
    <3> QED BY <2>3, <3>1
  <2>7. mbPos'[j] <= Pos(y, x) /\ Pos(y, x) \in Nat /\ Pos(y, p) \in Nat
    BY <2>1, <2>4, <2>5, PosIsNat
  <2>8. mbPos'[j] \in Int => mbPos'[j] <= Pos(y, p)
    BY <2>6, <2>7
  <2>9. mbPos'[j] \in Int
    BY <2>4
  <2>10. \E k \in 0 .. row[t] : row[t] = nbJobs * k + Job(t)
    BY <1>2 DEF RowInv
  <2> QED BY <1>1, <1>2, <1>4, <1>5, <2>2, <2>4, <2>5, <2>8, <2>9, <2>10 DEF RowInv,
        BeforeStore, Vp8Places
<1>8. CheckInv(t)'
  BY <1>4, <1>5 DEF CheckInv
<1>9. \A y \in 0 .. MbHeight - 1 : Within(t, y)' \in Nat /\ Within(t, y)' >= Within(t, y)
  <2> TAKE y \in 0 .. MbHeight - 1
  <2>1. Within(t, y) = IF row[t] < y THEN 0 ELSE IF row[t] > y THEN 2 * MbWidth ELSE col[t] + 1
    BY DEF Within
  <2>2. Within(t, y)' = IF row[t] < y THEN 0
                        ELSE IF row[t] > y \/ place = "end" THEN 2 * MbWidth ELSE col[t] + 1
    BY <1>4, <1>5 DEF Within
  <2> QED BY <1>2, <2>1, <2>2
<1> QED BY <1>6, <1>7, <1>8, <1>9 DEF RowGoesOn

(* Where nothing of a thread changes but its place behind a macroblock, it goes on. *)
LEMMA LookGoesOn ==
  ASSUME PoolInv, JobInv, RowsInv, codec = "vp8", UNCHANGED vars, NEW t \in Threads,
         LookForWaits(t)
  PROVE  RowGoesOn(t) /\ Vp8TypesOK'
<1> USE RowFacts
<1>0. Vp8TypesOK
  BY DEF Vp8TypesOK, JobInv, DataTypes
<1>1. UNCHANGED <<pc, local, runs, nbJobs>> /\ Job(t)' = Job(t)
  BY DEF vars, ctxVars, Job
<1>2. pc[t] = "job" /\ step[t] = "work" /\ UNCHANGED <<row, col, below, mbPos, waitPos>>
  BY DEF LookForWaits, At, vp8Vars
<1>3. PICK place \in {"announce", "quiet"} : step' = [step EXCEPT ![t] = place]
  BY DEF LookForWaits, Step
<1>4. step' \in [Threads -> JobPlaces] /\ step'[t] = place
  <2>1. place \in JobPlaces
    BY DEF JobPlaces
  <2> QED BY <1>0, <1>3, <2>1 DEF Vp8TypesOK
<1>5. Vp8TypesOK'
  BY <1>0, <1>2, <1>4 DEF Vp8TypesOK, Never, Pos, End
<1>6. RowInv(t) /\ Filters(t)' = Filters(t)
  BY <1>2 DEF RowsInv, Filters
<1>7. Published(t)' = Published(t)
  BY <1>2, <1>4, <1>6 DEF Published, BeforeStore
<1>8. RowInv(t)'
  <2>1. PICK j \in Jobs, p \in {Published(t)} : j = Job(t) /\ mbPos[j] <= Pos(row[t], p)
    BY <1>2, <1>6 DEF RowInv
  <2>2. mbPos'[j] <= Pos(row'[t], p)
    BY <1>2, <2>1
  <2>3. /\ step'[t] \in BeforeStore /\ row'[t] < MbHeight /\ col'[t] < 2 * MbWidth
        /\ (below'[t] => Filters(t))
    BY <1>2, <1>4, <1>6 DEF RowInv, BeforeStore
  <2>4. \E k \in 0 .. row'[t] : row'[t] = nbJobs * k + Job(t)
    BY <1>2, <1>6 DEF RowInv, BeforeStore
  <2> QED BY <1>1, <1>4, <1>6, <1>7, <2>1, <2>2, <2>3, <2>4 DEF RowInv, BeforeStore, Vp8Places
<1>9. CheckInv(t)'
  BY <1>4 DEF CheckInv
<1>10. \A y \in 0 .. MbHeight - 1 : Within(t, y)' \in Nat /\ Within(t, y)' >= Within(t, y)
  <2> TAKE y \in 0 .. MbHeight - 1
  <2>1. Within(t, y) = IF row[t] < y THEN 0 ELSE IF row[t] > y THEN 2 * MbWidth ELSE col[t]
    BY <1>2 DEF Within
  <2>2. Within(t, y)' = IF row[t] < y THEN 0 ELSE IF row[t] > y THEN 2 * MbWidth ELSE col[t] + 1
    BY <1>2, <1>4 DEF Within
  <2> QED BY <2>1, <2>2
<1> QED BY <1>5, <1>8, <1>9, <1>10 DEF RowGoesOn

(* Its position is stored with what it has done. *)
LEMMA PublishGoesOn ==
  ASSUME PoolInv, JobInv, RowsInv, codec = "vp8", UNCHANGED vars, NEW t \in Threads,
         PublishQuietly(t) \/ Publish(t) \/ EndRow(t)
  PROVE  RowGoesOn(t) /\ Vp8TypesOK'
<1> USE RowFacts
<1>0. Vp8TypesOK
  BY DEF Vp8TypesOK, JobInv, DataTypes
<1>1. UNCHANGED <<pc, local, runs, nbJobs>> /\ Job(t)' = Job(t)
  BY DEF vars, ctxVars, Job
<1>2. /\ pc[t] = "job" /\ step[t] \in {"quiet", "announce", "end"}
      /\ UNCHANGED <<row, waitPos>> /\ mbPos' = [mbPos EXCEPT ![Job(t)] = Position(t)]
  BY DEF PublishQuietly, Publish, EndRow, Store, At, checkVars
<1>3. RowInv(t)
  BY <1>2 DEF RowsInv
<1>4. PICK p \in 0 .. Never :
        /\ p = Position(t)
        /\ p = Pos(row[t], IF step[t] = "end" THEN End
                           ELSE IF Filters(t) THEN col[t] + 3 ELSE col[t])
  BY <1>2, <1>3, PositionIs
<1>5. PICK j \in Jobs : j = Job(t)
  BY <1>2
<1>6. mbPos' = [mbPos EXCEPT ![j] = p]
  BY <1>2, <1>4, <1>5
<1>7. mbPos' \in [Jobs -> 0 .. Never] /\ mbPos'[j] = p
  BY <1>0, <1>6 DEF Vp8TypesOK
<1>8. CASE PublishQuietly(t)
  <2>1. PICK place : place = AfterMb(t)
    OBVIOUS
  <2>2. step' = [step EXCEPT ![t] = place] /\ NextMb(t) /\ step[t] = "quiet"
    BY <1>8, <2>1 DEF PublishQuietly, Step, At
  <2>3. step'[t] = place
    BY <1>0, <2>2 DEF Vp8TypesOK
  <2>4. mbPos'[Job(t)] \in Int
    BY <1>5, <1>7
  <2>5. mbPos'[Job(t)] = Pos(row[t], IF Filters(t) THEN col[t] + 3 ELSE col[t])
    BY <1>4, <1>5, <1>7, <2>2
  <2>6. mbPos'[Job(t)] <= Pos(row[t], IF Filters(t) THEN col[t] + 3 ELSE col[t])
    BY <2>4, <2>5
  <2>7. /\ RowGoesOn(t) /\ place \in JobPlaces
        /\ col' \in [Threads -> 0 .. 2 * MbWidth] /\ below' \in [Threads -> BOOLEAN]
    BY <1>2, <2>1, <2>2, <2>3, <2>4, <2>6, MacroblockGoesOn
  <2>8. step' \in [Threads -> JobPlaces]
    BY <1>0, <2>2, <2>7 DEF Vp8TypesOK
  <2> QED BY <1>0, <1>2, <1>7, <2>7, <2>8 DEF Vp8TypesOK, Never, Pos, End
<1>9. ASSUME \/ step[t] = "announce" /\ Step(t, "wake")
             \/ step[t] = "end" /\ Step(t, "wakeAll"),
             UNCHANGED <<col, below>>
      PROVE  RowGoesOn(t) /\ Vp8TypesOK'
  <2>1. PICK place \in {"wake", "wakeAll"} :
          /\ step' = [step EXCEPT ![t] = place]
          /\ step[t] = IF place = "wake" THEN "announce" ELSE "end"
    BY <1>9 DEF Step
  <2>2. step' \in [Threads -> JobPlaces] /\ step'[t] = place
    <3>1. place \in JobPlaces
      BY DEF JobPlaces
    <3> QED BY <1>0, <2>1, <3>1 DEF Vp8TypesOK
  <2>3. Vp8TypesOK'
    BY <1>0, <1>2, <1>7, <1>9, <2>2 DEF Vp8TypesOK, Never, Pos, End
  <2>4. Filters(t)' = Filters(t)
    BY <1>9 DEF Filters
  <2>5. RowInv(t)'
    <3>1. PICK q \in {Published(t)'} : q = Published(t)'
      OBVIOUS
    <3>2. q = IF step[t] = "end" THEN End ELSE IF Filters(t) THEN col[t] + 3 ELSE col[t]
      BY <1>9, <2>1, <2>2, <2>4, <3>1 DEF Published, BeforeStore
    <3>3. mbPos'[j] = Pos(row'[t], q) /\ mbPos'[j] \in Int
      BY <1>2, <1>4, <1>7, <3>2
    <3>4. mbPos'[j] <= Pos(row'[t], q)
      BY <3>3
    <3>5. /\ step'[t] = "wake" => row'[t] < MbHeight /\ col'[t] < 2 * MbWidth
                                  /\ (below'[t] => Filters(t))
          /\ row'[t] <= MbHeight
      BY <1>2, <1>3, <1>9, <2>1, <2>2 DEF RowInv, BeforeStore
    <3>6. row'[t] < MbHeight => \E k \in 0 .. row'[t] : row'[t] = nbJobs * k + Job(t)
      BY <1>2, <1>3 DEF RowInv
    <3> QED BY <1>1, <1>5, <2>2, <2>4, <3>1, <3>4, <3>5, <3>6 DEF RowInv, BeforeStore,
          Vp8Places
  <2>6. CheckInv(t)'
    BY <2>2 DEF CheckInv
  <2>7. \A y \in 0 .. MbHeight - 1 : Within(t, y)' = Within(t, y)
    BY <1>2, <1>9, <2>1, <2>2 DEF Within
  <2>8. \A y \in 0 .. MbHeight - 1 : Within(t, y) \in Nat
    BY <1>2, WithinRange
  <2> QED BY <2>3, <2>5, <2>6, <2>7, <2>8 DEF RowGoesOn
<1>10. CASE Publish(t)
  BY <1>9, <1>10 DEF Publish, At, checkVars
<1>11. CASE EndRow(t)
  BY <1>9, <1>11 DEF EndRow, At, checkVars
<1> QED BY <1>8, <1>10, <1>11

(* The thread that wakes those who wait for it goes on as well, and they stay in places
   of a job. *)
LEMMA WakeGoesOn ==
  ASSUME PoolInv, JobInv, RowsInv, codec = "vp8", UNCHANGED vars, NEW t \in Threads,
         Wake(t) \/ WakeAll(t)
  PROVE  RowGoesOn(t) /\ Vp8TypesOK'
<1> USE RowFacts
<1>0. Vp8TypesOK
  BY DEF Vp8TypesOK, JobInv, DataTypes
<1>1. UNCHANGED <<pc, local, runs, nbJobs>> /\ Job(t)' = Job(t)
  BY DEF vars, ctxVars, Job
<1>2. pc[t] = "job" /\ step[t] \in {"wake", "wakeAll"} /\ UNCHANGED <<mbPos, waitPos>>
  BY DEF Wake, WakeAll, At, vp8Vars
<1>3. RowInv(t)
  BY <1>2 DEF RowsInv
<1>4. PICK j \in Jobs : j = Job(t)
  BY <1>2
<1>5. mbPos'[j] = mbPos[j] /\ mbPos[j] \in Nat /\ mbPos[j] <= Pos(row[t], Published(t))
  BY <1>2, <1>3, <1>4 DEF RowInv
<1>6. ASSUME NEW place \in JobPlaces, Broadcast(t, place)
      PROVE  step' \in [Threads -> JobPlaces] /\ step'[t] = place
  <2>1. "relock" \in JobPlaces
    BY DEF JobPlaces
  <2>2. \A u \in Threads : step[u] \in JobPlaces
    BY <1>0 DEF Vp8TypesOK
  <2> QED BY <1>6, <2>1, <2>2 DEF Broadcast
<1>7. CASE Wake(t)
  <2>1. PICK place : place = AfterMb(t)
    OBVIOUS
  <2>2. Broadcast(t, place) /\ NextMb(t) /\ step[t] = "wake" /\ row' = row
    BY <1>7, <2>1 DEF Wake, At
  <2>3. place \in JobPlaces
    BY <2>1 DEF AfterMb, JobPlaces
  <2>4. step' \in [Threads -> JobPlaces] /\ step'[t] = place
    BY <1>6, <2>2, <2>3
  <2>5. mbPos'[Job(t)] \in Int
    BY <1>4, <1>5
  <2>6. Published(t) = IF Filters(t) THEN col[t] + 3 ELSE col[t]
    BY <2>2 DEF Published
  <2>7. mbPos'[Job(t)] <= Pos(row[t], IF Filters(t) THEN col[t] + 3 ELSE col[t])
    BY <1>4, <1>5, <2>6
  <2>8. /\ RowGoesOn(t)
        /\ col' \in [Threads -> 0 .. 2 * MbWidth] /\ below' \in [Threads -> BOOLEAN]
    BY <1>2, <2>1, <2>2, <2>4, <2>5, <2>7, MacroblockGoesOn
  <2> QED BY <1>0, <1>2, <2>2, <2>4, <2>8 DEF Vp8TypesOK, Never, Pos, End
<1>8. CASE WakeAll(t)
  <2>1. /\ Broadcast(t, "row") /\ row' = [row EXCEPT ![t] = row[t] + nbJobs]
        /\ step[t] = "wakeAll" /\ UNCHANGED <<col, below>>
    BY <1>8 DEF WakeAll, At, vp8Vars
  <2>2. "row" \in JobPlaces
    BY DEF JobPlaces
  <2>3. step' \in [Threads -> JobPlaces] /\ step'[t] = "row"
    BY <1>6, <2>1, <2>2
  <2>4. row' \in [Threads -> Nat] /\ row'[t] = row[t] + nbJobs
    BY <1>0, <1>2, <2>1 DEF Vp8TypesOK
  <2>5. Vp8TypesOK'
    BY <1>0, <1>2, <2>1, <2>3, <2>4 DEF Vp8TypesOK, Never, Pos, End
  <2>6. PICK y \in Nat, z \in Nat : y = row[t] /\ z = row'[t] /\ y < z
    BY <1>2, <2>4
  <2>7. RowInv(t)'
    <3>1. Published(t) = End
      BY <2>1 DEF Published, BeforeStore
    <3>2. Pos(y, End) < Pos(z, 0) /\ Pos(y, End) \in Nat /\ Pos(z, 0) \in Nat
      <4>1. PICK e \in Nat : e = End
        BY PosIsNat
      <4>2. e <= End
        BY <4>1
      <4>3. Pos(y, e) \in Nat /\ Pos(z, 0) \in Nat
        BY PosIsNat
      <4>4. Pos(y, e) < Pos(z, 0)
        BY <2>6, <4>2, PosInOrder
      <4> QED BY <4>1, <4>3, <4>4
    <3>3. mbPos'[j] < Pos(z, 0)
      BY <1>5, <2>6, <3>1, <3>2
    <3>4. ASSUME z < MbHeight PROVE \E k \in 0 .. z : z = nbJobs * k + Job(t)
      <4>1. PICK k \in 0 .. y : y = nbJobs * k + Job(t)
        BY <1>3, <2>1, <2>6, <3>4 DEF RowInv
      <4>2. nbJobs * (k + 1) = nbJobs * k + nbJobs /\ nbJobs * k \in Nat
        <5>1. k \in Nat /\ nbJobs \in Nat
          BY <2>6
        <5> HIDE RowFacts
        <5> QED BY <5>1, SMTT(30)
      <4>3. z = nbJobs * (k + 1) + Job(t) /\ k + 1 \in 0 .. z
        BY <1>2, <2>4, <2>6, <4>1, <4>2
      <4> QED BY <4>3
    <3> QED BY <1>1, <1>4, <2>3, <2>6, <3>3, <3>4 DEF RowInv, BeforeStore, Vp8Places
  <2>8. CheckInv(t)'
    BY <2>3 DEF CheckInv
  <2>9. \A x \in 0 .. MbHeight - 1 : Within(t, x)' \in Nat /\ Within(t, x)' >= Within(t, x)
    <3> TAKE x \in 0 .. MbHeight - 1
    <3>1. Within(t, x) = IF y < x THEN 0 ELSE 2 * MbWidth
      BY <2>1, <2>6 DEF Within
    <3>2. Within(t, x)' = IF z < x THEN 0 ELSE IF z > x THEN 2 * MbWidth ELSE 0
      BY <2>3, <2>6 DEF Within
    <3> QED BY <2>6, <3>1, <3>2
  <2> QED BY <2>5, <2>7, <2>8, <2>9 DEF RowGoesOn
<1> QED BY <1>7, <1>8

(* A row begins where nothing is done of it; one that is given up is behind all. *)
LEMMA BeginGoesOn ==
  ASSUME PoolInv, JobInv, RowsInv, codec = "vp8", UNCHANGED vars, NEW t \in Threads,
         Vp8Begin(t) \/ BeginRow(t) \/ DataMissing(t)
  PROVE  RowGoesOn(t) /\ Vp8TypesOK'
<1> USE RowFacts
<1>0. Vp8TypesOK
  BY DEF Vp8TypesOK, JobInv, DataTypes
<1>1. UNCHANGED <<pc, local, runs, nbJobs>> /\ Job(t)' = Job(t)
  BY DEF vars, ctxVars, Job
<1>2. pc[t] = "job" /\ step[t] \in {"begin", "row", "load"}
  BY DEF Vp8Begin, BeginRow, DataMissing, At
<1>3. RowInv(t)
  BY <1>2 DEF RowsInv
<1>4. PICK j \in Jobs : j = Job(t) /\ j \in Nat
  BY <1>2
<1>5. mbPos[j] \in Nat
  OBVIOUS
<1>6. CASE Vp8Begin(t)
  <2>1. /\ step' = [step EXCEPT ![t] = "row"] /\ row' = [row EXCEPT ![t] = j]
        /\ step[t] = "begin" /\ UNCHANGED vp8Vars
    BY <1>4, <1>6 DEF Vp8Begin, At, Step
  <2>2. "row" \in JobPlaces
    BY DEF JobPlaces
  <2>3. step' \in [Threads -> JobPlaces] /\ step'[t] = "row"
    BY <1>0, <2>1, <2>2 DEF Vp8TypesOK
  <2>4. row' \in [Threads -> Nat] /\ row'[t] = j
    BY <1>0, <1>4, <2>1 DEF Vp8TypesOK
  <2>5. Vp8TypesOK'
    BY <1>0, <2>1, <2>3, <2>4 DEF Vp8TypesOK, Never, Pos, End, vp8Vars
  <2>6. RowInv(t)'
    <3>1. mbPos'[j] = 0
      BY <1>3, <1>4, <2>1 DEF RowInv, vp8Vars
    <3>2. 0 \in 0 .. j /\ j = nbJobs * 0 + j
      BY <1>4, SMTT(30)
    <3> QED BY <1>1, <1>4, <2>3, <2>4, <3>1, <3>2 DEF RowInv, BeforeStore, Vp8Places
  <2>7. CheckInv(t)'
    BY <2>3 DEF CheckInv
  <2>8. \A y \in 0 .. MbHeight - 1 : Within(t, y)' \in Nat /\ Within(t, y)' >= Within(t, y)
    <3> TAKE y \in 0 .. MbHeight - 1
    <3>1. Within(t, y) = 0
      BY <2>1 DEF Within
    <3>2. Within(t, y)' = IF row'[t] > y THEN 2 * MbWidth ELSE 0
      BY <1>4, <2>3, <2>4 DEF Within
    <3> QED BY <3>1, <3>2
  <2> QED BY <2>5, <2>6, <2>7, <2>8 DEF RowGoesOn
<1>7. CASE BeginRow(t)
  <2>1. /\ step[t] = "row" /\ UNCHANGED <<row, waitPos>>
        /\ col' = [col EXCEPT ![t] = 0] /\ below' = [below EXCEPT ![t] = FALSE]
    BY <1>7 DEF BeginRow, At
  <2>2. \/ /\ row[t] < MbHeight /\ step' = [step EXCEPT ![t] = "load"]
           /\ mbPos' = [mbPos EXCEPT ![j] = Pos(row[t], 0)]
        \/ ~(row[t] < MbHeight) /\ step' = [step EXCEPT ![t] = "return"] /\ mbPos' = mbPos
    BY <1>4, <1>7 DEF BeginRow, Step
  <2>3. PICK y \in Nat : y = row[t] /\ row'[t] = y
    BY <2>1
  <2>4. y < MbHeight => Pos(y, 0) \in 0 .. Never
    <3>1. y < MbHeight => Pos(y, 0) \in 0 .. Never - 1
      <4>1. End \in Nat
        BY PosIsNat
      <4> QED BY <4>1, PosBounded
    <3> QED BY <3>1, PosIsNat
  <2>5. /\ step' \in [Threads -> JobPlaces]
        /\ step'[t] = IF y < MbHeight THEN "load" ELSE "return"
    <3>1. "load" \in JobPlaces /\ "return" \in JobPlaces
      BY DEF JobPlaces
    <3> QED BY <1>0, <2>2, <2>3, <3>1 DEF Vp8TypesOK
  <2>6. /\ mbPos' \in [Jobs -> 0 .. Never]
        /\ mbPos'[j] = IF y < MbHeight THEN Pos(y, 0) ELSE mbPos[j]
    BY <1>0, <2>2, <2>3, <2>4 DEF Vp8TypesOK
  <2>7. /\ col' \in [Threads -> 0 .. 2 * MbWidth] /\ col'[t] = 0
        /\ below' \in [Threads -> BOOLEAN] /\ below'[t] = FALSE
    BY <1>0, <2>1 DEF Vp8TypesOK
  <2>8. Vp8TypesOK'
    BY <1>0, <2>1, <2>5, <2>6, <2>7 DEF Vp8TypesOK, Never, Pos, End
  <2>9. RowInv(t)'
    <3>1. CASE y < MbHeight
      <4>1. Published(t)' = 0
        BY <2>5, <2>7, <3>1 DEF Published, BeforeStore
      <4>2. mbPos'[j] <= Pos(y, 0)
        BY <2>4, <2>6, <3>1
      <4>3. \E k \in 0 .. y : y = nbJobs * k + Job(t)
        BY <1>3, <2>1, <2>3, <3>1 DEF RowInv
      <4> QED BY <1>1, <1>4, <2>3, <2>5, <2>7, <3>1, <4>1, <4>2, <4>3 DEF RowInv,
            BeforeStore, Vp8Places
    <3>2. CASE ~(y < MbHeight)
      <4>1. mbPos'[j] = 0 \/ mbPos'[j] < Pos(y, 0)
        BY <1>3, <1>4, <2>1, <2>3, <2>6, <3>2 DEF RowInv
      <4> QED BY <1>1, <1>4, <2>3, <2>5, <3>2, <4>1 DEF RowInv, BeforeStore, Vp8Places
    <3> QED BY <3>1, <3>2
  <2>10. CheckInv(t)'
    BY <2>5, <2>7 DEF CheckInv
  <2>11. \A x \in 0 .. MbHeight - 1 : Within(t, x)' \in Nat /\ Within(t, x)' >= Within(t, x)
    <3> TAKE x \in 0 .. MbHeight - 1
    <3>1. Within(t, x) = IF y < x THEN 0 ELSE IF y > x THEN 2 * MbWidth ELSE 0
      BY <2>1, <2>3 DEF Within
    <3>2. Within(t, x)' = IF y < x THEN 0 ELSE IF y > x THEN 2 * MbWidth ELSE 0
      BY <2>3, <2>5, <2>7 DEF Within
    <3> QED BY <3>1, <3>2
  <2> QED BY <2>8, <2>9, <2>10, <2>11 DEF RowGoesOn
<1>8. CASE DataMissing(t)
  <2>1. /\ step[t] = "load" /\ step' = [step EXCEPT ![t] = "end"]
        /\ row' = [row EXCEPT ![t] = MbHeight] /\ UNCHANGED vp8Vars
    BY <1>8 DEF DataMissing, At, Step
  <2>2. "end" \in JobPlaces
    BY DEF JobPlaces
  <2>3. step' \in [Threads -> JobPlaces] /\ step'[t] = "end"
    BY <1>0, <2>1, <2>2 DEF Vp8TypesOK
  <2>4. row' \in [Threads -> Nat] /\ row'[t] = MbHeight
    BY <1>0, <2>1 DEF Vp8TypesOK
  <2>5. Vp8TypesOK'
    BY <1>0, <2>1, <2>3, <2>4 DEF Vp8TypesOK, Never, Pos, End, vp8Vars
  <2>6. PICK y \in Nat : y = row[t] /\ y < MbHeight /\ col[t] < 2 * MbWidth
    BY <1>3, <2>1 DEF RowInv, BeforeStore
  <2>7. RowInv(t)'
    <3>1. PICK p \in Nat : p = Published(t) /\ p <= End /\ mbPos[j] <= Pos(y, p)
      <4>1. PICK p \in {Published(t)} : p = Published(t)
        OBVIOUS
      <4>2. p = IF col[t] = 0 THEN 0 ELSE IF col[t] <= MbWidth THEN col[t] - 1 ELSE col[t] + 2
        BY <2>1, <4>1 DEF Published, BeforeStore
      <4>3. End = 2 * MbWidth + 4
        BY PosIsNat
      <4>4. p \in Nat /\ p <= End
        BY <2>6, <4>2, <4>3
      <4>5. mbPos[j] <= Pos(y, p)
        BY <1>3, <1>4, <2>1, <2>6, <4>1 DEF RowInv
      <4> QED BY <4>1, <4>4, <4>5
    <3>2. End \in Nat /\ Pos(y, p) < Pos(MbHeight, 0)
      BY <2>6, <3>1, PosInOrder, PosIsNat
    <3>3. /\ Pos(MbHeight, End) = Pos(MbHeight, 0) + End
          /\ Pos(MbHeight, 0) \in Nat /\ Pos(y, p) \in Nat
      BY <3>1, <3>2, PosIsNat
    <3>4. mbPos'[j] <= Pos(MbHeight, End)
      BY <1>5, <2>1, <3>1, <3>2, <3>3 DEF vp8Vars
    <3>5. Published(t)' = End
      BY <2>3 DEF Published, BeforeStore, End
    <3> QED BY <1>1, <1>4, <2>3, <2>4, <3>4, <3>5 DEF RowInv, BeforeStore, Vp8Places
  <2>8. CheckInv(t)'
    BY <2>3 DEF CheckInv
  <2>9. \A x \in 0 .. MbHeight - 1 : Within(t, x)' \in Nat /\ Within(t, x)' >= Within(t, x)
    <3> TAKE x \in 0 .. MbHeight - 1
    <3>1. Within(t, x)' = 2 * MbWidth
      BY <2>3, <2>4 DEF Within
    <3>2. Within(t, x) \in 0 .. 2 * MbWidth
      BY <1>2, WithinRange
    <3> QED BY <3>1, <3>2
  <2> QED BY <2>5, <2>7, <2>8, <2>9 DEF RowGoesOn
<1> QED BY <1>6, <1>7, <1>8

(* A step of the jobs keeps the rows: no row loses what was done of it. *)
LEMMA Vp8KeepsRows ==
  ASSUME PoolInv, PoolInv', JobInv, RowsInv, codec = "vp8", codec' = "vp8",
         UNCHANGED <<vars, hevcVars, tileEntries>>, NEW t \in Threads, Vp8Step(t)
  PROVE  RowsInv' /\ JobInv'
<1> USE RowFacts
<1>1. UNCHANGED <<pc, local, runs, nbJobs>> /\ \A u \in Threads : Job(u)' = Job(u)
  BY DEF vars, ctxVars, Job
<1>2. /\ pc[t] = "job" /\ InFunc(t)
      /\ \A u \in Threads : u # t =>
           /\ row'[u] = row[u] /\ col'[u] = col[u] /\ below'[u] = below[u]
           /\ \/ step'[u] = step[u]
              \/ InFunc(u) /\ step[u] = "asleep" /\ step'[u] = "relock"
      /\ \A j \in Jobs : j # Job(t) => mbPos'[j] = mbPos[j]
      /\ deblock' = deblock
  BY Vp8StepMoves
<1>3. RowGoesOn(t) /\ Vp8TypesOK'
  BY CheckGoesOn, LookGoesOn, PublishGoesOn, WakeGoesOn, BeginGoesOn DEF Vp8Step, Update
<1>4. JobInv'
  <2>1. DataTypes'
    BY <1>2, <1>3 DEF JobInv, DataTypes, Vp8TypesOK, hevcVars, Vp9Cleared
  <2>2. \A u \in Threads : ~InFunc(u) => step'[u] = step[u] /\ row'[u] = row[u]
    BY <1>2
  <2>3. JobsOnce' /\ UseInv'
    BY <2>2, FunctionKeepsCalls
  <2> QED BY <2>1, <2>3 DEF JobInv
<1>5. \A u \in Threads : pc[u] = "job" =>
        \A y \in 0 .. MbHeight - 1 : Within(u, y)' \in Nat /\ Within(u, y)' >= Within(u, y)
  <2> TAKE u \in Threads
  <2>1. CASE u = t
    BY <1>3, <2>1 DEF RowGoesOn
  <2>2. ASSUME u # t, pc[u] = "job", NEW y \in 0 .. MbHeight - 1
        PROVE  Within(u, y)' \in Nat /\ Within(u, y)' >= Within(u, y)
    <3>1. /\ row'[u] = row[u] /\ col'[u] = col[u]
          /\ \/ step'[u] = step[u]
             \/ step[u] = "asleep" /\ step'[u] = "relock"
      BY <1>2, <2>2, Zenon
    <3>2. Within(u, y)' = Within(u, y)
      BY <3>1 DEF Within
    <3>3. Within(u, y) \in 0 .. 2 * MbWidth
      BY <2>2, WithinRange
    <3> QED BY <3>2, <3>3
  <2> QED BY <2>1, <2>2
<1>6. Advances
  BY <1>2, <1>4, <1>5, ThreadsAdvance
<1>7. \A u \in Threads : pc[u] = "job" => RowInv(u)' /\ CheckInv(u)'
  <2> SUFFICES ASSUME NEW u \in Threads, pc[u] = "job" PROVE RowInv(u)' /\ CheckInv(u)'
    OBVIOUS
  <2>1. CASE u = t
    BY <1>3, <1>6, <2>1 DEF RowGoesOn
  <2>2. CASE u # t
    <3>1. mbPos'[Job(u)] = mbPos[Job(u)]
      BY <1>2, <2>2
    <3>2. nbJobs' = nbJobs /\ local'[u] = local[u]
      BY <1>1
    <3> QED BY <1>2, <1>6, <2>2, <3>1, <3>2, OtherRowsStay
  <2> QED BY <2>1, <2>2
<1>8. \A j \in Jobs : runs[j] = 0 => mbPos'[j] = 0
  <2>1. runs[Job(t)] = 1
    BY <1>2 DEF JobInv, JobsOnce
  <2> QED BY <1>2, <2>1 DEF RowsInv, NotCalled
<1> QED BY <1>1, <1>4, <1>7, <1>8 DEF RowsInv, NotCalled

(* A job that is called has done nothing, and one that returns has done all its rows. *)
LEMMA CallsAdvance ==
  ASSUME PoolInv, JobInv, RowsInv, PoolInv', JobInv', codec = "vp8", codec' = "vp8", nbJobs > 0,
         nbJobs' = nbJobs, NEW t \in Threads,
         \A u \in Threads : u # t => /\ pc'[u] = "job" <=> pc[u] = "job"
                                     /\ pc[u] = "job" => local'[u] = local[u],
         \A u \in Threads : u # t => step'[u] = step[u] /\ row'[u] = row[u] /\ col'[u] = col[u],
         \/ /\ runs' = runs /\ pc[t] = "job" /\ pc'[t] # "job"
         \/ \E j \in Jobs : /\ runs[j] = 0 /\ runs' = [runs EXCEPT ![j] = 1]
                            /\ pc[t] # "job" /\ pc'[t] = "job" /\ Job(t)' = j
                            /\ step'[t] = "begin"
         \/ /\ runs' = runs /\ (pc'[t] = "job" <=> pc[t] = "job")
            /\ (pc[t] = "job" => local'[t] = local[t])
            /\ step'[t] = step[t] /\ row'[t] = row[t] /\ col'[t] = col[t]
  PROVE  Advances
<1> USE RowFacts
<1>1. ProgressFacts /\ ProgressFacts'
  BY ProgressIs, ProgressWillBe
<1> SUFFICES ASSUME NEW y \in 0 .. MbHeight - 1
             PROVE  Progress(y)' \in Nat /\ Progress(y)' >= Progress(y)
  BY DEF Advances
<1>2. PICK q \in Jobs : q = y % nbJobs
  <2>1. nbJobs \in Nat \ {0} /\ y \in Nat
    OBVIOUS
  <2> QED BY <2>1, RemainderInRange
<1>3. /\ \A u \in Threads : pc[u] = "job" /\ Job(u) = q => Progress(y) = Within(u, y)
      /\ (\A u \in Threads : pc[u] = "job" => Job(u) # q) =>
           Progress(y) = IF runs[q] = 1 THEN 2 * MbWidth ELSE 0
  BY <1>1, <1>2 DEF ProgressFacts
<1>4. /\ \A u \in Threads : pc'[u] = "job" /\ Job(u)' = q => Progress(y)' = Within(u, y)'
      /\ (\A u \in Threads : pc'[u] = "job" => Job(u)' # q) =>
           Progress(y)' = IF runs'[q] = 1 THEN 2 * MbWidth ELSE 0
  BY <1>1, <1>2 DEF ProgressFacts
<1>5. \A u \in Threads : u # t =>
        /\ pc[u] = "job" => Job(u)' = Job(u)
        /\ Within(u, y)' = Within(u, y)
  BY DEF Job, Within
<1>6. \A u \in Threads : pc[u] = "job" => Within(u, y) \in 0 .. 2 * MbWidth
  BY WithinRange
<1>7. runs \in [Jobs -> Nat]
  BY DEF PoolInv, PoolTypeOK
<1>8. \A u, v \in Threads : pc[u] = "job" /\ pc[v] = "job" /\ Job(u) = Job(v) => u = v
  OBVIOUS
<1>9. CASE \E u \in Threads : u # t /\ pc[u] = "job" /\ Job(u) = q
  BY <1>3, <1>4, <1>5, <1>6, <1>9
<1>10. CASE \A u \in Threads : u # t /\ pc[u] = "job" => Job(u) # q
  <2>1. \A u \in Threads : u # t /\ pc'[u] = "job" => Job(u)' # q
    BY <1>5, <1>10
  <2>2. CASE runs' = runs /\ pc[t] = "job" /\ pc'[t] # "job"
    <3>1. Progress(y)' = IF runs[q] = 1 THEN 2 * MbWidth ELSE 0
      BY <1>4, <2>1, <2>2
    <3>2. CASE Job(t) = q
      <4>1. runs[q] = 1
        BY <2>2, <3>2 DEF JobInv, JobsOnce
      <4>2. Progress(y) \in 0 .. 2 * MbWidth
        BY <1>3, <1>6, <2>2, <3>2
      <4> QED BY <3>1, <4>1, <4>2
    <3>3. CASE Job(t) # q
      <4>1. Progress(y) = IF runs[q] = 1 THEN 2 * MbWidth ELSE 0
        BY <1>3, <1>10, <3>3
      <4> QED BY <3>1, <4>1
    <3> QED BY <3>2, <3>3
  <2>3. ASSUME NEW j \in Jobs, runs[j] = 0, runs' = [runs EXCEPT ![j] = 1],
               pc[t] # "job", pc'[t] = "job", Job(t)' = j, step'[t] = "begin"
        PROVE  Progress(y)' \in Nat /\ Progress(y)' >= Progress(y)
    <3>1. Progress(y) = IF runs[q] = 1 THEN 2 * MbWidth ELSE 0
      BY <1>3, <1>10, <2>3
    <3>2. CASE j = q
      <4>1. Progress(y)' = 0
        BY <1>4, <2>3, <3>2 DEF Within
      <4> QED BY <2>3, <3>1, <3>2, <4>1
    <3>3. CASE j # q
      <4>1. Progress(y)' = IF runs'[q] = 1 THEN 2 * MbWidth ELSE 0
        BY <1>4, <2>1, <2>3, <3>3
      <4>2. runs'[q] = runs[q]
        BY <1>7, <2>3, <3>3
      <4> QED BY <3>1, <4>1, <4>2
    <3> QED BY <3>2, <3>3
  <2>4. CASE /\ runs' = runs /\ (pc'[t] = "job" <=> pc[t] = "job")
             /\ (pc[t] = "job" => local'[t] = local[t])
             /\ step'[t] = step[t] /\ row'[t] = row[t] /\ col'[t] = col[t]
    <3>1. Within(t, y)' = Within(t, y) /\ (pc[t] = "job" => Job(t)' = Job(t))
      BY <2>4 DEF Within, Job
    <3>2. CASE pc[t] = "job" /\ Job(t) = q
      BY <1>3, <1>4, <1>6, <2>4, <3>1, <3>2
    <3>3. CASE ~(pc[t] = "job" /\ Job(t) = q)
      <4>1. Progress(y) = IF runs[q] = 1 THEN 2 * MbWidth ELSE 0
        BY <1>3, <1>10, <3>3
      <4>2. Progress(y)' = IF runs[q] = 1 THEN 2 * MbWidth ELSE 0
        BY <1>4, <2>1, <2>4, <3>1, <3>3
      <4> QED BY <4>1, <4>2
    <3> QED BY <3>2, <3>3
  <2> QED BY <2>2, <2>3, <2>4
<1> QED BY <1>9, <1>10

(* Between two calls the rows of VP8 stay. *)
LEMMA QuietKeepsRows ==
  ASSUME PoolInv, JobInv, PoolInv', JobInv', RowsInv, Quiet, UNCHANGED codecVars
  PROVE  RowsInv'
<1>1. /\ UNCHANGED <<codec, step, row, mbPos, col, below, nbJobs, runs>>
      /\ \A u \in Threads : /\ pc'[u] = "job" <=> pc[u] = "job"
                            /\ pc[u] = "job" => local'[u] = local[u] /\ Job(u)' = Job(u)
  BY DEF codecVars, jobVars, vp8Vars, Quiet, Job
<1> SUFFICES ASSUME codec = "vp8" PROVE RowsInv'
  BY <1>1 DEF RowsInv
<1>2. ASSUME NEW u \in Threads, pc[u] = "job" PROVE RowInv(u)' /\ CheckInv(u)'
  <2>1. nbJobs > 0
    BY <1>2, RowFacts
  <2>2. codec' = "vp8"
    BY <1>1
  <2>3. Advances
    BY <1>1, <2>1, <2>2, CallsAdvance
  <2> QED BY <1>1, <1>2, <2>3, OtherRowsStay
<1>3. \A j \in Jobs : NotCalled(j)' => mbPos'[j] = 0
  BY <1>1 DEF RowsInv, NotCalled
<1> QED BY <1>1, <1>2, <1>3 DEF RowsInv

(* A job that is called has published nothing. *)
LEMMA TakesKeepsRows ==
  ASSUME PoolInv, JobInv, PoolInv', JobInv', RowsInv, NEW t \in Threads, NEW j \in Jobs,
         Takes(t, j), UNCHANGED codecVars
  PROVE  RowsInv'
<1>0. PcTypeOK /\ runs \in [Jobs -> Nat]
  BY DEF PoolInv, PoolTypeOK, PcTypeOK
<1>1. /\ UNCHANGED <<codec, step, row, mbPos, col, below, nbJobs>>
      /\ \A u \in Threads : u # t => pc'[u] = pc[u] /\ Job(u)' = Job(u) /\ local'[u] = local[u]
      /\ pc'[t] = "job" /\ Job(t)' = j /\ pc[t] \notin {"job", "mainfunc"} /\ runs[j] = 0
      /\ \A q \in Jobs : runs'[q] = IF q = j THEN 1 ELSE runs[q]
      /\ runs' = [runs EXCEPT ![j] = 1]
  BY <1>0 DEF codecVars, jobVars, vp8Vars, Takes, Job, PcTypeOK
<1> SUFFICES ASSUME codec = "vp8" PROVE RowsInv'
  BY <1>1 DEF RowsInv
<1>2. step'[t] = "begin" /\ row'[t] = 0
  BY <1>1 DEF JobInv, JobsOnce, InFunc
<1>3. mbPos'[j] = 0
  BY <1>1 DEF RowsInv, NotCalled
<1>4. RowInv(t)' /\ CheckInv(t)'
  BY <1>1, <1>2, <1>3 DEF RowInv, CheckInv, BeforeStore, Vp8Places
<1>5. ASSUME NEW u \in Threads, u # t, pc[u] = "job" PROVE RowInv(u)' /\ CheckInv(u)'
  <2>1. nbJobs > 0
    BY <1>5, RowFacts
  <2>2. codec' = "vp8"
    BY <1>1
  <2>3. Advances
    BY <1>1, <1>2, <2>1, <2>2, CallsAdvance
  <2> QED BY <1>1, <1>5, <2>3, OtherRowsStay
<1>6. \A q \in Jobs : NotCalled(q)' => mbPos'[q] = 0
  BY <1>1 DEF RowsInv, NotCalled
<1> QED BY <1>1, <1>4, <1>5, <1>6 DEF RowsInv

(* A job that returns has done all its rows. *)
LEMMA EndsKeepsRows ==
  ASSUME PoolInv, JobInv, PoolInv', JobInv', RowsInv, NEW t \in Threads, Ends(t),
         step' = [step EXCEPT ![t] = "begin"], row' = [row EXCEPT ![t] = 0],
         UNCHANGED <<codec, vp8Vars>>
  PROVE  RowsInv'
<1>0. PcTypeOK /\ step \in [Threads -> JobPlaces] /\ row \in [Threads -> Nat]
  BY DEF PoolInv, PoolTypeOK, PcTypeOK, JobInv, DataTypes
<1>1. /\ UNCHANGED <<codec, mbPos, col, below, nbJobs, runs, local>>
      /\ \A u \in Threads : Job(u)' = Job(u) /\ local'[u] = local[u]
      /\ \A u \in Threads : u # t => pc'[u] = pc[u] /\ step'[u] = step[u] /\ row'[u] = row[u]
      /\ pc'[t] # "job" /\ pc[t] = "job"
  BY <1>0 DEF vp8Vars, Ends, Job, PcTypeOK
<1> SUFFICES ASSUME codec = "vp8" PROVE RowsInv'
  BY <1>1 DEF RowsInv
<1>2. nbJobs > 0 /\ codec' = "vp8"
  BY <1>1, RowFacts
<1>3. Advances
  BY <1>1, <1>2, CallsAdvance
<1>4. ASSUME NEW u \in Threads, u # t, pc[u] = "job" PROVE RowInv(u)' /\ CheckInv(u)'
  BY <1>1, <1>3, <1>4, OtherRowsStay
<1>5. \A q \in Jobs : NotCalled(q)' => mbPos'[q] = 0
  BY <1>1 DEF RowsInv, NotCalled
<1> QED BY <1>1, <1>4, <1>5 DEF RowsInv

-----------------------------------------------------------------------------
(* The jobs decode in order *)

(* No job runs before the first execute. *)
LEMMA DecodingInvInit == DecodingInit => DecodingInv
<1> SUFFICES ASSUME DecodingInit PROVE DecodingInv
  OBVIOUS
<1> USE ThreadFacts
<1>1. /\ \A t \in Threads : pc[t] # "job" /\ ~InFunc(t) /\ pc[t] # "mainfunc"
      /\ nbJobs = 0 /\ \A j \in Jobs : runs[j] = 0
  BY DEF DecodingInit, Init, InFunc
<1>2. /\ codec \in Codecs /\ mainFunc \in HasMainFunc(codec)
      /\ step = [t \in Threads |-> "begin"] /\ row = [t \in Threads |-> 0]
  BY DEF DecodingInit, JobInit
<1>3. JobsOnce
  BY <1>1, <1>2 DEF JobsOnce
<1>4. UseInv
  <2>1. ~Busy
    BY <1>1 DEF DecodingInit, Init, Busy, RunPlaces
  <2>2. codec \in {"hevc", "vp8"} => ~mainFunc
    BY <1>2 DEF HasMainFunc
  <2>3. codec = "vp9" => mainFunc
    BY <1>2 DEF HasMainFunc
  <2> QED BY <1>1, <1>2, <2>1, <2>2, <2>3 DEF UseInv
<1>5. DataTypes
  <2>1. "begin" \in JobPlaces
    BY DEF JobPlaces
  <2>2. step \in [Threads -> JobPlaces] /\ row \in [Threads -> Nat]
    BY <1>2, <2>1
  <2>3. /\ entries \in [Jobs -> 0 .. Ctbs + Shift] /\ wppErr \in BOOLEAN
        /\ cabacState \in Jobs \cup {NoRow} /\ decoded \in [Jobs -> 0 .. Ctbs]
    <3>1. NoProgress \in [Jobs -> 0 .. Ctbs + Shift] /\ NoProgress \in [Jobs -> 0 .. Ctbs]
      BY CtbsAssumption DEF NoProgress, Shift
    <3> QED BY <3>1 DEF DecodingInit, HevcInit
  <2>4. /\ deblock \in BOOLEAN
        /\ mbPos \in [Jobs -> 0 .. Never] /\ waitPos \in [Jobs -> 0 .. Never]
        /\ col \in [Threads -> 0 .. 2 * MbWidth] /\ below \in [Threads -> BOOLEAN]
    <3>1. Never \in Nat
      BY PosIsNat
    <3>2. AtTop \in [Jobs -> 0 .. Never] /\ NoneWaits \in [Jobs -> 0 .. Never]
      BY <3>1 DEF AtTop, NoneWaits
    <3>3. 0 \in 0 .. 2 * MbWidth
      BY MbAssumption
    <3> QED BY <3>2, <3>3 DEF DecodingInit, Vp8Init
  <2>5. tileEntries \in [0 .. SbRows - 1 -> Nat] /\ tileEntries = Vp9Cleared
    BY DEF DecodingInit, Vp9Cleared
  <2> QED BY <2>2, <2>3, <2>4, <2>5 DEF DataTypes
<1>6. WavefrontInv
  BY <1>1 DEF WavefrontInv, DecodingInit, HevcInit, NoProgress, NotCalled, Returned
<1>7. TilesInv
  <2>1. \A y \in 0 .. SbRows - 1 : Columns(y) = {}
    BY <1>1 DEF Columns
  <2>2. \A y \in 0 .. SbRows - 1 : Cardinality(Columns(y)) = 0
    BY <2>1, FS_EmptySet
  <2>3. \A y \in 0 .. SbRows - 1 : tileEntries[y] = 0
    BY DEF DecodingInit
  <2>4. \A t \in Workers : pc[t] # "job"
    BY <1>1
  <2> QED BY <1>1, <2>2, <2>3, <2>4 DEF TilesInv, At
<1>8. RowsInv
  BY <1>1 DEF RowsInv, DecodingInit, Vp8Init, AtTop
<1> QED BY <1>3, <1>4, <1>5, <1>6, <1>7, <1>8 DEF DecodingInv, JobInv

(* A step of the pool keeps what the jobs keep. *)
LEMMA PoolStepKeepsDecoding ==
  ASSUME PoolInv, PoolInv', DecodingInv, UNCHANGED codecVars,
         Quiet \/ \E t \in Threads, j \in Jobs : Takes(t, j)
  PROVE  DecodingInv'
<1>1. CASE Quiet
  <2>1. JobInv'
    BY <1>1, QuietKeepsJobs DEF DecodingInv
  <2> QED BY <1>1, <2>1, QuietKeepsWavefront, QuietKeepsTiles, QuietKeepsRows DEF DecodingInv
<1>2. ASSUME NEW t \in Threads, NEW j \in Jobs, Takes(t, j) PROVE DecodingInv'
  <2>1. JobInv'
    BY <1>2, TakesKeepsJobs DEF DecodingInv
  <2> QED BY <1>2, <2>1, TakesKeepsWavefront, TakesKeepsTiles, TakesKeepsRows DEF DecodingInv
<1> QED BY <1>1, <1>2

(* So does the return of a job, or of the main function. *)
LEMMA ReturnKeepsDecoding ==
  ASSUME PoolInv, PoolInv', DecodingInv, NEW t \in Threads, Returns(t),
         UNCHANGED <<hevcVars, vp8Vars, tileEntries>>
  PROVE  DecodingInv'
<1>1. /\ codec # "independent" => step[t] = "return"
      /\ step' = [step EXCEPT ![t] = "begin"] /\ row' = [row EXCEPT ![t] = 0]
      /\ codec' = codec
  BY DEF Returns, At, Step
<1>2. Ends(t) \/ (t = Main /\ MainFuncReturns)
  <2>1. ASSUME FinishJob(t) PROVE Ends(t)
    <3>1. pc[t] = "job" /\ pc' = [pc EXCEPT ![t] = "claim"]
      BY <2>1 DEF FinishJob, Goto
    <3>2. Busy
      BY <3>1, RunIsBusy DEF RunPlaces
    <3> QED BY <2>1, <3>1, <3>2 DEF FinishJob, Ends, ctxVars
  <2> QED BY <2>1 DEF Returns
<1>3. JobInv'
  BY <1>1, <1>2, EndsKeepsJobs DEF DecodingInv
<1>4. TilesInv'
  BY <1>1, <1>2, EndsKeepsTiles DEF DecodingInv
<1>5. codec \in {"hevc", "vp8"} => Ends(t)
  <2>1. codec \in {"hevc", "vp8"} => (InFunc(t) <=> pc[t] = "job")
    BY MainPlacesFacts DEF DecodingInv
  <2>2. MainFuncReturns /\ t = Main => pc[t] = "mainfunc" /\ InFunc(t)
    BY DEF MainFuncReturns, InFunc
  <2> QED BY <1>2, <2>1, <2>2
<1>6. WavefrontInv'
  <2>1. CASE codec = "hevc"
    BY <1>1, <1>5, <2>1, EndsKeepsWavefront DEF DecodingInv
  <2>2. CASE codec # "hevc"
    BY <1>1, <2>2 DEF WavefrontInv
  <2> QED BY <2>1, <2>2
<1>7. RowsInv'
  <2>1. CASE codec = "vp8"
    BY <1>1, <1>3, <1>5, <2>1, EndsKeepsRows DEF DecodingInv
  <2>2. CASE codec # "vp8"
    BY <1>1, <2>2 DEF RowsInv
  <2> QED BY <2>1, <2>2
<1> QED BY <1>3, <1>4, <1>6, <1>7 DEF DecodingInv

(* And so does every step of a function of a codec. *)
LEMMA JobStepKeepsDecoding ==
  ASSUME PoolInv, PoolInv', DecodingInv, codec' = codec, NEW t \in Threads, JobStep(t)
  PROVE  DecodingInv'
<1>1. codec \in Codecs /\ JobInv
  BY DEF DecodingInv, JobInv, UseInv
<1>2. \/ codec = "hevc" /\ HevcStep(t) /\ UNCHANGED <<vars, vp8Vars, tileEntries>>
      \/ codec = "vp8" /\ Vp8Step(t) /\ UNCHANGED <<vars, hevcVars, tileEntries>>
      \/ codec = "vp9" /\ Vp9Step(t) /\ UNCHANGED <<vars, hevcVars, vp8Vars>>
  BY <1>1 DEF JobStep, Codecs
<1>3. CASE codec = "hevc" /\ HevcStep(t) /\ UNCHANGED <<vars, vp8Vars, tileEntries>>
  <2>1. /\ WavefrontInv'
        /\ \A u \in Threads : ~InFunc(u) => step'[u] = step[u] /\ row'[u] = row[u]
        /\ step' \in [Threads -> JobPlaces] /\ row' \in [Threads -> Nat]
        /\ entries' \in [Jobs -> 0 .. Ctbs + Shift] /\ wppErr' \in BOOLEAN
        /\ cabacState' \in Jobs \cup {NoRow} /\ decoded' \in [Jobs -> 0 .. Ctbs]
    BY <1>3, HevcKeepsWavefront DEF DecodingInv
  <2>2. DataTypes'
    BY <1>1, <1>3, <2>1 DEF JobInv, DataTypes, vp8Vars, Vp9Cleared, Never, Pos, End
  <2>3. JobInv'
    BY <1>1, <1>3, <2>1, <2>2, FunctionKeepsCalls DEF JobInv
  <2> QED BY <1>3, <2>1, <2>3 DEF DecodingInv, TilesInv, RowsInv
<1>4. CASE codec = "vp8" /\ Vp8Step(t) /\ UNCHANGED <<vars, hevcVars, tileEntries>>
  <2>1. RowsInv' /\ JobInv'
    BY <1>1, <1>4, Vp8KeepsRows DEF DecodingInv
  <2> QED BY <1>4, <2>1 DEF DecodingInv, TilesInv, WavefrontInv
<1>5. CASE codec = "vp9" /\ Vp9Step(t) /\ UNCHANGED <<vars, hevcVars, vp8Vars>>
  <2>1. /\ TilesInv'
        /\ \A u \in Threads : ~InFunc(u) => step'[u] = step[u] /\ row'[u] = row[u]
        /\ step' \in [Threads -> JobPlaces] /\ row' \in [Threads -> Nat]
        /\ tileEntries' \in [0 .. SbRows - 1 -> Nat]
    BY <1>5, Vp9KeepsTiles DEF DecodingInv
  <2>2. DataTypes'
    BY <1>1, <1>5, <2>1 DEF JobInv, DataTypes, hevcVars, vp8Vars, Never, Pos, End
  <2>3. JobInv'
    BY <1>1, <1>5, <2>1, <2>2, FunctionKeepsCalls DEF JobInv
  <2> QED BY <1>5, <2>1, <2>3 DEF DecodingInv, WavefrontInv, RowsInv
<1> QED BY <1>2, <1>3, <1>4, <1>5

(* The invariant is inductive, with that of the pool. *)
LEMMA DecodingInductive ==
  PoolInv /\ PoolInv' /\ DecodingInv /\ [DecodingNext]_allVars => DecodingInv'
<1> SUFFICES ASSUME PoolInv, PoolInv', DecodingInv, [DecodingNext]_allVars PROVE DecodingInv'
  OBVIOUS
<1>1. codec' = codec /\ JobInv
  BY CodecKept DEF DecodingInv, JobInv, UseInv
<1>2. CASE Client
  <2>1. CASE \E n \in 1 .. MaxJobs, executeMain \in BOOLEAN :
               Execute(n, executeMain) /\ Frame(n, executeMain)
    BY <1>1, <2>1, ExecuteKeepsDecoding
  <2>2. CASE Free /\ UNCHANGED codecVars
    <3>1. Quiet
      BY <2>2, OtherStepIsQuiet, ThreadFacts
    <3> QED BY <2>2, <3>1, PoolStepKeepsDecoding
  <2> QED BY <1>2, <2>1, <2>2 DEF Client, codecVars
<1>3. ASSUME NEW t \in Threads, PoolStep(t) \/ SpuriousWakeup(t), UNCHANGED codecVars
      PROVE  DecodingInv'
  <2>1. Quiet \/ \E j \in Jobs : Takes(t, j)
    BY <1>3, PoolStepIs
  <2> QED BY <1>3, <2>1, PoolStepKeepsDecoding
<1>4. ASSUME NEW t \in Threads, ThreadStep(t) PROVE DecodingInv'
  <2>1. CASE PoolStep(t) /\ UNCHANGED codecVars
    BY <1>3, <2>1
  <2>2. CASE JobStep(t)
    BY <1>1, <2>2, JobStepKeepsDecoding
  <2>3. CASE Returns(t) /\ UNCHANGED <<hevcVars, vp8Vars, tileEntries>>
    BY <2>3, ReturnKeepsDecoding
  <2> QED BY <1>4, <2>1, <2>2, <2>3 DEF ThreadStep, codecVars
<1>5. CASE \E t \in Threads : SpuriousWakeup(t) /\ UNCHANGED codecVars
  BY <1>3, <1>5
<1>6. CASE UNCHANGED allVars
  <2>1. UNCHANGED vars /\ UNCHANGED codecVars
    BY <1>6 DEF allVars, codecVars
  <2>2. Quiet
    BY <2>1 DEF vars, ctxVars, Quiet, Busy
  <2> QED BY <2>1, <2>2, PoolStepKeepsDecoding
<1> QED BY <1>2, <1>4, <1>5, <1>6 DEF DecodingNext, codecVars

(* It holds in every state, and that of the pool with it. *)
LEMMA DecodingInvariant == DecodingSpec => [](PoolInv /\ DecodingInv)
<1>1. DecodingSpec => []PoolInv
  BY DecodingUsesPool, PoolInvariant, PTL
<1> QED BY <1>1, DecodingInvInit, DecodingInductive, PTL DEF DecodingSpec

(***************************************************************************)
(* The rows, columns and positions of the jobs of HEVC, VP8 and VP9 keep   *)
(* their ranges for every size of a frame: no position of VP8 reaches      *)
(* INT_MAX, and a count of tiles is never more than those of the frame.    *)
(***************************************************************************)
THEOREM DecodingTypeCorrect == DecodingSpec => []TypeOK
<1>1. PoolInv /\ DecodingInv => TypeOK
  <2> SUFFICES ASSUME PoolInv, DecodingInv PROVE TypeOK
    OBVIOUS
  <2>1. PoolTypeOK /\ codec \in Codecs /\ DataTypes
    BY DEF PoolInv, DecodingInv, JobInv, UseInv
  <2>2. nbJobs \in Nat
    BY <2>1, ThreadFacts DEF PoolTypeOK
  <2>3. tileEntries \in [0 .. SbRows - 1 -> 0 .. nbJobs]
    <3>1. CASE codec = "vp9"
      <4>1. \A y \in 0 .. SbRows - 1 : tileEntries[y] \in 0 .. nbJobs
        BY <3>1, ColumnFacts DEF DecodingInv, TilesInv
      <4> QED BY <2>1, <4>1 DEF DataTypes
    <3>2. CASE codec # "vp9"
      BY <2>1, <2>2, <3>2 DEF DataTypes, Vp9Cleared
    <3> QED BY <3>1, <3>2
  <2> QED BY <2>1, <2>3 DEF TypeOK, DataTypes
<1> QED BY <1>1, DecodingInvariant, PTL

(***************************************************************************)
(* Whatever the pool does with its threads, a CTB of HEVC, a macroblock of *)
(* VP8 and the loop filter of VP8 and VP9 come after what they need, in    *)
(* frames of any size: by the entries that hls_decode_entry_wpp reports,   *)
(* also of rows that fail, by the positions that update_pos publishes and  *)
(* check_thread_pos reads, by the counts of decode_tiles_mt.               *)
(***************************************************************************)
THEOREM DecodingInOrder == DecodingSpec => []DecodingOrder
<1>1. PoolInv /\ DecodingInv => DecodingOrder
  <2> SUFFICES ASSUME PoolInv, DecodingInv PROVE DecodingOrder
    OBVIOUS
  <2>1. JobInv /\ WavefrontInv /\ TilesInv /\ RowsInv
    BY DEF DecodingInv
  <2>2. RowsInWavefront
    <3> SUFFICES ASSUME NEW t \in Threads, Decodes(t)
                 PROVE  decoded[row[t] - 1] >= Min2(decoded[row[t]] + 2, Ctbs)
      BY DEF RowsInWavefront
    <3>1. codec = "hevc" /\ ~wppErr /\ step[t] = "decode" /\ row[t] > 0 /\ pc[t] = "job"
      BY <2>1, WavefrontFacts DEF Decodes, At
    <3>2. EntryInv(t)
      BY <2>1, <3>1 DEF WavefrontInv
    <3>3. row[t] = Job(t)
      BY <3>1, <3>2 DEF EntryInv
    <3>4. decoded[row[t] - 1] = Ctbs \/ decoded[row[t] - 1] >= decoded[row[t]] + 2
      BY <2>1, <3>1, <3>3, RowAboveDecoded
    <3>5. Job(t) \in Jobs /\ Job(t) - 1 \in Jobs /\ decoded \in [Jobs -> 0 .. Ctbs]
      BY <2>1, <3>1, <3>3, WavefrontFacts DEF Jobs, JobInv, JobsOnce, DataTypes
    <3>6. PICK a \in Nat, b \in Nat : a = decoded[row[t] - 1] /\ b = decoded[row[t]]
      BY <3>3, <3>5
    <3>7. Min2(b + 2, Ctbs) <= b + 2 /\ Min2(b + 2, Ctbs) <= Ctbs
      BY CtbsAssumption DEF Min2
    <3> QED BY <3>4, <3>6, <3>7, CtbsAssumption DEF Min2
  <2>3. CabacStateFromAbove
    <3> SUFFICES ASSUME NEW t \in Threads, Decodes(t), decoded[row[t]] = 0
                 PROVE  cabacState = row[t] - 1
      BY DEF CabacStateFromAbove
    <3>1. codec = "hevc" /\ ~wppErr /\ step[t] = "decode" /\ row[t] > 0 /\ pc[t] = "job"
      BY <2>1, WavefrontFacts DEF Decodes, At
    <3>2. EntryInv(t)
      BY <2>1, <3>1 DEF WavefrontInv
    <3>3. PICK r \in Jobs : r = row[t] /\ r = Job(t) /\ r > 0 /\ r - 1 \in Jobs
      <4>1. row[t] = Job(t) /\ Job(t) \in Jobs
        BY <2>1, <3>1, <3>2 DEF EntryInv, JobInv, JobsOnce
      <4>2. Job(t) - 1 \in Jobs
        BY <3>1, <4>1, ThreadFacts DEF Jobs
      <4> QED BY <3>1, <4>1, <4>2
    <3>4. decoded[r - 1] = Ctbs \/ decoded[r - 1] >= decoded[r] + 2
      BY <2>1, <3>1, <3>3, RowAboveDecoded
    <3>5. /\ decoded \in [Jobs -> 0 .. Ctbs] /\ cabacState \in Jobs \cup {NoRow}
          /\ \A x \in Jobs : x \in Int
      BY <2>1 DEF JobInv, DataTypes, Jobs
    <3>6. decoded[r - 1] >= 2
      BY <3>3, <3>4, <3>5, CtbsAssumption
    <3>7. r - 1 <= cabacState
      BY <2>1, <3>1, <3>3, <3>6 DEF WavefrontInv
    <3>8. cabacState \in Jobs /\ decoded[cabacState] >= 2
      BY <2>1, <3>1, <3>3, <3>5, <3>7 DEF WavefrontInv, NoRow, Jobs
    <3>9. cabacState <= r - 1
      <4>1. \A q \in Jobs : q < cabacState /\ decoded[cabacState] > 0 => decoded[q] >= 2
        BY <2>1, <3>1, <3>8 DEF WavefrontInv
      <4>2. decoded[r] = 0
        BY <3>3
      <4>3. ~(r < cabacState) /\ r # cabacState
        BY <3>3, <3>5, <3>8, <4>1, <4>2
      <4> QED BY <3>3, <3>5, <3>8, <4>3
    <3> QED BY <3>3, <3>5, <3>7, <3>8, <3>9
  <2>4. MacroblocksInOrder
    <3> SUFFICES ASSUME NEW t \in Threads, codec = "vp8", At(t, "work")
                 PROVE  AboveDone(t) /\ BelowDone(t)
      BY DEF MacroblocksInOrder, AboveDone, BelowDone, Right
    <3>1. pc[t] = "job" /\ step[t] = "work"
      BY <2>1, RowFacts DEF At
    <3> QED BY <2>1, <3>1 DEF RowsInv, CheckInv
  <2>5. JobIsThread
    BY <2>1 DEF JobInv, UseInv, JobIsThread
  <2>6. FilterBehindTiles
    <3> SUFFICES ASSUME codec = "vp9", At(Main, "filter"), NEW j \in 0 .. nbJobs - 1
                 PROVE  /\ runs[j] = 1
                        /\ \A t \in Workers : pc[t] = "job" /\ Job(t) = j => row[t] > row[Main]
      BY DEF FilterBehindTiles
    <3>1. pc[Main] = "mainfunc" /\ step[Main] = "filter"
      BY <2>1, MainPlacesFacts DEF At, InFunc
    <3>2. PICK y \in 0 .. SbRows - 1 : y = row[Main]
      BY <2>1, <3>1, ThreadFacts, SbRowsAssumption DEF TilesInv, JobInv, DataTypes
    <3>3. Cardinality(Columns(y)) >= nbJobs
      BY <2>1, <3>2 DEF TilesInv
    <3>4. nbJobs \in Nat
      BY ThreadFacts DEF PoolInv, PoolTypeOK
    <3>5. Columns(y) = 0 .. nbJobs - 1
      BY <3>3, <3>4, ColumnFacts
    <3> QED BY <3>2, <3>5 DEF Columns
  <2> QED BY <2>2, <2>3, <2>4, <2>5, <2>6 DEF DecodingOrder
<1> QED BY <1>1, DecodingInvariant, PTL
=============================================================================
