--------------------------- MODULE SliceDecoding ---------------------------
(***************************************************************************)
(* Slice threading of codecs: the pool of SliceThread runs the jobs of     *)
(* HevcWavefront, Vp8Rows and Vp9Tiles, which wait for each other while    *)
(* they hold a thread of the pool.                                         *)
(***************************************************************************)
EXTENDS HevcWavefront, Vp8Rows, Vp9Tiles

CONSTANT MaxWavefronts    \* bound: the executes of HEVC and of VP8

ASSUME WavefrontsAssumption == MaxWavefronts \in 0 .. MaxExecutes

allVars == <<vars, jobVars, hevcVars, vp8Vars, tileEntries>>

DecodingInit ==
  /\ Init /\ JobInit
  /\ HevcInit /\ Vp8Init
  /\ tileEntries = [r \in 0 .. SbRows - 1 |-> 0]

\* What each codec asks of the pool for a frame or a slice: rows that end
\* with the slice, a job for each of the threads at most, columns of tiles.
Frame(n, executeMain) ==
  CASE codec = "independent" ->
         UNCHANGED <<jobVars, hevcVars, vp8Vars, tileEntries>>
    [] codec = "hevc" ->
         /\ ~executeMain /\ executes < MaxWavefronts
         /\ HevcReset
         /\ UNCHANGED <<jobVars, vp8Vars, tileEntries>>
    [] codec = "vp8" ->
         /\ ~executeMain /\ n <= nbThreads /\ executes < MaxWavefronts
         /\ Vp8Reset
         /\ UNCHANGED <<jobVars, hevcVars, tileEntries>>
    [] codec = "vp9" ->
         /\ executeMain
         /\ tileEntries' = Vp9Cleared
         /\ UNCHANGED <<jobVars, hevcVars, vp8Vars>>

Client ==
  \/ \E n \in 1 .. MaxJobs, executeMain \in BOOLEAN :
       Execute(n, executeMain) /\ Frame(n, executeMain)
  \/ pc[Main] = "idle" /\ Free /\ UNCHANGED <<jobVars, hevcVars, vp8Vars, tileEntries>>

\* A step of the function of the codec.
JobStep(t) ==
  CASE codec = "independent" -> FALSE
    [] codec = "hevc" -> HevcStep(t) /\ UNCHANGED <<vars, vp8Vars, tileEntries>>
    [] codec = "vp8"  -> Vp8Step(t) /\ UNCHANGED <<vars, hevcVars, tileEntries>>
    [] codec = "vp9"  -> Vp9Step(t) /\ UNCHANGED <<vars, hevcVars, vp8Vars>>

ThreadStep(t) ==
  \/ PoolStep(t) /\ UNCHANGED <<jobVars, hevcVars, vp8Vars, tileEntries>>
  \/ JobStep(t)
  \/ Returns(t) /\ UNCHANGED <<hevcVars, vp8Vars, tileEntries>>

DecodingNext ==
  \/ Client
  \/ \E t \in Threads : ThreadStep(t)
  \/ \E t \in Threads :
       SpuriousWakeup(t) /\ UNCHANGED <<jobVars, hevcVars, vp8Vars, tileEntries>>
  \/ Over /\ UNCHANGED allVars

DecodingSpec == DecodingInit /\ [][DecodingNext]_allVars

\* Every thread that can run does; the client may stop calling, and nothing
\* is assumed of spurious wakeups.
FairDecodingSpec ==
  DecodingSpec /\ \A t \in Threads : WF_allVars(ThreadStep(t))

-----------------------------------------------------------------------------

\* The places in the functions of the codecs, of any job and of each codec.
JobPlaces ==
  {"begin", "return"}
    \cup {"await", "asleep", "decode", "report", "fail", "finish"}
    \cup {"row", "load", "lock", "check", "relock", "work", "quiet", "announce", "wake",
          "end", "wakeAll"}
    \cup {"filter"}

(* The types of the variables, and the ranges of rows and columns. *)
TypeOK ==
  /\ PoolTypeOK
  /\ codec \in Codecs
  /\ step \in [Threads -> JobPlaces]
  /\ row \in [Threads -> Nat]
  /\ entries \in [Jobs -> 0 .. Ctbs + Shift]
  /\ wppErr \in BOOLEAN
  /\ cabacState \in Jobs \cup {NoRow}
  /\ decoded \in [Jobs -> 0 .. Ctbs]
  /\ deblock \in BOOLEAN
  /\ mbPos \in [Jobs -> 0 .. Never]
  /\ waitPos \in [Jobs -> 0 .. Never]
  /\ col \in [Threads -> 0 .. 2 * MbWidth]
  /\ below \in [Threads -> BOOLEAN]
  /\ tileEntries \in [0 .. SbRows - 1 -> 0 .. nbJobs]

(***************************************************************************)
(* The jobs of VP8 wait for each other in both directions, so each needs a *)
(* thread of its own: the pool never gives one thread two of them, and the *)
(* number of the thread, which the code uses for the job, is that of the   *)
(* job.                                                                    *)
(***************************************************************************)
JobIsThread ==
  codec = "vp8" => \A t \in Threads : pc[t] = "job" => Job(t) = local[t].nr

(***************************************************************************)
(* Each codec decodes and filters in the order its prediction needs, by    *)
(* the progress its jobs report to each other: also with damaged rows, and *)
(* for every way the pool hands out its threads.                           *)
(***************************************************************************)
DecodingOrder ==
  /\ RowsInWavefront /\ CabacStateFromAbove
  /\ MacroblocksInOrder /\ JobIsThread
  /\ FilterBehindTiles

(***************************************************************************)
(* avpriv_slicethread_create, execute and free return to their caller: no  *)
(* worker misses its wakeup, and no row, macroblock or tile is waited for  *)
(* forever, though whoever waits keeps a thread of the pool.  Main is      *)
(* outside of every call again and again, or for good.                     *)
(***************************************************************************)
CallsReturn == []<>(pc[Main] \in {"idle", "freed"})

=============================================================================
