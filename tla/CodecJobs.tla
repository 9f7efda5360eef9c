----------------------------- MODULE CodecJobs -----------------------------
(***************************************************************************)
(* libavcodec/pthread_slice.c: the jobs of the pool are calls of a function*)
(* of the codec.  A pool belongs to one codec context.  The jobs of most   *)
(* codecs are independent of each other; those of HEVC wavefronts, VP8 and *)
(* VP9 wait for each other, each in a way of its own, in the modules that  *)
(* extend this one.                                                        *)
(***************************************************************************)
EXTENDS SliceThread

CONSTANT Damaged    \* bound: the jobs whose data may end too early

ASSUME DamagedAssumption == Damaged \subseteq Jobs

VARIABLES
  codec,   \* whose jobs the pool runs
  step,    \* where each thread is in its job, or Main in c->mainfunc
  row      \* the row each thread works on

jobVars == <<codec, step, row>>

Codecs == {"independent", "hevc", "vp8", "vp9"}

\* Only VP9 has FF_CODEC_CAP_SLICE_THREAD_HAS_MF; the independent jobs stand
\* for any other client of slicethread.h, which may give a main function too.
HasMainFunc(c) == IF c = "independent" THEN BOOLEAN ELSE {c = "vp9"}

JobInit ==
  /\ codec \in Codecs
  /\ mainFunc \in HasMainFunc(codec)
  /\ step = [t \in Threads |-> "begin"]
  /\ row = [t \in Threads |-> 0]

\* A thread inside worker_func, or Main inside main_func.
InFunc(t) == pc[t] = "job" \/ (t = Main /\ pc[t] = "mainfunc")

At(t, place) == InFunc(t) /\ step[t] = place

Step(t, place) == step' = [step EXCEPT ![t] = place]

Job(t) == local[t].job

\* The function returns: at any time if it waits for nothing.
Returns(t) ==
  /\ At(t, IF codec = "independent" THEN "begin" ELSE "return")
  /\ FinishJob(t) \/ (t = Main /\ MainFuncReturns)
  /\ Step(t, "begin")
  /\ row' = [row EXCEPT ![t] = 0]
  /\ UNCHANGED codec

=============================================================================
