---------------------------- MODULE SliceThread ----------------------------
(***************************************************************************)
(* libavutil/slicethread.c: a pool of workers that share the jobs of one   *)
(* execute with the thread that calls it.  Jobs are handed out by two      *)
(* atomic counters; one worker, the last to run out of jobs, tells the     *)
(* caller.                                                                 *)
(*                                                                         *)
(* Each worker has a mutex of its own, which it holds all the time except  *)
(* inside pthread_cond_wait: it runs its jobs with the mutex held.  A      *)
(* thread that wants the mutex of a worker therefore waits until that      *)
(* worker sleeps.  The sections under done_mutex never block, and are one  *)
(* step each.                                                              *)
(***************************************************************************)
EXTENDS Integers, FiniteSets

CONSTANTS
  NbWorkers,    \* nb_workers: nb_threads, or one less without a main_func
  MaxJobs,      \* bound: the most jobs of one execute
  MaxExecutes,  \* bound: the executes of one run
  Main          \* the thread of the client

ASSUME SliceAssumption ==
  /\ NbWorkers \in Nat
  /\ MaxJobs \in Nat \ {0}
  /\ MaxExecutes \in Nat
  /\ Main \notin Int

Workers == 0 .. NbWorkers - 1
Threads == Workers \cup {Main}
Jobs    == 0 .. MaxJobs - 1

VARIABLES
  mainFunc,     \* whether ctx->main_func is set: an argument of create
  nbThreads,    \* ctx->nb_threads
  nbActive,     \* ctx->nb_active_threads
  nbJobs,       \* ctx->nb_jobs
  firstJob,     \* ctx->first_job
  currentJob,   \* ctx->current_job
  done,         \* ctx->done
  finished,     \* ctx->finished
  wdone,        \* w->done of every worker
  pc,           \* where each thread is
  i,            \* the loop counter of the caller
  mainJobs,     \* whether this execute makes the caller run main_func
  local,        \* run_jobs of each thread: its copies and its current job
  runs,         \* how often each job was called by this execute (history)
  executes      \* how many executes were called (history, bounded)

ctxVars ==
  <<mainFunc, nbThreads, nbActive, nbJobs, firstJob, currentJob, finished>>
vars == <<ctxVars, done, wdone, pc, i, mainJobs, local, runs, executes>>

Idle == [jobs |-> 0, active |-> 0, nr |-> 0, job |-> 0]

\* The workers run, and hold their mutex, in these places.
Holding == {"enter", "first", "job", "claim", "last", "rest"}
Unlocked(w) == pc[w] \notin Holding

\* Faulty: FFMAX for FFMIN.
Min2AsMax(a, b) == IF a < b THEN b ELSE a

Min2(a, b) == IF a < b THEN a ELSE b

Goto(t, place) == pc' = [pc EXCEPT ![t] = place]

\* nb_threads; without a main_func the caller is one of them.
NbThreads == IF mainFunc THEN NbWorkers ELSE NbWorkers + 1

-----------------------------------------------------------------------------
(* run_jobs, by the caller or by a worker *)

\* The counts are read once, before the first job is taken.
RunEnter(t) ==
  /\ pc[t] = "enter"
  /\ local' = [local EXCEPT ![t] = [Idle EXCEPT !.jobs = nbJobs,
                                                !.active = nbActive]]
  /\ Goto(t, "first")
  /\ UNCHANGED <<ctxVars, done, wdone, i, mainJobs, runs, executes>>

\* Calls worker_func on job j.
CallJob(t, j) ==
  /\ Goto(t, "job")
  /\ runs' = [runs EXCEPT ![j] = @ + 1]

\* The first job of a thread is also its thread number.
ClaimFirst(t) ==
  /\ pc[t] = "first"
  /\ firstJob' = firstJob + 1
  /\ local' = [local EXCEPT ![t].nr = firstJob, ![t].job = firstJob]
  /\ CallJob(t, firstJob)
  /\ UNCHANGED <<mainFunc, nbThreads, nbActive, nbJobs, currentJob, finished, done,
                 wdone, i, mainJobs, executes>>

\* worker_func returns, whatever it does.
FinishJob(t) ==
  /\ pc[t] = "job"
  /\ Goto(t, "claim")
  /\ UNCHANGED <<ctxVars, done, wdone, i, mainJobs, local, runs, executes>>

IsLast(t, j) == j = local[t].jobs + local[t].active - 1

\* Faulty: the caller does not wait for the others.
AfterRunNoWait(t, last) ==
  IF t = Main THEN "idle" ELSE IF last THEN "last" ELSE "rest"

\* The place a thread goes to from run_jobs, by its return value.
AfterRun(t, last) ==
  IF t = Main THEN IF last THEN "idle" ELSE "lockDone"
              ELSE IF last THEN "last" ELSE "rest"

ClaimNext(t) ==
  /\ pc[t] = "claim"
  /\ currentJob' = currentJob + 1
  /\ local' = [local EXCEPT ![t].job = currentJob]
  /\ IF currentJob < local[t].jobs
     THEN CallJob(t, currentJob)
     ELSE Goto(t, AfterRun(t, IsLast(t, currentJob))) /\ UNCHANGED runs
  /\ UNCHANGED <<mainFunc, nbThreads, nbActive, nbJobs, firstJob, finished, done,
                 wdone, i, mainJobs, executes>>

RunJobs(t) == RunEnter(t) \/ ClaimFirst(t) \/ ClaimNext(t)

-----------------------------------------------------------------------------
(* thread_worker *)

\* The first signal tells the creator that the worker runs; then it sleeps.
WorkerStart(w) ==
  /\ pc[w] = "start"
  /\ wdone' = [wdone EXCEPT ![w] = TRUE]
  /\ pc' = [pc EXCEPT ![w] = "asleep",
                      ![Main] = IF pc[Main] = "createAsleep" /\ i = w
                                THEN "createLock" ELSE @]
  /\ UNCHANGED <<ctxVars, done, i, mainJobs, local, runs, executes>>

\* pthread_cond_wait returns, with the mutex, after a signal or without.
WorkerWake(w) ==
  /\ pc[w] = "relock"
  /\ Goto(w, IF wdone[w] THEN "asleep" ELSE IF finished THEN "gone" ELSE "enter")
  /\ UNCHANGED <<ctxVars, done, wdone, i, mainJobs, local, runs, executes>>

\* run_jobs returned true: the caller can stop waiting.
WorkerLast(w) ==
  /\ pc[w] = "last"
  /\ done' = TRUE
  /\ pc' = [pc EXCEPT ![w] = "rest",
                      ![Main] = IF @ = "asleepDone" THEN "lockDone" ELSE @]
  /\ UNCHANGED <<ctxVars, wdone, i, mainJobs, local, runs, executes>>

WorkerRest(w) ==
  /\ pc[w] = "rest"
  /\ wdone' = [wdone EXCEPT ![w] = TRUE]
  /\ Goto(w, "asleep")
  /\ UNCHANGED <<ctxVars, done, i, mainJobs, local, runs, executes>>

Worker(w) ==
  WorkerStart(w) \/ WorkerWake(w) \/ RunJobs(w) \/ WorkerLast(w) \/ WorkerRest(w)

-----------------------------------------------------------------------------
(* avpriv_slicethread_create *)

CreateWorker ==
  /\ pc[Main] = "create" /\ i < NbWorkers
  /\ wdone' = [wdone EXCEPT ![i] = FALSE]
  /\ pc' = [pc EXCEPT ![i] = "start", ![Main] = "createAsleep"]
  /\ UNCHANGED <<ctxVars, done, i, mainJobs, local, runs, executes>>

\* Back from pthread_cond_wait with the mutex of the new worker.
CreateWait ==
  /\ pc[Main] = "createLock" /\ Unlocked(i)
  /\ IF wdone[i] THEN Goto(Main, "create") /\ i' = i + 1
                 ELSE Goto(Main, "createAsleep") /\ UNCHANGED i
  /\ UNCHANGED <<ctxVars, done, wdone, mainJobs, local, runs, executes>>

\* pthread_create fails: what was created is freed.
CreateFails ==
  /\ pc[Main] = "create" /\ i < NbWorkers
  /\ nbThreads' = IF mainFunc THEN i ELSE i + 1
  /\ Goto(Main, "free")
  /\ UNCHANGED <<mainFunc, nbActive, nbJobs, firstJob, currentJob, finished, done,
                 wdone, i, mainJobs, local, runs, executes>>

Created ==
  /\ pc[Main] = "create" /\ i = NbWorkers
  /\ Goto(Main, "idle")
  /\ UNCHANGED <<ctxVars, done, wdone, i, mainJobs, local, runs, executes>>

-----------------------------------------------------------------------------
(* avpriv_slicethread_execute *)

\* Faulty: current_job starts with the first job, not after the first jobs.
ExecuteFromZero(n, executeMain) ==
  /\ pc[Main] = "idle" /\ executes < MaxExecutes
  /\ executes' = executes + 1
  /\ nbJobs' = n
  /\ nbActive' = Min2(n, nbThreads)
  /\ firstJob' = 0
  /\ currentJob' = 0
  /\ mainJobs' = (mainFunc /\ executeMain)
  /\ i' = 0
  /\ runs' = [j \in Jobs |-> 0]
  /\ Goto(Main, "dispatch")
  /\ UNCHANGED <<mainFunc, nbThreads, finished, done, wdone, local>>

Execute(n, executeMain) ==
  /\ pc[Main] = "idle" /\ executes < MaxExecutes
  /\ executes' = executes + 1
  /\ nbJobs' = n
  /\ nbActive' = Min2(n, nbThreads)
  /\ firstJob' = 0
  /\ currentJob' = nbActive'
  /\ mainJobs' = (mainFunc /\ executeMain)
  /\ i' = 0
  /\ runs' = [j \in Jobs |-> 0]
  /\ Goto(Main, "dispatch")
  /\ UNCHANGED <<mainFunc, nbThreads, finished, done, wdone, local>>

NbDispatched == IF mainJobs THEN nbActive ELSE nbActive - 1

\* w->done = 0 and a signal on w->cond, where only w can sleep by now.
WakeWorker(w) ==
  /\ Unlocked(w)
  /\ wdone' = [wdone EXCEPT ![w] = FALSE]
  /\ pc' = [pc EXCEPT ![w] = IF @ = "asleep" THEN "relock" ELSE @]
  /\ i' = i + 1

Dispatch ==
  /\ pc[Main] = "dispatch" /\ i < NbDispatched
  /\ WakeWorker(i)
  /\ UNCHANGED <<ctxVars, done, mainJobs, local, runs, executes>>

Dispatched ==
  /\ pc[Main] = "dispatch" /\ i = NbDispatched
  /\ Goto(Main, IF mainJobs THEN "mainfunc" ELSE "enter")
  /\ UNCHANGED <<ctxVars, done, wdone, i, mainJobs, local, runs, executes>>

\* main_func returns; the caller is never the last.
MainFuncReturns ==
  /\ pc[Main] = "mainfunc"
  /\ Goto(Main, "lockDone")
  /\ UNCHANGED <<ctxVars, done, wdone, i, mainJobs, local, runs, executes>>

\* Faulty: ctx->done is not reset for the next execute.
WaitDoneNoReset ==
  /\ pc[Main] = "lockDone"
  /\ Goto(Main, IF done THEN "idle" ELSE "asleepDone")
  /\ UNCHANGED <<ctxVars, done, wdone, i, mainJobs, local, runs, executes>>

WaitDone ==
  /\ pc[Main] = "lockDone"
  /\ Goto(Main, IF done THEN "idle" ELSE "asleepDone")
  /\ done' = FALSE
  /\ UNCHANGED <<ctxVars, wdone, i, mainJobs, local, runs, executes>>

-----------------------------------------------------------------------------
(* avpriv_slicethread_free *)

Free ==
  /\ pc[Main] \in {"idle", "free"}
  /\ finished' = TRUE
  /\ i' = 0
  /\ Goto(Main, "kill")
  /\ UNCHANGED <<mainFunc, nbThreads, nbActive, nbJobs, firstJob, currentJob, done,
                 wdone, mainJobs, local, runs, executes>>

\* The workers that exist, by the count the context holds now.
NbToJoin == IF mainFunc THEN nbThreads ELSE nbThreads - 1

Kill ==
  /\ pc[Main] = "kill" /\ i < NbToJoin
  /\ WakeWorker(i)
  /\ UNCHANGED <<ctxVars, done, mainJobs, local, runs, executes>>

Killed ==
  /\ pc[Main] = "kill" /\ i >= NbToJoin
  /\ i' = 0
  /\ Goto(Main, "join")
  /\ UNCHANGED <<ctxVars, done, wdone, mainJobs, local, runs, executes>>

Join ==
  /\ pc[Main] = "join" /\ i < NbToJoin
  /\ pc[i] = "gone"
  /\ i' = i + 1
  /\ UNCHANGED <<ctxVars, done, wdone, pc, mainJobs, local, runs, executes>>

\* Only now are the mutexes, conditions and the context destroyed.
Freed ==
  /\ pc[Main] = "join" /\ i >= NbToJoin
  /\ Goto(Main, "freed")
  /\ UNCHANGED <<ctxVars, done, wdone, i, mainJobs, local, runs, executes>>

-----------------------------------------------------------------------------

\* Any pthread_cond_wait may return without a signal.
SpuriousWakeup(t) ==
  /\ \/ pc[t] = "asleep"       /\ Goto(t, "relock")
     \/ pc[t] = "createAsleep" /\ Goto(t, "createLock")
     \/ pc[t] = "asleepDone"   /\ Goto(t, "lockDone")
  /\ UNCHANGED <<ctxVars, done, wdone, i, mainJobs, local, runs, executes>>

Init ==
  /\ mainFunc \in (IF NbWorkers = 0 THEN {FALSE} ELSE BOOLEAN)
  /\ nbThreads = NbThreads
  /\ nbActive = 0 /\ nbJobs = 0 /\ firstJob = 0 /\ currentJob = 0
  /\ done = FALSE /\ finished = FALSE
  /\ wdone = [w \in Workers |-> FALSE]
  /\ pc = [t \in Threads |-> IF t = Main THEN "create" ELSE "none"]
  /\ i = 0
  /\ mainJobs = FALSE
  /\ local = [t \in Threads |-> Idle]
  /\ runs = [j \in Jobs |-> 0]
  /\ executes = 0

Create == CreateWorker \/ CreateWait \/ CreateFails \/ Created
Executing == Dispatch \/ Dispatched \/ RunJobs(Main) \/ WaitDone
Freeing == (pc[Main] = "free" /\ Free) \/ Kill \/ Killed \/ Join \/ Freed

\* A step of the code of the pool: what the jobs do is for SliceDecoding.
PoolStep(t) ==
  IF t = Main THEN Create \/ Executing \/ Freeing ELSE Worker(t)

\* The pool with any worker function and main function, and any client.
PoolNext ==
  \/ \E n \in 1 .. MaxJobs, executeMain \in BOOLEAN : Execute(n, executeMain)
  \/ pc[Main] = "idle" /\ Free
  \/ \E t \in Threads : PoolStep(t) \/ FinishJob(t) \/ SpuriousWakeup(t)
  \/ MainFuncReturns

PoolSpec == Init /\ [][PoolNext]_vars

\* After avpriv_slicethread_free nothing is left to run.
Over == pc[Main] = "freed" /\ UNCHANGED vars

-----------------------------------------------------------------------------

RunPlaces == {"enter", "first", "job", "claim"}

WorkerPlaces == RunPlaces \cup {"none", "start", "asleep", "relock", "last", "rest", "gone"}

MainPlaces ==
  RunPlaces \cup {"create", "createAsleep", "createLock", "idle", "dispatch",
                  "mainfunc", "lockDone", "asleepDone", "free", "kill", "join",
                  "freed"}

(* The types of the variables of the pool. *)
PoolTypeOK ==
  /\ mainFunc \in BOOLEAN
  /\ nbThreads \in 0 .. NbThreads
  /\ nbActive \in 0 .. NbThreads
  /\ nbJobs \in 0 .. MaxJobs
  /\ firstJob \in Nat /\ currentJob \in Nat
  /\ done \in BOOLEAN /\ finished \in BOOLEAN
  /\ wdone \in [Workers -> BOOLEAN]
  /\ pc \in [Threads -> WorkerPlaces \cup MainPlaces]
  /\ pc[Main] \in MainPlaces
  /\ \A w \in Workers : pc[w] \in WorkerPlaces
  /\ i \in 0 .. NbThreads
  /\ mainJobs \in BOOLEAN
  /\ local \in [Threads -> [jobs : Nat, active : Nat, nr : Nat, job : Nat]]
  /\ runs \in [Jobs -> Nat]
  /\ executes \in 0 .. MaxExecutes

InRun(t) == pc[t] \in RunPlaces

\* The caller has started every worker of this execute and comes to wait.
MainToWait ==
  \/ pc[Main] \in {"mainfunc", "lockDone", "asleepDone"}
  \/ pc[Main] = "dispatch" /\ mainJobs /\ i = NbDispatched

(***************************************************************************)
(* The caller publishes the counts and counters of an execute without any  *)
(* lock (avpriv_slicethread_execute, before its loop over the workers):    *)
(* this is safe only because every worker is out of run_jobs by then, even *)
(* one that has not gone back to sleep since the execute before.           *)
(***************************************************************************)
QuiescentUpdate ==
  [][(\E n \in 1 .. MaxJobs, em \in BOOLEAN : Execute(n, em))
       => \A w \in Workers : ~InRun(w) /\ pc[w] # "last"]_vars

(***************************************************************************)
(* ctx->done belongs to one execute: it is set only while the caller of    *)
(* that execute has still to wait for it, and all its jobs have returned.  *)
(* A flag left over would make the next execute return too early.          *)
(***************************************************************************)
DoneIsFresh ==
  done => /\ MainToWait
          /\ \A w \in Workers : ~InRun(w)
          /\ \A j \in Jobs : runs[j] = IF j < nbJobs THEN 1 ELSE 0

(***************************************************************************)
(* At most one of the threads of an execute finds itself the last one, and *)
(* when the caller itself is that one no worker will set ctx->done.        *)
(***************************************************************************)
OneLast ==
  \A w \in Workers : pc[w] = "last" =>
    /\ MainToWait
    /\ ~done
    /\ \A v \in Workers : pc[v] = "last" => v = w

(***************************************************************************)
(* avpriv_slicethread_free, on its own or after a failed pthread_create,   *)
(* destroys the context only when every worker ever created has left.      *)
(***************************************************************************)
NoWorkerOutlivesContext ==
  pc[Main] = "freed" => \A w \in Workers : pc[w] \in {"none", "gone"}

(***************************************************************************)
(* No execute meddles with the next, and no worker with a context that is  *)
(* gone: the flag and the last thread belong to the execute that is        *)
(* running, which the code tells only from its counters.                   *)
(***************************************************************************)
PoolSafe == DoneIsFresh /\ OneLast /\ NoWorkerOutlivesContext

(***************************************************************************)
(* The pool implements the abstract parallel loop: each job is called once,*)
(* no two calls at a time share a thread number, and execute returns when  *)
(* all have returned.                                                      *)
(***************************************************************************)
Mode ==
  CASE pc[Main] \in {"create", "createAsleep", "createLock", "free", "idle"} -> "idle"
    [] pc[Main] \in {"kill", "join", "freed"} -> "over"
    [] OTHER -> "busy"

Loop == INSTANCE ParallelFor WITH
  NbSlots <- NbWorkers + 1,
  mode    <- Mode,
  pending <- {j \in Jobs : j < nbJobs /\ runs[j] = 0},
  running <- {<<local[t].job, local[t].nr>> : t \in {u \in Threads : pc[u] = "job"}}

ImplementsParallelFor == Loop!Spec

=============================================================================
