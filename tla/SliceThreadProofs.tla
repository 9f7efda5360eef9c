------------------------- MODULE SliceThreadProofs -------------------------
(***************************************************************************)
(* Proofs about SliceThread, for any number of workers, jobs and executes, *)
(* and for worker functions that return at any time: that no execute       *)
(* meddles with the next or with a context that is gone, and that the pool *)
(* implements ParallelFor.                                                 *)
(***************************************************************************)
EXTENDS SliceThread, FiniteSetTheorems, TLAPS

-----------------------------------------------------------------------------
(* The inductive invariant *)

\* A worker that waits for an execute, or is about to; one that has been woken
\* and has not seen it; the caller inside avpriv_slicethread_execute.
Resting(w) == wdone[w] /\ pc[w] \in {"asleep", "relock"}
Ready(w) == Resting(w) \/ pc[w] = "rest"
Woken(w) == ~wdone[w] /\ pc[w] = "relock"
Starting(w) == ~wdone[w] /\ pc[w] = "start"
Creating == pc[Main] \in {"create", "createAsleep", "createLock"}
Busy ==
  pc[Main] \in RunPlaces \cup {"dispatch", "mainfunc", "lockDone", "asleepDone"}
Closing == pc[Main] \in {"kill", "join", "freed"}

\* A worker that this execute is going to wake.
Chosen(w) == pc[Main] = "dispatch" /\ i <= w /\ w < NbDispatched

\* The threads of this execute that have not taken their first job.
YetToStart(t) ==
  IF t = Main THEN ~mainJobs /\ pc[t] \in {"dispatch", "enter", "first"}
              ELSE Woken(t) \/ Chosen(t) \/ pc[t] \in {"enter", "first"}
ToStart == {t \in Threads : YetToStart(t)}

\* Those that have not yet got from current_job a number behind the last job.
ToPass == ToStart \cup {t \in Threads : pc[t] \in {"job", "claim"}}

\* What the place of the caller says of the workers outside of an execute.
PhaseInv ==
  /\ Creating =>
       /\ i <= NbWorkers
       /\ pc[Main] # "create" => i < NbWorkers
       /\ \A w \in Workers :
            IF w < i THEN Resting(w)
            ELSE IF w = i /\ pc[Main] # "create" THEN Resting(w) \/ Starting(w)
            ELSE pc[w] = "none"
  /\ pc[Main] = "idle" => \A w \in Workers : Ready(w)
  /\ pc[Main] = "free" =>
       \A w \in Workers : IF w < NbToJoin THEN Resting(w) ELSE pc[w] = "none"
  /\ Closing =>
       \A w \in Workers :
         IF w >= NbToJoin THEN pc[w] = "none"
         ELSE IF pc[Main] = "kill" /\ w >= i THEN Ready(w)
         ELSE IF pc[Main] = "freed" \/ (pc[Main] = "join" /\ w < i) THEN pc[w] = "gone"
         ELSE Woken(w) \/ pc[w] = "gone"
  /\ finished <=> Closing
  /\ mainFunc => NbWorkers >= 1
  /\ Creating \/ Busy \/ pc[Main] = "idle" => nbThreads = NbThreads

\* The places of the threads of an execute.
PlaceInv ==
  Busy =>
    /\ \A w \in Workers : Ready(w) \/ Woken(w) \/ pc[w] \in RunPlaces \cup {"last"}
    /\ pc[Main] = "dispatch" =>
         i <= NbDispatched /\ \A w \in Workers : i <= w => Ready(w)
    /\ pc[Main] \in RunPlaces => ~mainJobs
    /\ pc[Main] = "mainfunc" => mainJobs
    /\ mainJobs => mainFunc
    /\ nbActive >= 1 /\ nbActive <= nbJobs

\* The counters tell how many threads have taken a first job, and how many
\* have run past the last one.
CountInv ==
  Busy =>
    /\ firstJob + Cardinality(ToStart) = nbActive
    /\ nbActive <= currentJob
    /\ IF currentJob < nbJobs THEN Cardinality(ToPass) = nbActive
       ELSE currentJob + Cardinality(ToPass) = nbJobs + nbActive
    /\ \A j \in Jobs :
         runs[j] = IF j < firstJob \/ (nbActive <= j /\ j < currentJob /\ j < nbJobs)
                   THEN 1 ELSE 0

\* What the threads remember: the counts of this execute, and thread numbers
\* of their own.
LocalInv ==
  /\ \A t \in Threads :
       /\ pc[t] \in {"first", "job", "claim"} =>
            local[t].jobs = nbJobs /\ local[t].active = nbActive
       /\ pc[t] \in {"job", "claim"} => local[t].nr < firstJob
  /\ \A t, u \in Threads :
       pc[t] \in {"job", "claim"} /\ pc[u] \in {"job", "claim"} /\ t # u =>
         local[t].nr # local[u].nr

\* The last thread, and the flag it leaves, come when all have passed.
LastInv ==
  /\ done => Busy /\ ToPass = {}
  /\ \A w \in Workers : pc[w] = "last" => Busy /\ ToPass = {} /\ ~done
  /\ \A v, w \in Workers : pc[v] = "last" /\ pc[w] = "last" => v = w

PoolInv ==
  PoolTypeOK /\ PhaseInv /\ PlaceInv /\ CountInv /\ LocalInv /\ LastInv

-----------------------------------------------------------------------------
(* Type correctness *)

(* Main is no worker: workers are numbers. *)
LEMMA ThreadFacts ==
  /\ Main \in Threads /\ Main \notin Workers
  /\ \A w \in Workers : w \in Threads /\ w # Main /\ w \in Int /\ 0 <= w /\ w < NbWorkers
  /\ \A t \in Threads : t # Main => t \in Workers
  /\ \A n \in Int : 0 <= n /\ n < NbWorkers => n \in Workers
  /\ NbWorkers \in Nat /\ MaxJobs \in Nat \ {0}
  /\ NbThreads \in Nat /\ NbWorkers <= NbThreads
  /\ NbThreads = NbWorkers \/ NbThreads = NbWorkers + 1
BY SliceAssumption DEF Threads, Workers, NbThreads

\* The types of pc, and of the copies that run_jobs makes.
PlacesOf(t) == IF t = Main THEN MainPlaces ELSE WorkerPlaces
PcTypeOK ==
  /\ pc \in [Threads -> WorkerPlaces \cup MainPlaces]
  /\ pc[Main] \in MainPlaces
  /\ \A w \in Workers : pc[w] \in WorkerPlaces
Copies == [jobs : Nat, active : Nat, nr : Nat, job : Nat]

(* A thread that goes to one of its places keeps the type of pc. *)
LEMMA GotoTypes ==
  ASSUME PcTypeOK, NEW t \in Threads, NEW place \in PlacesOf(t), Goto(t, place)
  PROVE  PcTypeOK'
BY ThreadFacts DEF PcTypeOK, PlacesOf, Goto

(* So does one that wakes another on its way. *)
LEMMA TwoGotoTypes ==
  ASSUME PcTypeOK, NEW t \in Threads, NEW u \in Threads, t # u,
         NEW p \in PlacesOf(t), NEW q \in PlacesOf(u),
         pc' = [pc EXCEPT ![t] = p, ![u] = q]
  PROVE  PcTypeOK'
BY ThreadFacts DEF PcTypeOK, PlacesOf

(* The places and counters of a call to run_jobs keep their types. *)
LEMMA RunTypes ==
  ASSUME PoolTypeOK, NEW t \in Threads, RunJobs(t) \/ FinishJob(t)
  PROVE  PoolTypeOK'
<1> USE DEF ctxVars
<1>0. /\ PcTypeOK /\ local \in [Threads -> Copies] /\ nbJobs \in Nat /\ nbActive \in Nat
      /\ runs \in [Jobs -> Nat]
  BY ThreadFacts, SliceAssumption DEF PoolTypeOK, PcTypeOK, Copies
<1>1. SUFFICES /\ PcTypeOK' /\ local' \in [Threads -> Copies]
               /\ firstJob' \in Nat /\ currentJob' \in Nat
               /\ runs' \in [Jobs -> Nat]
  <2>1. UNCHANGED <<mainFunc, nbThreads, nbActive, nbJobs, done, finished, wdone, i,
                    mainJobs, executes>>
    BY DEF RunJobs, RunEnter, ClaimFirst, ClaimNext, FinishJob
  <2> QED BY <2>1 DEF PoolTypeOK, PcTypeOK, Copies, NbThreads
<1>2. CASE RunEnter(t)
  <2>1. [Idle EXCEPT !.jobs = nbJobs, !.active = nbActive] \in Copies
    BY <1>0 DEF Idle, Copies
  <2>2. local' \in [Threads -> Copies]
    BY <1>0, <1>2, <2>1 DEF RunEnter
  <2>3. PcTypeOK'
    BY <1>0, <1>2, GotoTypes DEF RunEnter, PlacesOf, MainPlaces, WorkerPlaces, RunPlaces
  <2> QED BY <1>2, <2>2, <2>3 DEF RunEnter, PoolTypeOK
<1>3. CASE ClaimFirst(t)
  <2>1. firstJob \in Nat /\ firstJob' \in Nat /\ currentJob' \in Nat
    BY <1>3 DEF ClaimFirst, PoolTypeOK
  <2>2. local' \in [Threads -> Copies]
    BY <1>0, <1>3, <2>1 DEF ClaimFirst, Copies
  <2>3. runs' \in [Jobs -> Nat]
    <3>1. runs' = [runs EXCEPT ![firstJob] = runs[firstJob] + 1]
      BY <1>3 DEF ClaimFirst, CallJob
    <3>2. \A j \in Jobs : runs'[j] \in Nat
      BY <1>0, <3>1
    <3> QED BY <1>0, <3>1, <3>2
  <2>4. PcTypeOK'
    BY <1>0, <1>3, GotoTypes
       DEF ClaimFirst, CallJob, PlacesOf, MainPlaces, WorkerPlaces, RunPlaces
  <2> QED BY <2>1, <2>2, <2>3, <2>4
<1>4. CASE ClaimNext(t)
  <2>1. currentJob \in Nat /\ firstJob' \in Nat /\ currentJob' \in Nat
    BY <1>4 DEF ClaimNext, PoolTypeOK
  <2>2. local' \in [Threads -> Copies]
    BY <1>0, <1>4, <2>1 DEF ClaimNext, Copies
  <2>3. runs' \in [Jobs -> Nat]
    BY <1>0, <1>4, <2>1 DEF ClaimNext, CallJob
  <2>4. PICK place \in PlacesOf(t) : Goto(t, place)
    BY <1>4 DEF ClaimNext, CallJob, AfterRun, PlacesOf, MainPlaces, WorkerPlaces, RunPlaces
  <2>5. PcTypeOK'
    BY <1>0, <2>4, GotoTypes
  <2> QED BY <2>1, <2>2, <2>3, <2>5
<1>5. CASE FinishJob(t)
  <2>1. PcTypeOK'
    BY <1>0, <1>5, GotoTypes DEF FinishJob, PlacesOf, MainPlaces, WorkerPlaces, RunPlaces
  <2> QED BY <1>0, <1>5, <2>1 DEF FinishJob, PoolTypeOK
<1> QED BY <1>2, <1>3, <1>4, <1>5 DEF RunJobs

(* So do the steps of a worker around it. *)
LEMMA WorkerTypes ==
  ASSUME PoolTypeOK, NEW w \in Workers,
         WorkerStart(w) \/ WorkerWake(w) \/ WorkerLast(w) \/ WorkerRest(w)
  PROVE  PoolTypeOK'
<1> USE DEF ctxVars
<1>0. PcTypeOK /\ w \in Threads /\ w # Main
  BY ThreadFacts DEF PoolTypeOK, PcTypeOK
<1>1. SUFFICES PcTypeOK' /\ done' \in BOOLEAN /\ wdone' \in [Workers -> BOOLEAN]
  <2>1. UNCHANGED <<ctxVars, i, mainJobs, local, runs, executes>>
    BY DEF WorkerStart, WorkerWake, WorkerLast, WorkerRest
  <2> QED BY <2>1 DEF PoolTypeOK, PcTypeOK, NbThreads
<1>2. done' \in BOOLEAN /\ wdone' \in [Workers -> BOOLEAN]
  BY DEF WorkerStart, WorkerWake, WorkerLast, WorkerRest, PoolTypeOK
<1>3. CASE WorkerStart(w)
  BY <1>0, <1>2, <1>3, ThreadFacts
     DEF WorkerStart, PcTypeOK, MainPlaces, WorkerPlaces, RunPlaces
<1>4. CASE WorkerWake(w)
  BY <1>0, <1>2, <1>4, GotoTypes DEF WorkerWake, PlacesOf, WorkerPlaces, RunPlaces
<1>5. CASE WorkerLast(w)
  BY <1>0, <1>2, <1>5, ThreadFacts
     DEF WorkerLast, PcTypeOK, MainPlaces, WorkerPlaces, RunPlaces
<1>6. CASE WorkerRest(w)
  BY <1>0, <1>2, <1>6, GotoTypes DEF WorkerRest, PlacesOf, WorkerPlaces, RunPlaces
<1> QED BY <1>3, <1>4, <1>5, <1>6

(* So do create and free. *)
LEMMA CreateFreeTypes ==
  ASSUME PoolTypeOK, PhaseInv, Create \/ Freeing \/ Free
  PROVE  PoolTypeOK'
<1> USE DEF ctxVars
<1>0. PcTypeOK /\ i \in 0 .. NbThreads /\ nbThreads \in 0 .. NbThreads
  BY DEF PoolTypeOK, PcTypeOK
<1>1. SUFFICES /\ PcTypeOK' /\ i' \in 0 .. NbThreads /\ nbThreads' \in 0 .. NbThreads
               /\ finished' \in BOOLEAN /\ wdone' \in [Workers -> BOOLEAN]
  <2>1. UNCHANGED <<mainFunc, nbActive, nbJobs, firstJob, currentJob, done, mainJobs,
                    local, runs, executes>>
    BY DEF Create, CreateWorker, CreateWait, CreateFails, Created, Freeing, Free, Kill,
           WakeWorker, Killed, Join, Freed
  <2> QED BY <2>1 DEF PoolTypeOK, PcTypeOK, NbThreads
<1>2. finished' \in BOOLEAN /\ wdone' \in [Workers -> BOOLEAN]
  BY DEF PoolTypeOK, Create, CreateWorker, CreateWait, CreateFails, Created, Freeing, Free,
         Kill, WakeWorker, Killed, Join, Freed
<1>3. i' \in 0 .. NbThreads /\ nbThreads' \in 0 .. NbThreads
  <2> USE <1>0, ThreadFacts
  <2>1. CASE CreateWait
    BY <2>1 DEF CreateWait, NbThreads, PhaseInv, Creating
  <2>2. CASE CreateFails
    BY <2>2 DEF CreateFails, NbThreads
  <2>3. CASE CreateWorker \/ Created
    BY <2>3 DEF CreateWorker, Created
  <2>4. CASE Kill \/ Join
    BY <2>4 DEF Kill, Join, WakeWorker, NbToJoin
  <2>5. CASE Free \/ Killed \/ Freed
    BY <2>5 DEF Free, Killed, Freed
  <2> QED BY <2>1, <2>2, <2>3, <2>4, <2>5 DEF Create, Freeing
<1>4. PcTypeOK'
  <2> USE <1>0, ThreadFacts, GotoTypes
      DEF PlacesOf, MainPlaces, WorkerPlaces, RunPlaces
  <2>1. CASE CreateWorker
    <3>1. i \in Workers
      BY <2>1 DEF CreateWorker
    <3> QED BY <2>1, <3>1, TwoGotoTypes DEF CreateWorker
  <2>2. CASE CreateWait
    BY <2>2 DEF CreateWait
  <2>3. CASE CreateFails
    BY <2>3 DEF CreateFails
  <2>4. CASE Created
    BY <2>4 DEF Created
  <2>5. CASE Free
    BY <2>5 DEF Free
  <2>6. CASE Kill
    BY <2>6 DEF Kill, WakeWorker, PcTypeOK
  <2>7. CASE Killed
    BY <2>7 DEF Killed
  <2>8. CASE Join
    BY <2>8 DEF Join, PcTypeOK
  <2>9. CASE Freed
    BY <2>9 DEF Freed
  <2> QED BY <2>1, <2>2, <2>3, <2>4, <2>5, <2>6, <2>7, <2>8, <2>9 DEF Create, Freeing
<1> QED BY <1>2, <1>3, <1>4

(* So do execute, and a wait that returns by itself. *)
LEMMA ExecuteTypes ==
  ASSUME PoolTypeOK,
         \/ Dispatch \/ Dispatched \/ WaitDone \/ MainFuncReturns
         \/ \E n \in 1 .. MaxJobs, executeMain \in BOOLEAN : Execute(n, executeMain)
         \/ \E t \in Threads : SpuriousWakeup(t)
  PROVE  PoolTypeOK'
<1> USE DEF ctxVars
<1>0. PcTypeOK
  BY DEF PoolTypeOK, PcTypeOK
<1> USE <1>0, ThreadFacts, GotoTypes DEF PlacesOf, MainPlaces, WorkerPlaces, RunPlaces
<1>1. CASE Dispatch
  <2>1. PcTypeOK'
    BY <1>1 DEF Dispatch, WakeWorker, PcTypeOK
  <2>2. i' \in 0 .. NbThreads
    BY <1>1 DEF Dispatch, WakeWorker, NbDispatched, PoolTypeOK
  <2>3. wdone' \in [Workers -> BOOLEAN]
    BY <1>1 DEF Dispatch, WakeWorker, PoolTypeOK
  <2>4. UNCHANGED <<ctxVars, done, mainJobs, local, runs, executes>>
    BY <1>1 DEF Dispatch
  <2> QED BY <2>1, <2>2, <2>3, <2>4 DEF PoolTypeOK, PcTypeOK, NbThreads
<1>2. CASE Dispatched \/ MainFuncReturns \/ \E t \in Threads : SpuriousWakeup(t)
  <2>1. PcTypeOK'
    BY <1>2 DEF Dispatched, MainFuncReturns, SpuriousWakeup, PcTypeOK, Goto
  <2>2. UNCHANGED <<ctxVars, done, wdone, i, mainJobs, local, runs, executes>>
    BY <1>2 DEF Dispatched, MainFuncReturns, SpuriousWakeup
  <2> QED BY <2>1, <2>2 DEF PoolTypeOK, PcTypeOK, NbThreads
<1>3. CASE WaitDone
  <2>1. PcTypeOK'
    BY <1>3 DEF WaitDone
  <2>2. done' = FALSE /\ UNCHANGED <<ctxVars, wdone, i, mainJobs, local, runs, executes>>
    BY <1>3 DEF WaitDone
  <2> QED BY <2>1, <2>2 DEF PoolTypeOK, PcTypeOK, NbThreads
<1>4. ASSUME NEW n \in 1 .. MaxJobs, NEW executeMain \in BOOLEAN, Execute(n, executeMain)
      PROVE PoolTypeOK'
  <2>1. PcTypeOK'
    BY <1>4 DEF Execute
  <2>2. nbActive' \in 0 .. NbThreads
    BY <1>4 DEF Execute, Min2, PoolTypeOK
  <2>3. /\ nbJobs' \in 0 .. MaxJobs /\ firstJob' \in Nat /\ currentJob' \in Nat
        /\ i' \in 0 .. NbThreads /\ mainJobs' \in BOOLEAN
        /\ runs' \in [Jobs -> Nat]
    BY <1>4, <2>2 DEF Execute, PoolTypeOK
  <2>4. executes' \in 0 .. MaxExecutes
    BY <1>4, SliceAssumption DEF Execute, PoolTypeOK
  <2>5. UNCHANGED <<mainFunc, nbThreads, finished, done, wdone, local>>
    BY <1>4 DEF Execute
  <2> QED BY <2>1, <2>2, <2>3, <2>4, <2>5 DEF PoolTypeOK, PcTypeOK, NbThreads
<1> QED BY <1>1, <1>2, <1>3, <1>4

(* Each variable of the pool keeps its type through every step. *)
LEMMA NextTypes == PoolTypeOK /\ PhaseInv /\ [PoolNext]_vars => PoolTypeOK'
<1>1. PoolTypeOK /\ UNCHANGED vars => PoolTypeOK'
  BY DEF PoolTypeOK, vars, ctxVars, NbThreads
<1>2. ASSUME PoolTypeOK, PhaseInv, PoolNext PROVE PoolTypeOK'
  BY <1>2, ThreadFacts, RunTypes, WorkerTypes, CreateFreeTypes, ExecuteTypes
     DEF PoolNext, PoolStep, Executing, Worker
<1> QED BY <1>1, <1>2

(* The variables of the pool have their types in the initial states. *)
LEMMA InitTypes == Init => PoolTypeOK
<1> SUFFICES ASSUME Init PROVE PoolTypeOK
  OBVIOUS
<1>1. mainFunc \in BOOLEAN
  BY DEF Init
<1>2. PcTypeOK
  BY ThreadFacts DEF Init, PcTypeOK, MainPlaces, WorkerPlaces
<1>3. local \in [Threads -> Copies]
  <2>1. Idle \in Copies
    BY DEF Idle, Copies
  <2> QED BY <2>1 DEF Init
<1>4. /\ nbThreads \in 0 .. NbThreads /\ nbActive \in 0 .. NbThreads
      /\ i \in 0 .. NbThreads /\ nbJobs \in 0 .. MaxJobs
      /\ executes \in 0 .. MaxExecutes
      /\ firstJob \in Nat /\ currentJob \in Nat
  BY ThreadFacts, SliceAssumption DEF Init
<1>5. /\ done \in BOOLEAN /\ finished \in BOOLEAN /\ mainJobs \in BOOLEAN
      /\ wdone \in [Workers -> BOOLEAN] /\ runs \in [Jobs -> Nat]
  BY DEF Init
<1> QED BY <1>1, <1>2, <1>3, <1>4, <1>5 DEF PoolTypeOK, PcTypeOK, Copies

-----------------------------------------------------------------------------
(* The sets of threads that are counted *)

(* They are finite, and who has to start has to pass. *)
LEMMA SetFacts ==
  /\ IsFiniteSet(ToStart) /\ IsFiniteSet(ToPass)
  /\ Cardinality(ToStart) \in Nat /\ Cardinality(ToPass) \in Nat
  /\ ToStart \subseteq ToPass /\ ToPass \subseteq Threads
<1>1. IsFiniteSet(Threads)
  <2>1. IsFiniteSet(Workers)
    BY FS_Interval, SliceAssumption DEF Workers
  <2> QED BY <2>1, FS_AddElement DEF Threads
<1>2. ToStart \subseteq ToPass /\ ToPass \subseteq Threads
  BY DEF ToStart, ToPass
<1> QED BY <1>1, <1>2, FS_Subset, FS_CardinalityType

(* They stay as they are when no thread changes sides. *)
LEMMA SameSets ==
  ASSUME \A u \in Threads :
           /\ YetToStart(u)' <=> YetToStart(u)
           /\ pc'[u] \in {"job", "claim"} <=> pc[u] \in {"job", "claim"}
  PROVE  ToStart' = ToStart /\ ToPass' = ToPass
BY DEF ToStart, ToPass

(* A step that moves no counter and no thread to the other side keeps the count. *)
LEMMA CountKept ==
  ASSUME CountInv, Busy' => Busy, ToStart' = ToStart, ToPass' = ToPass,
         UNCHANGED <<nbActive, nbJobs, firstJob, currentJob, runs>>
  PROVE  CountInv'
BY DEF CountInv

(* The steps of a thread that only goes on, neither starting nor passing. *)
LEMMA QuietSets ==
  ASSUME PoolInv, NEW t \in Threads,
         \/ RunEnter(t) \/ FinishJob(t) \/ SpuriousWakeup(t)
         \/ (ClaimNext(t) /\ currentJob < local[t].jobs)
  PROVE  ToStart' = ToStart /\ ToPass' = ToPass
<1> USE ThreadFacts DEF ctxVars
<1>0. PcTypeOK
  BY DEF PoolInv, PoolTypeOK, PcTypeOK
<1>1. PICK place : pc' = [pc EXCEPT ![t] = place]
  BY DEF RunEnter, FinishJob, SpuriousWakeup, ClaimNext, CallJob, Goto
<1>2. /\ UNCHANGED <<wdone, mainJobs, i, nbActive>>
      /\ \/ pc[t] = "enter" /\ place = "first"
         \/ pc[t] = "job" /\ place = "claim"
         \/ pc[t] = "claim" /\ place = "job"
         \/ pc[t] = "asleep" /\ place = "relock" /\ (t # Main => wdone[t])
         \/ pc[t] = "createAsleep" /\ place = "createLock"
         \/ pc[t] = "asleepDone" /\ place = "lockDone"
  <2>1. pc'[t] = place
    BY <1>0, <1>1 DEF PcTypeOK
  <2>2. CASE SpuriousWakeup(t)
    <3>1. pc[t] = "asleep" /\ t # Main => wdone[t]
      BY DEF PoolInv, PoolTypeOK, PhaseInv, PlaceInv, Creating, Busy, Closing, Resting,
             Ready, Woken, Starting, MainPlaces, RunPlaces
    <3> QED BY <1>0, <2>1, <2>2, <3>1 DEF SpuriousWakeup, Goto, PcTypeOK
  <2>3. CASE RunEnter(t) \/ FinishJob(t) \/ (ClaimNext(t) /\ currentJob < local[t].jobs)
    BY <1>0, <2>1, <2>3 DEF RunEnter, FinishJob, ClaimNext, CallJob, Goto, PcTypeOK
  <2> QED BY <2>2, <2>3
<1>3. \A u \in Threads :
        /\ YetToStart(u)' <=> YetToStart(u)
        /\ pc'[u] \in {"job", "claim"} <=> pc[u] \in {"job", "claim"}
  BY <1>0, <1>1, <1>2 DEF PcTypeOK, YetToStart, Woken, Chosen, NbDispatched
<1> QED BY <1>3, SameSets

(* A thread that takes its first job was to start, and has still to pass. *)
LEMMA StartSets ==
  ASSUME PoolInv, NEW t \in Threads, ClaimFirst(t)
  PROVE  t \in ToStart /\ ToStart' = ToStart \ {t} /\ ToPass' = ToPass
<1> USE ThreadFacts DEF ctxVars
<1>0. PcTypeOK
  BY DEF PoolInv, PoolTypeOK, PcTypeOK
<1>1. /\ pc[t] = "first" /\ pc' = [pc EXCEPT ![t] = "job"]
      /\ UNCHANGED <<wdone, mainJobs, i, nbActive>>
  BY DEF ClaimFirst, CallJob, Goto
<1>2. t = Main => ~mainJobs
  BY <1>1 DEF PoolInv, PlaceInv, Busy, RunPlaces
<1>3. \A u \in Threads :
        /\ u # t => (YetToStart(u)' <=> YetToStart(u))
        /\ u # t => pc'[u] = pc[u]
  BY <1>0, <1>1 DEF PcTypeOK, YetToStart, Woken, Chosen, NbDispatched
<1>4. YetToStart(t) /\ ~YetToStart(t)' /\ pc'[t] = "job"
  BY <1>0, <1>1, <1>2 DEF PcTypeOK, YetToStart, Woken, Chosen, PoolInv, PlaceInv, Busy,
     RunPlaces, Ready, Resting, NbDispatched
<1> QED BY <1>3, <1>4 DEF ToStart, ToPass

(* A thread that runs past the last job was to pass. *)
LEMMA PassSets ==
  ASSUME PoolInv, NEW t \in Threads, ClaimNext(t), ~(currentJob < local[t].jobs)
  PROVE  t \in ToPass /\ ToPass' = ToPass \ {t} /\ ToStart' = ToStart
<1> USE ThreadFacts DEF ctxVars
<1>0. PcTypeOK
  BY DEF PoolInv, PoolTypeOK, PcTypeOK
<1>1. PICK place \in {"idle", "lockDone", "last", "rest"} : pc' = [pc EXCEPT ![t] = place]
  BY DEF ClaimNext, AfterRun, Goto
<1>2. /\ pc[t] = "claim" /\ pc'[t] = place
      /\ UNCHANGED <<wdone, mainJobs, i, nbActive>>
  BY <1>0, <1>1 DEF ClaimNext, PcTypeOK
<1>3. \A u \in Threads :
        /\ YetToStart(u)' <=> YetToStart(u)
        /\ u # t => pc'[u] = pc[u]
  BY <1>0, <1>1, <1>2 DEF PcTypeOK, YetToStart, Woken, Chosen, NbDispatched
<1>4. ~YetToStart(t)
  BY <1>0, <1>1, <1>2 DEF PcTypeOK, YetToStart, Woken, Chosen, PoolInv, PlaceInv, Busy,
     RunPlaces, Ready, Resting
<1> QED BY <1>1, <1>2, <1>3, <1>4 DEF ToStart, ToPass

(* A worker that wakes up, or goes back to sleep, stays on its side. *)
LEMMA WorkerSets ==
  ASSUME PoolInv, Busy, NEW w \in Workers, WorkerWake(w) \/ WorkerLast(w) \/ WorkerRest(w)
  PROVE  ToStart' = ToStart /\ ToPass' = ToPass
<1> USE ThreadFacts DEF ctxVars
<1>0. PcTypeOK /\ wdone \in [Workers -> BOOLEAN] /\ ~finished
  BY DEF PoolInv, PoolTypeOK, PcTypeOK, PhaseInv, Busy, Closing, RunPlaces
<1>1. CASE WorkerWake(w)
  <2>1. \A u \in Threads :
          /\ YetToStart(u)' <=> YetToStart(u)
          /\ pc'[u] \in {"job", "claim"} <=> pc[u] \in {"job", "claim"}
    BY <1>0, <1>1 DEF WorkerWake, Goto, PcTypeOK, YetToStart, Woken, Chosen, NbDispatched
  <2> QED BY <2>1, SameSets
<1>2. CASE WorkerLast(w)
  <2>1. \A u \in Threads :
          /\ YetToStart(u)' <=> YetToStart(u)
          /\ pc'[u] \in {"job", "claim"} <=> pc[u] \in {"job", "claim"}
    BY <1>0, <1>2 DEF WorkerLast, PcTypeOK, YetToStart, Woken, Chosen, NbDispatched
  <2> QED BY <2>1, SameSets
<1>3. CASE WorkerRest(w)
  <2>1. \A u \in Threads :
          /\ YetToStart(u)' <=> YetToStart(u)
          /\ pc'[u] \in {"job", "claim"} <=> pc[u] \in {"job", "claim"}
    BY <1>0, <1>3 DEF WorkerRest, Goto, PcTypeOK, YetToStart, Woken, Chosen, NbDispatched
  <2> QED BY <2>1, SameSets
<1> QED BY <1>1, <1>2, <1>3

(* The caller wakes only workers that are still to be woken, and goes on. *)
LEMMA CallerSets ==
  ASSUME PoolInv, Dispatch \/ Dispatched \/ MainFuncReturns \/ WaitDone
  PROVE  ToStart' = ToStart /\ ToPass' = ToPass
<1> USE ThreadFacts DEF ctxVars
<1>0. PcTypeOK /\ wdone \in [Workers -> BOOLEAN] /\ i \in Nat
  BY DEF PoolInv, PoolTypeOK, PcTypeOK
<1>1. SUFFICES \A u \in Threads :
        /\ YetToStart(u)' <=> YetToStart(u)
        /\ pc'[u] \in {"job", "claim"} <=> pc[u] \in {"job", "claim"}
  BY SameSets
<1>2. CASE Dispatch
  <2>1. /\ pc[Main] = "dispatch" /\ i < NbDispatched
        /\ UNCHANGED <<mainJobs, nbActive>> /\ i' = i + 1
        /\ wdone' = [wdone EXCEPT ![i] = FALSE]
        /\ pc' = [pc EXCEPT ![i] = IF @ = "asleep" THEN "relock" ELSE @]
        /\ pc[i] # "rest"
    BY <1>2 DEF Dispatch, WakeWorker, Unlocked, Holding
  <2>2. nbActive \in Nat /\ nbThreads = NbThreads /\ nbActive <= NbThreads
        /\ (mainJobs => mainFunc)
    BY <2>1 DEF PoolInv, PoolTypeOK, PhaseInv, PlaceInv, Busy
  <2>3. PICK k \in Workers : k = i
    BY <1>0, <2>1, <2>2 DEF NbDispatched, NbThreads
  <2>4. Ready(k)
    BY <2>1, <2>3, <1>0 DEF PoolInv, PlaceInv, Busy
  <2>5. pc[k] \in {"asleep", "relock"} /\ pc'[k] = "relock" /\ ~wdone'[k]
    BY <1>0, <2>1, <2>3, <2>4 DEF Ready, Resting, PcTypeOK
  <2>6. NbDispatched' = NbDispatched /\ NbDispatched \in Int
    BY <2>1, <2>2 DEF NbDispatched
  <2>7. \A u \in Threads : u # k => pc'[u] = pc[u] /\ (u # Main => wdone'[u] = wdone[u])
    BY <1>0, <2>1, <2>3 DEF PcTypeOK
  <2>8. pc'[Main] = "dispatch" /\ k # Main
    BY <2>1, <2>3, <2>7
  <2>9. \A w \in Workers : w # k => (YetToStart(w)' <=> YetToStart(w))
    <3>1. \A w \in Workers : w # k => (Chosen(w)' <=> Chosen(w))
      BY <1>0, <2>1, <2>3, <2>6, <2>8 DEF Chosen
    <3>2. \A w \in Workers : w # k => (Woken(w)' <=> Woken(w))
      BY <2>7 DEF Woken
    <3> QED BY <2>7, <3>1, <3>2 DEF YetToStart
  <2>10. YetToStart(Main)' <=> YetToStart(Main)
    BY <2>1, <2>8 DEF YetToStart
  <2>11. YetToStart(k) /\ YetToStart(k)'
    <3>1. Chosen(k) /\ Woken(k)'
      BY <1>0, <2>1, <2>3, <2>5 DEF Chosen, Woken
    <3> QED BY <2>8, <3>1 DEF YetToStart
  <2> QED BY <2>5, <2>7, <2>9, <2>10, <2>11
<1>3. CASE Dispatched
  <2>1. NbDispatched \in Int
    BY DEF NbDispatched, PoolInv, PoolTypeOK
  <2> QED BY <1>0, <1>3, <2>1 DEF Dispatched, Goto, PcTypeOK, YetToStart, Woken, Chosen, NbDispatched
<1>4. CASE MainFuncReturns \/ WaitDone
  BY <1>0, <1>4 DEF MainFuncReturns, WaitDone, Goto, PcTypeOK, YetToStart, Woken, Chosen, NbDispatched
<1> QED BY <1>2, <1>3, <1>4

(* An execute counts on as many threads as it makes active. *)
LEMMA ExecuteSets ==
  ASSUME PoolInv, NEW n \in 1 .. MaxJobs, NEW executeMain \in BOOLEAN, Execute(n, executeMain)
  PROVE  /\ ToPass' = ToStart' /\ Cardinality(ToStart') = nbActive'
         /\ nbActive' \in 1 .. n
         /\ i' <= NbDispatched' /\ \A w \in Workers : Ready(w)'
<1> USE ThreadFacts DEF ctxVars
<1>0. PcTypeOK /\ wdone \in [Workers -> BOOLEAN] /\ pc[Main] = "idle"
  BY DEF PoolInv, PoolTypeOK, PcTypeOK, Execute
<1>1. /\ pc' = [pc EXCEPT ![Main] = "dispatch"] /\ i' = 0
      /\ nbActive' = Min2(n, nbThreads) /\ (mainJobs' => mainFunc)
      /\ UNCHANGED <<wdone, mainFunc>>
  BY DEF Execute, Goto
<1>2. nbThreads = NbThreads /\ NbThreads >= 1 /\ n \in Nat /\ n >= 1
  BY <1>0 DEF PoolInv, PoolTypeOK, PhaseInv, NbThreads
<1>3. nbActive' \in 1 .. n /\ nbActive' <= NbThreads
  BY <1>1, <1>2 DEF Min2
<1>4. \A w \in Workers : Ready(w) /\ pc'[w] = pc[w]
  BY <1>0, <1>1 DEF PoolInv, PhaseInv, PcTypeOK
<1>5. \A w \in Workers : Ready(w)' /\ ~Woken(w)' /\ pc'[w] \notin {"enter", "first", "job", "claim"}
  BY <1>1, <1>4 DEF Ready, Resting, Woken
<1>6. pc'[Main] = "dispatch"
  BY <1>0, <1>1 DEF PcTypeOK
<1>7. PICK N \in Nat :
        /\ N = NbDispatched' /\ N <= NbWorkers
        /\ nbActive' = IF mainJobs' THEN N ELSE N + 1
  BY <1>1, <1>2, <1>3 DEF NbDispatched, NbThreads
<1> DEFINE D == 0 .. N - 1
<1>8. ToStart' = IF mainJobs' THEN D ELSE D \cup {Main}
  <2>1. \A w \in Workers : YetToStart(w)' <=> w \in D
    BY <1>1, <1>5, <1>6, <1>7 DEF YetToStart, Chosen
  <2>2. YetToStart(Main)' <=> ~mainJobs'
    BY <1>6 DEF YetToStart
  <2>3. D \subseteq Workers
    <3>1. N <= NbWorkers /\ N \in Nat
      BY <1>7
    <3>2. \A d \in D : d \in Int /\ 0 <= d /\ d < NbWorkers
      BY <3>1, SliceAssumption
    <3> QED BY <3>2
  <2> QED BY <2>1, <2>2, <2>3 DEF ToStart
<1>9. ToPass' = ToStart'
  BY <1>5, <1>6 DEF ToPass
<1>10. Cardinality(ToStart') = nbActive'
  <2>1. IsFiniteSet(D) /\ Cardinality(D) = N
    BY FS_Interval
  <2>2. Main \notin D
    BY SliceAssumption
  <2>3. Cardinality(D \cup {Main}) = N + 1
    BY <2>1, <2>2, FS_AddElement
  <2> QED
    <3> HIDE DEF D
    <3>1. CASE mainJobs'
      BY <1>7, <1>8, <2>1, <3>1
    <3>2. CASE ~mainJobs'
      <4>1. nbActive' = N + 1
        BY <1>7, <3>2
      <4>2. ToStart' = D \cup {Main}
        BY <1>8, <3>2
      <4> QED BY <2>3, <4>1, <4>2
    <3> QED BY <3>1, <3>2
<1>11. i' <= NbDispatched'
  BY <1>1, <1>7
<1> QED BY <1>3, <1>5, <1>9, <1>10, <1>11

-----------------------------------------------------------------------------
(* The invariant is kept *)

(* Who runs jobs does so for an execute in progress. *)
LEMMA RunIsBusy ==
  ASSUME PoolInv, NEW t \in Threads, pc[t] \in RunPlaces \cup {"last"}
  PROVE  Busy /\ ~finished /\ nbThreads = NbThreads
<1>1. CASE t = Main
  BY <1>1 DEF PoolInv, PoolTypeOK, PhaseInv, Busy, Closing, MainPlaces, RunPlaces
<1>2. CASE t # Main
  <2>1. t \in Workers
    BY <1>2, ThreadFacts
  <2>2. pc[Main] \in MainPlaces
    BY DEF PoolInv, PoolTypeOK
  <2>3. ~Creating /\ ~Closing /\ pc[Main] \notin {"idle", "free"}
    BY <2>1 DEF PoolInv, PhaseInv, Creating, Closing, Ready, Resting, Woken, Starting,
                RunPlaces
  <2> QED BY <2>2, <2>3 DEF PoolInv, PhaseInv, Creating, Busy, Closing, MainPlaces, RunPlaces
<1> QED BY <1>1, <1>2

(* In an execute only the count of the threads matters of the phases. *)
LEMMA PhaseWhileBusy ==
  ASSUME PhaseInv, Busy, Busy', UNCHANGED <<mainFunc, nbThreads, finished>>
  PROVE  PhaseInv'
BY DEF PhaseInv, Busy, Creating, Closing, RunPlaces, NbThreads

(* A thread that enters run_jobs, or goes on to a next job. *)
LEMMA GoesOn ==
  ASSUME PoolInv, PoolTypeOK', NEW t \in Threads,
         \/ RunEnter(t) \/ FinishJob(t)
         \/ (ClaimNext(t) /\ currentJob < local[t].jobs)
  PROVE  PoolInv'
<1> USE ThreadFacts DEF ctxVars
<1>0. /\ PcTypeOK /\ local \in [Threads -> Copies] /\ ToStart' = ToStart /\ ToPass' = ToPass
  BY QuietSets DEF PoolInv, PoolTypeOK, PcTypeOK, Copies
<1>1. PICK place \in {"first", "claim", "job"} : pc' = [pc EXCEPT ![t] = place]
  BY DEF RunEnter, FinishJob, ClaimNext, CallJob, Goto
<1>2. /\ UNCHANGED <<mainFunc, nbThreads, nbActive, nbJobs, firstJob, finished, done, wdone,
                     i, mainJobs, executes>>
      /\ pc[t] \in {"enter", "job", "claim"}
  BY DEF RunEnter, FinishJob, ClaimNext
<1>3. Busy /\ Busy'
  BY <1>0, <1>1, <1>2, RunIsBusy DEF Busy, PcTypeOK, RunPlaces
<1>4. PhaseInv'
  BY <1>2, <1>3, PhaseWhileBusy DEF PoolInv
<1>5. PlaceInv'
  <2>1. \A w \in Workers :
          /\ Ready(w) => Ready(w)'
          /\ Ready(w)' \/ Woken(w)' \/ pc'[w] \in RunPlaces \cup {"last"}
    BY <1>0, <1>1, <1>2, <1>3
       DEF PoolInv, PlaceInv, PcTypeOK, Ready, Resting, Woken, RunPlaces
  <2>2. pc'[Main] = "dispatch" => pc[Main] = "dispatch"
    BY <1>0, <1>1 DEF PcTypeOK
  <2>3. NbDispatched' = NbDispatched
    BY <1>2 DEF NbDispatched
  <2>4. pc'[Main] \in RunPlaces => pc[Main] \in RunPlaces
    BY <1>0, <1>1, <1>2 DEF PcTypeOK, RunPlaces
  <2>5. pc'[Main] = "mainfunc" => pc[Main] = "mainfunc"
    BY <1>0, <1>1 DEF PcTypeOK
  <2> QED BY <1>2, <1>3, <2>1, <2>2, <2>3, <2>4, <2>5 DEF PoolInv, PlaceInv
<1>6. CountInv'
  <2>1. CASE RunEnter(t) \/ FinishJob(t)
    BY <1>0, <1>3, <2>1, CountKept DEF PoolInv, RunEnter, FinishJob
  <2>2. CASE ClaimNext(t) /\ currentJob < local[t].jobs
    <3>1. /\ currentJob \in Nat /\ nbJobs \in 0 .. MaxJobs /\ nbActive \in Nat /\ firstJob \in Nat
          /\ runs \in [Jobs -> Nat]
      BY DEF PoolInv, PoolTypeOK
    <3>2. currentJob < nbJobs
      BY <2>2 DEF PoolInv, LocalInv, ClaimNext
    <3>3. currentJob \in Jobs
      BY <3>1, <3>2 DEF Jobs
    <3>4. currentJob' = currentJob + 1
      BY <2>2 DEF ClaimNext
    <3>5. runs' = [runs EXCEPT ![currentJob] = runs[currentJob] + 1]
      BY <2>2 DEF ClaimNext, CallJob
    <3>6. firstJob <= nbActive /\ nbActive <= currentJob
      BY <1>3, <3>1, SetFacts DEF PoolInv, CountInv
    <3>7. runs[currentJob] = 0
      BY <1>3, <3>1, <3>3, <3>6 DEF PoolInv, CountInv
    <3>8. \A j \in Jobs :
            runs'[j] = IF j < firstJob \/ (nbActive <= j /\ j < currentJob' /\ j < nbJobs)
                       THEN 1 ELSE 0
      <4> SUFFICES ASSUME NEW j \in Jobs
                   PROVE  runs'[j] = IF j < firstJob \/ (nbActive <= j /\ j < currentJob' /\ j < nbJobs)
                                     THEN 1 ELSE 0
        OBVIOUS
      <4>1. j \in Int
        BY DEF Jobs
      <4>2. CASE j = currentJob
        BY <3>1, <3>2, <3>4, <3>5, <3>6, <3>7, <4>2
      <4>3. CASE j # currentJob
        <5>1. runs'[j] = runs[j]
          BY <3>1, <3>5, <4>3
        <5>2. j < currentJob' <=> j < currentJob
          BY <3>1, <3>4, <4>1, <4>3
        <5> QED BY <1>3, <5>1, <5>2 DEF PoolInv, CountInv
      <4> QED BY <4>2, <4>3
    <3>9. IF currentJob' < nbJobs THEN Cardinality(ToPass) = nbActive
          ELSE currentJob' + Cardinality(ToPass) = nbJobs + nbActive
      BY <1>3, <3>1, <3>2, <3>4 DEF PoolInv, CountInv
    <3> QED BY <1>0, <1>2, <1>3, <3>1, <3>4, <3>6, <3>8, <3>9 DEF PoolInv, CountInv
  <2> QED BY <2>1, <2>2
<1>7. LocalInv'
  <2>1. \A u \in Threads : u # t => pc'[u] = pc[u] /\ local'[u] = local[u]
    BY <1>0, <1>1 DEF PcTypeOK, RunEnter, FinishJob, ClaimNext
  <2>2. /\ pc'[t] = place
        /\ local'[t].jobs = nbJobs /\ local'[t].active = nbActive
        /\ place \in {"job", "claim"} => pc[t] \in {"job", "claim"} /\ local'[t].nr = local[t].nr
    <3>1. pc'[t] = place
      BY <1>0, <1>1 DEF PcTypeOK
    <3>2. CASE RunEnter(t)
      BY <1>0, <3>1, <3>2 DEF RunEnter, PcTypeOK, Goto, Copies, Idle
    <3>3. CASE FinishJob(t)
      BY <3>1, <3>3 DEF FinishJob, PoolInv, LocalInv
    <3>4. CASE ClaimNext(t) /\ currentJob < local[t].jobs
      <4>1. pc[t] = "claim" /\ local' = [local EXCEPT ![t].job = currentJob]
        BY <3>4 DEF ClaimNext
      <4>2. local[t].jobs = nbJobs /\ local[t].active = nbActive
        BY <4>1 DEF PoolInv, LocalInv
      <4> QED BY <1>0, <3>1, <4>1, <4>2 DEF Copies
    <3> QED BY <3>2, <3>3, <3>4
  <2>3. UNCHANGED <<nbJobs, nbActive, firstJob>>
    BY <1>2
  <2> QED BY <2>1, <2>2, <2>3 DEF PoolInv, LocalInv
<1>8. LastInv'
  <2>1. \A w \in Workers : pc'[w] = "last" => pc[w] = "last"
    BY <1>0, <1>1 DEF PcTypeOK
  <2> QED BY <1>0, <1>2, <1>3, <2>1 DEF PoolInv, LastInv
<1> QED BY <1>4, <1>5, <1>6, <1>7, <1>8 DEF PoolInv

(* A thread that takes its first job, and with it its number. *)
LEMMA TakesFirst ==
  ASSUME PoolInv, PoolTypeOK', NEW t \in Threads, ClaimFirst(t)
  PROVE  PoolInv'
<1> USE ThreadFacts DEF ctxVars
<1>0. /\ PcTypeOK /\ local \in [Threads -> Copies]
      /\ t \in ToStart /\ ToStart' = ToStart \ {t} /\ ToPass' = ToPass
  BY StartSets DEF PoolInv, PoolTypeOK, PcTypeOK, Copies
<1>1. /\ pc[t] = "first" /\ pc' = [pc EXCEPT ![t] = "job"]
      /\ firstJob' = firstJob + 1
      /\ local' = [local EXCEPT ![t].nr = firstJob, ![t].job = firstJob]
      /\ runs' = [runs EXCEPT ![firstJob] = runs[firstJob] + 1]
      /\ UNCHANGED <<mainFunc, nbThreads, nbActive, nbJobs, currentJob, finished, done,
                     wdone, i, mainJobs, executes>>
  BY DEF ClaimFirst, CallJob, Goto
<1>2. Busy /\ Busy'
  BY <1>0, <1>1, RunIsBusy DEF Busy, PcTypeOK, RunPlaces
<1>3. /\ currentJob \in Nat /\ nbJobs \in 0 .. MaxJobs /\ nbActive \in Nat /\ firstJob \in Nat
      /\ runs \in [Jobs -> Nat]
  BY DEF PoolInv, PoolTypeOK
<1>4. PhaseInv'
  BY <1>1, <1>2, PhaseWhileBusy DEF PoolInv
<1>5. PlaceInv'
  <2>1. \A w \in Workers :
          /\ Ready(w) => Ready(w)'
          /\ Ready(w)' \/ Woken(w)' \/ pc'[w] \in RunPlaces \cup {"last"}
    BY <1>0, <1>1, <1>2
       DEF PoolInv, PlaceInv, PcTypeOK, Ready, Resting, Woken, RunPlaces
  <2>2. pc'[Main] = "dispatch" => pc[Main] = "dispatch"
    BY <1>0, <1>1 DEF PcTypeOK
  <2>3. NbDispatched' = NbDispatched
    BY <1>1 DEF NbDispatched
  <2>4. pc'[Main] \in RunPlaces => pc[Main] \in RunPlaces
    BY <1>0, <1>1 DEF PcTypeOK, RunPlaces
  <2>5. pc'[Main] = "mainfunc" => pc[Main] = "mainfunc"
    BY <1>0, <1>1 DEF PcTypeOK
  <2> QED BY <1>1, <1>2, <2>1, <2>2, <2>3, <2>4, <2>5 DEF PoolInv, PlaceInv
<1>6. CountInv'
  <2>1. Cardinality(ToStart') = Cardinality(ToStart) - 1 /\ Cardinality(ToStart') \in Nat
    BY <1>0, SetFacts, FS_RemoveElement, FS_CardinalityType
  <2>2. firstJob' + Cardinality(ToStart') = nbActive
    BY <1>1, <1>2, <1>3, <2>1, SetFacts DEF PoolInv, CountInv
  <2>3. firstJob < nbActive /\ nbActive <= currentJob /\ nbActive <= nbJobs
    BY <1>1, <1>2, <1>3, <2>1, <2>2 DEF PoolInv, CountInv, PlaceInv
  <2>4. firstJob \in Jobs
    BY <1>3, <2>3 DEF Jobs
  <2>5. runs[firstJob] = 0
    BY <1>2, <1>3, <2>3, <2>4 DEF PoolInv, CountInv
  <2>6. \A j \in Jobs :
          runs'[j] = IF j < firstJob' \/ (nbActive <= j /\ j < currentJob /\ j < nbJobs)
                     THEN 1 ELSE 0
    <3> SUFFICES ASSUME NEW j \in Jobs
                 PROVE  runs'[j] = IF j < firstJob' \/ (nbActive <= j /\ j < currentJob /\ j < nbJobs)
                                   THEN 1 ELSE 0
      OBVIOUS
    <3>1. j \in Int
      BY DEF Jobs
    <3>2. CASE j = firstJob
      BY <1>1, <1>3, <2>5, <3>2
    <3>3. CASE j # firstJob
      <4>1. runs'[j] = runs[j]
        BY <1>1, <1>3, <3>3
      <4>2. j < firstJob' <=> j < firstJob
        BY <1>1, <1>3, <3>1, <3>3
      <4> QED BY <1>2, <4>1, <4>2 DEF PoolInv, CountInv
    <3> QED BY <3>2, <3>3
  <2> QED BY <1>0, <1>1, <1>2, <2>2, <2>6 DEF PoolInv, CountInv
<1>7. LocalInv'
  <2>1. \A u \in Threads : u # t => pc'[u] = pc[u] /\ local'[u] = local[u]
    BY <1>0, <1>1 DEF PcTypeOK
  <2>2. local'[t].jobs = nbJobs /\ local'[t].active = nbActive /\ local'[t].nr = firstJob
    <3>1. local[t].jobs = nbJobs /\ local[t].active = nbActive
      BY <1>1 DEF PoolInv, LocalInv
    <3> QED BY <1>0, <1>1, <3>1 DEF Copies
  <2>3. \A u \in Threads : local[u].nr \in Nat
    BY <1>0 DEF Copies
  <2>4. \A u \in Threads : u # t /\ pc'[u] \in {"job", "claim"} =>
          local'[u].nr < firstJob
    BY <2>1 DEF PoolInv, LocalInv
  <2>5. \A u \in Threads : pc'[u] \in {"job", "claim"} => local'[u].nr < firstJob'
    <3>1. firstJob' = firstJob + 1
      BY <1>1
    <3>2. local'[t].nr < firstJob'
      BY <1>3, <2>2, <3>1
    <3>3. \A u \in Threads : local'[u].nr \in Nat
      BY <1>3, <2>1, <2>2, <2>3
    <3> QED BY <1>3, <2>4, <3>1, <3>2, <3>3
  <2>6. \A u \in Threads : u # t /\ pc'[u] \in {"job", "claim"} =>
          local'[u].nr # local'[t].nr
    BY <1>3, <2>1, <2>2, <2>3, <2>4
  <2>7. \A u \in Threads : pc'[u] \in {"first", "job", "claim"} =>
          local'[u].jobs = nbJobs' /\ local'[u].active = nbActive'
    <3>1. nbJobs' = nbJobs /\ nbActive' = nbActive
      BY <1>1
    <3> QED BY <2>1, <2>2, <3>1 DEF PoolInv, LocalInv
  <2>8. \A u, v \in Threads :
          pc'[u] \in {"job", "claim"} /\ pc'[v] \in {"job", "claim"} /\ u # v =>
            local'[u].nr # local'[v].nr
    BY <2>1, <2>6 DEF PoolInv, LocalInv
  <2> QED BY <2>5, <2>7, <2>8 DEF LocalInv
<1>8. LastInv'
  <2>1. \A w \in Workers : pc'[w] = "last" => pc[w] = "last"
    BY <1>0, <1>1 DEF PcTypeOK
  <2> QED BY <1>0, <1>1, <1>2, <2>1 DEF PoolInv, LastInv
<1> QED BY <1>4, <1>5, <1>6, <1>7, <1>8 DEF PoolInv

(***************************************************************************)
(* A thread that runs past the last job finds itself the last one exactly  *)
(* when no other has still to pass.                                        *)
(***************************************************************************)
LEMMA LastPasses ==
  ASSUME PoolInv, NEW t \in Threads, ClaimNext(t), ~(currentJob < local[t].jobs)
  PROVE  IsLast(t, currentJob) <=> ToPass = {t}
<1>0. /\ currentJob \in Nat /\ nbJobs \in Nat /\ nbActive \in Nat
  BY ThreadFacts DEF PoolInv, PoolTypeOK
<1>1. pc[t] = "claim"
  BY DEF ClaimNext
<1>2. local[t].jobs = nbJobs /\ local[t].active = nbActive
  BY <1>1 DEF PoolInv, LocalInv
<1>3. currentJob + Cardinality(ToPass) = nbJobs + nbActive
  BY <1>0, <1>1, <1>2, RunIsBusy DEF PoolInv, CountInv, RunPlaces
<1>4. IsLast(t, currentJob) <=> Cardinality(ToPass) = 1
  BY <1>0, <1>2, <1>3, SetFacts DEF IsLast
<1>5. t \in ToPass
  BY <1>1 DEF ToPass
<1>6. Cardinality(ToPass) = 1 <=> ToPass = {t}
  <2>1. Cardinality(ToPass) = 1 => ToPass = {t}
    <3>1. Cardinality(ToPass \ {t}) = Cardinality(ToPass) - 1 /\ IsFiniteSet(ToPass \ {t})
      BY <1>5, SetFacts, FS_RemoveElement
    <3>2. Cardinality(ToPass) = 1 => ToPass \ {t} = {}
      BY <3>1, FS_EmptySet
    <3> QED BY <1>5, <3>2
  <2>2. Cardinality({t}) = 1
    BY FS_Singleton
  <2> QED BY <2>1, <2>2
<1> QED BY <1>4, <1>6

(* A thread that runs past the last job. *)
LEMMA Passes ==
  ASSUME PoolInv, PoolTypeOK', NEW t \in Threads, ClaimNext(t), ~(currentJob < local[t].jobs)
  PROVE  PoolInv'
<1> USE ThreadFacts DEF ctxVars
<1>0. /\ PcTypeOK /\ local \in [Threads -> Copies]
      /\ t \in ToPass /\ ToStart' = ToStart /\ ToPass' = ToPass \ {t}
  BY PassSets DEF PoolInv, PoolTypeOK, PcTypeOK, Copies
<1> DEFINE place == AfterRun(t, IsLast(t, currentJob))
<1>1. /\ pc[t] = "claim" /\ pc' = [pc EXCEPT ![t] = place]
      /\ currentJob' = currentJob + 1
      /\ local' = [local EXCEPT ![t].job = currentJob]
      /\ UNCHANGED <<mainFunc, nbThreads, nbActive, nbJobs, firstJob, finished, done,
                     wdone, i, mainJobs, runs, executes>>
  BY DEF ClaimNext, Goto
<1>2. Busy /\ ~finished /\ nbThreads = NbThreads
  BY <1>1, RunIsBusy DEF RunPlaces
<1>3. /\ currentJob \in Nat /\ nbJobs \in 0 .. MaxJobs /\ nbActive \in Nat
      /\ runs \in [Jobs -> Nat] /\ nbJobs <= currentJob
  <2>1. local[t].jobs = nbJobs
    BY <1>1 DEF PoolInv, LocalInv
  <2> QED BY <2>1 DEF PoolInv, PoolTypeOK
<1>4. IsLast(t, currentJob) <=> ToPass' = {}
  BY <1>0, LastPasses
<1>5. /\ ~done /\ \A w \in Workers : pc[w] # "last"
  BY <1>0 DEF PoolInv, LastInv
<1>6. /\ pc'[t] = place
      /\ \A u \in Threads : u # t => pc'[u] = pc[u]
  BY <1>0, <1>1 DEF PcTypeOK
<1>7. /\ t = Main => place = IF ToPass' = {} THEN "idle" ELSE "lockDone"
      /\ t # Main => place = IF ToPass' = {} THEN "last" ELSE "rest"
  BY <1>4 DEF AfterRun
<1>8. PhaseInv' /\ (t # Main \/ ToPass' # {} => Busy')
  <2> HIDE DEF place
  <2>1. CASE t = Main /\ ToPass' = {}
    <3>1. pc'[Main] = "idle"
      BY <1>6, <1>7, <2>1
    <3>2. \A w \in Workers : Ready(w)
      <4>1. \A w \in Workers : w \notin ToPass
        BY <1>0, <2>1
      <4> QED BY <1>2, <1>5, <4>1
              DEF PoolInv, PlaceInv, ToPass, ToStart, YetToStart, RunPlaces
    <3>3. \A w \in Workers : Ready(w)'
      BY <1>1, <1>6, <2>1, <3>2 DEF Ready, Resting
    <3> QED BY <1>1, <1>2, <2>1, <3>1, <3>3
            DEF PhaseInv, Creating, Closing, Busy, PoolInv, RunPlaces, NbThreads
  <2>2. CASE ~(t = Main /\ ToPass' = {})
    <3>1. Busy'
      BY <1>2, <1>6, <1>7, <2>2 DEF Busy, RunPlaces
    <3> QED BY <1>1, <1>2, <3>1, PhaseWhileBusy DEF PoolInv
  <2> QED BY <2>1, <2>2
<1>9. PlaceInv'
  <2> HIDE DEF place
  <2>1. \A w \in Workers :
          /\ Ready(w) => Ready(w)'
          /\ Ready(w)' \/ Woken(w)' \/ pc'[w] \in RunPlaces \cup {"last"}
    BY <1>1, <1>2, <1>6, <1>7
       DEF PoolInv, PlaceInv, Ready, Resting, Woken, RunPlaces
  <2>2. pc'[Main] = "dispatch" => pc[Main] = "dispatch"
    BY <1>6, <1>7
  <2>3. NbDispatched' = NbDispatched
    BY <1>1 DEF NbDispatched
  <2>4. pc'[Main] \in RunPlaces => pc[Main] \in RunPlaces
    BY <1>6, <1>7 DEF RunPlaces
  <2>5. pc'[Main] = "mainfunc" => pc[Main] = "mainfunc"
    BY <1>6, <1>7
  <2> QED BY <1>1, <1>2, <2>1, <2>2, <2>3, <2>4, <2>5 DEF PoolInv, PlaceInv
<1>10. CountInv'
  <2> HIDE DEF place
  <2>1. Cardinality(ToPass') = Cardinality(ToPass) - 1
    BY <1>0, SetFacts, FS_RemoveElement
  <2>2. currentJob' + Cardinality(ToPass') = nbJobs + nbActive /\ ~(currentJob' < nbJobs)
    BY <1>1, <1>2, <1>3, <2>1, SetFacts DEF PoolInv, CountInv
  <2>3. \A j \in Jobs :
          runs'[j] = IF j < firstJob \/ (nbActive <= j /\ j < currentJob' /\ j < nbJobs)
                     THEN 1 ELSE 0
    <3>1. \A j \in Jobs : j < nbJobs => j < currentJob /\ j < currentJob'
      BY <1>1, <1>3 DEF Jobs
    <3> QED BY <1>1, <1>2, <3>1 DEF PoolInv, CountInv
  <2>4. nbActive <= currentJob'
    BY <1>1, <1>2, <1>3 DEF PoolInv, CountInv
  <2> QED BY <1>0, <1>1, <1>2, <2>2, <2>3, <2>4 DEF PoolInv, CountInv
<1>11. LocalInv'
  <2> HIDE DEF place
  <2>1. pc'[t] \notin {"first", "job", "claim"}
    BY <1>6, <1>7
  <2>2. \A u \in Threads : u # t => local'[u] = local[u]
    BY <1>0, <1>1
  <2> QED BY <1>1, <1>6, <2>1, <2>2 DEF PoolInv, LocalInv
<1>12. LastInv'
  <2> HIDE DEF place
  <2>1. \A w \in Workers : pc'[w] = "last" => w = t /\ ToPass' = {}
    BY <1>5, <1>6, <1>7
  <2> QED BY <1>1, <1>5, <1>8, <2>1 DEF PoolInv, LastInv
<1> QED BY <1>8, <1>9, <1>10, <1>11, <1>12 DEF PoolInv

(* Outside of an execute nothing is counted. *)
LEMMA OutsideExecute == PoolTypeOK /\ PhaseInv /\ ~Busy /\ ~done => PoolInv
<1> SUFFICES ASSUME PoolTypeOK, PhaseInv, ~Busy, ~done PROVE PoolInv
  OBVIOUS
<1>1. pc[Main] \in MainPlaces
  BY DEF PoolTypeOK
<1>2. \A w \in Workers : pc[w] \notin RunPlaces \cup {"last"}
  <2>1. Creating \/ Closing \/ pc[Main] \in {"idle", "free"}
    BY <1>1 DEF Busy, Creating, Closing, MainPlaces
  <2> QED BY <2>1 DEF PhaseInv, Ready, Resting, Woken, Starting, RunPlaces
<1>3. \A t \in Threads : pc[t] \notin RunPlaces
  BY <1>2, ThreadFacts DEF Busy
<1>4. PlaceInv /\ CountInv /\ LastInv
  BY <1>2 DEF PlaceInv, CountInv, LastInv
<1>5. LocalInv
  BY <1>3 DEF LocalInv, RunPlaces
<1> QED BY <1>4, <1>5 DEF PoolInv

(* A worker that sleeps, wakes up or goes back to sleep. *)
LEMMA WorkerSleeps ==
  ASSUME PoolInv, PoolTypeOK', NEW w \in Workers,
         WorkerWake(w) \/ WorkerRest(w) \/ SpuriousWakeup(w)
  PROVE  PoolInv'
<1> USE ThreadFacts DEF ctxVars
<1>0. PcTypeOK /\ wdone \in [Workers -> BOOLEAN]
  BY DEF PoolInv, PoolTypeOK, PcTypeOK
<1>1. /\ UNCHANGED <<ctxVars, done, i, mainJobs, local, runs, executes>>
      /\ \A u \in Threads : u # w => pc'[u] = pc[u] /\ (u # Main => wdone'[u] = wdone[u])
      /\ NbThreads' = NbThreads /\ NbToJoin' = NbToJoin
      /\ NbDispatched' = NbDispatched
  BY <1>0 DEF WorkerWake, WorkerRest, SpuriousWakeup, Goto, PcTypeOK, NbThreads, NbToJoin,
              NbDispatched
<1>2. \/ Resting(w) /\ Resting(w)'
      \/ pc[w] = "rest" /\ Resting(w)'
      \/ Woken(w) /\ pc'[w] = IF finished THEN "gone" ELSE "enter"
  <2>1. CASE WorkerWake(w)
    BY <1>0, <2>1 DEF WorkerWake, Goto, PcTypeOK, Resting, Woken
  <2>2. CASE WorkerRest(w)
    BY <1>0, <2>2 DEF WorkerRest, Goto, PcTypeOK, Resting
  <2>3. CASE SpuriousWakeup(w)
    <3>1. pc[w] = "asleep"
      <4>1. pc[w] \in WorkerPlaces
        BY DEF PoolInv, PoolTypeOK
      <4> QED BY <2>3, <4>1 DEF SpuriousWakeup, WorkerPlaces, RunPlaces
    <3>2. wdone[w]
      BY <3>1 DEF PoolInv, PoolTypeOK, PhaseInv, PlaceInv, Creating, Busy, Closing, Resting,
             Ready, Woken, Starting, MainPlaces, RunPlaces
    <3> QED BY <1>0, <2>3, <3>1, <3>2 DEF SpuriousWakeup, Goto, PcTypeOK, Resting
  <2> QED BY <2>1, <2>2, <2>3
<1>3. /\ pc'[Main] = pc[Main]
      /\ \A u \in Workers : u # w =>
           /\ Resting(u)' <=> Resting(u)
           /\ Ready(u)' <=> Ready(u)
           /\ Woken(u)' <=> Woken(u)
           /\ pc'[u] = pc[u]
  BY <1>1 DEF Resting, Ready, Woken
<1>4. PhaseInv'
  <2>1. /\ Creating' <=> Creating
        /\ Closing' <=> Closing
        /\ Busy' <=> Busy
    BY <1>3 DEF Creating, Closing, Busy, RunPlaces
  <2>2. PhaseInv
    BY DEF PoolInv
  <2>3. CASE Busy
    BY <1>1, <2>1, <2>2, <2>3, PhaseWhileBusy
  <2>4. CASE ~Busy
    <3>1. \A u \in Workers : i' = i /\ (Resting(u) => Resting(u)') /\ (Ready(u) => Ready(u)')
      BY <1>1, <1>2, <1>3 DEF Ready, Resting, Woken
    <3>2. Creating =>
            \A u \in Workers :
              IF u < i' THEN Resting(u)'
              ELSE IF u = i' /\ pc'[Main] # "create" THEN Resting(u)' \/ Starting(u)'
              ELSE pc'[u] = "none"
      BY <1>1, <1>2, <1>3, <2>2, <3>1 DEF PhaseInv, Resting, Woken, Starting
    <3>3. pc'[Main] = "idle" => \A u \in Workers : Ready(u)'
      BY <1>3, <2>2, <3>1 DEF PhaseInv
    <3>4. pc'[Main] = "free" =>
            \A u \in Workers : IF u < NbToJoin' THEN Resting(u)' ELSE pc'[u] = "none"
      BY <1>1, <1>2, <1>3, <2>2, <3>1 DEF PhaseInv, Resting, Woken
    <3>5. Closing =>
            \A u \in Workers :
              IF u >= NbToJoin' THEN pc'[u] = "none"
              ELSE IF pc'[Main] = "kill" /\ u >= i' THEN Ready(u)'
              ELSE IF pc'[Main] = "freed" \/ (pc'[Main] = "join" /\ u < i') THEN pc'[u] = "gone"
              ELSE Woken(u)' \/ pc'[u] = "gone"
      BY <1>1, <1>2, <1>3, <2>2, <3>1 DEF PhaseInv, Resting, Ready, Woken
    <3> QED BY <1>1, <1>3, <2>1, <2>2, <2>4, <3>2, <3>3, <3>4, <3>5 DEF PhaseInv
  <2> QED BY <2>3, <2>4
<1>5. CASE ~Busy
  <2>1. ~Busy' /\ ~done'
    BY <1>1, <1>3, <1>5 DEF Busy, PoolInv, LastInv
  <2> QED BY <1>4, <2>1, OutsideExecute, PTL
<1>6. CASE Busy
  <2>1. Busy' /\ ~finished /\ ToStart' = ToStart /\ ToPass' = ToPass
    BY <1>3, <1>6, WorkerSets, QuietSets DEF Busy, PoolInv, PhaseInv, Closing, RunPlaces
  <2>2. PlaceInv'
    <3>1. \A u \in Workers :
            /\ Ready(u) => Ready(u)'
            /\ Ready(u)' \/ Woken(u)' \/ pc'[u] \in RunPlaces \cup {"last"}
      BY <1>2, <1>3, <1>6, <2>1 DEF PoolInv, PlaceInv, Ready, Resting, Woken, RunPlaces
    <3> QED BY <1>1, <1>3, <1>6, <3>1 DEF PoolInv, PlaceInv
  <2>3. CountInv'
    BY <1>1, <1>6, <2>1, CountKept DEF PoolInv
  <2>4. pc'[w] \notin {"first", "job", "claim", "last"}
    BY <1>2, <2>1 DEF Resting
  <2>5. LocalInv'
    BY <1>1, <2>4 DEF PoolInv, LocalInv
  <2>6. LastInv'
    BY <1>1, <1>3, <1>6, <2>1, <2>4 DEF PoolInv, LastInv
  <2> QED BY <1>4, <2>2, <2>3, <2>5, <2>6 DEF PoolInv
<1> QED BY <1>5, <1>6

(* The last worker leaves the flag to the caller. *)
LEMMA LastReports ==
  ASSUME PoolInv, PoolTypeOK', NEW w \in Workers, WorkerLast(w)
  PROVE  PoolInv'
<1> USE ThreadFacts DEF ctxVars
<1>0. PcTypeOK /\ pc[w] = "last"
  BY DEF PoolInv, PoolTypeOK, PcTypeOK, WorkerLast
<1>1. /\ done' /\ UNCHANGED <<ctxVars, wdone, i, mainJobs, local, runs, executes>>
      /\ pc'[w] = "rest"
      /\ \A u \in Threads : u # w =>
            pc'[u] = IF u = Main /\ pc[u] = "asleepDone" THEN "lockDone" ELSE pc[u]
  BY <1>0 DEF WorkerLast, PcTypeOK
<1>2. Busy /\ Busy' /\ ToPass = {}
  BY <1>0, <1>1 DEF PoolInv, LastInv, Busy, RunPlaces
<1>3. ToStart' = ToStart /\ ToPass' = ToPass
  BY <1>2, WorkerSets
<1>4. PhaseInv'
  BY <1>1, <1>2, PhaseWhileBusy DEF PoolInv
<1>5. PlaceInv'
  <2>1. \A u \in Workers :
          /\ Ready(u) => Ready(u)'
          /\ Ready(u)' \/ Woken(u)' \/ pc'[u] \in RunPlaces \cup {"last"}
    BY <1>1, <1>2 DEF PoolInv, PlaceInv, Ready, Resting, Woken
  <2>2. NbDispatched' = NbDispatched
    BY <1>1 DEF NbDispatched
  <2>3. /\ pc'[Main] = "dispatch" => pc[Main] = "dispatch"
        /\ pc'[Main] \in RunPlaces => pc[Main] \in RunPlaces
        /\ pc'[Main] = "mainfunc" => pc[Main] = "mainfunc"
    BY <1>1 DEF RunPlaces
  <2> QED BY <1>1, <1>2, <2>1, <2>2, <2>3 DEF PoolInv, PlaceInv
<1>6. CountInv'
  BY <1>1, <1>2, <1>3, CountKept DEF PoolInv
<1>7. LocalInv'
  BY <1>1 DEF PoolInv, LocalInv
<1>8. LastInv'
  BY <1>0, <1>1, <1>2, <1>3 DEF PoolInv, LastInv
<1> QED BY <1>4, <1>5, <1>6, <1>7, <1>8 DEF PoolInv

(* The caller wakes the next worker, or starts its own part. *)
LEMMA CallerDispatches ==
  ASSUME PoolInv, PoolTypeOK', Dispatch \/ Dispatched
  PROVE  PoolInv'
<1> USE ThreadFacts DEF ctxVars
<1>0. /\ PcTypeOK /\ wdone \in [Workers -> BOOLEAN] /\ i \in Nat /\ pc[Main] = "dispatch"
      /\ ToStart' = ToStart /\ ToPass' = ToPass
      /\ UNCHANGED <<ctxVars, done, mainJobs, local, runs, executes>>
  BY CallerSets DEF PoolInv, PoolTypeOK, PcTypeOK, Dispatch, Dispatched
<1>1. Busy /\ NbDispatched' = NbDispatched /\ NbDispatched \in Int /\ i <= NbDispatched
  BY <1>0 DEF Busy, NbDispatched, PoolInv, PoolTypeOK, PlaceInv
<1>2. \A u \in Workers : i <= u => Ready(u)
  BY <1>0, <1>1 DEF PoolInv, PlaceInv
<1>3. CASE Dispatch
  <2>1. nbThreads = NbThreads /\ nbActive <= NbThreads /\ nbActive \in Nat /\ (mainJobs => mainFunc)
    BY <1>1 DEF PoolInv, PoolTypeOK, PhaseInv, PlaceInv
  <2>2. PICK k \in Workers : k = i
    BY <1>0, <1>3, <2>1 DEF Dispatch, NbDispatched, NbThreads
  <2>3. pc[k] \in {"asleep", "relock"}
    BY <1>2, <1>3, <2>2 DEF Dispatch, WakeWorker, Unlocked, Holding, Ready, Resting
  <2>4. /\ pc'[k] = "relock" /\ ~wdone'[k] /\ i' = i + 1 /\ i' <= NbDispatched
        /\ \A u \in Threads : u # k => pc'[u] = pc[u] /\ (u # Main => wdone'[u] = wdone[u])
    BY <1>0, <1>1, <1>3, <2>2, <2>3 DEF Dispatch, WakeWorker, PcTypeOK
  <2>5. pc'[Main] = "dispatch" /\ Busy'
    BY <1>0, <2>4 DEF Busy
  <2>6. PhaseInv'
    BY <1>0, <1>1, <2>5, PhaseWhileBusy DEF PoolInv
  <2>7. PlaceInv'
    <3>1. \A u \in Workers : Ready(u)' \/ Woken(u)' \/ pc'[u] \in RunPlaces \cup {"last"}
      BY <1>1, <2>4 DEF PoolInv, PlaceInv, Ready, Resting, Woken
    <3>2. \A u \in Workers : i' <= u => Ready(u)'
      <4>1. \A u \in Workers : i' <= u => u # k /\ i <= u
        BY <1>0, <2>2, <2>4
      <4> QED BY <1>2, <2>4, <4>1 DEF Ready, Resting
    <3> QED BY <1>0, <1>1, <2>4, <2>5, <3>1, <3>2 DEF PoolInv, PlaceInv, RunPlaces
  <2>8. CountInv'
    BY <1>0, <1>1, <2>5, CountKept DEF PoolInv
  <2>9. LocalInv'
    BY <1>0, <2>3, <2>4 DEF PoolInv, LocalInv
  <2>10. LastInv'
    BY <1>0, <1>1, <2>3, <2>4, <2>5 DEF PoolInv, LastInv
  <2> QED BY <2>6, <2>7, <2>8, <2>9, <2>10 DEF PoolInv
<1>4. CASE Dispatched
  <2>1. /\ pc'[Main] = IF mainJobs THEN "mainfunc" ELSE "enter"
        /\ \A u \in Threads : u # Main => pc'[u] = pc[u]
        /\ UNCHANGED <<wdone, i>>
    BY <1>0, <1>4 DEF Dispatched, Goto, PcTypeOK
  <2>2. Busy'
    BY <2>1 DEF Busy, RunPlaces
  <2>3. PhaseInv'
    BY <1>0, <1>1, <2>2, PhaseWhileBusy DEF PoolInv
  <2>4. PlaceInv'
    <3>1. \A u \in Workers : Ready(u)' \/ Woken(u)' \/ pc'[u] \in RunPlaces \cup {"last"}
      BY <1>1, <2>1 DEF PoolInv, PlaceInv, Ready, Resting, Woken
    <3> QED BY <1>0, <1>1, <2>1, <3>1 DEF PoolInv, PlaceInv, RunPlaces
  <2>5. CountInv'
    BY <1>0, <1>1, <2>2, CountKept DEF PoolInv
  <2>6. LocalInv'
    BY <1>0, <2>1 DEF PoolInv, LocalInv
  <2>7. LastInv'
    BY <1>0, <1>1, <2>1, <2>2 DEF PoolInv, LastInv
  <2> QED BY <2>3, <2>4, <2>5, <2>6, <2>7 DEF PoolInv
<1> QED BY <1>3, <1>4

(* The caller waits for the flag, and clears it. *)
LEMMA CallerWaits ==
  ASSUME PoolInv, PoolTypeOK',
         MainFuncReturns \/ WaitDone \/ (SpuriousWakeup(Main) /\ Busy)
  PROVE  PoolInv'
<1> USE ThreadFacts DEF ctxVars
<1>0. PcTypeOK /\ done \in BOOLEAN
  BY DEF PoolInv, PoolTypeOK, PcTypeOK
<1>1. /\ pc[Main] \in {"mainfunc", "lockDone", "asleepDone"} /\ Busy
      /\ UNCHANGED <<ctxVars, wdone, i, mainJobs, local, runs, executes>>
      /\ \A u \in Threads : u # Main => pc'[u] = pc[u]
      /\ done' => done
      /\ \/ pc'[Main] \in {"lockDone", "asleepDone"}
         \/ pc'[Main] = "idle" /\ done /\ ~done'
  <2>1. CASE MainFuncReturns
    BY <1>0, <2>1 DEF MainFuncReturns, Goto, PcTypeOK, Busy
  <2>2. CASE WaitDone
    BY <1>0, <2>2 DEF WaitDone, Goto, PcTypeOK, Busy
  <2>3. CASE SpuriousWakeup(Main) /\ Busy
    BY <1>0, <2>3 DEF SpuriousWakeup, Goto, PcTypeOK, Busy, RunPlaces
  <2> QED BY <2>1, <2>2, <2>3
<1>2. /\ \A u \in Workers :
           /\ Ready(u)' <=> Ready(u)
           /\ Woken(u)' <=> Woken(u)
           /\ pc'[u] = pc[u]
      /\ NbDispatched' = NbDispatched /\ NbThreads' = NbThreads
  BY <1>1 DEF Ready, Resting, Woken, NbDispatched, NbThreads
<1>3. CASE pc'[Main] = "idle"
  <2>1. \A w \in Workers : Ready(w)'
    <3>1. ToPass = {} /\ \A w \in Workers : pc[w] # "last"
      BY <1>1, <1>3 DEF PoolInv, LastInv
    <3>2. \A w \in Workers : ~Woken(w) /\ pc[w] \notin RunPlaces
      BY <3>1 DEF ToPass, ToStart, YetToStart, RunPlaces
    <3> QED BY <1>1, <1>2, <3>1, <3>2 DEF PoolInv, PlaceInv
  <2>2. PhaseInv' /\ ~Busy' /\ ~done'
    BY <1>1, <1>2, <1>3, <2>1 DEF PoolInv, PhaseInv, Creating, Closing, Busy, RunPlaces
  <2> QED BY <2>2, OutsideExecute, PTL
<1>4. CASE pc'[Main] # "idle"
  <2>1. Busy' /\ pc'[Main] \in {"lockDone", "asleepDone"}
    BY <1>1, <1>4 DEF Busy
  <2>2. PhaseInv'
    BY <1>1, <2>1, PhaseWhileBusy DEF PoolInv
  <2>3. PlaceInv'
    BY <1>1, <1>2, <2>1 DEF PoolInv, PlaceInv, RunPlaces
  <2>4. ToStart' = ToStart /\ ToPass' = ToPass
    <3>1. \A u \in Threads :
            /\ YetToStart(u)' <=> YetToStart(u)
            /\ pc'[u] \in {"job", "claim"} <=> pc[u] \in {"job", "claim"}
      BY <1>1, <1>2, <2>1 DEF YetToStart, Chosen
    <3> QED BY <3>1, SameSets
  <2>5. CountInv'
    BY <1>1, <2>1, <2>4, CountKept DEF PoolInv
  <2>6. LocalInv'
    BY <1>1, <2>1 DEF PoolInv, LocalInv
  <2>7. LastInv'
    BY <1>1, <1>2, <2>1, <2>4 DEF PoolInv, LastInv
  <2> QED BY <2>2, <2>3, <2>5, <2>6, <2>7 DEF PoolInv
<1> QED BY <1>3, <1>4

(* An execute starts to count. *)
LEMMA CallerExecutes ==
  ASSUME PoolInv, PoolTypeOK', NEW n \in 1 .. MaxJobs, NEW executeMain \in BOOLEAN,
         Execute(n, executeMain)
  PROVE  PoolInv'
<1> USE ThreadFacts DEF ctxVars
<1>0. PcTypeOK /\ pc[Main] = "idle" /\ ~done /\ ~finished /\ nbThreads = NbThreads
  BY DEF PoolInv, PoolTypeOK, PcTypeOK, Execute, LastInv, Busy, PhaseInv, Closing, RunPlaces
<1>1. /\ pc'[Main] = "dispatch" /\ nbJobs' = n /\ firstJob' = 0 /\ currentJob' = nbActive'
      /\ i' = 0 /\ runs' = [j \in Jobs |-> 0] /\ (mainJobs' => mainFunc)
      /\ UNCHANGED <<mainFunc, nbThreads, finished, done, wdone, local>>
      /\ \A u \in Threads : u # Main => pc'[u] = pc[u]
  BY <1>0 DEF Execute, Goto, PcTypeOK
<1>2. /\ ToPass' = ToStart' /\ Cardinality(ToStart') = nbActive'
      /\ nbActive' \in 1 .. n /\ i' <= NbDispatched'
      /\ \A w \in Workers : Ready(w)'
  BY ExecuteSets
<1>3. Busy'
  BY <1>1 DEF Busy
<1>4. PhaseInv'
  BY <1>0, <1>1 DEF PoolInv, PhaseInv, Creating, Closing, Busy, NbThreads
<1>5. PlaceInv'
  BY <1>1, <1>2 DEF PlaceInv, RunPlaces
<1>6. CountInv'
  <2>1. nbActive' \in Nat /\ nbActive' <= nbJobs' /\ n \in Nat
    BY <1>1, <1>2
  <2>2. \A j \in Jobs :
          runs'[j] = IF j < firstJob' \/ (nbActive' <= j /\ j < currentJob' /\ j < nbJobs')
                     THEN 1 ELSE 0
    <3>1. \A j \in Jobs : runs'[j] = 0 /\ j \in Int /\ ~(j < 0)
      BY <1>1 DEF Jobs
    <3>2. \A j \in Jobs : ~(nbActive' <= j /\ j < nbActive')
      BY <2>1, <3>1
    <3> QED BY <1>1, <3>1, <3>2
  <2>3. IF currentJob' < nbJobs' THEN Cardinality(ToPass') = nbActive'
        ELSE currentJob' + Cardinality(ToPass') = nbJobs' + nbActive'
    BY <1>1, <1>2, <2>1
  <2>4. firstJob' + Cardinality(ToStart') = nbActive' /\ nbActive' <= currentJob'
    BY <1>1, <1>2, <2>1
  <2> QED BY <2>2, <2>3, <2>4 DEF CountInv
<1>7. \A w \in Workers : pc'[w] \notin RunPlaces \cup {"last"}
  BY <1>2 DEF Ready, Resting, RunPlaces
<1>8. LocalInv'
  BY <1>1, <1>7 DEF LocalInv, RunPlaces
<1>9. LastInv'
  BY <1>0, <1>1, <1>7 DEF LastInv
<1> QED BY <1>4, <1>5, <1>6, <1>8, <1>9 DEF PoolInv

(* A new worker is there, and tells the creator. *)
LEMMA WorkerStarts ==
  ASSUME PoolInv, PoolTypeOK', NEW w \in Workers, WorkerStart(w)
  PROVE  PoolInv'
<1> USE ThreadFacts DEF ctxVars
<1>0. PcTypeOK /\ wdone \in [Workers -> BOOLEAN] /\ pc[w] = "start" /\ i \in Int
  BY DEF PoolInv, PoolTypeOK, PcTypeOK, WorkerStart
<1>1. Creating /\ ~Busy /\ ~done /\ w = i /\ pc[Main] # "create"
  BY <1>0 DEF PoolInv, PoolTypeOK, PhaseInv, PlaceInv, LastInv, Creating, Busy, Closing,
     Resting, Ready, Woken, Starting, MainPlaces, RunPlaces
<1>2. /\ UNCHANGED <<ctxVars, done, i, mainJobs, local, runs, executes>>
      /\ pc'[w] = "asleep" /\ wdone'[w] /\ pc'[Main] \in {pc[Main], "createLock"}
      /\ \A u \in Workers : u # w => pc'[u] = pc[u] /\ wdone'[u] = wdone[u]
  BY <1>0 DEF WorkerStart, PcTypeOK
<1>3. /\ \A u \in Workers : u # w => (Resting(u)' <=> Resting(u))
      /\ Resting(w)' /\ NbThreads' = NbThreads
  BY <1>2 DEF Resting, NbThreads
<1>4. Creating' /\ ~Busy' /\ ~Closing' /\ pc'[Main] \notin {"create", "idle", "free"}
  BY <1>1, <1>2 DEF Creating, Busy, Closing, RunPlaces
<1>5. PhaseInv'
  BY <1>0, <1>1, <1>2, <1>3, <1>4 DEF PoolInv, PhaseInv, Closing, Creating
<1>6. ~done'
  BY <1>1, <1>2
<1> QED BY <1>4, <1>5, <1>6, OutsideExecute, PTL

(* The caller creates the workers one after the other, or fails. *)
LEMMA CallerCreates ==
  ASSUME PoolInv, PoolTypeOK', Create \/ (SpuriousWakeup(Main) /\ ~Busy)
  PROVE  PoolInv'
<1> USE ThreadFacts DEF ctxVars
<1>0. /\ PcTypeOK /\ wdone \in [Workers -> BOOLEAN] /\ i \in Nat /\ pc[Main] \in MainPlaces
      /\ nbThreads \in Nat
  BY DEF PoolInv, PoolTypeOK, PcTypeOK
<1>1. Creating /\ ~Busy /\ ~done /\ ~finished /\ nbThreads = NbThreads /\ i <= NbWorkers
  <2>1. Creating
    BY <1>0 DEF Create, CreateWorker, CreateWait, CreateFails, Created, SpuriousWakeup,
                Creating, Busy, MainPlaces, RunPlaces
  <2> QED BY <2>1 DEF PoolInv, PhaseInv, LastInv, Creating, Busy, Closing, RunPlaces
<1>2. \A w \in Workers :
        IF w < i THEN Resting(w)
        ELSE IF w = i /\ pc[Main] # "create" THEN Resting(w) \/ Starting(w)
        ELSE pc[w] = "none"
  BY <1>1 DEF PoolInv, PhaseInv
<1>3. UNCHANGED <<mainFunc, finished, done>> /\ NbThreads' = NbThreads
  BY DEF Create, CreateWorker, CreateWait, CreateFails, Created, SpuriousWakeup, NbThreads
<1>4. PhaseInv' /\ ~Busy'
  <2>1. CASE CreateWorker
    <3>1. PICK k \in Workers : k = i
      BY <1>0, <2>1 DEF CreateWorker
    <3>2. /\ pc'[Main] = "createAsleep" /\ Starting(k)' /\ i' = i /\ i < NbWorkers
          /\ \A u \in Workers : u # k => pc'[u] = pc[u] /\ wdone'[u] = wdone[u]
          /\ pc[Main] = "create" /\ nbThreads' = nbThreads
      BY <1>0, <2>1, <3>1 DEF CreateWorker, PcTypeOK, Starting
    <3>3. \A u \in Workers : u # k => (Resting(u)' <=> Resting(u))
      BY <3>2 DEF Resting
    <3>4. Creating' /\ ~Busy' /\ ~Closing'
      BY <3>2 DEF Creating, Busy, Closing, RunPlaces
    <3>5. \A w \in Workers :
            IF w < i' THEN Resting(w)'
            ELSE IF w = i' /\ pc'[Main] # "create" THEN Resting(w)' \/ Starting(w)'
            ELSE pc'[w] = "none"
      BY <1>0, <1>2, <3>1, <3>2, <3>3
    <3> QED BY <1>1, <1>3, <3>2, <3>4, <3>5 DEF PhaseInv, PoolInv
  <2>2. CASE CreateWait
    <3>1. /\ pc[Main] = "createLock" /\ UNCHANGED <<nbThreads, wdone>>
          /\ \A u \in Workers : pc'[u] = pc[u]
          /\ IF wdone[i] THEN pc'[Main] = "create" /\ i' = i + 1
                         ELSE pc'[Main] = "createAsleep" /\ i' = i
      BY <1>0, <2>2 DEF CreateWait, PcTypeOK, Goto
    <3>2. i < NbWorkers
      BY <1>1, <3>1 DEF PoolInv, PhaseInv
    <3>3. PICK k \in Workers : k = i
      BY <1>0, <3>2
    <3>4. \A u \in Workers : (Resting(u)' <=> Resting(u)) /\ (Starting(u)' <=> Starting(u))
      BY <3>1 DEF Resting, Starting
    <3>5. /\ i' <= NbWorkers /\ (pc'[Main] # "create" => i' < NbWorkers)
          /\ Creating' /\ ~Busy' /\ ~Closing'
      BY <1>0, <3>1, <3>2 DEF Creating, Busy, Closing, RunPlaces
    <3>6. \A w \in Workers :
            IF w < i' THEN Resting(w)'
            ELSE IF w = i' /\ pc'[Main] # "create" THEN Resting(w)' \/ Starting(w)'
            ELSE pc'[w] = "none"
      <4>1. CASE wdone[i]
        <5>1. Resting(k)
          BY <1>2, <3>1, <3>3, <4>1, <1>0 DEF Starting
        <5> QED BY <1>0, <1>2, <3>1, <3>3, <3>4, <4>1, <5>1
      <4>2. CASE ~wdone[i]
        BY <1>0, <1>2, <3>1, <3>3, <3>4, <4>2
      <4> QED BY <4>1, <4>2
    <3>7. pc'[Main] # "idle" /\ pc'[Main] # "free"
      BY <3>1
    <3> QED BY <1>1, <1>3, <3>1, <3>5, <3>6, <3>7 DEF PhaseInv, PoolInv
  <2>3. CASE CreateFails
    <3>1. /\ pc[Main] = "create" /\ pc'[Main] = "free" /\ UNCHANGED wdone
          /\ \A u \in Workers : pc'[u] = pc[u]
          /\ nbThreads' = IF mainFunc THEN i ELSE i + 1
      BY <1>0, <2>3 DEF CreateFails, PcTypeOK, Goto
    <3>2. \A u \in Workers : Resting(u)' <=> Resting(u)
      BY <3>1 DEF Resting
    <3>3. NbToJoin' = i
      BY <1>0, <1>3, <3>1 DEF NbToJoin
    <3>4. ~Creating' /\ ~Busy' /\ ~Closing' /\ pc'[Main] # "idle"
      BY <3>1 DEF Creating, Busy, Closing, RunPlaces
    <3>5. \A u \in Workers : IF u < NbToJoin' THEN Resting(u)' ELSE pc'[u] = "none"
      BY <1>0, <1>2, <3>1, <3>2, <3>3
    <3> QED BY <1>1, <1>3, <3>4, <3>5 DEF PhaseInv, PoolInv
  <2>4. CASE Created
    <3>1. /\ pc[Main] = "create" /\ pc'[Main] = "idle" /\ UNCHANGED <<wdone, nbThreads>>
          /\ \A u \in Workers : pc'[u] = pc[u]
          /\ i = NbWorkers
      BY <1>0, <2>4 DEF Created, PcTypeOK, Goto
    <3>2. \A u \in Workers : Ready(u)'
      BY <1>0, <1>2, <3>1 DEF Resting, Ready
    <3>3. ~Creating' /\ ~Busy' /\ ~Closing' /\ pc'[Main] # "free"
      BY <3>1 DEF Creating, Busy, Closing, RunPlaces
    <3> QED BY <1>1, <1>3, <3>1, <3>2, <3>3 DEF PhaseInv, PoolInv
  <2>5. CASE SpuriousWakeup(Main) /\ ~Busy
    <3>1. /\ pc[Main] = "createAsleep" /\ pc'[Main] = "createLock"
          /\ UNCHANGED <<wdone, nbThreads, i>>
          /\ \A u \in Workers : pc'[u] = pc[u]
      BY <1>0, <2>5 DEF SpuriousWakeup, PcTypeOK, Goto, Busy, MainPlaces, RunPlaces
    <3>2. \A u \in Workers : (Resting(u)' <=> Resting(u)) /\ (Starting(u)' <=> Starting(u))
      BY <3>1 DEF Resting, Starting
    <3>3. Creating' /\ ~Busy' /\ ~Closing'
      BY <3>1 DEF Creating, Busy, Closing, RunPlaces
    <3> QED BY <1>1, <1>2, <1>3, <3>1, <3>2, <3>3 DEF PhaseInv, PoolInv
  <2> QED BY <2>1, <2>2, <2>3, <2>4, <2>5 DEF Create
<1>5. ~done'
  BY <1>1, <1>3
<1> QED BY <1>4, <1>5, OutsideExecute, PTL

(* The caller frees the pool: it wakes and joins each worker that was created. *)
LEMMA CallerFrees ==
  ASSUME PoolInv, PoolTypeOK', Free \/ Kill \/ Killed \/ Join \/ Freed
  PROVE  PoolInv'
<1> USE ThreadFacts DEF ctxVars
<1>0. /\ PcTypeOK /\ wdone \in [Workers -> BOOLEAN] /\ i \in Nat /\ pc[Main] \in MainPlaces
      /\ NbToJoin \in Int /\ NbToJoin <= NbWorkers
  BY DEF PoolInv, PoolTypeOK, PcTypeOK, NbToJoin, NbThreads
<1>1. /\ ~Busy /\ ~done /\ ~Creating
      /\ pc[Main] \in {"idle", "free", "kill", "join"}
  <2>1. pc[Main] \in {"idle", "free", "kill", "join"}
    BY DEF Free, Kill, Killed, Join, Freed
  <2> QED BY <2>1 DEF Busy, Creating, RunPlaces, PoolInv, LastInv
<1>2. /\ UNCHANGED <<mainFunc, nbThreads, done>> /\ NbToJoin' = NbToJoin
      /\ finished' /\ pc'[Main] \in {"kill", "join", "freed"}
  <2>1. pc[Main] \in {"kill", "join"} => finished
    BY DEF PoolInv, PhaseInv, Closing
  <2>2. \A u \in Workers : i = u => u # Main
    OBVIOUS
  <2>3. CASE Kill
    <3>1. pc'[Main] = pc[Main]
      <4>1. PICK k \in Workers : k = i
        BY <1>0, <2>3 DEF Kill
      <4> QED BY <1>0, <2>3, <4>1 DEF Kill, WakeWorker, PcTypeOK
    <3> QED BY <2>1, <2>3, <3>1 DEF Kill, NbToJoin
  <2>4. CASE Free \/ Killed \/ Join \/ Freed
    BY <1>0, <2>1, <2>4 DEF Free, Killed, Join, Freed, NbToJoin, Goto, PcTypeOK
  <2> QED BY <2>3, <2>4
<1>3. Closing' /\ ~Busy' /\ ~Creating'
  BY <1>2 DEF Closing, Busy, Creating, RunPlaces
<1>4. \A w \in Workers :
        IF w >= NbToJoin THEN pc'[w] = "none"
        ELSE IF pc'[Main] = "kill" /\ w >= i' THEN Ready(w)'
        ELSE IF pc'[Main] = "freed" \/ (pc'[Main] = "join" /\ w < i') THEN pc'[w] = "gone"
        ELSE Woken(w)' \/ pc'[w] = "gone"
  <2>0. pc[Main] \in {"kill", "join"} =>
        \A w \in Workers :
          IF w >= NbToJoin THEN pc[w] = "none"
          ELSE IF pc[Main] = "kill" /\ w >= i THEN Ready(w)
          ELSE IF pc[Main] = "freed" \/ (pc[Main] = "join" /\ w < i) THEN pc[w] = "gone"
          ELSE Woken(w) \/ pc[w] = "gone"
    BY DEF PoolInv, PhaseInv, Closing
  <2>1. CASE Free
    <3>1. /\ pc[Main] \in {"idle", "free"} /\ pc'[Main] = "kill" /\ i' = 0 /\ wdone' = wdone
          /\ \A u \in Workers : pc'[u] = pc[u]
      BY <1>0, <2>1 DEF Free, Goto, PcTypeOK
    <3>2. CASE pc[Main] = "idle"
      <4>1. NbToJoin = NbWorkers /\ \A w \in Workers : Ready(w)
        BY <3>2 DEF PoolInv, PhaseInv, NbToJoin, NbThreads
      <4> QED BY <3>1, <4>1 DEF Ready, Resting
    <3>3. CASE pc[Main] = "free"
      <4>1. \A w \in Workers : IF w < NbToJoin THEN Resting(w) ELSE pc[w] = "none"
        BY <3>3 DEF PoolInv, PhaseInv
      <4> QED BY <1>0, <3>1, <4>1 DEF Ready, Resting
    <3> QED BY <3>1, <3>2, <3>3
  <2>2. CASE Kill
    <3>1. PICK k \in Workers : k = i
      BY <1>0, <2>2 DEF Kill
    <3>2. Ready(k)
      BY <1>0, <2>0, <2>2, <3>1 DEF Kill
    <3>3. /\ pc[Main] = "kill" /\ pc'[Main] = "kill" /\ i' = i + 1 /\ Woken(k)'
          /\ \A u \in Workers : u # k => pc'[u] = pc[u] /\ wdone'[u] = wdone[u]
      BY <1>0, <2>2, <3>1, <3>2
         DEF Kill, WakeWorker, Unlocked, Holding, Ready, Resting, Woken, PcTypeOK
    <3>4. \A u \in Workers : u # k => (Ready(u)' <=> Ready(u)) /\ (Woken(u)' <=> Woken(u))
      BY <3>3 DEF Ready, Resting, Woken
    <3>5. i < NbToJoin
      BY <2>2 DEF Kill
    <3> QED BY <1>0, <2>0, <3>1, <3>3, <3>4, <3>5
  <2>3. CASE Killed
    <3>1. /\ pc[Main] = "kill" /\ pc'[Main] = "join" /\ i' = 0 /\ wdone' = wdone
          /\ \A u \in Workers : pc'[u] = pc[u]
          /\ i >= NbToJoin
      BY <1>0, <2>3 DEF Killed, Goto, PcTypeOK
    <3> QED BY <1>0, <2>0, <3>1 DEF Woken
  <2>4. CASE Join
    <3>1. pc[Main] = "join" /\ pc[i] = "gone" /\ i' = i + 1 /\ wdone' = wdone /\ pc' = pc
      BY <2>4 DEF Join
    <3>2. \A w \in Workers : w < i' => w < i \/ w = i
      BY <1>0, <3>1
    <3> QED BY <1>0, <2>0, <3>1, <3>2 DEF Woken
  <2>5. CASE Freed
    <3>1. /\ pc[Main] = "join" /\ pc'[Main] = "freed" /\ i >= NbToJoin
          /\ \A u \in Workers : pc'[u] = pc[u]
      BY <1>0, <2>5 DEF Freed, Goto, PcTypeOK
    <3> QED BY <1>0, <2>0, <3>1
  <2> QED BY <2>1, <2>2, <2>3, <2>4, <2>5
<1>5. PhaseInv'
  BY <1>1, <1>2, <1>3, <1>4 DEF PhaseInv, PoolInv, Closing
<1>6. ~done'
  BY <1>1, <1>2
<1> QED BY <1>3, <1>5, <1>6, OutsideExecute, PTL

(* The invariant of the pool is inductive. *)
LEMMA PoolInductive == PoolInv /\ [PoolNext]_vars => PoolInv'
<1>1. PoolInv /\ UNCHANGED vars => PoolInv'
  BY DEF vars, ctxVars, PoolInv, PoolTypeOK, PhaseInv, PlaceInv, CountInv, LocalInv, LastInv,
         NbThreads, NbToJoin, NbDispatched, Creating, Busy, Closing, Resting, Ready, Woken,
         Starting, ToStart, ToPass, YetToStart, Chosen
<1>2. ASSUME PoolInv, PoolNext PROVE PoolInv'
  <2>1. PoolTypeOK'
    BY <1>2, NextTypes DEF PoolInv
  <2>2. ASSUME NEW t \in Threads, RunJobs(t) \/ FinishJob(t) PROVE PoolInv'
    BY <1>2, <2>1, <2>2, GoesOn, TakesFirst, Passes DEF RunJobs
  <2>3. ASSUME NEW w \in Workers, Worker(w) PROVE PoolInv'
    BY <1>2, <2>1, <2>2, <2>3, ThreadFacts, WorkerStarts, WorkerSleeps, LastReports DEF Worker
  <2>4. ASSUME NEW t \in Threads, PoolStep(t) PROVE PoolInv'
    BY <1>2, <2>1, <2>2, <2>3, <2>4, ThreadFacts, CallerCreates, CallerDispatches, CallerWaits,
       CallerFrees DEF PoolStep, Executing, Freeing
  <2>5. ASSUME NEW t \in Threads, SpuriousWakeup(t) PROVE PoolInv'
    BY <1>2, <2>1, <2>5, ThreadFacts, WorkerSleeps, CallerWaits, CallerCreates
  <2> QED BY <1>2, <2>1, <2>2, <2>4, <2>5, CallerExecutes, CallerFrees, CallerWaits DEF PoolNext
<1> QED BY <1>1, <1>2

(* It holds before the first worker is created. *)
LEMMA PoolInvInit == Init => PoolInv
<1> SUFFICES ASSUME Init PROVE PoolInv
  OBVIOUS
<1>1. pc[Main] = "create" /\ \A w \in Workers : pc[w] = "none"
  BY ThreadFacts DEF Init
<1>2. Creating /\ ~Closing /\ ~Busy /\ ~done /\ ~finished
  BY <1>1 DEF Init, Creating, Closing, Busy, RunPlaces
<1>3. mainFunc => NbWorkers >= 1
  <2>1. mainFunc \in IF NbWorkers = 0 THEN {FALSE} ELSE BOOLEAN
    BY DEF Init
  <2>2. mainFunc => NbWorkers # 0
    BY <2>1
  <2> QED BY <2>2, SliceAssumption
<1>4. i = 0 /\ nbThreads = NbThreads
  BY DEF Init
<1>5. \A w \in Workers : ~(w < i)
  BY <1>4, ThreadFacts
<1>6. PhaseInv
  <2>1. i <= NbWorkers
    BY <1>4, ThreadFacts
  <2>2. pc[Main] \notin {"idle", "free"}
    BY <1>1
  <2> QED BY <1>1, <1>2, <1>3, <1>4, <1>5, <2>1, <2>2 DEF PhaseInv
<1> QED BY <1>2, <1>6, InitTypes, OutsideExecute

-----------------------------------------------------------------------------
(* What the invariant says of the pool *)

(* The invariant holds in every state. *)
LEMMA PoolInvariant == PoolSpec => []PoolInv
BY PoolInvInit, PoolInductive, PTL DEF PoolSpec

(***************************************************************************)
(* The counts of a pool keep their ranges and its threads their places,    *)
(* for any number of workers: a failed pthread_create included.            *)
(***************************************************************************)
THEOREM PoolTypeCorrect == PoolSpec => []PoolTypeOK
<1>1. PoolInv => PoolTypeOK
  BY DEF PoolInv
<1> QED BY <1>1, PoolInvariant, PTL

(* When all threads have passed, every job has been called once. *)
LEMMA AllPassed ==
  ASSUME PoolInv, Busy, ToPass = {}
  PROVE  /\ MainToWait
         /\ \A t \in Threads : ~InRun(t)
         /\ \A j \in Jobs : runs[j] = IF j < nbJobs THEN 1 ELSE 0
<1> USE ThreadFacts
<1>1. \A t \in Threads : ~YetToStart(t) /\ pc[t] \notin {"job", "claim"}
  BY DEF ToPass, ToStart
<1>2. \A t \in Threads : ~InRun(t)
  <2>1. \A w \in Workers : ~InRun(w)
    BY <1>1 DEF YetToStart, InRun, RunPlaces
  <2>2. ~InRun(Main)
    BY <1>1 DEF YetToStart, InRun, RunPlaces, PoolInv, PlaceInv
  <2> QED BY <2>1, <2>2
<1>3. MainToWait
  <2>1. CASE pc[Main] = "dispatch"
    <3>1. mainJobs
      BY <1>1, <2>1 DEF YetToStart
    <3>2. nbActive \in Nat /\ nbActive <= NbThreads /\ nbThreads = NbThreads /\ mainFunc /\ i \in Nat
      BY <3>1 DEF PoolInv, PoolTypeOK, PhaseInv, PlaceInv
    <3>3. NbDispatched \in Int /\ NbDispatched <= NbWorkers
      BY <3>1, <3>2 DEF NbDispatched, NbThreads
    <3>4. ~(i < NbDispatched)
      <4>1. SUFFICES ASSUME i < NbDispatched PROVE FALSE
        OBVIOUS
      <4>2. PICK k \in Workers : k = i
        BY <3>2, <3>3, <4>1
      <4>3. YetToStart(k)
        BY <2>1, <3>2, <4>1, <4>2 DEF YetToStart, Chosen
      <4> QED BY <1>1, <4>3
    <3>5. i <= NbDispatched
      BY <2>1 DEF PoolInv, PlaceInv
    <3> QED BY <2>1, <3>1, <3>2, <3>3, <3>4, <3>5 DEF MainToWait
  <2>2. CASE pc[Main] # "dispatch"
    BY <1>2, <2>2 DEF Busy, MainToWait, InRun
  <2> QED BY <2>1, <2>2
<1>4. \A j \in Jobs : runs[j] = IF j < nbJobs THEN 1 ELSE 0
  <2>1. ToStart = {} /\ Cardinality(ToStart) = 0 /\ Cardinality(ToPass) = 0
    BY SetFacts, FS_EmptySet
  <2>2. /\ firstJob \in Nat /\ currentJob \in Nat /\ nbJobs \in Nat /\ nbActive \in Nat
        /\ nbActive >= 1 /\ nbActive <= nbJobs
    BY DEF PoolInv, PoolTypeOK, PlaceInv
  <2>3. firstJob = nbActive
    BY <2>1, <2>2 DEF PoolInv, CountInv
  <2>4. currentJob = nbJobs + nbActive
    <3>1. IF currentJob < nbJobs THEN 0 = nbActive ELSE currentJob + 0 = nbJobs + nbActive
      BY <2>1 DEF PoolInv, CountInv
    <3> QED BY <2>2, <3>1
  <2>5. \A j \in Jobs : j \in Int
    BY DEF Jobs
  <2>6. \A j \in Jobs :
          (j < firstJob \/ (nbActive <= j /\ j < currentJob /\ j < nbJobs)) <=> j < nbJobs
    BY <2>2, <2>3, <2>4, <2>5
  <2>7. \A j \in Jobs :
          runs[j] = IF j < firstJob \/ (nbActive <= j /\ j < currentJob /\ j < nbJobs)
                    THEN 1 ELSE 0
    BY DEF PoolInv, CountInv
  <2> QED BY <2>6, <2>7
<1> QED BY <1>2, <1>3, <1>4

(***************************************************************************)
(* No execute meddles with the next, and no worker with a context that is  *)
(* gone: ctx->done and the last worker belong to the execute that is       *)
(* running, whose jobs have all returned by then, and a context is freed   *)
(* only when every worker that was created has left.                       *)
(***************************************************************************)
THEOREM PoolKeepsApart == PoolSpec => []PoolSafe
<1>1. PoolInv => PoolSafe
  <2> SUFFICES ASSUME PoolInv PROVE PoolSafe
    OBVIOUS
  <2>1. DoneIsFresh
    BY AllPassed, ThreadFacts DEF DoneIsFresh, PoolInv, LastInv
  <2>2. OneLast
    BY AllPassed DEF OneLast, PoolInv, LastInv
  <2>3. NoWorkerOutlivesContext
    BY DEF NoWorkerOutlivesContext, PoolInv, PhaseInv, Closing
  <2> QED BY <2>1, <2>2, <2>3 DEF PoolSafe
<1> QED BY <1>1, PoolInvariant, PTL

(***************************************************************************)
(* avpriv_slicethread_execute stores its counts and counters without any   *)
(* lock, but never while a worker may read them.                           *)
(***************************************************************************)
THEOREM UpdatesAreQuiescent == PoolSpec => QuiescentUpdate
<1>1. ASSUME PoolInv, NEW n \in 1 .. MaxJobs, NEW em \in BOOLEAN, Execute(n, em)
      PROVE  \A w \in Workers : ~InRun(w) /\ pc[w] # "last"
  BY <1>1 DEF Execute, PoolInv, PhaseInv, Ready, Resting, InRun, RunPlaces
<1>2. PoolInv =>
        [(\E n \in 1 .. MaxJobs, em \in BOOLEAN : Execute(n, em))
           => \A w \in Workers : ~InRun(w) /\ pc[w] # "last"]_vars
  BY <1>1
<1> QED BY <1>2, PoolInvariant, PTL DEF QuiescentUpdate

-----------------------------------------------------------------------------
(* The pool implements ParallelFor *)

\* The jobs that have not been called, and the calls in progress.
Pending == {j \in Jobs : j < nbJobs /\ runs[j] = 0}
InJob == {u \in Threads : pc[u] = "job"}
Running == {<<local[t].job, local[t].nr>> : t \in InJob}

(* Whether an execute is in progress, by the place of the caller. *)
LEMMA ModeFacts ==
  ASSUME PoolTypeOK, PoolTypeOK'
  PROVE  /\ Mode = IF Busy THEN "busy" ELSE IF Closing THEN "over" ELSE "idle"
         /\ Mode' = IF Busy' THEN "busy" ELSE IF Closing' THEN "over" ELSE "idle"
<1>1. pc[Main] \in MainPlaces /\ pc'[Main] \in MainPlaces
  BY DEF PoolTypeOK
<1>2. Mode = IF Busy THEN "busy" ELSE IF Closing THEN "over" ELSE "idle"
  BY <1>1 DEF Mode, Busy, Closing, MainPlaces, RunPlaces
<1>3. Mode' = IF Busy' THEN "busy" ELSE IF Closing' THEN "over" ELSE "idle"
  BY <1>1 DEF Mode, Busy, Closing, MainPlaces, RunPlaces
<1> QED BY <1>2, <1>3

(* A step that calls no job and returns from none changes nothing of the loop. *)
LEMMA LoopStutters ==
  ASSUME UNCHANGED <<nbJobs, runs>>, Mode' = Mode, InJob' = InJob,
         \A u \in InJob : local'[u] = local[u]
  PROVE  UNCHANGED Loop!vars
<1>1. Pending' = Pending
  BY DEF Pending
<1>2. Running' = Running
  BY DEF Running
<1> QED BY <1>1, <1>2 DEF Loop!vars, Pending, Running, InJob

(* A call of a job is one of the loop, if its number is free. *)
LEMMA LoopStarts ==
  ASSUME NEW j \in Pending, NEW s \in 0 .. NbWorkers, Mode = "busy", Mode' = "busy",
         \A u \in InJob : local[u].nr # s,
         Pending' = Pending \ {j}, Running' = Running \cup {<<j, s>>}
  PROVE  Loop!Next
<1>1. \A r \in Running : r[2] # s
  BY DEF Running
<1>2. Loop!Start(j, s)
  BY <1>1 DEF Loop!Start, Pending, Running, InJob
<1>3. j \in Pending /\ s \in 0 .. (NbWorkers + 1) - 1
  BY SliceAssumption
<1> QED BY <1>2, <1>3 DEF Loop!Next, Pending

(* So is the return of one. *)
LEMMA LoopFinishes ==
  ASSUME NEW r \in Running, Mode' = Mode, Pending' = Pending, Running' = Running \ {r}
  PROVE  Loop!Next
<1>1. Loop!Finish(r)
  BY DEF Loop!Finish, Pending, Running, InJob
<1> QED BY <1>1 DEF Loop!Next, Running, InJob

(* The return of execute is that of the loop, if nothing is left. *)
LEMMA LoopReturns ==
  ASSUME Mode = "busy", Mode' = "idle", UNCHANGED <<nbJobs, runs>>, InJob = {}, InJob' = {},
         \A j \in Jobs : j < nbJobs => runs[j] = 1
  PROVE  Loop!Next
<1>1. Pending = {} /\ Pending' = {}
  BY DEF Pending
<1>2. Running = {} /\ Running' = {}
  BY DEF Running
<1>3. Loop!Return
  BY <1>1, <1>2 DEF Loop!Return, Pending, Running, InJob
<1> QED BY <1>3 DEF Loop!Next

(* The thread numbers of an execute are below the number of its threads. *)
LEMMA NumbersInRange ==
  ASSUME PoolInv, Busy
  PROVE  /\ \A t \in Threads : pc[t] \in {"job", "claim"} => local[t].nr \in 0 .. NbWorkers
         /\ ToStart # {} => firstJob \in 0 .. NbWorkers /\ firstJob < nbActive
<1>1. /\ firstJob \in Nat /\ nbActive \in Nat /\ nbActive <= NbThreads
      /\ NbThreads \in Nat /\ NbThreads <= NbWorkers + 1 /\ NbWorkers \in Nat
      /\ \A t \in Threads : local[t].nr \in Nat
  BY ThreadFacts DEF PoolInv, PoolTypeOK
<1>2. firstJob <= nbActive
  BY <1>1, SetFacts DEF PoolInv, CountInv
<1>3. \A t \in Threads : pc[t] \in {"job", "claim"} => local[t].nr < firstJob
  BY DEF PoolInv, LocalInv
<1>4. ToStart # {} => firstJob < nbActive
  <2>1. ToStart # {} => Cardinality(ToStart) # 0
    BY SetFacts, FS_EmptySet
  <2> QED BY <1>1, <2>1, SetFacts DEF PoolInv, CountInv
<1> QED BY <1>1, <1>2, <1>3, <1>4

(* A first job was not called before, and its number is not in use. *)
LEMMA FirstJobStarts ==
  ASSUME PoolInv, PoolInv', NEW t \in Threads, ClaimFirst(t)
  PROVE  Loop!Next
<1> USE ThreadFacts
<1>0. /\ PcTypeOK /\ local \in [Threads -> Copies] /\ PoolTypeOK /\ PoolTypeOK'
      /\ runs \in [Jobs -> Nat] /\ nbJobs \in 0 .. MaxJobs /\ nbActive \in Nat /\ firstJob \in Nat
      /\ currentJob \in Nat
  BY DEF PoolInv, PoolTypeOK, PcTypeOK, Copies
<1>1. /\ pc[t] = "first" /\ pc' = [pc EXCEPT ![t] = "job"] /\ nbJobs' = nbJobs
      /\ local' = [local EXCEPT ![t].nr = firstJob, ![t].job = firstJob]
      /\ runs' = [runs EXCEPT ![firstJob] = runs[firstJob] + 1]
  BY DEF ClaimFirst, CallJob, Goto
<1>2. Busy /\ Busy' /\ t \in ToStart
  BY <1>0, <1>1, RunIsBusy, StartSets DEF Busy, PcTypeOK, RunPlaces
<1>3. firstJob \in 0 .. NbWorkers /\ firstJob < nbActive /\ nbActive <= nbJobs
  BY <1>2, NumbersInRange DEF PoolInv, PlaceInv
<1>4. firstJob \in Jobs /\ runs[firstJob] = 0
  <2>1. firstJob \in Jobs
    BY <1>0, <1>3 DEF Jobs
  <2>2. ~(firstJob < firstJob) /\ ~(nbActive <= firstJob)
    BY <1>0, <1>3
  <2> QED BY <1>2, <2>1, <2>2 DEF PoolInv, CountInv
<1>5. Pending' = Pending \ {firstJob} /\ firstJob \in Pending
  BY <1>0, <1>1, <1>3, <1>4 DEF Pending
<1>6. \A u \in InJob : local[u].nr # firstJob
  <2>1. \A u \in InJob : local[u].nr < firstJob /\ local[u].nr \in Nat
    BY <1>0 DEF InJob, PoolInv, LocalInv, Copies
  <2> QED BY <1>0, <2>1
<1>7. Running' = Running \cup {<<firstJob, firstJob>>}
  <2>1. InJob' = InJob \cup {t} /\ t \notin InJob
    BY <1>0, <1>1 DEF InJob, PcTypeOK
  <2>2. /\ \A u \in InJob : local'[u] = local[u]
        /\ local'[t].job = firstJob /\ local'[t].nr = firstJob
    BY <1>0, <1>1, <2>1 DEF InJob, Copies
  <2> QED BY <2>1, <2>2 DEF Running
<1>8. Mode = "busy" /\ Mode' = "busy"
  BY <1>0, <1>2, ModeFacts
<1>9. PICK j \in Pending : j = firstJob
  BY <1>5
<1>10. PICK s \in 0 .. NbWorkers : s = firstJob
  BY <1>3
<1> QED BY <1>5, <1>6, <1>7, <1>8, <1>9, <1>10, LoopStarts

(* A next job was not called before, and its thread keeps its number. *)
LEMMA NextJobStarts ==
  ASSUME PoolInv, PoolInv', NEW t \in Threads, ClaimNext(t), currentJob < local[t].jobs
  PROVE  Loop!Next
<1> USE ThreadFacts
<1>0. /\ PcTypeOK /\ local \in [Threads -> Copies] /\ PoolTypeOK /\ PoolTypeOK'
      /\ runs \in [Jobs -> Nat] /\ nbJobs \in 0 .. MaxJobs /\ nbActive \in Nat /\ firstJob \in Nat
      /\ currentJob \in Nat
  BY DEF PoolInv, PoolTypeOK, PcTypeOK, Copies
<1>1. /\ pc[t] = "claim" /\ pc' = [pc EXCEPT ![t] = "job"] /\ nbJobs' = nbJobs
      /\ local' = [local EXCEPT ![t].job = currentJob]
      /\ runs' = [runs EXCEPT ![currentJob] = runs[currentJob] + 1]
  BY DEF ClaimNext, CallJob, Goto
<1>2. Busy /\ Busy' /\ currentJob < nbJobs
  BY <1>0, <1>1, RunIsBusy DEF Busy, PcTypeOK, RunPlaces, PoolInv, LocalInv
<1>3. firstJob <= nbActive /\ nbActive <= currentJob
  BY <1>0, <1>2, SetFacts DEF PoolInv, CountInv
<1>4. currentJob \in Jobs /\ runs[currentJob] = 0
  <2>1. currentJob \in Jobs
    BY <1>0, <1>2 DEF Jobs
  <2>2. ~(currentJob < firstJob) /\ ~(currentJob < currentJob)
    BY <1>0, <1>3
  <2> QED BY <1>2, <2>1, <2>2 DEF PoolInv, CountInv
<1>5. Pending' = Pending \ {currentJob} /\ currentJob \in Pending
  BY <1>0, <1>1, <1>2, <1>4 DEF Pending
<1>6. local[t].nr \in 0 .. NbWorkers /\ \A u \in InJob : local[u].nr # local[t].nr
  <2>1. \A u \in InJob : u \in Threads /\ u # t /\ pc[u] = "job"
    BY <1>1 DEF InJob
  <2> QED BY <1>1, <1>2, <2>1, NumbersInRange DEF PoolInv, LocalInv
<1>7. Running' = Running \cup {<<currentJob, local[t].nr>>}
  <2>1. InJob' = InJob \cup {t} /\ t \notin InJob
    BY <1>0, <1>1 DEF InJob, PcTypeOK
  <2>2. /\ \A u \in InJob : local'[u] = local[u]
        /\ local'[t].job = currentJob /\ local'[t].nr = local[t].nr
    BY <1>0, <1>1, <2>1 DEF InJob, Copies
  <2> QED BY <2>1, <2>2 DEF Running
<1>8. Mode = "busy" /\ Mode' = "busy"
  BY <1>0, <1>2, ModeFacts
<1>9. PICK j \in Pending : j = currentJob
  BY <1>5
<1>10. PICK s \in 0 .. NbWorkers : s = local[t].nr
  BY <1>6
<1> QED BY <1>5, <1>6, <1>7, <1>8, <1>9, <1>10, LoopStarts

(* The return of a job frees its number and no other. *)
LEMMA JobFinishes ==
  ASSUME PoolInv, PoolInv', NEW t \in Threads, FinishJob(t)
  PROVE  Loop!Next
<1> USE ThreadFacts
<1>0. PcTypeOK /\ local \in [Threads -> Copies] /\ PoolTypeOK /\ PoolTypeOK'
  BY DEF PoolInv, PoolTypeOK, PcTypeOK, Copies
<1>1. /\ pc[t] = "job" /\ pc' = [pc EXCEPT ![t] = "claim"]
      /\ UNCHANGED <<nbJobs, runs, local>>
  BY DEF FinishJob, Goto, ctxVars
<1>2. Busy /\ Busy'
  BY <1>0, <1>1, RunIsBusy DEF Busy, PcTypeOK, RunPlaces
<1>3. Mode = "busy" /\ Mode' = "busy"
  BY <1>0, <1>2, ModeFacts
<1>4. InJob' = InJob \ {t} /\ t \in InJob
  BY <1>0, <1>1 DEF InJob, PcTypeOK
<1> DEFINE call == <<local[t].job, local[t].nr>>
<1>5. call \in Running
  BY <1>4 DEF Running
<1>6. Running' = Running \ {call}
  <2>1. \A u \in InJob : u # t => <<local[u].job, local[u].nr>> # call
    <3>1. \A u \in InJob : u # t => local[u].nr # local[t].nr
      BY <1>1 DEF InJob, PoolInv, LocalInv
    <3> QED BY <3>1
  <2>2. Running' = {<<local[u].job, local[u].nr>> : u \in InJob \ {t}}
    BY <1>1, <1>4 DEF Running
  <2> QED BY <2>1, <2>2 DEF Running
<1>7. Pending' = Pending
  BY <1>1 DEF Pending
<1>8. PICK r \in Running : r = call
  BY <1>5
<1> QED BY <1>3, <1>6, <1>7, <1>8, LoopFinishes

(* A thread that runs past the last job ends the execute if it is the last. *)
LEMMA PassReturns ==
  ASSUME PoolInv, PoolInv', NEW t \in Threads, ClaimNext(t), ~(currentJob < local[t].jobs)
  PROVE  Loop!Next \/ UNCHANGED Loop!vars
<1> USE ThreadFacts
<1>0. /\ PcTypeOK /\ PoolTypeOK /\ PoolTypeOK' /\ nbJobs \in Nat /\ nbActive \in Nat
      /\ firstJob \in Nat /\ currentJob \in Nat /\ local \in [Threads -> Copies]
  BY DEF PoolInv, PoolTypeOK, PcTypeOK, Copies
<1> DEFINE place == AfterRun(t, IsLast(t, currentJob))
<1>1. /\ pc[t] = "claim" /\ UNCHANGED <<nbJobs, runs>>
      /\ local' = [local EXCEPT ![t].job = currentJob]
      /\ pc'[t] = place /\ \A u \in Threads : u # t => pc'[u] = pc[u]
  BY <1>0 DEF ClaimNext, Goto, PcTypeOK
<1>2. Busy /\ ~(currentJob < nbJobs)
  BY <1>1, RunIsBusy DEF RunPlaces, PoolInv, LocalInv
<1>3. InJob' = InJob /\ \A u \in InJob : local'[u] = local[u]
  <2>1. place # "job"
    BY DEF AfterRun
  <2> HIDE DEF place
  <2> QED BY <1>0, <1>1, <2>1 DEF InJob
<1>4. CASE t = Main /\ ToPass = {t}
  <2>1. pc'[Main] = "idle"
    BY <1>1, <1>4, LastPasses DEF AfterRun
  <2>2. Mode = "busy" /\ Mode' = "idle"
    <3>1. ~Busy' /\ ~Closing'
      BY <2>1 DEF Busy, Closing, RunPlaces
    <3> QED BY <1>0, <1>2, <3>1, ModeFacts
  <2>3. InJob = {}
    BY <1>1, <1>4 DEF InJob, ToPass
  <2>4. ToStart = {}
    BY <1>1, <1>4 DEF ToPass, ToStart, YetToStart
  <2>5. firstJob = nbActive /\ nbJobs <= currentJob
    BY <1>0, <1>2, <2>4, FS_EmptySet DEF PoolInv, CountInv
  <2>6. \A j \in Jobs : j < nbJobs => runs[j] = 1
    <3>1. \A j \in Jobs : j < nbJobs => j < currentJob /\ (j < firstJob \/ nbActive <= j)
      BY <1>0, <2>5 DEF Jobs
    <3> QED BY <1>2, <3>1 DEF PoolInv, CountInv
  <2> QED BY <1>1, <1>3, <2>2, <2>3, <2>6, LoopReturns
<1>5. CASE ~(t = Main /\ ToPass = {t})
  <2>1. Busy'
    <3>1. CASE t = Main
      BY <1>1, <1>5, <3>1, LastPasses DEF AfterRun, Busy
    <3>2. CASE t # Main
      BY <1>1, <1>2, <3>2 DEF Busy
    <3> QED BY <3>1, <3>2
  <2>2. Mode' = Mode
    BY <1>0, <1>2, <2>1, ModeFacts
  <2> QED BY <1>1, <1>3, <2>2, LoopStutters
<1> QED BY <1>4, <1>5

(* An execute is one of the loop, for the same jobs. *)
LEMMA ExecuteMaps ==
  ASSUME PoolInv, PoolInv', NEW n \in 1 .. MaxJobs, NEW executeMain \in BOOLEAN,
         Execute(n, executeMain)
  PROVE  Loop!Next
<1> USE ThreadFacts
<1>0. PcTypeOK /\ PoolTypeOK /\ PoolTypeOK' /\ n \in Nat /\ n <= MaxJobs
  BY DEF PoolInv, PoolTypeOK, PcTypeOK
<1>1. /\ pc[Main] = "idle" /\ pc'[Main] = "dispatch" /\ nbJobs' = n
      /\ runs' = [j \in Jobs |-> 0] /\ local' = local
      /\ \A u \in Threads : u # Main => pc'[u] = pc[u]
  BY <1>0 DEF Execute, Goto, PcTypeOK
<1>2. ~Busy /\ ~Closing /\ Busy'
  BY <1>1 DEF Busy, Closing, RunPlaces
<1>3. Mode = "idle" /\ Mode' = "busy"
  BY <1>0, <1>2, ModeFacts
<1>4. Running' = Running
  <2>1. InJob' = InJob
    BY <1>1 DEF InJob
  <2> QED BY <1>1, <2>1 DEF Running
<1>5. Pending' = 0 .. n - 1
  <2>1. \A j \in Jobs : runs'[j] = 0 /\ (j < nbJobs' <=> j < n)
    BY <1>1
  <2>2. Pending' = {j \in Jobs : j < n}
    BY <2>1 DEF Pending
  <2>3. {j \in Jobs : j < n} = 0 .. n - 1
    BY <1>0 DEF Jobs
  <2> QED BY <2>2, <2>3
<1>6. Loop!Execute(n)
  BY <1>3, <1>4, <1>5 DEF Loop!Execute, Pending, Running, InJob
<1> QED BY <1>6 DEF Loop!Next

(* The other steps of the caller: only the return of execute, and free, show. *)
LEMMA CallerMaps ==
  ASSUME PoolInv, PoolInv',
         \/ Create \/ Dispatch \/ Dispatched \/ WaitDone \/ MainFuncReturns
         \/ Free \/ Kill \/ Killed \/ Join \/ Freed \/ SpuriousWakeup(Main)
  PROVE  Loop!Next \/ UNCHANGED Loop!vars
<1> USE ThreadFacts
<1>0. PcTypeOK /\ PoolTypeOK /\ PoolTypeOK' /\ pc[Main] \in MainPlaces /\ i \in Nat
  BY DEF PoolInv, PoolTypeOK, PcTypeOK
<1>1. UNCHANGED <<nbJobs, runs, local>>
  BY DEF Create, CreateWorker, CreateWait, CreateFails, Created, Dispatch, Dispatched,
         WaitDone, MainFuncReturns, Free, Kill, Killed, Join, Freed, SpuriousWakeup, ctxVars
<1>2. InJob' = InJob
  <2>1. CASE CreateWorker
    <3>1. PICK k \in Workers : k = i
      BY <1>0, <2>1 DEF CreateWorker
    <3>2. pc[k] = "none"
      BY <2>1, <3>1 DEF CreateWorker, PoolInv, PhaseInv, Creating
    <3> QED BY <1>0, <2>1, <3>1, <3>2 DEF CreateWorker, InJob, PcTypeOK
  <2>2. CASE Dispatch \/ Kill
    BY <1>0, <2>2 DEF Dispatch, Kill, WakeWorker, InJob, PcTypeOK
  <2>3. CASE Join
    BY <2>3 DEF Join, InJob
  <2>4. CASE ~(CreateWorker \/ Dispatch \/ Kill \/ Join)
    <3>1. PICK place : Goto(Main, place) /\ place # "job" /\ pc[Main] # "job"
      BY <1>0, <2>4
         DEF Create, CreateWait, CreateFails, Created, Dispatched, WaitDone, MainFuncReturns,
             Free, Killed, Freed, SpuriousWakeup
    <3> QED BY <1>0, <3>1 DEF Goto, InJob, PcTypeOK
  <2> QED BY <2>1, <2>2, <2>3, <2>4
<1>3. CASE WaitDone /\ done
  <2>1. pc[Main] = "lockDone" /\ pc'[Main] = "idle"
    BY <1>0, <1>3 DEF WaitDone, Goto, PcTypeOK
  <2>2. Busy /\ ~Busy' /\ ~Closing'
    BY <2>1 DEF Busy, Closing, RunPlaces
  <2>3. Mode = "busy" /\ Mode' = "idle"
    BY <1>0, <2>2, ModeFacts
  <2>4. ToPass = {}
    BY <1>3 DEF PoolInv, LastInv
  <2>5. InJob = {} /\ \A j \in Jobs : j < nbJobs => runs[j] = 1
    BY <2>2, <2>4, AllPassed DEF InJob, ToPass
  <2> QED BY <1>1, <1>2, <2>3, <2>5, LoopReturns
<1>4. CASE Free
  <2>1. pc[Main] \in {"idle", "free"} /\ pc'[Main] = "kill"
    BY <1>0, <1>4 DEF Free, Goto, PcTypeOK
  <2>2. ~Busy /\ ~Closing /\ ~Busy' /\ Closing'
    BY <2>1 DEF Busy, Closing, RunPlaces
  <2>3. Mode = "idle" /\ Mode' = "over"
    BY <1>0, <2>2, ModeFacts
  <2>4. Pending' = Pending /\ Running' = Running
    BY <1>1, <1>2 DEF Pending, Running
  <2>5. Loop!Close
    BY <2>3, <2>4 DEF Loop!Close, Pending, Running, InJob
  <2> QED BY <2>5 DEF Loop!Next
<1>5. CASE ~(WaitDone /\ done) /\ ~Free
  <2>1. (Busy' <=> Busy) /\ (Closing' <=> Closing)
    <3>1. CASE CreateWorker
      <4>1. pc[Main] = "create" /\ pc'[Main] = "createAsleep"
        BY <1>0, <3>1 DEF CreateWorker, PcTypeOK
      <4> QED BY <4>1 DEF Busy, Closing, RunPlaces
    <3>2. CASE Dispatch \/ Kill
      <4>1. i # Main
        BY <1>0, SliceAssumption
      <4>2. pc'[Main] = pc[Main]
        BY <1>0, <3>2, <4>1 DEF Dispatch, Kill, WakeWorker, PcTypeOK
      <4> QED BY <4>2 DEF Busy, Closing
    <3>3. CASE Join
      BY <3>3 DEF Join, Busy, Closing
    <3>4. CASE ~(CreateWorker \/ Dispatch \/ Kill \/ Join)
      BY <1>0, <1>5, <3>4
         DEF Create, CreateWait, CreateFails, Created, Dispatched, WaitDone, MainFuncReturns,
             Killed, Freed, SpuriousWakeup, Goto, PcTypeOK, Busy, Closing, RunPlaces, MainPlaces
    <3> QED BY <3>1, <3>2, <3>3, <3>4
  <2>2. Mode' = Mode
    BY <1>0, <2>1, ModeFacts
  <2> QED BY <1>1, <1>2, <2>2, LoopStutters
<1> QED BY <1>3, <1>4, <1>5

(* The steps of a worker around run_jobs, and RunEnter, do not show. *)
LEMMA WorkerMaps ==
  ASSUME PoolInv, PoolInv', NEW t \in Threads,
         \/ RunEnter(t)
         \/ t \in Workers /\ (\/ WorkerStart(t) \/ WorkerWake(t) \/ WorkerLast(t) \/ WorkerRest(t)
                              \/ SpuriousWakeup(t))
  PROVE  UNCHANGED Loop!vars
<1> USE ThreadFacts
<1>0. PcTypeOK /\ PoolTypeOK /\ PoolTypeOK' /\ local \in [Threads -> Copies]
  BY DEF PoolInv, PoolTypeOK, PcTypeOK, Copies
<1>1. UNCHANGED <<nbJobs, runs>> /\ \A u \in Threads : u # t => local'[u] = local[u]
  BY <1>0 DEF RunEnter, WorkerStart, WorkerWake, WorkerLast, WorkerRest, SpuriousWakeup, ctxVars
<1>2. /\ pc[t] # "job" /\ pc'[t] # "job"
      /\ \A u \in Workers : u # t => pc'[u] = pc[u]
      /\ \/ pc'[Main] = pc[Main]
         \/ pc[Main] = "createAsleep" /\ pc'[Main] = "createLock"
         \/ pc[Main] = "asleepDone" /\ pc'[Main] = "lockDone"
         \/ pc[Main] = "enter" /\ pc'[Main] = "first"
  BY <1>0 DEF RunEnter, WorkerStart, WorkerWake, WorkerLast, WorkerRest, SpuriousWakeup, Goto,
     PcTypeOK
<1>3. InJob' = InJob /\ \A u \in InJob : local'[u] = local[u]
  BY <1>1, <1>2 DEF InJob
<1>4. (Busy' <=> Busy) /\ (Closing' <=> Closing)
  BY <1>2 DEF Busy, Closing, RunPlaces
<1>5. Mode' = Mode
  BY <1>0, <1>4, ModeFacts
<1> QED BY <1>1, <1>3, <1>5, LoopStutters

(* Every step of the pool is one of the loop, or does not show. *)
LEMMA StepMaps ==
  ASSUME PoolInv, PoolInv', [PoolNext]_vars
  PROVE  [Loop!Next]_Loop!vars
<1>1. CASE UNCHANGED vars
  BY <1>1 DEF vars, ctxVars, Loop!vars, Mode
<1>2. CASE PoolNext
  <2>1. ASSUME NEW t \in Threads, RunJobs(t) \/ FinishJob(t)
        PROVE  [Loop!Next]_Loop!vars
    BY <2>1, WorkerMaps, FirstJobStarts, NextJobStarts, PassReturns, JobFinishes DEF RunJobs
  <2>2. ASSUME NEW w \in Workers, Worker(w) PROVE [Loop!Next]_Loop!vars
    BY <2>1, <2>2, ThreadFacts, WorkerMaps DEF Worker
  <2>3. ASSUME NEW t \in Threads, PoolStep(t) PROVE [Loop!Next]_Loop!vars
    BY <2>1, <2>2, <2>3, ThreadFacts, CallerMaps DEF PoolStep, Executing, Freeing
  <2>4. ASSUME NEW t \in Threads, SpuriousWakeup(t) PROVE [Loop!Next]_Loop!vars
    BY <2>4, ThreadFacts, WorkerMaps, CallerMaps
  <2> QED BY <1>2, <2>1, <2>3, <2>4, ExecuteMaps, CallerMaps DEF PoolNext
<1> QED BY <1>1, <1>2

(* The pool starts as an idle loop. *)
LEMMA InitMaps == Init => Loop!Init
<1> SUFFICES ASSUME Init PROVE Loop!Init
  OBVIOUS
<1>1. pc[Main] = "create" /\ \A t \in Threads : pc[t] # "job"
  BY ThreadFacts DEF Init
<1>2. Mode = "idle" /\ InJob = {} /\ Running = {}
  BY <1>1 DEF Mode, InJob, Running
<1>3. Pending = {}
  BY DEF Init, Pending, Jobs
<1> QED BY <1>2, <1>3 DEF Loop!Init, Pending, Running, InJob

(***************************************************************************)
(* avpriv_slicethread_execute calls each job once, never gives two calls   *)
(* at a time the same thread number, and returns when all calls have       *)
(* returned, for any number of workers and jobs: the counters and the flag *)
(* implement ParallelFor.                                                  *)
(***************************************************************************)
THEOREM PoolIsParallelFor == PoolSpec => ImplementsParallelFor
BY InitMaps, StepMaps, PoolInvariant, PTL DEF PoolSpec, ImplementsParallelFor, Loop!Spec

=============================================================================
