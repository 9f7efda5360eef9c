---------------------------- MODULE ParallelFor ----------------------------
(***************************************************************************)
(* What a slice threading pool promises its client: execute(n) calls the   *)
(* job function once for every job below n, at any time at most one call   *)
(* per thread number, and returns when the last of them has returned.      *)
(* Nothing is said of threads, locks or the order of the jobs.             *)
(***************************************************************************)
EXTENDS Naturals

CONSTANTS
  NbSlots,    \* the number of thread numbers a job may be given
  MaxJobs     \* the most jobs one execute is asked for

VARIABLES
  mode,       \* "idle", "busy" inside execute, "over" once freed
  pending,    \* the jobs of this execute that have not been called yet
  running     \* the calls in progress: pairs of a job and a thread number

vars == <<mode, pending, running>>

Init == mode = "idle" /\ pending = {} /\ running = {}

Execute(n) ==
  /\ mode = "idle"
  /\ mode' = "busy"
  /\ pending' = 0 .. n - 1
  /\ UNCHANGED running

\* A thread number in use is never given to a second call.
Start(j, s) ==
  /\ mode = "busy"
  /\ j \in pending
  /\ \A r \in running : r[2] # s
  /\ pending' = pending \ {j}
  /\ running' = running \cup {<<j, s>>}
  /\ UNCHANGED mode

Finish(r) ==
  /\ running' = running \ {r}
  /\ UNCHANGED <<mode, pending>>

Return ==
  /\ mode = "busy"
  /\ pending = {} /\ running = {}
  /\ mode' = "idle"
  /\ UNCHANGED <<pending, running>>

Close ==
  /\ mode = "idle"
  /\ mode' = "over"
  /\ UNCHANGED <<pending, running>>

Next ==
  \/ \E n \in 1 .. MaxJobs : Execute(n)
  \/ \E j \in pending, s \in 0 .. NbSlots - 1 : Start(j, s)
  \/ \E r \in running : Finish(r)
  \/ Return \/ Close

Spec == Init /\ [][Next]_vars

=============================================================================
