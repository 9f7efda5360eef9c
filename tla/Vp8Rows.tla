------------------------------ MODULE Vp8Rows ------------------------------
(***************************************************************************)
(* vp8_decode_mb_row_sliced of libavcodec/vp8.c: job j decodes, and then   *)
(* filters, every num_jobs-th row of macroblocks.  It waits for the job of *)
(* the row above, and filters only what the job of the row below has read. *)
(* Each publishes its position in an atomic variable and looks, without a  *)
(* lock, whether its neighbours wait for one that it has reached.          *)
(***************************************************************************)
EXTENDS CodecJobs

CONSTANTS
  MbWidth,    \* s->mb_width
  MbHeight    \* s->mb_height

ASSUME MbAssumption == MbWidth \in Nat \ {0} /\ MbHeight \in Nat \ {0}

VARIABLES
  deblock,    \* s->deblock_filter
  mbPos,      \* td->thread_mb_pos of every job
  waitPos,    \* td->wait_mb_pos
  col,        \* mb_x of every thread, filtering counted on from MbWidth
  below       \* whether a thread checks the row below, or the one above

vp8Vars == <<deblock, mbPos, waitPos, col, below>>
checkVars == <<deblock, col, below>>

\* A row of a position in the high bits, a column in the low ones.
End == 2 * MbWidth + 4                   \* INT_MAX & 0xFFFF
Pos(y, x) == y * (End + 1) + x
Never == Pos(MbHeight, End) + 1          \* INT_MAX

AtTop == [j \in Jobs |-> 0]
NoneWaits == [j \in Jobs |-> Never]

Vp8Init ==
  /\ deblock = FALSE
  /\ mbPos = AtTop
  /\ waitPos = NoneWaits
  /\ col = [t \in Threads |-> 0]
  /\ below = [t \in Threads |-> FALSE]

\* What vp78_decode_frame sets before it executes the jobs.
Vp8Reset ==
  /\ deblock' \in BOOLEAN
  /\ mbPos' = AtTop
  /\ waitPos' = NoneWaits
  /\ UNCHANGED <<col, below>>

\* The jobs of the rows above and below; itself at the edges of the frame.
PrevJob(t) == IF row[t] = 0 THEN Job(t) ELSE (Job(t) + nbJobs - 1) % nbJobs
NextJob(t) == IF row[t] = MbHeight - 1 THEN Job(t) ELSE (Job(t) + 1) % nbJobs

Filters(t) == col[t] >= MbWidth
Checked(t) == IF below[t] THEN NextJob(t) ELSE PrevJob(t)

\* Job 0 has no filtered row below that it could disturb.
NothingToCheck(t) == Checked(t) = Job(t) \/ (below[t] /\ NextJob(t) = 0)

\* The position this thread waits for, behind the right edge at the last one.
Target(t) ==
  IF below[t] THEN Pos(row[t] + 1, col[t] - MbWidth + 1)
  ELSE Pos(row[t] - 1,
           IF Filters(t) THEN col[t] + 4
           ELSE IF local[t].nr # 0 THEN col[t] + 1
           ELSE col[t] + 1 + MbWidth + 3)

Reached(t) == mbPos[Checked(t)] >= Target(t)

\* check_thread_pos holds the lock of the job it checks in this place only.
LockFree(j) == \A u \in Threads : ~(At(u, "check") /\ Checked(u) = j)

\* Behind a check: a filter checks the row below too.
Pass(t) ==
  IF Filters(t) /\ ~below[t]
  THEN Step(t, "load") /\ below' = [below EXCEPT ![t] = TRUE]
  ELSE Step(t, "work") /\ UNCHANGED below

-----------------------------------------------------------------------------
(* The rows of a job *)

Vp8Begin(t) ==
  /\ At(t, "begin")
  /\ row' = [row EXCEPT ![t] = Job(t)]
  /\ Step(t, "row")
  /\ UNCHANGED <<codec, vp8Vars>>

BeginRow(t) ==
  /\ At(t, "row")
  /\ IF row[t] < MbHeight
       THEN Step(t, "load") /\ mbPos' = [mbPos EXCEPT ![Job(t)] = Pos(row[t], 0)]
       ELSE Step(t, "return") /\ UNCHANGED mbPos
  /\ col' = [col EXCEPT ![t] = 0]
  /\ below' = [below EXCEPT ![t] = FALSE]
  /\ UNCHANGED <<codec, row, deblock, waitPos>>

\* The partition of the row ends early: the job gives up all its rows.
DataMissing(t) ==
  /\ At(t, "load") /\ ~Filters(t) /\ Job(t) \in Damaged
  /\ row' = [row EXCEPT ![t] = MbHeight]
  /\ Step(t, "end")
  /\ UNCHANGED <<codec, vp8Vars>>

-----------------------------------------------------------------------------
(* check_thread_pos *)

CheckLoad(t) ==
  /\ At(t, "load")
  /\ IF NothingToCheck(t) \/ Reached(t) THEN Pass(t)
                                         ELSE Step(t, "lock") /\ UNCHANGED below
  /\ UNCHANGED <<codec, row, deblock, mbPos, waitPos, col>>

CheckLock(t) ==
  /\ At(t, "lock") /\ LockFree(Checked(t))
  /\ waitPos' = [waitPos EXCEPT ![Job(t)] = Target(t)]
  /\ Step(t, "check")
  /\ UNCHANGED <<codec, row, checkVars, mbPos>>

CheckPos(t) ==
  /\ At(t, "check")
  /\ IF Reached(t)
       THEN Pass(t) /\ waitPos' = [waitPos EXCEPT ![Job(t)] = Never]
       ELSE Step(t, "asleep") /\ UNCHANGED <<below, waitPos>>
  /\ UNCHANGED <<codec, row, deblock, mbPos, col>>

\* pthread_cond_wait takes the lock again.
CheckRelock(t) ==
  /\ At(t, "relock") /\ LockFree(Checked(t))
  /\ Step(t, "check")
  /\ UNCHANGED <<codec, row, vp8Vars>>

-----------------------------------------------------------------------------
(* update_pos *)

\* pos_check, loaded before the position is stored.
Position(t) ==
  IF At(t, "end") THEN Pos(row[t], End)
  ELSE Pos(row[t], IF Filters(t) THEN col[t] + 3 ELSE col[t])

NeighbourWaits(t) ==
  \E j \in {PrevJob(t), NextJob(t)} \ {Job(t)} : Position(t) >= waitPos[j]

\* The macroblock has been decoded, or filtered.
LookForWaits(t) ==
  /\ At(t, "work")
  /\ Step(t, IF NeighbourWaits(t) THEN "announce" ELSE "quiet")
  /\ UNCHANGED <<codec, row, vp8Vars>>

Store(t) == mbPos' = [mbPos EXCEPT ![Job(t)] = Position(t)]

\* The broadcast of update_pos, to those that check the job of t.
Broadcast(t, place) ==
  /\ LockFree(Job(t))
  /\ step' = [u \in Threads |->
                IF u = t THEN place
                ELSE IF At(u, "asleep") /\ Checked(u) = Job(t) THEN "relock"
                ELSE step[u]]

\* The next macroblock, the first one to filter, or the end of the row.
NextMb(t) ==
  /\ col' = [col EXCEPT ![t] = @ + 1]
  /\ below' = [below EXCEPT ![t] = FALSE]

AfterMb(t) ==
  IF col[t] + 1 = 2 * MbWidth \/ (col[t] + 1 = MbWidth /\ ~deblock)
  THEN "end" ELSE "load"

PublishQuietly(t) ==
  /\ At(t, "quiet")
  /\ Store(t) /\ Step(t, AfterMb(t)) /\ NextMb(t)
  /\ UNCHANGED <<codec, row, deblock, waitPos>>

Publish(t) ==
  /\ At(t, "announce")
  /\ Store(t) /\ Step(t, "wake")
  /\ UNCHANGED <<codec, row, checkVars, waitPos>>

Wake(t) ==
  /\ At(t, "wake")
  /\ Broadcast(t, AfterMb(t)) /\ NextMb(t)
  /\ UNCHANGED <<codec, row, deblock, mbPos, waitPos>>

\* Faulty: nobody is woken at the end of a row.
EndRowSilently(t) ==
  /\ At(t, "end")
  /\ Store(t) /\ Step(t, "row")
  /\ row' = [row EXCEPT ![t] = @ + nbJobs]
  /\ UNCHANGED <<codec, checkVars, waitPos>>

\* Without neighbours to look at update_pos always broadcasts.
EndRow(t) ==
  /\ At(t, "end")
  /\ Store(t) /\ Step(t, "wakeAll")
  /\ UNCHANGED <<codec, row, checkVars, waitPos>>

WakeAll(t) ==
  /\ At(t, "wakeAll")
  /\ Broadcast(t, "row")
  /\ row' = [row EXCEPT ![t] = @ + nbJobs]
  /\ UNCHANGED <<codec, vp8Vars>>

Check(t) == CheckLoad(t) \/ CheckLock(t) \/ CheckPos(t) \/ CheckRelock(t)

Update(t) ==
  LookForWaits(t) \/ PublishQuietly(t) \/ Publish(t) \/ Wake(t) \/ EndRow(t)
    \/ WakeAll(t)

Vp8Step(t) ==
  Vp8Begin(t) \/ BeginRow(t) \/ DataMissing(t) \/ Check(t) \/ Update(t)

-----------------------------------------------------------------------------

\* How many macroblocks of row y thread t has decoded and then filtered: col is still
\* that of the row before when a row begins.
Within(t, y) ==
  IF step[t] = "begin" \/ row[t] < y THEN 0
  ELSE IF row[t] > y \/ step[t] \in {"end", "wakeAll"} THEN 2 * MbWidth
  ELSE IF step[t] = "row" THEN 0
  ELSE IF step[t] \in {"quiet", "announce", "wake"} THEN col[t] + 1 ELSE col[t]

\* How many have been; a job that has returned, or gave up, keeps nobody waiting.
Progress(y) ==
  LET inJob == {t \in Threads : InFunc(t) /\ Job(t) = y % nbJobs}
  IN IF inJob # {} THEN Within(CHOOSE t \in inJob : TRUE, y)
     ELSE IF runs[y % nbJobs] = 1 THEN 2 * MbWidth ELSE 0

(***************************************************************************)
(* A macroblock is decoded when those above and above to the right have    *)
(* been, and by job 0 when they have been filtered as well; it is filtered *)
(* when those have been filtered, and those below and below to the right,  *)
(* which are predicted from its unfiltered pixels, have been decoded.      *)
(***************************************************************************)
MacroblocksInOrder ==
  \A t \in Threads : codec = "vp8" /\ At(t, "work") =>
    LET x == IF Filters(t) THEN col[t] - MbWidth ELSE col[t]
        right == Min2(x + 2, MbWidth)
    IN /\ row[t] > 0 =>
            Progress(row[t] - 1) >=
              IF Filters(t) \/ Job(t) = 0 THEN MbWidth + right ELSE right
       /\ Filters(t) /\ row[t] < MbHeight - 1 /\ NextJob(t) # 0 =>
            Progress(row[t] + 1) >= right

=============================================================================
