--------------------------- MODULE HevcWavefront ---------------------------
(***************************************************************************)
(* hls_decode_entry_wpp of libavcodec/hevcdec.c on the progress entries of *)
(* libavcodec/pthread_slice.c: the job of a row of CTBs stays two CTBs     *)
(* behind the row above, by counters that share thread_count mutexes and   *)
(* condition variables.  A row that fails stops the rows below it.         *)
(***************************************************************************)
EXTENDS CodecJobs

CONSTANT Ctbs     \* the CTBs of a row

ASSUME CtbsAssumption == Ctbs \in Nat \ {0, 1}

VARIABLES
  entries,     \* p->entries
  wppErr,      \* s->wpp_err
  cabacState,  \* the row that has saved s->cabac_state, shared by all rows
  decoded      \* the CTBs each row has decoded: how far its ctb_addr_ts is

hevcVars == <<entries, wppErr, cabacState, decoded>>

NoRow == -1

Shift == 2   \* SHIFT_CTB_WPP

NoProgress == [r \in Jobs |-> 0]

HevcInit ==
  entries = NoProgress /\ wppErr = FALSE /\ cabacState = NoRow /\ decoded = NoProgress

\* ff_alloc_entries, ff_reset_entries and hls_slice_data_wpp.
HevcReset ==
  entries' = NoProgress /\ wppErr' = FALSE /\ cabacState' = NoRow /\ decoded' = NoProgress

\* The condition variable a row reports to, and the one it waits on.
ReportsTo(r) == r % NbThreads
WaitsOn(r) == LET thread == r % NbThreads
              IN IF thread = 0 THEN NbThreads - 1 ELSE thread - 1

-----------------------------------------------------------------------------
(* ff_thread_report_progress2 and ff_thread_await_progress2 *)

\* The counter is raised and one thread that waits on it is woken, if any.
Report(t, n, place) ==
  LET asleep == {u \in Threads :
                   At(u, "asleep") /\ WaitsOn(row[u]) = ReportsTo(row[t])}
  IN /\ entries' = [entries EXCEPT ![row[t]] = @ + n]
     /\ \/ asleep = {} /\ Step(t, place)
        \/ \E u \in asleep : step' = [step EXCEPT ![t] = place, ![u] = "await"]

RowAboveReady(r) == r = 0 \/ entries[r - 1] - entries[r] >= Shift

HevcAwait(t) ==
  /\ At(t, "await")
  /\ Step(t, IF RowAboveReady(row[t]) THEN "decode" ELSE "asleep")
  /\ UNCHANGED <<codec, row, hevcVars>>

-----------------------------------------------------------------------------
(* hls_decode_entry_wpp *)

\* The data of a row after the first may be missing.
HevcBegin(t) ==
  /\ At(t, "begin")
  /\ row' = [row EXCEPT ![t] = Job(t)]
  /\ \/ Step(t, "await")
     \/ Job(t) > 0 /\ Job(t) \in Damaged /\ Step(t, "fail")
  /\ UNCHANGED <<codec, hevcVars>>

\* A row that has seen the error of another stops; a CTB may be damaged.
HevcDecode(t) ==
  /\ At(t, "decode")
  /\ IF wppErr
       THEN Step(t, "finish") /\ UNCHANGED hevcVars
     ELSE
       \/ row[t] \in Damaged /\ Step(t, "fail") /\ UNCHANGED hevcVars
       \/ /\ decoded' = [decoded EXCEPT ![row[t]] = @ + 1]
          /\ cabacState' = IF decoded'[row[t]] = 2 THEN row[t] ELSE cabacState
          /\ Step(t, "report")
          /\ UNCHANGED <<entries, wppErr>>
  /\ UNCHANGED <<codec, row>>

\* The data of a row may end early, which is an error but for the last row.
AfterCtb(r) ==
  IF decoded[r] = Ctbs THEN {"finish"}
  ELSE {"await"} \cup IF r \notin Damaged THEN {}
                      ELSE {IF r = nbJobs - 1 THEN "finish" ELSE "fail"}

HevcReport(t) ==
  /\ At(t, "report")
  /\ \E place \in AfterCtb(row[t]) : Report(t, 1, place)
  /\ UNCHANGED <<codec, row, wppErr, cabacState, decoded>>

\* Faulty: wpp_err is not set.
HevcFailSilently(t) ==
  /\ At(t, "fail")
  /\ Step(t, "finish")
  /\ UNCHANGED <<codec, row, hevcVars>>

HevcFail(t) ==
  /\ At(t, "fail")
  /\ wppErr' = TRUE
  /\ Step(t, "finish")
  /\ UNCHANGED <<codec, row, entries, cabacState, decoded>>

\* However a row ends, the row below must not wait for it any more.
HevcFinish(t) ==
  /\ At(t, "finish")
  /\ Report(t, Shift, "return")
  /\ UNCHANGED <<codec, row, wppErr, cabacState, decoded>>

HevcStep(t) ==
  HevcBegin(t) \/ HevcAwait(t) \/ HevcDecode(t) \/ HevcReport(t) \/ HevcFail(t)
    \/ HevcFinish(t)

-----------------------------------------------------------------------------

\* A row about to decode a CTB that it will not give up.
Decodes(t) == codec = "hevc" /\ At(t, "decode") /\ ~wppErr /\ row[t] > 0

(***************************************************************************)
(* A CTB is decoded only when the CTB above it and the one to the right of *)
(* that have been, by another thread, or the row above ends before: also   *)
(* when rows fail, which add to the entries what they have not decoded.    *)
(***************************************************************************)
RowsInWavefront ==
  \A t \in Threads : Decodes(t) =>
    decoded[row[t] - 1] >= Min2(decoded[row[t]] + 2, Ctbs)

(***************************************************************************)
(* The rows share one buffer for the state of the entropy decoder: the one *)
(* a row loads at its first CTB is that of the row above, not written yet  *)
(* by the row itself nor by one further up or down.                        *)
(***************************************************************************)
CabacStateFromAbove ==
  \A t \in Threads : Decodes(t) /\ decoded[row[t]] = 0 =>
    cabacState = row[t] - 1

=============================================================================
