------------------------------ MODULE Vp9Tiles ------------------------------
(***************************************************************************)
(* decode_tiles_mt and loopfilter_proc of libavcodec/vp9.c: each job is a  *)
(* column of tiles, and the caller filters a row of superblocks as soon as *)
(* all columns have decoded it.                                            *)
(***************************************************************************)
EXTENDS CodecJobs

CONSTANT SbRows    \* the rows of superblocks of a frame

ASSUME SbRowsAssumption == SbRows \in Nat \ {0}

VARIABLE tileEntries    \* s->entries

\* vp9_decode_frame, before it executes the jobs.
Vp9Cleared == [r \in 0 .. SbRows - 1 |-> 0]

\* The next row, unless it was the last.
NextRow(t, place) ==
  /\ row' = [row EXCEPT ![t] = @ + 1]
  /\ Step(t, IF row[t] + 1 < SbRows THEN place ELSE "return")

-----------------------------------------------------------------------------
(* decode_tiles_mt *)

\* A row of superblocks of a tile; its bottom is kept for the next row.
DecodeTile(t) ==
  /\ At(t, "begin") /\ t # Main
  /\ Step(t, "report")
  /\ UNCHANGED <<codec, row, tileEntries>>

\* vp9_report_tile_progress: only Main waits.
ReportTile(t) ==
  /\ At(t, "report")
  /\ tileEntries' = [tileEntries EXCEPT ![row[t]] = @ + 1]
  /\ row' = [row EXCEPT ![t] = @ + 1]
  /\ step' = [step EXCEPT ![t] = IF row[t] + 1 < SbRows THEN "begin" ELSE "return",
                          ![Main] = IF At(Main, "asleep") THEN "lock" ELSE @]
  /\ UNCHANGED codec

-----------------------------------------------------------------------------
(* loopfilter_proc *)

\* vp9_await_tile_progress first looks without the mutex.
LookAtTiles ==
  /\ At(Main, "begin")
  /\ Step(Main, IF tileEntries[row[Main]] >= nbJobs THEN "filter" ELSE "lock")
  /\ UNCHANGED <<codec, row, tileEntries>>

AwaitTiles ==
  /\ At(Main, "lock")
  /\ Step(Main, IF tileEntries[row[Main]] = nbJobs THEN "filter" ELSE "asleep")
  /\ UNCHANGED <<codec, row, tileEntries>>

FilterTiles ==
  /\ At(Main, "filter")
  /\ NextRow(Main, "begin")
  /\ UNCHANGED <<codec, tileEntries>>

Vp9Step(t) ==
  \/ DecodeTile(t) \/ ReportTile(t)
  \/ t = Main /\ (LookAtTiles \/ AwaitTiles \/ FilterTiles)

-----------------------------------------------------------------------------

(***************************************************************************)
(* A row is filtered only when every column of tiles has decoded it and    *)
(* kept its unfiltered bottom: the counts belong to this frame.            *)
(***************************************************************************)
FilterBehindTiles ==
  codec = "vp9" /\ At(Main, "filter") =>
    \A j \in 0 .. nbJobs - 1 :
      /\ runs[j] = 1
      /\ \A t \in Workers : pc[t] = "job" /\ Job(t) = j => row[t] > row[Main]

=============================================================================
