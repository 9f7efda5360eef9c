--------------------------- MODULE MCTranscoding ---------------------------
(***************************************************************************)
(* An instance of transcoding for TLC: what is made of what in a run.      *)
(***************************************************************************)
EXTENDS Transcoding

\* One file, which is copied and encoded.
OneFile ==
  [file |-> <<1, 1>>, sources |-> <<{1}, {2}>>, copied |-> {1}, known |-> {},
   limit |-> 20, breakAt |-> 0]

\* A stream of each of two files.
TwoFiles ==
  [file |-> <<1, 2>>, sources |-> <<{1}, {2}>>, copied |-> {1}, known |-> {2},
   limit |-> 20, breakAt |-> 0]

\* A graph with an input from each of two files, one of which is copied too.
TwoInputs ==
  [file |-> <<1, 2>>, sources |-> <<{1}, {1, 2}>>, copied |-> {1}, known |-> {1, 2},
   limit |-> 20, breakAt |-> 0]

All == {OneFile, TwoFiles, TwoInputs,
        [TwoFiles EXCEPT !.limit = 2, !.known = {1, 2}],
        [TwoFiles EXCEPT !.breakAt = 2]}

=============================================================================
