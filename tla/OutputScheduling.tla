-------------------------- MODULE OutputScheduling --------------------------
(***************************************************************************)
(* fftools/ffmpeg.c: the loop of transcode, which decides for which output *)
(* stream it reads which input file, and the way of a packet from there:   *)
(* decoder, filter graph, encoder, muxing queue, muxer.  It is one thread. *)
(*                                                                         *)
(* There is one output file.  Each filter graph has one output and makes   *)
(* one frame of one frame of each input; an input that has ended no longer *)
(* counts.  Formats do not change, and encoders count packets like those   *)
(* of audio.  A file is read by InputPacket, InputAgain and InputEnd;      *)
(* Transcoding says when.                                                  *)
(***************************************************************************)
EXTENDS Integers, Sequences, SequencesExt, FiniteSetsExt

CONSTANTS
  Files,          \* input files
  Topologies,     \* what is made of what, see below
  MaxQueued,      \* ost->max_muxing_queue_size, in packets
  DecoderDelay,   \* the frames a decoder may keep
  EncoderDelay,   \* the frames an encoder keeps
  NoOutput        \* NULL

\* Streams and outputs are numbered in their order in input_streams and
\* output_streams.
Topology ==
  [file    : Seq(Files),             \* of every input stream
   sources : Seq(SUBSET (Nat \ {0})), \* of every output stream
   copied  : SUBSET (Nat \ {0}),     \* the outputs that are not encoded
   known   : SUBSET (Nat \ {0}),     \* the streams with a format in codecpar
   limit   : Nat \ {0},              \* ost->max_frames
   breakAt : Nat]                    \* the packet that the muxer fails to write

ASSUME SchedulingAssumption ==
  /\ MaxQueued \in Nat \ {0} /\ DecoderDelay \in Nat /\ EncoderDelay \in Nat
  /\ Topologies \subseteq Topology
  /\ \A t \in Topologies :
       /\ \A o \in DOMAIN t.sources :
            t.sources[o] # {} /\ t.sources[o] \subseteq DOMAIN t.file
       /\ \A o \in t.copied : Cardinality(t.sources[o]) = 1

VARIABLES
  topology,
  phase,      \* where transcode is
  chosen,     \* ost of transcode_step
  wanted,     \* ist of transcode_step
  file,       \* eagain and eof_reached of every input file
  decoder,    \* the decoder of every input stream
  graph,      \* the filter graph of every output stream that has one
  of,         \* the output file with its streams
  stopped     \* whether the loop was left early (history)

schedulingVars == <<topology, phase, chosen, wanted, file, decoder, graph, of, stopped>>

Streams == DOMAIN topology.file
Outputs == DOMAIN topology.sources
Sources(o) == topology.sources[o]
Filtered == Outputs \ topology.copied
Needed == UNION {Sources(o) : o \in Filtered}     \* ist->decoding_needed
StreamsOf(f) == {s \in Streams : topology.file[s] = f}

-----------------------------------------------------------------------------
(* Writing: operators that map the output file to its next state *)

\* av_interleaved_write_frame; an error closes the stream for good, and the
\* encoders of all others.
InterleavedWrite(F, o, p) ==
  IF F.calls + 1 = topology.breakAt
  THEN [F EXCEPT !.calls = @ + 1,
                 !.ost = [q \in Outputs |-> [F.ost[q] EXCEPT !.finished =
                   @ \cup (IF q = o THEN {"encoder", "muxer"} ELSE {"encoder"})]]]
  ELSE [F EXCEPT !.calls = @ + 1, !.ost[o].written = Append(@, p)]

\* Faulty: one packet more than asked for.
LimitPassed(F, o) == F.ost[o].frameNumber > topology.limit

LimitReached(F, o) == F.ost[o].frameNumber >= topology.limit

\* write_packet of the next packet of a stream.
WritePacket(F, o) ==
  LET p == F.ost[o].made + 1
      G == [F EXCEPT !.ost[o].made = p]
      H == [G EXCEPT !.ost[o].frameNumber = @ + 1]
  IN CASE LimitReached(F, o) -> G
       [] ~LimitReached(F, o) /\ F.headerWritten ->
            InterleavedWrite(H, o, p)
       [] OTHER -> IF Len(F.ost[o].queue) >= MaxQueued
                   THEN [H EXCEPT !.exited = TRUE]
                   ELSE [H EXCEPT !.ost[o].queue = Append(@, p)]

\* write_packet of all packets in the muxing queue of a stream.
Unqueue(F, o) ==
  FoldLeft(LAMBDA G, p :
             InterleavedWrite([G EXCEPT !.ost[o].queue = Tail(@)], o, p),
           F, F.ost[o].queue)

\* Faulty: only the queue of the stream itself is emptied.
InitOutputStreamOwn(F, o) ==
  LET G == [F EXCEPT !.ost[o].initialized = TRUE]
  IN IF \A q \in Outputs : G.ost[q].initialized
     THEN Unqueue([G EXCEPT !.headerWritten = TRUE], o)
     ELSE G

\* init_output_stream: the last stream opens the muxer and empties the queues.
InitOutputStream(F, o) ==
  LET G == [F EXCEPT !.ost[o].initialized = TRUE]
  IN IF \A q \in Outputs : G.ost[q].initialized
     THEN FoldLeft(Unqueue, [G EXCEPT !.headerWritten = TRUE],
                   [q \in Outputs |-> q])
     ELSE G

FinishOutputs(F, O) ==
  [F EXCEPT !.ost = [o \in Outputs |->
     IF o \in O THEN [F.ost[o] EXCEPT !.finished = {"encoder", "muxer"}]
                ELSE F.ost[o]]]

CloseOutputs(F, O) ==
  [F EXCEPT !.ost = [o \in Outputs |->
     IF o \in O THEN [F.ost[o] EXCEPT !.finished = @ \cup {"encoder"}]
                ELSE F.ost[o]]]

\* do_audio_out: a packet comes out when the encoder has enough frames.
Encode(F, o) ==
  LET G == [F EXCEPT !.ost[o].encoded = @ + 1]
  IN IF G.ost[o].encoded > EncoderDelay THEN WritePacket(G, o) ELSE G

\* What is in the encoder, when it is told that there is no more.
Delayed(F, o) ==
  LET n == F.ost[o].encoded
  IN IF n < EncoderDelay THEN n ELSE EncoderDelay

\* reap_filters for one stream, with n frames in its buffer sink.
Reap(F, o, n) ==
  LET G == IF F.ost[o].initialized THEN F ELSE InitOutputStream(F, o)
  IN FoldLeft(LAMBDA H, i : IF H.ost[o].finished # {} THEN H ELSE Encode(H, o),
              G, [i \in 1 .. n |-> i])

-----------------------------------------------------------------------------
(* Filter graphs: operators that map one to its next state *)

\* configure_filtergraph sends the graph what has been queued for it.
Configure(g) ==
  [g EXCEPT !.configured = TRUE, !.inside = g.queued,
            !.queued = [s \in DOMAIN g.queued |-> 0]]

HasAllFormats(g) == g.formats = DOMAIN g.queued

\* ifilter_send_frame.
SendFrame(g, s) ==
  LET h == [g EXCEPT !.formats = @ \cup {s}]
  IN CASE g.configured -> [h EXCEPT !.inside[s] = @ + 1]
       [] ~g.configured /\ HasAllFormats(h) ->
            [Configure(h) EXCEPT !.inside[s] = @ + 1]
       [] OTHER -> [h EXCEPT !.queued[s] = @ + 1]

\* send_frame_to_filters.
SendToFilters(G, s) ==
  [o \in Filtered |-> IF s \in Sources(o) THEN SendFrame(G[o], s) ELSE G[o]]

\* send_filter_eof.
SendEof(G, S) ==
  [o \in Filtered |-> [G[o] EXCEPT !.eof = @ \cup (S \cap Sources(o))]]

\* The graphs whose inputs have all ended before it could be configured.
NeverConfigured(G) ==
  {o \in Filtered : ~G[o].configured /\ G[o].eof = Sources(o)}

\* The frames that a graph can make of what it has.
Ready(g) ==
  LET open == DOMAIN g.inside \ g.eof
  IN IF ~g.configured THEN 0
     ELSE IF open = {} THEN Max({g.inside[s] : s \in DOMAIN g.inside})
                       ELSE Min({g.inside[s] : s \in open})

Take(g, n) ==
  [g EXCEPT !.inside = [s \in DOMAIN @ |-> Max({0, @[s] - n})]]

\* reap_filters: what has got to the buffer sinks is encoded, at least so
\* many frames of each; then some streams are closed.
ReapFilters(F, G, least, closing) ==
  \E taken \in [Filtered -> 0 .. Max({0} \cup {Ready(G[o]) : o \in Filtered})] :
    /\ \A o \in Filtered : taken[o] >= least[o] /\ taken[o] <= Ready(G[o])
    /\ graph' = [o \in Filtered |-> Take(G[o], taken[o])]
    /\ of' = CloseOutputs(FoldLeft(LAMBDA H, o :
                              IF o \in Filtered /\ G[o].configured
                              THEN Reap(H, o, taken[o]) ELSE H,
                            F, [o \in Outputs |-> o]),
                   closing)

AtLeast(o, n) == [q \in Filtered |-> IF q = o THEN n ELSE 0]
None == [q \in Filtered |-> 0]

-----------------------------------------------------------------------------
(* transcode_step up to process_input *)

Again(F, O) ==
  [F EXCEPT !.ost = [o \in Outputs |->
     IF o \in O THEN [F.ost[o] EXCEPT !.unavailable = TRUE] ELSE F.ost[o]]]

\* reset_eagain.
Available(F) ==
  [F EXCEPT !.ost = [o \in Outputs |-> [F.ost[o] EXCEPT !.unavailable = FALSE]]]
NoneAgain == [f \in Files |-> [file[f] EXCEPT !.eagain = FALSE]]

Open == {o \in Outputs : of.ost[o].finished = {}}

\* need_output.
NeedOutput == Open # {} /\ ~LimitReached(of, Min(Open))

\* ost->st->cur_dts, before that of every packet when there is none.
CurDts(o) == IF of.ost[o].written = <<>> THEN 0 ELSE Last(of.ost[o].written)

New == {o \in Outputs : ~of.ost[o].initialized /\ ~of.ost[o].inputsDone}

\* Faulty: a stream whose input has nothing is passed over.
ChooseOutputOther ==
  LET able == {o \in Open : ~of.ost[o].unavailable}
      last == {o \in able : \A q \in able : CurDts(o) <= CurDts(q)}
  IN IF New # {} THEN Min(New) ELSE IF able = {} THEN NoOutput ELSE Min(last)

\* choose_output: the stream that is furthest behind, even if that means to
\* wait for it.
ChooseOutput ==
  LET last == {o \in Open : \A q \in Open : CurDts(o) <= CurDts(q)}
  IN CASE New # {} -> Min(New)
       [] New = {} /\ last # {} /\ ~of.ost[Min(last)].unavailable -> Min(last)
       [] OTHER -> NoOutput

\* The output stream of this step, as a set.
Choice ==
  IF phase = "step" /\ ~of.exited /\ NeedOutput THEN {ChooseOutput} ELSE {}

ReadFor(o, s) == chosen' = o /\ wanted' = s /\ phase' = "read"

\* Nothing to do until some input has something.
Sleep ==
  /\ NoOutput \in Choice
  /\ file' = NoneAgain
  /\ of' = Available(of)
  /\ UNCHANGED <<topology, phase, chosen, wanted, decoder, graph, stopped>>

CopyInput ==
  \E o \in Choice \cap topology.copied :
    /\ ReadFor(o, Min(Sources(o)))
    /\ UNCHANGED <<topology, file, decoder, graph, of, stopped>>

\* A graph that is not configured yet needs a frame of every input.
FindInput ==
  \E o \in Choice \cap Filtered :
    LET missing == {s \in Sources(o) :
                      ~decoder[s].gotOutput /\ ~file[topology.file[s]].eof}
    IN /\ ~graph[o].configured
       /\ IF missing = {}
          THEN of' = [of EXCEPT !.ost[o].inputsDone = TRUE]
               /\ UNCHANGED <<chosen, wanted, phase>>
          ELSE ReadFor(o, Min(missing)) /\ UNCHANGED of
       /\ UNCHANGED <<topology, file, decoder, graph, stopped>>

\* transcode_from_filter begins; the stream has been initialised by then.
Requested == {o \in Choice \cap Filtered : graph[o].configured}
Initialised(o) ==
  IF of.ost[o].initialized THEN of ELSE InitOutputStream(of, o)

GraphGivesFrame ==
  \E o \in Requested :
    /\ Ready(graph[o]) > 0
    /\ ReapFilters(Initialised(o), graph, AtLeast(o, 1), {})
    /\ UNCHANGED <<topology, phase, chosen, wanted, file, decoder, stopped>>

\* Faulty: the stream is not closed.
GraphEndsOnly ==
  \E o \in Requested :
    /\ Ready(graph[o]) = 0 /\ graph[o].eof = Sources(o)
    /\ ReapFilters(Initialised(o), graph, None, {})
    /\ UNCHANGED <<topology, phase, chosen, wanted, file, decoder, stopped>>

GraphEnds ==
  \E o \in Requested :
    /\ Ready(graph[o]) = 0 /\ graph[o].eof = Sources(o)
    /\ ReapFilters(Initialised(o), graph, None, {o})
    /\ UNCHANGED <<topology, phase, chosen, wanted, file, decoder, stopped>>

\* An input that the graph has asked in vain is read, if its file has not
\* just answered that it has nothing.
GraphStarves ==
  \E o \in Requested :
    LET starving == {s \in Sources(o) \ graph[o].eof : graph[o].inside[s] = 0}
        best == {s \in starving : ~file[topology.file[s]].eagain
                                  /\ ~file[topology.file[s]].eof}
    IN /\ Ready(graph[o]) = 0 /\ starving # {}
       /\ IF best = {}
          THEN of' = Again(Initialised(o), {o}) /\ UNCHANGED <<chosen, wanted, phase>>
          ELSE of' = Initialised(o) /\ \E s \in best : ReadFor(o, s)
       /\ UNCHANGED <<topology, file, decoder, graph, stopped>>

-----------------------------------------------------------------------------
(* process_input, by what get_input_packet returns, and seek_to_start *)

Reading(f) == phase = "read" /\ ~of.exited /\ topology.file[wanted] = f

\* The next state of the decoder of s: it keeps so many frames, and has given
\* out one or none.
Decoded(D, s, kept, n) ==
  [D EXCEPT ![s].kept = kept, ![s].frames = @ + n, ![s].gotOutput = @ \/ n > 0]

InputAgain(f) ==
  /\ Reading(f)
  /\ file' = [file EXCEPT ![f].eagain = TRUE]
  /\ of' = Again(of, {chosen})
  /\ phase' = "step"
  /\ UNCHANGED <<topology, chosen, wanted, decoder, graph, stopped>>

\* The streams that are copied from stream s.
CopyPacket(F, s) ==
  FoldLeft(LAMBDA G, o :
             IF o \in topology.copied /\ s \in Sources(o) /\ G.ost[o].finished = {}
             THEN WritePacket(G, o) ELSE G,
           F, [o \in Outputs |-> o])

\* Stream s decodes n frames, one after the other.
FramesToFilters(G, s, n) ==
  FoldLeft(LAMBDA H, i : SendToFilters(H, s), G, [i \in 1 .. n |-> i])

\* A packet completes a frame, and the decoder gives any of those it has; a damaged one
\* yields none.
InputPacket(f) ==
  /\ Reading(f)
  /\ \E s \in StreamsOf(f) :
     LET D == decoder[s]
         F == CopyPacket(Available(of), s)
     IN \/ UNCHANGED decoder /\ ReapFilters(F, graph, None, {})
        \/ \E n \in 0 .. D.kept + 1 :
             /\ s \in Needed /\ D.kept + 1 - n <= DecoderDelay
             /\ decoder' = Decoded(decoder, s, D.kept + 1 - n, n)
             /\ ReapFilters(F, FramesToFilters(graph, s, n), None, {})
  /\ file' = NoneAgain
  /\ phase' = "step"
  /\ UNCHANGED <<topology, chosen, wanted, stopped>>

\* The streams before the first whose decoder still has a frame have ended.
InputEnd(f) ==
  LET full  == {s \in StreamsOf(f) : decoder[s].kept > 0}
      ended == {s \in StreamsOf(f) : \A r \in full : s < r}
      G == SendEof(graph, ended)
      F == FinishOutputs(of, NeverConfigured(G)
                      \cup {o \in topology.copied : Sources(o) \subseteq ended})
  IN /\ Reading(f)
     /\ IF full # {}
        THEN /\ decoder' = Decoded(decoder, Min(full), decoder[Min(full)].kept - 1, 1)
             /\ ReapFilters(F, SendToFilters(G, Min(full)), None, {})
             /\ UNCHANGED file
        ELSE /\ file' = [file EXCEPT ![f].eof = TRUE]
             /\ graph' = G
             /\ of' = IF file[f].eagain THEN Again(F, {chosen}) ELSE F
             /\ UNCHANGED decoder
     /\ phase' = "step"
     /\ UNCHANGED <<topology, chosen, wanted, stopped>>

\* The frames of seek_to_start and of the end of transcode: one of each of
\* the decoders in S that has any.
DrainOnce(S) ==
  LET full == {s \in S : decoder[s].kept > 0}
  IN FoldSet(LAMBDA s, G : SendToFilters(G, s), graph, full)
DrainedOnce(S, flush) ==
  [s \in Streams |->
     IF s \notin S \/ decoder[s].kept = 0 THEN decoder[s]
     ELSE Decoded(decoder, s, IF flush THEN 0 ELSE decoder[s].kept - 1, 1)[s]]

\* seek_to_start: decoders are drained of one frame and flushed.
SeekToStart(f) ==
  /\ Reading(f)
  /\ graph' = DrainOnce(StreamsOf(f))
  /\ decoder' = DrainedOnce(StreamsOf(f), TRUE)
  /\ UNCHANGED <<topology, phase, chosen, wanted, file, of, stopped>>

-----------------------------------------------------------------------------
(* transcode after its loop *)

LeaveLoop ==
  /\ phase = "step" /\ ~of.exited /\ ~NeedOutput
  /\ of' = IF Open = {} THEN of ELSE CloseOutputs(of, Outputs)
  /\ phase' = "decoders"
  /\ UNCHANGED <<topology, chosen, wanted, file, decoder, graph, stopped>>

\* A signal, or the key 'q'.
Interrupt ==
  /\ phase = "step" /\ ~of.exited
  /\ stopped' = TRUE
  /\ phase' = "decoders"
  /\ UNCHANGED <<topology, chosen, wanted, file, decoder, graph, of>>

FlushDecoders ==
  LET S == {s \in Needed : ~file[topology.file[s]].eof}
      G == SendEof(DrainOnce(S), {s \in S : decoder[s].kept = 0})
  IN /\ phase = "decoders"
     /\ decoder' = DrainedOnce(S, FALSE)
     /\ graph' = G
     /\ of' = FinishOutputs(of, NeverConfigured(G))
     /\ phase' = "encoders"
     /\ UNCHANGED <<topology, chosen, wanted, file, stopped>>

\* Faulty: a stream without frames is left as it is.
FlushEncoderStarted(F, o) ==
  IF ~F.ost[o].initialized \/ "muxer" \in F.ost[o].finished THEN F
  ELSE FoldLeft(LAMBDA G, i : WritePacket(G, o), F, [i \in 1 .. Delayed(F, o) |-> i])

\* A stream that never had a frame is initialised with a format from the
\* container, if that is known; else it stays as it is.
FlushEncoder(F, o) ==
  LET S == {s \in Sources(o) : s \notin graph[o].formats /\ s \notin topology.known}
      G == CASE F.ost[o].initialized -> F
             [] ~F.ost[o].initialized /\ graph[o].configured -> InitOutputStream(F, o)
             [] OTHER -> InitOutputStream(FinishOutputs(F, {o}), o)
  IN CASE ~F.ost[o].initialized /\ ~graph[o].configured /\ S # {} -> F
       [] OTHER -> FoldLeft(LAMBDA H, i :
                              IF "muxer" \in H.ost[o].finished THEN H
                              ELSE WritePacket(H, o),
                            G, [i \in 1 .. Delayed(F, o) |-> i])

\* flush_encoders.
FlushEncoders ==
  /\ phase = "encoders"
  /\ of' = FoldLeft(LAMBDA F, o : IF o \in Filtered THEN FlushEncoder(F, o) ELSE F,
                    of, [o \in Outputs |-> o])
  /\ phase' = "done"
  /\ UNCHANGED <<topology, chosen, wanted, file, decoder, graph, stopped>>

TranscodeStep ==
  \/ Sleep \/ CopyInput \/ FindInput \/ GraphGivesFrame \/ GraphEnds \/ GraphStarves

Ended == phase = "done" \/ of.exited

-----------------------------------------------------------------------------

\* Streams that are copied are initialised by transcode_init.
OutputStream(t, o) ==
  [initialized |-> o \in t.copied, inputsDone |-> FALSE, finished |-> {},
   unavailable |-> FALSE, frameNumber |-> 0, encoded |-> 0, made |-> 0,
   queue |-> <<>>, written |-> <<>>]

FilterGraph(t, o) ==
  [configured |-> FALSE, formats |-> {}, eof |-> {},
   queued |-> [s \in t.sources[o] |-> 0], inside |-> [s \in t.sources[o] |-> 0]]

TranscodeInit ==
  /\ topology \in Topologies
  /\ phase = "step" /\ chosen = NoOutput /\ wanted = 1 /\ stopped = FALSE
  /\ file = [f \in Files |-> [eagain |-> FALSE, eof |-> FALSE]]
  /\ decoder = [s \in DOMAIN topology.file |->
                  [kept |-> 0, frames |-> 0, gotOutput |-> FALSE]]
  /\ graph = [o \in DOMAIN topology.sources \ topology.copied |->
                FilterGraph(topology, o)]
  /\ of = [headerWritten |-> DOMAIN topology.sources = topology.copied,
           exited |-> FALSE, calls |-> 0,
           ost |-> [o \in DOMAIN topology.sources |-> OutputStream(topology, o)]]

(* The types of the variables. *)
SchedulingTypeOK ==
  /\ topology \in Topologies
  /\ phase \in {"step", "read", "decoders", "encoders", "done"}
  /\ chosen \in Outputs \cup {NoOutput} /\ wanted \in Streams
  /\ file \in [Files -> [eagain : BOOLEAN, eof : BOOLEAN]]
  /\ decoder \in [Streams -> [kept : 0 .. DecoderDelay, frames : Nat, gotOutput : BOOLEAN]]
  /\ \A o \in Filtered :
       graph[o] \in [configured : BOOLEAN, formats : SUBSET Sources(o),
                     eof : SUBSET Sources(o),
                     queued : [Sources(o) -> Nat], inside : [Sources(o) -> Nat]]
  /\ of.headerWritten \in BOOLEAN /\ of.exited \in BOOLEAN /\ of.calls \in Nat
  /\ \A o \in Outputs :
       of.ost[o] \in
         [initialized : BOOLEAN, inputsDone : BOOLEAN,
          finished : SUBSET {"encoder", "muxer"}, unavailable : BOOLEAN,
          frameNumber : 0 .. topology.limit, encoded : Nat, made : Nat,
          queue : Seq(Nat), written : Seq(Nat)]
  /\ stopped \in BOOLEAN

(***************************************************************************)
(* Every packet of a stream goes into the output file, in order and up to  *)
(* the number asked for, whether it was made before the header could be    *)
(* written or after.  The muxing queues are emptied once, with the header: *)
(* no packet gets into one afterwards, and none is forgotten in the queue  *)
(* of a stream other than the one that was initialised last.               *)
(***************************************************************************)
PacketsInOrder ==
  \A o \in Outputs :
    LET all == of.ost[o].written \o of.ost[o].queue
        n == Min({of.ost[o].made, topology.limit})
    IN /\ \A i, j \in DOMAIN all : i < j => all[i] < all[j]
       /\ topology.breakAt = 0 /\ ~of.exited => all = [i \in 1 .. n |-> i]
       /\ of.headerWritten => of.ost[o].queue = <<>>

(***************************************************************************)
(* When all input is used up every decoded frame has been encoded, also    *)
(* those that were decoded before the graph could be configured and those  *)
(* that were still in the decoder, the graph or the encoder at the end.    *)
(***************************************************************************)
FramesEncoded ==
  phase = "done" /\ ~stopped /\ ~of.exited /\ topology.breakAt = 0
    /\ (\A q \in Outputs : of.ost[q].frameNumber < topology.limit) =>
    \A o \in Filtered :
      LET frames == {decoder[s].frames : s \in Sources(o)}
      IN of.ost[o].made = IF 0 \in frames THEN 0 ELSE Max(frames)

(***************************************************************************)
(* The output streams advance together.  Of two that come from files of    *)
(* their own, none gets further ahead of the other, while both are open,   *)
(* than by the frames that one packet may give, although one of the files  *)
(* may answer late.                                                        *)
(***************************************************************************)
Balanced ==
  \A o, p \in Open :
    of.headerWritten /\ (\A q \in Outputs : Cardinality(Sources(q)) = 1)
      /\ (\A f \in Files : Cardinality(StreamsOf(f)) <= 1)
      /\ Sources(o) # Sources(p)
      => CurDts(o) <= CurDts(p) + DecoderDelay + 1

(***************************************************************************)
(* The comment of process_input says of a file that has ended: "this       *)
(* function should not be called again".                                   *)
(***************************************************************************)
EndedNotRead == phase = "read" => ~file[topology.file[wanted]].eof

(***************************************************************************)
(* What transcode_step reads next: the input of the stream that is         *)
(* furthest behind, and never one that has ended.                          *)
(***************************************************************************)
ReadsWhatIsDue == Balanced /\ EndedNotRead

(***************************************************************************)
(* An output file is left without a header, and so without any packet,     *)
(* only if the format of some input was never found out.                   *)
(***************************************************************************)
HeaderAtEnd ==
  phase = "done" =>
    \/ of.headerWritten
    \/ \E o \in Filtered : \E s \in Sources(o) :
         s \notin topology.known /\ decoder[s].frames = 0

(***************************************************************************)
(* At the end nothing is given up that could still be written: frames are  *)
(* flushed out of decoders, graphs and encoders, and streams without       *)
(* frames do not keep the header back.                                     *)
(***************************************************************************)
NothingGivenUp == FramesEncoded /\ HeaderAtEnd

(***************************************************************************)
(* The next output is one of a graph that is never configured: one of its  *)
(* inputs has ended without a frame, and another has a frame and is not    *)
(* read until the graph is configured.                                     *)
(***************************************************************************)
Starved ==
  \E o \in Choice \cap Filtered :
    /\ ~graph[o].configured /\ graph[o].eof # Sources(o)
    /\ \A s \in Sources(o) : decoder[s].gotOutput \/ s \in graph[o].eof

=============================================================================
