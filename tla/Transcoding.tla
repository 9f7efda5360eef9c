----------------------------- MODULE Transcoding -----------------------------
(***************************************************************************)
(* fftools/ffmpeg.c: transcode, that is OutputScheduling with the input of *)
(* InputThreads.  File 1 is read as InputThreads says; of the other files  *)
(* only the answers of get_input_packet are modelled.                      *)
(***************************************************************************)
EXTENDS InputThreads, OutputScheduling

CONSTANT MaxPackets       \* bound: the packets of each of the other files

ASSUME TranscodingAssumption == 1 \in Files /\ MaxPackets \in Nat

VARIABLE left             \* the packets to come from the other files

inputVars == vars
transcodeVars == <<schedulingVars, left>>
allVars == <<inputVars, transcodeVars>>

FilesUsed == {topology.file[s] : s \in Streams}

-----------------------------------------------------------------------------

InitThreads == InitInput /\ UNCHANGED transcodeVars

Schedule == main = "loop" /\ TranscodeStep /\ UNCHANGED <<inputVars, left>>

\* process_input for file 1.
BeginInput == Reading(1) /\ ProcessInput /\ UNCHANGED transcodeVars

AskReader == Receive /\ UNCHANGED transcodeVars

\* What the scheduling makes of an answer.
Answered ==
  CASE got' # got                        -> InputPacket(1)
    [] got' = got /\ main' = "loop"      -> InputAgain(1)
    [] OTHER                             -> UNCHANGED schedulingVars

ReaderAnswers == InReceive /\ Answered /\ UNCHANGED left

DemuxerAnswers == ReadDirectly /\ Answered /\ UNCHANGED left

LoopInput ==
  /\ Seek
  /\ IF main' = "second" THEN SeekToStart(1) ELSE UNCHANGED schedulingVars
  /\ UNCHANGED left

EndInput == Finish /\ InputEnd(1) /\ eofReached' = file'[1].eof /\ UNCHANGED left

OtherAgain(f) == InputAgain(f) /\ UNCHANGED <<inputVars, left>>

OtherAnswers(f) ==
  /\ \/ left[f] > 0 /\ InputPacket(f) /\ left' = [left EXCEPT ![f] = @ - 1]
     \/ InputEnd(f) /\ left' = [left EXCEPT ![f] = 0]
  /\ UNCHANGED inputVars

\* free_input_threads begins when the loop is left.
Leave == Stop /\ LeaveLoop /\ UNCHANGED left
LeaveEarly == Stop /\ Interrupt /\ UNCHANGED left

FreeThreads == (Drain \/ InDrain \/ Join) /\ UNCHANGED transcodeVars

Flush ==
  /\ main = "freed" /\ (FlushDecoders \/ FlushEncoders)
  /\ UNCHANGED <<inputVars, left>>

ReaderRuns == ~of.exited /\ ReadStep /\ UNCHANGED transcodeVars

Wakeup == SpuriousWakeup /\ UNCHANGED transcodeVars

\* No thread could be created.
NotStarted == main = "freed" /\ phase = "step"

Finished == (Ended \/ NotStarted) /\ UNCHANGED allVars

-----------------------------------------------------------------------------

TranscodingInit ==
  /\ Init
  /\ TranscodeInit
  /\ nbInputFiles = Cardinality(FilesUsed)
  /\ left = [f \in Files |-> MaxPackets]

MainRuns ==
  \/ InitThreads \/ Schedule \/ BeginInput \/ AskReader \/ ReaderAnswers
  \/ DemuxerAnswers \/ LoopInput \/ EndInput
  \/ \E f \in Files \ {1} : OtherAgain(f) \/ OtherAnswers(f)
  \/ Leave \/ FreeThreads \/ Flush

TranscodingNext == MainRuns \/ LeaveEarly \/ ReaderRuns \/ Wakeup \/ Finished

TranscodingSpec == TranscodingInit /\ [][TranscodingNext]_allVars

\* Whether an answer of a file is a packet or an end.
DemuxerHas == main \in Attempts /\ ~Threaded /\ (got' # got \/ main' # "loop")
OtherHas(f) ==
  Reading(f) /\ (left' # left \/ decoder' # decoder \/ file'[f].eof)

(***************************************************************************)
(* Both threads run.  A file that is asked again and again has a packet or *)
(* an end at last; a file with a thread has it when its thread runs.       *)
(***************************************************************************)
FairTranscoding ==
  /\ TranscodingSpec
  /\ WF_allVars(MainRuns) /\ WF_allVars(ReaderRuns)
  /\ []<>(main \in Attempts /\ ~Threaded) => []<><<DemuxerHas>>_allVars
  /\ \A f \in Files \ {1} : []<>Reading(f) => []<><<OtherHas(f)>>_allVars

(* The types of the variables of both parts. *)
TranscodingTypeOK == TypeOK /\ SchedulingTypeOK

(***************************************************************************)
(* Transcoding ends: no stream waits for another for ever.  If it does not *)
(* end, it chooses for ever the output of a graph that cannot be           *)
(* configured, and nothing else.                                           *)
(***************************************************************************)
Ends == <>(Ended \/ NotStarted) \/ <>[]Starved

=============================================================================
