# Verification of the Plex New Transcoder

The repository is the source of Plex's transcoder: FFmpeg of early 2018
(`src/plex-ffmpeg-source/NewPlexTranscoder/`, written `$S` below) with Plex's own
changes.  Most of its 1.6 million lines are codecs and container formats, which
are sequential transformations of data.  What is hard to test is the machinery
around them: thread pools, queues between threads, the calls that cross them,
and the loops that schedule packets.  This project models that machinery in
TLA+, checks it with TLC and proves the parts that matter most with TLAPS.

All paths to code are below `$S`.

## 1. The system

    demuxer --> [reader thread per input] --> message queue --> main loop (transcode)
                                                                   |
         decoder <-- frame threads | slice threads <---------------+
            |                                                      |
            +--> filter graph --> encoder (frame threads) --> muxing queue
                                                                   |
                               muxer (interleaving) --> [fifo muxer thread] --> file

| Component | State | Operations | What is hard |
|---|---|---|---|
| Thread message queue, `libavutil/threadmessage.c` | FIFO, one error per end, one mutex, two condition variables | send, recv, set_err_send, set_err_recv, flush | any number of threads at both ends; a signal wakes one thread, which may find the slot taken; errors must not overtake messages |
| Slice thread pool, `libavutil/slicethread.c` | job counters (atomic), done flag, a mutex per worker, `finished` | create, execute, run_jobs, free | counters are written without a lock; who is last is computed; a worker may be woken before it sleeps; thread creation may fail |
| Slice threading of codecs, `libavcodec/pthread_slice.c` | the pool, progress entries of a wavefront | execute, report and await progress | waiting inside the jobs of a pool with fewer threads than jobs |
| Frame threading of decoders, `libavcodec/pthread_frame.c` | ring of workers, each with a state, a packet, a result, a copy of the codec context; hwaccel mutex, async lock, buffer mutex | decode, flush, init, free; of a decoder: get_format, get_buffer, finish_setup, await and report progress, release_buffer | a pipeline of dependent decodes; callbacks served by the client's thread; three locks; failing and half done submissions |
| Frame threading of encoders, `libavcodec/frame_thread_encoder.c` | task FIFO, ring of finished tasks | submit, worker, receive | reordering, a ring indexed modulo its size |
| Buffers and pools, `libavutil/buffer.c` | reference counts, pool list | ref, unref, make_writable, pool get, release, uninit | the last reference in any thread; a pool freed by its last buffer |
| Input threads, `fftools/ffmpeg.c` | per file: reader thread, queue, `eof_reached`, `loop`, the demuxer | input_thread, process_input, seek_to_start, free_input_threads | retry of a refused send; shutdown of a blocked reader; who uses the demuxer |
| Transcoding loop, `fftools/ffmpeg.c` | streams, filter inputs, muxing queues, EAGAIN and eof marks | choose_output, transcode_step, write_packet, finish | everyone waiting for everyone; bounded queues; header before packets |
| FIFO muxer, `libavformat/fifo.c` | message queue, overflow flag, recovery state | write_packet, writer thread, recovery | drop on overflow, retries with timeouts |
| Asynchronous protocol, `libavformat/async.c` | ring buffer with read-back, seek request | read, seek, background fill | a seek against a fill in progress |
| Send/receive API, `libavcodec/decode.c`, `encode.c` | draining flags, buffered packet and frame | send, receive, flush, the emulation of the old calls | long sequences of legal calls |
| Muxer interleaving, `libavformat/mux.c` | packet list by DTS | write_frame, interleave | sparse streams, max_interleave_delta |
| Segment, DASH, HLS, `libavformat/` | segment lists | cut, write list | mostly formatting and I/O |
| Filter graph, `libavfilter/avfilter.c`, `framesync.c` | link queues, status, ready priorities | filter_frame, request_frame, status | propagation of status in both directions |
| Plex integration, `fftools/plex.c` | progress report, pending subtitles | report, link subtitles | a subtitle for a graph that does not exist yet |
| External codecs, frame drop, `libavutil/extloader.c`, `libavcodec/framedrop_bsf.c` | none to speak of | dlopen walk, counter | sequential |

Interactions.  The message queue is used by the input threads and by the FIFO
muxer.  The slice pool is used by `pthread_slice.c`, by the filter graph and by
`vf_*` filters; the jobs that codecs run on it wait for each other.  Frame
threading calls the decoder, and the decoder calls back into frame threading; with
a client that is not thread-safe the client's callbacks are passed on to the thread
inside `avcodec_send_packet`.  The workers of frame threading of encoders share the
frames of the client through the reference counts of `buffer.c`.  The transcoding
loop decides which input is read, and what it reads decides what the loop can
choose next; the input threads run beside it.

What makes each component correct:

* queue: it is a bounded FIFO whose errors come after the messages, no call
  that can return stays asleep, no message is lost or duplicated;
* slice pool: a parallel loop: each job once, no thread number used twice at a
  time, execute returns exactly when all jobs have;
* frame threading: a pipeline: results in packet order, each once, with a
  bounded delay; contexts are handed over between setups; the hwaccel has one
  user at a time; every call returns;
* fifo muxer: packets in order and each once through every failure and restart,
  none lost unless losing them was asked for, one trailer to each header;
* input threads: packets in file order, none lost, the end behind them all, one
  user of the demuxer, a shutdown that ends;
* slice threading of codecs: each codec decodes in the order its prediction
  needs, a damaged row stops those that depend on it, no job waits for ever;
* frame threading of encoders: packets in frame order, each once, from frames as
  they were sent; buffers: freed with the last reference, the pool with its last
  user;
* asynchronous protocol: the client sees a plain seekable stream;
* transcoding loop: every packet of a stream gets into the file, in order and up
  to the limit, every decoded frame is encoded, the output streams advance
  together, the header is written if it can be, and the loop ends.

`PROJECT.json` lists every component with its status and every hazard at its
line; a hazard that no property covers has a note that says why.

## 2. Modules

| Module | Is | Code |
|---|---|---|
| `MessageChannel` | abstract: a bounded FIFO with closable ends, and calls that are pending until they can return | what `threadmessage.h` promises |
| `ThreadMessageQueue` | the queue, by threads in atomic segments | `libavutil/threadmessage.c` |
| `ThreadMessageQueueProofs` | theorems about it | |
| `ParallelFor` | abstract: a parallel loop | what `slicethread.h` promises |
| `SliceThread` | the pool | `libavutil/slicethread.c` |
| `SliceThreadProofs` | theorems about it, with any client | |
| `CodecJobs` | jobs on the pool; extends `SliceThread` | `libavcodec/pthread_slice.c` |
| `HevcWavefront`, `Vp8Rows`, `Vp9Tiles` | the jobs of three codecs; extend `CodecJobs` | `libavcodec/hevcdec.c`, `vp8.c`, `vp9.c` |
| `SliceDecoding` | the composition of all five | |
| `SliceDecodingProofs` | theorems about it: those of the pool, under the codecs, and the order of decoding | |
| `FramePipeline` | abstract: a pipeline with a delay | what `doc/multithreading.txt` promises |
| `FrameThread` | frame threading of decoders | `libavcodec/pthread_frame.c` |
| `FrameThreadProofs` | theorems about it | |
| `BufferPool` | reference counts and a pool; a component without a `Next` of its own | `libavutil/buffer.c` |
| `FrameThreadEncoder` | frame threading of encoders; has an instance of `BufferPool` | `libavcodec/frame_thread_encoder.c`, `encode.c` |
| `FrameThreadEncoderProofs` | theorems about both | |
| `InputThreads` | reading one input; has an instance of `ThreadMessageQueue` | `fftools/ffmpeg.c` |
| `OutputScheduling` | the transcoding loop, from the choice of an output to the muxer | `fftools/ffmpeg.c`, `ffmpeg_filter.c` |
| `Transcoding` | the composition of the two | `fftools/ffmpeg.c` |
| `InputThreadsProofs` | theorems about reading an input, alone and under the loop | |
| `FifoMuxer` | a muxer with a writer thread; has an instance of `ThreadMessageQueue` | `libavformat/fifo.c` |
| `FifoMuxerProofs` | theorems about it | |
| `SeekableStream` | abstract: a resource to read and seek in | what `libavformat/url.h` promises |
| `AsyncProtocol` | reading ahead | `libavformat/async.c` |
| `AsyncProtocolProofs` | theorems about it | |
| `MC...` | instances for TLC | |

A definition whose comment begins with "Faulty:" is no model of the code: it is a
changed form of the definition below it, the way a mistake in the code would
change it.  `PROJECT.json` says which property each of them breaks, which shows
that the property is about the code and not true of any model.

### How state and actions correspond to code

Common conventions.  A thread has a program counter `pc`.  A section of code
under a mutex that does not block inside is one step; a step ends where the
code waits, takes or gives up another lock, or calls out.  `pthread_cond_wait`
is a sleep that comes back to the head of its loop; `SpuriousWakeup` wakes any
sleeper at any time, which POSIX allows and which stands for signals of other
origin too.  `pthread_cond_signal` wakes any one sleeper, or nobody.  The waits
inside jobs of codecs have no spurious wakeups: each is a loop around its
condition, and a lost wakeup shows only without them.

**ThreadMessageQueue.**  `fifo`, `errSend` (`err_send`), `errRecv` (`err_recv`) and
the two wait sets are the C struct with its condition variables; `arg`,
`nonblock`, `ret` are the parameters and the result of the call a thread is in.
`Send` and `Recv` enter a call; `SendStep` and `RecvStep` are the passes through the
loops of `..._send_locked` and `..._recv_locked` under the mutex; `SetErrSend`,
`SetErrRecv` and `Flush` are one section each.  `fate` is a history variable: where
each message is, for `Accounting`.  `av_thread_message_queue_free` is the flush
before it, which its clients do; it has no state of its own.

**SliceThread.**  `nbThreads`, `nbActive`, `nbJobs`, `firstJob`, `currentJob`, `done`,
`finished` are the fields of `AVSliceThread`, `wdone` the `done` of every worker.  A
worker holds its mutex wherever its `pc` is in `Holding`, as the code does, so
`WakeWorker`, which locks it, waits for it to sleep.  `RunEnter`, `ClaimFirst`,
`FinishJob` and `ClaimNext` are `run_jobs` with one step per atomic operation.
`Execute` is the unlocked head of `avpriv_slicethread_execute`: one step, because
`QuiescentUpdate` shows that no other thread can look in between.
`mainFunc` is an argument of create, chosen in `Init`.

**CodecJobs** and its extensions.  `codec` says whose jobs the pool runs; those of
any codec that is not modelled, and of any other client of the pool, are
"independent".  `step` and `row` are the place of a thread in its job.
`HevcWavefront`: `entries` are the progress entries of `pthread_slice.c`, several
of them under one mutex and condition variable; the load of `wpp_err`, the decoding
of a CTB and the load or save of the entropy decoder are one step, as no other
thread may look at them then (`CabacStateFromAbove` checks that).  `Vp8Rows`:
`mbPos` and `waitPos` are the two atomics of `VP8ThreadData`, with a step for each
access but the two loads at the head of `check_thread_pos`, which are one.  `Vp9Tiles`: `tileEntries`
are counted by the tiles, and awaited by the loop filter that is the main
function of the pool.  What a macroblock, CTB or tile contains is left out; a
damaged one ends its row.  VP7 has no slice threading.

**FrameThread.**  Main is the thread of the client.  `state`, `die`, `pkt`, `out`,
`released` are the fields of `PerThreadContext`; `nextDecoding`, `nextFinished`,
`delaying`, `prev`, `asyncLock` those of `FrameThreadContext`.  `mutex`, `hwMutex`
and `bufMutex` say who holds them; `progress_mutex` never blocks inside and is the
atomicity of the steps.  Of the codec context `parsed` (the last packet whose
setup it includes), `lastFrame` and `hw` (its hwaccel) are kept, which is what
`update_context_from_thread` copies.  The decoder is any decoder that keeps to
the order of calls `doc/multithreading.txt` asks for: parse, get_format and
get_buffer in the setup, finish_setup, await the frame before, report, release
buffers; it may fail or have no picture at every point.  `avctx` is the setting
(codec flags and the client's callbacks), one of `Settings`, and never changes.
The client decodes, drains to the end, flushes and frees at any time.

**BufferPool.**  Memory is a number, with its `content`, `refcount` and `home`.  A
buffer that nobody may look at has the content `Poison`, so that a use after the
release shows as a change of the frame.  Getting and releasing are two steps each
(`stage`): the list, and the count of the pool.

**FrameThreadEncoder.**  `taskFifo`, `finished`, `taskIndex`, `finishedIndex` and
`exit` are fields of its `ThreadContext`, and `draining` and `bufferPkt` those of
`AVCodecInternal` by which `avcodec_send_frame` and `avcodec_receive_packet` call
it.  The client has one frame (`own`), which it makes, sends, changes
(`av_buffer_make_writable`, which copies if the worker still has it) or drops, and
it may give up the pool and close at any time.  Encoding gives a packet or, for
`MayFail`, an error; encoding and `av_frame_unref` are inside one section of
`buffer_mutex`.  A client that closes without draining leaks the packets that are
left (`frame_thread_encoder.c:249-260`), which no property forbids.

**InputThreads.**  One input file.  `reader`, `flags`, `held`, `code` are the local
state of `input_thread`; `main` is the place of the main thread in
`process_input`, `seek_to_start` and `free_input_threads`; `position` and `pass` are
the demuxer, which may also answer EAGAIN or fail at any time.

**OutputScheduling.**  `topology` says which stream is in which file, what each
output is made of, and what is copied, limited or broken; it is chosen in
`TranscodeInit`.  `phase` is the place in `transcode`: `"step"` before
`choose_output`, `"read"` before `process_input` with `chosen` and `wanted` for `ost`
and `ist`, then the flushes.  `file`, `decoder`, `graph` and `of` are the fields of
`InputFile`, `InputStream`, `FilterGraph` and `OutputFile` the loop looks at.  A
decoder keeps up to `DecoderDelay` frames and gives any number of those it has for one
packet (the loop of `process_input_packet`), an encoder keeps exactly `EncoderDelay`, and a
graph gives one frame for one of each of its inputs until all have ended.
What has got to a buffer sink, beyond a frame that was asked for, is any number up
to what the graph can give (`ReapFilters`).  Writing is a function from the output
file to its next state, because one frame may initialise a stream, write the
header, empty all queues and close streams on an error of the muxer, all in one
call.  The reap before a graph is configured is part of the reap that ends the
step.  The branch of `transcode_step` that configures a graph is not there: for
audio and video the frame that completes the formats has configured it.

**Transcoding.**  `Schedule` is a step of the loop; `BeginInput` to `EndInput` are
the steps of `InputThreads` for file 1 with what `OutputScheduling` makes of their
result; of other files there are only the answers.  `main` and `phase` move
together.

**AsyncProtocol.**  `fifo` and `readPos` are the ring with the bytes behind the
client, `request`, `completed` and `seekRet` the exchange of a seek, `client` and
`thread` the places of the two.  The thread writes into the ring without the
mutex (`InnerRead` and `Write` are steps of their own), and the client looks at the
ring without it when it chooses a seek.  SEEK_CUR and AVSEEK_SIZE come down to
positions and to `sized`; an inner read of 0 bytes is an end like AVERROR_EOF.  A
fast seek beyond the end lands on it and says so.

**FifoMuxer.**  The client is the thread that calls the muxer (`Write`, `WriteTrailer`,
`Deinit`), with a step between a send that was refused and the setting of
`overflowFlag` (`Overflow`).  `writer` is the place of the consumer in
`fifo_consumer_thread`; `msg` and `result` are its `msg` and `ret`, and `recoveryNr`,
`lastTs`, `dropUntilKeyframe`, `headerWritten` its `FifoThreadContext`.
`DispatchMessage` is `fifo_thread_dispatch_message` in one step, which is sound
because only the consumer uses the real muxer: nothing the client reads or writes
is touched.  `Finalise`, `TooEarly` and `Attempt` are the three parts of
`fifo_thread_attempt_recovery`; waiting in real time is a free choice between the
last two.  Messages are numbered in the order of the client, and a packet's
number is its time too.  The real muxer may fail at every header, packet and
flush, with a passing error, a permanent one, a request to exit, or EAGAIN, which
is also what `fifo_thread_attempt_recovery` returns when it wants to be called
again (`GiveUp`, `Failed`).  Two variables are history: `attemptError`, what the last
attempt of recovery returned, and `forsaken`, the packets that were given up for
EAGAIN without an attempt.

## 3. Runs

A name in parentheses is a part of the property before it.

| Run | Configuration | Checks | States |
|---|---|---|---|
| `queue` | 3 threads, 2 messages, capacity 1, fair | `TypeOK`, `NoLostSendWakeup`, `NoLostRecvWakeup`, `Accounting`, `ImplementsChannel` (safety and liveness) | 189 000 |
| `slice_decoding` | 2 workers with and without main function, up to 4 jobs, 2 executes, four kinds of jobs, fair | `TypeOK`; the pool: `PoolSafe` (`DoneIsFresh`, `OneLast`, `NoWorkerOutlivesContext`), `QuiescentUpdate`, `ImplementsParallelFor`; the codecs: `DecodingOrder` (`RowsInWavefront`, `CabacStateFromAbove`, `MacroblocksInOrder`, `JobIsThread`, `FilterBehindTiles`); `CallsReturn` | 788 000 |
| `slice_narrow` | VP8, two macroblocks wide, two jobs | `CallsReturn` fails: a finding | |
| `frame_pipeline` | 2 workers, 5 packets, codec with delay and FFV1 | `TypeOK`, `SetupInOrder`, `ImplementsPipeline` | 2 320 000 |
| `frame_services` | 2 workers, 3 packets, both kinds of hwaccel, clients that are not thread-safe, fair | `HwaccelLocked` (`AsyncExclusive`, `HwaccelSerial`), `ContextsHandedOver` (`CopyAfterSetup`, `MainOwnsContext`), `NoBufferLeft`, `CallsReturn` | 1 137 000 |
| `frame_encoder` | 2 workers, 4 slots, 5 frames, one that may fail, fair | `TypeOK`, `BuffersShared` (`RefsCounted`, `FramesIntact`, `PoolFreedWithLastUser`), `ImplementsPipeline`, `CallsReturn` | 903 000 |
| `transcoding` | 5 topologies, 1 or 2 inputs, 4 packets, 1 loop, capacity 2, fair | `TranscodingTypeOK`; reading: `InOrder`, `LoopsSafely` (`SeekAlone`, `SingleLoopedAsOften`), `NothingLeft`; output: `PacketsInOrder`, `ReadsWhatIsDue` (`Balanced`, `EndedNotRead`), `NothingGivenUp` (`FramesEncoded`, `HeaderAtEnd`); `Ends`, of the shutdown of the reader too | 378 000 |
| `input_loop` | 2 inputs, 1 packet, 1 loop | `LoopedAsOften` fails: a finding | |
| `fifo` | 4 messages, capacity 1, 2 failures, five settings, fair | `TypeOK`, `EachOnce` (`InOrder`, `NoneLost`), `FinalisedOnce`, `GivesUpClean` (`AttemptsBounded`, `NothingLeft`), `OneStray`, `ClientReturns` | 2 214 000 |
| `fifo_overflow` | 4 packets, dropping with key frames | `KeyframeAfterGap` fails: a finding | |
| `fifo_streamtime` | 3 packets, waiting in stream time | `WaitsStreamTime` fails: a finding | |
| `async` | 5 bytes, ring of 2 and 2 behind, 1 failure, interrupts, fair | `TypeOK`, `RingIsWindow`, `ImplementsStream`, `CallsReturn` | 734 000 |

Deadlock is checked in every run but `frame_encoder`, whose client stops when its
frames are used up, and `slice_narrow`, whose finding is one.  Another run that may
end says so by a step that stutters in the final state only.

### Bounds, and why they are enough

* Queue: a lost wakeup needs two threads at one end and one at the other: three
  threads, any of which may send or receive.  The proofs cover all other values.
* Slice pool: two workers and the caller are three participants, so that there
  is one thread between the first and the last; four jobs are one more than
  there are threads, so jobs are taken from `current_job` too, and fewer jobs
  than threads leave workers asleep.  A flag or a worker left over from an
  execute shows in the next.  `MaxWavefronts` lets one of the two executes be of
  jobs that wait.
* Codecs: three rows of CTBs or macroblocks are one above and one below a middle
  one, and a wavefront of four rows comes back to a condition variable that is
  shared.  Three CTBs are one more than the distance of two rows.  Four macroblocks are
  the narrowest frame that VP8 surely decodes (see the findings).  Row 1 may be
  damaged: it has a row above it and two below.
* Frame threading: two workers already make the ring wrap after every second
  packet, and five packets wrap it more than twice.  `MaxPackets` bounds the
  submitted packets, not the calls: flushes, empty draining calls and failing
  submissions repeat until it.
* Encoder: two workers finish in any order; the ring has four slots, so the
  fifth frame uses one again; four buffers are one less than the frames, and a pool
  that hands out what was returned.
* Transcoding: the queue of the reader is smaller than the file, so it gets full
  and the reader changes to blocking; one loop has a first and a last pass.
  The muxing queue of three is shorter than the packets of a file, so that it
  overflows when the other stream comes late.  The topologies are a copied and an
  encoded stream of one file (which is read without a thread, and looped), of two
  files (with threads), a graph with an input from each of two files one of which
  is copied too, and the second again with a limit of two packets and with a
  muxer that fails at its second packet.
* Asynchronous protocol: the resource is larger than the ring and what is kept
  behind, so that both move; reads of two need more than one write, and targets
  reach from before the start to behind the end.
* Fifo muxer: with a queue of one the second message behind the one in work
  overflows; a gap, the packet that slips through behind it and the one after
  that are four.  Two failures are the one that starts a recovery and one of the
  recovery itself, which is the limit of attempts in one of the settings.  The
  settings are the default options; waiting with recovery from any error; the
  limit of attempts; dropping without recovery, with key frames; and dropping with
  recovery and key frames.

### Fairness

`FairSpec` of each module is weak fairness of the steps of each thread that is
inside the library: the operating system runs every thread that can run, and
the job, the decoder and the callbacks of the client return.  Nothing is
assumed of the client: it may stop calling.  Nothing is assumed of mutexes beyond
that: where a mutex could be taken by others again and again, the checks do not
rely on its being granted.  Spurious wakeups are never assumed to happen.  The
clients of `AsyncProtocol` and of `FrameThreadEncoder` finish the calls they are in,
and no more.  In `Transcoding` both threads run, and a file that is asked again and
again at last has a packet or an end: `[]<>` asked implies `[]<>` answered, since the
loop may turn to other files in between, so that weak fairness of the answer would
say nothing.  `Ends` excepts `Starved`, see below.  In `FifoMuxer` the
real muxer fails a bounded number of times: with unlimited attempts and a muxer
that always fails a blocked client waits for ever, as it asked to.  `ClientReturns`
excepts `Spins`, see below too.

### Findings

`-stream_loop` has no effect with two or more inputs, against
`doc/ffmpeg.texi:257`.  At the end of a file `input_thread` sets the error of the
receiving end and returns (`fftools/ffmpeg.c:4198-4222`).  `process_input` then
seeks to the start and calls `get_input_packet` again (`:4426-4431`), but nobody
reads the file any more and the queue answers the same error, so the file is
finished after one pass.  `input_loop` shows it; `SingleLoopedAsOften` holds.

`restart_with_keyframe` does not always wait for a key frame after an overflow,
against `doc/muxers.texi:1987`.  The client sets the overflow flag only after its
send has been refused (`libavformat/fifo.c:556-567`).  If the consumer meanwhile
takes the last message, finds the flag clear and goes to wait for the next one,
it is given the packet behind the gap and writes it, key frame or not.
`fifo_overflow` shows it; `OneStray` shows that it is never more than that packet.

`recovery_wait_streamtime` does not wait, against `doc/muxers.texi:1975`: the test
for a valid time of the last attempt is inverted (`libavformat/fifo.c:315`), so
every packet is an attempt.  `fifo_streamtime` shows it.

VP8 with slice threading and two jobs never finishes a frame of at most two
macroblocks in width, against `libavcodec/avcodec.h:2798`: the filter of the first
row waits for a macroblock of the second row, which waits for a position that only
the end of the first row reaches (`libavcodec/vp8.c:2401`, `:2467`, `:2524`).
`slice_narrow` shows it.  With three macroblocks it takes a wakeup that is lost
between `vp8.c:2333` and `:2336`; from four on `CallsReturn` holds, because a later
update makes up for it.

More things met on the way are not runs of their own.

* `fifo.c` does not tell EAGAIN of the real muxer from its own "try again later"
  (`libavformat/fifo.c:286`, `:328`, tested at `:378` and `:380`), although muxers return it
  (`libavdevice/alsa_enc.c:105`, `libavdevice/pulse_audio_enc.c:653`) when they have the flag
  `AVFMT_FLAG_NONBLOCK`, which `fifo_mux_init` hands on to them (`:466`).  It has three
  effects, which the properties of `fifo` name as their only exceptions.  With the
  default options the consumer calls `fifo_thread_attempt_recovery` for ever and never
  tells the client, which hangs when it has filled the queue or writes the trailer
  (`Spins` in `ClientReturns`).  When dropping without recovery the packet is given up
  and the consumer goes on, without waiting for a key frame if one is asked for
  (`forsaken` in `OneStray`).  And an attempt that fails with EAGAIN is
  followed by another beyond `max_recovery_attempts` (`AttemptsBounded`), although
  `doc/muxers.texi:1964` calls that the number after which "the output fails
  permanently".
* A filter graph of several inputs hangs if one of them ends without a frame and
  another has shown its format (`Starved`).  It is never configured, so
  `transcode_step` marks the stream `inputs_done` and returns
  (`fftools/ffmpeg.c:4764-4766`), `choose_output` returns it for ever, since it has
  no `cur_dts`, and the process spins until it is interrupted.  `Ends` has this as
  its one exception: a run that does not end chooses such a stream for ever and
  nothing else, so the run also says that there is no other hang.
* `choose_output` returns a stream that is not initialised even if it is marked
  unavailable (`:4043`), so the loop spins instead of sleeping 10 ms.
* `seek_to_start` takes one frame out of each decoder and flushes the rest
  (`:4355-4356`): with a delay of two frames or more a loop loses frames.
* After an interrupt the frames inside graphs and those behind the first of a decoder are not
  encoded (`FramesEncoded` excepts it).
* When the first open stream has reached its limit all others are closed
  (`:4011-4014`).
* The assertion of the ring at `libavformat/async.c:145` has the wrong sign.
* The packet of the last attempt that `max_recovery_attempts` allows is never
  unreferenced (`NothingLeft` says so exactly), and a packet whose writing failed
  has its timestamps rescaled again when it is retried (`libavformat/fifo.c:185`),
  which shows only when the two time bases differ.

## 4. Proofs

Every safety property that a run checks is proved for every value of the
constants, but those of the output side of the transcoding loop, and so are the
safety parts of all refinements.  The constants need only be what the assumption
at the head of each model says: sizes are natural numbers, capacities above 0,
names of threads and error codes differ where the code tells them apart, the ring
of the encoder has twice as many slots as threads, which `BUFFER_SIZE` and the
limit of `thread_count` see to, and the options of a muxer or a decoder are ones
its init accepts.

| Theorem | States |
|---|---|
| `ThreadMessageQueueProofs`: `TypeCorrect`, `SendersWoken`, `ReceiversWoken`, `Accounted` | `TypeOK`, `NoLostSendWakeup`, `NoLostRecvWakeup`, `Accounting` |
| `Implements` | `Spec => Channel!Spec`: the queue implements `MessageChannel` |
| `SliceThreadProofs`: `PoolTypeCorrect`, `PoolKeepsApart`, `UpdatesAreQuiescent` | `PoolTypeOK`, `PoolSafe`, `QuiescentUpdate` |
| `PoolIsParallelFor` | the pool implements `ParallelFor` |
| `SliceDecodingProofs`: `DecodingKeepsPoolSafe`, `DecodingUpdatesQuiescent`, `DecodingIsParallelFor` | the same of the pool under the codecs |
| `DecodingTypeCorrect`, `DecodingInOrder` | `TypeOK`, `DecodingOrder` |
| `FrameThreadProofs`: `FrameTypeCorrect`, `FrameSetupInOrder`, `FrameHwaccelLocked`, `FrameContextsHandedOver`, `FrameNoBufferLeft` | `TypeOK`, `SetupInOrder`, `HwaccelLocked`, `ContextsHandedOver`, `NoBufferLeft` |
| `FrameIsPipeline` | the ring of workers implements `FramePipeline` |
| `FrameThreadEncoderProofs`: `EncoderTypeCorrect`, `EncoderBuffersShared` | `TypeOK`, `BuffersShared` |
| `EncoderIsPipeline` | the ring of finished tasks implements `FramePipeline` |
| `FifoMuxerProofs`: `FifoTypeCorrect`, `FifoEachOnce`, `FifoFinalises`, `FifoGivesUp`, `FifoOneStray` | `TypeOK`, `EachOnce`, `FinalisedOnce`, `GivesUpClean`, `OneStray` |
| `InputThreadsProofs`: `InputTypeCorrect`, `InputInOrder`, `InputLoopsSafely`, `InputNothingLeft` | `TypeOK`, `InOrder`, `LoopsSafely`, `NothingLeft` |
| `TranscodingInOrder`, `TranscodingLoopsSafely`, `TranscodingNothingLeft` | the same of the input under the transcoding loop |
| `AsyncProtocolProofs`: `AsyncTypeCorrect`, `RingStaysWindow` | `TypeOK`, `RingIsWindow` |
| `AsyncIsStream` | the protocol implements `SeekableStream` |

Each module begins with its inductive invariant, a conjunction of named parts, and
has a lemma for each kind of step.  TLC finds each of
them to hold on the instances of section 3, too.

**The queue.**  The two wakeup invariants are inductive together with `TypeOK`.  They
have to count: "somebody is awake if there is a slot" is not preserved, because
that thread may be the one that takes the slot while a second slot stays free.  So
the invariant compares the number of awake senders with the number of free slots,
and the proof follows how each step changes the two cardinalities: a receive frees
a slot and wakes one sender; a send that takes a slot removes one sender from
those awake, and its slot; a sender that is woken and finds no slot leaves both
sides as they were.  `Accounting` is stated in both directions: a message marked
"queued" is in the FIFO and the other way round, so a message that is written
cannot already be there, and the one that is read is nowhere else behind it.
`Implements` needs it twice: a refused send must find the queue at its capacity
and not above it, and a flush must drop exactly what the channel calls queued.

**The pool.**  That one thread is the last of an execute is computed from
`current_job`, which every thread increments once more than there are jobs for it.
So the invariant counts again: `ToStart` are the threads that have not taken a
first job, whether they still sleep, have been woken or are going to be, and
`ToPass` those that have not got a number behind the last job.  `CountInv` says that
`first_job` and `ToStart` add up to the active threads, and that beyond the last job
`current_job` counts the threads that have left `ToPass`; `LastInv`, that a last
thread and the flag it sets imply that `ToPass` is empty.  `PhaseInv` says what the
workers do while the caller creates, rests or frees, `PlaceInv` what they do in an
execute, and `LocalInv` that the counts a thread has read are those of this execute
and that thread numbers differ.  `QuiescentUpdate` follows, since `execute` begins
where all workers rest.  The invariant allows any client: the worker function
returns when it likes, so for these theorems `SliceDecodingProofs` has only to show
that each step of a codec is a step of such a client (`DecodingUsesPool`).

**The codecs on the pool.**  `DecodingInv` begins with what the pool does for any
codec.  `JobsOnce` says that each job is called once and by one thread, and `UseInv`
what a codec asks of the pool; for VP8, that there are as many active threads as
jobs, from which it follows that a job runs on the thread of its number: a thread
gets a second job only when there are more (`Takes`).  All steps of the pool between two calls are one
case (`Quiet`), so that only the call and the return of a job are looked at for each
codec.  In `WavefrontInv` the entry of a row is what the row has decoded, with an
exact difference at each place of its job, and a row that returned early has left
`wpp_err` behind (`Complete`); rows begin in their order, two CTBs apart, and the
state of the entropy decoder is that of the last row that has got so far.
`TilesInv` counts: the entry of a row of superblocks is the number of columns behind
it, so that it equals the number of jobs only if all of them are.  `RowsInv` relates
what a job of VP8 has published to what it has done (`Published`, `Progress`).  A
position that has been reached says that the macroblocks before it are done
(`PublishedIsDone`): positions of different rows never overlap (`PosInOrder`), and
the row above and the row below belong to the jobs that the code computes modulo
their number (`NeighbourJobs`).  A check that has been passed stays so, since no step
takes back what was done of a row (`Advances`); a job that is called has done
nothing of its rows, and one that returns, or gives up, counts as having done all.
How a thread of VP8 waits and is woken does not matter to this, as it should be; it
matters to `CallsReturn`.

**Frame threading of decoders.** Of `FrameInv`, `WorkerInv` and `LockInv` say for each
place of a worker which states the client may see and which locks it holds; `CallInv`,
`ExistInv` and `RestInv`, for each place of the client, in which call and loop it is,
which workers exist, and which of them must have come to rest. `RingInv` says that the
workers with a packet follow each other in the ring from `nextFinished` to
`nextDecoding`, in each of the places where one of the two has moved already. Upon
these rest `OwnerInv`, `ServeInv`, `SetupInv` and `ReleaseInv`, which say who owns a
frame, that callbacks are served before `submit_packet` returns, what each context has
parsed, and where released buffers are. `OrderInv` and `FilledInv` are for the
refinement: the packets in the window rise, and unless the delay is over it begins at
0.

`FrameIsPipeline` maps what is inside the pipeline to the packets of the workers
that are filled.  A submission that succeeds is the pipeline's accept, one
that fails its refusal; a result that is published is a finish; what the client takes
is a packet given, skipped, or the end of the stream; flush, free and an init that
failed discard.  `OrderInv` makes the packets of different workers differ, so that
the size of the window, which `RingInv` bounds, is the number of packets inside,
and the first of the window is the oldest.

**Frame threading of encoders.**  Of `EncoderInv`, `PoolInv` is about the memory:
`MemoryInv` says which buffers have a count and which a content, also between the two
steps of a release, and `CountInv` that the references to the pool are its buffers in
use, those that are being returned, and its owner, so that whoever takes away the
last one frees it.  `RefsCounted` makes the count of a buffer the number of places
that hold it: the client, the FIFO, and a worker until its frame is encoded.
`ContentInv` says that two buffers never have the same content, and that the client
writes only where it is alone.  `ClientInv` and `WorkerInv` say what each has at each
of its places.  `RingInv` follows the frames through the ring: the slots from
`finished_task_index` on belong to the frames behind `Taken`, the ones that were given
back, in their order, whether a task is in the FIFO, with a worker, or finished, so
that the packet in the next slot is that of the oldest frame.  That
`Distance` of a frame from the head of the ring stays below the number of slots
follows from the number of frames outstanding, which is at most one more than there
are threads.  `EncoderIsPipeline` maps each of these frames to an item inside the
pipeline, with the code of its packet when it is finished.

**The FIFO muxer.**  It contains a queue, so its invariant begins with that of the
queue (`QueueProofs`, an instance of the theorems above).  `OrderInv` relates what was
written, what the consumer holds and what is queued: one rising sequence.
`BlockingInv` adds, if nothing may be dropped, that the sequence has no gaps.
`LeavingInv` and `ClosingInv` say how the two threads end.  A consumer that spins on
EAGAIN has given up its message and does not come back (`Halted`), so `BlockingInv` says
nothing of it.  For `OneStray`, `AheadInv`, `GapInv` and `StrayInv` follow a gap from the
refused send, which comes before the flag is set, to the packet that slips through,
for overflows and failures alike.  A packet that was given up for EAGAIN is a gap too,
but one that nobody waits at until the next packet is written (`Forsaken`);
`ForsakenInv` says that it is earlier than all the consumer still has to do.

**The input threads.**  `ThreadedInv` says that what was processed, what is queued
and what the reader holds are the packets read so far, and `DirectInv` the like without a
thread; `Control` says where the reader and the transcoder are relative to each
other, such as that behind the end of the file nothing more can come.  Each step
of the transcoding loop is shown to be a step of `InputThreads` or to leave it
alone (`TranscodingReads`).

**The asynchronous protocol.**  `RingIsWindow` is inductive together with the types,
`CallInv` (how far the call in progress has come), `SeekInv` (a request is served
only while the client waits for it) and `ThreadInv`: what the thread has found out
with the mutex, such as the space in the ring, stays true when it writes without it.
The refinement keeps the position of the stream while a call is in progress, and
changes it where the call returns.

A note on the backends.  The SMT encoding gives types to what it finds in a leaf, and
may take a member of a set of numbers and names, such as the workers and the main
thread, for a number.  A fact that such a name is no integer could then make the
hypotheses of a leaf contradict each other.  Every leaf of the modules above was
therefore tried with the goal `FALSE` as well; the only ones proved are seven that
refute a case which the code cannot be in.

Only model-checked:

* liveness, and the fairness parts of the refinements, which TLAPS cannot handle;
* `OutputScheduling`: `PacketsInOrder`, `ReadsWhatIsDue`, `NothingGivenUp` and
  `TranscodingTypeOK`.  Writing is a fold over the streams and over the queues, and
  what a fold does for every input takes induction over data, which the provers
  do not do.

## 5. What is not modelled

In the modelled components:

* data: what is in packets and frames, pixel formats beyond the choice of a
  hwaccel, wording of logs;
* `FrameThread`: a frame has one field and one level of progress instead of a
  row counter for each of two; a packet refers to the one frame before; the
  copies of user fields into the workers;
* slice threading: what a row contains; VP8 parses damaged data only as "too
  short"; `ff_slice_thread_execute_with_mainfunc` of other codecs than VP9;
* `FrameThreadEncoder`: encoders that are not intra-only do not use it, and that one
  succeeds without giving a packet (`got_packet` 0, `frame_thread_encoder.c:89-101`);
  the copies of the codec context; `BufferPool`: `av_buffer_realloc`, read-only buffers, the
  allocation of a whole new pool;
* `InputThreads`: `-re` rate emulation, infinite loops (`-stream_loop -1`), and
  timestamps of loops; `Transcoding`: the threads of further files;
* `OutputScheduling`: several output files, `-shortest`, limits of time and of
  file size, changes of format and the new configuration of a graph, subtitles,
  packets that an encoder counts as video (whose limit is in `do_video_out`), bitstream
  filters, errors of encoders and filters, which end the process; the reap that
  comes before the configuration of a graph in the flush after an interrupt, which
  may encode frames of another graph that the model leaves in it;
* `AsyncProtocol`: failing allocations, and resources whose size changes;
* `FifoMuxer`: timestamps in different time bases, packets without a timestamp,
  the passing of real time, the errors of `av_write_trailer`;
* memory order: atomics are sequentially consistent in the models.  The relaxed
  loads of `pthread_frame.c` and the stores of `slicethread.c` are each followed
  or preceded by a lock that orders them.  The ring of `async.c` is written and
  looked at without one; the model has the stores in the order of the program, as
  x86 keeps them.

The other components are listed in `PROJECT.json` with their reasons; codecs,
formats and DSP code are sequential and too large for a model checker.

## 6. Plan

In this order:

1. `Interleave` (`libavformat/mux.c`): the packet buffer ordered by DTS and its
   flush by `max_interleave_delta`, behind `InterleavedWrite` of `OutputScheduling`.
2. Subtitles in `OutputScheduling`: the queue that waits for the graph, and
   `plex_link_subtitles_to_graph` (`fftools/plex.c`), with changes of format that
   configure a graph again.
3. `SendReceive` (`libavcodec/decode.c`): the draining of decoders, in front of
   `FrameThread`.
4. The filter graph last: link status, frame queues, `framesync`.

Of what is modelled, only the output side of the transcoding loop has no proofs.
They would have to begin with another form of `WritePacket` and of the queues of
the muxer, without folds, in which the packets of one stream can be followed on
their own.
