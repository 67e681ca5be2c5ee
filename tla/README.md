# UniMRCP: a TLA+ verification project

UniMRCP is an implementation of the Media Resource Control Protocol, versions 1
and 2: a server that offers speech resources (synthesizer, recognizer, recorder,
verifier) to clients, the client stack, a media framework with RTP, and the
libraries below them.  This directory holds TLA+ models of the concurrent and
stateful parts of both stacks, the TLC configurations that check them, and proofs
for TLAPS.  All source paths below are relative to `src/trunk/`.

## 1. The system

### Threads and how they interact

    application ── client task ── SIP/RTSP agent ─ ─ ─ SIP/RTSP agent ──┐                ┌─ engine task of a plugin
                   sessions   └── connection agent ─ ─ connection agent ┤─ server task ──┤    (demo plugins)
                      │                (TCP, MRCPv2)                    │  sessions,     └─ media engine thread
                   media engine thread  ─ ─ ─ ─ RTP ─ ─ ─ ─ ─ ─ ─ ─ ─ ─ ┘  state machines      contexts, callbacks

- The **server task** (`mrcp_server.c`) and the **client task** (`mrcp_client.c`) own all
  sessions. Every event of another thread reaches them as a message in the queue of a
  consumer task (`apt_consumer_task.c`). A session works on one request at a time; the
  others wait in `request_queue`. Answering one takes the next from that queue and
  dispatches it *inside the same call*.
- A **resource state machine** (`libs/mrcp-engine/src/mrcp_*_state_machine.c`)
  stands between a server session and an engine channel and runs in the server task.
- An **engine plugin** handles requests in the server task (recorder) or in a task of
  its own (demo plugins). Its stream callbacks run in the media thread and share the
  fields of the channel with the request handlers without a lock.
- The **connection agents** are poller tasks with TCP connections and tables of
  channels; the client's one also times the request each channel has in progress. For
  MRCPv1 the **RTSP** client and server take their place and that of SIP.
- The **media engine** runs contexts: terminations, their association matrix and the
  objects that move frames. RTP streams send and receive packets; what is received
  goes through a **jitter buffer**; generators and detectors of digits and of speech sit
  in the callbacks.
- The **ASR client library** turns the messages of the client stack into blocking calls.
- **Tasks** form a tree with a start and a shutdown protocol; **timers** belong to
  poller tasks; **cyclic queues** carry the messages; MRCPv2 and RTSP share a **parser of
  text messages**.

### Inventory

| part | state | what is hard | module |
|---|---|---|---|
| cyclic queue | ring, head, tail, size | wrap-around meets growth | `CyclicQueue` |
| timer queue | ring, elapsed time | reschedule of an unsigned clock | `TimerQueue` |
| tasks | state, pending counts, queues | start against shutdown; join against full queue | `AptTask` |
| text messages | buffer, stage of the parser | messages cut at any byte | `TextMessage` |
| server session, control path | active request, queue, state | nested dispatch; a missing answer stops the session | `ControlSession` |
| recorder | machine state, plugin fields | two threads, no lock | `RecorderChannel` |
| synthesizer | speaker, pending queue, plugin fields | three threads; pending requests bypass the serialisation | `SynthChannel` |
| recognizer | recog, pending queue, plugin fields | the same, and results against STOP | `RecogChannel` |
| verifier | verify, session open, plugin fields | legal sequences that leave work behind | `VerifierChannel` |
| server session, signalling path | offer, answer, channels, slots, sub-request count | three answering threads, one counter | `ServerSession` |
| client session | request queue, offer, channels, slots, sub-request count | the same, with failures and disconnects in between | `ClientSession` |
| server connection agent | connections, two tables, counts | who frees a connection | `ServerConnection` |
| client connection agent | connections, active request, timer | time-outs against late answers | `ClientConnection` |
| RTSP | pending and in-progress queues, timer, server sessions | termination against requests, time-outs and disconnects | `RtspClient`, `RtspServer` |
| ASR client library | one message slot, condition variable | signals without a predicate | `AsrClient` |
| frame buffer | ring of frames, positions | a restart without the mutex | `FrameBuffer` |
| media context | header, matrix, objects | counts against the matrix; stale objects | `MpfContext` |
| jitter buffer | ring of frames, positions, delay, event | loss, reordering, wrap-around, adaptive delay | `JitterBuffer` |
| RTP sender, DTMF generator | packet under way, event, digit queue | audio and digits on one clock, segments of long digits | `RtpTransmitter`, `DtmfGenerator` |
| RTP receiver | source, sequence numbers, counts | new sources, restarts, turn-over | `RtpReceiver` |
| speech detector | state, duration | counts restarted by noise and new time-outs | `ActivityDetector` |
| digit detector | last windows, digit buffer | reset by another thread | `DtmfDetector` |

The parts that are not modelled are listed in section 8.

### What should be true

A request is answered once and in order; what a client was told is in progress is
really worked on until it ends; a stopped request is silent; a terminated session
releases everything once; connections are freed when and only when nobody uses them;
frames are moved once and audio is played in order; every start, call and shutdown
ends. `PROJECT.json` lists the places in the code where these can break (`hazards`).

## 2. Modules

    FifoQueue <--implements-- CyclicQueue, FrameBuffer
    ControlSession <- RecorderChannel
                   <- PluginChannel <- SynthChannel
                                    <- ListenChannel <- RecogChannel, VerifierChannel
    ServerSession    ClientSession    ServerConnection    ClientConnection
    RtspLink <- RtspClient, RtspServer <- Rtsp
    FrameBuffer <- AsrClient          DtmfGenerator <- RtpTransmitter
    MpfContext  JitterBuffer  RtpReceiver  ActivityDetector  DtmfDetector
    TimerQueue  AptTask  TextMessage
    proofs: LibraryProofs  TimerProofs  TaskProofs  ServerConnectionProofs
            RecorderProofs <- RecordingProofs    RtspSessionProofs <- RtspProofs

(`A <- B`: B extends A.) A module `MC...` instantiates modules for TLC. The map in
`PROJECT.json` gives the lines each definition stands for.

**CyclicQueue** is `apt_cyclic_queue.c`: the array, `head`, `tail`, `actual_size` and
`max_size`; pushing into a full ring grows it by half and rotates it. **FifoQueue** is
what it promises: a sequence. The map from one to the other is `Contents`.

**TimerQueue** is the queue under the loop of a poller task: poll, wake (at any time up to
`MaxDelay` late), handle (which sets and kills timers), advance, fire. `deadline` is the
time the caller asked for. `caught` records that a reschedule met a timer already due.

**AptTask** is the tree of tasks with the server task at its root, the engines it opens
and closes, and the application thread that starts and shuts down.

**TextMessage** generates messages and parses them from a buffer that the network fills
piece by piece. Characters are classes: line ends, white space, the colon, letters.

**ControlSession** is the part of `mrcp_server_session.c` and `mrcp_state_machine.h`
that the four resources share. `task_queue` is the queue of the server task and
`todo` the stack of calls in the handler that runs: `SendResponse` puts the next
request on it, as `state_machine_on_message_dispatch` does by calling the dispatcher. A message
is taken from `task_queue` only when `todo` is empty.

**RecorderChannel** adds the recorder state machine and the recorder plugin. One
action is one access to the shared fields that another thread can see, so
`recorder_stream_write` is several actions, ordered by `media_pc`. A NULL that is
dereferenced sets `crashed`. `timers_started` starts with any value because the code
does not initialise it.

**PluginChannel** has what the demo plugins share: the queue of their task, the
acceptance of a request (answered first, stored afterwards) and the STOP that is
answered from the media thread before the request is cleared. **SynthChannel** adds
the synthesizer state machine with its pending queue, and speech that is paused,
resumed and completed; **ListenChannel** the input of the recognizer and the verifier;
**RecogChannel** and **VerifierChannel** their state machines.

**ServerSession** is the other half of `mrcp_server_session.c`: offers and answers
with their sub-requests to the agent, the engines and the media engine, the control
messages, the deactivation and the termination. The agent, the engine and the media
engine are actions of their own that answer in any order; an engine may refuse to
open, a resource may have no engine or be unknown. Version 1 and version 2 differ as in the code.

**ClientSession** is `mrcp_client_session.c`. Its functions call each other with the
session as an argument, so they are operators from a session (a record) to a session, and an
action is one message of the client task. `world` says whether the server may
close the session and whether a discovery may fail.

**ServerConnection** is the server's connection agent: `null_connection` is the container
that owns the pool, `channel_table` its pending table and those of the connections,
`access_count` the references, `removed` the channels which must destroy their connection later.
**ClientConnection** is the client's: connections found or made, requests sent, answered,
timed out, and cancelled by a disconnect, and the receive loop, which takes the messages
that have come in one by one (`ProcessStream`) and leaves the rest in `rx_stream`.

**RtspClient** and **RtspServer** are `rtsp_client.c` and `rtsp_server.c` on the two ends of
the connection of **RtspLink**; **Rtsp** composes them with the MRCPv1 agents above
them. `fault` is what goes wrong in a step: the connect, or the sending of a message. The
client works through queues of requests in loops: up to the first request that can be sent
(`RequestsProcess`), or to answer all of them with errors (`ErrorsProcess`). What the loops
do is written without recursion: a fault lasts for the step, so either the first request
is sent or none is.

**FrameBuffer** is `mpf_frame_buffer.c`, one action for each access that the mutex does
not make atomic; `Overlap` says whether a restart may come in the middle of another call.
**AsrClient** puts `asr_engine.c` on top: `pc` is where the caller is, `woken` that it was
signalled, `inbox` what the stack is about to deliver. `Orderly` says that messages are
delivered only to a caller who waits.

**MpfContext** has one action for each command of the media engine. `Counted` keeps
the width of the byte-sized counters; `hurt` records a termination that is changed
while an object uses it.

**JitterBuffer** is `mpf_jitter_buffer.c`. Audio is abstracted to the time at which it
was sampled; positions and timestamps keep their unsigned width (`Uint`, `Word`).

**DtmfGenerator** and **RtpTransmitter** are what happens in a tick of the sending side:
the generator adds its digit to the frame of the source, the transmitter collects audio
until a packet is full and sends events at once. **RtpReceiver** decides which packets of which
source go to the jitter buffer and keeps the statistics of RTCP; sequence numbers and the
counters of bytes have their width (`SeqWord`, `ByteWord`).

**ActivityDetector** is the speech detector beside a `listener` who only counts loud and
quiet frames. **DtmfDetector** is the digit detector, with the analysis of a window reduced
to its result; with `Race` another thread may reset it within a window.

## 3. Runs

A run may look at several components or at several environments of one. The variable
`scenario`, `profile`, `side`, `piece` or `part` is then chosen in the initial state and
never changes; a property `...When<X>` speaks of one environment only.

| run | distinct states | what it shows |
|---|---|---|
| `recorder` | 318,970 | in every schedule: `ResponsesInOrder`, `StopFindsRecord`, `OneRecordingAtATime`, `KeptUntilOvertaken`; when no callback is overtaken: `ServedWhenPrompt`, `BoundedWhenPrompt` |
| `synth` | 263,858 | in every schedule: `SafeAnyhow`; for an orderly client: `SpokenWhenOrderly` (every SPEAK in order, kept, one marker per pending one), `ServedWhenOrderly` |
| `listen` | 633,415 | recognizer and verifier: `SafeAnyhow`; for an orderly client: `RecognizedWhenOrderly`, `VerifiedWhenOrderly` (results in order, silence after STOP, nothing left running), `ServedWhenOrderly` |
| `server_session` | 325,812 | `CountedExactly` for every profile; `AnswersWhenMet` and `ServedWhenMet` when the offer can be met |
| `client` | 743,412 | client session: `Answered`, `Settled`; ASR library: `RecognizedSoundly`, `CallsReturn` |
| `connections` | 1,131,771 | server: `ConnectionsSound`, `ServerFrees`; client: `AnsweredOnce`, `RequestAnswered` |
| `rtsp` | 101,609 | client, server and the agents above: `AnsweredOnceByItsOwn`, `InProgressIsWatched`, `SessionsEndOnce`, `ServedWhenOrderly`, `ServerCleared` |
| `toolkit` | 1,802,652 | cyclic queue: `RefinesFifo`; timers: `TimersFire`; tasks: `TasksTogether`, `NoHang`; text: `ParsedAsSent` |
| `media` | 768,411 | context: `ContextSound`; jitter buffer: `FramesInPlace`, `PlayedInOrder`; RTP: `SentInOrder`, `ReceivedSoundly`; detectors: `DetectedExactly` |
| `jitter_early`, `client_cancel`, `text_body` | (violated) | `WithinBuffer`, `CancelsAll` and `BodyAsSent` fail, see section 7 |

"Orderly" in `synth` and `listen` means two things. `MediaPrompt`: a stream callback that
has begun returns before the server task takes its next message; callbacks last
microseconds, but the code does not enforce it. `Quiet`: the client sends nothing between
the end of a request and the start of the pending request behind it. In `rtsp` it means
that no message is lost, late or unparsable and the connection does not fail; in `client`
that the server does not close the session, and that messages find the caller waiting. The
properties that fail without these conditions are the disagreements of section 7.

`AnsweredWhenQuiet` (in `Answered`) replaces a liveness property by a safety one: every
sub-request gets one response, so a state with none outstanding is always reached, and in
such a state everything has been answered.

Every property of a passing run has a mutant in `PROJECT.json`: a definition changed as
a plausible mistake would change the code, under which TLC finds the property violated.

## 4. Bounds

- *Requests.* Three or four per channel or session: one in progress, one pending, one
  that arrives while the pending one is on its way, and a STOP or a termination (three where
  the liveness of the recognizer is checked). With all
  methods the number is lower (two or three), because each method other than the central
  ones is answered in one exchange and leaves at most a flag.
- *Recording and speech.* A frame or two; `TimeCap` and `MaxFrames` only need to tell
  "just started", "running" and "over".
- *Offers.* Two or three with at most two channels, one audio medium and one control
  request: enough for an offer, a second that modifies it, a control message queued
  behind, and a hang-up at any point.
- *Connections.* Server: three channels and two connections from two addresses; the
  liveness with two channels. Client: two channels that share a connection or have one
  each, or one channel with three requests, so that a response after its time-out meets
  the next request.
- *RTSP.* One resource, three requests of which two can be pending together, one event.
- *ASR library.* Two calls, a buffer of one or two frames, up to three written: the
  messages of a first call that was given up meet the second.
- *Context.* One RTP termination, two sources, two sinks, and a capacity of four, so
  that the context can be full.
- *Jitter buffer.* Frames of two timestamp units, five to eight frames, timestamps that
  start three units before the end of an 8-bit word, packets up to six units late.
- *RTP.* Sender: two digits, short or of two segments, twelve ticks; the sequence number
  turns over at 8 and the timestamp at 24. Receiver: four packets of one source that turns over
  at 6, or three of three sources, one with the identifier 0.
- *Detectors.* Six frames, with time-outs of none, two and two and a half frames; nine
  windows of one digit (a tone, its end, the tone again), six of two.
- *Timers.* Three timers, and a clock that is rescheduled at 5 instead of 0xFFFF and
  runs to 7, so that a reschedule happens with timers in the ring.
- *Tasks.* A root with two children and two engines, started twice. The queue holds 6
  messages, more than the tree ever sends at once; section 7 has the full queue.
- *Text.* Two messages with up to two fields (empty, folded) and bodies that look like
  line ends or the start of a message, in a buffer of nine characters, in every segmentation.
- *Cyclic queue.* Initial size 2 and five elements: two growths at every rotation.

Deadlock checking is off: every run has an environment that is bounded or may stop (a
client that has sent its requests, a clock at its bound, a server that has shut down).

## 5. Fairness

The threads of the servers, of a plugin and of the media engine keep running: weak
fairness of each thread's next step. Taking a message from the queue of the server
task has strong fairness where `MediaPrompt` makes it wait for a callback to end: the
callback is periodic and the queue is taken between two calls. Nothing is assumed of
clients, which may fall silent for ever, nor of speakers: only a STOP is sure to make
the media thread of the listening plugins act. In `ServerSession` the agent, the engines
and the media engine answer. The connection agents handle each operation and fire
their timers, a session destroys the channels it has removed, and clients need not close
anything; a server need not answer, except where the client has no time-out configured
(nothing else could end a request then). In `Rtsp` the two libraries and the MRCP sessions
run, and the client terminates its session in the end. In `AsrClient` the caller goes on
with a call it has begun, the server answers, and a recognition ends; the
library itself has a time-out only for the event.

## 6. Proofs

TLAPS proves the following for all values of the constants that satisfy the named
assumptions of the modules.

- `LibraryProofs!RingTypeCorrect`, `CyclicQueueRefinesFifo`: the ring is a FIFO queue
  for every set of objects, every initial size of at least two (the code's constant is
  100) and any number of resizes. The invariant `RingInv` says that `head` is `tail` plus
  the number of elements modulo the size; `ModIndex` and `ModNext` are the facts on
  the remainder that each step needs, `ResizeKeepsContents` that growth keeps the i-th
  element, and `ContentsSeq`, `AppendAsFunction` and `TailAsFunction` turn the array into the
  sequence.
- `LibraryProofs!PositionsKept`, `FrameBufferRefinesFifo`: the same for the frame
  buffer, whose positions grow without end and are reduced on access, for every number
  of frames and size of writes, on the condition that no restart overlaps another call
  (`Overlap = FALSE`). The invariant relates the positions to each other, to the write
  under way (`copied` is not yet counted) and to the contents; two waiting frames have different
  cells because they are less than `frame_count` apart.
- `LibraryProofs!AgreesAlways`, `ReportsAsHeard`: for all time-outs that are natural numbers, changed
  at any time, the detector reports what the listener expects. The invariant `Agree` says
  which count of the listener `duration` is in each state; the theorem on steps
  follows from it by cases on the state and the frame.
- `LibraryProofs!ThreeDetections`, `TonesOnce`: for every set of digits, any sound and any
  length of the digit buffer. `ThreeDetections` holds whenever the detector is reset: the
  invariant `WindowsInv` says that `last1` and `last2` are empty or the windows before
  (`Remembers`). `TonesOnce` needs `~Race`, that no reset falls in the middle of a window. Its invariant `TonesInv` says that `curr` is
  the tone that goes on (`CurrIsTone`), a tone being defined on the history of windows
  alone (`Tone`, `Since`); `ToneGoesOn` and `BelongsToTone` say how one more window
  continues or ends a tone.
- `TimerProofs!TimersFireAlways`: for any timers, time-outs, threshold of the reschedule and
  lateness of a wait that together fit the word. The invariant `TimerInv` says, until a
  reschedule has met a timer that is due (`caught`), that the ring is sorted and holds the
  timers that are set, and that each has at least the time left that the queue believes
  (`InTime`): `deadline` plus `elapsed_time` is not before `scheduled_time` plus the
  moment that `elapsed_time` stands for, which is the start of a wait or now (`Base`).
- `TaskProofs!Together`: for every finite tree of tasks, any engines and any length of the queues, if
  the server is shut down only when it has started (`WaitStarted`). The
  counts are not inductive: `TaskInv` has to say exactly what is owed to a task (`Exact`:
  children that have not raised start-complete, messages in its queue, engines that were asked), what its
  place in the code means for its state and flags (`Placed`) and for its children
  (`Family`), and that a termination is requested once and somebody waits for it (`Ending`).
- `ServerConnectionProofs!ConnectionsSoundAlways` (`TablesAgreeAlways`, `FreedExactlyUnusedAlways`): the
  safety of the server's connection agent, for any finite number of channels and
  connections. It is not inductive: whether a channel that is removed frees its connection
  depends on the step it is in and on the others. `Inv` adds `InItsTableOnly` and
  `ChannelsPlaced` (where a channel is in each phase), `Counted` (a reference count is the
  size of a table), `LastOnes` (only the last user of a closed connection carries the
  duty to destroy it), `ConnectionsPlaced` and `ClosedIsFreed`; `OneMore` and `OneLess`
  are the facts about cardinalities.
- `RtspProofs!AnsweredOnceByItsOwnAlways`, `InProgressIsWatchedAlways`,
  `SessionsEndOnceAlways`: the three safety properties of RTSP, for any finite set of resources, any
  number of requests and events, and every fault, time-out and failure of the connection.
  `RtspSessionProofs` is about one session: what each function of `rtsp_client.c` does to the
  client's (`ClientOK`: what is answered, waiting and watched; `Moves`: a step makes at
  most one request, with a CSeq larger than all before) and each function of `rtsp_server.c`
  to the server's (`One`: at most one answer is being prepared; `Phase`: running, stopping, ended).
  `RtspProofs` composes them. An answer is the client's own because every message under way
  (`Between`) that has the CSeq of the active request has its number too
  (`MatchingRequests`, `MatchingResponses`). That a session ends once needs, when all is
  orderly, that the request the client waits for is in one place: on its way, in one
  session of the server, or on its way back (`Placed`).
- `RecorderProofs!Invariance`, `TypeCorrect`, `StopSafe`, `AnswersInOrder`: for every
  set of methods, number of requests and schedule (`MediaPrompt` of either value). The
  properties are not inductive. `RecorderInv` adds `Serial` (the state machine
  has the one request that the session holds as active), `Token` (at most one
  answer is under way, in the RECORD handler, in `stop_response`, in `task_queue` or in
  hand, and it fits that request), `Machine` (the state and the recording go
  together, STOP waits only during a recording) and `Order` (identifiers grow from
  what was sent to the client through the active request and `request_queue` to
  `task_queue`). The module begins with the lemmas on `Order`, which do not depend on
  the resource, goes on to what every step does to the types and one signal or dispatch to
  `RecorderInv`, and has one lemma per group of handlers.
- `RecordingProofs!OneAtATime`: in every schedule the client is told of the end of a recording
  before it is told of the next one. The invariant `Recordings` follows the in-progress
  response and the completion of each RECORD from the plugin to the client, through
  `task_queue` and the message in hand, and uses that answers are in order.
- `RecordingProofs!KeptPromptly`: as long as no callback was overtaken, the recording the client
  was told of is the one that is recorded until it ends, and `recorder_record_complete` finds
  its `record_request` (`KeptUntilOvertaken`). The invariant `Prompt` adds to `RecorderInv` who owns the request of the
  plugin in each phase (`Owned`), what a STOP that is under way has left to do (`Stopped`),
  what the write callback still holds (`Written`) and what has been sent (`Kept`). After a
  callback was overtaken this is false (`AcceptedRecordKept`, section 7).

Only model-checked: everything else. Liveness and ENABLED are beyond the prover. So is
induction over data, and with it what a recursive definition or a fold computes:
`ClientConnection` (the receive loop: `AnsweredOnce`), `TextMessage` (the parser: `ParsedAsSent`),
`ClientSession` (folds over slots: `Answered`, `Settled`), `MpfContext` (the reset of the
associations row by row: `ContextSound`) and `ServerSession` (sums over slots: `CountedExactly`,
`AnswersWhenMet`). The other resources (`SynthChannel`, `ListenChannel`), `JitterBuffer`,
`RtpReceiver` and `RtpTransmitter` are in the prover's reach; their safety is model-checked so far.

## 7. Disagreements met while modelling

Checked as violation runs, each with a finding:

- `jitter_early`: `available_frame_count` is unsigned, so a packet that is ahead by more
  than the buffer holds is not discarded as `JB_DISCARD_TOO_EARLY` but written over
  waiting frames (`libs/mpf/src/mpf_jitter_buffer.c:328`).
- `client_cancel`: a disconnected client session says it cancels all queued requests and
  cancels the first (`libs/mrcp-client/src/mrcp_client_session.c:1222`).
- `text_body`: a body that begins with white space and arrives with its header loses its
  first line to the empty header (`libs/apr-toolkit/src/apt_text_message.c:67`).

Reproducible by adding the named invariant to the configuration of the run in brackets, without the
condition on the environment; each is a definition of the module that documents it.

- `AcceptedRecordKept` [recorder], `AcceptedSpeakKept` [synth]: the
  response to STOP leaves before the request is cleared; a quick client has its next
  request cleared instead.
- `MarkerForPending` [synth], `IsPendingAsDocumented` [listen]: a
  pending request is sent to the engine outside the serialisation of the session; a
  request that arrives before its response inherits `is_pending`.
- `NoNullSpeaker` [synth]: a SPEAK that completes while PAUSE is at the engine
  leaves `speaker` NULL for `synth_response_pause`.
- `NoNullRequest` [listen]: a named event in the frame that completes a
  recognition is logged through the request just cleared.
- `VerifyingIsInProgress`, `NothingLeftToStop` [listen]: a VERIFY that the
  engine refuses leaves the machine VERIFYING; END-SESSION leaves VERIFYING with the
  engine at work.
- `ActiveInProgress` [server_session]: a control message that no engine channel takes is
  dropped and stays the active request of the session.
- `ModifiedAtItsPosition` [server_session]: a modified offer is matched to channels by
  index although a channel that could not be created has none.
- `FoundIsOpen` [connections]: a channel may be told to use a connection its client has closed.

With other constants:

- `ShutdownOrderly` fails with `WaitStarted = FALSE` (a shutdown that overtakes the start
  of the thread is lost), `NoHang` with `Capacity = 1` (a parent joins a child that waits
  for room in the parent's queue; the code's capacity is 1024).
- Without `~caught`, `NoneOverdue` fails: `apt_timers_reschedule` underflows the time of
  a timer that is already due.
- `OwnAnswer`, `EventWillCome` and `DestroyedLast` of `AsrClient` fail with `Orderly =
  FALSE`. There is one `app_message`: a response followed at once by an event is overwritten
  and the call returns NULL; an event that comes between two waits signals nobody and the call
  runs into its time-out; the wait for the termination may be ended by a late event, and the
  session destroyed before the response.
- `FramePositions` of `FrameBuffer` fails with `Overlap = TRUE`. The library gets there:
  `streaming` is never reset in stream mode, so the restart of a second call overlaps reads.
- `OncePerTone` of `DtmfDetector` fails with `Race = TRUE`: a window under analysis
  during a reset counts for the tone after it.

Met in reading and reflected in the models:

- `apt_cyclic_queue_is_empty` returns TRUE for a queue that is not empty (`IsEmpty`);
  nothing calls it.
- *Client connection agent.* A response that nobody waits for (its request has timed out)
  makes the receive handler return before the buffer is scrolled; what came with it is
  parsed again with the next segment. Without a time-out this never happens (`NothingHeldBack`).
- *Client session.* A failed discovery leaves `subrequest_count` too high; an UPDATE or a
  REMOVE that makes no offer is not answered; the status of a failure is kept for later
  responses. `CountedExactly` and `AnsweredWhenQuiet` say for which worlds they hold.
- *RTSP.* Where `libs/uni-rtsp/src/rtsp_client.c:786` says `Cancel in-progreess requests` the
  session is taken off the queue before its request is cancelled; the cancelling looks for
  it there, does not find it, and the request is not answered (`OnDisconnect`). A connection that closes while the answer to a
  DESCRIBE is signalled tells the MRCP session to terminate twice (`SessionsEndOnce`).
- *RTP receiver.* After a restart the next packet of any source takes over, and a source
  with the identifier 0 is taken for none; one refused packet right after a report
  restarts the receiver; the report carries the last
  sequence number without its cycles, where `mpf_rtp_stat.h:83` documents the extended one.
- *Detectors.* Speech is reported after the time-out and one frame more. The plugins never
  reset the detector, so a request after NOINPUT can report it at its first quiet frame. A named event
  turns the detection of tones off for good, also across a reset; the first digit may be
  reported by both ways.

## 8. Not modelled

- Text other than the framing of messages: header values, SDP, URLs, grammars, results,
  file contents, logging, configuration; header inheritance beyond one parameter.
- Signal processing: codecs, mixing, the Goertzel analysis, the level of a frame.
- The SIP agents (the environment of the sessions), driven by Sofia-SIP, which is not in
  the repository; engine loading and factories; the command-line platforms.
- The loop of the media engine and its scheduler; the negotiation of media and the
  sockets of RTP, the layout of RTCP; the 32-bit overflow of `time_diff * rate` in the receiver
  (after some 268 s at 8 kHz); `mpf_buffer.c`, which nothing in the trunk uses.
- `asr_engine_create` and `asr_engine_destroy`, which start and stop the client stack.
- Of the parts that are modelled: video media, more than one audio medium, partial TCP
  reads in the connection agents (they are in `TextMessage`), events that no plugin of
  the repository sends (INTERPRETATION-COMPLETE, SPEECH-MARKER of an engine), the build
  with simultaneous termination of tasks, a timer that is set while it is in the ring (no
  caller does it).
- The liveness of the ASR library is checked for any schedule only: in the orderly instance
  an atomic restart waits for writes in progress, which the code does not.

## 9. Where to go on

1. The scheduler and the loop of the media engine over `MpfContext`; the client and the server
   connection agents joined over one TCP connection.
2. Proofs: the `Order` lemmas of `RecorderProofs` for the synthesizer, recognizer and
   verifier; `FramesInPlace` for packets within the depth of the buffer.
