# Visora in TLA+

Visora is a video management system: it keeps RTSP cameras connected, records
them, restreams them over RTSP, WebRTC and MoQ, plays recordings back, and runs
motion detection and neural models on their frames. This directory holds TLA+
models of its core logic, the TLC configurations that check them, and TLAPS
proofs.

    tlc -workers 2 -config MCMotionGate.cfg MCMotionGate
    tlapm MotionProofs.tla

Line numbers below refer to `src/src/...`.

## The system

| Part | State it keeps | Operations | Who calls it |
|---|---|---|---|
| `media/recording/MotionGate` | held segments, recent events | `addSegment`, `noteEvent`, `settle`, `flush` | RecordingManager, under its mutex |
| `media/recording/RecordingManager`, `RecordingSession`, `gst/BusWatcher` | an entry per camera (session, gate, mode), the segment rows, one watcher thread per pipeline | `apply`, `remove`, `stop`, the sweep worker, the segment callbacks | camera events and the stream manager's reports (HTTP and worker threads), `main` |
| `media/source/SinkFanout`, `EncodedSource` | sinks, GOP cache | `add`, `remove`, `deliver`, `clear` | one streaming thread, all consumers |
| `media/source/CameraSourceRegistry` | sources and transcodes by key, idle timers | `acquire`, `acquireH264`, the sweeper | recorder, viewers, AI |
| `media/source/RtspEncodedSource`, `Timeline` | the pipeline, its bus thread, offset, last clock, last delta | `start`, `deliver`, `correct`, `stop` | the registry, the streaming thread, whoever lets go last |
| `media/source/BackPressure` with the `push` of the recorder and of WHEP | waiting for a keyframe or not | `admit` | the streaming thread, per consumer |
| `media/source/PlaybackSource` | controls, the open segment, position | `seek`, `setRate`, `setPaused`, `stop`, the feeder thread | a playback viewer's requests |
| `media/stream/StreamManager`, `RetryPolicy` | a session per camera; the worker's copy of one | `apply`, `remove`, `start/stop/restartStream`, the worker | HTTP threads, camera events |
| `media/stream/RtspServer` | mounts, medias and their feeds, a loop thread | `start`, `stop`, `publish`, `unpublish`, `invoke` | stream manager, RTSP clients through GStreamer |
| `media/moq/MoqFeed`, `MoqService` | a viewer's socket and its unfinished frame; the map of viewers | `push`, `open`, `close`, the sweeper, `stop` | the streaming thread, HTTP |
| `media/webrtc/WebRtcService`, `WhepSession` | live and playback sessions and their parts | `offer`, `offerPlayback`, `close`, the sweeper, `stop` | HTTP, GStreamer threads |
| `media/ai/AiRuntime`, `FrameTap` | a decoder per camera, a worker per job | `applyCamera`, `removeCamera`, `applyJob`, `removeJob`, `stop`, the workers | HTTP, the stream manager's worker, decoders |
| `media/ai/MotionEventRecorder`, `MotionSnapshotWriter` | open events, event rows, a short queue of pictures | `observe`, `setSaving`, `closeAll`, `capture`, the writer | decoders, camera events, `main` |
| `media/camera` | the cameras' rows and runtime states | `create`, `update`, `remove`, `reportRuntime`, events | HTTP, stream manager |
| `vision` | the jobs, a job's tree of stages, zones, detectors, result sinks and their consumers | `validate`, `run`, `analyse`, `publish`, `stop` | HTTP, workers, decoders |
| `vision/models`, `vision/transforms`, `core/Image*`, `hal` | none, but for the registries' cached choice and loaded models | decode, suppress, crop, letterbox, select, load, run | workers |
| `store` | rows in memory or in PostgreSQL | upsert, list, close, remove | all services |
| `media/recording/PlaybackService`, `HlsPlaylist`, `api/ByteRange`, `PlaybackController` | none | list, seek, playlist, thumbnail, ranges of a file | HTTP |
| `api/ws` | the last state sent of a camera | `publish` | the stream manager's reports |
| `gst`, `api` mappers and configuration, `core` text | none | text of pipelines; parsing of requests | |
| `apps/visora/main.cpp` | the wiring, the restart from the rows and the order of shutdown | | |

The parts meet in three ways. Frames go from a camera's source through the
fan-out to the consumers, each behind its own queue. Changes of a camera go from
the HTTP API to the camera service and by its events to the stream manager, the
recorder and the AI runtime. Reports of the stream manager's worker come back
through `main.cpp` (235-286) into the rows, the websocket feed, the recorder and
the AI runtime, so these are called from several threads.

The hard part is always the same: each component guards its state with one
mutex and must not hold it while it waits (stopping a pipeline, probing a
camera, joining a worker, calling a sink). Everything interesting is in what can
happen in that gap, and in what comes late: the last "fragment closed" message
of a session that is being stopped, a frame on its way to a consumer that has
left, a probe's answer for a camera that was changed meanwhile, a seek while the
feeder waits for a frame to be due. `PROJECT.json` lists these hazards line by
line.

## Modules

State machines:

| Module | Models | States and actions |
|---|---|---|
| `SegmentFate` | the promise of motion recording: a segment is undecided, then decided once; never dropped if an event's window reaches it for certain | abstract specification |
| `MotionGate` | `MotionGate.cpp`, `segmentIsWorthKeeping` | `held` and `events` are the members; cuts wait `inFlight` until they are offered. Calls are atomic because the manager's mutex is held |
| `Recorder` | `RecordingManager.cpp`, `RecordingSession.cpp`, `BusWatcher.cpp`, the rows of `InMemoryRecordingRepository.cpp` | one camera; a program counter per caller for the two phases of `apply`, for `remove` and `stop`; the mutex is a variable only where a thread waits while holding or wanting it; every watcher is a process that takes its messages in order |
| `SinkFanout` | `SinkFanout.cpp` | `deliver` is split into its locked half and one step per sink, since sinks are called without the lock; consumers are primed from the cache under it |
| `PushFeed` | `BackPressure.hpp` and `push` in `RecordingSession.cpp` and `WhepSession.cpp` | a queue that drains at the consumer's pace and the gate in front of it |
| `MoqFeed` | `MoqFeed.cpp` | a send takes all, a prefix or nothing of what it is offered, or fails; what is left is `pending` |
| `FramePath` | a source's fan-out with a recorder and a MoQ viewer | composes the three above: a frame the fan-out hands a sink goes through its gate before the next |
| `SourceRegistry` | `CameraSourceRegistry.cpp`, `IdleRetirement.hpp` | sources and transcodes are objects that live while something refers to them; `acquireH264` is two critical sections; the sweeper stops what it retired after releasing the lock |
| `Timeline` | `Timeline.hpp` | one frame per step, with stamps valid or missing |
| `RtspRestream` | `RtspEncodedSource.cpp`, `RtspServer.cpp`; uses `Timeline` for the frames | who holds a source decides who tears it down; `start` in its steps against the bus thread; every media has a clock of its own; `invoke` queues work for the loop, which may be told to quit first |
| `StreamManager` | `StreamManager.cpp`, `RetryPolicy.cpp` | the worker copies a session, probes without the lock, publishes, and writes back; other threads may come between any two of its steps |
| `CameraRows` | `Camera.cpp`, `CameraRuntime.cpp`, the validation of `CameraService.cpp`, the camera rows of both stores | operators: a change is a record of the fields it supplies |
| `CameraLifecycle` | `CameraService.cpp`, the callbacks of `main.cpp`, the rows, the camera feed, the start from the rows and the shutdown | composes `CameraRows` with `StreamManager`; a request and the worker's report are threads that call one part after another; the process may die between any two steps and start again from the rows. Recorder and AI runtime are reduced to what they were told last |
| `Playback` | `PlaybackSource.cpp`, the seek arithmetic of `Recording.cpp` | the feeder thread at its five places; a control writes what the feeder reads at its next step; files become complete and are deleted meanwhile |
| `Viewers` | `WebRtcService.cpp`, `MoqService.cpp`, the lives of `WhepSession`, `MoqFeed` and `TranscodedSource` | a session is a chain of parts, built and torn down part by part; three threads may find it; sinks may be in the middle of a call |
| `AiRuntime` | `AiRuntime.cpp`, `FrameTap.cpp` | every call is a thread that goes from one section under `m_mutex` to the next; workers have a slot for one frame and a loop |
| `MotionEvents` | the motion callback of `AiRuntime.cpp`, `MotionEventRecorder.cpp`, `MotionSnapshotWriter.cpp` | a frame is one action from detector to queue; the writer looks at its queue, dozes off and sleeps in three steps because `stop()` notifies without the mutex; settings arrive in two steps |
| `ResultPath` | the worker's loop of `AiRuntime.cpp`, `ResultSink.cpp`, `UnixSocketSink.cpp` | jobs that publish take turns at the sink's mutex; a record leaves in pieces, each of which may go in part, fail or meet a closed socket; consumers come, trickle and go; shutdown takes the workers of the table, ends and joins them one after another, and then stops the sinks; a worker that was not in the table (being applied, or left behind by two calls) runs on |

Operators with laws. These parts keep no state from call to call, or keep it in
an argument, so they are functions, and what is true of them is said as
assumptions (`ASSUME`) that TLC evaluates before the run that extends them:

| Module | Models |
|---|---|
| `Geometry` | `core/ImageMath.cpp`, `core/Image.cpp`: letterboxing and back, clamping, growing a crop, where planes lie in a buffer |
| `Decoders` | `vision/models`: candidates from YOLOv8 heads (detect, pose, segment), suppression, CTC text, text blobs and lines, the best class, masks |
| `StageTree` | `AiJob.cpp`, `AiJobService.cpp`, `StageRunner.cpp`, `vision/transforms`: which jobs are accepted, how a tree of stages runs over a frame, whom a change is told to |
| `MotionDetector` | `MotionDetector.cpp`, the motion callback's zones: samples, cells, parsing of zones, what fires |
| `Imaging` | `ImageOps.cpp`, `RgaImageOps.cpp`, `CpuImageOps.cpp`, `RgaBuffer`: which jobs the engine is given, what falls back to OpenCV, what bytes an operation writes |
| `Backends` | `Registry.hpp`, `InferenceBackend.cpp`, `Capabilities.cpp`, `RknnBackend.cpp`, `OnnxRuntimeBackend.cpp`: the choice of a backend, loading with its checks and its clean-up, running |
| `VisionLaws` | the laws of the six above; evaluated by `MCResultPath` |
| `Library` | both recording stores, motion events and AI jobs in both, `PgRow`'s reading of columns, `PlaybackService.cpp`, `HlsPlaylist.cpp`, `ByteRange.cpp`, the windows and widths of `PlaybackController.hpp` |
| `LibraryLaws` | its laws, mostly that the two stores answer alike; evaluated by `MCPlayback` |

A law is stated against a reference definition where there is one: suppression
against "a maximal choice without conflicts", a segment listing against the set
of recorded instants, a byte range against the set of bytes asked for, the
PostgreSQL store against the one in memory. The laws' bounds are the small sets
in their quantifiers (grids up to 5 by 4, trees of up to 4 or 5 stages, pictures
of a few pixels, writes of three rows).

`MC<Module>` extends a module with the values of its constants. A definition
marked `mutant` is a plausible bug: put in the place of the definition after it,
it must break a property (`PROJECT.json`, `mutants`). `<Module>Proofs` holds the
theorems of a module.

Where a module uses another one's guarantee instead of its steps it says so:
`Recorder` takes for its gate any choice that keeps what `MotionGate` proves (while
an event is remembered no segment it surely covers is dropped, and it is not
forgotten before a segment that closed within its post-roll is decided, provided
closed segments reach the gate within the pre-roll); `AiRuntime`
and `MotionEvents` take for a camera's source one that starts or does not, and
`CameraLifecycle` takes for recorder and AI runtime what they were told.

## Runs

States are distinct states, times are with two workers; the runs without a
number of states take about half a minute at most.

| Run | Size | What it shows |
|---|---|---|
| `MCMotionGate` | | with segments cut at any instant, offered late and settled at any time, nothing an event reaches back to is dropped (`PreRollNeverLost`), and the gate implements `SegmentFate`: each segment is decided once (`ImplementsFate`) |
| `MCRecorder` | | two threads change or remove the camera and a third shuts down while segments are cut, closed, offered, swept and expired, and pipelines, rows and drains fail: one session at a time, no footage that an event asked for and that closed within its post-roll is dropped, whichever events were forgotten meanwhile, the open file stays, rows are closed, the gate holds only what is listed and undecided, and no circle of threads waits for itself (`NobodyIsStuck`: a call joins a watcher whose last callback wants the manager's mutex) |
| `MCFramePath` | 3.4 million, 0.7 min | the source may begin with deltas, as every camera does. Each consumer hears an unbroken run, across the seam between cache and live stream; a recorder that falls behind stores what decodes from a keyframe, or from the camera's first frame, on; partial and failing sends leave the viewer whole frames, and it lacks a reference only at the first frame it was handed or where a frame could not be mapped (`MoqFeed.cpp:116`) |
| `MCSourceRegistry` | | what is watched runs, a camera is connected to once, and what nobody watches is given back: the transcode, then the source it consumed |
| `MCCameraLifecycle` | 1.7 million, 3.5 min | what counts as published is the present source, whatever was done during the probe; once nothing is under way, row, stream manager, recorder, AI and websocket agree (`SettledPartsAgree`); a camera whose removal was answered never comes back, also if the process died half way (`BuriedStaysBuried`); viewers survive a rename, unless the hardware was edited since the worker looked at the camera; nobody is told before the row is written; a wanted camera is probed for ever |
| `MCRtspRestream` | 530 thousand, 1.5 min | the corrected clock never goes back or jumps; each media's clock starts at zero, however late it joined (`OwnClock`); a source nobody holds comes down, whoever lets go last; a call into the server's loop returns |
| `MCPlayback` | 370 thousand, 0.6 min | however controls and rows change at any of the feeder's waits, a seek is acted on, nothing before it is shown and nothing is shown twice across files (`ShownInOrder`), and stopping returns. First evaluates `LibraryLaws` |
| `MCViewers` | 610 thousand, 1.5 min | a session is stopped by one thread, completely, with readers before what they read, also if it failed half way; a browser that left without a word is reaped |
| `MCAiRuntime` | 1.1 million, 0.6 min | a camera is decoded once and only for somebody, the motion detector is on the decoder that runs, and a job changed by one thread at a time has one worker |
| `MCMotionEvents` | | movements less than the hold apart share a row, the newest pictures wait, and the writer takes up what was captured |
| `MCResultPath` | 370 thousand, 1.7 min | a consumer reads whole records, whatever its pace, and one that was cut off in a record is closed; the program stops; a closed sink is not written to, and while it closes only by a worker that `AiRuntime::stop()` did not find in its table (`StoppedIsSilent`). First evaluates `VisionLaws` |
| `MCPlaybackDecodes` | violation | see below |

Every module has a type invariant (`TypeOK`, `PathTypeOK`, `MoqTypeOK`,
`LifeTypeOK`, `RestTypeOK`), which TLC has checked and which can be added to any
of its configurations. So can these, which hold as well; the runs keep to what is
harder to see: `EverySecondAccounted`, `KeptForAReason`, `ForgottenIsHarmless`
(MotionGate), `EverybodyReturns` (Recorder, under `FairSpec`, with
one caller and no symmetry), `CacheIsWithinLimits`, `LiveIsCurrent`,
`StartsAtGop`, `QueueIsBounded` (FramePath),
`OneTranscode` (SourceRegistry), `OnTheTimeline`, `GapSurvives`, `OneAttachment`
(RtspRestream), `PauseHolds`, `EndedMeansIdle`, `RunsOut` (Playback),
`StopLeavesNothing` (Viewers), `CalmEdgesAgree`, `OpenIsKnown` (MotionEvents).

## Disagreements with the comments

`MCPlaybackDecodes` checks a sentence of the code's own comments and finds a
behaviour of the code that contradicts it: after a seek, the frames between the
keyframe and the instant asked for are dropped, not sent at full speed, so a
decoder gets delta frames without their references. The quotation is in
`PROJECT.json` under `findings`.

The following statements are what the comments, or a careful reader, would
expect; each is defined in its module and is false of the code. Put one into the
configuration named, in the place of its properties, to see its counterexample.

| Configuration | Property | Disagreement |
|---|---|---|
| `MCMotionGate` | `VerdictIsExact` | a segment longer than the hold can lose an event that covered its beginning: the horizon of pruning counts from its end |
| `MCRecorder` | `NothingIsLeaked` | `stop()` moves the entries away before the last segments close, and a restart replaces the gate with all it held, so no gate decides them |
| `MCRecorder`, `Cameras <- PlainRows` | `UnchangedRowKeepsSession` | `recordingEnabled` with mode Off is restarted by every `apply`, since the effective mode is compared with the row's |
| `MCRecorder` | `DanglingRowIsRetried` | if the rows cannot be removed after the files were, nothing tries again |
| | `SettledMeansRecording` | a session whose pipeline failed still counts as running |
| `MCFramePath` | `StartsAtKeyframe` | a cache that is not empty is taken for one that begins at a keyframe (`SinkFanout.cpp:49`, 111-123): before the source's first keyframe, and after `clear()`, it holds deltas and a consumer is primed with them. `fanout_tests.cpp` joins the consumer first and does not meet it |
| `MCFramePath` | `RemovedHearsNothing` | a removed consumer may still be called once |
| `MCSourceRegistry`, `Hevc <- MCStreams` | `GetsTheStreamAsked` | after a repoint a viewer may get the old stream's transcode |
| `MCCameraLifecycle` | `StoppedStaysStopped`, `RemovedLeavesNothing`, `OnlineHasMount` | an operation during the worker's probe is overwritten, leaves its mount (also that of a camera whose source was moved and which was then removed, `StreamManager.cpp:191`), or leaves a camera online without one |
| | `WorkerSurvives` | the worker's loop stands on a map node that `remove` may have erased |
| | `RenameDoesNotStart` | applying the unchanged row of a stopped camera starts it |
| | `StoppedIsReported` | Online may be reported after the Offline of a later stop |
| | `RecordingHearsEveryChange` | `main.cpp:316` says "Recording hears about every change and decides for itself"; 319 tells it only of a changed address, hardware, mode, switch or segment length, so the retention it sweeps by and the gate's pre- and post-roll stay as they were |
| | `RenameKeepsViewers` without its exception | `StreamManager.cpp:62-63`: "A rename reaching here must not drop the viewers". The worker's write-back compares addresses only (`StreamManager.cpp:191`), so a camera put on other hardware during its probe counts as published with the hardware it had, and the next change of its recording takes its mount down (`StreamManager.cpp:65`) |
| `MCCameraLifecycle`, `Postgres = FALSE` | `EditKeepsTheState` | `CameraRepository.hpp:53-54` says an edit leaves the reported state alone; `InMemoryCameraRepository.cpp:43` stores the row it is given, with the state as it was read |
| `MCCameraLifecycle` | `DownRecordsNothing` | the shutdown of `main.cpp` (482-498) stops recording before the stream manager, whose worker may start it again |
| | `SavingFollowsTheRow` | two edits, or an edit and a report, may leave the saving of motion events as the older row had it |
| `MCRtspRestream` | `FailureIsNoticed` | a source that fails while `start()` is still under way is set running afterwards (`RtspEncodedSource.cpp:97-99`, 264) |
| | `DeadIsReplaced` | a client that comes while the media of a failed source is shared gets that media (`RtspServer.cpp:320-324`) |
| | `StoppedFromOutside` | the last one to let go of a source may be its own streaming or bus thread |
| `MCPlayback` | `EndIsReported` | a seek that clears `ended` after the feeder set it for the new position hides the end |
| `MCViewers` | `BareCallsEnd` | a WHEP session that reads the shared source of its camera may be freed while a frame is being pushed into it |
| | `BrokenIsReaped` | a WHEP session whose pipeline failed during negotiation is marked alive afterwards |
| `MCResultPath` | `SinksOutliveCalls` | `main.cpp` stops "AI first", then the sinks; a worker that `AiRuntime::stop()` does not find in its table, because `applyJob()` has not entered it yet (`AiRuntime.cpp`, 443-449) or two calls left it behind, may be about to use the sinks when `stopAll()` clears them without a lock |
| `MCAiRuntime` | `OneWorkerPerJob` | two changes of one job at once leave two workers, one of which nothing stops |
| | `RunningIsFed` | a decoder handed to a job that is not yet entered may be retired by another call |
| | `StopIsFinal` | `applyCamera` after `stop()` builds a decoder again |
| `MCMotionEvents` | `EdgesAgree` | a failed insert, or saving switched on in mid-movement, leaves an event without the picture its frame would have carried |
| | `OpenIsWatched` | motion or saving switched off leaves the row open until shutdown |
| | `NothingLeftOpen` | a decoder built after `closeAll()` opens a row that is never closed |
| | `WriterEnds` | `stop()` of the snapshot writer may notify between its predicate and its sleep, and joins it for ever |

What the laws found is part of them, as the law's exception or as a law of its
own:

* `GateIsNoByte`: the threshold of a quantised pose head is computed in an
  `int` and compared with a byte (`Yolov8Pose.cpp`, 144-147); past the
  byte's range the gate lets everything or nothing pass. Detection heads compare
  quantised scores with `>` and float ones with `>=`.
* `SiblingsAreRunOverToo`: a stage that is the child of the second of two
  siblings is run over what the first one found as well, as `StageRunner` gathers
  children by level, not by stage.
* `OneFailureLosesTheFrame`: a failure in one branch throws the others' results
  away.
* `ReportMarksTheChosen`: when a chain of image operations is used, the
  capability report marks none of its members.
* `FedWhole`: an ONNX model whose second dimension is 1 loads but no picture can
  be run on it.
* `UnreadableIsTheCorner`: `MotionDetector.hpp` says that what cannot be read
  yields no zones; `{}` yields the corner cell at the most sensitive level. The
  header also says that the first frame after a change of resolution is not
  judged; it is (harmlessly, `StillPicturesAreQuiet`).
* `StoresDifferOnRewrites`: PostgreSQL keeps a segment's identifying fields as
  first written, the store in memory as last written. `ClosingNothing`: closing
  an event that is gone fails in memory and succeeds in PostgreSQL.
* `EventsAgree` excludes an end of 0, which leaves an event open in memory only.
* `WindowIsListed`: `Recording.hpp` says that a segment that merely touches a
  window is included; `overlaps` is half-open and does not.
* `SeekIsExact`, `LatestIsNewest`: a seek looks one day ahead, the latest picture
  one day back; older footage is "not found".

Not stated as a formula: a frame that the MoQ gate admitted and that cannot be mapped
is left out and the deltas after it are sent (`MoqFeed.cpp:116`), while
`BackPressure.hpp` (3-17) says that after a dropped frame nothing is sent until the
next keyframe (`WireDecodable` names the case, by `unmapped`); `maxFps` of a job is
stored and sent but applied by nothing (`AiJob.cpp:34`); the sink's accept loop ends for good at the first
error (`ResultPath!AcceptFails`), after which no consumer is taken in; a consumer
that trickles never meets the socket's timeout and holds every job's publishing
up (`ProgramStops` holds because the last frame of a job is finite).

## Bounds

Counters are bounded in guards by the constants whose names begin with `Max`;
`Patience` (registry) bounds how many sweeps pass between `acquire` and
`addSink`.

* `MotionGate`: a pre-roll of 2, a post-roll of 1, seven instants, two events.
  The hold, the prune horizon and the lag of an offer differ from one another,
  and seven instants let a segment be cut, held, settled and its event pruned.
* `Recorder`: two callers meet in `apply`'s gap with two calls, and `stop` is a
  third thread; the two callers are interchangeable (`SYMMETRY`). Two sessions
  make a restart; two files make one open and one closed. A third file or
  session would wait behind what these do.
* `FramePath`: a recorder and a viewer, three frames of one or two units, a cache
  of two frames and three units, a queue that overflows on its second unit: the
  cache overflows by count and by size, a GOP begins while a consumer is being
  primed, a frame is cut in the socket and another dropped behind it. A frame
  is a keyframe or not as it comes, the first one too. Proved without bounds.
* `SourceRegistry`: two consumers are the least that share, two streams the least
  that a repoint needs. A linger of one sweep tells "idle once" from "idle long
  enough"; two live sources and two transcodes let a new one be built while the
  old one is being stopped.
* `CameraLifecycle`: one camera (parts of different cameras meet only in the
  worker's scan, whose order `StreamManager` was checked with on two), two
  requests, one crash, two streams, two hardware settings, and four changes: one
  of a field no pipeline reads, of the address, of the hardware, and of recording mode
  and motion together. Of the codec the prober reports the model keeps whether
  the camera is live, and that may change from probe to probe.
* `RtspRestream`: two medias, two viewers, three frames, jumps of more than two
  units; a keyframe every second frame, so a media may join inside a GOP. Two
  calls of `invoke` meet the loop's end.
* `Playback`: two files that meet and one after a gap, seeks into the middle of
  the first, the second and past the end, normal speed and keyframes only, three
  controls.
* `Viewers`: two sessions of the four kinds, one sink in a call: two meet in the
  sweeper's and the stopper's lists.
* `AiRuntime`: two threads, two jobs, two streams and four calls, the threads and
  jobs being interchangeable. The properties have also been checked with five
  calls and without failures (16 million states), where a camera can be removed
  and brought back while a worker of its first life ends.
* `MotionEvents`: one camera, a hold of two, three rows, a queue of one, one
  change of the settings. Instants are kept as ages up to the hold, so time is
  not bounded. Another camera would share the writer's queue only, which one
  camera fills as well.
* `ResultPath`: two jobs, two consumers, records of two pieces (the length and
  the body), two frames, any of the workers not in the table: one consumer is
  dropped inside a record while the other is being written to and another job waits.

Deadlock is not checked: calls, frames and time run out in every model, and the
components really end at shutdown. What must not stop is stated as liveness, or
in `Recorder` as `NobodyIsStuck`: whenever a thread is inside a call, some
thread's next step is possible.

## Fairness

* `SourceRegistry!FairSpec`: the sweeper's loop waits with a timeout of a second
  and sweeps again (`CameraSourceRegistry.cpp`, `sweepLoop`), so weak fairness of
  a sweep.
* `CameraLifecycle!LifeFairSpec`: the worker takes its next step, a thread that
  is in a callback goes on, and the waiting of a session ends when it is due.
  Nothing is assumed of requests or cameras.
* `RtspRestream!RestFairSpec`: the appsink's thread, the loop, `start()` and the
  registry's sweep go on; a sink that was called returns. Frames, clients and
  failures may never come.
* `Playback!PlayFairSpec`: every wait of the feeder has a timeout, so its next step
  comes; a request that entered `seek` returns from it. A pull that times out goes
  round again, so strong fairness says that a file that is pulled again and again
  gives its next frame or its end. `RunsOut` needs it; `SeekIsTaken` and
  `StopReturns` hold without it, since the feeder looks at its controls each time.
* `Viewers!FairSpec`: the sweeper wakes by a timeout, a thread that took a session
  stops it, a request that builds one goes on, a sink that was called returns, and
  the connect timeout passes. Nothing is assumed of browsers or cameras.
* `MotionEvents!EventsFairSpec`: the writer's thread runs when it can. Once asleep it
  runs only after it was notified.
* `ResultPath!FairSpec`: a worker that can take its next step again and again
  takes it: strong fairness, since the mutex it waits for is free in between. The
  same for the thread that lets consumers in. The socket's send timeout is why a
  piece that cannot be sent fails in the end. Frames are finite, since the decoders
  stop with the runtime.
* `Recorder!FairSpec` (for `EverybodyReturns`): a thread that can run does; a
  watcher takes its messages; a muxer that was given EOS finishes its file.

`MotionGate`, `FramePath` and `AiRuntime` state safety only.

## Proofs

Eight modules of proofs hold for every value of the constants. Each rests on an
inductive invariant that was checked by TLC first.

* `MotionProofs`. Of the gate: `GatePreRollSafe` is the property the component exists
  for: nothing is dropped that an event reaches back to. It needs
  `GateAssumption`'s `MaxLag \in 0 .. Pre`, that a closed segment is offered
  within the pre-roll: events are pruned by age, and the invariant says that an
  event missing from memory is too old to reach the end of a segment that is
  held or in flight (`GatePruningHarmless`). From it follows that every step is
  one of `SegmentFate` or a stutter (`GateImplementsFate`). Of the motion events:
  for a camera that was left alone (`calm`) the row is as quiet as the detector's
  last trigger while it is open, and quiet for the whole hold when there is none;
  detector and recorder store alike; and no event runs that the recorder did not
  open (`Agrees`). From the first part follows `EventsAreApart`, from the others
  that the frame that opens a row carries its picture (`EventsCalmEdgesAgree`),
  and the cases that end `calm` are the ones `EdgesAgree` fails by. Of the
  writer's queue: it ascends, and every carried row from its head on is in it,
  which taking the head and dropping it both keep (`EventsNewestIsKept`).
  `EventsOpenIsKnown` is inductive with the rows' types alone.
* `FramePathProofs`. Of the fan-out, for any source: the invariant relates the cache
  (the last frames, from a keyframe or from the source's first frame on), each
  consumer's last frame and the position of the delivery in progress;
  `NoGapNoRepeat` fails without the part about the consumers not yet reached, and
  `FanoutStartsAtGop` says that nobody starts inside a GOP of which the cache has
  lost the beginning. Of the push: the frames sent since the last
  keyframe are consecutive, or the gate is waiting; with it, decodability and the
  bound of the queue. Of the MoQ feed: the invariant is about what was sent
  followed by what waits to be sent. A flush does not change it, a frame that is
  admitted is added to its end, a close cuts it; while the feed lives it ends
  where a frame does, with the newest frame unless frames are being dropped. From
  it `ReaderIsServed`, for frames of any number of parts and any prefixes taken; a
  frame that `gst_buffer_map` refuses is remembered in `unmapped`, for the code
  skips it without waiting for a keyframe. Of the three together: what
  the recorder's push was offered is the beginning of what the fan-out handed it,
  read through the camera's stream (`Handed`); so the path's steps are the push's
  (`PathImplementsPush`) and the socket's (`PathImplementsMoq`), and what is
  recorded decodes from end to end (`PathFootageDecodes`), as does what a viewer
  gets (`PathReaderIsServed`). Of a recording played: whatever was shown is older
  than all that the open file has still to show (`Upcoming`) and not newer than the
  file's end, after which the next file is looked for; a frame that is held back
  until it is due stands between the two. From it `PlaybackShownInOrder`, under
  `FramesAssumption`: a row covers its file's frames, which
  `RecordingSession.cpp:357` computes from the fragment's own clock, and times
  increase within a file, that is, the camera sends no B-frames (`RtspServer.cpp:78`
  says the same of cameras "in practice"). `PlaybackPauseHolds` counts what may
  still come when a pause is asked for: a seek not yet taken and the step the
  feeder is in.
* `RecorderProofs`. One invariant carries the five properties of files and sessions. A
  file is in one place at a time: being written, announced or ended on the bus, open with the watcher,
  stored, held by the gate, in the sweeper's batch, or decided (`OnTheWay`,
  `Arrived`); each place says what the row and the disk hold. A session that is
  alive is the entry's or that of exactly one thread that stops it (`Owners`);
  while the manager runs that thread owns `m_applyMutex` (`Turns`), which leaves no
  room for a rival. Footage that was asked for, that closed within the
  post-roll and is undecided is known to the gate that will be offered it
  (`Promised`): the gate forgets an event only when such footage has been decided
  (`MayForget`), and a replaced gate can forget its events because nothing is under
  way when a new session is built. A file that is still being written when the
  post-roll ends is promised nothing (`PostRollEnds`). That events are not
  forgotten earlier is what `MotionProofs` shows under `GateAssumption`: a closed
  file reaches the gate within the pre-roll. On the bus of a session
  nobody gave up every announcement is followed by its end and the end of stream
  comes last (`Closes`). That the next file is one nobody wrote, and the next
  session one never built, are choices of a least element; they rest on the
  well-foundedness of the natural numbers, which the library states about a set
  and can be cited. `RecorderWaitsAreServed` is what `NobodyIsStuck` says, without
  `ENABLED` and for each thread: it can go on, or the watcher, the muxer, the owner
  of `m_applyMutex` or the worker it waits for can. It adds that `m_mutex` is held
  across no step and `m_applyMutex` by a thread that stops or builds only
  (`Waits`). The run keeps `ENABLED`, which owes nothing to guards written twice.
* `SharingProofs`. Of the registry: what was retired is out of everybody's reach;
  no entry and no consumer refers to it, so nothing can attach to it while the sweep that
  retired it stops it. Who has acquired and not yet attached is protected by time:
  the invariant counts the sweeps since the acquire against the sweeps that find
  the object unwatched. It needs `AttachesInTime`, `Patience <= Linger`: the code
  attaches a sink right after `acquire` returns, and the linger is seconds long
  (`CameraSourceRegistry.cpp:168`, `:237`), many sweeps of one second (`:14`).
  `OneConnection` and `RegistryOneTranscode` add that entries are the newest
  objects: a second one is built when the first failed, was retired or is keyed by
  another stream or rate. Of the AI runtime, first the jobs: what a
  thread has taken out of the table it alone shuts down, what it builds it alone
  puts in, and a slot is built in only when nobody refers to it; so of a job that
  one thread at a time changes (`contested` remembers the others) every worker
  that still runs is in the table or in that thread's hands, and never both
  (`RuntimeRunsOnce`). Then the camera: every decoder that runs is the camera's or
  in the hands of the one call that took the camera away (`DecodersAreKnown`); the
  camera's is used, or a thread is on its way that will put a job to it or retire
  it (`DecoderIsUsed`); motion's sink is on the camera's own decoder and counted
  there once (`Wired`); and motion detection that a changed stream took down is
  owed by the `applyCamera` call that took it (`MotionReturns`). From these
  `RuntimeDecodesOnceForSomebody` and `RuntimeMotionIsWatched`. Without
  `contested` the first is `OneWorkerPerJob`, which the code does not keep (see the
  disagreements above).
* `CameraLifecycleProofs`. While the worker probes its copy of a session, a copy
  that counts as published is mounted from the copy's address, and a session that
  counts as published is still at it: whoever moves the camera takes the mount down
  first (`StreamsPublishedIsCurrent`, then the same of the whole service, whose
  steps call the stream manager's). `LifeBuriedStaysBuried` follows
  a removal from thread to thread and over a crash: once something was torn down
  the row is gone, and nobody who still has the camera in hand streams it.
  `LifePushAfterWrite` is an action property: what clients are told was stored
  before. These need nothing of a session or a row but its fields.

  `LifeSettledPartsAgree` needs what happens on the way to rest. Its invariant,
  `AccordInv`, says of every camera that no two calls have met on (`contested`
  remembers the others) either that nobody is at work on it and the parts have what
  its row says (`Resting`), or that one thread is, and what they have by the step
  that thread takes next (`Midway`): which of them has been told of the edit
  (`Telling`), what of a removed camera is left (`Cleared`), how far a report has
  come (`Calling`). The parts may lag behind the row only while something is owed:
  an unpublished camera's probe is due or a report waits (`Owing`). `Sound` ties
  session, mount, the worker's copy and the waiting reports together, also while
  the worker probes without the lock. A step of the worker eases every camera: what
  it owed stays owed, what it did not owe is as it was (`EveryoneEases`); a step of
  a thread concerns its own camera only (`ThreadAccords`). `RowsAreWhole` adds that
  rows, and the changes under way, have the fields the parts read, which is what
  `validateForCreate` and `validateForUpdate` see to; `LifecycleAssumption`
  has for it that "no address" is not an address that validation accepts, and the
  rows a process starts from are rows that a valid request could have created.
  The same invariant gives `LifePromisesKept`, what the stream manager's comments
  promise and overlapping calls break (see the disagreements above): of a camera
  without such calls, at any moment of the worker's pass, what was removed or stopped
  has no mount and what shows as online is mounted from its own address; and
  `LifeEditKeepsViewers`: `changed()` hands a changed recording to the stream
  manager as well, and no mount moves, whatever hardware there is.

  `StreamsRenameKeepsViewers` is about the stream manager alone, with calls that
  overlap as they like, for any hardware settings. Its exception is the case of the
  disagreements above: what was published has other hardware than the session, which
  happens when hardware is edited during the probe.
* `RtspRestreamProofs`. Of the timeline: `Anchored` ties the offset to the last
  output, so that the next one can neither go back nor jump. Of the source that
  runs its frames through it and the medias that restream them:
  `RestreamIsTimeline`, every step is one corrected frame or a stutter, so no client
  is given a frame that goes back (`RestreamNeverJumps`); and `RestreamOwnClock`, for
  any number of medias and viewers. Its invariant says that cached frames shown in
  the order they are decoded are in order and none is ahead of the timeline, so the
  first stamp a media was given, cached or live, stays its lowest. A late media is
  handed the cached frames one after another: that each step of it keeps the
  invariant is an induction over them, done with a least element (`UpTo`), and that
  the recursive function exists is shown the same way (`PrimedIs`).
* `ResultPathProofs`: the lock is held by the one job that sends, its place in the
  record says how far the consumer has got, and whoever has just been let in has
  been sent nothing and is listed once. From it `WholeRecords`, for any
  number of jobs, consumers and pieces. For `StoppedIsSilent` it adds that, once the
  sinks are being stopped, every worker that `stop()` took out of the table has
  ended, so the lock is another one's, and that a closed list stays empty.
* `ViewersProofs`: the list, the closer, the sweeper and `stop()` are owners of a
  session; one that is being opened has no owner, any other at most one, and one
  without has nothing left running. With what each step of opening has started,
  `OneStops`, `ReadersGoFirst` and `NothingOutlives` follow for any number of
  sessions and calls, under `Spec`: they need no fairness.

Only model-checked:
`NobodyIsStuck` of `Recorder` as it is stated (it is about `ENABLED`), and every liveness property
(`UnwatchedIsRetired`, `WantedIsProbed`, `UnwatchedComesDown`, `InvokeReturns`,
`SeekIsTaken`, `StopReturns`, `LostIsReaped`, `CapturesAreTaken`, `ProgramStops`),
which the proof system does not reach. The laws are evaluated over the sets they
quantify over and are not proved: most of the operators they are about recurse over
their data.

## Not modelled

`PROJECT.json` lists every part. Out of reach, and staying so: the arithmetic of
tensors and floats (softmax, embeddings, landmark fits), JPEG, the drivers behind
`hal`, RTSP and ICE themselves, SQL text, the text of pipelines, JSON, SDP,
configuration files, logging. The snapshot grabber, the thumbnail extractor and
the motion websocket feed are a call that succeeds or fails. A decoder whose
pipeline fails while it runs still counts as running (`FrameTap.cpp:214`); the
models take decoders that run as running. Segment files are named by local time
to the second (`core/Time.cpp:139`), so two segments begun within a second share
a file; files are distinct in the models. A database that fails in the middle of
a request is modelled for the recorder's and the motion events' rows only.

## Plan

Done: recording, sources, streams, restreaming, feeds and their composition,
playback, viewers, the AI runtime, motion events, the camera's life as `main.cpp`
wires it, results and their sinks, and, as operators with laws, vision, the
hardware layer, the stores and the recorded library. To come, in this order:

1. A decoder that fails while it runs, with `FrameTap`'s bus.
2. The snapshot grabber's cache and the motion websocket feed.
