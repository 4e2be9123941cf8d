# A verification development for Genea VMS

Genea VMS is four Python services around a MediaMTX media server. This
directory holds TLA+ models of the parts whose correctness depends on
interleavings, failures and restarts, TLC configurations that check them on
small instances, and proofs that TLAPS checks for every instance.

## 1. The system

| Service (under `src/services/`) | Keeps | Does |
|---|---|---|
| `rtsp-simulator` | cameras in SQLite, source files, one FFmpeg publisher per running camera | publishes files as RTSP streams; supervises the publishers |
| `vms` | cameras in SQLite; in memory: health, recording errors, a pending reconcile | keeps MediaMTX's managed paths equal to the enabled cameras; reports health and recordings |
| `video-analytics` | cameras, lines and events in SQLite, artifact files; one worker thread per enabled camera | decodes, detects, tracks, finds line crossings, records events |
| `semantic-search` | representations of events in SQLite, vectors, an immutable snapshot in memory | discovers events of video-analytics, embeds their images, answers text and image queries |

They interact by HTTP only: the VMS calls MediaMTX's control API; the analytics
reads RTSP and shows VMS recordings; semantic search polls the events of the
analytics. There is no shared memory between services, so each is modelled by
itself with the others as an environment that fails, restarts and answers late.

### Components, state, operations, hazards

* **VMS camera manager** (`vms/app/services/camera_manager.py`). Rows, `_health`,
  `_recording_errors`, `_pending_reconcile`, one asyncio lock per camera.
  Operations: create, update, delete; `_apply` of a row; `reconcile_all`;
  `refresh_health`; the poll loop. Hard: every await is a point where an edit,
  the reconcile and the poll interleave, calls fail with or without effect, and
  both MediaMTX and the backend restart. Correct when the paths MediaMTX serves
  mirror the rows, errors and health belong to the cameras they are shown for,
  and everything converges.
* **Analytics camera manager and stream worker** (`video-analytics/app/services/camera_manager.py`,
  `analytics/stream_worker.py`). Row and line, registry entry and its runtime,
  a thread with a stop flag, a one-slot pending configuration, sessions. Hard:
  a thread that does not stop in time, callbacks from replaced threads,
  configurations that overtake each other. Correct when no thread outlives its
  camera, the reported state is that of the thread, and sessions, trackers and
  crossing engines change together.
* **Media pipeline, detector, tracker** (`analytics/gst_pipeline.py`, `detector.py`,
  `tracker.py`). Per attempt: pads, the link, the first message of the bus; shared:
  one detector behind a try-lock. Hard: pad callbacks run in threads of GStreamer,
  between the worker's looks at their results and while the pipeline is taken down;
  buffers are laid out with strides, offsets and truncated rows. Correct when a stop
  always ends the worker, a camera is given up only for a cause that lasts, and
  every frame, box and track is what the library delivered.
* **Line crossing** (`analytics/crossing.py`). Sequential: stable sides, a deadband,
  dedupe keys, a cap, pruning. Correct when what it reports is what the path of the
  object did.
* **Event storage** (`persistence/event_storage.py`). Artifacts are written to a
  temporary directory, renamed, then the row inserted; retried by the worker;
  reconciled at startup. Hard: every step may fail, the clean-up too, two writers
  meet at a UNIQUE index, and the process is killed anywhere. Correct when readers
  see whole events, once each.
* **Recordings and images of an event** (`vms/app/services/recording_manager.py`,
  `video-analytics/app/services/vms_recordings.py`, `event_service.py`,
  `semantic-search/app/api/events.py`). No state of their own; one request crosses
  four services. Hard: a failure of one hop must not read as an absence at the
  next, days and milliseconds are cut differently by each, and everything changes meanwhile.
* **Semantic discovery** (`semantic-search/app/services/discovery.py`). Backfill cursor,
  high-water mark, overlap. Hard: events that appear out of order, a crash between
  page, mark and cursor. Correct when no event is lost for good.
* **Semantic index** (`services/indexer.py`, `reconciliation.py`,
  `retrieval/snapshot.py`, `persistence/repositories.py`). Claims, retries, the index
  revision, two tasks that rebuild the snapshot. Hard: reading vectors and
  revision at different moments, publishing out of order, claims left behind.
* **Inference coordinator and search** (`services/inference.py`, `search.py`,
  `retrieval/ranking.py`). One lock, bounded waiters, a timeout; a pure ranking.
  Hard: a timeout at the moment the lock is handed over; missing representations and ties.
* **Simulator camera and process managers** (`rtsp-simulator/simulator/app/services/camera_manager.py`,
  `process_manager.py`). Status in SQLite, a registry of processes, supervisors with
  an exit callback. Hard: the callback against start, stop and edit; a create that
  ends after clients have begun to act on the camera.
* Validation, presentation, web UIs, command lines: not modelled (section 8).

`PROJECT.json` lists every hazard at its line with the properties that cover it.

## 2. Modules and the code they model

| Module | Models | Kind |
|---|---|---|
| `DesiredStateMirror` | what the VMS promises about the media server | abstract specification |
| `VmsCameraManager` | the VMS camera manager against a MediaMTX that fails and restarts; implements `DesiredStateMirror` | component with its environment |
| `MCVmsCameraManager` | symmetry and small sets of payloads for TLC | model-checking module |
| `AnalyticsCameraManager` | camera manager and stream worker threads of one analytics camera | composition of two components |
| `FrameAnalysis` | samples, boxes and tracks of one frame, as functions | operators |
| `MediaPipeline` | attempts of one worker with the threads of GStreamer and the shared detector; extends `FrameAnalysis` | composition of three components |
| `CrossingEngine`, `MCCrossingEngine` | geometry and state of line crossings, with the worker and its tracker; three lines on a grid | component with its environment |
| `EventStore` | what readers of events are promised | abstract specification |
| `EventStorage` | the durable record of crossings; implements `EventStore` | composition of workers, disk, table and startup |
| `EventEvidence` | a request for a recording or an image through four services | composition of five components |
| `Discovery` | the mirror of the analytics' events in semantic search | composition of two tasks and their upstream |
| `SemanticIndex` | index states, the indexer, two rebuilders and the reconciliation | composition of four components |
| `InferenceCoordinator` | the lock of the model | component |
| `Search` | a turn with the model, then the ranking; extends `InferenceCoordinator` | composition of two components |
| `SimulatorCamera` | camera manager, process manager and upload storage of one simulated camera | composition of three components |
| `StreamWorker_proofs` | theorems about `MediaPipeline`, `FrameAnalysis` and `CrossingEngine`, which one thread runs | proofs |
| `SemanticSearch_proofs` | theorems about `Search`, `InferenceCoordinator` and `Discovery`: what answers are made from | proofs |
| the other `*_proofs` | theorems about the module they are named after | proofs |

Modules whose constants are small sets and numbers are instantiated directly by their
configurations. `CrossingEngine` and `Discovery` prefix the names of their
specification (`EngineSpec`, `DiscoverySpec`), because modules of proofs extend them together
with another component.

### How a step is chosen

Three services are asyncio programs: code between two awaits is atomic, so one
action is the code between two awaits together with the effect of the await
before it. The analytics adds threads; there a step ends where a thread reads
or publishes what it shares with another. Where the point is what survives a
crash, a step is one call of the disk or one transaction. A value that the code
keeps over such a point (the row under a lock, the list a poll has read, the
vectors a rebuild has loaded) is a variable.

### `VmsCameraManager`

| Variables | Code |
|---|---|
| `born`, `stored`, `row` | the table `cameras`; ids are never reused |
| `up`, `paths` | MediaMTX: whether its API answers, the managed paths |
| `health`, `errors`, `available`, `version`, `pending` | `_health`, `_recording_errors`, `_mediamtx_available`, `_mediamtx_version`, `_pending_reconcile` |
| `recent` | less than `reconcile_min_interval_seconds` since the last reconcile |
| `holder`, `step`, `carried` | the task that holds each camera's lock, where it is, the row it works on |
| `pc`, `reason`, `known`, `wanted`, `stale`, `todo`, `seen`, `recovered` | locals of the poll loop and `reconcile_all` |
| `dirty` | history: rows written and not known to be configured since |

`Create`, `Update`, `Delete` are the first halves of the three mutations, up to
the first await of `_apply` or of the removal; `Check`, `EnsurePath`, `Probe`,
`Remove` are the steps of `_apply` and of the deletion; `Wake` to `HealthSet`
are the poll loop with the reconcile inside it; `MediaMTXStops`,
`MediaMTXStarts`, `IntervalPasses`, `BackendRestarts` are the environment. Every
call may succeed, be refused, fail before it has an effect, or be carried out with its
answer lost.

Details that need an explanation: the poll clears `_pending_reconcile` before
it calls `reconcile_all`, which makes lines 446-447 without effect; deleting a
camera's lock from `_locks` is harmless because nobody waits for it any more,
and a PATCH of an unknown id leaves an unused lock behind, which the model does
not keep; recording errors of cameras that are created during a poll are
forgotten by its end (`SetHealth`), as in the code; a path of a disabled camera
is deleted by the reconcile without a lock, which may delete the path of a
camera enabled meanwhile: `PathsConverge` shows that this heals. A refused source
becomes UNKNOWN or ONLINE at the next poll although `camera_manager.py:373-376`
intends OFFLINE.

### `SimulatorCamera`

| Variables | Code |
|---|---|
| `life`, `row`, `files`, `mounted` | the row, permanent storage of uploads, the operator's mounted file |
| `process`, `last`, `registered` | FFmpeg processes, each with its supervisor task; `_processes` |
| `op`, `at`, `carried`, `managed`, `again`, `old` | the holder of the camera's lock, its place, and its locals |
| `creating`, `created` | a `create_camera` between its insert and its last step |

`Start`, `Stop`, `Restart`, `Delete`, `Update` take the lock; `UpdateWrites` to
`DeleteRow` are the rest of the edit; `StopBegins`, `Signal`, `Stopped` are
`_stop_locked` with `FFmpegProcessManager.stop`; `StartBegins` to `Survives` are
`_start_locked` with `FFmpegProcessManager.start`; `Exits`, `Supervise`,
`ExitCallback` are a process, its supervisor and the callback, which waits for
the lock. Cameras share nothing, so one shows everything. One flag, `loop`,
stands for all settings whose change restarts a publisher. `last_error` is not
modelled because it is set exactly in ERROR. In which order waiters get the
lock is left open, which allows more than asyncio's first come, first served.
Promoting an upload and inserting the row are one step: a crash between them only
leaves a file nobody names. An orderly shutdown ends where a restart does,
because the server ends its requests first.

A `create_camera` makes the row visible with its insert and ends only later:
`CreateStarts` takes the lock and starts from the record of the insert, as the operation
`create`; `CreateStops` writes STOPPED without the lock. Clients may do anything to
the camera in between, so the row may be gone, edited or RUNNING by then. Each of
these leaves something behind that the camera manager promises not to (section 7).
The history `stray` of a publisher says which: `orphan`, `outdated` or `mislabelled`.
`OnePublisher`, `PublisherRunsItsRow` and `StatusIsHonest` each except
the publisher that is marked so, and nothing else. A deletion removes the lock of the
camera from `_locks`, so that the callback of a deleted camera may run beside the
operation `create`; it finds no row to change, which is why one lock is enough.

### `AnalyticsCameraManager`

| Variables | Code |
|---|---|
| `camera`, `line` | their rows; a disabled line is no line |
| `ready`, `entry` | `_detector_ready`; the `WorkerEntry` with its runtime |
| `op`, `phase` | the operation that waits for a thread under the camera's lock |
| `thread` | every worker thread: place, stop flag, configuration in force, pending slot, session, engine |
| `lastInstance`, `lastSession` | the ids given out |

`Create` to `RemoveLine` are the operations, up to the join of a thread;
`Joined`, `JoinTimesOut`, `StopTimedOut` its outcomes; `Starts` to `Dies` the
steps of a thread; `Restart` the start of the service. The await between the write
of a row and the action on the worker is merged into one step: only the
holder of the lock writes either. The race of `is_alive` with a thread that is ending shows
only as a stale ERROR or stopping and is left out.

### `MediaPipeline` and `FrameAnalysis`

| Variables | Code |
|---|---|
| `pc`, `state`, `error`, `verdict`, `stop` | where `run` is, what it has published, why the attempt ends, `_stop_event` |
| `overdue`, `fatal`, `failed` | the stall deadline, and `codec_error` and `bus_error` of this iteration of `_pump` |
| `callback`, `wired` | how far `_on_pad_added` is with each pad; the sink of the depayloader |
| `seen`, `linked`, `unsupported`, `linkError`, `bus`, `closing` | the fields of `GstPipeline` |
| `detector`, `loaded` | who has the detector's lock; the model |

A pad callback is four steps because it takes its lock anew for each
(`Inspect`, `CheckSink`, `Link`, `RecordLink`). `BeginAttempt` to `Backoff` are the
worker: `PullFrame` and `PullNothing` are an iteration of `_pump` up to the frame, `Judge` its
end. A sample that is no usable frame takes the place of no sample. Whether a
frame is due, has a line to watch, or finds the detector busy is one choice,
`Skip`; what is done with its tracks is `Analysed`, and belongs to
`CrossingEngine` and `EventStorage`. The pending configuration is left to
`AnalyticsCameraManager`.

`Frame`, `Accepted` and `Tracked` of `FrameAnalysis` are the copy of a mapped
buffer, the filter of detections and the filter of tracks. Bytes are numbered, so that
a byte in the wrong place shows. `AnalysisIsSound` evaluates them on all small
arguments in the first states; section 6 proves them for all arguments.

### `CrossingEngine`

| Variables | Code |
|---|---|
| `line`, `histories`, `fired` | of the engine: the line, the stable side and point of each track, the persisted keys |
| `reported` | the observation that the worker is persisting |
| `live`, `active`, `observed`, `events` | the worker, the tracks of its tracker, those of this frame, the table |
| `trail` | history: the centroids of each track in this session |

`Observe` is `observe`, `Overflows` its exception; `Persisted`, `Dropped` and
`Abandoned` are what the worker makes of a report; `EndFrame` is `prune`,
`BeginSession` a new engine. Coordinates are integers and distances are compared
by their squares, so that the arithmetic is exact; the code's tolerance of 1e-9
in the orientation tests is 0. Epsilon is positive, as `SIDE_EPSILON` is: without a
deadband a point on the line would count for A's side. The reference `Completes` looks at the whole trail,
and decides whether segments meet by solving for the point, not by sides.

### `EventStorage`

| Variables | Code |
|---|---|
| `row`, `name`, `images` | the table; the name of each event's directory, and the images in it |
| `pc`, `key`, `crop`, `id`, `attempt` | a worker in `_persist_event` and `commit_event` |
| `fired`, `stopping` | the keys its engine suppresses; its stop flag |
| `service`, `known`, `todo` | whether the service runs, and the locals of `reconcile_startup` |
| `left` | history: directories whose removal failed |

`Observe` to `StartWorker` are the worker around the commit, `LookupFinds` to
`WinnerFails` the commit step by step; `Crash` kills the process between any two;
`ListRows`, `Sweep` and `StartWorkers` are the startup. `shutil.rmtree` with
`ignore_errors` removes everything or some of it. An insert raises without
an effect (SQLite rolls back). The day directory's sync has no step of its own: only the
process dies here, never the machine. `Complete` maps the state to `EventStore`:
an event is there when its row is and both of its images.

### `EventEvidence`

| Variables | Code |
|---|---|
| `kind`, `crossed`, `known` | the request, the time of the event, which services have a row of it |
| `row`, `configured`, `recorded`, `directory`, `file` | the camera in the VMS; its path, timespans and directory in MediaMTX; the image of the event |
| `pc`, `msg` | the hop the request or its answer is at; the answer |
| `seen`, `smooth`, `changes` | history: what was recorded when the playback server answered, whether a hop has failed; a bound |

Actions are named after the functions that serve each hop. The answer is judged
on every hop as the code does, so that `400`, `404`, `409` and `503` become
`NOT_FOUND` or `UNAVAILABLE` only through the conditions of the source. Instants
are half milliseconds, because ends are rounded to milliseconds and recordings
are not. The reasons of UNAVAILABLE are one. External: the playback server lists
the timespans that overlap the window, cut to it, answers 404 for an empty list and a 400 that
names a missing directory or a path that is not configured.

### `Discovery`

| Variables | Code |
|---|---|
| `time`, `signing` | the analytics' events and the key of its cursors |
| `local`, `mark`, `done`, `cursor`, `rcursor` | the mirrored events and the row of `SyncState` |
| `dpc`, `start`, `at`, `newest`, `page` | the discovery task and its locals |
| `rpc`, `rpage` | the reconciliation task |
| `late` | history: events committed more than the overlap behind the newest |

`Commit` and `ChangeKey` are the analytics; `RunOnce` to `SavePoll` are
`run_once`, `backfill_slice` and `poll_overlap`; `ReconcilePage` to
`SaveReconciled` the full pass. A page is saved in three transactions: the
crashes between them are actions of their own (`CrashInBackfill`,
`CrashInPoll`, `CrashInReconcile`). Whether the head is looked at after a page of the
backfill, which depends on a count and on the clock, is left open.

### `SemanticIndex`

| Variables | Code |
|---|---|
| `rep`, `corrupt`, `revision` | the representations, unreadable vectors, `index_revision` |
| `snapshot`, `running`, `model` | the snapshot store; the service is up; the model is usable |
| `pc`, `todo`, `images`, `later`, `changed`, `indexedOne`, `strikes` | the batch of the indexer |
| `rebuild`, `reconcile`, `foundInvalid` | the rebuild of each task, the reconciliation |
| `abandoned`, `overlapped` | history used to state where guarantees end |

Which of the eligible events a batch takes is left open. `attempt_count` and
the growing delays are one step, `RetryDue`. The traversal of the analytics'
events by the reconciliation belongs to `Discovery`.

### `InferenceCoordinator` and `Search`

| Variables | Code |
|---|---|
| `pc` | each request and the indexer |
| `waiting` | `_waiting` |
| `locked`, `queue` | the `asyncio.Lock`: its flag and its waiters |

The lock is modelled as CPython implements it, because its fairness is the point: a
release wakes the first waiter and leaves the lock free, the waiter takes it when it is
scheduled, nobody overtakes a queue unless everybody in it has been cancelled, and a
waiter that was cancelled by its timeout wakes the next one when it leaves. `waiting` counts a search only once it
is queued: until the acquisition suspends, nobody can look.

`Search` adds `select_candidates` and `rank_events` over a snapshot with integer scores, and compares
the result with a definition that neither fuses nor sorts: the answer is in the order of the keys
(score, time, id), and what is left out comes after all of it in that order.

## 3. Plan

The order was that of importance: the VMS camera manager (the reason the system
exists), the analytics camera manager (threads), the semantic index (publication
under concurrency), the simulator (processes); then event storage, discovery,
the inference coordinator, crossings, the media pipeline, and the requests that
cross all services. Abstract specifications are stated where a component has a
promise shorter than its protocol: `DesiredStateMirror` and `EventStore`.

Left, and what it would take:

1. `EventStorage` with the loss of power: what `fsync` orders.
2. The upload of a source file to the simulator, with its size limit and the probe.

## 4. Runs and bounds

| Run | Question | Instance |
|---|---|---|
| `vms_safety` | do errors and configured paths stay consistent, and is `DesiredStateMirror` implemented? | 2 cameras (symmetric), a good and a refused URL, 2 edits, 1 fault, 1 restart |
| `vms_liveness` | do paths and health converge? | 2 cameras, 1 URL, 2 edits, 1 fault |
| `vms_lost_apply` | is a failed apply retried? no | 1 camera, 2 URLs, 2 edits, 1 fault |
| `analytics_camera` | threads, runtime, convergence | 1 camera, 2 URLs, 1 line, 4 operations, 1 failure, 1 timeout, 1 restart |
| `pipeline` | causes of errors, honest RUNNING, obedience to a stop, detection of silence, frames and tracks | 2 H.264 pads, 1 other; attempts and failures unbounded |
| `crossing` | does the engine report exactly the crossings of the path? | 3 tracks (symmetric), 9 points, 3 lines, 4 observations, room for 2 histories, epsilon of half a step |
| `event_storage` | whole events, nothing suppressed or lost wrongly, nothing forgotten on disk | 2 workers with the same crossing, 3 ids, 2 attempts, 2 faults, 1 crash |
| `evidence` | is what is offered, denied or found what was recorded? | days of 2 ms, timespans anywhere in 3 ms, a crossing inside a day and one at midnight, 1 change of the recordings |
| `discovery` | is every event found? | 3 events at 3 times, 1 of them there before the start, pages of 1, overlap 1, 1 trouble |
| `semantic_index` | revision, snapshot, settling, publication | 2 events (4 items), batches of 2, 2 mishaps, of which 1 may be an unreadable vector |
| `search` | one caller, searches first, no search hangs, exact ranking | 4 searches, 3 waiters, the indexer; 3 events, scores 0 and 1 |
| `simulator` | publishers, status, files, no hanging operation | 3 operations, 1 fault, 1 restart |

Why these bounds are enough for what they are to show:

* VMS: interference between cameras goes through the poll loop alone, and its
  races need one camera that is visited and another that is edited, so two; an
  edit of each, or two of one, meets every place of the poll.
* Analytics: the longest race (disable with a timeout, enable, edit) takes an
  operation to create and three more; a second timeout or failure only repeats.
* Pipeline: two pads race for the one sink, and the third is what makes a source
  unsupported. There are no bounds but these, because an attempt forgets the last one.
* Crossing: a track needs three observations for a crossing, a stay in the deadband and
  another crossing, or to be refused once and to cross again; the fourth is another
  track's, which meets the cap. The lines are horizontal, vertical and oblique, end
  inside the grid, and have points on them, in their deadband and past their ends.
* Event storage: two workers with one crossing are the race at the UNIQUE index;
  workers with different ones share nothing. Two faults make an attempt fail and
  then its clean-up or the last attempt; one crash meets every step, and the
  sweep after it.
* Evidence: one timespan may contain the crossing while another one ends, begins
  or overlaps there; a day of four half milliseconds has a crossing on its border and one
  inside; section 6 proves the three properties for all bounds.
* Discovery: pages of one event make every position of a cursor occur; with
  three events one is the mark, one inside and one behind the overlap.
* Semantic index: two events give a batch both kinds, a member that fails and
  one that does not, and an event that arrives during a rebuild; two mishaps
  give a failure during the recovery from another one.
* Search: with three waiters the fourth search is refused, the one in the middle
  of the queue may give up, and the indexer may stand before, between or behind them.
* Simulator: create, then any two of start, stop, restart, update, delete, also
  before the create has ended, with one fault, one restart and any exits. Each of the
  three exceptions for the end of a create needs one operation of another client; the
  theorems hold for all bounds.

Bounds are guards on `edits`, `ops`, `faults`, `failures`, `timeouts`,
`mishaps`, `restarts`, `crashes`, `troubles`, `changes` and the number of
observations; ids of threads, sessions and processes follow from them. Deadlock is
not checked where the system may come to rest: when every bound is used up and
nothing is under way, only the environment could act, a worker that was stopped has
ended, a request has been answered. The other runs check it: the poll of the VMS,
the tasks of discovery, the indexer, a service that can start workers again.

## 5. Fairness

* VMS: weak fairness of the poll, of each lock holder, of time and of the
  return of MediaMTX. asyncio runs every ready task, its locks are first come,
  first served, HTTP calls have timeouts, the clock runs, and the container is
  restarted by its supervisor (`restart: unless-stopped`).
* Analytics: weak fairness of each thread's own progress and of the calls that
  join it. Not of frames or failures: no camera is assumed to send anything.
* Pipeline: weak fairness of the worker, of each pad callback that has begun,
  and of the deadline. Builds, inferences and commits end. Not of the source, of
  pads, or of the other cameras, which may keep the detector for ever.
* Event storage: weak fairness of each worker's own steps and of the startup;
  the properties checked there are safety properties and do not use it.
* Discovery: weak fairness of the discovery task. `AllEventsAreFound` assumes in
  addition that of the reconciliation, which `OnTimeEventsAreFound` does not need.
* Semantic index: weak fairness of the loops of indexer and reconciliation, of
  their rebuilds and of time. Mishaps are bounded, so they end.
* Search: weak fairness of each task that can go on, which includes that the
  model answers. Not of the timeout: `SearchesEnd` holds without it.
* Simulator: weak fairness of the lock holder, supervisors and callbacks, and of
  the exit of a process that was told to stop (it is killed after a grace
  period). A publisher that was not told to stop may live for ever. The bounded wait of
  a stop for the supervisor is a fault when it times out, so that `CameraSettles`
  does not rest on that timeout.

## 6. Proofs

Each `*_proofs` module holds for all values of the constants that satisfy the
named assumptions of its components' modules. Every invariant and every action property that
a run checks is stated by a theorem. An invariant `IInv`, or a conjunction of
named parts, is shown to hold initially and to survive each action; the
theorems follow from it.

`VmsCameraManager_proofs`:

* `TypeCorrect`, by one lemma per group of actions, the state split into parts
  of which a step touches few.
* `LocksAreDisciplined`: `LockDiscipline` is inductive with the types. It is
  what the others rest on: who holds a lock works on the row that is stored.
* `PathsAreCurrent`: with it, the configuration a call may write is the desired
  one, and an edit marks the camera dirty before it writes.
* `ErrorsAreOwned`: needs the discipline and the places at which an error is
  about to be cleared.
* `ManagerMirrors`: the refinement. Each step maps to an edit, a takeover of
  the current configuration, a loss of paths, or a stutter of `DesiredStateMirror`.

`AnalyticsCameraManager_proofs`: `IInv` adds to the types and the properties
`Budget` and `Fresh` (a thread id is always left, and nothing runs under it),
`Registered` (the thread of the entry is its instance), `Waits` (what an
operation has done to the thread and to the row before it waits), `Single` (before any timeout a
stopped thread is one somebody waits for) and `Sessions` (every configuration asks
for a session). The theorems are `TypeCorrect`, `ThreadsAreOwned`,
`ThreadsAreSingle`, `RuntimeIsHonest`, `EnginesBelongToSessions` (which says
nothing of the geometry of an engine, see section 7). That the
first two survive a start is the point of `Waits` and `Single`: at that moment nothing else may be alive unstopped.

`StreamWorker_proofs`, the pipeline: `NothingPlays` (between attempts no callback runs and
nothing is left of the old pipeline), `CodecOK` (every place that can say
"unsupported codec" has a pad to show for it), `ModelOK` (the model goes only after
the stop), `ErrorIsFinal`, `VideoOK`. `GivenUp`, `RunningIsHonest`.

`StreamWorker_proofs`, the crossing engine: `EngineInv` joins the types with
`KnownOK` (the histories are of active tracks and within the cap), `KeysOK` (the
suppressed keys of active tracks are the stored ones) and `LastStable` for every
active track: the one remembered point is the last stable point of the whole path, or
there is none. With it `CrossingsAreExact` compares one call of `observe` with
the path, and rests on `IntersectionIsExact`: between points on opposite sides, the orientation tests of
the code and solving for the common point decide alike, for all integers. The
parameter of that point is a quotient of two of the orientations, so that
bounds on one product become bounds on the other (`OnTheLine`). A track never
lies *on* the line with a side, because epsilon is positive. `EngineKeepsLittle`, `EngineTypes`.

`StreamWorker_proofs`, one frame: `FramesAreExact` for every width, height, stride,
offset and length of a buffer, by the two ways of copying it (whole rows, or the last
one shorter). With the lemmas for boxes and tracks, `AnalysisHolds`.

`EventStorage_proofs`: `WorkerOK` (what a worker at each step knows of its
directory), `OwnEvents` (no two workers write one event), `RowsOK`, and `Answered`
(every directory without a row has somebody who answers for it: a worker, the
sweep under way, or a removal that failed). A crash makes the sweep
responsible, and the sweep is right because it lists the rows while no worker
runs. `NoMissingArtifacts`, `SuppressedIsRecorded`, `DirectoriesAreAnswered`,
`NothingIsLost`, and `Refinement`: an insert is a `Record` of `EventStore`,
everything else a stutter.

`EventEvidence_proofs`: the invariant follows one answer: `FromPlayback`,
`FromVms` and `FromAnalytics` say at each hop which recording its items stand
for and what an empty or failed answer means. `OfferedIsReal`,
`DeniedIsAbsent`, `FoundWhenRecorded`. The arithmetic of days and roundings is in lemmas of their own.

`SemanticSearch_proofs`, the model's lock: `QueueOK` (the queue holds the waiting tasks,
each once), `WokenOK` (only the head is woken, and only for a free lock),
`CountOK`. `MutualExclusion`, `CountIsTrue`, `NoLostWakeUp`, `IndexerGivesWay`.

`SemanticSearch_proofs`, the ranking: the order of results is total
(`OrderIsTotal`), so a sorted sequence of a finite set exists (`SortedExists`,
by the number of results before each) and is a permutation of it. It is the order of
the keys the reference compares (`PrecedesBeats`). `AnswersAreExact`.

`SemanticSearch_proofs`, discovery: `DiscoveryTypes`, for which a page that is not
the last one must have an event to name in its cursor (`PageIs`). Then `DInv`:
`MarkOK` (there is a mark once the backfill has moved, not behind its
cursor and not after all events), `Covered` (what is owed lies ahead of the
backfill or after the mark less the overlap), and what a page under way will
have covered when it is saved (`BackfillOK`, `PollOK`): what is owed is in the page, behind its cursor, or
was committed since the request, and then within the overlap of whatever has been
reached, or late. `NoEventIsSkipped` assumes `FirstPageParses`: the
history holds an event that parses, and malformed events are fewer than a page (a page of
the code has 100). Then the first page sets the mark. Without it the property is false,
which is the hazard at `discovery.py:238` (section 7), and TLC finds it
with `History = {1}`, `Malformed = {4}` and pages of 1.

`SemanticIndex_proofs`: `IndexingIsClaimed` with `BatchOK` (a batch is held from
claim to settlement, and not while a rebuild of the indexer runs). `ClaimsAreHeld`;
`RevisionIsTrue` rests on it, because no claimed item is ever indexed.
`SnapshotTellsAll` speaks of moments at which no batch and no rebuild of the
reconciliation is at work, and adds `SnapshotOK`: while nothing overlapped and no batch
broke off, at most one rebuild is under way; what it has loaded holds every
readable vector of the database and nothing that is not stored, under the right revision (`Loaded`), unless
a batch has changed something meanwhile, which then is marked (`changed`) and
will be published by the indexer.

`SimulatorCamera_proofs`:

* `TypeInv` = `TypeOK` with `Route` (which operation can be at which place) and
  `Budget` (every process that was or may still be spawned is owed to an
  operation or a restart, so that process ids never run out). `TypeCorrect`.
* `PublisherInv` = `OnePublisher` with `Stored` (a camera worked on is stored
  until its deletion removed the row, but for the start of a create) and `Registry` (at the places where a
  process is about to be spawned, or the row to go, nothing is running; while
  a stop waits, the registered process is the one it stops). `OnePublisherOnly`.
* `FileInv` = `RowHasItsSource`, what an update is about to name is in storage,
  and what is about to be deleted is not named. `NamedFilesAreStored`.
* `RunsInv`: a live publisher runs the row's configuration, or the restart that will
  replace it is already decided, or a create started it from an outdated record.
  `StreamIsTheRows`.
* `StatusInv`: the status by the place of the holder (`RowStatus`), also while it
  carries a record whose status the end of a create has overwritten (`CarriedStatus`);
  RUNNING without a live publisher only while an exit is still to be handled (`Backed`),
  because a live one is watched and only a stop ends it on request (`Supervised`).
  `StatusTellsTheTruth`.

None of them assumes anything about when clients act.

Only model-checked: the liveness properties (those that say what happens in the
end, listed in section 4 by their runs), which need fairness and `ENABLED`.

## 7. Where documentation and code disagree

`vms_lost_apply` checks a comment, "Keep the desired state; the reconcile loop
will retry", and TLC finds it violated: a reconcile requested soon after the last
one is dropped, not deferred, and polls compare only which paths exist, so the
edit is never applied. `PROJECT.json` quotes the lines.

Met while modelling, and left as exceptions in the statement of the properties
concerned:

* `video-analytics/app/services/camera_manager.py:357`: a renaming after a reconnect
  begins the running session again, although the service's README promises "one
  tracker per session".
* `stream_worker.py:262`, "a name-only patch, which never alters the line": one that
  overtakes a pending change of the line in the single slot carries the new line under
  the old session, and the worker keeps the engine of the old line.
* `camera_manager.py:610`: retrying a PATCH answered 503 reports success and
  leaves the camera without a worker; `WorkersConverge` excepts it.
* `stream_worker.py:95` speaks of exactly one live instance per enabled camera,
  which a stop that timed out followed by an enable exceeds; `OneThread` therefore ends at the first timeout.
* `semantic-search/app/services/indexer.py:96`: a snapshot is not exactly the vectors its
  revision describes when two rebuilds overlap, or when a rebuild of the reconciliation ran
  during a batch that then broke off; `SnapshotIsExact` excepts both.
* `component4.py:309` with `indexer.py:213`: a body that breaks off leaves its batch's claims
  `indexing` until a restart; they are `abandoned` in the properties.
* `discovery.py:238`: without a mark one page is read because "the backfill owns
  the rest of the history". When the analytics had no event until the backfill was
  complete, nothing owns it: of more than a page of new events, those older than the
  overlap are left to the reconciliation. The same happens when a page of the reconciliation
  stands in for the mark (`max_crossed_at`, line 206). `NothingIsSkipped` and `OnTimeEventsAreFound`
  fail in the model then, and `AllEventsAreFound` holds; the run has an event in
  `History` before the first start. A first page of nothing but malformed events would do the same.
* `rtsp-simulator/simulator/app/services/camera_manager.py:5-6`: "Every lifecycle or update
  operation for a given camera runs under that camera's own asyncio lock, so ... a camera can
  never end up with two publishers". That there are never two is so (`OnePublisher`). But the
  end of `create_camera` (lines 201-205) writes STOPPED without the lock, or starts from
  the record it inserted at line 188 without reading the row again:
  - insert, DELETE, then the start: a publisher without a camera, which no operation can
    stop any more before the next restart (`orphan`);
  - insert, PATCH, then the start: a publisher with the settings from before the edit (`outdated`);
  - insert, start by another client, then STOPPED: a publisher is up, where the README of the
    service says of `STOPPED` "No publisher." (`mislabelled`), until its next operation or exit.

  Without its exception `OnePublisher`, `PublisherRunsItsRow` and `StatusIsHonest` fail in the
  model in just these ways.
* The same file, line 403: the callback of an exit that
  came before a stop may turn STOPPED into ERROR.
* `inference.py:108`: with searches always waiting the indexer never embeds. That
  is its design, and `SearchesGoFirst` states it.
* A camera that is degraded to ERROR keeps it when it is disabled; a worker that
  ended by a fatal error is not restarted.

## 8. What is not modelled

* Presentation, routing, the web UIs, validation of URLs, images and dates, command
  lines: functions of their input whose correctness is not a matter of order.
* What the libraries compute: the detector's boxes, the tracker's ids, embeddings,
  JPEG. External and assumed: GStreamer waits for its streaming threads when a
  pipeline goes to NULL; MediaMTX names a path once and loses its paths at a restart; its
  playback server as described under `EventEvidence`; SQLite's transactions are atomic.
* The loss of power. In `EventStorage` the process dies and the disk keeps what it was told.
* The probe, the staging and the size limit of uploads.
* HTTP requests that take effect after the caller has given up and gone on. An
  answer may be lost, but the effect comes before the next step.
* The cap of 10,000 pages of 100 events a pass of discovery may read: with more
  events than that in one window, the mark moves past those that were not read.
* A recording that was offered and expires before it is played.
* A start of the semantic search with a model that cannot be loaded; renamings
  of cameras, which do not refresh the names in its snapshot.
* The orderly shutdown of services, which ends where a restart does.
