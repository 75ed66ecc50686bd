# Verification of the Muto RS deployment

TLA+ specifications of `muto_rs_deployment_test`, the deployment of the Muto RS
hexapod: ROS 2 nodes that drive the robot, annotate what its cameras see, keep a
registry of the objects seen, and carry out missions ("find the cup and walk up
to it") planned by a language model.  The specifications cover

* the command layer, `src/muto_command_layer_v2`, which decides what the robot does;
* the robot driver and its gait library, which do it;
* perception: image annotator and object registry;
* the VLM socket, through which other nodes ask a model about an image.

All paths below are in the repository; a file without a directory is one of the
package the paragraph is about.  Every definition that stands for code names its
lines in `PROJECT.json` ("map").

## 1. The system

| Component | State it keeps | Operations | Talks to |
|---|---|---|---|
| Mission executive (`executive.py`, `contracts.py`) | the mission board (immutable, replaced by each commit), the event list | accept, start, select_skill, record_tool_request/result, record_recorder_status, record_board_observation, record_planner_failure, complete, cancel, fail | called by the loop and by the callbacks of the node |
| Commander loop (`runtime.py`, `commander.py`) | local variables of `run()`, cancel flag | one turn: ask the planner, select the skill, dispatch one tool, record its result, look at limits | planner, dispatcher, executive |
| Tool dispatcher and backend (`tools.py`, `backend_adapters.py`) | active call, snapshot of the registry | query, inspect, approach, rotate, go to a point, observe | registry, inspection and motion authorities |
| Node (`mission_executive_node.py`) | goal slot, active runtime, mission counter, number of the last event published | goal, execute, cancel, stop and recorder status callbacks, publishing of board and events | action client, recorder, loop |
| Nav2 motion (`ros_authorities.py`) | handle of the active goal | send a goal, wait for acceptance and result with timeouts, cancel | Nav2 action servers |
| POI search (`poi_grid.py`, `ros_authorities.py`) | points visited and attempted in this mission | select a point, have it checked, drive there | map, Nav2 motion |
| Map reachability (`reachability.py`, `ros_authorities.py`) | last map, revision | footprint, flood fill, projection, evaluation | map topic, TF |
| High-level recorder (`high_level_recorder_node.py`) | open bag, closed missions | board, event and diagnostics callbacks, status | node, rosbag2 |
| Robot driver (`muto_driver.py`) | desired levels, time of the last command, released flag, telemetry deadlines | velocity command, release, locomotion timer with watchdog and telemetry | Nav2, gait library, odometry |
| Gait library (`hexapod.py`, `gait.py`, `leg.py`, `servo.py`) | command in progress and pending, phase, last accepted target of each leg | latch a command, next phase, write legs in a batch or one by one | serial port |
| Image annotator (`sam2_image_annotator_node.py`) | newest image, depth images, camera infos, what the worker has in hand | sensor callbacks, worker: snapshot, inference, masks, cloud, detections, heartbeat | cameras, YOLO and SAM2, registry |
| Object registry (`object_registry_node.cpp`) | waiting messages and observations, candidates, confirmed objects, spatial index, flags, database and pictures on disk | cloud and detections callbacks, retry and snapshot timers, save, clear, start and end | annotator, TF, disk, command layer |
| VLM socket (`vlm_socket_node.py`, `vlm_socket_protocol.py`) | busy flag, cancel event, active connection | accept, execute, cancel a goal; one request, one answer whole or streamed | HTTP endpoint, action clients |
| Odometry, IMU, sensor filters | numeric state, message by message | integrate, filter | driver, Nav2 |
| Bag recorders and replayer, model transport, launch files | queues; none between calls | I/O | topics, planner service |

How they interact: the annotator publishes a cloud and detections per frame; the
registry pairs them by time and publishes objects with a revision; the command
layer reads a revision as its candidates and sends Nav2 goals; Nav2 sends
velocities to the driver, which lets the gait library write to the servos and
reads telemetry on the same serial line.

What is hard here, and what makes each part correct:

* **Executive.**  A look at the registry, an inspection and a drive take seconds,
  and the registry goes on changing.  Results come back for a revision the board
  has left.  Correct: target, revision, shortlist and evidence on the board
  belong together; the robot approaches a confirmed target only and never
  exchanges it on the way; a mission that ended keeps its outcome.
* **Loop.**  The planner is not trusted: anything the parser admits may come.
  Tools fail or raise.  Correct: each way out of `run()` leaves a mission that
  ended; a cancellation ends it; what the backend drives to is what the board
  confirms; a mission ends as exhausted only if the search said so in it.
* **Node.**  Callbacks run on several threads without a lock.  Correct: one goal
  at a time, a slot that opens again, results of one's own mission, agreement of
  action status and board.
* **Motion.**  Nav2 answers late or never.  Correct: a call reports its own goal,
  comes back, and leaves a robot that stands still unless it timed out.
* **Search.**  Maps are replaced at any moment.  Correct: goals are reachable on
  the map of the moment, the search ends, and exhaustion means something.
* **Recorder.**  The topics between node and recorder form a circle and keep few
  samples.  Correct: bags of missions stay apart, tell the outcome, and the circle
  comes to rest.
* **Driver and gait.**  A command may come in any phase of a stride; a write may
  fail with some legs moved; the node may die in mid-air and start again.
  Writes of legs that would not move are left out, from memory.  Correct: the
  memory is where the legs are, a tripod always stands, the robot stops when
  commands cease, released motors stay released, telemetry does not starve.
* **Registry.**  Transforms come late and out of order, messages get lost, saving
  fails, ids are given anew after a restart.  Correct: only what was seen often
  enough is an object, the index finds what is near, a registry that has nothing
  to save is the saved one, a picture shows its object, changes get out.
* **Annotator.**  Callbacks replace what the worker has not read yet, and the node
  may be closed at any moment.  Detections overlap, masks are of no use, the
  cloud is built in chunks.  Correct: no lost wake-up, the worker ends, cloud and
  detections of a frame speak of the same objects, chunks do not show.
* **VLM socket.**  A goal ends, fails and is canceled on several threads; the answer
  of an endpoint may be cut off.  Correct: one request at a time, the socket is
  given back, only a whole answer is an answer.

`PROJECT.json` lists these hazards one by one with the line where they bite.

## 2. The modules

    ConfirmedApproach        what a mission promises, abstractly
      ^ refined by
    MissionExecutive         executive.py, contracts.py
    ToolBackend              dispatcher, backend, answers of the authorities
      ^ composed in
    CommanderRuntime         run() on executive (INSTANCE) and backend
    RegistryShortlist        what a request to the registry lists, operators
    MissionNode              callbacks of the node;  MissionNodeClaims
    Nav2Motion               a motion call, its cancellation, Nav2
    Reachability             pure operators on grids
      ^ extended by
    PoiSearch                observe() against changing maps
    MissionRecording         node, topics, recorder

    MutoGait                 commands, phases and writes of the legs, operators
    VelocityMapping          a Twist's motion levels, operators
      ^ both extended by
    MutoDriver               the driver node on them

    Selections               the elements of a sequence with a property, an operator
      ^ extended by
    InstanceClouds           masks, trimming and clouds, operators
      ^ extended by
    ImageAnnotator           callbacks, worker, end of the node
    MessagePairs             pairing by time stamps, operators
    RegistryObjects          candidates, objects, index, names, pictures, operators
      ^ both extended by
    ObjectRegistry           the registry node, its disk and its ends
    PerceptionClaims         ImageAnnotator and MessagePairs put together

    VlmAnswers               requests and answers of both APIs, operators (on Selections)
      ^ extended by
    VlmSocket                goals, cancellation, connection

The `MC` modules give constants their values for TLC; a module `X_proofs` extends X with
theorems and their proofs (section 4).  Two of them extend two modules that share no
variable: Navigation_proofs extends PoiSearch and Nav2Motion, whose specification is
therefore called `MotionSpec`, and Vision_proofs extends ImageAnnotator and VlmSocket,
whose specification is called `SocketSpec`.  ObjectRegistry_proofs extends ObjectRegistry
and RegistryShortlist, whose lists are made of the registry's answers.

### Command layer

**ConfirmedApproach** knows phase, mission, policy, target and whether the
approach has begun.  It is the abstract specification of the command layer.

**MissionExecutive** has the board as a record with the fields of `MissionBoard`
and one action per method.  `Commit` is `MissionBoard.evolve` with the revision
counter; `emitted` holds the events the last commit appended.
`RecordToolResult` is split as the method is: results out of scope, stale results
(`RecordStaleRegistryResult`), lookups (same or another revision), inspections,
motion.  `ToolResults`, the arguments it may be called with, is a constant, so
that the proofs hold for all of them.  Left out: descriptions, rationale, progress
totals, time stamps, the order of candidates in a lookup, exceptions in `_notify`
observers.  Guards stand for the `ContractError`s; the loop's model keeps track of
where such an exception would leave it.

**ToolBackend** has the snapshot of `V2ToolBackend` and what each tool does with
it; the authorities answer anything they can answer (`Content` fixes which
objects a revision contains).

**RegistryShortlist** says what a query to the registry lists: by exact name, exact
label, or the tokens of the request, with the frame the list is given, and its
revision, the rows that `_snapshot_revision` hashes (two lists of one hash are taken
for equal).  A place has one coordinate, in millimetres.  It is why ToolBackend may
take a revision for its contents; MCCommanderRuntime evaluates both facts it states
(`RevisionDetermines`, `ListIsConsistent`).  The tokens of a text and the visual
selector are left out.

**CommanderRuntime** runs `run()` step by step (`pc`): head of the loop, planner,
skill, tool, result or exception, limits.  A cancellation or a recorder status may
arrive between any two steps.  The planner returns any decision the parser
admits.  The executive is an instance of MissionExecutive, by whose actions alone the
loop changes the board: that is how the module is written, hence a lemma of the proofs
(`LoopIsExecutive`) and no property.  Here the commit of a recorder
status is atomic; MissionNode tears it apart.

**MissionNode** abstracts the board to mission, lifecycle and revision, and
splits each commit in the read and the write of `self._board`
(`executive.py` has no lock), and each callback where another thread's write
would matter.  `slot` is `_goal_handle` with the reservation between acceptance
and execute callback.

**Nav2Motion** has a motion call with its waits, `cancel_active` in its two steps
and two action servers that do what action servers may do, in any order and at
any time, or never.

**Reachability** translates `ReachabilityPlanner` to operators: a grid is the set
of its free cells, a pose is its cell, a distance is an integer, hundredths of a
cell.  `Component` is the reference: what steps along the axes connect.

**PoiSearch** has `observe()` in its steps: selection on one snapshot, evaluation
on another, two comparisons of revisions, goal, outcome; and the map callback,
which counts the revision before it stores the grid.  The two planners have footprints
of their own: `SelectionFootprint` (`PoiGridPlanner` is built without one, hence 0) and
`MotionFootprint` (0.26 m of `RosMapReachability`).  The origin of the map is left out,
and so are publications and summaries.

**MissionRecording** has the two threads of the node that publish boards and
events, the topics with their depths, and the recorder with its bags.  Commits
are atomic here; commits between the start and the end of a mission, the
diagnostics topics and the JSONL recorder are left out; a mission's events are
its beginning and its end.  The end of the recorder process is not modelled.

### Driver

**MutoGait** is the gait library on one record: command in progress, command that
waits for the end of the cycle, phase, the target each leg last accepted (`tip`,
which the code compares before it writes) and where the legs really were sent
(`pos`).  Targets are named, not computed: standing, the centre of the path, or a
command with an index into its profile.  `PlanWrites` is `next_step` or standby
with the legs that are skipped, `Batch` whether a phase is one write or one per
leg.  Kinematics and the profiles' numbers are left out.

**MutoDriver** is the node, which runs in one thread: each callback is a step, and
time passes between two slots of the timer.  A slot is `update_locomotion` as a
whole: watchdog, selection, latching, write of the phase, publication, telemetry
when the slot has time left (`fits`).  A tick may fail after any part of its writes;
it then tries to reach standby, which may fail too.  The process may crash and start
over with the legs where they are, and may fail to start.  A velocity
command is a Twist, and its levels are what `Mapping` selects (VelocityMapping).
Left out: the joint and buzzer topics, diagnostics, and the yaw adapter's gate (see
section 3).

**VelocityMapping** has the three mappings: calibrated (the nearest level of the
curve for the direction, speeds between its points interpolated), geometric (the
amplitude is continuous, hence given by the speed it makes) and legacy (hundredths).
Speeds are whole numbers of a unit small enough for the speeds interpolated; a
saturated or projected axis is in a set of axes.  Reading the calibration file is
`Accepted`.

### Perception

**InstanceClouds** has the operators of one frame: which detections count, SAM2's
masks, the instance mask with the rule for overlaps, the trim at the edges, and the
cloud in chunks of rows.  Lenses and transform are two functions of a depth pixel and
its depth: `Landing`, the colour pixel its point is projected into, and `ColorZ`, its
distance from the colour camera, which need not grow with the depth from pixel to pixel
nor be positive.  Points are dropped, ordered and merged by `ColorZ`, as in the code.

**ImageAnnotator** has the sensor callbacks (one mutually exclusive group), the
worker between any two points where a callback can come in, and the thread that
destroys the node (`StopWorker`, `WakeWorker`, `JoinWorker`).  `event` is the
`threading.Event`; `Wait`, `Woken` and `Take` are its loop.  What YOLO and SAM2 find is
any of `Scenes`, each a sequence of `Candidates`; a publication may fail (`PublishFails`), as may an inference.
Drawing, mono masks and log throttling are left out.

**MessagePairs** is `match_pending_messages` with the bounded queues.

**RegistryObjects** is what `registry_mutex_` protects, as operators on a record:
staging and confirmation of candidates, `find_nearest_locked` on the cells of
the index, merging into centroids and names, the image directory.  Places are
on a line; a centroid is the sum of its places and their count, so that means
are exact.

**ObjectRegistry** is the node.  The executor has two threads, but all callbacks
are in the default group, which is mutually exclusive: each callback is an
action.  `RetryPendingTransforms` and `SnapshotTimer` are its timers, `SaveCallback` and
`ClearCallback` its services; the disk may fail in each of them.  `Shutdown` saves and
`Kill` does not; `StartLoading`, `StartFresh` and `StartFreshFails` are the ways to begin
again.  A save writes another file and renames it, hence is atomic.  The rows of a file
are ordered by name, a text each; `LoadedRegistry` takes them in any order.  A file with two
objects of one name is `Foreign`, as loading it fails.  Queries read
only and are left out, as are markers, point counts, `class_id` and
`last_confidence`.  `next_id` is one more than the greatest id.  Two history variables tell of
clears whose save failed: `stale`, the file still has objects a clear has removed;
`revived`, the running node was started from such a file.

**PerceptionClaims** lets the messages of ImageAnnotator arrive at the queues of the
registry.

### VLM socket

**VlmAnswers** has the limits of a request (`EncodePart`) and how a text is got out of
an answer of either API, whole or streamed.  `Recovered` puts a text together for a last
response that has neither an output nor an `output_text`, were it an empty one: of done
events with one key the last counts (`DoneText`), deltas of a key are joined
(`TextDeltas`), and keys are sorted (`InOrder`).  A text is a sequence of tokens, numbers,
and not empty: a stream whose answer says nothing at all is turned down by the code.
What an endpoint generated (`heard`) is kept apart from what is made of it.  Of a stream,
`Tellings` has what the endpoint leaves out: the indices of the parts, the output of
the last response, or the text of its `output_text`; `ToldInFull` says that the whole text is in
the stream all the same.  Parts are told one after the other, in their order or in the
reverse, and an endpoint is assumed to send done events for all parts or for none.

**VlmSocket** has acceptance, execution and cancellation of goals on four threads.
A step is what happens under the lock or between two points where another thread
can be seen; a cancellation sets the event, closes the connection and becomes visible
in the goal in three steps.

## 3. What is checked

Each passing run's properties fail for a mutant of the code, listed in `PROJECT.json`.
The type invariant is the first part of one invariant of the run.

| Run | Module, configuration | Question |
|---|---|---|
| executive | MCMissionExecutive | Do board fields stay together whatever results come in, and is ConfirmedApproach implemented? |
| runtime | MCCommanderRuntime | Does an arbitrary planner with failing tools, a changing registry and cancellations always leave an ended mission, also the second on one backend? |
| node | MCMissionNode | Do the callbacks share slot, runtime and board correctly over two goals? |
| nav2 | Nav2Motion | Do motion calls report their own goals and end, and does the robot stand still after them? |
| poi | MCPoiSearch | Are goals reachable on the map of the moment, and does the search end honestly? |
| recording | MissionRecording | Do bags stay apart and closed, and do node and recorder come to rest? |
| driver | MCMutoDriver | Is the robot where the driver says, does it stand, and does it stop, whatever Twists come? |
| registry | MCObjectRegistry | Are candidates, index, pictures and file right across faults and restarts? |
| vlm | MCVlmSocket | Is one request served at a time, and is only a whole answer taken? |
| annotator | MCImageAnnotator | Do cloud and detections agree, and does neither image nor worker get stuck? |

What the properties say (the comments at their definitions say it in full):

* executive: `TargetIsCurrent` (confirmation, approach, evidence and success agree with
  the registry revision), `ApproachKeepsTarget`, `AuditTrail` (events tell how
  candidates moved), `ImplementsPromise`.
* runtime: `RunEndsTerminal`, `BackendAgrees` (what the backend drives to is what the
  board confirms), `ExhaustionWasObserved`, `CancelEndsMission`.
* node: `SlotIsTheMission`, `ReportsItsMission`, `CanceledGoalsEnd`.
* nav2: `ReportsOwnGoal`, `MotionIsSerialized` (and an idle lane means a robot that
  stands still), `CallEnds`.
* poi: `FillIsComponent` (with either footprint), `GoalsMatchMap` (goals are reachable
  with the robot's own footprint), `ExhaustionIsHonest` (what the selection reaches was
  selected, and with it what the robot reaches), `SearchEnds`.
* recording: `BagsTellTheirMission`, `EveryEventIsPublished`, `EndedMissionsAreQuiet`.
* driver: `ReportsAreTrue` (published feet are where the legs were sent),
  `TripodStands`, `StrideIsKept`, `ReleasedIsFinal`, `SilenceStops` (without commands the
  gait goes to standby and every leg comes to stand, but for those a failed write moved out
  of the standing pose), `BothAreServed`.
* registry: `CandidatesAreTentative`, `IndexFindsNearest`, `CleanMeansSaved`,
  `PictureIsItsOwn`, `ChangesAreShown`.
* vlm: `OneRequestAtATime`, `WholeAnswersOnly` (only completed generations succeed, and
  one told in full succeeds with its whole text), `AcceptedGoalsEnd`.
* annotator: `CloudShowsItsObjects`, `CloudIsWhatIsSeen` (chunks against one pass over
  the whole image, foremost for the colour camera), `NewestGetsThrough`, `WorkerIsJoined`.

Besides, TLC evaluates two facts of RegistryShortlist with the run *runtime* and the
five of VelocityMapping with the run *driver*, on the inputs below; all seven are theorems
as well (section 4).

Bounds and why they are enough:

* *executive*: two candidates, two revisions (a result is of the board's revision
  or of another one; a candidate is the target or another one), two missions (what
  is left over from one is seen in the next), eight commits: enough for lookup,
  inspection, confirmation, another lookup, handoff, approach and end.  Symmetric
  in candidates and revisions, with safety properties only.
* *runtime*: two missions, two candidates, two revisions, twelve commits a mission,
  limits of two failures, so the second failure reaches the limit.  A turn of the
  loop begins, and a recorder reports, only while there is room for the commits a
  turn may take (`TurnCommits`), so that the bound never stops a turn halfway.  Lists: up to two responses, in "map",
  another frame or none, with objects of one name in two places, at one place with
  other volatile fields, or without a name.
* *node*: two goals (one running, one waiting or arriving), one stop request, one
  recorder status, one commit of a running goal besides accept, start and end.
  Each race found or excluded involves one commit of each of two threads.
* *nav2*: three goals (abandoned, active, next), two cancellations.
* *poi*: three maps of 4 x 3 cells: one that is free, so that with a footprint of one cell
  some cells are safe and more are not; one with a gap only a cut corner could pass; one in
  two parts, where the footprint is safe nowhere.  Footprints of 0 and 1, two revisions (a
  map is replaced at any one point of the search), two missions, one cancellation.  A snap
  radius of one cell, so that a robot may find no cell to start from.
* *recording*: two missions: the bag of another mission is what can go wrong.
* *driver*: four legs, two a side of the tripod; eight gait steps, a cycle with all its
  quarters; Twists that make it stand and walk in two ways, one of them with a turn,
  and one that is no number; a slot
  may be late by one unit; the watchdog fires after two; periods of two and three
  units, so that both endpoints fall due together and apart; one failed write,
  after which the legs are in two phases.  `GaitSteps` may be 4 to 20 in the module.  The mappings: curves of one and three
  points with gaps, and speeds below, between, at and beyond them.
* *registry*: three frames, two labels, up to two sightings a frame, places 0 to 6 with a
  threshold of 2: objects in one cell, in neighbouring cells, and apart; two
  observations confirm, in a window of three with gaps of two; one fault of any
  kind, and as many orderly restarts as fit.
* *vlm*: three goals (ending, executing, arriving), answers of one and two parts of one
  and two tokens, with and without indices, output and an empty `output_text`, and
  contents that are empty, within the limits, too large together, and cut short.
* *annotator*: 3 x 3 colour pixels, the least with a pixel inside; 2 x 7 depth
  pixels in two chunks with a stride of two, an odd width so that the second row does not
  begin with a sample; samples that share a landing pixel within a chunk and across chunks, in
  another order for the colour camera than for the depth camera or as near as each other,
  one behind the colour camera, one outside of the image, one without a depth;
  objects that overlap, that have no mask, a wrong shape or no number for a
  confidence; two images, so that one is replaced or comes during work.

Fairness:

* *runtime*, `FairSpec`: the thread of `run()` goes on.  The planner's transport and
  the authorities wait with timeouts and answer or raise.
* *node*: each execute callback has a thread of the multi-threaded executor and
  goes on.  Nothing is assumed of clients.
* *nav2*: the thread of a motion call goes on, since each wait has a timeout.
  Nothing is assumed of Nav2.
* *poi*: the steps of a call go on; `Observe` is strongly fair: map and pose are
  there again and again and the commander goes on observing.  Cancellations are
  bounded, as a cancellation ends the mission.
* *recording*: a thread finishes the update it is in and callbacks are called for
  what was received.  A mission takes as long as it likes.
* *driver*: the timer fires while the process runs.  `BothAreServed` has its own premise,
  slots in time with room for a read again and again.
* *registry*: the wall timer fires while the node runs.
* *vlm*: execution of a goal goes on, since each wait for bytes has a timeout and their
  number is bounded.  Nothing is assumed of clients.
* *annotator*: worker, closing thread and time go on.  Nothing is assumed of sensors.

Deadlock is not checked: with the bounds used up the models stop, and a node
without goals is idle.  Progress is stated as liveness instead.

### Where documents and code differ

Two runs check a statement of the documents and find it violated:

| Run | Statement | What happens |
|---|---|---|
| commit_claim | no way out of terminal states; ADR-032: commits are serialized | a recorder commit in between writes the running board back, and later goals are refused for good |
| pairing_claim | an instance id connects mask, metadata and cloud points of one frame only | the annotator skips the cloud of one frame alone; the next frame comes 0.143 s later, within the registry's tolerance of 0.2 s, its cloud is paired with the detections that were left over, and so on from then on |

Others were met on the way and have no run of their own.  In the command layer:

* ADR-056 says recorder failure cannot control mission completion: a recorder status
  overwrites `last_reason_code`, the only evidence of exhaustion, and the
  completion is refused (`executive.py:507`, `:548`).
* `README.md:170-171` wants a successful approach for `approach_confirmed`: the loop passes
  `approach_complete=True` whenever the planner proposes completion
  (`runtime.py:182-186`).
* The design replans invalid skill changes (`:107-109`): a first decision that names the
  approach raises in `select_skill`, outside of any `try`, and fails the mission
  (`runtime.py:88-90`).
* ADR-048 has bags record terminal events: the terminal board is published first and
  closes the bag (`mission_executive_node.py:277`).
* `runtime.py:124`: limits are not looked at after an ordinary failed result, so
  the design's no-progress limit ends a mission only through an exception or a
  planner failure; cancellation is not looked at before a tool is dispatched.
* A canceled mission may end succeeded or failed, if the turn in progress ends it
  first (`README.md:173-174`).
* A stop request between the acceptance of a goal and the installation of its
  runtime is acknowledged and lost (`mission_executive_node.py:147-156`, ADR-067).
* `runtime.py:137-140`: when a tool raises, the revision the planner wrote into its
  call becomes the board's.
* A lookup that failed resets the confirmation with an unchanged revision
  (`README.md:164-166`); a later inspection replaces confirmed evidence.
* Two threads may give two events the same number; one of them is then not
  published.  `EveryEventIsPublished` assumes different numbers (`NumbersDiffer`).
  Events may be published twice, as `_last_event_sequence` may go back.
* A recorder status checked against one mission may be committed to the next.
* After a timeout the handle of the goal is forgotten: the goal may go on while the
  next call sends another (`MotionIsSerialized` excepts these).
* While a mission runs and its bag cannot be opened, statuses and boards follow
  each other as fast as they travel (`high_level_recorder_node.py:239-244`).
* Boards overwritten on their way may put the end of one mission into the bag of
  another (`BagsTellTheirMission` promises nothing once a board was lost).
* A refusal for the moment (another revision, no pose) marks a point as
  attempted for good, so `poi_exhausted` may be reported for points no goal was
  sent for.  `ExhaustionIsHonest` says "selected", not "visited", for this reason.
* After a canceled search goal `observe` returns `motion_canceled`, and publishes
  `poi_goal_canceled` (ADR-009).
* The list of a request by its tokens is meant to have one coordinate frame
  (`ros_authorities.py:185-187`): the frame is taken from the next response as long as it
  is "map", so objects in "map" are listed in the frame of a later response
  (`ListIsConsistent` speaks of the frames besides "map").
* `reachability.py:133-135` calls `reachable_cells` "the shared deterministic predicate used
  by the POI planner and motion preflight": the predicate is shared, its footprint is not.
  The node's `PoiGridPlanner` is built without a planner (`ros_authorities.py:516`,
  `poi_grid.py:58`) and gets a footprint of 0 (`reachability.py:38`), the preflight has
  0.26 m (`ros_authorities.py:768`).  Points next to obstacles are therefore selected,
  refused by the preflight and marked as attempted, one `observe` each.  The search still
  ends, and exhaustion still covers what the robot reaches, since a larger footprint
  reaches less (`ExhaustionIsHonest`), if the robot stands where its own footprint is
  safe; elsewhere the two planners may start from different cells.
* The flood fill visits cells in the order of a queue, so its distances are not
  always the shortest on larger grids; only the farthest-point choice and estimates
  depend on them, and no property is stated about them.

In driver and gait:

* After a failed tick the robot need not reach standby, as the attempt may fail too and the
  memory of the legs is then ahead of them (`leg.py:209`, `hexapod.py:105`;
  `hexapod.py:43-46` and `docs/odometry.md:415` say otherwise).  `ReportsAreTrue` is
  therefore about processes without a failed write.
* A write that fails in the first phase of a walk finds all legs standing in the memory and
  leaves it so.  The standby ticks that follow skip every leg, and those that were moved
  stay where they are: a side of the tripod may stay lifted for good, although the gait is
  in standby and `hexapod.py:43-46` and `docs/odometry.md:415` say that it returns to it.
  `SilenceStops` excepts these legs (`BackFrom`) and no others: legs that a failed
  write left anywhere else in a stride do come to stand.
* Two failed ticks in one process may leave legs of both tripods in the air; `TripodStands`
  allows one.
* After a timeout `last_velocity_selection` is not reset (`muto_driver.py:467-470`,
  `:697-701`), so the yaw adapter's gate sees a turn that is over
  (`docs/odometry.md:346`, `docs/imu_serial_pipeline_2026-08-07.md:144`).

In perception:

* `docs/sam2_yolo_pipeline.md:464` has the registry's callbacks overlap in a two-thread
  executor; they are all in one mutually exclusive group.
* `last_seen` may go back after a retried transform (`docs/sam2_yolo_pipeline.md:386`, `:495`).
* A clear whose save fails leaves a file that names pictures it has removed.  New objects
  may get their names and ids, hence their paths; a node that is killed then and
  started from that file shows the new picture for the old object, and its saves keep it so.
  `PictureIsItsOwn` excepts nodes started from such a file (`revived`).
* The default start (`load_existing` false) overwrites a malformed or foreign file,
  which the registry's `README.md:108-109` says is protected until an explicit clear.

In the VLM socket:

* Indices that a stream leaves out are 0, and of the done events of one key the last one
  stays (`vlm_socket_protocol.py:481-486`): of two parts told by done events without indices, in
  a stream whose last response has no output, the last part alone is the answer, and a
  success.  In the same way deltas without indices are joined in the order of arrival (`:471-478`).
* An `output_text` that is there and empty keeps the text from being recovered
  (`:499-501`): a completed generation told by events alone is then turned down.
  `WholeAnswersOnly` asks for the whole text where the stream holds it
  (`ToldInFull`), and in all cases that nothing but a completed generation succeeds.
* The cancellation of a goal that is about to end may set the event, or close the
  connection, of the next goal, which then fails.
* Closing a connection before `request` has opened it has no effect; the request is made.
* A goal interrupted by a cancellation may be reported aborted, not canceled.
* `request_timeout` is a timeout of each socket operation, not of the request, as the
  hard upper bound of `README.md:42` has it.

## 4. What is proved

A theorem holds for every value of the constants that its module's assumptions
admit, and for behaviours of any length; the bounds of the runs are constants like
any other.  Assumptions are named in
the modules that declare the constants, and TLC evaluates them on the instances.

| Module | Theorem | Property |
|---|---|---|
| MissionExecutive_proofs | TargetCurrent | TargetIsCurrent, from TypeCorrect, ConfirmationIsCurrent, ApproachIsConfirmed, EvidenceIsCurrent, SuccessIsConfirmed |
| | ApproachIsStable | ApproachKeepsTarget |
| | OutcomesAreFinal | OutcomeIsFinal |
| | TrailIsComplete | AuditTrail |
| | Refinement | ImplementsPromise: ConfirmedApproach is implemented |
| CommanderRuntime_proofs | LoopKeepsPromise | the loop implements ConfirmedApproach |
| | LoopKeepsTarget | TargetIsCurrent, ApproachKeepsTarget, AuditTrail and OutcomeIsFinal, of the loop |
| | RunsEnd | RunEndsTerminal |
| | ExecutiveAndBackendAgree | BackendAgrees |
| | ExhaustionIsObserved | ExhaustionWasObserved |
| MissionNode_proofs | OneMission | OneMissionAtATime |
| | SlotGoesWithMission | SlotIsTheMission |
| | ResultsAreTrue | ReportsItsMission |
| Navigation_proofs | OwnGoalReported | ReportsOwnGoal |
| | Serialized | MotionIsSerialized |
| | FillReachesComponent | the flood fill reaches the connected component, on every grid |
| | FillIsRight | FillIsComponent |
| | GoalsAreReachable | GoalsMatchMap |
| | ExhaustionIsTrue | ExhaustionIsHonest, for any two footprints, the selection's not the larger one |
| MissionRecording_proofs | EventsReachTheTopic | EveryEventIsPublished |
| | BagsAreTrue | BagsTellTheirMission |
| MutoDriver_proofs | ReportsTrue | ReportsAreTrue |
| | TripodStandsAlways | TripodStands |
| | StrideKept | StrideIsKept |
| | ReleaseIsFinal | ReleasedIsFinal |
| | LateralMotionIsAlone | LateralIsAlone: the gait library is never told to combine lateral motion |
| | DirectionIsKept | KeepsDirection: no axis is driven against its request or beyond its levels |
| | MoreIsNeverLess | NeverReverses: to ask for more never selects less |
| | LevelsArePredicted | PredictsItsLevel: a selection reports the speed of its level |
| | UnflaggedSelectionsAreExact | UnflaggedIsExact: a selection without flags does what was asked |
| ObjectRegistry_proofs | CandidatesTheorem | CandidatesAreTentative |
| | IndexTheorem | IndexFindsNearest |
| | CleanTheorem | CleanMeansSaved |
| | PicturesTheorem | PictureIsItsOwn |
| | MatchesDoNotWait | no cloud waits beside detections it would be paired with |
| | ShortlistsAreConsistent | ListIsConsistent, of lists of any length |
| | RevisionsAreDigests | RevisionDetermines, of any two lists |
| Vision_proofs | CloudAgrees | CloudShowsItsObjects |
| | CloudIsWhole | CloudIsWhatIsSeen |
| | OneAtATime | OneRequestAtATime |
| | NoConnectionLeaks | ConnectionIsActive |
| | AnswersAreWhole | WholeAnswersOnly |

**Executive.**  Assumptions: None is no candidate, revision, skill, tool or policy;
tool results are of their type; only an inspection carries evidence, and none without
a revision (`backend_adapters.py` leaves the field empty elsewhere); a result does not
reject the candidate it confirms; the set of
candidates is finite; the scenario's policy is a policy or None.  `IInv` adds to the
type invariant the four safety properties and `PolicyChosen` (a mission that was
accepted has a policy).  None of the four is inductive by itself: success copies the
confirmation of the running mission (`SuccessHasTarget` needs
`ConfirmedAtCurrentRevision` and a policy), the handoff needs the confirmation to be
current, an inspection keeps evidence current only if it was.  Most actions leave
all these fields alone: `StepShape` shows that a step is a new mission, a skill, a
tool result, or keeps what the invariant reads (`Kept`) while the lifecycle moves on
(`Advances`), so that the long case, `ResultSafe`, remains for tool results.  The
action properties and the refinement use the same shape.

**Loop.**  The results the backend can return (`ToolBackend`) are shown to be of the
executive's type and to meet its assumptions on evidence and verdicts, so that the executive's
theorems may be used by instantiation (`Proved`): by `LoopIsExecutive` a behaviour of the
loop is one of the executive, so its state satisfies `IInv`, it implements
ConfirmedApproach (`LoopKeepsPromise`) and keeps the executive's own promises
(`LoopKeepsTarget`).
`LoopInv` says where the board is at each `pc` (`Stages`), what a call that passed the
dispatcher was checked against (`Called`), what a result says of the snapshot
(`Returned`), and that a confirmed target is a candidate of the backend's snapshot,
which has the board's revision, but for the time between a new answer of the registry
and its record (`Linked`).  `Linked` is what `BackendAgrees` needs over several
missions: the snapshot outlives a mission, the board does not.  Assumptions
besides the executive's: limits are positive, and a revision determines its contents
(`Content`), as `_snapshot_revision` is a digest of them; that it may leave out what is
volatile is `RevisionsAreDigests`, below.

**Node.**  `SlotInv`: the goal in progress owns the slot, reserved until its execute
callback begins and by name afterwards; only its runtime is installed; only its
thread, or the recorder's, is in the middle of a commit.  `QuietInv` adds, while
no recorder has committed, how far the board has come at each point of the callback.
Both parts of the torn commit are in it.  Goals are no reserved words
(`NoneAssumption`).

**Motion.**  `MotionInv`: of the goals sent, all but those given up are finished, or are
the one the call waits for (`OpenGoals`); the lane is held during a call.  That at
most one goal moves the robot in turn follows with the theorems on cardinalities.

**Search.**  The fill is a recursive function over rounds.  The library's induction
principles take operators, which these provers cannot instantiate; its theorem that
well-founded orders have minimal members (`WFMin`) does not, and finite sets are
well-founded under strict inclusion.  From that, `NatInd` (induction as a statement
on sets), least members of finite sets (`FiniteLeast`) and the existence of functions
defined step by step (`Recursion`) follow; so the choice of the next cell is well
defined, each round settles one more cell, what is settled or queued is connected to
the start, and when the queue is empty a neighbour outside would have been queued.
`SearchInv` relates the report at hand to the map: a report with the revision of the
map is of the map, since the callback counts the revision first.  The selection's
points are all in `tried` while the mission is the known one.  That what was tried covers
what the robot reaches with the larger footprint is `SelectionReachesMore`: a cell that is safe for the
larger footprint is safe for the smaller one (`LargerIsSaferNowhere`), and a component
grows with the safe cells (`ComponentGrows`).

**Recorder.**  Events: `EventInv` has that positions are numbers as long as numbers
differ, everything up to `last` is published, and a thread that is under way
through the events covers what is not.  Bags: with no board lost, boards reach
the recorder mission by mission, each ending before a later one begins
(`MissionsInOrder`), and the recorder closes in that order (`WriterInOrder`).

**Driver.**  `DriverInv`: memory and position of the legs are the same while no
write failed, and the state last published is that of the gait unless it stands.
`StandInv` names the shapes the legs can be in: all where the gait has them
(`Clean`); standing was latched after a failed write that left some legs behind
(`Late`); and in the first phase of the next gait, in which such a leg may be skipped
once more (`Caught`).  In each of them a whole side is on the ground.  That a neighbouring phase of a foot on the
ground is within the bounds of the stance comes down to arithmetic modulo
`GaitSteps`, which is assumed to be 4, 8, 12, 16 or 20: the provers do not divide by
a variable (the code has 20).

The mappings have no state; their theorems are about all Twists and all profiles the
code accepts.  A nearest level exists because a finite set of naturals has a least
member (`NatLeast`, from `WFMin` as in Search), applied first to the gaps and then to
the levels with the least gap, as the code breaks ties.  That the speed interpolated
rises with the level, within and across the intervals of a curve (`Fraction`, the
division it uses), gives monotony.

**Registry.**  A callback merges sightings one after another into a copy of the
registry and publishes it at its end, so the invariant is stated of a copy, `Good`, and
the main lemma is `MergeGood`: merging one sighting keeps it, whatever comes of the
picture.  `MergeAllGood` and `RetryAllGood` carry it through the loops, which are folds,
by induction on the prefixes (`NatInd`, from `WFMin` as in Search).  `Good` has four parts.

* `Sound`: each record is in the cell of its centroid and in no other (`Exact`), names are
  distinct, a picture is named for its object and exists, candidates are `Tentative`.
  `IndexFindsNearest` follows from `Exact` and `IndexIsEnough`: an object in
  reach is in a neighbouring cell, by the arithmetic of quotients.
  `CandidatesAreTentative` rests on `NormalizeRun`: of observations in any order, what
  is left after sorting, the window and the last gap is a run, and a candidate that
  this confirms does not stay one.
* `Marked`: a copy without the flag is the registry as it was.  With it
  `CleanMeansSaved` is inductive.
* `Faithful`: the picture of each object is its own.  It needs that a new object's path is
  nobody else's: the names are distinct (`FreshName`), and a path begins with the name.
* `Kept`: the pictures that the file names are those of the records with the same names.
  Without it, a node started after a kill could not be shown to find the pictures its file
  tells of.

`Faithful` is claimed unless `revived`, `Kept` unless `stale`.  The property used to be
stated for `~stale`, which TLC did not refute with one fault; the proof stopped at the
save of a node that was started from a stale file, and TLC with two faults (the
clear's save and a kill) and objects confirmed at once found it false, and the new one
true.  Assumptions: thresholds,
window and gap are as the constructor validates them; places are integers; objects of the file
at the old path have distinct names and no pictures in the new directory.

Pairing: `match_pending_messages` loops until it finds no pair, `Observe` takes one.
`MatchesDoNotWait` shows that this is the same.  Of what waited nothing matches, so a pair
has the message that has just come (`NewestIsLast`: it is the last of its queue, also when
the queue overflows and loses its oldest); the pair takes it away, and what is left had
waited before (`LeftBehind`).

**Lists of the command layer.**  A request is split into tokens and the answers to them are
merged one after another.  `ListSteps` presents the fold by its steps, `MergedLists` is the
step, and `NatInd` goes over the tokens.  The assumption is that the objects of one answer have
distinct names, which `Sound` says of the registry.  `RevisionsAreDigests` has no
assumption.

**Annotator.**  `AnnotatorInv`: the depth images have their type, waiting and in hand
(`DepthsInv`); frames are numbered as they come, and a cloud of the frame in hand is out only
once the worker has published it (`FramesInOrder`); ids and objects of the result in hand
agree (`ResultInv`); what was published of this frame is what the result gives (`OutInv`).
Without `FramesInOrder` a cloud of an earlier frame, still the newest on its topic, could be
taken for this one's.  The rest is about the operators, whatever was found:

* the id of a pixel is the place of an object, and the pixel is in that object's mask,
  since the mask numbers the objects that were kept;
* the trim leaves each instance something, since the pixels of an instance whose distance
  to the edge is the greatest stay, and a pixel of the instance is at some distance from it;
* the rows of the chunks cover the image without a gap, and the first sample of each is
  the one the stride asks for (`SampledInRows`, `ChunksCover`); what a chunk merges into
  what is shown is the foremost of both (`ChunkMerges`), hence at the end the foremost of all, by the distance from the colour camera.

Assumptions: scenes are sequences of candidates, masks that come from prompts are sets of
pixels, depth images have a depth for each of their pixels and a place in the colour camera for
each depth, and the parameters are as the
constructor leaves them.

**VLM socket.**  `SocketInv`: a goal in execution keeps `busy` set, and the connection
registered is its own.  For the answers, `RightAnswer` says what the socket owes a
generation: a success with its whole text if it was completed and told in full, and
no success if it was not completed.  `ExchangesRight` shows it of every answer the endpoint may give, by the API, the form and
the way the generation ended: a stream tells its text by events
whose keys are parts (`ToldTells`), the deltas of a part joined are its text, as is the
last of its done events (`DeltasTell`, `DoneTells`), and the order of keys does not depend
on the order of arrival (`TwoTell`: an answer has one part or two).  `HeardInv` carries it from the answer to the goal's end.

The sequences here are joined and filtered by the folds of the community modules.
No induction principle over sequences can be used, so each fold is shown to be the last value of a
function on `0..n` that takes one step per element, and `NatInd` goes over its numbers.
The elements with a property are picked with `Those` (Selections) for this reason:
`SelectSeq` of the standard module is recursive and out of the prover's reach.

Only model-checked, and why: every invariant and every safety property of actions that a
passing run checks is a theorem.  What remains is liveness, beyond the prover:
`CancelEndsMission`, `CanceledGoalsEnd`, `CallEnds`, `SearchEnds`,
`EndedMissionsAreQuiet`, `SilenceStops`, `BothAreServed`, `ChangesAreShown`,
`AcceptedGoalsEnd`, `NewestGetsThrough`, `WorkerIsJoined`.

## 5. Not modelled

* Model transport, natural language, composition and simulation: one request and
  one answer; the loop's model takes any answer the parser admits.
* Kinematics, odometry and IMU: numeric, message by message; what their inputs may be
  is what MutoDriver shows.
* Bag recorders and replayer of the packages `muto_nav2_bag` and `muto_odometry_bag`;
  sensor filters.
* Launch files, descriptions, teleoperation, static transforms: no state.
* Of the modelled parts: rejections, feedback and the pose supplier of the mission node;
  the tokens of a request and the visual selector; the JSONL recorder and the end of the recorder
  process; joint and buzzer topics of the driver.

## 6. Plan

No safety property of a passing run is left to prove.  A theorem worth having beyond them:
that the fill's distances are the shortest ones.

Modelling that remains: odometry and the deadband filter as operators against a
reference; bag recorders and replayer, with start, stop and the end of the process.
