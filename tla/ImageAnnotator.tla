--------------------------- MODULE ImageAnnotator ---------------------------
(***************************************************************************)
(* The image annotator node: a slot with the newest colour image, a worker *)
(* thread that takes it, finds and segments objects in it and publishes    *)
(* masks, an instance cloud, detections and a heartbeat, and the sensor    *)
(* state the worker takes a snapshot of                                    *)
(* (sam2_image_annotator/sam2_image_annotator_node.py).                    *)
(*                                                                         *)
(* The callbacks are in one mutually exclusive group and run beside the    *)
(* worker; a step is what a callback does, or what the worker does between *)
(* two points where a callback can come in between.                        *)
(***************************************************************************)
EXTENDS InstanceClouds

CONSTANTS
  Engines,          \* what the node can have loaded: see Init
  Scenes,           \* what YOLO and SAM2 can find in an image
  ManualMasks,      \* what SAM2 can find for the configured prompts
  DepthImages,
  DepthTolerance,   \* depth_sync_tolerance
  DepthBufferSize,
  MinInterval,      \* 1 / max_publish_rate, 0 when it is 0
  Passthrough,      \* publish_passthrough_on_error
  MaxImages         \* bound: colour images

ASSUME NodeAssumption ==
  /\ Engines \subseteq {"yolo", "manual", "none"}
  /\ \A scene \in Scenes : scene \in Seq(Candidates)
  /\ \A mask \in ManualMasks : mask \subseteq Pixels
  /\ \A depth \in DepthImages : IsDepthImage(depth)
  /\ {DepthTolerance, MinInterval, MaxImages} \subseteq Nat
  /\ DepthBufferSize \in Nat \ {0}
  /\ Passthrough \in BOOLEAN

VARIABLES
  clock,       \* the stamp of the newest colour image of the camera
  slot,        \* pending_image_msg, by its stamp
  event,       \* pending_image_event
  depths,      \* depth_buffer
  calibrated,  \* depth_camera_info and color_camera_info have both come
  engine,      \* what load_predictor and load_detector got
  pc,          \* where the worker is
  image,       \* the image the worker has
  since,       \* time since the last start, up to MinInterval
  inputs,      \* the snapshot: a depth image and the camera infos
  result,      \* what publish_images is called with
  out,         \* the newest message of each topic
  closing,     \* how far destroy_node is; past "no", stop_event is set
  context      \* the ROS context is valid: publishing works

sensors == <<depths, calibrated>>
closure == <<closing, context>>
vars == <<clock, slot, event, sensors, engine, pc, image, since, inputs,
          result, out, closure>>

NoImage == 0
NoDepth == [stamp |-> -1, image |-> <<>>]
NoInputs == [depth |-> NoDepth, calibrated |-> FALSE]
Nothing == [objects |-> <<>>, mask |-> EmptyMask, depth |-> NoDepth]

Stopped == closing # "no"

Init ==
  /\ clock = 0 /\ slot = NoImage /\ event = FALSE
  /\ depths = <<>> /\ calibrated = FALSE
  /\ engine \in Engines
  /\ pc = "wait" /\ image = NoImage /\ since = MinInterval
  /\ inputs = NoInputs /\ result = Nothing
  /\ out = [mask |-> [frame |-> NoImage, ids |-> EmptyMask],
            cloud |-> [frame |-> NoImage, stamp |-> -1, points |-> {}],
            detections |-> [frame |-> NoImage, objects |-> <<>>],
            heartbeat |-> NoImage]
  /\ closing = "no" /\ context = TRUE

-----------------------------------------------------------------------------
\* The sensors.

\* image_callback: the newest image replaces the one that waits.
ImageCallback ==
  /\ clock < MaxImages /\ ~Stopped
  /\ clock' = clock + 1
  /\ slot' = clock + 1
  /\ event' = TRUE
  /\ since' = Min({since + 1, MinInterval})
  /\ UNCHANGED <<sensors, engine, pc, image, inputs, result, out, closure>>

\* Time without an image
Pass ==
  /\ since < MinInterval
  /\ since' = since + 1
  /\ UNCHANGED <<clock, slot, event, sensors, engine, pc, image, inputs,
                 result, out, closure>>

\* depth_callback: stamps increase, frames may come late or not at all.
DepthCallback ==
  /\ ~Stopped
  /\ \E stamp \in 0 .. clock, depth \in DepthImages :
       /\ depths # <<>> => stamp > depths[Len(depths)].stamp
       /\ depths' =
            LET longer == Append(depths, [stamp |-> stamp, image |-> depth])
            IN  IF Len(longer) > DepthBufferSize THEN Tail(longer) ELSE longer
  /\ UNCHANGED <<clock, slot, event, calibrated, engine, pc, image, since, inputs,
                 result, out, closure>>

\* depth_camera_info_callback, color_camera_info_callback: the one of the two
\* that comes last
CameraInfoCallback ==
  /\ ~Stopped /\ ~calibrated
  /\ calibrated' = TRUE
  /\ UNCHANGED <<clock, slot, event, depths, engine, pc, image, since, inputs,
                 result, out, closure>>

-----------------------------------------------------------------------------
\* The worker: processing_loop.

Worker(from, to) == pc = from /\ pc' = to

\* Mutant for WorkerIsJoined: the worker looks at stop_event only when there
\* is an image.
WaitForImage ==
  /\ event
  /\ Worker("wait", "woken")
  /\ UNCHANGED <<clock, slot, event, sensors, engine, image, since, inputs,
                 result, out, closure>>

\* The wait for the event times out to look at stop_event.
Wait ==
  /\ Stopped \/ event
  /\ Worker("wait", IF Stopped THEN "done" ELSE "woken")
  /\ UNCHANGED <<clock, slot, event, sensors, engine, image, since, inputs,
                 result, out, closure>>

Woken ==
  /\ Worker("woken", IF Stopped THEN "done"
                     ELSE IF since < MinInterval THEN "wait" ELSE "take")
  /\ UNCHANGED <<clock, slot, event, sensors, engine, image, since, inputs,
                 result, out, closure>>

\* Under pending_image_lock
Take ==
  /\ Worker("take", IF slot = NoImage THEN "wait" ELSE "start")
  /\ image' = slot
  /\ slot' = NoImage
  /\ event' = FALSE
  /\ UNCHANGED <<clock, sensors, engine, since, inputs, result, out, closure>>

\* Mutant for NewestGetsThrough: the event is cleared after the lock is
\* released.
StartAndClear ==
  /\ Worker("start", "snapshot")
  /\ since' = 0
  /\ event' = FALSE
  /\ UNCHANGED <<clock, slot, sensors, engine, image, inputs, result, out,
                 closure>>

Start ==
  /\ Worker("start", "snapshot")
  /\ since' = 0
  /\ UNCHANGED <<clock, slot, event, sensors, engine, image, inputs, result,
                 out, closure>>

\* snapshot_projection_inputs: of the buffered depth images the nearest in
\* time, the older one of two, if it is near enough.
Offset(depth, stamp) ==
  IF depth.stamp < stamp THEN stamp - depth.stamp ELSE depth.stamp - stamp

NearestDepth(buffer, stamp) ==
  IF buffer = <<>> THEN NoDepth
  ELSE LET i == CHOOSE i \in DOMAIN buffer : \A j \in DOMAIN buffer :
                  \/ Offset(buffer[i], stamp) < Offset(buffer[j], stamp)
                  \/ /\ Offset(buffer[i], stamp) = Offset(buffer[j], stamp)
                     /\ i <= j
       IN  IF Offset(buffer[i], stamp) > DepthTolerance THEN NoDepth
           ELSE buffer[i]

Snapshot ==
  /\ Worker("snapshot", "infer")
  /\ inputs' = [depth |-> NearestDepth(depths, image), calibrated |-> calibrated]
  /\ UNCHANGED <<clock, slot, event, sensors, engine, image, since, result,
                 out, closure>>

\* The worker's own variables of the frame go with it.
FrameEnds ==
  /\ image' = NoImage
  /\ inputs' = NoInputs
  /\ result' = Nothing

\* What is found in an image: the objects, and which pixels are theirs
Found == {[objects |-> Composed(segments), mask |-> InstanceMask(segments)] :
            segments \in {Detected(s) : s \in Scenes}}

\* The outcomes of process_image before it publishes.  An image that cannot
\* be read is not published at all, a failure of the models passes the
\* image on without objects.
Annotations ==
  {[objects |-> found.objects, mask |-> found.mask, depth |-> inputs.depth] :
     found \in Found}

ManualAnnotations ==
  {[objects |-> <<>>, depth |-> inputs.depth,
    mask |-> [p \in Pixels |-> IF p \in mask THEN 1 ELSE 0]] :
     mask \in ManualMasks}

Infer ==
  /\ \/ /\ Worker("infer", "masks")
        /\ \/ engine = "yolo" /\ result' \in Annotations
           \/ engine = "manual" /\ result' \in ManualAnnotations
           \/ Passthrough /\ result' = Nothing   \* unavailable, or failed
        /\ UNCHANGED <<image, inputs>>
     \/ Worker("infer", "wait") /\ FrameEnds     \* unreadable, or not passed on
  /\ UNCHANGED <<clock, slot, event, sensors, engine, since, out, closure>>

-----------------------------------------------------------------------------
\* publish_images, topic by topic

\* annotated image, union mask and instance mask
PublishMasks ==
  /\ context
  /\ Worker("masks", "cloud")
  /\ out' = [out EXCEPT !.mask = [frame |-> image, ids |-> result.mask]]
  /\ UNCHANGED <<clock, slot, event, sensors, engine, image, since, inputs,
                 result, closure>>

\* The cloud has the stamp of the depth image.  There is none when the depth
\* image is of another encoding or size than it should be, and none of a
\* mask with instances when the transform at the time of the depth image and
\* the latest one are missing, or the intrinsics are not valid.
CloudOf(kept) ==
  [frame |-> image, stamp |-> result.depth.stamp,
   points |-> InstanceCloud(result.depth.image, result.mask, kept)]

PublishCloud ==
  /\ context
  /\ Worker("cloud", "detections")
  /\ \/ /\ result.depth # NoDepth
        /\ inputs.calibrated
        /\ \E kept \in {Trimmed(result.mask)} :
             out' = [out EXCEPT !.cloud = CloudOf(kept)]
     \/ UNCHANGED out
  /\ UNCHANGED <<clock, slot, event, sensors, engine, image, since, inputs,
                 result, closure>>

\* /sam2/segments and /sam2/detections
PublishDetections ==
  /\ context
  /\ Worker("detections", "heartbeat")
  /\ out' = [out EXCEPT !.detections = [frame |-> image,
                                        objects |-> result.objects]]
  /\ UNCHANGED <<clock, slot, event, sensors, engine, image, since, inputs,
                 result, closure>>

PublishHeartbeat ==
  /\ context
  /\ Worker("heartbeat", "wait")
  /\ out' = [out EXCEPT !.heartbeat = image]
  /\ FrameEnds
  /\ UNCHANGED <<clock, slot, event, sensors, engine, since, closure>>

\* Without a context a publisher raises, for the passthrough as well.
PublishFails ==
  /\ ~context
  /\ pc \in {"masks", "cloud", "detections", "heartbeat"}
  /\ pc' = "wait"
  /\ FrameEnds
  /\ UNCHANGED <<clock, slot, event, sensors, engine, since, out, closure>>

-----------------------------------------------------------------------------
\* The end: a signal invalidates the context and ends the executor, and main
\* destroys the node.
Interrupt ==
  /\ context
  /\ context' = FALSE
  /\ UNCHANGED <<clock, slot, event, sensors, engine, pc, image, since, inputs,
                 result, out, closing>>

StopWorker ==
  /\ ~context /\ closing = "no"
  /\ closing' = "stop"
  /\ UNCHANGED <<clock, slot, event, sensors, engine, pc, image, since, inputs,
                 result, out, context>>

WakeWorker ==
  /\ closing = "stop"
  /\ event' = TRUE
  /\ closing' = "event"
  /\ UNCHANGED <<clock, slot, sensors, engine, pc, image, since, inputs,
                 result, out, context>>

JoinWorker ==
  /\ closing = "event" /\ pc = "done"
  /\ closing' = "joined"
  /\ UNCHANGED <<clock, slot, event, sensors, engine, pc, image, since, inputs,
                 result, out, context>>

-----------------------------------------------------------------------------
Publish ==
  \/ PublishMasks \/ PublishCloud \/ PublishDetections \/ PublishHeartbeat
  \/ PublishFails

WorkerStep == Wait \/ Woken \/ Take \/ Start \/ Snapshot \/ Infer \/ Publish
Sensor == ImageCallback \/ DepthCallback \/ CameraInfoCallback
Closing == StopWorker \/ WakeWorker \/ JoinWorker

Next == Sensor \/ Pass \/ WorkerStep \/ Interrupt \/ Closing
Spec == Init /\ [][Next]_vars

\* The scheduler runs the worker thread and the thread that destroys the
\* node, and time passes; no sensor has to send anything.
FairSpec == Spec /\ WF_vars(WorkerStep) /\ WF_vars(Pass) /\ WF_vars(Closing)

-----------------------------------------------------------------------------
\* What is checked.

(* The cloud and the detections of one frame speak of the same objects:     *)
(* the points with an instance id are seen in the mask of the object with   *)
(* that id, before any overlap is dealt with, and no object that owns a     *)
(* pixel of the instance mask is trimmed away (compose_detection_outputs,   *)
(* trim_instance_mask, publish_images).                                     *)
CloudShowsItsObjects ==
  /\ (/\ pc = "heartbeat" /\ engine = "yolo"
      /\ out.cloud.frame = out.detections.frame) =>
       \A point \in out.cloud.points :
         /\ point.id \in DOMAIN out.detections.objects
         /\ point.pixel \in out.detections.objects[point.id].mask
  /\ pc = "cloud" =>
       {out.mask.ids[p] : p \in Trimmed(out.mask.ids)} = Instances(out.mask.ids)

(* The chunks make the cloud that one pass over the whole depth image would *)
(* make: of every Stride-th depth pixel that has a depth, whatever the      *)
(* size of a chunk, each pixel of the instance shows the one nearest to the *)
(* colour camera, though the chunks are in the order of the depth camera    *)
(* (publish_instance_pointcloud; docs/sam2_yolo_pipeline.md, "Instance      *)
(* Point Cloud").                                                           *)
WholeCloud(depth, mask, kept) ==
  InstancePoints(Foremost(depth, {i \in DepthPixels : /\ i % Stride = 0
                                                      /\ SeenIn(depth, kept, i)}),
                 depth, mask)

CloudIsWhatIsSeen ==
  (pc = "detections" /\ out.cloud.frame = image) =>
    \E kept \in {Trimmed(result.mask)} :
      out.cloud.points = WholeCloud(result.depth.image, result.mask, kept)

(* The newest image gets through: an image in the slot is never left there  *)
(* with the worker asleep.  When the camera goes on it may be replaced, by  *)
(* an image that has to get through in its turn (image_callback,            *)
(* processing_loop).                                                        *)
NewestGetsThrough == (slot # NoImage) ~> (slot = NoImage \/ Stopped)

(* The thread that destroys the node joins the worker, wherever it is.      *)
WorkerIsJoined == (closing = "stop") ~> (closing = "joined")
=============================================================================
