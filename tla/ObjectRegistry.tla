--------------------------- MODULE ObjectRegistry ---------------------------
(***************************************************************************)
(* The object registry node: point clouds and detections paired by their   *)
(* time stamps, observations that wait for the transform of their instant, *)
(* the services, and the database that survives a restart                  *)
(* (src/sam2_object_registry/src/object_registry_node.cpp).                *)
(*                                                                         *)
(* All callbacks are in the node's default callback group, which is        *)
(* mutually exclusive, so each is one action although the executor has two *)
(* threads.  For the same reason an observation never outlives a clear     *)
(* between its pairing and its use: clear_generation_, which guards        *)
(* against that, has no state here.                                        *)
(***************************************************************************)
EXTENDS RegistryObjects, MessagePairs

CONSTANTS
  Scenes,             \* what a frame can show: sequences of sightings
  Places,             \* the places objects can be at
  LegacyObjects,      \* what the file at the old default path holds
  YoloConfidence, RetryWindow,
  MaxClock,           \* bound: frames taken
  MaxFaults           \* bound: lost messages, failures of the disk, kills

\* What the detector may report of an object, and where it is.
SightingType == [label : Labels, place : Int, conf : Nat, crop : BOOLEAN]

ASSUME InputAssumption ==
  /\ Scenes \subseteq Seq(SightingType)
  /\ Places \subseteq Int
  /\ YoloConfidence <= MinMeanConfidence
  /\ {RetryWindow, MaxClock, MaxFaults} \subseteq Nat

\* The file at the old path is like any other, but none of its objects has a
\* picture in the image directory.
ASSUME LegacyAssumption ==
  /\ IsFiniteSet(LegacyObjects)
  /\ LegacyObjects \subseteq ObjectType
  /\ \A o \in LegacyObjects : o.image = NoPath /\ o.conf = -1
  /\ \A o, p \in LegacyObjects : o.name = p.name => o = p

VARIABLES
  clock,        \* the time of the latest frame
  transforms,   \* the transform to the map is known up to this time
  clouds, detections,               \* published, not yet taken by the node
  pendingClouds, pendingDetections, \* pending_clouds_, pending_detections_
  retries,      \* pending_tf_observations_
  up,           \* the node runs
  reg,          \* what registry_mutex_ protects
  persistence,  \* persistence_enabled_
  shown,        \* the latched snapshot of /sam2/stored_objects
  file,         \* the database file
  pictures,     \* the image directory
  stale,        \* history: the file still has objects a clear has removed
  revived,      \* history: the node was started from such a file
  faults

inputs == <<clock, transforms, clouds, detections>>
queues == <<pendingClouds, pendingDetections, retries>>
disk == <<file, pictures, stale>>
mode == <<persistence, revived>>
vars == <<inputs, queues, up, reg, mode, shown, disk, faults>>

Absent == [kind |-> "absent", objects |-> {}]
Foreign == [kind |-> "foreign", objects |-> {}] \* malformed, or of another frame
Database(objects) == [kind |-> "objects", objects |-> objects]

EmptyRegistry == [records |-> <<>>, index |-> {}, candidates |-> {},
                  dirty |-> FALSE, unpublished |-> FALSE]

\* What queries answer, what is published and what is saved: the ids are
\* the node's own.
Objects(g) == {g.records[i] : i \in DOMAIN g.records}

Faulty(n) == /\ faults + n <= MaxFaults
             /\ faults' = faults + n

\* The disk takes what this step writes, or it does not.
DiskWorks(works) == Faulty(IF works THEN 0 ELSE 1)

Working == [records |-> reg.records, index |-> reg.index,
            candidates |-> reg.candidates, dirty |-> reg.dirty,
            unpublished |-> reg.unpublished, files |-> pictures, inserted |-> FALSE]

\* The end of a callback that worked on g: an inserted object is published
\* at once, an update waits for the timer.
Settle(g) ==
  /\ reg' = [records |-> g.records, index |-> g.index,
             candidates |-> g.candidates, dirty |-> g.dirty,
             unpublished |-> g.unpublished /\ ~g.inserted]
  /\ shown' = IF g.inserted THEN Objects(g) ELSE shown
  /\ pictures' = g.files

-----------------------------------------------------------------------------
\* Observations.

\* The sightings of a pair: instances the cloud has points of and whose
\* detection is confident enough.
Confident(detection) ==
  {i \in DOMAIN detection.scene : detection.scene[i].conf >= YoloConfidence}

Sightings(cloud, detection) ==
  [k \in 1 .. Len(detection.scene) |->
     [stamp |-> cloud.stamp, label |-> detection.scene[k].label,
      place |-> IF k \in DOMAIN cloud.scene THEN cloud.scene[k].place ELSE 0,
      conf |-> detection.scene[k].conf, crop |-> detection.scene[k].crop,
      counts |-> k \in Confident(detection) /\ k \in DOMAIN cloud.scene]]

\* process_observation, once the transform is known
MergeAll(g, cloud, detection, works) ==
  FoldLeft(LAMBDA h, o : IF o.counts THEN Merge(h, o, works) ELSE h,
           g, Sightings(cloud, detection))

TransformKnown(cloud) == cloud.stamp <= transforms

\* enqueue_transform_retry
EnqueueRetry(cloud, detection) ==
  retries' = IF RetryWindow = 0 THEN retries
             ELSE Trim(Append(retries, [cloud |-> cloud, detection |-> detection,
                                        deadline |-> clock + RetryWindow]))

\* process_paired_observation
ProcessPair(cloud, detection, works) ==
  IF Confident(detection) # {} /\ TransformKnown(cloud)
  THEN /\ \E g \in {MergeAll(Working, cloud, detection, works)} : Settle(g)
       /\ UNCHANGED retries
  ELSE /\ works
       /\ IF Confident(detection) = {} THEN UNCHANGED retries
          ELSE EnqueueRetry(cloud, detection)
       /\ UNCHANGED <<reg, shown, pictures>>

Observe(waitingClouds, waitingDetections, works) ==
  \E pair \in {BestPair(waitingClouds, waitingDetections)} :
    IF pair = <<>>
    THEN /\ works
         /\ pendingClouds' = waitingClouds
         /\ pendingDetections' = waitingDetections
         /\ UNCHANGED <<retries, reg, shown, pictures>>
    ELSE /\ pendingClouds' = RemoveAt(waitingClouds, pair[1])
         /\ pendingDetections' = RemoveAt(waitingDetections, pair[2])
         /\ ProcessPair(waitingClouds[pair[1]], waitingDetections[pair[2]], works)

PointcloudCallback ==
  /\ up /\ clouds # <<>>
  /\ clouds' = Tail(clouds)
  /\ \E works \in BOOLEAN :
       /\ DiskWorks(works)
       /\ Observe(Trim(Append(pendingClouds, Head(clouds))),
                  pendingDetections, works)
  /\ UNCHANGED <<clock, transforms, detections, up, mode, file, stale>>

DetectionsCallback ==
  /\ up /\ detections # <<>>
  /\ detections' = Tail(detections)
  /\ \E works \in BOOLEAN :
       /\ DiskWorks(works)
       /\ Observe(pendingClouds,
                  Trim(Append(pendingDetections, Head(detections))), works)
  /\ UNCHANGED <<clock, transforms, clouds, up, mode, file, stale>>

\* retry_pending_transforms: every waiting observation in turn, late ones
\* after younger ones that did not have to wait.
Expired(r) == clock >= r.deadline

Retried(h, r, works) ==
  CASE Expired(r) -> h
    [] ~Expired(r) /\ TransformKnown(r.cloud) ->
         [h EXCEPT !.g = MergeAll(@, r.cloud, r.detection, works)]
    [] OTHER -> [h EXCEPT !.again = Append(@, r)]

RetryAll(works) ==
  FoldLeft(LAMBDA h, r : Retried(h, r, works), [g |-> Working, again |-> <<>>], retries)

RetryPendingTransforms ==
  /\ up /\ retries # <<>>
  /\ \E works \in BOOLEAN :
       /\ DiskWorks(works)
       /\ works \/ \E i \in DOMAIN retries :
                     ~Expired(retries[i]) /\ TransformKnown(retries[i].cloud)
       /\ \E h \in {RetryAll(works)} : Settle(h.g) /\ retries' = h.again
  /\ UNCHANGED <<inputs, pendingClouds, pendingDetections, up, mode, file, stale>>

-----------------------------------------------------------------------------
\* Publication and persistence.

\* publish_periodic_snapshot
SnapshotTimer ==
  /\ up
  /\ reg' = [reg EXCEPT !.candidates = Prune(@, clock), !.unpublished = FALSE]
  /\ shown' = IF reg.unpublished THEN Objects(reg) ELSE shown
  /\ UNCHANGED <<inputs, queues, up, mode, disk, faults>>

\* The old default path is read only when there is no file at the new one.
LoadPath == IF file.kind = "absent" THEN Database(LegacyObjects) ELSE file

\* save_database: a whole new file in place of the old one, or a failure
\* that leaves the old one and the flag.
SaveDatabase(g, enabled, works) ==
  /\ works \/ (enabled /\ g.dirty)
  /\ IF enabled /\ g.dirty /\ works
     THEN /\ file' = Database(Objects(g))
          /\ stale' = revived
          /\ reg' = [g EXCEPT !.dirty = FALSE]
     ELSE /\ reg' = g
          /\ UNCHANGED <<file, stale>>

SaveCallback ==
  /\ up
  /\ \E works \in BOOLEAN :
       DiskWorks(works) /\ SaveDatabase(reg, persistence, works)
  /\ UNCHANGED <<inputs, queues, up, mode, shown, pictures>>

\* remove_object_images
WithoutPictures(objects) ==
  [p \in (DOMAIN pictures) \ {o.image : o \in objects} |-> pictures[p]]

\* clear_callback in a node that holds these objects: their pictures go
\* before the file that names them.
Clear(objects, works) ==
  /\ pictures' = WithoutPictures(objects)
  /\ pendingClouds' = <<>>
  /\ pendingDetections' = <<>>
  /\ retries' = <<>>
  /\ persistence' = TRUE /\ revived' = FALSE
  /\ shown' = {}
  /\ IF works
     THEN /\ file' = Database({})
          /\ stale' = FALSE
          /\ reg' = EmptyRegistry
     ELSE /\ stale' = (stale \/ LoadPath.objects # {})
          /\ reg' = [EmptyRegistry EXCEPT !.dirty = TRUE]
          /\ UNCHANGED file

ClearCallback ==
  /\ up
  /\ \E works \in BOOLEAN : DiskWorks(works) /\ Clear(Objects(reg), works)
  /\ UNCHANGED <<inputs, up>>

-----------------------------------------------------------------------------
\* The life of the process.

\* load_database: a picture that is gone is forgotten, and so is to be saved.
Loaded(o) == IF o.image \in DOMAIN pictures THEN o
             ELSE [o EXCEPT !.image = NoPath, !.conf = -1]

LoadedObjects == {Loaded(o) : o \in LoadPath.objects}

\* The file is in the order of the names, a text each: here, in any order.
LoadedRegistry(records, dirty) ==
  [EmptyRegistry EXCEPT
     !.records = records,
     !.index = {<<records[i].label, CellOf(records[i]), i>> : i \in DOMAIN records},
     !.dirty = dirty]

\* Mutant for CleanMeansSaved: what came from the old path counts as saved.
NeedsRewriteIfPicturesGone ==
  \E o \in LoadPath.objects : o.image # NoPath /\ Loaded(o).image = NoPath

NeedsRewrite ==
  \/ file.kind = "absent" /\ LegacyObjects # {}
  \/ \E o \in LoadPath.objects : o.image # NoPath /\ Loaded(o).image = NoPath

\* The constructor.  A start without load_existing loads what there is only
\* to clear it, pictures included; when that cannot be saved it gives up.
StartLoading ==
  /\ ~up
  /\ up' = TRUE
  /\ \E records \in SetToSeqs(LoadedObjects) :
       reg' = LoadedRegistry(records, NeedsRewrite)
  /\ shown' = LoadedObjects
  /\ persistence' = (file.kind # "foreign")
  /\ revived' = stale
  /\ UNCHANGED <<inputs, queues, disk, faults>>

StartFresh ==
  /\ ~up
  /\ up' = TRUE
  /\ Clear(LoadedObjects, TRUE)
  /\ UNCHANGED <<inputs, faults>>

Down ==
  /\ up' = FALSE
  /\ reg' = EmptyRegistry
  /\ persistence' = TRUE /\ revived' = FALSE
  /\ shown' = {}
  /\ clouds' = <<>>
  /\ detections' = <<>>
  /\ pendingClouds' = <<>>
  /\ pendingDetections' = <<>>
  /\ retries' = <<>>
  /\ UNCHANGED <<clock, transforms>>

StartFreshFails ==
  /\ ~up /\ Faulty(1)
  /\ pictures' = WithoutPictures(LoadedObjects)
  /\ stale' = (stale \/ LoadPath.objects # {})
  /\ Down
  /\ UNCHANGED file

\* flush_on_shutdown
Shutdown ==
  /\ up
  /\ \E works \in BOOLEAN :
       /\ DiskWorks(works)
       /\ works \/ (persistence /\ reg.dirty)
       /\ IF persistence /\ reg.dirty /\ works
          THEN file' = Database(Objects(reg)) /\ stale' = revived
          ELSE UNCHANGED <<file, stale>>
  /\ Down
  /\ UNCHANGED pictures

\* SIGKILL or power loss
Kill ==
  /\ up /\ Faulty(1)
  /\ Down
  /\ UNCHANGED disk

-----------------------------------------------------------------------------
\* The world: the camera, the annotator that sends one cloud and one message
\* of detections for a frame, and localization, whose transforms come late.

Publish(queue, sent, m) == IF sent /\ up THEN Append(queue, m) ELSE queue

Frame ==
  /\ clock < MaxClock
  /\ clock' = clock + 1
  /\ \E scene \in Scenes, lost \in SUBSET {"cloud", "detections"} :
       /\ Faulty(Cardinality(lost))
       /\ lost # {} => up
       /\ LET m == [stamp |-> clock + 1, scene |-> scene]
          IN  /\ clouds' = Publish(clouds, "cloud" \notin lost, m)
              /\ detections' = Publish(detections, "detections" \notin lost, m)
  /\ UNCHANGED <<transforms, queues, up, reg, mode, shown, disk>>

TransformsArrive ==
  /\ transforms < clock
  /\ transforms' = clock
  /\ UNCHANGED <<clock, clouds, detections, queues, up, reg, mode, shown, disk,
                 faults>>

Init ==
  /\ clock = 0 /\ transforms = 0
  /\ clouds = <<>> /\ detections = <<>>
  /\ pendingClouds = <<>> /\ pendingDetections = <<>> /\ retries = <<>>
  /\ up = FALSE /\ reg = EmptyRegistry /\ persistence = TRUE /\ shown = {}
  /\ file \in {Absent, Foreign}
  /\ pictures = <<>> /\ stale = FALSE /\ revived = FALSE /\ faults = 0

Next ==
  \/ Frame \/ TransformsArrive
  \/ PointcloudCallback \/ DetectionsCallback \/ RetryPendingTransforms
  \/ SnapshotTimer \/ SaveCallback \/ ClearCallback
  \/ StartLoading \/ StartFresh \/ StartFreshFails \/ Shutdown \/ Kill

Spec == Init /\ [][Next]_vars

\* The wall timer fires as long as the node runs.
FairSpec == Spec /\ WF_vars(SnapshotTimer)

-----------------------------------------------------------------------------
\* Properties.

\* Whatever the order in which observations arrive, those of a candidate are
\* of distinct instants in order, inside the window and without an excessive
\* gap; they do not suffice yet, and the crop is of one of them
\* (stage_candidate_locked).
CandidatesAreTentative ==
  \A c \in reg.candidates :
    LET o == c.observations
    IN  /\ \A i \in 2 .. Len(o) :
             o[i].stamp - o[i - 1].stamp \in 1 .. ConfirmationMaxGap
        /\ Newest(c) - Oldest(c) <= ConfirmationWindow
        /\ ~Confirmed(o)
        /\ c.crop = NoCrop \/ \E i \in DOMAIN o : o[i].stamp = c.crop.stamp

\* However centroids have moved, looking at the neighbouring cells finds the
\* nearest object of a label, if one is in reach (find_nearest_locked).
IndexFindsNearest ==
  \A label \in {r.label : r \in Objects(reg)}, place \in Places :
    LET near == {i \in DOMAIN reg.records :
                   /\ reg.records[i].label = label
                   /\ Within(place, reg.records[i])}
        found == FindNearest(reg, label, place)
    IN  IF near = {} THEN found = 0
        ELSE /\ found \in near
             /\ \A i \in near : ~Nearer(place, reg.records[i], reg.records[found])

\* A registry that has nothing to save is the one in the file: across loads,
\* failed saves, clears and kills a clean flag is never a lie (dirty_).
CleanMeansSaved ==
  (up /\ persistence /\ ~reg.dirty) => file.objects = Objects(reg)

\* The picture an object refers to is the one whose confidence it tells,
\* though ids are given anew at each start, unless the node was started from
\* a file that names pictures a clear has removed (store_object_image).
PictureIsItsOwn ==
  ~revived => \A r \in Objects(reg) :
    r.image \in DOMAIN pictures => pictures[r.image] = r.conf

\* Every change of the registry is published in the end (revision_ and
\* published_revision_), unless the node goes down first.
ChangesAreShown ==
  (up /\ shown # Objects(reg)) ~> (~up \/ shown = Objects(reg))
=============================================================================
