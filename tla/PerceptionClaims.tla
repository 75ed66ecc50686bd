-------------------------- MODULE PerceptionClaims --------------------------
(***************************************************************************)
(* The annotator and the queues of the object registry put together: what  *)
(* the documents say of a pair of messages, and the code does not do.      *)
(* Every message arrives, in the order of its topic.                       *)
(***************************************************************************)
EXTENDS MCImageAnnotator, MessagePairs

VARIABLES
  sentClouds, sentDetections,          \* on their way
  pendingClouds, pendingDetections,    \* pending_clouds_, pending_detections_
  pair                                 \* the newest pair

registry == <<pendingClouds, pendingDetections, pair>>
perceptionVars == <<vars, sentClouds, sentDetections, registry>>

NoPair == <<>>

PerceptionInit ==
  /\ Init
  /\ sentClouds = <<>> /\ sentDetections = <<>>
  /\ pendingClouds = <<>> /\ pendingDetections = <<>> /\ pair = NoPair

\* A step of the annotator, and what it sends
Annotate ==
  /\ Next
  /\ sentClouds' = IF out'.cloud = out.cloud THEN sentClouds
                   ELSE Append(sentClouds, out'.cloud)
  /\ sentDetections' =
       IF out'.detections = out.detections THEN sentDetections
       ELSE Append(sentDetections, [stamp |-> out'.detections.frame] @@ out'.detections)
  /\ UNCHANGED registry

\* match_pending_messages after one of the callbacks
Match(waitingClouds, waitingDetections) ==
  \E best \in {BestPair(waitingClouds, waitingDetections)} :
    IF best = <<>>
    THEN /\ pendingClouds' = waitingClouds
         /\ pendingDetections' = waitingDetections
         /\ UNCHANGED pair
    ELSE /\ pendingClouds' = RemoveAt(waitingClouds, best[1])
         /\ pendingDetections' = RemoveAt(waitingDetections, best[2])
         /\ pair' = <<waitingClouds[best[1]], waitingDetections[best[2]]>>

ReceiveCloud ==
  /\ sentClouds # <<>>
  /\ sentClouds' = Tail(sentClouds)
  /\ Match(Trim(Append(pendingClouds, Head(sentClouds))), pendingDetections)
  /\ UNCHANGED <<vars, sentDetections>>

ReceiveDetections ==
  /\ sentDetections # <<>>
  /\ sentDetections' = Tail(sentDetections)
  /\ Match(pendingClouds, Trim(Append(pendingDetections, Head(sentDetections))))
  /\ UNCHANGED <<vars, sentClouds>>

PerceptionSpec ==
  /\ PerceptionInit
  /\ [][Annotate \/ ReceiveCloud \/ ReceiveDetections]_perceptionVars

(* An instance id connects one metadata item and cloud points of one frame  *)
(* only (docs/sam2_yolo_pipeline.md, "Object Identity and Naming"), and a   *)
(* pair is two products of the same annotator result ("Registry Input       *)
(* Pairing").  The annotator may skip the cloud of a frame alone, and       *)
(* frames follow each other faster than the registry tolerates: the cloud   *)
(* of the next frame meets the detections that were left                    *)
(* (match_pending_messages).                                                *)
PairsAreOfOneFrame ==
  (pair # NoPair /\ pair[1].points # {} /\ pair[2].objects # <<>>) =>
    pair[1].frame = pair[2].frame
=============================================================================
