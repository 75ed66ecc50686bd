---------------------------- MODULE MessagePairs ----------------------------
(***************************************************************************)
(* How the object registry finds the cloud and the detections that belong  *)
(* together: two bounded queues and the time stamps in them                *)
(* (src/sam2_object_registry/src/object_registry_node.cpp).                *)
(***************************************************************************)
EXTENDS Integers, Sequences

CONSTANTS
  SyncTolerance,      \* metadata_sync_tolerance
  SyncQueueSize       \* sync_queue_size

ASSUME PairingAssumption == SyncTolerance \in Nat /\ SyncQueueSize \in Nat \ {0}

Apart(m, n) == IF m.stamp < n.stamp THEN n.stamp - m.stamp ELSE m.stamp - n.stamp

Trim(queue) ==
  IF Len(queue) > SyncQueueSize THEN Tail(queue) ELSE queue

\* match_pending_messages: the pair with the least offset.  Messages that
\* were left waiting do not match each other, so that a callback makes at
\* most one pair and the loop of the code runs its body once.
BestPair(waitingClouds, waitingDetections) ==
  LET offset(p) == Apart(waitingClouds[p[1]], waitingDetections[p[2]])
      pairs == {p \in (DOMAIN waitingClouds) \X (DOMAIN waitingDetections) :
                  offset(p) <= SyncTolerance}
  IN  IF pairs = {} THEN <<>>
      ELSE CHOOSE p \in pairs : \A q \in pairs :
             \/ offset(p) < offset(q)
             \/ /\ offset(p) = offset(q)
                /\ p[1] < q[1] \/ (p[1] = q[1] /\ p[2] <= q[2])
=============================================================================
