--------------------------- MODULE MissionNodeClaims ---------------------------
(***************************************************************************)
(* What the documents say of the node and the code does not do.  Each      *)
(* claim is checked by a run of its own, which refutes it.                 *)
(***************************************************************************)
EXTENDS MCMissionNode

(* The lifecycle of the design document has no way out of SUCCEEDED,       *)
(* CANCELED and FAILED, and ADR-032 has canonical board commits serialized *)
(* by the executive.  The recorder's thread writes back the board it read  *)
(* before the mission's thread ended the mission, which is then running    *)
(* for good: every later goal is turned away.                              *)
EndedMissionStaysEnded ==
  [][board.state \in Terminal /\ board'.mission = board.mission
     => board'.state \in Terminal]_vars
=============================================================================
