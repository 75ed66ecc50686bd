----------------------------- MODULE MCMissionNode -----------------------------
(* Finite instances of MissionNode. *)
EXTENDS MissionNode, TLC

MCSymmetry == Permutations(Goals) \cup Permutations(Stops)
=============================================================================
