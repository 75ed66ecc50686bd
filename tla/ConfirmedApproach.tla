-------------------------- MODULE ConfirmedApproach --------------------------
(***************************************************************************)
(* What the mission executive promises the rest of the robot, with no      *)
(* board, registry or event stream: missions run one at a time through a   *)
(* fixed lifecycle, the robot moves towards an object only once a target   *)
(* was confirmed, and the target of an approach is never exchanged.        *)
(***************************************************************************)
EXTENDS Naturals

CONSTANTS
  Candidates,   \* object identities of the registry
  Policies,     \* what a scenario may call success
  Exhaustive,   \* the policy that needs no target
  None,         \* no target, no policy
  MaxMissions   \* bound on the missions of one behaviour

VARIABLES
  phase,        \* lifecycle of the current mission
  mission,      \* its number
  policy,       \* its completion policy
  target,       \* the confirmed target
  approaching   \* has the approach skill been selected?

vars == <<phase, mission, policy, target, approaching>>

Finished == {"succeeded", "canceled", "failed"}

Init ==
  /\ phase = "idle"
  /\ mission = 0
  /\ policy = None
  /\ target = None
  /\ approaching = FALSE

Accept ==
  /\ phase \in {"idle"} \cup Finished
  /\ mission < MaxMissions
  /\ phase' = "accepted"
  /\ mission' = mission + 1
  /\ policy' \in Policies
  /\ target' = None
  /\ approaching' = FALSE

Start ==
  /\ phase = "accepted"
  /\ phase' = "running"
  /\ UNCHANGED <<mission, policy, target, approaching>>

(* Evidence may confirm, replace or withdraw the target of a search.       *)
Retarget ==
  /\ phase = "running"
  /\ ~approaching
  /\ target' \in Candidates \cup {None}
  /\ UNCHANGED <<phase, mission, policy, approaching>>

Handoff ==
  /\ phase = "running"
  /\ target # None
  /\ approaching' = TRUE
  /\ UNCHANGED <<phase, mission, policy, target>>

Succeed ==
  /\ phase = "running"
  /\ policy # Exhaustive => target # None
  /\ phase' = "succeeded"
  /\ UNCHANGED <<mission, policy, target, approaching>>

GiveUp ==
  /\ phase \in {"accepted", "running"}
  /\ phase' \in {"canceled", "failed"}
  /\ UNCHANGED <<mission, policy, target, approaching>>

Next == Accept \/ Start \/ Retarget \/ Handoff \/ Succeed \/ GiveUp

Spec == Init /\ [][Next]_vars
=============================================================================
