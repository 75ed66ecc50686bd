---------------------------- MODULE MCMutoDriver ----------------------------
(***************************************************************************)
(* The driver with four legs, under the mapping by a calibrated profile;   *)
(* and the mapping of velocities by itself, for all three mappings.        *)
(***************************************************************************)
EXTENDS MutoDriver, TLC

MCLegs == 0..3
MCGaitSpeed == [x |-> 1, y |-> 2, yaw |-> 3]

(* Speeds with a plateau, an interval that does not begin at level 1, and  *)
(* directions that differ.                                                 *)
MCAxis(least) ==
    [positive |-> least :> 4 @@ (least + 2) :> 4 @@ (least + 5) :> 13,
     negative |-> least :> 6]
MCProfile == [phaseRate |-> 50, x |-> MCAxis(1), y |-> MCAxis(3), yaw |-> MCAxis(10)]

Twist(x, y, yaw) == [x |-> x, y |-> y, yaw |-> yaw]

(* One command to walk, one to turn while walking, below the least speed,  *)
(* not supported, and not finite.                                          *)
MCTwists == {Twist(5, 0, 0), Twist(-7, 0, 9), Twist(0, 1, 0), Twist(4, 4, 0),
             Twist(NotFinite, 0, 5)}

Speeds == -31..31
Requests == {Twist(x, y, yaw) : x, y, yaw \in {-31, -20, -1, 0, 3, 20, NotFinite}}

ASSUME MappingIsSafe ==
    \A mapping \in Mappings :
       /\ \A twist \in Requests :
             LateralIsAlone(mapping, twist) /\ UnflaggedIsExact(mapping, twist)
       /\ \A axis \in Axes, v \in Speeds :
             /\ KeepsDirection(mapping, axis, v) /\ PredictsItsLevel(axis, v)
             /\ \A w \in Speeds : NeverReverses(mapping, axis, v, w)
=============================================================================
