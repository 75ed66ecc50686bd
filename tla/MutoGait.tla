------------------------------ MODULE MutoGait ------------------------------
(***************************************************************************)
(* The gait library of the Muto: Hexapod, GaitPlan, RealLeg and the batch  *)
(* writes of Servo, as operators on a record with                          *)
(*                                                                         *)
(*   key      the command in progress (Hexapod._command_key and the mode   *)
(*            of GaitPlan, which change together)                          *)
(*   pending  the command that waits for the end of the gait cycle         *)
(*   phase    GaitPlan._phase_index                                        *)
(*   tip      RealLeg._tip_position, the target last accepted by the port  *)
(*   pos      where the legs were really sent (the controller's side)      *)
(*                                                                         *)
(* A target is not computed but named: the standing pose, the centre of    *)
(* the path, or a command with an index into the path's profile.           *)
(***************************************************************************)
EXTENDS Integers

CONSTANTS Legs,         \* their numbers, 0 .. 5 on the robot
          GaitSteps     \* GAIT_STEPS, 20 on the robot

ASSUME GaitAssumption ==
    /\ Legs \subseteq Nat
    /\ GaitSteps \in {4 * n : n \in 1..5}

(* What Hexapod tells commands apart by.  Forward motion does not look at  *)
(* the lateral level.                                                      *)
Key(mode, x, y, z) == [mode |-> mode, x |-> x, y |-> y, z |-> z]
Standby == Key("standby", 0, 0, 0)
NoCommand == Key("none", 0, 0, 0)

CommandKey(levels) ==
    LET x == levels[1]
        y == levels[2]
        z == levels[3]
    IN  CASE z = 0 /\ x = 0 /\ y = 0 -> Standby
          [] z = 0 /\ x # 0 -> Key("move_x", x, 0, 0)
          [] z = 0 /\ x = 0 /\ y # 0 -> Key("move_y", 0, y, 0)
          [] z # 0 /\ x = 0 /\ y = 0 -> Key("turn_z", 0, 0, z)
          [] OTHER -> Key("move_xz", x, y, z)

(* The levels of the targets: GaitPlan.configure leaves out y in move_xz.  *)
Active(key) == IF key.mode = "move_xz" THEN [key EXCEPT !.y = 0] ELSE key

(***************************************************************************)
(* Targets.  The profile is half a cycle on the ground, from front to      *)
(* back, and half a cycle through the air; odd legs are half a cycle       *)
(* behind, and walking backwards runs through the profile in reverse.      *)
(***************************************************************************)
HalfSteps == GaitSteps \div 2
QuarterSteps == GaitSteps \div 4

(* Mutant of ProfileIndex: odd legs are a quarter of a cycle behind.       *)
ProfileIndexByQuarter(key, leg, phase) ==
    LET forward == IF key.mode = "move_x" /\ key.x < 0 THEN -phase ELSE phase
    IN  (forward - QuarterSteps - QuarterSteps * (leg % 2)) % GaitSteps

ProfileIndex(key, leg, phase) ==
    LET forward == IF key.mode = "move_x" /\ key.x < 0 THEN -phase ELSE phase
    IN  (forward - QuarterSteps - HalfSteps * (leg % 2)) % GaitSteps

Standing == [at |-> "standing", of |-> Standby, index |-> 0]
Unknown == [at |-> "unknown", of |-> Standby, index |-> 0]
Centre == [at |-> "centre", of |-> Standby, index |-> 0]

Target(key, leg, phase) ==
    LET index == ProfileIndex(key, leg, phase)
    IN  CASE key = Standby -> Standing
          [] key # Standby /\ index = QuarterSteps -> Centre
          [] OTHER -> [at |-> "path", of |-> Active(key), index |-> index]

(* GaitPlan._state_for: the foot is on the nominal ground plane.           *)
Grounded(target) ==
    \/ target.at \in {"standing", "centre"}
    \/ target.at = "path" /\ target.index <= HalfSteps

Points(keys) ==
    {Standing, Centre, Unknown}
      \union [at : {"path"}, of : {Active(k) : k \in keys}, index : 0..(GaitSteps - 1)]

(***************************************************************************)
(* Commands                                                                *)
(***************************************************************************)
(* RealLeg: the position is unknown until this process sends a target.     *)
FreshTipAssumed == [l \in Legs |-> Standing]     \* mutant: assumed to stand
FreshTip == [l \in Legs |-> Unknown]

(* Muto.__init__, with the set_motion_command(0, 0, 0) that follows it.    *)
FreshGait(pos) ==
    [key |-> Standby, pending |-> NoCommand, phase |-> 0,
     tip |-> FreshTip, pos |-> pos]

Applied(m, key) ==
    [m EXCEPT !.key = key, !.pending = NoCommand, !.phase = 0]

(* Standby is applied at once, and so is what follows it; another command  *)
(* waits, and the latest wins; the one in progress calls the waiting off.  *)
SetCommand(m, levels) ==
    LET key == CommandKey(levels)
        atOnce == Standby \in {key, m.key}
    IN  CASE key = m.key -> [m EXCEPT !.pending = NoCommand]
          [] key # m.key /\ atOnce -> Applied(m, key)
          [] OTHER -> [m EXCEPT !.pending = key]

AtAnyPhase(m) == m.phase \in 0..GaitSteps        \* mutant: never waits
AtCycleBoundary(m) == m.phase = 0

CycleLength(key) == IF key = Standby THEN 1 ELSE GaitSteps

(* The head of Hexapod.tick, with GaitPlan.next_step: the phase advances   *)
(* before anything is written.                                             *)
NextPhase(m) ==
    LET c == IF m.pending # NoCommand /\ AtCycleBoundary(m)
             THEN Applied(m, m.pending) ELSE m
    IN  [c EXCEPT !.phase = (@ + 1) % CycleLength(c.key)]

Foot(m, leg) == Target(m.key, leg, m.phase)
Feet(m) == [l \in Legs |-> Foot(m, l)]

(* RealLeg._prepare_tip_move: a leg whose target was the last one accepted *)
(* is skipped.                                                             *)
ToMove(m) == {l \in Legs : m.tip[l] # Foot(m, l)}

Sent(m, moved) ==
    [m EXCEPT !.pos = [l \in Legs |-> IF l \in moved THEN Foot(m, l) ELSE @[l]]]
Committed(m, moved) ==
    [m EXCEPT !.tip = [l \in Legs |-> IF l \in moved THEN Foot(m, l) ELSE @[l]]]

(* The rest of the tick when nothing fails.                                *)
Written(m) ==
    [m EXCEPT !.tip = Feet(m),
              !.pos = [l \in Legs |-> IF m.tip[l] = Foot(m, l) THEN @[l] ELSE Foot(m, l)]]

Before(m, leg) == {l \in ToMove(m) : l < leg}

(* Mutant of BatchFaults: the legs are committed before the write.         *)
BatchFaultsCommitted(m) ==
    {Committed(Sent(m, moved), ToMove(m)) :
        moved \in {ToMove(m)} \union {Before(m, l) : l \in ToMove(m)}}

(* One write for all legs: the port may accept all frames and fail when    *)
(* flushed, or accept those of the first legs only.  No leg is committed.  *)
BatchFaults(m) ==
    {Sent(m, moved) : moved \in {ToMove(m)} \union {Before(m, l) : l \in ToMove(m)}}

(* One write for each leg: those before the failing one are committed.     *)
LegFaults(m) ==
    UNION {{Committed(Sent(m, moved), Before(m, l)) :
               moved \in {Before(m, l), Before(m, l) \union {l}}} : l \in ToMove(m)}

WriteFaults(m, batch) ==
    IF ToMove(m) = {} THEN {} ELSE IF batch THEN BatchFaults(m) ELSE LegFaults(m)

(* A target out of the reach of a leg, or an angle out of range: a batch   *)
(* is not begun, single legs have moved before.                            *)
Rejections(m, batch) ==
    IF m.key = Standby THEN {}
    ELSE {LET moved == IF batch THEN {} ELSE Before(m, bad)
          IN  Committed(Sent(m, moved), moved) : bad \in ToMove(m)}
=============================================================================
