--------------------------- MODULE VelocityMapping ---------------------------
(***************************************************************************)
(* How the driver maps a Twist to motion levels: velocity_calibration.py,  *)
(* and the legacy mapping of muto_driver.py.                               *)
(*                                                                         *)
(* Speeds are whole numbers of a unit so small that the speeds a curve     *)
(* interpolates are whole as well.  The amplitude that the geometric       *)
(* mapping selects is continuous: it is given by the speed it makes, that  *)
(* is, as a number of units of which GaitSpeed[axis] make a level.         *)
(***************************************************************************)
EXTENDS Integers, FiniteSetsExt

CONSTANTS
    NotFinite,      \* a component of a Twist that is no finite number
    Profile,        \* the profile of the calibration file
    PhaseRate,      \* locomotion_update_rate_hz
    GaitSpeed,      \* for each axis, the speed of level 1 by geometry
    Hundredth       \* 0.01 m/s or rad/s

Axes == {"x", "y", "yaw"}
Mappings == {"geometric", "calibrated", "legacy_100"}

(* The levels of the gait on an axis, without 0.                           *)
LevelRange(axis) == IF axis = "yaw" THEN 2..20 ELSE 1..30
LevelMax(axis) == IF axis = "yaw" THEN 20 ELSE 30

(* A curve maps levels to the speeds measured at them.                     *)
IsCurve(curve, range) ==
    /\ DOMAIN curve # {} /\ DOMAIN curve \subseteq range
    /\ \A l \in DOMAIN curve : curve[l] \in Nat \ {0}
    /\ \A k, l \in DOMAIN curve : k < l => curve[k] <= curve[l]

(* _axis_from_mapping: directions have curves of their own.                *)
IsAxis(axis, range) == IsCurve(axis.positive, range) /\ IsCurve(axis.negative, range)

(* A process whose profile VelocityCalibrationProfile refuses, or whose    *)
(* rate is not the one of its profile, does not start.                     *)
IsProfile(profile) ==
    /\ profile.phaseRate \in Nat \ {0}
    /\ \A axis \in Axes : IsAxis(profile[axis], LevelRange(axis))

Accepted(profile, phaseRate) == IsProfile(profile) /\ phaseRate = profile.phaseRate

ASSUME ProfileAssumption ==
    /\ NotFinite \notin Int
    /\ Accepted(Profile, PhaseRate)
    /\ GaitSpeed \in [Axes -> Nat \ {0}]
    /\ Hundredth \in Nat \ {0}

-----------------------------------------------------------------------------
Zero == <<0, 0, 0>>

Magnitude(v) == IF v < 0 THEN -v ELSE v
Signed(v, magnitude) == IF v < 0 THEN -magnitude ELSE magnitude
Clipped(magnitude, most) == IF magnitude > most THEN most ELSE magnitude

CurveFor(axis, v) == IF v > 0 THEN Profile[axis].positive ELSE Profile[axis].negative

Below(curve, level) == Max({l \in DOMAIN curve : l <= level})
Above(curve, level) == Min({l \in DOMAIN curve : l >= level})

(* CalibrationCurve.speed_at_level, within the interval of the curve; the  *)
(* implicit candidate 0 stands still.                                      *)
SpeedAt(curve, level) ==
    LET lower == Below(curve, level)
        upper == Above(curve, level)
    IN  CASE level = 0 -> 0
          [] level \in DOMAIN curve -> curve[level]
          [] OTHER -> curve[lower]
                      + ((level - lower) * (curve[upper] - curve[lower])) \div (upper - lower)

Candidates(curve) == {0} \union Min(DOMAIN curve)..Max(DOMAIN curve)

(* The nearest speed wins, and of two that are as near the lower level.    *)
Preferred(curve, magnitude, k, l) ==
    LET gap(level) == Magnitude(SpeedAt(curve, level) - magnitude)
    IN  gap(k) < gap(l) \/ (gap(k) = gap(l) /\ k <= l)

Nearest(curve, magnitude) ==
    CHOOSE k \in Candidates(curve) :
       \A l \in Candidates(curve) : Preferred(curve, magnitude, k, l)

OnAxis(level, predicted, saturated, projected) ==
    [level |-> level, predicted |-> predicted, saturated |-> saturated,
     projected |-> projected, toZero |-> projected /\ level = 0]

(* VelocityCalibrationMapper._select_axis                                  *)
SelectLevel(axis, v) ==
    LET curve == CurveFor(axis, v)
        level == Nearest(curve, Magnitude(v))
        speed == SpeedAt(curve, level)
    IN  IF v = 0 THEN OnAxis(0, 0, FALSE, FALSE)
        ELSE OnAxis(Signed(v, level), Signed(v, speed),
                    Magnitude(v) > SpeedAt(curve, Max(DOMAIN curve)),
                    speed # Magnitude(v))

(* predict_levels, _predict_axis                                           *)
Predicted(axis, level) ==
    Signed(level, SpeedAt(CurveFor(axis, level), Magnitude(level)))

(* geometric_velocity_profile: linear up to the greatest level.            *)
Fastest(axis) == LevelMax(axis) * GaitSpeed[axis]

(* GeometricVelocityMapper._select_continuous_axis                         *)
SelectAmplitude(axis, v) ==
    LET clipped == Clipped(Magnitude(v), Fastest(axis))
        saturated == Magnitude(v) > Fastest(axis)
    IN  [OnAxis(Signed(v, clipped), Signed(v, clipped), saturated, saturated)
            EXCEPT !.toZero = FALSE]

(* legacy_velocity_selection: hundredths, rounded towards zero; a rotation *)
(* has at least level 10.                                                  *)
SelectHundredths(axis, v) ==
    LET most == LevelMax(axis) * Hundredth
        clipped == Clipped(Magnitude(v), most)
        least == 10 * Hundredth
        level == IF axis = "yaw" /\ clipped > 0 /\ clipped < least
                 THEN 10 ELSE clipped \div Hundredth
    IN  OnAxis(Signed(v, level), Signed(v, level * Hundredth), Magnitude(v) > most, FALSE)

SelectAxis(mapping, axis, v) ==
    CASE mapping = "geometric" -> SelectAmplitude(axis, v)
      [] mapping = "calibrated" -> SelectLevel(axis, v)
      [] mapping = "legacy_100" -> SelectHundredths(axis, v)

-----------------------------------------------------------------------------
(* Lateral motion goes with no other, by levels (_mode_for_levels, which   *)
(* raises a ValueError) and by request.                                    *)
Combines(levels) == levels[2] # 0 /\ (levels[1] # 0 \/ levels[3] # 0)

Mode(levels) ==
    CASE levels[2] # 0 -> "move_y"
      [] levels[2] = 0 /\ levels[1] # 0 /\ levels[3] # 0 -> "move_xz"
      [] levels[2] = 0 /\ levels[1] # 0 /\ levels[3] = 0 -> "move_x"
      [] levels[2] = 0 /\ levels[1] = 0 /\ levels[3] # 0 -> "turn_z"
      [] OTHER -> "standby"

(* A VelocitySelection; flags are the sets of axes they are raised for.    *)
Refusal(saturated, projected) ==
    [levels |-> Zero, mode |-> "standby", predicted |-> [a \in Axes |-> 0],
     saturated |-> saturated, projected |-> projected, toZero |-> {},
     supported |-> FALSE]

LevelsOf(on) == <<on["x"].level, on["y"].level, on["yaw"].level>>

Executable(on) ==
    [levels |-> LevelsOf(on), mode |-> Mode(LevelsOf(on)),
     predicted |-> [a \in Axes |-> on[a].predicted],
     saturated |-> {a \in Axes : on[a].saturated},
     projected |-> {a \in Axes : on[a].projected},
     toZero |-> {a \in Axes : on[a].toZero},
     supported |-> TRUE]

(* VelocityCalibrationMapper.select, GeometricVelocityMapper.select: the   *)
(* request must not combine; legacy_velocity_selection: its levels.        *)
SelectFinite(mapping, twist) ==
    LET on == [a \in Axes |-> SelectAxis(mapping, a, twist[a])]
        requested == {a \in Axes : twist[a] # 0}
        saturated == {a \in Axes : on[a].saturated}
    IN  IF mapping = "legacy_100"
        THEN IF Combines(LevelsOf(on)) THEN Refusal(saturated \union {"y"}, {})
             ELSE Executable(on)
        ELSE IF "y" \in requested /\ requested # {"y"} THEN Refusal({}, requested)
             ELSE Executable(on)

(* cmd_vel_callback: PlanarVelocity raises for what is not finite, and     *)
(* _standby_selection takes its place.                                     *)
IsFinite(twist) == \A a \in Axes : twist[a] # NotFinite

Select(mapping, twist) ==
    IF IsFinite(twist) THEN SelectFinite(mapping, twist)
    ELSE Refusal({a \in Axes : twist[a] \notin {0, NotFinite}}, {})

-----------------------------------------------------------------------------
(* No selection combines lateral motion with another, so that the gait     *)
(* library is never told to (_mode_for_levels).                            *)
LateralIsAlone(mapping, twist) == ~Combines(Select(mapping, twist).levels)

(* The greatest amplitude on an axis, in what the mapping counts.          *)
Greatest(mapping, axis) ==
    IF mapping = "geometric" THEN Fastest(axis) ELSE LevelMax(axis)

(* An axis is never driven against its request or beyond the levels of the *)
(* gait, and stands still when nothing is asked of it (_select_axis,       *)
(* _select_continuous_axis, legacy_velocity_selection).                    *)
KeepsDirection(mapping, axis, v) ==
    LET level == SelectAxis(mapping, axis, v).level
    IN  IF v < 0 THEN level \in -Greatest(mapping, axis)..0
        ELSE level \in 0..(IF v = 0 THEN 0 ELSE Greatest(mapping, axis))

(* To ask for more never selects less, also where the curves of the two    *)
(* directions differ (_select_axis).                                       *)
NeverReverses(mapping, axis, v, w) ==
    v <= w => SelectAxis(mapping, axis, v).level <= SelectAxis(mapping, axis, w).level

(* The speed that is published with a level is the one predict_levels has  *)
(* for it (_select_axis).                                                  *)
PredictsItsLevel(axis, v) ==
    SelectLevel(axis, v).predicted = Predicted(axis, SelectLevel(axis, v).level)

(* A selection that raises no flag does what was asked for, but for the    *)
(* legacy mapping, which does not say what it rounds.                      *)
UnflaggedIsExact(mapping, twist) ==
    LET s == Select(mapping, twist)
    IN  mapping # "legacy_100" /\ s.supported /\ s.saturated \union s.projected = {}
           => \A a \in Axes : s.predicted[a] = twist[a]
==============================================================================
