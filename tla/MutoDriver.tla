----------------------------- MODULE MutoDriver -----------------------------
(***************************************************************************)
(* The driver node of the robot, muto_driver.py: velocity commands, the    *)
(* locomotion timer with its watchdog, release of the motors, and the      *)
(* telemetry that shares the serial line with the gait.                    *)
(*                                                                         *)
(* The node runs in one thread, so that a callback is one step.  Time      *)
(* passes between the calls of the timer, in units; deadlines are kept     *)
(* relative to now.                                                        *)
(***************************************************************************)
EXTENDS MutoGait, VelocityMapping

CONSTANTS
    Mapping,            \* locomotion_command_mapping
    Twists,             \* the velocity commands that may arrive
    CmdVelTimeout,      \* cmd_vel_timeout, in units of time
    RawPeriod,          \* periods of the two endpoints, in units of time
    AttitudePeriod,
    MaxDelay,           \* longest time between two calls of the timer
    Batch,              \* batch_gait_phase_writes
    MaxFaults           \* bound on failed writes of one process

ASSUME DriverAssumption ==
    /\ Mapping \in Mappings
    /\ Twists \subseteq [Axes -> Int \union {NotFinite}]
    /\ {CmdVelTimeout, RawPeriod, AttitudePeriod, MaxDelay} \subseteq Nat \ {0}
    /\ Batch \in BOOLEAN
    /\ MaxFaults \in Nat

VARIABLES
    running,    \* whether the process runs
    muto,       \* gait library and legs (MutoGait)
    desired,    \* desired_motion_levels
    age,        \* age of the last command; Stale for older or none
    selection,  \* last_velocity_selection (its levels)
    released,   \* motors_released
    shown,      \* the gait state last published
    reported,   \* the motion command state last published
    attitudeIn, \* time until next_attitude_monotonic, not positive when due
    rawIn,      \* time until next_raw_monotonic
    roomy,      \* number of slots in a row that left time for a read, up to 3
    faults      \* number of ticks that failed in this process

control == <<muto, desired, age, selection, released, shown, reported, faults>>
telemetry == <<attitudeIn, rawIn, roomy>>
vars == <<running, control, telemetry>>

Stale == CmdVelTimeout + 1

(* The messages: a gait phase as it was sent, and what was selected        *)
(* together with what is active.                                           *)
GaitState(m) == [key |-> m.key, phase |-> m.phase, feet |-> Feet(m)]
MotionState(m, levels) ==
    [selected |-> CommandKey(levels), active |-> m.key,
     pending |-> m.pending # NoCommand]

(* What is selected for a command, and the levels a process can hold.      *)
Selection == [twist \in Twists |-> Select(Mapping, twist)]
Levels == {Zero} \union {Selection[twist].levels : twist \in Twists}
Keys == {CommandKey(l) : l \in Levels}

TypeOK ==
    /\ running \in BOOLEAN
    /\ muto.key \in Keys
    /\ muto.pending \in Keys \union {NoCommand}
    /\ muto.phase \in 0..(GaitSteps - 1)
    /\ muto.tip \in [Legs -> Points(Keys)]
    /\ muto.pos \in [Legs -> Points(Keys)]
    /\ desired \in Levels
    /\ selection \in Levels
    /\ age \in 0..Stale
    /\ released \in BOOLEAN
    /\ shown.key \in Keys
    /\ reported.selected \in Keys
    /\ attitudeIn \in (1 - AttitudePeriod)..AttitudePeriod
    /\ rawIn \in (1 - RawPeriod)..RawPeriod
    /\ roomy \in 0..3
    /\ faults \in 0..MaxFaults

-----------------------------------------------------------------------------
(* A process that does not run remembers nothing.                          *)
Down(pos) ==
    /\ running' = FALSE
    /\ muto' = FreshGait(pos)
    /\ desired' = Zero
    /\ age' = Stale
    /\ selection' = Zero
    /\ released' = FALSE
    /\ shown' = GaitState(muto')
    /\ reported' = MotionState(muto', Zero)
    /\ attitudeIn' = 0
    /\ rawIn' = 0
    /\ roomy' = 0
    /\ faults' = 0

(* Before the first start nothing is known about the legs.                 *)
Init ==
    /\ running = FALSE
    /\ muto = FreshGait(FreshTip)
    /\ desired = Zero
    /\ age = Stale
    /\ selection = Zero
    /\ released = FALSE
    /\ shown = GaitState(muto)
    /\ reported = MotionState(muto, Zero)
    /\ attitudeIn = 0
    /\ rawIn = 0
    /\ roomy = 0
    /\ faults = 0

(* The constructor: standby is sent and published, the sensors are         *)
(* calibrated, the telemetry deadlines are set half a period apart, and    *)
(* the first slot sends standby again, which moves nothing.  A write that  *)
(* fails here ends the process, which is FailToStart.                      *)
Start ==
    /\ ~running
    /\ running' = TRUE
    /\ \E m \in {NextPhase(muto)} : muto' = Written(m)
    /\ shown' = GaitState(muto')
    /\ reported' = MotionState(muto', Zero)
    /\ LET smaller == IF RawPeriod < AttitudePeriod THEN RawPeriod ELSE AttitudePeriod
       IN  rawIn' = smaller \div 2
    /\ UNCHANGED <<desired, age, selection, released, attitudeIn, roomy, faults>>

FailToStart ==
    /\ ~running
    /\ \E m \in {NextPhase(muto)} : \E n \in WriteFaults(m, Batch) : Down(n.pos)

(* The process ends, whatever it was doing; the legs stay where they are.  *)
Crash == running /\ Down(muto.pos)

-----------------------------------------------------------------------------
(* cmd_vel_callback.  A Twist that is refused selects standby, and counts  *)
(* as a command all the same.                                              *)
CmdVelCallback(twist) ==
    /\ running /\ ~released
    /\ desired' = Selection[twist].levels
    /\ selection' = desired'
    /\ age' = 0
    /\ reported' = MotionState(muto, desired')
    /\ UNCHANGED <<running, muto, released, shown, faults, telemetry>>

(* release_motors_callback: the writes that switch off the torque may fail *)
(* on the way, which leaves the flag set.                                  *)
ReleaseMotorsCallback(succeeds) ==
    /\ running
    /\ released' = TRUE
    /\ desired' = Zero
    /\ age' = Stale
    /\ IF succeeds
       THEN selection' = Zero /\ reported' = MotionState(muto, Zero)
       ELSE UNCHANGED <<selection, reported>>
    /\ UNCHANGED <<running, muto, shown, faults, telemetry>>

-----------------------------------------------------------------------------
(* Telemetry: at most one read in a slot, after the gait.                  *)

(* The time to a deadline; of lateness only its part within a period       *)
(* matters (_advance_periodic_deadline leaves whole periods out).          *)
Later(deadline, delay, period) ==
    IF delay <= deadline THEN deadline - delay ELSE -((delay - deadline) % period)

Advanced(deadline, period) == deadline + period

(* Mutant of Selected: the attitude is read whenever anything is due.      *)
SelectedAttitude(attitude, raw) ==
    IF attitude <= 0 \/ raw <= 0 THEN "attitude" ELSE "none"

(* TelemetryScheduler.select                                               *)
Selected(attitude, raw) ==
    CASE attitude <= 0 -> "attitude"
      [] attitude > 0 /\ raw <= 0 -> "raw"
      [] OTHER -> "none"

(* mark_attempted: the deadline of a read that did not fit is kept.        *)
Attempted(endpoint, selected, fits) == fits /\ selected = endpoint

(* service_imu_telemetry, "delay" after the last slot; "fits" when         *)
(* _available_telemetry_response_timeout leaves enough.                    *)
ServiceTelemetry(delay, fits) ==
    LET attitude == Later(attitudeIn, delay, AttitudePeriod)
        raw == Later(rawIn, delay, RawPeriod)
        selected == Selected(attitude, raw)
    IN  /\ attitudeIn' = IF Attempted("attitude", selected, fits)
                         THEN Advanced(attitude, AttitudePeriod) ELSE attitude
        /\ rawIn' = IF Attempted("raw", selected, fits)
                    THEN Advanced(raw, RawPeriod) ELSE raw
        /\ roomy' = CASE fits /\ delay = 1 /\ roomy < 3 -> roomy + 1
                      [] fits /\ delay = 1 /\ roomy = 3 -> 3
                      [] OTHER -> 0

-----------------------------------------------------------------------------
(* update_locomotion                                                       *)
AgeAfter(delay) == IF age + delay > CmdVelTimeout THEN Stale ELSE age + delay

(* The watchdog: a command that is too old counts as standby.              *)
LevelsAt(a) == IF a = Stale THEN Zero ELSE desired

(* The gait with the command latched and its phase advanced, before the    *)
(* phase is written.                                                       *)
Latched(a) == NextPhase(SetCommand(muto, LevelsAt(a)))

PhaseSent ==
    /\ \E m \in {Latched(age')} : muto' = Written(m)
    /\ shown' = GaitState(muto')
    /\ reported' = MotionState(muto', selection)
    /\ UNCHANGED <<desired, selection, faults>>

(* The exception: standby is latched for the next slot, in any case.       *)
AfterFault(m) ==
    /\ muto' = SetCommand(m, Zero)
    /\ desired' = Zero
    /\ selection' = Zero
    /\ reported' = MotionState(m, Zero)
    /\ UNCHANGED shown

WriteFails(delay) ==
    /\ faults < MaxFaults
    /\ faults' = faults + 1
    /\ \E m \in {Latched(AgeAfter(delay))} : \E n \in WriteFaults(m, Batch) : AfterFault(n)

Rejected(delay) ==
    /\ faults < MaxFaults
    /\ faults' = faults + 1
    /\ \E m \in {Latched(AgeAfter(delay))} : \E n \in Rejections(m, Batch) : AfterFault(n)

(* Mutant of UpdateLocomotion: it goes on with the motors released.        *)
UpdateLocomotionAlways(delay, fits) ==
    /\ running
    /\ age' = AgeAfter(delay) /\ PhaseSent
    /\ ServiceTelemetry(delay, fits)
    /\ UNCHANGED <<running, released>>

UpdateLocomotion(delay, fits) ==
    /\ running /\ ~released
    /\ \/ age' = AgeAfter(delay) /\ PhaseSent
       \/ age' = Stale /\ (WriteFails(delay) \/ Rejected(delay))
    /\ ServiceTelemetry(delay, fits)
    /\ UNCHANGED <<running, released>>

(* With the motors released a slot serves the sensors only.                *)
UpdateReleased(delay, fits) ==
    /\ running /\ released
    /\ ServiceTelemetry(delay, fits)
    /\ UNCHANGED <<running, control>>

LocomotionTimer ==
    \E delay \in 1..MaxDelay, fits \in BOOLEAN :
       UpdateLocomotion(delay, fits) \/ UpdateReleased(delay, fits)

Next ==
    \/ Start \/ FailToStart \/ Crash
    \/ \E twist \in Twists : CmdVelCallback(twist)
    \/ \E succeeds \in BOOLEAN : ReleaseMotorsCallback(succeeds)
    \/ LocomotionTimer

Spec == Init /\ [][Next]_vars

(* The timer goes on while the process runs.                               *)
FairSpec == Spec /\ WF_vars(LocomotionTimer)

-----------------------------------------------------------------------------
(* As long as no write failed in this process, the feet of the published   *)
(* gait state are where the legs were sent, also after a restart that      *)
(* found the robot in another pose (leg.py: the position is unknown until  *)
(* the process sends a target; publish_commanded_gait_state).  Every       *)
(* variable keeps its type.                                                *)
ReportsAreTrue ==
    /\ TypeOK
    /\ running /\ faults = 0 => muto.pos = shown.feet

(* In any phase, also one that was written in part, the legs of one tripod *)
(* are all on the ground, unless a second write failed                     *)
(* (leg_batch, GaitPlan.next_step).                                        *)
TripodStands ==
    running /\ faults <= 1 =>
       \E side \in 0..1 : \A l \in Legs : l % 2 = side => Grounded(muto.pos[l])

(* One way of walking takes the place of another at the end of a cycle     *)
(* only, unless a fault latched standby in between (Hexapod.set_command).  *)
StrideIsKept ==
    [][running /\ running' /\ shown.key = muto.key
       /\ Standby \notin {shown.key, shown'.key} /\ shown.key # shown'.key
          => shown.phase = 0]_vars

(* Once the motors are released, no leg is sent anywhere until the process *)
(* is started again (update_locomotion, cmd_vel_callback).                 *)
ReleasedIsFinal ==
    [][running /\ running' /\ released
          => released' /\ muto'.pos = muto.pos]_vars

(* A leg stands; or, once a write failed in this process, it is where the  *)
(* first phase of a walk sends it.  That phase finds all legs standing, and *)
(* a failed write commits no target: a leg it moved still counts as        *)
(* standing, and standby skips it (RealLeg._prepare_tip_move).             *)
BackFrom(leg) ==
    \/ muto.pos[leg] = Standing
    \/ faults > 0 /\ \E key \in Keys \ {Standby} : muto.pos[leg] = Target(key, leg, 1)

(* When commands cease to arrive, the gait returns to standby, whatever    *)
(* was latched, waited for the end of a cycle, or failed; and every leg    *)
(* comes to stand, also those that a failed write left in mid-stride, but  *)
(* for the legs that it moved out of the standing pose                     *)
(* (update_locomotion, Hexapod.tick).                                      *)
SilenceStops ==
    <>[](running /\ ~released /\ age # 0)
       => <>[](/\ Standby = muto.key /\ Standby = shown.key
               /\ \A leg \in Legs : BackFrom(leg))

(* No endpoint starves, if three slots in a row are on time and leave room *)
(* for a read again and again (TelemetryScheduler).                        *)
BothAreServed ==
    []<>(running /\ roomy = 3) => []<>(attitudeIn > 0) /\ []<>(rawIn > 0)
=============================================================================
