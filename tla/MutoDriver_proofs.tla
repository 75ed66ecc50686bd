--------------------------- MODULE MutoDriver_proofs ---------------------------
(***************************************************************************)
(* The driver and its gait, for any legs, levels, periods and timeouts and *)
(* every length of the gait cycle, whatever writes fail and whenever the   *)
(* process is killed and started again; and at the end the mapping of      *)
(* velocities to levels, for any profile.                                  *)
(***************************************************************************)
EXTENDS MutoDriver, WellFoundedInduction, TLAPS

GaitType ==
  [key : Keys, pending : Keys \union {NoCommand}, phase : 0..(GaitSteps - 1),
   tip : [Legs -> Points(Keys)], pos : [Legs -> Points(Keys)]]

-----------------------------------------------------------------------------
(* The gait's operators: what each does to its record.                     *)
LEMMA GaitFacts == GaitSteps \in Nat \ {0} /\ Legs \subseteq Nat /\ QuarterSteps \in Nat
                   /\ HalfSteps \in Nat
BY GaitAssumption DEF QuarterSteps, HalfSteps

LEMMA StandbyIsKey == Standby \in Keys /\ NoCommand # Standby
<1>1. CommandKey(Zero) = Standby
  BY DEF CommandKey, Zero
<1>2. QED
  BY <1>1 DEF Keys, Levels, Standby, NoCommand, Key

LEMMA IndexTyped ==
  ASSUME NEW key, NEW l \in Legs, NEW phase \in 0..(GaitSteps - 1)
  PROVE  ProfileIndex(key, l, phase) \in 0..(GaitSteps - 1)
<1> DEFINE forward == IF key.mode = "move_x" /\ key.x < 0 THEN -phase ELSE phase
<1>1. forward \in Int
  BY GaitFacts
<1>2. l % 2 \in 0..1
  BY GaitFacts
<1>3. forward - QuarterSteps - HalfSteps * (l % 2) \in Int
  <2>1. CASE l % 2 = 0
    BY <1>1, <2>1, GaitFacts
  <2>2. CASE l % 2 = 1
    BY <1>1, <2>2, GaitFacts
  <2>3. QED
    BY <1>2, <2>1, <2>2
<1>4. QED
  BY <1>3, GaitFacts DEF ProfileIndex

LEMMA FootTyped ==
  ASSUME NEW m \in GaitType, NEW l \in Legs
  PROVE  Foot(m, l) \in Points(Keys)
<1>1. ProfileIndex(m.key, l, m.phase) \in 0..(GaitSteps - 1)
  BY IndexTyped DEF GaitType
<1>2. m.key \in Keys
  BY DEF GaitType
<1>3. QED
  BY <1>1, <1>2 DEF Foot, Target, Points

LEMMA FreshTyped ==
  ASSUME NEW pos \in [Legs -> Points(Keys)]
  PROVE  FreshGait(pos) \in GaitType
<1>1. FreshTip \in [Legs -> Points(Keys)]
  BY DEF FreshTip, Points
<1>2. 0 \in 0..(GaitSteps - 1)
  BY GaitFacts
<1>3. QED
  BY <1>1, <1>2, StandbyIsKey DEF FreshGait, GaitType

LEMMA AppliedTyped ==
  ASSUME NEW m \in GaitType, NEW key \in Keys
  PROVE  /\ Applied(m, key) \in GaitType
         /\ Applied(m, key).key = key /\ Applied(m, key).phase = 0
         /\ Applied(m, key).pending = NoCommand
         /\ Applied(m, key).tip = m.tip /\ Applied(m, key).pos = m.pos
<1>1. 0 \in 0..(GaitSteps - 1)
  BY GaitFacts
<1>2. QED
  BY <1>1 DEF Applied, GaitType

LEMMA SetCommandTyped ==
  ASSUME NEW m \in GaitType, NEW levels \in Levels
  PROVE  /\ SetCommand(m, levels) \in GaitType
         /\ SetCommand(m, levels).tip = m.tip /\ SetCommand(m, levels).pos = m.pos
         /\ SetCommand(m, levels).key # m.key =>
              /\ Standby \in {m.key, SetCommand(m, levels).key}
              /\ SetCommand(m, levels).phase = 0
              /\ SetCommand(m, levels).pending = NoCommand
         /\ m.key = Standby => SetCommand(m, levels).pending = NoCommand
         /\ SetCommand(m, levels).key = m.key => SetCommand(m, levels).phase = m.phase
         /\ levels = Zero => SetCommand(m, levels).key = Standby
<1>1. CommandKey(levels) \in Keys
  BY DEF Keys
<1>2. levels = Zero => CommandKey(levels) = Standby
  BY DEF Zero, CommandKey
<1> DEFINE key == CommandKey(levels)
           called == [m EXCEPT !.pending = NoCommand]
           waiting == [m EXCEPT !.pending = key]
<1>3. /\ called \in GaitType /\ called.tip = m.tip /\ called.pos = m.pos
      /\ called.key = m.key /\ called.phase = m.phase /\ called.pending = NoCommand
  BY DEF GaitType
<1>4. /\ waiting \in GaitType /\ waiting.tip = m.tip /\ waiting.pos = m.pos
      /\ waiting.key = m.key /\ waiting.phase = m.phase
  BY <1>1 DEF GaitType
<1>5. CASE key = m.key
  <2>1. SetCommand(m, levels) = called
    BY <1>5 DEF SetCommand
  <2>2. QED
    BY <1>2, <1>3, <1>5, <2>1
<1>6. CASE key # m.key /\ Standby \in {key, m.key}
  <2>1. SetCommand(m, levels) = Applied(m, key)
    BY <1>6 DEF SetCommand
  <2>2. QED
    BY <1>1, <1>2, <1>6, <2>1, AppliedTyped
<1>7. CASE key # m.key /\ Standby \notin {key, m.key}
  <2>1. SetCommand(m, levels) = waiting
    BY <1>7 DEF SetCommand
  <2>2. QED
    BY <1>2, <1>4, <1>7, <2>1
<1>8. QED
  BY <1>5, <1>6, <1>7

LEMMA NextPhaseTyped ==
  ASSUME NEW m \in GaitType
  PROVE  /\ NextPhase(m) \in GaitType
         /\ NextPhase(m).tip = m.tip /\ NextPhase(m).pos = m.pos
         /\ NextPhase(m).key # m.key => m.phase = 0 /\ m.pending # NoCommand
         /\ NextPhase(m).phase =
              IF NextPhase(m).key = Standby THEN 0
              ELSE IF m.pending # NoCommand /\ m.phase = 0 THEN 1 % GaitSteps
              ELSE (m.phase + 1) % GaitSteps
<1> DEFINE c == IF m.pending # NoCommand /\ AtCycleBoundary(m)
                THEN Applied(m, m.pending) ELSE m
<1>1. /\ c \in GaitType /\ c.tip = m.tip /\ c.pos = m.pos
      /\ c.key # m.key => m.phase = 0 /\ m.pending # NoCommand
      /\ c.phase = m.phase
  <2>1. CASE m.pending # NoCommand /\ AtCycleBoundary(m)
    <3>1. m.pending \in Keys
      BY <2>1 DEF GaitType
    <3>2. QED
      BY <2>1, <3>1, AppliedTyped DEF AtCycleBoundary
  <2>2. CASE ~(m.pending # NoCommand /\ AtCycleBoundary(m))
    BY <2>2
  <2>3. QED
    BY <2>1, <2>2
<1>2. c.phase \in 0..(GaitSteps - 1) /\ c.phase \in Nat
  BY <1>1, GaitFacts DEF GaitType
<1> DEFINE next == (c.phase + 1) % CycleLength(c.key)
<1>3. NextPhase(m) = [c EXCEPT !.phase = next]
  BY DEF NextPhase
<1> HIDE DEF c
<1>4. /\ next \in 0..(GaitSteps - 1)
      /\ next = IF c.key = Standby THEN 0 ELSE (c.phase + 1) % GaitSteps
  BY <1>2, GaitFacts DEF CycleLength
<1> HIDE DEF next
<1>5. /\ NextPhase(m) \in GaitType /\ NextPhase(m).key = c.key /\ NextPhase(m).phase = next
      /\ NextPhase(m).tip = c.tip /\ NextPhase(m).pos = c.pos
  BY <1>1, <1>3, <1>4 DEF GaitType
<1>6. QED
  BY <1>1, <1>4, <1>5

LEMMA WrittenTyped ==
  ASSUME NEW m \in GaitType
  PROVE  /\ Written(m) \in GaitType
         /\ Written(m).key = m.key /\ Written(m).phase = m.phase
         /\ Written(m).tip = Feet(m)
         /\ Written(m).pos = [l \in Legs |-> IF m.tip[l] = Foot(m, l) THEN m.pos[l]
                                             ELSE Foot(m, l)]
         /\ Feet(Written(m)) = Feet(m)
<1>1. Feet(m) \in [Legs -> Points(Keys)]
  BY FootTyped DEF Feet
<1>2. [l \in Legs |-> IF m.tip[l] = Foot(m, l) THEN m.pos[l] ELSE Foot(m, l)]
        \in [Legs -> Points(Keys)]
  BY FootTyped DEF GaitType
<1> DEFINE pos == [l \in Legs |-> IF m.tip[l] = Foot(m, l) THEN m.pos[l] ELSE Foot(m, l)]
<1>3. Written(m) = [m EXCEPT !.tip = Feet(m), !.pos = pos]
  BY DEF Written
<1> HIDE DEF pos
<1>4. /\ Written(m) \in GaitType
      /\ Written(m).key = m.key /\ Written(m).phase = m.phase
      /\ Written(m).tip = Feet(m) /\ Written(m).pos = pos
  BY <1>1, <1>2, <1>3 DEF GaitType, pos
<1>5. Feet(Written(m)) = Feet(m)
  BY <1>4 DEF Feet, Foot
<1>6. QED
  BY <1>4, <1>5 DEF pos

LEMMA SentTyped ==
  ASSUME NEW m \in GaitType, NEW moved
  PROVE  /\ Sent(m, moved) \in GaitType
         /\ Sent(m, moved).key = m.key /\ Sent(m, moved).phase = m.phase
         /\ Sent(m, moved).tip = m.tip
         /\ Sent(m, moved).pos = [l \in Legs |-> IF l \in moved THEN Foot(m, l) ELSE m.pos[l]]
<1> DEFINE pos == [l \in Legs |-> IF l \in moved THEN Foot(m, l) ELSE m.pos[l]]
<1>1. pos \in [Legs -> Points(Keys)]
  BY FootTyped DEF GaitType
<1>2. Sent(m, moved) = [m EXCEPT !.pos = pos]
  BY DEF Sent, GaitType
<1> HIDE DEF pos
<1>3. /\ Sent(m, moved) \in GaitType
      /\ Sent(m, moved).key = m.key /\ Sent(m, moved).phase = m.phase
      /\ Sent(m, moved).tip = m.tip /\ Sent(m, moved).pos = pos
  BY <1>1, <1>2 DEF GaitType
<1>4. QED
  BY <1>3 DEF pos

LEMMA CommittedTyped ==
  ASSUME NEW m \in GaitType, NEW moved
  PROVE  /\ Committed(m, moved) \in GaitType
         /\ Committed(m, moved).key = m.key /\ Committed(m, moved).phase = m.phase
         /\ Committed(m, moved).pos = m.pos
         /\ Committed(m, moved).tip =
              [l \in Legs |-> IF l \in moved THEN Foot(m, l) ELSE m.tip[l]]
<1> DEFINE tip == [l \in Legs |-> IF l \in moved THEN Foot(m, l) ELSE m.tip[l]]
<1>1. tip \in [Legs -> Points(Keys)]
  BY FootTyped DEF GaitType
<1>2. Committed(m, moved) = [m EXCEPT !.tip = tip]
  BY DEF Committed, GaitType
<1> HIDE DEF tip
<1>3. /\ Committed(m, moved) \in GaitType
      /\ Committed(m, moved).key = m.key /\ Committed(m, moved).phase = m.phase
      /\ Committed(m, moved).pos = m.pos /\ Committed(m, moved).tip = tip
  BY <1>1, <1>2 DEF GaitType
<1>4. QED
  BY <1>3 DEF tip

(* A tick that fails leaves a leg where it was or at its new target, and   *)
(* takes the new target for accepted only where it was sent.               *)
Torn(m, n) ==
  /\ n \in GaitType /\ n.key = m.key /\ n.phase = m.phase
  /\ \A l \in Legs :
       \/ n.tip[l] = m.tip[l] /\ n.pos[l] = m.pos[l]
       \/ n.tip[l] = m.tip[l] /\ n.pos[l] = Foot(m, l) /\ m.tip[l] # Foot(m, l)
       \/ n.tip[l] = Foot(m, l) /\ n.pos[l] = Foot(m, l)

LEMMA TornBySending ==
  ASSUME NEW m \in GaitType, NEW moved \in SUBSET ToMove(m), NEW accepted \in SUBSET moved
  PROVE  Torn(m, Sent(m, moved)) /\ Torn(m, Committed(Sent(m, moved), accepted))
<1> DEFINE s == Sent(m, moved)
<1>1. /\ s \in GaitType /\ s.key = m.key /\ s.phase = m.phase /\ s.tip = m.tip
      /\ s.pos = [l \in Legs |-> IF l \in moved THEN Foot(m, l) ELSE m.pos[l]]
  BY SentTyped
<1>2. \A l \in Legs : Foot(s, l) = Foot(m, l)
  BY <1>1 DEF Foot
<1>3. moved \subseteq Legs /\ \A l \in moved : m.tip[l] # Foot(m, l)
  BY DEF ToMove
<1> HIDE DEF s
<1> DEFINE c == Committed(s, accepted)
<1>4. /\ c \in GaitType /\ c.key = s.key /\ c.phase = s.phase /\ c.pos = s.pos
      /\ c.tip = [l \in Legs |-> IF l \in accepted THEN Foot(s, l) ELSE s.tip[l]]
  BY <1>1, CommittedTyped
<1> HIDE DEF c
<1>5. Torn(m, s)
  BY <1>1, <1>3 DEF Torn
<1>6. Torn(m, c)
  BY <1>1, <1>2, <1>3, <1>4 DEF Torn
<1>7. QED
  BY <1>5, <1>6 DEF s, c

LEMMA FaultsTear ==
  ASSUME NEW m \in GaitType, NEW n \in WriteFaults(m, Batch) \union Rejections(m, Batch)
  PROVE  Torn(m, n)
<1>1. \A l : Before(m, l) \subseteq ToMove(m)
  BY DEF Before
<1>2. CASE n \in BatchFaults(m)
  BY <1>1, <1>2, TornBySending DEF BatchFaults
<1>3. CASE n \in LegFaults(m)
  <2>1. PICK l \in ToMove(m) : \E moved \in {Before(m, l), Before(m, l) \union {l}} :
                 n = Committed(Sent(m, moved), Before(m, l))
    BY <1>3 DEF LegFaults
  <2>2. QED
    BY <1>1, <2>1, TornBySending
<1>4. CASE n \in Rejections(m, Batch)
  <2>1. PICK bad \in ToMove(m) :
          n = Committed(Sent(m, IF Batch THEN {} ELSE Before(m, bad)),
                        IF Batch THEN {} ELSE Before(m, bad))
    BY <1>4 DEF Rejections
  <2>2. (IF Batch THEN {} ELSE Before(m, bad)) \subseteq ToMove(m)
    BY <1>1
  <2>3. QED
    BY <2>1, <2>2, TornBySending
<1>5. QED
  BY <1>2, <1>3, <1>4 DEF WriteFaults

-----------------------------------------------------------------------------
(***************************************************************************)
(* The inductive invariant.  Where no write has failed, the target a leg   *)
(* was last sent to is the target it accepted; a gait other than standby   *)
(* is the one shown last; and a process that does not run knows no leg.    *)
(***************************************************************************)
TipIsPosition ==
  running /\ faults = 0 => muto.tip = muto.pos /\ muto.pos = shown.feet

ShownIsLatest ==
  muto.key # Standby => shown.key = muto.key /\ shown.phase = muto.phase

Forgotten == ~running => muto.tip = FreshTip

DriverInv == TypeOK /\ muto \in GaitType /\ TipIsPosition /\ ShownIsLatest /\ Forgotten

LEMMA GaitIsTyped ==
  muto \in GaitType =>
    /\ muto.key \in Keys /\ muto.pending \in Keys \union {NoCommand}
    /\ muto.phase \in 0..(GaitSteps - 1)
    /\ muto.tip \in [Legs -> Points(Keys)] /\ muto.pos \in [Legs -> Points(Keys)]
BY DEF GaitType

LEMMA LevelFacts ==
  /\ Zero \in Levels /\ \A l \in Levels : CommandKey(l) \in Keys
  /\ CommandKey(Zero) = Standby
  /\ \A twist \in Twists : Selection[twist].levels \in Levels
BY DEF Zero, Keys, Levels, CommandKey

LEMMA PeriodFacts ==
  /\ CmdVelTimeout \in Nat \ {0} /\ RawPeriod \in Nat \ {0} /\ AttitudePeriod \in Nat \ {0}
  /\ MaxDelay \in Nat \ {0} /\ MaxFaults \in Nat /\ Stale \in Nat
BY DriverAssumption DEF Stale

LEMMA TelemetryTyped ==
  ASSUME TypeOK, NEW delay \in 1..MaxDelay, NEW fits \in BOOLEAN, ServiceTelemetry(delay, fits)
  PROVE  /\ attitudeIn' \in (1 - AttitudePeriod)..AttitudePeriod
         /\ rawIn' \in (1 - RawPeriod)..RawPeriod
         /\ roomy' \in 0..3
<1>1. ASSUME NEW P \in Nat \ {0}, NEW d \in (1 - P)..P
      PROVE  /\ Later(d, delay, P) \in (1 - P)..P
             /\ Later(d, delay, P) <= 0 => Advanced(Later(d, delay, P), P) \in (1 - P)..P
  <2>0. delay \in Nat \ {0} /\ d \in Int
    BY PeriodFacts
  <2>1. CASE delay <= d
    BY <2>0, <2>1 DEF Later, Advanced
  <2>2. CASE ~(delay <= d)
    <3>1. (delay - d) % P \in 0..(P - 1)
      BY <2>0, <2>2
    <3>2. QED
      BY <2>0, <2>2, <3>1 DEF Later, Advanced
  <2>3. QED
    BY <2>1, <2>2
<1> DEFINE attitude == Later(attitudeIn, delay, AttitudePeriod)
           raw == Later(rawIn, delay, RawPeriod)
<1>2. /\ attitude \in (1 - AttitudePeriod)..AttitudePeriod
      /\ raw \in (1 - RawPeriod)..RawPeriod
      /\ attitude <= 0 => Advanced(attitude, AttitudePeriod) \in
                            (1 - AttitudePeriod)..AttitudePeriod
      /\ raw <= 0 => Advanced(raw, RawPeriod) \in (1 - RawPeriod)..RawPeriod
  BY <1>1, PeriodFacts DEF TypeOK
<1>3. /\ attitudeIn' = IF Attempted("attitude", Selected(attitude, raw), fits)
                       THEN Advanced(attitude, AttitudePeriod) ELSE attitude
      /\ rawIn' = IF Attempted("raw", Selected(attitude, raw), fits)
                  THEN Advanced(raw, RawPeriod) ELSE raw
  BY DEF ServiceTelemetry
<1>4. roomy' \in 0..3
  BY DEF ServiceTelemetry, TypeOK
<1> HIDE DEF attitude, raw
<1>5. /\ Attempted("attitude", Selected(attitude, raw), fits) => attitude <= 0
      /\ Attempted("raw", Selected(attitude, raw), fits) => raw <= 0
  BY DEF Attempted, Selected
<1>6. QED
  BY <1>2, <1>3, <1>4, <1>5

LEMMA KnownFoot == \A m, l : Foot(m, l) # Unknown
BY DEF Foot, Target, Unknown, Standing, Centre

(* The rest of a tick that nothing disturbs, from the gait m it writes.    *)
LEMMA TickWritten ==
  ASSUME NEW m \in GaitType, muto' = Written(m), shown' = GaitState(muto'),
         NEW levels \in Levels, reported' = MotionState(muto', levels)
  PROVE  /\ muto' \in GaitType /\ shown'.key \in Keys /\ reported'.selected \in Keys
         /\ ShownIsLatest' /\ muto'.tip = shown'.feet
         /\ muto'.key = m.key /\ muto'.phase = m.phase
         /\ (\A l \in Legs : m.tip[l] # Foot(m, l) \/ m.tip[l] = m.pos[l])
              => muto'.pos = shown'.feet
<1>1. /\ muto' \in GaitType /\ muto'.tip = Feet(m) /\ Feet(muto') = Feet(m)
      /\ muto'.key = m.key /\ muto'.phase = m.phase
      /\ muto'.pos = [l \in Legs |-> IF m.tip[l] = Foot(m, l) THEN m.pos[l] ELSE Foot(m, l)]
  BY WrittenTyped
<1>2. /\ shown'.key = muto'.key /\ shown'.phase = muto'.phase /\ shown'.feet = Feet(muto')
      /\ reported'.selected = CommandKey(levels)
  BY DEF GaitState, MotionState
<1>3. muto'.key \in Keys
  BY <1>1 DEF GaitType
<1>4. (\A l \in Legs : m.tip[l] # Foot(m, l) \/ m.tip[l] = m.pos[l])
              => muto'.pos = Feet(m)
  BY <1>1 DEF Feet
<1>5. QED
  BY <1>1, <1>2, <1>3, <1>4, LevelFacts DEF ShownIsLatest

(* A tick that fails latches standby.                                      *)
LEMMA FaultLatched ==
  ASSUME NEW n \in GaitType, AfterFault(n)
  PROVE  /\ muto' \in GaitType /\ muto'.key = Standby /\ shown' = shown
         /\ reported'.selected \in Keys /\ desired' \in Levels /\ selection' \in Levels
<1>1. /\ muto' = SetCommand(n, Zero) /\ shown' = shown /\ desired' = Zero
      /\ selection' = Zero /\ reported'.selected = CommandKey(Zero)
  BY DEF AfterFault, MotionState
<1>2. QED
  BY <1>1, LevelFacts, SetCommandTyped

LEMMA DownInv ==
  ASSUME NEW pos \in [Legs -> Points(Keys)], Down(pos)
  PROVE  DriverInv'
<1>1. /\ muto' \in GaitType /\ muto'.key = Standby /\ muto'.tip = FreshTip
  BY FreshTyped DEF Down, FreshGait
<1>2. shown'.key \in Keys /\ reported'.selected \in Keys
  BY <1>1, LevelFacts, StandbyIsKey DEF Down, GaitState, MotionState
<1>3. /\ 0 \in (1 - AttitudePeriod)..AttitudePeriod /\ 0 \in (1 - RawPeriod)..RawPeriod
      /\ 0 \in 0..MaxFaults /\ Stale \in 0..Stale
  BY PeriodFacts
<1>4. /\ attitudeIn' = 0 /\ rawIn' = 0 /\ roomy' = 0 /\ faults' = 0 /\ age' = Stale
      /\ desired' = Zero /\ selection' = Zero /\ released' = FALSE /\ running' = FALSE
  BY DEF Down
<1>5. TypeOK'
  <2>1. /\ muto'.key \in Keys /\ muto'.pending \in Keys \union {NoCommand}
        /\ muto'.phase \in 0..(GaitSteps - 1)
        /\ muto'.tip \in [Legs -> Points(Keys)] /\ muto'.pos \in [Legs -> Points(Keys)]
    BY <1>1 DEF GaitType
  <2>2. running' \in BOOLEAN /\ released' \in BOOLEAN
    BY DEF Down
  <2>3. QED
    BY <1>2, <1>3, <1>4, <2>1, <2>2, LevelFacts DEF TypeOK
<1>6. QED
  BY <1>1, <1>4, <1>5 DEF DriverInv, TipIsPosition, ShownIsLatest, Forgotten

LEMMA LatchedTyped ==
  ASSUME DriverInv, NEW a
  PROVE  /\ Latched(a) \in GaitType /\ Latched(a).tip = muto.tip /\ Latched(a).pos = muto.pos
<1>1. LevelsAt(a) \in Levels
  BY LevelFacts DEF LevelsAt, DriverInv, TypeOK
<1>2. QED
  BY <1>1, SetCommandTyped, NextPhaseTyped DEF Latched, DriverInv

LEMMA TickInv ==
  ASSUME DriverInv, NEW delay \in 1..MaxDelay, NEW fits \in BOOLEAN,
         UpdateLocomotion(delay, fits)
  PROVE  DriverInv'
<1>1. /\ running /\ running' = running /\ released' = released
      /\ ServiceTelemetry(delay, fits)
  BY DEF UpdateLocomotion
<1>2. /\ attitudeIn' \in (1 - AttitudePeriod)..AttitudePeriod
      /\ rawIn' \in (1 - RawPeriod)..RawPeriod /\ roomy' \in 0..3
  BY <1>1, TelemetryTyped DEF DriverInv
<1>3. /\ age' \in 0..Stale
  <2>1. age' = AgeAfter(delay) \/ age' = Stale
    BY DEF UpdateLocomotion
  <2>2. age \in Nat /\ delay \in Nat
    BY PeriodFacts DEF DriverInv, TypeOK
  <2>3. QED
    BY <2>1, <2>2, PeriodFacts DEF AgeAfter, Stale
<1>4. CASE PhaseSent
  <2>1. PICK m \in {Latched(age')} : muto' = Written(m)
    BY <1>4 DEF PhaseSent
  <2>2. /\ m \in GaitType /\ m.tip = muto.tip /\ m.pos = muto.pos
    BY <2>1, LatchedTyped
  <2>3. /\ shown' = GaitState(muto') /\ reported' = MotionState(muto', selection)
        /\ desired' = desired /\ selection' = selection /\ faults' = faults
    BY <1>4 DEF PhaseSent
  <2>4. selection \in Levels
    BY DEF DriverInv, TypeOK
  <2>5. /\ muto' \in GaitType /\ shown'.key \in Keys /\ reported'.selected \in Keys
        /\ ShownIsLatest' /\ muto'.tip = shown'.feet
        /\ (\A l \in Legs : m.tip[l] # Foot(m, l) \/ m.tip[l] = m.pos[l])
             => muto'.pos = shown'.feet
    BY <2>1, <2>2, <2>3, <2>4, TickWritten
  <2>6. faults = 0 => muto'.pos = shown'.feet
    BY <1>1, <2>2, <2>5 DEF DriverInv, TipIsPosition
  <2>7. TypeOK'
    <3>1. /\ muto'.key \in Keys /\ muto'.pending \in Keys \union {NoCommand}
          /\ muto'.phase \in 0..(GaitSteps - 1)
          /\ muto'.tip \in [Legs -> Points(Keys)] /\ muto'.pos \in [Legs -> Points(Keys)]
      BY <2>5 DEF GaitType
    <3>2. QED
      BY <1>1, <1>2, <1>3, <2>3, <2>5, <3>1 DEF DriverInv, TypeOK
  <2>8. QED
    BY <1>1, <2>3, <2>5, <2>6, <2>7 DEF DriverInv, TipIsPosition, Forgotten
<1>5. CASE WriteFails(delay) \/ Rejected(delay)
  <2>1. PICK n : /\ n \in WriteFaults(Latched(AgeAfter(delay)), Batch)
                          \union Rejections(Latched(AgeAfter(delay)), Batch)
                 /\ AfterFault(n)
    BY <1>5 DEF WriteFails, Rejected
  <2>2. n \in GaitType
    BY <2>1, LatchedTyped, FaultsTear DEF Torn
  <2>3. /\ muto' \in GaitType /\ muto'.key = Standby /\ shown' = shown
        /\ reported'.selected \in Keys /\ desired' \in Levels /\ selection' \in Levels
    BY <2>1, <2>2, FaultLatched
  <2>4. /\ faults' = faults + 1 /\ faults' \in 0..MaxFaults /\ faults' # 0
    BY <1>5, PeriodFacts DEF WriteFails, Rejected, DriverInv, TypeOK
  <2>5. TypeOK'
    <3>1. /\ muto'.key \in Keys /\ muto'.pending \in Keys \union {NoCommand}
          /\ muto'.phase \in 0..(GaitSteps - 1)
          /\ muto'.tip \in [Legs -> Points(Keys)] /\ muto'.pos \in [Legs -> Points(Keys)]
      BY <2>3 DEF GaitType
    <3>2. QED
      BY <1>1, <1>2, <1>3, <2>3, <2>4, <3>1 DEF DriverInv, TypeOK
  <2>6. QED
    BY <1>1, <2>3, <2>4, <2>5
    DEF DriverInv, TipIsPosition, ShownIsLatest, Forgotten
<1>6. QED
  BY <1>4, <1>5 DEF UpdateLocomotion

LEMMA DriverStep == DriverInv /\ [Next]_vars => DriverInv'
<1> SUFFICES ASSUME DriverInv, [Next]_vars PROVE DriverInv'
  OBVIOUS
<1>0. muto \in GaitType /\ TypeOK
  BY DEF DriverInv
<1>1. CASE Start
  <2>1. PICK m \in {NextPhase(muto)} : muto' = Written(m)
    BY <1>1 DEF Start
  <2>2. /\ m \in GaitType /\ m.tip = FreshTip
    BY <1>0, <1>1, <2>1, NextPhaseTyped DEF Start, DriverInv, Forgotten
  <2>3. /\ shown' = GaitState(muto') /\ reported' = MotionState(muto', Zero) /\ running'
        /\ UNCHANGED <<desired, age, selection, released, attitudeIn, roomy, faults>>
    BY <1>1 DEF Start
  <2>4. /\ muto' \in GaitType /\ shown'.key \in Keys /\ reported'.selected \in Keys
        /\ ShownIsLatest' /\ muto'.tip = shown'.feet
        /\ (\A l \in Legs : m.tip[l] # Foot(m, l) \/ m.tip[l] = m.pos[l])
             => muto'.pos = shown'.feet
    BY <2>1, <2>2, <2>3, LevelFacts, TickWritten
  <2>5. \A l \in Legs : m.tip[l] # Foot(m, l)
    BY <2>2, KnownFoot DEF FreshTip
  <2>6. rawIn' \in (1 - RawPeriod)..RawPeriod
    BY <1>1, PeriodFacts DEF Start
  <2>7. TypeOK'
    <3>1. /\ muto'.key \in Keys /\ muto'.pending \in Keys \union {NoCommand}
          /\ muto'.phase \in 0..(GaitSteps - 1)
          /\ muto'.tip \in [Legs -> Points(Keys)] /\ muto'.pos \in [Legs -> Points(Keys)]
      BY <2>4 DEF GaitType
    <3>2. QED
      BY <1>0, <1>1, <2>3, <2>4, <2>6, <3>1 DEF Start, TypeOK
  <2>8. QED
    BY <2>3, <2>4, <2>5, <2>7 DEF DriverInv, TipIsPosition, Forgotten
<1>2. CASE FailToStart
  <2>1. PICK n \in WriteFaults(NextPhase(muto), Batch) : Down(n.pos)
    BY <1>2 DEF FailToStart
  <2>2. n \in GaitType
    BY <1>0, <2>1, NextPhaseTyped, FaultsTear DEF Torn
  <2>3. n.pos \in [Legs -> Points(Keys)]
    BY <2>2 DEF GaitType
  <2>4. QED
    BY <2>1, <2>3, DownInv
<1>3. CASE Crash
  BY <1>0, <1>3, DownInv, GaitIsTyped DEF Crash
<1>4. ASSUME NEW twist \in Twists, CmdVelCallback(twist) PROVE DriverInv'
  BY <1>4, LevelFacts, PeriodFacts
  DEF CmdVelCallback, MotionState, telemetry, DriverInv, TypeOK, TipIsPosition,
      ShownIsLatest, Forgotten
<1>5. ASSUME NEW succeeds \in BOOLEAN, ReleaseMotorsCallback(succeeds) PROVE DriverInv'
  BY <1>5, LevelFacts, PeriodFacts
  DEF ReleaseMotorsCallback, MotionState, telemetry, DriverInv, TypeOK, TipIsPosition,
      ShownIsLatest, Forgotten
<1>6. ASSUME NEW delay \in 1..MaxDelay, NEW fits \in BOOLEAN, UpdateLocomotion(delay, fits)
      PROVE  DriverInv'
  BY <1>6, TickInv
<1>7. ASSUME NEW delay \in 1..MaxDelay, NEW fits \in BOOLEAN, UpdateReleased(delay, fits)
      PROVE  DriverInv'
  BY <1>0, <1>7, TelemetryTyped
  DEF UpdateReleased, control, DriverInv, TypeOK, TipIsPosition, ShownIsLatest, Forgotten
<1>8. CASE UNCHANGED vars
  BY <1>8 DEF vars, control, telemetry, DriverInv, TypeOK, TipIsPosition, ShownIsLatest,
              Forgotten
<1>9. QED
  BY <1>1, <1>2, <1>3, <1>4, <1>5, <1>6, <1>7, <1>8 DEF Next, LocomotionTimer

LEMMA DriverInvariance == Spec => []DriverInv
<1>1. Init => DriverInv
  <2> SUFFICES ASSUME Init PROVE DriverInv
    OBVIOUS
  <2>1. FreshTip \in [Legs -> Points(Keys)]
    BY DEF FreshTip, Points
  <2>2. /\ muto \in GaitType /\ muto.key = Standby /\ muto.tip = FreshTip
    BY <2>1, FreshTyped DEF Init, FreshGait
  <2>3. shown.key \in Keys /\ reported.selected \in Keys
    BY <2>2, LevelFacts, StandbyIsKey DEF Init, GaitState, MotionState
  <2>4. /\ 0 \in (1 - AttitudePeriod)..AttitudePeriod /\ 0 \in (1 - RawPeriod)..RawPeriod
        /\ 0 \in 0..MaxFaults /\ Stale \in 0..Stale
    BY PeriodFacts
  <2>5. TypeOK
    <3>1. running \in BOOLEAN /\ released \in BOOLEAN
      BY DEF Init
    <3>2. QED
      BY <2>2, <2>3, <2>4, <3>1, GaitIsTyped, LevelFacts DEF Init, TypeOK
  <2>6. QED
    BY <2>2, <2>5 DEF Init, DriverInv, TipIsPosition, ShownIsLatest, Forgotten
<1>2. QED
  BY <1>1, DriverStep, PTL DEF Spec

(* Until a write fails, the feet of the published gait state are where the *)
(* legs were sent, whatever pose the process found them in.                *)
THEOREM ReportsTrue == Spec => []ReportsAreTrue
<1>1. DriverInv => ReportsAreTrue
  BY DEF DriverInv, TipIsPosition, ReportsAreTrue
<1>2. QED
  BY <1>1, DriverInvariance, PTL

-----------------------------------------------------------------------------
(* Which gait a tick writes: standby, the first phase after standing, the  *)
(* next phase of the cycle or, at its end, the first one of another.       *)
LEMMA LatchedShape ==
  ASSUME DriverInv, NEW a
  PROVE  \/ Latched(a).key = Standby
         \/ /\ Latched(a).key # Standby /\ muto.key = Standby /\ Latched(a).phase = 1
         \/ /\ Latched(a).key # Standby /\ Latched(a).key = muto.key
            /\ Latched(a).phase = (muto.phase + 1) % GaitSteps
         \/ /\ Latched(a).key # Standby /\ muto.key # Standby
            /\ muto.phase = 0 /\ Latched(a).phase = 1
<1> DEFINE levels == LevelsAt(a)
           c == SetCommand(muto, levels)
           m == NextPhase(c)
<1>1. levels \in Levels /\ muto \in GaitType
  BY LevelFacts DEF LevelsAt, DriverInv, TypeOK
<1> HIDE DEF levels
<1>2. /\ c \in GaitType
      /\ c.key # muto.key => Standby \in {muto.key, c.key} /\ c.phase = 0
                             /\ c.pending = NoCommand
      /\ muto.key = Standby => c.pending = NoCommand
      /\ c.key = muto.key => c.phase = muto.phase
  BY <1>1, SetCommandTyped
<1> HIDE DEF c
<1>3. /\ m.key # c.key => c.phase = 0 /\ c.pending # NoCommand
      /\ m.phase = IF m.key = Standby THEN 0
                   ELSE IF c.pending # NoCommand /\ c.phase = 0 THEN 1 % GaitSteps
                   ELSE (c.phase + 1) % GaitSteps
  BY <1>2, NextPhaseTyped
<1>4. 1 % GaitSteps = 1 /\ (0 + 1) % GaitSteps = 1
  BY GaitAssumption
<1>5. Latched(a) = m
  BY DEF Latched, c, levels
<1> HIDE DEF m
<1>6. QED
  BY <1>2, <1>3, <1>4, <1>5

(* One way of walking takes the place of another at the end of a cycle     *)
(* only, unless a fault latched standby in between.                        *)
THEOREM StrideKept == Spec => StrideIsKept
<1> DEFINE Kept == running /\ running' /\ shown.key = muto.key
                   /\ Standby \notin {shown.key, shown'.key} /\ shown.key # shown'.key
                     => shown.phase = 0
<1>1. DriverInv /\ [Next]_vars => [Kept]_vars
  <2> SUFFICES ASSUME DriverInv, Next, running, running', shown.key = muto.key,
                      Standby \notin {shown.key, shown'.key}, shown.key # shown'.key
               PROVE  shown.phase = 0
    OBVIOUS
  <2>1. PICK a : shown'.key = Latched(a).key
    <3>1. PICK delay \in 1..MaxDelay, fits \in BOOLEAN : UpdateLocomotion(delay, fits)
      BY DEF Next, Start, FailToStart, Crash, Down, CmdVelCallback, ReleaseMotorsCallback,
             LocomotionTimer, UpdateReleased, control
    <3>2. PhaseSent
      BY <3>1 DEF UpdateLocomotion, WriteFails, Rejected, AfterFault
    <3>3. muto' = Written(Latched(age')) /\ shown'.key = muto'.key
      BY <3>2 DEF PhaseSent, GaitState
    <3>4. Latched(age') \in GaitType
      BY LatchedTyped
    <3>5. Written(Latched(age')).key = Latched(age').key
      BY <3>4, WrittenTyped
    <3>6. shown'.key = Latched(age').key
      BY <3>3, <3>5
    <3>7. QED
      BY <3>6
  <2>2. muto.phase = 0
    BY <2>1, LatchedShape
  <2>3. QED
    BY <2>2 DEF DriverInv, ShownIsLatest
<1>2. QED
  BY <1>1, DriverInvariance, PTL DEF Spec, StrideIsKept

(* Released motors are sent nowhere until the process is started again.    *)
THEOREM ReleaseIsFinal == Spec => ReleasedIsFinal
<1> DEFINE Final == running /\ running' /\ released => released' /\ muto'.pos = muto.pos
<1>1. [Next]_vars => [Final]_vars
  BY DEF Next, Start, FailToStart, Crash, Down, CmdVelCallback, ReleaseMotorsCallback,
         LocomotionTimer, UpdateLocomotion, UpdateReleased, control
<1>2. QED
  BY <1>1, PTL DEF Spec, ReleasedIsFinal

-----------------------------------------------------------------------------
(***************************************************************************)
(* The legs on the ground.  A tripod is the legs of one parity; the gait   *)
(* steps through its profile so that one tripod is on the ground before    *)
(* and after every tick, whichever of its legs the tick still reached.     *)
(***************************************************************************)
(* Where in the profile a tripod is, walking forward or back.              *)
Index(back, side, phase) ==
  ((IF back THEN -phase ELSE phase) - QuarterSteps - HalfSteps * side) % GaitSteps

LEMMA IndexArithmetic ==
  ASSUME NEW back \in BOOLEAN, NEW phase \in 0..(GaitSteps - 1)
  PROVE  /\ \E side \in 0..1 : /\ Index(back, side, phase) <= HalfSteps
                               /\ Index(back, side, (phase + 1) % GaitSteps) <= HalfSteps
         /\ Index(back, 1, 0) <= HalfSteps /\ Index(back, 1, 1) <= HalfSteps
         /\ \A side \in 0..1 : /\ Index(back, side, 1) # QuarterSteps
                               /\ Index(back, side, phase) = Index(back, side, 1) => phase = 1
                               /\ phase = 1 =>
                                    Index(back, side, 2) # Index(back, side, 1)
         /\ (1 + 1) % GaitSteps = 2 /\ 2 \in 0..(GaitSteps - 1) /\ 1 \in 0..(GaitSteps - 1)
         /\ QuarterSteps <= HalfSteps
<1>1. CASE GaitSteps = 4
  <2>1. QuarterSteps = 1 /\ HalfSteps = 2
    BY <1>1 DEF QuarterSteps, HalfSteps
  <2>2. QED
    BY <1>1, <2>1 DEF Index
<1>2. CASE GaitSteps = 8
  <2>1. QuarterSteps = 2 /\ HalfSteps = 4
    BY <1>2 DEF QuarterSteps, HalfSteps
  <2>2. QED
    BY <1>2, <2>1 DEF Index
<1>3. CASE GaitSteps = 12
  <2>1. QuarterSteps = 3 /\ HalfSteps = 6
    BY <1>3 DEF QuarterSteps, HalfSteps
  <2>2. QED
    BY <1>3, <2>1 DEF Index
<1>4. CASE GaitSteps = 16
  <2>1. QuarterSteps = 4 /\ HalfSteps = 8
    BY <1>4 DEF QuarterSteps, HalfSteps
  <2>2. QED
    BY <1>4, <2>1 DEF Index
<1>5. CASE GaitSteps = 20
  <2>1. QuarterSteps = 5 /\ HalfSteps = 10
    BY <1>5 DEF QuarterSteps, HalfSteps
  <2>2. QED
    BY <1>5, <2>1 DEF Index
<1>6. GaitSteps \in {4, 8, 12, 16, 20}
  BY GaitAssumption
<1>7. QED
  BY <1>1, <1>2, <1>3, <1>4, <1>5, <1>6

Back(key) == key.mode = "move_x" /\ key.x < 0
Of(leg) == leg % 2
Phases == 0..(GaitSteps - 1)

LEMMA LegParity == \A l \in Legs : Of(l) \in 0..1
BY GaitFacts DEF Of

(* Where a foot is named to be, by its place in the profile.               *)
LEMMA TargetShape ==
  ASSUME NEW key, NEW l \in Legs, NEW phase \in Phases
  PROVE  /\ key = Standby => Target(key, l, phase) = Standing
         /\ key # Standby /\ Index(Back(key), Of(l), phase) = QuarterSteps
              => Target(key, l, phase) = Centre
         /\ key # Standby /\ Index(Back(key), Of(l), phase) # QuarterSteps
              => Target(key, l, phase) = [at |-> "path", of |-> Active(key),
                                          index |-> Index(Back(key), Of(l), phase)]
         /\ Index(Back(key), Of(l), phase) <= HalfSteps => Grounded(Target(key, l, phase))
         /\ key = Standby => Grounded(Target(key, l, phase))
<1>1. ProfileIndex(key, l, phase) = Index(Back(key), Of(l), phase)
  BY DEF ProfileIndex, Index, Back, Of
<1>2. /\ key = Standby => Target(key, l, phase) = Standing
      /\ key # Standby /\ Index(Back(key), Of(l), phase) = QuarterSteps
           => Target(key, l, phase) = Centre
      /\ key # Standby /\ Index(Back(key), Of(l), phase) # QuarterSteps
           => Target(key, l, phase) = [at |-> "path", of |-> Active(key),
                                       index |-> Index(Back(key), Of(l), phase)]
  BY <1>1 DEF Target
<1>3. Grounded(Standing) /\ Grounded(Centre)
  BY DEF Grounded, Standing, Centre
<1>4. Index(Back(key), Of(l), phase) <= HalfSteps =>
        Grounded([at |-> "path", of |-> Active(key),
                  index |-> Index(Back(key), Of(l), phase)])
  BY DEF Grounded
<1>5. QED
  BY <1>2, <1>3, <1>4

(* Gaits that name the same target as a first phase are in their first     *)
(* phase, and go on the same way.                                          *)
LEMMA SameStart ==
  ASSUME NEW k \in Keys, NEW n \in Keys, k # Standby, n # Standby, NEW l \in Legs,
         NEW phase \in Phases, Target(k, l, phase) = Target(n, l, 1)
  PROVE  phase = 1 /\ Target(k, l, 2) = Target(n, l, 2)
<1>0. Of(l) \in 0..1 /\ 1 \in Phases /\ 2 \in Phases
  BY LegParity, IndexArithmetic DEF Phases
<1>1. Back(k) \in BOOLEAN /\ Back(n) \in BOOLEAN
  BY DEF Back
<1>2. Index(Back(n), Of(l), 1) # QuarterSteps
  BY <1>0, <1>1, IndexArithmetic DEF Phases
<1>3. Target(n, l, 1) = [at |-> "path", of |-> Active(n), index |-> Index(Back(n), Of(l), 1)]
  BY <1>0, <1>2, TargetShape
<1>4. /\ Target(k, l, phase) # Centre
      /\ Target(k, l, phase).of = Active(n)
      /\ Target(k, l, phase).index = Index(Back(n), Of(l), 1)
  BY <1>3 DEF Centre
<1>5. /\ Index(Back(k), Of(l), phase) # QuarterSteps
      /\ Target(k, l, phase) = [at |-> "path", of |-> Active(k),
                                index |-> Index(Back(k), Of(l), phase)]
  BY <1>4, TargetShape
<1>6. Active(k) = Active(n) /\ Index(Back(k), Of(l), phase) = Index(Back(n), Of(l), 1)
  BY <1>4, <1>5
<1>7. \A key \in Keys : Active(key).mode = key.mode /\ Active(key).x = key.x
  <2>1. \A key \in Keys : \E mode, x, y, z :
          key = [mode |-> mode, x |-> x, y |-> y, z |-> z]
    BY DEF Keys, CommandKey, Key, Standby
  <2>2. QED
    BY <2>1 DEF Active
<1>8. Back(k) = Back(n)
  BY <1>6, <1>7 DEF Back
<1>9. phase = 1
  BY <1>0, <1>1, <1>6, <1>8, IndexArithmetic DEF Phases
<1>10. Target(k, l, 2) = Target(n, l, 2)
  BY <1>0, <1>6, <1>8, TargetShape
<1>11. QED
  BY <1>9, <1>10

(* Two phases in a row keep one tripod on the ground.                      *)
LEMMA TwoPhasesStand ==
  ASSUME NEW key, NEW phase \in Phases
  PROVE  \E side \in 0..1 : \A l \in Legs : Of(l) = side =>
           /\ Grounded(Target(key, l, phase))
           /\ Grounded(Target(key, l, (phase + 1) % GaitSteps))
<1>1. Back(key) \in BOOLEAN /\ (phase + 1) % GaitSteps \in Phases
  BY GaitFacts DEF Back, Phases
<1>2. PICK side \in 0..1 :
        /\ Index(Back(key), side, phase) <= HalfSteps
        /\ Index(Back(key), side, (phase + 1) % GaitSteps) <= HalfSteps
  BY <1>1, IndexArithmetic DEF Phases
<1>3. QED
  BY <1>1, <1>2, TargetShape

(* So do the gait and what a tick makes of it.                             *)
LEMMA TickStands ==
  ASSUME DriverInv, NEW a
  PROVE  \E side \in 0..1 : \A l \in Legs : Of(l) = side =>
           Grounded(Foot(muto, l)) /\ Grounded(Foot(Latched(a), l))
<1> DEFINE m == Latched(a)
<1>1. muto.phase \in Phases /\ m.phase \in Phases
  BY LatchedTyped DEF DriverInv, GaitType, Phases
<1>2. \A l \in Legs : /\ Foot(muto, l) = Target(muto.key, l, muto.phase)
                      /\ Foot(m, l) = Target(m.key, l, m.phase)
  BY DEF Foot
<1>3. \/ m.key = Standby
      \/ muto.key = Standby
      \/ m.key = muto.key /\ m.phase = (muto.phase + 1) % GaitSteps
      \/ muto.phase = 0 /\ m.phase = 1
  BY LatchedShape
<1> SUFFICES \E side \in 0..1 : \A l \in Legs : Of(l) = side =>
               Grounded(Foot(muto, l)) /\ Grounded(Foot(m, l))
  OBVIOUS
<1> HIDE DEF m
<1>4. CASE m.key = Standby
  <2>1. PICK side \in 0..1 : \A l \in Legs :
          Of(l) = side => Grounded(Target(muto.key, l, muto.phase))
    BY <1>1, TwoPhasesStand
  <2>2. \A l \in Legs : Grounded(Foot(m, l))
    BY <1>1, <1>2, <1>4, TargetShape
  <2>3. QED
    BY <1>2, <2>1, <2>2
<1>5. CASE muto.key = Standby
  <2>1. PICK side \in 0..1 : \A l \in Legs :
          Of(l) = side => Grounded(Target(m.key, l, m.phase))
    BY <1>1, TwoPhasesStand
  <2>2. \A l \in Legs : Grounded(Foot(muto, l))
    BY <1>1, <1>2, <1>5, TargetShape
  <2>3. QED
    BY <1>2, <2>1, <2>2
<1>6. CASE m.key = muto.key /\ m.phase = (muto.phase + 1) % GaitSteps
  BY <1>1, <1>2, <1>6, TwoPhasesStand
<1>7. CASE muto.phase = 0 /\ m.phase = 1
  <2>1. \A key : Index(Back(key), 1, 0) <= HalfSteps /\ Index(Back(key), 1, 1) <= HalfSteps
    BY <1>1, IndexArithmetic DEF Back, Phases
  <2>2. \A l \in Legs : Of(l) = 1 => Grounded(Foot(muto, l))
    BY <1>1, <1>2, <1>7, <2>1, TargetShape
  <2>3. \A l \in Legs : Of(l) = 1 => Grounded(Foot(m, l))
    BY <1>1, <1>2, <1>7, <2>1, TargetShape
  <2>4. 1 \in 0..1
    OBVIOUS
  <2>5. QED
    BY <2>2, <2>3, <2>4
<1>8. QED
  BY <1>3, <1>4, <1>5, <1>6, <1>7

-----------------------------------------------------------------------------
(***************************************************************************)
(* The invariant of the legs.  While no write has failed, every leg is     *)
(* where the gait has it.  After the one write that failed, standby is     *)
(* latched: some legs were sent on and others not, and a leg whose         *)
(* accepted target is behind its place is at most one phase behind.  Such  *)
(* a leg is not sent again while its accepted target is asked for, so that *)
(* it may be late once more in the first phase of the next gait; the phase *)
(* after that sends every leg.                                             *)
(***************************************************************************)
Clean(m) == m.tip = Feet(m) /\ m.pos = Feet(m)

NearStart(pos, key, l) == pos[l] \in {Standing, Target(key, l, 1), Target(key, l, 2)}

Late(m) ==
  /\ m.key = Standby
  /\ \E side \in 0..1 : \A l \in Legs : Of(l) = side => Grounded(m.pos[l])
  /\ \A l \in Legs : \A key \in Keys \ {Standby} :
       m.tip[l] = Target(key, l, 1) => NearStart(m.pos, key, l)

Caught(m) ==
  /\ m.key # Standby /\ m.phase = 1 /\ m.tip = Feet(m)
  /\ \A l \in Legs : NearStart(m.pos, m.key, l)

StandInv ==
  running /\ faults <= 1 =>
    Clean(muto) \/ (faults = 1 /\ (Late(muto) \/ Caught(muto)))

LEMMA StandSuffices == DriverInv /\ StandInv => TripodStands
<1> SUFFICES ASSUME DriverInv, StandInv, running, faults <= 1
             PROVE  \E side \in 0..1 : \A l \in Legs : Of(l) = side => Grounded(muto.pos[l])
  BY DEF TripodStands, Of
<1>0. /\ muto.phase \in Phases /\ 1 \in Phases /\ (1 + 1) % GaitSteps = 2
      /\ muto.pos \in [Legs -> Points(Keys)]
  <2>1. muto.phase \in Phases
    BY DEF DriverInv, GaitType, Phases
  <2>2. QED
    BY <2>1, IndexArithmetic DEF DriverInv, GaitType, Phases
<1>1. CASE Clean(muto)
  <2>1. \A l \in Legs : muto.pos[l] = Target(muto.key, l, muto.phase)
    BY <1>1 DEF Clean, Feet, Foot
  <2>2. PICK side \in 0..1 : \A l \in Legs :
          Of(l) = side => Grounded(Target(muto.key, l, muto.phase))
    BY <1>0, TwoPhasesStand
  <2>3. QED
    BY <2>1, <2>2
<1>2. CASE Late(muto)
  BY <1>2 DEF Late
<1>3. CASE Caught(muto)
  <2>1. PICK side \in 0..1 : \A l \in Legs : Of(l) = side =>
          Grounded(Target(muto.key, l, 1)) /\ Grounded(Target(muto.key, l, 2))
    BY <1>0, TwoPhasesStand
  <2>2. Grounded(Standing)
    BY DEF Grounded, Standing
  <2>3. QED
    BY <1>3, <2>1, <2>2 DEF Caught, NearStart
<1>4. QED
  BY <1>1, <1>2, <1>3 DEF StandInv

(* The first target of a gait is no pose of standby.                       *)
LEMMA StartLeaves ==
  ASSUME NEW key, key # Standby, NEW l \in Legs
  PROVE  Target(key, l, 1) # Standing /\ Target(key, l, 2) # Target(key, l, 1)
<1>1. Of(l) \in 0..1 /\ 1 \in Phases /\ 2 \in Phases /\ Back(key) \in BOOLEAN
  <2>1. 0 \in 0..(GaitSteps - 1) /\ Back(key) \in BOOLEAN
    BY GaitFacts DEF Back
  <2>2. QED
    BY <2>1, LegParity, IndexArithmetic DEF Phases
<1>2. /\ Index(Back(key), Of(l), 1) # QuarterSteps
      /\ Index(Back(key), Of(l), 2) # Index(Back(key), Of(l), 1)
  BY <1>1, IndexArithmetic DEF Phases
<1>3. Target(key, l, 1) = [at |-> "path", of |-> Active(key),
                           index |-> Index(Back(key), Of(l), 1)]
  BY <1>1, <1>2, TargetShape
<1>4. Target(key, l, 1) # Standing
  BY <1>3 DEF Standing
<1>5. \/ Target(key, l, 2) = Centre
      \/ Target(key, l, 2) = [at |-> "path", of |-> Active(key),
                              index |-> Index(Back(key), Of(l), 2)]
  BY <1>1, TargetShape
<1>6. Target(key, l, 2) # Target(key, l, 1)
  BY <1>2, <1>3, <1>5 DEF Centre
<1>7. QED
  BY <1>4, <1>6

(* The write that fails first leaves the legs late.                        *)
LEMMA FaultIsLate ==
  ASSUME DriverInv, Clean(muto), NEW a, NEW n, Torn(Latched(a), n)
  PROVE  Late(SetCommand(n, Zero))
<1> DEFINE m == Latched(a)
           s == SetCommand(n, Zero)
<1>1. /\ m.tip = Feet(muto) /\ m.pos = Feet(muto)
      /\ \A l \in Legs : m.tip[l] = Foot(muto, l) /\ m.pos[l] = Foot(muto, l)
  BY LatchedTyped DEF Clean, Feet
<1>2. /\ n \in GaitType
      /\ \A l \in Legs :
           \/ n.tip[l] = m.tip[l] /\ n.pos[l] = m.pos[l]
           \/ n.tip[l] = m.tip[l] /\ n.pos[l] = Foot(m, l) /\ m.tip[l] # Foot(m, l)
           \/ n.tip[l] = Foot(m, l) /\ n.pos[l] = Foot(m, l)
  BY DEF Torn
<1>3. s.key = Standby /\ s.tip = n.tip /\ s.pos = n.pos
  BY <1>2, LevelFacts, SetCommandTyped
<1>4. PICK side \in 0..1 : \A l \in Legs : Of(l) = side =>
        Grounded(Foot(muto, l)) /\ Grounded(Foot(m, l))
  BY TickStands
<1>5. \/ m.key = Standby
      \/ m.key # Standby /\ muto.key = Standby /\ m.phase = 1
      \/ m.key # Standby /\ m.key = muto.key /\ m.phase = (muto.phase + 1) % GaitSteps
      \/ m.key # Standby /\ muto.key # Standby /\ muto.phase = 0 /\ m.phase = 1
  BY LatchedShape
<1>6. /\ muto.key \in Keys /\ muto.phase \in Phases /\ m.phase \in Phases
      /\ (1 + 1) % GaitSteps = 2
  <2>1. muto.phase \in Phases /\ m.phase \in Phases /\ muto.key \in Keys
    BY LatchedTyped DEF DriverInv, GaitType, Phases
  <2>2. QED
    BY <2>1, IndexArithmetic DEF Phases
<1> HIDE DEF m, s
<1>7. \A l \in Legs : Of(l) = side => Grounded(s.pos[l])
  BY <1>1, <1>2, <1>3, <1>4
<1>8. ASSUME NEW l \in Legs, NEW key \in Keys \ {Standby}, s.tip[l] = Target(key, l, 1)
      PROVE  s.pos[l] \in {Standing, Target(key, l, 1), Target(key, l, 2)}
  <2>1. CASE n.pos[l] = n.tip[l]
    BY <1>3, <1>8, <2>1
  <2>2. CASE n.tip[l] = Foot(muto, l) /\ n.pos[l] = Foot(m, l)
    <3>1. Target(muto.key, l, muto.phase) = Target(key, l, 1)
      BY <1>3, <1>8, <2>2 DEF Foot
    <3>2. muto.key # Standby
      BY <1>6, <1>8, <3>1, StartLeaves, TargetShape
    <3>3. muto.phase = 1 /\ Target(muto.key, l, 2) = Target(key, l, 2)
      BY <1>6, <1>8, <3>1, <3>2, SameStart
    <3>4. CASE m.key = Standby
      BY <1>3, <1>6, <2>2, <3>4, TargetShape DEF Foot
    <3>5. CASE m.key = muto.key /\ m.phase = 2
      BY <1>3, <2>2, <3>3, <3>5 DEF Foot
    <3>6. QED
      BY <1>5, <1>6, <3>2, <3>3, <3>4, <3>5
  <2>3. QED
    BY <1>1, <1>2, <2>1, <2>2
<1>9. Late(s)
  BY <1>3, <1>7, <1>8 DEF Late, NearStart
<1>10. QED
  BY <1>9 DEF s

(* A tick that nothing disturbs puts the legs where the gait has them, or  *)
(* leaves them late or catches them in the first phase.                    *)
LEMMA TickRecovers ==
  ASSUME DriverInv, NEW a, Clean(muto) \/ Late(muto) \/ Caught(muto)
  PROVE  /\ Clean(muto) => Clean(Written(Latched(a)))
         /\ \/ Clean(Written(Latched(a))) \/ Late(Written(Latched(a)))
            \/ Caught(Written(Latched(a)))
<1> DEFINE m == Latched(a)
           w == Written(m)
<1>1. m \in GaitType /\ m.tip = muto.tip /\ m.pos = muto.pos
  BY LatchedTyped
<1>2. /\ w.key = m.key /\ w.phase = m.phase /\ w.tip = Feet(m) /\ Feet(w) = Feet(m)
      /\ w.pos = [l \in Legs |-> IF m.tip[l] = Foot(m, l) THEN m.pos[l] ELSE Foot(m, l)]
  BY <1>1, WrittenTyped
<1>3. \/ m.key = Standby
      \/ m.key # Standby /\ muto.key = Standby /\ m.phase = 1
      \/ m.key # Standby /\ m.key = muto.key /\ m.phase = (muto.phase + 1) % GaitSteps
      \/ m.key # Standby /\ muto.key # Standby /\ muto.phase = 0 /\ m.phase = 1
  BY LatchedShape
<1>4. m.key \in Keys /\ m.phase \in Phases /\ (1 + 1) % GaitSteps = 2
  <2>1. m.phase \in Phases /\ m.key \in Keys
    BY <1>1 DEF GaitType, Phases
  <2>2. QED
    BY <2>1, IndexArithmetic DEF Phases, Back
<1>5. (\A l \in Legs : m.tip[l] = Foot(m, l) => m.pos[l] = Foot(m, l)) => Clean(w)
  BY <1>2 DEF Clean, Feet
<1>6. /\ \A l \in Legs : Feet(m)[l] = Foot(m, l) /\ Foot(m, l) = Target(m.key, l, m.phase)
      /\ \A l \in Legs : w.pos[l] = IF m.tip[l] = Foot(m, l) THEN m.pos[l] ELSE Foot(m, l)
  BY <1>2 DEF Feet, Foot
<1> HIDE DEF m, w
<1>7. ASSUME Clean(muto) PROVE Clean(w)
  BY <1>1, <1>5, <1>7 DEF Clean, m, w
<1>8. ASSUME Late(muto) PROVE Late(w) \/ Caught(w)
  <2>1. CASE m.key = Standby
    <3>1. \A l \in Legs : Foot(m, l) = Standing
      BY <1>4, <1>6, <2>1, TargetShape
    <3>2. Grounded(Standing)
      BY DEF Grounded, Standing
    <3>3. PICK side \in 0..1 : \A l \in Legs : Of(l) = side => Grounded(muto.pos[l])
      BY <1>8 DEF Late
    <3>4. \A l \in Legs : Of(l) = side => Grounded(w.pos[l])
      BY <1>1, <1>6, <3>1, <3>2, <3>3
    <3>5. \A l \in Legs : \A key \in Keys \ {Standby} : w.tip[l] # Target(key, l, 1)
      BY <1>2, <1>6, <3>1, StartLeaves
    <3>6. QED
      BY <1>2, <2>1, <3>4, <3>5 DEF Late
  <2>2. CASE m.key # Standby
    <3>1. muto.key = Standby /\ m.phase = 1
      BY <1>3, <1>8, <2>2 DEF Late
    <3>2. \A l \in Legs : NearStart(w.pos, m.key, l)
      BY <1>1, <1>4, <1>6, <1>8, <2>2, <3>1 DEF Late, NearStart
    <3>3. QED
      BY <1>2, <2>2, <3>1, <3>2 DEF Caught
  <2>3. QED
    BY <2>1, <2>2
<1>9. ASSUME Caught(muto) PROVE Clean(w)
  <2>1. /\ muto.key # Standby /\ muto.phase = 1
        /\ \A l \in Legs : m.tip[l] = Target(muto.key, l, 1)
    BY <1>1, <1>9 DEF Caught, Feet, Foot
  <2>2. m.key = Standby \/ (m.key = muto.key /\ m.phase = 2)
    BY <1>3, <1>4, <2>1
  <2>3. \A l \in Legs : m.tip[l] # Foot(m, l)
    <3>1. CASE m.key = Standby
      <4>1. \A l \in Legs : Foot(m, l) = Standing
        BY <1>4, <1>6, <3>1, TargetShape
      <4>2. \A l \in Legs : Target(muto.key, l, 1) # Standing
        BY <2>1, StartLeaves
      <4>3. QED
        BY <2>1, <4>1, <4>2
    <3>2. CASE m.key = muto.key /\ m.phase = 2
      BY <1>6, <2>1, <3>2, StartLeaves
    <3>3. QED
      BY <2>2, <3>1, <3>2
  <2>4. QED
    BY <1>5, <2>3
<1>10. QED
  BY <1>7, <1>8, <1>9 DEF m, w

(* In any phase, also one that was written in part, one tripod is on the   *)
(* ground, unless a second write failed.                                   *)
THEOREM TripodStandsAlways == Spec => []TripodStands
<1>1. Init => StandInv
  BY DEF Init, StandInv
<1>2. DriverInv /\ StandInv /\ [Next]_vars => StandInv'
  <2> SUFFICES ASSUME DriverInv, StandInv, [Next]_vars, running', faults' <= 1
               PROVE  Clean(muto') \/ (faults' = 1 /\ (Late(muto') \/ Caught(muto')))
    BY DEF StandInv
  <2>0. muto \in GaitType /\ faults \in Nat
    BY PeriodFacts DEF DriverInv, TypeOK
  <2>1. CASE Start
    <3>1. PICK m \in {NextPhase(muto)} : muto' = Written(m)
      BY <2>1 DEF Start
    <3>2. m \in GaitType /\ m.tip = FreshTip
      BY <2>0, <2>1, <3>1, NextPhaseTyped DEF Start, DriverInv, Forgotten
    <3>3. /\ muto'.tip = Feet(m) /\ Feet(muto') = Feet(m)
          /\ muto'.pos = [l \in Legs |-> IF m.tip[l] = Foot(m, l) THEN m.pos[l]
                                         ELSE Foot(m, l)]
      BY <3>1, <3>2, WrittenTyped
    <3>4. \A l \in Legs : m.tip[l] # Foot(m, l)
      BY <3>2, KnownFoot DEF FreshTip
    <3>5. QED
      BY <3>3, <3>4 DEF Clean, Feet
  <2>2. CASE FailToStart \/ Crash
    BY <2>2 DEF FailToStart, Crash, Down
  <2>3. ASSUME NEW twist \in Twists, CmdVelCallback(twist)
        PROVE  UNCHANGED <<running, muto, faults>>
    BY <2>3 DEF CmdVelCallback
  <2>4. ASSUME NEW succeeds \in BOOLEAN, ReleaseMotorsCallback(succeeds)
        PROVE  UNCHANGED <<running, muto, faults>>
    BY <2>4 DEF ReleaseMotorsCallback
  <2>5. ASSUME NEW delay, NEW fits, UpdateReleased(delay, fits)
        PROVE  UNCHANGED <<running, muto, faults>>
    BY <2>5 DEF UpdateReleased, control
  <2>6. ASSUME NEW delay, NEW fits, UpdateLocomotion(delay, fits)
        PROVE  Clean(muto') \/ (faults' = 1 /\ (Late(muto') \/ Caught(muto')))
    <3>0. running
      BY <2>6 DEF UpdateLocomotion
    <3>1. CASE PhaseSent
      <4>1. muto' = Written(Latched(age')) /\ faults' = faults
        BY <3>1 DEF PhaseSent
      <4>2. Clean(muto) \/ (faults = 1 /\ (Late(muto) \/ Caught(muto)))
        BY <3>0, <4>1 DEF StandInv
      <4>3. QED
        BY <4>1, <4>2, TickRecovers
    <3>2. CASE WriteFails(delay) \/ Rejected(delay)
      <4>1. PICK n : /\ n \in WriteFaults(Latched(AgeAfter(delay)), Batch)
                              \union Rejections(Latched(AgeAfter(delay)), Batch)
                     /\ AfterFault(n)
        BY <3>2 DEF WriteFails, Rejected
      <4>2. Torn(Latched(AgeAfter(delay)), n) /\ muto' = SetCommand(n, Zero)
        BY <4>1, LatchedTyped, FaultsTear DEF AfterFault
      <4>3. faults' = faults + 1 /\ faults = 0
        BY <2>0, <3>2 DEF WriteFails, Rejected
      <4>4. Clean(muto)
        BY <3>0, <4>3 DEF StandInv
      <4>5. QED
        BY <4>2, <4>3, <4>4, FaultIsLate
    <3>3. QED
      BY <2>6, <3>1, <3>2 DEF UpdateLocomotion
  <2>7. ASSUME UNCHANGED <<running, muto, faults>>
        PROVE  Clean(muto') \/ (faults' = 1 /\ (Late(muto') \/ Caught(muto')))
    BY <2>7 DEF StandInv
  <2>8. CASE UNCHANGED vars
    BY <2>7, <2>8 DEF vars, control
  <2>9. QED
    BY <2>1, <2>2, <2>3, <2>4, <2>5, <2>6, <2>7, <2>8 DEF Next, LocomotionTimer
<1>3. QED
  BY <1>1, <1>2, DriverInvariance, StandSuffices, PTL DEF Spec

-----------------------------------------------------------------------------
(***************************************************************************)
(* The selection of levels, for every profile that the mapper accepts.     *)
(* Theorem WFMin of the library and the order of the numbers give least    *)
(* numbers, and so neighbours on a curve and the nearest level.            *)
(***************************************************************************)
LEMMA NatLeast ==
  ASSUME NEW S \in SUBSET Nat, S # {}
  PROVE  \E m \in S : \A n \in S : m <= n
<1> DEFINE R == OpToRel(<, Nat)
<1>1. \A m, n \in Nat : m < n => <<m, n>> \in R
  BY DEF OpToRel
<1>2. IsWellFoundedOn(R, Nat)
  BY NatLessThanWellFounded
<1> HIDE DEF R
<1>3. PICK m \in S : \A n \in S : <<n, m>> \notin R
  BY <1>2, WFMin
<1>4. \A n \in S : ~(n < m) /\ n \in Nat /\ m \in Nat
  BY <1>1, <1>3
<1>5. QED
  BY <1>4

LEMMA MinMax ==
  ASSUME NEW S \in SUBSET (1..30), S # {}
  PROVE  /\ Min(S) \in S /\ \A l \in S : Min(S) <= l
         /\ Max(S) \in S /\ \A l \in S : l <= Max(S)
<1>1. \E m \in S : \A l \in S : m <= l
  BY NatLeast
<1>2. \E m \in S : \A l \in S : m >= l
  <2> DEFINE T == {30 - l : l \in S}
  <2>0. \A l \in S : l \in 1..30 /\ 30 - l \in Nat
    OBVIOUS
  <2>1. T \in SUBSET Nat /\ T # {}
    BY <2>0
  <2>2. PICK m \in T : \A n \in T : m <= n
    <3> HIDE DEF T
    <3>1. QED
      BY <2>1, NatLeast
  <2>3. PICK l \in S : m = 30 - l
    OBVIOUS
  <2>4. \A k \in S : 30 - l <= 30 - k
    BY <2>2, <2>3
  <2>5. \A k \in S : l >= k
    BY <2>0, <2>4
  <2>6. QED
    BY <2>5
<1>3. Min(S) \in S /\ \A l \in S : Min(S) <= l
  BY <1>1 DEF Min
<1>4. Max(S) \in S /\ \A l \in S : Max(S) >= l
  BY <1>2 DEF Max
<1>5. QED
  BY <1>3, <1>4

Interval(curve) == Min(DOMAIN curve)..Max(DOMAIN curve)

LEMMA IntervalFacts ==
  ASSUME NEW curve, IsCurve(curve, 1..30)
  PROVE  /\ Interval(curve) \subseteq 1..30
         /\ Min(DOMAIN curve) \in DOMAIN curve /\ Max(DOMAIN curve) \in DOMAIN curve
         /\ DOMAIN curve \subseteq Interval(curve)
BY MinMax DEF IsCurve, Interval

LEMMA Neighbours ==
  ASSUME NEW curve, IsCurve(curve, 1..30), NEW level \in Interval(curve)
  PROVE  /\ Below(curve, level) \in DOMAIN curve /\ Below(curve, level) <= level
         /\ \A l \in DOMAIN curve : l <= level => l <= Below(curve, level)
         /\ Above(curve, level) \in DOMAIN curve /\ level <= Above(curve, level)
         /\ \A l \in DOMAIN curve : level <= l => Above(curve, level) <= l
<1> DEFINE lower == {l \in DOMAIN curve : l <= level}
           upper == {l \in DOMAIN curve : l >= level}
<1>1. lower \in SUBSET (1..30) /\ lower # {}
  BY IntervalFacts DEF IsCurve, Interval
<1>2. upper \in SUBSET (1..30) /\ upper # {}
  BY IntervalFacts DEF IsCurve, Interval
<1>3. level \in 1..30
  BY IntervalFacts
<1>4. Below(curve, level) = Max(lower) /\ Above(curve, level) = Min(upper)
  BY DEF Below, Above
<1>5. Max(lower) \in lower /\ \A l \in lower : l <= Max(lower)
  <2> HIDE DEF lower
  <2>1. QED
    BY <1>1, MinMax
<1>6. Min(upper) \in upper /\ \A l \in upper : Min(upper) <= l
  <2> HIDE DEF upper
  <2>1. QED
    BY <1>2, MinMax
<1>7. \A l \in DOMAIN curve : l \in 1..30
  BY DEF IsCurve
<1>8. QED
  BY <1>3, <1>4, <1>5, <1>6, <1>7

(* A fraction of a rise is between nothing and the whole, and grows with   *)
(* the distance.                                                           *)
LEMMA Fraction ==
  ASSUME NEW n \in Nat \ {0}, NEW i \in 0..n, NEW j \in 0..n, i <= j, NEW rise \in Nat
  PROVE  /\ (i * rise) \div n \in 0..rise
         /\ (i * rise) \div n <= (j * rise) \div n
<1> DEFINE Part(x) == x \div n
<1>1. \A x, y \in Nat : x <= y => Part(x) \in Nat /\ Part(x) <= Part(y)
  OBVIOUS
<1>2. i * rise \in Nat /\ j * rise \in Nat /\ n * rise \in Nat
  OBVIOUS
<1>3. i * rise <= j * rise /\ j * rise <= n * rise
  OBVIOUS
<1>4. Part(n * rise) = rise
  OBVIOUS
<1> HIDE DEF Part
<1>5. /\ Part(i * rise) \in Nat /\ Part(i * rise) <= Part(j * rise)
      /\ Part(j * rise) \in Nat /\ Part(j * rise) <= Part(n * rise)
  BY <1>1, <1>2, <1>3
<1>6. Part(i * rise) \in 0..rise
  BY <1>4, <1>5
<1>7. QED
  BY <1>5, <1>6 DEF Part

LEMMA SpeedBetween ==
  ASSUME NEW curve, IsCurve(curve, 1..30), NEW level \in Interval(curve)
  PROVE  /\ SpeedAt(curve, level) \in Nat
         /\ curve[Below(curve, level)] <= SpeedAt(curve, level)
         /\ SpeedAt(curve, level) <= curve[Above(curve, level)]
<1> DEFINE lower == Below(curve, level)
           upper == Above(curve, level)
<1>1. /\ lower \in DOMAIN curve /\ lower \in Nat /\ lower <= level
      /\ upper \in DOMAIN curve /\ upper \in Nat /\ level <= upper
      /\ level \in 1..30
      /\ \A l \in DOMAIN curve : l <= level => l <= lower
      /\ \A l \in DOMAIN curve : level <= l => upper <= l
  <2>1. level \in 1..30 /\ \A l \in DOMAIN curve : l \in Nat
    BY IntervalFacts DEF IsCurve
  <2>2. QED
    BY <2>1, Neighbours
<1>2. curve[lower] \in Nat /\ curve[upper] \in Nat
  <2>1. \A l \in DOMAIN curve : curve[l] \in Nat
    BY DEF IsCurve
  <2>2. QED
    BY <1>1, <2>1
<1>3. CASE level \in DOMAIN curve
  <2>1. lower = level /\ upper = level
    BY <1>1, <1>3
  <2>2. SpeedAt(curve, level) = curve[level]
    BY <1>1, <1>3 DEF SpeedAt
  <2> HIDE DEF lower, upper
  <2>3. QED
    BY <1>2, <2>1, <2>2 DEF lower, upper
<1>4. CASE level \notin DOMAIN curve
  <2>1. lower < level /\ level < upper
    BY <1>1, <1>4
  <2>2. curve[lower] <= curve[upper]
    BY <1>1, <2>1 DEF IsCurve
  <2> DEFINE n == upper - lower
             rise == curve[upper] - curve[lower]
             step == ((level - lower) * rise) \div n
  <2>3. n \in Nat \ {0} /\ rise \in Nat /\ level - lower \in 0..n
    BY <1>1, <1>2, <2>1, <2>2
  <2>4. step \in 0..rise
    <3> HIDE DEF n, rise
    <3>1. QED
      BY <2>3, Fraction
  <2>5. SpeedAt(curve, level) = curve[lower] + step
    BY <1>1, <1>4 DEF SpeedAt
  <2> HIDE DEF step, n
  <2>6. QED
    BY <1>2, <2>4, <2>5
<1>5. QED
  BY <1>3, <1>4

LEMMA SpeedRises ==
  ASSUME NEW curve, IsCurve(curve, 1..30), NEW k \in Candidates(curve),
         NEW l \in Candidates(curve), k <= l
  PROVE  SpeedAt(curve, k) \in Nat /\ SpeedAt(curve, k) <= SpeedAt(curve, l)
<1>1. SpeedAt(curve, 0) = 0
  <2>1. 0 \notin DOMAIN curve
    BY DEF IsCurve
  <2>2. QED
    BY <2>1 DEF SpeedAt
<1>2. Candidates(curve) = {0} \union Interval(curve)
  BY DEF Candidates, Interval
<1>3. Interval(curve) \subseteq 1..30
  BY IntervalFacts
<1>4. \A i \in Candidates(curve) : SpeedAt(curve, i) \in Nat
  BY <1>1, <1>2, SpeedBetween
<1>5. CASE k = 0
  BY <1>1, <1>4, <1>5
<1>6. CASE k # 0
  <2>1. k \in Interval(curve) /\ l \in Interval(curve) /\ k \in Nat /\ l \in Nat
    BY <1>2, <1>3, <1>6
  <2>2. /\ Below(curve, k) \in DOMAIN curve /\ Below(curve, k) <= k
        /\ \A i \in DOMAIN curve : k <= i => Above(curve, k) <= i
        /\ \A i \in DOMAIN curve : i <= k => i <= Below(curve, k)
        /\ Above(curve, k) \in DOMAIN curve /\ k <= Above(curve, k)
    BY <2>1, Neighbours
  <2>3. /\ Below(curve, l) \in DOMAIN curve /\ Below(curve, l) <= l
        /\ \A i \in DOMAIN curve : l <= i => Above(curve, l) <= i
        /\ \A i \in DOMAIN curve : i <= l => i <= Below(curve, l)
        /\ Above(curve, l) \in DOMAIN curve /\ l <= Above(curve, l)
    BY <2>1, Neighbours
  <2>4. \A i \in DOMAIN curve : i \in Nat /\ curve[i] \in Nat
    BY DEF IsCurve
  <2>5. \A i, j \in DOMAIN curve : i <= j => curve[i] <= curve[j]
    BY <2>4 DEF IsCurve
  <2>6. /\ SpeedAt(curve, k) \in Nat /\ SpeedAt(curve, l) \in Nat
        /\ SpeedAt(curve, k) <= curve[Above(curve, k)]
        /\ curve[Below(curve, l)] <= SpeedAt(curve, l)
    BY <2>1, SpeedBetween
  <2>7. CASE Above(curve, k) <= Below(curve, l)
    <3>1. curve[Above(curve, k)] <= curve[Below(curve, l)]
      BY <2>2, <2>3, <2>5, <2>7
    <3>2. curve[Above(curve, k)] \in Nat /\ curve[Below(curve, l)] \in Nat
      BY <2>2, <2>3, <2>4
    <3>3. QED
      BY <2>6, <3>1, <3>2
  <2>8. CASE ~(Above(curve, k) <= Below(curve, l))
    <3> DEFINE a == Below(curve, k)
               b == Above(curve, k)
    <3>1. a \in Nat /\ b \in Nat /\ Below(curve, l) \in Nat /\ Above(curve, l) \in Nat
      BY <2>2, <2>3, <2>4
    <3>2. l < b
      BY <2>1, <2>2, <2>3, <2>8, <3>1
    <3>3. Above(curve, l) = b
      BY <2>1, <2>2, <2>3, <3>1, <3>2
    <3>4. Below(curve, l) <= k
      BY <2>1, <2>2, <2>3, <2>8, <3>1
    <3>5. Below(curve, l) = a
      BY <2>1, <2>2, <2>3, <3>1, <3>4
    <3>6. a < b /\ a <= k /\ curve[a] \in Nat /\ curve[b] \in Nat /\ curve[a] <= curve[b]
      BY <2>1, <2>2, <2>4, <2>5, <3>1, <3>2
    <3> DEFINE n == b - a
               rise == curve[b] - curve[a]
               Step(i) == ((i - a) * rise) \div n
    <3>7. /\ n \in Nat \ {0} /\ rise \in Nat
          /\ k - a \in 0..n /\ l - a \in 0..n /\ k - a <= l - a
      BY <2>1, <3>1, <3>2, <3>6
    <3>8. /\ Step(k) \in 0..rise /\ Step(k) <= Step(l) /\ Step(l) \in 0..rise
      <4> HIDE DEF n, rise
      <4>1. Step(k) \in 0..rise /\ Step(k) <= Step(l)
        BY <3>7, Fraction
      <4>2. Step(l) \in 0..rise
        BY <3>7, Fraction
      <4>3. QED
        BY <4>1, <4>2
    <3>9. l \notin DOMAIN curve
      BY <2>3, <2>8, <3>1, <3>2, <3>4, <3>5, <2>1, <3>3
    <3>10. SpeedAt(curve, l) = curve[a] + Step(l)
      BY <2>1, <1>3, <3>3, <3>5, <3>9 DEF SpeedAt
    <3>11. CASE k \in DOMAIN curve
      <4>1. b = k
        BY <2>1, <2>2, <3>1, <3>11
      <4>2. QED
        BY <2>1, <2>3, <2>8, <3>11, <4>1, <3>1
    <3>12. CASE k \notin DOMAIN curve
      <4>1. SpeedAt(curve, k) = curve[a] + Step(k)
        BY <2>1, <1>3, <3>12 DEF SpeedAt
      <4> HIDE DEF Step, n, a, b
      <4>2. QED
        BY <2>6, <3>6, <3>8, <3>10, <4>1 DEF a, b
    <3>13. QED
      BY <3>11, <3>12
  <2>9. QED
    BY <2>7, <2>8
<1>7. QED
  BY <1>5, <1>6

LEMMA NearestIsPreferred ==
  ASSUME NEW curve, IsCurve(curve, 1..30), NEW m \in Nat
  PROVE  /\ Nearest(curve, m) \in Candidates(curve)
         /\ \A l \in Candidates(curve) : Preferred(curve, m, Nearest(curve, m), l)
<1> DEFINE C == Candidates(curve)
           gap(l) == Magnitude(SpeedAt(curve, l) - m)
           G == {gap(l) : l \in C}
<1>1. \A l \in C : l \in Nat /\ gap(l) \in Nat
  <2>1. \A l \in C : l \in Nat
    BY IntervalFacts DEF Candidates, Interval
  <2>2. \A l \in C : SpeedAt(curve, l) \in Nat
    BY <2>1, SpeedRises
  <2>3. QED
    BY <2>1, <2>2 DEF Magnitude
<1>2. 0 \in C
  BY DEF Candidates
<1>3. \A k, l : Preferred(curve, m, k, l) <=> gap(k) < gap(l) \/ (gap(k) = gap(l) /\ k <= l)
  BY DEF Preferred
<1> HIDE DEF gap
<1>4. G \in SUBSET Nat /\ G # {}
  BY <1>1, <1>2
<1>5. PICK g \in G : \A h \in G : g <= h
  <2> HIDE DEF G
  <2>1. QED
    BY <1>4, NatLeast
<1> DEFINE L == {l \in C : gap(l) = g}
<1>6. L \in SUBSET Nat /\ L # {}
  BY <1>1
<1>7. PICK k \in L : \A l \in L : k <= l
  <2> HIDE DEF L
  <2>1. QED
    BY <1>6, NatLeast
<1>8. ASSUME NEW l \in C PROVE Preferred(curve, m, k, l)
  <2>1. gap(k) = g /\ gap(l) \in G /\ gap(k) \in Nat /\ gap(l) \in Nat
    BY <1>1
  <2>2. gap(k) <= gap(l)
    BY <1>5, <2>1
  <2>3. CASE gap(l) = gap(k)
    BY <1>3, <1>7, <2>1, <2>3
  <2>4. CASE gap(l) # gap(k)
    BY <1>3, <2>1, <2>2, <2>4
  <2>5. QED
    BY <2>3, <2>4
<1>9. k \in Candidates(curve) /\ \A l \in Candidates(curve) : Preferred(curve, m, k, l)
  BY <1>8
<1>10. QED
  BY <1>9 DEF Nearest

(* Of two requests on one curve, the greater one selects no lower level:   *)
(* if it did, the lower level would be as near to it, and so nearer to     *)
(* the smaller request.                                                    *)
LEMMA NearestRises ==
  ASSUME NEW curve, IsCurve(curve, 1..30), NEW m \in Nat, NEW n \in Nat, m <= n
  PROVE  /\ Nearest(curve, m) \in 0..30
         /\ Nearest(curve, m) <= Nearest(curve, n)
<1> DEFINE k == Nearest(curve, m)
           l == Nearest(curve, n)
           s == SpeedAt(curve, k)
           t == SpeedAt(curve, l)
<1>1. /\ k \in Candidates(curve) /\ l \in Candidates(curve)
      /\ Preferred(curve, m, k, l) /\ Preferred(curve, n, l, k)
  BY NearestIsPreferred
<1>2. Candidates(curve) \subseteq 0..30
  BY IntervalFacts DEF Candidates, Interval
<1>3. k \in 0..30 /\ l \in 0..30
  BY <1>1, <1>2
<1>4. ASSUME l < k PROVE FALSE
  <2>1. s \in Nat /\ t \in Nat /\ t <= s
    BY <1>1, <1>3, <1>4, SpeedRises
  <2>2. Magnitude(s - m) < Magnitude(t - m)
    BY <1>1, <1>3, <1>4, <2>1 DEF Preferred
  <2>3. Magnitude(t - n) <= Magnitude(s - n)
    BY <1>1, <1>3, <1>4, <2>1 DEF Preferred, Magnitude
  <2> HIDE DEF s, t
  <2>4. QED
    BY <2>1, <2>2, <2>3 DEF Magnitude
<1>5. QED
  BY <1>3, <1>4

LEMMA MappingFacts ==
  ASSUME NEW axis \in Axes
  PROVE  /\ LevelMax(axis) \in 1..30 /\ LevelRange(axis) \subseteq 1..LevelMax(axis)
         /\ GaitSpeed[axis] \in Nat \ {0} /\ Hundredth \in Nat \ {0} /\ NotFinite \notin Int
BY ProfileAssumption DEF LevelMax, LevelRange

LEMMA ProfileCurves ==
  ASSUME NEW axis \in Axes, NEW v \in Int
  PROVE  /\ IsCurve(CurveFor(axis, v), 1..30)
         /\ IsCurve(CurveFor(axis, v), 1..LevelMax(axis))
<1>1. IsCurve(CurveFor(axis, v), LevelRange(axis))
  BY ProfileAssumption DEF Accepted, IsProfile, IsAxis, CurveFor
<1>2. LevelRange(axis) \subseteq 1..LevelMax(axis) /\ 1..LevelMax(axis) \subseteq 1..30
  BY MappingFacts
<1>3. QED
  BY <1>1, <1>2 DEF IsCurve

(* What each mapping selects for a positive or negative request: the same  *)
(* as for its magnitude, on the curve of its direction.                    *)
Amount(mapping, axis, v) ==
  CASE mapping = "geometric" -> Clipped(Magnitude(v), Fastest(axis))
    [] mapping = "calibrated" -> IF v = 0 THEN 0 ELSE Nearest(CurveFor(axis, v), Magnitude(v))
    [] mapping = "legacy_100" ->
         LET clipped == Clipped(Magnitude(v), LevelMax(axis) * Hundredth)
         IN  IF axis = "yaw" /\ clipped > 0 /\ clipped < 10 * Hundredth
             THEN 10 ELSE clipped \div Hundredth

LEMMA LevelIsAmount ==
  ASSUME NEW mapping \in Mappings, NEW axis \in Axes, NEW v \in Int
  PROVE  SelectAxis(mapping, axis, v).level = Signed(v, Amount(mapping, axis, v))
<1>1. CASE mapping = "geometric"
  BY <1>1 DEF SelectAxis, SelectAmplitude, OnAxis, Amount
<1>2. CASE mapping = "calibrated"
  BY <1>2 DEF SelectAxis, SelectLevel, OnAxis, Amount, Signed
<1>3. CASE mapping = "legacy_100"
  BY <1>3 DEF SelectAxis, SelectHundredths, OnAxis, Amount
<1>4. QED
  BY <1>1, <1>2, <1>3 DEF Mappings

LEMMA ClippedRises ==
  ASSUME NEW most \in Nat
  PROVE  /\ \A m \in Nat : Clipped(m, most) \in 0..most
         /\ \A m, n \in Nat : m <= n => Clipped(m, most) <= Clipped(n, most)
         /\ Clipped(0, most) = 0
BY DEF Clipped

LEMMA AmountRises ==
  ASSUME NEW mapping \in Mappings, NEW axis \in Axes, NEW v \in Int, NEW w \in Int,
         Magnitude(v) <= Magnitude(w), v > 0 <=> w > 0
  PROVE  /\ Amount(mapping, axis, v) \in 0..Greatest(mapping, axis)
         /\ Amount(mapping, axis, v) <= Amount(mapping, axis, w)
         /\ Amount(mapping, axis, 0) = 0
<1>1. Magnitude(v) \in Nat /\ Magnitude(w) \in Nat /\ Magnitude(0) = 0
  BY DEF Magnitude
<1>2. CASE mapping = "geometric"
  <2>1. Fastest(axis) \in Nat
    BY MappingFacts DEF Fastest
  <2>2. QED
    BY <1>1, <1>2, <2>1, ClippedRises DEF Amount, Greatest
<1>3. CASE mapping = "calibrated"
  <2> DEFINE curve == CurveFor(axis, v)
  <2>1. /\ IsCurve(curve, 1..30) /\ IsCurve(curve, 1..LevelMax(axis))
        /\ CurveFor(axis, w) = curve
    BY ProfileCurves DEF CurveFor
  <2>2. LevelMax(axis) \in 1..30 /\ Greatest(mapping, axis) = LevelMax(axis)
    BY <1>3, MappingFacts DEF Greatest
  <2> HIDE DEF curve
  <2>3. \A n \in Nat : Nearest(curve, n) \in 0..LevelMax(axis)
    <3>1. Candidates(curve) \subseteq 0..LevelMax(axis)
      <4>1. Max(DOMAIN curve) \in 1..LevelMax(axis) /\ Min(DOMAIN curve) \in 1..LevelMax(axis)
        BY <2>1, IntervalFacts DEF IsCurve
      <4>2. QED
        BY <2>2, <4>1 DEF Candidates
    <3>2. QED
      BY <2>1, <3>1, NearestIsPreferred
  <2>4. Nearest(curve, Magnitude(v)) <= Nearest(curve, Magnitude(w))
    BY <1>1, <2>1, NearestRises
  <2>5. /\ Amount(mapping, axis, v) = IF v = 0 THEN 0 ELSE Nearest(curve, Magnitude(v))
        /\ Amount(mapping, axis, w) = IF w = 0 THEN 0 ELSE Nearest(curve, Magnitude(w))
        /\ Amount(mapping, axis, 0) = 0
    BY <1>3, <2>1 DEF Amount, curve
  <2>6. w = 0 => v = 0
    BY DEF Magnitude
  <2>7. Nearest(curve, Magnitude(v)) \in 0..LevelMax(axis)
        /\ Nearest(curve, Magnitude(w)) \in 0..LevelMax(axis)
    BY <1>1, <2>3
  <2>8. QED
    BY <2>2, <2>4, <2>5, <2>6, <2>7
<1>4. CASE mapping = "legacy_100"
  <2> DEFINE most == LevelMax(axis) * Hundredth
             c == Clipped(Magnitude(v), most)
             d == Clipped(Magnitude(w), most)
  <2>1. /\ most \in Nat /\ Hundredth \in Nat \ {0} /\ LevelMax(axis) \in 1..30
        /\ Greatest(mapping, axis) = LevelMax(axis)
    BY <1>4, MappingFacts DEF Greatest
  <2>2. c \in 0..most /\ d \in 0..most /\ c <= d /\ Clipped(0, most) = 0
    <3> HIDE DEF most
    <3>1. c \in 0..most /\ c <= d /\ Clipped(0, most) = 0
      BY <1>1, <2>1, ClippedRises
    <3>2. d \in 0..most
      BY <1>1, <2>1, ClippedRises
    <3>3. QED
      BY <3>1, <3>2
  <2> DEFINE Round(n) == n \div Hundredth
             Turn(n) == IF axis = "yaw" /\ n > 0 /\ n < 10 * Hundredth THEN 10 ELSE Round(n)
  <2>3. /\ Amount(mapping, axis, v) = Turn(c) /\ Amount(mapping, axis, w) = Turn(d)
        /\ Amount(mapping, axis, 0) = Turn(0)
    BY <1>1, <1>4, <2>2 DEF Amount
  <2>4. \A x, y \in Nat : x <= y => Round(x) \in Nat /\ Round(y) \in Nat /\ Round(x) <= Round(y)
    BY <2>1
  <2>5. Round(most) = LevelMax(axis) /\ Round(10 * Hundredth) = 10 /\ Round(0) = 0
    BY <2>1
  <2>6. axis = "yaw" => LevelMax(axis) = 20
    BY DEF LevelMax
  <2>7. 10 * Hundredth \in Nat
    BY <2>1
  <2>8. Round(c) \in 0..LevelMax(axis) /\ Round(d) \in 0..LevelMax(axis) /\ Round(c) <= Round(d)
    <3> HIDE DEF Round, most, c, d
    <3>1. QED
      BY <2>1, <2>2, <2>4, <2>5
  <2>9. d >= 10 * Hundredth => Round(d) >= 10
    <3> HIDE DEF Round, most, c, d
    <3>1. QED
      BY <2>1, <2>2, <2>4, <2>5, <2>7
  <2> HIDE DEF Round, most, c, d
  <2>10. QED
    BY <2>1, <2>2, <2>3, <2>5, <2>6, <2>7, <2>8, <2>9
<1>5. QED
  BY <1>2, <1>3, <1>4 DEF Mappings

LEMMA AmountTyped ==
  ASSUME NEW mapping \in Mappings, NEW axis \in Axes, NEW v \in Int
  PROVE  /\ Amount(mapping, axis, v) \in 0..Greatest(mapping, axis)
         /\ v = 0 => Amount(mapping, axis, v) = 0
<1>1. Magnitude(v) <= Magnitude(v) /\ (v > 0 <=> v > 0)
  BY DEF Magnitude
<1>2. QED
  BY <1>1, AmountRises

(* To ask for more never selects less, for any accepted profile and under  *)
(* each mapping (_select_axis, _select_continuous_axis,                    *)
(* legacy_velocity_selection).                                             *)
THEOREM MoreIsNeverLess ==
  \A mapping \in Mappings, axis \in Axes, v, w \in Int : NeverReverses(mapping, axis, v, w)
<1> SUFFICES ASSUME NEW mapping \in Mappings, NEW axis \in Axes, NEW v \in Int, NEW w \in Int,
                    v <= w
             PROVE  SelectAxis(mapping, axis, v).level <= SelectAxis(mapping, axis, w).level
  BY DEF NeverReverses
<1> DEFINE a == Amount(mapping, axis, v)
           b == Amount(mapping, axis, w)
<1>1. /\ SelectAxis(mapping, axis, v).level = Signed(v, a)
      /\ SelectAxis(mapping, axis, w).level = Signed(w, b)
  BY LevelIsAmount
<1>2. Greatest(mapping, axis) \in Nat
  BY MappingFacts DEF Greatest, Fastest
<1>3. a \in Nat /\ b \in Nat
  <2>1. a \in 0..Greatest(mapping, axis)
    BY AmountTyped
  <2>2. b \in 0..Greatest(mapping, axis)
    BY AmountTyped
  <2>3. QED
    BY <1>2, <2>1, <2>2
<1>4. v > 0 => a <= b
  BY AmountRises DEF Magnitude
<1>5. w <= 0 => b <= a
  BY AmountRises DEF Magnitude
<1>6. (v = 0 => a = 0) /\ (w = 0 => b = 0)
  BY AmountTyped
<1> HIDE DEF a, b
<1>7. Signed(v, a) <= Signed(w, b)
  BY <1>3, <1>4, <1>5, <1>6 DEF Signed
<1>8. QED
  BY <1>1, <1>7

(* No axis is driven against its request or beyond the levels of the gait. *)
THEOREM DirectionIsKept ==
  \A mapping \in Mappings, axis \in Axes, v \in Int : KeepsDirection(mapping, axis, v)
<1> SUFFICES ASSUME NEW mapping \in Mappings, NEW axis \in Axes, NEW v \in Int
             PROVE  KeepsDirection(mapping, axis, v)
  OBVIOUS
<1> DEFINE a == Amount(mapping, axis, v)
<1>1. SelectAxis(mapping, axis, v).level = Signed(v, a)
  BY LevelIsAmount
<1>2. Greatest(mapping, axis) \in Nat
  BY MappingFacts DEF Greatest, Fastest
<1>3. a \in 0..Greatest(mapping, axis) /\ (v = 0 => a = 0)
  BY AmountTyped
<1> HIDE DEF a
<1>4. /\ v < 0 => Signed(v, a) \in -Greatest(mapping, axis)..0
      /\ ~(v < 0) => Signed(v, a) \in 0..(IF v = 0 THEN 0 ELSE Greatest(mapping, axis))
  BY <1>2, <1>3 DEF Signed
<1>5. QED
  BY <1>1, <1>4 DEF KeepsDirection

(* An axis that is asked for nothing stands still, and a refusal stands.   *)
LEMMA FiniteAxes ==
  ASSUME NEW twist \in [Axes -> Int \union {NotFinite}],
         IsFinite(twist)
  PROVE  \A a \in Axes : twist[a] \in Int
BY DEF IsFinite

LEMMA RestStands ==
  ASSUME NEW mapping \in Mappings, NEW axis \in Axes
  PROVE  SelectAxis(mapping, axis, 0).level = 0
<1>1. Amount(mapping, axis, 0) = 0
  BY AmountTyped
<1>2. QED
  BY <1>1, LevelIsAmount DEF Signed

(* Lateral motion is never selected with another (select,                  *)
(* legacy_velocity_selection, _mode_for_levels).                           *)
THEOREM LateralMotionIsAlone ==
  \A mapping \in Mappings, twist \in [Axes -> Int \union {NotFinite}] :
     LateralIsAlone(mapping, twist)
<1> SUFFICES ASSUME NEW mapping \in Mappings, NEW twist \in [Axes -> Int \union {NotFinite}]
             PROVE  ~Combines(Select(mapping, twist).levels)
  BY DEF LateralIsAlone
<1> DEFINE on == [a \in Axes |-> SelectAxis(mapping, a, twist[a])]
           requested == {a \in Axes : twist[a] # 0}
<1>1. \A s, p : ~Combines(Refusal(s, p).levels)
  BY DEF Refusal, Combines, Zero
<1>2. Executable(on).levels = LevelsOf(on)
  BY DEF Executable
<1>3. CASE ~IsFinite(twist)
  BY <1>1, <1>3 DEF Select
<1>4. CASE IsFinite(twist)
  <2>1. Select(mapping, twist) = SelectFinite(mapping, twist)
    BY <1>4 DEF Select
  <2>2. CASE mapping = "legacy_100"
    <3>1. \/ \E s, p : Select(mapping, twist) = Refusal(s, p)
          \/ Select(mapping, twist) = Executable(on) /\ ~Combines(LevelsOf(on))
      BY <2>1, <2>2 DEF SelectFinite
    <3>2. QED
      BY <1>1, <1>2, <3>1
  <2>3. CASE mapping # "legacy_100"
    <3>1. \/ \E s, p : Select(mapping, twist) = Refusal(s, p)
          \/ /\ Select(mapping, twist) = Executable(on)
             /\ "y" \notin requested \/ requested = {"y"}
      BY <2>1, <2>3 DEF SelectFinite
    <3>2. \A a \in Axes : a \notin requested => on[a].level = 0
      BY RestStands
    <3> HIDE DEF on, requested
    <3>3. "y" \notin requested \/ requested = {"y"} => ~Combines(LevelsOf(on))
      BY <3>2 DEF Combines, LevelsOf, Axes
    <3>4. QED
      BY <1>1, <1>2, <3>1, <3>3
  <2>4. QED
    BY <2>2, <2>3
<1>5. QED
  BY <1>3, <1>4

(* The speed published with a level is the one the profile has for it.     *)
THEOREM LevelsArePredicted ==
  \A axis \in Axes, v \in Int : PredictsItsLevel(axis, v)
<1> SUFFICES ASSUME NEW axis \in Axes, NEW v \in Int
             PROVE  PredictsItsLevel(axis, v)
  OBVIOUS
<1> DEFINE curve == CurveFor(axis, v)
           n == Nearest(curve, Magnitude(v))
           selected == SelectLevel(axis, v)
<1>1. n \in Nat
  <2>1. Magnitude(v) \in Nat /\ Magnitude(v) <= Magnitude(v)
    BY DEF Magnitude
  <2>2. IsCurve(curve, 1..30)
    BY ProfileCurves
  <2>3. QED
    BY <2>1, <2>2, NearestRises
<1>2. \A other : SpeedAt(other, 0) = 0 \/ 0 \in DOMAIN other
  BY DEF SpeedAt
<1>3. \A w \in Int : SpeedAt(CurveFor(axis, w), 0) = 0
  BY <1>2, ProfileCurves DEF IsCurve
<1>4. Predicted(axis, 0) = 0
  BY <1>3 DEF Predicted, Signed, Magnitude
<1>5. CASE v = 0
  <2>1. selected.level = 0 /\ selected.predicted = 0
    BY <1>5 DEF SelectLevel, OnAxis
  <2>2. QED
    BY <1>4, <2>1 DEF PredictsItsLevel
<1>6. CASE v # 0
  <2>1. selected.level = Signed(v, n) /\ selected.predicted = Signed(v, SpeedAt(curve, n))
    BY <1>6 DEF SelectLevel, OnAxis
  <2>2. CASE n = 0
    <3>1. SpeedAt(curve, n) = 0
      BY <1>3, <2>2
    <3>2. selected.level = 0 /\ selected.predicted = 0
      <4>1. \A k \in Int : Signed(v, k) \in {k, 0 - k}
        BY DEF Signed
      <4>2. Signed(v, 0) = 0
        BY <4>1
      <4> HIDE DEF selected, curve, n
      <4>3. QED
        BY <2>1, <2>2, <3>1, <4>2
    <3>3. QED
      BY <1>4, <3>2 DEF PredictsItsLevel
  <2>3. CASE n # 0
    <3> DEFINE level == Signed(v, n)
    <3>1. /\ Magnitude(level) = n /\ (level > 0 <=> v > 0)
          /\ level < 0 <=> v < 0
      <4> HIDE DEF n
      <4>1. QED
        BY <1>1, <1>6, <2>3 DEF Magnitude, Signed
    <3> HIDE DEF level, n
    <3>2. CurveFor(axis, level) = curve
      BY <3>1 DEF CurveFor
    <3>3. Predicted(axis, level) = Signed(v, SpeedAt(curve, n))
      BY <3>1, <3>2 DEF Predicted, Signed
    <3>4. QED
      BY <2>1, <3>3 DEF PredictsItsLevel, level
  <2>4. QED
    BY <2>2, <2>3
<1>7. QED
  BY <1>5, <1>6

(* A selection that raises no flag does what was asked for.                *)
THEOREM UnflaggedSelectionsAreExact ==
  \A mapping \in Mappings, twist \in [Axes -> Int \union {NotFinite}] :
     UnflaggedIsExact(mapping, twist)
<1> SUFFICES ASSUME NEW mapping \in Mappings, NEW twist \in [Axes -> Int \union {NotFinite}],
                    mapping # "legacy_100", Select(mapping, twist).supported,
                    Select(mapping, twist).saturated \union Select(mapping, twist).projected = {},
                    NEW a \in Axes
             PROVE  Select(mapping, twist).predicted[a] = twist[a]
  BY DEF UnflaggedIsExact
<1> DEFINE on == [b \in Axes |-> SelectAxis(mapping, b, twist[b])]
<1>1. \A s, p : ~Refusal(s, p).supported
  BY DEF Refusal
<1>2. IsFinite(twist)
  BY <1>1 DEF Select
<1>3. Select(mapping, twist) = Executable(on)
  BY <1>1, <1>2 DEF Select, SelectFinite
<1>4. /\ Select(mapping, twist).predicted[a] = on[a].predicted
      /\ ~on[a].saturated /\ ~on[a].projected
  <2> HIDE DEF on
  <2>1. /\ Select(mapping, twist).predicted = [b \in Axes |-> on[b].predicted]
        /\ Select(mapping, twist).saturated = {b \in Axes : on[b].saturated}
        /\ Select(mapping, twist).projected = {b \in Axes : on[b].projected}
    BY <1>3 DEF Executable
  <2>2. Select(mapping, twist).predicted[a] = on[a].predicted
    BY <2>1
  <2>3. a \notin {b \in Axes : on[b].saturated} /\ a \notin {b \in Axes : on[b].projected}
    BY <2>1
  <2>4. QED
    BY <2>2, <2>3
<1>5. twist[a] \in Int /\ on[a] = SelectAxis(mapping, a, twist[a])
  BY <1>2, FiniteAxes
<1> DEFINE v == twist[a]
<1>6. Signed(v, Magnitude(v)) = v
  BY <1>5 DEF Signed, Magnitude
<1> HIDE DEF v, on
<1>7. CASE mapping = "geometric"
  <2>1. SelectAxis(mapping, a, v) = SelectAmplitude(a, v)
    BY <1>7 DEF SelectAxis
  <2>2. /\ on[a].predicted = Signed(v, Clipped(Magnitude(v), Fastest(a)))
        /\ on[a].saturated <=> Magnitude(v) > Fastest(a)
    BY <1>5, <2>1 DEF SelectAmplitude, OnAxis, v
  <2>3. QED
    BY <1>4, <1>6, <2>2 DEF Clipped, v
<1>8. CASE mapping = "calibrated"
  <2>1. SelectAxis(mapping, a, v) = SelectLevel(a, v)
    BY <1>8 DEF SelectAxis
  <2>2. CASE v = 0
    BY <1>4, <1>5, <2>1, <2>2 DEF SelectLevel, OnAxis, v
  <2>3. CASE v # 0
    <3> DEFINE speed == SpeedAt(CurveFor(a, v), Nearest(CurveFor(a, v), Magnitude(v)))
    <3>1. on[a].predicted = Signed(v, speed) /\ (on[a].projected <=> speed # Magnitude(v))
      <4>1. PICK level, saturated :
               on[a] = OnAxis(level, Signed(v, speed), saturated, speed # Magnitude(v))
        BY <1>5, <2>1, <2>3 DEF SelectLevel, v
      <4> HIDE DEF speed
      <4>2. on[a].predicted = Signed(v, speed)
        BY <4>1 DEF OnAxis
      <4>3. on[a].projected = (speed # Magnitude(v))
        BY <4>1 DEF OnAxis
      <4>4. QED
        BY <4>2, <4>3
    <3> HIDE DEF speed
    <3>2. QED
      BY <1>4, <1>6, <3>1 DEF v
  <2>4. QED
    BY <2>2, <2>3
<1>9. QED
  BY <1>7, <1>8 DEF Mappings
=============================================================================
