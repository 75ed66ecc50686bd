------------------------------- MODULE PoiSearch -------------------------------
(***************************************************************************)
(* The search of a mission: RosPoiGridAuthority.observe picks the next     *)
(* point of interest (PoiGridPlanner), has it checked against the map      *)
(* again (go_to_point, RosMapReachability) and sends it to Nav2, while the *)
(* thread of the map subscription replaces the map.  The two planners have *)
(* different footprints: the first is built without one.                   *)
(***************************************************************************)
EXTENDS Reachability

CONSTANTS
  SelectionFootprint,  \* radius the points are selected with, 0 in the node
  MotionFootprint,     \* footprint_radius_m of evaluate_point, in cells
  Maps,          \* the maps there may be, each its set of free cells
  Spacing,       \* spacing_cells
  MinProgress,   \* minimum_progress_m, in hundredths of a cell
  MaxRevision,   \* bound on map revisions
  MaxMissions,   \* bound on missions
  MaxCanceled    \* bound on calls that are canceled

ASSUME SearchAssumption ==
  /\ SelectionFootprint \in Nat /\ MotionFootprint \in Nat
  /\ SelectionFootprint <= MotionFootprint
  /\ Maps \subseteq SUBSET Cells
  /\ Spacing \in Nat \ {0} /\ MinProgress \in Nat
  /\ MaxRevision \in Nat \ {0} /\ MaxMissions \in Nat \ {0} /\ MaxCanceled \in Nat

VARIABLES
  grid,       \* _grid of RosMapReachability: its free cells and revision
  revision,   \* _revision
  robot,      \* the robot's cell, as TF tells
  mission,    \* the board's mission
  known,      \* _mission_id of the authority
  attempted,  \* _attempted
  pc,         \* where observe is
  poi,        \* the selection
  report,     \* the map and revision go_to_point evaluates, and its answer
  answer,     \* reason code of the last observe
  canceled,   \* number of calls canceled
  tried       \* history: the points selected in this mission

vars == <<grid, revision, robot, mission, known, attempted, pc, poi, report, answer,
          canceled, tried>>

map == <<grid, revision>>
search == <<mission, known, attempted, tried>>

(* The reachable cells by the code and by the definition, in a table.      *)
Footprints == {SelectionFootprint, MotionFootprint}

Reach ==
  {[free |-> free, start |-> start, radius |-> radius,
    distance |-> ReachableCells(free, start, radius),
    component |-> ComponentFrom(free, start, radius)] :
      free \in Maps, start \in Cells, radius \in Footprints}
ReachOn(free, start, radius) ==
  CHOOSE r \in Reach : r.start = start /\ r.radius = radius /\ r.free = free

NoReport == [free |-> {}, revision |-> 0, cell |-> NoCell]

Init ==
  /\ \E free \in Maps : grid = [free |-> free, revision |-> 1]
  /\ revision = 1
  /\ robot \in grid.free
  /\ mission = 1
  /\ known = 0
  /\ attempted = {}
  /\ pc = "idle"
  /\ poi = NoCell
  /\ report = NoReport
  /\ answer = "none"
  /\ canceled = 0
  /\ tried = {}
-----------------------------------------------------------------------------
(* _map_callback: the revision is counted before the grid is replaced.     *)
CountRevision ==
  /\ grid.revision = revision
  /\ revision < MaxRevision
  /\ revision' = revision + 1
  /\ UNCHANGED <<grid, robot, search, pc, poi, report, answer, canceled>>

ReplaceGrid ==
  /\ grid.revision # revision
  /\ \E free \in Maps \ {grid.free} : grid' = [free |-> free, revision |-> revision]
  /\ UNCHANGED <<revision, robot, search, pc, poi, report, answer, canceled>>

NextMission ==
  /\ pc = "idle"
  /\ mission < MaxMissions
  /\ mission' = mission + 1
  /\ tried' = {}
  /\ answer' = "none"
  /\ UNCHANGED <<map, robot, known, attempted, pc, poi, report, canceled>>

(* Mutant of Attempted: the points of the last mission are kept.           *)
AttemptedEver == attempted

(* observe forgets the points of another mission.                          *)
Attempted == IF mission = known THEN attempted ELSE {}

IsSampleCell(c) == c[1] % Spacing = 0 /\ c[2] % Spacing = 0

Candidates(distance) ==
  LET open == {c \in DOMAIN distance : c \notin Attempted /\ distance[c] >= MinProgress}
      samples == {c \in open : IsSampleCell(c)}
  IN IF samples # {} THEN samples ELSE open

Farthest(S, distance) == FirstBy(S, LAMBDA c : <<-distance[c], c[2], c[1]>>)

(* PoiGridPlanner.select on a snapshot of map and pose; a point may be too *)
(* close to an obstacle for the evaluation that follows.                   *)
Select(free) ==
  LET distance == ReachOn(free, robot, SelectionFootprint).distance
      candidates == Candidates(distance)
  IN IF distance = <<>> THEN [cell |-> NoCell, reason |-> "poi_no_reachable_goal"]
     ELSE IF candidates = {} THEN [cell |-> NoCell, reason |-> "poi_exhausted"]
     ELSE [cell |-> Farthest(candidates, distance), reason |-> "poi_goal_selected"]

Observe ==
  /\ pc = "idle"
  /\ known' = mission
  /\ attempted' = Attempted
  /\ LET selection == Select(grid.free) IN
       IF selection.cell = NoCell
       THEN /\ answer' = selection.reason
            /\ UNCHANGED <<pc, poi, tried>>
       ELSE /\ poi' = selection.cell
            /\ pc' = "selected"
            /\ tried' = tried \cup {selection.cell}
            /\ UNCHANGED answer
  /\ UNCHANGED <<map, robot, mission, report, canceled>>

(* The map is missing or stale, or there is no pose.                       *)
ObserveBlind ==
  /\ pc = "idle"
  /\ known' = mission
  /\ attempted' = Attempted
  /\ answer' = "poi_grid_unavailable"
  /\ UNCHANGED <<map, robot, mission, pc, poi, report, canceled, tried>>

(* evaluate_point takes another snapshot, and compares its revision with   *)
(* the current one when it has evaluated it.                               *)
TakeSnapshot ==
  /\ pc = "selected"
  /\ report' = [free |-> grid.free, revision |-> grid.revision,
                cell |-> Evaluate(ReachOn(grid.free, robot, MotionFootprint).distance,
                                  grid.free, poi, "reject", MotionFootprint)]
  /\ pc' = "evaluated"
  /\ UNCHANGED <<map, robot, search, poi, answer, canceled>>

(* Mutant of Unchanged: the check after the evaluation is all there is.    *)
UnchangedAlready == pc = "checked" \/ revision = report.revision

Unchanged == revision = report.revision

CheckReport ==
  /\ pc = "evaluated"
  /\ report.cell # NoCell
  /\ Unchanged
  /\ pc' = "checked"
  /\ UNCHANGED <<map, robot, search, poi, report, answer, canceled>>

(* go_to_point compares the revisions again and sends the goal (the map    *)
(* may change between the two).                                            *)
SendGoal ==
  /\ pc = "checked"
  /\ Unchanged
  /\ pc' = "sent"
  /\ UNCHANGED <<map, robot, search, poi, report, answer, canceled>>

(* Mutant of Failed: a point that failed is not kept as attempted.         *)
FailedFreely ==
  /\ pc' = "idle"
  /\ answer' = "failed"
  /\ poi' = NoCell
  /\ report' = NoReport
  /\ UNCHANGED <<map, mission, known, tried, canceled, attempted>>

Failed ==
  /\ pc' = "idle"
  /\ answer' = "failed"
  /\ attempted' = attempted \cup {poi}
  /\ poi' = NoCell
  /\ report' = NoReport
  /\ UNCHANGED <<map, mission, known, tried, canceled>>

(* No goal is sent: no map or pose, out of reach, or another revision.     *)
Refuse ==
  /\ \/ pc = "selected"
     \/ pc = "evaluated" /\ (report.cell = NoCell \/ ~Unchanged)
     \/ pc = "checked" /\ ~Unchanged
  /\ Failed
  /\ UNCHANGED robot

(* Nav2 fails somewhere on the way.                                        *)
NavigationFails ==
  /\ pc = "sent"
  /\ Failed
  /\ robot' \in report.free

NavigationSucceeds ==
  /\ pc = "sent"
  /\ pc' = "idle"
  /\ answer' = "poi_goal_succeeded"
  /\ attempted' = attempted \cup {poi}
  /\ robot' = poi
  /\ poi' = NoCell
  /\ report' = NoReport
  /\ UNCHANGED <<map, mission, known, tried, canceled>>

(* A goal that was canceled may be selected again.                         *)
NavigationCanceled ==
  /\ pc = "sent"
  /\ canceled < MaxCanceled
  /\ canceled' = canceled + 1
  /\ pc' = "idle"
  /\ answer' = "motion_canceled"
  /\ robot' \in report.free
  /\ poi' = NoCell
  /\ report' = NoReport
  /\ UNCHANGED <<map, search>>

Return == Refuse \/ NavigationFails \/ NavigationSucceeds \/ NavigationCanceled

Next ==
  \/ CountRevision \/ ReplaceGrid \/ NextMission
  \/ Observe \/ ObserveBlind \/ TakeSnapshot \/ CheckReport \/ SendGoal
  \/ Return

Spec == Init /\ [][Next]_vars

(* The commander goes on observing, map and pose are there time and again, *)
(* and calls come back: motion calls have timeouts, see Nav2Motion.        *)
FairSpec ==
  /\ Spec
  /\ SF_vars(Observe)
  /\ WF_vars(TakeSnapshot) /\ WF_vars(CheckReport) /\ WF_vars(SendGoal) /\ WF_vars(Return)
-----------------------------------------------------------------------------
TypeOK ==
  /\ grid \in [free : Maps, revision : 1..MaxRevision]
  /\ revision \in 1..MaxRevision
  /\ robot \in Cells
  /\ mission \in 1..MaxMissions
  /\ known \in 0..mission
  /\ attempted \subseteq Cells
  /\ pc \in {"idle", "selected", "evaluated", "checked", "sent"}
  /\ poi \in Cells \cup {NoCell}
  /\ report.cell \in Cells \cup {NoCell}
  /\ canceled \in 0..MaxCanceled
  /\ tried \subseteq Cells

(* From wherever the robot is on whatever map, with either footprint, the  *)
(* flood fill reaches the cells that steps along the axes lead to and no   *)
(* others: the rule for corners keeps its diagonal moves from crossing     *)
(* between the parts of a map.  Every variable keeps its type.             *)
FillIsComponent ==
  /\ TypeOK
  /\ \A radius \in Footprints :
       LET r == ReachOn(grid.free, robot, radius) IN DOMAIN r.distance = r.component

(* A point is sent to Nav2 only if the robot, with its own footprint, can  *)
(* reach it on the map there is when the revisions are compared for the    *)
(* last time: what was selected or evaluated on an earlier map, while the  *)
(* map was being replaced, or with the selection's footprint, does not     *)
(* count.                                                                  *)
GoalsMatchMap ==
  [][pc = "checked" /\ pc' = "sent" =>
       poi \in ReachOn(grid.free, robot, MotionFootprint).component]_vars

(* The cells a search has to have been to before it is exhausted: all that *)
(* the selection reaches, but for those too close, and with them all that  *)
(* the robot itself reaches, if it stands where its footprint is safe.     *)
FarEnough(cells, distance) == {c \in cells : distance[c] >= MinProgress}
MustBeTried ==
  LET distance == ReachOn(grid.free, robot, SelectionFootprint).distance
  IN FarEnough(DOMAIN distance, distance)
       \cup IF robot \in SafeCells(grid.free, MotionFootprint)
            THEN FarEnough(ReachOn(grid.free, robot, MotionFootprint).component, distance)
            ELSE {}

(* Exhaustion is reported only when all these cells were selected in this  *)
(* very mission, although points are selected with one footprint and       *)
(* evaluated with another.                                                 *)
ExhaustionIsHonest ==
  [][answer # "poi_exhausted" /\ answer' = "poi_exhausted" => MustBeTried \subseteq tried]_vars

(* A mission that goes on observing comes to the end of its search,        *)
(* whatever fails: no point is selected for ever.                          *)
SearchEnds == <>(answer \in {"poi_exhausted", "poi_no_reachable_goal"})
=============================================================================
