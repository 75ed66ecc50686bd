----------------------------- MODULE Reachability -----------------------------
(***************************************************************************)
(* ReachabilityPlanner: which cells of an occupancy grid the robot can     *)
(* reach.  A grid is the set of its known-free cells; a pose is its cell.  *)
(* Distances are in hundredths of a cell, with 141 for a diagonal.  Each   *)
(* planner has a footprint of its own: its radius in cells is an argument. *)
(***************************************************************************)
EXTENDS Integers, Sequences, FiniteSets

CONSTANTS
  Width, Height,   \* of the grid
  SnapRadius       \* snap_radius_cells

ASSUME GridAssumption ==
  Width \in Nat \ {0} /\ Height \in Nat \ {0} /\ SnapRadius \in Nat

Cells == {<<x, y>> : x \in 0..Width - 1, y \in 0..Height - 1}
NoCell == <<-1, -1>>

Abs(i) == IF i < 0 THEN -i ELSE i
Plus(c, move) == <<c[1] + move[1], c[2] + move[2]>>

(* The member of S that comes first by its key, a tuple of integers.       *)
Before(k, l) == \E i \in DOMAIN k : k[i] < l[i] /\ \A j \in 1..i - 1 : k[j] = l[j]
FirstBy(S, Key(_)) == CHOOSE c \in S : \A d \in S \ {c} : Before(Key(c), Key(d))

(* _footprint_safe of every free cell: cells off the grid are not free.    *)
FootprintOf(c, radius) ==
  {Plus(c, d) : d \in {e \in (-radius..radius) \X (-radius..radius) :
                         e[1] * e[1] + e[2] * e[2] <= radius * radius}}
SafeCells(free, radius) == {c \in free : FootprintOf(c, radius) \subseteq free}

Moves == <<<<-1, 0>>, <<1, 0>>, <<0, -1>>, <<0, 1>>, <<-1, -1>>, <<-1, 1>>, <<1, -1>>, <<1, 1>>>>
IsDiagonal(move) == move[1] # 0 /\ move[2] # 0
Cost(move) == IF IsDiagonal(move) THEN 141 ELSE 100

(* Mutant of MoveAllowed: without the rule for corners.                    *)
MoveCutsCorners(c, move, safe) == Plus(c, move) \in safe

(* No move cuts a corner.                                                  *)
MoveAllowed(c, move, safe) ==
  /\ Plus(c, move) \in safe
  /\ IsDiagonal(move) => <<c[1] + move[1], c[2]>> \in safe /\ <<c[1], c[2] + move[2]>> \in safe

(* Moves looked at one after the other from cell c: a cell that is new is  *)
(* given its distance and enters the queue.                                *)
Look(fill, c, move, safe) ==
  IF MoveAllowed(c, move, safe) /\ Plus(c, move) \notin DOMAIN fill.distance
  THEN [distance |-> [d \in DOMAIN fill.distance \cup {Plus(c, move)} |->
                        IF d = Plus(c, move) THEN fill.distance[c] + Cost(move)
                        ELSE fill.distance[d]],
        queue |-> Append(fill.queue, Plus(c, move))]
  ELSE fill

Visit(fill, safe) ==
  LET c == Head(fill.queue)
      look[i \in 0..Len(Moves)] ==
        IF i = 0 THEN [fill EXCEPT !.queue = Tail(@)]
        ELSE Look(look[i - 1], c, Moves[i], safe)
  IN look[Len(Moves)]

(* _flood_fill: the distances of the cells reached from start, in the      *)
(* order of a queue; each safe cell is at its head at most once.           *)
FloodFill(start, safe) ==
  LET fill[n \in 0..Cardinality(safe)] ==
        IF n = 0 THEN [distance |-> [c \in {start} |-> 0], queue |-> <<start>>]
        ELSE LET last == fill[n - 1] IN IF last.queue = <<>> THEN last ELSE Visit(last, safe)
  IN fill[Cardinality(safe)].distance

(* _nearest_safe: the start cell, or a safe one within the snap radius.    *)
NearestSafe(start, safe) ==
  LET near == {c \in safe : Abs(c[1] - start[1]) <= SnapRadius /\ Abs(c[2] - start[2]) <= SnapRadius}
  IN IF start \in safe THEN start
     ELSE IF near = {} THEN NoCell
     ELSE FirstBy(near, LAMBDA c : <<Abs(c[1] - start[1]) + Abs(c[2] - start[2]), c[2], c[1]>>)

(* reachable_cells: empty if there is no safe cell to start from.          *)
ReachableCells(free, start, radius) ==
  LET safe == SafeCells(free, radius)
      from == NearestSafe(start, safe)
  IN IF from = NoCell THEN <<>> ELSE FloodFill(from, safe)

(* evaluate on what reachable_cells returns: the cell selected, or NoCell  *)
(* for a report that is not "reachable".                                   *)
Projection(distance, goal) ==
  FirstBy(DOMAIN distance,
    LAMBDA c : <<(c[1] - goal[1]) * (c[1] - goal[1]) + (c[2] - goal[2]) * (c[2] - goal[2]),
                 distance[c], c[2], c[1]>>)

Evaluate(distance, free, goal, policy, radius) ==
  IF distance = <<>> THEN NoCell
  ELSE IF goal \in SafeCells(free, radius) THEN (IF goal \in DOMAIN distance THEN goal ELSE NoCell)
  ELSE IF policy = "allow" THEN Projection(distance, goal)
  ELSE NoCell
-----------------------------------------------------------------------------
(* What the fill is for: the cells of safe that steps along the axes lead  *)
(* to.  The diagonal moves of the fill make ways shorter and reach no more *)
(* cells.                                                                  *)
Component(start, safe) ==
  LET Beside(c, d) == Abs(c[1] - d[1]) + Abs(c[2] - d[2]) = 1
      reach[n \in 0..Cardinality(safe)] ==
        IF n = 0 THEN {start}
        ELSE LET last == reach[n - 1] IN last \cup {c \in safe : \E d \in last : Beside(c, d)}
  IN reach[Cardinality(safe)]

ComponentFrom(free, start, radius) ==
  LET safe == SafeCells(free, radius)
      from == NearestSafe(start, safe)
  IN IF from = NoCell THEN {} ELSE Component(from, safe)
=============================================================================
