----------------------------- MODULE MissionNode -----------------------------
(***************************************************************************)
(* MissionExecutiveNode: the threads of its executor that share one        *)
(* executive.  Goal, cancel and execute callbacks run in a reentrant group,*)
(* the recorder's status in another; _mission_lock guards the single       *)
(* mission slot, nothing guards the board.                                 *)
(*                                                                         *)
(* A commit is self._board = self._board.evolve(...): it reads the board,  *)
(* and another thread may run before it writes.  The decisions of a        *)
(* mission are abstracted to commits that keep it running ("running") and  *)
(* one that ends it.                                                       *)
(***************************************************************************)
EXTENDS Naturals, FiniteSets

CONSTANTS
  Goals,         \* mission requests
  Stops,         \* natural-language stop requests
  None,
  MaxCommits,    \* bound on the commits that keep a mission running
  MaxStatus      \* bound on recorder status messages; 0: no recorder

(* _goal_handle is None, False or a handle: no two of these are equal.     *)
ASSUME NoneAssumption ==
  /\ {None, "reserved", "recorder", "new"} \cap Goals = {}
  /\ None \notin {"reserved", "recorder", "new"}
ASSUME BoundAssumption == MaxCommits \in Nat /\ MaxStatus \in Nat

Terminal == {"succeeded", "canceled", "failed"}
Unfinished == {"accepted", "running"}

VARIABLES
  board,        \* of the executive: its mission, lifecycle and revision
  counter,      \* _mission_counter
  configured,   \* have a commander and a dispatcher been injected?
  slot,         \* _goal_handle: None, "reserved" for False, or a goal
  runtime,      \* the goal of _active_runtime
  pc,           \* where the callback of each goal is
  commits,      \* commits of each goal so far that kept it running
  pending,      \* a thread's commit between its read and its write
  canceled,     \* goals whose action client asked to cancel
  stopped,      \* goals whose runtime had request_cancel called
  mission,      \* the mission accepted for each goal
  outcome,      \* what the action result of a goal reported
  status,       \* the recorder status being handled, by its mission
  statuses,     \* how many there were
  seen          \* what each stop request found in _active_runtime

vars == <<board, counter, configured, slot, runtime, pc, commits, pending,
          canceled, stopped, mission, outcome, status, statuses, seen>>

Threads == Goals \cup {"recorder"}
NoCommit == [read |-> FALSE, base |-> None, to |-> None]
Live(g) == pc[g] \notin {"new", "rejected", "done"}

Requests == <<canceled, stopped, seen>>
Recorder == <<status, statuses>>
-----------------------------------------------------------------------------
Init ==
  /\ board = [mission |-> 0, state |-> "idle", revision |-> 0]
  /\ counter = 0
  /\ configured = FALSE
  /\ slot = None
  /\ runtime = None
  /\ pc = [g \in Goals |-> "new"]
  /\ commits = [g \in Goals |-> 0]
  /\ pending = [t \in Threads |-> NoCommit]
  /\ canceled = {}
  /\ stopped = {}
  /\ mission = [g \in Goals |-> 0]
  /\ outcome = [g \in Goals |-> None]
  /\ status = None
  /\ statuses = 0
  /\ seen = [s \in Stops |-> "new"]

(* The read of a commit: what the thread saw, and the lifecycle it will    *)
(* write on top of it.                                                     *)
Read(t, to) == pending' = [pending EXCEPT ![t] = [read |-> TRUE, base |-> board, to |-> to]]

Write(t) ==
  /\ pending[t].read
  /\ board' = [pending[t].base EXCEPT !.state = pending[t].to, !.revision = @ + 1]
  /\ pending' = [pending EXCEPT ![t] = NoCommit]

ConfigureDependencies ==
  /\ ~configured
  /\ slot = None
  /\ board.state \notin Unfinished
  /\ configured' = TRUE
  /\ UNCHANGED <<board, counter, slot, runtime, pc, commits, pending, mission, outcome,
                 Requests, Recorder>>

(* Mutant of SlotAvailable: the board alone decides.                       *)
BoardAvailable == board.state \notin Unfinished

(* _goal_callback: under _mission_lock the slot is tested and reserved.    *)
SlotAvailable == slot = None /\ board.state \notin Unfinished

GoalCallback(g) ==
  /\ pc[g] = "new"
  /\ \/ /\ SlotAvailable
        /\ slot' = "reserved"
        /\ pc' = [pc EXCEPT ![g] = "execute"]
     \/ /\ ~SlotAvailable
        /\ pc' = [pc EXCEPT ![g] = "rejected"]
        /\ UNCHANGED slot
  /\ UNCHANGED <<board, counter, configured, runtime, commits, pending, mission, outcome,
                 Requests, Recorder>>

BeginExecute(g) ==
  /\ pc[g] = "execute"
  /\ slot' = g
  /\ pc' = [pc EXCEPT ![g] = IF configured THEN "install" ELSE "accept"]
  /\ UNCHANGED <<board, counter, configured, runtime, commits, pending, mission, outcome,
                 Requests, Recorder>>

InstallRuntime(g) ==
  /\ pc[g] = "install"
  /\ runtime' = g
  /\ pc' = [pc EXCEPT ![g] = "accept"]
  /\ UNCHANGED <<board, counter, configured, slot, commits, pending, mission, outcome,
                 Requests, Recorder>>

(* MissionExecutive.accept; a board that is not finished raises.           *)
Accept(g) ==
  /\ pc[g] = "accept"
  /\ IF board.state \in Unfinished
     THEN /\ pc' = [pc EXCEPT ![g] = "handler"]
          /\ UNCHANGED <<board, counter, mission>>
     ELSE /\ counter' = counter + 1
          /\ board' = [mission |-> counter + 1, state |-> "accepted", revision |-> 1]
          /\ mission' = [mission EXCEPT ![g] = counter + 1]
          /\ pc' = [pc EXCEPT ![g] = "start"]
  /\ UNCHANGED <<configured, slot, runtime, commits, pending, outcome, Requests, Recorder>>

(* start and the commits of the loop require their lifecycle, or raise.    *)
BeginCommit(g, from, to, next) ==
  /\ ~pending[g].read
  /\ IF board.state = from
     THEN Read(g, to) /\ pc' = [pc EXCEPT ![g] = next]
     ELSE pc' = [pc EXCEPT ![g] = "handler"] /\ UNCHANGED pending
  /\ UNCHANGED <<board, counter, configured, slot, runtime, mission, outcome,
                 Requests, Recorder>>

Start(g) ==
  /\ pc[g] = "start"
  /\ BeginCommit(g, "accepted", "running", "head")
  /\ UNCHANGED commits

CancelRequested(g) == g \in canceled \cup stopped

(* The head of the loop: a terminal board leaves it, a cancellation ends   *)
(* the mission.  Without a commander the mission fails at once.            *)
LeaveLoop(g) ==
  /\ pc[g] = "head"
  /\ ~pending[g].read
  /\ board.state \in Terminal
  /\ pc' = [pc EXCEPT ![g] = "finally"]
  /\ UNCHANGED <<board, counter, configured, slot, runtime, commits, pending, mission,
                 outcome, Requests, Recorder>>

CancelMission(g) ==
  /\ pc[g] = "head"
  /\ ~pending[g].read
  /\ runtime = g
  /\ CancelRequested(g)
  /\ board.state \in Unfinished
  /\ Read(g, "canceled")
  /\ pc' = [pc EXCEPT ![g] = "finally"]
  /\ UNCHANGED <<board, counter, configured, slot, runtime, commits, mission, outcome,
                 Requests, Recorder>>

Continue(g) ==
  /\ pc[g] = "head"
  /\ runtime = g
  /\ ~CancelRequested(g)
  /\ board.state \notin Terminal
  /\ \/ /\ commits[g] < MaxCommits
        /\ BeginCommit(g, "running", "running", "head")
        /\ commits' = [commits EXCEPT ![g] = @ + 1]
     \/ /\ BeginCommit(g, "running", "succeeded", "head")
        /\ UNCHANGED commits

(* fail: by a limit, after which the loop is left whatever the board says, *)
(* or for want of a commander.                                             *)
FailMission(g) ==
  /\ pc[g] = "head"
  /\ ~pending[g].read
  /\ runtime = g => ~CancelRequested(g)
  /\ board.state \in Unfinished
  /\ Read(g, "failed")
  /\ pc' = [pc EXCEPT ![g] = "finally"]
  /\ UNCHANGED <<board, counter, configured, slot, runtime, commits, mission, outcome,
                 Requests, Recorder>>

(* Around run: _active_runtime is cleared on both ways out.                *)
ClearRuntime(g) ==
  /\ pc[g] \in {"finally", "handler"}
  /\ ~pending[g].read
  /\ runtime' = None
  /\ pc' = [pc EXCEPT ![g] = IF pc[g] = "handler" THEN "abort" ELSE "report"]
  /\ UNCHANGED <<board, counter, configured, slot, commits, pending, mission, outcome,
                 Requests, Recorder>>

(* A mission still open is canceled, or failed by the exception handler,   *)
(* before the result is made of the board.                                 *)
CloseMission(g) ==
  /\ ~pending[g].read
  /\ board.state \in Unfinished
  /\ \/ pc[g] = "report" /\ g \in canceled /\ Read(g, "canceled")
     \/ pc[g] = "abort" /\ Read(g, "failed")
  /\ UNCHANGED <<board, counter, configured, slot, runtime, pc, commits, mission, outcome,
                 Requests, Recorder>>

(* Mutant of Report: what was not canceled is reported as a success.       *)
ReportSuccess(g) ==
  /\ pc[g] \in {"report", "abort"}
  /\ ~pending[g].read
  /\ outcome' = [outcome EXCEPT ![g] =
       [goal |-> IF g \in canceled THEN "canceled" ELSE "succeeded",
        mission |-> board.mission, state |-> board.state]]
  /\ pc' = [pc EXCEPT ![g] = "release"]
  /\ UNCHANGED <<board, counter, configured, slot, runtime, commits, pending, mission,
                 Requests, Recorder>>

Report(g) ==
  /\ pc[g] \in {"report", "abort"}
  /\ ~pending[g].read
  /\ g \in canceled \/ pc[g] = "abort" => board.state \notin Unfinished
  /\ outcome' = [outcome EXCEPT ![g] =
       [goal |-> IF pc[g] = "abort" THEN "aborted"
                 ELSE IF g \in canceled THEN "canceled"
                 ELSE IF board.state = "succeeded" THEN "succeeded" ELSE "aborted",
        mission |-> board.mission, state |-> board.state]]
  /\ pc' = [pc EXCEPT ![g] = "release"]
  /\ UNCHANGED <<board, counter, configured, slot, runtime, commits, pending, mission,
                 Requests, Recorder>>

(* Mutant of ReleaseSlot: the slot is released on the ordinary way only.   *)
ReleaseUnlessAborted(g) ==
  /\ pc[g] = "release"
  /\ outcome[g].goal # "aborted"
  /\ slot' = None
  /\ pc' = [pc EXCEPT ![g] = "done"]
  /\ UNCHANGED <<board, counter, configured, runtime, commits, pending, mission, outcome,
                 Requests, Recorder>>

ReleaseSlot(g) ==
  /\ pc[g] = "release"
  /\ slot' = None
  /\ pc' = [pc EXCEPT ![g] = "done"]
  /\ UNCHANGED <<board, counter, configured, runtime, commits, pending, mission, outcome,
                 Requests, Recorder>>

WriteBoard(t) ==
  /\ Write(t)
  /\ UNCHANGED <<counter, configured, slot, runtime, pc, commits, mission, outcome,
                 Requests, Recorder>>

ExecuteThread(g) ==
  \/ BeginExecute(g) \/ InstallRuntime(g) \/ Accept(g) \/ Start(g) \/ LeaveLoop(g)
  \/ CancelMission(g) \/ Continue(g) \/ FailMission(g) \/ ClearRuntime(g)
  \/ CloseMission(g) \/ Report(g) \/ ReleaseSlot(g) \/ WriteBoard(g)
-----------------------------------------------------------------------------
(* _cancel_callback, for the goal the action client names.                 *)
CancelCallback(g) ==
  /\ Live(g)
  /\ pc[g] # "release"
  /\ g \notin canceled
  /\ canceled' = canceled \cup {g}
  /\ stopped' = stopped \cup ({runtime} \ {None})
  /\ UNCHANGED <<board, counter, configured, slot, runtime, pc, commits, pending, mission,
                 outcome, seen, Recorder>>

(* A stop request is a goal that _to_action refuses: _goal_callback reads  *)
(* _active_runtime, then calls request_cancel on what it found.            *)
FindRuntime(s) ==
  /\ seen[s] = "new"
  /\ seen' = [seen EXCEPT ![s] = runtime]
  /\ UNCHANGED <<board, counter, configured, slot, runtime, pc, commits, pending, mission,
                 outcome, canceled, stopped, Recorder>>

StopRuntime(s) ==
  /\ seen[s] \in Goals
  /\ stopped' = stopped \cup {seen[s]}
  /\ seen' = [seen EXCEPT ![s] = None]
  /\ UNCHANGED <<board, counter, configured, slot, runtime, pc, commits, pending, mission,
                 outcome, canceled, Recorder>>

(* _recorder_status_callback: the message names the mission it is about;   *)
(* the test of that mission and the commit are steps of their own.         *)
ReceiveStatus ==
  /\ status = None
  /\ ~pending["recorder"].read
  /\ statuses < MaxStatus
  /\ board.mission # 0
  /\ status' = board.mission
  /\ statuses' = statuses + 1
  /\ UNCHANGED <<board, counter, configured, slot, runtime, pc, commits, pending, mission,
                 outcome, Requests>>

RecordStatus ==
  /\ status # None
  /\ Read("recorder", board.state)
  /\ status' = None
  /\ UNCHANGED <<board, counter, configured, slot, runtime, pc, commits, mission,
                 outcome, Requests, statuses>>

Next ==
  \/ ConfigureDependencies
  \/ \E g \in Goals : GoalCallback(g) \/ ExecuteThread(g) \/ CancelCallback(g)
  \/ \E s \in Stops : FindRuntime(s) \/ StopRuntime(s)
  \/ ReceiveStatus
  \/ RecordStatus
  \/ WriteBoard("recorder")

Spec == Init /\ [][Next]_vars

(* Each execute callback has a thread of the executor to itself and goes   *)
(* on; what its runtime waits for is bounded by timeouts.                  *)
FairSpec == Spec /\ \A g \in Goals : WF_vars(ExecuteThread(g))
-----------------------------------------------------------------------------
Board == [mission : Nat, state : {"idle"} \cup Unfinished \cup Terminal, revision : Nat]

TypeOK ==
  /\ board \in Board
  /\ counter \in Nat
  /\ configured \in BOOLEAN
  /\ slot \in Goals \cup {None, "reserved"}
  /\ runtime \in Goals \cup {None}
  /\ pc \in [Goals -> {"new", "rejected", "execute", "install", "accept", "start", "head",
                       "finally", "handler", "report", "abort", "release", "done"}]
  /\ commits \in [Goals -> 0..MaxCommits]
  /\ pending \in [Threads -> [read : BOOLEAN, base : Board \cup {None},
                              to : {"running"} \cup Terminal \cup {None, "accepted", "idle"}]]
  /\ canceled \subseteq Goals
  /\ stopped \subseteq Goals
  /\ mission \in [Goals -> Nat]
  /\ statuses \in 0..MaxStatus
  /\ seen \in [Stops -> Goals \cup {None, "new"}]

(* However callbacks interleave, one goal at most holds the robot, from    *)
(* the acceptance of the goal to the release of its slot.                  *)
OneMissionAtATime ==
  /\ \A g, h \in Goals : Live(g) /\ Live(h) => g = h
  /\ runtime # None => Live(runtime)

(* Three of the properties speak of runs in which the recorder's thread    *)
(* writes no board yet; EndedMissionStaysEnded of MissionNodeClaims shows what it does.  *)
NoRecorderYet == statuses = 0

(* While no goal holds the slot the board is finished, so that the next    *)
(* goal is not turned away for a mission nobody runs.                      *)
FreeSlotMeansFinished == NoRecorderYet /\ slot = None => board.state \notin Unfinished

(* Who holds the slot has the mission, and who has none holds no slot:     *)
(* goals are not let in together and none is kept out for a mission that   *)
(* nobody runs.  Every variable keeps its type.                            *)
SlotIsTheMission == TypeOK /\ OneMissionAtATime /\ FreeSlotMeansFinished

(* The action result reports the mission of its own goal, ended.           *)
ResultIsOwn ==
  NoRecorderYet => \A g \in Goals :
    outcome[g] # None => outcome[g].mission = mission[g] /\ outcome[g].state \in Terminal

(* The status of the action agrees with the board in its result: succeeded *)
(* goals have a board that succeeded, aborted ones one that did not.       *)
StatusAgrees ==
  NoRecorderYet => \A g \in Goals :
    outcome[g] # None =>
      /\ outcome[g].goal = "succeeded" => outcome[g].state = "succeeded"
      /\ outcome[g].goal = "aborted" => outcome[g].state \in {"failed", "canceled"}

(* Result, goal status and board tell the same story of the same mission.  *)
ReportsItsMission == ResultIsOwn /\ StatusAgrees

(* A goal that was asked to stop ends and gives its slot back.             *)
CanceledGoalsEnd == \A g \in Goals : g \in canceled \cup stopped ~> pc[g] = "done"
=============================================================================
