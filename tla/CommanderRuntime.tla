--------------------------- MODULE CommanderRuntime ---------------------------
(***************************************************************************)
(* CommanderRuntime.run: the loop that asks the planner, selects the       *)
(* skill, calls the tool and commits to the executive, with the thread     *)
(* that requests a cancellation and the one that reports the recorder.     *)
(*                                                                         *)
(* The planner is a language model: it may answer anything parse_decision  *)
(* accepts, and every answer it refuses, with every transport timeout, is  *)
(* a PlannerFailure.                                                       *)
(***************************************************************************)
EXTENDS ToolBackend

CONSTANTS
  RecorderStates, NoRecorder, ScenarioPolicy, MaxMissions, MaxRevision,
  FailureLimit,     \* consecutive_failure_limit
  NoProgressLimit   \* no_progress_limit

ASSUME LimitAssumption == FailureLimit \in Nat \ {0} /\ NoProgressLimit \in Nat \ {0}

VARIABLES
  board, emitted,   \* the executive
  pc,               \* where run() is
  decision,         \* its local variables
  result,
  cancel,           \* has a cancellation been requested?
  exhausted         \* history: did the last tool result recorded report that
                    \* every POI was visited?

vars == <<board, emitted, snapshot, pc, decision, result, cancel, exhausted>>

ReasonCodes == {"poi_exhausted", "search_exhausted", "other"}

(* record_tool_result's arguments when a tool raised: the revision is the  *)
(* one the planner put into its call.                                      *)
ExceptionResult(call) == [Failure(call) EXCEPT !.registry_revision = call.revision]

Results ==
  LET of(call) ==
        CASE call.tool = "query_registry" -> {QueryResult(call, a) : a \in Answers}
          [] call.tool = "inspect_candidates" ->
               {Failure(call)} \cup
               IF call.revision = None \/ call.ids = {} THEN {}
               ELSE {InspectResult(call, p) : p \in SUBSET call.ids}
          [] OTHER -> MotionResults(call)
  IN UNION {of(call) \cup {ExceptionResult(call)} : call \in Calls}

Executive == INSTANCE MissionExecutive WITH ToolResults <- Results, Poses <- {}

(* What the executive's theorems assume of its constants; a revision is a  *)
(* digest of the candidates it lists.                                      *)
ASSUME NoneAssumption ==
  None \notin Candidates \cup Revisions \cup Executive!SkillName \cup Executive!ToolName
             \cup Executive!CompletionPolicy \cup ReasonCodes
ASSUME CandidateAssumption == IsFiniteSet(Candidates)
ASSUME ContentAssumption == Content \in [Revisions -> SUBSET Candidates]
ASSUME PolicyAssumption == ScenarioPolicy \in Executive!CompletionPolicy \cup {None}
ASSUME RecorderAssumption == NoRecorder \in RecorderStates
ASSUME BoundAssumption == MaxMissions \in Nat /\ MaxRevision \in Nat

SkillTools == Executive!SkillTools
Terminal == Executive!Terminal

(* A CommanderDecision holds a tool call or a completion proposal or, when *)
(* the planner names neither, nothing.                                     *)
Decision(skill, tool, proposal) == [skill |-> skill, tool |-> tool, proposal |-> proposal]
Proposals == Executive!CompletionPolicy \cup {"unsupported"}
Decisions ==
  {Decision(s, None, p) : s \in Executive!SkillName, p \in Proposals \cup {None}}
  \cup {Decision(s, call, None) : s \in Executive!SkillName, call \in Calls}

(* parse_decision refuses the others.                                      *)
Acceptable(d) ==
  /\ board.active_skill \notin {None, d.skill} =>
       d.skill = "approach_confirmed_object" /\ Executive!ConfirmationCurrent
  /\ d.tool # None => d.tool.tool \in SkillTools[d.skill]

(* The bound on the board revision stops the loop, and the recorder, only  *)
(* where a turn starts: a turn and its end commit four times at most.      *)
TurnCommits == 4
RoomForTurn == board.board_revision + TurnCommits <= MaxRevision
RoomForReport == board.board_revision + TurnCommits < MaxRevision

Local == <<decision, result>>
Forget == decision' = None /\ result' = None
-----------------------------------------------------------------------------
Init ==
  /\ Executive!Init
  /\ snapshot = Unchecked
  /\ pc = "idle"
  /\ decision = None
  /\ result = None
  /\ cancel = FALSE
  /\ exhausted = FALSE

Accept ==
  /\ pc = "idle"
  /\ \E policy \in Executive!CompletionPolicy : Executive!Accept(policy)
  /\ pc' = "accepted"
  /\ cancel' = FALSE
  /\ exhausted' = FALSE
  /\ UNCHANGED <<Local, snapshot>>

ConfigureLimits ==
  /\ pc = "accepted"
  /\ Executive!ConfigureLimits
  /\ pc' = "configured"
  /\ UNCHANGED <<Local, snapshot, cancel, exhausted>>

Start ==
  /\ pc = "configured"
  /\ Executive!Start
  /\ pc' = "head"
  /\ UNCHANGED <<Local, snapshot, cancel, exhausted>>

(* Mutant of CancelAtHead: the loop is left and the mission left running.  *)
LeaveAtHead ==
  /\ pc = "head"
  /\ cancel
  /\ pc' = "idle"
  /\ UNCHANGED <<board, emitted, Local, snapshot, cancel, exhausted>>

CancelAtHead ==
  /\ pc = "head"
  /\ cancel
  /\ Executive!Cancel
  /\ pc' = "idle"
  /\ UNCHANGED <<Local, snapshot, cancel, exhausted>>

AskPlanner ==
  /\ pc = "head"
  /\ ~cancel
  /\ RoomForTurn
  /\ pc' = "deciding"
  /\ UNCHANGED <<board, emitted, Local, snapshot, cancel, exhausted>>

PlannerFails ==
  /\ pc = "deciding"
  /\ Executive!RecordPlannerFailure("other")
  /\ pc' = "limits"
  /\ UNCHANGED <<Local, snapshot, cancel, exhausted>>

PlannerDecides ==
  /\ pc = "deciding"
  /\ \E d \in Decisions :
       /\ Acceptable(d)
       /\ decision' = d
       /\ pc' = IF board.active_skill = d.skill THEN "act" ELSE "select"
  /\ UNCHANGED <<board, emitted, result, snapshot, cancel, exhausted>>

SelectSkill ==
  /\ pc = "select"
  /\ Executive!SelectSkill(decision.skill)
  /\ pc' = "act"
  /\ UNCHANGED <<Local, snapshot, cancel, exhausted>>

(* select_skill stands outside of every try: its ContractError leaves run. *)
SelectRaises ==
  /\ pc = "select"
  /\ ~Executive!SkillAllowed(decision.skill)
  /\ pc' = "raised"
  /\ Forget
  /\ UNCHANGED <<board, emitted, snapshot, cancel, exhausted>>

ProposalAccepted ==
  /\ decision.proposal = board.completion_policy
  /\ Executive!CompletionAllowed(None, TRUE, TRUE)

(* _apply_completion states that the approach was completed, or the search *)
(* exhausted, whenever the planner proposes so.                            *)
ApplyCompletion ==
  /\ pc = "act"
  /\ decision.tool = None
  /\ ProposalAccepted
  /\ Executive!Complete(None, TRUE, TRUE,
       IF board.completion_policy = "search_until_exhausted" THEN "search_exhausted" ELSE None)
  /\ pc' = "limits"
  /\ Forget
  /\ UNCHANGED <<snapshot, cancel, exhausted>>

RefuseCompletion ==
  /\ pc = "act"
  /\ decision.tool = None
  /\ ~ProposalAccepted
  /\ Executive!RecordPlannerFailure("other")
  /\ pc' = "limits"
  /\ Forget
  /\ UNCHANGED <<snapshot, cancel, exhausted>>

RequestTool ==
  /\ pc = "act"
  /\ decision.tool # None
  /\ Executive!RecordToolRequest(decision.tool.tool)
  /\ exhausted' = FALSE
  /\ pc' = "dispatch"
  /\ UNCHANGED <<Local, snapshot, cancel>>

Dispatch ==
  /\ pc = "dispatch"
  /\ pc' = IF DispatchAllowed(decision.tool, board) THEN "calling" ELSE "excepted"
  /\ UNCHANGED <<board, emitted, Local, snapshot, cancel, exhausted>>

ToolReturns ==
  /\ pc = "calling"
  /\ \/ QueryRegistry(decision.tool, result')
     \/ InspectCandidates(decision.tool, result')
     \/ Move(decision.tool, board, result')
     \/ RefuseMove(decision.tool, board, result')
  /\ pc' = "returned"
  /\ UNCHANGED <<board, emitted, decision, cancel, exhausted>>

ToolRaises ==
  /\ pc = "calling"
  /\ pc' = "excepted"
  /\ UNCHANGED <<board, emitted, Local, snapshot, cancel, exhausted>>

(* After an ordinary result the loop goes on without looking at limits.    *)
RecordResult ==
  /\ pc = "returned"
  /\ Executive!RecordToolResult(result)
  /\ pc' = "head"
  /\ Forget
  /\ exhausted' = (result.reason_code = "poi_exhausted")
  /\ UNCHANGED <<snapshot, cancel>>

RecordException ==
  /\ pc = "excepted"
  /\ Executive!RecordToolResult(ExceptionResult(decision.tool))
  /\ pc' = "limits"
  /\ Forget
  /\ UNCHANGED <<snapshot, cancel, exhausted>>

(* _limit_reached.                                                         *)
OverLimit ==
  \/ board.consecutive_failures >= FailureLimit
  \/ board.no_progress_count >= NoProgressLimit

LimitReached ==
  /\ pc = "limits"
  /\ board.lifecycle_state \notin Terminal
  /\ OverLimit
  /\ Executive!Fail("other")
  /\ pc' = "idle"
  /\ UNCHANGED <<Local, snapshot, cancel, exhausted>>

LimitNotReached ==
  /\ pc = "limits"
  /\ board.lifecycle_state \notin Terminal => ~OverLimit
  /\ pc' = IF board.lifecycle_state \in Terminal THEN "idle" ELSE "head"
  /\ UNCHANGED <<board, emitted, Local, snapshot, cancel, exhausted>>

(* Mutant of HandleException: the exception only ends the callback.        *)
IgnoreException ==
  /\ pc = "raised"
  /\ pc' = "idle"
  /\ UNCHANGED <<board, emitted, Local, snapshot, cancel, exhausted>>

(* The handler of the action server that called run.                       *)
HandleException ==
  /\ pc = "raised"
  /\ Executive!Fail("other")
  /\ pc' = "idle"
  /\ UNCHANGED <<Local, snapshot, cancel, exhausted>>

RunThread ==
  \/ ConfigureLimits \/ Start \/ CancelAtHead \/ AskPlanner
  \/ PlannerFails \/ PlannerDecides \/ SelectSkill \/ SelectRaises
  \/ ApplyCompletion \/ RefuseCompletion \/ RequestTool \/ Dispatch
  \/ ToolReturns \/ ToolRaises \/ RecordResult \/ RecordException
  \/ LimitReached \/ LimitNotReached \/ HandleException

RequestCancel ==
  /\ pc # "idle"
  /\ ~cancel
  /\ cancel' = TRUE
  /\ UNCHANGED <<board, emitted, pc, Local, snapshot, exhausted>>

RecorderReports ==
  /\ RoomForReport
  /\ \E s \in RecorderStates : Executive!RecordRecorderStatus(s, "other")
  /\ UNCHANGED <<pc, Local, snapshot, cancel, exhausted>>

Next == Accept \/ RunThread \/ RequestCancel \/ RecorderReports

Spec == Init /\ [][Next]_vars

(* run() is a thread that always goes on: the planner's transport and the  *)
(* authorities wait with timeouts, so they too answer or raise.            *)
FairSpec == Spec /\ WF_vars(RunThread)
-----------------------------------------------------------------------------
PC == {"idle", "accepted", "configured", "head", "deciding", "select", "act",
       "dispatch", "calling", "returned", "excepted", "limits", "raised"}

TypeOK ==
  /\ Executive!TypeOK
  /\ snapshot \in Snapshot
  /\ pc \in PC
  /\ decision \in Decisions \cup {None}
  /\ result \in Results \cup {None}
  /\ cancel \in BOOLEAN
  /\ exhausted \in BOOLEAN

(* run() leaves no mission behind that is still accepted or running, on    *)
(* whichever of its ways out.                                              *)
RunEndsTerminal == pc = "idle" => ~Executive!Unfinished

(* During an approach the backend's cached snapshot is the revision the    *)
(* target was confirmed at and still lists the target, so the position the *)
(* robot is sent to is the one the evidence was about.                     *)
ApproachMatchesSnapshot ==
  board.active_skill = "approach_confirmed_object" /\ board.lifecycle_state = "running" =>
    /\ snapshot.checked
    /\ snapshot.revision = board.registry_revision
    /\ board.confirmed_target_id \in snapshot.candidates

(* Executive and backend agree: nothing the backend returns is refused by  *)
(* record_tool_result, whose ContractError would be taken for an exception *)
(* of the tool.                                                            *)
ResultsAreAdmissible ==
  pc = "returned" =>
    /\ Executive!ResultInScope(result)
    /\ result.tool = "inspect_candidates" /\ ~Executive!InspectionStale(result) =>
         /\ result.candidate_ids \subseteq board.shortlisted_candidate_ids
         /\ result.confirmed_target_id # None => Executive!ConfirmationBacked(result)

(* What the executive decides on and what the backend acts on agree, when  *)
(* a result is recorded and when the robot is sent somewhere; both keep    *)
(* their types.                                                            *)
BackendAgrees == TypeOK /\ ApproachMatchesSnapshot /\ ResultsAreAdmissible

(* An exhaustive search succeeds only when the tool called last was an     *)
(* observation, and it found that every POI had been visited.              *)
ExhaustionWasObserved ==
  board.lifecycle_state = "succeeded" /\ board.completion_policy = "search_until_exhausted"
    => exhausted

(* A requested cancellation ends the mission.                              *)
CancelEndsMission == cancel ~> ~Executive!Unfinished
=============================================================================
