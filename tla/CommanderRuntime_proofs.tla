------------------------ MODULE CommanderRuntime_proofs ------------------------
(***************************************************************************)
(* The commander loop, for any candidates, revisions and limits, whatever  *)
(* the planner answers and whenever cancellations and recorder reports     *)
(* come.  Its steps are calls of the executive, so what is proved of the   *)
(* executive holds of the loop, and what the executive decides on and what *)
(* the backend acts on can be shown to agree.                              *)
(***************************************************************************)
EXTENDS CommanderRuntime, FiniteSetTheorems, TLAPS

Proved == INSTANCE MissionExecutive_proofs WITH ToolResults <- Results, Poses <- {}

-----------------------------------------------------------------------------
(* Tool calls and results have the types the executive takes.              *)
ToolCall ==
  [tool : Executive!ToolName, revision : Revisions \cup {None}, ids : SUBSET Candidates,
   candidate : Candidates \cup {None}, valid : BOOLEAN]

LEMMA CallTyped == Calls \subseteq ToolCall
<1> DEFINE
      Queries == {Call("query_registry", rev, {}, None, v) :
                    rev \in Revisions \cup {None}, v \in BOOLEAN}
      Inspections == {Call("inspect_candidates", rev, ids, None, v) :
                        rev \in Revisions \cup {None}, ids \in SUBSET Candidates, v \in BOOLEAN}
      Observations == {Call("observe", rev, {}, None, TRUE) : rev \in Revisions \cup {None}}
      Rotations == {Call("rotate_to_heading", rev, {}, None, v) :
                      rev \in Revisions \cup {None}, v \in BOOLEAN}
      Approach(rev, c) == Call("go_to_point", rev, {}, c, TRUE)
      Approaches == {Approach(rev, c) :
                       rev \in Revisions \cup {None}, c \in Candidates \cup {None}}
<1>1. Calls = Queries \cup Inspections \cup Observations \cup Rotations \cup Approaches
  BY DEF Calls
<1>2. Queries \subseteq ToolCall /\ Rotations \subseteq ToolCall
  BY DEF Call, ToolCall, Executive!ToolName
<1>3. Inspections \subseteq ToolCall
  BY DEF Call, ToolCall, Executive!ToolName
<1>4. Observations \subseteq ToolCall
  <2>1. \A rev \in Revisions \cup {None} : Call("observe", rev, {}, None, TRUE) \in ToolCall
    BY DEF Call, ToolCall, Executive!ToolName
  <2>2. QED
    BY <2>1, Zenon
<1>5. Approaches \subseteq ToolCall
  <2>1. \A rev \in Revisions \cup {None}, c \in Candidates \cup {None} :
          Approach(rev, c) \in ToolCall
    BY DEF Call, ToolCall, Executive!ToolName
  <2> HIDE DEF Approach
  <2>2. QED
    BY <2>1
<1> HIDE DEF Queries, Inspections, Observations, Rotations, Approaches
<1>6. QED
  BY <1>1, <1>2, <1>3, <1>4, <1>5

LEMMA FailureTyped ==
  ASSUME NEW call \in ToolCall
  PROVE  /\ Failure(call) \in Executive!ToolResult
         /\ ExceptionResult(call) \in Executive!ToolResult
BY DEF ToolCall, Failure, ExceptionResult, Executive!ToolResult, ReasonCodes,
       Executive!Evidence

LEMMA AnswerTyped == Answers \subseteq Snapshot
<1>1. Unchecked \in Snapshot
  BY DEF Unchecked, Snapshot
<1>2. \A rev \in Revisions :
        [revision |-> rev, checked |-> TRUE, candidates |-> Content[rev]] \in Snapshot
  BY ContentAssumption DEF Snapshot
<1>3. QED
  BY <1>1, <1>2 DEF Answers

LEMMA QueryTyped ==
  ASSUME NEW call \in ToolCall, NEW a \in Snapshot
  PROVE  QueryResult(call, a) \in Executive!ToolResult
BY DEF ToolCall, Snapshot, QueryResult, Failure, Executive!ToolResult, ReasonCodes,
       Executive!Evidence

LEMMA MotionTyped ==
  ASSUME NEW call \in ToolCall
  PROVE  \A r \in MotionResults(call) :
           r \in Executive!ToolResult /\ r.evidence = {} /\ r.rejected_candidate_ids = {}
<1> DEFINE Plain(r) == r.evidence = {} /\ r.rejected_candidate_ids = {}
<1>1. Failure(call) \in Executive!ToolResult /\ Plain(Failure(call))
  BY FailureTyped DEF Failure
<1> DEFINE good == [Failure(call) EXCEPT !.success = TRUE]
           moved == [Failure(call) EXCEPT !.success = TRUE, !.progress = TRUE]
           visited == [Failure(call) EXCEPT !.success = TRUE, !.reason_code = "poi_exhausted"]
<1>2. good \in Executive!ToolResult /\ Plain(good)
  BY <1>1 DEF Executive!ToolResult
<1>3. moved \in Executive!ToolResult /\ Plain(moved)
  BY <1>1 DEF Executive!ToolResult
<1>4. visited \in Executive!ToolResult /\ Plain(visited)
  BY <1>1 DEF Executive!ToolResult, ReasonCodes
<1>5. \A r \in MotionResults(call) : r \in {Failure(call), good, moved, visited}
  BY DEF MotionResults
<1> HIDE DEF good, moved, visited
<1>6. QED
  BY <1>1, <1>2, <1>3, <1>4, <1>5

(* The one candidate that a set of one holds.                              *)
LEMMA OnlyCandidate ==
  ASSUME NEW S \in SUBSET Candidates, Cardinality(S) = 1
  PROVE  (CHOOSE c \in S : TRUE) \in S
<1>1. IsFiniteSet(S)
  BY CandidateAssumption, FS_Subset
<1>2. S # {}
  BY <1>1, FS_EmptySet
<1>3. QED
  BY <1>2

LEMMA InspectTyped ==
  ASSUME NEW call \in ToolCall, call.revision # None, NEW p \in SUBSET call.ids
  PROVE  InspectResult(call, p) \in Executive!ToolResult
<1>1. Cardinality(p) = 1 => (CHOOSE c \in p : TRUE) \in Candidates
  BY OnlyCandidate DEF ToolCall
<1> DEFINE confirmed == Cardinality(p) = 1
           target == IF confirmed THEN CHOOSE c \in p : TRUE ELSE None
           evidence == {[candidate_id |-> c, registry_revision |-> call.revision,
                         matches |-> c \in p] : c \in call.ids}
<1>2. confirmed \in BOOLEAN /\ target \in Candidates \cup {None}
  BY <1>1
<1>3. evidence \in SUBSET Executive!Evidence
  <2>1. \A c \in call.ids : [candidate_id |-> c, registry_revision |-> call.revision,
                             matches |-> c \in p] \in Executive!Evidence
    BY DEF ToolCall, Executive!Evidence
  <2>2. QED
    BY <2>1
<1>4. InspectResult(call, p) =
        [Failure(call) EXCEPT
           !.success = confirmed, !.candidate_ids = call.ids,
           !.confirmed_target_id = target, !.rejected_candidate_ids = call.ids \ p,
           !.registry_revision = call.revision, !.evidence = evidence]
  BY DEF InspectResult
<1> HIDE DEF confirmed, target, evidence
<1>5. InspectResult(call, p) =
        [tool |-> call.tool, success |-> confirmed, reason_code |-> "other",
         candidate_id |-> call.candidate, confirmed_target_id |-> target,
         candidate_ids |-> call.ids, rejected_candidate_ids |-> call.ids \ p,
         registry_revision |-> call.revision, progress |-> FALSE,
         expected_registry_revision |-> call.revision, evidence |-> evidence]
  BY <1>4 DEF Failure
<1>6. QED
  BY <1>2, <1>3, <1>5 DEF ToolCall, Executive!ToolResult, ReasonCodes

(* The results of the five tools: what each returns, and when one raised.  *)
LEMMA ResultsTyped ==
  /\ Results \subseteq Executive!ToolResult
  /\ \A r \in Results :
       r.evidence # {} => r.tool = "inspect_candidates" /\ r.registry_revision # None
<1> SUFFICES ASSUME NEW r \in Results
             PROVE  /\ r \in Executive!ToolResult
                    /\ r.evidence # {} => r.tool = "inspect_candidates"
                                          /\ r.registry_revision # None
  OBVIOUS
<1>1. PICK call \in Calls :
        \/ call.tool = "query_registry" /\ \E a \in Answers : r = QueryResult(call, a)
        \/ call.tool = "inspect_candidates" /\ r = Failure(call)
        \/ /\ call.tool = "inspect_candidates" /\ call.revision # None
           /\ \E p \in SUBSET call.ids : r = InspectResult(call, p)
        \/ r \in MotionResults(call)
        \/ r = ExceptionResult(call)
  BY DEF Results
<1>2. call \in ToolCall
  BY CallTyped
<1>3. Failure(call).evidence = {}
  BY DEF Failure
<1>4. CASE \E a \in Answers : r = QueryResult(call, a)
  <2>1. PICK a \in Answers : r = QueryResult(call, a)
    BY <1>4
  <2>2. r \in Executive!ToolResult
    BY <1>2, <2>1, AnswerTyped, QueryTyped
  <2>3. r.evidence = {}
    BY <2>1 DEF QueryResult, Failure
  <2>4. QED
    BY <2>2, <2>3
<1>5. CASE r = Failure(call) \/ r = ExceptionResult(call)
  <2>1. r \in Executive!ToolResult
    BY <1>2, <1>5, FailureTyped
  <2>2. r.evidence = {}
    BY <1>5 DEF ExceptionResult, Failure
  <2>3. QED
    BY <2>1, <2>2
<1>6. CASE /\ call.tool = "inspect_candidates" /\ call.revision # None
           /\ \E p \in SUBSET call.ids : r = InspectResult(call, p)
  <2>1. r \in Executive!ToolResult
    BY <1>2, <1>6, InspectTyped
  <2>2. r.tool = "inspect_candidates" /\ r.registry_revision # None
    BY <1>6 DEF InspectResult, Failure
  <2>3. QED
    BY <2>1, <2>2
<1>7. CASE r \in MotionResults(call)
  BY <1>2, <1>7, MotionTyped
<1>8. QED
  BY <1>1, <1>4, <1>5, <1>6, <1>7

(* The backend confirms what it does not reject.                           *)
LEMMA VerdictsAgree ==
  \A r \in Results : r.confirmed_target_id \notin r.rejected_candidate_ids
<1> SUFFICES ASSUME NEW r \in Results
             PROVE  r.confirmed_target_id \notin r.rejected_candidate_ids
  OBVIOUS
<1>1. PICK call \in Calls :
        \/ \E a \in Answers : r = QueryResult(call, a)
        \/ r = Failure(call)
        \/ /\ call.tool = "inspect_candidates"
           /\ \E p \in SUBSET call.ids : r = InspectResult(call, p)
        \/ r \in MotionResults(call)
        \/ r = ExceptionResult(call)
  BY DEF Results
<1>2. CASE \E p \in SUBSET call.ids : r = InspectResult(call, p)
  <2>1. PICK p \in SUBSET call.ids : r = InspectResult(call, p)
    BY <1>2
  <2>2. call.ids \subseteq Candidates
    BY CallTyped DEF ToolCall
  <2> DEFINE confirmed == Cardinality(p) = 1
             chosen == CHOOSE c \in p : TRUE
  <2>3. /\ r.rejected_candidate_ids = call.ids \ p
        /\ r.confirmed_target_id = IF confirmed THEN chosen ELSE None
    BY <2>1 DEF InspectResult, Failure
  <2>4. confirmed => p # {}
    BY FS_EmptySet
  <2>5. confirmed => chosen \in p
    BY <2>4
  <2>6. None \notin Candidates
    BY NoneAssumption
  <2> HIDE DEF confirmed, chosen
  <2>7. QED
    BY <2>2, <2>3, <2>5, <2>6
<1>3. Failure(call) \in Executive!ToolResult /\ Failure(call).rejected_candidate_ids = {}
  BY CallTyped, FailureTyped DEF Failure
<1>4. CASE r = Failure(call)
  BY <1>3, <1>4
<1>5. CASE r = ExceptionResult(call)
  <2>1. r.rejected_candidate_ids = {}
    BY <1>3, <1>5 DEF ExceptionResult, Executive!ToolResult
  <2>2. QED
    BY <2>1
<1>6. CASE \E a \in Answers : r = QueryResult(call, a)
  <2>1. PICK a \in Answers : r = QueryResult(call, a)
    BY <1>6
  <2>2. r.rejected_candidate_ids = {}
    BY <1>3, <2>1 DEF QueryResult, Executive!ToolResult
  <2>3. QED
    BY <2>2
<1>7. CASE r \in MotionResults(call)
  BY CallTyped, MotionTyped, <1>7
<1>8. QED
  BY <1>1, <1>2, <1>4, <1>5, <1>6, <1>7

-----------------------------------------------------------------------------
(* The local variables of run(), by where it is.                           *)
Acting == {"dispatch", "calling", "returned", "excepted"}

Turn ==
  /\ snapshot \in Snapshot
  /\ pc \in PC
  /\ decision \in Decisions \cup {None}
  /\ result \in Results \cup {None}
  /\ cancel \in BOOLEAN
  /\ exhausted \in BOOLEAN
  /\ pc \in {"select", "act"} \cup Acting => decision \in Decisions
  /\ pc \in Acting => decision.tool \in Calls
  /\ pc = "returned" => result \in Results

LEMMA DecisionShape ==
  ASSUME NEW d \in Decisions
  PROVE  d.skill \in Executive!SkillName /\ (d.tool # None => d.tool \in Calls)
BY DEF Decisions, Decision

(* What the five tools return is among the results.                        *)
LEMMA ToolResultKnown ==
  ASSUME NEW call \in Calls, NEW r,
         \/ QueryRegistry(call, r) \/ InspectCandidates(call, r)
         \/ Move(call, board, r) \/ RefuseMove(call, board, r),
         snapshot \in Snapshot
  PROVE  r \in Results /\ snapshot' \in Snapshot
<1> DEFINE Of(c) ==
      CASE c.tool = "query_registry" -> {QueryResult(c, a) : a \in Answers}
        [] c.tool = "inspect_candidates" ->
             {Failure(c)} \cup
             IF c.revision = None \/ c.ids = {} THEN {}
             ELSE {InspectResult(c, p) : p \in SUBSET c.ids}
        [] OTHER -> MotionResults(c)
<1>1. Results = UNION {Of(c) \cup {ExceptionResult(c)} : c \in Calls}
  BY DEF Results
<1>2. Of(call) \subseteq Results
  BY <1>1
<1>3. CASE QueryRegistry(call, r)
  <2>1. r \in Of(call)
    BY <1>3 DEF QueryRegistry
  <2>2. QED
    BY <1>2, <1>3, <2>1, AnswerTyped DEF QueryRegistry
<1>4. CASE InspectCandidates(call, r)
  <2>1. r \in Of(call)
    BY <1>4 DEF InspectCandidates, InspectionInScope
  <2>2. QED
    BY <1>2, <1>4, <2>1 DEF InspectCandidates
<1>5. CASE Move(call, board, r) \/ RefuseMove(call, board, r)
  <2>1. r \in MotionResults(call)
    BY <1>5 DEF Move, RefuseMove, MotionResults
  <2>2. r \in Of(call)
    BY <1>5, <2>1 DEF Move, RefuseMove
  <2>3. QED
    BY <1>2, <1>5, <2>2 DEF Move, RefuseMove
<1>6. QED
  BY <1>3, <1>4, <1>5

LEMMA ExceptionKnown == \A call \in Calls : ExceptionResult(call) \in Results
BY DEF Results

LEMMA TurnStep == Turn /\ [Next]_vars => Turn'
<1> SUFFICES ASSUME Turn, [Next]_vars PROVE Turn'
  OBVIOUS
<1> USE DEF Turn, PC, Acting
<1>1. CASE Accept \/ ConfigureLimits \/ Start \/ CancelAtHead \/ AskPlanner \/ PlannerFails
  BY <1>1 DEF Accept, ConfigureLimits, Start, CancelAtHead, AskPlanner, PlannerFails, Local
<1>2. CASE PlannerDecides
  BY <1>2 DEF PlannerDecides
<1>3. CASE SelectSkill \/ SelectRaises \/ ApplyCompletion \/ RefuseCompletion
  BY <1>3 DEF SelectSkill, SelectRaises, ApplyCompletion, RefuseCompletion, Local, Forget
<1>4. CASE RequestTool
  BY <1>4, DecisionShape DEF RequestTool, Local
<1>5. CASE Dispatch \/ ToolRaises
  BY <1>5 DEF Dispatch, ToolRaises, Local
<1>6. CASE ToolReturns
  <2>1. decision.tool \in Calls /\ decision \in Decisions
    BY <1>6 DEF ToolReturns
  <2>2. result' \in Results /\ snapshot' \in Snapshot
    BY <1>6, <2>1, ToolResultKnown DEF ToolReturns
  <2>3. QED
    BY <1>6, <2>1, <2>2 DEF ToolReturns
<1>7. CASE RecordResult \/ RecordException
  BY <1>7 DEF RecordResult, RecordException, Local, Forget
<1>8. CASE LimitReached \/ LimitNotReached \/ HandleException
  BY <1>8 DEF LimitReached, LimitNotReached, HandleException, Local
<1>9. CASE RequestCancel \/ RecorderReports \/ UNCHANGED vars
  BY <1>9 DEF RequestCancel, RecorderReports, Local, vars
<1>10. QED
  BY <1>1, <1>2, <1>3, <1>4, <1>5, <1>6, <1>7, <1>8, <1>9 DEF Next, RunThread

LEMMA TurnInit == Init => Turn
<1>1. Unchecked \in Snapshot
  BY DEF Unchecked, Snapshot
<1>2. FALSE \in BOOLEAN
  OBVIOUS
<1>3. QED
  BY <1>1, <1>2 DEF Init, Turn, PC, Acting

(* Each step of the loop is a step of the executive, or none.              *)
LEMMA Drives ==
  ASSUME Turn, [Next]_vars
  PROVE  UNCHANGED Executive!vars \/ Executive!Next
<1> USE DEF Executive!vars
<1>1. CASE \/ AskPlanner \/ PlannerDecides \/ SelectRaises \/ Dispatch \/ ToolReturns
           \/ ToolRaises \/ LimitNotReached \/ RequestCancel \/ UNCHANGED vars
  BY <1>1 DEF AskPlanner, PlannerDecides, SelectRaises, Dispatch, ToolReturns, ToolRaises,
              LimitNotReached, RequestCancel, vars
<1>2. CASE Accept \/ ConfigureLimits \/ Start \/ CancelAtHead
  BY <1>2 DEF Accept, ConfigureLimits, Start, CancelAtHead, Executive!Next
<1>3. CASE PlannerFails \/ RefuseCompletion \/ LimitReached \/ HandleException
  <2>1. "other" \in ReasonCodes
    BY DEF ReasonCodes
  <2>2. QED
    BY <1>3, <2>1 DEF PlannerFails, RefuseCompletion, LimitReached, HandleException,
                      Executive!Next
<1>4. CASE SelectSkill
  <2>1. decision.skill \in Executive!SkillName
    BY <1>4, DecisionShape DEF SelectSkill, Turn
  <2>2. QED
    BY <1>4, <2>1 DEF SelectSkill, Executive!Next
<1>5. CASE ApplyCompletion
  <2>1. PICK reason \in {"search_exhausted", None} :
               Executive!Complete(None, TRUE, TRUE, reason)
    BY <1>5 DEF ApplyCompletion
  <2>2. reason \in ReasonCodes \cup {None} /\ None \in Candidates \cup {None}
        /\ TRUE \in BOOLEAN
    BY DEF ReasonCodes
  <2>3. QED
    BY <2>1, <2>2 DEF Executive!Next
<1>6. CASE RequestTool
  <2>1. decision.tool.tool \in Executive!ToolName
    BY <1>6, DecisionShape, CallTyped DEF RequestTool, Turn, ToolCall
  <2>2. QED
    BY <1>6, <2>1 DEF RequestTool, Executive!Next
<1>7. CASE RecordResult \/ RecordException
  <2>1. PICK r \in Results : Executive!RecordToolResult(r)
    BY <1>7, ExceptionKnown DEF RecordResult, RecordException, Turn, Acting
  <2>2. QED
    BY <2>1 DEF Executive!Next
<1>8. CASE RecorderReports
  <2>1. "other" \in ReasonCodes \cup {None}
    BY DEF ReasonCodes
  <2>2. QED
    BY <1>8, <2>1 DEF RecorderReports, Executive!Next
<1>9. QED
  BY <1>1, <1>2, <1>3, <1>4, <1>5, <1>6, <1>7, <1>8 DEF Next, RunThread

-----------------------------------------------------------------------------
(* What is proved of the executive holds of the loop.                      *)
LEMMA SameExecutive ==
  /\ Executive!Init => Proved!Init
  /\ Executive!Next => Proved!Next
  /\ \A r \in Results : Executive!RecordToolResult(r) => Proved!RecordToolResult(r)
  /\ Executive!MissionBoard = Proved!MissionBoard
<1>1. Executive!Init => Proved!Init
  BY DEF Executive!Init, Proved!Init, Executive!FreshBoard, Proved!FreshBoard
<1>2. ASSUME NEW r \in Results
      PROVE  Executive!RecordToolResult(r) => Proved!RecordToolResult(r)
  BY DEF Executive!ConfirmationCurrent, Proved!ConfirmationCurrent,
      Executive!ToolAllowed, Proved!ToolAllowed, Executive!SkillTools,
      Proved!SkillTools, Executive!SkillName, Proved!SkillName,
      Executive!ResultInScope, Proved!ResultInScope,
      Executive!RecordStaleRegistryResult, Proved!RecordStaleRegistryResult,
      Executive!RecordQuery, Proved!RecordQuery, Executive!RecordInspection,
      Proved!RecordInspection, Executive!RecordMotion, Proved!RecordMotion,
      Executive!Stale, Proved!Stale, Executive!InspectionStale,
      Proved!InspectionStale, Executive!RevisionChanged, Proved!RevisionChanged,
      Executive!EvidenceInScope, Proved!EvidenceInScope, Executive!SameRevision,
      Proved!SameRevision, Executive!Resulted, Proved!Resulted, Executive!EventsOf,
      Proved!EventsOf, Executive!RefreshedBoard, Proved!RefreshedBoard,
      Executive!ReplacedBoard, Proved!ReplacedBoard, Executive!ConfirmationBacked,
      Proved!ConfirmationBacked, Executive!Event, Proved!Event, Executive!Commit,
      Proved!Commit, Executive!ToolName, Proved!ToolName,
      Executive!RecordToolResult, Proved!RecordToolResult
<1>3. Executive!Next => Proved!Next
  BY <1>2
  DEF Executive!Next, Proved!Next, Executive!Accept, Proved!Accept, Executive!Start,
      Proved!Start, Executive!SelectSkill, Proved!SelectSkill,
      Executive!RecordToolRequest, Proved!RecordToolRequest,
      Executive!RecordRecorderStatus, Proved!RecordRecorderStatus,
      Executive!Complete, Proved!Complete, Executive!RecordPlannerFailure,
      Proved!RecordPlannerFailure, Executive!RecordBoardObservation,
      Proved!RecordBoardObservation, Executive!ConfigureLimits,
      Proved!ConfigureLimits, Executive!Cancel, Proved!Cancel, Executive!Fail,
      Proved!Fail, Executive!CompletionPolicy, Proved!CompletionPolicy,
      Executive!SkillName, Proved!SkillName, Executive!ToolName, Proved!ToolName,
      Executive!Unfinished, Proved!Unfinished, Executive!FreshBoard,
      Proved!FreshBoard, Executive!Event, Proved!Event, Executive!Commit,
      Proved!Commit, Executive!SkillAllowed, Proved!SkillAllowed,
      Executive!ConfirmationCurrent, Proved!ConfirmationCurrent,
      Executive!ToolAllowed, Proved!ToolAllowed, Executive!SkillTools,
      Proved!SkillTools, Executive!CompletionAllowed, Proved!CompletionAllowed,
      Executive!SearchExhaustionReasonCodes, Proved!SearchExhaustionReasonCodes,
      Executive!Terminal, Proved!Terminal
<1>4. Executive!MissionBoard = Proved!MissionBoard
  BY DEF Executive!MissionBoard, Proved!MissionBoard, Executive!LifecycleState,
      Proved!LifecycleState, Executive!Terminal, Proved!Terminal,
      Executive!CompletionPolicy, Proved!CompletionPolicy, Executive!SkillName,
      Proved!SkillName, Executive!ToolName, Proved!ToolName, Executive!Reasons,
      Proved!Reasons, Executive!Evidence, Proved!Evidence
<1>5. QED
  BY <1>1, <1>2, <1>3, <1>4

LEMMA ExecutiveAssumptions ==
  /\ Proved!NoneAssumption /\ Proved!ResultAssumption /\ Proved!EvidenceAssumption
  /\ Proved!CandidateAssumption /\ Proved!PolicyAssumption
  /\ Proved!RecorderAssumption /\ Proved!BoundAssumption /\ Proved!VerdictAssumption
<1>1. Proved!NoneAssumption /\ Proved!PolicyAssumption
  BY NoneAssumption, PolicyAssumption
  DEF Proved!SkillName, Proved!ToolName, Proved!CompletionPolicy,
      Executive!SkillName, Executive!ToolName, Executive!CompletionPolicy
<1>2. Proved!ResultAssumption /\ Proved!EvidenceAssumption
  BY ResultsTyped
  DEF Proved!ToolResult, Proved!ToolName, Proved!Evidence,
      Executive!ToolResult, Executive!ToolName, Executive!Evidence
<1>3. Proved!CandidateAssumption /\ Proved!RecorderAssumption /\ Proved!BoundAssumption
  BY CandidateAssumption, RecorderAssumption, BoundAssumption
  DEF IsFiniteSet, Proved!IsFiniteSet
<1>4. Proved!VerdictAssumption
  BY VerdictsAgree
<1>5. QED
  BY <1>1, <1>2, <1>3, <1>4

LEMMA LoopIsExecutive == Spec => Proved!Spec
<1>1. Init => Proved!Init
  BY SameExecutive DEF Init
<1>2. Turn /\ [Next]_vars => [Proved!Next]_(Proved!vars)
  BY Drives, SameExecutive DEF Executive!vars, Proved!vars
<1>3. QED
  BY <1>1, <1>2, TurnInit, TurnStep, PTL DEF Spec, Proved!Spec

LEMMA ExecutiveInv == Spec => []Proved!IInv
<1>1. Proved!Spec => []Proved!IInv
  BY ExecutiveAssumptions, Proved!InvariantHolds
<1>2. QED
  BY <1>1, LoopIsExecutive

(* The promise of ConfirmedApproach is kept by the loop with its planner,  *)
(* its backend and its failing tools: the robot approaches confirmed       *)
(* targets only, and never exchanges one on the way.                       *)
THEOREM LoopKeepsPromise == Spec => Executive!ImplementsPromise
<1>1. Proved!Spec => Proved!ImplementsPromise
  BY ExecutiveAssumptions, Proved!Refinement
<1>2. Proved!Promise!Init => Executive!Promise!Init
  BY DEF Proved!Promise!Init, Executive!Promise!Init
<1>3. [Proved!Promise!Next]_(Proved!Promise!vars)
        => [Executive!Promise!Next]_(Executive!Promise!vars)
  BY DEF Proved!Promise!Next, Executive!Promise!Next, Proved!Promise!vars,
      Executive!Promise!vars, Proved!Promise!Accept, Executive!Promise!Accept,
      Proved!Promise!Start, Executive!Promise!Start, Proved!Promise!Retarget,
      Executive!Promise!Retarget, Proved!Promise!Handoff, Executive!Promise!Handoff,
      Proved!Promise!Succeed, Executive!Promise!Succeed, Proved!Promise!GiveUp,
      Executive!Promise!GiveUp, Proved!Promise!Finished, Executive!Promise!Finished,
      Proved!CompletionPolicy, Executive!CompletionPolicy
<1>4. Proved!ImplementsPromise => Executive!ImplementsPromise
  BY <1>2, <1>3, PTL DEF Proved!ImplementsPromise, Executive!ImplementsPromise,
      Proved!Promise!Spec, Executive!Promise!Spec
<1>5. QED
  BY <1>1, <1>4, LoopIsExecutive

(* And so are the executive's own promises: in a run of the loop, target,  *)
(* evidence and revision stay together, an approach keeps its target, the  *)
(* events tell of each confirmation and rejection, and outcomes are final. *)
THEOREM LoopKeepsTarget ==
  Spec => /\ []Executive!TargetIsCurrent
          /\ Executive!ApproachKeepsTarget
          /\ Executive!AuditTrail
          /\ Executive!OutcomeIsFinal
<1>1. Proved!Spec => []Proved!TargetIsCurrent
  BY ExecutiveAssumptions, Proved!TargetCurrent
<1>2. Proved!Spec => Proved!ApproachKeepsTarget
  BY ExecutiveAssumptions, Proved!ApproachIsStable
<1>3. Proved!Spec => Proved!AuditTrail
  BY ExecutiveAssumptions, Proved!TrailIsComplete
<1>4. Proved!Spec => Proved!OutcomeIsFinal
  BY ExecutiveAssumptions, Proved!OutcomesAreFinal
<1>5. Proved!TargetIsCurrent => Executive!TargetIsCurrent
  BY SameExecutive
  DEF Proved!TargetIsCurrent, Executive!TargetIsCurrent, Proved!TypeOK, Executive!TypeOK,
      Proved!EventType, Executive!EventType, Proved!ConfirmationCurrent,
      Executive!ConfirmationCurrent, Proved!ConfirmedAtCurrentRevision,
      Executive!ConfirmedAtCurrentRevision, Proved!ApproachHasTarget,
      Executive!ApproachHasTarget, Proved!EvidenceAtCurrentRevision,
      Executive!EvidenceAtCurrentRevision, Proved!SuccessHasTarget,
      Executive!SuccessHasTarget
<1>6. Proved!ApproachKeepsTarget => Executive!ApproachKeepsTarget
  BY DEF Proved!ApproachKeepsTarget, Executive!ApproachKeepsTarget, Proved!vars,
      Executive!vars
<1>7. Proved!AuditTrail => Executive!AuditTrail
  BY DEF Proved!AuditTrail, Executive!AuditTrail, Proved!vars, Executive!vars
<1>8. Proved!OutcomeIsFinal => Executive!OutcomeIsFinal
  BY DEF Proved!OutcomeIsFinal, Executive!OutcomeIsFinal, Proved!vars, Executive!vars,
      Proved!Terminal, Executive!Terminal
<1>9. Spec => []Executive!TargetIsCurrent
  BY <1>1, <1>5, LoopIsExecutive, PTL
<1>10. QED
  BY <1>2, <1>3, <1>4, <1>6, <1>7, <1>8, <1>9, LoopIsExecutive

-----------------------------------------------------------------------------
(* What recording a result does to the mission, its target and its reason. *)
LEMMA RecordStep ==
  ASSUME Proved!IInv, NEW r \in Results, Executive!RecordToolResult(r)
  PROVE  /\ board'.lifecycle_state = "running" /\ board.lifecycle_state = "running"
         /\ board'.active_skill = board.active_skill
         /\ board'.completion_policy = board.completion_policy
         /\ board'.last_reason_code \in {r.reason_code, "stale_registry_result"}
         /\ board'.confirmed_target_id # None =>
              \/ /\ board'.confirmed_target_id = board.confirmed_target_id
                 /\ board'.registry_revision = board.registry_revision
                 /\ r.tool = "query_registry" =>
                      /\ r.registry_revision # None
                      /\ r.registry_revision = board.registry_revision
                      /\ board.confirmed_target_id \in r.candidate_ids
              \/ /\ r.tool = "inspect_candidates"
                 /\ r.registry_revision # None
                 /\ board'.registry_revision = r.registry_revision
                 /\ board'.confirmed_target_id \in r.candidate_ids
<1>b. board \in Executive!MissionBoard /\ r \in Executive!ToolResult
  BY SameExecutive, ResultsTyped DEF Proved!IInv, Proved!TypeOK
<1>c. board.confirmed_target_id # None => board.registry_revision # None
  BY DEF Proved!IInv, Proved!ConfirmedAtCurrentRevision, Proved!ConfirmationCurrent
<1>1. /\ board'.lifecycle_state = "running" /\ board.lifecycle_state = "running"
      /\ board'.active_skill = board.active_skill
      /\ board'.completion_policy = board.completion_policy
  BY SameExecutive, ExecutiveAssumptions, Proved!ResultStep
<1>2. CASE Executive!RecordStaleRegistryResult(r)
  <2>1. r.tool # "query_registry"
    BY <1>2 DEF Executive!RecordStaleRegistryResult, Executive!Stale,
                Executive!InspectionStale
  <2>2. QED
    BY <1>1, <1>2, <1>b, <2>1
    DEF Executive!RecordStaleRegistryResult, Executive!Commit, Executive!MissionBoard
<1>3. CASE Executive!RecordQuery(r)
  BY <1>1, <1>3, <1>b
  DEF Executive!RecordQuery, Executive!SameRevision, Executive!RefreshedBoard,
      Executive!ReplacedBoard, Executive!Resulted, Executive!Commit, Executive!MissionBoard
<1>4. CASE Executive!RecordInspection(r)
  <2>1. /\ board'.last_reason_code = r.reason_code
        /\ board'.registry_revision = IF r.registry_revision # None THEN r.registry_revision
                                      ELSE board.registry_revision
        /\ board'.confirmed_target_id = IF r.confirmed_target_id = None
                                        THEN board.confirmed_target_id
                                        ELSE r.confirmed_target_id
    <3>1. CASE r.confirmed_target_id = None
      BY <1>4, <1>b, <3>1
      DEF Executive!RecordInspection, Executive!Resulted, Executive!Commit,
          Executive!MissionBoard
    <3>2. CASE r.confirmed_target_id # None
      <4> DEFINE b == Executive!Resulted(board, r)
      <4>1. /\ b.last_reason_code = r.reason_code
            /\ b.registry_revision = IF r.registry_revision # None THEN r.registry_revision
                                     ELSE board.registry_revision
            /\ b.confirmed_target_id = board.confirmed_target_id
        BY <1>b DEF Executive!Resulted, Executive!MissionBoard
      <4>2. b \in Executive!MissionBoard
        <5>1. board \in Proved!MissionBoard /\ r \in Proved!ToolResult
          BY <1>b, SameExecutive, ExecutiveAssumptions
        <5>2. b = Proved!Resulted(board, r)
          BY DEF Executive!Resulted, Proved!Resulted
        <5>3. QED
          BY <5>1, <5>2, ExecutiveAssumptions, SameExecutive, Proved!ResultedTyped
      <4>3. board' = [[b EXCEPT !.confirmed_target_id = r.confirmed_target_id,
                                !.confirmed_registry_revision = r.registry_revision,
                                !.rejected_candidate_ids = @ \ {r.confirmed_target_id}]
                        EXCEPT !.board_revision = board.board_revision + 1]
        BY <1>4, <3>2 DEF Executive!RecordInspection, Executive!Commit
      <4> HIDE DEF b
      <4>4. QED
        BY <3>2, <4>1, <4>2, <4>3 DEF Executive!MissionBoard
    <3>3. QED
      BY <3>1, <3>2
  <2>2. /\ r.tool = "inspect_candidates"
        /\ r.registry_revision # None => r.registry_revision = board.registry_revision
        /\ r.confirmed_target_id # None =>
             r.registry_revision # None /\ r.confirmed_target_id \in r.candidate_ids
    BY <1>4 DEF Executive!RecordInspection, Executive!InspectionStale,
                Executive!ConfirmationBacked
  <2>3. QED
    BY <1>1, <2>1, <2>2
<1>5. CASE Executive!RecordMotion(r)
  BY <1>1, <1>5, <1>b, <1>c
  DEF Executive!RecordMotion, Executive!Stale, Executive!RevisionChanged,
      Executive!Resulted, Executive!Commit, Executive!MissionBoard, Executive!ToolResult
<1>6. QED
  BY <1>2, <1>3, <1>4, <1>5 DEF Executive!RecordToolResult

-----------------------------------------------------------------------------
(* What the other calls of the executive leave alone.                      *)
TargetKept ==
  /\ board'.completion_policy = board.completion_policy
  /\ board'.registry_revision = board.registry_revision
  /\ board'.confirmed_target_id = board.confirmed_target_id
  /\ board'.confirmed_registry_revision = board.confirmed_registry_revision

Goes(from, to) == board.lifecycle_state = from /\ board'.lifecycle_state = to

LEMMA CallFrame ==
  ASSUME board \in Executive!MissionBoard
  PROVE  /\ Executive!ConfigureLimits => /\ TargetKept
                                         /\ board'.lifecycle_state = board.lifecycle_state
                                         /\ board'.last_reason_code = board.last_reason_code
         /\ Executive!Start => /\ TargetKept /\ Goes("accepted", "running")
                               /\ board'.last_reason_code = board.last_reason_code
         /\ \A s : Executive!SelectSkill(s) =>
              /\ TargetKept /\ Goes("running", "running")
              /\ board'.last_reason_code = board.last_reason_code
         /\ \A t : Executive!RecordToolRequest(t) =>
              /\ TargetKept /\ Goes("running", "running")
              /\ board'.active_skill = board.active_skill
              /\ board'.last_reason_code = None
         /\ \A s, c : Executive!RecordRecorderStatus(s, c) =>
              /\ TargetKept /\ board'.lifecycle_state = board.lifecycle_state
              /\ board'.active_skill = board.active_skill
              /\ board'.last_reason_code = c
         /\ \A t, a, x, c : Executive!Complete(t, a, x, c) =>
              /\ TargetKept /\ Goes("running", "succeeded")
              /\ board'.last_reason_code = c
         /\ \A c : Executive!RecordPlannerFailure(c) =>
              /\ TargetKept /\ Goes("running", "running") /\ board'.last_reason_code = c
         /\ Executive!Cancel => /\ TargetKept /\ board'.lifecycle_state = "canceled"
                                /\ board'.last_reason_code = "cancel_requested"
         /\ \A c : Executive!Fail(c) =>
              /\ TargetKept /\ board'.lifecycle_state = "failed"
              /\ board'.last_reason_code = c
<1> USE DEF TargetKept, Goes, Executive!Commit, Executive!MissionBoard
<1>1. ASSUME Executive!ConfigureLimits
      PROVE  /\ TargetKept /\ board'.lifecycle_state = board.lifecycle_state
             /\ board'.last_reason_code = board.last_reason_code
  BY <1>1 DEF Executive!ConfigureLimits
<1>2. ASSUME Executive!Start
      PROVE  /\ TargetKept /\ Goes("accepted", "running")
             /\ board'.last_reason_code = board.last_reason_code
  BY <1>2 DEF Executive!Start
<1>3. ASSUME NEW s, Executive!SelectSkill(s)
      PROVE  /\ TargetKept /\ Goes("running", "running")
             /\ board'.last_reason_code = board.last_reason_code
  BY <1>3 DEF Executive!SelectSkill
<1>4. ASSUME NEW t, Executive!RecordToolRequest(t)
      PROVE  /\ TargetKept /\ Goes("running", "running")
             /\ board'.active_skill = board.active_skill
             /\ board'.last_reason_code = None
  BY <1>4 DEF Executive!RecordToolRequest, Executive!ToolAllowed
<1>5. ASSUME NEW s, NEW c, Executive!RecordRecorderStatus(s, c)
      PROVE  /\ TargetKept /\ board'.lifecycle_state = board.lifecycle_state
             /\ board'.active_skill = board.active_skill
             /\ board'.last_reason_code = c
  BY <1>5 DEF Executive!RecordRecorderStatus
<1>6. ASSUME NEW t, NEW a, NEW x, NEW c, Executive!Complete(t, a, x, c)
      PROVE  /\ TargetKept /\ Goes("running", "succeeded") /\ board'.last_reason_code = c
  BY <1>6 DEF Executive!Complete, Executive!CompletionAllowed
<1>7. ASSUME NEW c, Executive!RecordPlannerFailure(c)
      PROVE  /\ TargetKept /\ Goes("running", "running") /\ board'.last_reason_code = c
  BY <1>7 DEF Executive!RecordPlannerFailure
<1>8. ASSUME Executive!Cancel
      PROVE  /\ TargetKept /\ board'.lifecycle_state = "canceled"
             /\ board'.last_reason_code = "cancel_requested"
  BY <1>8 DEF Executive!Cancel
<1>9. ASSUME NEW c, Executive!Fail(c)
      PROVE  /\ TargetKept /\ board'.lifecycle_state = "failed"
             /\ board'.last_reason_code = c
  BY <1>9 DEF Executive!Fail
<1> HIDE DEF TargetKept, Goes, Executive!Commit, Executive!MissionBoard
<1>10. QED
  BY <1>1, <1>2, <1>3, <1>4, <1>5, <1>6, <1>7, <1>8, <1>9

-----------------------------------------------------------------------------
(***************************************************************************)
(* The inductive invariant of the loop.                                    *)
(***************************************************************************)
(* Where run() is tells how far the mission is.                            *)
Stages ==
  /\ pc = "idle" => ~Executive!Unfinished
  /\ pc \in {"accepted", "configured"} => board.lifecycle_state = "accepted"
  /\ pc \in {"head", "deciding", "select", "act", "raised"} \cup Acting =>
       board.lifecycle_state = "running"
  /\ pc = "limits" => board.lifecycle_state \in {"running", "succeeded"}

(* What a tool returned, seen from the snapshot it was computed on.        *)
Returned(call, r) ==
  /\ r.tool = call.tool /\ r.candidate_id = call.candidate
  /\ r.reason_code # "search_exhausted"
  /\ r.tool = "query_registry" =>
       /\ r.registry_revision = snapshot.revision /\ r.candidate_ids = snapshot.candidates
       /\ snapshot.revision # None => snapshot.checked
  /\ r.tool = "inspect_candidates" =>
       /\ r.registry_revision = None => r.candidate_ids = {}
       /\ r.registry_revision # None => /\ snapshot.checked
                                        /\ snapshot.revision = r.registry_revision
                                        /\ r.candidate_ids \subseteq snapshot.candidates
       /\ r.confirmed_target_id # None => Executive!ConfirmationBacked(r)

(* The call in progress is one the active skill allows and the dispatcher  *)
(* let through.                                                            *)
Called ==
  /\ pc \in Acting => Executive!ToolAllowed(decision.tool.tool)
  /\ pc \in {"calling", "returned"} => DispatchAllowed(decision.tool, board)
  /\ pc = "returned" => Returned(decision.tool, result)

(* A confirmed target is a candidate of the snapshot's revision, except    *)
(* between a new answer of the registry and its record.                    *)
Linked ==
  board.confirmed_target_id # None /\ ~(pc = "returned" /\ result.tool = "query_registry")
    => /\ snapshot.checked
       /\ snapshot.revision = board.registry_revision
       /\ board.confirmed_target_id \in snapshot.candidates

(* The board names an exhaustion as its last reason only after one.        *)
Honest ==
  /\ board.last_reason_code \in {"poi_exhausted", "search_exhausted"} => exhausted
  /\ board.lifecycle_state = "succeeded" /\ board.completion_policy = "search_until_exhausted"
       => exhausted

LoopInv == Turn /\ Stages /\ Called /\ Linked /\ Honest

(* A tool answers as Returned says.                                        *)
LEMMA ReturnsSo ==
  ASSUME NEW call \in Calls, NEW r,
         \/ QueryRegistry(call, r) \/ InspectCandidates(call, r)
         \/ Move(call, board, r) \/ RefuseMove(call, board, r)
  PROVE  /\ r.tool = call.tool /\ r.candidate_id = call.candidate
         /\ r.reason_code # "search_exhausted"
         /\ r.tool = "query_registry" =>
              /\ r.registry_revision = snapshot'.revision
              /\ r.candidate_ids = snapshot'.candidates
              /\ snapshot'.revision # None => snapshot'.checked
         /\ r.tool # "query_registry" => snapshot' = snapshot
         /\ r.tool = "inspect_candidates" =>
              /\ r.registry_revision = None => r.candidate_ids = {}
              /\ r.registry_revision # None => /\ snapshot.checked
                                               /\ snapshot.revision = r.registry_revision
                                               /\ r.candidate_ids \subseteq snapshot.candidates
              /\ r.confirmed_target_id # None => Executive!ConfirmationBacked(r)
<1>0. call \in ToolCall
  BY CallTyped
<1>1. CASE QueryRegistry(call, r)
  BY <1>1 DEF QueryRegistry, QueryResult, Failure, Answers, Unchecked
<1>2. CASE InspectCandidates(call, r)
  <2>1. CASE r = Failure(call)
    BY <1>2, <2>1 DEF InspectCandidates, Failure
  <2>2. CASE InspectionInScope(call) /\ \E p \in SUBSET call.ids : r = InspectResult(call, p)
    <3>1. PICK p \in SUBSET call.ids : r = InspectResult(call, p)
      BY <2>2
    <3>2. /\ r.tool = call.tool /\ r.candidate_id = call.candidate
          /\ r.reason_code = "other" /\ r.candidate_ids = call.ids
          /\ r.registry_revision = call.revision
          /\ r.success = (Cardinality(p) = 1)
          /\ r.confirmed_target_id = IF Cardinality(p) = 1 THEN CHOOSE c \in p : TRUE ELSE None
      BY <3>1 DEF InspectResult, Failure
    <3>3. r.evidence = {[candidate_id |-> c, registry_revision |-> call.revision,
                         matches |-> c \in p] : c \in call.ids}
      BY <3>1 DEF InspectResult, Failure
    <3>4. ASSUME r.confirmed_target_id # None PROVE Executive!ConfirmationBacked(r)
      <4>1. Cardinality(p) = 1 /\ r.confirmed_target_id \in p
        BY <1>0, <3>2, <3>4, OnlyCandidate DEF ToolCall
      <4> DEFINE c == r.confirmed_target_id
                 e == [candidate_id |-> c, registry_revision |-> call.revision,
                       matches |-> c \in p]
      <4>2. e \in r.evidence
        BY <3>3, <4>1
      <4>3. e.candidate_id = c /\ e.registry_revision = r.registry_revision /\ e.matches
        BY <3>2, <4>1
      <4>4. QED
        BY <2>2, <3>2, <4>1, <4>2, <4>3 DEF Executive!ConfirmationBacked, InspectionInScope
    <3>5. QED
      BY <1>2, <2>2, <3>2, <3>4 DEF InspectCandidates, InspectionInScope
  <2>3. QED
    BY <1>2, <2>1, <2>2 DEF InspectCandidates
<1>3. CASE Move(call, board, r) \/ RefuseMove(call, board, r)
  <2>1. r \in MotionResults(call)
    BY <1>3 DEF Move, RefuseMove, MotionResults
  <2>2. /\ r.tool = call.tool /\ r.candidate_id = call.candidate
        /\ r.reason_code \in {"other", "poi_exhausted"}
    <3> DEFINE good == [Failure(call) EXCEPT !.success = TRUE]
               moved == [Failure(call) EXCEPT !.success = TRUE, !.progress = TRUE]
               visited == [Failure(call) EXCEPT !.success = TRUE,
                                                !.reason_code = "poi_exhausted"]
    <3>1. r \in {Failure(call), good, moved, visited}
      BY <2>1 DEF MotionResults
    <3> DEFINE Told(x) == /\ x.tool = call.tool /\ x.candidate_id = call.candidate
                          /\ x.reason_code \in {"other", "poi_exhausted"}
    <3>2. Told(Failure(call))
      BY DEF Failure
    <3>3. Told(good)
      BY DEF Failure
    <3>4. Told(moved)
      BY DEF Failure
    <3>5. Told(visited)
      BY DEF Failure
    <3> HIDE DEF good, moved, visited
    <3>6. QED
      BY <3>1, <3>2, <3>3, <3>4, <3>5
  <2>3. /\ call.tool \in {"observe", "rotate_to_heading", "go_to_point"}
        /\ snapshot' = snapshot
    BY <1>3 DEF Move, RefuseMove
  <2>4. QED
    BY <2>2, <2>3
<1>4. QED
  BY <1>1, <1>2, <1>3

LEMMA LoopInit == Init => LoopInv
BY TurnInit, NoneAssumption
DEF Init, Executive!Init, Executive!FreshBoard, Executive!Unfinished, LoopInv, Stages, Called,
    Linked, Honest, Acting, ReasonCodes

LEMMA LoopStep ==
  ASSUME LoopInv, Proved!IInv, [Next]_vars
  PROVE  LoopInv'
<1>b. board \in Executive!MissionBoard /\ Turn /\ Turn'
  BY SameExecutive, TurnStep DEF Proved!IInv, Proved!TypeOK, LoopInv
<1>n. None \notin ReasonCodes
  BY NoneAssumption
<1> USE DEF Acting
<1>1. CASE Accept
  <2>1. PICK policy : Executive!Accept(policy)
    BY <1>1 DEF Accept
  <2>2. /\ board'.lifecycle_state = "accepted" /\ board'.confirmed_target_id = None
        /\ board'.last_reason_code = None
    BY <2>1 DEF Executive!Accept, Executive!FreshBoard
  <2>3. pc' = "accepted"
    BY <1>1 DEF Accept
  <2>4. QED
    BY <1>b, <1>n, <2>2, <2>3
    DEF LoopInv, Stages, Called, Linked, Honest, ReasonCodes
<1>2. CASE ConfigureLimits \/ Start \/ CancelAtHead \/ PlannerFails
  BY <1>2, <1>b, CallFrame
  DEF ConfigureLimits, Start, CancelAtHead, PlannerFails, LoopInv, Stages, Called, Linked,
      Honest, TargetKept, Goes, Executive!Unfinished
<1>3. CASE AskPlanner \/ PlannerDecides \/ SelectRaises
  BY <1>3, <1>b
  DEF AskPlanner, PlannerDecides, SelectRaises, LoopInv, Stages, Called, Linked, Honest, Local
<1>4. CASE SelectSkill
  <2>1. TargetKept /\ Goes("running", "running")
        /\ board'.last_reason_code = board.last_reason_code
    BY <1>4, <1>b, CallFrame DEF SelectSkill
  <2>2. QED
    BY <1>4, <1>b, <2>1
    DEF SelectSkill, LoopInv, Stages, Called, Linked, Honest, TargetKept, Goes
<1>5. CASE ApplyCompletion
  <2>1. PICK reason : /\ Executive!Complete(None, TRUE, TRUE, reason)
                      /\ reason = IF board.completion_policy = "search_until_exhausted"
                                  THEN "search_exhausted" ELSE None
    BY <1>5 DEF ApplyCompletion
  <2>2. /\ TargetKept /\ Goes("running", "succeeded") /\ board'.last_reason_code = reason
    BY <1>b, <2>1, CallFrame
  <2>3. board.completion_policy = "search_until_exhausted" => exhausted
    BY <2>1 DEF Executive!Complete, Executive!CompletionAllowed,
                Executive!SearchExhaustionReasonCodes, LoopInv, Honest
  <2>4. QED
    BY <1>5, <1>b, <1>n, <2>1, <2>2, <2>3
    DEF ApplyCompletion, LoopInv, Stages, Called, Linked, Honest, TargetKept, Goes, ReasonCodes
<1>6. CASE RefuseCompletion \/ LimitReached \/ HandleException
  BY <1>6, <1>b, CallFrame
  DEF RefuseCompletion, LimitReached, HandleException, LoopInv, Stages, Called, Linked,
      Honest, TargetKept, Goes, Executive!Unfinished, Local
<1>7. CASE RequestTool
  <2>1. /\ TargetKept /\ Goes("running", "running") /\ board'.last_reason_code = None
        /\ board'.active_skill = board.active_skill
    BY <1>7, <1>b, CallFrame DEF RequestTool
  <2>2. Executive!ToolAllowed(decision.tool.tool)'
    BY <1>7, <2>1 DEF RequestTool, Executive!RecordToolRequest, Executive!ToolAllowed, Goes,
                      Local
  <2>3. QED
    BY <1>7, <1>b, <1>n, <2>1, <2>2
    DEF RequestTool, LoopInv, Stages, Called, Linked, Honest, TargetKept, Goes, ReasonCodes
<1>8. CASE Dispatch \/ ToolRaises
  BY <1>8, <1>b
  DEF Dispatch, ToolRaises, LoopInv, Stages, Called, Linked, Honest, Local,
      Executive!ToolAllowed, DispatchAllowed
<1>9. CASE ToolReturns
  <2>1. decision.tool \in Calls /\ pc = "calling"
    BY <1>9 DEF ToolReturns, LoopInv, Turn
  <2>2. /\ Returned(decision.tool, result)'
        /\ result'.tool # "query_registry" => snapshot' = snapshot
    BY <1>9, <2>1, ReturnsSo DEF ToolReturns, Returned, Executive!ConfirmationBacked
  <2>3. QED
    BY <1>9, <1>b, <2>1, <2>2
    DEF ToolReturns, LoopInv, Stages, Called, Linked, Honest, Executive!ToolAllowed,
        DispatchAllowed
<1>10. CASE RecordResult
  <2>1. /\ Returned(decision.tool, result) /\ Executive!RecordToolResult(result)
        /\ result \in Results /\ pc = "returned" /\ pc' = "head" /\ snapshot' = snapshot
        /\ exhausted' = (result.reason_code = "poi_exhausted")
    BY <1>10 DEF RecordResult, LoopInv, Called, Turn
  <2>2. Linked'
    BY <2>1, RecordStep DEF LoopInv, Linked, Returned
  <2>3. Honest'
    BY <2>1, RecordStep DEF Honest, Returned
  <2>4. QED
    BY <1>b, <2>1, <2>2, <2>3, RecordStep DEF LoopInv, Stages, Called
<1>11. CASE RecordException
  <2> DEFINE r == ExceptionResult(decision.tool)
  <2>1. /\ Executive!RecordToolResult(r) /\ decision.tool \in Calls
        /\ pc = "excepted" /\ pc' = "limits" /\ snapshot' = snapshot /\ exhausted' = exhausted
    BY <1>11 DEF RecordException, LoopInv, Turn
  <2>2. r \in Results
    BY <2>1, ExceptionKnown
  <2>3. r.candidate_ids = {} /\ r.reason_code = "other"
    BY DEF ExceptionResult, Failure
  <2> HIDE DEF r
  <2>4. Linked'
    BY <2>1, <2>2, <2>3, RecordStep DEF LoopInv, Linked
  <2>5. Honest'
    BY <2>1, <2>2, <2>3, RecordStep DEF Honest
  <2>6. QED
    BY <1>b, <2>1, <2>2, <2>4, <2>5, RecordStep DEF LoopInv, Stages, Called
<1>12. CASE LimitNotReached
  BY <1>12, <1>b
  DEF LimitNotReached, Terminal, Executive!Terminal, Executive!Unfinished, LoopInv, Stages,
      Called, Linked, Honest, Local
<1>13. CASE RequestCancel \/ UNCHANGED vars
  BY <1>13, <1>b
  DEF RequestCancel, vars, LoopInv, Stages, Called, Returned, Linked, Honest, Local,
      Executive!Unfinished, Executive!ToolAllowed, DispatchAllowed,
      Executive!ConfirmationBacked
<1>14. CASE RecorderReports
  <2>1. PICK s : Executive!RecordRecorderStatus(s, "other")
    BY <1>14 DEF RecorderReports
  <2>2. /\ TargetKept /\ board'.lifecycle_state = board.lifecycle_state
        /\ board'.active_skill = board.active_skill /\ board'.last_reason_code = "other"
    BY <1>b, <2>1, CallFrame
  <2>3. UNCHANGED <<pc, decision, result, snapshot, exhausted>>
    BY <1>14 DEF RecorderReports, Local
  <2>4. Stages' /\ Linked' /\ Honest'
    BY <2>2, <2>3 DEF LoopInv, Stages, Linked, Honest, TargetKept, Executive!Unfinished
  <2>5. Called'
    BY <2>2, <2>3
    DEF LoopInv, Called, Returned, TargetKept, Executive!ToolAllowed, DispatchAllowed,
        Executive!ConfirmationBacked
  <2>6. QED
    BY <1>b, <2>4, <2>5 DEF LoopInv
<1>15. QED
  BY <1>1, <1>2, <1>3, <1>4, <1>5, <1>6, <1>7, <1>8, <1>9, <1>10, <1>11, <1>12, <1>13, <1>14
  DEF Next, RunThread

LEMMA LoopInvariance == Spec => [](LoopInv /\ Proved!IInv)
<1>1. LoopInv /\ Proved!IInv /\ [Next]_vars => LoopInv'
  BY LoopStep
<1>2. QED
  BY <1>1, LoopInit, ExecutiveInv, PTL DEF Spec

(* On whichever of its ways out, run() leaves no mission behind that is    *)
(* still accepted or running.                                              *)
THEOREM RunsEnd == Spec => []RunEndsTerminal
<1>1. LoopInv => RunEndsTerminal
  BY DEF LoopInv, Stages, RunEndsTerminal
<1>2. QED
  BY <1>1, LoopInvariance, PTL

(* Executive and backend agree for every registry and planner: the robot   *)
(* is sent to a position of the revision its target was confirmed at, and  *)
(* no result the backend computes is refused by record_tool_result.        *)
THEOREM ExecutiveAndBackendAgree == Spec => []BackendAgrees
<1> SUFFICES ASSUME LoopInv, Proved!IInv PROVE BackendAgrees
  BY LoopInvariance, PTL
<1>1. TypeOK
  <2>1. Executive!TypeOK
    BY SameExecutive
    DEF Proved!IInv, Proved!TypeOK, Executive!TypeOK, Proved!EventType, Executive!EventType
  <2>2. QED
    BY <2>1 DEF LoopInv, Turn, TypeOK
<1>2. ApproachMatchesSnapshot
  <2> SUFFICES ASSUME board.active_skill = "approach_confirmed_object"
               PROVE  /\ snapshot.checked
                      /\ snapshot.revision = board.registry_revision
                      /\ board.confirmed_target_id \in snapshot.candidates
    BY DEF ApproachMatchesSnapshot
  <2>1. board.confirmed_target_id # None
    BY DEF Proved!IInv, Proved!ApproachHasTarget
  <2>2. ~(pc = "returned" /\ result.tool = "query_registry")
    BY DEF LoopInv, Called, Returned, Acting, Executive!ToolAllowed, Executive!SkillTools,
           Executive!SkillName
  <2>3. QED
    BY <2>1, <2>2 DEF LoopInv, Linked
<1>3. ResultsAreAdmissible
  <2> SUFFICES ASSUME pc = "returned"
               PROVE  /\ Executive!ResultInScope(result)
                      /\ /\ result.tool = "inspect_candidates"
                         /\ ~Executive!InspectionStale(result)
                         => /\ result.candidate_ids \subseteq board.shortlisted_candidate_ids
                            /\ result.confirmed_target_id # None =>
                                 Executive!ConfirmationBacked(result)
    BY DEF ResultsAreAdmissible
  <2>1. /\ Executive!ToolAllowed(decision.tool.tool) /\ DispatchAllowed(decision.tool, board)
        /\ Returned(decision.tool, result)
    BY DEF LoopInv, Called, Acting
  <2>2. Executive!ResultInScope(result)
    BY <2>1 DEF Returned, DispatchAllowed, Executive!ResultInScope
  <2>3. QED
    BY <2>1, <2>2 DEF Returned, Executive!InspectionStale
<1>4. QED
  BY <1>1, <1>2, <1>3 DEF BackendAgrees

(* Whatever the planner proposes, an exhaustive search succeeds only when  *)
(* the tool called last observed that every POI had been visited.          *)
THEOREM ExhaustionIsObserved == Spec => []ExhaustionWasObserved
<1>1. LoopInv => ExhaustionWasObserved
  BY DEF LoopInv, Honest, ExhaustionWasObserved
<1>2. QED
  BY <1>1, LoopInvariance, PTL
=============================================================================
