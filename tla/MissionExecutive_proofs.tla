----------------------- MODULE MissionExecutive_proofs -----------------------
(***************************************************************************)
(* The executive's invariants for any number of candidates, registry       *)
(* revisions and missions, and for any backend whose results are typed.    *)
(***************************************************************************)
EXTENDS MissionExecutive, TLAPS

EventSet == SUBSET (EventType \X (Candidates \cup {None}))

(* A commit of a well-typed board keeps the state well-typed.              *)
LEMMA CommitTyped ==
  ASSUME TypeOK, NEW b \in MissionBoard, NEW events \in EventSet, Commit(b, events)
  PROVE  TypeOK'
<1>1. board.board_revision + 1 \in Nat
  BY DEF TypeOK, MissionBoard
<1>2. board' \in MissionBoard
  BY <1>1 DEF Commit, MissionBoard
<1>3. QED
  BY <1>2 DEF Commit, TypeOK, EventSet

(* Events of the methods that name no candidate.                           *)
LEMMA EventTyped == \A type \in EventType : Event(type) \in EventSet
BY DEF Event, EventSet

(* Writing typed fields gives a typed board.                               *)
LEMMA KnowledgeFieldsTyped ==
  ASSUME NEW b \in MissionBoard, NEW target \in Candidates \cup {None},
         NEW revision \in Revisions \cup {None}, NEW shortlist \in SUBSET Candidates,
         NEW rejected \in SUBSET Candidates, NEW evidence \in SUBSET Evidence
  PROVE  [b EXCEPT !.shortlisted_candidate_ids = shortlist,
                   !.rejected_candidate_ids = rejected, !.confirmed_target_id = target,
                   !.confirmed_registry_revision = revision,
                   !.candidate_evidence = evidence] \in MissionBoard
BY DEF MissionBoard

(* What a result that is not stale writes is typed.                        *)
LEMMA ResultedTyped ==
  ASSUME NEW b \in MissionBoard, NEW r \in ToolResult
  PROVE  Resulted(b, r) \in MissionBoard /\ EventsOf(r) \in EventSet
<1>1. Resulted(b, r) \in MissionBoard
  <2> DEFINE revision == IF r.registry_revision # None THEN r.registry_revision
                         ELSE b.registry_revision
             failures == IF r.success THEN 0 ELSE b.consecutive_failures + 1
             idle == IF ~r.success THEN b.no_progress_count
                     ELSE IF r.progress THEN 0 ELSE b.no_progress_count + 1
             evidence == IF r.evidence # {} THEN r.evidence ELSE b.candidate_evidence
             shortlist == b.shortlisted_candidate_ids \ r.rejected_candidate_ids
             rejected == b.rejected_candidate_ids \cup r.rejected_candidate_ids
  <2>1. revision \in Revisions \cup {None}
    BY DEF MissionBoard, ToolResult
  <2>2. failures \in Nat
    BY DEF MissionBoard
  <2>3. idle \in Nat
    BY DEF MissionBoard
  <2>4. r.tool \in ToolName /\ r.reason_code \in Reasons
    BY DEF ToolResult, Reasons
  <2>5. shortlist \in SUBSET Candidates /\ rejected \in SUBSET Candidates
    BY DEF MissionBoard, ToolResult
  <2>6. evidence \in SUBSET Evidence
    BY DEF MissionBoard, ToolResult
  <2>7. Resulted(b, r) =
          [b EXCEPT !.active_tool = r.tool, !.registry_revision = revision,
                    !.consecutive_failures = failures, !.no_progress_count = idle,
                    !.last_reason_code = r.reason_code,
                    !.shortlisted_candidate_ids = shortlist,
                    !.rejected_candidate_ids = rejected, !.candidate_evidence = evidence]
    BY Zenon DEF Resulted
  <2> HIDE DEF revision, failures, idle, evidence, shortlist, rejected
  <2>8. [b EXCEPT !.active_tool = r.tool, !.registry_revision = revision,
                  !.consecutive_failures = failures, !.no_progress_count = idle,
                  !.last_reason_code = r.reason_code,
                  !.shortlisted_candidate_ids = shortlist,
                  !.rejected_candidate_ids = rejected,
                  !.candidate_evidence = evidence] \in MissionBoard
    BY <2>1, <2>2, <2>3, <2>4, <2>5, <2>6 DEF MissionBoard
  <2>9. QED
    BY <2>7, <2>8
<1>2. EventsOf(r) \in EventSet
  BY DEF EventsOf, EventSet, ToolResult, EventType
<1>3. QED
  BY <1>1, <1>2

LEMMA ResultTypeStep ==
  ASSUME TypeOK, NEW r \in ToolResults, RecordToolResult(r)
  PROVE  TypeOK'
<1> USE NoneAssumption, ResultAssumption
<1>b. board \in MissionBoard
  BY DEF TypeOK
<1>r. r \in ToolResult
  OBVIOUS
<1>1. CASE RecordStaleRegistryResult(r)
  <2>1. [board EXCEPT !.active_tool = r.tool, !.consecutive_failures = @ + 1,
                      !.last_reason_code = "stale_registry_result"] \in MissionBoard
    <3>1. board.consecutive_failures + 1 \in Nat
      BY <1>b DEF MissionBoard
    <3>2. r.tool \in ToolName /\ "stale_registry_result" \in Reasons
      BY <1>r DEF ToolResult, Reasons
    <3>3. QED
      BY <1>b, <3>1, <3>2 DEF MissionBoard
  <2>2. QED
    BY <1>1, <2>1, EventTyped, CommitTyped DEF RecordStaleRegistryResult, EventType
<1>2. CASE RecordQuery(r)
  <2>1. RefreshedBoard(r) \in MissionBoard
    <3> DEFINE lost == board.confirmed_target_id \notin r.candidate_ids \cup {None}
               kept == IF board.confirmed_target_id = None THEN board.candidate_evidence
                       ELSE {e \in board.candidate_evidence :
                               /\ ~lost
                               /\ e.registry_revision = r.registry_revision
                               /\ e.candidate_id \in r.candidate_ids}
    <3>1. /\ r.candidate_ids \in SUBSET Candidates
          /\ board.rejected_candidate_ids \cap r.candidate_ids \in SUBSET Candidates
      BY <1>b, <1>r DEF MissionBoard, ToolResult
    <3>2. kept \in SUBSET Evidence
      BY <1>b DEF MissionBoard
    <3>3. /\ (IF lost THEN None ELSE board.confirmed_target_id) \in Candidates \cup {None}
          /\ (IF lost THEN None ELSE board.confirmed_registry_revision)
               \in Revisions \cup {None}
      BY <1>b DEF MissionBoard
    <3> HIDE DEF kept
    <3>4. QED
      BY <1>b, <3>1, <3>2, <3>3, KnowledgeFieldsTyped DEF RefreshedBoard, kept
  <2>2. ReplacedBoard(r) \in MissionBoard
    BY <1>b, <1>r DEF ReplacedBoard, MissionBoard, ToolResult
  <2>3. QED
    BY <1>2, <1>r, <2>1, <2>2, ResultedTyped, CommitTyped DEF RecordQuery
<1>3. CASE RecordInspection(r)
  <2>1. Resulted(board, r) \in MissionBoard /\ EventsOf(r) \in EventSet
    BY <1>b, <1>r, ResultedTyped
  <2>2. [Resulted(board, r) EXCEPT
           !.confirmed_target_id = r.confirmed_target_id,
           !.confirmed_registry_revision = r.registry_revision,
           !.rejected_candidate_ids = @ \ {r.confirmed_target_id}] \in MissionBoard
    BY <1>r, <2>1 DEF MissionBoard, ToolResult
  <2>3. QED
    BY <1>3, <2>1, <2>2, CommitTyped DEF RecordInspection
<1>4. CASE RecordMotion(r)
  BY <1>4, <1>b, <1>r, ResultedTyped, CommitTyped DEF RecordMotion
<1>5. QED
  BY <1>1, <1>2, <1>3, <1>4 DEF RecordToolResult

LEMMA TypeStep == TypeOK /\ [Next]_vars => TypeOK'
<1> SUFFICES ASSUME TypeOK, [Next]_vars PROVE TypeOK'
  OBVIOUS
<1> USE NoneAssumption, ResultAssumption, PolicyAssumption, RecorderAssumption
<1>b. board \in MissionBoard
  BY DEF TypeOK
<1>1. ASSUME NEW p \in CompletionPolicy, Accept(p) PROVE TypeOK'
  <2>1. board.mission_id + 1 \in Nat
    BY <1>b DEF MissionBoard
  <2>2. board' \in MissionBoard
    BY <1>1, <2>1 DEF Accept, FreshBoard, MissionBoard, LifecycleState, Reasons
  <2>3. emitted' \in EventSet
    BY <1>1, EventTyped DEF Accept, EventType
  <2>4. QED
    BY <2>2, <2>3 DEF TypeOK, EventSet
<1>2. CASE Start
  <2>1. [board EXCEPT !.lifecycle_state = "running"] \in MissionBoard
    BY <1>b DEF MissionBoard, LifecycleState
  <2>2. QED
    BY <1>2, <2>1, EventTyped, CommitTyped DEF Start, EventType
<1>3. ASSUME NEW s \in SkillName, SelectSkill(s) PROVE TypeOK'
  <2>1. [board EXCEPT !.active_skill = s, !.active_tool = None] \in MissionBoard
    BY <1>b DEF MissionBoard
  <2>2. QED
    BY <1>3, <2>1, EventTyped, CommitTyped DEF SelectSkill, EventType
<1>4. ASSUME NEW t \in ToolName, RecordToolRequest(t) PROVE TypeOK'
  <2>1. [board EXCEPT !.active_tool = t, !.last_reason_code = None] \in MissionBoard
    BY <1>b DEF MissionBoard, Reasons
  <2>2. QED
    BY <1>4, <2>1, EventTyped, CommitTyped DEF RecordToolRequest, EventType
<1>5. ASSUME NEW r \in ToolResults, RecordToolResult(r) PROVE TypeOK'
  BY <1>5, ResultTypeStep
<1>6. ASSUME NEW s \in RecorderStates, NEW c \in ReasonCodes \cup {None},
             RecordRecorderStatus(s, c)
      PROVE  TypeOK'
  <2>1. [board EXCEPT !.recorder = s, !.last_reason_code = c] \in MissionBoard
    BY <1>b DEF MissionBoard, Reasons
  <2>2. QED
    BY <1>6, <2>1, EventTyped, CommitTyped DEF RecordRecorderStatus, EventType
<1>7. ASSUME NEW t \in Candidates \cup {None}, NEW a \in BOOLEAN, NEW x \in BOOLEAN,
             NEW c \in ReasonCodes \cup {None}, Complete(t, a, x, c)
      PROVE  TypeOK'
  <2>1. [board EXCEPT !.lifecycle_state = "succeeded", !.last_reason_code = c]
          \in MissionBoard
    BY <1>b DEF MissionBoard, LifecycleState, Terminal, Reasons
  <2>2. {<<"mission_succeeded", board.confirmed_target_id>>} \in EventSet
    BY <1>b DEF MissionBoard, EventSet, EventType
  <2>3. QED
    BY <1>7, <2>1, <2>2, CommitTyped DEF Complete
<1>8. ASSUME NEW c \in ReasonCodes, RecordPlannerFailure(c) PROVE TypeOK'
  <2>1. [board EXCEPT !.consecutive_failures = @ + 1, !.last_reason_code = c]
          \in MissionBoard
    <3>1. board.consecutive_failures + 1 \in Nat /\ c \in Reasons
      BY <1>b DEF MissionBoard, Reasons
    <3>2. QED
      BY <1>b, <3>1 DEF MissionBoard
  <2>2. QED
    BY <1>8, <2>1, EventTyped, CommitTyped DEF RecordPlannerFailure, EventType
<1>9. ASSUME NEW p \in Poses, RecordBoardObservation(p) PROVE TypeOK'
  <2>1. [board EXCEPT !.robot_pose = p] \in MissionBoard
    BY <1>b DEF MissionBoard
  <2>2. QED
    BY <1>9, <2>1, EventTyped, CommitTyped DEF RecordBoardObservation, EventType
<1>10. CASE ConfigureLimits
  <2>1. [board EXCEPT !.limits_configured = TRUE] \in MissionBoard
    BY <1>b DEF MissionBoard
  <2>2. QED
    BY <1>10, <2>1, EventTyped, CommitTyped DEF ConfigureLimits, EventType
<1>11. CASE Cancel
  <2>1. [board EXCEPT !.lifecycle_state = "canceled",
                      !.last_reason_code = "cancel_requested"] \in MissionBoard
    BY <1>b DEF MissionBoard, LifecycleState, Terminal, Reasons
  <2>2. QED
    BY <1>11, <2>1, EventTyped, CommitTyped DEF Cancel, EventType
<1>12. ASSUME NEW c \in ReasonCodes, Fail(c) PROVE TypeOK'
  <2>1. [board EXCEPT !.lifecycle_state = "failed", !.last_reason_code = c]
          \in MissionBoard
    BY <1>b DEF MissionBoard, LifecycleState, Terminal, Reasons
  <2>2. QED
    BY <1>12, <2>1, EventTyped, CommitTyped DEF Fail, EventType
<1>13. CASE UNCHANGED vars
  BY <1>13 DEF vars, TypeOK
<1>14. QED
  BY <1>1, <1>2, <1>3, <1>4, <1>5, <1>6, <1>7, <1>8, <1>9, <1>10, <1>11, <1>12, <1>13
  DEF Next

(* The board and the events keep their types.                              *)
THEOREM TypeCorrect == Spec => []TypeOK
<1>1. Init => TypeOK
  BY NoneAssumption, RecorderAssumption
  DEF Init, TypeOK, FreshBoard, MissionBoard, LifecycleState, Reasons
<1>2. QED
  BY <1>1, TypeStep, PTL DEF Spec
-----------------------------------------------------------------------------
(***************************************************************************)
(* The inductive invariant.  A target without its revision, or a policy    *)
(* lost after acceptance, would let a later commit break the others.       *)
(***************************************************************************)
PolicyChosen ==
  board.lifecycle_state # "idle" => board.completion_policy \in CompletionPolicy

IInv ==
  /\ TypeOK
  /\ PolicyChosen
  /\ ConfirmedAtCurrentRevision
  /\ ApproachHasTarget
  /\ EvidenceAtCurrentRevision
  /\ SuccessHasTarget

Safe ==
  /\ PolicyChosen
  /\ ConfirmedAtCurrentRevision
  /\ ApproachHasTarget
  /\ EvidenceAtCurrentRevision
  /\ SuccessHasTarget

(* Steps that leave mission, skill, policy, confirmation and evidence      *)
(* alone, and what such a step may do to the lifecycle.                    *)
Kept ==
  /\ board'.mission_id = board.mission_id
  /\ board'.completion_policy = board.completion_policy
  /\ board'.active_skill = board.active_skill
  /\ board'.registry_revision = board.registry_revision
  /\ board'.confirmed_target_id = board.confirmed_target_id
  /\ board'.confirmed_registry_revision = board.confirmed_registry_revision
  /\ board'.candidate_evidence = board.candidate_evidence
  /\ board'.rejected_candidate_ids = board.rejected_candidate_ids

Advances ==
  \/ board'.lifecycle_state = board.lifecycle_state
  \/ board.lifecycle_state = "accepted" /\ board'.lifecycle_state = "running"
  \/ Unfinished /\ board'.lifecycle_state \in {"canceled", "failed"}
  \/ /\ board.lifecycle_state = "running"
     /\ board'.lifecycle_state = "succeeded"
     /\ board.completion_policy # "search_until_exhausted" => ConfirmationCurrent

LEMMA KeptSafe ==
  ASSUME IInv, Kept, Advances
  PROVE  Safe'
BY DEF Safe, Kept, Advances, IInv, Unfinished, PolicyChosen, ConfirmedAtCurrentRevision,
   ConfirmationCurrent, ApproachHasTarget, EvidenceAtCurrentRevision, SuccessHasTarget

(* Every step is a new mission, a skill, a tool result, or one of these.   *)
LEMMA StepShape ==
  ASSUME IInv, [Next]_vars
  PROVE  \/ \E p \in CompletionPolicy : Accept(p)
         \/ \E s \in SkillName : SelectSkill(s)
         \/ \E r \in ToolResults : RecordToolResult(r)
         \/ Kept /\ Advances
<1>b. board \in MissionBoard
  BY DEF IInv, TypeOK
<1>1. CASE Start
  BY <1>1, <1>b DEF Start, Commit, Kept, Advances, MissionBoard
<1>2. ASSUME NEW t \in ToolName, RecordToolRequest(t) PROVE Kept /\ Advances
  BY <1>2, <1>b DEF RecordToolRequest, Commit, Kept, Advances, MissionBoard
<1>3. ASSUME NEW s \in RecorderStates, NEW c \in ReasonCodes \cup {None},
             RecordRecorderStatus(s, c)
      PROVE  Kept /\ Advances
  BY <1>3, <1>b DEF RecordRecorderStatus, Commit, Kept, Advances, MissionBoard
<1>4. ASSUME NEW t \in Candidates \cup {None}, NEW a \in BOOLEAN, NEW x \in BOOLEAN,
             NEW c \in ReasonCodes \cup {None}, Complete(t, a, x, c)
      PROVE  Kept /\ Advances
  <2>1. Kept /\ board'.lifecycle_state = "succeeded" /\ board.lifecycle_state = "running"
    BY <1>4, <1>b DEF Complete, CompletionAllowed, Commit, Kept, MissionBoard
  <2>2. board.completion_policy # "search_until_exhausted" => ConfirmationCurrent
    BY <1>4, <2>1 DEF Complete, CompletionAllowed, IInv, PolicyChosen, CompletionPolicy
  <2>3. QED
    BY <2>1, <2>2 DEF Advances
<1>5. ASSUME NEW c \in ReasonCodes, RecordPlannerFailure(c) PROVE Kept /\ Advances
  BY <1>5, <1>b DEF RecordPlannerFailure, Commit, Kept, Advances, MissionBoard
<1>6. ASSUME NEW p \in Poses, RecordBoardObservation(p) PROVE Kept /\ Advances
  BY <1>6, <1>b DEF RecordBoardObservation, Commit, Kept, Advances, MissionBoard
<1>7. CASE ConfigureLimits
  BY <1>7, <1>b DEF ConfigureLimits, Commit, Kept, Advances, MissionBoard
<1>8. CASE Cancel
  BY <1>8, <1>b DEF Cancel, Commit, Kept, Advances, MissionBoard
<1>9. ASSUME NEW c \in ReasonCodes, Fail(c) PROVE Kept /\ Advances
  BY <1>9, <1>b DEF Fail, Commit, Kept, Advances, MissionBoard
<1>10. CASE UNCHANGED vars
  BY <1>10 DEF vars, Kept, Advances
<1>11. QED
  BY <1>1, <1>2, <1>3, <1>4, <1>5, <1>6, <1>7, <1>8, <1>9, <1>10 DEF Next

(* A result never withdraws the target of an approach, and leaves no       *)
(* confirmation or evidence of another revision behind.                    *)
LEMMA ResultSafe ==
  ASSUME IInv, NEW r \in ToolResults, RecordToolResult(r)
  PROVE  Safe'
<1> USE NoneAssumption, ResultAssumption
<1>b. board \in MissionBoard /\ r \in ToolResult
  BY DEF IInv, TypeOK
<1>s. board.lifecycle_state = "running" /\ ToolAllowed(r.tool)
  BY DEF RecordToolResult, ResultInScope, ToolAllowed
<1>1. CASE RecordStaleRegistryResult(r)
  <2>1. Kept /\ Advances
    BY <1>1, <1>b DEF RecordStaleRegistryResult, Commit, MissionBoard, Kept, Advances
  <2>2. QED
    BY <2>1, KeptSafe
<1>2. CASE RecordQuery(r)
  <2>1. board.active_skill # "approach_confirmed_object"
    BY <1>2, <1>s, <1>b DEF RecordQuery, ToolAllowed, SkillTools, SkillName, MissionBoard
  <2>2. r.evidence = {}
    BY <1>2, EvidenceAssumption DEF RecordQuery
  <2>3. CASE SameRevision(r)
    <3>1. /\ board'.lifecycle_state = "running"
          /\ board'.completion_policy = board.completion_policy
          /\ board'.active_skill = board.active_skill
          /\ board'.registry_revision = board.registry_revision
          /\ board'.confirmed_target_id \in {None, board.confirmed_target_id}
          /\ board'.confirmed_target_id # None =>
               board'.confirmed_registry_revision = board.confirmed_registry_revision
          /\ board'.candidate_evidence \subseteq board.candidate_evidence
      BY <1>2, <1>s, <1>b, <2>2, <2>3
      DEF RecordQuery, RefreshedBoard, Resulted, SameRevision, Commit, MissionBoard
    <3>2. QED
      BY <2>1, <3>1, <1>s DEF Safe, IInv, PolicyChosen, ConfirmedAtCurrentRevision,
         ConfirmationCurrent, ApproachHasTarget, EvidenceAtCurrentRevision, SuccessHasTarget
  <2>4. CASE ~SameRevision(r)
    <3>1. /\ board'.lifecycle_state = "running"
          /\ board'.completion_policy = board.completion_policy
          /\ board'.active_skill = board.active_skill
          /\ board'.confirmed_target_id = None
          /\ board'.candidate_evidence = {}
      BY <1>2, <1>s, <1>b, <2>2, <2>4
      DEF RecordQuery, ReplacedBoard, Resulted, Commit, MissionBoard
    <3>2. QED
      BY <2>1, <3>1, <1>s DEF Safe, IInv, PolicyChosen, ConfirmedAtCurrentRevision,
         ConfirmationCurrent, ApproachHasTarget, EvidenceAtCurrentRevision, SuccessHasTarget
  <2>5. QED
    BY <2>3, <2>4
<1>3. CASE RecordInspection(r)
  <2>1. board.active_skill # "approach_confirmed_object"
    BY <1>3, <1>s, <1>b DEF RecordInspection, ToolAllowed, SkillTools, SkillName, MissionBoard
  <2>2. r.registry_revision \in {None, board.registry_revision}
    BY <1>3 DEF RecordInspection, InspectionStale
  <2>3. r.registry_revision # None => EvidenceInScope(r)
    BY <1>3 DEF RecordInspection, InspectionStale
  <2>4. r.evidence # {} => r.registry_revision # None
    BY EvidenceAssumption
  <2>5. /\ board'.lifecycle_state = "running"
        /\ board'.completion_policy = board.completion_policy
        /\ board'.active_skill = board.active_skill
        /\ board'.registry_revision = board.registry_revision
        /\ board'.candidate_evidence =
             IF r.evidence # {} THEN r.evidence ELSE board.candidate_evidence
    <3> DEFINE b == Resulted(board, r)
    <3>1. b \in MissionBoard
      BY <1>b, ResultedTyped
    <3>4. /\ b.lifecycle_state = "running"
          /\ b.completion_policy = board.completion_policy
          /\ b.active_skill = board.active_skill
      BY <1>s, <1>b DEF Resulted, MissionBoard, ToolAllowed
    <3>5. b.registry_revision = board.registry_revision
      BY <1>b, <2>2 DEF Resulted, MissionBoard
    <3>6. b.candidate_evidence = IF r.evidence # {} THEN r.evidence
                                 ELSE board.candidate_evidence
      BY <1>b DEF Resulted, MissionBoard
    <3> HIDE DEF b
    <3>2. CASE r.confirmed_target_id = None
      <4>1. board' = [b EXCEPT !.board_revision = board.board_revision + 1]
        BY <1>3, <3>2 DEF RecordInspection, Commit, b
      <4>2. QED
        BY <4>1, <3>1, <3>4, <3>5, <3>6 DEF MissionBoard
    <3>3. CASE r.confirmed_target_id # None
      <4>1. board' = [[b EXCEPT !.confirmed_target_id = r.confirmed_target_id,
                                !.confirmed_registry_revision = r.registry_revision,
                                !.rejected_candidate_ids = @ \ {r.confirmed_target_id}]
                        EXCEPT !.board_revision = board.board_revision + 1]
        BY <1>3, <3>3 DEF RecordInspection, Commit, b
      <4>2. QED
        BY <4>1, <3>1, <3>4, <3>5, <3>6 DEF MissionBoard
    <3>7. QED
      BY <3>2, <3>3
  <2>6. \/ /\ board'.confirmed_target_id = board.confirmed_target_id
           /\ board'.confirmed_registry_revision = board.confirmed_registry_revision
        \/ /\ board'.confirmed_registry_revision = board.registry_revision
           /\ board.registry_revision # None
    BY <1>3, <1>b, <2>2
    DEF RecordInspection, ConfirmationBacked, Resulted, Commit, MissionBoard
  <2>7. EvidenceAtCurrentRevision'
    BY <2>2, <2>3, <2>4, <2>5 DEF EvidenceAtCurrentRevision, EvidenceInScope, IInv
  <2>8. QED
    BY <1>s, <2>1, <2>5, <2>6, <2>7 DEF Safe, IInv, PolicyChosen,
       ConfirmedAtCurrentRevision, ConfirmationCurrent, ApproachHasTarget, SuccessHasTarget
<1>4. CASE RecordMotion(r)
  <2>1. r.evidence = {}
    BY <1>4, EvidenceAssumption DEF RecordMotion
  <2>2. \/ r.registry_revision = None
        \/ board.registry_revision = None
        \/ r.registry_revision = board.registry_revision
    BY <1>4 DEF RecordMotion, Stale, RevisionChanged
  <2>3. /\ board'.lifecycle_state = "running"
        /\ board'.completion_policy = board.completion_policy
        /\ board'.active_skill = board.active_skill
        /\ board'.registry_revision = board.registry_revision
             \/ board.registry_revision = None
        /\ board'.confirmed_target_id = board.confirmed_target_id
        /\ board'.confirmed_registry_revision = board.confirmed_registry_revision
        /\ board'.candidate_evidence = board.candidate_evidence
    BY <1>4, <1>s, <1>b, <2>1, <2>2 DEF RecordMotion, Resulted, Commit, MissionBoard
  <2>4. board.registry_revision = None => board.candidate_evidence = {}
    BY <1>b DEF IInv, EvidenceAtCurrentRevision, MissionBoard, Evidence
  <2>5. QED
    BY <1>s, <2>3, <2>4 DEF Safe, IInv, PolicyChosen, ConfirmedAtCurrentRevision,
       ConfirmationCurrent, ApproachHasTarget, EvidenceAtCurrentRevision, SuccessHasTarget
<1>5. QED
  BY <1>1, <1>2, <1>3, <1>4 DEF RecordToolResult

LEMMA SafeStep == IInv /\ [Next]_vars => Safe'
<1> SUFFICES ASSUME IInv, [Next]_vars PROVE Safe'
  OBVIOUS
<1> USE NoneAssumption, PolicyAssumption
<1>b. board \in MissionBoard
  BY DEF IInv, TypeOK
<1>1. ASSUME NEW p \in CompletionPolicy, Accept(p) PROVE Safe'
  <2>1. /\ board'.lifecycle_state = "accepted"
        /\ board'.completion_policy \in CompletionPolicy
        /\ board'.active_skill = None
        /\ board'.confirmed_target_id = None
        /\ board'.candidate_evidence = {}
    BY <1>1 DEF Accept, FreshBoard
  <2>2. QED
    BY <2>1 DEF Safe, PolicyChosen, ConfirmedAtCurrentRevision, ApproachHasTarget,
       EvidenceAtCurrentRevision, SuccessHasTarget, SkillName
<1>2. ASSUME NEW s \in SkillName, SelectSkill(s) PROVE Safe'
  <2>1. /\ board'.lifecycle_state = "running" /\ board.lifecycle_state = "running"
        /\ board'.completion_policy = board.completion_policy
        /\ board'.active_skill = s
        /\ board'.registry_revision = board.registry_revision
        /\ board'.confirmed_target_id = board.confirmed_target_id
        /\ board'.confirmed_registry_revision = board.confirmed_registry_revision
        /\ board'.candidate_evidence = board.candidate_evidence
    BY <1>2, <1>b DEF SelectSkill, Commit, MissionBoard
  <2>2. s = "approach_confirmed_object" => board.confirmed_target_id # None
    BY <1>2 DEF SelectSkill, SkillAllowed, ConfirmationCurrent
  <2>3. QED
    BY <2>1, <2>2 DEF Safe, IInv, PolicyChosen, ConfirmedAtCurrentRevision,
       ConfirmationCurrent, ApproachHasTarget, EvidenceAtCurrentRevision, SuccessHasTarget
<1>3. ASSUME NEW r \in ToolResults, RecordToolResult(r) PROVE Safe'
  BY <1>3, ResultSafe
<1>4. CASE Kept /\ Advances
  BY <1>4, KeptSafe
<1>5. QED
  BY <1>1, <1>2, <1>3, <1>4, StepShape

LEMMA InitInv == Init => IInv
BY NoneAssumption, RecorderAssumption
DEF Init, IInv, TypeOK, FreshBoard, MissionBoard, LifecycleState, Reasons, PolicyChosen,
    ConfirmedAtCurrentRevision, ApproachHasTarget, EvidenceAtCurrentRevision,
    SuccessHasTarget, SkillName

LEMMA InvariantHolds == Spec => []IInv
<1>1. IInv /\ [Next]_vars => IInv'
  BY TypeStep, SafeStep DEF IInv, Safe
<1>2. QED
  BY InitInv, <1>1, PTL DEF Spec

(* A confirmed target belongs to the registry revision the board shows.    *)
THEOREM ConfirmationIsCurrent == Spec => []ConfirmedAtCurrentRevision
<1>1. IInv => ConfirmedAtCurrentRevision
  BY DEF IInv
<1>2. QED
  BY <1>1, InvariantHolds, PTL

(* The approach skill never runs without a confirmed target.               *)
THEOREM ApproachIsConfirmed == Spec => []ApproachHasTarget
<1>1. IInv => ApproachHasTarget
  BY DEF IInv
<1>2. QED
  BY <1>1, InvariantHolds, PTL

(* The evidence shown on the board is of the revision shown on the board.  *)
THEOREM EvidenceIsCurrent == Spec => []EvidenceAtCurrentRevision
<1>1. IInv => EvidenceAtCurrentRevision
  BY DEF IInv
<1>2. QED
  BY <1>1, InvariantHolds, PTL

(* Success under a policy that names a target has a current target.        *)
THEOREM SuccessIsConfirmed == Spec => []SuccessHasTarget
<1>1. IInv => SuccessHasTarget
  BY DEF IInv
<1>2. QED
  BY <1>1, InvariantHolds, PTL

(* All of it at once: target, evidence and registry revision stay together *)
(* whatever results arrive.                                                *)
THEOREM TargetCurrent == Spec => []TargetIsCurrent
<1>1. IInv => TargetIsCurrent
  BY DEF IInv, TargetIsCurrent
<1>2. QED
  BY <1>1, InvariantHolds, PTL
-----------------------------------------------------------------------------
(***************************************************************************)
(* Steps: what one commit may do to an approach, to a finished mission and *)
(* to the promise of ConfirmedApproach.                                    *)
(***************************************************************************)

LEMMA ResultStep ==
  ASSUME IInv, NEW r \in ToolResults, RecordToolResult(r)
  PROVE  /\ board.lifecycle_state = "running"
         /\ board'.lifecycle_state = "running"
         /\ board'.mission_id = board.mission_id
         /\ board'.completion_policy = board.completion_policy
         /\ board'.active_skill = board.active_skill
         /\ board.active_skill = "approach_confirmed_object" =>
              /\ board'.confirmed_target_id = board.confirmed_target_id
              /\ board'.registry_revision = board.registry_revision
<1> USE NoneAssumption, ResultAssumption
<1>b. board \in MissionBoard /\ r \in ToolResult
  BY DEF IInv, TypeOK
<1>s. board.lifecycle_state = "running" /\ ToolAllowed(r.tool)
  BY DEF RecordToolResult, ResultInScope, ToolAllowed
<1> DEFINE Same(b) == /\ b.lifecycle_state = "running"
                      /\ b.mission_id = board.mission_id
                      /\ b.completion_policy = board.completion_policy
                      /\ b.active_skill = board.active_skill
<1>1. CASE RecordStaleRegistryResult(r)
  BY <1>1, <1>b, <1>s DEF RecordStaleRegistryResult, Commit, MissionBoard
<1>2. CASE RecordQuery(r)
  <2>1. board.active_skill # "approach_confirmed_object"
    BY <1>2, <1>s, <1>b DEF RecordQuery, ToolAllowed, SkillTools, SkillName, MissionBoard
  <2>2. Same(RefreshedBoard(r)) /\ Same(ReplacedBoard(r))
    BY <1>s, <1>b DEF RefreshedBoard, ReplacedBoard, MissionBoard
  <2>3. Same(board')
    BY <1>2, <1>s, <1>b
    DEF RecordQuery, RefreshedBoard, ReplacedBoard, Resulted, Commit, MissionBoard
  <2>4. QED
    BY <1>s, <2>1, <2>3
<1>3. CASE RecordInspection(r)
  <2>1. board.active_skill # "approach_confirmed_object"
    BY <1>3, <1>s, <1>b DEF RecordInspection, ToolAllowed, SkillTools, SkillName, MissionBoard
  <2>2. Same(board')
    <3> DEFINE b == Resulted(board, r)
    <3>1. b \in MissionBoard
      BY <1>b, ResultedTyped
    <3>2. Same(b)
      BY <1>s, <1>b DEF Resulted, MissionBoard, ToolAllowed
    <3> HIDE DEF b
    <3>3. CASE r.confirmed_target_id = None
      <4>1. board' = [b EXCEPT !.board_revision = board.board_revision + 1]
        BY <1>3, <3>3 DEF RecordInspection, Commit, b
      <4>2. QED
        BY <4>1, <3>1, <3>2 DEF MissionBoard
    <3>4. CASE r.confirmed_target_id # None
      <4>1. board' = [[b EXCEPT !.confirmed_target_id = r.confirmed_target_id,
                                !.confirmed_registry_revision = r.registry_revision,
                                !.rejected_candidate_ids = @ \ {r.confirmed_target_id}]
                        EXCEPT !.board_revision = board.board_revision + 1]
        BY <1>3, <3>4 DEF RecordInspection, Commit, b
      <4>2. QED
        BY <4>1, <3>1, <3>2 DEF MissionBoard
    <3>5. QED
      BY <3>3, <3>4
  <2>3. QED
    BY <1>s, <2>1, <2>2
<1>4. CASE RecordMotion(r)
  <2>1. Same(board') /\ board'.confirmed_target_id = board.confirmed_target_id
    BY <1>4, <1>s, <1>b DEF RecordMotion, Resulted, Commit, MissionBoard
  <2>2. board'.registry_revision = IF r.registry_revision # None THEN r.registry_revision
                                   ELSE board.registry_revision
    BY <1>4, <1>b DEF RecordMotion, Resulted, Commit, MissionBoard
  <2>3. board.active_skill = "approach_confirmed_object" => board.registry_revision # None
    BY DEF IInv, ApproachHasTarget, ConfirmedAtCurrentRevision, ConfirmationCurrent
  <2>4. QED
    BY <1>4, <1>s, <2>1, <2>2, <2>3 DEF RecordMotion, Stale, RevisionChanged
<1>5. QED
  BY <1>1, <1>2, <1>3, <1>4 DEF RecordToolResult

LEMMA SkillStep ==
  ASSUME IInv, NEW s \in SkillName, SelectSkill(s)
  PROVE  /\ board.lifecycle_state = "running"
         /\ board'.lifecycle_state = "running"
         /\ board'.mission_id = board.mission_id
         /\ board'.completion_policy = board.completion_policy
         /\ board'.confirmed_target_id = board.confirmed_target_id
         /\ board'.registry_revision = board.registry_revision
         /\ board'.active_skill = s
         /\ board.active_skill = "approach_confirmed_object" => s = board.active_skill
         /\ s = "approach_confirmed_object" => board.confirmed_target_id # None
<1>1. /\ board.lifecycle_state = "running"
      /\ board'.lifecycle_state = "running"
      /\ board'.mission_id = board.mission_id
      /\ board'.completion_policy = board.completion_policy
      /\ board'.confirmed_target_id = board.confirmed_target_id
      /\ board'.registry_revision = board.registry_revision
      /\ board'.active_skill = s
  BY DEF SelectSkill, Commit, IInv, TypeOK, MissionBoard
<1>2. board.active_skill = "approach_confirmed_object" => s = board.active_skill
  BY NoneAssumption DEF SelectSkill, SkillAllowed, SkillName
<1>3. s = "approach_confirmed_object" => board.confirmed_target_id # None
  BY DEF SelectSkill, SkillAllowed, ConfirmationCurrent
<1>4. QED
  BY <1>1, <1>2, <1>3

LEMMA SkillTrail ==
  ASSUME IInv, NEW s \in SkillName, SelectSkill(s)
  PROVE  board'.rejected_candidate_ids = board.rejected_candidate_ids
BY DEF SelectSkill, Commit, IInv, TypeOK, MissionBoard

LEMMA AcceptStep ==
  ASSUME IInv, NEW p \in CompletionPolicy, Accept(p)
  PROVE  /\ board.lifecycle_state \in {"idle"} \cup Terminal
         /\ board'.lifecycle_state = "accepted"
         /\ board.mission_id < MaxMissions
         /\ board'.mission_id = board.mission_id + 1
         /\ board'.mission_id # board.mission_id
         /\ board'.completion_policy \in CompletionPolicy
         /\ board'.active_skill = None
         /\ board'.confirmed_target_id = None
<1>1. board \in MissionBoard
  BY DEF IInv, TypeOK
<1>2. board.mission_id + 1 # board.mission_id
  BY <1>1 DEF MissionBoard
<1>3. QED
  BY <1>1, <1>2, PolicyAssumption
  DEF Accept, FreshBoard, Unfinished, MissionBoard, LifecycleState

(* Whatever the tools report, an approach keeps its target and revision.   *)
THEOREM ApproachIsStable == Spec => ApproachKeepsTarget
<1> DEFINE Stable ==
      (/\ board.active_skill = "approach_confirmed_object"
       /\ board'.mission_id = board.mission_id)
      => /\ board'.active_skill = board.active_skill
         /\ board'.confirmed_target_id = board.confirmed_target_id
         /\ board'.registry_revision = board.registry_revision
<1>1. IInv /\ [Next]_vars => [Stable]_vars
  BY StepShape, AcceptStep, SkillStep, ResultStep DEF Kept
<1>2. QED
  BY <1>1, InvariantHolds, PTL DEF Spec, ApproachKeepsTarget

(* The fields the trail is about, after each kind of tool result.          *)
LEMMA ResultTrail ==
  ASSUME IInv, NEW r \in ToolResults, RecordToolResult(r)
  PROVE  \/ /\ board'.confirmed_target_id \in {None, board.confirmed_target_id}
            /\ board'.rejected_candidate_ids = board.rejected_candidate_ids
         \/ /\ emitted' = EventsOf(r)
            /\ board'.rejected_candidate_ids
                 \subseteq board.rejected_candidate_ids \cup r.rejected_candidate_ids
            /\ board'.confirmed_target_id
                 \in {None, board.confirmed_target_id, r.confirmed_target_id}
<1> USE NoneAssumption, ResultAssumption
<1>b. board \in MissionBoard /\ r \in ToolResult
  BY DEF IInv, TypeOK
<1>1. CASE RecordStaleRegistryResult(r)
  BY <1>1, <1>b DEF RecordStaleRegistryResult, Commit, MissionBoard
<1>2. CASE RecordQuery(r)
  BY <1>2, <1>b
  DEF RecordQuery, RefreshedBoard, ReplacedBoard, Resulted, Commit, MissionBoard
<1>3. CASE RecordInspection(r)
  <2> DEFINE b == Resulted(board, r)
  <2>1. b \in MissionBoard
    BY <1>b, ResultedTyped
  <2>2. /\ b.confirmed_target_id = board.confirmed_target_id
        /\ b.rejected_candidate_ids = board.rejected_candidate_ids \cup r.rejected_candidate_ids
    BY <1>b DEF Resulted, MissionBoard
  <2> HIDE DEF b
  <2>3. CASE r.confirmed_target_id = None
    <3>1. board' = [b EXCEPT !.board_revision = board.board_revision + 1]
          /\ emitted' = EventsOf(r)
      BY <1>3, <2>3 DEF RecordInspection, Commit, b
    <3>2. QED
      BY <2>1, <2>2, <3>1 DEF MissionBoard
  <2>4. CASE r.confirmed_target_id # None
    <3>1. /\ board' = [[b EXCEPT !.confirmed_target_id = r.confirmed_target_id,
                                 !.confirmed_registry_revision = r.registry_revision,
                                 !.rejected_candidate_ids = @ \ {r.confirmed_target_id}]
                         EXCEPT !.board_revision = board.board_revision + 1]
          /\ emitted' = EventsOf(r)
      BY <1>3, <2>4 DEF RecordInspection, Commit, b
    <3>2. QED
      BY <2>1, <2>2, <3>1 DEF MissionBoard
  <2>5. QED
    BY <2>3, <2>4
<1>4. CASE RecordMotion(r)
  BY <1>4, <1>b DEF RecordMotion, Resulted, Commit, MissionBoard
<1>5. QED
  BY <1>1, <1>2, <1>3, <1>4 DEF RecordToolResult

(* Each confirmation and each rejection is told by an event of its commit. *)
THEOREM TrailIsComplete == Spec => AuditTrail
<1> DEFINE Trail ==
      /\ board'.confirmed_target_id \notin {None, board.confirmed_target_id}
         => /\ <<"candidate_confirmed", board'.confirmed_target_id>> \in emitted'
            /\ <<"candidate_rejected", board'.confirmed_target_id>> \notin emitted'
      /\ board'.mission_id = board.mission_id
         => \A c \in board'.rejected_candidate_ids \ board.rejected_candidate_ids :
              <<"candidate_rejected", c>> \in emitted'
<1>1. ASSUME IInv, [Next]_vars PROVE Trail
  <2>1. ASSUME NEW r \in ToolResults, RecordToolResult(r) PROVE Trail
    <3>1. CASE emitted' = EventsOf(r)
      <4>1. \A c \in r.rejected_candidate_ids : <<"candidate_rejected", c>> \in emitted'
        BY <3>1 DEF EventsOf
      <4>2. ASSUME r.confirmed_target_id # None
            PROVE  /\ <<"candidate_confirmed", r.confirmed_target_id>> \in emitted'
                   /\ <<"candidate_rejected", r.confirmed_target_id>> \notin emitted'
        BY <3>1, <4>2, VerdictAssumption DEF EventsOf
      <4>3. QED
        BY <1>1, <2>1, <4>1, <4>2, ResultTrail
    <3>2. CASE emitted' # EventsOf(r)
      BY <1>1, <2>1, <3>2, ResultTrail
    <3>3. QED
      BY <3>1, <3>2
  <2>2. QED
    BY <1>1, <2>1, StepShape, AcceptStep, SkillStep, SkillTrail DEF Kept
<1>2. QED
  BY <1>1, InvariantHolds, PTL DEF Spec, AuditTrail

(* A finished mission keeps its outcome, its target and its policy.        *)
THEOREM OutcomesAreFinal == Spec => OutcomeIsFinal
<1> DEFINE Final ==
      (/\ board.lifecycle_state \in Terminal
       /\ board'.mission_id = board.mission_id)
      => /\ board'.lifecycle_state = board.lifecycle_state
         /\ board'.confirmed_target_id = board.confirmed_target_id
         /\ board'.completion_policy = board.completion_policy
<1>1. IInv /\ [Next]_vars => [Final]_vars
  BY StepShape, AcceptStep, SkillStep, ResultStep DEF Kept, Advances, Terminal, Unfinished
<1>2. QED
  BY <1>1, InvariantHolds, PTL DEF Spec, OutcomeIsFinal

(* The executive keeps the promise of the abstract mission.                *)
THEOREM Refinement == Spec => ImplementsPromise
<1> USE NoneAssumption DEF Promise!vars, SkillName
<1>1. Init => Promise!Init
  BY DEF Init, FreshBoard, Promise!Init
<1>2. IInv /\ IInv' /\ [Next]_vars => [Promise!Next]_(Promise!vars)
  <2> SUFFICES ASSUME IInv, IInv', [Next]_vars PROVE [Promise!Next]_(Promise!vars)
    OBVIOUS
  <2>t. board'.confirmed_target_id \in Candidates \cup {None}
    BY DEF IInv, TypeOK, MissionBoard
  <2>1. ASSUME NEW p \in CompletionPolicy, Accept(p) PROVE Promise!Accept
    BY <2>1, AcceptStep DEF Promise!Accept, Promise!Finished, Terminal
  <2>2. ASSUME NEW s \in SkillName, SelectSkill(s) PROVE [Promise!Next]_(Promise!vars)
    <3>1. CASE s = "approach_confirmed_object"
      <4>1. Promise!Handoff
        BY <2>2, <3>1, SkillStep DEF Promise!Handoff
      <4>2. QED
        BY <4>1 DEF Promise!Next
    <3>2. CASE s # "approach_confirmed_object"
      BY <2>2, <3>2, SkillStep
    <3>3. QED
      BY <3>1, <3>2
  <2>3. ASSUME NEW r \in ToolResults, RecordToolResult(r)
        PROVE  [Promise!Next]_(Promise!vars)
    <3>1. CASE board.active_skill = "approach_confirmed_object"
      BY <2>3, <3>1, ResultStep
    <3>2. CASE board.active_skill # "approach_confirmed_object"
      <4>1. Promise!Retarget
        BY <2>3, <3>2, <2>t, ResultStep DEF Promise!Retarget
      <4>2. QED
        BY <4>1 DEF Promise!Next
    <3>3. QED
      BY <3>1, <3>2
  <2>4. ASSUME Kept, Advances PROVE [Promise!Next]_(Promise!vars)
    <3>1. CASE board'.lifecycle_state = board.lifecycle_state
      BY <2>4, <3>1 DEF Kept
    <3>2. CASE board.lifecycle_state = "accepted" /\ board'.lifecycle_state = "running"
      BY <2>4, <3>2 DEF Kept, Promise!Start, Promise!Next
    <3>3. CASE Unfinished /\ board'.lifecycle_state \in {"canceled", "failed"}
      BY <2>4, <3>3 DEF Kept, Unfinished, Promise!GiveUp, Promise!Next
    <3>4. CASE /\ board.lifecycle_state = "running"
               /\ board'.lifecycle_state = "succeeded"
               /\ board.completion_policy # "search_until_exhausted" => ConfirmationCurrent
      BY <2>4, <3>4 DEF Kept, ConfirmationCurrent, Promise!Succeed, Promise!Next
    <3>5. QED
      BY <2>4, <3>1, <3>2, <3>3, <3>4 DEF Advances
  <2>5. QED
    BY <2>1, <2>2, <2>3, <2>4, StepShape DEF Promise!Next
<1>3. QED
  BY <1>1, <1>2, InvariantHolds, PTL DEF Spec, ImplementsPromise, Promise!Spec
=============================================================================
