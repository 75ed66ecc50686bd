--------------------------- MODULE MissionExecutive ---------------------------
(***************************************************************************)
(* The deterministic mission executive of muto_command_layer_v2: the board *)
(* and the methods that commit to it.  A method that raises an exception   *)
(* leaves the board as it was, so it is an action that is not enabled.     *)
(*                                                                         *)
(* Identifiers are members of small sets; None stands for the empty string *)
(* and for Python's None.  The order of candidates is not modelled.        *)
(***************************************************************************)
EXTENDS Naturals, FiniteSets

CONSTANTS
  Candidates,      \* registry identities
  Revisions,       \* registry revisions
  ReasonCodes,     \* reason codes that callers and authorities pass
  Poses,           \* robot poses
  RecorderStates,  \* <<available, uri>> pairs of the recorder
  NoRecorder,      \* the pair a fresh board starts from
  ToolResults,     \* argument records of record_tool_result
  ScenarioPolicy,  \* scenario_completion_policy, or None
  None,
  MaxMissions,     \* bound on accepted missions
  MaxRevision      \* bound on the board revision within a mission

Terminal == {"succeeded", "canceled", "failed"}
LifecycleState == {"idle", "accepted", "running"} \cup Terminal
CompletionPolicy ==
  {"report_confirmed", "approach_confirmed", "search_until_exhausted"}
SkillName == {"search_for_object", "approach_confirmed_object"}
ToolName == {"query_registry", "inspect_candidates", "observe",
             "rotate_to_heading", "go_to_point"}

SkillTools ==
  [s \in SkillName |->
     IF s = "search_for_object"
     THEN {"query_registry", "inspect_candidates", "observe", "rotate_to_heading"}
     ELSE {"rotate_to_heading", "go_to_point"}]

SearchExhaustionReasonCodes == {"poi_exhausted", "search_exhausted"}

Reasons == ReasonCodes \cup {"stale_registry_result", "cancel_requested", None}

(* Evidence for one candidate; "matches" is what confirmation_matches_-    *)
(* request finds for the mission's complete object request.                *)
Evidence == [candidate_id : Candidates, registry_revision : Revisions,
             matches : BOOLEAN]

ToolResult ==
  [tool : ToolName, success : BOOLEAN, reason_code : ReasonCodes \cup {None},
   candidate_id : Candidates \cup {None},
   confirmed_target_id : Candidates \cup {None},
   candidate_ids : SUBSET Candidates, rejected_candidate_ids : SUBSET Candidates,
   registry_revision : Revisions \cup {None}, progress : BOOLEAN,
   expected_registry_revision : Revisions \cup {None},
   evidence : SUBSET Evidence]

ASSUME NoneAssumption ==
  None \notin Candidates \cup Revisions \cup SkillName \cup ToolName \cup CompletionPolicy
ASSUME ResultAssumption == ToolResults \subseteq ToolResult
(* Only an inspection carries evidence, and none without a revision: see   *)
(* V2ToolBackend, whose other results leave the field empty.               *)
ASSUME EvidenceAssumption ==
  \A r \in ToolResults :
    r.evidence # {} => r.tool = "inspect_candidates" /\ r.registry_revision # None
(* It has one verdict on each candidate.                                   *)
ASSUME VerdictAssumption ==
  \A r \in ToolResults : r.confirmed_target_id \notin r.rejected_candidate_ids
ASSUME CandidateAssumption == IsFiniteSet(Candidates)
ASSUME PolicyAssumption == ScenarioPolicy \in CompletionPolicy \cup {None}
ASSUME RecorderAssumption == NoRecorder \in RecorderStates
ASSUME BoundAssumption == MaxMissions \in Nat /\ MaxRevision \in Nat

VARIABLES
  board,          \* the current MissionBoard
  emitted         \* the events the last commit appended to the event list

vars == <<board, emitted>>

MissionBoard ==
  [lifecycle_state : LifecycleState, mission_id : Nat,
   completion_policy : CompletionPolicy \cup {None},
   active_skill : SkillName \cup {None}, active_tool : ToolName \cup {None},
   board_revision : Nat, registry_revision : Revisions \cup {None},
   shortlisted_candidate_ids : SUBSET Candidates,
   rejected_candidate_ids : SUBSET Candidates,
   confirmed_target_id : Candidates \cup {None},
   confirmed_registry_revision : Revisions \cup {None},
   robot_pose : Poses \cup {None},
   consecutive_failures : Nat, no_progress_count : Nat,
   last_reason_code : Reasons, recorder : RecorderStates,
   limits_configured : BOOLEAN, candidate_evidence : SUBSET Evidence]

(* The board of mission m, numbered by _mission_counter; 0 is the board    *)
(* the executive is built with.                                            *)
FreshBoard(m, state, policy, revision) ==
  [lifecycle_state |-> state, mission_id |-> m, completion_policy |-> policy,
   active_skill |-> None, active_tool |-> None, board_revision |-> revision,
   registry_revision |-> None, shortlisted_candidate_ids |-> {},
   rejected_candidate_ids |-> {}, confirmed_target_id |-> None,
   confirmed_registry_revision |-> None, robot_pose |-> None,
   consecutive_failures |-> 0, no_progress_count |-> 0, last_reason_code |-> None,
   recorder |-> NoRecorder, limits_configured |-> FALSE, candidate_evidence |-> {}]

(* evolve and _emit: the new board is the next revision; its events, each  *)
(* with the candidate it names, are appended after it is assigned and so   *)
(* carry that revision and the new lifecycle.                              *)
Commit(b, events) ==
  /\ board.board_revision < MaxRevision
  /\ board' = [b EXCEPT !.board_revision = board.board_revision + 1]
  /\ emitted' = events

Event(type) == {<<type, None>>}

Unfinished == board.lifecycle_state \in {"accepted", "running"}

ConfirmationCurrent ==
  /\ board.confirmed_target_id # None
  /\ board.confirmed_registry_revision # None
  /\ board.confirmed_registry_revision = board.registry_revision
-----------------------------------------------------------------------------
Init ==
  /\ board = FreshBoard(0, "idle", None, 0)
  /\ emitted = {}

Accept(policy) ==
  /\ ~Unfinished
  /\ board.mission_id < MaxMissions
  /\ board' = FreshBoard(board.mission_id + 1, "accepted",
                IF ScenarioPolicy # None THEN ScenarioPolicy ELSE policy, 1)
  /\ emitted' = Event("mission_accepted")

Start ==
  /\ board.lifecycle_state = "accepted"
  /\ Commit([board EXCEPT !.lifecycle_state = "running"], Event("mission_started"))

(* Mutant of SkillAllowed: an approach may be given up for a search.       *)
SkillAllowedBothWays(skill) == skill = "approach_confirmed_object" => ConfirmationCurrent

SkillAllowed(skill) ==
  /\ board.active_skill \notin {None, skill} =>
       board.active_skill = "search_for_object" /\ ConfirmationCurrent
  /\ skill = "approach_confirmed_object" => ConfirmationCurrent

SelectSkill(skill) ==
  /\ board.lifecycle_state = "running"
  /\ SkillAllowed(skill)
  /\ Commit([board EXCEPT !.active_skill = skill, !.active_tool = None],
            Event("skill_selected"))

ToolAllowed(tool) ==
  /\ board.lifecycle_state = "running"
  /\ board.active_skill # None
  /\ tool \in SkillTools[board.active_skill]

RecordToolRequest(tool) ==
  /\ ToolAllowed(tool)
  /\ Commit([board EXCEPT !.active_tool = tool, !.last_reason_code = None],
            Event("tool_requested"))
-----------------------------------------------------------------------------
(* record_tool_result.  r is its argument record.                          *)

ResultInScope(r) ==
  /\ ToolAllowed(r.tool)
  /\ r.tool = "go_to_point" /\ board.active_skill = "approach_confirmed_object" /\ r.success
       => r.candidate_id = board.confirmed_target_id

RevisionChanged(r) ==
  /\ r.registry_revision # None
  /\ board.registry_revision # None
  /\ r.registry_revision # board.registry_revision

SameRevision(r) ==
  /\ r.registry_revision # None
  /\ r.registry_revision = board.registry_revision

EvidenceInScope(r) ==
  \A e \in r.evidence :
    /\ e.registry_revision = r.registry_revision
    /\ e.candidate_id \in r.candidate_ids

InspectionStale(r) ==
  /\ r.tool = "inspect_candidates"
  /\ \/ /\ r.expected_registry_revision # None
        /\ board.registry_revision # r.expected_registry_revision
     \/ /\ r.registry_revision # None
        /\ \/ r.registry_revision # board.registry_revision
           \/ r.candidate_ids = {}
           \/ ~(r.candidate_ids \subseteq board.shortlisted_candidate_ids)
           \/ ~EvidenceInScope(r)

(* Mutant of Stale: only inspections are compared with the board.          *)
StaleInspectionOnly(r) == InspectionStale(r)

Stale(r) ==
  \/ InspectionStale(r)
  \/ RevisionChanged(r) /\ r.tool # "query_registry"

RecordStaleRegistryResult(r) ==
  /\ Stale(r)
  /\ Commit([board EXCEPT !.active_tool = r.tool, !.consecutive_failures = @ + 1,
                          !.last_reason_code = "stale_registry_result"],
            Event("tool_result"))

(* What every result that is not stale writes: counters, reason, revision, *)
(* and the rejected candidates moved off the shortlist.                    *)
Resulted(b, r) ==
  [b EXCEPT
     !.active_tool = r.tool,
     !.registry_revision = IF r.registry_revision # None THEN r.registry_revision ELSE @,
     !.consecutive_failures = IF r.success THEN 0 ELSE @ + 1,
     !.no_progress_count = IF ~r.success THEN @ ELSE IF r.progress THEN 0 ELSE @ + 1,
     !.last_reason_code = r.reason_code,
     !.shortlisted_candidate_ids = @ \ r.rejected_candidate_ids,
     !.rejected_candidate_ids = @ \cup r.rejected_candidate_ids,
     !.candidate_evidence = IF r.evidence # {} THEN r.evidence ELSE @]

(* Mutant of EventsOf: a confirmation is told by the tool result alone.    *)
EventsWithoutConfirmation(r) ==
  {<<"tool_result", r.candidate_id>>}
    \cup {<<"candidate_rejected", c>> : c \in r.rejected_candidate_ids}

EventsOf(r) ==
  {<<"tool_result", r.candidate_id>>}
    \cup {<<"candidate_rejected", c>> : c \in r.rejected_candidate_ids}
    \cup {<<"candidate_confirmed", c>> : c \in {r.confirmed_target_id} \ {None}}

(* A lookup at the board's own revision refreshes the shortlist.           *)
RefreshedBoard(r) ==
  LET lost == board.confirmed_target_id \notin r.candidate_ids \cup {None}
  IN [board EXCEPT
        !.shortlisted_candidate_ids = r.candidate_ids,
        !.rejected_candidate_ids = @ \cap r.candidate_ids,
        !.confirmed_target_id = IF lost THEN None ELSE @,
        !.confirmed_registry_revision = IF lost THEN None ELSE @,
        !.candidate_evidence =
           IF board.confirmed_target_id = None THEN @
           ELSE {e \in @ : /\ ~lost
                           /\ e.registry_revision = r.registry_revision
                           /\ e.candidate_id \in r.candidate_ids}]

(* Mutant of ReplacedBoard: the confirmation is kept.                      *)
ReplacedKeepingTarget(r) ==
  [board EXCEPT !.shortlisted_candidate_ids = r.candidate_ids,
                !.rejected_candidate_ids = {}, !.candidate_evidence = {}]

(* Any other lookup, one without a revision included, starts over.         *)
ReplacedBoard(r) ==
  [board EXCEPT !.shortlisted_candidate_ids = r.candidate_ids,
                !.rejected_candidate_ids = {}, !.confirmed_target_id = None,
                !.confirmed_registry_revision = None, !.candidate_evidence = {}]

RecordQuery(r) ==
  /\ r.tool = "query_registry"
  /\ r.confirmed_target_id = None
  /\ Commit(Resulted(IF SameRevision(r) THEN RefreshedBoard(r) ELSE ReplacedBoard(r), r),
            EventsOf(r))

ConfirmationBacked(r) ==
  /\ r.success
  /\ r.registry_revision # None
  /\ \E e \in r.evidence :
       /\ e.candidate_id = r.confirmed_target_id
       /\ e.registry_revision = r.registry_revision
       /\ e.matches
  /\ r.confirmed_target_id \in r.candidate_ids

RecordInspection(r) ==
  /\ r.tool = "inspect_candidates"
  /\ ~InspectionStale(r)
  /\ r.candidate_ids \subseteq board.shortlisted_candidate_ids
  /\ \/ /\ r.confirmed_target_id = None
        /\ Commit(Resulted(board, r), EventsOf(r))
     \/ /\ r.confirmed_target_id # None
        /\ ConfirmationBacked(r)
        /\ Commit([Resulted(board, r) EXCEPT
                     !.confirmed_target_id = r.confirmed_target_id,
                     !.confirmed_registry_revision = r.registry_revision,
                     !.rejected_candidate_ids = @ \ {r.confirmed_target_id}],
                  EventsOf(r))

RecordMotion(r) ==
  /\ r.tool \in {"observe", "rotate_to_heading", "go_to_point"}
  /\ ~Stale(r)
  /\ r.confirmed_target_id = None
  /\ Commit(Resulted(board, r), EventsOf(r))

RecordToolResult(r) ==
  /\ ResultInScope(r)
  /\ \/ RecordStaleRegistryResult(r)
     \/ RecordQuery(r)
     \/ RecordInspection(r)
     \/ RecordMotion(r)
-----------------------------------------------------------------------------
RecordRecorderStatus(status, reason) ==
  /\ board.lifecycle_state # "idle"
  /\ status # board.recorder
  /\ Commit([board EXCEPT !.recorder = status, !.last_reason_code = reason],
            Event("board_updated"))

(* Mutant of CompletionAllowed: the caller's word is taken for an          *)
(* exhausted search.                                                       *)
CompletionOnClaim(claimed, approach_complete, search_exhausted) ==
  /\ board.lifecycle_state = "running"
  /\ board.completion_policy # "search_until_exhausted" => ConfirmationCurrent
  /\ board.completion_policy = "search_until_exhausted" => search_exhausted

CompletionAllowed(claimed, approach_complete, search_exhausted) ==
  /\ board.lifecycle_state = "running"
  /\ claimed \in {None, board.confirmed_target_id}
  /\ board.confirmed_target_id # None => ConfirmationCurrent
  /\ board.completion_policy = "report_confirmed" => board.confirmed_target_id # None
  /\ board.completion_policy = "approach_confirmed" =>
       board.confirmed_target_id # None /\ approach_complete
  /\ board.completion_policy = "search_until_exhausted" =>
       search_exhausted /\ board.last_reason_code \in SearchExhaustionReasonCodes

Complete(claimed, approach_complete, search_exhausted, reason) ==
  /\ CompletionAllowed(claimed, approach_complete, search_exhausted)
  /\ Commit([board EXCEPT !.lifecycle_state = "succeeded", !.last_reason_code = reason],
            {<<"mission_succeeded", board.confirmed_target_id>>})

RecordPlannerFailure(reason) ==
  /\ board.lifecycle_state = "running"
  /\ reason # None
  /\ Commit([board EXCEPT !.consecutive_failures = @ + 1, !.last_reason_code = reason],
            Event("planner_failure"))

RecordBoardObservation(pose) ==
  /\ pose # board.robot_pose
  /\ Commit([board EXCEPT !.robot_pose = pose], Event("board_updated"))

ConfigureLimits ==
  /\ ~board.limits_configured
  /\ Commit([board EXCEPT !.limits_configured = TRUE], Event("board_updated"))

Cancel ==
  /\ Unfinished
  /\ Commit([board EXCEPT !.lifecycle_state = "canceled",
                          !.last_reason_code = "cancel_requested"],
            Event("mission_canceled"))

Fail(reason) ==
  /\ Unfinished
  /\ reason # None
  /\ Commit([board EXCEPT !.lifecycle_state = "failed", !.last_reason_code = reason],
            Event("mission_failed"))

Next ==
  \/ \E p \in CompletionPolicy : Accept(p)
  \/ Start
  \/ \E s \in SkillName : SelectSkill(s)
  \/ \E t \in ToolName : RecordToolRequest(t)
  \/ \E s \in RecorderStates, c \in ReasonCodes \cup {None} : RecordRecorderStatus(s, c)
  \/ \E t \in Candidates \cup {None}, a, s \in BOOLEAN, c \in ReasonCodes \cup {None} :
        Complete(t, a, s, c)
  \/ \E c \in ReasonCodes : RecordPlannerFailure(c)
  \/ \E p \in Poses : RecordBoardObservation(p)
  \/ ConfigureLimits
  \/ Cancel
  \/ \E c \in ReasonCodes : Fail(c)
  \/ \E r \in ToolResults : RecordToolResult(r)

Spec == Init /\ [][Next]_vars
-----------------------------------------------------------------------------
EventType ==
  {"mission_accepted", "mission_started", "skill_selected", "tool_requested",
   "tool_result", "planner_failure", "candidate_confirmed", "candidate_rejected",
   "board_updated", "mission_succeeded", "mission_canceled", "mission_failed"}

TypeOK ==
  /\ board \in MissionBoard
  /\ emitted \subseteq EventType \X (Candidates \cup {None})

(* A confirmed target never outlives the registry revision it was          *)
(* confirmed at: confirmation, requery, revision change and the clearing   *)
(* branches of record_tool_result keep the three fields together.          *)
ConfirmedAtCurrentRevision ==
  board.confirmed_target_id # None => ConfirmationCurrent

(* While the approach skill is active there is a confirmed target: no      *)
(* result the approach may record, stale or not, withdraws it.             *)
ApproachHasTarget ==
  board.active_skill = "approach_confirmed_object" => board.confirmed_target_id # None

(* The evidence the board shows was collected at the revision it shows, so *)
(* an operator never audits a decision against another shortlist.          *)
EvidenceAtCurrentRevision ==
  \A e \in board.candidate_evidence : e.registry_revision = board.registry_revision

(* A mission that succeeded under a policy that names a target holds a     *)
(* target that is still confirmed for the board's registry revision.       *)
SuccessHasTarget ==
  board.lifecycle_state = "succeeded" /\ board.completion_policy # "search_until_exhausted"
    => ConfirmationCurrent

(* Target, evidence and registry revision stay together, in a search, in   *)
(* an approach and after a success, whatever results arrive; every field   *)
(* of the board keeps its type.                                            *)
TargetIsCurrent ==
  /\ TypeOK
  /\ ConfirmedAtCurrentRevision
  /\ ApproachHasTarget
  /\ EvidenceAtCurrentRevision
  /\ SuccessHasTarget

(* Within a mission an approach keeps the target and the registry revision *)
(* it was handed off with, whatever the tools report.                      *)
ApproachKeepsTarget ==
  [][/\ board.active_skill = "approach_confirmed_object"
     /\ board'.mission_id = board.mission_id
     => /\ board'.active_skill = board.active_skill
        /\ board'.confirmed_target_id = board.confirmed_target_id
        /\ board'.registry_revision = board.registry_revision]_vars

(* A mission that ended stays ended: later commits (recorder status, pose) *)
(* never change its outcome, target or policy.                             *)
OutcomeIsFinal ==
  [][/\ board.lifecycle_state \in Terminal
     /\ board'.mission_id = board.mission_id
     => /\ board'.lifecycle_state = board.lifecycle_state
        /\ board'.confirmed_target_id = board.confirmed_target_id
        /\ board'.completion_policy = board.completion_policy]_vars

(* Whoever only reads the event stream learns of every new target and of   *)
(* every new rejection, and no commit both confirms and rejects one.       *)
AuditTrail ==
  [][/\ board'.confirmed_target_id \notin {None, board.confirmed_target_id}
        => /\ <<"candidate_confirmed", board'.confirmed_target_id>> \in emitted'
           /\ <<"candidate_rejected", board'.confirmed_target_id>> \notin emitted'
     /\ board'.mission_id = board.mission_id
        => \A c \in board'.rejected_candidate_ids \ board.rejected_candidate_ids :
             <<"candidate_rejected", c>> \in emitted']_vars

(* The promise of ConfirmedApproach, read off the board.                   *)
Promise == INSTANCE ConfirmedApproach WITH
  Policies <- CompletionPolicy, Exhaustive <- "search_until_exhausted",
  phase <- board.lifecycle_state, mission <- board.mission_id,
  policy <- board.completion_policy, target <- board.confirmed_target_id,
  approaching <- (board.active_skill = "approach_confirmed_object")

ImplementsPromise == Promise!Spec
=============================================================================
