----------------------------- MODULE ToolBackend -----------------------------
(***************************************************************************)
(* The boundary between the commander and the authorities: the checks of   *)
(* ToolDispatcher.dispatch and the five tools of V2ToolBackend with the    *)
(* registry snapshot they share.  A result is written as the argument      *)
(* record CommanderRuntime passes to record_tool_result, which also holds  *)
(* what it takes from the call.                                            *)
(***************************************************************************)
EXTENDS Naturals, FiniteSets

CONSTANTS
  Candidates,   \* registry identities
  Revisions,    \* registry revisions
  Content,      \* the candidates each revision stands for
  None          \* the empty string or Python's None

VARIABLE
  snapshot      \* the backend's copy of the last registry answer

Snapshot == [revision : Revisions \cup {None}, checked : BOOLEAN,
             candidates : SUBSET Candidates]

(* What RosRegistryAuthority.query returns: nothing is checked when the     *)
(* service is away or the list is refused for its frames; otherwise the    *)
(* revision is a digest of what is listed (RegistryShortlist).             *)
Unchecked == [revision |-> None, checked |-> FALSE, candidates |-> {}]
Answers ==
  {Unchecked} \cup
  {[revision |-> rev, checked |-> TRUE, candidates |-> Content[rev]] : rev \in Revisions}

(* A ToolCall; valid says that its object request is the mission's, that a *)
(* heading is there for a rotation, and so on: the demands on arguments    *)
(* that name no candidate.                                                 *)
Call(tool, revision, ids, candidate, valid) ==
  [tool |-> tool, revision |-> revision, ids |-> ids, candidate |-> candidate,
   valid |-> valid]

Calls ==
  {Call("query_registry", rev, {}, None, v) : rev \in Revisions \cup {None}, v \in BOOLEAN}
  \cup {Call("inspect_candidates", rev, ids, None, v) :
          rev \in Revisions \cup {None}, ids \in SUBSET Candidates, v \in BOOLEAN}
  \cup {Call("observe", rev, {}, None, TRUE) : rev \in Revisions \cup {None}}
  \cup {Call("rotate_to_heading", rev, {}, None, v) :
          rev \in Revisions \cup {None}, v \in BOOLEAN}
  \cup {Call("go_to_point", rev, {}, c, TRUE) :
          rev \in Revisions \cup {None}, c \in Candidates \cup {None}}
-----------------------------------------------------------------------------
(* Mutant of DispatchAllowed: any candidate may be approached.             *)
DispatchAnyCandidate(call, board) ==
  /\ call.valid
  /\ call.tool = "go_to_point" => board.confirmed_target_id # None

(* ToolDispatcher.dispatch raises ContractError for any other call.        *)
DispatchAllowed(call, board) ==
  /\ call.valid
  /\ call.tool = "go_to_point" =>
       /\ board.confirmed_target_id # None
       /\ board.confirmed_registry_revision # None
       /\ board.confirmed_registry_revision = board.registry_revision
       /\ call.candidate = board.confirmed_target_id

(* A result that carries nothing but its failure.                          *)
Failure(call) ==
  [tool |-> call.tool, success |-> FALSE, reason_code |-> "other",
   candidate_id |-> call.candidate, confirmed_target_id |-> None,
   candidate_ids |-> {}, rejected_candidate_ids |-> {}, registry_revision |-> None,
   progress |-> FALSE, expected_registry_revision |-> call.revision, evidence |-> {}]

QueryResult(call, answer) ==
  [Failure(call) EXCEPT !.success = answer.checked,
                        !.candidate_ids = answer.candidates,
                        !.registry_revision = answer.revision]

(* Only a call scoped to the cached revision and its candidates reaches    *)
(* the visual authority.                                                   *)
InspectionInScope(call) ==
  /\ snapshot.checked
  /\ snapshot.revision # None
  /\ call.revision = snapshot.revision
  /\ call.ids # {}
  /\ call.ids \subseteq snapshot.candidates

(* positive holds the candidates that the visual authority confirms and    *)
(* whose attributes _enforce_request_match finds to satisfy the request.   *)
(* Two of them confirm none.                                               *)
InspectResult(call, positive) ==
  LET confirmed == Cardinality(positive) = 1
  IN [Failure(call) EXCEPT
        !.success = confirmed,
        !.candidate_ids = call.ids,
        !.confirmed_target_id =
           IF confirmed THEN CHOOSE c \in positive : TRUE ELSE None,
        !.rejected_candidate_ids = call.ids \ positive,
        !.registry_revision = call.revision,
        !.evidence = {[candidate_id |-> c, registry_revision |-> call.revision,
                       matches |-> c \in positive] : c \in call.ids}]

(* The approach is bound to a candidate of the cached revision.            *)
ApproachInScope(call, board) ==
  /\ snapshot.checked
  /\ snapshot.revision # None
  /\ board.confirmed_registry_revision = snapshot.revision
  /\ call.candidate \in snapshot.candidates

(* The motion authorities succeed or fail; only observe, the POI grid,     *)
(* reports exhaustion, as a success without progress.                      *)
MotionResults(call) ==
  {Failure(call), [Failure(call) EXCEPT !.success = TRUE],
   [Failure(call) EXCEPT !.success = TRUE, !.progress = TRUE]}
  \cup IF call.tool # "observe" THEN {}
       ELSE {[Failure(call) EXCEPT !.success = TRUE, !.reason_code = "poi_exhausted"]}

(* What the authorities may answer a call the dispatcher lets through.     *)
QueryRegistry(call, result) ==
  /\ call.tool = "query_registry"
  /\ snapshot' \in Answers
  /\ result = QueryResult(call, snapshot')

InspectCandidates(call, result) ==
  /\ call.tool = "inspect_candidates"
  /\ \/ result = Failure(call)
     \/ /\ InspectionInScope(call)
        /\ \E positive \in SUBSET call.ids : result = InspectResult(call, positive)
  /\ UNCHANGED snapshot

Move(call, board, result) ==
  /\ \/ call.tool \in {"observe", "rotate_to_heading"}
     \/ call.tool = "go_to_point" /\ ApproachInScope(call, board)
  /\ result \in MotionResults(call)
  /\ UNCHANGED snapshot

RefuseMove(call, board, result) ==
  /\ call.tool = "go_to_point"
  /\ ~ApproachInScope(call, board)
  /\ result = Failure(call)
  /\ UNCHANGED snapshot
=============================================================================
