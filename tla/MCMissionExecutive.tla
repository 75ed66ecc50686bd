-------------------------- MODULE MCMissionExecutive --------------------------
(***************************************************************************)
(* Finite instance of MissionExecutive.  MCToolResults are the argument    *)
(* records CommanderRuntime passes on: what V2ToolBackend returns, and the *)
(* failed results made of an exception, whose revision may be the model's. *)
(***************************************************************************)
EXTENDS MissionExecutive, TLC

NoResult(tool) ==
  [tool |-> tool, success |-> FALSE, reason_code |-> "other", candidate_id |-> None,
   confirmed_target_id |-> None, candidate_ids |-> {}, rejected_candidate_ids |-> {},
   registry_revision |-> None, progress |-> FALSE,
   expected_registry_revision |-> None, evidence |-> {}]

MCQueryResults ==
  {NoResult("query_registry")} \cup
  {[NoResult("query_registry") EXCEPT !.success = ok, !.candidate_ids = ids,
                                      !.registry_revision = rev] :
     ok \in BOOLEAN, ids \in SUBSET Candidates, rev \in Revisions}

(* One verdict per inspected candidate; exactly one positive verdict       *)
(* confirms, more than one is a failure that rejects only the others.      *)
MCInspection(verdict, rev, expected) ==
  LET ids == DOMAIN verdict
      positive == {c \in ids : verdict[c]}
      single == Cardinality(positive) = 1
  IN [NoResult("inspect_candidates") EXCEPT
        !.success = single, !.candidate_ids = ids,
        !.confirmed_target_id = IF single THEN CHOOSE c \in positive : TRUE ELSE None,
        !.rejected_candidate_ids = ids \ positive, !.registry_revision = rev,
        !.expected_registry_revision = expected,
        !.evidence = {[candidate_id |-> c, registry_revision |-> rev,
                       matches |-> verdict[c]] : c \in ids}]

MCInspectionResults ==
  {[NoResult("inspect_candidates") EXCEPT !.expected_registry_revision = exp] :
     exp \in Revisions \cup {None}} \cup
  UNION {{MCInspection(v, rev, rev) : v \in [ids -> BOOLEAN], rev \in Revisions} :
           ids \in SUBSET Candidates \ {{}}}

(* Only an observation reports a reason of its own, only an approach names *)
(* a candidate.                                                            *)
MCMotionResults ==
  {[NoResult("observe") EXCEPT !.success = ok, !.progress = ok /\ moved,
                               !.reason_code = why, !.registry_revision = rev] :
     ok \in BOOLEAN, moved \in BOOLEAN,
     why \in ReasonCodes, rev \in Revisions \cup {None}} \cup
  {[NoResult("go_to_point") EXCEPT !.success = ok, !.progress = ok,
                                   !.registry_revision = rev, !.candidate_id = c] :
     ok \in BOOLEAN,
     rev \in Revisions \cup {None}, c \in Candidates \cup {None}}

MCSymmetry == Permutations(Candidates) \cup Permutations(Revisions)

MCToolResults == MCQueryResults \cup MCInspectionResults \cup MCMotionResults

MCRecorderStates == {"off", "on"}
MCReasonCodes == {"poi_exhausted", "other"}
=============================================================================
