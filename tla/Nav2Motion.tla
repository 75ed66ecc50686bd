------------------------------ MODULE Nav2Motion ------------------------------
(***************************************************************************)
(* Nav2MotionAuthority behind the motion lane of ToolDispatcher: one       *)
(* thread makes motion calls one after the other, another cancels, and     *)
(* Nav2's two action servers, which are external, answer at their own      *)
(* pace.  The authority waits for an answer for a bounded time only.       *)
(***************************************************************************)
EXTENDS Naturals, FiniteSets

CONSTANTS
  MaxGoals,   \* bound on the action goals sent
  MaxCancels  \* bound on the cancellations requested

ASSUME BoundAssumption == MaxGoals \in Nat /\ MaxCancels \in Nat

Servers == {"navigate", "spin"}
Final == {"succeeded", "aborted", "canceled"}
Moving == {"executing", "canceling"}

VARIABLES
  goal,       \* what Nav2 does with each action goal
  sent,       \* number of goals sent
  stage,      \* where the motion call is
  active,     \* _active_call of the dispatcher: is a tool in progress?
  handle,     \* _active_handle: a goal, or 0 for None
  result,     \* reason code of the last MotionResult
  canceler,   \* where cancel_active is
  target,     \* the handle it read
  cancels,    \* number of cancellations requested
  abandoned   \* history: goals whose call gave up waiting for an answer

motionVars == <<goal, sent, stage, active, handle, result, canceler, target, cancels, abandoned>>

Nav2 == <<goal, sent>>
Canceling == <<canceler, target, cancels>>

MotionInit ==
  /\ goal = [i \in 1..MaxGoals |-> [server |-> "navigate", status |-> "unsent"]]
  /\ sent = 0
  /\ stage = "idle"
  /\ active = FALSE
  /\ handle = 0
  /\ result = "none"
  /\ canceler = "idle"
  /\ target = 0
  /\ cancels = 0
  /\ abandoned = {}
-----------------------------------------------------------------------------
(* ToolDispatcher.dispatch of rotate_to_heading, go_to_point or observe.   *)
Dispatch ==
  /\ stage = "idle"
  /\ sent < MaxGoals
  /\ active' = TRUE
  /\ stage' = "preflight"
  /\ UNCHANGED <<Nav2, handle, result, Canceling, abandoned>>

(* No pose, an unreachable point, an inactive navigator, no server: the    *)
(* call ends before a goal is sent.                                        *)
PreflightFails ==
  /\ stage = "preflight"
  /\ result' = "refused"
  /\ stage' = "return"
  /\ UNCHANGED <<Nav2, active, handle, Canceling, abandoned>>

SendMotionGoal ==
  /\ stage = "preflight"
  /\ sent' = sent + 1
  /\ \E s \in Servers : goal' = [goal EXCEPT ![sent'] = [server |-> s, status |-> "sent"]]
  /\ stage' = "accepting"
  /\ UNCHANGED <<active, handle, result, Canceling, abandoned>>

GoalRejected ==
  /\ stage = "accepting"
  /\ goal[sent].status = "rejected"
  /\ result' = "refused"
  /\ stage' = "return"
  /\ UNCHANGED <<Nav2, active, handle, Canceling, abandoned>>

(* Mutant of GoalAccepted: an accepted goal is taken for a finished one.   *)
ForgetAccepted ==
  /\ stage = "accepting"
  /\ goal[sent].status \in Moving \cup Final
  /\ stage' = "return"
  /\ UNCHANGED <<Nav2, active, handle, result, Canceling, abandoned>>

GoalAccepted ==
  /\ stage = "accepting"
  /\ goal[sent].status \in Moving \cup Final
  /\ stage' = "accepted"
  /\ UNCHANGED <<Nav2, active, handle, result, Canceling, abandoned>>

SetHandle ==
  /\ stage = "accepted"
  /\ handle' = sent
  /\ stage' = "waiting"
  /\ UNCHANGED <<Nav2, active, result, Canceling, abandoned>>

(* Mutant of ResultArrives: the result of whichever goal has one is taken  *)
(* for the result of the call.                                             *)
AnyResultArrives ==
  /\ stage = "waiting"
  /\ \E i \in 1..sent : goal[i].status \in Final /\ result' = goal[i].status
  /\ handle' = 0
  /\ stage' = "return"
  /\ UNCHANGED <<Nav2, active, Canceling, abandoned>>

ResultArrives ==
  /\ stage = "waiting"
  /\ goal[sent].status \in Final
  /\ result' = goal[sent].status
  /\ handle' = 0
  /\ stage' = "return"
  /\ UNCHANGED <<Nav2, active, Canceling, abandoned>>

(* Mutant of TimeOut: only the acceptance is waited for with a bound.      *)
TimeOutAccepting ==
  /\ stage = "accepting"
  /\ result' = "timed_out"
  /\ stage' = "return"
  /\ abandoned' = abandoned \cup {sent}
  /\ UNCHANGED <<Nav2, active, handle, Canceling>>

(* _wait_future raises; the finally clause forgets the handle, and nobody  *)
(* cancels the goal: it may still be accepted and move the robot.          *)
TimeOut ==
  /\ stage \in {"accepting", "waiting"}
  /\ result' = "timed_out"
  /\ handle' = 0
  /\ stage' = "return"
  /\ abandoned' = abandoned \cup {sent}
  /\ UNCHANGED <<Nav2, active, Canceling>>

MotionReturn ==
  /\ stage = "return"
  /\ active' = FALSE
  /\ stage' = "idle"
  /\ UNCHANGED <<Nav2, handle, result, Canceling, abandoned>>

MotionThread ==
  \/ PreflightFails \/ SendMotionGoal \/ GoalRejected \/ GoalAccepted \/ SetHandle
  \/ ResultArrives \/ TimeOut \/ MotionReturn
-----------------------------------------------------------------------------
(* ToolDispatcher.cancel_active looks for a tool in progress, then         *)
(* Nav2MotionAuthority.cancel_active for its handle.                       *)
RequestCancel ==
  /\ canceler = "idle"
  /\ cancels < MaxCancels
  /\ cancels' = cancels + 1
  /\ canceler' = IF active THEN "authority" ELSE "idle"
  /\ UNCHANGED <<Nav2, stage, active, handle, result, target, abandoned>>

ReadHandle ==
  /\ canceler = "authority"
  /\ target' = handle
  /\ canceler' = IF handle # 0 THEN "cancel" ELSE "idle"
  /\ UNCHANGED <<Nav2, stage, active, handle, result, cancels, abandoned>>

CancelGoal ==
  /\ canceler = "cancel"
  /\ goal' = IF goal[target].status = "executing"
             THEN [goal EXCEPT ![target].status = "canceling"] ELSE goal
  /\ canceler' = "idle"
  /\ target' = 0
  /\ UNCHANGED <<sent, stage, active, handle, result, cancels, abandoned>>
-----------------------------------------------------------------------------
(* Nav2.  A server executes one goal; a new one preempts it.               *)
Nav2Accepts(i) ==
  /\ goal[i].status = "sent"
  /\ goal' = [j \in 1..MaxGoals |->
       IF j = i THEN [goal[i] EXCEPT !.status = "executing"]
       ELSE IF goal[j].server = goal[i].server /\ goal[j].status \in Moving
            THEN [goal[j] EXCEPT !.status = "aborted"]
            ELSE goal[j]]

Nav2Rejects(i) ==
  /\ goal[i].status = "sent"
  /\ goal' = [goal EXCEPT ![i].status = "rejected"]

Nav2Finishes(i) ==
  \/ /\ goal[i].status \in Moving
     /\ \E s \in {"succeeded", "aborted"} : goal' = [goal EXCEPT ![i].status = s]
  \/ /\ goal[i].status = "canceling"
     /\ goal' = [goal EXCEPT ![i].status = "canceled"]

Nav2Step(i) ==
  /\ Nav2Accepts(i) \/ Nav2Rejects(i) \/ Nav2Finishes(i)
  /\ UNCHANGED <<sent, stage, active, handle, result, Canceling, abandoned>>

MotionNext ==
  \/ Dispatch \/ MotionThread
  \/ RequestCancel \/ ReadHandle \/ CancelGoal
  \/ \E i \in 1..MaxGoals : Nav2Step(i)

MotionSpec == MotionInit /\ [][MotionNext]_motionVars

(* The thread of a call goes on: every wait has a timeout.  Nothing is     *)
(* assumed of Nav2.                                                        *)
FairMotionSpec == MotionSpec /\ WF_motionVars(MotionThread)
-----------------------------------------------------------------------------
MotionTypeOK ==
  /\ goal \in [1..MaxGoals -> [server : Servers,
       status : {"unsent", "sent", "rejected"} \cup Moving \cup Final]]
  /\ sent \in 0..MaxGoals
  /\ stage \in {"idle", "preflight", "accepting", "accepted", "waiting", "return"}
  /\ active \in BOOLEAN
  /\ handle \in 0..MaxGoals
  /\ result \in {"none", "refused", "timed_out"} \cup Final
  /\ canceler \in {"idle", "authority", "cancel"}
  /\ target \in 0..MaxGoals
  /\ cancels \in 0..MaxCancels
  /\ abandoned \subseteq 1..sent

(* What a call reports is what Nav2 made of the goal this call sent, also  *)
(* when goals of earlier calls that timed out end while it waits.          *)
ReportsOwnGoal ==
  stage = "return" /\ result \in Final => goal[sent].status = result

InMotion == {i \in 1..MaxGoals : goal[i].status \in Moving}

(* Of the goals nobody gave up on the robot executes one at most, and none *)
(* while no motion tool is in progress, cancellations included: a goal     *)
(* that moves the robot out of turn is one whose call timed out.  Every    *)
(* variable keeps its type.                                                *)
MotionIsSerialized ==
  /\ MotionTypeOK
  /\ Cardinality(InMotion \ abandoned) <= 1
  /\ ~active => InMotion \subseteq abandoned

(* A motion call comes back to the commander even if Nav2 never answers.   *)
CallEnds == active ~> ~active
=============================================================================
