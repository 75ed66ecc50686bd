------------------------------ MODULE VlmSocket ------------------------------
(***************************************************************************)
(* The VLM socket node: goals that ask for an answer, one at a time, their *)
(* cancellation, and the connection a cancellation interrupts              *)
(* (muto_vlm_socket/scripts/vlm_socket_node.py, vlm_socket_protocol.py).   *)
(*                                                                         *)
(* The node has four threads and a reentrant callback group: acceptance,   *)
(* execution and cancellation of goals interleave; a step is what happens  *)
(* under the lock or between two points where another thread can be seen.  *)
(***************************************************************************)
EXTENDS VlmAnswers

CONSTANTS
  Goals,
  Contents       \* what a goal may ask with

Nobody == "nobody"

ASSUME GoalAssumption == Nobody \notin Goals

VARIABLES
  status,        \* the state of the goal in the action server
  phase,            \* where _execute_callback of a goal is
  cancel,        \* where the cancel request for a goal is
  busy,          \* _busy
  cancelEvent,   \* _request_cancel_event
  connection,    \* _active_connection, by the goal that opened it
  heard,         \* the generation the goal was answered with, and how
  answer         \* what the result of the goal says

socketVars == <<status, phase, cancel, busy, cancelEvent, connection, heard,
          answer>>

Unheard == <<>>
Terminal == {"succeeded", "aborted", "canceled", "rejected"}

CancelRequested(g) == status[g] = "canceling"

SocketTypeOK ==
  /\ status \in [Goals -> {"new", "executing", "canceling"} \cup Terminal]
  /\ phase \in [Goals -> {"idle", "validate", "dispatch", "register", "wait",
                       "answered", "unanswered", "decode", "fail", "close",
                       "free", "done"}]
  /\ cancel \in [Goals -> {"idle", "chosen", "set", "taken", "done"}]
  /\ busy \in BOOLEAN /\ cancelEvent \in BOOLEAN
  /\ connection \in Goals \cup {Nobody}

Goto(g, to) == phase' = [phase EXCEPT ![g] = to]
Becomes(g, s) == status' = [status EXCEPT ![g] = s]

-----------------------------------------------------------------------------
\* Mutant for OneRequestAtATime: overlapping goals are accepted.
GoalCallbackAlways(g, content) ==
  /\ status[g] = "new"
  /\ content # <<>>
  /\ Becomes(g, "executing")
  /\ Goto(g, "validate")
  /\ busy' = TRUE
  /\ cancelEvent' = FALSE
  /\ UNCHANGED <<cancel, connection, heard, answer>>

\* _goal_callback, for a goal with content or without
GoalCallback(g, content) ==
  /\ status[g] = "new"
  /\ IF content = <<>> \/ busy
     THEN /\ Becomes(g, "rejected")
          /\ UNCHANGED <<phase, busy, cancelEvent>>
     ELSE /\ Becomes(g, "executing")
          /\ Goto(g, "validate")
          /\ busy' = TRUE
          /\ cancelEvent' = FALSE
  /\ UNCHANGED <<cancel, connection, heard, answer>>

\* _execute_callback up to the request: credentials, content, schema, body.
Validate(g) ==
  /\ phase[g] = "validate"
  /\ \E content \in Contents, rest \in BOOLEAN :
       Goto(g, IF rest /\ EncodeContent(content).ok THEN "dispatch" ELSE "fail")
  /\ UNCHANGED <<status, cancel, busy, cancelEvent, connection, heard, answer>>

BeforeRequest(g) ==
  /\ phase[g] = "dispatch"
  /\ IF CancelRequested(g)
     THEN Becomes(g, "canceled") /\ Goto(g, "close")
     ELSE UNCHANGED status /\ Goto(g, "register")
  /\ UNCHANGED <<cancel, busy, cancelEvent, connection, heard, answer>>

\* _set_active_connection with a new connection.  When a cancellation came
\* first it is closed at once; but it is not open yet, and the request that
\* follows opens it.
Register(g) ==
  /\ phase[g] = "register"
  /\ connection' = IF cancelEvent THEN Nobody ELSE g
  /\ Goto(g, "wait")
  /\ UNCHANGED <<status, cancel, busy, cancelEvent, heard, answer>>

\* The request and its answer: a reply within the limits, or an error, which
\* a time out, a refusal or a connection that was closed all are.  A closed
\* connection may still be answered: whether closing a socket ends a read
\* that waits on it is up to the system.
Answered(g) ==
  /\ phase[g] = "wait"
  /\ Goto(g, "answered")
  /\ UNCHANGED <<status, cancel, busy, cancelEvent, connection, heard, answer>>

Unanswered(g) ==
  /\ phase[g] = "wait"
  /\ Goto(g, "unanswered")
  /\ UNCHANGED <<status, cancel, busy, cancelEvent, connection, heard, answer>>

\* The finally of post_vlm_request: _set_active_connection(None)
Unregister(g) ==
  /\ phase[g] \in {"answered", "unanswered"}
  /\ connection' = Nobody
  /\ Goto(g, IF phase[g] = "answered" THEN "decode" ELSE "fail")
  /\ UNCHANGED <<status, cancel, busy, cancelEvent, heard, answer>>

DropAnswer(g) ==
  /\ phase[g] = "decode" /\ CancelRequested(g)
  /\ Becomes(g, "canceled")
  /\ Goto(g, "close")
  /\ UNCHANGED <<cancel, busy, cancelEvent, connection, heard, answer>>

TakeAnswer(g) ==
  /\ phase[g] = "decode" /\ ~CancelRequested(g)
  /\ \E e \in Exchanges :
       /\ heard' = [heard EXCEPT ![g] = [generation |-> e.generation,
                                         inFull |-> e.inFull]]
       /\ answer' = [answer EXCEPT ![g] = e.answer]
       /\ IF e.answer.ok THEN Becomes(g, "succeeded") /\ Goto(g, "close")
          ELSE UNCHANGED status /\ Goto(g, "fail")
  /\ UNCHANGED <<cancel, busy, cancelEvent, connection>>

Fail(g) ==
  /\ phase[g] = "fail"
  /\ Becomes(g, IF CancelRequested(g) THEN "canceled" ELSE "aborted")
  /\ Goto(g, "close")
  /\ heard' = [heard EXCEPT ![g] = Unheard]
  /\ UNCHANGED <<cancel, busy, cancelEvent, connection, answer>>

\* The finally of _execute_callback; a finished goal is not looked at again.
Close(g) ==
  /\ phase[g] = "close"
  /\ connection' = Nobody
  /\ Goto(g, "free")
  /\ heard' = [heard EXCEPT ![g] = Unheard]
  /\ answer' = [answer EXCEPT ![g] = Error]
  /\ UNCHANGED <<status, cancel, busy, cancelEvent>>

\* Mutant for AcceptedGoalsEnd: only a success gives the socket back.
FreeAfterSuccess(g) ==
  /\ phase[g] = "free"
  /\ busy' = (status[g] # "succeeded")
  /\ Goto(g, "done")
  /\ UNCHANGED <<status, cancel, cancelEvent, connection, heard, answer>>

Free(g) ==
  /\ phase[g] = "free"
  /\ busy' = FALSE
  /\ Goto(g, "done")
  /\ UNCHANGED <<status, cancel, cancelEvent, connection, heard, answer>>

-----------------------------------------------------------------------------
\* Cancellation of a goal: the action server picks it while it executes,
\* asks _cancel_callback, and only then marks it as canceling.  The goal goes
\* on meanwhile, and so may one accepted after it: the event and the active
\* connection are then those of the other goal.
ChooseCanceled(g) ==
  /\ status[g] = "executing" /\ cancel[g] = "idle"
  /\ cancel' = [cancel EXCEPT ![g] = "chosen"]
  /\ UNCHANGED <<status, phase, busy, cancelEvent, connection, heard, answer>>

SetCancelEvent(g) ==
  /\ cancel[g] = "chosen"
  /\ cancelEvent' = TRUE
  /\ cancel' = [cancel EXCEPT ![g] = "set"]
  /\ UNCHANGED <<status, phase, busy, connection, heard, answer>>

\* _close_active_connection
CloseActiveConnection(g) ==
  /\ cancel[g] = "set"
  /\ connection' = Nobody
  /\ cancel' = [cancel EXCEPT ![g] = "taken"]
  /\ UNCHANGED <<status, phase, busy, cancelEvent, heard, answer>>

MarkCanceling(g) ==
  /\ cancel[g] = "taken"
  /\ IF status[g] = "executing" THEN Becomes(g, "canceling")
     ELSE UNCHANGED status
  /\ cancel' = [cancel EXCEPT ![g] = "done"]
  /\ UNCHANGED <<phase, busy, cancelEvent, connection, heard, answer>>

-----------------------------------------------------------------------------
SocketInit ==
  /\ status = [g \in Goals |-> "new"]
  /\ phase = [g \in Goals |-> "idle"]
  /\ cancel = [g \in Goals |-> "idle"]
  /\ busy = FALSE /\ cancelEvent = FALSE /\ connection = Nobody
  /\ heard = [g \in Goals |-> Unheard]
  /\ answer = [g \in Goals |-> Error]

Request(g) == \E content \in Contents : GoalCallback(g, content)

Execute(g) ==
  \/ Validate(g) \/ BeforeRequest(g) \/ Register(g) \/ Answered(g) \/ Unanswered(g)
  \/ Unregister(g) \/ DropAnswer(g) \/ TakeAnswer(g) \/ Fail(g) \/ Close(g) \/ Free(g)

Cancel(g) == SetCancelEvent(g) \/ CloseActiveConnection(g) \/ MarkCanceling(g)

SocketNext == \E g \in Goals : Request(g) \/ Execute(g) \/ ChooseCanceled(g) \/ Cancel(g)

SocketSpec == SocketInit /\ [][SocketNext]_socketVars

\* Threads run on; a read ends since each wait for bytes has the time out of
\* the request and the number of bytes is bounded.
FairSocketSpec == SocketSpec /\ \A g \in Goals : WF_socketVars(Execute(g))

-----------------------------------------------------------------------------
\* Properties.

\* At most one goal is anywhere in its execution, however goals, failures and
\* cancellations interleave (_busy).  Every variable keeps its type.
OneRequestAtATime ==
  /\ SocketTypeOK
  /\ \A g, h \in Goals :
       (phase[g] \notin {"idle", "done"} /\ phase[h] \notin {"idle", "done"}) => g = h

\* An answer counts as a success only when the generation was completed; and
\* a completed generation is a success whose text is the whole text in order,
\* whatever the API, whether it came in one piece or as a stream, and
\* whichever fields the endpoint left out: as long as the last response of a
\* stream has its output, or the events tell apart the parts they belong to
\* and no empty output_text shuts them out (extract_response,
\* decode_response_body).
WholeAnswersOnly ==
  \A g \in Goals : heard[g] # Unheard =>
    LET generation == heard[g].generation IN
    /\ answer[g].ok => generation.ending = "completed"
    /\ generation.ending = "completed" /\ heard[g].inFull =>
         answer[g] = Text(Whole(generation))

\* Every accepted goal reaches a final state and gives the socket back, also
\* when it fails or is canceled at the worst moment (_execute_callback).
AcceptedGoalsEnd ==
  \A g \in Goals : phase[g] = "validate" ~> (status[g] \in Terminal /\ ~busy)
=============================================================================
