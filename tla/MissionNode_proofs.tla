-------------------------- MODULE MissionNode_proofs --------------------------
(***************************************************************************)
(* The mission slot of the node, for any number of goals, stop requests,   *)
(* commits and recorder status messages and however callbacks interleave;  *)
(* and what action results say while the recorder has not committed.       *)
(***************************************************************************)
EXTENDS MissionNode, TLAPS

States == {"idle"} \cup Unfinished \cup Terminal

(* A commit that was read can be written.                                  *)
PendingReady ==
  \A t \in Threads : pending[t].read => pending[t].base \in Board /\ pending[t].to \in States

(* The goal in progress owns the slot: reserved until its execute callback *)
(* begins, then by name.  Only its own runtime is installed, and only its  *)
(* thread is in the middle of a commit.                                    *)
SlotHasOwner ==
  /\ \A g \in Goals : Live(g) => slot = IF pc[g] = "execute" THEN "reserved" ELSE g
  /\ \A g, h \in Goals : Live(g) /\ Live(h) => g = h
RuntimeIsOwners ==
  runtime # None => pc[runtime] \in {"accept", "start", "head", "finally", "handler"}
CommitIsOwners ==
  \A g \in Goals : pending[g].read => pc[g] \in {"head", "finally", "report", "abort"}

SlotInv == TypeOK /\ PendingReady /\ SlotHasOwner /\ RuntimeIsOwners /\ CommitIsOwners

-----------------------------------------------------------------------------
LEMMA ThreadsAreGoals == "recorder" \notin Goals /\ \A g \in Goals : g \in Threads
BY NoneAssumption DEF Threads

LEMMA ReadTyped ==
  ASSUME TypeOK, PendingReady, NEW t \in Threads, NEW to \in States, Read(t, to)
  PROVE  /\ pending' \in [Threads -> [read : BOOLEAN, base : Board \cup {None},
                            to : {"running"} \cup Terminal \cup {None, "accepted", "idle"}]]
         /\ \A u \in Threads : pending'[u].read =>
              board \in Board /\ pending'[u].base \in Board /\ pending'[u].to \in States
         /\ \A u \in Threads : u # t => pending'[u] = pending[u]
         /\ pending'[t] = [read |-> TRUE, base |-> board, to |-> to]
BY DEF TypeOK, PendingReady, Read, States, Unfinished

LEMMA WriteTyped ==
  ASSUME TypeOK, PendingReady, NEW t \in Threads, Write(t)
  PROVE  /\ pending' \in [Threads -> [read : BOOLEAN, base : Board \cup {None},
                            to : {"running"} \cup Terminal \cup {None, "accepted", "idle"}]]
         /\ board' \in Board
         /\ pending[t].base \in Board /\ pending[t].read
         /\ board'.state = pending[t].to /\ board'.mission = pending[t].base.mission
         /\ \A u \in Threads : u # t => pending'[u] = pending[u]
         /\ ~pending'[t].read
<1>1. pending[t].base \in Board /\ pending[t].to \in States
  BY DEF PendingReady, Write
<1>2. pending[t].base.revision + 1 \in Nat
  BY <1>1 DEF Board
<1>3. board' = [pending[t].base EXCEPT !.state = pending[t].to,
                                       !.revision = pending[t].base.revision + 1]
  BY DEF Write
<1>4. board' \in Board
  BY <1>1, <1>2, <1>3 DEF Board, States
<1>5. board'.state = pending[t].to /\ board'.mission = pending[t].base.mission
  BY <1>1, <1>3 DEF Board
<1>6. NoCommit \in [read : BOOLEAN, base : Board \cup {None},
                    to : {"running"} \cup Terminal \cup {None, "accepted", "idle"}]
  BY DEF NoCommit
<1>7. pending' = [pending EXCEPT ![t] = NoCommit]
  BY DEF Write
<1>8. QED
  BY <1>1, <1>4, <1>5, <1>6, <1>7 DEF TypeOK, Write, NoCommit

-----------------------------------------------------------------------------
(* What a step of an execution does to the slot: it is taken by name at    *)
(* the beginning and given back at the end.                                *)
LEMMA ExecuteTyped ==
  ASSUME SlotInv, NEW g \in Goals, ExecuteThread(g)
  PROVE  TypeOK' /\ PendingReady'
<1> USE DEF SlotInv, TypeOK, Requests, Recorder
<1>t. g \in Threads
  BY ThreadsAreGoals
<1>1. CASE BeginExecute(g) \/ InstallRuntime(g)
  BY <1>1 DEF BeginExecute, InstallRuntime, PendingReady
<1>2. CASE Accept(g)
  BY <1>2 DEF Accept, PendingReady, Board, Unfinished
<1>3. ASSUME NEW from, NEW to \in States, NEW next \in {"head"},
             BeginCommit(g, from, to, next), commits' \in [Goals -> 0..MaxCommits]
      PROVE  TypeOK' /\ PendingReady'
  <2>0. /\ UNCHANGED <<board, counter, configured, slot, runtime, mission, canceled, stopped,
                       statuses, seen>>
        /\ pc' \in [Goals -> {"new", "rejected", "execute", "install", "accept", "start",
                    "head", "finally", "handler", "report", "abort", "release", "done"}]
    BY <1>3 DEF BeginCommit
  <2>1. CASE Read(g, to)
    <3>1. PendingReady' /\ pending' \in [Threads -> [read : BOOLEAN, base : Board \cup {None},
                            to : {"running"} \cup Terminal \cup {None, "accepted", "idle"}]]
      BY <1>t, <2>1, ReadTyped DEF PendingReady
    <3>2. QED
      BY <1>3, <2>0, <3>1
  <2>2. CASE UNCHANGED pending
    BY <1>3, <2>2 DEF BeginCommit, PendingReady
  <2>3. QED
    BY <1>3, <2>1, <2>2 DEF BeginCommit
<1>4. CASE Start(g)
  BY <1>3, <1>4 DEF Start, States, Unfinished
<1>5. CASE Continue(g)
  <2>1. commits[g] < MaxCommits => commits[g] + 1 \in 0..MaxCommits
    BY BoundAssumption
  <2>2. commits' \in [Goals -> 0..MaxCommits]
    BY <1>5, <2>1 DEF Continue
  <2>3. QED
    BY <1>3, <1>5, <2>2 DEF Continue, States, Unfinished, Terminal
<1>6. CASE CancelMission(g) \/ FailMission(g) \/ CloseMission(g)
  <2>1. PICK to \in Terminal : Read(g, to)
    BY <1>6 DEF CancelMission, FailMission, CloseMission, Terminal
  <2>2. to \in States
    BY DEF States
  <2>3. QED
    BY <1>6, <1>t, <2>1, <2>2, ReadTyped
       DEF CancelMission, FailMission, CloseMission, PendingReady
<1>7. CASE LeaveLoop(g) \/ ClearRuntime(g) \/ Report(g) \/ ReleaseSlot(g)
  BY <1>7 DEF LeaveLoop, ClearRuntime, Report, ReleaseSlot, PendingReady
<1>8. CASE WriteBoard(g)
  BY <1>8, <1>t, WriteTyped DEF WriteBoard, PendingReady
<1>9. QED
  BY <1>1, <1>2, <1>4, <1>5, <1>6, <1>7, <1>8 DEF ExecuteThread

LEMMA ExecuteShape ==
  ASSUME SlotInv, NEW g \in Goals, ExecuteThread(g)
  PROVE  /\ Live(g) /\ \A h \in Goals : h # g => pc'[h] = pc[h] /\ pending'[h] = pending[h]
         /\ \/ slot' = slot /\ (pc[g] = "execute" <=> pc'[g] = "execute") /\ Live(g)'
            \/ pc[g] = "execute" /\ slot' = g /\ pc'[g] \notin {"execute", "release"} /\ Live(g)'
            \/ pc[g] = "release" /\ slot' = None /\ pc'[g] = "done"
         /\ \/ runtime' = None
            \/ runtime' = g /\ pc'[g] \in {"accept", "start", "head", "finally", "handler"}
            \/ runtime' = runtime /\ pc[g] \in {"execute", "release", "report", "abort"}
            \/ /\ runtime' = runtime
               /\ pc'[g] \in {"accept", "start", "head", "finally", "handler"}
         /\ pending'[g].read => pc'[g] \in {"head", "finally", "report", "abort"}
         /\ pending'["recorder"] = pending["recorder"]
<1> USE DEF SlotInv, TypeOK, Live, CommitIsOwners
<1>t. g \in Threads /\ g # "recorder" /\ "recorder" \in Threads
  BY ThreadsAreGoals DEF Threads
<1>u. \A h \in Goals : h \in Threads
  BY ThreadsAreGoals
<1>1. CASE BeginExecute(g)
  BY <1>1 DEF BeginExecute
<1>2. CASE InstallRuntime(g) \/ Accept(g)
  BY <1>2 DEF InstallRuntime, Accept
<1>3. CASE Start(g) \/ Continue(g)
  <2>1. PICK to \in States : \E from \in States : BeginCommit(g, from, to, "head")
    BY <1>3 DEF Start, Continue, States, Unfinished, Terminal
  <2>2. /\ UNCHANGED <<slot, runtime>> /\ ~pending[g].read /\ pc[g] \in {"start", "head"}
        /\ \/ Read(g, to) /\ pc' = [pc EXCEPT ![g] = "head"]
           \/ pc' = [pc EXCEPT ![g] = "handler"] /\ UNCHANGED pending
    BY <1>3, <2>1 DEF BeginCommit, Start, Continue
  <2>3. /\ \A h \in Goals : h # g => pending'[h] = pending[h]
        /\ pending'["recorder"] = pending["recorder"]
        /\ pending'[g].read => pc' = [pc EXCEPT ![g] = "head"]
    BY <1>t, <1>u, <2>2 DEF Read
  <2>4. QED
    BY <2>2, <2>3
<1>4. CASE CancelMission(g) \/ FailMission(g) \/ CloseMission(g)
  <2>1. PICK to \in Terminal : Read(g, to)
    BY <1>4 DEF CancelMission, FailMission, CloseMission, Terminal
  <2>2. /\ \A h \in Goals : h # g => pending'[h] = pending[h]
        /\ pending'["recorder"] = pending["recorder"]
    BY <1>t, <1>u, <2>1 DEF Read
  <2>3. QED
    BY <1>4, <2>2 DEF CancelMission, FailMission, CloseMission
<1>5. CASE LeaveLoop(g) \/ ClearRuntime(g) \/ Report(g) \/ ReleaseSlot(g)
  BY <1>5 DEF LeaveLoop, ClearRuntime, Report, ReleaseSlot
<1>6. CASE WriteBoard(g)
  BY <1>6, <1>t, <1>u, WriteTyped DEF WriteBoard
<1>7. QED
  BY <1>1, <1>2, <1>3, <1>4, <1>5, <1>6 DEF ExecuteThread

(* An execution keeps the slot to its goal.                                *)
LEMMA ExecuteKeepsSlot ==
  ASSUME SlotInv, NEW g \in Goals, ExecuteThread(g) PROVE SlotInv'
<1>1. TypeOK' /\ PendingReady'
  BY ExecuteTyped
<1>2. \A h \in Goals : h # g => ~Live(h) /\ ~Live(h)'
  BY ExecuteShape DEF SlotInv, SlotHasOwner, Live
<1>3. SlotHasOwner'
  BY <1>2, ExecuteShape DEF SlotInv, SlotHasOwner, Live
<1>4. RuntimeIsOwners'
  <2>1. runtime \in Goals \cup {None}
    BY DEF SlotInv, TypeOK
  <2>2. runtime # None => Live(runtime)
    BY DEF SlotInv, RuntimeIsOwners, Live
  <2>3. runtime # None => runtime = g
    BY <1>2, <2>1, <2>2
  <2>4. QED
    BY <2>3, ExecuteShape DEF SlotInv, RuntimeIsOwners
<1>5. CommitIsOwners'
  BY ExecuteShape DEF SlotInv, CommitIsOwners
<1>6. QED
  BY <1>1, <1>3, <1>4, <1>5 DEF SlotInv

LEMMA SlotStep == SlotInv /\ [Next]_vars => SlotInv'
<1> SUFFICES ASSUME SlotInv, [Next]_vars PROVE SlotInv'
  OBVIOUS
<1>1. CASE ConfigureDependencies
  BY <1>1 DEF ConfigureDependencies, Requests, Recorder, SlotInv, TypeOK, PendingReady,
              SlotHasOwner, RuntimeIsOwners, CommitIsOwners, Live
<1>2. ASSUME NEW g \in Goals, GoalCallback(g) PROVE SlotInv'
  <2>1. TypeOK' /\ PendingReady'
    BY <1>2 DEF GoalCallback, Requests, Recorder, SlotInv, TypeOK, PendingReady
  <2>2. \A h \in Goals : h # g => pc'[h] = pc[h]
    BY <1>2 DEF GoalCallback, SlotInv, TypeOK
  <2>3. ~Live(g) /\ runtime' = runtime /\ pending' = pending /\ pc[g] = "new"
    BY <1>2 DEF GoalCallback, Live
  <2>4. RuntimeIsOwners' /\ CommitIsOwners'
    <3>1. runtime \in Goals \cup {None}
      BY DEF SlotInv, TypeOK
    <3>2. QED
      BY <2>2, <2>3, <3>1 DEF SlotInv, RuntimeIsOwners, CommitIsOwners
  <2>5. SlotHasOwner'
    <3>1. CASE slot = None /\ slot' = "reserved" /\ pc' = [pc EXCEPT ![g] = "execute"]
      <4>1. \A h \in Goals : ~Live(h)
        BY <3>1, NoneAssumption DEF SlotInv, SlotHasOwner
      <4>2. \A h \in Goals : h # g => ~Live(h)'
        BY <2>2, <4>1 DEF Live
      <4>3. pc'[g] = "execute"
        BY <3>1 DEF SlotInv, TypeOK
      <4>4. QED
        BY <3>1, <4>2, <4>3 DEF SlotHasOwner
    <3>2. CASE slot' = slot /\ pc' = [pc EXCEPT ![g] = "rejected"]
      BY <2>2, <3>2 DEF SlotInv, SlotHasOwner, TypeOK, Live
    <3>3. QED
      BY <1>2, <3>1, <3>2 DEF GoalCallback, SlotAvailable
  <2>6. QED
    BY <2>1, <2>4, <2>5 DEF SlotInv
<1>3. ASSUME NEW g \in Goals, ExecuteThread(g) PROVE SlotInv'
  BY <1>3, ExecuteKeepsSlot
<1>4. ASSUME NEW g \in Goals, CancelCallback(g) PROVE SlotInv'
  BY <1>4 DEF CancelCallback, Recorder, SlotInv, TypeOK, PendingReady,
              SlotHasOwner, RuntimeIsOwners, CommitIsOwners, Live
<1>5. ASSUME NEW s \in Stops, FindRuntime(s) \/ StopRuntime(s) PROVE SlotInv'
  BY <1>5 DEF FindRuntime, StopRuntime, Recorder, SlotInv, TypeOK, PendingReady,
              SlotHasOwner, RuntimeIsOwners, CommitIsOwners, Live
<1>6. CASE ReceiveStatus
  BY <1>6, BoundAssumption
     DEF ReceiveStatus, Requests, SlotInv, TypeOK, PendingReady,
         SlotHasOwner, RuntimeIsOwners, CommitIsOwners, Live
<1>7. CASE RecordStatus \/ WriteBoard("recorder")
  <2>1. "recorder" \in Threads /\ \A g \in Goals : g \in Threads /\ g # "recorder"
    BY ThreadsAreGoals DEF Threads
  <2>2. board.state \in States
    BY DEF SlotInv, TypeOK, Board, States
  <2>3. TypeOK' /\ PendingReady' /\ \A g \in Goals : pending'[g] = pending[g]
    <3>1. CASE RecordStatus
      BY <2>1, <2>2, <3>1, ReadTyped
         DEF RecordStatus, Requests, Recorder, SlotInv, TypeOK, PendingReady
    <3>2. CASE WriteBoard("recorder")
      BY <2>1, <3>2, WriteTyped
         DEF WriteBoard, Requests, Recorder, SlotInv, TypeOK, PendingReady
    <3>3. QED
      BY <1>7, <3>1, <3>2
  <2>4. UNCHANGED <<slot, runtime, pc>>
    BY <1>7 DEF RecordStatus, WriteBoard
  <2>5. QED
    BY <2>3, <2>4 DEF SlotInv, SlotHasOwner, RuntimeIsOwners, CommitIsOwners, Live
<1>8. CASE UNCHANGED vars
  BY <1>8 DEF vars, Requests, Recorder, SlotInv, TypeOK, PendingReady,
              SlotHasOwner, RuntimeIsOwners, CommitIsOwners, Live
<1>9. QED
  BY <1>1, <1>2, <1>3, <1>4, <1>5, <1>6, <1>7, <1>8 DEF Next

LEMMA SlotInit == Init => SlotInv
<1> SUFFICES ASSUME Init PROVE SlotInv
  OBVIOUS
<1>1. TypeOK
  <2>1. board \in Board
    BY DEF Init, Board
  <2>2. NoCommit \in [read : BOOLEAN, base : Board \cup {None},
                     to : {"running"} \cup Terminal \cup {None, "accepted", "idle"}]
    BY DEF NoCommit
  <2>3. 0 \in 0..MaxCommits /\ 0 \in 0..MaxStatus
    BY BoundAssumption
  <2>4. QED
    BY <2>1, <2>2, <2>3 DEF Init, TypeOK
<1>2. \A t \in Threads : ~pending[t].read
  BY DEF Init, NoCommit
<1>3. QED
  BY <1>1, <1>2, ThreadsAreGoals
     DEF Init, SlotInv, PendingReady, SlotHasOwner, RuntimeIsOwners, CommitIsOwners, Live

(* However many goals, stop requests, commits and status messages there    *)
(* are, and however the callbacks interleave, one goal at most is between  *)
(* its acceptance and the release of the slot, and the active runtime is   *)
(* of a goal in progress: what _mission_lock is for.                       *)
THEOREM OneMission == Spec => []OneMissionAtATime
<1>1. SlotInv => OneMissionAtATime
  BY DEF SlotInv, TypeOK, SlotHasOwner, RuntimeIsOwners, OneMissionAtATime, Live
<1>2. QED
  BY <1>1, SlotInit, SlotStep, PTL DEF Spec

-----------------------------------------------------------------------------
(* While the recorder's thread has written nothing, the goal that owns the *)
(* slot is alone with the board: where its callback is tells what the      *)
(* board holds, and a commit in progress was read from the board as it is. *)
Phase(g) ==
  /\ pending[g].read => pending[g].base = board
  /\ pc[g] \in {"execute", "install", "accept"} => board.state \notin Unfinished
  /\ pc[g] = "start" => board.state = "accepted"
  /\ pc[g] \in {"start", "head", "finally", "report", "release"} => board.mission = mission[g]
  /\ pc[g] = "head" => IF pending[g].read THEN pending[g].to \in {"running", "succeeded"}
                       ELSE board.state \in {"running"} \cup Terminal
  /\ pc[g] = "finally" => IF pending[g].read THEN pending[g].to \in Terminal
                          ELSE board.state \in Terminal
  /\ pc[g] \in {"report", "release"} => board.state \in Terminal /\ ~pending[g].read
  /\ pc[g] \notin {"handler", "abort"}

Told(g) ==
  outcome[g] # None =>
    /\ pc[g] \in {"release", "done"}
    /\ outcome[g].mission = mission[g] /\ outcome[g].state \in Terminal
    /\ outcome[g].goal = "succeeded" => outcome[g].state = "succeeded"
    /\ outcome[g].goal = "aborted" => outcome[g].state \in {"failed", "canceled"}

Alone ==
  /\ ~pending["recorder"].read /\ status = None
  /\ slot = None => board.state \notin Unfinished
  /\ \A g \in Goals : Phase(g) /\ Told(g)

QuietInv == SlotInv /\ DOMAIN outcome = Goals /\ (NoRecorderYet => Alone)

LEMMA ExecuteAlone ==
  ASSUME QuietInv, SlotInv', NoRecorderYet, NEW g \in Goals, ExecuteThread(g)
  PROVE  Alone' /\ DOMAIN outcome' = Goals
<1>0. Alone /\ SlotInv /\ Phase(g) /\ Told(g) /\ g \in Threads
  BY ThreadsAreGoals DEF QuietInv, Alone
<1> USE DEF SlotInv, TypeOK, Terminal, Unfinished
<1>1. \A h \in Goals : h # g =>
        /\ ~Live(h) /\ pc'[h] = pc[h] /\ ~pending'[h].read
        /\ outcome'[h] = outcome[h] /\ mission'[h] = mission[h]
  <2>1. \A h \in Goals : h # g => ~Live(h) /\ pc'[h] = pc[h] /\ pending'[h] = pending[h]
    BY <1>0, ExecuteShape DEF SlotHasOwner
  <2>2. \A h \in Goals : h # g => ~pending[h].read
    BY <2>1 DEF CommitIsOwners, Live
  <2>3. \A h \in Goals : h # g => outcome'[h] = outcome[h] /\ mission'[h] = mission[h]
    BY DEF ExecuteThread, BeginExecute, InstallRuntime, Accept, Start, LeaveLoop,
           CancelMission, Continue, BeginCommit, FailMission, ClearRuntime, CloseMission,
           Report, ReleaseSlot, WriteBoard, QuietInv
  <2>4. QED
    BY <2>1, <2>2, <2>3
<1>2. \A h \in Goals : h # g => Phase(h)' /\ Told(h)'
  BY <1>0, <1>1 DEF Alone, Phase, Told, Live
<1>3. DOMAIN outcome' = Goals /\ status' = status
  BY DEF ExecuteThread, BeginExecute, InstallRuntime, Accept, Start, LeaveLoop,
         CancelMission, Continue, BeginCommit, FailMission, ClearRuntime, CloseMission,
         Report, ReleaseSlot, WriteBoard, QuietInv, Recorder
<1>4. Phase(g)' /\ Told(g)'
  <2>1. CASE BeginExecute(g) \/ InstallRuntime(g)
    BY <1>0, <2>1 DEF BeginExecute, InstallRuntime, Phase, Told, CommitIsOwners
  <2>2. CASE Accept(g)
    BY <1>0, <2>2 DEF Accept, Phase, Told, CommitIsOwners, Board
  <2>3. CASE Start(g) \/ Continue(g)
    BY <1>0, <2>3 DEF Start, Continue, BeginCommit, Read, Phase, Told
  <2>4. CASE LeaveLoop(g) \/ ClearRuntime(g)
    BY <1>0, <2>4 DEF LeaveLoop, ClearRuntime, Phase, Told
  <2>5. CASE CancelMission(g) \/ FailMission(g) \/ CloseMission(g)
    BY <1>0, <2>5 DEF CancelMission, FailMission, CloseMission, Read, Phase, Told
  <2>6. CASE Report(g) \/ ReleaseSlot(g)
    BY <1>0, <2>6 DEF Report, ReleaseSlot, Phase, Told, QuietInv, CommitIsOwners
  <2>7. CASE WriteBoard(g)
    <3>1. PendingReady /\ TypeOK
      BY <1>0
    <3>2. /\ board'.state = pending[g].to /\ board'.mission = pending[g].base.mission
          /\ ~pending'[g].read /\ UNCHANGED <<pc, outcome, mission>>
      BY <1>0, <2>7, <3>1, WriteTyped DEF WriteBoard
    <3>3. pending[g].read
      BY <2>7 DEF WriteBoard, Write
    <3>4. QED
      BY <1>0, <3>2, <3>3 DEF Phase, Told, CommitIsOwners
  <2>8. QED
    BY <2>1, <2>2, <2>3, <2>4, <2>5, <2>6, <2>7 DEF ExecuteThread
<1>5. slot' = None => board'.state \notin Unfinished
  <2>1. slot # None
    BY <1>0, ExecuteShape, NoneAssumption DEF SlotHasOwner, Live
  <2>2. CASE slot' = None
    BY <1>0, <2>1, <2>2, NoneAssumption
       DEF ExecuteThread, BeginExecute, InstallRuntime, Accept, Start, LeaveLoop,
           CancelMission, Continue, BeginCommit, FailMission, ClearRuntime, CloseMission,
           Report, ReleaseSlot, WriteBoard, Phase
  <2>3. QED
    BY <2>2
<1>6. ~pending'["recorder"].read
  BY <1>0, ExecuteShape DEF Alone
<1>7. QED
  BY <1>0, <1>2, <1>3, <1>4, <1>5, <1>6 DEF Alone

LEMMA QuietStep == QuietInv /\ [Next]_vars => QuietInv'
<1> SUFFICES ASSUME QuietInv, [Next]_vars PROVE QuietInv'
  OBVIOUS
<1>1. SlotInv /\ SlotInv'
  BY SlotStep DEF QuietInv
<1>2. statuses \in Nat /\ statuses' \in Nat
  BY <1>1, BoundAssumption DEF SlotInv, TypeOK
<1>3. ASSUME NEW g \in Goals, ExecuteThread(g) PROVE QuietInv'
  <2>1. statuses' = statuses
    BY <1>3 DEF ExecuteThread, BeginExecute, InstallRuntime, Accept, Start, LeaveLoop,
           CancelMission, Continue, BeginCommit, FailMission, ClearRuntime, CloseMission,
           Report, ReleaseSlot, WriteBoard, Recorder
  <2>2. DOMAIN outcome' = Goals
    BY <1>3 DEF ExecuteThread, BeginExecute, InstallRuntime, Accept, Start, LeaveLoop,
         CancelMission, Continue, BeginCommit, FailMission, ClearRuntime, CloseMission,
         Report, ReleaseSlot, WriteBoard, QuietInv
  <2>3. QED
    BY <1>1, <1>3, <2>1, <2>2, ExecuteAlone DEF QuietInv, NoRecorderYet
<1>4. ASSUME NEW g \in Goals, GoalCallback(g) PROVE QuietInv'
  <2>1. NoRecorderYet' => NoRecorderYet
    BY <1>4 DEF GoalCallback, NoRecorderYet, Recorder
  <2>2. ASSUME Alone, NEW h \in Goals PROVE Phase(h)' /\ Told(h)'
    BY <1>1, <1>4, <2>2 DEF GoalCallback, SlotAvailable, Alone, Phase, Told, SlotInv, TypeOK,
                            CommitIsOwners
  <2>3. QED
    BY <1>1, <1>4, <2>1, <2>2, NoneAssumption
       DEF GoalCallback, QuietInv, Alone, Recorder, NoRecorderYet
<1>5. CASE ConfigureDependencies \/ UNCHANGED vars
  BY <1>1, <1>5 DEF ConfigureDependencies, Requests, Recorder, vars, QuietInv, NoRecorderYet,
                    Alone, Phase, Told
<1>6. ASSUME NEW g \in Goals, CancelCallback(g) PROVE QuietInv'
  BY <1>1, <1>6 DEF CancelCallback, Recorder, QuietInv, NoRecorderYet, Alone, Phase, Told
<1>7. ASSUME NEW s \in Stops, FindRuntime(s) \/ StopRuntime(s) PROVE QuietInv'
  BY <1>1, <1>7 DEF FindRuntime, StopRuntime, Recorder, QuietInv, NoRecorderYet, Alone,
                    Phase, Told
<1>8. CASE ReceiveStatus
  BY <1>1, <1>2, <1>8 DEF ReceiveStatus, QuietInv, NoRecorderYet
<1>9. CASE RecordStatus \/ WriteBoard("recorder")
  BY <1>1, <1>9 DEF RecordStatus, WriteBoard, Write, Recorder, QuietInv, NoRecorderYet, Alone
<1>10. QED
  BY <1>3, <1>4, <1>5, <1>6, <1>7, <1>8, <1>9 DEF Next

LEMMA QuietInvariance == Spec => []QuietInv
<1>1. Init => QuietInv
  BY SlotInit, ThreadsAreGoals
     DEF Init, QuietInv, Alone, Phase, Told, NoCommit, Threads, Unfinished
<1>2. QED
  BY <1>1, QuietStep, PTL DEF Spec

(* Who holds the slot has the mission, and a free slot finds the board     *)
(* finished: no goal is kept out for a mission that nobody runs.           *)
THEOREM SlotGoesWithMission == Spec => []SlotIsTheMission
<1>1. QuietInv => SlotIsTheMission
  BY DEF QuietInv, SlotInv, TypeOK, SlotHasOwner, RuntimeIsOwners, OneMissionAtATime, Live,
         Alone, FreeSlotMeansFinished, SlotIsTheMission
<1>2. QED
  BY <1>1, QuietInvariance, PTL

(* While the recorder has not committed, every action result tells of the  *)
(* mission of its own goal, ended, and its status agrees with the board.   *)
THEOREM ResultsAreTrue == Spec => []ReportsItsMission
<1>1. QuietInv => ReportsItsMission
  BY DEF QuietInv, Alone, Told, ReportsItsMission, ResultIsOwn, StatusAgrees
<1>2. QED
  BY <1>1, QuietInvariance, PTL
=============================================================================
