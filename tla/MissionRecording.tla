---------------------------- MODULE MissionRecording ----------------------------
(***************************************************************************)
(* From the executive to the bag.  Two threads of MissionExecutiveNode     *)
(* commit to the board, number and append events, and publish both in      *)
(* _publish_update: the thread of the mission, and the one that handles    *)
(* recorder status.  HighLevelRecorderNode, another process, opens, writes *)
(* and closes one bag per mission on what it receives, and publishes the   *)
(* status the second thread handles.                                       *)
(*                                                                         *)
(* A commit to the board is one step here; MissionNode tears it.  What a   *)
(* mission commits between its start and its end is left out: it is        *)
(* published as the start is.  Events enter the bag that is open when they *)
(* are received, after they are published; only the latter is modelled.    *)
(***************************************************************************)
EXTENDS Naturals, Sequences, FiniteSets

CONSTANT MaxMissions    \* bound on missions

ASSUME BoundAssumption == MaxMissions \in Nat

Missions == 1..MaxMissions
Threads == {"mission", "status"}

VARIABLES
  board,      \* _board: mission, has it ended, and the bag it names (0: none)
  events,     \* _events of the executive
  last,       \* _last_event_sequence
  thread,     \* where each thread is, and what it has read
  boards,     \* muto/mission_board: published, not yet received
  statuses,   \* muto/mission_recorder_status
  published,  \* history: positions of the events published so far
  lossy,      \* history: was a board overwritten before it was received?
  writer,     \* the mission whose bag is open, 0 for _writer = None
  closed,     \* _closed_mission_ids
  bags        \* the boards in the bag of each mission

executive == <<board, events>>
topics == <<boards, statuses>>
recorder == <<writer, closed, bags>>
vars == <<executive, last, thread, topics, published, lossy, recorder>>

Rest == [at |-> "rest"]
Sample(b) == [mission |-> b.mission, ended |-> b.ended]
-----------------------------------------------------------------------------
Init ==
  /\ board = [mission |-> 0, ended |-> TRUE, bag |-> 0]
  /\ events = <<>>
  /\ last = 0
  /\ thread = [t \in Threads |-> Rest]
  /\ boards = <<>>
  /\ statuses = <<>>
  /\ published = {}
  /\ lossy = FALSE
  /\ writer = 0
  /\ closed = {}
  /\ bags = [m \in Missions |-> {}]

NextNumber == Len(events) + 1

(* A commit, and the first half of _emit: the event gets the number of     *)
(* events plus one, and is appended later.                                 *)
Commit(t, b) ==
  /\ thread[t] = Rest
  /\ board' = b
  /\ thread' = [thread EXCEPT ![t] =
       [at |-> "emit",
        event |-> [number |-> NextNumber, mission |-> b.mission, ended |-> b.ended]]]

Accept ==
  /\ board.ended
  /\ board.mission < MaxMissions
  /\ Commit("mission", [mission |-> board.mission + 1, ended |-> FALSE, bag |-> 0])
  /\ UNCHANGED <<events, last, topics, published, lossy, recorder>>

End ==
  /\ ~board.ended
  /\ Commit("mission", [board EXCEPT !.ended = TRUE])
  /\ UNCHANGED <<events, last, topics, published, lossy, recorder>>

(* _recorder_status_callback: of the samples published, the subscription   *)
(* of depth one keeps any later one.  A status of another mission is       *)
(* ignored; one that changes nothing is published all the same.            *)
RecorderStatusCallback ==
  /\ thread["status"] = Rest
  /\ \E i \in 1..Len(statuses) :
       LET message == statuses[i] IN
       /\ statuses' = SubSeq(statuses, i + 1, Len(statuses))
       /\ \/ message.mission # board.mission /\ UNCHANGED <<board, thread>>
          \/ /\ message.mission = board.mission
             /\ board.bag = message.bag
             /\ thread' = [thread EXCEPT !["status"] =
                  [at |-> "board", board |-> Sample(board)]]
             /\ UNCHANGED board
          \/ /\ message.mission = board.mission
             /\ board.bag # message.bag
             /\ Commit("status", [board EXCEPT !.bag = message.bag])
  /\ UNCHANGED <<events, last, boards, published, lossy, recorder>>

(* The second half of _emit, and _publish_update: it reads the board,      *)
(* publishes it, takes a tuple of the events and goes through them.        *)
AppendEvent(t) ==
  /\ thread[t].at = "emit"
  /\ events' = Append(events, thread[t].event)
  /\ thread' = [thread EXCEPT ![t] = [at |-> "board", board |-> Sample(board)]]
  /\ UNCHANGED <<board, last, topics, published, lossy, recorder>>

PublishBoard(t) ==
  /\ thread[t].at = "board"
  /\ boards' = Append(boards, thread[t].board)
  /\ thread' = [thread EXCEPT ![t] = [at |-> "events", next |-> 1, upto |-> Len(events)]]
  /\ UNCHANGED <<executive, last, statuses, published, lossy, recorder>>

(* The events that are not above _last_event_sequence are skipped.         *)
Unpublished(t) == {p \in thread[t].next..thread[t].upto : events[p].number > last}

PublishEvent(t) ==
  /\ thread[t].at = "events"
  /\ \E p \in Unpublished(t) :
       /\ \A q \in Unpublished(t) : p <= q
       /\ published' = published \cup {p}
       /\ thread' = [thread EXCEPT ![t].at = "last", ![t].next = p]
  /\ UNCHANGED <<executive, last, topics, lossy, recorder>>

(* Mutant of AdvanceLast: all the events there are count as published.     *)
AdvanceLastToEnd(t) ==
  /\ thread[t].at = "last"
  /\ last' = Len(events)
  /\ thread' = [thread EXCEPT ![t].at = "events", ![t].next = @ + 1]
  /\ UNCHANGED <<executive, topics, published, lossy, recorder>>

AdvanceLast(t) ==
  /\ thread[t].at = "last"
  /\ last' = events[thread[t].next].number
  /\ thread' = [thread EXCEPT ![t].at = "events", ![t].next = @ + 1]
  /\ UNCHANGED <<executive, topics, published, lossy, recorder>>

EndUpdate(t) ==
  /\ thread[t].at = "events"
  /\ Unpublished(t) = {}
  /\ thread' = [thread EXCEPT ![t] = Rest]
  /\ UNCHANGED <<executive, last, topics, published, lossy, recorder>>

Update(t) ==
  \/ AppendEvent(t) \/ PublishBoard(t) \/ PublishEvent(t)
  \/ AdvanceLast(t) \/ EndUpdate(t)
-----------------------------------------------------------------------------
(* The writer after an attempt to open a bag, in _start_writer, which may  *)
(* fail, and does when rosbag2 finds the directory of the bag there.       *)
Opening(m) == {0} \cup IF bags[m] = {} THEN {m} ELSE {}

(* A board of a mission under way needs the bag of its mission, the one    *)
(* that ends it is content with any.                                       *)
NeedsBag(sample) == IF sample.ended THEN writer = 0 ELSE writer # sample.mission

(* What _start_writer and _close_writer publish for a sample, which of a   *)
(* former bag, of the one opened, and of the one closed.                   *)
StatusesFor(sample, w) ==
  (IF NeedsBag(sample) /\ writer # 0 THEN <<[mission |-> writer, bag |-> writer]>> ELSE <<>>)
  \o (IF NeedsBag(sample) THEN <<[mission |-> sample.mission, bag |-> w]>> ELSE <<>>)
  \o (IF sample.ended /\ w # 0 THEN <<[mission |-> sample.mission, bag |-> w]>> ELSE <<>>)

(* Mutants: closed missions are not told apart; the board that ends a      *)
(* mission closes the bag unwritten.                                       *)
IgnoredNever(sample) == FALSE
WrittenUnlessEnded(sample, w) ==
  IF w = 0 \/ sample.ended THEN bags ELSE [bags EXCEPT ![w] = @ \cup {sample}]
Ignored(sample) == sample.mission \in closed
Written(sample, w) == IF w = 0 THEN bags ELSE [bags EXCEPT ![w] = @ \cup {sample}]
WriterAfter(sample, w) == IF sample.ended THEN 0 ELSE w

(* _board_callback: of the samples published, the topic of depth one may   *)
(* have replaced any but the last before they were received.               *)
BoardCallback ==
  /\ \E i \in 1..Len(boards) :
       LET sample == boards[i] IN
       /\ boards' = SubSeq(boards, i + 1, Len(boards))
       /\ lossy' = (lossy \/ i > 1)
       /\ \/ Ignored(sample) /\ UNCHANGED <<statuses, recorder>>
          \/ /\ ~Ignored(sample)
             /\ \E w \in IF NeedsBag(sample) THEN Opening(sample.mission) ELSE {writer} :
                  /\ writer' = WriterAfter(sample, w)
                  /\ bags' = Written(sample, w)
                  /\ statuses' = statuses \o StatusesFor(sample, w)
             /\ closed' = IF sample.ended THEN closed \cup {sample.mission} ELSE closed
  /\ UNCHANGED <<executive, last, thread, published>>

Next ==
  \/ Accept \/ End
  \/ \E t \in Threads : Update(t)
  \/ RecorderStatusCallback
  \/ BoardCallback

Spec == Init /\ [][Next]_vars

(* Threads finish the update they are in, and the callbacks of what was    *)
(* received are called; a mission may take as long as it likes.            *)
FairSpec ==
  /\ Spec
  /\ \A t \in Threads : WF_vars(Update(t))
  /\ WF_vars(RecorderStatusCallback)
  /\ WF_vars(BoardCallback)
-----------------------------------------------------------------------------
Samples == [mission : Missions, ended : BOOLEAN]
Event == [number : Nat \ {0}, mission : Missions, ended : BOOLEAN]
ThreadState ==
  {Rest} \cup [at : {"emit"}, event : Event]
    \cup [at : {"board"}, board : Samples]
    \cup [at : {"events", "last"}, next : Nat, upto : Nat]

TypeOK ==
  /\ board \in [mission : 0..MaxMissions, ended : BOOLEAN, bag : 0..MaxMissions]
  /\ events \in Seq(Event)
  /\ last \in Nat
  /\ thread \in [Threads -> ThreadState]
  /\ boards \in Seq(Samples)
  /\ statuses \in Seq([mission : Missions, bag : 0..MaxMissions])
  /\ published \subseteq 1..Len(events)
  /\ lossy \in BOOLEAN
  /\ writer \in 0..MaxMissions
  /\ closed \subseteq Missions
  /\ bags \in [Missions -> SUBSET Samples]

(* A bag holds boards of its own mission only, although the two threads    *)
(* may publish the board of a former mission late.  (A board the topic     *)
(* overwrote can make the recorder miss a change of mission.)              *)
BagsAreOwn ==
  ~lossy => \A m \in Missions : \A sample \in bags[m] : sample.mission = m

(* A bag of a mission that was closed with the mission has the board that  *)
(* tells how it ended.                                                     *)
OutcomeIsRecorded ==
  ~lossy =>
    \A m \in closed : bags[m] # {} => [mission |-> m, ended |-> TRUE] \in bags[m]

(* Each bag tells its own mission, to the end, and every variable keeps    *)
(* its type.                                                               *)
BagsTellTheirMission == TypeOK /\ BagsAreOwn /\ OutcomeIsRecorded

(* The check of _last_event_sequence and its update are apart, and the two *)
(* threads go through the events at the same time: still every event is    *)
(* published once both are done, provided their numbers differ.            *)
NumbersDiffer ==
  \A p, q \in 1..Len(events) : events[p].number = events[q].number => p = q
EveryEventIsPublished ==
  NumbersDiffer /\ (\A t \in Threads : thread[t] = Rest) => published = 1..Len(events)

(* Recorder status makes the node publish the board, and the board makes   *)
(* the recorder publish status: after the end of a mission this comes to   *)
(* rest, whether or not the bag could be opened.                           *)
EndedMissionsAreQuiet ==
  <>[](board.ended /\ thread["mission"] = Rest) => <>[](statuses = <<>>)
=============================================================================
