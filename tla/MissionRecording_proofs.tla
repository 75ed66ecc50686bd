------------------------ MODULE MissionRecording_proofs ------------------------
(***************************************************************************)
(* Bags tell their own mission, to the end, and every event whose number   *)
(* is its own is published, for any number of missions and however the     *)
(* threads, the topics and the recorder take turns.                        *)
(***************************************************************************)
EXTENDS MissionRecording, Integers, TLAPS

-----------------------------------------------------------------------------
(* Sequences and records.                                                  *)
LEMMA DropFacts ==
  ASSUME NEW S, NEW s \in Seq(S), NEW i \in 1..Len(s)
  PROVE  /\ SubSeq(s, i + 1, Len(s)) \in Seq(S)
         /\ Len(SubSeq(s, i + 1, Len(s))) = Len(s) - i
         /\ \A k \in 1..Len(s) - i : SubSeq(s, i + 1, Len(s))[k] = s[k + i]
OBVIOUS

LEMMA AppendFacts ==
  ASSUME NEW S, NEW s \in Seq(S), NEW e \in S
  PROVE  /\ Append(s, e) \in Seq(S)
         /\ Len(Append(s, e)) = Len(s) + 1
         /\ Append(s, e)[Len(s) + 1] = e
         /\ \A k \in 1..Len(s) : Append(s, e)[k] = s[k]
OBVIOUS

Going == [at : {"events", "last"}, next : Nat, upto : Nat]

LEMMA ThreadFacts ==
  ASSUME NEW x \in ThreadState
  PROVE  /\ x.at \in {"rest", "emit", "board", "events", "last"}
         /\ x.at = "rest" <=> x = Rest
         /\ x.at = "emit" => x.event \in Event
         /\ x.at = "board" => x.board \in Samples
         /\ x.at \in {"events", "last"} => x \in Going /\ x.next \in Nat /\ x.upto \in Nat
BY DEF ThreadState, Rest, Going

LEMMA ThreadStates ==
  /\ Rest \in ThreadState /\ Rest.at = "rest"
  /\ \A e \in Event : [at |-> "emit", event |-> e] \in ThreadState
  /\ \A b \in Samples : [at |-> "board", board |-> b] \in ThreadState
  /\ \A n, u \in Nat : [at |-> "events", next |-> n, upto |-> u] \in ThreadState
  /\ Going \subseteq ThreadState
BY DEF ThreadState, Rest, Going

(* A step of one thread leaves the other where it is.                      *)
LEMMA ThreadMoves ==
  ASSUME thread \in [Threads -> ThreadState], NEW t \in Threads, NEW x \in ThreadState,
         thread' = [thread EXCEPT ![t] = x]
  PROVE  /\ thread' \in [Threads -> ThreadState]
         /\ thread'[t] = x
         /\ \A u \in Threads : u # t => thread'[u] = thread[u]
OBVIOUS

Board == [mission : 0..MaxMissions, ended : BOOLEAN, bag : 0..MaxMissions]
Status == [mission : Missions, bag : 0..MaxMissions]

-----------------------------------------------------------------------------
(* What the actions do to the threads and the board.                       *)
ThreadsInv ==
  /\ board.mission = 0 => board.ended
  /\ \A t \in Threads : thread[t].at # "rest" => board.mission # 0
  /\ \A t \in Threads : thread[t].at = "board" => thread[t].board.mission <= board.mission
  /\ thread["mission"].at = "board" => thread["mission"].board = Sample(board)

(* Threads go through events that are there.                               *)
RangesInv ==
  \A t \in Threads :
    /\ thread[t].at = "events" => thread[t].next \in 1..thread[t].upto + 1
    /\ thread[t].at = "last" => thread[t].next \in 1..thread[t].upto
    /\ thread[t].at \in {"events", "last"} => thread[t].upto \in Nat /\ thread[t].upto <= Len(events)

TypeInv == TypeOK /\ ThreadsInv /\ RangesInv

LEMMA SampleOfBoard ==
  ASSUME NEW b \in Board, b.mission # 0 PROVE Sample(b) \in Samples /\ Sample(b).mission = b.mission
BY BoundAssumption DEF Board, Sample, Samples, Missions

LEMMA BoardCommitted ==
  ASSUME NEW b \in Board
  PROVE  /\ [b EXCEPT !.ended = TRUE] \in Board
         /\ [b EXCEPT !.ended = TRUE].mission = b.mission
         /\ [b EXCEPT !.ended = TRUE].ended
         /\ \A g \in 0..MaxMissions :
              /\ [b EXCEPT !.bag = g] \in Board
              /\ [b EXCEPT !.bag = g].mission = b.mission
              /\ [b EXCEPT !.bag = g].ended = b.ended
BY DEF Board

(* A commit of thread t: the board is b, the thread goes on to emit.       *)
Committed(t, b) ==
  /\ b \in Board /\ b.mission \in Missions
  /\ thread[t] = Rest /\ board' = b
  /\ thread' \in [Threads -> ThreadState]
  /\ thread'[t].at = "emit" /\ thread'[t].event.number = Len(events) + 1
  /\ \A u \in Threads : u # t => thread'[u] = thread[u]

LEMMA CommitFacts ==
  ASSUME TypeInv, NEW t \in Threads, NEW b \in Board, b.mission \in Missions, Commit(t, b)
  PROVE  Committed(t, b)
<1> DEFINE e == [number |-> NextNumber, mission |-> b.mission, ended |-> b.ended]
           x == [at |-> "emit", event |-> e]
<1>1. e \in Event /\ e.number = Len(events) + 1
  BY DEF Event, TypeInv, TypeOK, Board, NextNumber
<1>2. thread[t] = Rest /\ board' = b /\ thread' = [thread EXCEPT ![t] = x]
  BY DEF Commit
<1>3. x.at = "emit" /\ x.event = e
  OBVIOUS
<1> HIDE DEF e
<1>4. x \in ThreadState
  BY <1>1, ThreadStates
<1> HIDE DEF x
<1>5. /\ thread' \in [Threads -> ThreadState] /\ thread'[t] = x
      /\ \A u \in Threads : u # t => thread'[u] = thread[u]
  BY <1>2, <1>4, ThreadMoves DEF TypeInv, TypeOK
<1>6. QED
  BY <1>1, <1>2, <1>3, <1>5 DEF Committed

LEMMA AcceptFacts ==
  ASSUME TypeInv, Accept
  PROVE  /\ board.ended
         /\ \E b \in Board : /\ b.mission = board.mission + 1 /\ ~b.ended
                             /\ Committed("mission", b)
         /\ UNCHANGED <<events, last, published, boards, statuses, lossy, writer, closed, bags>>
<1> DEFINE b == [mission |-> board.mission + 1, ended |-> FALSE, bag |-> 0]
<1>1. board \in Board
  BY DEF TypeInv, TypeOK, Board
<1>2. b \in Board /\ b.mission \in Missions /\ b.mission = board.mission + 1 /\ ~b.ended
  BY <1>1, BoundAssumption DEF Accept, Board, Missions
<1>3. Commit("mission", b)
  BY DEF Accept
<1> HIDE DEF b
<1>4. Committed("mission", b)
  BY <1>2, <1>3, CommitFacts DEF Threads
<1>5. QED
  BY <1>2, <1>4 DEF Accept, topics, recorder

LEMMA EndFacts ==
  ASSUME TypeInv, End
  PROVE  /\ ~board.ended
         /\ \E b \in Board : b.mission = board.mission /\ b.ended /\ Committed("mission", b)
         /\ UNCHANGED <<events, last, published, boards, statuses, lossy, writer, closed, bags>>
<1> DEFINE b == [board EXCEPT !.ended = TRUE]
<1>1. board \in Board
  BY DEF TypeInv, TypeOK, Board
<1>2. b \in Board /\ b.mission = board.mission /\ b.ended
  BY <1>1, BoardCommitted
<1>3. Commit("mission", b) /\ ~board.ended
  BY DEF End
<1> HIDE DEF b
<1>4. b.mission \in Missions
  BY <1>1, <1>2, <1>3, BoundAssumption DEF TypeInv, ThreadsInv, Board, Missions
<1>5. Committed("mission", b)
  BY <1>2, <1>3, <1>4, CommitFacts DEF Threads
<1>6. QED
  BY <1>2, <1>3, <1>5 DEF End, topics, recorder

(* The board read is of the mission it was of, and the thread of status    *)
(* goes to rest, to the board, or to a commit of the bag.                  *)
LEMMA StatusFacts ==
  ASSUME TypeInv, RecorderStatusCallback
  PROVE  /\ \/ UNCHANGED <<board, thread>>
            \/ /\ UNCHANGED board /\ board.mission \in Missions
               /\ thread["status"] = Rest
               /\ thread' \in [Threads -> ThreadState]
               /\ thread'["status"] = [at |-> "board", board |-> Sample(board)]
               /\ thread'["mission"] = thread["mission"]
            \/ \E b \in Board : /\ b.mission = board.mission /\ b.ended = board.ended
                                /\ Committed("status", b)
         /\ statuses' \in Seq(Status)
         /\ UNCHANGED <<events, last, published, boards, lossy, writer, closed, bags>>
<1> USE DEF Threads
<1>1. board \in Board /\ statuses \in Seq(Status)
  BY DEF TypeInv, TypeOK, Board, Status
<1>2. PICK i \in 1..Len(statuses) :
        /\ statuses' = SubSeq(statuses, i + 1, Len(statuses))
        /\ \/ statuses[i].mission # board.mission /\ UNCHANGED <<board, thread>>
           \/ /\ statuses[i].mission = board.mission
              /\ thread' = [thread EXCEPT !["status"] = [at |-> "board", board |-> Sample(board)]]
              /\ UNCHANGED board
           \/ /\ statuses[i].mission = board.mission
              /\ Commit("status", [board EXCEPT !.bag = statuses[i].bag])
  BY DEF RecorderStatusCallback
<1>3. statuses' \in Seq(Status)
  BY <1>1, <1>2, DropFacts
<1>4. statuses[i].mission \in Missions /\ statuses[i].bag \in 0..MaxMissions
  <2>1. statuses[i] \in Status
    BY <1>1
  <2>2. QED
    BY <2>1 DEF Status
<1>5. /\ thread["status"] = Rest
      /\ UNCHANGED <<events, last, published, boards, lossy, writer, closed, bags>>
  BY DEF RecorderStatusCallback, recorder
<1>6. CASE /\ statuses[i].mission = board.mission
           /\ thread' = [thread EXCEPT !["status"] = [at |-> "board", board |-> Sample(board)]]
           /\ UNCHANGED board
  <2> DEFINE x == [at |-> "board", board |-> Sample(board)]
  <2>1. board.mission \in Missions /\ board.mission # 0
    BY <1>4, <1>6, BoundAssumption DEF Missions
  <2>2. x \in ThreadState
    BY <1>1, <2>1, SampleOfBoard, ThreadStates
  <2>3. thread' = [thread EXCEPT !["status"] = x] /\ thread \in [Threads -> ThreadState]
    BY <1>6 DEF TypeInv, TypeOK
  <2> HIDE DEF x
  <2>4. /\ thread' \in [Threads -> ThreadState] /\ thread'["status"] = x
        /\ thread'["mission"] = thread["mission"]
    BY <2>2, <2>3, ThreadMoves
  <2>5. QED
    BY <1>3, <1>5, <1>6, <2>1, <2>4 DEF x
<1>7. CASE /\ statuses[i].mission = board.mission
           /\ Commit("status", [board EXCEPT !.bag = statuses[i].bag])
  <2> DEFINE b == [board EXCEPT !.bag = statuses[i].bag]
  <2>1. b \in Board /\ b.mission = board.mission /\ b.ended = board.ended
    BY <1>1, <1>4, BoardCommitted
  <2>2. Commit("status", b)
    BY <1>7
  <2> HIDE DEF b
  <2>3. Committed("status", b)
    BY <1>4, <1>7, <2>1, <2>2, CommitFacts
  <2>4. QED
    BY <1>3, <1>5, <2>1, <2>3
<1>8. QED
  BY <1>2, <1>3, <1>5, <1>6, <1>7

LEMMA AppendEventFacts ==
  ASSUME TypeInv, NEW t \in Threads, AppendEvent(t)
  PROVE  /\ thread[t].at = "emit" /\ thread[t].event \in Event
         /\ events' = Append(events, thread[t].event)
         /\ thread' \in [Threads -> ThreadState]
         /\ thread'[t].at = "board" /\ thread'[t].board = Sample(board)
         /\ \A u \in Threads : u # t => thread'[u] = thread[u]
         /\ UNCHANGED <<board, last, published, boards, statuses, lossy, writer, closed, bags>>
<1> DEFINE x == [at |-> "board", board |-> Sample(board)]
<1>1. board \in Board /\ thread[t] \in ThreadState
  BY DEF TypeInv, TypeOK, Board
<1>2. /\ thread[t].at = "emit" /\ events' = Append(events, thread[t].event)
      /\ thread' = [thread EXCEPT ![t] = x]
      /\ UNCHANGED <<board, last, published, boards, statuses, lossy, writer, closed, bags>>
  BY DEF AppendEvent, topics, recorder
<1>3. Sample(board) \in Samples
  BY <1>1, <1>2, SampleOfBoard DEF TypeInv, ThreadsInv
<1>4. x \in ThreadState /\ x.at = "board" /\ x.board = Sample(board)
  BY <1>3, ThreadStates
<1> HIDE DEF x
<1>5. thread[t].event \in Event
  BY <1>1, <1>2, ThreadFacts
<1>6. /\ thread' \in [Threads -> ThreadState] /\ thread'[t] = x
      /\ \A u \in Threads : u # t => thread'[u] = thread[u]
  BY <1>2, <1>4, ThreadMoves DEF TypeInv, TypeOK
<1>7. QED
  BY <1>2, <1>4, <1>5, <1>6

LEMMA PublishBoardFacts ==
  ASSUME TypeInv, NEW t \in Threads, PublishBoard(t)
  PROVE  /\ thread[t].at = "board" /\ thread[t].board \in Samples
         /\ boards' = Append(boards, thread[t].board)
         /\ thread' \in [Threads -> ThreadState]
         /\ thread'[t].at = "events" /\ thread'[t].next = 1 /\ thread'[t].upto = Len(events)
         /\ \A u \in Threads : u # t => thread'[u] = thread[u]
         /\ UNCHANGED <<board, events, last, published, statuses, lossy, writer, closed, bags>>
<1> DEFINE x == [at |-> "events", next |-> 1, upto |-> Len(events)]
<1>1. thread[t] \in ThreadState /\ Len(events) \in Nat
  BY DEF TypeInv, TypeOK
<1>2. /\ thread[t].at = "board" /\ boards' = Append(boards, thread[t].board)
      /\ thread' = [thread EXCEPT ![t] = x]
      /\ UNCHANGED <<board, events, last, published, statuses, lossy, writer, closed, bags>>
  BY DEF PublishBoard, executive, recorder
<1>3. x \in ThreadState /\ x.at = "events" /\ x.next = 1 /\ x.upto = Len(events)
  BY <1>1, ThreadStates
<1> HIDE DEF x
<1>4. thread[t].board \in Samples
  BY <1>1, <1>2, ThreadFacts
<1>5. /\ thread' \in [Threads -> ThreadState] /\ thread'[t] = x
      /\ \A u \in Threads : u # t => thread'[u] = thread[u]
  BY <1>2, <1>3, ThreadMoves DEF TypeInv, TypeOK
<1>6. QED
  BY <1>2, <1>3, <1>4, <1>5

(* A thread that goes through the events stays at them, with the same end. *)
GoesOn(t, a, q) ==
  /\ thread' \in [Threads -> ThreadState]
  /\ thread'[t].at = a /\ thread'[t].next = q /\ thread'[t].upto = thread[t].upto
  /\ \A u \in Threads : u # t => thread'[u] = thread[u]

LEMMA GoesOnFacts ==
  ASSUME TypeInv, NEW t \in Threads, NEW a \in {"events", "last"}, NEW q \in Nat,
         thread[t].at \in {"events", "last"},
         thread' = [thread EXCEPT ![t] = [thread[t] EXCEPT !.at = a, !.next = q]]
  PROVE  GoesOn(t, a, q)
<1> DEFINE r == thread[t]
           x == [r EXCEPT !.at = a, !.next = q]
<1>1. r \in Going
  BY ThreadFacts DEF TypeInv, TypeOK
<1>3. thread' = [thread EXCEPT ![t] = x]
  OBVIOUS
<1> HIDE DEF r
<1>2. x \in Going /\ x.at = a /\ x.next = q /\ x.upto = r.upto
  BY <1>1 DEF Going
<1> HIDE DEF x
<1>4. x \in ThreadState
  BY <1>2, ThreadStates
<1>5. /\ thread' \in [Threads -> ThreadState] /\ thread'[t] = x
      /\ \A u \in Threads : u # t => thread'[u] = thread[u]
  BY <1>3, <1>4, ThreadMoves DEF TypeInv, TypeOK
<1>6. QED
  BY <1>2, <1>5 DEF GoesOn, r

LEMMA PublishEventFacts ==
  ASSUME TypeInv, NEW t \in Threads, PublishEvent(t)
  PROVE  /\ thread[t].at = "events"
         /\ \E p \in Unpublished(t) :
              /\ \A q \in Unpublished(t) : p <= q
              /\ published' = published \cup {p}
              /\ GoesOn(t, "last", p)
         /\ UNCHANGED <<board, events, last, boards, statuses, lossy, writer, closed, bags>>
<1>1. PICK p \in Unpublished(t) :
        /\ \A q \in Unpublished(t) : p <= q
        /\ published' = published \cup {p}
        /\ thread' = [thread EXCEPT ![t].at = "last", ![t].next = p]
  BY DEF PublishEvent
<1>2. /\ thread[t].at = "events"
      /\ UNCHANGED <<board, events, last, boards, statuses, lossy, writer, closed, bags>>
  BY DEF PublishEvent, executive, topics, recorder
<1>3. thread[t].next \in Nat /\ thread[t].upto \in Nat
  BY <1>2, ThreadFacts DEF TypeInv, TypeOK
<1>4. p \in Nat
  BY <1>3 DEF Unpublished
<1>5. thread' = [thread EXCEPT ![t] = [thread[t] EXCEPT !.at = "last", !.next = p]]
  BY <1>1 DEF TypeInv, TypeOK
<1>6. GoesOn(t, "last", p)
  BY <1>2, <1>4, <1>5, GoesOnFacts
<1>7. QED
  BY <1>1, <1>2, <1>6

LEMMA AdvanceLastFacts ==
  ASSUME TypeInv, NEW t \in Threads, AdvanceLast(t)
  PROVE  /\ thread[t].at = "last" /\ last' = events[thread[t].next].number
         /\ GoesOn(t, "events", thread[t].next + 1)
         /\ UNCHANGED <<board, events, published, boards, statuses, lossy, writer, closed, bags>>
<1>1. /\ thread[t].at = "last" /\ last' = events[thread[t].next].number
      /\ UNCHANGED <<board, events, published, boards, statuses, lossy, writer, closed, bags>>
  BY DEF AdvanceLast, executive, topics, recorder
<1>2. thread[t].next + 1 \in Nat
  BY <1>1, ThreadFacts DEF TypeInv, TypeOK
<1>3. thread' = [thread EXCEPT ![t] = [thread[t] EXCEPT !.at = "events", !.next = thread[t].next + 1]]
  BY DEF TypeInv, TypeOK, AdvanceLast
<1>4. GoesOn(t, "events", thread[t].next + 1)
  BY <1>1, <1>2, <1>3, GoesOnFacts
<1>5. QED
  BY <1>1, <1>4

LEMMA EndUpdateFacts ==
  ASSUME TypeInv, NEW t \in Threads, EndUpdate(t)
  PROVE  /\ thread[t].at = "events" /\ Unpublished(t) = {}
         /\ thread' \in [Threads -> ThreadState]
         /\ thread'[t] = Rest
         /\ \A u \in Threads : u # t => thread'[u] = thread[u]
         /\ UNCHANGED <<board, events, last, published, boards, statuses, lossy, writer, closed, bags>>
<1>1. /\ thread[t].at = "events" /\ Unpublished(t) = {} /\ thread' = [thread EXCEPT ![t] = Rest]
      /\ UNCHANGED <<board, events, last, published, boards, statuses, lossy, writer, closed, bags>>
  BY DEF EndUpdate, executive, topics, recorder
<1>2. /\ thread' \in [Threads -> ThreadState] /\ thread'[t] = Rest
      /\ \A u \in Threads : u # t => thread'[u] = thread[u]
  BY <1>1, ThreadMoves, ThreadStates DEF TypeInv, TypeOK
<1>3. QED
  BY <1>1, <1>2

(* A board received: ignored, or written to the bag that is open after it. *)
Recorded(sample, w) ==
  /\ w \in IF NeedsBag(sample) THEN Opening(sample.mission) ELSE {writer}
  /\ writer' = WriterAfter(sample, w)
  /\ bags' = Written(sample, w)
  /\ closed' = IF sample.ended THEN closed \cup {sample.mission} ELSE closed

LEMMA BoardCallbackFacts ==
  ASSUME TypeInv, BoardCallback
  PROVE  /\ \E i \in 1..Len(boards) :
              /\ boards[i] \in Samples
              /\ boards' \in Seq(Samples) /\ Len(boards') = Len(boards) - i
              /\ \A k \in 1..Len(boards) - i : boards'[k] = boards[k + i]
              /\ lossy' = (lossy \/ i > 1)
              /\ \/ boards[i].mission \in closed /\ UNCHANGED <<statuses, writer, closed, bags>>
                 \/ /\ boards[i].mission \notin closed
                    /\ \E w \in 0..MaxMissions : Recorded(boards[i], w)
                    /\ statuses' \in Seq(Status)
         /\ UNCHANGED <<board, events, last, thread, published>>
<1>1. boards \in Seq(Samples) /\ statuses \in Seq(Status) /\ writer \in 0..MaxMissions
  BY DEF TypeInv, TypeOK, Status
<1>2. PICK i \in 1..Len(boards) :
        /\ boards' = SubSeq(boards, i + 1, Len(boards))
        /\ lossy' = (lossy \/ i > 1)
        /\ \/ Ignored(boards[i]) /\ UNCHANGED <<statuses, recorder>>
           \/ /\ ~Ignored(boards[i])
              /\ \E w \in IF NeedsBag(boards[i]) THEN Opening(boards[i].mission) ELSE {writer} :
                   /\ writer' = WriterAfter(boards[i], w)
                   /\ bags' = Written(boards[i], w)
                   /\ statuses' = statuses \o StatusesFor(boards[i], w)
              /\ closed' = IF boards[i].ended THEN closed \cup {boards[i].mission} ELSE closed
  BY DEF BoardCallback
<1>3. /\ boards' \in Seq(Samples) /\ Len(boards') = Len(boards) - i
      /\ \A k \in 1..Len(boards) - i : boards'[k] = boards[k + i]
  BY <1>1, <1>2, DropFacts
<1> DEFINE sample == boards[i]
<1>4. sample \in Samples
  BY <1>1
<1> HIDE DEF sample
<1>5. sample.mission \in 1..MaxMissions /\ sample.mission \in Missions
  BY <1>4 DEF Samples, Missions
<1>6. ASSUME NEW w \in IF NeedsBag(sample) THEN Opening(sample.mission) ELSE {writer},
             statuses' = statuses \o StatusesFor(sample, w)
      PROVE  w \in 0..MaxMissions /\ statuses' \in Seq(Status)
  <2>1. w \in 0..MaxMissions
    BY <1>1, <1>5, BoundAssumption DEF Opening
  <2>2. \A m \in Missions, b \in 0..MaxMissions : [mission |-> m, bag |-> b] \in Status
    BY DEF Status
  <2>3. writer # 0 => writer \in Missions
    BY <1>1, BoundAssumption DEF Missions
  <2>4. /\ writer # 0 => [mission |-> writer, bag |-> writer] \in Status
        /\ [mission |-> sample.mission, bag |-> w] \in Status
    BY <1>1, <1>5, <2>1, <2>2, <2>3
  <2> DEFINE s1 == IF NeedsBag(sample) /\ writer # 0
                   THEN <<[mission |-> writer, bag |-> writer]>> ELSE <<>>
             s2 == IF NeedsBag(sample) THEN <<[mission |-> sample.mission, bag |-> w]>> ELSE <<>>
             s3 == IF sample.ended /\ w # 0
                   THEN <<[mission |-> sample.mission, bag |-> w]>> ELSE <<>>
  <2>5. /\ \A x \in Status : <<x>> \in Seq(Status)
        /\ <<>> \in Seq(Status)
    OBVIOUS
  <2>6. s1 \in Seq(Status) /\ s2 \in Seq(Status) /\ s3 \in Seq(Status)
    BY <2>4, <2>5
  <2>7. statuses' = statuses \o (s1 \o s2 \o s3)
    BY <1>6 DEF StatusesFor
  <2> HIDE DEF s1, s2, s3
  <2>8. statuses' \in Seq(Status)
    BY <1>1, <2>6, <2>7
  <2>9. QED
    BY <2>1, <2>8
<1>7. \/ sample.mission \in closed /\ UNCHANGED <<statuses, writer, closed, bags>>
      \/ /\ sample.mission \notin closed
         /\ \E w \in 0..MaxMissions : Recorded(sample, w)
         /\ statuses' \in Seq(Status)
  <2>1. CASE Ignored(sample)
    BY <1>2, <2>1 DEF Ignored, recorder, sample
  <2>2. CASE ~Ignored(sample)
    <3>1. PICK w \in IF NeedsBag(sample) THEN Opening(sample.mission) ELSE {writer} :
            /\ writer' = WriterAfter(sample, w)
            /\ bags' = Written(sample, w)
            /\ statuses' = statuses \o StatusesFor(sample, w)
            /\ closed' = IF sample.ended THEN closed \cup {sample.mission} ELSE closed
      BY <1>2, <2>2 DEF sample
    <3>2. w \in 0..MaxMissions /\ statuses' \in Seq(Status)
      BY <1>6, <3>1
    <3>3. QED
      BY <2>2, <3>1, <3>2 DEF Recorded, Ignored
  <2>3. QED
    BY <2>1, <2>2
<1>8. QED
  BY <1>2, <1>3, <1>4, <1>7 DEF sample, BoardCallback, executive

-----------------------------------------------------------------------------
(* Types, and where the threads are.                                       *)
LEMMA TypeInit == Init => TypeInv
<1> SUFFICES ASSUME Init PROVE TypeInv
  OBVIOUS
<1>1. \A t \in Threads : thread[t] = Rest /\ thread[t].at = "rest"
  BY ThreadStates DEF Init
<1>2. thread \in [Threads -> ThreadState]
  BY ThreadStates DEF Init
<1>3. TypeOK
  <2>1. board \in [mission : 0..MaxMissions, ended : BOOLEAN, bag : 0..MaxMissions]
    BY BoundAssumption DEF Init
  <2>2. bags \in [Missions -> SUBSET Samples] /\ writer \in 0..MaxMissions
    BY BoundAssumption DEF Init
  <2>3. events \in Seq(Event) /\ boards \in Seq(Samples)
          /\ statuses \in Seq([mission : Missions, bag : 0..MaxMissions])
    BY DEF Init
  <2>4. QED
    BY <1>2, <2>1, <2>2, <2>3 DEF Init, TypeOK
<1>4. ThreadsInv /\ RangesInv
  BY <1>1 DEF Init, ThreadsInv, RangesInv, Threads
<1>5. QED
  BY <1>3, <1>4 DEF TypeInv

(* A commit of either thread.                                              *)
LEMMA CommitKeeps ==
  ASSUME TypeInv, NEW t \in Threads, NEW b \in Board, Committed(t, b),
         board.mission <= b.mission,
         t = "status" => b.mission = board.mission /\ b.ended = board.ended,
         UNCHANGED <<events, last, published, boards, lossy, writer, closed, bags>>,
         statuses' \in Seq(Status)
  PROVE  TypeInv'
<1> USE DEF Threads
<1>0. /\ board' = b /\ b.mission # 0 /\ thread' \in [Threads -> ThreadState]
      /\ b.mission \in 0..MaxMissions /\ board.mission \in 0..MaxMissions
  BY BoundAssumption DEF Committed, Missions, Board, TypeInv, TypeOK
<1>1. thread'[t].at = "emit" /\ \A u \in Threads : u # t => thread'[u] = thread[u]
  BY DEF Committed
<1>2. TypeOK'
  BY <1>0 DEF TypeInv, TypeOK, Board, Status
<1>3. ThreadsInv'
  <2>1. \A u \in Threads : thread'[u].at = "board" => thread'[u].board.mission <= b.mission
    <3> SUFFICES ASSUME NEW u \in Threads, thread'[u].at = "board"
                 PROVE  thread'[u].board.mission <= b.mission
      OBVIOUS
    <3>1. thread'[u] = thread[u] /\ thread[u] \in ThreadState
      BY <1>1 DEF TypeInv, TypeOK
    <3>2. thread[u].board.mission \in Missions /\ thread[u].board.mission <= board.mission
      BY <3>1, ThreadFacts DEF TypeInv, ThreadsInv, Samples
    <3>3. QED
      BY <1>0, <3>1, <3>2, BoundAssumption DEF Missions
  <2>2. thread'["mission"].at = "board" => thread'["mission"].board = Sample(b)
    BY <1>1 DEF TypeInv, ThreadsInv, Sample
  <2>3. QED
    BY <1>0, <2>1, <2>2 DEF ThreadsInv
<1>4. RangesInv'
  BY <1>1 DEF TypeInv, RangesInv
<1>5. QED
  BY <1>2, <1>3, <1>4 DEF TypeInv

(* A step of one thread that leaves the board, or reads it.                *)
LEMMA ThreadsKept ==
  ASSUME TypeInv, NEW t \in Threads, UNCHANGED board,
         thread'[t].at # "rest" => board.mission # 0,
         thread'[t].at = "board" => thread'[t].board = Sample(board),
         \A u \in Threads : u # t => thread'[u] = thread[u]
  PROVE  ThreadsInv'
<1>1. board.mission = 0 => board.ended
  BY DEF TypeInv, ThreadsInv
<1>2. \A u \in Threads : thread'[u].at # "rest" => board.mission # 0
  BY DEF TypeInv, ThreadsInv
<1>3. Sample(board).mission = board.mission /\ board.mission <= board.mission
  BY DEF Sample, TypeInv, TypeOK
<1>4. \A u \in Threads : thread'[u].at = "board" => thread'[u].board.mission <= board.mission
  <2> SUFFICES ASSUME NEW u \in Threads, thread'[u].at = "board"
               PROVE  thread'[u].board.mission <= board.mission
    OBVIOUS
  <2>1. CASE u = t
    BY <1>3, <2>1
  <2>2. CASE u # t
    BY <2>2 DEF TypeInv, ThreadsInv
  <2>3. QED
    BY <2>1, <2>2
<1>5. thread'["mission"].at = "board" => thread'["mission"].board = Sample(board)
  <2>1. CASE t = "mission"
    BY <2>1
  <2>2. CASE t # "mission"
    BY <2>2 DEF TypeInv, ThreadsInv, Threads
  <2>3. QED
    BY <2>1, <2>2
<1>6. Sample(board)' = Sample(board)
  BY DEF Sample
<1>7. QED
  BY <1>1, <1>2, <1>4, <1>5, <1>6 DEF ThreadsInv

LEMMA TypeStep == TypeInv /\ [Next]_vars => TypeInv'
<1> SUFFICES ASSUME TypeInv, [Next]_vars PROVE TypeInv'
  OBVIOUS
<1>0. /\ board \in Board /\ events \in Seq(Event) /\ boards \in Seq(Samples) /\ Len(events) \in Nat
      /\ thread \in [Threads -> ThreadState] /\ statuses \in Seq(Status) /\ lossy \in BOOLEAN
      /\ board.mission \in Int
  BY DEF TypeInv, TypeOK, Board, Status
<1>1. CASE Accept
  <2>1. PICK b \in Board : b.mission = board.mission + 1 /\ Committed("mission", b)
    BY <1>1, AcceptFacts
  <2>2. board.mission <= b.mission
    BY <1>0, <2>1
  <2>3. QED
    BY <1>0, <1>1, <2>1, <2>2, AcceptFacts, CommitKeeps DEF Threads
<1>2. CASE End
  <2>1. PICK b \in Board : b.mission = board.mission /\ Committed("mission", b)
    BY <1>2, EndFacts
  <2>2. board.mission <= b.mission
    BY <1>0, <2>1
  <2>3. QED
    BY <1>0, <1>2, <2>1, <2>2, EndFacts, CommitKeeps DEF Threads
<1>3. CASE RecorderStatusCallback
  <2>0. /\ statuses' \in Seq(Status)
        /\ UNCHANGED <<events, last, published, boards, lossy, writer, closed, bags>>
    BY <1>3, StatusFacts
  <2>1. CASE UNCHANGED <<board, thread>>
    <3>1. TypeOK'
      BY <2>0, <2>1 DEF TypeInv, TypeOK, Status
    <3>2. ThreadsInv' /\ RangesInv'
      BY <2>0, <2>1 DEF TypeInv, ThreadsInv, RangesInv, Sample
    <3>3. QED
      BY <3>1, <3>2 DEF TypeInv
  <2>2. CASE /\ UNCHANGED board /\ board.mission \in Missions
             /\ thread["status"] = Rest
             /\ thread' \in [Threads -> ThreadState]
             /\ thread'["status"] = [at |-> "board", board |-> Sample(board)]
             /\ thread'["mission"] = thread["mission"]
    <3>1. TypeOK'
      BY <2>0, <2>2 DEF TypeInv, TypeOK, Status
    <3>2. board.mission # 0 /\ board.mission <= board.mission
      BY <1>0, <2>2, BoundAssumption DEF Missions
    <3>3. thread'["status"].at = "board" /\ thread'["status"].board.mission = board.mission
      BY <2>2 DEF Sample
    <3>4. ThreadsInv'
      <4>1. "status" \in Threads /\ \A u \in Threads : u # "status" => thread'[u] = thread[u]
        BY <2>2 DEF Threads
      <4>2. thread'["status"].board = Sample(board)
        BY <2>2
      <4>3. QED
        BY <2>2, <3>2, <3>3, <4>1, <4>2, ThreadsKept
    <3>5. RangesInv'
      BY <2>0, <2>2, <3>3 DEF TypeInv, RangesInv, Threads
    <3>6. QED
      BY <3>1, <3>4, <3>5 DEF TypeInv
  <2>3. CASE \E b \in Board : b.mission = board.mission /\ b.ended = board.ended /\ Committed("status", b)
    <3>1. PICK b \in Board : b.mission = board.mission /\ b.ended = board.ended /\ Committed("status", b)
      BY <2>3
    <3>2. board.mission <= b.mission
      BY <1>0, <3>1
    <3>3. QED
      BY <2>0, <3>1, <3>2, CommitKeeps DEF Threads
  <2>4. QED
    BY <1>3, <2>1, <2>2, <2>3, StatusFacts
<1>4. ASSUME NEW t \in Threads, AppendEvent(t) PROVE TypeInv'
  <2>1. /\ thread[t].at = "emit" /\ thread[t].event \in Event
        /\ events' = Append(events, thread[t].event)
        /\ thread' \in [Threads -> ThreadState]
        /\ thread'[t].at = "board" /\ thread'[t].board = Sample(board)
        /\ \A u \in Threads : u # t => thread'[u] = thread[u]
        /\ UNCHANGED <<board, last, published, boards, statuses, lossy, writer, closed, bags>>
    BY <1>4, AppendEventFacts
  <2>2. events' \in Seq(Event) /\ Len(events') = Len(events) + 1
    BY <1>0, <2>1, AppendFacts
  <2>3. published' \subseteq 1..Len(events')
    BY <1>0, <2>1, <2>2 DEF TypeInv, TypeOK
  <2>4. TypeOK'
    BY <2>1, <2>2, <2>3 DEF TypeInv, TypeOK
  <2>5. ThreadsInv'
    <3>1. board.mission # 0
      BY <2>1 DEF TypeInv, ThreadsInv
    <3>2. QED
      BY <2>1, <3>1, ThreadsKept
  <2>6. RangesInv'
    <3> SUFFICES ASSUME NEW u \in Threads
                 PROVE  /\ thread'[u].at = "events" => thread'[u].next \in 1..thread'[u].upto + 1
                        /\ thread'[u].at = "last" => thread'[u].next \in 1..thread'[u].upto
                        /\ thread'[u].at \in {"events", "last"} =>
                             thread'[u].upto \in Nat /\ thread'[u].upto <= Len(events')
      BY DEF RangesInv
    <3>1. CASE u = t
      BY <2>1, <3>1
    <3>2. CASE u # t
      BY <1>0, <2>1, <2>2, <3>2 DEF TypeInv, RangesInv
    <3>3. QED
      BY <3>1, <3>2
  <2>7. QED
    BY <2>4, <2>5, <2>6 DEF TypeInv
<1>5. ASSUME NEW t \in Threads, PublishBoard(t) PROVE TypeInv'
  <2>1. /\ thread[t].at = "board" /\ thread[t].board \in Samples
        /\ boards' = Append(boards, thread[t].board)
        /\ thread' \in [Threads -> ThreadState]
        /\ thread'[t].at = "events" /\ thread'[t].next = 1 /\ thread'[t].upto = Len(events)
        /\ \A u \in Threads : u # t => thread'[u] = thread[u]
        /\ UNCHANGED <<board, events, last, published, statuses, writer, closed, bags, lossy>>
    BY <1>5, PublishBoardFacts
  <2>2. boards' \in Seq(Samples)
    BY <1>0, <2>1, AppendFacts
  <2>3. TypeOK'
    BY <2>1, <2>2 DEF TypeInv, TypeOK
  <2>4. ThreadsInv'
    <3>1. board.mission # 0
      BY <2>1 DEF TypeInv, ThreadsInv
    <3>2. QED
      BY <2>1, <3>1, ThreadsKept
  <2>5. 1 \in 1..Len(events) + 1 /\ Len(events) <= Len(events)
    BY <1>0
  <2>6. RangesInv'
    BY <1>0, <2>1, <2>5 DEF TypeInv, RangesInv
  <2>7. QED
    BY <2>3, <2>4, <2>6 DEF TypeInv
(* Threads that go on at the events: what is left to check is the range.   *)
<1>6. ASSUME NEW t \in Threads, NEW a \in {"events", "last"}, NEW q \in Nat, GoesOn(t, a, q),
             thread[t].at \in {"events", "last"},
             a = "events" => q \in 1..thread[t].upto + 1, a = "last" => q \in 1..thread[t].upto,
             published' \subseteq 1..Len(events), last' \in Nat,
             UNCHANGED <<board, events, boards, statuses, lossy, writer, closed, bags>>
      PROVE  TypeInv'
  <2>1. TypeOK'
    BY <1>6 DEF TypeInv, TypeOK, GoesOn
  <2>2. thread'[t].at \notin {"rest", "board"} /\ thread[t].at # "rest"
    BY <1>6 DEF GoesOn
  <2>3. ThreadsInv'
    <3>1. board.mission # 0
      BY <2>2 DEF TypeInv, ThreadsInv
    <3>2. QED
      BY <1>6, <2>2, <3>1, ThreadsKept DEF GoesOn
  <2>4. RangesInv'
    BY <1>6 DEF TypeInv, RangesInv, GoesOn
  <2>5. QED
    BY <2>1, <2>3, <2>4 DEF TypeInv
<1>7. ASSUME NEW t \in Threads, PublishEvent(t) PROVE TypeInv'
  <2>1. PICK p \in Unpublished(t) : published' = published \cup {p} /\ GoesOn(t, "last", p)
    BY <1>7, PublishEventFacts
  <2>2. /\ thread[t].at = "events"
        /\ UNCHANGED <<board, events, last, boards, statuses, lossy, writer, closed, bags>>
    BY <1>7, PublishEventFacts
  <2>3. /\ thread[t].next \in 1..thread[t].upto + 1
        /\ thread[t].upto \in Nat /\ thread[t].upto <= Len(events)
    BY <2>2 DEF TypeInv, RangesInv
  <2>4. p \in 1..thread[t].upto /\ p \in 1..Len(events) /\ p \in Nat
    BY <1>0, <2>3 DEF Unpublished
  <2>5. published' \subseteq 1..Len(events) /\ last' \in Nat
    BY <2>1, <2>2, <2>4 DEF TypeInv, TypeOK
  <2>6. QED
    BY <1>6, <2>1, <2>2, <2>4, <2>5
<1>8. ASSUME NEW t \in Threads, AdvanceLast(t) PROVE TypeInv'
  <2>1. /\ thread[t].at = "last" /\ last' = events[thread[t].next].number
        /\ GoesOn(t, "events", thread[t].next + 1)
        /\ UNCHANGED <<board, events, published, boards, statuses, lossy, writer, closed, bags>>
    BY <1>8, AdvanceLastFacts
  <2>2. /\ thread[t].next \in 1..thread[t].upto
        /\ thread[t].upto \in Nat /\ thread[t].upto <= Len(events)
    BY <2>1 DEF TypeInv, RangesInv
  <2>3. /\ thread[t].next + 1 \in 1..thread[t].upto + 1 /\ thread[t].next + 1 \in Nat
        /\ thread[t].next \in 1..Len(events)
    BY <1>0, <2>2
  <2>4. events[thread[t].next] \in Event
    BY <1>0, <2>3
  <2>5. last' \in Nat /\ published' \subseteq 1..Len(events)
    BY <2>1, <2>4 DEF Event, TypeInv, TypeOK
  <2>6. QED
    BY <1>6, <2>1, <2>3, <2>5
<1>9. ASSUME NEW t \in Threads, EndUpdate(t) PROVE TypeInv'
  <2>1. /\ thread' \in [Threads -> ThreadState]
        /\ thread'[t] = Rest /\ thread'[t].at = "rest"
        /\ \A u \in Threads : u # t => thread'[u] = thread[u]
        /\ UNCHANGED <<board, events, last, published, boards, statuses, lossy, writer, closed, bags>>
    BY <1>9, EndUpdateFacts, ThreadStates
  <2>2. TypeOK'
    BY <2>1 DEF TypeInv, TypeOK
  <2>3. ThreadsInv'
    BY <2>1, ThreadsKept
  <2>4. RangesInv'
    BY <2>1 DEF TypeInv, RangesInv
  <2>5. QED
    BY <2>2, <2>3, <2>4 DEF TypeInv
<1>10. CASE BoardCallback
  <2>1. PICK i \in 1..Len(boards) :
              /\ boards[i] \in Samples /\ boards' \in Seq(Samples)
              /\ lossy' = (lossy \/ i > 1)
              /\ \/ UNCHANGED <<statuses, writer, closed, bags>>
                 \/ (\E w \in 0..MaxMissions : Recorded(boards[i], w)) /\ statuses' \in Seq(Status)
    BY <1>10, BoardCallbackFacts
  <2>2. UNCHANGED <<board, events, last, thread, published>>
    BY <1>10, BoardCallbackFacts
  <2>3. writer' \in 0..MaxMissions /\ closed' \subseteq Missions /\ bags' \in [Missions -> SUBSET Samples]
        /\ statuses' \in Seq(Status)
    <3>1. CASE UNCHANGED <<statuses, writer, closed, bags>>
      BY <1>0, <3>1 DEF TypeInv, TypeOK
    <3>2. CASE (\E w \in 0..MaxMissions : Recorded(boards[i], w)) /\ statuses' \in Seq(Status)
      <4>1. PICK w \in 0..MaxMissions : Recorded(boards[i], w)
        BY <3>2
      <4> DEFINE sample == boards[i]
      <4>2. sample \in Samples /\ Recorded(sample, w)
        BY <2>1, <4>1
      <4> HIDE DEF sample
      <4>3. sample.mission \in Missions
        BY <4>2 DEF Samples
      <4>4. writer' \in 0..MaxMissions
        BY <4>2, BoundAssumption DEF Recorded, WriterAfter
      <4>5. closed' \subseteq Missions
        BY <4>2, <4>3 DEF Recorded, TypeInv, TypeOK
      <4>6. bags' \in [Missions -> SUBSET Samples]
        BY <4>2 DEF Recorded, Written, TypeInv, TypeOK
      <4>7. QED
        BY <3>2, <4>4, <4>5, <4>6
    <3>3. QED
      BY <2>1, <3>1, <3>2
  <2>4. lossy' \in BOOLEAN
    BY <2>1
  <2>5. TypeOK'
    BY <2>1, <2>2, <2>3, <2>4 DEF TypeInv, TypeOK, Status
  <2>6. ThreadsInv' /\ RangesInv'
    BY <2>2 DEF TypeInv, ThreadsInv, RangesInv, Sample
  <2>7. QED
    BY <2>5, <2>6 DEF TypeInv
<1>11. CASE UNCHANGED vars
  <2>1. TypeOK'
    BY <1>11 DEF vars, executive, topics, recorder, TypeInv, TypeOK
  <2>2. ThreadsInv' /\ RangesInv'
    BY <1>11 DEF vars, executive, topics, recorder, TypeInv, ThreadsInv, RangesInv, Sample
  <2>3. QED
    BY <2>1, <2>2 DEF TypeInv
<1>12. QED
  BY <1>1, <1>2, <1>3, <1>4, <1>5, <1>7, <1>8, <1>9, <1>10, <1>11 DEF Next, Update

-----------------------------------------------------------------------------
(* Events.  Numbers that all differ are the positions: a number that is    *)
(* not above its position has been given to the event there.  Then what a  *)
(* thread skips, it skips because it is published, also when the other one *)
(* has set last back; and what no thread has before it is published.       *)
NumbersInv ==
  /\ \A t \in Threads : thread[t].at = "emit" => thread[t].event.number <= Len(events) + 1
  /\ NumbersDiffer => \A p \in 1..Len(events) : events[p].number = p

GoneThrough(t) ==
  IF thread[t].at = "events" THEN thread[t].next - 1
  ELSE IF thread[t].at = "last" THEN thread[t].next ELSE 0

Covers(t, p) ==
  \/ thread[t].at = "board"
  \/ thread[t].at \in {"events", "last"} /\ p <= thread[t].upto

PublishedInv ==
  /\ 1..last \subseteq published
  /\ \A t \in Threads : 1..GoneThrough(t) \subseteq published
  /\ \A p \in 1..Len(events) : p \in published \/ \E t \in Threads : Covers(t, p)

EventInv == TypeInv /\ NumbersInv /\ (NumbersDiffer => PublishedInv)

(* A step that emits nothing.                                              *)
LEMMA NumbersKept ==
  ASSUME NumbersInv, UNCHANGED events,
         \A u \in Threads : thread'[u] = thread[u] \/ thread'[u].at # "emit"
                              \/ thread'[u].event.number = Len(events) + 1,
         Len(events) \in Nat
  PROVE  NumbersInv' /\ (NumbersDiffer' => NumbersDiffer)
<1>1. \A t \in Threads : thread'[t].at = "emit" => thread'[t].event.number <= Len(events) + 1
  <2> SUFFICES ASSUME NEW t \in Threads, thread'[t].at = "emit"
               PROVE  thread'[t].event.number <= Len(events) + 1
    OBVIOUS
  <2>1. CASE thread'[t] = thread[t]
    BY <2>1 DEF NumbersInv
  <2>2. CASE thread'[t].event.number = Len(events) + 1
    BY <2>2
  <2>3. QED
    BY <2>1, <2>2
<1>2. NumbersDiffer' <=> NumbersDiffer
  BY DEF NumbersDiffer
<1>3. QED
  BY <1>1, <1>2 DEF NumbersInv

(* A step after which nothing is covered less, and nothing gone through.   *)
LEMMA PublishedKept ==
  ASSUME PublishedInv, UNCHANGED <<events, last>>, published \subseteq published',
         \A t \in Threads : 1..GoneThrough(t)' \subseteq published',
         \A p \in 1..Len(events), t \in Threads : Covers(t, p) =>
           p \in published' \/ \E u \in Threads : Covers(u, p)'
  PROVE  PublishedInv'
BY DEF PublishedInv

LEMMA EventInit == Init => EventInv
<1> SUFFICES ASSUME Init PROVE EventInv
  OBVIOUS
<1>1. \A t \in Threads : thread[t].at = "rest"
  BY ThreadStates DEF Init
<1>2. Len(events) = 0 /\ last = 0
  BY DEF Init
<1>3. NumbersInv /\ PublishedInv
  BY <1>1, <1>2 DEF NumbersInv, PublishedInv, GoneThrough, Covers
<1>4. QED
  BY <1>3, TypeInit DEF EventInv

LEMMA EventStep == EventInv /\ [Next]_vars => EventInv'
<1> SUFFICES ASSUME EventInv, [Next]_vars PROVE EventInv'
  OBVIOUS
<1> USE DEF EventInv
<1>0. /\ TypeInv' /\ events \in Seq(Event) /\ Len(events) \in Nat /\ last \in Nat
      /\ published \subseteq 1..Len(events)
      /\ \A t \in Threads : thread[t] \in ThreadState
  BY TypeStep DEF TypeInv, TypeOK
(* Commits, and boards that are read: a thread at rest goes on.            *)
<1>1. ASSUME NEW t \in Threads, thread[t] = Rest,
             \/ thread'[t].at = "emit" /\ thread'[t].event.number = Len(events) + 1
             \/ thread'[t].at = "board",
             \A u \in Threads : u # t => thread'[u] = thread[u],
             UNCHANGED <<events, last, published>>
      PROVE  EventInv'
  <2>1. NumbersInv' /\ (NumbersDiffer' => NumbersDiffer)
    <3>1. \A u \in Threads : thread'[u] = thread[u] \/ thread'[u].at # "emit"
                               \/ thread'[u].event.number = Len(events) + 1
      BY <1>1
    <3>2. QED
      BY <1>0, <1>1, <3>1, NumbersKept
  <2>2. ASSUME PublishedInv PROVE PublishedInv'
    <3>1. \A u \in Threads : 1..GoneThrough(u)' \subseteq published
      BY <1>1, <2>2 DEF GoneThrough, PublishedInv
    <3>2. thread[t].at = "rest"
      BY <1>1, ThreadStates
    <3>3. \A p \in 1..Len(events), u \in Threads : Covers(u, p) => Covers(u, p)'
      BY <1>1, <3>2 DEF Covers
    <3>4. QED
      BY <1>1, <2>2, <3>1, <3>3, PublishedKept
  <2>3. QED
    BY <1>0, <2>1, <2>2
<1>2. CASE Accept
  BY <1>1, <1>2, AcceptFacts DEF Committed, Threads
<1>3. CASE End
  BY <1>1, <1>3, EndFacts DEF Committed, Threads
(* Nothing of the events changes.                                          *)
<1>4. ASSUME UNCHANGED <<events, last, published, thread>> PROVE EventInv'
  <2>1. NumbersInv' /\ (NumbersDiffer' <=> NumbersDiffer)
    BY <1>4 DEF NumbersInv, NumbersDiffer
  <2>2. PublishedInv' <=> PublishedInv
    BY <1>4 DEF PublishedInv, GoneThrough, Covers
  <2>3. QED
    BY <1>0, <2>1, <2>2
<1>5. CASE RecorderStatusCallback
  <2>1. UNCHANGED <<events, last, published>>
    BY <1>5, StatusFacts
  <2>2. CASE UNCHANGED <<board, thread>>
    BY <1>4, <2>1, <2>2
  <2>3. CASE /\ UNCHANGED board /\ board.mission \in Missions
             /\ thread["status"] = Rest
             /\ thread' \in [Threads -> ThreadState]
             /\ thread'["status"] = [at |-> "board", board |-> Sample(board)]
             /\ thread'["mission"] = thread["mission"]
    <3>1. thread'["status"].at = "board"
      BY <2>3
    <3>2. QED
      BY <1>1, <2>1, <2>3, <3>1 DEF Threads
  <2>4. CASE \E b \in Board : b.mission = board.mission /\ b.ended = board.ended /\ Committed("status", b)
    BY <1>1, <2>1, <2>4 DEF Committed, Threads
  <2>5. QED
    BY <1>5, <2>2, <2>3, <2>4, StatusFacts
<1>6. ASSUME NEW t \in Threads, AppendEvent(t) PROVE EventInv'
  <2>1. /\ thread[t].at = "emit" /\ thread[t].event \in Event
        /\ events' = Append(events, thread[t].event)
        /\ thread'[t].at = "board"
        /\ \A u \in Threads : u # t => thread'[u] = thread[u]
        /\ UNCHANGED <<last, published>>
    BY <1>6, AppendEventFacts
  <2> DEFINE n == Len(events)
             e == thread[t].event
  <2>2. /\ Len(events') = n + 1 /\ events'[n + 1] = e
        /\ \A k \in 1..n : events'[k] = events[k]
    BY <1>0, <2>1, AppendFacts
  <2>3. n \in Nat /\ e.number \in Nat /\ e.number >= 1 /\ e.number <= n + 1
    BY <1>0, <2>1 DEF Event, NumbersInv
  <2>4. NumbersDiffer' => NumbersDiffer
    <3> SUFFICES ASSUME NumbersDiffer', NEW p \in 1..n, NEW q \in 1..n,
                        events[p].number = events[q].number
                 PROVE  p = q
      BY DEF NumbersDiffer
    <3>1. p \in 1..Len(events') /\ q \in 1..Len(events')
      BY <2>2, <2>3
    <3>2. events'[p].number = events'[q].number
      BY <2>2
    <3>3. QED
      BY <3>1, <3>2 DEF NumbersDiffer
  <2>5. ASSUME NumbersDiffer' PROVE \A p \in 1..n + 1 : events'[p].number = p
    <3>1. \A p \in 1..n : events[p].number = p
      BY <2>4, <2>5 DEF NumbersInv
    <3>2. e.number = n + 1
      <4> SUFFICES ASSUME e.number <= n PROVE FALSE
        BY <2>3
      <4> DEFINE k == e.number
      <4>1. k \in 1..n /\ k \in 1..Len(events') /\ n + 1 \in 1..Len(events') /\ k # n + 1
        BY <2>2, <2>3
      <4>2. events'[k].number = k /\ events'[n + 1].number = k
        BY <2>2, <3>1, <4>1
      <4> HIDE DEF k, n
      <4>3. QED
        BY <2>5, <4>1, <4>2 DEF NumbersDiffer
    <3>3. \A p \in 1..n + 1 : p \in 1..n \/ p = n + 1
      BY <2>3
    <3> HIDE DEF n, e
    <3>4. QED
      BY <2>2, <3>1, <3>2, <3>3
  <2>6. NumbersInv'
    <3>1. \A u \in Threads : thread'[u].at = "emit" => thread'[u].event.number <= n + 1 + 1
      <4> SUFFICES ASSUME NEW u \in Threads, thread'[u].at = "emit"
                   PROVE  thread'[u].event.number <= n + 1 + 1
        OBVIOUS
      <4>1. thread'[u] = thread[u]
        BY <2>1
      <4>2. thread[u].event \in Event /\ thread[u].event.number <= n + 1
        BY <1>0, <4>1, ThreadFacts DEF NumbersInv
      <4>3. thread[u].event.number \in Nat
        BY <4>2 DEF Event
      <4>4. QED
        BY <2>3, <4>1, <4>2, <4>3
    <3> HIDE DEF n
    <3>2. QED
      BY <2>2, <2>5, <3>1 DEF NumbersInv
  <2>7. ASSUME PublishedInv PROVE PublishedInv'
    <3>1. 1..last' \subseteq published'
      BY <2>1, <2>7 DEF PublishedInv
    <3>2. \A u \in Threads : 1..GoneThrough(u)' \subseteq published'
      BY <2>1, <2>7 DEF PublishedInv, GoneThrough
    <3>3. \A p : Covers(t, p)'
      BY <2>1 DEF Covers
    <3>4. QED
      BY <3>1, <3>2, <3>3 DEF PublishedInv
  <2>8. QED
    BY <1>0, <2>4, <2>6, <2>7
<1>7. ASSUME NEW t \in Threads, PublishBoard(t) PROVE EventInv'
  <2>1. /\ thread[t].at = "board"
        /\ thread'[t].at = "events" /\ thread'[t].next = 1 /\ thread'[t].upto = Len(events)
        /\ \A u \in Threads : u # t => thread'[u] = thread[u]
        /\ UNCHANGED <<events, last, published>>
    BY <1>7, PublishBoardFacts
  <2>2. NumbersInv' /\ (NumbersDiffer' => NumbersDiffer)
    <3>1. \A u \in Threads : thread'[u] = thread[u] \/ thread'[u].at # "emit"
                               \/ thread'[u].event.number = Len(events) + 1
      BY <2>1
    <3>2. QED
      BY <1>0, <2>1, <3>1, NumbersKept
  <2>3. ASSUME PublishedInv PROVE PublishedInv'
    <3>1. \A u \in Threads : 1..GoneThrough(u)' \subseteq published
      BY <2>1, <2>3 DEF GoneThrough, PublishedInv
    <3>2. \A p \in 1..Len(events), u \in Threads : Covers(u, p) => Covers(u, p)'
      BY <1>0, <2>1 DEF Covers
    <3>3. QED
      BY <2>1, <2>3, <3>1, <3>2, PublishedKept
  <2>4. QED
    BY <1>0, <2>2, <2>3
<1>8. ASSUME NEW t \in Threads, PublishEvent(t) PROVE EventInv'
  <2>1. PICK p \in Unpublished(t) :
          /\ \A q \in Unpublished(t) : p <= q
          /\ published' = published \cup {p}
          /\ GoesOn(t, "last", p)
    BY <1>8, PublishEventFacts
  <2>2. thread[t].at = "events" /\ UNCHANGED <<events, last>>
    BY <1>8, PublishEventFacts
  <2>3. /\ thread[t].next \in 1..thread[t].upto + 1
        /\ thread[t].upto \in Nat /\ thread[t].upto <= Len(events)
    BY <2>2 DEF TypeInv, RangesInv
  <2>4. p \in thread[t].next..thread[t].upto /\ p \in 1..Len(events)
    BY <1>0, <2>3 DEF Unpublished
  <2>5. /\ thread'[t].at = "last" /\ thread'[t].next = p /\ thread'[t].upto = thread[t].upto
        /\ \A u \in Threads : u # t => thread'[u] = thread[u]
    BY <2>1 DEF GoesOn
  <2>6. NumbersInv' /\ (NumbersDiffer' => NumbersDiffer)
    <3>1. \A u \in Threads : thread'[u] = thread[u] \/ thread'[u].at # "emit"
                               \/ thread'[u].event.number = Len(events) + 1
      BY <2>5
    <3>2. QED
      BY <1>0, <2>2, <3>1, NumbersKept
  <2>7. ASSUME NumbersDiffer, PublishedInv PROVE PublishedInv'
    <3>1. 1..p \subseteq published'
      <4> SUFFICES ASSUME NEW q \in 1..p, q # p PROVE q \in published
        BY <2>1
      <4>1. CASE q < thread[t].next
        <5>1. q \in 1..GoneThrough(t)
          BY <2>2, <2>3, <4>1 DEF GoneThrough
        <5>2. QED
          BY <2>7, <5>1 DEF PublishedInv
      <4>2. CASE q >= thread[t].next
        <5>1. q \in thread[t].next..thread[t].upto /\ q \in 1..Len(events) /\ ~(p <= q)
          BY <2>3, <2>4, <4>2
        <5>2. ~(events[q].number > last)
          BY <2>1, <5>1 DEF Unpublished
        <5>3. events[q].number = q
          BY <2>7, <5>1 DEF NumbersInv
        <5>4. q \in 1..last
          BY <1>0, <5>1, <5>2, <5>3
        <5>5. QED
          BY <2>7, <5>4 DEF PublishedInv
      <4>3. QED
        BY <2>3, <4>1, <4>2
    <3>2. \A u \in Threads : 1..GoneThrough(u)' \subseteq published'
      <4> SUFFICES ASSUME NEW u \in Threads PROVE 1..GoneThrough(u)' \subseteq published'
        OBVIOUS
      <4>1. CASE u = t
        BY <2>5, <3>1, <4>1 DEF GoneThrough
      <4>2. CASE u # t
        BY <2>1, <2>5, <2>7, <4>2 DEF GoneThrough, PublishedInv
      <4>3. QED
        BY <4>1, <4>2
    <3>3. \A q \in 1..Len(events), u \in Threads : Covers(u, q) => Covers(u, q)'
      BY <2>2, <2>5 DEF Covers
    <3>4. published \subseteq published'
      BY <2>1
    <3>5. QED
      BY <2>2, <2>7, <3>2, <3>3, <3>4, PublishedKept
  <2>8. QED
    BY <1>0, <2>6, <2>7
<1>9. ASSUME NEW t \in Threads, AdvanceLast(t) PROVE EventInv'
  <2>1. /\ thread[t].at = "last" /\ last' = events[thread[t].next].number
        /\ GoesOn(t, "events", thread[t].next + 1)
        /\ UNCHANGED <<events, published>>
    BY <1>9, AdvanceLastFacts
  <2>2. /\ thread[t].next \in 1..thread[t].upto
        /\ thread[t].upto \in Nat /\ thread[t].upto <= Len(events)
    BY <2>1 DEF TypeInv, RangesInv
  <2>3. /\ thread'[t].at = "events" /\ thread'[t].next = thread[t].next + 1
        /\ thread'[t].upto = thread[t].upto
        /\ \A u \in Threads : u # t => thread'[u] = thread[u]
    BY <2>1 DEF GoesOn
  <2>4. NumbersInv' /\ (NumbersDiffer' => NumbersDiffer)
    <3>1. \A u \in Threads : thread'[u] = thread[u] \/ thread'[u].at # "emit"
                               \/ thread'[u].event.number = Len(events) + 1
      BY <2>3
    <3>2. QED
      BY <1>0, <2>1, <3>1, NumbersKept
  <2>5. ASSUME NumbersDiffer, PublishedInv PROVE PublishedInv'
    <3>1. thread[t].next \in 1..Len(events) /\ thread[t].next + 1 - 1 = thread[t].next
      BY <1>0, <2>2
    <3>2. last' = thread[t].next
      BY <2>1, <2>5, <3>1 DEF NumbersInv
    <3>3. \A u \in Threads : GoneThrough(u)' = GoneThrough(u)
      BY <2>1, <2>3, <3>1 DEF GoneThrough
    <3>4. GoneThrough(t) = thread[t].next
      BY <2>1 DEF GoneThrough
    <3>5. 1..last' \subseteq published'
      BY <2>1, <2>5, <3>2, <3>4 DEF PublishedInv
    <3>7. \A u \in Threads : \A q \in 1..Len(events) : Covers(u, q) => Covers(u, q)'
      BY <2>1, <2>3 DEF Covers
    <3>8. QED
      BY <2>1, <2>5, <3>3, <3>5, <3>7 DEF PublishedInv
  <2>6. QED
    BY <1>0, <2>4, <2>5
<1>10. ASSUME NEW t \in Threads, EndUpdate(t) PROVE EventInv'
  <2>1. /\ thread[t].at = "events" /\ Unpublished(t) = {}
        /\ thread'[t] = Rest /\ thread'[t].at = "rest"
        /\ \A u \in Threads : u # t => thread'[u] = thread[u]
        /\ UNCHANGED <<events, last, published>>
    BY <1>10, EndUpdateFacts, ThreadStates
  <2>2. /\ thread[t].next \in 1..thread[t].upto + 1
        /\ thread[t].upto \in Nat /\ thread[t].upto <= Len(events)
    BY <2>1 DEF TypeInv, RangesInv
  <2>3. NumbersInv' /\ (NumbersDiffer' => NumbersDiffer)
    <3>1. \A u \in Threads : thread'[u] = thread[u] \/ thread'[u].at # "emit"
                               \/ thread'[u].event.number = Len(events) + 1
      BY <2>1
    <3>2. QED
      BY <1>0, <2>1, <3>1, NumbersKept
  <2>4. ASSUME NumbersDiffer, PublishedInv PROVE PublishedInv'
    <3>1. \A p \in 1..thread[t].upto : p \in published
      <4> SUFFICES ASSUME NEW p \in 1..thread[t].upto PROVE p \in published
        OBVIOUS
      <4>1. CASE p < thread[t].next
        <5>1. p \in 1..GoneThrough(t)
          BY <2>1, <2>2, <4>1 DEF GoneThrough
        <5>2. QED
          BY <2>4, <5>1 DEF PublishedInv
      <4>2. CASE p >= thread[t].next
        <5>1. p \in thread[t].next..thread[t].upto /\ p \in 1..Len(events)
          BY <1>0, <2>2, <4>2
        <5>2. ~(events[p].number > last)
          BY <2>1, <5>1 DEF Unpublished
        <5>3. events[p].number = p
          BY <2>4, <5>1 DEF NumbersInv
        <5>4. p \in 1..last
          BY <1>0, <5>2, <5>3
        <5>5. QED
          BY <2>4, <5>4 DEF PublishedInv
      <4>3. QED
        BY <2>2, <4>1, <4>2
    <3>2. \A u \in Threads : 1..GoneThrough(u)' \subseteq published
      BY <2>1, <2>4 DEF GoneThrough, PublishedInv
    <3>3. ASSUME NEW q \in 1..Len(events), NEW u \in Threads, Covers(u, q)
          PROVE  q \in published \/ \E w \in Threads : Covers(w, q)'
      <4>1. CASE u = t
        BY <2>1, <2>2, <3>1, <3>3, <4>1 DEF Covers
      <4>2. CASE u # t
        BY <2>1, <3>3, <4>2 DEF Covers
      <4>3. QED
        BY <4>1, <4>2
    <3>4. QED
      BY <2>1, <2>4, <3>2, <3>3, PublishedKept
  <2>5. QED
    BY <1>0, <2>3, <2>4
<1>11. CASE BoardCallback
  BY <1>4, <1>11, BoardCallbackFacts
<1>12. CASE UNCHANGED vars
  BY <1>4, <1>12 DEF vars, executive
<1>13. QED
  BY <1>2, <1>3, <1>5, <1>6, <1>7, <1>8, <1>9, <1>10, <1>11, <1>12 DEF Next, Update

(* No event with a number of its own is skipped, although the check of     *)
(* _last_event_sequence and its update are apart and two threads make them.*)
THEOREM EventsReachTheTopic == Spec => []EveryEventIsPublished
<1>1. EventInv => EveryEventIsPublished
  <2> SUFFICES ASSUME EventInv, NumbersDiffer, \A t \in Threads : thread[t] = Rest
               PROVE  published = 1..Len(events)
    BY DEF EveryEventIsPublished
  <2>1. published \subseteq 1..Len(events) /\ PublishedInv
    BY DEF EventInv, TypeInv, TypeOK
  <2>2. \A t \in Threads : thread[t].at = "rest"
    BY ThreadStates
  <2>3. \A p \in 1..Len(events), t \in Threads : ~Covers(t, p)
    BY <2>2 DEF Covers
  <2>4. QED
    BY <2>1, <2>3 DEF PublishedInv
<1>2. QED
  BY <1>1, EventInit, EventStep, PTL DEF Spec

-----------------------------------------------------------------------------
(* Boards and bags.  While no board is lost, the end of a mission comes to *)
(* the recorder before any board of a later mission, although the thread   *)
(* of status may publish a board of the former after one of the latter:    *)
(* the mission thread has published the end before it accepts the next.    *)
Ending(m) == [mission |-> m, ended |-> TRUE]
Announced(m, n) == m \in closed \/ \E j \in 1..n : boards[j] = Ending(m)
EndPublished == board.ended /\ thread["mission"].at \notin {"emit", "board"}

MissionsInOrder ==
  /\ \A i \in 1..Len(boards) : \A m \in Missions :
       m < boards[i].mission => Announced(m, i - 1)
  /\ \A m \in Missions :
       m < board.mission \/ (m = board.mission /\ EndPublished) => Announced(m, Len(boards))

(* The bag that is open is of a mission that goes on, and the missions     *)
(* before it are closed; a bag with boards is that one, or of a mission    *)
(* that is closed.                                                         *)
WriterInOrder ==
  /\ writer # 0 => writer \notin closed /\ \A m \in Missions : m < writer => m \in closed
  /\ \A m \in Missions : bags[m] # {} => writer = m \/ m \in closed

OwnBags == \A m \in Missions : \A sample \in bags[m] : sample.mission = m
Outcomes == \A m \in closed : bags[m] # {} => Ending(m) \in bags[m]

BagsInOrder == MissionsInOrder /\ WriterInOrder /\ OwnBags /\ Outcomes
BagInv == TypeInv /\ (~lossy => BagsInOrder)

LEMMA BagInit == Init => BagInv
<1> SUFFICES ASSUME Init PROVE BagInv
  OBVIOUS
<1>1. MissionsInOrder
  <2>1. Len(boards) = 0 /\ board.mission = 0 /\ \A m \in Missions : m >= 1 /\ m # 0
    BY BoundAssumption DEF Init, Missions
  <2>2. QED
    BY <2>1, BoundAssumption DEF MissionsInOrder, Missions
<1>2. WriterInOrder /\ OwnBags /\ Outcomes
  BY DEF Init, WriterInOrder, OwnBags, Outcomes
<1>3. QED
  BY <1>1, <1>2, TypeInit DEF BagInv, BagsInOrder

(* Steps that change nothing in the recorder, but may publish a board of a *)
(* mission up to the one on the board.                                     *)
LEMMA RecorderUntouched ==
  ASSUME UNCHANGED <<writer, closed, bags>>, BagsInOrder, MissionsInOrder'
  PROVE  BagsInOrder'
<1>1. WriterInOrder' /\ OwnBags' /\ Outcomes'
  BY DEF BagsInOrder, WriterInOrder, OwnBags, Outcomes
<1>2. QED
  BY <1>1 DEF BagsInOrder

LEMMA SameBoards ==
  ASSUME UNCHANGED <<boards, writer, closed, bags>>, BagsInOrder,
         \A m \in Missions :
           m < board'.mission \/ (m = board'.mission /\ EndPublished') =>
           m < board.mission \/ (m = board.mission /\ EndPublished)
  PROVE  BagsInOrder'
<1>1. \A m, n : Announced(m, n)' <=> Announced(m, n)
  BY DEF Announced
<1>2. MissionsInOrder'
  BY <1>1 DEF BagsInOrder, MissionsInOrder
<1>3. QED
  BY <1>2, RecorderUntouched

(* The recorder gets the first board there is.                             *)
LEMMA FirstBoard ==
  ASSUME BagInv, BagsInOrder, boards # <<>>, NEW sample \in Samples, sample = boards[1],
         NEW w \in 0..MaxMissions, Recorded(sample, w), sample.mission \notin closed
  PROVE  /\ WriterInOrder' /\ OwnBags' /\ Outcomes'
         /\ closed \subseteq closed'
<1> DEFINE m == sample.mission
<1>0. /\ m \in Missions /\ m \in Nat /\ writer \in 0..MaxMissions /\ writer \in Nat /\ Len(boards) >= 1
      /\ bags \in [Missions -> SUBSET Samples] /\ sample = [mission |-> m, ended |-> sample.ended]
      /\ sample.ended \in BOOLEAN
  BY BoundAssumption DEF BagInv, TypeInv, TypeOK, Samples, Missions
<1>1. \A n \in Missions : n < m => n \in closed
  <2>1. 1 \in 1..Len(boards)
    BY <1>0
  <2>2. \A n \in Missions : n < m => Announced(n, 0)
    BY <2>1 DEF BagsInOrder, MissionsInOrder
  <2>3. QED
    BY <2>2 DEF Announced
<1>2. writer = 0 \/ writer = m
  <2> SUFFICES ASSUME writer # 0, writer # m PROVE FALSE
    OBVIOUS
  <2>1. writer \in Missions /\ writer \notin closed /\ \A n \in Missions : n < writer => n \in closed
    BY <1>0, BoundAssumption DEF BagsInOrder, WriterInOrder, Missions
  <2>2. writer < m \/ m < writer
    BY <1>0
  <2>3. QED
    BY <1>0, <1>1, <2>1, <2>2
<1>3. w = m \/ (w = 0 /\ writer = 0)
  <2>1. CASE NeedsBag(sample)
    <3>1. writer = 0
      BY <1>2, <2>1 DEF NeedsBag
    <3>2. QED
      BY <2>1, <3>1 DEF Recorded, Opening
  <2>2. CASE ~NeedsBag(sample)
    <3>1. w = writer
      BY <2>2 DEF Recorded
    <3>2. QED
      BY <1>2, <3>1
  <2>3. QED
    BY <2>1, <2>2
<1>4. writer = 0 => bags[m] = {}
  BY <1>0, BoundAssumption DEF BagsInOrder, WriterInOrder, Missions
<1>5. /\ closed' = IF sample.ended THEN closed \cup {m} ELSE closed
      /\ writer' = IF sample.ended THEN 0 ELSE w
      /\ bags' = IF w = 0 THEN bags ELSE [bags EXCEPT ![w] = @ \cup {sample}]
  BY DEF Recorded, WriterAfter, Written
<1>6. m \notin closed /\ 0 \notin Missions /\ m # 0
  BY <1>0, BoundAssumption DEF Missions
<1> HIDE DEF m
<1>7. \A n \in Missions : bags'[n] = IF n = m /\ w = m THEN bags[n] \cup {sample} ELSE bags[n]
  BY <1>0, <1>3, <1>5, <1>6
<1>8. WriterInOrder'
  <2>1. writer' # 0 => writer' \notin closed' /\ \A n \in Missions : n < writer' => n \in closed'
    BY <1>1, <1>3, <1>5, <1>6
  <2>2. \A n \in Missions : bags'[n] # {} => writer' = n \/ n \in closed'
    <3> SUFFICES ASSUME NEW n \in Missions, bags'[n] # {} PROVE writer' = n \/ n \in closed'
      OBVIOUS
    <3>1. CASE n = m
      <4>1. w = m
        BY <1>3, <1>4, <1>7, <3>1
      <4>2. QED
        BY <1>5, <3>1, <4>1
    <3>2. CASE n # m
      <4>1. bags[n] # {}
        BY <1>7, <3>2
      <4>2. writer = n \/ n \in closed
        BY <4>1 DEF BagsInOrder, WriterInOrder
      <4>3. n \in closed
        BY <1>2, <1>6, <3>2, <4>2
      <4>4. QED
        BY <1>5, <4>3
    <3>3. QED
      BY <3>1, <3>2
  <2>3. QED
    BY <2>1, <2>2 DEF WriterInOrder
<1>9. OwnBags'
  BY <1>7 DEF BagsInOrder, OwnBags, m
<1>10. Outcomes'
  <2> SUFFICES ASSUME NEW n \in closed', bags'[n] # {} PROVE Ending(n) \in bags'[n]
    BY DEF Outcomes
  <2>0. closed \subseteq Missions
    BY DEF BagInv, TypeInv, TypeOK
  <2>1. CASE n \in closed
    BY <1>6, <1>7, <2>0, <2>1 DEF BagsInOrder, Outcomes
  <2>2. CASE n \notin closed
    <3>1. n = m /\ sample.ended
      BY <1>5, <2>2
    <3>2. sample = Ending(m)
      BY <1>0, <3>1 DEF Ending
    <3>3. w = m
      BY <1>0, <1>3, <1>4, <1>7, <3>1
    <3>4. QED
      BY <1>0, <1>7, <3>1, <3>2, <3>3
  <2>3. QED
    BY <2>1, <2>2
<1>11. QED
  BY <1>5, <1>8, <1>9, <1>10

LEMMA BagStep == BagInv /\ [Next]_vars => BagInv'
<1> SUFFICES ASSUME BagInv, [Next]_vars PROVE BagInv'
  OBVIOUS
<1> USE DEF Threads
<1>0. /\ TypeInv /\ TypeInv' /\ boards \in Seq(Samples) /\ Len(boards) \in Nat
      /\ board.mission \in Nat /\ board.ended \in BOOLEAN
  BY TypeStep DEF BagInv, TypeInv, TypeOK
<1>00. \A m \in Missions : m \in Nat
  BY BoundAssumption DEF Missions
(* A mission is accepted when the end of the former one is published.      *)
<1>1. CASE Accept
  <2>1. PICK b \in Board : b.mission = board.mission + 1 /\ ~b.ended /\ Committed("mission", b)
    BY <1>0, <1>1, AcceptFacts
  <2>2. board.ended /\ thread["mission"].at = "rest" /\ board' = b
        /\ UNCHANGED <<boards, lossy, writer, closed, bags>>
    BY <1>0, <1>1, <2>1, AcceptFacts, ThreadStates DEF Committed
  <2>3. EndPublished /\ ~EndPublished'
    BY <2>1, <2>2 DEF EndPublished
  <2>4. \A m \in Missions : m < b.mission => m < board.mission \/ m = board.mission
    BY <1>0, <1>00, <2>1
  <2>5. QED
    BY <1>0, <2>2, <2>3, <2>4, SameBoards DEF BagInv
<1>2. CASE End
  <2>1. PICK b \in Board : b.mission = board.mission /\ Committed("mission", b)
    BY <1>0, <1>2, EndFacts
  <2>2. thread'["mission"].at = "emit" /\ board' = b /\ UNCHANGED <<boards, lossy, writer, closed, bags>>
    BY <1>0, <1>2, <2>1, EndFacts DEF Committed
  <2>3. ~EndPublished'
    BY <2>2 DEF EndPublished
  <2>4. QED
    BY <1>0, <2>1, <2>2, <2>3, SameBoards DEF BagInv
<1>3. CASE RecorderStatusCallback
  <2>1. UNCHANGED <<boards, lossy, writer, closed, bags>>
    BY <1>0, <1>3, StatusFacts
  <2>2. /\ board'.mission = board.mission /\ board'.ended = board.ended
        /\ thread'["mission"] = thread["mission"]
    <3>1. CASE \E b \in Board : b.mission = board.mission /\ b.ended = board.ended /\ Committed("status", b)
      BY <3>1 DEF Committed
    <3>2. CASE UNCHANGED board /\ thread'["mission"] = thread["mission"]
      BY <3>2
    <3>3. QED
      BY <1>0, <1>3, <3>1, <3>2, StatusFacts
  <2>3. EndPublished' <=> EndPublished
    BY <2>2 DEF EndPublished
  <2>4. QED
    BY <1>0, <2>1, <2>2, <2>3, SameBoards DEF BagInv
<1>4. ASSUME NEW t \in Threads, AppendEvent(t) PROVE BagInv'
  <2>1. /\ thread[t].at = "emit" /\ thread'[t].at = "board"
        /\ \A u \in Threads : u # t => thread'[u] = thread[u]
        /\ UNCHANGED <<board, boards, lossy, writer, closed, bags>>
    BY <1>0, <1>4, AppendEventFacts
  <2>2. EndPublished' => EndPublished
    BY <2>1 DEF EndPublished
  <2>3. QED
    BY <1>0, <2>1, <2>2, SameBoards DEF BagInv
<1>5. ASSUME NEW t \in Threads, PublishBoard(t) PROVE BagInv'
  <2>1. /\ thread[t].at = "board" /\ thread[t].board \in Samples
        /\ boards' = Append(boards, thread[t].board)
        /\ thread'[t].at = "events"
        /\ \A u \in Threads : u # t => thread'[u] = thread[u]
        /\ UNCHANGED <<board, lossy, writer, closed, bags>>
    BY <1>0, <1>5, PublishBoardFacts
  <2> DEFINE b == thread[t].board
  <2> PICK n \in Nat : n = Len(boards)
    BY <1>0
  <2>2. /\ Len(boards') = n + 1 /\ boards'[n + 1] = b
        /\ \A k \in 1..n : boards'[k] = boards[k]
    BY <1>0, <2>1, AppendFacts
  <2>3. b.mission <= board.mission /\ b.mission \in Nat
    BY <1>00, <2>1 DEF BagInv, TypeInv, ThreadsInv, Samples
  <2> HIDE DEF b
  <2> SUFFICES ASSUME ~lossy PROVE BagsInOrder'
    BY <1>0, <2>1 DEF BagInv
  <2>4. BagsInOrder
    BY DEF BagInv
  <2>5. \A m, k : k \in 0..n /\ Announced(m, k) => Announced(m, k)'
    BY <1>0, <2>1, <2>2 DEF Announced
  <2>6. \A m : Announced(m, n) => Announced(m, n + 1)'
    BY <1>0, <2>1, <2>2 DEF Announced
  <2>7. \A i \in 1..Len(boards') : \A m \in Missions : m < boards'[i].mission => Announced(m, i - 1)'
    <3> SUFFICES ASSUME NEW i \in 1..Len(boards'), NEW m \in Missions, m < boards'[i].mission
                 PROVE  Announced(m, i - 1)'
      OBVIOUS
    <3>1. CASE i \in 1..n
      <4>1. Announced(m, i - 1) /\ i - 1 \in 0..n
        BY <1>0, <2>2, <2>4, <3>1 DEF BagsInOrder, MissionsInOrder
      <4>2. QED
        BY <2>5, <4>1
    <3>2. CASE i = n + 1
      <4>1. m < board.mission /\ i - 1 = n /\ n \in 0..n
        BY <1>0, <1>00, <2>2, <2>3, <3>2
      <4>2. Announced(m, n)
        BY <2>4, <4>1 DEF BagsInOrder, MissionsInOrder
      <4>3. QED
        BY <2>5, <4>1, <4>2
    <3>3. QED
      BY <1>0, <2>2, <3>1, <3>2
  <2>8. ASSUME NEW m \in Missions, m < board.mission \/ (m = board.mission /\ EndPublished')
        PROVE  Announced(m, n + 1)'
    <3>1. CASE m < board.mission \/ (m = board.mission /\ EndPublished)
      BY <2>4, <2>6, <3>1 DEF BagsInOrder, MissionsInOrder
    <3>2. CASE m = board.mission /\ EndPublished' /\ ~EndPublished
      <4>1. t = "mission" /\ board.ended
        BY <2>1, <3>2 DEF EndPublished
      <4>2. b = Ending(m)
        BY <2>1, <3>2, <4>1 DEF BagInv, TypeInv, ThreadsInv, Sample, Ending, b
      <4>3. n + 1 \in 1..n + 1
        BY <1>0
      <4>4. QED
        BY <2>2, <4>2, <4>3 DEF Announced, Ending
    <3>3. QED
      BY <2>8, <3>1, <3>2
  <2>9. MissionsInOrder'
    BY <2>1, <2>2, <2>7, <2>8 DEF MissionsInOrder
  <2>10. QED
    BY <2>1, <2>4, <2>9, RecorderUntouched
(* The steps at the events change no board.                                *)
<1>6. ASSUME NEW t \in Threads, thread[t].at \in {"events", "last"},
             \A u \in Threads : u # t => thread'[u] = thread[u],
             UNCHANGED <<board, boards, lossy, writer, closed, bags>>
      PROVE  BagInv'
  <2>1. EndPublished' => EndPublished
    BY <1>6 DEF EndPublished
  <2>2. QED
    BY <1>0, <1>6, <2>1, SameBoards DEF BagInv
<1>7. ASSUME NEW t \in Threads, PublishEvent(t) PROVE BagInv'
  BY <1>0, <1>6, <1>7, PublishEventFacts DEF GoesOn
<1>8. ASSUME NEW t \in Threads, AdvanceLast(t) PROVE BagInv'
  BY <1>0, <1>6, <1>8, AdvanceLastFacts DEF GoesOn
<1>9. ASSUME NEW t \in Threads, EndUpdate(t) PROVE BagInv'
  BY <1>0, <1>6, <1>9, EndUpdateFacts
<1>10. CASE BoardCallback
  <2>1. PICK i \in 1..Len(boards) :
              /\ boards[i] \in Samples
              /\ boards' \in Seq(Samples) /\ Len(boards') = Len(boards) - i
              /\ \A k \in 1..Len(boards) - i : boards'[k] = boards[k + i]
              /\ lossy' = (lossy \/ i > 1)
              /\ \/ boards[i].mission \in closed /\ UNCHANGED <<statuses, writer, closed, bags>>
                 \/ /\ boards[i].mission \notin closed
                    /\ \E w \in 0..MaxMissions : Recorded(boards[i], w)
    BY <1>0, <1>10, BoardCallbackFacts
  <2>2. UNCHANGED <<board, thread>>
    BY <1>0, <1>10, BoardCallbackFacts
  <2> SUFFICES ASSUME ~lossy' PROVE BagsInOrder'
    BY <1>0 DEF BagInv
  <2>30. ~lossy /\ ~(i > 1)
    BY <2>1
  <2>31. i = 1 /\ boards # <<>>
    BY <1>0, <2>1, <2>30
  <2>3. i = 1 /\ ~lossy /\ BagsInOrder /\ boards # <<>>
    BY <2>30, <2>31 DEF BagInv
  <2> DEFINE sample == boards[1]
  <2>4. /\ sample \in Samples
        /\ \/ sample.mission \in closed /\ UNCHANGED <<writer, closed, bags>>
           \/ /\ sample.mission \notin closed
              /\ \E w \in 0..MaxMissions : Recorded(sample, w)
    BY <2>1, <2>3
  <2> HIDE DEF sample
  <2>5. WriterInOrder' /\ OwnBags' /\ Outcomes' /\ closed \subseteq closed'
    <3>1. CASE sample.mission \in closed /\ UNCHANGED <<writer, closed, bags>>
      BY <2>3, <3>1 DEF BagsInOrder, WriterInOrder, OwnBags, Outcomes
    <3>2. CASE sample.mission \notin closed /\ \E w \in 0..MaxMissions : Recorded(sample, w)
      BY <2>3, <2>4, <3>2, FirstBoard DEF sample
    <3>3. QED
      BY <2>4, <3>1, <3>2
  <2>6. \A m : sample = Ending(m) => m \in closed'
    <3> SUFFICES ASSUME NEW m, sample = Ending(m) PROVE m \in closed'
      OBVIOUS
    <3>1. sample.mission = m /\ sample.ended
      BY DEF Ending
    <3>2. QED
      BY <2>4, <3>1 DEF Recorded
  (* The boards that are left have moved up by one.                        *)
  <2>7. ASSUME NEW m, NEW k \in 1..Len(boards), Announced(m, k) PROVE Announced(m, k - 1)'
    <3>1. CASE m \in closed
      BY <2>5, <3>1 DEF Announced
    <3>2. CASE \E j \in 1..k : boards[j] = Ending(m)
      <4>1. PICK j \in 1..k : boards[j] = Ending(m)
        BY <3>2
      <4>2. CASE j = 1
        BY <2>6, <4>1, <4>2 DEF Announced, sample
      <4>3. CASE j # 1
        <5>1. j - 1 \in 1..k - 1 /\ j - 1 \in 1..Len(boards) - 1 /\ j - 1 + 1 = j
          BY <1>0, <4>3
        <5>2. boards'[j - 1] = Ending(m)
          BY <2>1, <2>3, <4>1, <5>1
        <5>3. QED
          BY <5>1, <5>2 DEF Announced, Ending
      <4>4. QED
        BY <4>2, <4>3
    <3>3. QED
      BY <2>7, <3>1, <3>2 DEF Announced
  <2>8. ASSUME NEW k \in 1..Len(boards'), NEW m \in Missions, m < boards'[k].mission
        PROVE  Announced(m, k - 1)'
    <3>1. boards'[k] = boards[k + 1] /\ k + 1 \in 1..Len(boards) /\ k \in 1..Len(boards) /\ k + 1 - 1 = k
      BY <1>0, <2>1, <2>3
    <3>2. Announced(m, k)
      BY <2>3, <2>8, <3>1 DEF BagsInOrder, MissionsInOrder
    <3>3. QED
      BY <2>7, <3>1, <3>2
  <2>9. ASSUME NEW m \in Missions, m < board.mission \/ (m = board.mission /\ EndPublished')
        PROVE  Announced(m, Len(boards))'
    <3>1. PICK n \in Nat : n = Len(boards)
      BY <1>0
    <3>2. Announced(m, n)
      BY <2>2, <2>3, <2>9, <3>1 DEF BagsInOrder, MissionsInOrder, EndPublished
    <3>3. n \in 1..Len(boards) /\ Len(boards') = n - 1
      BY <1>0, <2>1, <2>3, <3>1
    <3>4. Announced(m, n - 1)'
      BY <2>7, <3>2, <3>3
    <3>5. QED
      BY <3>3, <3>4 DEF Announced
  <2>10. MissionsInOrder'
    BY <2>2, <2>8, <2>9 DEF MissionsInOrder
  <2>11. QED
    BY <2>5, <2>10 DEF BagsInOrder
<1>11. CASE UNCHANGED vars
  <2>1. UNCHANGED <<board, thread, boards, lossy, writer, closed, bags>>
    BY <1>11 DEF vars, executive, topics, recorder
  <2>2. EndPublished' <=> EndPublished
    BY <2>1 DEF EndPublished
  <2>3. QED
    BY <1>0, <2>1, <2>2, SameBoards DEF BagInv
<1>12. QED
  BY <1>1, <1>2, <1>3, <1>4, <1>5, <1>7, <1>8, <1>9, <1>10, <1>11 DEF Next, Update

(* While no board was lost, a bag holds boards of its own mission only,    *)
(* and once its mission is closed the board that tells how it ended.       *)
THEOREM BagsAreTrue == Spec => []BagsTellTheirMission
<1>1. BagInv => BagsTellTheirMission
  BY DEF BagInv, TypeInv, BagsInOrder, OwnBags, Outcomes, Ending, BagsTellTheirMission, BagsAreOwn,
         OutcomeIsRecorded
<1>2. QED
  BY <1>1, BagInit, BagStep, PTL DEF Spec
================================================================================
