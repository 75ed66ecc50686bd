----------------------------- MODULE VlmAnswers -----------------------------
(***************************************************************************)
(* What the VLM socket sends and what it takes for an answer               *)
(* (muto_vlm_socket/scripts/vlm_socket_protocol.py).                       *)
(*                                                                         *)
(* A text is a sequence of tokens.  A body is what the JSON of an answer   *)
(* says; a status may be Absent, an output that is not there is the empty  *)
(* sequence, and a shortcut (output_text) may be there and yet be empty.   *)
(***************************************************************************)
EXTENDS Integers, Sequences, FiniteSets, SequencesExt, Selections

CONSTANTS
  MaxContentParts, MaxTextCharacters, MaxJpegBytes, MaxTotalJpegBytes,
  Texts      \* what a part of an answer may say: a part says something

ASSUME LimitsValidated ==
  /\ {MaxContentParts, MaxTextCharacters, MaxJpegBytes, MaxTotalJpegBytes}
       \subseteq Nat \ {0}
  /\ MaxTotalJpegBytes >= MaxJpegBytes
  /\ \A t \in Texts : t \in Seq(Nat) /\ t # <<>>

Absent == "absent"
Error == [ok |-> FALSE, text |-> <<>>]
Text(t) == [ok |-> TRUE, text |-> t]

NoShortcut == [there |-> FALSE, text |-> <<>>]
Shortcut(t) == [there |-> TRUE, text |-> t]

-----------------------------------------------------------------------------
\* Requests: a part is a text of so many characters or a JPEG of so many
\* bytes; whole tells whether the JPEG has both its markers.

Refused == [ok |-> FALSE, characters |-> 0, bytes |-> 0]

\* encode_content: totals run along the parts and are checked at each.
EncodePart(sofar, part) ==
  LET characters == sofar.characters + part.characters
      bytes == sofar.bytes + part.bytes
  IN  IF \/ ~sofar.ok
         \/ part.type = "text" /\ \/ part.characters = 0 \/ part.bytes # 0
                                  \/ characters > MaxTextCharacters
         \/ part.type = "jpeg" /\ \/ part.characters # 0 \/ ~part.whole
                                  \/ part.bytes > MaxJpegBytes
                                  \/ bytes > MaxTotalJpegBytes
         \/ part.type \notin {"text", "jpeg"}
      THEN Refused
      ELSE [ok |-> TRUE, characters |-> characters, bytes |-> bytes]

EncodeContent(content) ==
  IF content = <<>> \/ Len(content) > MaxContentParts THEN Refused
  ELSE FoldLeft(EncodePart, [ok |-> TRUE, characters |-> 0, bytes |-> 0],
                content)

-----------------------------------------------------------------------------
\* Answers of the Chat Completions API.

ContentText(content) ==
  IF content.kind = "text" THEN Text(content.text)
  ELSE IF content.kind = "list" /\ content.parts # <<>>
  THEN Text(FlattenSeq(content.parts))
  ELSE Error

\* extract_response
ExtractChat(body) ==
  IF body.finish \notin {Absent, "stop"} \/ body.refused THEN Error
  ELSE ContentText(body.content)

-----------------------------------------------------------------------------
\* Answers of the Responses API, whole or as a stream of events.

OfType(things, type) == Those(things, {x \in ToSet(things) : x.type = type})

PartsOf(output, type) ==
  FlattenSeq([i \in DOMAIN output |-> OfType(output[i].parts, type)])

Messages(output) == OfType(output, "message")

\* The texts of parts or events, one after the other
TextOf(things) == FlattenSeq([i \in DOMAIN things |-> things[i].text])

OutputTexts(output) ==
  LET parts == PartsOf(Messages(output), "output_text")
  IN  IF parts = <<>> THEN Error ELSE Text(TextOf(parts))

\* _extract_responses_response; a missing status passes for completed.
ExtractResponses(body) ==
  IF \/ body.status \notin {Absent, "completed"}
     \/ PartsOf(body.output, "refusal") # <<>>
  THEN Error
  ELSE IF body.shortcut.text # <<>> THEN Text(body.shortcut.text)
  ELSE OutputTexts(body.output)

\* The text events of a stream by their key (output_index, content_index).  A
\* done event says the whole text of its key, and the last one counts; deltas
\* add up.
OfKey(events, k) == Those(events, {e \in ToSet(events) : e.key = k})

Keys(events) == {e.key : e \in ToSet(events)}

DoneText(events) == [k \in Keys(events) |-> Last(OfKey(events, k)).text]

\* Mutant for WholeAnswersOnly: a delta takes the place of the one before it.
LastDeltas(events) == DoneText(events)

TextDeltas(events) == [k \in Keys(events) |-> TextOf(OfKey(events, k))]

\* The texts of the keys, in the order of the keys
InOrder(texts) ==
  LET order == CHOOSE s \in SetToSeqs(DOMAIN texts) :
                 \A i, j \in DOMAIN s : i < j => s[i] < s[j]
  IN  FlattenSeq([i \in DOMAIN order |-> texts[order[i]]])

FailureEvents == {"error", "response.failed", "response.incomplete"}

\* _extract_completed_sse_response: the answer is in the last completed event;
\* when that has neither an output nor a shortcut, were it an empty one, in
\* the done events, or else in the deltas.
ReportsFailure(stream) ==
  \E i \in DOMAIN stream : stream[i].type \in FailureEvents

Recovered(body, stream) ==
  LET done == OfType(stream, "response.output_text.done")
      deltas == OfType(stream, "response.output_text.delta")
  IN  IF body.output # <<>> \/ body.shortcut.there THEN body
      ELSE IF done # <<>>
      THEN [body EXCEPT !.shortcut = Shortcut(InOrder(DoneText(done)))]
      ELSE IF deltas # <<>>
      THEN [body EXCEPT !.shortcut = Shortcut(InOrder(TextDeltas(deltas)))]
      ELSE body

ExtractStream(stream) ==
  LET completed == OfType(stream, "response.completed")
  IN  IF ReportsFailure(stream) \/ completed = <<>> THEN Error
      ELSE ExtractResponses(
             Recovered(completed[Len(completed)].response, stream))

-----------------------------------------------------------------------------
\* The endpoint: a generation is a sequence of parts and how it ended.

Endings == {"completed", "incomplete", "filtered", "failed", "refused", "cut"}

Generations ==
  [ending : Endings, parts : {<<t>> : t \in Texts} \cup (Texts \X Texts)]

Whole(generation) == FlattenSeq(generation.parts)

ChatFinish(ending) ==
  CASE ending = "incomplete" -> {"length"}
    [] ending = "filtered" -> {"content_filter"}
    [] ending \in {"failed", "cut"} -> {"error"}
    [] OTHER -> {"stop", Absent}

ChatBodies(generation) ==
  [finish : ChatFinish(generation.ending),
   refused : {generation.ending = "refused"},
   content : {[kind |-> "text", text |-> Whole(generation)],
              [kind |-> "list", parts |-> generation.parts]}]

\* The output of an answer: some reasoning, then the message.
Output(generation) ==
  <<[type |-> "reasoning", parts |-> <<>>],
    [type |-> "message",
     parts |-> [i \in DOMAIN generation.parts |->
                  [type |-> IF generation.ending = "refused"
                            THEN "refusal" ELSE "output_text",
                   text |-> generation.parts[i]]]]>>

ResponseStatus(ending) ==
  CASE ending \in {"incomplete", "filtered"} -> {"incomplete"}
    [] ending \in {"failed", "cut"} -> {"failed"}
    [] OTHER -> {"completed", Absent}

ResponseBodies(generation) ==
  [status : ResponseStatus(generation.ending),
   output : {Output(generation)},
   shortcut : {NoShortcut, Shortcut(<<>>), Shortcut(Whole(generation))}]

\* A stream tells the text of each part as it grows, and may tell it once
\* more when the part is done; parts come in either order.  How it tells:
\* whether its events say the index of their part, which is the first one when
\* they do not; whether the response in its last event leaves the output out; and
\* whether that response has an empty shortcut.
Tellings == [keyed : BOOLEAN, sparse : BOOLEAN, blank : BOOLEAN]

KeyOf(i, telling) == IF telling.keyed THEN i ELSE 1

Delta(k, t) == [type |-> "response.output_text.delta", key |-> k, text |-> <<t>>]
Done(k, t) == [type |-> "response.output_text.done", key |-> k, text |-> t]

PartEvents(t, k, done) ==
  [n \in DOMAIN t |-> Delta(k, t[n])] \o IF done THEN <<Done(k, t)>> ELSE <<>>

LastResponse(generation, telling) ==
  [status |-> "completed",
   output |-> IF telling.sparse THEN <<>> ELSE Output(generation),
   shortcut |-> IF telling.blank THEN Shortcut(<<>>) ELSE NoShortcut]

LastEvents(generation, telling) ==
  CASE generation.ending \in {"completed", "refused"} ->
         <<[type |-> "response.completed",
            response |-> LastResponse(generation, telling)]>>
    [] generation.ending \in {"incomplete", "filtered"} ->
         <<[type |-> "response.incomplete"]>>
    [] generation.ending = "failed" -> <<[type |-> "response.failed"]>>
    [] OTHER -> <<>>

Streams(generation, telling) ==
  LET events(done) == [i \in DOMAIN generation.parts |->
                         PartEvents(generation.parts[i], KeyOf(i, telling), done)]
      told(done) == {FlattenSeq(events(done)), FlattenSeq(Reverse(events(done)))}
      texts == IF generation.ending = "refused" THEN {<<>>}
               ELSE told(TRUE) \cup told(FALSE)
  IN  {text \o LastEvents(generation, telling) : text \in texts}

\* decode_response_body and extract_response: what becomes of the ways in
\* which a generation can be told.  The API is that of the request; a body is
\* read as a stream when its content type says so.
Verdicts(generation, telling) ==
  {ExtractChat(body) : body \in ChatBodies(generation)}
    \cup {ExtractResponses(body) : body \in ResponseBodies(generation)}
    \cup {ExtractStream(stream) : stream \in Streams(generation, telling)}

\* Whether a stream holds the whole text: its last response does, or its
\* events do and are not shut out by an empty shortcut.
ToldInFull(generation, telling) ==
  telling.sparse =>
    ~telling.blank /\ (telling.keyed \/ Len(generation.parts) = 1)

Exchanges ==
  UNION {{[generation |-> generation, inFull |-> ToldInFull(generation, telling),
           answer |-> a] : a \in Verdicts(generation, telling)} :
           generation \in Generations, telling \in Tellings}
=============================================================================
