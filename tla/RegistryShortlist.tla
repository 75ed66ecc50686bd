-------------------------- MODULE RegistryShortlist --------------------------
(***************************************************************************)
(* How the registry authority (RosRegistryAuthority, ros_authorities.py)   *)
(* finds the objects that a request may mean, and the revision it gives    *)
(* their list.                                                             *)
(*                                                                         *)
(* The service answers each call from what the registry holds at that      *)
(* moment.  A response has the frame of its header and a set of objects: a *)
(* name, the kind (label, class and picture), a place in millimetres, and  *)
(* what is volatile (last_seen, observation_count).                        *)
(***************************************************************************)
EXTENDS Integers, SequencesExt

NoName == ""
Map == "map"
Refused == ""       \* the frame of a list that would mix frames

(* _response_objects_and_frame                                             *)
Received(response) ==
    [objects |-> response.objects,
     frame |-> IF response.frame = "" THEN Map ELSE response.frame]

(* The loop over the tokens, in which a later object replaces an earlier   *)
(* one of its name.                                                        *)
Merged(list, response) ==
    LET new == Received(response)
        frame == IF list.frame = Map THEN new.frame ELSE list.frame
        named == {o \in new.objects : o.name # NoName}
        kept == {o \in list.objects : \A n \in named : n.name # o.name}
    IN  CASE list.frame = Refused \/ new.objects = {} -> list
          [] OTHER -> IF new.frame # frame THEN [objects |-> {}, frame |-> Refused]
                      ELSE [objects |-> kept \union named, frame |-> frame]

(* _name_and_label_shortlist: the exact name, the exact label, the tokens; *)
(* a blank request lists everything.                                       *)
Shortlist(responses) ==
    CASE responses.blank -> Received(responses.whole)
      [] ~responses.blank /\ responses.named.objects # {} -> Received(responses.named)
      [] ~responses.blank /\ responses.named.objects = {} /\ responses.labelled.objects # {} ->
           Received(responses.labelled)
      [] OTHER -> FoldLeft(Merged, [objects |-> {}, frame |-> Map], responses.tokens)

Centimetres(millimetres) == (millimetres + 5) \div 10

(* _snapshot_revision: a digest of rows that leave out what is volatile.   *)
Revision(list) ==
    {[name |-> o.name, kind |-> o.kind, place |-> Centimetres(o.place),
      frame |-> list.frame] : o \in list.objects}

(* query                                                                   *)
Query(available, responses) ==
    LET list == Shortlist(responses)
    IN  IF ~available \/ list.frame = Refused
        THEN [revision |-> {}, checked |-> FALSE, candidates |-> {}]
        ELSE [revision |-> Revision(list), checked |-> TRUE,
              candidates |-> {o.name : o \in list.objects} \ {NoName}]

(* inspect: the pictures that the visual selector is shown.                *)
Shown(snapshot, ids) == snapshot.candidates \intersect ids

-----------------------------------------------------------------------------
(* A revision determines its candidates: what the command layer relies on  *)
(* when it compares revisions only (backend_adapters.py, executive.py).    *)
RevisionDetermines(one, other) ==
    one.checked /\ other.checked /\ one.revision = other.revision
        => one.candidates = other.candidates

(* The frames of the responses that a list by tokens was made from.        *)
FramesOf(tokens) == {Received(r).frame : r \in {r \in ToSet(tokens) : r.objects # {}}}

(* A list is refused unless the frame it is given is the only one besides  *)
(* "map" that its objects were reported in, and it keeps one object of     *)
(* each name.                                                              *)
ListIsConsistent(tokens) ==
    LET list == FoldLeft(Merged, [objects |-> {}, frame |-> Map], tokens)
    IN  list.frame # Refused =>
          /\ FramesOf(tokens) \subseteq {Map, list.frame}
          /\ \A o, n \in list.objects : o.name = n.name => o = n
          /\ NoName \notin {o.name : o \in list.objects}
          /\ \A r \in ToSet(tokens) : \A o \in r.objects :
                o.name # NoName => \E n \in list.objects : n.name = o.name
==============================================================================
