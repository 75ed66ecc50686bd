--------------------------- MODULE RegistryObjects ---------------------------
(***************************************************************************)
(* The data of the object registry: where objects are, the spatial index,  *)
(* tentative candidates and what confirms them, confirmed objects, their   *)
(* names and their pictures                                                *)
(* (src/sam2_object_registry/src/object_registry_node.cpp).                *)
(*                                                                         *)
(* A place is a number on a line and a centroid is kept as the sum of the  *)
(* places it is the mean of, so that means and distances are exact.        *)
(*                                                                         *)
(* g is what a callback works on: records (in the order of their ids),     *)
(* index, candidates, the flags dirty, unpublished (revision_ is not       *)
(* published_revision_) and inserted, and files, the image directory as a  *)
(* function from the path of a picture to the confidence of its crop.      *)
(***************************************************************************)
EXTENDS Integers, Sequences, FiniteSets, SequencesExt

CONSTANTS
  MinObservations, MinMeanConfidence,
  ConfirmationWindow, ConfirmationMaxGap,
  Threshold,          \* duplicate_distance_threshold
  Labels

ASSUME ConfirmationAssumption ==
  /\ Threshold \in Nat \ {0}
  /\ MinObservations \in Nat \ {0}
  /\ MinMeanConfidence \in Nat
  /\ ConfirmationWindow \in Nat
  /\ ConfirmationMaxGap \in 1 .. ConfirmationWindow

NoCandidate == <<>>
NoPath == <<>>
NoCrop == [conf |-> -1, stamp |-> -1]

Abs(n) == IF n < 0 THEN -n ELSE n

\* ObjectRecord.  A name is a label and its number, a picture is named for
\* its object and the id it had.
Names == Labels \X (Nat \ {0})
Paths == Names \X Nat

ObjectType == [name : Names, label : Labels, sum : Int, count : Nat \ {0},
               seen : Int, image : Paths \cup {NoPath}, conf : Int]

-----------------------------------------------------------------------------
\* Where things are.

\* cell_for of a centroid
CellOf(r) == r.sum \div (r.count * Threshold)

\* The distance from a place to a centroid is Off / count.
Off(place, r) == Abs(place * r.count - r.sum)
Within(place, r) == Off(place, r) <= Threshold * r.count
Nearer(place, r, s) == Off(place, r) * s.count < Off(place, s) * r.count

\* find_nearest_locked: only the cells next to the place are looked at.
Indexed(g, label, place) ==
  {i \in DOMAIN g.records : \E d \in -1 .. 1 :
     /\ <<label, (place \div Threshold) + d, i>> \in g.index
     /\ Within(place, g.records[i])}

FindNearest(g, label, place) ==
  LET near == Indexed(g, label, place)
  IN  IF near = {} THEN 0
      ELSE CHOOSE i \in near : \A j \in near :
             ~Nearer(place, g.records[j], g.records[i])

\* Mutant for IndexFindsNearest: the cell of a centroid that moved is kept.
ReindexNever(g, i, label, old, new) == g.index \cup {<<label, old, i>>}

Reindex(g, i, label, old, new) ==
  (g.index \ {<<label, old, i>>}) \cup {<<label, new, i>>}

-----------------------------------------------------------------------------
\* Tentative candidates.

Newest(c) == c.observations[Len(c.observations)].stamp
Oldest(c) == c.observations[1].stamp

\* The centroid of a candidate is the mean of the observations it retains.
PlaceSum(observations) == FoldLeft(LAMBDA n, o : n + o.place, 0, observations)

Centroid(observations) == [sum |-> PlaceSum(observations), count |-> Len(observations)]

Prune(candidates, stamp) ==
  {c \in candidates : stamp - Newest(c) <= ConfirmationWindow}

FindNearestCandidate(g, label, place) ==
  LET near == {c \in g.candidates :
                 c.label = label /\ Within(place, Centroid(c.observations))}
  IN  IF near = {} THEN NoCandidate
      ELSE CHOOSE c \in near : \A d \in near :
             ~Nearer(place, Centroid(d.observations), Centroid(c.observations))

\* An observation of the same instant counts once, the more confident one.
AddObservation(observations, o) ==
  LET same == {i \in DOMAIN observations : observations[i].stamp = o.stamp}
  IN  IF same = {} THEN Append(observations, o)
      ELSE LET i == CHOOSE i \in same : TRUE
           IN  IF o.conf > observations[i].conf
               THEN [observations EXCEPT ![i] = o] ELSE observations

\* normalize_candidate_locked: in order of time, inside the window, and only
\* the run after the last excessive gap.
InOrder(observations) ==
  CHOOSE s \in SetToSeqs(observations) :
    \A i, j \in DOMAIN s : i < j => s[i].stamp < s[j].stamp

Recent(observations) ==
  {o \in observations : \A p \in observations : p.stamp - o.stamp <= ConfirmationWindow}

AfterLastGap(observations) ==
  LET gaps == {i \in 2 .. Len(observations) :
                 observations[i].stamp - observations[i - 1].stamp
                   > ConfirmationMaxGap}
  IN  IF gaps = {} THEN observations
      ELSE SubSeq(observations, Max(gaps), Len(observations))

\* Mutant for CandidatesAreTentative: observations stay in order of arrival.
NormalizeAsArrived(observations) == AfterLastGap(observations)

Normalize(observations) == AfterLastGap(InOrder(Recent(ToSet(observations))))

\* The best crop of the run; it goes when its observation does.
BestCrop(crop, observations, o, shows) ==
  LET kept == IF crop.stamp < observations[1].stamp THEN NoCrop ELSE crop
  IN  IF /\ shows
         /\ o.stamp \in {observations[i].stamp : i \in DOMAIN observations}
         /\ o.conf > kept.conf
      THEN [conf |-> o.conf, stamp |-> o.stamp] ELSE kept

Confirmed(observations) ==
  /\ Len(observations) >= MinObservations
  /\ FoldLeft(LAMBDA n, o : n + o.conf, 0, observations)
       >= MinMeanConfidence * Len(observations)

-----------------------------------------------------------------------------
\* Confirmed objects.

\* allocate_name_locked: the label, then the first free number after it.
\* Names are given back only by a clear, so the suffix counter is at the
\* first free number whenever it is asked.
AllocateName(records, label) ==
  LET used == {records[i].name : i \in DOMAIN records}
  IN  <<label, CHOOSE k \in 1 .. Len(records) + 1 :
                 /\ <<label, k>> \notin used
                 /\ \A l \in 1 .. k - 1 : <<label, l>> \in used>>

\* Mutant for PictureIsItsOwn: pictures are numbered by the record alone.
PicturePathById(name, id) == <<id>>

\* store_object_image: where the picture of an object goes.
PicturePath(name, id) == <<name, id>>

\* The pictures of a step, by what is written in it: path and confidence.
StoreImage(files, path, conf) ==
  [p \in DOMAIN files \cup {path} |-> IF p = path THEN conf ELSE files[p]]

\* g carries the registry and the image directory through one callback;
\* works tells whether the disk takes what it is given.
Promote(g, c, works) ==
  LET id == Len(g.records) + 1
      name == AllocateName(g.records, c.label)
      drawn == works /\ c.crop # NoCrop
      center == Centroid(c.observations)
      r == [name |-> name, label |-> c.label,
            sum |-> center.sum, count |-> center.count, seen |-> Newest(c),
            image |-> IF drawn THEN PicturePath(name, id) ELSE NoPath,
            conf |-> IF drawn THEN c.crop.conf ELSE -1]
  IN  [g EXCEPT !.records = Append(@, r),
                !.index = @ \cup {<<c.label, CellOf(r), id>>},
                !.files = IF drawn THEN StoreImage(@, r.image, r.conf) ELSE @,
                !.dirty = TRUE, !.unpublished = TRUE, !.inserted = TRUE]

\* stage_candidate_locked
StageCandidate(g, o, works) ==
  LET old == FindNearestCandidate(g, o.label, o.place)
      base == IF old = NoCandidate
              THEN [label |-> o.label, observations |-> <<>>, crop |-> NoCrop]
              ELSE old
      run == Normalize(AddObservation(base.observations,
               [stamp |-> o.stamp, place |-> o.place, conf |-> o.conf]))
      c == [base EXCEPT !.observations = run,
                        !.crop = BestCrop(@, run, o, o.crop)]
      others == [g EXCEPT !.candidates = @ \ {old}]
  IN  IF Confirmed(run) THEN Promote(others, c, works)
      ELSE [others EXCEPT !.candidates = @ \cup {c}]

\* The update of a known object, and the flags it raises.
Updated(g, i, o, works) ==
  LET r == g.records[i]
      draws == works /\ o.crop /\ (r.image = NoPath \/ r.image \notin DOMAIN g.files)
      path == PicturePath(r.name, i)
      s == [r EXCEPT !.sum = @ + o.place, !.count = @ + 1, !.seen = o.stamp,
                     !.image = IF draws THEN path
                               ELSE IF ~works /\ o.crop /\ @ \notin DOMAIN g.files
                               THEN NoPath ELSE @,
                     !.conf = IF draws THEN o.conf ELSE @]
  IN  [g EXCEPT !.records[i] = s,
                !.index = Reindex(g, i, r.label, CellOf(r), CellOf(s)),
                !.files = IF draws THEN StoreImage(@, path, o.conf) ELSE @,
                !.dirty = TRUE]

\* Mutant for ChangesAreShown: an update leaves the revision as it is.
RevisedNever(g) == g
Revised(g) == [g EXCEPT !.unpublished = TRUE]

\* merge_observation_locked
Merge(g, o, works) ==
  LET pruned == [g EXCEPT !.candidates = Prune(@, o.stamp)]
      i == FindNearest(pruned, o.label, o.place)
  IN  IF i = 0 THEN StageCandidate(pruned, o, works)
      ELSE Revised(Updated(pruned, i, o, works))
=============================================================================
