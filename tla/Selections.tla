----------------------------- MODULE Selections -----------------------------
(***************************************************************************)
(* Parts of a sequence, as a comprehension with a condition makes them in  *)
(* the code: its elements that are in a set, in their order.               *)
(***************************************************************************)
EXTENDS Sequences, SequencesExt

Those(s, S) ==
  FoldLeft(LAMBDA chosen, e : IF e \in S THEN Append(chosen, e) ELSE chosen,
           <<>>, s)
=============================================================================
