-------------------------- MODULE MCObjectRegistry --------------------------
(* Objects of two labels; one that moves between two cells, and one object *)
(* that the file at the old default path holds.                            *)
EXTENDS ObjectRegistry

Sighting(label, place, conf, crop) ==
  [label |-> label, place |-> place, conf |-> conf, crop |-> crop]

MCScenes ==
  {<<Sighting(1, 1, 9, TRUE)>>,
   <<Sighting(1, 2, 5, FALSE)>>,
   <<Sighting(2, 3, 7, TRUE), Sighting(1, 3, 8, TRUE)>>}

MCLegacyObjects ==
  {[name |-> <<2, 1>>, label |-> 2, sum |-> 5, count |-> 1, seen |-> 0,
    image |-> NoPath, conf |-> -1]}
=============================================================================
