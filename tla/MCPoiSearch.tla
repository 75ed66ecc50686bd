------------------------------ MODULE MCPoiSearch ------------------------------
(* Finite instances of PoiSearch. *)
EXTENDS PoiSearch

(* A grid that is free, one with a gap that only a corner could be cut     *)
(* through, and one in two parts where the robot's footprint is nowhere    *)
(* safe.                                                                   *)
MCMaps ==
  {Cells, Cells \ {<<1, 0>>, <<0, 1>>}, {c \in Cells : c[1] # 1}}
=============================================================================
