-------------------------- MODULE MCImageAnnotator --------------------------
(* A colour image of three by three pixels, a depth image of two by seven. *)
EXTENDS ImageAnnotator

Candidate(conf, box, mask, shaped) ==
  [conf |-> conf, box |-> box, mask |-> mask, shaped |-> shaped]

Plus == {<<0, 1>>, <<1, 0>>, <<1, 1>>, <<1, 2>>, <<2, 1>>}
Corner == {0, 1} \X {0, 1}

MCScenes ==
  {<<>>,
   <<Candidate(1, TRUE, Plus, TRUE), Candidate(1, TRUE, Corner, TRUE)>>,
   <<Candidate(0, TRUE, Corner, TRUE), Candidate(1, TRUE, Corner, FALSE),
     Candidate(1, TRUE, Plus, TRUE), Candidate(NotFinite, TRUE, Plus, TRUE),
     Candidate(1, FALSE, Plus, TRUE)>>}

MCManualMasks == {Corner}

\* The points of the one depth image.  Both rows have samples that are seen at
\* the same pixels: in the middle two of the first row, in the wrong order for
\* the colour camera, and one of the second that is as near; at the edge the
\* one of the second row is the nearer one for that camera only.  One sample
\* has no depth and one is behind the colour camera.
MCDepthImages ==
  {[i \in DepthPixels |-> IF i = 0 THEN 0 ELSE IF i \in {2, 8} THEN 2 ELSE 1]}

MCLanding ==
  [i \in DepthPixels |->
     [z \in {1, 2} |-> CASE i \in {2, 4, 10} -> <<1, 1>> [] i \in {6, 8} -> <<0, 1>>
                          [] i = 12 -> <<1, 0>>          [] i = 5 -> Outside
                          [] OTHER -> <<0, 0>>]]

MCColorZ ==
  [i \in DepthPixels |->
     [z \in {1, 2} |-> CASE i \in {4, 6} -> 3 [] i = 8 -> 2 [] i = 12 -> 0
                          [] OTHER -> 1]]
=============================================================================
