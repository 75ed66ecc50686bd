---------------------------- MODULE MCVlmSocket ----------------------------
(* Contents: none, a text, a picture with a question, two pictures that    *)
(* are too large together, and a picture that is cut short.                *)
EXTENDS VlmSocket

Part(type, characters, bytes, whole) ==
  [type |-> type, characters |-> characters, bytes |-> bytes, whole |-> whole]

MCContents ==
  {<<>>, <<Part("text", 1, 0, FALSE)>>,
   <<Part("jpeg", 0, 2, TRUE), Part("text", 2, 0, FALSE)>>,
   <<Part("jpeg", 0, 2, TRUE), Part("jpeg", 0, 2, TRUE)>>,
   <<Part("jpeg", 0, 1, FALSE)>>}

MCTexts == {<<1>>, <<2, 1>>}
=============================================================================
