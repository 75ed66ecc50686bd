-------------------------- MODULE MCCommanderRuntime --------------------------
(***************************************************************************)
(* Finite instances of CommanderRuntime: revision r1 lists one candidate   *)
(* and r2 another set, so that a change of revision adds or drops one.     *)
(* That a revision has one content (ContentAssumption) is looked into with *)
(* the lists the registry authority makes of up to two responses.          *)
(***************************************************************************)
EXTENDS CommanderRuntime, TLC

CONSTANTS c1, c2, r1, r2

MCContent == (r1 :> {c1}) @@ (r2 :> {c1, c2})

Registry == INSTANCE RegistryShortlist

Object(name, place, volatile) ==
  [name |-> name, kind |-> "chair", place |-> place, volatile |-> volatile]

Responses ==
  [objects : {{}, {Object("a", 10, 1)}, {Object("a", 14, 2), Object("", 0, 1)},
              {Object("b", 10, 1), Object("a", 20, 1)}},
   frame : {"", "map", "odom"}]

Tokens == {<<>>} \cup {<<r>> : r \in Responses} \cup (Responses \X Responses)

Nothing == [objects |-> {}, frame |-> ""]

Request(blank, whole, labelled, tokens) ==
  [blank |-> blank, whole |-> whole, named |-> Nothing, labelled |-> labelled,
   tokens |-> tokens]

Requests ==
  {Request(TRUE, r, Nothing, <<>>) : r \in Responses}
  \cup {Request(FALSE, Nothing, r, <<>>) : r \in Responses}
  \cup {Request(FALSE, Nothing, Nothing, t) : t \in Tokens}

ASSUME RevisionsAreDigests ==
  \A one, other \in {Registry!Query(TRUE, r) : r \in Requests} :
     Registry!RevisionDetermines(one, other)

ASSUME ListsAreConsistent == \A t \in Tokens : Registry!ListIsConsistent(t)
=============================================================================
