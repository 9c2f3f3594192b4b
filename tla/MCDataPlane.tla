----------------------------- MODULE MCDataPlane -----------------------------
(***************************************************************************)
(* The data plane on a small instance.                                     *)
(***************************************************************************)
EXTENDS DataPlane

(* One request of every form (streams of both endpoints, an answer in one  *)
(* piece, the model listing, a body the engine cannot decode), alongside   *)
(* one that is answered in one piece.                                      *)
CONSTANT Varied

AllModes ==
  [r \in Reqs |->
     IF r = Varied
     THEN { [op |-> "chat", stream |-> TRUE], [op |-> "text", stream |-> TRUE],
            [op |-> "chat", stream |-> FALSE], [op |-> "models", stream |-> FALSE],
            [op |-> "garbled", stream |-> FALSE] }
     ELSE { [op |-> "chat", stream |-> FALSE] }]
=============================================================================
