------------------------------ MODULE MCMigration -----------------------------
(***************************************************************************)
(* Two models, the old default image and a new one, a timeout that shares  *)
(* its probe budget with the default and one that does not.                *)
(***************************************************************************)
EXTENDS Migration, TLC

CONSTANTS m1, m2, p1, p2, i1, i2

(* Nothing tells one model, or one port number, from another.              *)
Symmetry == Permutations(Models) \cup Permutations(Ports)
=============================================================================
