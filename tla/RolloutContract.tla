---------------------------- MODULE RolloutContract ---------------------------
(***************************************************************************)
(* What the controller promises of a release, without canary steps,        *)
(* checks, budgets, timers or replica counts.                              *)
(*                                                                         *)
(* There is a wanted revision, one known to be good, the one the primary   *)
(* serves, at most one on trial beside it and at most one remembered as    *)
(* rejected.  A controller step tests the wanted revision, releases it or  *)
(* retreats to the good one; which, and when, is left open.                *)
(***************************************************************************)
CONSTANTS Revisions, None

VARIABLES wanted, good, serving, trial, rejected

cvars == <<wanted, good, serving, trial, rejected>>

Init ==
  /\ wanted \in Revisions
  /\ good = None /\ serving = None /\ trial = None /\ rejected = None

Ask ==
  /\ wanted' \in Revisions
  /\ UNCHANGED <<good, serving, trial, rejected>>

(* The wanted revision, and only it, goes on trial, and only beside a good *)
(* one, which the primary keeps serving.  What was rejected is not tried   *)
(* again unless it displaces another trial.                                *)
Test ==
  /\ good # None /\ serving' = good
  /\ trial' = wanted
  /\ rejected = wanted => trial # None
  /\ UNCHANGED <<wanted, good, rejected>>

(* The primary moves to the wanted revision, which may become the good one *)
(* at once or later.  A rejected revision is released only when there is   *)
(* nothing else to serve.                                                  *)
Release ==
  /\ serving' = wanted /\ trial' = None
  /\ good' \in {good, wanted}
  /\ rejected' \in {rejected, None}
  /\ rejected' = wanted => good \in {None, wanted}
  /\ UNCHANGED wanted

(* The primary returns to the good revision, or stays there.  What is      *)
(* newly rejected is what was on trial or what was wanted.                 *)
Retreat ==
  /\ good # None /\ serving' = good /\ trial' = None
  /\ rejected' \in {rejected, wanted, trial}
  /\ UNCHANGED <<wanted, good>>

Next == Ask \/ Test \/ Release \/ Retreat

Spec == Init /\ [][Next]_cvars
=============================================================================
