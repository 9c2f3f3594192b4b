---------------------------- MODULE MCAutoscale ------------------------------
(***************************************************************************)
(* Instances of Autoscale for TLC.                                         *)
(***************************************************************************)
EXTENDS Autoscale

MCLimits == {[min |-> 1, max |-> 3], [min |-> 2, max |-> 2]}

(* One pair is inverted: an object stored before admission rejected it.    *)
MCLimitsOdd == {[min |-> 1, max |-> 3], [min |-> 0, max |-> 2], [min |-> 3, max |-> 1]}
=============================================================================
