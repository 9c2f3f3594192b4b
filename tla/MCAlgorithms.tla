----------------------------- MODULE MCAlgorithms ------------------------------
(***************************************************************************)
(* The algorithms of the control plane, each driven by every input within  *)
(* its bounds: the split and the ladder of weights, the observers of a     *)
(* response body, an analysis round, the traffic share in the status, and   *)
(* the status of a RollingUpdate.                                          *)
(* They share nothing, so a behaviour drives one of them and leaves the    *)
(* variables of the others at a fixed value.                               *)
(***************************************************************************)
EXTENDS MCEvidence

CONSTANTS Unset,
          ListedWeights, ScalarWeights, MaxListed,  \* MCLadder
          MaxLine, MaxLines, MaxRead,               \* MCStream
          Revs, Broken, MaxReplicas, MaxChanges     \* Status

ASSUME MaxLineAssumption == MaxLine \in Nat \ {0}

VARIABLES part,
          spec,
          kind, lines, ended, pos, over, obs, first,
          wanted, dep, status, served, changes

L == INSTANCE MCLadder
S == INSTANCE MCStream
U == INSTANCE Status WITH spec <- wanted

StreamIdle ==
  /\ kind = "json" /\ lines = << <<"frame">> >> /\ ended = TRUE
  /\ pos = 0 /\ over = "ok" /\ obs = S!NewUsageObserver /\ first = None

RoundIdle == metrics = << >> /\ floor = 0 /\ world = None /\ round = [ask |-> "done", checks |-> << >>] /\ began = None

ShareIdle ==
  /\ plan = None /\ trial = None /\ shown = X!Nothing /\ series = None /\ due = 0 /\ edits = 0

FleetIdle == wanted = None /\ dep = None /\ status = U!NoStatus /\ served = {} /\ changes = 0

streamVars == <<kind, lines, ended, pos, over, obs, first>>
roundVars == <<metrics, floor, world, round, began>>
shareVars == <<plan, trial, shown, series, due, edits>>
fleetVars == <<wanted, dep, status, served, changes>>
allVars == <<part, vars, spec, streamVars, roundVars, shareVars, fleetVars>>

InitAll ==
  /\ part \in {"split", "ladder", "stream", "round", "share", "fleet"}
  /\ Init /\ L!Init
  /\ IF part = "stream" THEN S!Init ELSE StreamIdle
  /\ IF part = "round" THEN R!Init ELSE RoundIdle
  /\ IF part = "share" THEN X!Init ELSE ShareIdle
  /\ IF part = "fleet" THEN U!Init ELSE FleetIdle

NextAll ==
  /\ \/ part = "split"  /\ Next   /\ UNCHANGED <<spec, streamVars, roundVars, shareVars, fleetVars>>
     \/ part = "ladder" /\ L!Next /\ UNCHANGED <<vars, streamVars, roundVars, shareVars, fleetVars>>
     \/ part = "stream" /\ S!Next /\ UNCHANGED <<vars, spec, roundVars, shareVars, fleetVars>>
     \/ part = "round"  /\ R!Next /\ UNCHANGED <<vars, spec, streamVars, shareVars, fleetVars>>
     \/ part = "share"  /\ X!Next /\ UNCHANGED <<vars, spec, streamVars, roundVars, fleetVars>>
     \/ part = "fleet"  /\ U!Next /\ UNCHANGED <<vars, spec, streamVars, roundVars, shareVars>>
  /\ UNCHANGED part

SpecAll == InitAll /\ [][NextAll]_allVars

-----------------------------------------------------------------------------
(* The properties of the parts; those of the split, the round and  *)
(* the share are stated in the modules this one extends.                   *)

(* StepLadder is never empty, increases, keeps every admissible rung, and  *)
(* the uniform ladder ends at maxWeight.                                   *)
LadderIsComplete == L!LadderIsComplete

(* The observers record what the body says, however it is cut into reads.  *)
ReadsDoNotMatter == S!ReadsDoNotMatter

(* An observer never holds more than its cap.                              *)
MemoryBounded == S!MemoryBounded

(* Only a revision that was the whole fleet, and ready, becomes the last   *)
(* known-good one.                                                         *)
BankedServed == U!BankedServed
=============================================================================
