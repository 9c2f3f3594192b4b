------------------------------ MODULE DataPlane ------------------------------
(***************************************************************************)
(* One pod under load: LoadGen's clients, the Shim and the FakeEngine,     *)
(* with the kubelet that starts and probes the two containers (external,   *)
(* after the probes and the native-sidecar order the pod template sets).   *)
(***************************************************************************)
EXTENDS Naturals, Sequences, FiniteSets

CONSTANTS Reqs, Workers, None,
          Modes,          \* Modes[r]: the forms request r may take, [op, stream]
          Tokens, TTFT, ITL, RateNum, RateDen, PipeCap, Concurrency,
          MaxFaults      \* bound: engine crashes and pod deletions

ASSUME DataPlaneAssumption ==
  /\ Tokens \in Nat /\ TTFT \in Nat /\ ITL \in Nat
  /\ RateDen \in Nat \ {0} /\ RateNum \in 0..RateDen
  /\ PipeCap \in Nat \ {0} /\ Concurrency \in Nat \ {0}
  /\ IsFiniteSet(Reqs)

(* A request is sent to one of the endpoints, or its body does not decode. *)
ASSUME ModesAssumption ==
  Modes \in [Reqs -> SUBSET [op : {"chat", "text", "models", "garbled"}, stream : BOOLEAN]]

ASSUME NoneAssumption ==
  None \notin Nat \cup Reqs \cup {"broken", "canceled", "done", "eof", "reset"}

VARIABLES engine, served, job, wire,
          shim, handler, live, metric,
          worker, call, ended, left, canceled,
          ready,     \* the pod is in the Service's endpoints
          term,      \* the pod is being deleted
          faults,   \* engine crashes and pod deletions so far
          hurt       \* history: requests whose engine died, or was not there, before it had answered

E == INSTANCE FakeEngine
S == INSTANCE Shim
L == INSTANCE LoadGen

podVars == <<ready, term, faults>>
vars == <<engine, served, job, wire, shim, handler, live, metric,
          worker, call, ended, left, canceled, ready, term, faults, hurt>>

Init ==
  /\ E!EngineInit /\ S!ShimInit /\ L!ClientInit
  /\ ready = FALSE /\ term = FALSE /\ faults = 0 /\ hurt = {}

ClientSide == <<worker, call, ended, left, canceled>>
ShimSide   == <<shim, handler, live, metric>>
EngineSide == <<engine, served, job>>

(* The kubelet: the shim is a native sidecar, so the engine container is   *)
(* started only after the shim's startup probe (handleLive) has passed.    *)
StartShim == S!Listen /\ UNCHANGED <<EngineSide, wire, ClientSide, podVars, hurt>>

(* A mutant: the startup probe asks the engine.                            *)
StartEngineWhenHealthy ==
  /\ S!HandleHealth(engine) = 200 /\ ~term /\ E!StartEngine
  /\ UNCHANGED <<ShimSide, ClientSide, podVars, hurt>>

StartEngine ==
  /\ shim = "serving" /\ ~term /\ E!StartEngine
  /\ UNCHANGED <<ShimSide, ClientSide, podVars, hurt>>

Probe ==
  /\ ready' = (S!HandleHealth(engine) = 200 /\ ~term)
  /\ ready' # ready
  /\ UNCHANGED <<EngineSide, wire, ShimSide, ClientSide, term, faults, hurt>>

(* Deletion: the engine exits first, then the shim is told to drain.       *)
Delete ==
  /\ ~term /\ term' = TRUE /\ ready' = FALSE
  /\ faults < MaxFaults /\ faults' = faults + 1
  /\ UNCHANGED <<EngineSide, wire, ShimSide, ClientSide, hurt>>

EngineDies ==
  /\ E!EngineExits
  /\ IF term THEN UNCHANGED faults
     ELSE faults < MaxFaults /\ faults' = faults + 1
  /\ hurt' = hurt \cup { r \in Reqs : E!Unfinished(r) /\ job[r].pc # "returning" }
  /\ UNCHANGED <<ShimSide, ClientSide, ready, term>>

DrainShim ==
  /\ term /\ engine = "absent" /\ S!Drain
  /\ UNCHANGED <<EngineSide, ClientSide, podVars, hurt>>

(* A client reaches the shim through the Service.                          *)
Send(w, r, mode) ==
  /\ ready /\ L!Issue(w, r) /\ S!Begin(r, mode)
  /\ wire' = [wire EXCEPT ![r] = [@ EXCEPT !.mode = mode, !.open = TRUE]]
  /\ UNCHANGED <<EngineSide, podVars, hurt>>

EngineStep(r) ==
  /\ E!AnswerLoading(r) \/ E!HandleModels(r) \/ E!HandleCompletion(r)
       \/ E!Emit(r) \/ E!EndBody(r) \/ E!Answer(r) \/ E!StopGenerating(r)
  /\ UNCHANGED <<ShimSide, ClientSide, podVars, hurt>>

(* What the shim passes on reaches the client unless it has left.          *)
Hear(r, c) == call' = IF left[r] THEN call ELSE [call EXCEPT ![r] = c]

Tell(r, end) == Hear(r, IF call[r].end = None THEN [call[r] EXCEPT !.end = end] ELSE call[r])

Refuse(r) ==
  /\ S!RoundTripFails(r, engine = "absent")
  /\ hurt' = IF engine = "absent" THEN hurt \cup {r} ELSE hurt
  /\ Tell(r, "eof")
  /\ UNCHANGED <<EngineSide, worker, ended, left, canceled, podVars>>

Copy(r) ==
  /\ S!CopyEvent(r)
  /\ Hear(r, L!Heard(call[r], Head(wire[r].body).doc))
  /\ UNCHANGED <<EngineSide, worker, ended, left, canceled, podVars, hurt>>

FinishCopy(r) ==
  /\ \/ S!CopyReturns(r) /\ Tell(r, "eof")
     \/ (S!CopyBreaks(r) \/ S!CopyCanceled(r) \/ S!WriteFails(r)) /\ Tell(r, "reset")
  /\ UNCHANGED <<EngineSide, worker, ended, left, canceled, podVars, hurt>>

ShimStep(r) ==
  /\ \/ S!ModifyResponse(r)
     \/ S!Record(r)
  /\ UNCHANGED <<EngineSide, ClientSide, podVars, hurt>>

StopShim ==
  /\ S!Stop
  /\ call' = [r \in Reqs |-> IF S!Busy(r) /\ ~left[r] /\ call[r].end = None
                             THEN [call[r] EXCEPT !.end = "reset"] ELSE call[r]]
  /\ UNCHANGED <<EngineSide, worker, ended, left, canceled, podVars, hurt>>

ClientStep ==
  /\ \/ \E w \in Workers, over \in BOOLEAN : L!GiveUp(w, over)
     \/ \E w \in Workers : worker[w] # None /\ L!Return(w, handler[worker[w]].status)
     \/ \E r \in Reqs : S!Busy(r) /\ L!NoticeLeft(r)
  /\ UNCHANGED <<EngineSide, wire, ShimSide, podVars, hurt>>

Next ==
  \/ StartShim \/ StartEngine \/ Probe \/ Delete \/ EngineDies \/ DrainShim
  \/ E!Load /\ UNCHANGED <<ShimSide, ClientSide, podVars, hurt>>
  \/ \E w \in Workers, r \in Reqs : \E mode \in Modes[r] : Send(w, r, mode)
  \/ \E r \in Reqs : EngineStep(r) \/ Refuse(r) \/ Copy(r) \/ FinishCopy(r) \/ ShimStep(r)
  \/ StopShim \/ ClientStep

Spec == Init /\ [][Next]_vars

(* The kubelet keeps starting and probing, and the handlers on both sides  *)
(* run on.  Nothing is assumed of the clients or of the faults.            *)
Fairness ==
  /\ WF_vars(StartShim) /\ WF_vars(StartEngine) /\ WF_vars(Probe)
  /\ WF_vars(E!Load /\ UNCHANGED <<ShimSide, ClientSide, podVars, hurt>>)
  /\ \A r \in Reqs : /\ WF_vars(EngineStep(r)) /\ WF_vars(Refuse(r))
                     /\ WF_vars(Copy(r)) /\ WF_vars(FinishCopy(r)) /\ WF_vars(ShimStep(r))

FairSpec == Spec /\ Fairness

-----------------------------------------------------------------------------
(* Properties: what the measurements promise.                              *)

(* Each request that reaches the shim is counted once, with one code and   *)
(* at most one upstream error, however it ends: the recording is deferred  *)
(* because ReverseProxy panics on a broken copy (proxy.go:201-213).        *)
CountedOnce ==
  \A r \in Reqs :
    /\ handler[r].pc = "ended" => Len(metric[r].codes) = 1
    /\ handler[r].pc \in {"none", "proxying", "copying", "recording"} => metric[r].codes = << >>
    /\ Len(metric[r].errors) <= 1

(* The in-flight gauge, and with it the queue depth the autoscaler reads,  *)
(* is the number of handlers running (metrics.go:179-200).                 *)
GaugesAreTrue ==
  LET busy == Cardinality({ r \in Reqs : S!Busy(r) })
  IN  shim # "stopped" =>
        /\ live = busy
        /\ S!QueueDepth = IF busy > Concurrency THEN busy - Concurrency ELSE 0

(* Blame falls where it belongs (proxy.go:230-237): the engine is blamed    *)
(* only for a request it failed and the client only for one it left, so a  *)
(* load generator's timeouts do not raise the error rate of the slower     *)
(* variant; and an engine that is down, or dies before [DONE], is counted  *)
(* as an upstream error of every request whose client waited for it.       *)
BlameIsDeserved ==
  /\ \A r \in Reqs : \A i \in DOMAIN metric[r].errors :
       IF metric[r].errors[i] = "client_canceled" THEN left[r] ELSE r \in hurt
  /\ \A r \in hurt : (handler[r].pc = "ended" /\ ~left[r]) => metric[r].errors # << >>

(* Variants can be compared whichever endpoint their clients use: the      *)
(* first-token time of a stream is the engine's configured one, role frame *)
(* or not, nothing else enters the histogram (server.go:659-670,           *)
(* metrics.go:263-271), and a complete answer takes the same time streamed *)
(* or not (server.go:545-548).                                             *)
LatencyComparable ==
  /\ \A r \in Reqs : \A i \in DOMAIN metric[r].ttft :
       metric[r].ttft[i] = TTFT /\ wire[r].mode.stream
  /\ \A r \in Reqs :
       (job[r].pc = "done" /\ wire[r].mode.op \in {"chat", "text"} /\ wire[r].header \in {"sse", "200"})
         => job[r].clock = TTFT + Tokens * ITL

(* A request the client calls a success is one the shim recorded as such,  *)
(* with the client's token count and a first-token time: the independent   *)
(* check of loadgen (main.go:29-39) and the shim measure the same thing.   *)
ClientAndShimAgree ==
  \A r \in Reqs :
    (call[r].verdict = "ok" /\ handler[r].pc = "ended") =>
      /\ metric[r].codes = <<200>> /\ metric[r].errors = << >>
      /\ metric[r].chunks = call[r].tokens /\ Len(metric[r].ttft) = 1

(* Every request ends: no handler waits for an engine that is gone, still  *)
(* loading or done, so the queue depth returns to zero when the load does. *)
RequestsEnd == \A r \in Reqs : S!Busy(r) ~> ~S!Busy(r)

(* The pod becomes ready: the engine waits for the shim's startup probe,   *)
(* which must therefore not wait for the engine (proxy.go:310-314).        *)
PodBecomesReady == <>(ready \/ term)
=============================================================================
