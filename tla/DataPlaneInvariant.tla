------------------------- MODULE DataPlaneInvariant --------------------------
(***************************************************************************)
(* The inductive invariants of the pod.                                    *)
(*                                                                         *)
(* CInv: what a request has been counted for at each point of its handler. *)
(* CountedOnce is not inductive: that the recording adds no second error   *)
(* to a request whose round trip has failed rests on such a request not    *)
(* being a stream, which only modifyResponse makes it.                     *)
(*                                                                         *)
(* GInv: the counter behind the gauges is the number of running handlers.  *)
(*                                                                         *)
(* DInv: where the engine, the connection, the shim and the client of a    *)
(* request are together, what is on its way between them, and what each    *)
(* has seen of it.                                                         *)
(***************************************************************************)
EXTENDS DataPlane

HandlerFields == {"pc", "streamed", "status", "held", "state"}
MetricFields == {"started", "codes", "errors", "ttft", "usage", "chunks"}

(* A handler is at one of its points, and has been counted for what it has *)
(* done so far.                                                            *)
Accounted(h, m) ==
  /\ DOMAIN h = HandlerFields /\ DOMAIN m = MetricFields
  /\ h.pc \in {"none", "proxying", "copying", "recording", "killed", "ended"}
  /\ h.pc \in {"none", "proxying"} => ~h.streamed
  /\ IF h.pc = "ended" THEN Len(m.codes) = 1 ELSE m.codes = << >>
  /\ \/ m.errors = << >>
     \/ /\ h.pc \notin {"none", "proxying", "copying"}
        /\ Len(m.errors) = 1
        /\ h.pc = "recording" => ~h.streamed

CInv ==
  /\ DOMAIN handler = Reqs /\ DOMAIN metric = Reqs
  /\ \A r \in Reqs : Accounted(handler[r], metric[r])

(* A step of one handler: to account for the others is to leave them.      *)
(* The handlers that run.                                                  *)
Handling == { r \in Reqs : S!Busy(r) }

GInv == shim # "stopped" => live = Cardinality(Handling)

-----------------------------------------------------------------------------
(* The state of the pod, request by request.                               *)
Docs == {"frame", "token", "usage", "done", "eof", "reset"}

BodyType == Seq([doc : Docs, at : Nat])

StateType ==
  [ttft : Nat \cup {None}, tokens : Nat, gaps : Nat, lastContent : Nat \cup {None},
   sawDone : BOOLEAN, hasUsage : BOOLEAN, readErr : {None, "broken", "canceled"}]

ModeType == [op : {"chat", "text", "models", "garbled"}, stream : BOOLEAN]

WireType ==
  [mode : ModeType \cup {None},
   header : {"none", "sse", "200", "400", "500", "503", "refused"},
   body : BodyType, open : BOOLEAN]

JobType ==
  [pc : {"none", "streaming", "answering", "returning", "done", "gone"},
   next : Nat \ {0}, clock : Nat]

HandlerType ==
  [pc : {"none", "proxying", "copying", "recording", "killed", "ended"},
   streamed : BOOLEAN, status : Nat, held : Docs \cup {None}, state : StateType]

MetricType ==
  [started : Nat, codes : Seq(Nat),
   errors : Seq({"client_canceled", "unreachable", "stream_aborted"}),
   ttft : Seq(Nat), usage : Nat, chunks : Nat]

CallType ==
  [verdict : {"none", "open", "ok", "failed", "dropped"}, tokens : Nat,
   end : {None, "done", "eof", "reset"}]

TypeInv ==
  /\ wire \in [Reqs -> WireType] /\ job \in [Reqs -> JobType]
  /\ handler \in [Reqs -> HandlerType] /\ metric \in [Reqs -> MetricType]
  /\ call \in [Reqs -> CallType] /\ worker \in [Workers -> Reqs \cup {None}]
  /\ left \in [Reqs -> BOOLEAN] /\ canceled \in [Reqs -> BOOLEAN]
  /\ hurt \in SUBSET Reqs

(* The client: one worker waits for a request, a worker that gives up      *)
(* settles it, and only what was heard to the end is called a success.     *)
ClientInv ==
  /\ \A w \in Workers, r \in Reqs :
       worker[w] = r => /\ call[r].verdict = "open" /\ ~left[r]
                        /\ \A v \in Workers : worker[v] = r => v = w
  /\ \A r \in Reqs :
       /\ canceled[r] => left[r]
       /\ call[r].verdict = "ok" =>
            ~left[r] /\ call[r].tokens > 0 /\ call[r].end \in {"done", "eof"}
       /\ call[r].verdict = "none" => handler[r].pc = "none" /\ ~left[r]

(* Where the handlers of the two sides are together.                       *)
Underway(r) == handler[r].pc \in {"proxying", "copying"}

Together(r) ==
  /\ wire[r].open = Underway(r)
  /\ handler[r].pc = "none" =>
       wire[r] = E!NoWire /\ job[r] = E!NoJob /\ r \notin hurt
  /\ handler[r].pc # "none" => wire[r].mode \in ModeType
  /\ wire[r].header = "none" => job[r].pc \in {"none", "answering", "gone"} /\ wire[r].body = << >>
  /\ wire[r].header = "sse" =>
       wire[r].mode \in [op : {"chat", "text"}, stream : {TRUE}]
         /\ job[r].pc \in {"streaming", "returning", "done", "gone"}
  /\ job[r].pc \in {"streaming", "returning"} => wire[r].header = "sse"
  /\ job[r].pc = "none" => job[r] = E!NoJob /\ wire[r].header \in {"none", "refused"}
  /\ job[r].pc = "answering" => wire[r].header = "none" /\ job[r].clock = 0
  /\ job[r].pc = "done" => wire[r].header \notin {"none", "refused"}

(* The engine's clock: frame next of a stream is due after the sleeps of   *)
(* the frames before it.                                                   *)
Due(i, first) == IF i <= first THEN 0 ELSE TTFT + (i - 1 - first) * ITL

First(r) == E!FirstContent(wire[r].mode)

ClockInv(r) ==
  /\ job[r].pc = "streaming" => /\ job[r].next <= First(r) + Tokens + 1
                                /\ job[r].clock = Due(job[r].next, First(r))
  /\ job[r].pc = "returning" => job[r].clock = TTFT + Tokens * ITL
  /\ (job[r].pc = "done" /\ wire[r].mode.op \in {"chat", "text"} /\ wire[r].header \in {"sse", "200"})
       => job[r].clock = TTFT + Tokens * ITL

(* What is on its way from the engine to the shim.                         *)
Holds(r, i, docs) == wire[r].body[i].doc \in docs

Saw(r) == handler[r].state.sawDone

BodyInv(r) ==
  Underway(r) =>
    /\ \A i \in DOMAIN wire[r].body :
         /\ Holds(r, i, {"eof", "reset"}) =>
              i = Len(wire[r].body) /\ job[r].pc \notin {"streaming", "answering", "returning"}
         /\ Holds(r, i, {"token", "done", "reset"}) => wire[r].header \in {"sse", "refused"}
         /\ Holds(r, i, {"done"}) => job[r].pc # "streaming" /\ ~Saw(r)
         /\ Holds(r, i, {"token"}) => ~Saw(r)
         /\ \A k \in DOMAIN wire[r].body : (Holds(r, i, {"done"}) /\ k > i) => Holds(r, k, {"eof", "reset"})
    /\ Saw(r) => job[r].pc # "streaming"

(* The first token of a stream carries the first-token time.               *)
FirstInv(r) ==
  /\ handler[r].state.ttft \in {None, TTFT}
  /\ handler[r].state.ttft = None <=> handler[r].state.tokens = 0
  /\ \A i \in DOMAIN metric[r].ttft : metric[r].ttft[i] = TTFT /\ wire[r].mode.stream
  /\ Underway(r) =>
       /\ \A i \in DOMAIN wire[r].body :
            (/\ Holds(r, i, {"token"}) /\ handler[r].state.ttft = None
             /\ \A k \in 1..(i - 1) : ~Holds(r, k, {"token"}))
              => wire[r].body[i].at = TTFT
       /\ (job[r].pc = "streaming" /\ job[r].next > First(r) /\ Tokens > 0) =>
            \/ handler[r].state.ttft # None
            \/ \E i \in DOMAIN wire[r].body : Holds(r, i, {"token"})

(* The handler's view of the response it copies.                           *)
CopyInv(r) ==
  /\ handler[r].pc \in {"none", "proxying"} =>
       handler[r].state = S!NewState
  /\ handler[r].pc = "copying" =>
       /\ wire[r].header \notin {"none", "refused"}
       /\ handler[r].streamed = (wire[r].header = "sse")
       /\ handler[r].state.readErr = None
  /\ (handler[r].pc \in {"copying", "recording"} /\ handler[r].streamed) =>
       handler[r].status = 200 /\ wire[r].mode.stream
  /\ handler[r].pc # "ended" => metric[r].ttft = << >> /\ metric[r].chunks = 0

(* A request the engine failed ends in a refusal or a reset before [DONE], *)
(* and only such a request does.                                           *)
HurtInv(r) ==
  /\ (r \in hurt /\ Underway(r)) =>
       \/ wire[r].header = "refused"
       \/ /\ wire[r].header = "sse" /\ ~Saw(r) /\ wire[r].body # << >>
          /\ \A i \in DOMAIN wire[r].body : ~Holds(r, i, {"done", "eof"})
          /\ Holds(r, Len(wire[r].body), {"reset"})
          /\ job[r].pc = "gone"
  /\ wire[r].header = "refused" => r \in hurt
  /\ Underway(r) =>
       \A i \in DOMAIN wire[r].body :
         Holds(r, i, {"reset"}) =>
           r \in hurt \/ Saw(r) \/ \E k \in DOMAIN wire[r].body : k < i /\ Holds(r, k, {"done"})
  /\ (Underway(r) /\ job[r].pc = "returning") =>
       Saw(r) \/ \E k \in DOMAIN wire[r].body : Holds(r, k, {"done"})

(* Whose fault a request is, up to its recording and after it.             *)
BlameInv(r) ==
  /\ \A i \in DOMAIN metric[r].errors :
       IF metric[r].errors[i] = "client_canceled" THEN left[r] ELSE r \in hurt
  /\ handler[r].pc = "recording" =>
       /\ handler[r].state.readErr = "canceled" => left[r]
       /\ (handler[r].streamed /\ ~Saw(r) /\ handler[r].state.readErr = "broken") => r \in hurt
       /\ (r \in hurt /\ ~left[r]) =>
            metric[r].errors # << >> \/ (handler[r].streamed /\ ~Saw(r) /\ handler[r].state.readErr # None)
  /\ (handler[r].pc = "ended" /\ r \in hurt /\ ~left[r]) => metric[r].errors # << >>

(* What the client has heard is what the shim has seen.                    *)
AgreeInv(r) ==
  ~left[r] =>
    /\ handler[r].pc \in {"none", "proxying"} => call[r].tokens = 0 /\ call[r].end = None
    /\ handler[r].pc \in {"copying", "recording"} =>
         /\ call[r].tokens = handler[r].state.tokens
         /\ call[r].tokens > 0 => handler[r].streamed
         /\ call[r].end = "done" => Saw(r)
         /\ Saw(r) => call[r].end = "done"
    /\ handler[r].pc = "copying" => call[r].end \in {None, "done"}
    /\ (handler[r].pc = "recording" /\ call[r].end = "eof") => handler[r].state.readErr = None
    /\ (handler[r].pc = "ended" /\ call[r].tokens > 0 /\ call[r].end \in {"done", "eof"}) =>
         /\ metric[r].codes = <<200>> /\ metric[r].errors = << >>
         /\ metric[r].chunks = call[r].tokens /\ Len(metric[r].ttft) = 1

Good(r) ==
  /\ Together(r) /\ ClockInv(r) /\ BodyInv(r) /\ FirstInv(r)
  /\ CopyInv(r) /\ HurtInv(r) /\ BlameInv(r) /\ AgreeInv(r)

DInv == TypeInv /\ ClientInv /\ \A r \in Reqs : Good(r)
=============================================================================
