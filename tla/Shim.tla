-------------------------------- MODULE Shim ---------------------------------
(***************************************************************************)
(* The metrics sidecar (cmd/shim): one handler per request between the     *)
(* client and the engine.  A handler runs Rewrite/RoundTrip, then          *)
(* ModifyResponse, then the copy loop of httputil.ReverseProxy, then the   *)
(* deferred recording; clients and the engine act between any two of these *)
(* steps.  Events are whole here; how they are cut from bytes is Stream.   *)
(***************************************************************************)
EXTENDS RequestState

CONSTANTS Reqs,
          Concurrency   \* -max-concurrency, the engine's --parallel

VARIABLES shim,      \* "starting", "serving", "draining" or "stopped"
          handler,   \* the handler of each request: [pc, streamed, status, held, state]
          live,      \* metrics.live: requests in flight
          metric,    \* what each request added to the collectors
          wire,      \* the connections to the engine (see FakeEngine)
          left,      \* the client has closed its connection
          canceled   \* net/http has noticed and canceled r.Context()

NoHandler == [pc |-> "none", streamed |-> FALSE, status |-> 200,
              held |-> None, state |-> NewState]

(* A collector is the sum of these contributions over all requests.        *)
NoMetric == [started |-> 0, codes |-> << >>, errors |-> << >>, ttft |-> << >>,
             usage |-> 0, chunks |-> 0]

ShimInit ==
  /\ shim = "starting" /\ live = 0
  /\ handler = [r \in Reqs |-> NoHandler]
  /\ metric = [r \in Reqs |-> NoMetric]

(* The two gauges are derived from live when they are scraped.             *)
QueueDepth == IF live > Concurrency THEN live - Concurrency ELSE 0

(* run: both listeners are up; handleLive answers from here on.            *)
Listen ==
  /\ shim = "starting"
  /\ shim' = "serving"
  /\ UNCHANGED <<handler, live, metric>>

(* serveProxy up to ServeHTTP.  Only POSTs of the known operations count   *)
(* as started; every request counts as in flight.                          *)
Inference(op) == op # "models"

(* A mutant: what is not an inference request is not in flight.            *)
BeginUncounted(r, mode) ==
  /\ shim = "serving" /\ handler[r].pc = "none"
  /\ handler' = [handler EXCEPT ![r].pc = "proxying"]
  /\ metric' = IF Inference(mode.op) THEN [metric EXCEPT ![r].started = @ + 1] ELSE metric
  /\ live' = IF Inference(mode.op) THEN live + 1 ELSE live
  /\ UNCHANGED shim

Begin(r, mode) ==
  /\ shim = "serving" /\ handler[r].pc = "none"
  /\ handler' = [handler EXCEPT ![r].pc = "proxying"]
  /\ metric' = IF Inference(mode.op) THEN [metric EXCEPT ![r].started = @ + 1] ELSE metric
  /\ live' = live + 1
  /\ UNCHANGED shim

UpstreamError(m, reason) == [m EXCEPT !.errors = Append(@, reason)]

(* handleUpstreamError: no response came.  The client is blamed when its   *)
(* cancellation is visible at this moment.                                 *)
HandleUpstreamError(r) ==
  /\ handler[r].pc = "proxying"
  /\ metric' = [metric EXCEPT ![r] =
                  UpstreamError(@, IF canceled[r] THEN "client_canceled" ELSE "unreachable")]
  /\ handler' = [handler EXCEPT ![r].pc = "recording",
                                ![r].status = IF canceled[r] THEN 499 ELSE 502]
  /\ wire' = [wire EXCEPT ![r].open = FALSE]
  /\ UNCHANGED <<shim, live>>

(* A mutant: only a connection that cannot be opened is an error.          *)
DialFails(r, down) ==
  /\ canceled[r] \/ (wire[r].header = "none" /\ down)
  /\ HandleUpstreamError(r)

RoundTripFails(r, down) ==
  /\ canceled[r] \/ wire[r].header = "refused" \/ (wire[r].header = "none" /\ down)
  /\ HandleUpstreamError(r)

Code(header) ==
  CASE header \in {"sse", "200"} -> 200 [] header = "400" -> 400
    [] header = "500" -> 500 [] OTHER -> 503

(* modifyResponse, and the status line copied to the recorder.             *)
ModifyResponse(r) ==
  /\ handler[r].pc = "proxying"
  /\ wire[r].header \notin {"none", "refused"}
  /\ handler' = [handler EXCEPT ![r].pc = "copying",
                                ![r].streamed = wire[r].header = "sse",
                                ![r].status = Code(wire[r].header)]
  /\ UNCHANGED <<shim, live, metric, wire>>

(* One read of the copy loop, seen by streamObserver or by usageObserver,  *)
(* which holds the body until its end.                                     *)
Observe(h, event) ==
  IF h.streamed THEN [h EXCEPT !.state = HandleEvent(@, <<event.doc>>, event.at)]
  ELSE [h EXCEPT !.held = event.doc]

AtEOF(h) == IF h.streamed THEN h ELSE [h EXCEPT !.state = ObserveUsage(@, <<h.held>>)]

Readable(r) == handler[r].pc = "copying" /\ wire[r].body # << >>

CopyEvent(r) ==
  /\ Readable(r)
  /\ Head(wire[r].body).doc \notin {"eof", "reset"}
  /\ handler' = [handler EXCEPT ![r] = Observe(@, Head(wire[r].body))]
  /\ wire' = [wire EXCEPT ![r].body = Tail(@)]
  /\ UNCHANGED <<shim, live, metric>>

(* The copy ends: at EOF ServeHTTP returns; on a read error it records the *)
(* error and panics; on a write error it panics with no read error.  The   *)
(* deferred recording runs in every case.                                  *)
EndCopy(r, h) ==
  /\ handler' = [handler EXCEPT ![r] = [h EXCEPT !.pc = "recording"]]
  /\ wire' = [wire EXCEPT ![r].open = FALSE, ![r].body = << >>]
  /\ UNCHANGED <<shim, live, metric>>

CopyReturns(r) ==
  /\ Readable(r) /\ Head(wire[r].body).doc = "eof"
  /\ EndCopy(r, AtEOF(handler[r]))

CopyBreaks(r) ==
  /\ Readable(r) /\ Head(wire[r].body).doc = "reset"
  /\ EndCopy(r, [handler[r] EXCEPT !.state.readErr = "broken"])

CopyCanceled(r) ==
  /\ handler[r].pc = "copying" /\ canceled[r]
  /\ EndCopy(r, [handler[r] EXCEPT !.state.readErr = "canceled"])

(* The read that precedes the failed write may have carried the EOF too.   *)
WriteFails(r) ==
  /\ Readable(r) /\ left[r]
  /\ Head(wire[r].body).doc \notin {"eof", "reset"}
  /\ LET h == Observe(handler[r], Head(wire[r].body))
     IN  EndCopy(r, h) \/ (~h.streamed /\ EndCopy(r, AtEOF(h)))

(* observe: codes, then for a stream its chunks and first-token time, and  *)
(* the usage of a response that completed.                                 *)
Completed(h) == (h.streamed => h.state.sawDone)

ReportsUsage(h) ==
  /\ Completed(h) /\ h.state.hasUsage /\ h.state.readErr = None /\ h.status = 200

(* A mutant: the gaps between the chunks are counted as chunks.            *)
RecordedGaps(m, h) ==
  [m EXCEPT !.codes = Append(@, h.status),
            !.usage = IF ReportsUsage(h) THEN @ + 1 ELSE @,
            !.chunks = IF h.streamed THEN @ + h.state.gaps ELSE @,
            !.ttft = IF h.streamed /\ h.state.ttft # None THEN Append(@, h.state.ttft) ELSE @]

Recorded(m, h) ==
  [m EXCEPT !.codes = Append(@, h.status),
            !.usage = IF ReportsUsage(h) THEN @ + 1 ELSE @,
            !.chunks = IF h.streamed THEN @ + h.state.tokens ELSE @,
            !.ttft = IF h.streamed /\ h.state.ttft # None THEN Append(@, h.state.ttft) ELSE @]

(* A mutant: the context is not asked.                                     *)
StreamOutcomeBlunt(m, h, isCanceled) ==
  IF ~h.streamed \/ h.state.sawDone \/ h.state.readErr = None THEN m
  ELSE UpstreamError(m, "stream_aborted")

(* countStreamOutcome reads the context again, after the copy has ended.   *)
StreamOutcome(m, h, isCanceled) ==
  IF ~h.streamed \/ h.state.sawDone \/ h.state.readErr = None THEN m
  ELSE UpstreamError(m, IF h.state.readErr = "canceled" \/ isCanceled
                        THEN "client_canceled" ELSE "stream_aborted")

(* A handler that has returned leaves nothing behind but the status the    *)
(* client was sent.                                                        *)
Gone(h, pc) == [NoHandler EXCEPT !.pc = pc, !.status = h.status]

(* A mutant: the recording is not deferred, and a panic skips it.          *)
RecordOnReturn(r) ==
  /\ handler[r].pc = "recording"
  /\ metric' = IF handler[r].state.readErr # None THEN metric
               ELSE [metric EXCEPT ![r] = StreamOutcome(Recorded(@, handler[r]), handler[r], canceled[r])]
  /\ handler' = [handler EXCEPT ![r] = Gone(@, "ended")]
  /\ live' = live - 1
  /\ UNCHANGED <<shim, wire>>

(* The two deferred calls: the recording, then metrics.end.                *)
Record(r) ==
  /\ handler[r].pc = "recording"
  /\ metric' = [metric EXCEPT ![r] = StreamOutcome(Recorded(@, handler[r]), handler[r], canceled[r])]
  /\ handler' = [handler EXCEPT ![r] = Gone(@, "ended")]
  /\ live' = live - 1
  /\ UNCHANGED <<shim, wire>>

(* handleHealth mirrors the engine; an unreachable engine is a 503 that is *)
(* not counted as an upstream error.                                       *)
HandleHealth(engine) == IF shim \in {"serving", "draining"} /\ engine = "ready" THEN 200 ELSE 503

(* SIGTERM: no new requests; the process exits when the handlers are done  *)
(* or at the end of -shutdown-grace, which cuts off the ones that are left. *)
Drain ==
  /\ shim = "serving"
  /\ shim' = "draining"
  /\ UNCHANGED <<handler, live, metric, wire>>

Busy(r) == handler[r].pc \notin {"none", "ended", "killed"}

Stop ==
  /\ shim = "draining"
  /\ shim' = "stopped"
  /\ handler' = [r \in Reqs |-> IF Busy(r) THEN Gone(handler[r], "killed") ELSE handler[r]]
  /\ wire' = [r \in Reqs |-> [wire[r] EXCEPT !.open = FALSE]]
  /\ UNCHANGED <<live, metric>>
=============================================================================
