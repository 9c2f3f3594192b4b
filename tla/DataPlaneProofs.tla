--------------------------- MODULE DataPlaneProofs ---------------------------
(***************************************************************************)
(* The shim's steps keep DInv; so it always holds, and with it: blame falls *)
(* where it belongs, every latency is the engine's own, and what a client  *)
(* calls a success the shim has recorded as one.                           *)
(*                                                                         *)
(* The gauges the shim exports are true as well.  The counter behind them  *)
(* is compared with the set of the handlers that run (GInv); that a step   *)
(* moves it by one needs where each handler is, so GInv is taken together  *)
(* with CInv.                                                              *)
(***************************************************************************)
EXTENDS PodProofs

(* The shim's steps.  They leave the engine's jobs and the workers alone.  *)

(* To show the invariant after a step of one handler, look at that request *)
(* and at what its client has been told.                                   *)
LEMMA OneCopy ==
  ASSUME DInv, NEW r \in Reqs, handler[r].pc # "none",
         NEW w \in WireType, NEW h \in HandlerType, NEW m \in MetricType, NEW c \in CallType,
         wire' = [wire EXCEPT ![r] = w], handler' = [handler EXCEPT ![r] = h],
         metric' = [metric EXCEPT ![r] = m], call' = [call EXCEPT ![r] = c],
         job' = job, worker' = worker, left' = left, canceled' = canceled,
         hurt' \in {hurt, hurt \cup {r}},
         c.verdict = call[r].verdict, call[r].end # None => c = call[r],
         Good(r)'
  PROVE  DInv'
  <1>1. TypeInv'
    BY Zenon DEF DInv, TypeInv
  <1>2. /\ TypeInv /\ ClientInv
        /\ \A o \in Reqs : call'[o] = IF o = r THEN c ELSE call[o]
        /\ \A o \in Reqs : handler'[o] = IF o = r THEN h ELSE handler[o]
    BY Zenon DEF DInv, TypeInv
  <1>3. ASSUME NEW o \in Reqs
        PROVE  /\ call'[o].verdict = call[o].verdict
               /\ call[o].verdict = "ok" => call'[o] = call[o]
               /\ call[o].verdict = "none" => o # r
    BY <1>2, NoneAssumption DEF ClientInv
  <1>4. ClientInv'
    <2>1. ASSUME NEW v \in Workers, NEW o \in Reqs, worker'[v] = o
          PROVE  /\ call'[o].verdict = "open" /\ ~left'[o]
                 /\ \A u \in Workers : worker'[u] = o => u = v
      BY <1>2, <1>3, <2>1 DEF ClientInv
    <2>2. ASSUME NEW o \in Reqs
          PROVE  /\ canceled'[o] => left'[o]
                 /\ call'[o].verdict = "ok" =>
                      ~left'[o] /\ call'[o].tokens > 0 /\ call'[o].end \in {"done", "eof"}
                 /\ call'[o].verdict = "none" => handler'[o].pc = "none" /\ ~left'[o]
      BY <1>2, <1>3 DEF ClientInv
    <2>3. QED
      BY <2>1, <2>2, Zenon DEF ClientInv
  <1>5. ASSUME NEW o \in Reqs \ {r} PROVE Good(o)'
    <2>1. Untouched(o)
      BY <1>2 DEF Untouched, TypeInv
    <2>2. QED
      BY <2>1, UntouchedStaysGood, Zenon DEF DInv
  <1>6. QED
    BY <1>1, <1>4, <1>5, Zenon DEF DInv

(* What a client that has not left is told.                                *)
LEMMA HearMeans ==
  ASSUME TypeInv, NEW r \in Reqs, NEW c, Hear(r, c)
  PROVE  call' = [call EXCEPT ![r] = IF left[r] THEN call[r] ELSE c]
  BY Zenon DEF Hear, TypeInv

LEMMA TellMeans ==
  ASSUME TypeInv, NEW r \in Reqs, NEW end \in {"eof", "reset"}, Tell(r, end)
  PROVE  \E c \in CallType :
           /\ call' = [call EXCEPT ![r] = c]
           /\ c.verdict = call[r].verdict /\ c.tokens = call[r].tokens
           /\ call[r].end # None => c = call[r]
           /\ left[r] => c = call[r]
           /\ (~left[r] /\ call[r].end = None) => c.end = end
  <1> DEFINE d == IF call[r].end = None THEN [call[r] EXCEPT !.end = end] ELSE call[r]
             c == IF left[r] THEN call[r] ELSE d
  <1>1. call[r] \in CallType
    BY Zenon DEF TypeInv
  <1>2. /\ d \in CallType /\ d.verdict = call[r].verdict /\ d.tokens = call[r].tokens
        /\ call[r].end # None => d = call[r]
        /\ call[r].end = None => d.end = end
    BY <1>1, Zenon DEF CallType
  <1>3. call' = [call EXCEPT ![r] = c]
    BY HearMeans, Zenon DEF Tell
  <1>4. c \in CallType
    BY <1>1, <1>2, Zenon
  <1> HIDE DEF d
  <1>5. QED
    BY <1>2, <1>3, <1>4, Zenon

(* What the observers make of an event.                                    *)
LEMMA OneDoc ==
  ASSUME NEW doc \in Docs
  PROVE  /\ S!HasToken(<<doc>>) = (doc = "token")
         /\ (<<doc>> = <<"done">>) = (doc = "done")
  <1>1. \A s : <<doc>> = <<s>> <=> doc = s
    BY Zenon
  <1>2. <<doc>> # <<"lhs", "nl", "rhs">>
    BY Zenon
  <1>3. doc # "last"
    BY Zenon DEF Docs
  <1>4. QED
    BY <1>1, <1>2, <1>3 DEF S!HasToken

LEMMA Counted ==
  ASSUME NEW u \in StateType, NEW now \in Nat
  PROVE  LET n == S!CountToken(u, now)
         IN  /\ n \in StateType /\ n.readErr = u.readErr /\ n.tokens = u.tokens + 1
             /\ n.ttft = (IF u.ttft = None THEN now ELSE u.ttft) /\ n.sawDone = u.sawDone
  <1> DEFINE t == IF u.ttft = None THEN now ELSE u.ttft
             k == IF u.ttft = None THEN u.gaps ELSE u.gaps + 1
             n == S!CountToken(u, now)
  <1>1. t \in Nat \cup {None} /\ k \in Nat /\ u.tokens + 1 \in Nat
    BY DEF StateType
  <1>2. n = [u EXCEPT !.ttft = t, !.gaps = k, !.lastContent = now, !.tokens = u.tokens + 1]
    BY Zenon DEF S!CountToken
  <1> HIDE DEF t, k, n
  <1>3. /\ n \in StateType /\ n.readErr = u.readErr /\ n.tokens = u.tokens + 1
        /\ n.ttft = t /\ n.sawDone = u.sawDone
    BY <1>1, <1>2, Zenon DEF StateType
  <1>4. QED
    BY <1>3, Zenon DEF n, t

LEMMA Observed ==
  ASSUME NEW h \in HandlerType, NEW e \in Event
  PROVE  LET g == S!Observe(h, e)
         IN  /\ g \in HandlerType /\ g.pc = h.pc /\ g.streamed = h.streamed /\ g.status = h.status
             /\ g.state.readErr = h.state.readErr
             /\ g.state.sawDone = (h.state.sawDone \/ (h.streamed /\ e.doc = "done"))
             /\ g.state.tokens = IF h.streamed /\ e.doc = "token"
                                 THEN h.state.tokens + 1 ELSE h.state.tokens
             /\ g.state.ttft = IF h.streamed /\ e.doc = "token" /\ h.state.ttft = None
                               THEN e.at ELSE h.state.ttft
  <1> DEFINE g == S!Observe(h, e)
             st == h.state
             n == S!HandleEvent(st, <<e.doc>>, e.at)
             u == S!ObserveUsage(st, <<e.doc>>)
  <1>1. e.doc \in Docs /\ e.at \in Nat /\ st \in StateType /\ h.streamed \in BOOLEAN
    BY Zenon DEF Event, HandlerType
  <1>2. /\ S!HasToken(<<e.doc>>) = (e.doc = "token")
        /\ (<<e.doc>> = <<"done">>) = (e.doc = "done")
    BY <1>1, OneDoc, Zenon
  <1>3. /\ u \in StateType /\ u.ttft = st.ttft /\ u.tokens = st.tokens /\ u.gaps = st.gaps
        /\ u.readErr = st.readErr /\ u.sawDone = st.sawDone
    BY <1>1, Zenon DEF S!ObserveUsage, StateType
  <1>4. CASE ~h.streamed
    <2>1. g = [h EXCEPT !.held = e.doc]
      BY <1>4, Zenon DEF S!Observe
    <2>2. /\ g \in HandlerType /\ g.pc = h.pc /\ g.streamed = h.streamed /\ g.status = h.status
          /\ g.state = st
      BY <1>1, <2>1, Zenon DEF HandlerType
    <2>3. st.sawDone \in BOOLEAN
      BY <1>1, Zenon DEF StateType
    <2> HIDE DEF g
    <2>4. QED
      BY <1>4, <2>2, <2>3, Zenon DEF g
  <1>5. CASE h.streamed
    <2>1. g = [h EXCEPT !.state = n]
      BY <1>5 DEF S!Observe
    <2>2. CASE e.doc = "done"
      <3>1. n = [st EXCEPT !.sawDone = TRUE]
        BY <1>2, <2>2, Zenon DEF S!HandleEvent
      <3>2. /\ n \in StateType /\ n.readErr = st.readErr /\ n.tokens = st.tokens
            /\ n.ttft = st.ttft /\ n.sawDone = TRUE
        BY <1>1, <3>1, Zenon DEF StateType
      <3> HIDE DEF n
      <3>3. /\ g \in HandlerType /\ g.pc = h.pc /\ g.streamed = h.streamed /\ g.status = h.status
            /\ g.state = n
        BY <2>1, <3>2, Zenon DEF HandlerType
      <3> HIDE DEF g
      <3>4. QED
        BY <1>5, <2>2, <3>2, <3>3, Zenon DEF g
    <2>3. CASE e.doc = "token"
      <3>1. n = S!CountToken(u, e.at)
        BY <1>2, <2>3, Zenon DEF S!HandleEvent
      <3> HIDE DEF u, n
      <3>2. /\ n \in StateType /\ n.readErr = u.readErr /\ n.tokens = u.tokens + 1
            /\ n.ttft = (IF u.ttft = None THEN e.at ELSE u.ttft) /\ n.sawDone = u.sawDone
        BY <1>1, <1>3, <3>1, Counted, Zenon
      <3>3. /\ g \in HandlerType /\ g.pc = h.pc /\ g.streamed = h.streamed /\ g.status = h.status
            /\ g.state = n
        BY <2>1, <3>2 DEF HandlerType
      <3>4. st.sawDone \in BOOLEAN
        BY <1>1, Zenon DEF StateType
      <3> HIDE DEF g
      <3>5. QED
        BY <1>3, <1>5, <2>3, <3>2, <3>3, <3>4, Zenon DEF g
    <2>4. CASE e.doc \notin {"done", "token"}
      <3>1. n = u
        BY <1>2, <2>4, Zenon DEF S!HandleEvent
      <3> HIDE DEF n, u
      <3>2. /\ g \in HandlerType /\ g.pc = h.pc /\ g.streamed = h.streamed /\ g.status = h.status
            /\ g.state = u
        BY <1>3, <2>1, <3>1, Zenon DEF HandlerType
      <3>3. st.sawDone \in BOOLEAN
        BY <1>1, Zenon DEF StateType
      <3> HIDE DEF g
      <3>4. QED
        BY <1>3, <1>5, <2>4, <3>2, <3>3, Zenon DEF g
    <2>5. QED
      BY <2>2, <2>3, <2>4, Zenon
  <1>6. QED
    BY <1>1, <1>4, <1>5, Zenon

LEMMA AtEnd ==
  ASSUME NEW h \in HandlerType
  PROVE  LET g == S!AtEOF(h)
         IN  /\ g \in HandlerType /\ g.pc = h.pc /\ g.streamed = h.streamed /\ g.status = h.status
             /\ g.state.readErr = h.state.readErr /\ g.state.sawDone = h.state.sawDone
             /\ g.state.tokens = h.state.tokens /\ g.state.ttft = h.state.ttft
  <1> DEFINE g == S!AtEOF(h)
             u == S!ObserveUsage(h.state, <<h.held>>)
  <1>1. h.state \in StateType /\ h.streamed \in BOOLEAN
    BY DEF HandlerType
  <1>2. /\ u \in StateType /\ u.ttft = h.state.ttft /\ u.tokens = h.state.tokens
        /\ u.readErr = h.state.readErr /\ u.sawDone = h.state.sawDone
    BY <1>1, Zenon DEF S!ObserveUsage, StateType
  <1>3. CASE h.streamed
    BY <1>3, Zenon DEF S!AtEOF
  <1>4. CASE ~h.streamed
    <2>1. g = [h EXCEPT !.state = u]
      BY <1>4, Zenon DEF S!AtEOF
    <2> HIDE DEF u
    <2>2. QED
      BY <1>2, <2>1, Zenon DEF HandlerType
  <1>5. QED
    BY <1>1, <1>3, <1>4, Zenon

LEMMA Errored ==
  ASSUME NEW m \in MetricType, NEW x \in {"client_canceled", "unreachable", "stream_aborted"}
  PROVE  LET n == S!UpstreamError(m, x)
         IN  /\ n \in MetricType /\ n.errors = Append(m.errors, x) /\ n.ttft = m.ttft
             /\ n.chunks = m.chunks /\ n.codes = m.codes
  <1>1. Append(m.errors, x) \in Seq({"client_canceled", "unreachable", "stream_aborted"})
    BY DEF MetricType
  <1>2. QED
    BY <1>1, Zenon DEF MetricType, S!UpstreamError

LEMMA Moved ==
  ASSUME NEW h \in HandlerType, NEW pc \in {"copying", "recording"}, NEW s \in BOOLEAN,
         NEW code \in Nat
  PROVE  LET g == [h EXCEPT !.pc = pc, !.streamed = s, !.status = code]
         IN  /\ g \in HandlerType /\ g.pc = pc /\ g.streamed = s /\ g.status = code
             /\ g.state = h.state
  BY Zenon DEF HandlerType

LEMMA Closed ==
  ASSUME NEW h \in HandlerType, NEW code \in Nat
  PROVE  LET g == [h EXCEPT !.pc = "recording", !.status = code]
         IN  /\ g \in HandlerType /\ g.pc = "recording" /\ g.streamed = h.streamed
             /\ g.state = h.state
  BY Zenon DEF HandlerType

(* The round trip has failed: nothing was copied, and the reason is left   *)
(* in the collectors.                                                      *)
LEMMA RefuseKeeps ==
  ASSUME DInv, CInv, NEW r \in Reqs, Refuse(r)
  PROVE  DInv'
  <1> DEFINE w == [wire[r] EXCEPT !.open = FALSE]
             code == IF canceled[r] THEN 499 ELSE 502
             h == [handler[r] EXCEPT !.pc = "recording", !.status = code]
             x == IF canceled[r] THEN "client_canceled" ELSE "unreachable"
             m == S!UpstreamError(metric[r], x)
  <1>1. Good(r) /\ TypeInv /\ ClientInv
    BY DEF DInv
  <1>2. /\ wire[r] \in WireType /\ handler[r] \in HandlerType /\ metric[r] \in MetricType
        /\ call[r] \in CallType /\ canceled[r] \in BOOLEAN /\ left[r] \in BOOLEAN
    BY <1>1, Typed, Zenon
  <1>3. /\ handler[r].pc = "proxying"
        /\ canceled[r] \/ wire[r].header = "refused" \/ (wire[r].header = "none" /\ engine = "absent")
        /\ hurt' = IF engine = "absent" THEN hurt \cup {r} ELSE hurt
        /\ job' = job /\ worker' = worker /\ left' = left /\ canceled' = canceled
    BY Zenon DEF Refuse, S!RoundTripFails, S!HandleUpstreamError, EngineSide
  <1>4. /\ wire' = [wire EXCEPT ![r] = w] /\ handler' = [handler EXCEPT ![r] = h]
        /\ metric' = [metric EXCEPT ![r] = m]
    <2>1. /\ wire' = [wire EXCEPT ![r].open = FALSE]
          /\ handler' = [handler EXCEPT ![r].pc = "recording", ![r].status = code]
          /\ metric' = [metric EXCEPT ![r] = m]
      BY Zenon DEF Refuse, S!RoundTripFails, S!HandleUpstreamError
    <2> HIDE DEF code, m, x
    <2>2. QED
      BY <1>1, <2>1, Zenon DEF TypeInv
  <1>5. metric[r].errors = << >> /\ ~handler[r].streamed /\ handler[r].state = S!NewState
    BY <1>1, <1>3, Zenon DEF CInv, Accounted, Good, CopyInv
  <1>6. x \in {"client_canceled", "unreachable", "stream_aborted"}
    BY <1>2, Zenon
  <1>7. PICK c \in CallType :
           /\ call' = [call EXCEPT ![r] = c]
           /\ c.verdict = call[r].verdict /\ c.tokens = call[r].tokens
           /\ call[r].end # None => c = call[r]
           /\ left[r] => c = call[r]
           /\ (~left[r] /\ call[r].end = None) => c.end = "eof"
    BY <1>1, TellMeans, Zenon DEF Refuse
  <1>8. /\ w \in WireType /\ w.open = FALSE /\ w.header = wire[r].header /\ w.mode = wire[r].mode
        /\ w.body = wire[r].body
    BY <1>2, Zenon DEF WireType
  <1>9. /\ h \in HandlerType /\ h.pc = "recording" /\ h.streamed = handler[r].streamed
        /\ h.state = handler[r].state
    <2>1. code \in Nat
      OBVIOUS
    <2> HIDE DEF code
    <2>2. QED
      BY <1>2, <2>1, Closed, Zenon
  <1>10. /\ m \in MetricType /\ m.errors = <<x>> /\ m.ttft = metric[r].ttft
         /\ m.chunks = metric[r].chunks
    <2> HIDE DEF x
    <2>1. Append(metric[r].errors, x) = <<x>>
      BY <1>5
    <2>2. QED
      BY <1>2, <1>6, <2>1, Errored, Zenon
  <1> HIDE DEF w, h, m, x, code
  <1>11. /\ wire'[r] = w /\ handler'[r] = h /\ metric'[r] = m /\ call'[r] = c /\ job'[r] = job[r]
    BY <1>1, <1>3, <1>4, <1>7, Zenon DEF TypeInv
  <1>12. Together(r)'
    <2> DEFINE u == Underway(r)'
    <2>1. wire'[r].open = u
      <3>1. wire'[r].open = FALSE
        BY <1>8, <1>11, Zenon
      <3>2. ~u
        BY <1>9, <1>11, Zenon DEF Underway
      <3> HIDE DEF u
      <3>3. u \in BOOLEAN
        BY DEF u, Underway
      <3>4. QED
        BY <3>1, <3>2, <3>3, Zenon
    <2>2. /\ wire'[r].mode = wire[r].mode /\ wire'[r].header = wire[r].header
          /\ wire'[r].body = wire[r].body /\ job'[r] = job[r] /\ handler'[r].pc # "none"
          /\ handler[r].pc # "none"
      BY <1>3, <1>8, <1>9, <1>11, Zenon
    <2>3. QED
      BY <1>1, <2>1, <2>2, Zenon DEF Good, Together
  <1>13. ClockInv(r)'
    BY <1>1, <1>8, <1>11, Zenon DEF Good, ClockInv, First
  <1>14. BodyInv(r)' /\ ~Underway(r)'
    BY <1>9, <1>11, Zenon DEF BodyInv, Underway
  <1>15. FirstInv(r)'
    BY <1>1, <1>8, <1>9, <1>10, <1>11, <1>14, Zenon DEF Good, FirstInv
  <1>16. CopyInv(r)'
    BY <1>1, <1>3, <1>5, <1>9, <1>10, <1>11, Zenon DEF Good, CopyInv
  <1>17. HurtInv(r)'
    BY <1>1, <1>3, <1>8, <1>11, <1>14, Zenon DEF Good, HurtInv
  <1>18. BlameInv(r)'
    <2>1. m.errors # << >> /\ DOMAIN m.errors = {1} /\ m.errors[1] = x
      BY <1>10
    <2>2. IF x = "client_canceled" THEN left[r] ELSE r \in hurt'
      BY <1>1, <1>2, <1>3, Zenon DEF x, ClientInv, Good, HurtInv
    <2>3. h.state.readErr = None /\ None # "canceled" /\ None # "broken"
      BY <1>5, <1>9, NoneAssumption DEF S!NewState
    <2>4. QED
      BY <1>3, <1>9, <1>11, <2>1, <2>2, <2>3, Zenon DEF BlameInv
  <1>19. AgreeInv(r)'
    <2>1. ~left[r] => c.tokens = 0 /\ c.end = "eof"
      BY <1>1, <1>3, <1>7, Zenon DEF Good, AgreeInv
    <2>2. h.state.tokens = 0 /\ h.state.readErr = None /\ h.state.sawDone = FALSE
      BY <1>5, <1>9 DEF S!NewState
    <2>3. QED
      BY <1>3, <1>9, <1>11, <2>1, <2>2 DEF AgreeInv, Saw
  <1>20. Good(r)'
    BY <1>12, <1>13, <1>14, <1>15, <1>16, <1>17, <1>18, <1>19, Zenon DEF Good
  <1>21. hurt' \in {hurt, hurt \cup {r}}
    BY <1>3
  <1>22. QED
    BY <1>3, <1>4, <1>7, <1>8, <1>9, <1>10, <1>20, <1>21, OneCopy, Zenon

LEMMA ModifyKeeps ==
  ASSUME DInv, CInv, NEW r \in Reqs, S!ModifyResponse(r),
         UNCHANGED <<EngineSide, ClientSide, podVars, hurt>>
  PROVE  DInv'
  <1> DEFINE s == (wire[r].header = "sse")
             t == S!Code(wire[r].header)
             h == [handler[r] EXCEPT !.pc = "copying", !.streamed = s, !.status = t]
  <1>1. Good(r) /\ TypeInv
    BY DEF DInv
  <1>2. /\ wire[r] \in WireType /\ handler[r] \in HandlerType /\ metric[r] \in MetricType
        /\ call[r] \in CallType
    BY <1>1, Typed, Zenon
  <1>3. /\ handler[r].pc = "proxying" /\ wire[r].header \notin {"none", "refused"}
        /\ job' = job /\ worker' = worker /\ left' = left /\ canceled' = canceled /\ hurt' = hurt
        /\ wire' = wire /\ metric' = metric /\ call' = call
    BY Zenon DEF S!ModifyResponse, EngineSide, ClientSide
  <1>4. s \in BOOLEAN /\ t \in Nat /\ (s => t = 200)
    BY DEF S!Code
  <1>5. handler' = [handler EXCEPT ![r] = h]
    BY <1>1, Zenon DEF S!ModifyResponse, TypeInv
  <1> HIDE DEF t, s
  <1>6. /\ h \in HandlerType /\ h.pc = "copying" /\ h.streamed = s /\ h.status = t
        /\ h.state = handler[r].state
    BY <1>2, <1>4, Zenon DEF HandlerType
  <1> HIDE DEF h
  <1>7. handler'[r] = h
    BY <1>1, <1>5, Zenon DEF TypeInv
  <1>8. handler[r].state = S!NewState /\ ~handler[r].streamed
    BY <1>1, <1>3, Zenon DEF Good, CopyInv, CInv, Accounted
  <1>9. Together(r)'
    <2>1. Underway(r)' = Underway(r)
      BY <1>3, <1>6, <1>7 DEF Underway
    <2>2. handler'[r].pc # "none"
      BY <1>6, <1>7, Zenon
    <2>3. QED
      BY <1>1, <1>3, <2>1, <2>2, Zenon DEF Good, Together
  <1>10. ClockInv(r)'
    BY <1>1, <1>3, Zenon DEF Good, ClockInv, First
  <1>11. BodyInv(r)'
    BY <1>1, <1>3, <1>6, <1>7, Zenon DEF Good, BodyInv, Underway, Holds, Saw
  <1>12. FirstInv(r)'
    BY <1>1, <1>3, <1>6, <1>7, Zenon DEF Good, FirstInv, Underway, Holds, First
  <1>13. CopyInv(r)'
    <2>1. h.state.readErr = None
      BY <1>6, <1>8 DEF S!NewState
    <2>2. s => wire[r].mode.stream
      BY <1>1, Zenon DEF s, Good, Together
    <2>3. QED
      BY <1>1, <1>3, <1>4, <1>6, <1>7, <2>1, <2>2, Zenon DEF Good, CopyInv, s
  <1>14. HurtInv(r)'
    BY <1>1, <1>3, <1>6, <1>7, Zenon DEF Good, HurtInv, Underway, Holds, Saw
  <1>15. BlameInv(r)'
    BY <1>1, <1>3, <1>6, <1>7, Zenon DEF Good, BlameInv
  <1>16. AgreeInv(r)'
    <2>1. h.state.tokens = 0 /\ h.state.sawDone = FALSE
      BY <1>6, <1>8 DEF S!NewState
    <2>2. ~left[r] => call[r].tokens = 0 /\ call[r].end = None
      BY <1>1, <1>3, Zenon DEF Good, AgreeInv
    <2>3. QED
      BY <1>3, <1>6, <1>7, <2>1, <2>2, NoneAssumption DEF AgreeInv, Saw
  <1>17. Good(r)'
    BY <1>9, <1>10, <1>11, <1>12, <1>13, <1>14, <1>15, <1>16, Zenon DEF Good
  <1>18. /\ wire' = [wire EXCEPT ![r] = wire[r]] /\ metric' = [metric EXCEPT ![r] = metric[r]]
         /\ call' = [call EXCEPT ![r] = call[r]]
    BY <1>1, <1>3 DEF TypeInv
  <1>19. QED
    BY <1>2, <1>3, <1>5, <1>6, <1>17, <1>18, OneCopy, Zenon

(* What the client makes of an event it has not closed its ears to.        *)
LEMMA HeardMeans ==
  ASSUME NEW c \in CallType, NEW doc \in Docs
  PROVE  LET d == L!Heard(c, doc)
         IN  /\ d \in CallType /\ d.verdict = c.verdict
             /\ c.end # None => d = c
             /\ c.end = None => /\ d.tokens = (IF doc = "token" THEN c.tokens + 1 ELSE c.tokens)
                                /\ d.end = (IF doc = "done" THEN "done" ELSE None)
  <1> DEFINE d == L!Heard(c, doc)
  <1>1. CASE c.end # None
    BY <1>1, Zenon DEF L!Heard
  <1>2. CASE c.end = None /\ doc = "token"
    <2>1. d = [c EXCEPT !.tokens = c.tokens + 1] /\ c.tokens + 1 \in Nat
      BY <1>2 DEF L!Heard, CallType
    <2>2. QED
      BY <1>2, <2>1, Zenon DEF CallType
  <1>3. CASE c.end = None /\ doc = "done"
    <2>1. d = [c EXCEPT !.end = "done"]
      BY <1>3, Zenon DEF L!Heard
    <2>2. QED
      BY <1>3, <2>1, Zenon DEF CallType
  <1>4. CASE c.end = None /\ doc \notin {"token", "done"}
    <2>1. d = c
      BY <1>4, Zenon DEF L!Heard
    <2>2. QED
      BY <1>4, <2>1, Zenon
  <1>5. QED
    BY <1>1, <1>2, <1>3, <1>4, Zenon

LEMMA OneEarlier ==
  ASSUME NEW n \in Nat, NEW i \in 1..(n - 1), NEW k \in 1..((i + 1) - 1), k # 1
  PROVE  k - 1 \in 1..(i - 1) /\ k - 1 \in 1..(n - 1) /\ (k - 1) + 1 = k
  OBVIOUS

(* One read of the copy loop.  What was the head of the body is now in the *)
(* handler's state and in the client's; the rest moves up by one.          *)
LEMMA CopyKeeps ==
  ASSUME DInv, NEW r \in Reqs, Copy(r)
  PROVE  DInv'
  <1> DEFINE b == wire[r].body
             e == Head(b)
             t == Tail(b)
             n == Len(b)
             w == [wire[r] EXCEPT !.body = t]
             h == handler[r]
             g == S!Observe(h, e)
             d == L!Heard(call[r], e.doc)
             c == IF left[r] THEN call[r] ELSE d
  <1>1. Good(r) /\ TypeInv
    BY Zenon DEF DInv
  <1>2. /\ wire[r] \in WireType /\ h \in HandlerType /\ metric[r] \in MetricType
        /\ call[r] \in CallType /\ left[r] \in BOOLEAN
    BY <1>1, Typed, Zenon
  <1>3. /\ h.pc = "copying" /\ b # << >> /\ e.doc \notin {"eof", "reset"}
        /\ job' = job /\ worker' = worker /\ left' = left /\ canceled' = canceled
        /\ hurt' = hurt /\ metric' = metric
    BY Zenon DEF Copy, S!CopyEvent, S!Readable, EngineSide
  <1>4. handler' = [handler EXCEPT ![r] = g] /\ wire' = [wire EXCEPT ![r].body = t]
    BY Zenon DEF Copy, S!CopyEvent
  <1>5. call' = [call EXCEPT ![r] = c]
    BY <1>1, HearMeans, Zenon DEF Copy
  <1>6. b \in BodyType
    BY <1>2, Zenon DEF WireType
  <1>7. /\ t \in BodyType /\ e = b[1] /\ e \in Event /\ n \in Nat \ {0} /\ DOMAIN b = 1..n
        /\ Len(t) = n - 1 /\ DOMAIN t = 1..(n - 1) /\ \A i \in 1..(n - 1) : t[i] = b[i + 1]
    BY <1>3, <1>6, TailBody, Zenon
  <1>8. e.doc \in Docs /\ e.at \in Nat
    BY <1>7, Zenon DEF Event
  <1> HIDE DEF t, e, n
  <1>9. /\ w \in WireType /\ w.body = t /\ w.header = wire[r].header
        /\ w.mode = wire[r].mode /\ w.open = wire[r].open
    BY <1>2, <1>7, WithBody, Zenon
  <1>10. wire' = [wire EXCEPT ![r] = w]
    BY <1>1, <1>4, Zenon DEF TypeInv
  <1>11. /\ g \in HandlerType /\ g.pc = h.pc /\ g.streamed = h.streamed /\ g.status = h.status
         /\ g.state.readErr = h.state.readErr
         /\ g.state.sawDone = (h.state.sawDone \/ (h.streamed /\ e.doc = "done"))
         /\ g.state.tokens = (IF h.streamed /\ e.doc = "token"
                              THEN h.state.tokens + 1 ELSE h.state.tokens)
         /\ g.state.ttft = (IF h.streamed /\ e.doc = "token" /\ h.state.ttft = None
                            THEN e.at ELSE h.state.ttft)
    <2>1. h \in HandlerType /\ e \in Event
      BY <1>2, <1>7, Zenon
    <2> HIDE DEF h
    <2>2. QED
      BY <2>1, Observed, Zenon
  <1>12. /\ d \in CallType /\ d.verdict = call[r].verdict
         /\ call[r].end # None => d = call[r]
         /\ call[r].end = None => /\ d.tokens = (IF e.doc = "token" THEN call[r].tokens + 1 ELSE call[r].tokens)
                                  /\ d.end = (IF e.doc = "done" THEN "done" ELSE None)
    BY <1>2, <1>8, HeardMeans, Zenon
  <1> HIDE DEF d, g, w
  <1>13. c \in CallType /\ c.verdict = call[r].verdict /\ (call[r].end # None => c = call[r])
    BY <1>2, <1>12, Zenon
  <1>14. /\ wire'[r] = w /\ handler'[r] = g /\ metric'[r] = metric[r] /\ job'[r] = job[r]
         /\ call'[r] = c
    BY <1>1, <1>3, <1>4, <1>5, <1>10, Zenon DEF TypeInv
  <1>15. ~left[r] => call'[r] = d
    BY <1>14
  <1> HIDE DEF c
  <1>16. Underway(r) /\ Underway(r)' /\ Underway(r)' = Underway(r)
    BY <1>3, <1>11, <1>14, Zenon DEF Underway
  <1>17. /\ wire[r].header \notin {"none", "refused"} /\ h.streamed = (wire[r].header = "sse")
         /\ e.doc \in {"token", "done"} => h.streamed
    <2>1. /\ wire[r].header \notin {"none", "refused"} /\ h.streamed = (wire[r].header = "sse")
      BY <1>1, <1>3, Zenon DEF Good, CopyInv
    <2>2. Holds(r, 1, {"token", "done", "reset"}) => wire[r].header \in {"sse", "refused"}
      BY <1>1, <1>7, <1>16 DEF Good, BodyInv
    <2>3. QED
      BY <1>7, <2>1, <2>2, Zenon DEF Holds
  <1>18. Saw(r)' = (Saw(r) \/ e.doc = "done") /\ Saw(r)' \in BOOLEAN
    BY <1>11, <1>14, <1>17, Zenon DEF Saw
  <1>19. \A i \in DOMAIN t : \A docs :
           /\ i + 1 \in DOMAIN b
           /\ Holds(r, i, docs)' = Holds(r, i + 1, docs)
    BY <1>7, <1>9, <1>14 DEF Holds
  <1>20. \A j \in DOMAIN b : j # 1 => j - 1 \in DOMAIN t /\ (j - 1) + 1 = j
    BY <1>7
  <1>21. \A docs : Holds(r, 1, docs) = (e.doc \in docs)
    BY <1>7, Zenon DEF Holds
  <1>22. DOMAIN wire'[r].body = DOMAIN t /\ Len(wire'[r].body) = n - 1 /\ 1 \in DOMAIN b
    BY <1>7, <1>9, <1>14
  <1>23. QED
    <2>1. Together(r)'
      <3>1. handler'[r].pc # "none" /\ handler[r].pc # "none"
        BY <1>3, <1>11, <1>14
      <3>2. wire'[r].header # "none"
        BY <1>9, <1>14, <1>17, Zenon
      <3>3. QED
        BY <1>1, <1>9, <1>14, <1>16, <3>1, <3>2, ZenonT(30) DEF Good, Together
    <2>2. ClockInv(r)'
      BY <1>1, <1>9, <1>14, Zenon DEF Good, ClockInv, First
    <2>3. BodyInv(r)'
      <3>1. /\ \A i \in DOMAIN b :
                 /\ Holds(r, i, {"eof", "reset"}) =>
                      i = n /\ job[r].pc \notin {"streaming", "answering", "returning"}
                 /\ Holds(r, i, {"token", "done", "reset"}) => wire[r].header \in {"sse", "refused"}
                 /\ Holds(r, i, {"done"}) => job[r].pc # "streaming" /\ ~Saw(r)
                 /\ Holds(r, i, {"token"}) => ~Saw(r)
                 /\ \A k \in DOMAIN b : (Holds(r, i, {"done"}) /\ k > i) => Holds(r, k, {"eof", "reset"})
            /\ Saw(r) => job[r].pc # "streaming"
        BY <1>1, <1>16, Zenon DEF Good, BodyInv, n
      <3>2. ASSUME NEW i \in DOMAIN t
            PROVE  /\ Holds(r, i, {"eof", "reset"})' =>
                        i = n - 1 /\ job[r].pc \notin {"streaming", "answering", "returning"}
                   /\ Holds(r, i, {"token", "done", "reset"})' => wire[r].header \in {"sse", "refused"}
                   /\ Holds(r, i, {"done"})' => job[r].pc # "streaming" /\ ~Saw(r)'
                   /\ Holds(r, i, {"token"})' => ~Saw(r)'
                   /\ \A k \in DOMAIN t : (Holds(r, i, {"done"})' /\ k > i) => Holds(r, k, {"eof", "reset"})'
        <4>1. i + 1 \in DOMAIN b /\ i \in Nat /\ i >= 1 /\ i + 1 > 1 /\ n \in Nat
          BY <1>7, <1>19
        <4>2. \A docs : Holds(r, i, docs)' = Holds(r, i + 1, docs)
          BY <1>19, Zenon
        <4>3. e.doc = "done" => Holds(r, i + 1, {"eof", "reset"})
          BY <1>21, <1>22, <3>1, <4>1, Zenon
        <4>4. Holds(r, i + 1, {"done"}) \/ Holds(r, i + 1, {"token"}) => ~Holds(r, i + 1, {"eof", "reset"})
          BY DEF Holds
        <4>5. ASSUME NEW k \in DOMAIN t, Holds(r, i, {"done"})', k > i
              PROVE  Holds(r, k, {"eof", "reset"})'
          <5>1. k + 1 \in DOMAIN b /\ k \in Nat /\ k + 1 > i + 1
            BY <1>7, <1>19, <4>1, <4>5
          <5>2. QED
            BY <1>19, <3>1, <4>1, <4>2, <4>5, <5>1, Zenon
        <4>6. Holds(r, i, {"eof", "reset"})' => i = n - 1 /\ job[r].pc \notin {"streaming", "answering", "returning"}
          BY <3>1, <4>1, <4>2
        <4>7. QED
          BY <1>18, <3>1, <4>1, <4>2, <4>3, <4>4, <4>5, <4>6, Zenon
      <3>3. Saw(r)' => job[r].pc # "streaming"
        BY <1>18, <1>21, <1>22, <3>1, Zenon
      <3> HIDE DEF Holds, Saw
      <3>4. QED
        BY <1>9, <1>14, <1>22, <3>2, <3>3, Zenon DEF BodyInv
    <2>4. FirstInv(r)'
      <3>1. /\ h.state.ttft \in {None, TTFT}
            /\ h.state.ttft = None <=> h.state.tokens = 0
            /\ \A i \in DOMAIN metric[r].ttft : metric[r].ttft[i] = TTFT /\ wire[r].mode.stream
            /\ \A i \in DOMAIN b :
                 (/\ Holds(r, i, {"token"}) /\ h.state.ttft = None
                  /\ \A k \in 1..(i - 1) : ~Holds(r, k, {"token"}))
                   => b[i].at = TTFT
            /\ (job[r].pc = "streaming" /\ job[r].next > First(r) /\ Tokens > 0) =>
                 \/ h.state.ttft # None
                 \/ \E i \in DOMAIN b : Holds(r, i, {"token"})
        BY <1>1, <1>16, Zenon DEF Good, FirstInv
      <3>2. h.state.tokens \in Nat /\ TTFT \in Nat /\ TTFT # None
        BY <1>2, DataPlaneAssumption, NoneAssumption, Zenon DEF HandlerType, StateType
      <3>3. (e.doc = "token" /\ h.state.ttft = None) => e.at = TTFT
        <4>1. SUFFICES ASSUME e.doc = "token", h.state.ttft = None PROVE e.at = TTFT
          OBVIOUS
        <4>2. Holds(r, 1, {"token"}) /\ b[1] = e
          BY <1>7, <1>21, <4>1, Zenon
        <4>3. \A k \in 1..(1 - 1) : ~Holds(r, k, {"token"})
          OBVIOUS
        <4>4. QED
          BY <1>22, <3>1, <4>1, <4>2, <4>3, Zenon
      <3>4. /\ g.state.ttft \in {None, TTFT}
            /\ g.state.ttft = None <=> g.state.tokens = 0
            /\ g.state.ttft = None => h.state.ttft = None /\ e.doc # "token"
        BY <1>11, <1>17, <3>1, <3>2, <3>3
      <3>5. ASSUME NEW i \in DOMAIN t, Holds(r, i, {"token"})', g.state.ttft = None,
                   \A k \in 1..(i - 1) : ~Holds(r, k, {"token"})'
            PROVE  t[i].at = TTFT
        <4>1. i + 1 \in DOMAIN b /\ i \in Nat /\ t[i] = b[i + 1]
          BY <1>7, <1>19
        <4>2. ASSUME NEW k \in 1..((i + 1) - 1) PROVE ~Holds(r, k, {"token"})
          <5>1. CASE k = 1
            BY <1>21, <3>4, <3>5, <5>1, Zenon
          <5>2. CASE k # 1
            <6>1. k - 1 \in 1..(i - 1) /\ k - 1 \in DOMAIN t /\ (k - 1) + 1 = k
              BY <1>7, <5>2, OneEarlier, Zenon
            <6>2. QED
              BY <1>19, <3>5, <6>1, Zenon
          <5>3. QED
            BY <5>1, <5>2, Zenon
        <4>3. Holds(r, i + 1, {"token"})
          BY <1>19, <3>5, Zenon
        <4>4. QED
          BY <3>1, <3>4, <3>5, <4>1, <4>2, <4>3, Zenon
      <3>6. (job[r].pc = "streaming" /\ job[r].next > First(r) /\ Tokens > 0) =>
              \/ g.state.ttft # None
              \/ \E i \in DOMAIN t : Holds(r, i, {"token"})'
        <4>1. SUFFICES ASSUME job[r].pc = "streaming", job[r].next > First(r), Tokens > 0,
                              g.state.ttft = None
                       PROVE  \E i \in DOMAIN t : Holds(r, i, {"token"})'
          BY Zenon
        <4>2. PICK j \in DOMAIN b : Holds(r, j, {"token"})
          BY <3>1, <3>4, <4>1, Zenon
        <4>3. j # 1
          BY <1>21, <3>4, <4>1, <4>2, Zenon
        <4>4. QED
          BY <1>19, <1>20, <4>2, <4>3
      <3>7. First(r)' = First(r)
        BY <1>9, <1>14 DEF First
      <3> HIDE DEF Holds, First
      <3>8. QED
        BY <1>9, <1>14, <1>22, <3>1, <3>4, <3>5, <3>6, <3>7, ZenonT(30) DEF FirstInv
    <2>5. CopyInv(r)'
      <3>1. h.state.readErr = None
        BY <1>1, <1>3, Zenon DEF Good, CopyInv
      <3>2. QED
        BY <1>1, <1>3, <1>9, <1>11, <1>14, <3>1, Zenon DEF Good, CopyInv
    <2>6. HurtInv(r)'
      <3>1. /\ r \in hurt =>
                 /\ wire[r].header = "sse" /\ ~Saw(r)
                 /\ \A i \in DOMAIN b : ~Holds(r, i, {"done", "eof"})
                 /\ Holds(r, n, {"reset"})
                 /\ job[r].pc = "gone"
            /\ \A i \in DOMAIN b :
                 Holds(r, i, {"reset"}) =>
                   r \in hurt \/ Saw(r) \/ \E k \in DOMAIN b : k < i /\ Holds(r, k, {"done"})
            /\ job[r].pc = "returning" => Saw(r) \/ \E k \in DOMAIN b : Holds(r, k, {"done"})
        BY <1>1, <1>16, <1>17, ZenonT(30) DEF Good, HurtInv, n
      <3>2. ASSUME r \in hurt
            PROVE  /\ ~Saw(r)' /\ t # << >> /\ \A i \in DOMAIN t : ~Holds(r, i, {"done", "eof"})'
                   /\ Holds(r, Len(wire[r].body), {"reset"})'
        <4>1. e.doc # "done"
          BY <1>21, <1>22, <3>1, <3>2, ZenonT(30)
        <4>2. n # 1
          BY <1>3, <1>21, <3>1, <3>2, Zenon
        <4>3. n - 1 \in DOMAIN t /\ (n - 1) + 1 = n
          BY <1>7, <4>2
        <4>4. t # << >>
          BY <4>3
        <4>5. Holds(r, Len(wire[r].body), {"reset"})'
          <5>1. t[n - 1] = b[n] /\ b[n].doc = "reset"
            BY <1>7, <3>1, <3>2, <4>3 DEF Holds
          <5>2. QED
            BY <1>9, <1>14, <1>22, <5>1, Zenon DEF Holds
        <4>6. QED
          BY <1>18, <1>19, <3>1, <3>2, <4>1, <4>4, <4>5, Zenon
      <3>3. ASSUME NEW j \in DOMAIN b, Holds(r, j, {"done"})
            PROVE  Saw(r)' \/ (j # 1 /\ j - 1 \in DOMAIN t /\ Holds(r, j - 1, {"done"})')
        <4>1. CASE j = 1
          BY <1>18, <1>21, <3>3, <4>1, Zenon
        <4>2. CASE j # 1
          BY <1>19, <1>20, <3>3, <4>2
        <4>3. QED
          BY <4>1, <4>2
      <3>4. ASSUME NEW i \in DOMAIN t, Holds(r, i, {"reset"})', r \notin hurt, ~Saw(r)'
            PROVE  \E k \in DOMAIN t : k < i /\ Holds(r, k, {"done"})'
        <4>1. i + 1 \in DOMAIN b /\ Holds(r, i + 1, {"reset"}) /\ i \in Nat
          BY <1>7, <1>19, <3>4
        <4>2. ~Saw(r)
          BY <1>18, <3>4, Zenon
        <4>3. PICK j \in DOMAIN b : j < i + 1 /\ Holds(r, j, {"done"})
          BY <3>1, <3>4, <4>1, <4>2, Zenon
        <4>4. j - 1 \in DOMAIN t /\ Holds(r, j - 1, {"done"})'
          BY <3>3, <3>4, <4>3, Zenon
        <4>5. j - 1 < i
          BY <1>7, <4>1, <4>3
        <4>6. QED
          BY <4>4, <4>5, Zenon
      <3>5. job[r].pc = "returning" => Saw(r)' \/ \E k \in DOMAIN t : Holds(r, k, {"done"})'
        BY <1>18, <3>1, <3>3, Zenon
      <3> HIDE DEF Holds, Saw
      <3>6. QED
        BY <1>3, <1>9, <1>14, <1>17, <1>22, <3>1, <3>2, <3>4, <3>5, Zenon DEF HurtInv
    <2>7. BlameInv(r)'
      BY <1>1, <1>3, <1>11, <1>14, Zenon DEF Good, BlameInv
    <2>8. AgreeInv(r)'
      <3>1. SUFFICES ASSUME ~left[r] PROVE AgreeInv(r)'
        BY <1>3 DEF AgreeInv
      <3>2. /\ call[r].tokens = h.state.tokens /\ (call[r].tokens > 0 => h.streamed)
            /\ (call[r].end = "done") = Saw(r) /\ call[r].end \in {None, "done"}
        <4>1. Saw(r) \in BOOLEAN
          BY <1>2 DEF Saw, HandlerType, StateType
        <4>2. QED
          BY <1>1, <1>3, <3>1, <4>1, Zenon DEF Good, AgreeInv
      <3>3. e.doc \in {"token", "done"} => ~Saw(r)
        BY <1>1, <1>16, <1>21, <1>22, Zenon DEF Good, BodyInv
      <3>4. None # "done" /\ h.state.tokens \in Nat
        BY <1>2, NoneAssumption, Zenon DEF HandlerType, StateType
      <3>5. /\ d.tokens = g.state.tokens /\ (d.tokens > 0 => h.streamed)
            /\ (d.end = "done") = Saw(r)' /\ d.end \in {None, "done"}
        <4>1. CASE call[r].end = None
          <5>1. /\ d.tokens = (IF e.doc = "token" THEN call[r].tokens + 1 ELSE call[r].tokens)
                /\ d.end = (IF e.doc = "done" THEN "done" ELSE None) /\ ~Saw(r)
            BY <1>12, <3>2, <3>4, <4>1, Zenon
          <5>2. g.state.tokens = (IF h.streamed /\ e.doc = "token"
                                  THEN h.state.tokens + 1 ELSE h.state.tokens)
            BY <1>11, Zenon
          <5>3. d.tokens = g.state.tokens /\ (d.tokens > 0 => h.streamed)
            <6>1. CASE e.doc = "token"
              <7>1. h.streamed
                BY <1>17, <6>1, Zenon
              <7>2. d.tokens = call[r].tokens + 1 /\ g.state.tokens = h.state.tokens + 1
                BY <5>1, <5>2, <6>1, <7>1
              <7>3. QED
                BY <3>2, <7>1, <7>2, Zenon
            <6>2. CASE e.doc # "token"
              BY <3>2, <5>1, <5>2, <6>2, Zenon
            <6>3. QED
              BY <6>1, <6>2
          <5>4. (d.end = "done") = Saw(r)' /\ d.end \in {None, "done"}
            BY <1>18, <3>4, <5>1, Zenon
          <5>5. QED
            BY <5>3, <5>4
        <4>2. CASE call[r].end = "done"
          BY <1>11, <1>12, <1>17, <1>18, <3>2, <3>3, <3>4, <4>2, Zenon
        <4>3. QED
          BY <3>2, <4>1, <4>2, Zenon
      <3> HIDE DEF Saw
      <3>6. QED
        BY <1>3, <1>11, <1>14, <1>15, <3>1, <3>5, Zenon DEF AgreeInv
    <2>9. Good(r)'
      BY <2>1, <2>2, <2>3, <2>4, <2>5, <2>6, <2>7, <2>8 DEF Good
    <2>10. h.pc # "none"
      BY <1>3
    <2>11. metric' = [metric EXCEPT ![r] = metric[r]]
      BY <1>1, <1>3, Zenon DEF TypeInv
    <2>12. QED
      BY <1>2, <1>3, <1>4, <1>5, <1>9, <1>10, <1>11, <1>13, <2>9, <2>10, <2>11, OneCopy, Zenon

(* The copy ends with handler state g: what must be known of g.            *)
LEMMA EndKeeps ==
  ASSUME DInv, NEW r \in Reqs, handler[r].pc = "copying",
         NEW g \in HandlerType, g.streamed = handler[r].streamed, g.status = handler[r].status,
         S!EndCopy(r, g), NEW end \in {"eof", "reset"}, Tell(r, end),
         UNCHANGED <<EngineSide, worker, ended, left, canceled, podVars, hurt>>,
         g.state.ttft \in {None, TTFT}, g.state.ttft = None <=> g.state.tokens = 0,
         ~left[r] => /\ g.state.tokens = handler[r].state.tokens
                     /\ g.state.sawDone = handler[r].state.sawDone
                     /\ end = "eof" => g.state.readErr = None,
         g.state.readErr = "canceled" => left[r],
         (g.streamed /\ ~g.state.sawDone /\ g.state.readErr = "broken") => r \in hurt,
         (r \in hurt /\ ~left[r]) => g.streamed /\ ~g.state.sawDone /\ g.state.readErr # None
  PROVE  DInv'
  <1> DEFINE w == [wire[r] EXCEPT !.open = FALSE, !.body = << >>]
             h == [g EXCEPT !.pc = "recording"]
  <1>1. Good(r) /\ TypeInv
    BY DEF DInv
  <1>2. /\ wire[r] \in WireType /\ metric[r] \in MetricType
        /\ call[r] \in CallType /\ left[r] \in BOOLEAN
    BY <1>1, Typed, Zenon
  <1>3. /\ job' = job /\ worker' = worker /\ left' = left /\ canceled' = canceled
        /\ hurt' = hurt /\ metric' = metric /\ handler' = [handler EXCEPT ![r] = h]
    BY Zenon DEF S!EndCopy, EngineSide
  <1>4. wire' = [wire EXCEPT ![r] = w]
    BY <1>1, Zenon DEF S!EndCopy, TypeInv
  <1>5. PICK c \in CallType :
           /\ call' = [call EXCEPT ![r] = c]
           /\ c.verdict = call[r].verdict /\ c.tokens = call[r].tokens
           /\ call[r].end # None => c = call[r]
           /\ left[r] => c = call[r]
           /\ (~left[r] /\ call[r].end = None) => c.end = end
    BY <1>1, TellMeans, Zenon
  <1>6. << >> \in BodyType /\ DOMAIN << >> = {}
    BY DEF BodyType
  <1>7. /\ w \in WireType /\ w.open = FALSE /\ w.header = wire[r].header /\ w.mode = wire[r].mode
        /\ w.body = << >>
    BY <1>2, <1>6, Zenon DEF WireType
  <1>8. /\ h \in HandlerType /\ h.pc = "recording" /\ h.streamed = g.streamed
        /\ h.state = g.state /\ h.status = g.status
    BY Zenon DEF HandlerType
  <1> HIDE DEF w, h
  <1>9. /\ wire'[r] = w /\ handler'[r] = h /\ metric'[r] = metric[r] /\ job'[r] = job[r]
        /\ call'[r] = c
    BY <1>1, <1>3, <1>4, <1>5, Zenon DEF TypeInv
  <1>10. ~Underway(r)'
    BY <1>8, <1>9, Zenon DEF Underway
  <1>11. wire[r].header \notin {"none", "refused"}
    BY <1>1, Zenon DEF Good, CopyInv
  <1>12. Together(r)'
    <2> DEFINE u == Underway(r)'
    <2>1. wire'[r].open = u
      <3>1. wire'[r].open = FALSE
        BY <1>7, <1>9, Zenon
      <3>2. ~u /\ u \in BOOLEAN
        BY <1>10 DEF Underway
      <3> HIDE DEF u
      <3>3. QED
        BY <3>1, <3>2, Zenon
    <2>2. /\ wire'[r].mode = wire[r].mode /\ wire'[r].header = wire[r].header
          /\ job'[r] = job[r] /\ handler'[r].pc # "none"
      BY <1>7, <1>8, <1>9, Zenon
    <2>3. QED
      BY <1>1, <1>11, <2>1, <2>2, Zenon DEF Good, Together
  <1>13. ClockInv(r)'
    BY <1>1, <1>7, <1>9, Zenon DEF Good, ClockInv, First
  <1>14. BodyInv(r)'
    BY <1>10, Zenon DEF BodyInv
  <1>15. FirstInv(r)'
    BY <1>1, <1>7, <1>8, <1>9, <1>10, Zenon DEF Good, FirstInv
  <1>16. CopyInv(r)'
    BY <1>1, <1>7, <1>8, <1>9, ZenonT(30) DEF Good, CopyInv
  <1>17. HurtInv(r)'
    BY <1>1, <1>3, <1>7, <1>9, <1>10, Zenon DEF Good, HurtInv
  <1>18. BlameInv(r)'
    BY <1>1, <1>3, <1>8, <1>9, ZenonT(30) DEF Good, BlameInv, Saw
  <1>19. AgreeInv(r)'
    <2>1. SUFFICES ASSUME ~left[r] PROVE AgreeInv(r)'
      BY <1>3, Zenon DEF AgreeInv
    <2>2. /\ call[r].tokens = handler[r].state.tokens
          /\ call[r].tokens > 0 => handler[r].streamed
          /\ call[r].end = "done" => handler[r].state.sawDone
          /\ handler[r].state.sawDone => call[r].end = "done"
          /\ call[r].end \in {None, "done"}
      BY <1>1, <2>1, Zenon DEF Good, AgreeInv, Saw
    <2>3. /\ c.tokens = g.state.tokens /\ (c.tokens > 0 => g.streamed)
          /\ c.end = "done" => g.state.sawDone
          /\ g.state.sawDone => c.end = "done"
          /\ c.end = "eof" => g.state.readErr = None
      BY <1>5, <2>1, <2>2, NoneAssumption, Zenon
    <2>4. QED
      BY <1>3, <1>8, <1>9, <2>1, <2>3, Zenon DEF AgreeInv, Saw
  <1>20. Good(r)'
    BY <1>12, <1>13, <1>14, <1>15, <1>16, <1>17, <1>18, <1>19, Zenon DEF Good
  <1>21. metric' = [metric EXCEPT ![r] = metric[r]]
    BY <1>1, <1>3, Zenon DEF TypeInv
  <1>22. QED
    BY <1>2, <1>3, <1>4, <1>5, <1>7, <1>8, <1>20, <1>21, OneCopy, Zenon

(* The first token a handler sees carries the first-token time.            *)
LEMMA SeesFirst ==
  ASSUME TypeInv, NEW r \in Reqs, Good(r), handler[r].pc = "copying", wire[r].body # << >>
  PROVE  LET g == S!Observe(handler[r], Head(wire[r].body))
         IN  g.state.ttft \in {None, TTFT} /\ (g.state.ttft = None <=> g.state.tokens = 0)
  <1> DEFINE b == wire[r].body
             e == Head(b)
             h == handler[r]
             g == S!Observe(h, e)
  <1>1. h \in HandlerType /\ b \in BodyType
    BY Typed, Zenon DEF WireType
  <1>2. e = b[1] /\ e \in Event /\ 1 \in DOMAIN b
    BY <1>1, TailBody
  <1>3. /\ h.state.ttft \in {None, TTFT}
        /\ h.state.ttft = None <=> h.state.tokens = 0
        /\ (/\ Holds(r, 1, {"token"}) /\ h.state.ttft = None
            /\ \A k \in 1..(1 - 1) : ~Holds(r, k, {"token"}))
             => b[1].at = TTFT
    BY <1>2, Zenon DEF Good, FirstInv, Underway
  <1>4. \A k \in 1..(1 - 1) : ~Holds(r, k, {"token"})
    OBVIOUS
  <1>5. (e.doc = "token" /\ h.state.ttft = None) => e.at = TTFT
    BY <1>2, <1>3, <1>4, Zenon DEF Holds
  <1>6. h.state.tokens \in Nat /\ TTFT \in Nat /\ TTFT # None
    BY <1>1, DataPlaneAssumption, NoneAssumption, Zenon DEF HandlerType, StateType
  <1> HIDE DEF h, e
  <1>7. /\ g.state.tokens = (IF h.streamed /\ e.doc = "token"
                             THEN h.state.tokens + 1 ELSE h.state.tokens)
        /\ g.state.ttft = (IF h.streamed /\ e.doc = "token" /\ h.state.ttft = None
                           THEN e.at ELSE h.state.ttft)
    BY <1>1, <1>2, Observed
  <1> HIDE DEF g
  <1>8. g.state.ttft \in {None, TTFT} /\ (g.state.ttft = None <=> g.state.tokens = 0)
    BY <1>3, <1>5, <1>6, <1>7
  <1>9. QED
    BY <1>8, Zenon DEF g, h, e

LEMMA Failed ==
  ASSUME NEW h \in HandlerType, NEW err \in {"broken", "canceled"}
  PROVE  LET g == [h EXCEPT !.state.readErr = err]
         IN  /\ g \in HandlerType /\ g.pc = h.pc /\ g.streamed = h.streamed /\ g.status = h.status
             /\ g.state.readErr = err /\ g.state.sawDone = h.state.sawDone
             /\ g.state.tokens = h.state.tokens /\ g.state.ttft = h.state.ttft
  <1> DEFINE u == [h.state EXCEPT !.readErr = err]
             g == [h EXCEPT !.state.readErr = err]
  <1>1. /\ u \in StateType /\ u.readErr = err /\ u.sawDone = h.state.sawDone
        /\ u.tokens = h.state.tokens /\ u.ttft = h.state.ttft
    BY Zenon DEF HandlerType, StateType
  <1>2. g = [h EXCEPT !.state = u]
    BY Zenon DEF HandlerType
  <1> HIDE DEF u, g
  <1>3. /\ g \in HandlerType /\ g.pc = h.pc /\ g.streamed = h.streamed /\ g.status = h.status
        /\ g.state = u
    BY <1>1, <1>2, Zenon DEF HandlerType
  <1>4. QED
    BY <1>1, <1>3, Zenon DEF g

LEMMA FinishKeeps ==
  ASSUME DInv, NEW r \in Reqs, FinishCopy(r)
  PROVE  DInv'
  <1> DEFINE b == wire[r].body
             e == Head(b)
             h == handler[r]
  <1>1. Good(r) /\ TypeInv /\ ClientInv
    BY Zenon DEF DInv
  <1>2. /\ h \in HandlerType /\ b \in BodyType /\ left[r] \in BOOLEAN
    BY <1>1, Typed, Zenon DEF WireType
  <1>3. UNCHANGED <<EngineSide, worker, ended, left, canceled, podVars, hurt>>
    BY Zenon DEF FinishCopy
  <1>4. h.pc = "copying"
    BY Zenon DEF FinishCopy, S!CopyReturns, S!CopyBreaks, S!CopyCanceled, S!WriteFails, S!Readable
  <1>5. /\ Underway(r) /\ wire[r].header \notin {"none", "refused"}
        /\ h.streamed = (wire[r].header = "sse") /\ h.state.readErr = None
        /\ h.state.ttft \in {None, TTFT} /\ (h.state.ttft = None <=> h.state.tokens = 0)
    BY <1>1, <1>4, Zenon DEF Good, CopyInv, FirstInv, Underway
  <1>6. b # << >> => e = b[1] /\ e \in Event /\ 1 \in DOMAIN b
    BY <1>2, TailBody
  <1>7. r \in hurt => h.streamed /\ ~h.state.sawDone /\ \A i \in DOMAIN b : ~Holds(r, i, {"done", "eof"})
    BY <1>1, <1>5, Zenon DEF Good, HurtInv, Saw
  <1>8. None \notin {"broken", "canceled"}
    BY NoneAssumption, Zenon
  <1>9. CASE S!CopyReturns(r) /\ Tell(r, "eof")
    <2> DEFINE g == S!AtEOF(h)
    <2>1. b # << >> /\ e.doc = "eof" /\ S!EndCopy(r, g)
      BY <1>9, Zenon DEF S!CopyReturns, S!Readable
    <2>2. /\ g \in HandlerType /\ g.streamed = h.streamed /\ g.status = h.status
          /\ g.state.readErr = h.state.readErr /\ g.state.sawDone = h.state.sawDone
          /\ g.state.tokens = h.state.tokens /\ g.state.ttft = h.state.ttft
      BY <1>2, AtEnd, Zenon
    <2>3. r \notin hurt
      BY <1>6, <1>7, <2>1, Zenon DEF Holds
    <2> HIDE DEF g
    <2>4. QED
      BY <1>3, <1>4, <1>5, <1>8, <1>9, <2>1, <2>2, <2>3, EndKeeps, Zenon
  <1>10. CASE S!CopyBreaks(r) /\ Tell(r, "reset")
    <2> DEFINE g == [h EXCEPT !.state.readErr = "broken"]
    <2>1. b # << >> /\ e.doc = "reset" /\ S!EndCopy(r, g)
      BY <1>10 DEF S!CopyBreaks, S!Readable
    <2>2. /\ g \in HandlerType /\ g.streamed = h.streamed /\ g.status = h.status
          /\ g.state.readErr = "broken" /\ g.state.sawDone = h.state.sawDone
          /\ g.state.tokens = h.state.tokens /\ g.state.ttft = h.state.ttft
      BY <1>2, Failed, Zenon
    <2>3. r \in hurt \/ h.state.sawDone
      <3>1. Holds(r, 1, {"reset"})
        BY <1>6, <2>1, Zenon DEF Holds
      <3>2. PICK k : r \in hurt \/ Saw(r) \/ (k \in DOMAIN b /\ k < 1)
        BY <1>1, <1>5, <1>6, <2>1, <3>1, Zenon DEF Good, HurtInv
      <3>3. DOMAIN b = 1..Len(b) /\ Len(b) \in Nat
        BY <1>2, <2>1, TailBody
      <3>4. QED
        BY <3>2, <3>3 DEF Saw
    <2> HIDE DEF g
    <2>4. QED
      BY <1>3, <1>4, <1>5, <1>7, <1>8, <1>10, <2>1, <2>2, <2>3, EndKeeps, ZenonT(30)
  <1>11. CASE S!CopyCanceled(r) /\ Tell(r, "reset")
    <2> DEFINE g == [h EXCEPT !.state.readErr = "canceled"]
    <2>1. canceled[r] /\ S!EndCopy(r, g)
      BY <1>11 DEF S!CopyCanceled
    <2>2. /\ g \in HandlerType /\ g.streamed = h.streamed /\ g.status = h.status
          /\ g.state.readErr = "canceled" /\ g.state.sawDone = h.state.sawDone
          /\ g.state.tokens = h.state.tokens /\ g.state.ttft = h.state.ttft
      BY <1>2, Failed, Zenon
    <2>3. left[r]
      BY <1>1, <2>1, Zenon DEF ClientInv
    <2> HIDE DEF g
    <2>4. QED
      BY <1>3, <1>4, <1>5, <1>11, <2>1, <2>2, <2>3, EndKeeps, Zenon
  <1>12. CASE S!WriteFails(r) /\ Tell(r, "reset")
    <2> DEFINE o == S!Observe(h, e)
    <2>1. b # << >> /\ left[r]
      BY <1>12, Zenon DEF S!WriteFails, S!Readable
    <2>2. S!EndCopy(r, o) \/ S!EndCopy(r, S!AtEOF(o))
      BY <1>12, Zenon DEF S!WriteFails
    <2>3. /\ o \in HandlerType /\ o.streamed = h.streamed /\ o.status = h.status
          /\ o.state.readErr = h.state.readErr
      BY <1>2, <1>6, <2>1, Observed, Zenon
    <2>4. o.state.ttft \in {None, TTFT} /\ (o.state.ttft = None <=> o.state.tokens = 0)
      BY <1>1, <1>4, <2>1, SeesFirst, Zenon
    <2> HIDE DEF o
    <2>5. PICK g \in {o, S!AtEOF(o)} : S!EndCopy(r, g)
      BY <2>2
    <2>6. /\ g \in HandlerType /\ g.streamed = h.streamed /\ g.status = h.status
          /\ g.state.readErr = h.state.readErr
          /\ g.state.ttft \in {None, TTFT} /\ (g.state.ttft = None <=> g.state.tokens = 0)
      BY <2>3, <2>4, AtEnd
    <2>7. QED
      BY <1>3, <1>4, <1>5, <1>8, <1>12, <2>1, <2>5, <2>6, EndKeeps, Zenon
  <1>13. QED
    BY <1>9, <1>10, <1>11, <1>12, Zenon DEF FinishCopy

(* What the deferred recording adds to the collectors.                     *)
LEMMA RecordedMeans ==
  ASSUME NEW m \in MetricType, NEW h \in HandlerType
  PROVE  LET n == S!Recorded(m, h)
         IN  /\ n \in MetricType /\ n.codes = Append(m.codes, h.status) /\ n.errors = m.errors
             /\ n.chunks = (IF h.streamed THEN m.chunks + h.state.tokens ELSE m.chunks)
             /\ n.ttft = (IF h.streamed /\ h.state.ttft # None
                          THEN Append(m.ttft, h.state.ttft) ELSE m.ttft)
  <1> DEFINE k == IF S!ReportsUsage(h) THEN m.usage + 1 ELSE m.usage
             j == IF h.streamed THEN m.chunks + h.state.tokens ELSE m.chunks
             t == IF h.streamed /\ h.state.ttft # None THEN Append(m.ttft, h.state.ttft) ELSE m.ttft
             a == Append(m.codes, h.status)
             n == S!Recorded(m, h)
  <1>1. h.state \in StateType /\ h.status \in Nat
    BY Zenon DEF HandlerType
  <1>2. /\ m.usage \in Nat /\ m.chunks \in Nat /\ m.codes \in Seq(Nat) /\ m.ttft \in Seq(Nat)
        /\ h.state.tokens \in Nat /\ h.state.ttft \in Nat \cup {None}
    BY <1>1, Zenon DEF MetricType, StateType
  <1>3. k \in Nat /\ j \in Nat
    BY <1>2
  <1>4. t \in Seq(Nat) /\ a \in Seq(Nat)
    BY <1>1, <1>2
  <1>5. n = [m EXCEPT !.codes = a, !.usage = k, !.chunks = j, !.ttft = t]
    BY Zenon DEF S!Recorded
  <1> HIDE DEF k, j, t, a, n
  <1>6. /\ n \in MetricType /\ n.codes = a /\ n.errors = m.errors /\ n.chunks = j /\ n.ttft = t
    BY <1>3, <1>4, <1>5, Zenon DEF MetricType
  <1>7. QED
    BY <1>6, Zenon DEF n, j, t, a

LEMMA OutcomeMeans ==
  ASSUME NEW m \in MetricType, NEW h, NEW cc \in BOOLEAN
  PROVE  LET n == S!StreamOutcome(m, h, cc)
             quiet == ~h.streamed \/ h.state.sawDone \/ h.state.readErr = None
             x == IF h.state.readErr = "canceled" \/ cc THEN "client_canceled" ELSE "stream_aborted"
         IN  /\ n \in MetricType /\ n.codes = m.codes /\ n.chunks = m.chunks /\ n.ttft = m.ttft
             /\ quiet => n.errors = m.errors
             /\ ~quiet => n.errors = Append(m.errors, x)
  <1> DEFINE n == S!StreamOutcome(m, h, cc)
             quiet == ~h.streamed \/ h.state.sawDone \/ h.state.readErr = None
             x == IF h.state.readErr = "canceled" \/ cc THEN "client_canceled" ELSE "stream_aborted"
  <1>1. CASE quiet
    BY <1>1, Zenon DEF S!StreamOutcome
  <1>2. CASE ~quiet
    <2>1. n = S!UpstreamError(m, x)
      BY <1>2, Zenon DEF S!StreamOutcome
    <2>2. x \in {"client_canceled", "unreachable", "stream_aborted"}
      BY Zenon
    <2> HIDE DEF x, n, quiet
    <2>3. /\ n \in MetricType /\ n.errors = Append(m.errors, x) /\ n.ttft = m.ttft
          /\ n.chunks = m.chunks /\ n.codes = m.codes
      BY <2>1, <2>2, Errored, Zenon
    <2>4. QED
      BY <1>2, <2>3, Zenon DEF x, n, quiet
  <1>3. QED
    BY <1>1, <1>2, Zenon

LEMMA GoneMeans ==
  ASSUME NEW h \in HandlerType, NEW pc \in {"ended", "killed"}
  PROVE  LET g == S!Gone(h, pc)
         IN  /\ g \in HandlerType /\ g.pc = pc
             /\ g.state.ttft = None /\ g.state.tokens = 0
  <1>1. S!NewState \in StateType /\ S!NewState.ttft = None /\ S!NewState.tokens = 0
    BY DEF S!NewState, StateType
  <1>2. h.status \in Nat
    BY Zenon DEF HandlerType
  <1>3. S!NoHandler \in HandlerType /\ S!NoHandler.state = S!NewState
    BY <1>1 DEF S!NoHandler, HandlerType
  <1>4. S!Gone(h, pc) = [S!NoHandler EXCEPT !.pc = pc, !.status = h.status]
    BY Zenon DEF S!Gone
  <1>5. QED
    BY <1>1, <1>2, <1>3, <1>4, Zenon DEF HandlerType

LEMMA RecordKeeps ==
  ASSUME DInv, CInv, NEW r \in Reqs, S!Record(r),
         UNCHANGED <<EngineSide, ClientSide, podVars, hurt>>
  PROVE  DInv'
  <1> DEFINE h == handler[r]
             g == S!Gone(h, "ended")
             a == S!Recorded(metric[r], h)
             m == S!StreamOutcome(a, h, canceled[r])
             quiet == ~h.streamed \/ h.state.sawDone \/ h.state.readErr = None
             x == IF h.state.readErr = "canceled" \/ canceled[r] THEN "client_canceled" ELSE "stream_aborted"
  <1>1. Good(r) /\ TypeInv /\ ClientInv
    BY DEF DInv
  <1>2. /\ wire[r] \in WireType /\ h \in HandlerType /\ metric[r] \in MetricType
        /\ call[r] \in CallType /\ canceled[r] \in BOOLEAN /\ left[r] \in BOOLEAN
    BY <1>1, Typed, Zenon
  <1>3. /\ h.pc = "recording"
        /\ job' = job /\ worker' = worker /\ left' = left /\ canceled' = canceled /\ hurt' = hurt
        /\ wire' = wire /\ call' = call
        /\ handler' = [handler EXCEPT ![r] = g] /\ metric' = [metric EXCEPT ![r] = m]
    BY Zenon DEF S!Record, EngineSide, ClientSide
  <1>4. /\ g \in HandlerType /\ g.pc = "ended" /\ g.state.ttft = None /\ g.state.tokens = 0
    BY <1>2, GoneMeans, Zenon
  <1>5. /\ a \in MetricType /\ a.codes = Append(metric[r].codes, h.status) /\ a.errors = metric[r].errors
        /\ a.chunks = (IF h.streamed THEN metric[r].chunks + h.state.tokens ELSE metric[r].chunks)
        /\ a.ttft = (IF h.streamed /\ h.state.ttft # None
                     THEN Append(metric[r].ttft, h.state.ttft) ELSE metric[r].ttft)
    BY <1>2, RecordedMeans, Zenon
  <1> HIDE DEF a, g
  <1>6. /\ m \in MetricType /\ m.codes = a.codes /\ m.chunks = a.chunks /\ m.ttft = a.ttft
        /\ quiet => m.errors = a.errors
        /\ ~quiet => m.errors = Append(a.errors, x)
    BY <1>2, <1>5, OutcomeMeans, Zenon
  <1> HIDE DEF m, x
  <1>7. /\ wire'[r] = wire[r] /\ handler'[r] = g /\ metric'[r] = m /\ job'[r] = job[r]
        /\ call'[r] = call[r]
    BY <1>1, <1>3, Zenon DEF TypeInv
  <1>8. /\ metric[r].codes = << >> /\ metric[r].ttft = << >> /\ metric[r].chunks = 0
        /\ h.streamed => /\ metric[r].errors = << >> /\ h.status = 200 /\ wire[r].mode.stream
    BY <1>1, <1>3, Zenon DEF Good, CopyInv, CInv, Accounted
  <1>9. /\ h.state.ttft \in {None, TTFT} /\ (h.state.ttft = None <=> h.state.tokens = 0)
        /\ h.state.tokens \in Nat
    BY <1>1, <1>2, Zenon DEF Good, FirstInv, HandlerType, StateType
  <1>10. ~quiet => m.errors = <<x>>
    <2>1. ~quiet => a.errors = << >>
      BY <1>5, <1>8
    <2>2. Append(<< >>, x) = <<x>>
      OBVIOUS
    <2>3. QED
      BY <1>6, <2>1, <2>2, Zenon
  <1>11. ~Underway(r) /\ ~Underway(r)'
    BY <1>3, <1>4, <1>7, Zenon DEF Underway
  <1>12. Together(r)'
    <2>1. Underway(r)' = Underway(r)
      BY <1>3, <1>4, <1>7 DEF Underway
    <2>2. handler'[r].pc # "none" /\ handler[r].pc # "none"
      BY <1>3, <1>4, <1>7
    <2>3. QED
      BY <1>1, <1>7, <2>1, <2>2, Zenon DEF Good, Together
  <1>13. ClockInv(r)'
    BY <1>1, <1>7, Zenon DEF Good, ClockInv, First
  <1>14. BodyInv(r)'
    BY <1>11, Zenon DEF BodyInv
  <1>15. FirstInv(r)'
    <2>1. \A i \in DOMAIN m.ttft : m.ttft[i] = TTFT /\ wire[r].mode.stream
      <3>1. CASE h.streamed /\ h.state.ttft # None
        <4>1. m.ttft = <<TTFT>>
          BY <1>5, <1>6, <1>8, <1>9, <3>1
        <4>2. QED
          BY <1>8, <3>1, <4>1
      <3>2. CASE ~(h.streamed /\ h.state.ttft # None)
        BY <1>5, <1>6, <1>8, <3>2
      <3>3. QED
        BY <3>1, <3>2
    <2>2. QED
      BY <1>4, <1>7, <1>11, <2>1, Zenon DEF FirstInv
  <1>16. CopyInv(r)'
    BY <1>4, <1>7 DEF CopyInv
  <1>17. HurtInv(r)'
    BY <1>1, <1>3, <1>7, <1>11, Zenon DEF Good, HurtInv
  <1>18. BlameInv(r)'
    <2>1. /\ \A i \in DOMAIN metric[r].errors :
               IF metric[r].errors[i] = "client_canceled" THEN left[r] ELSE r \in hurt
          /\ h.state.readErr = "canceled" => left[r]
          /\ (h.streamed /\ ~h.state.sawDone /\ h.state.readErr = "broken") => r \in hurt
          /\ (r \in hurt /\ ~left[r]) =>
               metric[r].errors # << >> \/ (h.streamed /\ ~h.state.sawDone /\ h.state.readErr # None)
      BY <1>1, <1>3, Zenon DEF Good, BlameInv, Saw
    <2>2. ASSUME ~quiet
          PROVE  /\ DOMAIN m.errors = {1} /\ m.errors[1] = x /\ m.errors # << >>
                 /\ IF x = "client_canceled" THEN left[r] ELSE r \in hurt
      <3>1. DOMAIN m.errors = {1} /\ m.errors[1] = x /\ m.errors # << >>
        BY <1>10, <2>2
      <3>2. h.state.readErr \in {None, "broken", "canceled"}
        BY <1>2 DEF HandlerType, StateType
      <3>3. canceled[r] => left[r]
        BY <1>1, Zenon DEF ClientInv
      <3>4. IF x = "client_canceled" THEN left[r] ELSE r \in hurt
        BY <2>1, <2>2, <3>2, <3>3, Zenon DEF x
      <3>5. QED
        BY <3>1, <3>4, Zenon
    <2>3. \A i \in DOMAIN m.errors : IF m.errors[i] = "client_canceled" THEN left[r] ELSE r \in hurt
      BY <1>5, <1>6, <2>1, <2>2, ZenonT(30)
    <2>4. (r \in hurt /\ ~left[r]) => m.errors # << >>
      BY <1>5, <1>6, <2>1, <2>2, Zenon
    <2>5. QED
      BY <1>3, <1>4, <1>7, <2>3, <2>4, ZenonT(30) DEF BlameInv
  <1>19. AgreeInv(r)'
    <2>1. SUFFICES ASSUME ~left[r], call[r].tokens > 0, call[r].end \in {"done", "eof"}
                   PROVE  /\ m.codes = <<200>> /\ m.errors = << >>
                          /\ m.chunks = call[r].tokens /\ Len(m.ttft) = 1
      BY <1>3, <1>4, <1>7, ZenonT(30) DEF AgreeInv
    <2>2. /\ call[r].tokens = h.state.tokens /\ h.streamed
          /\ call[r].end = "done" => h.state.sawDone
          /\ call[r].end = "eof" => h.state.readErr = None
      BY <1>1, <1>3, <2>1, Zenon DEF Good, AgreeInv, Saw
    <2>3. quiet
      BY <2>1, <2>2
    <2>4. m.errors = << >>
      BY <1>5, <1>6, <1>8, <2>2, <2>3, Zenon
    <2>5. m.codes = <<200>>
      BY <1>5, <1>6, <1>8, <2>2
    <2>6. m.chunks = call[r].tokens
      BY <1>5, <1>6, <1>8, <1>9, <2>2
    <2>7. h.state.ttft # None
      BY <1>9, <2>1, <2>2
    <2>8. m.ttft = Append(<< >>, h.state.ttft)
      BY <1>5, <1>6, <1>8, <2>2, <2>7
    <2>9. QED
      BY <2>4, <2>5, <2>6, <2>8
  <1>20. Good(r)'
    BY <1>12, <1>13, <1>14, <1>15, <1>16, <1>17, <1>18, <1>19 DEF Good
  <1>21. wire' = [wire EXCEPT ![r] = wire[r]] /\ call' = [call EXCEPT ![r] = call[r]]
    BY <1>1, <1>3 DEF TypeInv
  <1>22. QED
    BY <1>2, <1>3, <1>4, <1>6, <1>20, <1>21, OneCopy, Zenon

-----------------------------------------------------------------------------
(* The shim exits: what it was still doing is cut off.                     *)
LEMMA StopShimKeeps ==
  ASSUME DInv, StopShim
  PROVE  DInv'
  <1>1. /\ handler' = [o \in Reqs |-> IF S!Busy(o) THEN S!Gone(handler[o], "killed") ELSE handler[o]]
        /\ wire' = [o \in Reqs |-> [wire[o] EXCEPT !.open = FALSE]]
        /\ call' = [o \in Reqs |-> IF S!Busy(o) /\ ~left[o] /\ call[o].end = None
                                   THEN [call[o] EXCEPT !.end = "reset"] ELSE call[o]]
        /\ job' = job /\ metric' = metric /\ worker' = worker /\ left' = left
        /\ canceled' = canceled /\ hurt' = hurt
    BY Zenon DEF StopShim, S!Stop, EngineSide
  <1>2. TypeInv /\ ClientInv
    BY Zenon DEF DInv
  <1>3. ASSUME NEW r \in Reqs
        PROVE  /\ Good(r)' /\ handler'[r] \in HandlerType /\ wire'[r] \in WireType /\ call'[r] \in CallType
               /\ call'[r].verdict = call[r].verdict
               /\ call[r].end # None => call'[r] = call[r]
               /\ handler[r].pc = "none" => handler'[r].pc = "none"
    <2>1. /\ Good(r) /\ wire[r] \in WireType /\ handler[r] \in HandlerType /\ call[r] \in CallType
      BY <1>2, Typed, Zenon DEF DInv
    <2>2. /\ wire'[r] \in WireType /\ wire'[r].open = FALSE /\ wire'[r].header = wire[r].header
          /\ wire'[r].mode = wire[r].mode /\ wire'[r].body = wire[r].body
          /\ wire[r].open = FALSE => wire'[r] = wire[r]
      <3>1. wire'[r] = [wire[r] EXCEPT !.open = FALSE]
        BY <1>1, Zenon
      <3>2. QED
        BY <2>1, <3>1, Zenon DEF WireType
    <2>3. /\ call'[r] \in CallType /\ call'[r].verdict = call[r].verdict
          /\ call[r].end # None => call'[r] = call[r]
          /\ ~S!Busy(r) => call'[r] = call[r]
      <3>1. CASE S!Busy(r) /\ ~left[r] /\ call[r].end = None
        <4>1. call'[r] = [call[r] EXCEPT !.end = "reset"]
          BY <1>1, <3>1, Zenon
        <4>2. QED
          BY <2>1, <3>1, <4>1, Zenon DEF CallType
      <3>2. CASE ~(S!Busy(r) /\ ~left[r] /\ call[r].end = None)
        <4>1. call'[r] = call[r]
          BY <1>1, <3>2, Zenon
        <4>2. QED
          BY <2>1, <4>1, Zenon
      <3>3. QED
        BY <3>1, <3>2, Zenon
    <2>4. CASE ~S!Busy(r)
      <3>1. handler'[r] = handler[r] /\ handler[r].pc \in {"none", "ended", "killed"}
        BY <1>1, <2>4 DEF S!Busy
      <3>2. wire[r].open = FALSE
        <4>1. wire[r].open \in BOOLEAN /\ ~Underway(r)
          BY <2>1, <3>1, Zenon DEF WireType, Underway
        <4>2. QED
          BY <2>1, <4>1, Zenon DEF Good, Together
      <3>3. Untouched(r)
        BY <1>1, <2>2, <2>3, <2>4, <3>1, <3>2, Zenon DEF Untouched
      <3>4. QED
        BY <2>1, <2>2, <2>3, <3>1, <3>3, UntouchedStaysGood, Zenon
    <2>5. CASE S!Busy(r)
      <3> DEFINE g == S!Gone(handler[r], "killed")
      <3>1. handler'[r] = g /\ handler[r].pc \notin {"none", "ended", "killed"}
        BY <1>1, <2>5 DEF S!Busy
      <3>2. /\ g \in HandlerType /\ g.pc = "killed" /\ g.state.ttft = None /\ g.state.tokens = 0
        BY <2>1, GoneMeans, Zenon
      <3> HIDE DEF g
      <3>3. ~Underway(r)'
        BY <3>1, <3>2, Zenon DEF Underway
      <3>4. Together(r)'
        <4> DEFINE u == Underway(r)'
        <4>1. wire'[r].open = u
          <5>1. ~u /\ u \in BOOLEAN
            BY <3>3 DEF Underway
          <5> HIDE DEF u
          <5>2. QED
            BY <2>2, <5>1, Zenon
        <4>2. handler'[r].pc # "none"
          BY <3>1, <3>2, Zenon
        <4>3. QED
          BY <1>1, <2>1, <2>2, <3>1, <4>1, <4>2, Zenon DEF Good, Together
      <3>5. ClockInv(r)'
        BY <1>1, <2>1, <2>2, Zenon DEF Good, ClockInv, First
      <3>6. BodyInv(r)'
        BY <3>3 DEF BodyInv
      <3>7. FirstInv(r)'
        BY <1>1, <2>1, <2>2, <3>1, <3>2, <3>3, Zenon DEF Good, FirstInv
      <3>8. CopyInv(r)'
        BY <1>1, <2>1, <3>1, <3>2 DEF Good, CopyInv
      <3>9. HurtInv(r)'
        BY <1>1, <2>1, <2>2, <3>3, Zenon DEF Good, HurtInv
      <3>10. BlameInv(r)' /\ AgreeInv(r)'
        BY <1>1, <2>1, <3>1, <3>2 DEF Good, BlameInv, AgreeInv
      <3>11. QED
        BY <2>2, <2>3, <3>1, <3>2, <3>4, <3>5, <3>6, <3>7, <3>8, <3>9, <3>10, Zenon DEF Good
    <2>6. QED
      BY <2>4, <2>5, Zenon
  <1>4. TypeInv'
    BY <1>1, <1>2, <1>3, Zenon DEF TypeInv
  <1>5. ClientInv'
    <2>1. ASSUME NEW r \in Reqs PROVE call[r].verdict = "ok" => call'[r] = call[r]
      BY <1>2, <1>3, NoneAssumption, Zenon DEF ClientInv
    <2>2. ASSUME NEW v \in Workers, NEW o \in Reqs, worker'[v] = o
          PROVE  /\ call'[o].verdict = "open" /\ ~left'[o]
                 /\ \A u \in Workers : worker'[u] = o => u = v
      BY <1>1, <1>2, <1>3, <2>2 DEF ClientInv
    <2>3. ASSUME NEW o \in Reqs
          PROVE  /\ canceled'[o] => left'[o]
                 /\ call'[o].verdict = "ok" =>
                      ~left'[o] /\ call'[o].tokens > 0 /\ call'[o].end \in {"done", "eof"}
                 /\ call'[o].verdict = "none" => handler'[o].pc = "none" /\ ~left'[o]
      <3>1. /\ call'[o].verdict = call[o].verdict
            /\ handler[o].pc = "none" => handler'[o].pc = "none"
            /\ call[o].verdict = "ok" => call'[o] = call[o]
        BY <1>3, <2>1, Zenon
      <3>2. left'[o] = left[o] /\ canceled'[o] = canceled[o]
        BY <1>1, Zenon
      <3>3. QED
        BY <1>2, <3>1, <3>2 DEF ClientInv
    <2>4. QED
      BY <2>2, <2>3, Zenon DEF ClientInv
  <1>6. QED
    BY <1>3, <1>4, <1>5, EachRequest, Zenon

-----------------------------------------------------------------------------
LEMMA StepGood ==
  ASSUME DInv, CInv, [Next]_vars
  PROVE  DInv'
  <1> USE DEF EngineSide, ShimSide, ClientSide
  <1>1. CASE UNCHANGED vars
    BY <1>1, NothingKeeps DEF vars
  <1>2. CASE StartShim
    BY <1>2, NothingKeeps, Zenon DEF StartShim, S!Listen
  <1>3. CASE StartEngine
    BY <1>3, NothingKeeps, Zenon DEF StartEngine, E!StartEngine
  <1>4. CASE Probe
    BY <1>4, NothingKeeps, Zenon DEF Probe
  <1>5. CASE Delete
    BY <1>5, NothingKeeps, Zenon DEF Delete
  <1>6. CASE EngineDies
    BY <1>6, EngineDiesKeeps, Zenon
  <1>7. CASE DrainShim
    BY <1>7, NothingKeeps, Zenon DEF DrainShim, S!Drain
  <1>8. CASE E!Load /\ UNCHANGED <<ShimSide, ClientSide, podVars, hurt>>
    BY <1>8, NothingKeeps, Zenon DEF E!Load
  <1>9. ASSUME NEW w \in Workers, NEW r \in Reqs, NEW mode, mode \in Modes[r], Send(w, r, mode)
        PROVE  DInv'
    BY <1>9, SendStaysGood, Zenon
  <1>10. ASSUME NEW r \in Reqs, EngineStep(r) PROVE DInv'
    BY <1>10, EngineStepKeeps, Zenon
  <1>11. ASSUME NEW r \in Reqs, Refuse(r) PROVE DInv'
    BY <1>11, RefuseKeeps, Zenon
  <1>12. ASSUME NEW r \in Reqs, Copy(r) PROVE DInv'
    BY <1>12, CopyKeeps, Zenon
  <1>13. ASSUME NEW r \in Reqs, FinishCopy(r) PROVE DInv'
    BY <1>13, FinishKeeps, Zenon
  <1>14. ASSUME NEW r \in Reqs, ShimStep(r) PROVE DInv'
    BY <1>14, ModifyKeeps, RecordKeeps, Zenon DEF ShimStep
  <1>15. CASE StopShim
    BY <1>15, StopShimKeeps, Zenon
  <1>16. CASE ClientStep
    BY <1>16, ClientStepKeeps, Zenon
  <1>17. QED
    BY <1>1, <1>2, <1>3, <1>4, <1>5, <1>6, <1>7, <1>8, <1>9, <1>10, <1>11, <1>12,
       <1>13, <1>14, <1>15, <1>16, Zenon DEF Next

LEMMA AlwaysGood == Spec => [](CInv /\ DInv)
  BY AlwaysAccounted, InitGood, StepGood, PTL DEF Spec

(* Blame falls where it belongs: an upstream error is laid at the engine's *)
(* door only for a request whose engine was down or died before it had     *)
(* answered, and at the client's only when it had left; and every such     *)
(* request whose client waited is counted (proxy.go:215-237, 370-384).     *)
THEOREM BlameAlwaysDeserved == Spec => []BlameIsDeserved
  <1>1. DInv => BlameIsDeserved
    BY Zenon DEF DInv, TypeInv, Good, BlameInv, BlameIsDeserved
  <1>2. QED
    BY <1>1, AlwaysGood, PTL

(* Every first-token time in the histogram is the engine's own, whichever  *)
(* endpoint was used, and a complete answer takes the same time streamed   *)
(* or not (server.go:545-548, 659-670).                                    *)
THEOREM LatencyAlwaysComparable == Spec => []LatencyComparable
  <1>1. DInv => LatencyComparable
    BY Zenon DEF DInv, Good, FirstInv, ClockInv, LatencyComparable
  <1>2. QED
    BY <1>1, AlwaysGood, PTL

(* What a client calls a success the shim has recorded as one, with the    *)
(* same number of tokens (main.go:29-39 of loadgen).                       *)
THEOREM ClientAndShimAlwaysAgree == Spec => []ClientAndShimAgree
  <1>1. DInv => ClientAndShimAgree
    BY Zenon DEF DInv, ClientInv, Good, AgreeInv, ClientAndShimAgree
  <1>2. QED
    BY <1>1, AlwaysGood, PTL

-----------------------------------------------------------------------------
(* The gauge follows the set of running handlers.                          *)
F == INSTANCE FiniteSetTheorems

LEMMA SameSize ==
  ASSUME NEW A
  PROVE  F!Cardinality(A) = Cardinality(A) /\ (F!IsFiniteSet(A) <=> IsFiniteSet(A))
  <1>1. F!Cardinality(A) = Cardinality(A)
    BY Zenon DEF F!Cardinality, Cardinality
  <1>2. F!IsFiniteSet(A) <=> IsFiniteSet(A)
    BY Zenon DEF F!IsFiniteSet, IsFiniteSet
  <1>3. QED
    BY <1>1, <1>2

LEMMA HandlingFinite == Handling \in SUBSET Reqs /\ IsFiniteSet(Handling)
  <1>1. Handling \in SUBSET Reqs
    BY Zenon DEF Handling
  <1>2. QED
    BY <1>1, DataPlaneAssumption, SameSize, F!FS_Subset

LEMMA GaugeUp ==
  ASSUME GInv, NEW r \in Reqs, handler[r].pc = "none", handler'[r].pc = "proxying",
         \A o \in Reqs \ {r} : handler'[o] = handler[o],
         shim # "stopped", live' = live + 1
  PROVE  GInv'
  <1>1. Handling' = Handling \cup {r} /\ r \notin Handling
    BY Zenon DEF Handling, S!Busy
  <1>2. Cardinality(Handling') = Cardinality(Handling) + 1
    BY <1>1, HandlingFinite, SameSize, F!FS_AddElement
  <1>3. QED
    BY <1>2 DEF GInv

LEMMA GaugeDown ==
  ASSUME GInv, NEW r \in Reqs, handler[r].pc = "recording", handler'[r].pc = "ended",
         \A o \in Reqs \ {r} : handler'[o] = handler[o],
         shim' = shim, live' = live - 1
  PROVE  GInv'
  <1>1. Handling' = Handling \ {r} /\ r \in Handling
    BY Zenon DEF Handling, S!Busy
  <1>2. Cardinality(Handling') = Cardinality(Handling) - 1
    BY <1>1, HandlingFinite, SameSize, F!FS_RemoveElement
  <1>3. QED
    BY <1>2 DEF GInv

LEMMA GaugeStays ==
  ASSUME GInv, NEW r \in Reqs, Runs(r), Runs(r)',
         \A o \in Reqs \ {r} : handler'[o] = handler[o],
         shim' = shim, live' = live
  PROVE  GInv'
  <1>1. Handling' = Handling
    BY Zenon DEF Handling, S!Busy, Runs
  <1>2. QED
    BY <1>1, Zenon DEF GInv

-----------------------------------------------------------------------------
(* Both invariants together, over every step of the pod.                   *)
IInv == CInv /\ GInv

LEMMA InitIInv == Init => IInv
  <1> SUFFICES ASSUME Init PROVE IInv
    BY Zenon
  <1>1. /\ live = 0
        /\ handler = [r \in Reqs |-> S!NoHandler]
        /\ metric = [r \in Reqs |-> S!NoMetric]
    BY Zenon DEF Init, S!ShimInit
  <1>2. Accounted(S!NoHandler, S!NoMetric)
    BY Zenon DEF Accounted, S!NoHandler, S!NoMetric, HandlerFields, MetricFields
  <1>3. CInv
    BY <1>1, <1>2, Zenon DEF CInv
  <1>4. Handling = {}
    BY <1>1, Zenon DEF Handling, S!Busy, S!NoHandler
  <1>5. Cardinality(Handling) = 0
    BY <1>4, SameSize, F!FS_EmptySet, Zenon
  <1>6. QED
    BY <1>1, <1>3, <1>5 DEF IInv, GInv

(* A step that leaves the shim alone.                                      *)
LEMMA ElsewhereKeeps ==
  ASSUME IInv, UNCHANGED ShimSide
  PROVE  IInv'
  BY Zenon DEF IInv, CInv, GInv, Handling, S!Busy, ShimSide

(* The shim starts to listen, or to drain: no handler is touched.          *)
LEMMA PhaseKeeps ==
  ASSUME IInv, S!Listen \/ S!Drain
  PROVE  IInv'
  BY Zenon DEF IInv, CInv, GInv, Handling, S!Busy, S!Listen, S!Drain

LEMMA SendKeeps ==
  ASSUME IInv, NEW w \in Workers, NEW r \in Reqs, NEW mode, Send(w, r, mode)
  PROVE  IInv'
  <1>1. S!Begin(r, mode)
    BY Zenon DEF Send
  <1>2. live' = live + 1 /\ shim # "stopped"
    BY <1>1, Zenon DEF S!Begin
  <1>3. QED
    BY <1>1, <1>2, BeginAccounts, GaugeUp, Zenon DEF IInv

(* The steps of a running handler.                                         *)
LEMMA HandlerKeeps ==
  ASSUME IInv, NEW r \in Reqs, Refuse(r) \/ Copy(r) \/ FinishCopy(r) \/ ShimStep(r)
  PROVE  IInv'
  <1>1. CASE S!Record(r)
    <2>1. shim' = shim /\ live' = live - 1
      BY <1>1, Zenon DEF S!Record
    <2>2. QED
      BY <1>1, <2>1, RecordAccounts, GaugeDown, Zenon DEF IInv
  <1>2. CASE Refuse(r)
    <2>1. S!RoundTripFails(r, engine = "absent")
      BY <1>2, Zenon DEF Refuse
    <2>2. shim' = shim /\ live' = live
      BY <2>1, Zenon DEF S!RoundTripFails, S!HandleUpstreamError
    <2>3. CInv' /\ Runs(r) /\ Runs(r)' /\ \A o \in Reqs \ {r} : handler'[o] = handler[o]
      BY <2>1, RoundTripAccounts, Zenon DEF IInv
    <2>4. QED
      BY <2>2, <2>3, GaugeStays, Zenon DEF IInv
  <1>3. CASE Copy(r)
    <2>1. S!CopyEvent(r)
      BY <1>3, Zenon DEF Copy
    <2>2. shim' = shim /\ live' = live
      BY <2>1, Zenon DEF S!CopyEvent
    <2>3. QED
      BY <2>1, <2>2, CopyAccounts, GaugeStays, Zenon DEF IInv
  <1>4. CASE FinishCopy(r)
    <2>1. S!CopyReturns(r) \/ S!CopyBreaks(r) \/ S!CopyCanceled(r) \/ S!WriteFails(r)
      BY <1>4, Zenon DEF FinishCopy
    <2>2. shim' = shim /\ live' = live
      BY <2>1, Zenon DEF S!CopyReturns, S!CopyBreaks, S!CopyCanceled, S!WriteFails, S!EndCopy
    <2>3. QED
      BY <2>1, <2>2, CopyEndAccounts, GaugeStays, Zenon DEF IInv
  <1>5. CASE S!ModifyResponse(r)
    <2>1. shim' = shim /\ live' = live
      BY <1>5, Zenon DEF S!ModifyResponse
    <2>2. QED
      BY <1>5, <2>1, ModifyAccounts, GaugeStays, Zenon DEF IInv
  <1>6. QED
    BY <1>1, <1>2, <1>3, <1>4, <1>5, Zenon DEF ShimStep

LEMMA StopKeeps ==
  ASSUME IInv, StopShim
  PROVE  IInv'
  <1>1. S!Stop
    BY Zenon DEF StopShim
  <1>2. QED
    BY <1>1, StopAccounts, Zenon DEF IInv, GInv

LEMMA NextKeeps == IInv /\ [Next]_vars => IInv'
  <1> SUFFICES ASSUME IInv, [Next]_vars PROVE IInv'
    OBVIOUS
  <1>1. CASE StartShim \/ DrainShim
    BY <1>1, PhaseKeeps, Zenon DEF StartShim, DrainShim
  <1>2. CASE StartEngine \/ Probe \/ Delete \/ EngineDies \/ ClientStep
    BY <1>2, ElsewhereKeeps, Zenon DEF StartEngine, Probe, Delete, EngineDies, ClientStep
  <1>3. CASE E!Load /\ UNCHANGED <<ShimSide, ClientSide, podVars, hurt>>
    BY <1>3, ElsewhereKeeps, Zenon
  <1>4. CASE \E w \in Workers, r \in Reqs : \E mode \in Modes[r] : Send(w, r, mode)
    BY <1>4, SendKeeps, Zenon
  <1>5. CASE \E r \in Reqs : EngineStep(r)
    BY <1>5, ElsewhereKeeps, Zenon DEF EngineStep
  <1>6. CASE \E r \in Reqs : Refuse(r) \/ Copy(r) \/ FinishCopy(r) \/ ShimStep(r)
    BY <1>6, HandlerKeeps, Zenon
  <1>7. CASE StopShim
    BY <1>7, StopKeeps, Zenon
  <1>8. CASE UNCHANGED vars
    BY <1>8, ElsewhereKeeps, Zenon DEF vars, ShimSide
  <1>9. QED
    BY <1>1, <1>2, <1>3, <1>4, <1>5, <1>6, <1>7, <1>8, Zenon DEF Next

LEMMA Inductive == Spec => []IInv
  BY InitIInv, NextKeeps, PTL DEF Spec

(* In-flight and queue depth, which the autoscaler reads, are derived from *)
(* a counter that is the number of running handlers in every state         *)
(* (metrics.go:179-200).                                                   *)
THEOREM GaugesFollowHandlers == Spec => []GaugesAreTrue
  <1>1. IInv => GaugesAreTrue
    BY Zenon DEF IInv, GInv, Handling, GaugesAreTrue, S!QueueDepth
  <1>2. QED
    BY <1>1, Inductive, PTL
=============================================================================
