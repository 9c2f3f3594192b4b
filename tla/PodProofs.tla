------------------------------ MODULE PodProofs ------------------------------
(***************************************************************************)
(* Every request is counted once, for any number of requests and clients,  *)
(* any engine and any order of faults (CInv); and the steps of the engine, *)
(* the pod and the clients keep DInv.  The shim's own steps, and what      *)
(* follows from DInv, are in DataPlaneProofs.                              *)
(***************************************************************************)
EXTENDS DataPlaneInvariant, TLAPS

(* A step of one handler: to account for the others is to leave them.      *)
LEMMA OneHandler ==
  ASSUME CInv, NEW r \in Reqs,
         DOMAIN handler' = Reqs, DOMAIN metric' = Reqs,
         \A o \in Reqs \ {r} : handler'[o] = handler[o] /\ metric'[o] = metric[o],
         Accounted(handler'[r], metric'[r])
  PROVE  CInv'
  BY Zenon DEF CInv

(* The observers leave a handler's place and kind alone.                   *)
LEMMA ObserversKeep ==
  ASSUME NEW h, DOMAIN h = HandlerFields, NEW event
  PROVE  /\ DOMAIN S!Observe(h, event) = HandlerFields
         /\ S!Observe(h, event).streamed = h.streamed
         /\ DOMAIN S!AtEOF(h) = HandlerFields
         /\ S!AtEOF(h).streamed = h.streamed
  BY Zenon DEF S!Observe, S!AtEOF, HandlerFields

LEMMA BeginAccounts ==
  ASSUME CInv, NEW r \in Reqs, NEW mode, S!Begin(r, mode)
  PROVE  CInv' /\ handler[r].pc = "none" /\ handler'[r].pc = "proxying"
         /\ \A o \in Reqs \ {r} : handler'[o] = handler[o]
  <1>1. Accounted(handler[r], metric[r])
    BY Zenon DEF CInv
  <1>2. Accounted(handler'[r], metric'[r]) /\ handler'[r].pc = "proxying"
    BY <1>1, Zenon DEF CInv, S!Begin, Accounted, HandlerFields, MetricFields
  <1>3. /\ DOMAIN handler' = Reqs /\ DOMAIN metric' = Reqs
        /\ \A o \in Reqs \ {r} : handler'[o] = handler[o] /\ metric'[o] = metric[o]
    BY Zenon DEF CInv, S!Begin
  <1>4. QED
    BY <1>2, <1>3, OneHandler, Zenon DEF S!Begin

(* Of the steps of a running handler, only the recording ends it.          *)
Runs(r) == handler[r].pc \in {"proxying", "copying", "recording"}

LEMMA RoundTripAccounts ==
  ASSUME CInv, NEW r \in Reqs, NEW down, S!RoundTripFails(r, down)
  PROVE  CInv' /\ Runs(r) /\ Runs(r)' /\ \A o \in Reqs \ {r} : handler'[o] = handler[o]
  <1>1. Accounted(handler[r], metric[r]) /\ handler[r].pc = "proxying"
    BY Zenon DEF CInv, S!RoundTripFails, S!HandleUpstreamError
  <1>2. /\ DOMAIN handler' = Reqs /\ DOMAIN metric' = Reqs
        /\ \A o \in Reqs \ {r} : handler'[o] = handler[o] /\ metric'[o] = metric[o]
    BY Zenon DEF CInv, S!RoundTripFails, S!HandleUpstreamError
  <1>3. /\ DOMAIN handler'[r] = HandlerFields
        /\ handler'[r].pc = "recording" /\ handler'[r].streamed = handler[r].streamed
    BY <1>1, Zenon DEF CInv, S!RoundTripFails, S!HandleUpstreamError, Accounted, HandlerFields
  <1>4. PICK reason : metric'[r] = [metric[r] EXCEPT !.errors = Append(@, reason)]
    BY Zenon DEF CInv, S!RoundTripFails, S!HandleUpstreamError, S!UpstreamError
  <1>5. /\ DOMAIN metric'[r] = MetricFields
        /\ metric'[r].codes = << >> /\ metric'[r].errors = Append(<< >>, reason)
    BY <1>1, <1>4, Zenon DEF Accounted, MetricFields
  <1>6. Len(Append(<< >>, reason)) = 1
    OBVIOUS
  <1>7. Accounted(handler'[r], metric'[r])
    BY <1>1, <1>3, <1>5, <1>6, Zenon DEF Accounted
  <1>8. QED
    BY <1>1, <1>2, <1>3, <1>7, OneHandler, Zenon DEF Runs

LEMMA ModifyAccounts ==
  ASSUME CInv, NEW r \in Reqs, S!ModifyResponse(r)
  PROVE  CInv' /\ Runs(r) /\ Runs(r)' /\ \A o \in Reqs \ {r} : handler'[o] = handler[o]
  <1>1. Accounted(handler[r], metric[r]) /\ handler[r].pc = "proxying"
    BY Zenon DEF CInv, S!ModifyResponse
  <1>2. Accounted(handler'[r], metric'[r]) /\ handler'[r].pc = "copying"
    BY <1>1, Zenon DEF CInv, S!ModifyResponse, Accounted, HandlerFields
  <1>3. /\ DOMAIN handler' = Reqs /\ DOMAIN metric' = Reqs
        /\ \A o \in Reqs \ {r} : handler'[o] = handler[o] /\ metric'[o] = metric[o]
    BY Zenon DEF CInv, S!ModifyResponse
  <1>4. QED
    BY <1>1, <1>2, <1>3, OneHandler, Zenon DEF Runs

LEMMA CopyAccounts ==
  ASSUME CInv, NEW r \in Reqs, S!CopyEvent(r)
  PROVE  CInv' /\ Runs(r) /\ Runs(r)' /\ \A o \in Reqs \ {r} : handler'[o] = handler[o]
  <1>1. Accounted(handler[r], metric[r]) /\ handler[r].pc = "copying"
    BY Zenon DEF CInv, S!CopyEvent, S!Readable
  <1>2. PICK event : handler' = [handler EXCEPT ![r] = S!Observe(@, event)]
    BY Zenon DEF S!CopyEvent
  <1>3. handler'[r] = S!Observe(handler[r], event)
    BY <1>2, Zenon DEF CInv
  <1>4. S!Observe(handler[r], event).pc = "copying"
    BY <1>1, Zenon DEF S!Observe, Accounted, HandlerFields
  <1>5. Accounted(handler'[r], metric'[r])
    BY <1>1, <1>3, <1>4, ObserversKeep DEF Accounted, S!CopyEvent
  <1>6. /\ DOMAIN handler' = Reqs /\ DOMAIN metric' = Reqs
        /\ \A o \in Reqs \ {r} : handler'[o] = handler[o] /\ metric'[o] = metric[o]
    BY <1>2, Zenon DEF CInv, S!CopyEvent
  <1>7. QED
    BY <1>1, <1>3, <1>4, <1>5, <1>6, OneHandler, Zenon DEF Runs

LEMMA EndCopyAccounts ==
  ASSUME CInv, NEW r \in Reqs, handler[r].pc = "copying",
         NEW h, DOMAIN h = HandlerFields, S!EndCopy(r, h)
  PROVE  CInv' /\ Runs(r)' /\ \A o \in Reqs \ {r} : handler'[o] = handler[o]
  <1>1. Accounted(handler[r], metric[r])
    BY Zenon DEF CInv
  <1>2. /\ DOMAIN handler' = Reqs /\ DOMAIN metric' = Reqs
        /\ \A o \in Reqs \ {r} : handler'[o] = handler[o] /\ metric'[o] = metric[o]
    BY Zenon DEF CInv, S!EndCopy
  <1>3. handler'[r] = [h EXCEPT !.pc = "recording"] /\ metric'[r] = metric[r]
    BY Zenon DEF CInv, S!EndCopy
  <1>4. DOMAIN handler'[r] = HandlerFields /\ handler'[r].pc = "recording"
    BY <1>3, Zenon DEF HandlerFields
  <1>5. Accounted(handler'[r], metric'[r])
    BY <1>1, <1>3, <1>4, Zenon DEF Accounted
  <1>6. QED
    BY <1>2, <1>4, <1>5, OneHandler, Zenon DEF Runs

LEMMA CopyEndAccounts ==
  ASSUME CInv, NEW r \in Reqs,
         S!CopyReturns(r) \/ S!CopyBreaks(r) \/ S!CopyCanceled(r) \/ S!WriteFails(r)
  PROVE  CInv' /\ Runs(r) /\ Runs(r)' /\ \A o \in Reqs \ {r} : handler'[o] = handler[o]
  <1>1. DOMAIN handler[r] = HandlerFields
    BY Zenon DEF CInv, Accounted
  <1>2. handler[r].pc = "copying"
    BY Zenon DEF S!CopyReturns, S!CopyBreaks, S!CopyCanceled, S!WriteFails, S!Readable
  <1>3. PICK h : DOMAIN h = HandlerFields /\ S!EndCopy(r, h)
    <2>1. CASE S!CopyReturns(r)
      BY <1>1, <2>1, ObserversKeep, Zenon DEF S!CopyReturns
    <2>2. CASE S!CopyBreaks(r)
      <3>1. DOMAIN [handler[r] EXCEPT !.state.readErr = "broken"] = HandlerFields
        BY <1>1, Zenon
      <3>2. QED
        BY <2>2, <3>1, Zenon DEF S!CopyBreaks
    <2>3. CASE S!CopyCanceled(r)
      <3>1. DOMAIN [handler[r] EXCEPT !.state.readErr = "canceled"] = HandlerFields
        BY <1>1, Zenon
      <3>2. QED
        BY <2>3, <3>1, Zenon DEF S!CopyCanceled
    <2>4. CASE S!WriteFails(r)
      <3> DEFINE h1 == S!Observe(handler[r], Head(wire[r].body))
      <3>1. DOMAIN h1 = HandlerFields
        BY <1>1, ObserversKeep, Zenon
      <3>2. DOMAIN S!AtEOF(h1) = HandlerFields
        BY <3>1, ObserversKeep, Zenon
      <3>3. S!EndCopy(r, h1) \/ S!EndCopy(r, S!AtEOF(h1))
        BY <2>4, Zenon DEF S!WriteFails
      <3>4. QED
        BY <3>1, <3>2, <3>3, Zenon
    <2>5. QED
      BY <2>1, <2>2, <2>3, <2>4, Zenon
  <1>4. QED
    BY <1>2, <1>3, EndCopyAccounts, Zenon DEF Runs

(* countStreamOutcome adds an error to a stream only, and a stream has     *)
(* none before it.                                                         *)
LEMMA RecordAccounts ==
  ASSUME CInv, NEW r \in Reqs, S!Record(r)
  PROVE  CInv' /\ handler[r].pc = "recording" /\ handler'[r].pc = "ended"
         /\ \A o \in Reqs \ {r} : handler'[o] = handler[o]
  <1> DEFINE h  == handler[r]
             m  == metric[r]
             m1 == S!Recorded(m, h)
             m2 == S!StreamOutcome(m1, h, canceled[r])
  <1>1. Accounted(h, m) /\ h.pc = "recording"
    BY Zenon DEF CInv, S!Record
  <1>2. /\ DOMAIN handler' = Reqs /\ DOMAIN metric' = Reqs
        /\ \A o \in Reqs \ {r} : handler'[o] = handler[o] /\ metric'[o] = metric[o]
        /\ metric'[r] = m2 /\ handler'[r] = S!Gone(h, "ended")
    BY Zenon DEF CInv, S!Record
  <1>3. DOMAIN handler'[r] = HandlerFields /\ handler'[r].pc = "ended"
    BY <1>2, Zenon DEF S!Gone, S!NoHandler, HandlerFields
  <1>4. /\ DOMAIN m1 = MetricFields /\ m1.errors = m.errors
        /\ m1.codes = Append(<< >>, h.status)
    BY <1>1, Zenon DEF S!Recorded, Accounted, MetricFields
  <1>5. Len(m1.codes) = 1
    BY <1>4
  <1>6. \/ m2 = m1
        \/ h.streamed /\ \E reason : m2 = [m1 EXCEPT !.errors = Append(@, reason)]
    BY Zenon DEF S!StreamOutcome, S!UpstreamError
  <1>7. CASE m2 = m1
    <2>1. Accounted(handler'[r], metric'[r])
      BY <1>1, <1>2, <1>3, <1>4, <1>5, <1>7, Zenon DEF Accounted
    <2>2. QED
      BY <1>1, <1>2, <1>3, <2>1, OneHandler, Zenon
  <1>8. CASE h.streamed /\ \E reason : m2 = [m1 EXCEPT !.errors = Append(@, reason)]
    <2>1. m1.errors = << >>
      BY <1>1, <1>4, <1>8, Zenon DEF Accounted
    <2>2. PICK reason : m2 = [m1 EXCEPT !.errors = Append(@, reason)]
      BY <1>8, Zenon
    <2>3. /\ DOMAIN m2 = MetricFields /\ m2.codes = m1.codes
          /\ m2.errors = Append(<< >>, reason)
      BY <1>4, <2>1, <2>2, Zenon DEF MetricFields
    <2>4. Len(m2.errors) = 1
      BY <2>3
    <2>5. Accounted(handler'[r], metric'[r])
      BY <1>2, <1>3, <1>5, <2>3, <2>4, Zenon DEF Accounted
    <2>6. QED
      BY <1>1, <1>2, <1>3, <2>5, OneHandler, Zenon
  <1>9. QED
    BY <1>6, <1>7, <1>8, Zenon

LEMMA StopAccounts ==
  ASSUME CInv, S!Stop
  PROVE  CInv' /\ shim' = "stopped"
  <1>1. DOMAIN handler' = Reqs /\ DOMAIN metric' = Reqs
    BY Zenon DEF CInv, S!Stop
  <1>2. ASSUME NEW r \in Reqs PROVE Accounted(handler'[r], metric'[r])
    <2>1. Accounted(handler[r], metric[r]) /\ metric'[r] = metric[r]
      BY Zenon DEF CInv, S!Stop
    <2>2. CASE ~S!Busy(r)
      BY <2>1, <2>2, Zenon DEF S!Stop
    <2>3. CASE S!Busy(r)
      <3>1. handler'[r] = S!Gone(handler[r], "killed")
        BY <2>3, Zenon DEF S!Stop
      <3>2. DOMAIN handler'[r] = HandlerFields /\ handler'[r].pc = "killed"
        BY <3>1, Zenon DEF S!Gone, S!NoHandler, HandlerFields
      <3>3. handler[r].pc # "ended"
        BY <2>3, Zenon DEF S!Busy
      <3>4. QED
        BY <2>1, <3>2, <3>3, Zenon DEF Accounted
    <2>4. QED
      BY <2>2, <2>3, Zenon
  <1>3. QED
    BY <1>1, <1>2, Zenon DEF CInv, S!Stop

-----------------------------------------------------------------------------
(* The count over every step of the pod.                                   *)

LEMMA InitCInv == Init => CInv
  <1> SUFFICES ASSUME Init PROVE CInv
    BY Zenon
  <1>1. handler = [r \in Reqs |-> S!NoHandler] /\ metric = [r \in Reqs |-> S!NoMetric]
    BY Zenon DEF Init, S!ShimInit
  <1>2. Accounted(S!NoHandler, S!NoMetric)
    BY Zenon DEF Accounted, S!NoHandler, S!NoMetric, HandlerFields, MetricFields
  <1>3. QED
    BY <1>1, <1>2, Zenon DEF CInv

LEMMA NextCInv == CInv /\ [Next]_vars => CInv'
  <1> SUFFICES ASSUME CInv, [Next]_vars PROVE CInv'
    BY Zenon
  <1>1. CASE handler' = handler /\ metric' = metric
    BY <1>1, Zenon DEF CInv
  <1>2. CASE StartShim \/ DrainShim
    BY <1>1, <1>2, Zenon DEF StartShim, DrainShim, S!Listen, S!Drain
  <1>3. CASE StartEngine \/ Probe \/ Delete \/ EngineDies \/ ClientStep
    BY <1>1, <1>3, Zenon DEF StartEngine, Probe, Delete, EngineDies, ClientStep, ShimSide
  <1>4. CASE E!Load /\ UNCHANGED <<ShimSide, ClientSide, podVars, hurt>>
    BY <1>1, <1>4, Zenon DEF ShimSide
  <1>5. CASE \E w \in Workers, r \in Reqs : \E mode \in Modes[r] : Send(w, r, mode)
    BY <1>5, BeginAccounts, Zenon DEF Send
  <1>6. CASE \E r \in Reqs : EngineStep(r)
    BY <1>1, <1>6, Zenon DEF EngineStep, ShimSide
  <1>7. CASE \E r \in Reqs : Refuse(r) \/ Copy(r) \/ FinishCopy(r) \/ ShimStep(r)
    BY <1>7, RoundTripAccounts, CopyAccounts, CopyEndAccounts, ModifyAccounts, RecordAccounts, Zenon
       DEF Refuse, Copy, FinishCopy, ShimStep
  <1>8. CASE StopShim
    BY <1>8, StopAccounts, Zenon DEF StopShim
  <1>9. CASE UNCHANGED vars
    BY <1>1, <1>9, Zenon DEF vars, ShimSide
  <1>10. QED
    BY <1>2, <1>3, <1>4, <1>5, <1>6, <1>7, <1>8, <1>9, Zenon DEF Next

LEMMA AlwaysAccounted == Spec => []CInv
  BY InitCInv, NextCInv, PTL DEF Spec

(* However a request ends (a refused connection, a broken copy, a client   *)
(* that leaves, a normal return), serveProxy's deferred recording counts   *)
(* it once, with one code and at most one upstream error                   *)
(* (proxy.go:201-213).                                                     *)
THEOREM EveryRequestCountedOnce == Spec => []CountedOnce
  <1>1. Len(<< >>) = 0
    BY Zenon
  <1>2. ASSUME CInv, NEW r \in Reqs
        PROVE  /\ handler[r].pc = "ended" => Len(metric[r].codes) = 1
               /\ handler[r].pc \in {"none", "proxying", "copying", "recording"}
                    => metric[r].codes = << >>
               /\ Len(metric[r].errors) <= 1
    <2>1. Accounted(handler[r], metric[r])
      BY <1>2, Zenon DEF CInv
    <2>2. Len(metric[r].errors) = 0 \/ Len(metric[r].errors) = 1
      BY <1>1, <2>1, Zenon DEF Accounted
    <2>3. \A n : (n = 0 \/ n = 1) => n <= 1
      OBVIOUS
    <2>4. Len(metric[r].errors) <= 1
      BY <2>2, <2>3, Zenon
    <2>5. QED
      BY <2>1, <2>4, Zenon DEF Accounted
  <1>3. CInv => CountedOnce
    BY <1>2, Zenon DEF CountedOnce
  <1>4. QED
    BY <1>3, AlwaysAccounted, PTL

-----------------------------------------------------------------------------
(* Bodies: what an event written and an event read make of them.           *)
Event == [doc : Docs, at : Nat]

LEMMA AppendBody ==
  ASSUME NEW b \in BodyType, NEW e \in Event
  PROVE  /\ Append(b, e) \in BodyType /\ Append(b, e) # << >>
         /\ Len(b) \in Nat /\ DOMAIN b = 1..Len(b)
         /\ Len(Append(b, e)) = Len(b) + 1
         /\ DOMAIN Append(b, e) = 1..(Len(b) + 1)
         /\ \A i \in 1..Len(b) : Append(b, e)[i] = b[i]
         /\ Append(b, e)[Len(b) + 1] = e
  BY DEF BodyType, Event

LEMMA TailBody ==
  ASSUME NEW b \in BodyType, b # << >>
  PROVE  /\ Tail(b) \in BodyType /\ Head(b) = b[1] /\ Head(b) \in Event
         /\ Len(b) \in Nat \ {0} /\ DOMAIN b = 1..Len(b)
         /\ Len(Tail(b)) = Len(b) - 1
         /\ DOMAIN Tail(b) = 1..(Len(b) - 1)
         /\ \A i \in 1..(Len(b) - 1) : Tail(b)[i] = b[i + 1]
  <1>1. b \in Seq(Event)
    BY Zenon DEF BodyType, Event
  <1>2. Len(b) \in Nat \ {0} /\ DOMAIN b = 1..Len(b) /\ Head(b) = b[1] /\ b[1] \in Event
    BY <1>1
  <1>3. /\ Tail(b) \in Seq(Event) /\ Len(Tail(b)) = Len(b) - 1
        /\ \A i \in 1..(Len(b) - 1) : Tail(b)[i] = b[i + 1]
    BY <1>1
  <1>4. DOMAIN Tail(b) = 1..(Len(b) - 1)
    BY <1>3
  <1>5. QED
    BY <1>2, <1>3, <1>4, Zenon DEF BodyType, Event

LEMMA WithBody ==
  ASSUME NEW w \in WireType, NEW c \in BodyType
  PROVE  LET v == [w EXCEPT !.body = c]
         IN  /\ v \in WireType /\ v.body = c /\ v.header = w.header
             /\ v.mode = w.mode /\ v.open = w.open
  BY Zenon DEF WireType

LEMMA AnswerBody ==
  ASSUME NEW doc \in Docs, NEW clock \in Nat
  PROVE  LET b == << E!At(doc, clock), E!At("eof", clock) >>
         IN  /\ b \in BodyType /\ Len(b) = 2 /\ DOMAIN b = 1..2
             /\ b[1].doc = doc /\ b[2].doc = "eof"
  BY DEF BodyType, E!At, Docs

(* A request none of whose state moves stays as it was.                    *)
Untouched(r) ==
  /\ wire'[r] = wire[r] /\ job'[r] = job[r] /\ handler'[r] = handler[r]
  /\ metric'[r] = metric[r] /\ call'[r] = call[r] /\ left'[r] = left[r]
  /\ (r \in hurt') = (r \in hurt)

LEMMA UntouchedStaysGood ==
  ASSUME NEW r \in Reqs, Good(r), Untouched(r)
  PROVE  Good(r)'
  <1> USE DEF Good, Untouched
  <1>1. Together(r)'
    BY Zenon DEF Together, Underway
  <1>2. ClockInv(r)'
    BY Zenon DEF ClockInv, First
  <1>3. BodyInv(r)'
    BY Zenon DEF BodyInv, Underway, Holds, Saw
  <1>4. FirstInv(r)'
    BY DEF FirstInv, Underway, Holds, First
  <1>5. CopyInv(r)'
    BY DEF CopyInv
  <1>6. HurtInv(r)'
    BY Zenon DEF HurtInv, Underway, Holds, Saw
  <1>7. BlameInv(r)'
    BY Zenon DEF BlameInv, Saw
  <1>8. AgreeInv(r)'
    BY DEF AgreeInv, Saw
  <1>9. QED
    BY <1>1, <1>2, <1>3, <1>4, <1>5, <1>6, <1>7, <1>8, Zenon

-----------------------------------------------------------------------------
(* The engine's steps.  They leave the shim and the clients alone.         *)
EngineFrame == UNCHANGED <<ShimSide, ClientSide, hurt>>

LEMMA EngineFrameMeans ==
  ASSUME EngineFrame
  PROVE  /\ handler' = handler /\ metric' = metric /\ call' = call /\ worker' = worker
         /\ left' = left /\ canceled' = canceled /\ hurt' = hurt
  BY Zenon DEF EngineFrame, ShimSide, ClientSide

(* To show the invariant after a step of one job, look at that request.    *)
LEMMA OneJob ==
  ASSUME DInv, EngineFrame, NEW r \in Reqs,
         NEW w \in WireType, NEW j \in JobType,
         wire' = [wire EXCEPT ![r] = w], job' = [job EXCEPT ![r] = j],
         Good(r)'
  PROVE  DInv'
  <1>1. /\ handler' = handler /\ metric' = metric /\ call' = call /\ worker' = worker
        /\ left' = left /\ canceled' = canceled /\ hurt' = hurt
    BY EngineFrameMeans, Zenon
  <1>2. TypeInv'
    BY <1>1, Zenon DEF DInv, TypeInv
  <1>3. ClientInv'
    BY <1>1, Zenon DEF DInv, ClientInv
  <1>4. ASSUME NEW o \in Reqs \ {r} PROVE Good(o)'
    <2>1. wire'[o] = wire[o] /\ job'[o] = job[o]
      BY Zenon DEF DInv, TypeInv
    <2>2. Untouched(o)
      BY <1>1, <2>1, Zenon DEF Untouched
    <2>3. QED
      BY <2>2, UntouchedStaysGood, Zenon DEF DInv
  <1>5. QED
    BY <1>2, <1>3, <1>4, Zenon DEF DInv

LEMMA Typed ==
  ASSUME TypeInv, NEW r \in Reqs
  PROVE  /\ wire[r] \in WireType /\ job[r] \in JobType /\ handler[r] \in HandlerType
         /\ metric[r] \in MetricType /\ call[r] \in CallType
         /\ left[r] \in BOOLEAN /\ canceled[r] \in BOOLEAN
         /\ wire[r].body \in BodyType
         /\ DOMAIN wire[r].body = 1..Len(wire[r].body) /\ Len(wire[r].body) \in Nat
  <1>1. /\ wire[r] \in WireType /\ job[r] \in JobType /\ handler[r] \in HandlerType
        /\ metric[r] \in MetricType /\ call[r] \in CallType
        /\ left[r] \in BOOLEAN /\ canceled[r] \in BOOLEAN
    BY Zenon DEF TypeInv
  <1>2. wire[r].body \in BodyType
    BY <1>1, Zenon DEF WireType
  <1>3. QED
    BY <1>1, <1>2 DEF BodyType

(* A whole answer: the job has ended, on a fresh connection or after its   *)
(* one sleep.                                                              *)
LEMMA WriteJSONKeeps ==
  ASSUME DInv, EngineFrame, NEW r \in Reqs,
         wire[r].open, wire[r].header = "none", job[r].pc \in {"none", "answering"},
         NEW header \in {"200", "400", "500", "503"},
         NEW doc \in {"frame", "usage"}, NEW clock \in Nat,
         (wire[r].mode.op \in {"chat", "text"} /\ header = "200") => clock = TTFT + Tokens * ITL,
         E!WriteJSON(r, header, doc, clock)
  PROVE  DInv'
  <1> DEFINE b == << E!At(doc, clock), E!At("eof", clock) >>
             w == [wire[r] EXCEPT !.header = header, !.body = b]
             j == [job[r] EXCEPT !.pc = "done", !.clock = clock]
  <1>1. Good(r) /\ TypeInv
    BY Zenon DEF DInv
  <1>2. wire[r] \in WireType /\ job[r] \in JobType
    BY <1>1, Typed, Zenon
  <1>3. /\ b \in BodyType /\ Len(b) = 2 /\ DOMAIN b = 1..2
        /\ b[1].doc = doc /\ b[2].doc = "eof"
    <2>1. doc \in Docs
      BY Zenon DEF Docs
    <2>2. QED
      BY <2>1, AnswerBody, Zenon
  <1> HIDE DEF b
  <1>4. w \in WireType /\ j \in JobType
    BY <1>2, <1>3, Zenon DEF WireType, JobType
  <1>5. wire' = [wire EXCEPT ![r] = w] /\ job' = [job EXCEPT ![r] = j]
    BY <1>1, Zenon DEF E!WriteJSON, b, TypeInv
  <1>6. /\ wire'[r].header = header /\ wire'[r].body = b
        /\ wire'[r].mode = wire[r].mode /\ wire'[r].open = wire[r].open
        /\ job'[r].pc = "done" /\ job'[r].clock = clock
    BY <1>1, <1>2, <1>5, Zenon DEF TypeInv, WireType, JobType
  <1>7. /\ handler'[r] = handler[r] /\ metric'[r] = metric[r] /\ call'[r] = call[r]
        /\ left'[r] = left[r] /\ hurt' = hurt
    BY EngineFrameMeans, Zenon
  <1>8. handler[r].pc = "proxying" /\ handler[r].state = S!NewState
    <2>1. handler[r].pc # "copying"
      BY <1>1, Zenon DEF Good, CopyInv
    <2>2. handler[r].pc = "proxying"
      BY <1>1, <2>1, Zenon DEF Good, Together, Underway
    <2>3. QED
      BY <1>1, <2>2, Zenon DEF Good, CopyInv
  <1>9. r \notin hurt
    BY <1>1, <1>8, Zenon DEF Good, HurtInv, Underway
  <1>10. Together(r)'
    BY <1>1, <1>6, <1>7, <1>8, Zenon DEF Good, Together, Underway
  <1>11. ClockInv(r)'
    BY <1>6, Zenon DEF ClockInv
  <1>12. BodyInv(r)'
    BY <1>3, <1>6, <1>7, <1>8 DEF BodyInv, Holds, Saw, S!NewState
  <1>13. FirstInv(r)'
    BY <1>1, <1>3, <1>6, <1>7 DEF Good, FirstInv, Holds
  <1>14. CopyInv(r)'
    BY <1>1, <1>6, <1>7, <1>8, Zenon DEF Good, CopyInv
  <1>15. HurtInv(r)'
    <2>1. \A i \in DOMAIN b : b[i].doc # "reset"
      BY <1>3
    <2>2. QED
      BY <1>6, <1>7, <1>9, <2>1, Zenon DEF HurtInv, Holds
  <1>16. BlameInv(r)'
    BY <1>1, <1>7, Zenon DEF Good, BlameInv, Saw
  <1>17. AgreeInv(r)'
    BY <1>1, <1>7 DEF Good, AgreeInv, Saw
  <1>18. QED
    BY <1>4, <1>5, <1>10, <1>11, <1>12, <1>13, <1>14, <1>15, <1>16, <1>17, OneJob, Zenon DEF Good

(* The request has arrived: the shim waits for the response.               *)
LEMMA ArrivedMeans ==
  ASSUME DInv, NEW r \in Reqs, wire[r].open, wire[r].header = "none"
  PROVE  /\ handler[r].pc = "proxying" /\ handler[r].state = S!NewState
         /\ r \notin hurt /\ wire[r].body = << >>
  <1>1. Good(r)
    BY Zenon DEF DInv
  <1>2. handler[r].pc # "copying"
    BY <1>1, Zenon DEF Good, CopyInv
  <1>3. handler[r].pc = "proxying"
    BY <1>1, <1>2, Zenon DEF Good, Together, Underway
  <1>4. QED
    BY <1>1, <1>3, Zenon DEF Good, CopyInv, HurtInv, Underway, Together

(* The engine starts to stream, or to sleep before its one answer.         *)
LEMMA StreamKeeps ==
  ASSUME DInv, EngineFrame, NEW r \in Reqs, E!Arrived(r),
         wire[r].mode.op \in {"chat", "text"}, wire[r].mode.stream,
         wire' = [wire EXCEPT ![r].header = "sse"], job' = [job EXCEPT ![r].pc = "streaming"]
  PROVE  DInv'
  <1> DEFINE w == [wire[r] EXCEPT !.header = "sse"]
             j == [job[r] EXCEPT !.pc = "streaming"]
  <1>1. Good(r) /\ TypeInv
    BY Zenon DEF DInv
  <1>2. wire[r] \in WireType /\ job[r] \in JobType
    BY <1>1, Typed, Zenon
  <1>3. w \in WireType /\ j \in JobType
    BY <1>2, Zenon DEF WireType, JobType
  <1>4. wire' = [wire EXCEPT ![r] = w] /\ job' = [job EXCEPT ![r] = j]
    BY <1>1, Zenon DEF TypeInv
  <1>5. /\ wire[r].open /\ wire[r].header = "none" /\ job[r] = E!NoJob
    BY <1>1, Zenon DEF Good, Together, E!Arrived
  <1>6. /\ handler[r].pc = "proxying" /\ handler[r].state = S!NewState
        /\ r \notin hurt /\ wire[r].body = << >>
    BY <1>5, ArrivedMeans, Zenon
  <1>7. /\ wire'[r].header = "sse" /\ wire'[r].body = << >>
        /\ wire'[r].mode = wire[r].mode /\ wire'[r].open = wire[r].open
        /\ job'[r].pc = "streaming" /\ job'[r].next = 1 /\ job'[r].clock = 0
    <2>1. wire'[r] = w /\ job'[r] = j
      BY <1>1, <1>4, Zenon DEF TypeInv
    <2>2. job'[r].pc = "streaming" /\ job'[r].next = 1 /\ job'[r].clock = 0
      BY <1>5, <2>1 DEF E!NoJob
    <2>3. QED
      BY <1>2, <1>6, <2>1, <2>2 DEF WireType
  <1>8. /\ handler'[r] = handler[r] /\ metric'[r] = metric[r] /\ call'[r] = call[r]
        /\ left'[r] = left[r] /\ hurt' = hurt
    BY EngineFrameMeans, Zenon
  <1>9. wire[r].mode \in [op : {"chat", "text"}, stream : {TRUE}]
    <2>1. wire[r].mode \in ModeType
      BY <1>1, <1>6, Zenon DEF Good, Together
    <2>2. QED
      BY <2>1, Zenon DEF ModeType
  <1>10. Together(r)'
    BY <1>1, <1>6, <1>7, <1>8, <1>9, Zenon DEF Good, Together, Underway
  <1>11. ClockInv(r)'
    <2>1. First(r)' \in {1, 2}
      BY Zenon DEF First, E!FirstContent
    <2>2. QED
      BY <1>7, <2>1, DataPlaneAssumption DEF ClockInv, Due
  <1>12. BodyInv(r)'
    BY <1>6, <1>7, <1>8 DEF BodyInv, Saw, S!NewState
  <1>13. FirstInv(r)'
    <2>1. First(r)' \in {1, 2}
      BY Zenon DEF First, E!FirstContent
    <2>2. QED
      BY <1>1, <1>7, <1>8, <2>1 DEF Good, FirstInv
  <1>14. CopyInv(r)'
    BY <1>1, <1>6, <1>7, <1>8 DEF Good, CopyInv
  <1>15. HurtInv(r)'
    BY <1>6, <1>7, <1>8 DEF HurtInv
  <1>16. BlameInv(r)'
    BY <1>1, <1>8, Zenon DEF Good, BlameInv, Saw
  <1>17. AgreeInv(r)'
    BY <1>1, <1>8 DEF Good, AgreeInv, Saw
  <1>18. QED
    BY <1>3, <1>4, <1>10, <1>11, <1>12, <1>13, <1>14, <1>15, <1>16, <1>17, OneJob, Zenon DEF Good

(* A step of the job alone that leaves the stream, or never was in one.    *)
LEMMA JobAloneKeeps ==
  ASSUME DInv, EngineFrame, NEW r \in Reqs, wire' = wire,
         NEW j \in JobType, job' = [job EXCEPT ![r] = j],
         \/ E!Arrived(r) /\ j = [job[r] EXCEPT !.pc = "answering"]
         \/ ~wire[r].open /\ E!Generating(r) /\ j.pc = "gone"
  PROVE  DInv'
  <1>1. Good(r) /\ TypeInv
    BY Zenon DEF DInv
  <1>2. wire[r] \in WireType /\ job[r] \in JobType
    BY <1>1, Typed, Zenon
  <1>3. wire' = [wire EXCEPT ![r] = wire[r]]
    BY <1>1, Zenon DEF TypeInv
  <1>4. job'[r] = j /\ wire'[r] = wire[r]
    BY <1>1, Zenon DEF TypeInv
  <1>5. /\ handler'[r] = handler[r] /\ metric'[r] = metric[r] /\ call'[r] = call[r]
        /\ left'[r] = left[r] /\ hurt' = hurt
    BY EngineFrameMeans, Zenon
  <1>6. j.pc \in {"answering", "gone"} /\ job[r].pc # "done"
    BY <1>2, Zenon DEF JobType, E!Arrived, E!Generating
  <1>7. Together(r)'
    <2>1. handler[r].pc # "none"
      BY <1>1 DEF Good, Together, Underway, E!NoWire, E!NoJob, E!Arrived, E!Generating
    <2>2. CASE E!Arrived(r) /\ j = [job[r] EXCEPT !.pc = "answering"]
      <3>1. j.clock = 0 /\ j.pc = "answering"
        BY <1>1, <1>2, <2>2 DEF Good, Together, E!Arrived, E!NoJob, JobType
      <3>2. QED
        BY <1>1, <1>4, <1>5, <2>1, <2>2, <3>1, Zenon DEF Good, Together, Underway, E!Arrived
    <2>3. CASE ~wire[r].open /\ E!Generating(r) /\ j.pc = "gone"
      BY <1>1, <1>4, <1>5, <2>1, <2>3, Zenon DEF Good, Together, Underway, E!Generating
    <2>4. QED
      BY <2>2, <2>3, Zenon
  <1>8. ClockInv(r)'
    BY <1>4, <1>6, Zenon DEF ClockInv
  <1>9. BodyInv(r)' /\ HurtInv(r)'
    <2>1. CASE E!Arrived(r)
      <3>1. handler[r].state = S!NewState /\ r \notin hurt /\ wire[r].body = << >>
        BY <2>1, ArrivedMeans, Zenon DEF E!Arrived
      <3>2. QED
        BY <1>1, <1>4, <1>5, <1>6, <2>1, <3>1
        DEF Good, BodyInv, HurtInv, Underway, Saw, S!NewState, E!Arrived
    <2>2. CASE ~wire[r].open
      BY <1>1, <1>4, <1>5, <2>2, Zenon DEF Good, Together, BodyInv, HurtInv, Underway
    <2>3. QED
      BY <2>1, <2>2, Zenon
  <1>10. FirstInv(r)'
    BY <1>1, <1>4, <1>5, <1>6, Zenon DEF Good, FirstInv, Underway, Holds
  <1>11. CopyInv(r)'
    BY <1>1, <1>4, <1>5 DEF Good, CopyInv
  <1>12. BlameInv(r)'
    BY <1>1, <1>5, Zenon DEF Good, BlameInv, Saw
  <1>13. AgreeInv(r)'
    BY <1>1, <1>5 DEF Good, AgreeInv, Saw
  <1>14. QED
    BY <1>2, <1>3, <1>7, <1>8, <1>9, <1>10, <1>11, <1>12, <1>13, OneJob, Zenon DEF Good

(* One more event on the connection of a stream.                           *)
LEMMA EventKeeps ==
  ASSUME DInv, EngineFrame, NEW r \in Reqs,
         wire[r].open, job[r].pc \in {"streaming", "returning"},
         NEW e \in Event, NEW j \in JobType,
         wire' = [wire EXCEPT ![r].body = Append(@, e)], job' = [job EXCEPT ![r] = j],
         \/ e.doc \in {"frame", "token"} /\ job[r].pc = "streaming" /\ j.pc = "streaming"
         \/ e.doc = "done" /\ job[r].pc = "streaming" /\ j.pc = "returning"
         \/ e.doc = "eof" /\ job[r].pc = "returning" /\ j.pc = "done",
         j.pc = "streaming" => j.next <= First(r) + Tokens + 1 /\ j.clock = Due(j.next, First(r)),
         j.pc # "streaming" => j.clock = TTFT + Tokens * ITL,
         (/\ e.doc = "token" /\ handler[r].state.ttft = None
          /\ \A i \in DOMAIN wire[r].body : ~Holds(r, i, {"token"})) => e.at = TTFT,
         (j.pc = "streaming" /\ j.next > First(r) /\ Tokens > 0) =>
           \/ handler[r].state.ttft # None
           \/ e.doc = "token"
           \/ \E i \in DOMAIN wire[r].body : Holds(r, i, {"token"})
  PROVE  DInv'
  <1> DEFINE b == wire[r].body
             c == Append(b, e)
             n == Len(b)
             w == [wire[r] EXCEPT !.body = c]
  <1>1. Good(r) /\ TypeInv
    BY Zenon DEF DInv
  <1>2. wire[r] \in WireType /\ b \in BodyType
    BY <1>1, Typed, Zenon
  <1>3. /\ c \in BodyType /\ c # << >> /\ n \in Nat /\ DOMAIN b = 1..n
        /\ Len(c) = n + 1 /\ DOMAIN c = 1..(n + 1)
        /\ \A i \in 1..n : c[i] = b[i]
        /\ c[n + 1] = e
    BY <1>2, AppendBody, Zenon
  <1>4. w \in WireType /\ wire' = [wire EXCEPT ![r] = w]
    BY <1>1, <1>2, <1>3, WithBody, Zenon DEF TypeInv
  <1>5. wire'[r] = w /\ job'[r] = j
    BY <1>1, <1>4, Zenon DEF TypeInv
  <1>6. /\ wire'[r].header = wire[r].header /\ wire'[r].body = c
        /\ wire'[r].mode = wire[r].mode /\ wire'[r].open = wire[r].open
    <2>1. /\ w \in WireType /\ w.body = c /\ w.header = wire[r].header
          /\ w.mode = wire[r].mode /\ w.open = wire[r].open
      BY <1>2, <1>3, WithBody, ZenonT(30)
    <2>2. QED
      BY <1>5, <2>1, Zenon
  <1> HIDE DEF c, w
  <1>7. /\ handler'[r] = handler[r] /\ metric'[r] = metric[r] /\ call'[r] = call[r]
        /\ left'[r] = left[r] /\ hurt' = hurt
    BY EngineFrameMeans, Zenon
  <1>8. /\ wire[r].header = "sse" /\ Underway(r) /\ r \notin hurt
        /\ \A i \in 1..n : b[i].doc \notin {"eof", "reset"}
    BY <1>1, <1>3, Zenon DEF Good, Together, HurtInv, BodyInv, Holds
  <1>9. job[r].pc = "streaming" => ~Saw(r) /\ \A i \in 1..n : b[i].doc # "done"
    BY <1>1, <1>3, <1>8, Zenon DEF Good, BodyInv, Holds
  <1>10. First(r)' = First(r)
    BY <1>6, Zenon DEF First
  <1>11. Together(r)'
    BY <1>1, <1>5, <1>6, <1>7, <1>8, Zenon DEF Good, Together, Underway
  <1>12. ClockInv(r)'
    BY <1>5, <1>10, Zenon DEF ClockInv
  <1>13. BodyInv(r)'
    <2>1. /\ Saw(r)' = Saw(r) /\ Underway(r)' = Underway(r)
      BY <1>7, Zenon DEF Saw, Underway
    <2>2. ASSUME NEW i \in 1..(n + 1)
          PROVE  /\ c[i].doc \in {"eof", "reset"} => i = n + 1 /\ j.pc = "done"
                 /\ c[i].doc = "done" => j.pc # "streaming" /\ ~Saw(r)
                 /\ c[i].doc = "token" => ~Saw(r)
      <3>1. CASE i = n + 1
        BY <1>3, <1>9, <3>1, Zenon
      <3>2. CASE i \in 1..n
        <4>1. c[i] = b[i]
          BY <1>3, <3>2, Zenon
        <4>2. /\ b[i].doc = "done" => job[r].pc # "streaming" /\ ~Saw(r)
              /\ b[i].doc = "token" => ~Saw(r)
          BY <1>1, <1>3, <1>8, <3>2, Zenon DEF Good, BodyInv, Holds
        <4>3. QED
          BY <1>8, <3>2, <4>1, <4>2, Zenon
      <3>3. QED
        BY <1>3, <3>1, <3>2
    <2>3. ASSUME NEW i \in 1..(n + 1), NEW k \in 1..(n + 1), c[i].doc = "done", k > i
          PROVE  c[k].doc \in {"eof", "reset"}
      <3>1. i \in 1..n
        BY <1>3, <2>3
      <3>2. b[i].doc = "done" /\ job[r].pc # "streaming"
        BY <1>3, <1>9, <2>3, <3>1, Zenon
      <3>3. CASE k = n + 1
        BY <1>3, <3>2, <3>3, Zenon
      <3>4. CASE k \in 1..n
        BY <1>1, <1>3, <1>8, <2>3, <3>1, <3>2, <3>4, Zenon DEF Good, BodyInv, Holds
      <3>5. QED
        BY <1>3, <3>3, <3>4
    <2>4. Saw(r) => j.pc # "streaming"
      BY <1>9, Zenon
    <2>5. QED
      BY <1>3, <1>5, <1>6, <1>8, <2>1, <2>2, <2>3, <2>4 DEF BodyInv, Holds
  <1>14. FirstInv(r)'
    <2>1. /\ handler'[r].state.ttft = handler[r].state.ttft
          /\ handler'[r].state.tokens = handler[r].state.tokens
      BY <1>7, Zenon
    <2>2. ASSUME NEW i \in 1..(n + 1), c[i].doc = "token", handler[r].state.ttft = None,
                 \A k \in 1..(i - 1) : c[k].doc # "token"
          PROVE  c[i].at = TTFT
      <3>1. CASE i = n + 1
        <4>1. \A k \in 1..n : b[k].doc # "token"
          BY <1>3, <2>2, <3>1
        <4>2. QED
          BY <1>3, <2>2, <3>1, <4>1, Zenon DEF Holds
      <3>2. CASE i \in 1..n
        <4>1. b[i].doc = "token" /\ \A k \in 1..(i - 1) : b[k].doc # "token"
          BY <1>3, <2>2, <3>2
        <4>2. QED
          BY <1>1, <1>3, <1>8, <2>2, <3>2, <4>1 DEF Good, FirstInv, Holds
      <3>3. QED
        BY <1>3, <3>1, <3>2
    <2>3. (j.pc = "streaming" /\ j.next > First(r) /\ Tokens > 0) =>
             handler[r].state.ttft # None \/ \E i \in 1..(n + 1) : c[i].doc = "token"
      <3>1. n + 1 \in 1..(n + 1) /\ \A i \in 1..n : i \in 1..(n + 1)
        BY <1>3
      <3>2. e.doc = "token" => c[n + 1].doc = "token"
        BY <1>3, Zenon
      <3>3. ASSUME NEW i \in DOMAIN b, Holds(r, i, {"token"})
            PROVE  i \in 1..n /\ c[i].doc = "token"
        BY <1>3, <3>3, Zenon DEF Holds
      <3>4. QED
        BY <3>1, <3>2, <3>3, Zenon
    <2>4. /\ handler[r].state.ttft \in {None, TTFT}
          /\ (handler[r].state.ttft = None) <=> (handler[r].state.tokens = 0)
          /\ \A i \in DOMAIN metric[r].ttft : metric[r].ttft[i] = TTFT /\ wire[r].mode.stream
      BY <1>1, Zenon DEF Good, FirstInv
    <2>5. /\ handler'[r].state.ttft \in {None, TTFT}
          /\ (handler'[r].state.ttft = None) <=> (handler'[r].state.tokens = 0)
          /\ \A i \in DOMAIN metric'[r].ttft : metric'[r].ttft[i] = TTFT /\ wire'[r].mode.stream
      BY <1>6, <1>7, <2>1, <2>4
    <2>6. \A i \in DOMAIN wire'[r].body :
            (/\ wire'[r].body[i].doc \in {"token"} /\ handler'[r].state.ttft = None
             /\ \A k \in 1..(i - 1) : ~(wire'[r].body[k].doc \in {"token"}))
              => wire'[r].body[i].at = TTFT
      <3> SUFFICES ASSUME NEW i \in DOMAIN wire'[r].body, wire'[r].body[i].doc \in {"token"},
                          handler'[r].state.ttft = None,
                          \A k \in 1..(i - 1) : ~(wire'[r].body[k].doc \in {"token"})
                   PROVE  wire'[r].body[i].at = TTFT
        BY Zenon
      <3>1. i \in 1..(n + 1) /\ c[i].doc = "token" /\ handler[r].state.ttft = None
        BY <1>3, <1>6, <2>1, Zenon
      <3>2. \A k \in 1..(i - 1) : c[k].doc # "token"
        BY <1>6, Zenon
      <3>3. c[i].at = TTFT
        BY <2>2, <3>1, <3>2, Zenon
      <3>4. QED
        BY <1>6, <3>3, Zenon
    <2>7. (job'[r].pc = "streaming" /\ job'[r].next > First(r)' /\ Tokens > 0) =>
            \/ handler'[r].state.ttft # None
            \/ \E i \in DOMAIN wire'[r].body : wire'[r].body[i].doc \in {"token"}
      BY <1>3, <1>5, <1>6, <1>10, <2>1, <2>3, Zenon
    <2>8. QED
      BY <2>5, <2>6, <2>7, Zenon DEF FirstInv, Holds
  <1>15. CopyInv(r)'
    BY <1>1, <1>6, <1>7 DEF Good, CopyInv
  <1>16. HurtInv(r)'
    <2>1. ASSUME j.pc = "returning" PROVE c[n + 1].doc = "done" /\ n + 1 \in 1..(n + 1)
      BY <1>3, <2>1
    <2>2. \A i \in 1..(n + 1) : c[i].doc # "reset"
      BY <1>3, <1>8
    <2>3. QED
      BY <1>3, <1>5, <1>6, <1>7, <1>8, <2>1, <2>2 DEF HurtInv, Holds
  <1>17. BlameInv(r)'
    BY <1>1, <1>7, Zenon DEF Good, BlameInv, Saw
  <1>18. AgreeInv(r)'
    BY <1>1, <1>7 DEF Good, AgreeInv, Saw
  <1>19. QED
    BY <1>4, <1>11, <1>12, <1>13, <1>14, <1>15, <1>16, <1>17, <1>18, OneJob, Zenon DEF Good

(* The frames of a stream and the sleeps before them.                      *)
LEMMA Concat ==
  ASSUME NEW X, NEW s \in Seq(X), NEW t \in Seq(X)
  PROVE  /\ s \o t \in Seq(X) /\ Len(s \o t) = Len(s) + Len(t)
         /\ \A i \in 1..Len(s) : (s \o t)[i] = s[i]
         /\ \A i \in (Len(s) + 1)..(Len(s) + Len(t)) : (s \o t)[i] = t[i - Len(s)]
  OBVIOUS

LEMMA ChunksAre ==
  ASSUME NEW mode
  PROVE  /\ E!FirstContent(mode) \in {1, 2}
         /\ Len(E!Chunks(mode)) = E!FirstContent(mode) + Tokens
         /\ \A i \in 1..(E!FirstContent(mode) + Tokens) :
              E!Chunks(mode)[i] =
                IF i >= E!FirstContent(mode) /\ i < E!FirstContent(mode) + Tokens
                THEN "token" ELSE "frame"
  <1> DEFINE X == {"frame", "token"}
             a == IF mode.op = "chat" THEN <<"frame">> ELSE << >>
             t == [i \in 1..Tokens |-> "token"]
             z == <<"frame">>
             b == a \o t
             c == b \o z
             f == E!FirstContent(mode)
  <1>1. t \in Seq(X) /\ Len(t) = Tokens /\ \A i \in 1..Tokens : t[i] = "token"
    BY DataPlaneAssumption
  <1>2. z \in Seq(X) /\ Len(z) = 1 /\ z[1] = "frame"
    OBVIOUS
  <1>3. /\ a \in Seq(X) /\ f \in {1, 2} /\ Len(a) = f - 1
        /\ \A i \in 1..(f - 1) : a[i] = "frame"
    <2>1. CASE mode.op = "chat"
      <3>1. a = <<"frame">> /\ f = 2
        BY <2>1, Zenon DEF E!FirstContent
      <3>2. a \in Seq(X) /\ Len(a) = 1 /\ a[1] = "frame"
        BY <1>2, <3>1, Zenon
      <3>3. \A i \in 1..(2 - 1) : i = 1
        OBVIOUS
      <3> HIDE DEF a, f
      <3>4. QED
        BY <3>1, <3>2, <3>3
    <2>2. CASE mode.op # "chat"
      <3>1. a = << >> /\ f = 1
        BY <2>2, Zenon DEF E!FirstContent
      <3>2. QED
        BY <3>1
    <2>3. QED
      BY <2>1, <2>2, Zenon
  <1>4. E!Chunks(mode) = c
    BY Zenon DEF E!Chunks
  <1>f. f \in Nat /\ f >= 1 /\ Tokens \in Nat
    BY <1>3, DataPlaneAssumption
  <1> HIDE DEF X, a, t, z, f
  <1>5. /\ b \in Seq(X) /\ Len(b) = f - 1 + Tokens
        /\ \A i \in 1..(f - 1) : b[i] = a[i]
        /\ \A i \in f..(f - 1 + Tokens) : b[i] = t[i - (f - 1)]
    BY <1>f, <1>1, <1>3, Concat
  <1>6. \A i \in f..(f - 1 + Tokens) : b[i] = "token"
    <2>1. ASSUME NEW i \in f..(f - 1 + Tokens) PROVE b[i] = "token"
      <3>1. i - (f - 1) \in 1..Tokens
        BY <1>f
      <3>2. QED
        BY <1>1, <1>5, <3>1, Zenon
    <2>2. QED
      BY <2>1, Zenon
  <1> HIDE DEF b
  <1>7. /\ Len(c) = f + Tokens
        /\ \A i \in 1..(f - 1 + Tokens) : c[i] = b[i]
        /\ \A i \in (f - 1 + Tokens + 1)..(f - 1 + Tokens + 1) : c[i] = z[i - (f - 1 + Tokens)]
    <2>1. Len(c) = Len(b) + Len(z)
      BY <1>2, <1>5, Concat, Zenon
    <2>2. /\ \A i \in 1..Len(b) : c[i] = b[i]
          /\ \A i \in (Len(b) + 1)..(Len(b) + Len(z)) : c[i] = z[i - Len(b)]
      BY <1>2, <1>5, Concat
    <2>3. Len(b) = f - 1 + Tokens /\ Len(z) = 1
      BY <1>2, <1>5, Zenon
    <2>4. (f - 1 + Tokens) + 1 = f + Tokens
      BY <1>f
    <2>5. Len(c) = f + Tokens
      BY <2>1, <2>3, <2>4, Zenon
    <2>6. QED
      BY <2>2, <2>3, <2>5, Zenon
  <1> HIDE DEF c
  <1>8. c[f + Tokens] = "frame"
    <2>1. f + Tokens - (f - 1 + Tokens) = 1 /\ f - 1 + Tokens + 1 = f + Tokens
      BY <1>f
    <2>2. QED
      BY <1>f, <1>2, <1>7, <2>1
  <1>9. ASSUME NEW i \in 1..(f + Tokens)
        PROVE  c[i] = IF i >= f /\ i < f + Tokens THEN "token" ELSE "frame"
    <2>1. CASE i < f
      <3>1. i \in 1..(f - 1) /\ i \in 1..(f - 1 + Tokens) /\ ~(i >= f)
        BY <1>f, <2>1
      <3>2. QED
        BY <1>3, <1>5, <1>7, <3>1, Zenon
    <2>2. CASE i >= f /\ i < f + Tokens
      <3>1. i \in f..(f - 1 + Tokens) /\ i \in 1..(f - 1 + Tokens)
        BY <1>f, <2>2
      <3>2. QED
        BY <1>6, <1>7, <2>2, <3>1, Zenon
    <2>3. CASE i = f + Tokens
      BY <1>f, <1>8, <2>3
    <2>4. QED
      BY <1>f, <2>1, <2>2, <2>3
  <1>10. QED
    BY <1>3, <1>4, <1>7, <1>9, Zenon DEF f

LEMMA DueStep ==
  ASSUME NEW i \in Nat \ {0}, NEW f \in {1, 2}
  PROVE  /\ Due(i, f) \in Nat /\ E!Delay(i, f) \in Nat
         /\ Due(i, f) + E!Delay(i, f) = Due(i + 1, f)
  <1>1. TTFT \in Nat /\ ITL \in Nat
    BY DataPlaneAssumption, Zenon
  <1>2. \A k \in Nat : k * ITL \in Nat /\ k * ITL + ITL = (k + 1) * ITL
    BY <1>1
  <1>3. CASE i < f
    BY <1>1, <1>3 DEF Due, E!Delay
  <1>4. CASE i = f
    <2>1. (i + 1 - 1 - f) * ITL = 0
      BY <1>1, <1>4
    <2>2. QED
      BY <1>1, <1>4, <2>1 DEF Due, E!Delay
  <1>5. CASE i > f
    <2>1. i - 1 - f \in Nat /\ i + 1 - 1 - f = i - 1 - f + 1
      BY <1>5
    <2>2. (i - 1 - f) * ITL \in Nat /\ (i - 1 - f) * ITL + ITL = (i + 1 - 1 - f) * ITL
      BY <1>2, <2>1, Zenon
    <2>3. QED
      BY <1>1, <1>5, <2>2 DEF Due, E!Delay
  <1>6. QED
    BY <1>3, <1>4, <1>5

LEMMA EmitKeeps ==
  ASSUME DInv, EngineFrame, NEW r \in Reqs, E!Emit(r)
  PROVE  DInv'
  <1> DEFINE chunks == E!Chunks(wire[r].mode)
             i      == job[r].next
             f      == First(r)
             clock  == job[r].clock + E!Delay(i, f)
  <1>1. Good(r) /\ TypeInv
    BY Zenon DEF DInv
  <1>2. job[r] \in JobType /\ i \in Nat \ {0} /\ job[r].clock \in Nat
    <2>1. job[r] \in JobType
      BY <1>1, Typed, Zenon
    <2>2. QED
      BY <2>1, Zenon DEF JobType
  <1>3. /\ wire[r].open /\ job[r].pc = "streaming" /\ Underway(r)
        /\ i <= f + Tokens + 1 /\ job[r].clock = Due(i, f)
    BY <1>1, Zenon DEF E!Emit, Good, ClockInv, Together, Underway
  <1>4. /\ f \in {1, 2} /\ Len(chunks) = f + Tokens
        /\ \A k \in 1..(f + Tokens) :
             chunks[k] = IF k >= f /\ k < f + Tokens THEN "token" ELSE "frame"
    BY ChunksAre, Zenon DEF First
  <1>5. clock = Due(i + 1, f) /\ clock \in Nat
    <2>1. /\ Due(i, f) \in Nat /\ E!Delay(i, f) \in Nat
          /\ Due(i, f) + E!Delay(i, f) = Due(i + 1, f)
      BY <1>2, <1>4, DueStep, Zenon
    <2>2. clock = Due(i, f) + E!Delay(i, f)
      BY <1>3, Zenon
    <2>3. QED
      BY <2>1, <2>2
  <1> HIDE DEF clock
  <1>6. CASE i <= Len(chunks)
    <2> DEFINE e == E!At(chunks[i], clock)
               j == [job[r] EXCEPT !.next = i + 1, !.clock = clock]
    <2>1. wire' = [wire EXCEPT ![r].body = Append(@, e)] /\ job' = [job EXCEPT ![r] = j]
      BY <1>1, <1>2, <1>6, ZenonT(30) DEF E!Emit, First, TypeInv, JobType, clock
    <2>2. /\ j \in JobType /\ j.pc = "streaming" /\ j.next = i + 1 /\ j.clock = clock
      <3>1. job[r] \in JobType /\ i + 1 \in Nat \ {0} /\ clock \in Nat
        BY <1>2, <1>5
      <3>2. j \in JobType
        BY <3>1, Zenon DEF JobType
      <3>3. j.pc = job[r].pc /\ j.next = i + 1 /\ j.clock = clock
        BY <3>1, Zenon DEF JobType
      <3>4. QED
        BY <1>3, <3>2, <3>3, Zenon
    <2>3. /\ chunks[i] = IF i >= f /\ i < f + Tokens THEN "token" ELSE "frame"
      BY <1>2, <1>4, <1>6, DataPlaneAssumption
    <2>4. e \in Event /\ e.doc = chunks[i] /\ e.at = clock
      BY <1>5, <2>3, Zenon DEF E!At, Event, Docs
    <2>5. (/\ e.doc = "token" /\ handler[r].state.ttft = None
           /\ \A k \in DOMAIN wire[r].body : ~Holds(r, k, {"token"})) => e.at = TTFT
      <3> SUFFICES ASSUME e.doc = "token", handler[r].state.ttft = None,
                          \A k \in DOMAIN wire[r].body : ~Holds(r, k, {"token"})
                   PROVE  e.at = TTFT
        BY Zenon
      <3>1. i >= f /\ Tokens > 0
        BY <1>2, <1>4, <2>3, <2>4, DataPlaneAssumption
      <3>2. ~(i > f)
        BY <1>1, <1>3, <3>1, Zenon DEF Good, FirstInv
      <3>3. i = f
        BY <1>2, <1>4, <3>1, <3>2
      <3>4. (i + 1 - 1 - f) * ITL = 0
        BY <1>4, <3>3, DataPlaneAssumption
      <3>5. QED
        BY <1>4, <1>5, <2>4, <3>3, <3>4, DataPlaneAssumption DEF Due
    <2>6. (i + 1 > f /\ Tokens > 0) =>
             \/ handler[r].state.ttft # None
             \/ e.doc = "token"
             \/ \E k \in DOMAIN wire[r].body : Holds(r, k, {"token"})
      <3>1. CASE i > f
        BY <1>1, <1>3, <3>1, Zenon DEF Good, FirstInv
      <3>2. CASE i = f
        <4>1. Tokens > 0 => i >= f /\ i < f + Tokens
          BY <1>4, <3>2, DataPlaneAssumption
        <4>2. QED
          BY <2>3, <2>4, <4>1, Zenon
      <3>3. CASE i < f
        BY <1>2, <1>4, <3>3
      <3>4. QED
        BY <1>2, <1>4, <3>1, <3>2, <3>3
    <2>7. i + 1 <= f + Tokens + 1
      BY <1>2, <1>4, <1>6, DataPlaneAssumption
    <2>8. e.doc \in {"frame", "token"}
      BY <2>3, <2>4, Zenon
    <2> HIDE DEF e, j, f, clock, chunks
    <2>9. QED
      BY <1>3, <1>5, <2>1, <2>2, <2>4, <2>5, <2>6, <2>7, <2>8, EventKeeps, Zenon DEF f
  <1>7. CASE ~(i <= Len(chunks))
    <2> DEFINE e == E!At("done", job[r].clock)
               j == [job[r] EXCEPT !.pc = "returning"]
    <2>1. wire' = [wire EXCEPT ![r].body = Append(@, e)] /\ job' = [job EXCEPT ![r] = j]
      BY <1>1, <1>2, <1>7, Zenon DEF E!Emit, TypeInv, JobType
    <2>2. j \in JobType /\ j.pc = "returning" /\ j.clock = job[r].clock
      BY <1>2, Zenon DEF JobType
    <2>3. e \in Event /\ e.doc = "done"
      BY <1>2, Zenon DEF E!At, Event, Docs
    <2>4. i = f + Tokens + 1
      BY <1>2, <1>3, <1>4, <1>7, DataPlaneAssumption
    <2>5. i - 1 - f = Tokens /\ ~(i <= f)
      BY <1>4, <2>4, DataPlaneAssumption
    <2>6. j.clock = TTFT + Tokens * ITL
      BY <1>3, <2>2, <2>5, Zenon DEF Due
    <2> HIDE DEF e, j
    <2>7. QED
      BY <1>3, <2>1, <2>2, <2>3, <2>6, EventKeeps, Zenon
  <1>8. QED
    BY <1>6, <1>7, Zenon

LEMMA EndBodyKeeps ==
  ASSUME DInv, EngineFrame, NEW r \in Reqs, E!EndBody(r)
  PROVE  DInv'
  <1> DEFINE e == E!At("eof", job[r].clock)
             j == [job[r] EXCEPT !.pc = "done"]
  <1>1. Good(r) /\ TypeInv /\ wire[r].open /\ job[r].pc = "returning"
    BY Zenon DEF DInv, E!EndBody
  <1>2. job[r] \in JobType /\ job[r].clock \in Nat
    <2>1. job[r] \in JobType
      BY <1>1, Typed, Zenon
    <2>2. QED
      BY <2>1, Zenon DEF JobType
  <1>3. wire' = [wire EXCEPT ![r].body = Append(@, e)] /\ job' = [job EXCEPT ![r] = j]
    BY <1>1, <1>2, Zenon DEF E!EndBody, TypeInv, JobType
  <1>4. j \in JobType /\ j.pc = "done" /\ j.clock = job[r].clock
    BY <1>2, Zenon DEF JobType
  <1>5. e \in Event /\ e.doc = "eof"
    BY <1>2, Zenon DEF E!At, Event, Docs
  <1>6. j.clock = TTFT + Tokens * ITL
    BY <1>1, <1>4, Zenon DEF Good, ClockInv
  <1> HIDE DEF e, j
  <1>7. QED
    BY <1>1, <1>3, <1>4, <1>5, <1>6, EventKeeps, Zenon

(* Every step of the engine on one request.                                *)
LEMMA EngineStepKeeps ==
  ASSUME DInv, NEW r \in Reqs, EngineStep(r)
  PROVE  DInv'
  <1>1. EngineFrame
    BY Zenon DEF EngineStep, EngineFrame
  <1>2. Good(r) /\ TypeInv
    BY Zenon DEF DInv
  <1>3. wire[r] \in WireType /\ job[r] \in JobType
    BY <1>2, Typed, Zenon
  <1>4. TTFT + Tokens * ITL \in Nat
    BY DataPlaneAssumption
  <1>5. CASE E!AnswerLoading(r)
    BY <1>1, <1>5, WriteJSONKeeps, Zenon DEF E!AnswerLoading, E!Arrived
  <1>6. CASE E!HandleModels(r)
    BY <1>1, <1>6, WriteJSONKeeps, Zenon DEF E!HandleModels, E!Arrived
  <1>7. CASE E!HandleCompletion(r)
    <2>1. wire[r].open /\ wire[r].header = "none" /\ job[r].pc = "none" /\ E!Arrived(r)
      BY <1>7, Zenon DEF E!HandleCompletion, E!Arrived
    <2>2. CASE wire[r].mode.op = "garbled" /\ E!WriteJSON(r, "400", "frame", 0)
      BY <1>1, <2>1, <2>2, WriteJSONKeeps, Zenon
    <2>3. CASE E!WriteJSON(r, "500", "frame", 0)
      BY <1>1, <2>1, <2>3, WriteJSONKeeps, Zenon
    <2>4. CASE /\ wire[r].mode.op \in {"chat", "text"} /\ wire[r].mode.stream
               /\ wire' = [wire EXCEPT ![r].header = "sse"]
               /\ job' = [job EXCEPT ![r].pc = "streaming"]
      BY <1>1, <2>1, <2>4, StreamKeeps, Zenon
    <2>5. CASE job' = [job EXCEPT ![r].pc = "answering"] /\ wire' = wire
      <3> DEFINE j == [job[r] EXCEPT !.pc = "answering"]
      <3>1. j \in JobType
        BY <1>3, Zenon DEF JobType
      <3>2. job' = [job EXCEPT ![r] = j]
        BY <1>2, <2>5, Zenon DEF TypeInv
      <3>3. QED
        BY <1>1, <2>1, <2>5, <3>1, <3>2, JobAloneKeeps, Zenon
    <2>6. QED
      BY <1>7, <2>2, <2>3, <2>4, <2>5, Zenon DEF E!HandleCompletion
  <1>8. CASE E!Emit(r)
    BY <1>1, <1>8, EmitKeeps, Zenon
  <1>9. CASE E!EndBody(r)
    BY <1>1, <1>9, EndBodyKeeps, Zenon
  <1>10. CASE E!Answer(r)
    <2>1. wire[r].open /\ wire[r].header = "none" /\ job[r].pc = "answering"
      BY <1>2, <1>10, Zenon DEF E!Answer, Good, Together
    <2>2. E!WriteJSON(r, "200", "usage", TTFT + Tokens * ITL)
      BY <1>10, Zenon DEF E!Answer
    <2>3. QED
      BY <1>1, <1>4, <2>1, <2>2, WriteJSONKeeps, Zenon
  <1>11. CASE E!StopGenerating(r)
    <2> DEFINE j == [E!NoJob EXCEPT !.pc = "gone"]
    <2>1. j \in JobType /\ j.pc = "gone"
      BY DEF E!NoJob, JobType
    <2>2. /\ wire' = wire /\ job' = [job EXCEPT ![r] = j]
          /\ ~wire[r].open /\ E!Generating(r)
      BY <1>11, Zenon DEF E!StopGenerating
    <2> HIDE DEF j
    <2>3. QED
      BY <1>1, <2>1, <2>2, JobAloneKeeps, Zenon
  <1>12. QED
    BY <1>5, <1>6, <1>7, <1>8, <1>9, <1>10, <1>11, Zenon DEF EngineStep

-----------------------------------------------------------------------------
(* The steps that touch several requests, or none.                         *)

(* To show the invariant after a step of the pod or of the clients, look   *)
(* at each request and at the clients.                                     *)
LEMMA EachRequest ==
  ASSUME TypeInv', ClientInv', \A r \in Reqs : Good(r)'
  PROVE  DInv'
  BY Zenon DEF DInv

LEMMA NothingKeeps ==
  ASSUME DInv, UNCHANGED <<wire, job, handler, metric, call, worker, left, canceled, hurt>>
  PROVE  DInv'
  <1>1. TypeInv' /\ ClientInv'
    BY DEF DInv, TypeInv, ClientInv
  <1>2. ASSUME NEW r \in Reqs PROVE Good(r)'
    BY UntouchedStaysGood, Zenon DEF DInv, Untouched
  <1>3. QED
    BY <1>1, <1>2, EachRequest, Zenon

(* A connection of the engine that dies is reset, and what was on its way  *)
(* is still there to be read.                                              *)
LEMMA ResetKeeps ==
  ASSUME DInv, NEW r \in Reqs, E!Unfinished(r),
         handler'[r] = handler[r], metric'[r] = metric[r], call'[r] = call[r], left'[r] = left[r],
         job'[r] = IF E!Generating(r) THEN [E!NoJob EXCEPT !.pc = "gone"] ELSE job[r],
         wire'[r] = [wire[r] EXCEPT !.body = Append(@, E!At("reset", job[r].clock)),
                                    !.header = IF @ = "none" THEN "refused" ELSE @],
         r \in hurt => r \in hurt',
         r \in hurt' <=> (r \in hurt \/ job[r].pc # "returning")
  PROVE  Good(r)'
  <1> DEFINE b == wire[r].body
             x == E!At("reset", job[r].clock)
             c == Append(b, x)
             y == IF wire[r].header = "none" THEN "refused" ELSE wire[r].header
             w == [wire[r] EXCEPT !.body = c, !.header = y]
             n == Len(b)
             j == job'[r]
  <1>1. Good(r) /\ TypeInv /\ wire[r] \in WireType /\ job[r] \in JobType
    BY Typed, Zenon DEF DInv
  <1>2. b \in BodyType /\ x \in Event /\ x.doc = "reset"
    BY <1>1, Zenon DEF WireType, JobType, E!At, Event, Docs
  <1>3. /\ c \in BodyType /\ c # << >> /\ n \in Nat /\ DOMAIN b = 1..n
        /\ Len(c) = n + 1 /\ DOMAIN c = 1..(n + 1)
        /\ \A i \in 1..n : c[i] = b[i]
        /\ c[n + 1] = x
    BY <1>2, AppendBody, ZenonT(30)
  <1> HIDE DEF x, c, y, n
  <1>4. /\ w.body = c /\ w.header = y /\ w.mode = wire[r].mode /\ w.open = wire[r].open
    BY <1>1, Zenon DEF WireType
  <1>5. wire'[r] = w
    BY Zenon DEF x, c, y
  <1> HIDE DEF w
  <1>6. /\ wire[r].open /\ job[r].pc \in {"none", "streaming", "answering", "returning"}
        /\ job[r].pc = "none" => wire[r].header = "none" /\ j = job[r]
        /\ job[r].pc # "none" => j = [E!NoJob EXCEPT !.pc = "gone"]
    BY Zenon DEF E!Unfinished, E!Arrived, E!Generating
  <1>7. job[r].pc # "none" => j.pc = "gone"
    BY <1>6, Zenon DEF E!NoJob
  <1> HIDE DEF j
  <1>8. Underway(r) /\ Underway(r)' /\ Underway(r)' = Underway(r) /\ handler[r].pc # "none"
    <2>1. Underway(r)
      BY <1>1, <1>6, Zenon DEF Good, Together
    <2>2. QED
      BY <2>1, Zenon DEF Underway
  <1>9. /\ job[r].pc \in {"none", "answering"} => wire[r].header = "none"
        /\ job[r].pc \in {"streaming", "returning"} => wire[r].header = "sse"
        /\ wire[r].header = "none" => b = << >>
        /\ job[r].pc = "none" => job[r] = E!NoJob
        /\ wire[r].mode \in ModeType
        /\ wire[r].header = "sse" => wire[r].mode \in [op : {"chat", "text"}, stream : {TRUE}]
    BY <1>1, <1>6, <1>8, Zenon DEF Good, Together
  <1>10. wire[r].header \in {"none", "sse"} /\ y \in {"refused", "sse"}
         /\ (y = "sse") = (wire[r].header = "sse") /\ (y = "refused") = (wire[r].header = "none")
    BY <1>6, <1>9, Zenon DEF y
  <1>11. j.pc \in {"none", "gone"} /\ (y = "sse" => j.pc = "gone")
    BY <1>6, <1>7, <1>9, <1>10, Zenon
  <1>12. \A docs : /\ \A i \in 1..n : Holds(r, i, docs)' = Holds(r, i, docs)
                   /\ \A i \in 1..(n + 1) : i = n + 1 => Holds(r, i, docs)' = ("reset" \in docs)
    BY <1>2, <1>3, <1>4, <1>5, Zenon DEF Holds
  <1>13. /\ DOMAIN wire'[r].body = 1..(n + 1) /\ Len(wire'[r].body) = n + 1 /\ wire'[r].body # << >>
         /\ wire'[r].header = y /\ wire'[r].mode = wire[r].mode /\ wire'[r].open = wire[r].open
         /\ job'[r] = j /\ Saw(r)' = Saw(r) /\ (y = "refused" => n = 0)
    BY <1>3, <1>4, <1>5, <1>9, <1>10, Zenon DEF j, Saw, n
  <1>14. \A i \in 1..(n + 1) : i \in 1..n \/ i = n + 1
    BY <1>3
  <1>15. /\ \A i \in 1..n :
              /\ ~Holds(r, i, {"eof", "reset"})
              /\ Holds(r, i, {"done"}) => job[r].pc # "streaming" /\ ~Saw(r)
              /\ Holds(r, i, {"token"}) => ~Saw(r)
              /\ \A k \in 1..n : (Holds(r, i, {"done"}) /\ k > i) => Holds(r, k, {"eof", "reset"})
         /\ Saw(r) => job[r].pc # "streaming"
    <2>1. /\ \A i \in DOMAIN b :
               /\ Holds(r, i, {"eof", "reset"}) =>
                    job[r].pc \notin {"streaming", "answering", "returning"}
               /\ Holds(r, i, {"done"}) => job[r].pc # "streaming" /\ ~Saw(r)
               /\ Holds(r, i, {"token"}) => ~Saw(r)
               /\ \A k \in DOMAIN b : (Holds(r, i, {"done"}) /\ k > i) => Holds(r, k, {"eof", "reset"})
               /\ Holds(r, i, {"token", "done", "reset"}) => wire[r].header \in {"sse", "refused"}
          /\ Saw(r) => job[r].pc # "streaming"
      BY <1>1, <1>8, Zenon DEF Good, BodyInv
    <2>2. \A i \in 1..n : job[r].pc # "none"
      BY <1>3, <1>9, <1>10, <1>13
    <2>3. QED
      BY <1>3, <1>6, <2>1, <2>2, Zenon
  <1>16. Together(r)'
    BY <1>1, <1>7, <1>8, <1>9, <1>10, <1>11, <1>13, <1>6, Zenon DEF Good, Together
  <1>17. ClockInv(r)'
    BY <1>11, <1>13, Zenon DEF ClockInv
  <1>18. BodyInv(r)'
    <2>1. ASSUME NEW i \in 1..(n + 1)
          PROVE  /\ Holds(r, i, {"eof", "reset"})' => i = n + 1
                 /\ Holds(r, i, {"done"})' => ~Saw(r)
                 /\ Holds(r, i, {"token"})' => ~Saw(r)
                 /\ \A k \in 1..(n + 1) : (Holds(r, i, {"done"})' /\ k > i) => Holds(r, k, {"eof", "reset"})'
      <3>1. CASE i \in 1..n
        <4>1. ASSUME NEW k \in 1..(n + 1), Holds(r, i, {"done"})', k > i
              PROVE  Holds(r, k, {"eof", "reset"})'
          BY <1>12, <1>14, <1>15, <3>1, <4>1, Zenon
        <4>2. QED
          BY <1>12, <1>15, <3>1, <4>1, Zenon
      <3>2. CASE i = n + 1
        BY <1>12, <3>2, Zenon
      <3>3. QED
        BY <1>14, <3>1, <3>2, Zenon
    <2>2. wire'[r].header \in {"sse", "refused"} /\ job'[r].pc \notin {"streaming", "answering", "returning"}
      BY <1>10, <1>11, <1>13, Zenon
    <2> HIDE DEF Holds, Saw
    <2>3. QED
      BY <1>13, <2>1, <2>2, Zenon DEF BodyInv
  <1>19. FirstInv(r)'
    <2>1. /\ handler[r].state.ttft \in {None, TTFT}
          /\ handler[r].state.ttft = None <=> handler[r].state.tokens = 0
          /\ \A i \in DOMAIN metric[r].ttft : metric[r].ttft[i] = TTFT /\ wire[r].mode.stream
          /\ \A i \in 1..n :
               (/\ Holds(r, i, {"token"}) /\ handler[r].state.ttft = None
                /\ \A k \in 1..(i - 1) : ~Holds(r, k, {"token"}))
                 => b[i].at = TTFT
      BY <1>1, <1>3, <1>8, Zenon DEF Good, FirstInv
    <2>2. ASSUME NEW i \in 1..(n + 1), Holds(r, i, {"token"})', handler[r].state.ttft = None,
                 \A k \in 1..(i - 1) : ~Holds(r, k, {"token"})'
          PROVE  wire'[r].body[i].at = TTFT
      <3>1. i \in 1..n
        BY <1>12, <1>14, <2>2, Zenon
      <3>2. \A k \in 1..(i - 1) : k \in 1..n
        BY <1>3, <3>1
      <3>3. wire'[r].body[i] = b[i]
        BY <1>3, <1>4, <1>5, <3>1, Zenon
      <3>4. Holds(r, i, {"token"})
        BY <1>12, <2>2, <3>1, Zenon
      <3>5. ASSUME NEW k \in 1..(i - 1) PROVE ~Holds(r, k, {"token"})
        BY <1>12, <2>2, <3>2, Zenon
      <3> HIDE DEF Holds
      <3>6. QED
        BY <2>1, <2>2, <3>1, <3>3, <3>4, <3>5, Zenon
    <2>3. job'[r].pc # "streaming"
      BY <1>11, <1>13, Zenon
    <2> HIDE DEF Holds
    <2>4. QED
      BY <1>13, <2>1, <2>2, <2>3 DEF FirstInv
  <1>20. CopyInv(r)'
    BY <1>1, <1>10, <1>13 DEF Good, CopyInv
  <1>21. HurtInv(r)'
    <2>1. y = "refused" => r \in hurt'
      BY <1>6, <1>9, <1>10, Zenon
    <2>2. (r \in hurt' /\ y = "sse") =>
            /\ ~Saw(r) /\ job[r].pc = "streaming"
      <3>1. SUFFICES ASSUME r \in hurt', y = "sse" PROVE ~Saw(r) /\ job[r].pc = "streaming"
        BY Zenon
      <3>2. job[r].pc \in {"streaming", "returning"} /\ wire[r].header = "sse"
        BY <1>6, <1>9, <1>10, <3>1, Zenon
      <3>3. r \in hurt => job[r].pc = "gone"
        BY <1>1, <1>8, <3>2, Zenon DEF Good, HurtInv
      <3>4. QED
        BY <1>15, <3>1, <3>2, <3>3, Zenon
    <2>3. ASSUME r \in hurt', y = "sse"
          PROVE  /\ \A i \in 1..(n + 1) : ~Holds(r, i, {"done", "eof"})'
                 /\ Holds(r, Len(wire[r].body), {"reset"})' /\ j.pc = "gone" /\ ~Saw(r)
      <3>1. ASSUME NEW i \in 1..(n + 1) PROVE ~Holds(r, i, {"done", "eof"})'
        <4>1. CASE i \in 1..n
          <5>1. ~Holds(r, i, {"done"}) /\ ~Holds(r, i, {"eof", "reset"})
            BY <1>15, <2>2, <2>3, <4>1, Zenon
          <5>2. ~Holds(r, i, {"done", "eof"})
            BY <5>1, Zenon DEF Holds
          <5>3. QED
            BY <1>12, <4>1, <5>2, Zenon
        <4>2. CASE i = n + 1
          BY <1>12, <4>2, Zenon
        <4>3. QED
          BY <1>14, <4>1, <4>2, Zenon
      <3>2. Holds(r, Len(wire[r].body), {"reset"})'
        BY <1>2, <1>3, <1>4, <1>5, <1>13, Zenon DEF Holds
      <3>3. QED
        BY <1>11, <2>2, <2>3, <3>1, <3>2, Zenon
    <2>4. ASSUME NEW i \in 1..(n + 1), Holds(r, i, {"reset"})', r \notin hurt', ~Saw(r)
          PROVE  \E k \in 1..(n + 1) : k < i /\ Holds(r, k, {"done"})'
      <3>1. job[r].pc = "returning"
        BY <2>4, Zenon
      <3>2. PICK k \in 1..n : Holds(r, k, {"done"})
        BY <1>1, <1>3, <1>8, <2>4, <3>1, Zenon DEF Good, HurtInv
      <3>3. i \notin 1..n
        <4>1. i \in 1..n => ~Holds(r, i, {"reset"})
          BY <1>15, Zenon DEF Holds
        <4>2. QED
          BY <1>12, <2>4, <4>1, Zenon
      <3>4. i = n + 1 /\ k < i /\ k \in 1..(n + 1) /\ Holds(r, k, {"done"})'
        <4>1. i = n + 1
          BY <1>14, <3>3, Zenon
        <4>2. k < n + 1 /\ k \in 1..(n + 1)
          BY <1>3
        <4>3. Holds(r, k, {"done"})'
          BY <1>12, <3>2, Zenon
        <4>4. QED
          BY <4>1, <4>2, <4>3, Zenon
      <3>5. QED
        BY <3>4, Zenon
    <2>5. j.pc # "returning"
      BY <1>11, Zenon
    <2> HIDE DEF Holds, Saw
    <2>6. QED
      BY <1>10, <1>13, <2>1, <2>3, <2>4, <2>5, Zenon DEF HurtInv
  <1>22. BlameInv(r)'
    <2>1. handler[r].pc \notin {"recording", "ended"}
      BY <1>8, Zenon DEF Underway
    <2>2. QED
      BY <1>1, <2>1, ZenonT(30) DEF Good, BlameInv
  <1>23. AgreeInv(r)'
    BY <1>1, <1>13 DEF Good, AgreeInv, Saw
  <1>24. QED
    BY <1>16, <1>17, <1>18, <1>19, <1>20, <1>21, <1>22, <1>23, Zenon DEF Good

LEMMA EngineDiesKeeps ==
  ASSUME DInv, EngineDies
  PROVE  DInv'
  <1>1. /\ handler' = handler /\ metric' = metric /\ call' = call /\ worker' = worker
        /\ left' = left /\ canceled' = canceled
        /\ hurt' = hurt \cup { o \in Reqs : E!Unfinished(o) /\ job[o].pc # "returning" }
    BY Zenon DEF EngineDies, ShimSide, ClientSide
  <1>2. /\ job' = [o \in Reqs |-> IF E!Generating(o) THEN [E!NoJob EXCEPT !.pc = "gone"] ELSE job[o]]
        /\ wire' = [o \in Reqs |->
                      IF E!Unfinished(o)
                      THEN [wire[o] EXCEPT !.body = Append(@, E!At("reset", job[o].clock)),
                                           !.header = IF @ = "none" THEN "refused" ELSE @]
                      ELSE wire[o]]
    BY Zenon DEF EngineDies, E!EngineExits
  <1>3. TypeInv /\ ClientInv
    BY Zenon DEF DInv
  <1>4. ClientInv'
    BY <1>1, <1>3, Zenon DEF ClientInv
  <1>5. ASSUME NEW r \in Reqs
        PROVE  Good(r)' /\ job'[r] \in JobType /\ wire'[r] \in WireType
    <2>1. Good(r) /\ wire[r] \in WireType /\ job[r] \in JobType
      BY <1>3, Typed, Zenon DEF DInv
    <2>2. job'[r] = IF E!Generating(r) THEN [E!NoJob EXCEPT !.pc = "gone"] ELSE job[r]
      BY <1>2, Zenon
    <2>3. job'[r] \in JobType /\ (E!Generating(r) => job'[r].pc = "gone")
      BY <2>1, <2>2 DEF JobType, E!NoJob
    <2>4. CASE E!Unfinished(r)
      <3> DEFINE b == Append(wire[r].body, E!At("reset", job[r].clock))
                 y == IF wire[r].header = "none" THEN "refused" ELSE wire[r].header
      <3>1. wire'[r] = [wire[r] EXCEPT !.body = b, !.header = y]
        BY <1>2, <2>4, Zenon
      <3>2. Good(r)'
        <4>1. r \in hurt' <=> (r \in hurt \/ job[r].pc # "returning")
          BY <1>1, <2>4, Zenon
        <4>2. QED
          BY <1>1, <2>2, <2>4, <3>1, <4>1, ResetKeeps, Zenon
      <3>3. E!At("reset", job[r].clock) \in Event /\ wire[r].body \in BodyType
        BY <2>1, Zenon DEF E!At, Event, Docs, JobType, WireType
      <3>4. b \in BodyType /\ y \in {"none", "sse", "200", "400", "500", "503", "refused"}
        BY <2>1, <3>3, AppendBody, Zenon DEF WireType
      <3> HIDE DEF b, y
      <3>5. wire'[r] \in WireType
        BY <2>1, <3>1, <3>4, Zenon DEF WireType
      <3>6. QED
        BY <2>3, <3>2, <3>5, Zenon
    <2>5. CASE ~E!Unfinished(r)
      <3>1. wire'[r] = wire[r] /\ (r \in hurt') = (r \in hurt)
        <4>1. wire'[r] = wire[r]
          BY <1>2, <2>5, Zenon
        <4>2. r \in hurt' <=> r \in hurt
          BY <1>1, <2>5, Zenon
        <4>3. QED
          BY <4>1, <4>2
      <3>2. CASE ~E!Generating(r)
        BY <1>1, <2>1, <2>2, <2>3, <3>1, <3>2, UntouchedStaysGood, Zenon DEF Untouched
      <3>3. CASE E!Generating(r)
        <4>1. ~wire[r].open /\ job'[r].pc = "gone" /\ job[r].pc # "none"
          BY <2>3, <2>5, <3>3, Zenon DEF E!Unfinished, E!Generating
        <4>2. ~Underway(r) /\ Underway(r)' = Underway(r)
          BY <1>1, <2>1, <4>1, Zenon DEF Good, Together, Underway
        <4>3. handler[r].pc # "none"
          BY <2>1, <4>1 DEF Good, Together, E!NoJob
        <4>4. Together(r)'
          BY <1>1, <2>1, <3>1, <4>1, <4>2, <4>3, Zenon DEF Good, Together
        <4>5. ClockInv(r)'
          BY <4>1, Zenon DEF ClockInv
        <4>6. BodyInv(r)'
          BY <4>2, Zenon DEF BodyInv
        <4>7. FirstInv(r)'
          BY <1>1, <2>1, <3>1, <4>2, Zenon DEF Good, FirstInv
        <4>8. CopyInv(r)'
          BY <1>1, <2>1, <3>1, Zenon DEF Good, CopyInv
        <4>9. HurtInv(r)'
          BY <2>1, <3>1, <4>2, Zenon DEF Good, HurtInv
        <4>10. BlameInv(r)' /\ AgreeInv(r)'
          BY <1>1, <2>1, <3>1 DEF Good, BlameInv, AgreeInv, Saw
        <4>11. QED
          BY <2>1, <2>3, <3>1, <4>4, <4>5, <4>6, <4>7, <4>8, <4>9, <4>10, Zenon DEF Good
      <3>4. QED
        BY <3>2, <3>3, Zenon
    <2>6. QED
      BY <2>4, <2>5, Zenon
  <1>6. TypeInv'
    BY <1>1, <1>2, <1>3, <1>5, Zenon DEF TypeInv
  <1>7. QED
    BY <1>4, <1>5, <1>6, EachRequest, Zenon

(* A client sends a request, on a connection nothing has happened on yet.  *)
LEMMA SendStaysGood ==
  ASSUME DInv, NEW w \in Workers, NEW r \in Reqs, NEW mode, mode \in Modes[r], Send(w, r, mode)
  PROVE  DInv'
  <1> DEFINE x == [wire[r] EXCEPT !.mode = mode, !.open = TRUE]
             h == [handler[r] EXCEPT !.pc = "proxying"]
             c == [call[r] EXCEPT !.verdict = "open"]
  <1>1. Good(r) /\ TypeInv /\ ClientInv /\ \A o \in Reqs : Good(o)
    BY Zenon DEF DInv
  <1>2. /\ wire[r] \in WireType /\ handler[r] \in HandlerType /\ metric[r] \in MetricType
        /\ call[r] \in CallType
    BY <1>1, Typed, Zenon
  <1>3. mode \in ModeType
    BY ModesAssumption, Zenon DEF ModeType
  <1>4. /\ worker[w] = None /\ call[r].verdict = "none" /\ handler[r].pc = "none"
        /\ worker' = [worker EXCEPT ![w] = r] /\ left' = left /\ canceled' = canceled
        /\ job' = job /\ hurt' = hurt /\ wire' = [wire EXCEPT ![r] = x]
    BY Zenon DEF Send, L!Issue, S!Begin, EngineSide
  <1>5. handler' = [handler EXCEPT ![r] = h] /\ call' = [call EXCEPT ![r] = c]
    BY <1>1, Zenon DEF Send, L!Issue, S!Begin, TypeInv
  <1>6. PICK m \in MetricType : /\ metric' = [metric EXCEPT ![r] = m]
                                /\ m.ttft = metric[r].ttft /\ m.chunks = metric[r].chunks
                                /\ m.errors = metric[r].errors
    <2> DEFINE m == [metric[r] EXCEPT !.started = metric[r].started + 1]
    <2>1. metric[r].started + 1 \in Nat
      BY <1>2 DEF MetricType
    <2>2. /\ m \in MetricType /\ m.ttft = metric[r].ttft /\ m.chunks = metric[r].chunks
          /\ m.errors = metric[r].errors
      BY <1>2, <2>1, Zenon DEF MetricType
    <2>3. metric' = [metric EXCEPT ![r] = m] \/ metric' = metric
      BY <1>1, Zenon DEF Send, S!Begin, TypeInv
    <2>4. metric = [metric EXCEPT ![r] = metric[r]]
      BY <1>1, Zenon DEF TypeInv
    <2> HIDE DEF m
    <2>5. QED
      BY <1>2, <2>2, <2>3, <2>4, Zenon
  <1>7. /\ x \in WireType /\ x.open = TRUE /\ x.mode = mode /\ x.header = wire[r].header
        /\ x.body = wire[r].body
    BY <1>2, <1>3, Zenon DEF WireType
  <1>8. h \in HandlerType /\ h.pc = "proxying" /\ h.state = handler[r].state
    BY <1>2, Zenon DEF HandlerType
  <1>9. c \in CallType /\ c.verdict = "open" /\ c.tokens = call[r].tokens /\ c.end = call[r].end
    BY <1>2, Zenon DEF CallType
  <1> HIDE DEF x, h, c
  <1>10. /\ wire'[r] = x /\ handler'[r] = h /\ metric'[r] = m /\ call'[r] = c /\ job'[r] = job[r]
    BY <1>1, <1>4, <1>5, <1>6, Zenon DEF TypeInv
  <1>11. /\ wire[r] = E!NoWire /\ job[r] = E!NoJob /\ r \notin hurt /\ handler[r].state = S!NewState
         /\ metric[r].ttft = << >> /\ metric[r].chunks = 0
    BY <1>1, <1>4, Zenon DEF Good, Together, CopyInv
  <1>12. /\ x.header = "none" /\ x.body = << >> /\ job[r].pc = "none"
         /\ h.state.ttft = None /\ h.state.tokens = 0 /\ h.state.sawDone = FALSE
    BY <1>7, <1>8, <1>11 DEF E!NoWire, E!NoJob, S!NewState
  <1>13. Underway(r)'
    BY <1>8, <1>10, Zenon DEF Underway
  <1>14. Good(r)'
    <2>1. Together(r)'
      <3> DEFINE u == Underway(r)'
      <3>1. x.open = u
        <4>1. u \in BOOLEAN
          BY DEF Underway
        <4>2. u
          BY <1>13, Zenon
        <4> HIDE DEF u
        <4>3. QED
          BY <1>7, <4>1, <4>2, Zenon
      <3>2. QED
        BY <1>3, <1>7, <1>8, <1>10, <1>11, <1>12, <3>1, Zenon DEF Together
    <2>2. ClockInv(r)'
      BY <1>10, <1>12, Zenon DEF ClockInv
    <2>3. BodyInv(r)'
      BY <1>10, <1>12 DEF BodyInv
    <2>4. FirstInv(r)'
      BY <1>6, <1>10, <1>11, <1>12 DEF FirstInv
    <2>5. CopyInv(r)'
      BY <1>6, <1>8, <1>10, <1>11, Zenon DEF CopyInv
    <2>6. HurtInv(r)'
      BY <1>4, <1>10, <1>11, <1>12 DEF HurtInv
    <2>7. BlameInv(r)'
      BY <1>1, <1>4, <1>6, <1>8, <1>10 DEF Good, BlameInv
    <2>8. AgreeInv(r)'
      BY <1>1, <1>4, <1>8, <1>9, <1>10, Zenon DEF Good, AgreeInv
    <2>9. QED
      BY <2>1, <2>2, <2>3, <2>4, <2>5, <2>6, <2>7, <2>8, Zenon DEF Good
  <1>15. ASSUME NEW o \in Reqs \ {r} PROVE Good(o)'
    <2>1. Untouched(o)
      BY <1>1, <1>4, <1>5, <1>6, Zenon DEF Untouched, TypeInv
    <2>2. QED
      BY <1>1, <2>1, UntouchedStaysGood, Zenon
  <1>16. TypeInv'
    BY <1>1, <1>4, <1>5, <1>6, <1>7, <1>8, <1>9, Zenon DEF TypeInv
  <1>17. ClientInv'
    <2>1. /\ \A o \in Reqs : o # r => call'[o] = call[o] /\ handler'[o] = handler[o]
          /\ \A v \in Workers : worker'[v] = IF v = w THEN r ELSE worker[v]
          /\ \A v \in Workers : worker[v] # r
      BY <1>1, <1>4, <1>5, Zenon DEF TypeInv, ClientInv
    <2>2. ASSUME NEW v \in Workers, NEW o \in Reqs, worker'[v] = o
          PROVE  /\ call'[o].verdict = "open" /\ ~left'[o]
                 /\ \A u \in Workers : worker'[u] = o => u = v
      BY <1>1, <1>4, <1>9, <1>10, <2>1, <2>2 DEF ClientInv
    <2>3. ASSUME NEW o \in Reqs
          PROVE  /\ canceled'[o] => left'[o]
                 /\ call'[o].verdict = "ok" =>
                      ~left'[o] /\ call'[o].tokens > 0 /\ call'[o].end \in {"done", "eof"}
                 /\ call'[o].verdict = "none" => handler'[o].pc = "none" /\ ~left'[o]
      BY <1>1, <1>4, <1>9, <1>10, <2>1 DEF ClientInv
    <2>4. QED
      BY <2>2, <2>3, Zenon DEF ClientInv
  <1>18. QED
    BY <1>14, <1>15, <1>16, <1>17, EachRequest, Zenon

(* A client that settles a request, or leaves it, moves nothing of what    *)
(* the pod has of it.                                                      *)
LEMMA LeavingKeeps ==
  ASSUME NEW r \in Reqs, Good(r),
         wire'[r] = wire[r], job'[r] = job[r], handler'[r] = handler[r], metric'[r] = metric[r],
         (r \in hurt') = (r \in hurt),
         call'[r].tokens = call[r].tokens, call'[r].end = call[r].end,
         left[r] => left'[r]
  PROVE  Good(r)'
  <1> USE DEF Good
  <1>1. Together(r)' /\ ClockInv(r)'
    BY ZenonT(30) DEF Together, Underway, ClockInv, First
  <1>2. BodyInv(r)'
    BY Zenon DEF BodyInv, Underway, Holds, Saw
  <1>3. FirstInv(r)'
    BY ZenonT(30) DEF FirstInv, Underway, Holds, First
  <1>4. CopyInv(r)'
    BY DEF CopyInv
  <1>5. HurtInv(r)'
    BY Zenon DEF HurtInv, Underway, Holds, Saw
  <1>6. BlameInv(r)'
    BY Zenon DEF BlameInv, Saw
  <1>7. AgreeInv(r)'
    BY ZenonT(30) DEF AgreeInv, Saw
  <1>8. QED
    BY <1>1, <1>2, <1>3, <1>4, <1>5, <1>6, <1>7, Zenon

(* A worker is done with its request.                                      *)
LEMMA SettleKeeps ==
  ASSUME DInv, NEW w \in Workers, worker[w] # None, NEW good \in BOOLEAN, NEW over,
         L!Settle(w, good, over), UNCHANGED <<EngineSide, wire, ShimSide, podVars, hurt>>,
         canceled' = canceled,
         good => /\ left' = left
                 /\ call[worker[w]].tokens > 0 /\ call[worker[w]].end \in {"done", "eof"},
         left' = left \/ left' = [left EXCEPT ![worker[w]] = TRUE]
  PROVE  DInv'
  <1> DEFINE r == worker[w]
             y == IF good THEN "ok" ELSE IF over THEN "dropped" ELSE "failed"
             c == [call[r] EXCEPT !.verdict = y]
  <1>1. TypeInv /\ ClientInv /\ r \in Reqs
    BY Zenon DEF DInv, TypeInv
  <1>2. call[r] \in CallType /\ call[r].verdict = "open" /\ ~left[r]
    BY <1>1, Typed, Zenon DEF ClientInv
  <1>3. y \in {"ok", "dropped", "failed"} /\ (y = "ok" => good)
    BY Zenon
  <1>4. call' = [call EXCEPT ![r].verdict = y] /\ worker' = [worker EXCEPT ![w] = None]
    BY Zenon DEF L!Settle
  <1> HIDE DEF y
  <1>5. c \in CallType /\ c.verdict = y /\ c.tokens = call[r].tokens /\ c.end = call[r].end
    BY <1>2, <1>3, Zenon DEF CallType
  <1>6. call' = [call EXCEPT ![r] = c]
    BY <1>1, <1>4, Zenon DEF TypeInv
  <1> HIDE DEF c
  <1>7. /\ wire' = wire /\ job' = job /\ handler' = handler /\ metric' = metric /\ hurt' = hurt
    BY Zenon DEF EngineSide, ShimSide
  <1>8. /\ \A o \in Reqs : call'[o] = IF o = r THEN c ELSE call[o]
        /\ \A v \in Workers : worker'[v] = IF v = w THEN None ELSE worker[v]
        /\ \A o \in Reqs : o # r => left'[o] = left[o]
        /\ good => left' = left
        /\ \A o \in Reqs : left[o] => left'[o]
    BY <1>1, <1>4, <1>6, Zenon DEF TypeInv
  <1>9. TypeInv'
    <2>1. call' \in [Reqs -> CallType]
      BY <1>1, <1>5, <1>6 DEF TypeInv
    <2>2. worker' \in [Workers -> Reqs \cup {None}]
      BY <1>1, <1>4 DEF TypeInv
    <2>3. left' \in [Reqs -> BOOLEAN]
      BY <1>1, Zenon DEF TypeInv
    <2>4. QED
      BY <1>1, <1>7, <2>1, <2>2, <2>3, Zenon DEF TypeInv
  <1>10. ASSUME NEW o \in Reqs PROVE Good(o)'
    <2>1. Good(o)
      BY Zenon DEF DInv
    <2>2. call'[o].tokens = call[o].tokens /\ call'[o].end = call[o].end
      BY <1>5, <1>8, Zenon
    <2>3. QED
      BY <1>7, <1>8, <2>1, <2>2, LeavingKeeps, Zenon
  <1>11. ClientInv'
    <2>1. None \notin Reqs
      BY NoneAssumption, Zenon
    <2>2. ASSUME NEW v \in Workers, NEW o \in Reqs, worker'[v] = o
          PROVE  /\ call'[o].verdict = "open" /\ ~left'[o]
                 /\ \A u \in Workers : worker'[u] = o => u = v
      <3>1. v # w /\ worker[v] = o
        BY <1>8, <2>1, <2>2, Zenon
      <3>2. o # r
        BY <1>1, <3>1, Zenon DEF ClientInv
      <3> HIDE DEF r
      <3>3. QED
        BY <1>1, <1>8, <2>1, <3>1, <3>2 DEF ClientInv
    <2>3. ASSUME NEW o \in Reqs
          PROVE  /\ canceled'[o] => left'[o]
                 /\ call'[o].verdict = "ok" =>
                      ~left'[o] /\ call'[o].tokens > 0 /\ call'[o].end \in {"done", "eof"}
                 /\ call'[o].verdict = "none" => handler'[o].pc = "none" /\ ~left'[o]
      <3>1. CASE o = r
        BY <1>1, <1>2, <1>3, <1>5, <1>8, <3>1, ZenonT(30) DEF ClientInv
      <3>2. CASE o # r
        BY <1>1, <1>7, <1>8, <3>2, ZenonT(30) DEF ClientInv
      <3>3. QED
        BY <3>1, <3>2, Zenon
    <2>4. QED
      BY <2>2, <2>3, Zenon DEF ClientInv
  <1>12. QED
    BY <1>9, <1>10, <1>11, EachRequest, Zenon

LEMMA ClientStepKeeps ==
  ASSUME DInv, ClientStep
  PROVE  DInv'
  <1>1. UNCHANGED <<EngineSide, wire, ShimSide, podVars, hurt>>
    BY Zenon DEF ClientStep
  <1>2. ASSUME NEW w \in Workers, NEW over \in BOOLEAN, L!GiveUp(w, over)
        PROVE  DInv'
    BY <1>1, <1>2, SettleKeeps, Zenon DEF L!GiveUp
  <1>3. ASSUME NEW w \in Workers, worker[w] # None, L!Return(w, handler[worker[w]].status)
        PROVE  DInv'
    <2> DEFINE good == L!Succeeded(call[worker[w]], handler[worker[w]].status)
    <2>1. /\ good \in BOOLEAN
          /\ good => call[worker[w]].tokens > 0 /\ call[worker[w]].end \in {"done", "eof"}
      BY Zenon DEF L!Succeeded
    <2>2. L!Settle(w, good, ended) /\ left' = left /\ canceled' = canceled
      BY <1>3, Zenon DEF L!Return
    <2> HIDE DEF good
    <2>3. QED
      BY <1>1, <1>3, <2>1, <2>2, SettleKeeps, Zenon
  <1>4. ASSUME NEW r \in Reqs, L!NoticeLeft(r)
        PROVE  DInv'
    <2>1. /\ left[r] /\ canceled' = [canceled EXCEPT ![r] = TRUE]
          /\ worker' = worker /\ call' = call /\ left' = left
          /\ wire' = wire /\ job' = job /\ handler' = handler /\ metric' = metric /\ hurt' = hurt
      BY <1>1, <1>4, Zenon DEF L!NoticeLeft, EngineSide, ShimSide
    <2>2. TypeInv' /\ ClientInv'
      BY <2>1 DEF DInv, TypeInv, ClientInv
    <2>3. ASSUME NEW o \in Reqs PROVE Good(o)'
      BY <2>1, UntouchedStaysGood, Zenon DEF DInv, Untouched
    <2>4. QED
      BY <2>2, <2>3, EachRequest, Zenon
  <1>5. QED
    BY <1>2, <1>3, <1>4, Zenon DEF ClientStep

LEMMA InitGood ==
  ASSUME Init
  PROVE  DInv
  <1>1. /\ job = [r \in Reqs |-> E!NoJob] /\ wire = [r \in Reqs |-> E!NoWire]
        /\ handler = [r \in Reqs |-> S!NoHandler] /\ metric = [r \in Reqs |-> S!NoMetric]
        /\ worker = [w \in Workers |-> None] /\ call = [r \in Reqs |-> L!NoCall]
        /\ left = [r \in Reqs |-> FALSE] /\ canceled = [r \in Reqs |-> FALSE] /\ hurt = {}
    BY Zenon DEF Init, E!EngineInit, S!ShimInit, L!ClientInit
  <1>2. /\ << >> \in BodyType /\ << >> \in Seq(Nat)
        /\ << >> \in Seq({"client_canceled", "unreachable", "stream_aborted"})
    BY DEF BodyType
  <1>3. E!NoJob \in JobType /\ E!NoWire \in WireType /\ L!NoCall \in CallType
    BY <1>2 DEF E!NoJob, E!NoWire, L!NoCall, JobType, WireType, CallType
  <1>4. S!NewState \in StateType
    BY Zenon DEF S!NewState, StateType
  <1>5. S!NoHandler \in HandlerType /\ S!NoMetric \in MetricType
    BY <1>2, <1>4 DEF S!NoHandler, S!NoMetric, HandlerType, MetricType
  <1>6. TypeInv
    BY <1>1, <1>3, <1>5, Zenon DEF TypeInv
  <1>7. ClientInv
    <2>1. \A r \in Reqs : /\ call[r].verdict = "none" /\ ~left[r] /\ ~canceled[r]
                          /\ handler[r].pc = "none"
      BY <1>1, Zenon DEF L!NoCall, S!NoHandler
    <2>2. \A w \in Workers : worker[w] \notin Reqs
      BY <1>1, NoneAssumption, Zenon
    <2>3. QED
      BY <2>1, <2>2, Zenon DEF ClientInv
  <1>8. ASSUME NEW r \in Reqs PROVE Good(r)
    <2>1. /\ handler[r].pc = "none" /\ handler[r].state = S!NewState
          /\ metric[r].ttft = << >> /\ metric[r].chunks = 0 /\ metric[r].errors = << >>
          /\ wire[r] = E!NoWire /\ job[r] = E!NoJob /\ r \notin hurt
          /\ call[r].tokens = 0 /\ call[r].end = None
      <3>1. /\ handler[r] = S!NoHandler /\ metric[r] = S!NoMetric /\ call[r] = L!NoCall
            /\ wire[r] = E!NoWire /\ job[r] = E!NoJob /\ r \notin hurt
        BY <1>1, Zenon
      <3>2. handler[r].pc = "none" /\ handler[r].state = S!NewState
        BY <3>1 DEF S!NoHandler
      <3>3. metric[r].ttft = << >> /\ metric[r].chunks = 0 /\ metric[r].errors = << >>
        BY <3>1 DEF S!NoMetric
      <3>4. call[r].tokens = 0 /\ call[r].end = None
        BY <3>1 DEF L!NoCall
      <3>5. QED
        BY <3>1, <3>2, <3>3, <3>4, Zenon
    <2>2. /\ wire[r].open = FALSE /\ wire[r].header = "none" /\ wire[r].body = << >>
          /\ job[r].pc = "none" /\ handler[r].state.ttft = None /\ handler[r].state.tokens = 0
      BY <2>1 DEF E!NoWire, E!NoJob, S!NewState
    <2>3. ~Underway(r)
      BY <2>1, Zenon DEF Underway
    <2>4. Together(r)
      <3> DEFINE u == Underway(r)
      <3>1. u \in BOOLEAN
        BY DEF Underway
      <3>2. wire[r].open = u
        <4> HIDE DEF u
        <4>1. ~u
          BY <2>3, Zenon DEF u
        <4>2. QED
          BY <2>2, <3>1, <4>1, Zenon
      <3>3. QED
        BY <2>1, <2>2, <3>2, Zenon DEF Together
    <2>5. ClockInv(r) /\ BodyInv(r) /\ HurtInv(r)
      BY <2>1, <2>2, <2>3, Zenon DEF ClockInv, BodyInv, HurtInv
    <2>6. FirstInv(r) /\ CopyInv(r)
      BY <2>1, <2>2, <2>3 DEF FirstInv, CopyInv
    <2>7. BlameInv(r) /\ AgreeInv(r)
      BY <2>1 DEF BlameInv, AgreeInv
    <2>8. QED
      BY <2>4, <2>5, <2>6, <2>7, Zenon DEF Good
  <1>9. QED
    BY <1>6, <1>7, <1>8, Zenon DEF DInv
=============================================================================
