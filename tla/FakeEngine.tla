----------------------------- MODULE FakeEngine ------------------------------
(***************************************************************************)
(* The engine container (cmd/fakeengine): the deterministic stand-in for   *)
(* llama-server.  It loads, rejects requests while loading, fails the      *)
(* requests the error rate selects, and answers the rest as a stream or as *)
(* one JSON body.  Time is the time its handlers spent asleep.             *)
(***************************************************************************)
EXTENDS Naturals, Sequences, FiniteSets

CONSTANTS Reqs,         \* requests, each used once
          None,
          Tokens,       \* cfg.tokens
          TTFT, ITL,    \* cfg.ttft, cfg.itl
          RateNum, RateDen,  \* cfg.errorRate = RateNum / RateDen
          PipeCap       \* bound: events written and not yet read on a connection

VARIABLES engine,   \* "absent", "loading" or "ready"
          served,   \* server.requests: completion requests accepted by this process
          job,      \* the handler of each request: [pc, next, clock]
          wire      \* the connections to the engine: [mode, header, body, open]

NoJob == [pc |-> "none", next |-> 1, clock |-> 0]

(* body holds what the engine wrote and the proxy has not read; it ends    *)
(* with "eof", or with "reset" when the engine died.                       *)
NoWire == [mode |-> None, header |-> "none", body |-> << >>, open |-> FALSE]

At(doc, clock) == [doc |-> doc, at |-> clock]

EngineInit ==
  /\ engine = "absent" /\ served = 0
  /\ job = [r \in Reqs |-> NoJob]
  /\ wire = [r \in Reqs |-> NoWire]

(* newServer: a new process starts loading and counts from zero.           *)
StartEngine ==
  /\ engine = "absent"
  /\ engine' = "loading" /\ served' = 0
  /\ UNCHANGED <<job, wire>>

Load ==
  /\ engine = "loading"
  /\ engine' = "ready"
  /\ UNCHANGED <<served, job, wire>>

(* failsAt: request n fails when n * rate passes a whole number.           *)
FailsAt(n) ==
  IF RateNum = 0 \/ n = 0 THEN FALSE
  ELSE (n * RateNum) \div RateDen > ((n - 1) * RateNum) \div RateDen

(* The frames of a stream: a role frame (chat only), the tokens, the stop  *)
(* frame; and the sleep before frame i.                                    *)
Chunks(mode) ==
  (IF mode.op = "chat" THEN <<"frame">> ELSE << >>)
    \o [i \in 1..Tokens |-> "token"] \o <<"frame">>

FirstContent(mode) == IF mode.op = "chat" THEN 2 ELSE 1

Delay(i, firstContent) ==
  IF i < firstContent THEN 0 ELSE IF i = firstContent THEN TTFT ELSE ITL

(* writeJSON: a whole answer and the end of the body in one step.          *)
WriteJSON(r, header, doc, clock) ==
  /\ wire' = [wire EXCEPT ![r].header = header,
                          ![r].body = << At(doc, clock), At("eof", clock) >>]
  /\ job' = [job EXCEPT ![r] = [@ EXCEPT !.pc = "done", !.clock = clock]]

Arrived(r) == wire[r].open /\ wire[r].header = "none" /\ job[r].pc = "none"

AnswerLoading(r) ==
  /\ Arrived(r) /\ engine = "loading"
  /\ WriteJSON(r, "503", "frame", 0)
  /\ UNCHANGED <<engine, served>>

HandleModels(r) ==
  /\ Arrived(r) /\ engine = "ready" /\ wire[r].mode.op = "models"
  /\ WriteJSON(r, "200", "frame", 0)
  /\ UNCHANGED <<engine, served>>

(* handleCompletion: a body that does not parse is turned away before the  *)
(* counter moves; an injected failure moves it and answers at once.        *)
HandleCompletion(r) ==
  /\ Arrived(r) /\ engine = "ready"
  /\ \/ /\ wire[r].mode.op = "garbled"
        /\ WriteJSON(r, "400", "frame", 0)
        /\ UNCHANGED served
     \/ /\ wire[r].mode.op \in {"chat", "text"} /\ FailsAt(served + 1)
        /\ WriteJSON(r, "500", "frame", 0)
        /\ served' = served + 1
     \/ /\ wire[r].mode.op \in {"chat", "text"} /\ ~FailsAt(served + 1)
        /\ served' = served + 1
        /\ IF wire[r].mode.stream
           THEN /\ wire' = [wire EXCEPT ![r].header = "sse"]
                /\ job' = [job EXCEPT ![r].pc = "streaming"]
           ELSE job' = [job EXCEPT ![r].pc = "answering"] /\ UNCHANGED wire
  /\ UNCHANGED engine

(* streamCompletion: one frame, after its sleep; then [DONE].              *)
Emit(r) ==
  LET chunks == Chunks(wire[r].mode)
      i      == job[r].next
      clock  == job[r].clock + Delay(i, FirstContent(wire[r].mode))
  IN  /\ job[r].pc = "streaming" /\ wire[r].open
      /\ Len(wire[r].body) < PipeCap
      /\ IF i <= Len(chunks)
         THEN /\ wire' = [wire EXCEPT ![r].body = Append(@, At(chunks[i], clock))]
              /\ job' = [job EXCEPT ![r].next = i + 1, ![r].clock = clock]
         ELSE /\ wire' = [wire EXCEPT ![r].body = Append(@, At("done", job[r].clock))]
              /\ job' = [job EXCEPT ![r].pc = "returning"]
      /\ UNCHANGED <<engine, served>>

(* The handler returns and net/http ends the body.                         *)
EndBody(r) ==
  /\ job[r].pc = "returning" /\ wire[r].open
  /\ wire' = [wire EXCEPT ![r].body = Append(@, At("eof", job[r].clock))]
  /\ job' = [job EXCEPT ![r].pc = "done"]
  /\ UNCHANGED <<engine, served>>

(* A mutant: the sleep covers the first token only.                        *)
AnswerAtFirstToken(r) ==
  /\ job[r].pc = "answering" /\ wire[r].open
  /\ WriteJSON(r, "200", "usage", TTFT)
  /\ UNCHANGED <<engine, served>>

(* nonStreamCompletion: one sleep as long as the stream would have taken.  *)
Answer(r) ==
  /\ job[r].pc = "answering" /\ wire[r].open
  /\ WriteJSON(r, "200", "usage", TTFT + Tokens * ITL)
  /\ UNCHANGED <<engine, served>>

(* sleepCtx or a write fails because the caller closed the connection.     *)
Generating(r) == job[r].pc \in {"streaming", "answering", "returning"}

StopGenerating(r) ==
  /\ Generating(r) /\ ~wire[r].open
  /\ job' = [job EXCEPT ![r] = [NoJob EXCEPT !.pc = "gone"]]
  /\ UNCHANGED <<engine, served, wire>>

(* The process dies, or exits at the end of its shutdown timeout: the      *)
(* handlers still running are cut off and their connections reset.  What   *)
(* an earlier process left unread is not touched.                          *)
Unfinished(r) == Arrived(r) \/ (wire[r].open /\ Generating(r))

EngineExits ==
  /\ engine # "absent"
  /\ engine' = "absent"
  /\ job' = [r \in Reqs |-> IF Generating(r) THEN [NoJob EXCEPT !.pc = "gone"] ELSE job[r]]
  /\ wire' = [r \in Reqs |->
                IF Unfinished(r)
                THEN [wire[r] EXCEPT !.body = Append(@, At("reset", job[r].clock)),
                                     !.header = IF @ = "none" THEN "refused" ELSE @]
                ELSE wire[r]]
  /\ UNCHANGED served
=============================================================================
