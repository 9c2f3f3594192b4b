------------------------------ MODULE MCStream -------------------------------
(***************************************************************************)
(* The body observers on every short body and every way the network cuts   *)
(* it into reads.  A body is a list of lines, the last one possibly        *)
(* without its line feed; the reference definitions below work on that     *)
(* list, which the observers never see.                                    *)
(***************************************************************************)
EXTENDS Stream

CONSTANTS MaxLines,   \* bound: lines of a stream
          MaxRead     \* bound: cells one Read returns

(* The lines a stream is made of: blank ones with and without a carriage   *)
(* return, frames with and without content, both halves of a split frame,  *)
(* and a comment one cell longer than the cap.                             *)
StreamLines ==
  { << >>, <<"cr">>, <<"data", "frame">>, <<"data", "token", "cr">>,
    <<"data", "last">>, <<"data", "done">>, <<"data", "lhs">>, <<"data", "rhs">>,
    <<"ping">> \o [i \in 1..MaxLine |-> "pad"] }

(* The answers that are not streams: with and without usage, and too long. *)
JsonBodies ==
  { <<"usage">>, <<"last", "nl">>, <<"frame">>, <<"lhs", "rhs">>,
    <<"usage">> \o [i \in 1..MaxLine |-> "nl"] }

VARIABLES kind,    \* "sse" or "json": which observer modifyResponse installed
          lines,   \* the lines of the body
          ended,   \* the last line has its line feed
          pos,     \* cells handed over by Read so far
          over,    \* the result of the last Read: "ok", "eof" or an error
          obs,     \* the observer
          first    \* history: pos after the read that completed the first content event

vars == <<kind, lines, ended, pos, over, obs, first>>

Cells == FlattenSeq([i \in DOMAIN lines |->
           IF i < Len(lines) \/ ended THEN Append(lines[i], "nl") ELSE lines[i]])

Init ==
  /\ \/ kind = "sse" /\ lines \in UNION { [1..n -> StreamLines] : n \in 1..MaxLines }
     \/ kind = "json" /\ lines \in { <<b>> : b \in JsonBodies }
  /\ ended \in BOOLEAN
  /\ pos = 0 /\ over = "ok" /\ first = None
  /\ obs = IF kind = "sse" THEN NewStreamObserver ELSE NewUsageObserver

(* The lines whose line feed is among the first p cells; at the end of the *)
(* body every line is complete.                                            *)
Complete(cells, p) == Cardinality({ i \in 1..p : cells[i] = "nl" })

Blank(i) == TrimCR(lines[i]) = << >>

(* The data lines of the event a reader holds once k lines are complete    *)
(* and line e is the blank one that ends it (e = k + 1 stands for the end  *)
(* of the body).                                                           *)
Since(e) == Max({ i \in 1..(e-1) : Blank(i) } \cup {0})

Event(e) == { i \in (Since(e)+1)..(e-1) : lines[i] # << >> /\ Head(lines[i]) = "data" }

Payload(i) == Tail(TrimCR(lines[i]))

(* The text of the event: its payloads and the line feeds that join them.  *)
(* A lone payload is charged for one line feed as well.                    *)
Size(ls) ==
  FoldSet(LAMBDA i, n : n + Len(Payload(i)), Max({Cardinality(ls) - 1, 1}), ls)

Readable(e) ==
  /\ \A i \in (Since(e)+1)..(e-1) : Len(lines[i]) <= MaxLine
  /\ Size(Event(e)) <= MaxLine

Doc(e) ==
  LET order == SetToSortSeq(Event(e), <)
  IN  TrimSpace(FlattenSeq([j \in DOMAIN order |->
        IF j = 1 THEN Payload(order[j]) ELSE <<"nl">> \o Payload(order[j])]))

Events(k, atEnd) ==
  { e \in 1..k : Blank(e) } \cup (IF atEnd THEN {Len(lines) + 1} ELSE {})

Docs(k, atEnd) == { <<e, Doc(e)>> : e \in { x \in Events(k, atEnd) : Readable(x) } }

Tokens(docs) == Cardinality({ d \in docs : HasToken(d[2]) })

Delivered(cells, p, result) ==
  Docs(IF result = "eof" THEN Len(lines) ELSE Complete(cells, p), result = "eof")

Read(n, result) ==
  /\ over = "ok"
  /\ pos + n <= Len(Cells)
  /\ result = "eof" => pos + n = Len(Cells)
  /\ n = 0 => result # "ok"
  /\ pos' = pos + n /\ over' = result
  /\ LET chunk == SubSeq(Cells, pos + 1, pos + n)
     IN  obs' = IF kind = "sse" THEN StreamRead(obs, chunk, result, pos + n)
                ELSE UsageRead(obs, chunk, result)
  /\ first' = IF first = None /\ kind = "sse" /\ Tokens(Delivered(Cells, pos + n, result)) > 0
              THEN pos + n ELSE first
  /\ UNCHANGED <<kind, lines, ended>>

Next == \E n \in 0..MaxRead, result \in {"ok", "eof", "broken", "canceled"} : Read(n, result)

Spec == Init /\ [][Next]_vars

(* What an observer has recorded is what the delivered text says, however  *)
(* the network cut it (sse.go:133-136).  Of a stream: one token per        *)
(* readable content event, the first timed at the read that completed it   *)
(* and never at a role frame, a comment or a part (sse.go:112-127), a gap  *)
(* per later one, the usage and the [DONE] that were really there, and     *)
(* nothing from an event one of whose lines was dropped for length.  Of    *)
(* another answer: its usage, once all of it has been read, if it fits.    *)
ReadsDoNotMatter ==
  IF kind = "sse"
  THEN LET docs == Delivered(Cells, pos, over)
       IN  /\ obs.state.tokens = Tokens(docs) /\ obs.state.ttft = first
           /\ obs.state.gaps = Max({0, obs.state.tokens - 1})
           /\ obs.state.hasUsage <=> \E d \in docs : HasUsage(d[2])
           /\ obs.state.sawDone <=> \E d \in docs : d[2] = <<"done">>
  ELSE obs.state.hasUsage <=>
         /\ over = "eof"
         /\ Len(Cells) <= MaxLine
         /\ HasUsage(TrimSpace(Cells))

(* Nothing the upstream sends makes either observer hold more than the cap *)
(* (sse.go:36-42), a line without end and an event without end included.   *)
MemoryBounded ==
  /\ Len(obs.buf) <= MaxLine
  /\ kind = "sse" => Len(obs.data) <= MaxLine
=============================================================================
