------------------------------- MODULE Stream --------------------------------
(***************************************************************************)
(* What the shim learns from a response body as the bytes pass through     *)
(* (cmd/shim/sse.go).  A body is a sequence of cells.  A cell is the       *)
(* smallest piece of text the observers tell apart: a line feed, a         *)
(* carriage return, the field name "data:", a comment, one JSON document   *)
(* or a half of one.  Reads cut the sequence anywhere.                     *)
(***************************************************************************)
EXTENDS RequestState, SequencesExt

CONSTANT MaxLine   \* maxSSELine, in cells

(* streamObserver: buf is the unterminated line, data the pending event.   *)
NewStreamObserver == [buf |-> << >>, overlong |-> FALSE, data |-> << >>,
                      dropEvent |-> FALSE, finished |-> FALSE, state |-> NewState]

TrimSpace(s) ==
  LET text == { i \in DOMAIN s : s[i] \notin {"nl", "cr"} }
  IN  IF text = {} THEN << >> ELSE SubSeq(s, Min(text), Max(text))

Dispatch(o, now) ==
  [o EXCEPT !.state = IF o.dropEvent THEN @ ELSE HandleEvent(@, TrimSpace(o.data), now),
            !.data = << >>, !.dropEvent = FALSE]

AddData(o, payload) ==
  IF o.dropEvent THEN o
  ELSE IF Len(o.data) + Len(payload) + 1 > MaxLine
       THEN [o EXCEPT !.dropEvent = TRUE, !.data = << >>]
       ELSE [o EXCEPT !.data = (IF @ = << >> THEN @ ELSE Append(@, "nl")) \o payload]

TrimCR(line) == IF line # << >> /\ Last(line) = "cr" THEN Front(line) ELSE line

HandleLine(o, line, now) ==
  IF line = << >> THEN Dispatch(o, now)
  ELSE IF Head(line) = "data" THEN AddData(o, Tail(line))
  ELSE o

(* A mutant: an overlong line is skipped and the rest of its event kept.   *)
EndLineKeeping(o, piece, now) ==
  IF o.overlong THEN [o EXCEPT !.overlong = FALSE, !.buf = << >>]
  ELSE IF Len(o.buf) + Len(piece) > MaxLine THEN [o EXCEPT !.buf = << >>]
       ELSE HandleLine([o EXCEPT !.buf = << >>], TrimCR(o.buf \o piece), now)

(* The body of the loop in scan, for a piece that ends in a line feed.     *)
EndLine(o, piece, now) ==
  IF o.overlong
  THEN [o EXCEPT !.overlong = FALSE, !.buf = << >>, !.dropEvent = TRUE]
  ELSE IF Len(o.buf) + Len(piece) > MaxLine
       THEN [o EXCEPT !.buf = << >>, !.dropEvent = TRUE]
       ELSE HandleLine([o EXCEPT !.buf = << >>], TrimCR(o.buf \o piece), now)

AppendPartial(o, piece) ==
  IF o.overlong THEN o
  ELSE IF Len(o.buf) + Len(piece) > MaxLine
       THEN [o EXCEPT !.overlong = TRUE, !.buf = << >>]
       ELSE [o EXCEPT !.buf = @ \o piece]

(* Pieces(chunk): the stretches of chunk between line feeds; the last one  *)
(* is not terminated.                                                      *)
Pieces(chunk) ==
  FoldLeft(LAMBDA ps, c : IF c = "nl" THEN Append(ps, << >>)
                          ELSE Append(Front(ps), Append(Last(ps), c)),
           << << >> >>, chunk)

Scan(o, pieces, now) ==
  AppendPartial(FoldLeft(LAMBDA acc, p : EndLine(acc, p, now), o, Front(pieces)),
                Last(pieces))

(* The end of the body dispatches the pending event even when its blank    *)
(* line, or its last line feed, never came.                                *)
FlushLine(o, now) ==
  IF o.overlong THEN [o EXCEPT !.dropEvent = TRUE, !.buf = << >>]
  ELSE IF o.buf = << >> THEN o
  ELSE HandleLine([o EXCEPT !.buf = << >>], TrimCR(o.buf), now)

Finish(o, now) ==
  IF o.finished THEN o ELSE [Dispatch(FlushLine(o, now), now) EXCEPT !.finished = TRUE]

(* streamObserver.Read: result is "ok", "eof" or an error.                 *)
StreamRead(o, chunk, result, now) ==
  LET scanned == IF chunk = << >> THEN o ELSE Scan(o, Pieces(chunk), now)
  IN  CASE result = "ok"  -> scanned
        [] result = "eof" -> Finish(scanned, now)
        [] OTHER          -> [scanned EXCEPT !.state.readErr = result]

(* usageObserver: a body that is not a stream is copied up to the cap and  *)
(* parsed whole at its end.                                                *)
NewUsageObserver == [buf |-> << >>, overlong |-> FALSE, state |-> NewState]

(* A mutant: the copy is marked too long and goes on growing.              *)
BufferUncapped(o, chunk) ==
  [o EXCEPT !.overlong = @ \/ Len(o.buf) + Len(chunk) > MaxLine, !.buf = @ \o chunk]

Buffer(o, chunk) ==
  IF o.overlong THEN o
  ELSE IF Len(o.buf) + Len(chunk) > MaxLine
       THEN [o EXCEPT !.overlong = TRUE, !.buf = << >>]
       ELSE [o EXCEPT !.buf = @ \o chunk]

UsageRead(o, chunk, result) ==
  LET b == Buffer(o, chunk)
  IN  CASE result = "ok"  -> b
        [] result = "eof" -> IF b.overlong THEN b
                             ELSE [b EXCEPT !.state = ObserveUsage(@, TrimSpace(b.buf))]
        [] OTHER          -> [b EXCEPT !.state.readErr = result]
=============================================================================
