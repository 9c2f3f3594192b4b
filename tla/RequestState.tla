---------------------------- MODULE RequestState -----------------------------
(***************************************************************************)
(* What the shim knows of one response (cmd/shim/proxy.go, requestState),  *)
(* and how one event of its body changes that (cmd/shim/sse.go).           *)
(***************************************************************************)
EXTENDS Naturals, Sequences

CONSTANT None   \* no measurement taken

(* What a JSON document in an event carries.  A frame without content and  *)
(* without usage (the role frame, the stop frame) is "frame"; "lhs" and    *)
(* "rhs" are the halves of a content frame that spans two data lines;      *)
(* every other cell does not parse.                                        *)
HasToken(doc) == doc \in {<<"token">>, <<"last">>, <<"lhs", "nl", "rhs">>}

HasUsage(doc) == doc \in {<<"usage">>, <<"last">>}

(* requestState: the part the body observers write.  ttft is None until    *)
(* sawFirstToken; gaps counts the calls of interChunk.                     *)
NewState == [ttft |-> None, tokens |-> 0, gaps |-> 0, lastContent |-> None,
             sawDone |-> FALSE, hasUsage |-> FALSE, readErr |-> None]

ObserveUsage(st, doc) == IF HasUsage(doc) THEN [st EXCEPT !.hasUsage = TRUE] ELSE st

CountToken(st, now) ==
  [st EXCEPT !.ttft = IF @ = None THEN now ELSE @,
             !.gaps = IF st.ttft = None THEN @ ELSE @ + 1,
             !.lastContent = now,
             !.tokens = @ + 1]

(* handleEvent on a payload already stripped of surrounding space.         *)
HandleEvent(st, payload, now) ==
  IF payload = <<"done">> THEN [st EXCEPT !.sawDone = TRUE]
  ELSE IF HasToken(payload) THEN CountToken(ObserveUsage(st, payload), now)
  ELSE ObserveUsage(st, payload)
=============================================================================
