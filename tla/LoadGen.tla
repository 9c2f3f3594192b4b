------------------------------- MODULE LoadGen -------------------------------
(***************************************************************************)
(* The clients (hack/loadgen): workers that issue one request after        *)
(* another until the run's deadline, give up on a request after a timeout, *)
(* and keep a sample of every request the deadline did not cut short.  The *)
(* load generator itself only sends streaming chat requests; the other     *)
(* modes stand for other users of the endpoint.                            *)
(***************************************************************************)
EXTENDS Naturals

CONSTANTS Reqs, Workers, None

VARIABLES worker,   \* the request each worker waits for
          call,     \* [verdict, tokens, end]: what the client made of it
          ended,    \* the run's context is done
          left,     \* the client closed the connection
          canceled  \* the server noticed

NoCall == [verdict |-> "none", tokens |-> 0, end |-> None]

ClientInit ==
  /\ worker = [w \in Workers |-> None]
  /\ call = [r \in Reqs |-> NoCall]
  /\ ended = FALSE
  /\ left = [r \in Reqs |-> FALSE] /\ canceled = [r \in Reqs |-> FALSE]

Issue(w, r) ==
  /\ worker[w] = None /\ ~ended /\ call[r].verdict = "none"
  /\ worker' = [worker EXCEPT ![w] = r]
  /\ call' = [call EXCEPT ![r].verdict = "open"]
  /\ UNCHANGED <<ended, left, canceled>>

(* readStream: a content frame counts, [DONE] ends the reading.            *)
Heard(c, doc) ==
  IF c.end # None THEN c
  ELSE IF doc = "token" THEN [c EXCEPT !.tokens = @ + 1]
  ELSE IF doc = "done" THEN [c EXCEPT !.end = "done"]
  ELSE c

(* doRequest's verdict once the response is over: an error status, a       *)
(* broken stream and a stream without tokens are failures.                 *)
Succeeded(c, status) == status = 200 /\ c.end \in {"done", "eof"} /\ c.tokens > 0

(* A failed request is kept as a sample unless the run is over by then.    *)
Settle(w, good, over) ==
  /\ call' = [call EXCEPT ![worker[w]].verdict =
                IF good THEN "ok" ELSE IF over THEN "dropped" ELSE "failed"]
  /\ worker' = [worker EXCEPT ![w] = None]
  /\ ended' = over

Return(w, status) ==
  /\ worker[w] # None /\ call[worker[w]].end # None
  /\ Settle(w, Succeeded(call[worker[w]], status), ended)
  /\ UNCHANGED <<left, canceled>>

(* client.Timeout, or the run's deadline, closes the connection.           *)
GiveUp(w, over) ==
  /\ worker[w] # None /\ call[worker[w]].end = None
  /\ ended => over
  /\ left' = [left EXCEPT ![worker[w]] = TRUE]
  /\ Settle(w, FALSE, over)
  /\ UNCHANGED canceled

(* The server's background read sees the closed connection.                *)
NoticeLeft(r) ==
  /\ left[r] /\ ~canceled[r]
  /\ canceled' = [canceled EXCEPT ![r] = TRUE]
  /\ UNCHANGED <<worker, call, ended, left>>
=============================================================================
