----------------------------- MODULE HttpClient -----------------------------
(***************************************************************************)
(* An outgoing connection of http.c: the queue of requests, connecting and *)
(* retrying, sending the first request, reading its response, keeping the  *)
(* connection and noticing that the peer closed it.  What a response holds *)
(* is abstracted to how it ends.  A step is one callback of the            *)
(* bufferevent, of the retry timer or of the deferred queue, or one call   *)
(* of the program; a request's callback may make another request.          *)
(***************************************************************************)
EXTENDS Integers, Sequences, FiniteSets, SequencesExt

CONSTANTS Requests,     \* the requests the program makes: 1..n, in this order
          RetryMax,     \* evcon->retry_max
          Calls,        \* what else may happen: "request" (made by a callback), "cancel",
                        \* "left" (input behind a response), "free", "stray" (input while
                        \* idle), "crowd" (more deferred callbacks than one round runs)
          ConnectNow    \* how a connect may go at once

VARIABLE c              \* struct evhttp_connection and its bufferevent

vars == c

Reading == {"READING", "READING_BODY_EOF"}
evhttp_connected(s) == s.state \notin {"DISCONNECTED", "CONNECTING"}
Aborted(s, why) == [s EXCEPT !.aborted = @ \union {why}]

(* what a reset does not touch: the deferred read, the retry timer and the mark
   that the peer's close is awaited *)
Kept(s) == {k \in {"deferred", "retry", "mark"} :
               CASE k = "deferred" -> s.deferred [] k = "retry" -> s.retry_ev [] k = "mark" -> s.closedetect}

(* everything is disabled (bufferevent_disable_hard), the socket closed, the
   buffers emptied *)
evhttp_connection_reset(s) ==
    [s EXCEPT !.enabled = {}, !.out = FALSE, !.left = FALSE, !.state = "DISCONNECTED", !.outlived = @ \union Kept(s)]

evhttp_connection_start_detectclose(s) == [s EXCEPT !.closedetect = TRUE, !.enabled = @ \union {"R"}]
evhttp_connection_stop_detectclose(s) == [s EXCEPT !.closedetect = FALSE, !.enabled = @ \ {"R"}]

evhttp_write_buffer(s, cb) ==
    [s EXCEPT !.cb = cb, !.readcb = FALSE, !.eventcb = "evhttp_error_cb", !.enabled = @ \union {"W"}, !.out = TRUE]

evhttp_start_read(s) ==
    [s EXCEPT !.enabled = (@ \ {"W"}) \union {"R"}, !.state = "READING", !.readcb = TRUE,
              !.eventcb = "evhttp_error_cb", !.deferred = @ \/ s.left]

evhttp_write_connectioncb(s) ==
    IF s.requests = <<>> \/ s.state # "WRITING" THEN Aborted(s, "assert")
    ELSE evhttp_start_read([s EXCEPT !.kind[s.requests[1]] = "RESPONSE"])

(* the request goes out: a request that already is a response would be sent
   with the header of a response *)
evhttp_request_dispatch(s) ==
    IF s.requests = <<>> THEN s
    ELSE IF s.state # "IDLE" THEN Aborted(s, "assert")
    ELSE LET r == s.requests[1]
             t == [evhttp_connection_stop_detectclose(s) EXCEPT !.state = "WRITING", !.sent[r] = @ + 1]
         IN evhttp_write_buffer(t, "evhttp_write_connectioncb")

Unused(s) == {r \in Requests : s.status[r] = "new"}
NextNew(s) == CHOOSE r \in Unused(s) : \A q \in Unused(s) : r <= q

(* x: how a connect goes; rx: what a request's callback does *)
RECURSIVE Callback(_, _, _, _), evhttp_make_request(_, _, _, _), evhttp_connection_connect(_, _, _),
          evhttp_connection_cb_cleanup(_, _, _), evhttp_connection_fail(_, _, _, _), CallAll(_, _, _, _)

Callback(s, r, x, rx) ==
    LET t == [s EXCEPT !.called[r] = @ + 1, !.status[r] = "over"]
    IN IF rx = "request" /\ Unused(t) # {} THEN evhttp_make_request(t, NextNew(t), x, rx) ELSE t

CallAll(s, rs, x, rx) == IF rs = <<>> THEN s ELSE CallAll(Callback(s, rs[1], x, rx), Tail(rs), x, rx)

(* retry later, or give up on all the requests there are *)
evhttp_connection_cb_cleanup(s, x, rx) ==
    IF s.retry_cnt < RetryMax
    THEN [IF s.retry_ev THEN Aborted(s, "evtimer_assign") ELSE s EXCEPT !.retry_ev = TRUE, !.retry_cnt = @ + 1]
    ELSE CallAll([evhttp_connection_reset(s) EXCEPT !.requests = <<>>], s.requests, x, rx)

(* the first request has failed; the next is tried over a new connection *)
evhttp_connection_fail(s, error, x, rx) ==
    LET r == s.requests[1]
        t == evhttp_connection_reset([s EXCEPT !.requests = Tail(@), !.status[r] = "over"])
        u == IF t.requests # <<>> THEN evhttp_connection_connect(t, x, rx) ELSE t
    IN IF s.requests = <<>> THEN Aborted(s, "assert")
       ELSE IF error = "CANCEL" THEN u ELSE Callback(u, r, x, rx)

(* mutant: the mark that the peer's close is awaited is not taken off *)
evhttp_error_cb_KeepsMark(s, what, x, rx) ==
    CASE s.state = "CONNECTING" /\ what = "TIMEOUT" -> evhttp_connection_cb_cleanup(s, x, rx)
      [] s.closedetect -> IF s.state # "IDLE" THEN Aborted(s, "close detected") ELSE evhttp_connection_reset(s)
      [] OTHER -> evhttp_connection_fail(s, what, x, rx)

(* but for the EOF that ends a body: see evhttp_read_cb *)
evhttp_error_cb(s, what, x, rx) ==
    CASE s.state = "CONNECTING" /\ what = "TIMEOUT" -> evhttp_connection_cb_cleanup(s, x, rx)
      [] s.closedetect -> IF s.state # "IDLE" THEN Aborted(s, "close detected")
                          ELSE evhttp_connection_reset([s EXCEPT !.closedetect = FALSE])
      [] OTHER -> evhttp_connection_fail(s, what, x, rx)

(* what: connected, refused (ECONNREFUSED, or an error of the socket), any
   other error, or the deadline *)
evhttp_connection_cb(s, what, x, rx) ==
    CASE what = "REFUSED" -> evhttp_connection_cb_cleanup(s, x, rx)
      [] what = "CONNECTED" ->
           evhttp_request_dispatch([s EXCEPT !.retry_cnt = 0, !.state = "IDLE", !.readcb = TRUE, !.eventcb = "evhttp_error_cb"])
      [] OTHER -> evhttp_error_cb(s, what, x, rx)

(* "BIND": there is no socket; else the resolver or the kernel answers at once
   or later *)
evhttp_connection_connect(s, x, rx) ==
    LET t == evhttp_connection_reset(s)
        u == [t EXCEPT !.state = "CONNECTING", !.readcb = FALSE, !.eventcb = "evhttp_connection_cb", !.enabled = {"W"},
                            !.unbound = FALSE]
    IN IF s.state = "CONNECTING" THEN s
       ELSE IF x = "BIND" THEN [t EXCEPT !.unbound = TRUE]
       ELSE IF x = "LATER" THEN u
       ELSE evhttp_connection_cb([u EXCEPT !.enabled = {}], x, x, rx)

evhttp_make_request(s, r, x, rx) ==
    LET t == [s EXCEPT !.kind[r] = "REQUEST", !.status[r] = "queued", !.requests = Append(@, r)]
    IN IF ~evhttp_connected(s)
       THEN IF x = "BIND" /\ s.state # "CONNECTING"
            THEN [evhttp_connection_reset(s) EXCEPT !.status[r] = "refused"]
            ELSE evhttp_connection_connect(t, x, rx)
       ELSE IF t.requests[1] = r THEN evhttp_request_dispatch(t) ELSE t

(* the response has been read; close: one of the sides asked for it *)
evhttp_connection_done(s, close, x, rx) ==
    LET r == s.requests[1]
        t == [s EXCEPT !.requests = Tail(@), !.state = "IDLE"]
        u == IF close THEN evhttp_connection_reset(t) ELSE t
        v == IF u.requests # <<>>
             THEN IF evhttp_connected(u) THEN evhttp_request_dispatch(u) ELSE evhttp_connection_connect(u, x, rx)
             ELSE IF close THEN u ELSE evhttp_connection_start_detectclose(u)
    IN Callback(v, r, x, rx)

evhttp_cancel_request(s, r, x, rx) ==
    LET t == [s EXCEPT !.cancelled = @ \union {r}]
    IN IF s.requests # <<>> /\ s.requests[1] = r THEN evhttp_connection_fail(t, "CANCEL", x, rx)
       ELSE [t EXCEPT !.requests = SelectSeq(@, LAMBDA q : q # r), !.status[r] = "over"]

(* the program gives the connection up: its requests go without a callback *)
evhttp_connection_free(s) ==
    [s EXCEPT !.requests = <<>>, !.enabled = {}, !.retry_ev = FALSE, !.deferred = FALSE, !.state = "FREED",
              !.status = [r \in Requests |-> IF @[r] = "queued" THEN "freed" ELSE @[r]]]

(* end: how far the input brings the response *)
Ends == {"more", "until close", "continue", "bad", "chunk cancelled", "done", "done close"}
evhttp_read_cb(s0, end, left, x, rx) ==
    LET s == [s0 EXCEPT !.deferred = FALSE, !.left = left]
        off == [s EXCEPT !.enabled = @ \ {"R"}]
    IN CASE s.state = "IDLE" -> evhttp_connection_reset(s)
         [] s.state \notin Reading \union {"IDLE"} -> Aborted(s, "illegal connection state")
         [] OTHER ->
              CASE end = "more" -> s
                [] end = "until close" -> [s EXCEPT !.state = "READING_BODY_EOF"]
                [] end = "continue" -> evhttp_start_read(off)
                [] end = "bad" -> evhttp_connection_fail(s, "INVALID_HEADER", x, rx)
                [] end = "chunk cancelled" -> evhttp_cancel_request(s, s.requests[1], x, rx)
                [] OTHER -> evhttp_connection_done(off, end = "done close", x, rx)
-----------------------------------------------------------------------------
Init == c = [state |-> "DISCONNECTED", closedetect |-> FALSE, requests |-> <<>>, enabled |-> {}, out |-> FALSE,
             left |-> FALSE, readcb |-> TRUE, eventcb |-> "evhttp_error_cb", cb |-> "none", deferred |-> FALSE,
             retry_cnt |-> 0, retry_ev |-> FALSE, kind |-> [r \in Requests |-> "RESPONSE"],
             status |-> [r \in Requests |-> "new"], sent |-> [r \in Requests |-> 0],
             called |-> [r \in Requests |-> 0], cancelled |-> {}, aborted |-> {}, outlived |-> {}, unbound |-> FALSE]

Going == c.aborted = {} /\ c.state # "FREED"
React == {"none"} \union (Calls \intersect {"request"})
Left == IF "left" \in Calls THEN BOOLEAN ELSE {FALSE}    \* is there input after what was read?

(* The events of the loop come after what the round before it deferred, unless
   that is too much for one round. *)
InTurn == c.deferred => "crowd" \in Calls
MakeRequest == /\ Going /\ Unused(c) # {}
               /\ \E x \in ConnectNow, rx \in React : c' = evhttp_make_request(c, NextNew(c), x, rx)
Cancel == /\ Going /\ "cancel" \in Calls
          /\ \E r \in Range(c.requests), x \in ConnectNow, rx \in React : c' = evhttp_cancel_request(c, r, x, rx)
Free == Going /\ "free" \in Calls /\ c' = evhttp_connection_free(c)
(* the connect is over; a retry that waits keeps the state *)
ConnectEvent == /\ Going /\ c.eventcb = "evhttp_connection_cb" /\ "W" \in c.enabled /\ c.state = "CONNECTING"
                /\ InTurn
                /\ \E what \in {"CONNECTED", "REFUSED", "ERROR", "TIMEOUT"}, x \in ConnectNow, rx \in React :
                       c' = evhttp_connection_cb([c EXCEPT !.enabled = IF what = "CONNECTED" THEN @ ELSE {}], what, x, rx)
(* all of the request has been written *)
Written == /\ Going /\ InTurn /\ "W" \in c.enabled /\ c.out /\ c.cb = "evhttp_write_connectioncb"
           /\ c' = evhttp_write_connectioncb([c EXCEPT !.out = FALSE])
WriteError == /\ Going /\ InTurn /\ "W" \in c.enabled /\ c.out
              /\ \E what \in {"ERROR", "TIMEOUT"}, x \in ConnectNow, rx \in React : c' = evhttp_error_cb(c, what, x, rx)
Arrives == /\ Going /\ InTurn /\ "R" \in c.enabled /\ c.readcb
           /\ c.state = "IDLE" => "stray" \in Calls
           /\ \E end \in Ends, l \in Left, x \in ConnectNow, rx \in React : c' = evhttp_read_cb(c, end, l, x, rx)
evhttp_deferred_read_cb ==
    /\ Going /\ c.deferred
    /\ \E end \in Ends, l \in Left, x \in ConnectNow, rx \in React :
          (~c.left => end = "more" /\ ~l) /\ c' = evhttp_read_cb(c, end, l, x, rx)
ReadError == /\ Going /\ InTurn /\ "R" \in c.enabled
             /\ \E what \in {"EOF", "ERROR", "TIMEOUT"}, x \in ConnectNow, rx \in React, close \in BOOLEAN :
                    c' = IF what = "EOF" /\ c.state = "READING_BODY_EOF" THEN evhttp_connection_done(c, close, x, rx)
                         ELSE evhttp_error_cb(c, what, x, rx)
evhttp_connection_retry ==
    /\ Going /\ c.retry_ev /\ InTurn
    /\ \E x \in ConnectNow, rx \in React :
           c' = evhttp_connection_connect([c EXCEPT !.retry_ev = FALSE, !.state = "DISCONNECTED"], x, rx)

Next == \/ MakeRequest \/ Cancel \/ Free \/ ConnectEvent \/ Written \/ WriteError \/ Arrives
        \/ evhttp_deferred_read_cb \/ ReadError \/ evhttp_connection_retry

Spec == Init /\ [][Next]_vars

(* Every wait has a deadline, so a connect, a write and a read end; a peer that
   sends one response for ever is left out.  The loop runs what is due. *)
ReadEnds == /\ Going /\ c.state \in Reading /\ (c.deferred \/ "R" \in c.enabled)
            /\ \E x \in ConnectNow, rx \in React :
                   \/ \E end \in {"bad", "done", "done close"}, l \in Left : c' = evhttp_read_cb(c, end, l, x, rx)
                   \/ ~c.deferred /\ \E what \in {"ERROR", "TIMEOUT"} : c' = evhttp_error_cb(c, what, x, rx)
GoesOn == ConnectEvent \/ Written \/ WriteError \/ ReadEnds \/ evhttp_connection_retry
-----------------------------------------------------------------------------

(* No assertion of http.c fails, no event is assigned while it is pending, and
   evhttp_read_cb meets no illegal state, unless a reset has left something
   behind: the deferred read of a connection that is gone then meets the state
   of the next (http.c:1093), the retry timer of a request that was cancelled is
   assigned again (:1287) or connects for no request, whose failure is then
   nobody's (:704), and the mark left by bytes on an idle connection outlives
   that connection (:1369). *)
NoAbort == /\ "illegal connection state" \in c.aborted => "deferred" \in c.outlived
           /\ "evtimer_assign" \in c.aborted => "retry" \in c.outlived
           /\ "assert" \in c.aborted => "retry" \in c.outlived
           /\ "close detected" \in c.aborted => "mark" \in c.outlived

(* The callback of a request runs once at most, never after it was cancelled
   or refused, and for a request that left the queue it has run. *)
CalledOnce == \A r \in Requests :
    /\ c.called[r] <= 1
    /\ r \in c.cancelled => c.called[r] = 0
    /\ c.status[r] = "over" /\ r \notin c.cancelled => c.called[r] = 1

(* Something is under way for the first of the queue: a connect, a retry, a
   write or a read (evhttp_connection_fail: "the next request is going to get
   send over a new connection").  Only a connection that could not get a socket
   (http.c:2194) just waits for the next call of the program. *)
NotStuck == c.requests # <<>> /\ c.aborted = {} =>
    CASE c.state = "CONNECTING" -> c.retry_ev \/ (c.eventcb = "evhttp_connection_cb" /\ "W" \in c.enabled)
      [] c.state = "WRITING" -> "W" \in c.enabled /\ c.out
      [] c.state \in Reading -> "R" \in c.enabled /\ c.readcb
      [] OTHER -> c.state = "DISCONNECTED" /\ c.unbound

(* When a request is cancelled "all other pending requests should be processed
   as normal" (evhttp_connection_fail): none is sent twice, unless the retry timer
   of the cancelled one is still running and resets its successor. *)
SentOnce == "retry" \notin c.outlived => \A r \in Requests : c.sent[r] <= 1

(* A persistent connection that waits for the next request notices a close,
   unless the retry timer of a cancelled request has opened it. *)
IdleWatched == c.state = "IDLE" => "retry" \in c.outlived \/ (c.closedetect /\ "R" \in c.enabled)

(* Every request is answered, fails, or is cancelled. *)
Unanswered(r) == c.status[r] = "queued"
=============================================================================
