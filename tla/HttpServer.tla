----------------------------- MODULE HttpServer -----------------------------
(***************************************************************************)
(* An incoming connection of http.c: requests are read one after another,  *)
(* handed to the program or answered by the library, replied to at once or *)
(* in chunks, and the connection is kept or freed.  A reply is abstracted  *)
(* to what decides where it ends: its framing headers and the units of     *)
(* body behind them.  The reader of replies is http.c's own, of the other  *)
(* side of a connection.                                                   *)
(***************************************************************************)
EXTENDS Integers, FiniteSets

CONSTANTS Methods,      \* of requests
          MaxRequests,  \* bound: requests over the connection
          MaxChunks,    \* bound: chunks of a reply
          Calls         \* "stream 1.0": chunks to an old client that keeps the connection,
                        \* "body to HEAD": the same reply as to GET, "start late": a reply
                        \* is started whether or not the connection is still there

VARIABLES evcon,        \* struct evhttp_connection and its bufferevent
          req,          \* its request, or the last one
          program       \* what the program knows: does it hold the request, has it started to reply

vars == <<evcon, req, program>>

S == [evcon |-> evcon, req |-> req, program |-> program]
Aborted(s, why) == [s EXCEPT !.evcon.aborted = @ \union {why}]

evhttp_response_needs_body(r) == r.code # 204 /\ r.method # "HEAD"
evhttp_is_connection_close(h) == h = "close"
evhttp_is_connection_keepalive(h) == h = "keep-alive"
evhttp_method_may_have_body(m) == m \in {"POST", "POST chunked", "POST expect", "POST expects more", "POST too large"}

evhttp_write_buffer(s, cb) ==
    [s EXCEPT !.evcon.cb = cb, !.evcon.readcb = FALSE, !.evcon.enabled = @ \union {"W"}]

evhttp_send_continue(s) ==
    [s EXCEPT !.evcon.enabled = @ \union {"W"}, !.evcon.out = TRUE, !.evcon.cb = "evhttp_send_continue_done", !.evcon.readcb = TRUE]
evhttp_send_continue_done(s) == [s EXCEPT !.evcon.enabled = @ \ {"W"}]

evhttp_start_read(s) ==
    [s EXCEPT !.evcon.enabled = {"R"}, !.evcon.state = "READING", !.evcon.readcb = TRUE, !.evcon.deferred = @ \/ s.evcon.left]

NewRequest == [userdone |-> TRUE, attached |-> TRUE, method |-> "GET", minor |-> 1, input |-> "none", output |-> "none",
               length |-> -1, chunked |-> FALSE, te |-> FALSE, code |-> 0, body |-> 0, kind |-> "REQUEST"]

(* not yet presented to the program: as if the program were done with it *)
evhttp_associate_new_request_with_connection(s) ==
    evhttp_start_read([s EXCEPT !.req = NewRequest, !.evcon.queued = TRUE, !.evcon.served = @ + 1])

(* the request on the queue goes too: a program that holds it is left with a
   dangling pointer *)
evhttp_connection_free(s) ==
    LET t == [s EXCEPT !.evcon.state = "FREED", !.evcon.enabled = {}, !.evcon.deferred = FALSE, !.evcon.queued = FALSE]
    IN IF s.evcon.queued /\ s.program.holds THEN Aborted(t, "dangling request") ELSE t

evhttp_make_header_response(r) ==
    LET k == evhttp_is_connection_keepalive(r.input)
        a == IF r.minor = 0 /\ k THEN [r EXCEPT !.output = "keep-alive"] ELSE r
        b == IF (r.minor >= 1 \/ k) /\ evhttp_response_needs_body(r) /\ ~a.te /\ a.length = -1
             THEN [a EXCEPT !.length = r.body] ELSE a
    IN IF evhttp_is_connection_close(r.input) THEN [b EXCEPT !.output = "close"] ELSE b

(* header and all of req->output_buffer go out *)
evhttp_make_header(s) == [s EXCEPT !.req = evhttp_make_header_response(@), !.evcon.out = TRUE]

(* Where the reader of http.c (evhttp_read_header, evhttp_get_body) takes the
   reply to end: after n units, at the end of the connection, or nowhere. *)
AtClose == -1
Nowhere == -2
ReaderEnds(r) ==
    CASE ~evhttp_response_needs_body(r) -> 0
      [] evhttp_response_needs_body(r) /\ r.te -> r.body
      [] evhttp_response_needs_body(r) /\ ~r.te /\ r.length # -1 -> r.length
      [] OTHER -> IF r.output \in {"none", "close"} THEN AtClose ELSE Nowhere

(* What is behind the end of a reply is nothing to a reader that was told the
   connection closes. *)
EndsRight(r, closes) == ReaderEnds(r) = r.body \/ (closes /\ ReaderEnds(r) \in {AtClose, 0})

(* the reply has been written; framed: its reader sees the end where it is.  At
   the bound on requests the connection is given up. *)
evhttp_send_done(s) ==
    LET r == s.req
        need_close == \/ r.minor < 1 /\ ~evhttp_is_connection_keepalive(r.input)
                      \/ evhttp_is_connection_close(r.input) \/ evhttp_is_connection_close(r.output)
        t == [s EXCEPT !.evcon.queued = FALSE, !.evcon.framed = EndsRight(r, need_close)]
    IN IF need_close \/ s.evcon.served = MaxRequests THEN evhttp_connection_free(t)
       ELSE evhttp_associate_new_request_with_connection(t)

(* n units of body are handed over with the reply *)
evhttp_send(s, n) ==
    IF ~s.req.attached THEN s
    ELSE IF ~s.evcon.queued THEN Aborted(s, "assert")
    ELSE evhttp_write_buffer(evhttp_make_header([s EXCEPT !.req.userdone = TRUE, !.req.body = n]), "evhttp_send_done")

evhttp_response_code(s, code) == [s EXCEPT !.req.code = code, !.req.kind = "RESPONSE"]

(* evhttp_send_page: the page's own headers only, version 1.1 for one that ends
   in 0, and the connection is to close; the page is one unit *)
evhttp_send_error(s, code) ==
    LET t == evhttp_response_code(s, code)
    IN evhttp_send([t EXCEPT !.req.minor = 1, !.req.output = "close", !.req.length = -1, !.req.te = FALSE], 1)

evhttp_send_reply(s, code, n) == evhttp_send(evhttp_response_code(s, code), n)

evhttp_send_reply_start(s, code) ==
    LET t == evhttp_response_code(s, code)
        chunk == t.req.length = -1 /\ t.req.minor >= 1 /\ evhttp_response_needs_body(t.req)
        u == [t EXCEPT !.req.chunked = chunk, !.req.te = chunk]
    IN IF ~s.req.attached THEN Aborted(s, "req->evcon is NULL") ELSE evhttp_write_buffer(evhttp_make_header(u), "none")

evhttp_send_reply_chunk(s) ==
    IF ~s.req.attached \/ ~evhttp_response_needs_body(s.req) THEN s
    ELSE evhttp_write_buffer([s EXCEPT !.req.body = @ + 1, !.evcon.out = TRUE], "none")

evhttp_send_reply_end(s) ==
    LET t == [s EXCEPT !.req.userdone = TRUE]
    IN IF ~s.req.attached THEN s
       ELSE IF s.req.chunked
            THEN evhttp_write_buffer([t EXCEPT !.req.chunked = FALSE, !.evcon.out = TRUE], "evhttp_send_done")
       ELSE IF ~s.evcon.out THEN evhttp_send_done(t)
       ELSE [t EXCEPT !.evcon.cb = "evhttp_send_done"]

(* how: a bad request (no uri) or a method that is not allowed, a page nobody
   serves, or the program's *)
evhttp_handle_request(s, how) ==
    LET t == [s EXCEPT !.req.userdone = FALSE]
    IN CASE how = "bad" -> evhttp_send_error(t, 400)
         [] how = "not allowed" -> evhttp_send_error(t, 501)
         [] how = "not found" -> evhttp_send_error(t, 404)
         [] OTHER -> [t EXCEPT !.program = [holds |-> TRUE, started |-> FALSE]]

evhttp_connection_done(s, how) == evhttp_handle_request([s EXCEPT !.evcon.state = "WRITING"], how)

(* an error of the network frees the connection and detaches the request from
   it while the program uses it; an error of HTTP is answered *)
evhttp_connection_incoming_fail(s, error) ==
    IF error = "INVALID_HEADER" THEN evhttp_handle_request(s, "bad")
    ELSE evhttp_connection_free(IF s.req.userdone THEN s ELSE [s EXCEPT !.evcon.queued = FALSE, !.req.attached = FALSE])

evhttp_connection_fail(s, error) ==
    IF ~s.evcon.queued THEN Aborted(s, "assert")
    ELSE evhttp_connection_incoming_fail([s EXCEPT !.evcon.enabled = {}], error)

(* b: what there is of the body *)
evhttp_read_body(s, b, how) ==
    CASE b = "more" -> [s EXCEPT !.evcon.enabled = @ \union {"R"}]
      [] b = "bad" -> evhttp_connection_fail(s, "INVALID_HEADER")
      [] b = "all" -> evhttp_connection_done([s EXCEPT !.evcon.enabled = @ \ {"R"}], how)

evhttp_get_body(s, b, how) ==
    LET t == [s EXCEPT !.evcon.state = "READING_BODY"]
        m == s.req.method
    IN CASE ~evhttp_method_may_have_body(m) -> evhttp_connection_done(s, how)
         [] m = "POST too large" /\ s.req.minor >= 1 -> evhttp_send_error(t, 413)
         [] m = "POST expects more" /\ s.req.minor >= 1 -> evhttp_send_error(t, 417)
         [] m = "POST expect" /\ s.req.minor >= 1 /\ ~s.evcon.left -> evhttp_read_body(evhttp_send_continue(t), b, how)
         [] OTHER -> evhttp_read_body(t, b, how)

(* line and headers of a request *)
Heads == [method : Methods, minor : 0..1, input : {"none", "keep-alive", "close"}]
evhttp_read_header(s, h, b, how) ==
    evhttp_get_body([s EXCEPT !.evcon.enabled = @ \ {"R"}, !.req.method = h.method, !.req.minor = h.minor, !.req.input = h.input], b, how)

(* a: "more", "bad", or the whole of the head *)
evhttp_read_cb(s0, a, h, b, left, how) ==
    LET s == [s0 EXCEPT !.evcon.deferred = FALSE, !.evcon.left = left]
    IN CASE s.evcon.state = "READING" /\ a = "more" -> s
         [] s.evcon.state = "READING" /\ a = "bad" -> evhttp_connection_fail(s, "INVALID_HEADER")
         [] s.evcon.state = "READING" /\ a = "head" -> evhttp_read_header(s, h, b, how)
         [] s.evcon.state = "READING_BODY" -> evhttp_read_body(s, b, how)
         [] OTHER -> Aborted(s, "illegal connection state")
-----------------------------------------------------------------------------
(* evhttp_get_request_connection and evhttp_get_request *)
Init == /\ evcon = [state |-> "READING", enabled |-> {"R"}, out |-> FALSE, left |-> FALSE, readcb |-> TRUE, cb |-> "none",
                    deferred |-> FALSE, queued |-> TRUE, served |-> 1, framed |-> TRUE, aborted |-> {}]
        /\ req = NewRequest
        /\ program = [holds |-> FALSE, started |-> FALSE]

Becomes(s) == evcon' = s.evcon /\ req' = s.req /\ program' = s.program
Alive == evcon.aborted = {}
Up == Alive /\ evcon.state # "FREED"

Input == \E a \in {"more", "bad", "head"}, h \in Heads, b \in {"more", "bad", "all"}, l \in BOOLEAN,
            how \in {"given", "not allowed", "not found"} :
             /\ b = "all" \/ l = FALSE          \* what is not yet a body is not behind one either
             /\ Becomes(evhttp_read_cb(S, a, h, b, l, how))
Arrives == Up /\ "R" \in evcon.enabled /\ evcon.readcb /\ Input
evhttp_deferred_read_cb == Up /\ evcon.deferred /\ Input
ReadError == /\ Up /\ "R" \in evcon.enabled /\ Becomes(evhttp_connection_fail(S, "EOF"))
WriteError == /\ Up /\ "W" \in evcon.enabled /\ evcon.out /\ Becomes(evhttp_connection_fail(S, "TIMEOUT"))
evhttp_write_cb ==
    /\ Up /\ "W" \in evcon.enabled /\ evcon.out
    /\ LET t == [S EXCEPT !.evcon.out = FALSE]
       IN Becomes(CASE evcon.cb = "evhttp_send_done" -> evhttp_send_done(t)
                    [] evcon.cb = "evhttp_send_continue_done" -> evhttp_send_continue_done(t)
                    [] OTHER -> t)

(* the program's calls; after the last the request is the library's *)
Over(s) == [s EXCEPT !.program = [holds |-> FALSE, started |-> FALSE]]
SendReply == /\ Alive /\ program.holds /\ ~program.started
             /\ \E code \in {200, 204}, n \in 0..1 :
                    /\ n > 0 => code # 204 /\ (req.method # "HEAD" \/ "body to HEAD" \in Calls)
                    /\ Becomes(evhttp_send_reply(Over(S), code, n))
SendError == Alive /\ program.holds /\ ~program.started /\ Becomes(evhttp_send_error(Over(S), 500))
ReplyStart == /\ Alive /\ program.holds /\ ~program.started
              /\ req.attached \/ "start late" \in Calls
              /\ req.minor = 0 /\ req.input = "keep-alive" => "stream 1.0" \in Calls
              /\ \E code \in {200, 204} : Becomes(evhttp_send_reply_start([S EXCEPT !.program.started = TRUE], code))
ReplyChunk == /\ Alive /\ program.holds /\ program.started /\ req.body < MaxChunks
              /\ Becomes(evhttp_send_reply_chunk(S))
ReplyEnd == Alive /\ program.holds /\ program.started /\ Becomes(evhttp_send_reply_end(Over(S)))

Next == \/ Arrives \/ evhttp_deferred_read_cb \/ ReadError \/ WriteError \/ evhttp_write_cb
        \/ SendReply \/ SendError \/ ReplyStart \/ ReplyChunk \/ ReplyEnd

Spec == Init /\ [][Next]_vars

(* a write goes out or meets its deadline *)
WriteGoesOn == evhttp_write_cb \/ WriteError
-----------------------------------------------------------------------------
(* No assertion of http.c fails, evhttp_read_cb meets no illegal state, no call
   meets a request without a connection unprepared, and no request is freed
   that the program still holds ("remove it so that it will not be freed",
   evhttp_connection_incoming_fail). *)
NoAbort == evcon.aborted = {}

(* A connection that is not waiting for the program waits for the peer: to send,
   or to take what is written. *)
NotStuck == evcon.state = "FREED" \/ program.holds \/ evcon.aborted # {}
    \/ ("R" \in evcon.enabled /\ evcon.readcb)
    \/ ("W" \in evcon.enabled /\ evcon.out)

(* The reader of a reply finds its end where the writer put it, by the chunks,
   by the length or by the close (evhttp_make_header_response: "this is
   required for persistent connections to work"). *)
Framed == evcon.framed

(* The program's hold on a request and the library's record of it agree. *)
HoldIsUserdone == evcon.queued => (program.holds <=> ~req.userdone)

(* A reply the program has finished is written, and the request given back. *)
Unwritten == evcon.queued /\ evcon.cb = "evhttp_send_done" /\ req.userdone /\ req.kind = "RESPONSE"
GivenBack == ~evcon.queued \/ req.kind = "REQUEST"
=============================================================================
