------------------------- MODULE BuffereventOpenssl -------------------------
(***************************************************************************)
(* A TLS bufferevent (bufferevent_openssl.c) on a socket or on another     *)
(* bufferevent: while a read may have to write (a renegotiation) and a     *)
(* write to read, the bufferevent keeps the events it needs.  What OpenSSL *)
(* answers is chosen freely.  A step is one callback or one call of the    *)
(* program; only lengths count.                                            *)
(***************************************************************************)
EXTENDS Integers, FiniteSets, FiniteSetsExt

CONSTANTS Under,     \* TRUE: on another bufferevent
          Calls,     \* what the program does
          MaxLen     \* bound: bytes in a buffer

Dir == {"R", "W"}
High == 1
Blocked == {"WANT_READ", "WANT_WRITE", "CLOSED"}
(* one run of SSL_read or SSL_write calls: how many bytes went, and what ended
   it ("DONE": nothing more to do; "FULL": the output of the bufferevent below
   is at its high-water mark, which only consider_writing looks at) *)
Results == {x \in [n : 0..1, end : Blocked \union {"DONE"}] : x.n = 0 => x.end # "DONE"}
           \union [n : 0..1, end : IF Under THEN {"FULL"} ELSE {}]
(* a read does not take more than the bound, and a write that is refused is
   the write of something *)
OfRead(s, x) == LET end == IF x.end = "FULL" THEN "WANT_READ" ELSE x.end
                IN IF s.in + x.n <= MaxLen THEN [x EXCEPT !.end = end]
                   ELSE [n |-> 0, end |-> IF end = "DONE" THEN "WANT_READ" ELSE end]
OfWrite(s, x, all) == [n |-> IF x.end # "DONE" THEN Min({x.n, s.out - 1}) ELSE IF all THEN s.out ELSE x.n,
                       end |-> IF x.end = "FULL" /\ ~all THEN "WANT_WRITE" ELSE x.end]

VARIABLE b           \* struct bufferevent_openssl

vars == b

(* rd, wr: ev_read and ev_write are pending; on another bufferevent rd says
   that its reading is not suspended, and its writing never is *)

start_reading(s) == [s EXCEPT !.rd = TRUE, !.wr = s.wr \/ (~Under /\ s.rbow)]
start_writing(s) == IF Under THEN s ELSE [s EXCEPT !.wr = TRUE, !.rd = s.rd \/ s.wbor]

stop_reading(s) == IF s.wbor THEN s ELSE [s EXCEPT !.rd = FALSE]

(* mutant: a read that has to write is forgotten *)
stop_writing_Always(s) == IF Under THEN s ELSE [s EXCEPT !.wr = FALSE]

stop_writing(s) == IF s.rbow \/ Under THEN s ELSE [s EXCEPT !.wr = FALSE]

set_rbow(s) == start_writing([IF Under THEN s ELSE stop_reading(s) EXCEPT !.rbow = TRUE])
set_wbor(s) == start_reading([IF Under THEN s ELSE stop_writing(s) EXCEPT !.wbor = TRUE])

clear_rbow(s) ==
    LET c == [s EXCEPT !.rbow = FALSE]
        w == IF "W" \in s.enabled THEN c ELSE stop_writing(c)
    IN IF "R" \in s.enabled THEN start_reading(w) ELSE w

clear_wbor(s) ==
    LET c == [s EXCEPT !.wbor = FALSE]
        r == IF "R" \in s.enabled THEN c ELSE stop_reading(c)
    IN IF "W" \in s.enabled THEN start_writing(r) ELSE r

conn_closed(s) == [stop_writing(stop_reading(s)) EXCEPT !.closed = TRUE]

rsus(s) == s.rs # {}
wsus(s) == s.ws # {}
Full(s) == s.high # 0 /\ s.in >= s.high

(* the events below, as far as the bufferevent is open *)
be_openssl_disable(s, E) ==
    LET r == IF "R" \in E THEN stop_reading(s) ELSE s
    IN IF s.state # "OPEN" THEN s ELSE IF "W" \in E THEN stop_writing(r) ELSE r

bufferevent_suspend_read(s, why) ==
    [IF rsus(s) THEN s ELSE be_openssl_disable(s, {"R"}) EXCEPT !.rs = @ \union {why}]
bufferevent_suspend_write(s, why) ==
    [IF wsus(s) THEN s ELSE be_openssl_disable(s, {"W"}) EXCEPT !.ws = @ \union {why}]

(* bytes have come in *)
Came(s, n) == LET t == [s EXCEPT !.in = @ + n]
              IN IF n > 0 /\ Full(t) THEN bufferevent_suspend_read(t, "WM") ELSE t

(* what ended the reads, and the writes, leaves the events right *)
ReadEnded(r, end) ==
    CASE end = "WANT_READ" -> IF r.rbow THEN clear_rbow(r) ELSE r
      [] end = "WANT_WRITE" -> IF r.rbow THEN r ELSE set_rbow(r)
      [] end = "CLOSED" -> conn_closed(r)
      [] OTHER -> r

do_read(s, want) ==
    LET x == OfRead(s, want)
    IN Came(ReadEnded(IF x.n > 0 /\ s.rbow THEN clear_rbow(s) ELSE s, x.end), x.n)

WriteEnded(r, end) ==
    CASE end = "WANT_WRITE" -> IF r.wbor THEN clear_wbor(r) ELSE r
      [] end = "WANT_READ" -> IF r.wbor THEN r ELSE set_wbor(r)
      [] end = "CLOSED" -> conn_closed(r)
      [] OTHER -> r

do_write(s, want, all) ==
    LET x == OfWrite(s, want, all)
    IN [WriteEnded(IF x.n > 0 /\ s.wbor THEN clear_wbor(s) ELSE s, x.end) EXCEPT !.out = @ - x.n]

(* more than 0: reading makes sense *)
bytes_to_read(s) ==
    IF s.wbor \/ "R" \notin s.enabled \/ rsus(s) \/ Full(s) THEN 0
    ELSE IF s.high # 0 THEN s.high - s.in ELSE MaxLen

(* x: what the write that may come first does; y: the reads *)
Unblock(s, x) == IF s.rbow THEN do_read(s, x) ELSE s

MayWrite(s) == "W" \in s.enabled /\ ~wsus(s) /\ s.out > 0
NoMoreWriting(s) == IF ~Under /\ ~MayWrite(s) THEN [s EXCEPT !.wr = FALSE] ELSE s
WriteOn(s, x) == IF s.rbow THEN s ELSE NoMoreWriting(IF MayWrite(s) THEN do_write(s, x, TRUE) ELSE s)

consider_writing(s, x, y) ==
    IF s.rbow /\ rsus(s) THEN [s EXCEPT !.hung = TRUE] ELSE WriteOn(Unblock(s, y), x)

(* the program adds to the output *)
be_openssl_outbuf_cb(s, x, y) ==
    LET t == [s EXCEPT !.out = @ + 1]
        a == IF s.out = 0 /\ ~Under THEN [t EXCEPT !.wr = TRUE] ELSE t
    IN IF s.state = "OPEN" THEN consider_writing(a, x, y) ELSE t

(* the read callback may write, with the result in reply; elsewhere a callback
   that writes is the same as a write after the step *)
ReadCb(s, reply) ==
    IF s.out < MaxLen /\ reply # {}
    THEN LET x == CHOOSE x \in reply : TRUE IN [be_openssl_outbuf_cb(s, x, x) EXCEPT !.replied = TRUE]
    ELSE s

ReadSome(s, y, reply) == ReadCb(do_read(s, y), IF OfRead(s, y).n > 0 THEN reply ELSE {})
NoMoreReading(s) == IF ~Under /\ ~s.hung /\ (rsus(s) \/ "R" \notin s.enabled) THEN [s EXCEPT !.rd = FALSE] ELSE s
ReadOn(s, y, reply) ==
    IF s.wbor THEN s ELSE NoMoreReading(IF bytes_to_read(s) > 0 THEN ReadSome(s, y, reply) ELSE s)

consider_reading(s, x, y, reply) ==
    IF s.wbor /\ wsus(s) THEN [s EXCEPT !.hung = TRUE]
    ELSE ReadOn(IF s.wbor THEN do_write(s, x, FALSE) ELSE s, y, reply)

ThenWrite(s, E, x, y) == IF "W" \in E /\ ~s.hung THEN consider_writing(s, x, y) ELSE s

be_openssl_enable(s, E, x, y) ==
    LET r == IF "R" \in E THEN start_reading(s) ELSE s
        w == IF "W" \in E THEN start_writing(r) ELSE r
    IN IF s.state # "OPEN" THEN s
       ELSE IF ~Under THEN w
       ELSE ThenWrite(IF "R" \in E THEN consider_reading(w, x, y, {}) ELSE w, E, x, y)

bufferevent_enable(s, E, x, y) ==
    be_openssl_enable([s EXCEPT !.enabled = @ \union E, !.fresh = @ /\ "R" \notin E],
                      {d \in E : IF d = "R" THEN ~rsus(s) ELSE ~wsus(s)}, x, y)

bufferevent_unsuspend_read(s, why, x, y) ==
    LET u == [s EXCEPT !.rs = @ \ {why}]
    IN IF ~rsus(u) /\ "R" \in s.enabled THEN be_openssl_enable(u, {"R"}, x, y) ELSE u
bufferevent_unsuspend_write(s, why, x, y) ==
    LET u == [s EXCEPT !.ws = @ \ {why}]
    IN IF ~wsus(u) /\ "W" \in s.enabled THEN be_openssl_enable(u, {"W"}, x, y) ELSE u

bufferevent_inbuf_wm_cb(s, x, y) ==
    IF Full(s) THEN bufferevent_suspend_read(s, "WM") ELSE bufferevent_unsuspend_read(s, "WM", x, y)

(* the callbacks change; which events are pending does not *)
set_open_callbacks(s) == [s EXCEPT !.state = "OPEN"]

do_handshake(s, r, x, y) ==
    CASE r = "OK" -> LET o == set_open_callbacks(s) IN bufferevent_enable(o, o.enabled, x, y)
      [] r = "WANT_WRITE" -> IF Under THEN s ELSE start_writing(stop_reading(s))
      [] r = "WANT_READ" -> IF Under THEN s ELSE start_reading(stop_writing(s))
      [] r = "CLOSED" -> conn_closed(s)

set_handshake_callbacks(s) == IF Under THEN s ELSE [s EXCEPT !.rd = TRUE, !.wr = TRUE]

-----------------------------------------------------------------------------

(* bufferevent_openssl_new_impl: connecting or accepting, or open already *)
Init == \E state \in {"HANDSHAKE", "OPEN"} :
    b = [state |-> state, enabled |-> IF Under THEN {"W"} ELSE Dir, rs |-> {}, ws |-> {}, rbow |-> FALSE,
         wbor |-> FALSE, in |-> 0, out |-> 0, high |-> 0,
         rd |-> state = "HANDSHAKE", wr |-> TRUE, closed |-> FALSE, hung |-> FALSE,
         fresh |-> ~Under /\ state = "OPEN", replied |-> FALSE]

(* a thread in an endless loop keeps the lock *)
Live == ~b.hung /\ ~b.closed

Readable ==
    /\ Live /\ b.state = "OPEN" /\ b.rd
    /\ b' \in {consider_reading(b, x, y, reply) : x, y \in Results,
                  reply \in {{}} \union (IF "react" \in Calls THEN {{z} : z \in Results} ELSE {})}

Writable ==
    /\ Live /\ b.state = "OPEN" /\ b.wr
    /\ b' \in {consider_writing(b, x, y) : x, y \in Results}

Handshake ==
    /\ Live /\ b.state = "HANDSHAKE" /\ (b.rd \/ b.wr)
    /\ b' \in {do_handshake(b, r, x, y) : r \in Blocked \union {"OK"}, x, y \in Results}

User(call) == call \in Calls /\ Live
Write == /\ User("write") /\ b.out < MaxLen
         /\ b' \in {be_openssl_outbuf_cb(b, x, y) : x, y \in Results}
(* the input shrinks: under the mark, reading goes on *)
Read ==
    LET s == [b EXCEPT !.in = @ - 1] IN
    /\ User("read") /\ b.in > 0
    /\ b' \in {IF b.high = 0 THEN s ELSE bufferevent_inbuf_wm_cb(s, x, y) : x, y \in Results}
SetWatermark == \E high \in {0, High} :
    User("watermark") /\ b' \in {bufferevent_inbuf_wm_cb([b EXCEPT !.high = high], x, y) : x, y \in Results}
Enable == \E E \in SUBSET Dir :
    User("enable") /\ b' \in {bufferevent_enable(b, E, x, y) : x, y \in Results}
Disable == \E E \in SUBSET Dir : User("enable") /\ b' = be_openssl_disable([b EXCEPT !.enabled = @ \ E], E)
(* a rate limit stops a direction, and lets it go *)
Suspend == \/ User("limit") /\ b' = bufferevent_suspend_read(b, "BW")
           \/ User("limit") /\ b' = bufferevent_suspend_write(b, "BW")
Unsuspend ==
    \/ User("limit") /\ "BW" \in b.rs /\ b' \in {bufferevent_unsuspend_read(b, "BW", x, y) : x, y \in Results}
    \/ User("limit") /\ "BW" \in b.ws /\ b' \in {bufferevent_unsuspend_write(b, "BW", x, y) : x, y \in Results}
bufferevent_ssl_renegotiate ==
    /\ User("renegotiate") /\ b.state = "OPEN"
    /\ b' \in {do_handshake(set_handshake_callbacks([b EXCEPT !.state = "HANDSHAKE"]), r, x, y) :
                  r \in Blocked \union {"OK"}, x, y \in Results}

Next == Readable \/ Writable \/ Handshake \/ Write \/ Read \/ SetWatermark \/ Enable \/ Disable
        \/ Suspend \/ Unsuspend \/ bufferevent_ssl_renegotiate
Spec == Init /\ [][Next]_vars

-----------------------------------------------------------------------------
(* Properties *)

(* A bufferevent that may read waits for the socket, unless the read waits
   for a write.  (One made for an open session says it is enabled, but does not
   read before bufferevent_enable.) *)
ReadArmed == ~b.closed /\ ~b.fresh /\ b.state = "OPEN" /\ "R" \in b.enabled /\ ~rsus(b) /\ ~b.rbow => b.rd

(* One that has something to write, and may, waits until it can, unless the
   write waits for the peer. *)
WriteArmed == ~b.closed /\ b.state = "OPEN" /\ "W" \in b.enabled /\ ~wsus(b) /\ b.out > 0 /\ ~b.wbor => b.wr

(* What an operation waits for is watched, also when the program disables or
   suspends the direction it is in.  One case is missed: a write from inside
   the read callback has to wait for the peer, and consider_reading then deletes
   the read event of a suspended or disabled direction, which "Should be
   redundant" (bufferevent_openssl.c:833). *)
BlockedArmed == ~b.closed /\ b.state = "OPEN" =>
    /\ b.rbow => b.wr
    /\ b.wbor /\ ~b.rd => b.replied /\ (rsus(b) \/ "R" \notin b.enabled)

(* The loops that work off a blocked operation end, but for two cases: a read
   that waits for a write while reading is suspended, for which a high-water
   mark is enough (bufferevent_openssl.c:846), and a write that waits for a
   read while a rate limit suspends writing (:772).  Such a thread goes round
   for ever. *)
LoopsEnd == b.hung => (b.rbow /\ rsus(b)) \/ (b.wbor /\ "BW" \in b.ws)

(* A handshake waits for something. *)
HandshakeArmed == ~b.closed /\ b.state = "HANDSHAKE" => b.rd \/ b.wr

=============================================================================
