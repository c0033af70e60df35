---------------------------- MODULE Bufferevent -----------------------------
(***************************************************************************)
(* One socket bufferevent (bufferevent.c, bufferevent_sock.c): its two     *)
(* events, what suspends them, the read watermark, connecting by address   *)
(* or by host name, the callbacks, at once or deferred (locked, or with    *)
(* the lock let go around each of them), and the references.  Of the       *)
(* buffers only the lengths count.  Every operation holds the lock of the  *)
(* bufferevent and is one step.                                            *)
(***************************************************************************)
EXTENDS Integers, Sequences, FiniteSets, FiniteSetsExt

CONSTANTS DEFER,      \* BEV_OPT_DEFER_CALLBACKS
          UNLOCK,     \* BEV_OPT_UNLOCK_CALLBACKS
          Calls,      \* what the program calls
          MaxLen      \* bound: bytes in the input and in the output

Dir == {"R", "W"}
High == 2             \* the high watermark that is set
EOF == 0              \* results of a read or a write that are not a number of bytes
ERROR == -1
AGAIN == -2

VARIABLES bev,        \* struct bufferevent_private
          loop        \* the deferred callback under way: the callbacks still to look at

vars == <<bev, loop>>

Order == <<"CONNECTED", "READ", "WRITE", "EVENT">>

(* pend: the events that are added; active: ev_write made active by hand;
   down: the events were taken away for good (failed connection or no fd) *)
bufferevent_socket_new(fd) ==
    [enabled |-> {"W"}, rs |-> {}, ws |-> {}, pend |-> {}, active |-> FALSE, fd |-> fd, down |-> FALSE,
     connecting |-> FALSE, refused |-> FALSE, in |-> 0, out |-> 0, high |-> 0, cbs |-> TRUE,
     pending |-> {}, queued |-> FALSE, lookups |-> 0, refcnt |-> 1, owned |-> TRUE, freed |-> FALSE,
     late |-> FALSE, ok |-> TRUE]

be_socket_enable(b, E) == [b EXCEPT !.pend = @ \union E]

(* event_del also takes the event off the active queue *)
be_socket_disable(b, E) ==
    LET D == IF b.connecting THEN E \ {"W"} ELSE E
    IN [b EXCEPT !.pend = @ \ D, !.active = IF "W" \in D THEN FALSE ELSE @]

event_del(b, E) == [b EXCEPT !.pend = @ \ E, !.active = IF "W" \in E THEN FALSE ELSE @]

bufferevent_suspend_read(b, what) ==
    [(IF b.rs = {} THEN be_socket_disable(b, {"R"}) ELSE b) EXCEPT !.rs = @ \union {what}]
bufferevent_suspend_write(b, what) ==
    [(IF b.ws = {} THEN be_socket_disable(b, {"W"}) ELSE b) EXCEPT !.ws = @ \union {what}]

bufferevent_unsuspend_read(b, what) ==
    LET u == [b EXCEPT !.rs = @ \ {what}]
    IN IF u.rs = {} /\ "R" \in u.enabled THEN be_socket_enable(u, {"R"}) ELSE u
bufferevent_unsuspend_write(b, what) ==
    LET u == [b EXCEPT !.ws = @ \ {what}]
    IN IF u.ws = {} /\ "W" \in u.enabled THEN be_socket_enable(u, {"W"}) ELSE u

bufferevent_inbuf_wm_cb(b) ==
    IF b.high = 0 THEN b
    ELSE IF b.in >= b.high THEN bufferevent_suspend_read(b, "WM") ELSE bufferevent_unsuspend_read(b, "WM")

bufferevent_enable(b, E) ==
    LET impl_events == E \ ((IF b.rs # {} THEN {"R"} ELSE {}) \union (IF b.ws # {} THEN {"W"} ELSE {}))
    IN be_socket_enable([b EXCEPT !.enabled = @ \union E], impl_events)

bufferevent_disable(b, E) == be_socket_disable([b EXCEPT !.enabled = @ \ E], E)

bufferevent_disable_hard(b, E) ==
    be_socket_disable([b EXCEPT !.enabled = @ \ E, !.connecting = FALSE], E)

-----------------------------------------------------------------------------
(* References and callbacks *)

be_socket_destruct(b) == [event_del(b, Dir) EXCEPT !.freed = TRUE]

incref(b) == [b EXCEPT !.refcnt = @ + 1]

_bufferevent_decref_and_unlock(b) ==
    LET d == [b EXCEPT !.refcnt = @ - 1, !.ok = @ /\ b.refcnt > 0 /\ ~b.freed]
    IN IF d.refcnt > 0 THEN d ELSE be_socket_destruct(d)

bufferevent_free(b) == _bufferevent_decref_and_unlock([b EXCEPT !.cbs = FALSE, !.owned = FALSE])

(* a callback of the program is called; react: it frees the bufferevent or not *)
Called(b, react) ==
    LET c == [b EXCEPT !.late = @ \/ ~b.owned]
    IN IF react = "free" /\ b.owned THEN bufferevent_free(c) ELSE c

(* mutant: scheduled without a reference *)
SCHEDULE_DEFERRED_NoRef(b) == [b EXCEPT !.queued = TRUE]

SCHEDULE_DEFERRED(b) == [incref(b) EXCEPT !.queued = TRUE]

(* _bufferevent_run_readcb, _bufferevent_run_writecb, _bufferevent_run_eventcb *)
Run(b, cb, react) ==
    IF ~b.cbs THEN b
    ELSE IF ~DEFER THEN Called(b, react)
    ELSE LET p == [b EXCEPT !.pending = @ \union {cb}]
         IN IF p.queued THEN p ELSE SCHEDULE_DEFERRED(p)

-----------------------------------------------------------------------------
(* The two events *)

bufferevent_socket_outbuf_cb(b) ==
    IF "W" \in b.enabled /\ "W" \notin b.pend /\ ~b.active /\ b.ws = {} THEN be_socket_enable(b, {"W"}) ELSE b

Howmuch(b) == IF b.high = 0 THEN MaxLen ELSE b.high - b.in

bufferevent_readcb(b, event, res, react) ==
    LET fail == Run(bufferevent_disable(b, {"R"}), "EVENT", react)
    IN IF event = "TIMEOUT" THEN fail
       ELSE IF Howmuch(b) <= 0 THEN bufferevent_suspend_read(b, "WM")
       ELSE IF b.rs # {} \/ res = AGAIN THEN b
       ELSE IF res \in {ERROR, EOF} THEN fail
       ELSE Run(bufferevent_inbuf_wm_cb([b EXCEPT !.in = @ + res]), "READ", react)

(* res bytes have been written; nothing left, nothing to wait for *)
Sent(b, res) ==
    LET s == [b EXCEPT !.out = @ - res] IN IF s.out = 0 THEN event_del(s, {"W"}) ELSE s

Flow(b, res, connected, react) ==
    IF b.ws # {} THEN b
    ELSE IF b.out > 0 /\ res = AGAIN THEN b
    ELSE IF b.out > 0 /\ res \in {ERROR, EOF} THEN Run(bufferevent_disable(b, {"W"}), "EVENT", react)
    ELSE LET s == Sent(b, IF b.out > 0 THEN res ELSE 0) IN
         IF (b.out > 0 \/ ~connected) /\ s.out = 0 THEN Run(s, "WRITE", react) ELSE s

(* c: what evutil_socket_finished_connecting says, 0 not yet, -1 failed *)
bufferevent_writecb(b, event, c, res, react) ==
    LET done == [b EXCEPT !.connecting = FALSE, !.refused = FALSE]
        up == Run(done, "CONNECTED", react)
    IN IF event = "TIMEOUT" THEN Run(bufferevent_disable(b, {"W"}), "EVENT", react)
       ELSE IF ~b.connecting THEN Flow(b, res, FALSE, react)
       ELSE IF ~b.refused /\ c = 0 THEN b
       ELSE IF b.refused \/ c < 0
       THEN Run([event_del(done, Dir) EXCEPT !.down = TRUE], "EVENT", react)
       ELSE IF "W" \notin up.enabled \/ up.ws # {} THEN event_del(up, {"W"})
       ELSE Flow(up, res, TRUE, react)

be_socket_setfd(b, fd) ==
    LET d == [event_del(b, Dir) EXCEPT !.fd = fd, !.down = (fd < 0)]
    IN IF fd >= 0 THEN bufferevent_enable(d, d.enabled) ELSE d

(* r: in progress, done already, refused already, or failed at once *)
bufferevent_socket_connect(b, r, react) ==
    LET s == be_socket_setfd(b, 1)
    IN CASE r = "failed" -> Run(b, "EVENT", react)
         [] r = "progress" -> [be_socket_enable(s, {"W"}) EXCEPT !.connecting = TRUE]
         [] r = "done" -> [s EXCEPT !.connecting = TRUE, !.active = TRUE]
         [] r = "refused" -> [s EXCEPT !.connecting = TRUE, !.refused = TRUE, !.active = TRUE]

LookedUp(b) == bufferevent_unsuspend_read(bufferevent_unsuspend_write(b, "LOOKUP"), "LOOKUP")

bufferevent_connect_getaddrinfo_cb(b, r, react) ==
    LET u == LookedUp([b EXCEPT !.lookups = @ - 1])
    IN _bufferevent_decref_and_unlock(
           IF r = "nohost" THEN Run(u, "EVENT", react)
           ELSE _bufferevent_decref_and_unlock(bufferevent_socket_connect(incref(u), r, react)))

bufferevent_socket_connect_hostname(b) ==
    [incref(bufferevent_suspend_read(bufferevent_suspend_write(b, "LOOKUP"), "LOOKUP"))
        EXCEPT !.lookups = @ + 1]

bufferevent_setwatermark(b, high) ==
    LET m == [b EXCEPT !.high = high]
    IN IF high = 0 THEN bufferevent_unsuspend_read(m, "WM") ELSE bufferevent_inbuf_wm_cb(m)

-----------------------------------------------------------------------------

Init == /\ \E fd \in {-1, 1} : bev = bufferevent_socket_new(fd)
        /\ loop = <<>>

User(call, b) == /\ call \in Calls /\ bev.owned
                 /\ bev' = b /\ UNCHANGED loop

Write == bev.out < MaxLen /\ User("write", bufferevent_socket_outbuf_cb([bev EXCEPT !.out = @ + 1]))
Read == bev.in > 0 /\ User("read", bufferevent_inbuf_wm_cb([bev EXCEPT !.in = @ - 1]))
Enable == \E E \in {{"R"}, {"W"}} : User("enable", bufferevent_enable(bev, E))
Disable == \E E \in {{"R"}, {"W"}} : User("disable", bufferevent_disable(bev, E))
DisableHard == User("hard", bufferevent_disable_hard(bev, Dir))
SetWatermark == \E high \in {0, High} : User("watermark", bufferevent_setwatermark(bev, high))
SetFd == \E fd \in {-1, 1} : User("setfd", be_socket_setfd(bev, fd))
Connect == /\ ~bev.connecting /\ bev.lookups = 0
           /\ \E r \in {"progress", "done", "refused", "failed"}, react \in {"none", "free"} :
                 User("connect", _bufferevent_decref_and_unlock(bufferevent_socket_connect(incref(bev), r, react)))
ConnectHost == ~bev.connecting /\ bev.lookups = 0 /\ User("host", bufferevent_socket_connect_hostname(bev))
Free == User("free", bufferevent_free(bev))

(* the loop calls a callback of an event that is added or active *)
Fire(b) == bev' = _bufferevent_decref_and_unlock(b) /\ UNCHANGED loop

ReadEvent == /\ "R" \in bev.pend /\ bev.fd >= 0
             /\ \E event \in {"READ", "TIMEOUT"}, react \in {"none", "free"},
                   res \in {AGAIN, ERROR, EOF} \union 1..Min({MaxLen - bev.in, Max({1, Howmuch(bev)})}) :
                   Fire(bufferevent_readcb(incref(bev), event, res, react))
WriteEvent == /\ "W" \in bev.pend \/ bev.active
              /\ bev.fd >= 0
              /\ \E event \in {"WRITE", "TIMEOUT"}, react \in {"none", "free"}, c \in -1..1,
                    res \in {AGAIN, ERROR, EOF} \union 1..bev.out :
                    /\ bev.active => event = "WRITE" /\ c # 0
                    /\ Fire(bufferevent_writecb(incref([bev EXCEPT !.active = FALSE]), event, c, res, react))

Lookup == /\ bev.lookups > 0
          /\ \E r \in {"progress", "done", "refused", "failed", "nohost"}, react \in {"none", "free"} :
                bev' = bufferevent_connect_getaddrinfo_cb(bev, r, react)
          /\ UNCHANGED loop

(* bufferevent_run_deferred_callbacks_locked is one step; unlocked, each
   callback runs with the lock let go, and the calls of others between them *)
RECURSIVE Deferred(_, _, _)
Deferred(b, i, react) ==
    IF i > Len(Order) THEN _bufferevent_decref_and_unlock(b)
    ELSE Deferred(IF Order[i] \in b.pending /\ b.cbs
                  THEN Called([b EXCEPT !.pending = @ \ {Order[i]}], react) ELSE b, i + 1, react)

DeferredLocked == /\ bev.queued /\ ~UNLOCK
                  /\ \E react \in {"none", "free"} :
                        bev' = Deferred([bev EXCEPT !.queued = FALSE], 1, react)
                  /\ UNCHANGED loop

DeferredBegin == /\ bev.queued /\ UNLOCK /\ loop = <<>>
                 /\ bev' = [bev EXCEPT !.queued = FALSE]
                 /\ loop' = Order

(* the next callback to look at is taken note of with the lock held *)
DeferredNext == /\ loop # <<>> /\ Head(loop) # "call"
                /\ LET cb == Head(loop)
                       due == cb \in bev.pending /\ bev.cbs
                       b == IF due THEN [bev EXCEPT !.pending = @ \ {cb}] ELSE bev
                   IN /\ loop' = (IF due THEN <<"call">> ELSE <<>>) \o Tail(loop)
                      /\ bev' = IF loop' = <<>> THEN _bufferevent_decref_and_unlock(b) ELSE b

(* and called with the lock let go; what it does are steps of the program *)
DeferredCall == /\ loop # <<>> /\ Head(loop) = "call"
                /\ loop' = Tail(loop)
                /\ bev' = IF loop' = <<>> THEN _bufferevent_decref_and_unlock(Called(bev, "none"))
                          ELSE Called(bev, "none")

Next == \/ Write \/ Read \/ Enable \/ Disable \/ DisableHard \/ SetWatermark \/ SetFd
        \/ Connect \/ ConnectHost \/ Free
        \/ ReadEvent \/ WriteEvent \/ Lookup \/ DeferredLocked \/ DeferredBegin \/ DeferredNext \/ DeferredCall

Spec == Init /\ [][Next]_vars

-----------------------------------------------------------------------------
(* Properties *)

(* The read event is added exactly when reading is enabled and nothing
   suspends it: no suspension is forgotten, and none keeps reading off after
   its reason is gone.  (After a failed connection, or without a socket, the
   events have been taken away.) *)
ReadArmed ==
    ~bev.freed => /\ "R" \in bev.pend => "R" \in bev.enabled /\ bev.rs = {}
                  /\ "R" \in bev.enabled /\ bev.rs = {} /\ ~bev.down => "R" \in bev.pend

(* Bytes in the output of a bufferevent that may write are waited for; and
   the write event is added only to write or to learn of a connection. *)
WriteArmed ==
    ~bev.freed => /\ bev.out > 0 /\ "W" \in bev.enabled /\ bev.ws = {} /\ ~bev.down
                        => "W" \in bev.pend \/ bev.active
                  /\ "W" \in bev.pend => ("W" \in bev.enabled /\ bev.ws = {}) \/ bev.connecting

(* The watermark suspends reading exactly while the input has reached it, and
   a read never goes past it. *)
WatermarkHolds ==
    ~bev.freed => /\ "WM" \in bev.rs <=> bev.high # 0 /\ bev.in >= bev.high
                  /\ bev.lookups > 0 <=> "LOOKUP" \in bev.rs
NeverPastWatermark == bev'.in > bev.in /\ bev.high # 0 => bev'.in <= bev.high

(* What the queue, the lookups, the loop and the program hold is what is
   counted, so the bufferevent goes when the last of them lets go, not
   before, and it goes once. *)
Refs == /\ bev.ok
        /\ bev.refcnt = Cardinality({x \in {"owned", "queued", "loop"} :
                            \/ x = "owned" /\ bev.owned
                            \/ x = "queued" /\ bev.queued
                            \/ x = "loop" /\ loop # <<>>}) + bev.lookups
        /\ bev.freed <=> bev.refcnt = 0

(* No callback of the program is called after it has freed the bufferevent
   (unless the option lets go of the lock around the callbacks). *)
NotCalledAfterFree == ~bev.late

(* A callback that waits to be run is in the queue or under way. *)
PendingIsQueued == bev.pending # {} /\ bev.cbs => bev.queued \/ loop # <<>>

(* A connection that was asked for is reported, or given up: the event that
   tells of it is there to be waited for. *)
ConnectIsWatched == bev.connecting /\ ~bev.freed => "W" \in bev.pend \/ bev.active
=============================================================================
