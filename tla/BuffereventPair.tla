-------------------------- MODULE BuffereventPair ---------------------------
(***************************************************************************)
(* Two bufferevents joined back to back (bufferevent_pair.c on             *)
(* bufferevent.c): what one writes the other reads, as far as both are     *)
(* enabled and the reader's watermark allows.  They share one lock, so an  *)
(* operation is one step; their callbacks are always deferred.  Of the     *)
(* buffers only the lengths count.                                         *)
(***************************************************************************)
EXTENDS Integers, FiniteSets, FiniteSetsExt

CONSTANTS Calls,     \* what the program calls
          MaxLen,    \* bound: bytes on the way in one direction
          MaxLeft    \* bound: references a flush leaves on one side

Side == {1, 2}
Other(x) == 3 - x
Dir == {"R", "W"}
High == 1

VARIABLE p           \* p[x]: one struct bufferevent_pair

vars == p

bufferevent_pair_elt_new ==
    [enabled |-> {"W"}, wm |-> FALSE, in |-> 0, out |-> 0, high |-> 0, refcnt |-> 1, owned |-> TRUE,
     freed |-> FALSE, partner |-> TRUE, queued |-> FALSE, left |-> 0]

(* _bufferevent_run_readcb and its like: all deferred; which of them is due
   does not matter here *)
Run(b) == IF ~b.owned \/ b.queued THEN b ELSE [b EXCEPT !.queued = TRUE, !.refcnt = @ + 1]

be_pair_wants_to_talk(q, src) ==
    LET dst == Other(src) IN
    /\ "W" \in q[src].enabled /\ "R" \in q[dst].enabled /\ ~q[dst].wm /\ q[src].out > 0

(* bufferevent_inbuf_wm_cb, without what an unsuspended reader does next *)
Marked(b) == [b EXCEPT !.wm = b.high # 0 /\ b.in >= b.high]

(* how many bytes go over *)
Fits(q, src, ignore_wm) ==
    LET d == q[Other(src)] IN
    IF d.high = 0 THEN q[src].out
    ELSE IF d.in < d.high THEN Min({d.high - d.in, q[src].out})
    ELSE IF ignore_wm THEN q[src].out ELSE 0

be_pair_transfer(q, src, ignore_wm) ==
    LET dst == Other(src)
        n == Fits(q, src, ignore_wm)
        d == Marked([q[dst] EXCEPT !.in = @ + n])
        s == [q[src] EXCEPT !.out = @ - n]
    IN IF q[dst].high # 0 /\ q[dst].in >= q[dst].high /\ ~ignore_wm THEN q
       ELSE [q EXCEPT ![dst] = Run(d), ![src] = IF s.out = 0 THEN Run(s) ELSE s]

Talk(q, src) == IF q[src].partner /\ be_pair_wants_to_talk(q, src) THEN be_pair_transfer(q, src, FALSE) ELSE q

be_pair_outbuf_cb(q, x) == Talk(q, x)

be_pair_enable(q, x, E) ==
    LET r == IF "R" \in E THEN Talk(q, Other(x)) ELSE q
    IN IF "W" \in E THEN Talk(r, x) ELSE r

bufferevent_enable(q, x, E) ==
    LET impl == IF q[x].wm THEN E \ {"R"} ELSE E
        r == [q EXCEPT ![x].enabled = @ \union E]
    IN be_pair_enable(r, x, impl)

(* the input or its mark has changed: suspended, or free to read again *)
bufferevent_inbuf_wm_cb(q, x) ==
    LET r == [q EXCEPT ![x] = Marked(@)]
    IN IF ~r[x].wm /\ "R" \in r[x].enabled THEN be_pair_enable(r, x, {"R"}) ELSE r

be_pair_destruct(q, x) == [q EXCEPT ![x].freed = TRUE, ![x].partner = FALSE, ![Other(x)].partner = FALSE]

_bufferevent_decref_and_unlock(q, x) ==
    LET r == [q EXCEPT ![x].refcnt = @ - 1]
    IN IF r[x].refcnt > 0 THEN r ELSE be_pair_destruct(r, x)

bufferevent_free(q, x) == _bufferevent_decref_and_unlock([q EXCEPT ![x].owned = FALSE], x)

(* incref_and_lock takes a reference to both; two of the three ways out do
   not give them back (left counts them), nor the lock *)
be_pair_flush(q, x, E, mode) ==
    LET kept == [y \in Side |-> IF y = x \/ q[x].partner
                                THEN [q[y] EXCEPT !.refcnt = @ + 1, !.left = @ + 1] ELSE q[y]]
        r == IF "R" \in E THEN be_pair_transfer(q, Other(x), TRUE) ELSE q
        w == IF "W" \in E THEN be_pair_transfer(r, x, TRUE) ELSE r
    IN IF ~q[x].partner \/ mode = "NORMAL" THEN kept
       ELSE IF mode = "FINISHED" THEN [w EXCEPT ![Other(x)] = Run(@)] ELSE w

-----------------------------------------------------------------------------

Init == p = [x \in Side |-> bufferevent_pair_elt_new]

User(call, x, q) == call \in Calls /\ p[x].owned /\ p' = q

Write(x) == /\ p[x].out + p[Other(x)].in < MaxLen
            /\ User("write", x, be_pair_outbuf_cb([p EXCEPT ![x].out = @ + 1], x))
Read(x) == p[x].in > 0 /\ User("read", x, bufferevent_inbuf_wm_cb([p EXCEPT ![x].in = @ - 1], x))
Enable(x) == \E E \in SUBSET Dir : User("enable", x, bufferevent_enable(p, x, E))
(* be_pair_disable only stops the timers *)
Disable(x) == \E E \in SUBSET Dir : User("disable", x, [p EXCEPT ![x].enabled = @ \ E])
SetWatermark(x) == \E high \in {0, High} :
                      User("watermark", x, bufferevent_inbuf_wm_cb([p EXCEPT ![x].high = high], x))
Flush(x) == \E E \in SUBSET Dir, mode \in {"NORMAL", "FLUSH", "FINISHED"} :
                /\ mode = "NORMAL" \/ ~p[x].partner => \A y \in Side : p[y].left < MaxLeft
                /\ User("flush", x, be_pair_flush(p, x, E, mode))
Free(x) == User("free", x, bufferevent_free(p, x))

(* bufferevent_run_deferred_callbacks_locked *)
Deferred(x) == /\ p[x].queued
               /\ p' = _bufferevent_decref_and_unlock([p EXCEPT ![x].queued = FALSE], x)

Next == \E x \in Side : \/ Write(x) \/ Read(x) \/ Enable(x) \/ Disable(x) \/ SetWatermark(x)
                        \/ Flush(x) \/ Free(x) \/ Deferred(x)

Spec == Init /\ [][Next]_vars

-----------------------------------------------------------------------------
(* Properties *)

(* Nothing is left behind: at rest no side has bytes to write to a partner
   that is there, reads, and is under its mark. *)
NothingHeldBack ==
    \A x \in Side : p[x].partner => ~be_pair_wants_to_talk(p, x)

(* A pointer to the partner is a pointer to something that exists. *)
PartnerLives == \A x \in Side : p[x].partner /\ ~p[x].freed => ~p[Other(x)].freed

(* No byte is lost or made up on the way, and only a flush goes over the
   reader's mark. *)
BytesGoOver ==
    \A x \in Side :
        LET way(q) == q[x].out + q[Other(x)].in IN
        /\ way(p') = way(p) + (IF Write(x) THEN 1 ELSE 0) - (IF Read(Other(x)) THEN 1 ELSE 0)
        /\ p'[Other(x)].in > p[Other(x)].in /\ p'[Other(x)].high # 0 /\ p'[Other(x)].in > p'[Other(x)].high
             => \E y \in Side : Flush(y)

(* "Deallocate the storage associated with a bufferevent structure": the
   program, a queued callback and each flush that does nothing (BEV_NORMAL, or no
   partner: bufferevent_pair.c:288) hold a bufferevent, the last of them for
   good; nothing else does, and without any of them it is gone. *)
FreeDeallocates ==
    \A x \in Side : /\ p[x].refcnt = (IF p[x].owned THEN 1 ELSE 0) + (IF p[x].queued THEN 1 ELSE 0) + p[x].left
                     /\ p[x].freed <=> p[x].refcnt = 0
=============================================================================
