------------------------- MODULE BuffereventFilter --------------------------
(***************************************************************************)
(* A filtering bufferevent on top of another one (bufferevent_filter.c):   *)
(* what the underlying one has read goes through process_in to the         *)
(* filter's input, and what the program writes goes through process_out to *)
(* the underlying output.  Callbacks run at once, with references held, so *)
(* a step is one call into either bufferevent.  Only lengths count.        *)
(***************************************************************************)
EXTENDS Integers, FiniteSets, FiniteSetsExt

CONSTANTS Filter,         \* "null", or "user": one that moves two bytes at a time
          CLOSE_ON_FREE,  \* the option
          Calls,          \* what the program does
          MaxLen          \* bound: bytes on the way in one direction

Dir == {"R", "W"}
High == 1                 \* the high marks, of the filter's input and the underlying output
Reaction == {"none", "write", "disable", "free"}   \* what a write callback does

VARIABLES f,              \* struct bufferevent_filtered
          u               \* the underlying bufferevent

vars == <<f, u>>
S == [f |-> [f EXCEPT !.nested = FALSE], u |-> u]

(* bufferevent_incref, and bufferevent_decref of the underlying *)
DecrefUnder(s) == [s EXCEPT !.u.refcnt = @ - 1, !.u.freed = s.u.refcnt = 1]
FreeUnder(s) == DecrefUnder([s EXCEPT !.u.owned = FALSE, !.u.cbs = FALSE])

be_filter_destruct(s) ==
    IF CLOSE_ON_FREE THEN IF s.u.refcnt < 2 THEN s ELSE FreeUnder(s)
    ELSE [s EXCEPT !.u.cbs = FALSE, !.u.filt = FALSE]

_bufferevent_decref_and_unlock(s) ==
    LET t == [s EXCEPT !.f.refcnt = @ - 1]
    IN IF t.f.refcnt > 0 THEN t ELSE DecrefUnder(be_filter_destruct([t EXCEPT !.f.freed = TRUE]))
Incref(s) == [s EXCEPT !.f.refcnt = @ + 1]
bufferevent_free(s) == _bufferevent_decref_and_unlock([s EXCEPT !.f.owned = FALSE])

be_filter_enable(s, E) == IF "R" \in E THEN [s EXCEPT !.u.filt = FALSE] ELSE s
be_filter_disable(s, E) == IF "R" \in E THEN [s EXCEPT !.u.filt = TRUE] ELSE s

(* bufferevent.c: the calls above the filter's own *)
bufferevent_enable(s, E) ==
    be_filter_enable([s EXCEPT !.f.enabled = @ \union E], IF s.f.wm THEN E \ {"R"} ELSE E)
bufferevent_disable(s, E) == be_filter_disable([s EXCEPT !.f.enabled = @ \ E], E)

(* the filter's input has changed, or its mark *)
bufferevent_inbuf_wm_cb(s) ==
    LET full == s.f.high # 0 /\ s.f.in >= s.f.high
        t == [s EXCEPT !.f.wm = full]
    IN IF full THEN be_filter_disable(t, {"R"})
       ELSE IF "R" \in s.f.enabled THEN be_filter_enable(t, {"R"}) ELSE t

be_readbuf_full(s, state) == state = "NORMAL" /\ s.f.high # 0 /\ s.f.in >= s.f.high
be_underlying_writebuf_full(s, state) == state = "NORMAL" /\ s.u.high # 0 /\ s.u.out >= s.u.high

(* What a filter does with n bytes and room for limit (-1: no limit): how many
   it moves and what it returns.  evbuffer_remove_buffer returns the number of
   bytes, which the null filter compares with 0. *)
Process(n, limit) ==
    LET all == IF limit < 0 THEN n ELSE Min({n, limit})
    IN IF Filter = "null" THEN [n |-> all, res |-> IF all = 0 THEN "OK" ELSE "ERROR"]
       ELSE [n |-> Min({all, 2}), res |-> IF all = 0 THEN "NEED_MORE" ELSE "OK"]

Limit(state, high, len) == IF state = "NORMAL" /\ high # 0 THEN high - len ELSE -1

-----------------------------------------------------------------------------
(* The loops *)

RECURSIVE InLoop(_, _)
InLoop(s, state) ==
    LET p == Process(s.u.in, Limit(state, s.f.high, s.f.in))
        t == bufferevent_inbuf_wm_cb([s EXCEPT !.u.in = @ - p.n, !.f.in = @ + p.n, !.f.untold = @ + p.n])
        q == [t EXCEPT !.f.processed = @ \/ p.res = "OK"]
    IN IF p.res = "OK" /\ "R" \in q.f.enabled /\ q.u.in > 0 /\ ~be_readbuf_full(q, state) /\ p.n > 0
       THEN InLoop(q, state) ELSE q

be_filter_process_input(s, state) ==
    IF state = "NORMAL" /\ ("R" \notin s.f.enabled \/ be_readbuf_full(s, state)) THEN s
    ELSE InLoop(s, state)

(* a write callback, which may add, disable or free; what it adds is seen by
   the callback of the output buffer: evbuffer_cb_set_flags with 0 sets no
   flag and clears none *)
RECURSIVE be_filter_process_output(_, _, _)
RECURSIVE OutLoop(_, _, _, _)

bufferevent_filtered_outbuf_cb(s) ==
    _bufferevent_decref_and_unlock(be_filter_process_output(Incref(s), "NORMAL", "none"))

WriteCb(s, react) ==
    CASE ~s.f.owned \/ react = "none" -> s
      [] react = "write" /\ s.f.out + s.u.out < MaxLen ->
            LET t == [s EXCEPT !.f.out = @ + 1, !.f.nested = s.f.inside]
            IN [bufferevent_filtered_outbuf_cb(t) EXCEPT !.f.inside = s.f.inside]
      [] react = "write" -> s
      [] react = "disable" -> bufferevent_disable(s, {"W"})
      [] react = "free" -> bufferevent_free(s)

OutLoop(s, state, react, processed) ==
    LET p == Process(s.f.out, Limit(state, s.u.high, s.u.out))
        t == [s EXCEPT !.f.out = @ - p.n, !.u.out = @ + p.n]
        did == processed \/ p.res = "OK"
        more(q) == p.res = "OK" /\ "W" \in q.f.enabled /\ q.f.out > 0 /\ ~be_underlying_writebuf_full(q, state)
        called == IF did /\ t.f.out = 0 THEN WriteCb(t, react) ELSE t
    IN IF more(t) THEN OutLoop(t, state, react, did)
       ELSE IF did /\ t.f.out = 0 /\ more(called) THEN OutLoop(called, state, "none", FALSE)
       ELSE called

be_filter_process_output(s, state, react) ==
    IF state = "NORMAL" /\ ("W" \notin s.f.enabled \/ be_underlying_writebuf_full(s, state) \/ s.f.out = 0) THEN s
    ELSE [OutLoop([s EXCEPT !.f.inside = TRUE], state, react, FALSE) EXCEPT !.f.inside = s.f.inside]

-----------------------------------------------------------------------------

(* mutant: the readers are not told *)
be_filter_readcb_Silent(s) == be_filter_process_input(s, "NORMAL")

be_filter_readcb(s) ==
    LET t == be_filter_process_input([s EXCEPT !.f.processed = FALSE], IF s.f.got_eof THEN "FINISHED" ELSE "NORMAL")
    IN IF t.f.processed THEN [t EXCEPT !.f.untold = 0] ELSE t

be_filter_writecb(s, react) ==
    _bufferevent_decref_and_unlock(be_filter_process_output(Incref(s), "NORMAL", react))

be_filter_flush(s, E, mode, react) ==
    LET i == IF "R" \in E THEN be_filter_process_input(Incref(s), mode) ELSE Incref(s)
        o == IF "W" \in E THEN be_filter_process_output(i, mode, react) ELSE i
    IN _bufferevent_decref_and_unlock(o)

(* bufferevent_filter_new, on a bufferevent with a mark or none *)
Init == /\ f = [enabled |-> {"W"}, wm |-> FALSE, in |-> 0, out |-> 0, high |-> 0, refcnt |-> 1, owned |-> TRUE,
                freed |-> FALSE, got_eof |-> FALSE, eof |-> FALSE, untold |-> 0, processed |-> FALSE,
                inside |-> FALSE, nested |-> FALSE]
        /\ \E high \in {0, High} :
             u = [in |-> 0, out |-> 0, high |-> high, filt |-> TRUE, refcnt |-> 2, owned |-> TRUE,
                  freed |-> FALSE, cbs |-> TRUE]

(* what callbacks were made is forgotten when the step is over *)
Become(s) == /\ f' = [s.f EXCEPT !.processed = FALSE]
             /\ u' = s.u

UnderRead == /\ ~u.freed /\ ~u.filt /\ u.in + f.in < MaxLen
             /\ LET s == [S EXCEPT !.u.in = @ + 1] IN
                Become(IF u.cbs THEN be_filter_readcb(s) ELSE s)

UnderWrite == \E react \in Reaction :
    /\ ~u.freed /\ u.out > 0
    /\ react # "none" => react \in Calls
    /\ LET s == [S EXCEPT !.u.out = @ - 1] IN
       Become(IF u.cbs /\ s.u.out = 0 THEN be_filter_writecb(s, react) ELSE s)

(* be_filter_eventcb only passes it on *)
UnderEof == /\ u.cbs /\ ~u.freed /\ ~f.eof
            /\ Become([S EXCEPT !.f.eof = TRUE])

User(call) == call \in Calls /\ f.owned
Write == User("write") /\ f.out + u.out < MaxLen /\ Become(bufferevent_filtered_outbuf_cb([S EXCEPT !.f.out = @ + 1]))
Read == User("read") /\ f.in > 0 /\ Become(bufferevent_inbuf_wm_cb([S EXCEPT !.f.in = @ - 1, !.f.untold = 0]))
Enable == \E E \in SUBSET Dir : User("enable") /\ Become(bufferevent_enable(S, E))
Disable == \E E \in SUBSET Dir : User("disable") /\ Become(bufferevent_disable(S, E))
SetWatermark == \E high \in {0, High} :
                    User("watermark") /\ Become(bufferevent_inbuf_wm_cb([S EXCEPT !.f.high = high]))
Flush == \E E \in SUBSET Dir, mode \in {"NORMAL", "FLUSH"}, react \in Reaction :
            /\ User("flush") /\ (react # "none" => react \in Calls)
            /\ Become(be_filter_flush(S, E, mode, react))
Free == User("free") /\ Become(bufferevent_free(S))
(* with CLOSE_ON_FREE the underlying one belongs to the filter *)
UnderFree == User("free") /\ ~CLOSE_ON_FREE /\ u.owned /\ Become(FreeUnder(S))

Next == UnderRead \/ UnderWrite \/ UnderEof \/ Write \/ Read \/ Enable \/ Disable \/ SetWatermark
        \/ Flush \/ Free \/ UnderFree
Spec == Init /\ [][Next]_vars

-----------------------------------------------------------------------------
(* Properties *)

(* The underlying bufferevent reads for the filter exactly when the filter
   is enabled and under its mark. *)
SuspendedTogether == ~f.freed => (u.filt <=> ~("R" \in f.enabled /\ ~f.wm))

(* The underlying one lives as long as the program or the filter holds it,
   and no longer. *)
UnderRefs ==
    /\ u.refcnt = (IF u.owned THEN 1 ELSE 0) + (IF f.freed THEN 0 ELSE 1)
    /\ u.freed <=> u.refcnt = 0
    /\ u.cbs /\ ~u.freed => ~f.freed

(* Only a flush goes over a mark. *)
WithinMarks == (f'.in > f.in /\ f'.high # 0 /\ f'.in > f'.high) \/ (u'.out > u.out /\ u'.high # 0 /\ u'.out > u'.high)
               => Flush

(* Bytes pass through and are neither lost nor doubled; what the underlying
   one reads is reported when it reaches the filter's input. *)
ReadIsTold == /\ f'.in + u'.in = f.in + u.in + (IF UnderRead THEN 1 ELSE 0) - (IF Read THEN 1 ELSE 0)
              /\ f'.untold > f.untold => Flush

=============================================================================
