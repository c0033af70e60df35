------------------------------ MODULE Listener ------------------------------
(***************************************************************************)
(* evconnlistener (listener.c): the callback that accepts in a loop and    *)
(* calls the user without the lock, and the functions a user may call from *)
(* inside the callbacks or from another thread (LEV_OPT_THREADSAFE).       *)
(*                                                                         *)
(* E is the thread of the event loop, T another one.  event_del, called by *)
(* T, waits for a running callback before it removes the event.            *)
(***************************************************************************)
EXTENDS Integers, FiniteSets

CONSTANTS CbOps,      \* what the user calls from inside the callbacks
          TOps,       \* what the user calls from T
          Accept,     \* results of accept(): "ok", "empty" (no address), "error"
          MaxConn,    \* bound: connections made
          MaxLeft     \* bound: failing accepts that keep the lock

VARIABLES lev,        \* the listener
          lock,       \* the recursive lock: owner and depth, and how often
                      \* listener_read_cb went away without unlocking it
          epc, tpc,   \* where the two threads are
          arrived, backlog   \* connections made, and waiting in the socket

vars == <<lev, lock, epc, tpc, arrived, backlog>>

Unlocked == [owner |-> "-", depth |-> 0, left |-> 0]
Free(t) == lock.owner \in {"-", t}
Locked(t) == [lock EXCEPT !.owner = t, !.depth = @ + 1]
UNLOCK(l) == IF l.depth = 1 THEN Unlocked ELSE [l EXCEPT !.depth = @ - 1]

----------------------------------------------------------------------------
(* What the functions do to the listener.  "freed": the user gave it up;    *)
(* "gone": the memory is free.                                              *)

event_listener_destroy(l) == [l EXCEPT !.added = FALSE, !.gone = TRUE]

listener_decref_and_unlock(l) ==
    LET m == [l EXCEPT !.refcnt = @ - 1]
    IN  IF m.refcnt = 0 THEN event_listener_destroy(m) ELSE m

evconnlistener_enable(l) == [l EXCEPT !.enabled = TRUE, !.added = @ \/ l.cb]
evconnlistener_disable(l) == [l EXCEPT !.enabled = FALSE, !.added = FALSE]

evconnlistener_set_cb(l, cb) ==
    LET m == [l EXCEPT !.cb = cb]
    IN  IF l.enabled /\ ~l.cb THEN evconnlistener_enable(m) ELSE m

evconnlistener_set_error_cb(l, cb) == [l EXCEPT !.errorcb = cb]

evconnlistener_free(l) ==
    listener_decref_and_unlock([l EXCEPT !.cb = FALSE, !.errorcb = FALSE, !.freed = TRUE])

Do(op, l) ==
    CASE op = "enable" -> evconnlistener_enable(l)
      [] op = "disable" -> evconnlistener_disable(l)
      [] op = "cb" -> evconnlistener_set_cb(l, TRUE)
      [] op = "nocb" -> evconnlistener_set_cb(l, FALSE)
      [] op = "errorcb" -> evconnlistener_set_error_cb(l, TRUE)
      [] op = "noerrorcb" -> evconnlistener_set_error_cb(l, FALSE)
      [] op = "free" -> evconnlistener_free(l)

\* event_del is called.
Deletes(op, l) == op = "disable" \/ (op = "free" /\ l.refcnt = 1)

\* evconnlistener_new, with a callback or without, and without an error
\* callback; evconnlistener_new_bind makes the socket first and closes it on
\* any failure.
evconnlistener_new(cb) ==
    evconnlistener_enable(
        [cb |-> cb, errorcb |-> FALSE, refcnt |-> 1, enabled |-> FALSE, added |-> FALSE,
         freed |-> FALSE, gone |-> FALSE])

Init == /\ \E cb \in BOOLEAN : lev = evconnlistener_new(cb)
        /\ lock = Unlocked /\ epc = "idle" /\ tpc = "out" /\ arrived = 0 /\ backlog = 0

----------------------------------------------------------------------------
(* The event thread: listener_read_cb, lock by lock. *)

Connect == /\ arrived < MaxConn /\ arrived' = arrived + 1 /\ backlog' = backlog + 1
           /\ UNCHANGED <<lev, lock, epc, tpc>>

Poll == /\ epc = "idle" /\ lev.added /\ backlog > 0
        /\ epc' = "entry" /\ UNCHANGED <<lev, lock, tpc, arrived, backlog>>

Enter == /\ epc = "entry" /\ Free("E")
         /\ epc' = "loop" /\ lock' = Locked("E") /\ UNCHANGED <<lev, tpc, arrived, backlog>>

\* The reference that keeps the listener over a callback.
Hold(l) == [l EXCEPT !.refcnt = @ + 1]

\* A connection.  One without an address is closed and the loop goes on; one
\* nobody wants is closed and the loop is left.
AcceptOne ==
    /\ epc = "loop" /\ backlog > 0 /\ backlog' = backlog - 1
    /\ \/ "empty" \in Accept /\ UNCHANGED <<lev, epc, lock>>
       \/ ~lev.cb /\ epc' = "idle" /\ lock' = UNLOCK(lock) /\ UNCHANGED lev
       \/ lev.cb /\ epc' = "cb" /\ lock' = UNLOCK(lock) /\ lev' = Hold(lev)
    /\ UNCHANGED <<tpc, arrived>>

\* accept() fails: for want of a connection, or for good.  Without an error
\* callback listener_read_cb then only warns, and keeps the lock.
AfterError == IF lev.errorcb THEN UNLOCK(lock) ELSE [lock EXCEPT !.left = @ + 1]

AcceptNone ==
    /\ epc = "loop"
    /\ \/ backlog = 0 /\ epc' = "idle" /\ lock' = UNLOCK(lock) /\ UNCHANGED lev
       \/ /\ "error" \in Accept /\ (lev.errorcb \/ lock.left < MaxLeft) /\ lock' = AfterError
          /\ epc' = IF lev.errorcb THEN "errcb" ELSE "idle"
          /\ lev' = IF lev.errorcb THEN Hold(lev) ELSE lev
    /\ UNCHANGED <<tpc, arrived, backlog>>

\* Inside a callback.
InCb(op) == /\ epc \in {"cb", "errcb"} /\ Free("E") /\ ~lev.freed
            /\ lev' = Do(op, lev) /\ UNCHANGED <<lock, epc, tpc, arrived, backlog>>

Return == /\ epc' = CASE epc = "cb" -> "back" [] epc = "errcb" -> "errback"
          /\ UNCHANGED <<lev, lock, tpc, arrived, backlog>>

\* The callback has returned: a listener that only this reference holds is
\* freed, with another one the loop goes on.
Back == /\ epc = "back" /\ Free("E")
        /\ lev' = listener_decref_and_unlock(lev)
        /\ epc' = IF lev.refcnt = 1 THEN "idle" ELSE "loop"
        /\ lock' = IF lev.refcnt = 1 THEN lock ELSE Locked("E")
        /\ UNCHANGED <<tpc, arrived, backlog>>

ErrBack == /\ epc = "errback" /\ Free("E")
           /\ lev' = listener_decref_and_unlock(lev)
           /\ epc' = "idle" /\ UNCHANGED <<lock, tpc, arrived, backlog>>

InCallback == epc \in {"cb", "errcb"}
EStep == Poll \/ Enter \/ AcceptOne \/ AcceptNone \/ (InCallback /\ Return) \/ Back \/ ErrBack

----------------------------------------------------------------------------
(* The other thread keeps the lock while event_del waits for the callback   *)
(* of E to end.  Every place that callback can be at needs the lock, so T   *)
(* has no step from there.                                                  *)

\* What the function has done when it calls event_del.
BeforeDelete(op, l) ==
    IF op = "disable" THEN [l EXCEPT !.enabled = FALSE]
    ELSE [l EXCEPT !.cb = FALSE, !.errorcb = FALSE, !.freed = TRUE, !.refcnt = 0]

TCall(op) ==
    /\ tpc = "out" /\ lock.owner = "-" /\ ~lev.freed
    /\ IF Deletes(op, lev) /\ epc # "idle"
       THEN tpc' = "event_del" /\ lock' = Locked("T") /\ lev' = BeforeDelete(op, lev)
       ELSE lev' = Do(op, lev) /\ UNCHANGED <<lock, tpc>>
    /\ UNCHANGED <<epc, arrived, backlog>>

Next == \/ Connect \/ EStep
        \/ \E op \in CbOps : InCb(op)
        \/ \E op \in TOps : TCall(op)

Spec == Init /\ [][Next]_vars

----------------------------------------------------------------------------
\* One reference is the user's until evconnlistener_free, one is held over a
\* callback.  The memory goes with the last one and nobody is inside then;
\* only a thread that frees the listener while the callback is about to enter
\* (listener.c:276) drops the last one and never gets to the memory.
Refs == /\ lev.refcnt = (IF lev.freed THEN 0 ELSE 1)
                       + (IF epc \in {"cb", "back", "errcb", "errback"} THEN 1 ELSE 0)
        /\ lev.gone <=> lev.refcnt = 0 /\ tpc = "out"
        /\ lev.gone => epc = "idle"

\* An enabled listener with a callback waits for connections, in whatever
\* order callback, enable and disable came, and a disabled one does not,
\* unless the thread that disables it hangs in event_del (listener.c:299).
Armed == ~lev.freed => /\ (lev.enabled /\ lev.cb) => lev.added
                       /\ ~lev.enabled /\ lev.added => tpc = "event_del"

\* Who keeps the lock: the accept loop; a failing accept without an error
\* callback, for good (listener.c:442); and a thread that disables or frees
\* the listener while the callback runs, for good too, since event_del waits
\* for a callback that waits for the lock.  In no other state does one thread
\* keep the other from going on.
LockAccounted ==
    /\ lock.depth = lock.left + (IF epc = "loop" THEN 1 ELSE 0) + (IF tpc = "event_del" THEN 1 ELSE 0)
    /\ lock.owner = IF tpc = "event_del" THEN "T" ELSE IF lock.depth > 0 THEN "E" ELSE "-"
    /\ tpc = "event_del" => epc \in {"entry", "cb", "back", "errcb", "errback"}

=============================================================================
