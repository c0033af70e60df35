-------------------------- MODULE BuffereventAsync --------------------------
(***************************************************************************)
(* bufferevent_async.c with the overlapped evbuffers of buffer_iocp.c: a   *)
(* bufferevent whose reads, writes and connect run on a Windows completion *)
(* port.  Every function holds the lock of the bufferevent, so a step here *)
(* is a whole function; completions come on threads of the port.           *)
(*                                                                         *)
(* b is the bufferevent: prog[d] bytes are under way in direction d,       *)
(* added[d] says that a virtual event keeps the loop alive for it.  port   *)
(* holds what the system owes: nothing, or an operation that is pending,   *)
(* done or failed.                                                         *)
(***************************************************************************)
EXTENDS Integers, FiniteSets

CONSTANTS CloseOnFree,   \* BEV_OPT_CLOSE_ON_FREE
          Cap,           \* bound: bytes in a buffer
          High,          \* high-water mark for reading; 0 none
          UserOps        \* what the user does beside reading and writing

Dirs == {"read", "write"}

VARIABLES b, port
vars == <<b, port>>
S == [b |-> b, port |-> port]
Become(s) == b' = s.b /\ port' = s.port

New == [ok |-> FALSE, enabled |-> {"write"}, connecting |-> FALSE, sock |-> "none",
        prog |-> [d \in Dirs |-> 0], added |-> [d \in Dirs |-> FALSE],
        suspended |-> [d \in Dirs |-> FALSE], len |-> [d \in Dirs |-> 0],
        refcnt |-> 1, virtual |-> 0, freed |-> FALSE, gone |-> FALSE]

\* bufferevent_async_new, with no socket or with one that is connected.
Init == b \in {New, [New EXCEPT !.ok = TRUE, !.sock = "open"]}
        /\ port = [o \in Dirs \cup {"connect"} |-> "none"]

----------------------------------------------------------------------------
bev_async_add(c, d) ==
    IF c.added[d] THEN c ELSE [c EXCEPT !.added[d] = TRUE, !.virtual = @ + 1]
bev_async_del(c, d) ==
    IF c.added[d] THEN [c EXCEPT !.added[d] = FALSE, !.virtual = @ - 1] ELSE c

\* The last reference destroys the bufferevent.
be_async_destruct(c) ==
    [bev_async_del(bev_async_del(c, "read"), "write") EXCEPT
        !.gone = TRUE, !.sock = IF CloseOnFree THEN "closed" ELSE @]
decref(c) == LET e == [c EXCEPT !.refcnt = @ - 1]
             IN  IF e.refcnt = 0 THEN be_async_destruct(e) ELSE e

\* How much to read or write; 0: nothing now.  Cap stands for the fixed size
\* of a read that no high-water mark limits.
AtMost(c, d) ==
    CASE d = "write" -> c.len["write"]
      [] d = "read" -> IF High = 0 THEN Cap
                       ELSE IF c.len["read"] < High THEN High - c.len["read"] ELSE 0

\* BEV_CTRL_CANCEL_ALL: closing the socket fails what is pending on it.
CancelAll(s) ==
    IF CloseOnFree /\ s.b.sock = "open"
    THEN [b |-> [s.b EXCEPT !.ok = FALSE, !.sock = "closed"],
          port |-> [o \in DOMAIN s.port |-> IF s.port[o] = "pending" THEN "fail" ELSE s.port[o]]]
    ELSE [s EXCEPT !.b.ok = FALSE]

bufferevent_free(s) ==
    LET t == CancelAll(s) IN [t EXCEPT !.b = decref([@ EXCEPT !.freed = TRUE])]

\* An error reported while something is launched; the user may free the
\* bufferevent then.
Failed(s) == LET t == [s EXCEPT !.b.ok = FALSE]
             IN  {t} \cup (IF "free" \in UserOps /\ ~s.b.freed THEN {bufferevent_free(t)} ELSE {})

\* bev_async_consider_reading and bev_async_consider_writing with
\* evbuffer_launch_read and evbuffer_launch_write, which fail on a closed
\* socket and may fail on any.
Launched(s, d, n) ==
    [s EXCEPT !.b = [bev_async_add(@, d) EXCEPT !.prog[d] = n, !.refcnt = @ + 1],
              !.port[d] = "pending"]
bev_async_consider(s, d) ==
    LET c == s.b
        n == AtMost(c, d)
    IN  IF c.prog[d] > 0 \/ c.connecting THEN {s}
        ELSE IF ~c.ok \/ d \notin c.enabled \/ n = 0 \/ c.suspended[d]
        THEN {[s EXCEPT !.b = bev_async_del(c, d)]}
        ELSE Failed(s) \cup (IF c.sock = "open" THEN {Launched(s, d, n)} ELSE {})

be_async_enable(s, what) ==
    IF ~s.b.ok \/ s.b.connecting THEN {s}
    ELSE UNION {IF "write" \in what THEN bev_async_consider(t, "write") ELSE {t} :
                t \in IF "read" \in what THEN bev_async_consider(s, "read") ELSE {s}}

bufferevent_enable(s, d) ==
    LET t == [s EXCEPT !.b.enabled = @ \cup {d}]
    IN  IF t.b.suspended[d] THEN {t} ELSE be_async_enable(t, {d})
bufferevent_disable(s, d) ==
    [s EXCEPT !.b = bev_async_del([@ EXCEPT !.enabled = @ \ {d}], d)]

\* Rate limits and the high-water mark suspend reading; one reason stands for
\* all.
bufferevent_suspend_read(s) ==
    [s EXCEPT !.b = [bev_async_del(@, "read") EXCEPT !.suspended["read"] = TRUE]]
bufferevent_unsuspend_read(s) ==
    LET t == [s EXCEPT !.b.suspended["read"] = FALSE]
    IN  IF "read" \in t.b.enabled THEN be_async_enable(t, {"read"}) ELSE {t}

On == [op \in {"read on", "write on"} |-> IF op = "read on" THEN "read" ELSE "write"]
Off == [op \in {"read off", "write off"} |-> IF op = "read off" THEN "read" ELSE "write"]

\* What the user may do, from a callback or from any thread.
User(s, op) ==
    CASE op = "free" -> {bufferevent_free(s)}
      [] op \in DOMAIN On -> bufferevent_enable(s, On[op])
      [] op \in DOMAIN Off -> {bufferevent_disable(s, Off[op])}
      [] op = "suspend" -> {bufferevent_suspend_read(s)}
      [] op = "unsuspend" -> bufferevent_unsuspend_read(s)
      [] op = "drain" -> IF s.b.len["read"] = 0 THEN {s}
                         ELSE bev_async_consider([s EXCEPT !.b.len["read"] = 0], "read")
      [] op = "write" -> IF s.b.len["write"] = Cap THEN {s}
                         ELSE bev_async_consider([s EXCEPT !.b.len["write"] = @ + 1], "write")

----------------------------------------------------------------------------
UserStep(op) == ~b.freed /\ \E s \in User(S, op) : Become(s)

\* bufferevent_socket_connect with bufferevent_async_connect, once: it is
\* under way, or it fails and the socket is closed at once.
bufferevent_async_connect ==
    /\ ~b.freed /\ b.sock = "none"
    /\ \/ /\ b' = [b EXCEPT !.sock = "open", !.connecting = TRUE,
                             !.refcnt = @ + 1, !.virtual = @ + 1]
          /\ port' = [port EXCEPT !["connect"] = "pending"]
       \/ \E s \in Failed([S EXCEPT !.b.sock = "closed"]) : Become(s)

\* The system ends an operation.  Bound: no input arrives at a full buffer.
Kernel(o, how) == /\ port[o] = "pending"
                  /\ how = "eof" => o = "read"
                  /\ (o = "read" /\ how = "ok") => b.len["read"] < Cap
                  /\ port' = [port EXCEPT ![o] = how] /\ UNCHANGED b

\* The completion is over; the reference of the operation goes.
Over(s) == [s EXCEPT !.b = decref(@)]
Arrived(o) == port[o] \in {"ok", "fail", "eof"}

\* The callback is not called any more once the user has freed the
\* bufferevent.
Callback(s, op) == IF s.b.freed \/ op = "none" THEN {s} ELSE User(s, op)

connect_complete(op) ==
    LET done == port["connect"] = "ok"
        s == [S EXCEPT !.port["connect"] = "none", !.b.connecting = FALSE, !.b.ok = @ \/ done]
    IN  /\ Arrived("connect")
        /\ \E t \in IF done THEN be_async_enable(s, b.enabled) ELSE {s} :
              \E u \in Callback(t, op) : Become(Over([u EXCEPT !.b.virtual = @ - 1]))

\* read_complete and write_complete, with what the user callback does.
More(s, d) == bev_async_consider(s, d)
\* evbuffer_commit_read and evbuffer_commit_write
Committed(s, d, n) == [s EXCEPT !.b.len[d] = IF d = "read" THEN @ + n ELSE @ - n]
io_complete(d, n, op) ==
    LET how == port[d]
        s == Committed([S EXCEPT !.port[d] = "none", !.b.prog[d] = 0], d, n)
    IN  /\ Arrived(d) /\ (n = 0 <=> how # "ok") /\ n <= b.prog[d]
        /\ d = "read" => b.len[d] + n <= Cap
        /\ ~b.ok => op = "none"
        /\ \E t \in Callback([s EXCEPT !.b.ok = @ /\ how = "ok"], op) :
              \E u \in IF b.ok /\ how = "ok" THEN More(t, d) ELSE {t} : Become(Over(u))

Ops == UserOps \cup {"none"}
Complete(d) == \E n \in 0..Cap, op \in Ops : io_complete(d, n, op)
Port == (\E op \in Ops : connect_complete(op)) \/ Complete("read") \/ Complete("write")

Next == \/ bufferevent_async_connect \/ Port
        \/ \E op \in UserOps : UserStep(op)
        \/ \E o \in DOMAIN port, how \in {"ok", "fail", "eof"} : Kernel(o, how)

Spec == Init /\ [][Next]_vars

----------------------------------------------------------------------------
\* The user and each operation under way hold one reference; the memory goes
\* with the last, so no completion finds it gone.
Refs == /\ b.refcnt = (IF b.freed THEN 0 ELSE 1)
                    + Cardinality({o \in DOMAIN port : port[o] # "none"})
        /\ b.gone <=> b.refcnt = 0

\* EVUTIL_ASSERT(read_in_progress) at completion and its absence at the
\* destructor: bytes are marked in progress exactly while the system has the
\* buffer.
InProgress == \A d \in Dirs : b.prog[d] > 0 <=> port[d] # "none"

\* The loop's virtual events are those of this bufferevent: none is lost, none
\* is left when it is gone.
VirtualBalance ==
    b.virtual = Cardinality({d \in Dirs : b.added[d]}) + (IF port["connect"] = "none" THEN 0 ELSE 1)

\* Nothing stalls: what could be read or written is being read or written.
NotStalled == \A d \in Dirs :
    (b.ok /\ ~b.connecting /\ d \in b.enabled /\ ~b.suspended[d] /\ AtMost(b, d) > 0)
        => b.prog[d] > 0

=============================================================================
