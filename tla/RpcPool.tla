------------------------------- MODULE RpcPool -------------------------------
(***************************************************************************)
(* The client half of evrpc.c: RPCs wait on a pool for an idle HTTP        *)
(* connection, pass output hooks, are sent, and their replies pass input   *)
(* hooks on the way to the callback.  A hook may end an RPC or pause it    *)
(* until evrpc_resume_request.                                             *)
(*                                                                         *)
(* The HTTP connection is what HttpClient models, seen from above: a queue *)
(* of requests of which the first gets a reply or a failure.               *)
(***************************************************************************)
EXTENDS Integers, Sequences, FiniteSets, SequencesExt

CONSTANTS Rpcs, Conns, NoConn,
          OutHook, InHook,   \* what hooks return: "continue", "pause", "terminate"
          Resumes,           \* what a paused RPC is resumed with
          Timeout,           \* pool->timeout > 0
          MakeFails,         \* evhttp_make_request may fail
          Frees              \* evrpc_pool_free is called

VARIABLES rpc,       \* the request wrappers
          queue,     \* pool->requests
          pool,      \* pool->connections
          conn       \* the requests of each connection

vars == <<rpc, queue, pool, conn>>
S == [rpc |-> rpc, queue |-> queue, pool |-> pool, conn |-> conn]
Become(s) == rpc' = s.rpc /\ queue' = s.queue /\ pool' = s.pool /\ conn' = s.conn

NewRpc == [st |-> "new", con |-> NoConn, timer |-> FALSE, status |-> "-", calls |-> 0,
           expired |-> FALSE]

Init == /\ rpc = [r \in Rpcs |-> NewRpc] /\ queue = <<>> /\ pool = <<>>
        /\ conn = [c \in Conns |-> <<>>]

----------------------------------------------------------------------------
(* Operators on the state.  Those that run hooks give a set of outcomes.    *)

\* The callback is called and the wrapper freed.
Finish(s, r, status) ==
    [s EXCEPT !.rpc[r].st = "done", !.rpc[r].status = status, !.rpc[r].calls = @ + 1]

evrpc_schedule_request_closure(s, r, res) ==
    LET t == [s EXCEPT !.rpc[r].timer = Timeout]
    IN  IF res = "terminate" THEN {Finish(s, r, "UNSTARTED")}
        ELSE {[t EXCEPT !.rpc[r].st = "sent", !.conn[s.rpc[r].con] = Append(@, r)]}
             \cup (IF MakeFails THEN {Finish(t, r, "UNSTARTED")} ELSE {})

evrpc_schedule_request(s, c, r) ==
    LET t == [s EXCEPT !.rpc[r].con = c]
    IN  UNION {IF hook = "pause" THEN {[t EXCEPT !.rpc[r].st = "paused_out"]}
               ELSE evrpc_schedule_request_closure(t, r, hook) : hook \in OutHook}

evrpc_pool_find_connection(s) == SelectSeq(s.pool, LAMBDA c : s.conn[c] = <<>>)

NoSchedule(s) == {s}
evrpc_pool_schedule(s) ==
    LET idle == evrpc_pool_find_connection(s)
    IN  IF s.queue = <<>> \/ idle = <<>> THEN {s}
        ELSE evrpc_schedule_request([s EXCEPT !.queue = Tail(@)], Head(idle), Head(s.queue))

AfterReply(s) == evrpc_pool_schedule(s)
evrpc_reply_done_closure(s, r, status) == AfterReply(Finish(s, r, status))

\* What a reply that is not paused ends with.
Payload == {"OK", "BADPAYLOAD"}
Ended(res) == IF res = "terminate" THEN {"HOOKABORTED"} ELSE Payload

CancelTimer(s, r) == [s EXCEPT !.rpc[r].timer = FALSE]

\* A reply, or with good = FALSE the end of the request without one.
evrpc_reply_done(s, r, good) ==
    LET t == CancelTimer(s, r)
    IN  IF ~good THEN evrpc_reply_done_closure(t, r, "TIMEOUT")
        ELSE UNION {IF hook = "pause" THEN {[t EXCEPT !.rpc[r].st = "paused_in"]}
                    ELSE UNION {evrpc_reply_done_closure(t, r, status) : status \in Ended(hook)}
                        : hook \in InHook}

\* The HTTP layer is done with the first request of a connection.
HttpDone(s, c, good) ==
    evrpc_reply_done([s EXCEPT !.conn[c] = Tail(@)], Head(s.conn[c]), good)

----------------------------------------------------------------------------
evrpc_make_request(r) ==
    /\ rpc[r].st = "new" /\ pool # <<>>
    /\ \E s \in evrpc_pool_schedule([S EXCEPT !.queue = Append(@, r), !.rpc[r].st = "queued"]) :
           Become(s)

evrpc_pool_add_connection(c) ==
    /\ c \notin ToSet(pool) /\ conn[c] = <<>>
    /\ \A r \in Rpcs : rpc[r].con # c
    /\ LET s == [S EXCEPT !.pool = Append(@, c)]
       IN  \E t \in IF queue = <<>> THEN {s}
                    ELSE evrpc_schedule_request([s EXCEPT !.queue = Tail(@)], c, Head(queue)) :
               Become(t)

\* What was sent on the connection goes on; the pool no longer uses it.
evrpc_pool_remove_connection(c) ==
    /\ c \in ToSet(pool) /\ Len(pool) > 1
    /\ pool' = SelectSeq(pool, LAMBDA d : d # c) /\ UNCHANGED <<rpc, queue, conn>>

\* Of several RPCs on a connection the first one is over.
Http(c, good) == conn[c] # <<>> /\ \E s \in HttpDone(S, c, good) : Become(s)

\* The timer of an RPC fails the connection, that is, its first request.
evrpc_request_timeout(r) ==
    /\ rpc[r].timer /\ rpc[r].st = "sent"
    /\ \E s \in HttpDone([S EXCEPT !.rpc[r].timer = FALSE, !.rpc[r].expired = TRUE],
                         rpc[r].con, FALSE) : Become(s)

evrpc_resume_request(r, res) ==
    \/ /\ rpc[r].st = "paused_out"
       /\ \E s \in evrpc_schedule_request_closure(S, r, res) : Become(s)
    \/ /\ rpc[r].st = "paused_in"
       /\ \E status \in Ended(res) : \E s \in evrpc_reply_done_closure(S, r, status) : Become(s)

\* Waiting and paused RPCs are forgotten, and so is what is under way on the
\* pool's connections; timers stay as they are.
evrpc_pool_free ==
    LET under == UNION {ToSet(conn[c]) : c \in ToSet(pool)}
        over == {r \in Rpcs : rpc[r].st \in {"queued", "paused_out", "paused_in"}} \cup under
    IN  /\ Frees /\ pool # <<>>
        /\ \A c \in Conns \ ToSet(pool) : conn[c] = <<>>
        /\ rpc' = [r \in Rpcs |-> IF r \in over \/ rpc[r].st = "new"
                                  THEN [rpc[r] EXCEPT !.st = "freed"] ELSE rpc[r]]
        /\ queue' = <<>> /\ pool' = <<>>
        /\ conn' = [c \in Conns |-> IF c \in ToSet(pool) THEN <<>> ELSE conn[c]]

Resume == \E r \in Rpcs, res \in Resumes : evrpc_resume_request(r, res)
Network == \E c \in Conns, good \in BOOLEAN : Http(c, good)

Next == \/ \E r \in Rpcs : evrpc_make_request(r) \/ evrpc_request_timeout(r)
        \/ \E c \in Conns : evrpc_pool_add_connection(c) \/ evrpc_pool_remove_connection(c)
        \/ Network \/ Resume \/ evrpc_pool_free

Spec == Init /\ [][Next]_vars

----------------------------------------------------------------------------
Idle == {c \in ToSet(pool) : conn[c] = <<>>}
Paused == {r \in Rpcs : rpc[r].st \in {"paused_out", "paused_in"}}

\* "if no connection is available, we queue the request on the pool, the next
\* time a connection is empty, the rpc will be send on that": while RPCs wait,
\* there are no more idle connections than paused RPCs to be resumed.
NoIdleWhileQueued == queue # <<>> => Cardinality(Idle) <= Cardinality(Paused)

\* The callback of an RPC is called once, when the RPC is over, and an RPC
\* is in one place: on the pool, on one connection, or with a hook.
CalledOnce == \A r \in Rpcs :
    /\ rpc[r].calls = (IF rpc[r].st = "done" THEN 1 ELSE 0)
    /\ Cardinality({i \in DOMAIN queue : queue[i] = r})
         = (IF rpc[r].st = "queued" THEN 1 ELSE 0)
    /\ {c \in Conns : r \in ToSet(conn[c])}
         = (IF rpc[r].st = "sent" THEN {rpc[r].con} ELSE {})

\* Every RPC that was made gets its callback.
Uncalled(r) == rpc[r].st \notin {"new", "done"}

\* "a timeout after which the whole rpc is going to be aborted": a timer runs
\* only for an RPC that is under way.
TimerHasRpc == \A r \in Rpcs : rpc[r].timer => rpc[r].st = "sent"

\* "The RPC is completely aborted if it does not complete by then": an RPC
\* whose timer has fired is over.
AbortedInTime == \A r \in Rpcs : rpc[r].expired => rpc[r].st = "done"
=============================================================================
