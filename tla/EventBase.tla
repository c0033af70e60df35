----------------------------- MODULE EventBase -----------------------------
(***************************************************************************)
(* libevent's event loop (event.c): one event_base, the thread that runs   *)
(* event_base_loop on it, and another thread that calls the same API.      *)
(*                                                                         *)
(* The base is the record b, and each C function that changes the base is  *)
(* an operator from one b to the next, as the C functions call each other  *)
(* under th_base_lock.  The lock is released in three places: inside the   *)
(* back end's dispatch, around a callback, and inside the condition wait   *)
(* of event_del; the actions are the stretches between those places.       *)
(*                                                                         *)
(* timeheap is the set of events with a timeout; min_heap_top is one of    *)
(* the earliest of them.                                                   *)
(***************************************************************************)
EXTENDS Integers, Sequences, FiniteSets, SequencesExt

CONSTANTS Event,        \* the events the program uses
          Io,           \* those with EV_READ on a descriptor of their own
          Persist,      \* those with EV_PERSIST
          LoopExit,     \* the one-shot timer event_base_loopexit allocates
          Notify,       \* the internal event th_notify
          None,         \* no event, no time
          ev_pri,       \* the priority of each event
          nactivequeues,
          Cb,           \* the deferred callbacks
          MAX_DEFERRED, \* deferred callbacks run per turn of the loop
          Delay,        \* the intervals given to event_add
          Horizon,      \* bound: the last instant of the clock
          MaxCalls      \* bound: API calls, by both threads together

VARIABLES b,        \* the event_base
          pc,       \* where the loop thread is
          loop,     \* its locals: flags, deadline, snapshot, i, count
          other,    \* the other thread: <<"idle">>, <<"waiting", ev>>, <<"woken", ev>>
          ready,    \* the descriptors that are readable
          now,      \* the clock
          calls,    \* API calls made
          quiet,    \* history: deleted by the other thread while not running
          sinceBreak \* history: callbacks begun since event_break was set

vars == <<b, pc, loop, other, ready, now, calls, quiet, sinceBreak>>

All == Event \cup {Notify}
Internal(ev) == ev = Notify
Pri == 0 .. nactivequeues - 1
Active(base) == UNION {ToSet(base.active[i]) : i \in Pri}
N_ACTIVE_CALLBACKS(base) == base.event_count_active + Len(base.defer_queue)

gettime(base) == IF base.tv_cache = None THEN now ELSE base.tv_cache

----------------------------------------------------------------------------
(* The queues of the base. *)

Counted(base, ev, d) ==
    IF Internal(ev) THEN base ELSE [base EXCEPT !.event_count = @ + d]

event_queue_insert_active(base, ev) ==
    [Counted(base, ev, 1) EXCEPT !.event_count_active = @ + 1,
                                 !.active[ev_pri[ev]] = Append(@, ev)]

event_queue_remove_active(base, ev) ==
    [Counted(base, ev, -1) EXCEPT !.event_count_active = @ - 1,
                                  !.active[ev_pri[ev]] = Remove(@, ev)]

event_queue_insert(base, ev, queue) ==
    [Counted(base, ev, 1) EXCEPT ![queue] = @ \cup {ev}]

event_queue_remove(base, ev, queue) ==
    [Counted(base, ev, -1) EXCEPT ![queue] = @ \ {ev}]

\* A byte is written only when no notification is already on its way.
evthread_notify_base(base) ==
    IF base.is_notify_pending THEN base
    ELSE [base EXCEPT !.is_notify_pending = TRUE, !.pipe = TRUE]

\* EVBASE_NEED_NOTIFY: the loop runs, and in another thread.
NotifyIf(base, wanted, inLoop) ==
    IF wanted /\ base.running_loop /\ ~inLoop THEN evthread_notify_base(base) ELSE base

\* Events of equal timeout may be in any order in the heap, except that a
\* push never moves one above its equal.
Earliest(base, ev) == \A o \in base.timeheap : base.ev_timeout[ev] <= base.ev_timeout[o]
BecomesTop(base, ev) == \A o \in base.timeheap : base.ev_timeout[ev] < base.ev_timeout[o]

Requeue(base, ev) ==
    LET b1 == IF ev \in base.timeheap THEN event_queue_remove(base, ev, "timeheap") ELSE base
    IN IF ev \in Active(b1) /\ "timeout" \in b1.ev_res[ev]
       THEN event_queue_remove_active(b1, ev) ELSE b1

\* event_add: at is None for an event without a timeout, otherwise the
\* instant it is due; io_timeout the interval to remember for EV_PERSIST.
event_add_internal(base, ev, at, io_timeout, inLoop) ==
    LET wantIo == ev \in Io /\ ev \notin base.inserted /\ ev \notin Active(base)
        b1 == IF wantIo THEN event_queue_insert(base, ev, "inserted") ELSE base
        wasTop == ev \in b1.timeheap /\ Earliest(b1, ev)
        b2 == IF at = None THEN b1
              ELSE [Requeue(b1, ev) EXCEPT !.ev_timeout[ev] = at,
                        !.ev_io_timeout[ev] = IF ev \in Persist THEN io_timeout ELSE @]
        isTop == BecomesTop(b2, ev)
        b3 == IF at = None THEN b2 ELSE event_queue_insert(b2, ev, "timeheap")
    IN NotifyIf(b3, wantIo \/ (at # None /\ (wasTop \/ isTop)), inLoop)

\* What follows the wait of event_del_internal.
event_del_internal_KeepsActive(base, ev, inLoop) ==
    LET b1 == IF ev \in base.timeheap THEN event_queue_remove(base, ev, "timeheap") ELSE base
        b2 == IF ev \in b1.inserted THEN event_queue_remove(b1, ev, "inserted") ELSE b1
    IN NotifyIf(b2, ev \in b1.inserted, inLoop)

event_del_internal(base, ev, inLoop) ==
    LET b1 == IF ev \in base.timeheap THEN event_queue_remove(base, ev, "timeheap") ELSE base
        b2 == IF ev \in Active(b1) THEN event_queue_remove_active(b1, ev) ELSE b1
        b3 == IF ev \in b2.inserted THEN event_queue_remove(b2, ev, "inserted") ELSE b2
    IN NotifyIf(b3, ev \in b2.inserted, inLoop)

event_active_nolock_NoNotify(base, ev, res, inLoop) ==
    IF ev \in Active(base) THEN [base EXCEPT !.ev_res[ev] = @ \cup {res}]
    ELSE event_queue_insert_active(
           [base EXCEPT !.ev_res[ev] = {res},
                        !.event_continue = @ \/ ev_pri[ev] < base.event_running_priority], ev)

event_active_nolock(base, ev, res, inLoop) ==
    IF ev \in Active(base) THEN [base EXCEPT !.ev_res[ev] = @ \cup {res}]
    ELSE LET b1 == [base EXCEPT !.ev_res[ev] = {res},
                        !.event_continue = @ \/ ev_pri[ev] < base.event_running_priority]
         IN NotifyIf(event_queue_insert_active(b1, ev), TRUE, inLoop)

event_deferred_cb_schedule(base, cb, inLoop) ==
    IF Contains(base.defer_queue, cb) THEN base
    ELSE NotifyIf([base EXCEPT !.defer_queue = Append(@, cb)], TRUE, inLoop)

event_deferred_cb_cancel(base, cb) == [base EXCEPT !.defer_queue = Remove(@, cb)]

event_base_loopbreak(base, inLoop) ==
    NotifyIf([base EXCEPT !.event_break = TRUE], TRUE, inLoop)

\* The closure of a persistent event re-adds its timeout one interval after
\* the instant it was scheduled for, or after now when it fired for another
\* reason or has missed an interval.
event_persist_closure(base, ev) ==
    LET d == base.ev_io_timeout[ev]
        from == IF "timeout" \in base.ev_res[ev] THEN base.ev_timeout[ev] ELSE gettime(base)
        run_at == IF from + d < gettime(base) THEN gettime(base) + d ELSE from + d
    IN IF d = 0 THEN base ELSE event_add_internal(base, ev, run_at, d, TRUE)

----------------------------------------------------------------------------
(* The loop. *)

Init == /\ b = [inserted |-> {}, active |-> [i \in Pri |-> <<>>], timeheap |-> {},
                ev_timeout |-> [e \in All |-> 0], ev_io_timeout |-> [e \in All |-> 0],
                ev_res |-> [e \in All |-> {}],
                event_count |-> 0, event_count_active |-> 0, defer_queue |-> <<>>,
                event_gotterm |-> FALSE, event_break |-> FALSE, event_continue |-> FALSE,
                running_loop |-> FALSE, event_running_priority |-> -1,
                current_event |-> None, waiters |-> 0,
                is_notify_pending |-> FALSE, pipe |-> FALSE, tv_cache |-> None]
        /\ pc = "out"
        /\ loop = [flags |-> "none", deadline |-> None, got |-> {}, i |-> 0, count |-> 0,
                   ran |-> 0, retval |-> 0]
        /\ other = <<"idle">>
        /\ ready = {} /\ now = 0 /\ calls = 0 /\ quiet = {} /\ sinceBreak = 0

Env == <<ready, now, calls>>

\* event_base_loop, up to the first turn.
LoopStart(flags) ==
    /\ pc = "out" /\ calls < MaxCalls
    /\ b' = [b EXCEPT !.running_loop = TRUE, !.tv_cache = None,
                      !.event_gotterm = FALSE, !.event_break = FALSE]
    /\ loop' = [loop EXCEPT !.flags = flags]
    /\ pc' = "top" /\ calls' = calls + 1 /\ sinceBreak' = 0
    /\ UNCHANGED <<other, ready, now, quiet>>

Leave(base, retval) ==
    /\ b' = [base EXCEPT !.running_loop = FALSE, !.tv_cache = None]
    /\ loop' = [loop EXCEPT !.retval = retval]
    /\ pc' = "out"

event_haveevents(base) == base.event_count > 0

\* The head of the while loop: leave it, or compute how long to wait (None
\* for ever, otherwise an instant) and enter dispatch, which releases the lock.
timeout_next(base) ==
    IF base.timeheap = {} THEN None
    ELSE CHOOSE t \in {base.ev_timeout[e] : e \in base.timeheap} :
            \A e \in base.timeheap : t <= base.ev_timeout[e]

LoopTop ==
    /\ pc = "top"
    /\ LET b0 == [b EXCEPT !.event_continue = FALSE] IN
         \/ /\ b.event_gotterm \/ b.event_break
            /\ Leave(b0, 0)
         \/ /\ ~b.event_gotterm /\ ~b.event_break
            /\ ~event_haveevents(b) /\ N_ACTIVE_CALLBACKS(b) = 0
            /\ Leave(b0, 1)
         \/ /\ ~b.event_gotterm /\ ~b.event_break
            /\ event_haveevents(b) \/ N_ACTIVE_CALLBACKS(b) > 0
            /\ b' = [b0 EXCEPT !.tv_cache = None]
            /\ loop' = [loop EXCEPT !.got = {},
                 !.deadline = IF N_ACTIVE_CALLBACKS(b) = 0 /\ loop.flags # "nonblock"
                              THEN timeout_next(b) ELSE now]
            /\ pc' = "dispatch"
    /\ UNCHANGED <<other, quiet, sinceBreak, Env>>

\* What the kernel reports: the readable descriptors that are watched.
Readable == (ready \cap b.inserted) \cup (IF b.pipe THEN {Notify} ELSE {})

\* dispatch returns without the lock: descriptors are readable, or the
\* deadline has come.
DispatchReturn ==
    /\ pc = "dispatch"
    /\ \/ Readable # {}
       \/ loop.deadline # None /\ loop.deadline <= now
    /\ loop' = [loop EXCEPT !.got = Readable]
    /\ pc' = "returned"
    /\ UNCHANGED <<b, other, quiet, sinceBreak, Env>>

\* The system call fails: event_base_loop returns -1.
DispatchFails ==
    /\ pc = "dispatch"
    /\ Leave(b, -1)
    /\ UNCHANGED <<other, quiet, sinceBreak, Env>>

\* Every event of a timed-out prefix of the heap: events of one instant
\* leave it in any order.
ExpiryOrders(base) ==
    LET due == {e \in base.timeheap : base.ev_timeout[e] <= gettime(base)}
    IN {s \in SetToSeqs(due) : \A i, j \in 1 .. Len(s) :
                                  i < j => base.ev_timeout[s[i]] <= base.ev_timeout[s[j]]}

timeout_process(base, order) ==
    FoldLeft(LAMBDA acc, ev : event_active_nolock(event_del_internal(acc, ev, TRUE), ev, "timeout", TRUE),
             base, order)

\* With the lock again: the back end activates the events that are still
\* inserted, then the elapsed timeouts become active.
Activate ==
    /\ pc = "returned"
    /\ \E s \in SetToSeqs(loop.got \cap (b.inserted \cup {Notify})) :
         LET b1 == FoldLeft(LAMBDA acc, ev : event_active_nolock(acc, ev, "read", TRUE), b, s)
             b2 == [b1 EXCEPT !.tv_cache = now]
         IN \E order \in ExpiryOrders(b2) : b' = timeout_process(b2, order)
    /\ \/ /\ N_ACTIVE_CALLBACKS(b') > 0
          /\ pc' = "process" /\ loop' = [loop EXCEPT !.i = 0, !.count = 0, !.ran = 0]
       \/ /\ N_ACTIVE_CALLBACKS(b') = 0 /\ loop.flags = "nonblock"
          /\ pc' = "done" /\ UNCHANGED loop
       \/ /\ N_ACTIVE_CALLBACKS(b') = 0 /\ loop.flags # "nonblock"
          /\ pc' = "top" /\ UNCHANGED loop
    /\ UNCHANGED <<other, quiet, sinceBreak, Env>>

\* event_process_active: the next event of queue i, or the next queue, or,
\* when a queue with a real event has been served, the deferred callbacks.
StartCallback ==
    /\ pc = "process" /\ loop.i < nactivequeues /\ b.active[loop.i] # <<>>
    /\ LET ev == Head(b.active[loop.i])
           b1 == [b EXCEPT !.event_running_priority = loop.i]
           b2 == IF ev \in Persist \cup {Notify} THEN event_queue_remove_active(b1, ev)
                 ELSE event_del_internal(b1, ev, TRUE)
           b3 == [b2 EXCEPT !.current_event = ev, !.waiters = 0]
       IN /\ b' = IF ev \in Persist THEN event_persist_closure(b3, ev) ELSE b3
          /\ loop' = [loop EXCEPT !.count = @ + IF Internal(ev) THEN 0 ELSE 1]
          /\ pc' = IF Internal(ev) THEN "drain" ELSE "callback"
    /\ sinceBreak' = IF b.event_break THEN sinceBreak + 1 ELSE sinceBreak
    /\ UNCHANGED <<other, quiet, Env>>

NextQueue ==
    /\ pc = "process" /\ loop.i < nactivequeues /\ b.active[loop.i] = <<>>
    /\ loop' = [loop EXCEPT !.i = IF loop.count > 0 THEN nactivequeues ELSE @ + 1]
    /\ UNCHANGED <<b, pc, other, quiet, sinceBreak, Env>>

\* evthread_notify_drain: the byte is read without the lock, the pending
\* mark is cleared with it.
NotifyDrainRead ==
    /\ pc = "drain"
    /\ b' = [b EXCEPT !.pipe = FALSE]
    /\ pc' = "drained"
    /\ UNCHANGED <<loop, other, quiet, sinceBreak, Env>>

NotifyDrainClear ==
    /\ pc = "drained"
    /\ b' = [b EXCEPT !.is_notify_pending = FALSE]
    /\ pc' = "callback"
    /\ UNCHANGED <<loop, other, quiet, sinceBreak, Env>>

Wake(base) == [base EXCEPT !.current_event = None, !.waiters = 0]

EndCallback_NoBroadcast ==
    /\ pc = "callback"
    /\ LET ev == b.current_event
           b1 == IF ev = LoopExit THEN [b EXCEPT !.event_gotterm = TRUE] ELSE b
       IN /\ b' = [Wake(b1) EXCEPT !.event_running_priority = IF b.event_break THEN -1 ELSE @]
          /\ ready' = ready \ {ev}
    /\ \/ b.event_break /\ pc' = "endprocess" /\ loop' = [loop EXCEPT !.count = -1]
       \/ /\ ~b.event_break /\ b.event_continue
          /\ pc' = "process"
          /\ loop' = [loop EXCEPT !.i = IF loop.count > 0 THEN nactivequeues ELSE @ + 1]
       \/ ~b.event_break /\ ~b.event_continue /\ pc' = "process" /\ UNCHANGED loop
    /\ UNCHANGED <<other, now, calls, quiet, sinceBreak>>

\* The callback has returned and the lock is taken again.  The callback of
\* the event event_base_loopexit scheduled asks the loop to end; that of an
\* I/O event has read what there was.
EndCallback ==
    /\ pc = "callback"
    /\ LET ev == b.current_event
           b1 == IF ev = LoopExit THEN [b EXCEPT !.event_gotterm = TRUE] ELSE b
       IN /\ b' = [Wake(b1) EXCEPT !.event_running_priority = IF b.event_break THEN -1 ELSE @]
          /\ ready' = ready \ {ev}
    /\ other' = IF b.waiters > 0 THEN <<"woken", other[2]>> ELSE other
    /\ \/ b.event_break /\ pc' = "endprocess" /\ loop' = [loop EXCEPT !.count = -1]
       \/ /\ ~b.event_break /\ b.event_continue
          /\ pc' = "process"
          /\ loop' = [loop EXCEPT !.i = IF loop.count > 0 THEN nactivequeues ELSE @ + 1]
       \/ ~b.event_break /\ ~b.event_continue /\ pc' = "process" /\ UNCHANGED loop
    /\ UNCHANGED <<now, calls, quiet, sinceBreak>>

\* event_process_deferred_callbacks: at most MAX_DEFERRED of them a turn.
StartDeferred ==
    /\ pc = "process" /\ loop.i = nactivequeues
    /\ \/ /\ b.defer_queue # <<>> /\ loop.ran < MAX_DEFERRED
          /\ b' = [b EXCEPT !.defer_queue = Tail(@)]
          /\ loop' = [loop EXCEPT !.ran = @ + 1]
          /\ pc' = "deferred"
          /\ sinceBreak' = IF b.event_break THEN sinceBreak + 1 ELSE sinceBreak
       \/ /\ b.defer_queue = <<>> \/ loop.ran = MAX_DEFERRED
          /\ b' = [b EXCEPT !.event_running_priority = -1]
          /\ pc' = "endprocess"
          /\ UNCHANGED <<loop, sinceBreak>>
    /\ UNCHANGED <<other, quiet, Env>>

EndDeferred ==
    /\ pc = "deferred"
    /\ b' = [b EXCEPT !.event_running_priority = IF b.event_break THEN -1 ELSE @]
    /\ pc' = IF b.event_break THEN "endprocess" ELSE "process"
    /\ UNCHANGED <<loop, other, quiet, sinceBreak, Env>>

\* After event_process_active: EVLOOP_ONCE ends when everything active ran.
EndProcess ==
    /\ pc = "endprocess"
    /\ pc' = IF loop.flags = "once" /\ N_ACTIVE_CALLBACKS(b) = 0 /\ loop.count # 0
             THEN "done" ELSE "top"
    /\ UNCHANGED <<b, loop, other, quiet, sinceBreak, Env>>

LoopDone ==
    /\ pc = "done"
    /\ Leave(b, 0)
    /\ UNCHANGED <<other, quiet, sinceBreak, Env>>

----------------------------------------------------------------------------
(* The API, called by the other thread when it gets the lock, or by a      *)
(* callback of the loop thread.                                            *)

LockFree == pc \in {"out", "dispatch", "drain", "drained", "callback", "deferred", "returned"}
InCallback == (pc = "callback" /\ b.current_event # Notify) \/ pc = "deferred"

Caller(inLoop) ==
    /\ calls < MaxCalls /\ calls' = calls + 1
    /\ IF inLoop THEN InCallback ELSE LockFree /\ other = <<"idle">>
    /\ UNCHANGED <<pc, loop, ready, now>>

event_add(ev, d, inLoop) ==
    /\ Caller(inLoop)
    /\ ev # LoopExit \/ (d # None /\ ev \notin b.timeheap /\ ev \notin Active(b) /\ b.current_event # ev)
    /\ b' = event_add_internal(b, ev, IF d = None THEN None ELSE gettime(b) + d,
                               IF d = None THEN 0 ELSE d, inLoop)
    /\ quiet' = quiet \ {ev}
    /\ UNCHANGED <<other, sinceBreak>>

\* The wait for a running callback is a single condition wait.
event_del(ev, inLoop) ==
    /\ Caller(inLoop)
    /\ ev # LoopExit
    /\ IF b.current_event = ev /\ ~inLoop
       THEN /\ b' = [b EXCEPT !.waiters = @ + 1]
            /\ other' = <<"waiting", ev>>
            /\ UNCHANGED quiet
       ELSE /\ b' = event_del_internal(b, ev, inLoop)
            /\ quiet' = IF inLoop THEN quiet ELSE quiet \cup {ev}
            /\ UNCHANGED other
    /\ UNCHANGED sinceBreak

\* The condition has been signalled and the other thread gets the lock.
event_del_resume ==
    /\ other[1] = "woken" /\ LockFree
    /\ b' = event_del_internal(b, other[2], FALSE)
    /\ quiet' = quiet \cup {other[2]}
    /\ other' = <<"idle">>
    /\ UNCHANGED <<pc, loop, sinceBreak, Env>>

event_active(ev, inLoop) ==
    /\ Caller(inLoop)
    /\ ev # LoopExit
    /\ b' = event_active_nolock(b, ev, "read", inLoop)
    /\ quiet' = quiet \ {ev}
    /\ UNCHANGED <<other, sinceBreak>>

Deferred(cb, inLoop) ==
    /\ Caller(inLoop)
    /\ \/ b' = event_deferred_cb_schedule(b, cb, inLoop)
       \/ b' = event_deferred_cb_cancel(b, cb)
    /\ UNCHANGED <<other, quiet, sinceBreak>>

loopbreak(inLoop) ==
    /\ Caller(inLoop)
    /\ b' = event_base_loopbreak(b, inLoop)
    /\ sinceBreak' = IF b.event_break THEN sinceBreak ELSE 0
    /\ UNCHANGED <<other, quiet>>

\* The environment: data arrives on a watched descriptor, time passes.
Arrive == /\ \E ev \in Io \ ready : ready' = ready \cup {ev}
          /\ calls < MaxCalls /\ calls' = calls + 1
          /\ UNCHANGED <<b, pc, loop, other, now, quiet, sinceBreak>>

Tick == /\ now < Horizon /\ now' = now + 1
        /\ UNCHANGED <<b, pc, loop, other, ready, calls, quiet, sinceBreak>>

LoopStep == \/ LoopTop \/ DispatchReturn \/ Activate \/ StartCallback \/ NextQueue
            \/ NotifyDrainRead \/ NotifyDrainClear \/ EndCallback
            \/ StartDeferred \/ EndDeferred \/ EndProcess \/ LoopDone

Call(inLoop) == \/ \E ev \in Event : \/ \E d \in Delay \cup {None} : event_add(ev, d, inLoop)
                                     \/ event_del(ev, inLoop)
                                     \/ event_active(ev, inLoop)
                \/ \E cb \in Cb : Deferred(cb, inLoop)
                \/ loopbreak(inLoop)

Next == \/ \E flags \in {"none", "once", "nonblock"} : LoopStart(flags)
        \/ LoopStep
        \/ DispatchFails
        \/ \E inLoop \in BOOLEAN : Call(inLoop)
        \/ event_del_resume
        \/ Arrive
        \/ Tick

Spec == Init /\ [][Next]_vars

\* The loop thread has something to do; LoopStep is then enabled.
LoopCanMove == \/ pc \notin {"out", "dispatch"}
               \/ pc = "dispatch" /\ Readable # {}
               \/ pc = "dispatch" /\ loop.deadline # None /\ loop.deadline <= now

----------------------------------------------------------------------------
(* Properties. *)

\* event_count counts the queues each program event is on, event_count_active
\* the active ones: event_base_loop decides by these two numbers whether to
\* wait and whether to return, so a count that drifts makes it spin or quit.
CountsAgree ==
    /\ b.event_count_active = Cardinality(Active(b))
    /\ b.event_count = Cardinality(b.inserted) + Cardinality(b.timeheap)
                         + Cardinality(Active(b) \ {Notify})
    /\ \A i \in Pri : \A ev \in ToSet(b.active[i]) : ev_pri[ev] = i

\* No wakeup is lost: when the loop waits in dispatch although an event is
\* active, a deferred callback is queued, a break was asked for or a timer is
\* due before its deadline, the notification byte is there to end the wait.
\* is_notify_pending suppresses the write, and is cleared apart from the read.
WaitIsInterrupted ==
    pc = "dispatch" /\ (loop.deadline = None \/ loop.deadline > now)
      /\ \/ N_ACTIVE_CALLBACKS(b) > 0
         \/ b.event_break
         \/ \E ev \in b.timeheap : loop.deadline = None \/ b.ev_timeout[ev] < loop.deadline
    => b.pipe

\* A callback never starts while an event of a lower-numbered priority is
\* active, even one activated by the other thread or by the callback before
\* (event_continue).
PriorityRespected ==
    pc # pc' /\ pc' \in {"callback", "drain"} /\ pc = "process" =>
        \A i \in Pri : i < loop.i => b.active[i] = <<>>

\* After event_base_loopbreak at most one more callback starts: the break is
\* honoured "after the next event is completed", deferred ones included.
BreakStops == sinceBreak <= 1

\* An event the other thread deleted while its callback was not running is
\* not run again until it is added or activated again.
DeletedStaysQuiet ==
    \A ev \in quiet : b'.current_event = ev => b.current_event = ev

\* event_base_loop reports "no events" only when nothing at all is pending.
NoEventsMeansNone ==
    pc = "top" /\ pc' = "out" /\ loop'.retval = 1 =>
        b.inserted = {} /\ b.timeheap = {} /\ Active(b) = {} /\ b.defer_queue = <<>>

\* Each turn of the loop runs at most MAX_DEFERRED deferred callbacks, so a
\* callback that schedules another cannot keep the loop from its I/O.
DeferredBounded == loop.ran <= MAX_DEFERRED

\* Every active event is run or taken off the queue, unless the loop ends.
Unserved(ev) == ev \in Active(b) /\ pc # "out"

\* A thread waiting in event_del for a callback to return does get through.
DelWaits == other[1] # "idle"
=============================================================================
