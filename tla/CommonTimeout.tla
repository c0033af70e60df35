--------------------------- MODULE CommonTimeout ---------------------------
(***************************************************************************)
(* Common timeouts (event.c): timers of one duration share a queue, and    *)
(* only an internal event per queue, due with its first timer, is in the   *)
(* heap.  A timeval carries the queue's index in the high bits of tv_usec  *)
(* (COMMON_TIMEOUT_MAGIC); here it is a pair <<q, t>> with q = 0 for an    *)
(* ordinary timeval.  The clock may be set back, which timeout_correct     *)
(* detects and repairs.                                                    *)
(***************************************************************************)
EXTENDS Integers, Sequences, FiniteSets, SequencesExt

CONSTANTS Event,       \* the program's timer events
          Persist,     \* those with EV_PERSIST
          Duration,    \* the durations made common, by queue index
          Delay,       \* the ordinary intervals given to event_add
          Horizon,     \* bound: the last instant of the clock
          MaxBack,     \* bound: how often the clock is set back
          MaxAdds      \* bound: calls of event_add

VARIABLES queues,      \* n_common_timeouts queues: [dur, events]
          heap,        \* the events of timeheap: program events and queue events
          ev_timeout,  \* <<q, t>> of each program event, t of each queue event
          io_timeout,  \* ev_io_timeout: <<q, d>>
          active,      \* the active queue, in order
          fired,       \* the event whose callback is about to run, or 0
          now, event_tv, back, adds,
          tv_cache,    \* the time after the last wait, 0 before the first
          hist         \* history: instant each timer became due, before correction

vars == <<queues, heap, ev_timeout, io_timeout, active, fired, now, event_tv, tv_cache, back, adds, hist>>

Q == 1 .. Len(queues)
Idx == 1 .. Len(Duration)
Due(s, e) == s.ev_timeout[e][2]
On(s, e) == e \in s.heap \/ \E q \in 1 .. Len(s.queues) : Contains(s.queues[q].events, e)

\* The state the operators below work on.
S == [queues |-> queues, heap |-> heap, ev_timeout |-> ev_timeout,
      io_timeout |-> io_timeout, active |-> active]

Set(s) == /\ queues' = s.queues /\ heap' = s.heap /\ ev_timeout' = s.ev_timeout
          /\ io_timeout' = s.io_timeout /\ active' = s.active

is_common_timeout(s, tv) == tv[1] \in 1 .. Len(s.queues)

is_same_common_timeout(tv1, tv2) == tv1[1] = tv2[1]

\* After the last timer of the queue that is due no later, else first.
insert_common_timeout_inorder(s, q, e) ==
    LET l == s.queues[q].events
        before == {i \in 1 .. Len(l) : Due(s, e) >= Due(s, l[i])}
        at == IF before = {} THEN 1 ELSE 1 + CHOOSE i \in before : \A j \in before : j <= i
    IN [s EXCEPT !.queues[q].events = InsertAt(l, at, e)]

event_queue_remove_timeout(s, e) ==
    IF e \in s.heap THEN [s EXCEPT !.heap = @ \ {e}]
    ELSE [s EXCEPT !.queues[s.ev_timeout[e][1]].events = Remove(@, e)]

\* event_add_internal with tv_is_absolute, for the event of queue q: an
\* active queue event is taken off the active queue again.
common_timeout_schedule(s, q, head) ==
    [s EXCEPT !.heap = @ \cup {q}, !.ev_timeout[q] = <<0, Due(s, head)>>,
              !.active = Remove(@, q)]

\* event_add_internal for a program event due at tv = <<q, t>>.
AddAt(s, e, tv) ==
    LET s1 == IF On(s, e) THEN event_queue_remove_timeout(s, e) ELSE s
        s2 == [s1 EXCEPT !.active = Remove(@, e), !.ev_timeout[e] = tv]
    IN IF ~is_common_timeout(s, tv) THEN [s2 EXCEPT !.heap = @ \cup {e}]
       ELSE LET s3 == insert_common_timeout_inorder(s2, tv[1], e)
            IN IF Head(s3.queues[tv[1]].events) = e
               THEN common_timeout_schedule(s3, tv[1], e) ELSE s3

event_del_internal(s, e) ==
    LET s1 == IF On(s, e) THEN event_queue_remove_timeout(s, e) ELSE s
    IN [s1 EXCEPT !.active = Remove(@, e)]

event_active_nolock(s, e) == [s EXCEPT !.active = IF Contains(@, e) THEN @ ELSE Append(@, e)]

event_persist_closure(s, e) ==
    LET d == s.io_timeout[e]
        run_at == IF Due(s, e) + d[2] < tv_cache THEN tv_cache + d[2] ELSE Due(s, e) + d[2]
    IN IF d[2] = 0 THEN s ELSE AddAt(s, e, <<d[1], run_at>>)

Init == /\ queues = <<>> /\ heap = {} /\ active = <<>> /\ fired = 0
        /\ ev_timeout = [e \in Event \cup Idx |-> <<0, 0>>]
        /\ io_timeout = [e \in Event |-> <<0, 0>>]
        /\ now = 1 /\ event_tv = 0 /\ tv_cache = 0 /\ back = 0 /\ adds = 0
        /\ hist = [e \in Event |-> 0]

\* A duration that is already common is found again; otherwise a queue is
\* appended, whose index is its place in common_timeout_queues.
event_base_init_common_timeout ==
    /\ fired = 0 /\ Len(queues) < Len(Duration)
    /\ LET d == Duration[Len(queues) + 1] IN
         /\ \A q \in Q : queues[q].dur # d
         /\ queues' = Append(queues, [dur |-> d, events |-> <<>>])
    /\ UNCHANGED <<heap, ev_timeout, io_timeout, active, fired, now, event_tv, tv_cache, back, adds, hist>>

\* event_add with an ordinary interval or with the timeval of a queue: a
\* callback counts from the cached time, another thread, while the loop
\* waits, from the clock.
event_add ==
    /\ fired = 0 /\ adds < MaxAdds /\ adds' = adds + 1
    /\ \E e \in Event, tv \in ({0} \X Delay) \cup {<<q, queues[q].dur>> : q \in Q},
          t \in {tv_cache, now} \ {0} :
         LET s1 == IF e \in Persist THEN [S EXCEPT !.io_timeout[e] = tv] ELSE S
         IN /\ Set(AddAt(s1, e, <<tv[1], t + tv[2]>>))
            /\ hist' = [hist EXCEPT ![e] = t + tv[2]]
    /\ UNCHANGED <<fired, now, event_tv, tv_cache, back>>

event_del ==
    /\ fired = 0
    /\ \E e \in Event : /\ On(S, e) \/ Contains(active, e)
                        /\ Set(event_del_internal(S, e))
    /\ UNCHANGED <<fired, now, event_tv, tv_cache, back, adds, hist>>

gettime == IF tv_cache = 0 THEN now ELSE tv_cache

\* The head of the loop: the time, which is still the cached one, is compared
\* with the one before, and when it runs behind, the heap and every queue are
\* moved back as much.
timeout_correct(s, off) ==
    [s EXCEPT !.ev_timeout = [e \in DOMAIN s.ev_timeout |->
        IF On(s, e) THEN <<@[e][1], @[e][2] - off>> ELSE @[e]]]

\* One turn of the loop up to the callbacks: timeout_correct, the wait, the
\* time is cached, and timeout_process activates what is due, earliest first.
Turn ==
    /\ fired = 0 /\ active = <<>>
    /\ LET off == IF gettime < event_tv THEN event_tv - gettime ELSE 0
           s1 == timeout_correct(S, off)
           due == {e \in s1.heap : Due(s1, e) <= now}
           orders == {o \in SetToSeqs(due) : \A i, j \in DOMAIN o : i < j => Due(s1, o[i]) <= Due(s1, o[j])}
       IN /\ \E o \in orders :
               Set(FoldLeft(LAMBDA s, e : event_active_nolock([s EXCEPT !.heap = @ \ {e}], e), s1, o))
          /\ hist' = [e \in Event |-> IF On(S, e) THEN hist[e] - off ELSE hist[e]]
    /\ event_tv' = gettime /\ tv_cache' = now
    /\ UNCHANGED <<fired, now, back, adds>>

\* The next active event: the callback of a queue, or the closure and the
\* callback of a program event.
common_timeout_callback(s, q) ==
    LET l == s.queues[q].events
        due == SelectSeq(l, LAMBDA e : Due(s, e) <= tv_cache)
        s1 == FoldLeft(LAMBDA t, e : event_active_nolock(event_del_internal(t, e), e), s, due)
        rest == s1.queues[q].events
    IN IF rest = <<>> THEN s1 ELSE common_timeout_schedule(s1, q, Head(rest))

RunQueue ==
    /\ fired = 0 /\ active # <<>> /\ Head(active) \in Idx
    /\ Set(common_timeout_callback([S EXCEPT !.active = Tail(@)], Head(active)))
    /\ UNCHANGED <<fired, now, event_tv, tv_cache, back, adds, hist>>

RunEvent ==
    /\ fired = 0 /\ active # <<>> /\ Head(active) \in Event
    /\ LET e == Head(active)
           s1 == [S EXCEPT !.active = Tail(@)]
       IN /\ Set(IF e \in Persist THEN event_persist_closure(s1, e) ELSE s1)
          /\ fired' = e
    /\ UNCHANGED <<now, event_tv, tv_cache, back, adds, hist>>

\* The callback has run; history takes note of the next instant.
Ran ==
    /\ fired # 0
    /\ fired' = 0
    /\ hist' = IF On(S, fired) THEN [hist EXCEPT ![fired] = Due(S, fired)] ELSE hist
    /\ UNCHANGED <<queues, heap, ev_timeout, io_timeout, active, now, event_tv, tv_cache, back, adds>>

Tick == /\ now < Horizon /\ now' = now + 1
        /\ UNCHANGED <<queues, heap, ev_timeout, io_timeout, active, fired, event_tv, tv_cache, back, adds, hist>>

SetBack == /\ back < MaxBack /\ now > 1
           /\ back' = back + 1 /\ now' = now - 1
           /\ UNCHANGED <<queues, heap, ev_timeout, io_timeout, active, fired, event_tv, tv_cache, adds, hist>>

Next == \/ event_base_init_common_timeout \/ event_add \/ event_del
        \/ Turn \/ RunQueue \/ RunEvent \/ Ran \/ Tick \/ SetBack

Spec == Init /\ [][Next]_vars

LoopRuns == Turn \/ RunQueue \/ RunEvent \/ Ran
\* The turns that change something.
LoopCanRun == fired # 0 \/ active # <<>> \/ tv_cache # now \/ event_tv # tv_cache \/ \E e \in heap : Due(S, e) <= now

----------------------------------------------------------------------------
\* Each queue holds its timers in the order they are due: the loop of
\* common_timeout_callback stops at the first that is not.
QueuesSorted ==
    \A q \in Q : LET l == queues[q].events IN
        \A i, j \in 1 .. Len(l) : i < j => Due(S, l[i]) <= Due(S, l[j])

\* A queue with timers has its internal event in the heap, due no later than
\* its first timer, or already active: otherwise its timers would never fire.
QueueIsScheduled ==
    \A q \in Q : queues[q].events # <<>> =>
        \/ Contains(active, q)
        \/ q \in heap /\ Due(S, q) <= Due(S, Head(queues[q].events))

\* The assertion at the head of event_persist_closure: the timeout and the
\* interval of a persistent event are in the same queue.
SameCommonTimeout ==
    \A e \in Persist : Contains(active, e) /\ io_timeout[e][2] # 0 =>
        is_same_common_timeout(ev_timeout[e], io_timeout[e])

\* No timer runs before the instant it was due at, by the time the loop goes
\* by and the corrections of the clock included.
NeverEarly ==
    \A e \in Event : fired = 0 /\ fired' = e => hist[e] <= tv_cache

\* A pending timer is served or deleted once the clock has passed it.
Overdue(e) == On(S, e) /\ Due(S, e) <= now
=============================================================================
