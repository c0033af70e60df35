------------------------------ MODULE BaseLife ------------------------------
(***************************************************************************)
(* The life of an event_base (event.c): configuring and choosing a back    *)
(* end, making the base notifiable, re-initialising it after a fork, and   *)
(* freeing it with events still on its queues.                             *)
(***************************************************************************)
EXTENDS Integers, Sequences, FiniteSets, SequencesExt

CONSTANTS Event,      \* I/O events of the program
          Signal,     \* signal events of the program, each for its own signal
          Timer,      \* timer events of the program
          Notify, EvSignal, \* the internal events th_notify and sig.ev_signal
          eventops,   \* the back ends in order of preference: [name, features]
          None

Internal == {Notify, EvSignal}

VARIABLES cfg,        \* event_config: [avoid, require, nolock]
          base        \* None, or the event_base

vars == <<cfg, base>>

----------------------------------------------------------------------------
(* event_config_* *)

Features == UNION {eventops[i].features : i \in DOMAIN eventops}
Names == {eventops[i].name : i \in DOMAIN eventops}

event_config_new == [avoid |-> {}, require |-> {}, nolock |-> FALSE]

event_config_avoid_method(m) == cfg' = [cfg EXCEPT !.avoid = @ \cup {m}]
event_config_require_features(f) == cfg' = [cfg EXCEPT !.require = f]
event_config_set_flag == cfg' = [cfg EXCEPT !.nolock = TRUE]

Configure == /\ base = None
             /\ \/ \E m \in Names : event_config_avoid_method(m)
                \/ \E f \in SUBSET Features : event_config_require_features(f)
                \/ event_config_set_flag
             /\ UNCHANGED base

----------------------------------------------------------------------------
(* Building a base. *)

Usable == base # None /\ ~base.aborted

\* Those the configuration allows; the first whose init succeeds is taken,
\* and a base that cannot be made notifiable is freed again.  The program
\* frees the configuration then.
Allowed(i) == /\ eventops[i].name \notin cfg.avoid
              /\ cfg.require \subseteq eventops[i].features

Blank(sel) == [evsel |-> sel, nactivequeues |-> 1, inserted |-> <<>>, active |-> {},
               timeheap |-> {}, notify_fd |-> FALSE, is_notify_pending |-> FALSE,
               sig_added |-> FALSE,
               kernel |-> {},       \* the events the maps hold and the back end watches
               pipe |-> FALSE,      \* a byte waits for th_notify
               res |-> 0,           \* history: what event_reinit last returned
               stuck |-> FALSE,     \* history: the byte of a notification went with the old pipe
               aborted |-> FALSE]   \* an assertion has failed

\* evmap_io_add, or evmap_signal_add: the first signal event inserts the
\* internal one that reads the socketpair.
evmap_add(b, ev) ==
    IF ev \in Signal /\ ~b.sig_added
    THEN [b EXCEPT !.kernel = @ \cup {ev, EvSignal}, !.inserted = Append(@, EvSignal), !.sig_added = TRUE]
    ELSE [b EXCEPT !.kernel = @ \cup {ev}]

event_add(b, ev) ==
    IF ev \in Timer THEN [b EXCEPT !.timeheap = @ \cup {ev}]
    ELSE IF Contains(b.inserted, ev) \/ ev \in b.active THEN b
    ELSE [evmap_add(b, ev) EXCEPT !.inserted = Append(@, ev)]

\* To delete an event that is inserted and not in the map fails an assertion
\* of evmap_io_del, or unlinks a signal event twice.
Lost(b) == ToSet(b.inserted) \ b.kernel
event_del(b, ev) ==
    IF ev \in Lost(b) THEN [b EXCEPT !.aborted = TRUE]
    ELSE [b EXCEPT !.timeheap = @ \ {ev}, !.active = @ \ {ev},
                   !.inserted = Remove(@, ev), !.kernel = @ \ {ev}]

\* eventfd, pipe or socketpair; at worst none can be had, or the event cannot
\* be added, and -1 is returned.
evthread_make_base_notifiable(b) ==
    {event_add([b EXCEPT !.notify_fd = TRUE], Notify),
     [b EXCEPT !.res = -1],
     [b EXCEPT !.res = -1, !.notify_fd = TRUE]}

event_base_new_with_config ==
    /\ base = None
    /\ \E sel \in {i \in DOMAIN eventops : Allowed(i)} :
         LET b == Blank(sel)
         IN IF cfg.nolock THEN base' = b
            ELSE base' \in {made \in evthread_make_base_notifiable(b) : made.res = 0}
    /\ cfg' = event_config_new

\* No priority change while anything is active.
event_base_priority_init(n) ==
    /\ Usable /\ base.active = {} /\ n # base.nactivequeues
    /\ base' = [base EXCEPT !.nactivequeues = n]
    /\ UNCHANGED cfg

----------------------------------------------------------------------------
(* Use: events come and go, another thread notifies, the loop drains. *)

Add(ev) == /\ Usable /\ base' = event_add(base, ev) /\ UNCHANGED cfg

Del(ev) == /\ Usable /\ base' = event_del(base, ev) /\ UNCHANGED cfg

Activate(ev) ==
    /\ Usable /\ ev \notin base.active
    /\ ev \notin Internal \/ Contains(base.inserted, ev)
    /\ base' = [base EXCEPT !.active = @ \cup {ev}]
    /\ UNCHANGED cfg

evthread_notify_base ==
    /\ Usable /\ base.notify_fd /\ ~base.is_notify_pending
    /\ base' = [base EXCEPT !.is_notify_pending = TRUE, !.pipe = TRUE]
    /\ UNCHANGED cfg

Drain == /\ Usable /\ base.pipe /\ Notify \in base.kernel
         /\ base' = [base EXCEPT !.is_notify_pending = FALSE, !.pipe = FALSE,
                                 !.active = @ \ {Notify}]
         /\ UNCHANGED cfg

----------------------------------------------------------------------------
(* After a fork the back end is built anew: the internal events leave the  *)
(* queues with their descriptors, every inserted event is registered       *)
(* again, and if all went well the base is made notifiable again.  That a  *)
(* notification is pending is not forgotten.                               *)

\* The list without the internal events that are gone with their descriptors.
Kept == LET gone == (IF base.sig_added THEN {EvSignal} ELSE {}) \cup (IF base.notify_fd THEN {Notify} ELSE {})
        IN [base EXCEPT !.inserted = SelectSeq(@, LAMBDA e : e \notin gone), !.active = @ \ gone,
                        !.sig_added = FALSE, !.notify_fd = FALSE, !.pipe = FALSE,
                        !.stuck = base.is_notify_pending, !.kernel = {}, !.res = 0]

\* The map and the back end start empty and take the events one by one; bad
\* are those whose registration fails.  An ev_signal that a signal event has
\* brought back stands behind the others and is passed over.
Reregistered(b, bad) ==
    FoldLeft(LAMBDA acc, ev : IF ev \in bad THEN [acc EXCEPT !.res = -1] ELSE evmap_add(acc, ev), b, b.inserted)

\* th_notify is on the list when the base has its descriptors: to take an
\* event off that is not there ends the program.
event_reinit_Overwrites ==
    /\ Usable
    /\ IF base.notify_fd /\ ~Contains(base.inserted, Notify) THEN base' = [base EXCEPT !.aborted = TRUE]
       ELSE \E bad \in SUBSET ToSet(Kept.inserted) :
            LET b == Reregistered(Kept, bad)
            IN IF base.notify_fd THEN base' \in evthread_make_base_notifiable([b EXCEPT !.res = 0]) ELSE base' = b
    /\ UNCHANGED cfg

event_reinit ==
    /\ Usable
    /\ IF base.notify_fd /\ ~Contains(base.inserted, Notify) THEN base' = [base EXCEPT !.aborted = TRUE]
       ELSE \E bad \in SUBSET ToSet(Kept.inserted) :
            LET b == Reregistered(Kept, bad)
            IN IF base.notify_fd /\ b.res = 0 THEN base' \in evthread_make_base_notifiable(b) ELSE base' = b
    /\ UNCHANGED cfg

----------------------------------------------------------------------------
(* event_base_free *)

DelAll(b, evs) == FoldLeft(LAMBDA acc, ev : event_del(acc, ev), b, evs)

UserOf(s) == SelectSeq(s, LAMBDA e : e \notin Internal)

\* What is left when dealloc has run (it removes the signal event).
Freed(b0) ==
    LET b1 == IF b0.notify_fd THEN event_del(b0, Notify) ELSE b0
        b2 == DelAll(b1, UserOf(b1.inserted))
        b3 == DelAll(b2, SetToSeq(b2.timeheap))
        b4 == DelAll(b3, SetToSeq(b3.active \ Internal))
    IN IF b4.sig_added THEN event_del(b4, EvSignal) ELSE b4

event_base_free ==
    /\ Usable
    /\ IF Freed(base).aborted THEN base' = [base EXCEPT !.aborted = TRUE] ELSE base' = None
    /\ UNCHANGED cfg

Init == cfg = event_config_new /\ base = None

Next == \/ Configure \/ event_base_new_with_config \/ event_base_priority_init(1)
        \/ event_base_priority_init(2)
        \/ \E ev \in Event \cup Signal \cup Timer : Add(ev) \/ Del(ev)
        \/ \E ev \in Event \cup Signal \cup Timer \cup Internal : Activate(ev)
        \/ evthread_notify_base \/ Drain
        \/ event_base_free
        \/ event_reinit

Spec == Init /\ [][Next]_vars

----------------------------------------------------------------------------
\* The assertions of event_base_free hold with anything still on the queues:
\* internal events, active events that are not inserted, and timers; only an
\* event that event_reinit could not register again breaks them.
FreeLeavesNothing ==
    base # None /\ Lost(base) = {} =>
        LET b == Freed(base)
        IN b.active = {} /\ b.timeheap = {} /\ b.inserted = <<>> /\ b.kernel = {}

\* What the maps and the back end hold is what the base believes inserted,
\* also after the re-initialisation that follows a fork: a difference, and the
\* failed assertion it leads to, comes after event_reinit has returned -1.
KernelMatches ==
    base # None => /\ base.res = 0 => base.kernel = ToSet(base.inserted) /\ ~base.aborted
                   /\ base.kernel \subseteq ToSet(base.inserted)

\* No internal event is inserted twice, over any number of forks and signal
\* events; a base that has its descriptors has th_notify too, unless
\* event_reinit has said that it could not add it.
InternalOnce ==
    base # None =>
        LET Count(ev) == Cardinality({i \in DOMAIN base.inserted : base.inserted[i] = ev})
        IN /\ Count(EvSignal) = (IF base.sig_added THEN 1 ELSE 0)
           /\ Count(Notify) <= (IF base.notify_fd THEN 1 ELSE 0)
           /\ base.res = 0 /\ base.notify_fd => Count(Notify) = 1

\* A notification that is pending has its byte in the pipe, so that th_notify
\* will see it and clear the mark.  Only a base re-initialised while one was
\* pending has the mark without the byte, and it never sends one again.
PendingIsSent == base # None => (base.pipe <=> base.is_notify_pending /\ ~base.stuck)

=============================================================================
