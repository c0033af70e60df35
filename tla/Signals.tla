------------------------------ MODULE Signals ------------------------------
(***************************************************************************)
(* Signal events (signal.c, the signal half of evmap.c and                 *)
(* event_signal_closure): the handler writes one byte per signal to the    *)
(* socket pair of the base that owns the signals; the loop of that base    *)
(* counts them and calls each event that many times, and a callback may    *)
(* delete the event that is being called.                                  *)
(***************************************************************************)
EXTENDS Integers, Sequences, FiniteSets, SequencesExt

CONSTANTS Base, Sig, Event, None,
          ev_base, ev_signal,   \* the base and the signal of each event
          Persist,              \* the events with EV_PERSIST
          MaxSignals            \* bound: signals delivered

VARIABLES evsig_base,  \* the base informed about signals
          copy,        \* evsig_base_n_signals_added
          base,        \* [n, added, sh_old, map, slots, pair] of each base
          handler,     \* the handler of each signal: "dfl" or "evsig"
          ev,          \* [inserted, active, ncalls, pncalls] of each event
          loop,        \* the closure each loop runs: [ev, ncalls, calling]
          delivered,   \* signals delivered so far
          failed       \* the loop met a signal without a slot

vars == <<evsig_base, copy, base, handler, ev, loop, delivered, failed>>

Idle == [ev |-> None, ncalls |-> 0, calling |-> FALSE]

\* evsig_init: the socket pair, and nothing added.
Init ==
    /\ evsig_base = None /\ copy = 0 /\ delivered = 0 /\ failed = FALSE
    /\ base = [b \in Base |-> [n |-> 0, added |-> FALSE, sh_old |-> [s \in Sig |-> None],
                               map |-> [s \in Sig |-> <<>>], slots |-> {}, pair |-> <<>>, open |-> TRUE]]
    /\ handler = [s \in Sig |-> "dfl"]
    /\ ev = [e \in Event |-> [inserted |-> FALSE, active |-> FALSE, ncalls |-> 0, pncalls |-> FALSE]]
    /\ loop = [b \in Base |-> Idle]

\* The base takes over the signals when its loop starts.
evsig_set_base(b) ==
    /\ base[b].open /\ base[b].added /\ evsig_base # b
    /\ evsig_base' = b /\ copy' = base[b].n
    /\ UNCHANGED <<base, handler, ev, loop, delivered, failed>>

\* The previous handler is saved and ours installed.
_evsig_set_handler(d, s) == [d EXCEPT !.sh_old[s] = handler[s]]

evsig_add(d, s) == [_evsig_set_handler(d, s) EXCEPT !.n = @ + 1, !.added = TRUE]

\* event_add: the first event of a signal installs the handler.
evmap_signal_add(e) ==
    LET b == ev_base[e]
        s == ev_signal[e]
        first == base[b].map[s] = <<>>
        d == IF first THEN evsig_add(base[b], s) ELSE base[b]
    IN /\ ~ev[e].inserted /\ base[b].open
       /\ base' = [base EXCEPT ![b] = [d EXCEPT !.map[s] = Append(@, e), !.slots = @ \cup {s}]]
       /\ evsig_base' = IF first THEN b ELSE evsig_base
       /\ copy' = IF first THEN d.n ELSE copy
       /\ handler' = IF first THEN [handler EXCEPT ![s] = "evsig"] ELSE handler
       /\ ev' = [ev EXCEPT ![e].inserted = TRUE]
       /\ UNCHANGED <<loop, delivered, failed>>

\* sigaction or malloc failed: the counters are taken back, the owner is not.
evsig_add_err(e) ==
    LET b == ev_base[e]
    IN /\ ~ev[e].inserted /\ base[b].open /\ base[b].map[ev_signal[e]] = <<>>
       /\ evsig_base' = b /\ copy' = base[b].n
       /\ base' = [base EXCEPT ![b].slots = @ \cup {ev_signal[e]}]
       /\ UNCHANGED <<handler, ev, loop, delivered, failed>>

\* The saved handler comes back.
_evsig_restore_handler(d, s) == [d EXCEPT !.sh_old[s] = None]

evsig_del(d, s) == [_evsig_restore_handler(d, s) EXCEPT !.n = @ - 1]

\* The last event of a signal gives the handler back.
evmap_signal_del(e) ==
    LET b == ev_base[e]
        s == ev_signal[e]
        last == Len(base[b].map[s]) = 1
        d == IF last THEN evsig_del(base[b], s) ELSE base[b]
    IN /\ base' = [base EXCEPT ![b] = [d EXCEPT !.map[s] = Remove(@, e)]]
       /\ copy' = IF last THEN copy - 1 ELSE copy
       /\ handler' = IF last THEN [handler EXCEPT ![s] = base[b].sh_old[s]] ELSE handler

\* event_del: the loop that is calling the event is told to stop through
\* ev_pncalls (a write to a dead frame, which may be another closure's, when
\* that loop is over).
event_del(e) ==
    LET b == ev_base[e]
        abort == ev[e].ncalls # 0 /\ ev[e].pncalls
    IN /\ ev[e].inserted /\ evmap_signal_del(e)
       /\ ev' = [ev EXCEPT ![e].inserted = FALSE, ![e].active = FALSE]
       /\ loop' \in IF ~abort THEN {loop}
                    ELSE (IF loop[b].ev = e THEN {} ELSE {loop}) \cup {[loop EXCEPT ![b].ncalls = 0]}
       /\ UNCHANGED <<evsig_base, delivered, failed>>

\* A signal arrives while our handler is installed.
evsig_handler(s) ==
    /\ handler[s] = "evsig" /\ delivered < MaxSignals
    /\ delivered' = delivered + 1
    /\ base' = IF evsig_base = None THEN base ELSE [base EXCEPT ![evsig_base].pair = Append(@, s)]
    /\ UNCHANGED <<evsig_base, copy, handler, ev, loop, failed>>

\* Signals caught while the event waits for its call are merged into it.
event_active_nolock(v, ncalls) ==
    IF v.active \/ ncalls = 0 THEN v ELSE [v EXCEPT !.active = TRUE, !.ncalls = ncalls, !.pncalls = FALSE]

\* The loop empties the socket pair and activates the events of each signal.
evsig_cb(b) ==
    LET ncaught == [s \in Sig |-> Len(SelectSeq(base[b].pair, LAMBDA x : x = s))]
    IN /\ base[b].open /\ base[b].pair # <<>> /\ loop[b] = Idle
       /\ base' = [base EXCEPT ![b].pair = <<>>]
       /\ ev' = [e \in Event |-> IF ev_base[e] = b /\ ev[e].inserted
                                 THEN event_active_nolock(ev[e], ncaught[ev_signal[e]]) ELSE ev[e]]
       /\ failed' = (failed \/ \E s \in Sig : ncaught[s] # 0 /\ s \notin base[b].slots)
       /\ UNCHANGED <<evsig_base, copy, handler, loop, delivered>>

\* The loop takes the event off, for good unless it is persistent, and calls
\* event_signal_closure: the count is copied to the stack, and the event
\* points at the copy.
event_signal_closure(b, e) ==
    /\ ev_base[e] = b /\ loop[b] = Idle /\ ev[e].active
    /\ loop' = [loop EXCEPT ![b] = [ev |-> e, ncalls |-> ev[e].ncalls, calling |-> FALSE]]
    /\ ev' = [ev EXCEPT ![e].active = FALSE, ![e].pncalls = TRUE, ![e].inserted = @ /\ e \in Persist]
    /\ IF ev[e].inserted /\ e \notin Persist THEN evmap_signal_del(e) ELSE UNCHANGED <<copy, base, handler>>
    /\ UNCHANGED <<evsig_base, delivered, failed>>

\* One call: the callback runs after this step and before ClosureReturns.
ClosureCalls_NoStore(b) ==
    LET l == loop[b]
    IN /\ l.ev # None /\ ~l.calling /\ l.ncalls > 0
       /\ loop' = [loop EXCEPT ![b] = [l EXCEPT !.ncalls = @ - 1, !.calling = TRUE]]
       /\ UNCHANGED <<evsig_base, copy, base, handler, ev, delivered, failed>>

ClosureCalls(b) ==
    LET l == loop[b]
    IN /\ l.ev # None /\ ~l.calling /\ l.ncalls > 0
       /\ loop' = [loop EXCEPT ![b] = [l EXCEPT !.ncalls = @ - 1, !.calling = TRUE]]
       /\ ev' = [ev EXCEPT ![l.ev].ncalls = l.ncalls - 1, ![l.ev].pncalls = @ /\ l.ncalls # 1]
       /\ UNCHANGED <<evsig_base, copy, base, handler, delivered, failed>>

\* The callback returns; event_base_loopbreak (brk) drops the other calls.
ClosureReturns(b) ==
    LET l == loop[b]
    IN /\ l.calling
       /\ \E brk \in BOOLEAN :
            /\ loop' = [loop EXCEPT ![b] = IF brk \/ l.ncalls = 0 THEN Idle ELSE [l EXCEPT !.calling = FALSE]]
            /\ ev' = IF brk /\ l.ncalls # 0 THEN [ev EXCEPT ![l.ev].pncalls = FALSE] ELSE ev
       /\ UNCHANGED <<evsig_base, copy, base, handler, delivered, failed>>

\* event_base_free has deleted every event; handlers still saved come back.
evsig_dealloc(b) ==
    /\ base[b].open /\ loop[b] = Idle /\ \A e \in Event : ev_base[e] = b => ~ev[e].inserted
    /\ base' = [base EXCEPT ![b].open = FALSE, ![b].added = FALSE, ![b].pair = <<>>,
                            ![b].sh_old = [s \in Sig |-> None]]
    /\ handler' = [s \in Sig |-> IF base[b].sh_old[s] = None THEN handler[s] ELSE base[b].sh_old[s]]
    /\ evsig_base' = IF evsig_base = b THEN None ELSE evsig_base
    /\ copy' = IF evsig_base = b THEN 0 ELSE copy
    /\ UNCHANGED <<ev, loop, delivered, failed>>

LoopStep(b) == \/ evsig_cb(b) \/ \E e \in Event : event_signal_closure(b, e)
               \/ ClosureCalls(b) \/ ClosureReturns(b)

Next == \/ \E b \in Base : LoopStep(b) \/ evsig_set_base(b) \/ evsig_dealloc(b)
        \/ \E e \in Event : evmap_signal_add(e) \/ event_del(e) \/ evsig_add_err(e)
        \/ \E s \in Sig : evsig_handler(s)

\* The loops keep running while they have work.
Busy(b) == \/ loop[b] # Idle \/ (base[b].open /\ base[b].pair # <<>>)
           \/ \E e \in Event : ev_base[e] = b /\ ev[e].active

Spec == Init /\ [][Next]_vars

----------------------------------------------------------------------------
\* With one base, our handler is installed for exactly the signals that have
\* events, and the program's own is kept to be restored: evmap_signal_add and
\* evmap_signal_del balance, over failed adds and loops that take over.
HandlersBalance ==
    \A b \in Base, s \in Sig :
        /\ (handler[s] = "evsig") <=> (base[b].map[s] # <<>>)
        /\ base[b].map[s] # <<>> => base[b].sh_old[s] = "dfl"
        /\ base[b].map[s] = <<>> => base[b].sh_old[s] = None

\* A loop that calls an event believes the same count as the event: what
\* event_del zeroes is what the loop reads.
CountsAgree ==
    \A b \in Base : LET l == loop[b] IN
        l.calling /\ l.ncalls # 0 => ev[l.ev].ncalls = l.ncalls

\* A signal caught for an event that stays added is called.
Caught(e) == Contains(base[ev_base[e]].pair, ev_signal[e]) /\ ev[e].inserted
Called(e) == loop[ev_base[e]].ev = e \/ ~ev[e].inserted
=============================================================================
