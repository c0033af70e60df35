------------------------------- MODULE EvMap -------------------------------
(***************************************************************************)
(* The map from descriptors to events (evmap.c), its list of changes for   *)
(* the kernel, and the epoll back end (epoll.c), with and without the      *)
(* changelist.  Descriptors are closed and reopened between uses, and      *)
(* epoll_ctl may fail.  It implements IoInterest.                          *)
(***************************************************************************)
EXTENDS Integers, Sequences, FiniteSets, Functions

CONSTANTS Fd, Event,
          ev_fd, ev_events,  \* the descriptor and the interest of each event
          UseChangelist,     \* EVENT_BASE_FLAG_EPOLL_USE_CHANGELIST
          Fails              \* the descriptors on which epoll_ctl may fail for good

VARIABLES ctx,       \* evmap_io of each descriptor: [nread, nwrite, events]
          eventqueue,\* the events with EVLIST_INSERTED
          changes,   \* the changelist: [fd, old, read, write]
          idxplus1,  \* where the change of each descriptor is, or 0
          kernel,    \* what epoll watches on each descriptor
          waiting,   \* epoll_wait is running
          asked,     \* history: what epoll watched when it began
          active     \* the events activated by the last dispatch

vars == <<ctx, eventqueue, changes, idxplus1, kernel, waiting, asked, active>>

Rw == {"read", "write"}

Init == /\ ctx = [f \in Fd |-> [nread |-> 0, nwrite |-> 0, events |-> <<>>]]
        /\ eventqueue = {} /\ changes = <<>> /\ idxplus1 = [f \in Fd |-> 0]
        /\ kernel = [f \in Fd |-> {}] /\ waiting = FALSE
        /\ asked = [f \in Fd |-> {}] /\ active = {}

----------------------------------------------------------------------------
(* epoll: a change of one descriptor. *)

\* The interest left on the descriptor, and the epoll_ctl call that asks for
\* it: DEL carries the events it removes.
New(old, change, what) ==
    IF change = "add" THEN {what} ELSE IF change = "del" THEN {} ELSE old \cap {what}

Op(ch) ==
    LET after == New(ch.old, ch.read, "read") \cup New(ch.old, ch.write, "write")
    IN IF ch.read = "add" \/ ch.write = "add"
       THEN <<IF ch.old = {} THEN "ADD" ELSE "MOD", after>>
       ELSE IF ch.read = "none" /\ ch.write = "none" THEN <<"none", {}>>
       ELSE IF ch.read = "del" /\ ch.write = "del" THEN <<"DEL", {}>>
       ELSE IF after = {} THEN <<"DEL", {}>> ELSE <<"MOD", after>>

\* What epoll watches after the change: ADD of a watched descriptor is
\* retried as MOD, MOD of one that is not as ADD, and DEL of one that is not
\* is fine.  A call that fails, and whose retry fails, leaves it as it was.
epoll_apply_one_change(k, ch) ==
    IF Op(ch)[1] = "none" THEN k ELSE [k EXCEPT ![ch.fd] = Op(ch)[2]]

\* epoll after the first i changes of the list.
Applied[i \in 0 .. Len(changes)] ==
    IF i = 0 THEN kernel ELSE epoll_apply_one_change(Applied[i - 1], changes[i])

epoll_apply_changes == Applied[Len(changes)]

\* The back end's add and del without the changelist: one change at once.
epoll_nochangelist_add(f, old, res) ==
    epoll_apply_one_change(kernel, [fd |-> f, old |-> old,
        read |-> IF "read" \in res THEN "add" ELSE "none",
        write |-> IF "write" \in res THEN "add" ELSE "none"])

epoll_nochangelist_del(f, old, res) ==
    epoll_apply_one_change(kernel, [fd |-> f, old |-> old,
        read |-> IF "read" \in res THEN "del" ELSE "none",
        write |-> IF "write" \in res THEN "del" ELSE "none"])

----------------------------------------------------------------------------
(* The changelist. *)

event_changelist_get_or_construct(f, old) ==
    IF idxplus1[f] = 0
    THEN Append(changes, [fd |-> f, old |-> old, read |-> "none", write |-> "none"])
    ELSE changes

IndexOf(f) == IF idxplus1[f] = 0 THEN Len(changes) + 1 ELSE idxplus1[f]

\* An add replaces a delete.
event_changelist_add(f, old, res) ==
    [event_changelist_get_or_construct(f, old) EXCEPT
        ![IndexOf(f)].read = IF "read" \in res THEN "add" ELSE @,
        ![IndexOf(f)].write = IF "write" \in res THEN "add" ELSE @]

\* A delete takes back an add, unless the kernel had the event before.
event_changelist_del_TakesBack(f, old, res) ==
    LET list == event_changelist_get_or_construct(f, old)
        Del(was, what) == IF was = "add" THEN "none" ELSE "del"
    IN [list EXCEPT ![IndexOf(f)].read = IF "read" \in res THEN Del(@, "read") ELSE @,
                    ![IndexOf(f)].write = IF "write" \in res THEN Del(@, "write") ELSE @]

event_changelist_del(f, old, res) ==
    LET list == event_changelist_get_or_construct(f, old)
        Del(was, what) == IF what \notin list[IndexOf(f)].old /\ was = "add" THEN "none" ELSE "del"
    IN [list EXCEPT ![IndexOf(f)].read = IF "read" \in res THEN Del(@, "read") ELSE @,
                    ![IndexOf(f)].write = IF "write" \in res THEN Del(@, "write") ELSE @]

event_changelist_remove_all_KeepsIdx == changes' = <<>> /\ UNCHANGED idxplus1

event_changelist_remove_all == changes' = <<>> /\ idxplus1' = [f \in Fd |-> 0]

----------------------------------------------------------------------------
(* evmap *)

Old(c) == (IF c.nread > 0 THEN {"read"} ELSE {}) \cup (IF c.nwrite > 0 THEN {"write"} ELSE {})
N(ev, what) == IF what \in ev_events[ev] THEN 1 ELSE 0

\* TAILQ_REMOVE: the list without the event.
Unlinked(l, ev) ==
    LET i == CHOOSE j \in DOMAIN l : l[j] = ev
    IN [j \in 1 .. Len(l) - 1 |-> IF j < i THEN l[j] ELSE l[j + 1]]

\* The call of the back end when the interest of the descriptor changes.
Backend(f, old, res, list, direct) ==
    IF res = {} THEN UNCHANGED <<changes, idxplus1, kernel>>
    ELSE IF UseChangelist
    THEN /\ changes' = list /\ idxplus1' = [idxplus1 EXCEPT ![f] = IndexOf(f)]
         /\ UNCHANGED kernel
    ELSE kernel' = direct /\ UNCHANGED <<changes, idxplus1>>

evmap_io_add(ev) ==
    LET f == ev_fd[ev]
        c == ctx[f]
        nread == c.nread + N(ev, "read")
        nwrite == c.nwrite + N(ev, "write")
        res == {w \in ev_events[ev] : (w = "read" /\ nread = 1) \/ (w = "write" /\ nwrite = 1)}
    IN /\ ctx' = [ctx EXCEPT ![f] = [nread |-> nread, nwrite |-> nwrite, events |-> Append(c.events, ev)]]
       /\ Backend(f, Old(c), res, event_changelist_add(f, Old(c), res),
                  epoll_nochangelist_add(f, Old(c), res))

\* A back end that fails leaves the event in the map.
evmap_io_del(ev) ==
    LET f == ev_fd[ev]
        c == ctx[f]
        nread == c.nread - N(ev, "read")
        nwrite == c.nwrite - N(ev, "write")
        res == {w \in ev_events[ev] : (w = "read" /\ nread = 0) \/ (w = "write" /\ nwrite = 0)}
    IN \/ /\ ctx' = [ctx EXCEPT ![f] = [nread |-> nread, nwrite |-> nwrite, events |-> Unlinked(c.events, ev)]]
          /\ Backend(f, Old(c), res, event_changelist_del(f, Old(c), res),
                     epoll_nochangelist_del(f, Old(c), res))
       \/ /\ f \in Fails /\ res # {} /\ ~UseChangelist
          /\ UNCHANGED <<ctx, changes, idxplus1, kernel>>

\* event_add: inserted only when the back end took it.  When it fails nothing
\* has changed, so that is no step of its own.  The program does not add an
\* event whose deletion failed, which would link it twice.
Add(ev) ==
    /\ ev \notin eventqueue /\ ev \notin Range(ctx[ev_fd[ev]].events)
    /\ evmap_io_add(ev)
    /\ eventqueue' = eventqueue \cup {ev}
    /\ UNCHANGED <<waiting, asked, active>>

\* event_del: off the queue first, then off the map, which may fail.
Del(ev) ==
    /\ ev \in eventqueue
    /\ evmap_io_del(ev)
    /\ eventqueue' = eventqueue \ {ev}
    /\ UNCHANGED <<waiting, asked, active>>

\* epoll_dispatch: the changes are applied, those of the descriptors in bad
\* without success, the list is emptied, and the kernel waits without the
\* lock.
epoll_dispatch ==
    /\ ~waiting /\ waiting' = TRUE
    /\ \E bad \in SUBSET Fails :
          kernel' = [f \in Fd |-> IF f \in bad THEN kernel[f] ELSE epoll_apply_changes[f]]
    /\ asked' = kernel'
    /\ event_changelist_remove_all
    /\ active' = {}
    /\ UNCHANGED <<ctx, eventqueue>>

\* Error and hangup are reported as both; a descriptor whose events have all
\* gone meanwhile still has its evmap_io.
evmap_io_active(f, what) == {ev \in Range(ctx[f].events) : ev_events[ev] \cap what # {}}

epoll_return ==
    /\ waiting /\ waiting' = FALSE
    /\ \/ active' = {}
       \/ \E f \in Fd : /\ kernel[f] # {}
                        /\ \E what \in {kernel[f], Rw} \cup {{w} : w \in kernel[f]} :
                              active' = evmap_io_active(f, what)
    /\ UNCHANGED <<ctx, eventqueue, changes, idxplus1, kernel, asked>>

\* The program closes a descriptor that has no events and opens another file
\* under its number: the kernel forgets what it watched.
Reopen(f) ==
    /\ \A ev \in eventqueue : ev_fd[ev] # f
    /\ kernel[f] # {}
    /\ kernel' = [kernel EXCEPT ![f] = {}]
    /\ UNCHANGED <<ctx, eventqueue, changes, idxplus1, waiting, asked, active>>

Next == \/ \E ev \in Event : Add(ev) \/ Del(ev)
        \/ epoll_dispatch \/ epoll_return
        \/ \E f \in Fd : Reopen(f)

Spec == Init /\ [][Next]_vars

----------------------------------------------------------------------------
Want == [f \in Fd |-> UNION {ev_events[ev] : ev \in {e \in eventqueue : ev_fd[e] = f}}]

\* The descriptors on which epoll_ctl does not fail.
Sure(of) == [f \in Fd \ Fails |-> of[f]]

\* At each wait the kernel is asked for exactly what the inserted events
\* want: no event is forgotten by an add or a delete taken back, by a MOD that
\* should have been an ADD, by a file reopened under the same number, or
\* because epoll_ctl failed on another descriptor.  For the descriptor on
\* which it fails nothing is promised: with the changelist no caller hears
\* of it and nothing asks again.
Abstract == INSTANCE IoInterest WITH Fd <- Fd \ Fails, want <- Sure(Want), asked <- Sure(asked)
AsksWhatIsWanted == Abstract!Next \/ UNCHANGED <<Sure(Want), Sure(asked)>>

\* The assertions of evmap_check_integrity: an event is in the map of its own
\* descriptor, once, exactly when it is in the queue.  A deletion that failed
\* leaves its event in the map, against these assertions.
MapMatchesQueue ==
    \A f \in Fd : LET l == ctx[f].events
                      queued == {ev \in eventqueue : ev_fd[ev] = f} IN
        /\ queued \subseteq Range(l)
        /\ f \notin Fails \/ UseChangelist => queued = Range(l)
        /\ Cardinality(Range(l)) = Len(l)

\* nread and nwrite count the events of the descriptor that want each.
CountsMatch ==
    \A f \in Fd :
        /\ ctx[f].nread = Cardinality({e \in Range(ctx[f].events) : "read" \in ev_events[e]})
        /\ ctx[f].nwrite = Cardinality({e \in Range(ctx[f].events) : "write" \in ev_events[e]})

\* The assertions of event_changelist_check: the change of a descriptor is
\* where its fdinfo says, and there is at most one.
ChangelistConsistent ==
    /\ \A i \in 1 .. Len(changes) : idxplus1[changes[i].fd] = i
    /\ \A f \in Fd : idxplus1[f] # 0 => idxplus1[f] <= Len(changes) /\ changes[idxplus1[f]].fd = f
=============================================================================
