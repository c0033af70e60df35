------------------------------ MODULE EvThread ------------------------------
(***************************************************************************)
(* Locks (evthread.c, evthread_pthread.c, evthread-internal.h): locking    *)
(* and lock debugging are switched on in either order, which gives the     *)
(* global locks their form; then threads take two locks at once, wait on   *)
(* conditions and release, under the checks of the debugging wrappers.     *)
(***************************************************************************)
EXTENDS Integers, Sequences, FiniteSets

CONSTANTS Thread, First, None,   \* First: the thread that runs before the others
          Recursive              \* the locks allocated as recursive

Lock == {1, 2}                   \* in the order of their addresses

VARIABLES fns, original,   \* which callbacks are installed: "none", "real" or "debug"
          kind,            \* what each lock pointer is: "none", "real" or "debug"
          inner,           \* a debug lock has a real lock inside
          count, held_by,  \* of a debug lock
          owner, depth,    \* of the real lock
          started,         \* threads use the locks
          todo, held,      \* what each thread goes on to lock, and has locked
          failed           \* an assertion of the wrappers failed

cvars == <<fns, original, kind, inner, started>>
lvars == <<count, held_by, owner, depth, todo, held, failed>>
vars == <<cvars, lvars>>

Init == /\ fns = "none" /\ original = "none" /\ started = FALSE /\ failed = FALSE
        /\ kind = [l \in Lock |-> "none"] /\ inner = [l \in Lock |-> FALSE]
        /\ count = [l \in Lock |-> 0] /\ held_by = [l \in Lock |-> None]
        /\ owner = [l \in Lock |-> None] /\ depth = [l \in Lock |-> 0]
        /\ todo = [t \in Thread |-> <<>>] /\ held = [t \in Thread |-> <<>>]

----------------------------------------------------------------------------
(* Setting up *)

debug_lock_alloc(l) == [kind |-> "debug", inner |-> original' = "real"]

\* The four cases; debugging on top of locks wraps a recursive lock and
\* replaces another one.
evthread_setup_global_lock_(l, enable_locks) ==
    CASE ~enable_locks /\ original' = "none" -> debug_lock_alloc(l)
      [] ~enable_locks /\ original' = "real" ->
            IF l \notin Recursive THEN debug_lock_alloc(l) ELSE [kind |-> "debug", inner |-> TRUE]
      [] enable_locks /\ fns' # "debug" -> [kind |-> "real", inner |-> FALSE]
      [] OTHER -> [kind |-> kind[l], inner |-> TRUE]

event_global_setup_locks_(enable_locks) ==
    LET g == [l \in Lock |-> evthread_setup_global_lock_(l, enable_locks)]
    IN kind' = [l \in Lock |-> g[l].kind] /\ inner' = [l \in Lock |-> g[l].inner]

\* The callbacks go behind the wrappers when debugging is on.  Setting the
\* same ones twice changes nothing; other ones are refused.
evthread_set_lock_callbacks ==
    /\ ~started
    /\ IF fns = "debug" THEN original = "none" /\ original' = "real" /\ UNCHANGED fns
       ELSE fns = "none" /\ fns' = "real" /\ UNCHANGED original
    /\ event_global_setup_locks_(TRUE)
    /\ UNCHANGED <<started, lvars>>

\* A second call returns at once.
evthread_enable_lock_debuging ==
    /\ ~started /\ fns # "debug"
    /\ fns' = "debug" /\ original' = fns
    /\ event_global_setup_locks_(FALSE)
    /\ UNCHANGED <<started, lvars>>

Start == ~started /\ started' = TRUE /\ UNCHANGED <<fns, original, kind, inner, lvars>>

----------------------------------------------------------------------------
(* Using the locks *)

\* Two locks in the order of their addresses, the same one once.
_EVLOCK_SORTLOCKS_AsGiven(a, b) == IF a = b THEN <<a>> ELSE <<a, b>>

_EVLOCK_SORTLOCKS(a, b) == IF a = b THEN <<a>> ELSE IF a < b THEN <<a, b>> ELSE <<b, a>>

Threaded == fns = "real" \/ original = "real"

EVLOCK_LOCK2(t, a, b) ==
    /\ started /\ (Threaded \/ t = First)
    /\ todo[t] = <<>> /\ held[t] = <<>>
    /\ todo' = [todo EXCEPT ![t] = _EVLOCK_SORTLOCKS(a, b)]
    /\ UNCHANGED <<cvars, count, held_by, owner, depth, held, failed>>

\* The real lock, when there is one, is free or ours; always recursive
\* behind a wrapper.
HasReal(l) == kind[l] = "real" \/ inner[l]
Free(t, l) == HasReal(l) => owner[l] \in {None, t}

evthread_debug_lock_mark_locked(t, l) ==
    /\ count' = [count EXCEPT ![l] = @ + 1]
    /\ held_by' = [held_by EXCEPT ![l] = t]
    /\ failed' = (failed \/ (l \notin Recursive /\ count[l] # 0) \/ (count[l] > 0 /\ held_by[l] # t))

\* debug_lock_lock, or the real lock alone: first lock, then mark.
debug_lock_lock(t) ==
    LET l == Head(todo[t])
    IN /\ todo[t] # <<>> /\ Free(t, l)
       /\ owner' = IF HasReal(l) THEN [owner EXCEPT ![l] = t] ELSE owner
       /\ depth' = IF HasReal(l) THEN [depth EXCEPT ![l] = @ + 1] ELSE depth
       /\ IF kind[l] = "debug" THEN evthread_debug_lock_mark_locked(t, l)
          ELSE UNCHANGED <<count, held_by, failed>>
       /\ todo' = [todo EXCEPT ![t] = Tail(@)]
       /\ held' = [held EXCEPT ![t] = Append(@, l)]
       /\ UNCHANGED cvars

evthread_debug_lock_mark_unlocked(t, l) ==
    /\ failed' = (failed \/ held_by[l] # t \/ count[l] = 0)
    /\ held_by' = IF count[l] = 1 THEN [held_by EXCEPT ![l] = None] ELSE held_by
    /\ count' = [count EXCEPT ![l] = @ - 1]

Release(l) == /\ depth' = IF HasReal(l) THEN [depth EXCEPT ![l] = @ - 1] ELSE depth
              /\ owner' = IF HasReal(l) /\ depth[l] = 1 THEN [owner EXCEPT ![l] = None] ELSE owner

\* debug_lock_unlock: first mark, then unlock; the last one locked first.
debug_lock_unlock(t) ==
    LET l == held[t][Len(held[t])]
    IN /\ todo[t] = <<>> /\ held[t] # <<>>
       /\ IF kind[l] = "debug" THEN evthread_debug_lock_mark_unlocked(t, l)
          ELSE UNCHANGED <<count, held_by, failed>>
       /\ Release(l)
       /\ held' = [held EXCEPT ![t] = SubSeq(@, 1, Len(@) - 1)]
       /\ UNCHANGED <<cvars, todo>>

\* A recursive lock is taken once more by the thread that has it.
Again(t, l) ==
    /\ todo[t] = <<>> /\ Len(held[t]) = 1 /\ held[t][1] = l /\ l \in Recursive
    /\ todo' = [todo EXCEPT ![t] = <<l>>]
    /\ UNCHANGED <<cvars, count, held_by, owner, depth, held, failed>>

\* debug_cond_wait on a lock held once: marked unlocked, released for the
\* wait, taken back and marked locked when the wait is over.
debug_cond_wait(t) ==
    /\ Threaded /\ todo[t] = <<>> /\ Len(held[t]) = 1
    /\ LET l == held[t][1]
       IN /\ IF kind[l] = "debug" THEN evthread_debug_lock_mark_unlocked(t, l)
             ELSE UNCHANGED <<count, held_by, failed>>
          /\ Release(l)
          /\ todo' = [todo EXCEPT ![t] = <<l>>] /\ held' = [held EXCEPT ![t] = <<>>]
    /\ UNCHANGED cvars

Next == \/ evthread_set_lock_callbacks \/ evthread_enable_lock_debuging \/ Start
        \/ \E t \in Thread : \/ \E a, b \in Lock : EVLOCK_LOCK2(t, a, b)
                             \/ debug_lock_lock(t) \/ debug_lock_unlock(t) \/ debug_cond_wait(t)
                             \/ \E l \in Lock : Again(t, l)

Spec == Init /\ [][Next]_vars

----------------------------------------------------------------------------
\* Whatever was switched on first, a lock is what the installed callbacks
\* expect, with a real lock inside when there are real callbacks.
LocksFitCallbacks ==
    \A l \in Lock : /\ kind[l] = fns
                    /\ fns = "debug" => (inner[l] <=> original = "real")

\* The assertions of the wrappers never fail in threads that lock and unlock
\* in balance.
NoAssertionFails == ~failed

\* _evthread_is_debug_lock_held answers a thread that asks for itself
\* truthfully: EVLOCK_ASSERT_LOCKED can be relied on in the other modules.
_evthread_is_debug_lock_held(t, l) == count[l] # 0 /\ held_by[l] = t
HeldIsTrue ==
    \A t \in Thread, l \in Lock :
        kind[l] = "debug" => ((\E i \in 1 .. Len(held[t]) : held[t][i] = l) <=> _evthread_is_debug_lock_held(t, l))

\* "Always allocates locks in the same order, so that two threads locking
\* two locks with LOCK2 will not deadlock."
NotAllBlocked ==
    ~ \A t \in Thread : todo[t] # <<>> /\ ~Free(t, Head(todo[t]))
=============================================================================
