----------------------------- MODULE Win32Cond -----------------------------
(***************************************************************************)
(* The condition variable built from a manual-reset event                  *)
(* (evthread_win32.c), used as event.c uses it: waits and broadcasts are   *)
(* made with the lock held, and a wait may time out.                       *)
(***************************************************************************)
EXTENDS Integers, FiniteSets, FiniteSetTheorems, TLAPS

CONSTANTS Waiter, None, MaxBroadcasts   \* bound: broadcasts made

VARIABLES lock,        \* the owner of the program's lock
          event,       \* the event object is set
          n_waiting, n_to_wake, generation,
          pc,          \* of each waiter: "out", "locked", "waiting", "woken", "back"
          start        \* generation_at_start of each waiter

vars == <<lock, event, n_waiting, n_to_wake, generation, pc, start>>

\* evthread_win32_cond_alloc
Init == /\ lock = None /\ event = FALSE /\ n_waiting = 0 /\ n_to_wake = 0 /\ generation = 0
        /\ pc = [t \in Waiter |-> "out"] /\ start = [t \in Waiter |-> 0]

Enter(t) == /\ pc[t] \in {"out", "woken"} /\ lock = None /\ lock' = t
            /\ pc' = [pc EXCEPT ![t] = IF @ = "out" THEN "locked" ELSE "back"]
            /\ UNCHANGED <<event, n_waiting, n_to_wake, generation, start>>

\* evthread_win32_cond_wait up to its loop: counted before the lock is left.
evthread_win32_cond_wait(t) ==
    /\ pc[t] = "locked" /\ lock' = None
    /\ n_waiting' = n_waiting + 1
    /\ start' = [start EXCEPT ![t] = generation]
    /\ pc' = [pc EXCEPT ![t] = "waiting"]
    /\ UNCHANGED <<event, n_to_wake, generation>>

\* One round of the loop: WaitForSingleObject returned because the event is
\* set, or because the time is over.
Round(t, timedout) ==
    LET wake == n_to_wake > 0 /\ generation # start[t]
    IN /\ pc[t] = "waiting" /\ (timedout \/ event)
       /\ IF wake \/ timedout
          THEN /\ n_to_wake' = IF wake THEN n_to_wake - 1 ELSE n_to_wake
               /\ n_waiting' = n_waiting - 1
               /\ pc' = [pc EXCEPT ![t] = "woken"]
               /\ UNCHANGED event
          ELSE /\ event' = (event /\ n_to_wake # 0)
               /\ UNCHANGED <<n_waiting, n_to_wake, pc>>
       /\ UNCHANGED <<lock, generation, start>>

\* With the lock back: the last waiter resets the event.
Back(t) == /\ pc[t] = "back" /\ lock' = None
           /\ event' = (event /\ n_waiting # 0)
           /\ pc' = [pc EXCEPT ![t] = "out"]
           /\ UNCHANGED <<n_waiting, n_to_wake, generation, start>>

\* A broadcast, made with the lock held; event.c makes one only when there
\* are waiters.
evthread_win32_cond_signal ==
    /\ lock = None /\ generation < MaxBroadcasts
    /\ n_waiting # 0
    /\ n_to_wake' = n_waiting
    /\ generation' = generation + 1 /\ event' = TRUE
    /\ UNCHANGED <<lock, n_waiting, pc, start>>

Step(t) == Enter(t) \/ evthread_win32_cond_wait(t) \/ Back(t) \/ Round(t, FALSE)

Next == evthread_win32_cond_signal \/ \E t \in Waiter : Step(t) \/ Round(t, TRUE)

Spec == Init /\ [][Next]_vars

\* The wakeups that are left are one for every waiter of an earlier
\* generation, and the event they are seen by is set: none is stolen by a
\* waiter that came later, none stays over to wake a wait that nobody
\* signalled, and no waiter that was signalled sleeps on.
WakesAreForWaiters ==
    /\ n_to_wake = Cardinality({t \in Waiter : pc[t] = "waiting" /\ start[t] # generation})
    /\ n_to_wake > 0 => event

-----------------------------------------------------------------------------
(* Proofs, for every finite set of waiting threads and any number of         *)
(* broadcasts.                                                               *)

Waiting == {t \in Waiter : pc[t] = "waiting"}
Older == {t \in Waiter : pc[t] = "waiting" /\ start[t] # generation}

\* WakesAreForWaiters alone does not carry over a broadcast, which hands out
\* n_waiting wakeups: n_waiting must be the number of threads that wait, and
\* none of them may have started in a generation that is still to come.  The
\* last waiter that goes back resets the event, so wakeups must imply waiters.
IInv ==
    /\ pc \in [Waiter -> {"out", "locked", "waiting", "woken", "back"}]
    /\ start \in [Waiter -> Nat] /\ generation \in Nat
    /\ \A t \in Waiter : start[t] <= generation
    /\ n_waiting = Cardinality(Waiting)
    /\ n_to_wake \in Nat /\ n_to_wake = Cardinality(Older)
    /\ event \in BOOLEAN /\ (n_to_wake > 0 => event)

\* Zenon is the default prover; steps with arithmetic name the SMT solver.
USE ZenonT(60)

LEMMA SetsFinite ==
    ASSUME IsFiniteSet(Waiter), NEW S \in SUBSET Waiter
    PROVE  IsFiniteSet(S) /\ Cardinality(S) \in Nat
BY FS_Subset, FS_CardinalityType

LEMMA InitHolds == Init => IInv
<1> SUFFICES ASSUME Init PROVE IInv
  OBVIOUS
<1>1. Waiting = {} /\ Older = {}
  BY DEF Init, Waiting, Older
<1>2. event \in BOOLEAN /\ (n_to_wake > 0 => event)
  <2>1. event \in BOOLEAN
    BY DEF Init
  <2>2. n_to_wake = 0 /\ ~(0 > 0)
    BY SMTT(60) DEF Init
  <2> QED BY <2>1, <2>2
<1>3. Cardinality({}) = 0
  BY FS_EmptySet
<1> QED BY <1>1, <1>2, <1>3, SMTT(60) DEF Init, IInv

LEMMA EnterStep ==
    ASSUME IsFiniteSet(Waiter), IInv, (\E t \in Waiter : Enter(t) \/ Back(t)) \/ UNCHANGED vars
    PROVE  IInv'
<1>1. UNCHANGED <<n_waiting, n_to_wake, generation, start>>
  BY DEF Enter, Back, vars
<1>2. pc' \in [Waiter -> {"out", "locked", "waiting", "woken", "back"}]
  BY DEF IInv, Enter, Back, vars
<1>3. \A u \in Waiter : pc'[u] = "waiting" <=> pc[u] = "waiting"
  BY DEF IInv, Enter, Back, vars
<1>4. Waiting' = Waiting /\ Older' = Older
  BY <1>1, <1>3 DEF Waiting, Older
<1>5. event' \in BOOLEAN /\ (n_to_wake > 0 => event')
  <2>1. CASE UNCHANGED event
    BY <2>1 DEF IInv
  <2>2. CASE event' = (event /\ n_waiting # 0)
    <3>1. Older \subseteq Waiting
      BY DEF Older, Waiting
    <3>2. Cardinality(Older) <= Cardinality(Waiting)
      BY <3>1, SetsFinite, FS_Subset DEF Waiting
    <3>3. Cardinality(Older) \in Nat /\ Cardinality(Waiting) \in Nat
      BY SetsFinite DEF Older, Waiting
    <3>4. n_to_wake > 0 => n_waiting # 0
      BY <3>2, <3>3, SMTT(60) DEF IInv
    <3> QED BY <2>2, <3>4 DEF IInv
  <2> QED BY <2>1, <2>2 DEF Enter, Back, vars
<1> QED BY <1>1, <1>2, <1>4, <1>5 DEF IInv

\* A thread that starts to wait is counted, and is not among those a wakeup
\* of this generation is for.
LEMMA WaitStep ==
    ASSUME IsFiniteSet(Waiter), IInv, NEW t \in Waiter, evthread_win32_cond_wait(t)
    PROVE  IInv'
<1>1. /\ pc' = [pc EXCEPT ![t] = "waiting"] /\ start' = [start EXCEPT ![t] = generation]
      /\ pc[t] = "locked" /\ n_waiting' = n_waiting + 1
      /\ n_to_wake' = n_to_wake /\ generation' = generation /\ event' = event
  BY DEF evthread_win32_cond_wait
<1>2. Waiting' = Waiting \cup {t} /\ t \notin Waiting
  BY <1>1 DEF Waiting, IInv
<1>3. Older' = Older
  BY <1>1 DEF Older, IInv
<1>4. Cardinality(Waiting') = Cardinality(Waiting) + 1
  BY <1>2, SetsFinite, FS_AddElement DEF Waiting
<1>5. pc' \in [Waiter -> {"out", "locked", "waiting", "woken", "back"}]
      /\ start' \in [Waiter -> Nat] /\ \A u \in Waiter : start'[u] <= generation'
  BY <1>1, SMTT(60) DEF IInv
<1> QED BY <1>1, <1>3, <1>4, <1>5 DEF IInv

\* A round that ends the wait takes one of the wakeups only if the thread is
\* one of those they are for.
LEMMA RoundStep ==
    ASSUME IsFiniteSet(Waiter), IInv, NEW t \in Waiter, NEW timedout \in BOOLEAN, Round(t, timedout)
    PROVE  IInv'
<1> DEFINE wake == n_to_wake > 0 /\ generation # start[t]
<1>1. pc[t] = "waiting" /\ generation' = generation /\ start' = start
  BY DEF Round
<1>2. CASE wake \/ timedout
  <2>1. /\ n_to_wake' = (IF wake THEN n_to_wake - 1 ELSE n_to_wake)
        /\ n_waiting' = n_waiting - 1 /\ pc' = [pc EXCEPT ![t] = "woken"] /\ event' = event
    BY <1>2 DEF Round
  <2>2. Waiting' = Waiting \ {t} /\ t \in Waiting /\ Older' = Older \ {t}
    BY <1>1, <2>1 DEF Waiting, Older, IInv
  <2>3. Cardinality(Waiting') = Cardinality(Waiting) - 1
    BY <2>2, SetsFinite, FS_RemoveElement DEF Waiting
  <2>4. pc' \in [Waiter -> {"out", "locked", "waiting", "woken", "back"}]
    BY <2>1 DEF IInv
  <2>5. n_to_wake' \in Nat /\ n_to_wake' = Cardinality(Older')
    <3>1. CASE t \in Older
      <4>1. Cardinality(Older') = Cardinality(Older) - 1
        BY <2>2, <3>1, SetsFinite, FS_RemoveElement DEF Older
      <4>2. Cardinality(Older) \in Nat /\ Cardinality(Older') \in Nat
        BY <2>2, SetsFinite DEF Older
      <4>3. generation # start[t]
        BY <3>1 DEF Older
      <4> QED BY <2>1, <4>1, <4>2, <4>3, SMTT(60) DEF IInv
    <3>2. CASE t \notin Older
      <4>1. Older' = Older /\ generation = start[t]
        BY <1>1, <2>2, <3>2 DEF Older
      <4> QED BY <2>1, <4>1 DEF IInv
    <3> QED BY <3>1, <3>2
  <2> QED BY <1>1, <2>1, <2>3, <2>4, <2>5 DEF IInv
<1>3. CASE ~(wake \/ timedout)
  <2>1. UNCHANGED <<n_waiting, n_to_wake, pc>> /\ event' = (event /\ n_to_wake # 0)
    BY <1>3 DEF Round
  <2> QED BY <1>1, <2>1, SMTT(60) DEF IInv, Waiting, Older
<1> QED BY <1>2, <1>3

\* A broadcast moves the generation past every waiter's, so the wakeups it
\* hands out are for exactly the threads that wait.
LEMMA SignalStep ==
    ASSUME IsFiniteSet(Waiter), IInv, evthread_win32_cond_signal
    PROVE  IInv'
<1>1. /\ n_to_wake' = n_waiting /\ generation' = generation + 1
      /\ UNCHANGED <<n_waiting, pc, start>> /\ event' = TRUE
  BY DEF evthread_win32_cond_signal
<1>2. \A t \in Waiter : start[t] # generation + 1 /\ start[t] <= generation + 1
  BY SMTT(60) DEF IInv
<1>3. Waiting' = Waiting /\ Older' = Waiting
  BY <1>1, <1>2 DEF Waiting, Older
<1>4. Cardinality(Waiting) \in Nat
  BY SetsFinite DEF Waiting
<1> QED BY <1>1, <1>2, <1>3, <1>4, SMTT(60) DEF IInv

\* For any finite set of threads: no wakeup is stolen by a thread that began
\* to wait after the broadcast, none is left over for a wait that nobody
\* signalled, and while one is left the event is set, so that the round of the
\* thread it is for can end.
THEOREM WakesHold ==
    ASSUME IsFiniteSet(Waiter)
    PROVE  Spec => []WakesAreForWaiters
<1>1. IInv /\ [Next]_vars => IInv'
  <2> SUFFICES ASSUME IInv, [Next]_vars PROVE IInv'
    OBVIOUS
  <2>1. ASSUME NEW t \in Waiter, Step(t) \/ Round(t, TRUE) PROVE IInv'
    BY <2>1, EnterStep, WaitStep, RoundStep DEF Step
  <2> QED BY <2>1, EnterStep, SignalStep DEF Next
<1>2. IInv => WakesAreForWaiters
  BY DEF IInv, WakesAreForWaiters, Older
<1> QED BY InitHolds, <1>1, <1>2, PTL DEF Spec
=============================================================================
