--------------------------- MODULE SelectBackend ---------------------------
(***************************************************************************)
(* The select back end (select.c): the sets the events want and the sets   *)
(* select fills, grown by doubling when a higher descriptor comes, any of  *)
(* the allocations failing.  Sizes are counted in descriptors.             *)
(***************************************************************************)
EXTENDS Integers, FiniteSets, TLAPS

CONSTANTS MaxFd,   \* the highest descriptor
          Word     \* descriptors per word of a set (NFDBITS)

ASSUME SelectAssumption == MaxFd \in Nat /\ Word \in Nat \ {0}

Fd == 0 .. MaxFd
Rw == {"read", "write"}

VARIABLES want, event_fds, event_fdsz, resize_out_sets,
          in_set,   \* descriptor -> what is set in event_readset_in, event_writeset_in
          rsz, wsz, \* what is allocated for the two in sets
          rout, wout, \* and for the two out sets
          nfds,     \* the wait's own bound, 0 when not waiting
          asked

vars == <<want, event_fds, event_fdsz, resize_out_sets, in_set, rsz, wsz, rout, wout, nfds, asked>>

\* Whole words for n descriptors.
SELECT_ALLOC_SIZE(n) == ((n + Word - 1) \div Word) * Word

Init == /\ want = [f \in Fd |-> {}] /\ in_set = want /\ asked = want
        /\ event_fds = 0 /\ event_fdsz = Word /\ rsz = Word /\ wsz = Word
        /\ rout = 0 /\ wout = 0 /\ resize_out_sets = TRUE /\ nfds = 0

\* Doubled until the descriptor fits.
Doubled(sz, f) ==
    LET D[n \in Nat] == IF n >= SELECT_ALLOC_SIZE(f + 1) THEN n ELSE D[n * 2] IN D[sz]

\* Either allocation may fail; the first is kept when the second does.
select_resize(sz, ok1, ok2) ==
    /\ rsz' = IF ok1 THEN sz ELSE rsz
    /\ wsz' = IF ok1 /\ ok2 THEN sz ELSE wsz
    /\ resize_out_sets' = (resize_out_sets \/ (ok1 /\ ok2))
    /\ event_fdsz' = IF ok1 /\ ok2 THEN sz ELSE event_fdsz

select_add(f, s) ==
    LET sz == IF event_fds < f THEN Doubled(event_fdsz, f) ELSE event_fdsz
    IN \E ok1, ok2 \in BOOLEAN :
        /\ sz = event_fdsz => ok1 /\ ok2
        /\ IF sz = event_fdsz THEN UNCHANGED <<rsz, wsz, resize_out_sets, event_fdsz>>
           ELSE select_resize(sz, ok1, ok2)
        /\ IF ok1 /\ ok2
           THEN /\ event_fds' = IF event_fds < f THEN f ELSE event_fds
                /\ in_set' = [in_set EXCEPT ![f] = @ \cup s]
                /\ want' = [want EXCEPT ![f] = @ \cup s]
           ELSE UNCHANGED <<event_fds, in_set, want>>
        /\ UNCHANGED <<rout, wout, nfds, asked>>

select_del_ReadOnly(f, s) ==
    /\ in_set' = IF event_fds < f THEN in_set ELSE [in_set EXCEPT ![f] = @ \ (s \cap {"read"})]
    /\ want' = [want EXCEPT ![f] = @ \ s]
    /\ UNCHANGED <<event_fds, event_fdsz, resize_out_sets, rsz, wsz, rout, wout, nfds, asked>>

select_del(f, s) ==
    /\ in_set' = IF event_fds < f THEN in_set ELSE [in_set EXCEPT ![f] = @ \ s]
    /\ want' = [want EXCEPT ![f] = @ \ s]
    /\ UNCHANGED <<event_fds, event_fdsz, resize_out_sets, rsz, wsz, rout, wout, nfds, asked>>

\* The out sets are brought to size first; when that fails there is no wait
\* and the next call tries again.
select_dispatch ==
    /\ nfds = 0
    /\ \E ok1, ok2 \in BOOLEAN :
        /\ ~resize_out_sets => ok1 /\ ok2
        /\ rout' = IF resize_out_sets /\ ok1 THEN event_fdsz ELSE rout
        /\ wout' = IF resize_out_sets /\ ok1 /\ ok2 THEN event_fdsz ELSE wout
        /\ resize_out_sets' = (resize_out_sets /\ ~(ok1 /\ ok2))
        /\ IF ok1 /\ ok2
           THEN /\ nfds' = event_fds + 1
                /\ asked' = [f \in Fd |-> IF f <= event_fds THEN in_set[f] ELSE {}]
           ELSE UNCHANGED <<nfds, asked>>
    /\ UNCHANGED <<want, event_fds, event_fdsz, in_set, rsz, wsz>>

select_return == /\ nfds # 0 /\ nfds' = 0
                 /\ UNCHANGED <<want, event_fds, event_fdsz, resize_out_sets, in_set, rsz, wsz, rout, wout, asked>>

Next == \/ \E f \in Fd, s \in (SUBSET Rw) \ {{}} :
              \/ s \cap want[f] = {} /\ select_add(f, s)
              \/ s \subseteq want[f] /\ select_del(f, s)
        \/ select_dispatch \/ select_return

Spec == Init /\ [][Next]_vars

\* select is asked for exactly what the events want: nfds reaches the
\* highest descriptor wanted and no cleared bit comes back.
Abstract == INSTANCE IoInterest
AsksWhatIsWanted == Abstract!Spec

\* Every set is large enough for what is done with it, also after an
\* allocation has failed half way: the in sets hold event_fdsz descriptors
\* and every one that is set, the out sets those the wait looks at.
SetsFit == /\ event_fds < event_fdsz /\ event_fdsz <= rsz /\ event_fdsz <= wsz
           /\ \A f \in Fd : in_set[f] # {} => f < event_fdsz
           /\ nfds <= rout /\ nfds <= wout
           /\ ~resize_out_sets => rout = event_fdsz /\ wout = event_fdsz

-----------------------------------------------------------------------------
(***************************************************************************)
(* select.c implements the contract of a back end (IoInterest) for every   *)
(* number of descriptors and every word size, allocations failing or not.  *)
(***************************************************************************)

\* The in sets are what the events want, and event_fds, which bounds the
\* wait, never falls below a descriptor that is wanted.
IInv ==
    /\ want \in [Fd -> SUBSET Rw] /\ in_set = want
    /\ asked \in [Fd -> SUBSET Rw] /\ event_fds \in Nat
    /\ \A f \in Fd : want[f] # {} => f <= event_fds

AbstractNext == [Abstract!Change \/ Abstract!Wait]_<<want, asked>>

\* Zenon is the default prover; steps with arithmetic name the SMT solver.
USE ZenonT(60)

LEMMA InitRefines == Init => IInv /\ Abstract!Init
BY SMTT(60) DEF Init, IInv, Abstract!Init, Fd

LEMMA AddStep ==
    ASSUME IInv, NEW f \in Fd, NEW s \in SUBSET Rw, select_add(f, s)
    PROVE  IInv' /\ AbstractNext
<1>1. asked' = asked
  BY DEF select_add
<1>2. CASE want' = [want EXCEPT ![f] = @ \cup s] /\ in_set' = [in_set EXCEPT ![f] = @ \cup s]
           /\ event_fds' = (IF event_fds < f THEN f ELSE event_fds)
  <2>1. want[f] \cup s \in SUBSET Rw
    BY DEF IInv
  <2>2. Abstract!Change
    BY <1>1, <1>2, <2>1 DEF Abstract!Change, Abstract!Rw, Rw
  <2>3. \A g \in Fd : want'[g] # {} => g <= event_fds'
    <3> SUFFICES ASSUME NEW g \in Fd, want'[g] # {} PROVE g <= event_fds'
      OBVIOUS
    <3>1. CASE g = f
      BY <1>2, <3>1, SMTT(60) DEF IInv, Fd
    <3>2. CASE g # f
      <4>1. want'[g] = want[g]
        BY <1>2, <3>2 DEF IInv
      <4>2. g <= event_fds
        BY <4>1 DEF IInv
      <4> QED BY <1>2, <4>2, SMTT(60) DEF IInv, Fd
    <3> QED BY <3>1, <3>2
  <2>4. event_fds' \in Nat
    BY <1>2, SMTT(60) DEF IInv, Fd
  <2> QED BY <1>1, <1>2, <2>1, <2>2, <2>3, <2>4 DEF IInv, AbstractNext
<1>3. CASE UNCHANGED <<event_fds, in_set, want>>
  BY <1>1, <1>3 DEF IInv, AbstractNext
<1> QED BY <1>2, <1>3 DEF select_add

\* select_del's early return leaves nothing behind: a descriptor above
\* event_fds is not wanted.
LEMMA DelStep ==
    ASSUME IInv, NEW f \in Fd, NEW s \in (SUBSET Rw) \ {{}}, s \subseteq want[f], select_del(f, s)
    PROVE  IInv' /\ AbstractNext
<1>0. want[f] # {}
  OBVIOUS
<1>1. f <= event_fds
  BY <1>0 DEF IInv
<1>2. ~(event_fds < f)
  BY <1>1, SMTT(60) DEF IInv, Fd
<1>3. /\ want' = [want EXCEPT ![f] = @ \ s] /\ in_set' = [in_set EXCEPT ![f] = @ \ s]
      /\ event_fds' = event_fds /\ asked' = asked
  BY <1>2 DEF select_del
<1>4. want[f] \ s \in SUBSET Rw
  BY DEF IInv
<1>5. Abstract!Change
  BY <1>3, <1>4 DEF Abstract!Change, Abstract!Rw, Rw
<1>6. \A g \in Fd : want'[g] # {} => g <= event_fds
  BY <1>3 DEF IInv
<1> QED BY <1>3, <1>4, <1>5, <1>6 DEF IInv, AbstractNext

\* A wait looks at the descriptors up to event_fds, which are all there are.
LEMMA DispatchStep ==
    ASSUME IInv, select_dispatch
    PROVE  IInv' /\ AbstractNext
<1>1. UNCHANGED <<want, event_fds, in_set>>
  BY DEF select_dispatch
<1>2. CASE asked' = [f \in Fd |-> IF f <= event_fds THEN in_set[f] ELSE {}]
  <2>1. asked' = want
    BY <1>2 DEF IInv
  <2> QED BY <1>1, <2>1 DEF IInv, AbstractNext, Abstract!Wait
<1>3. CASE asked' = asked
  BY <1>1, <1>3 DEF IInv, AbstractNext
<1> QED BY <1>2, <1>3 DEF select_dispatch

\* Between waits the events come and go; every wait asks for exactly what
\* they want then.
THEOREM SelectImplements == Spec => AsksWhatIsWanted
<1>1. ASSUME IInv, [Next]_vars PROVE IInv' /\ AbstractNext
  <2>1. ASSUME NEW f \in Fd, NEW s \in (SUBSET Rw) \ {{}}, select_add(f, s)
        PROVE  IInv' /\ AbstractNext
    BY <1>1, <2>1, AddStep
  <2>2. ASSUME NEW f \in Fd, NEW s \in (SUBSET Rw) \ {{}}, s \subseteq want[f], select_del(f, s)
        PROVE  IInv' /\ AbstractNext
    BY <1>1, <2>2, DelStep
  <2>3. CASE select_dispatch
    BY <1>1, <2>3, DispatchStep
  <2>4. CASE select_return \/ UNCHANGED vars
    BY <1>1, <2>4 DEF IInv, AbstractNext, select_return, vars
  <2> QED BY <1>1, <2>1, <2>2, <2>3, <2>4 DEF Next
<1> QED BY InitRefines, <1>1, PTL DEF Spec, AsksWhatIsWanted, Abstract!Spec, Abstract!Next, AbstractNext
=============================================================================
