----------------------------- MODULE IoInterest -----------------------------
(***************************************************************************)
(* What the event loop relies on: the union of the interests of the events *)
(* added on a descriptor is what the kernel is asked about at the next     *)
(* wait, whatever came and went in between.                                *)
(***************************************************************************)
CONSTANTS Fd

Rw == {"read", "write"}

VARIABLES want,     \* what the added events want of each descriptor
          asked     \* what the kernel was asked at the last wait

Init == want = [f \in Fd |-> {}] /\ asked = [f \in Fd |-> {}]

Change == /\ \E f \in Fd, s \in SUBSET Rw : want' = [want EXCEPT ![f] = s]
          /\ UNCHANGED asked

Wait == asked' = want /\ UNCHANGED want

Next == Change \/ Wait

Spec == Init /\ [][Next]_<<want, asked>>
=============================================================================
