---------------------------- MODULE EvMapProofs ----------------------------
(***************************************************************************)
(* EvMap for any set of descriptors, any set of events with any interest,  *)
(* with the changelist and without it, when epoll_ctl does not fail: epoll *)
(* implements IoInterest, and the assertions of evmap.c hold.              *)
(***************************************************************************)
EXTENDS EvMap, SequenceTheorems, FiniteSetTheorems, WellFoundedInduction, TLAPS

ConstantsTyped == /\ ev_fd \in [Event -> Fd] /\ ev_events \in [Event -> SUBSET Rw]
                  /\ UseChangelist \in BOOLEAN /\ Fails = {}

Kind == {"none", "add", "del"}
Change == [fd : Fd, old : SUBSET Rw, read : Kind, write : Kind]

\* What a change leaves of the interest it found.
After(ch) == New(ch.old, ch.read, "read") \cup New(ch.old, ch.write, "write")

\* The kernel still has what the change says it had, or it forgot a file that
\* was closed, and then the change says something about all of it.
Linked(k, ch) == \/ k = ch.old
                 \/ /\ k = {}
                    /\ "read" \in ch.old => ch.read # "none"
                    /\ "write" \in ch.old => ch.write # "none"

Of(f, w) == {e \in eventqueue : ev_fd[e] = f /\ w \in ev_events[e]}

TypesOK == /\ eventqueue \in SUBSET Event /\ IsFiniteSet(eventqueue)
           /\ ctx = [f \in Fd |-> ctx[f]]
           /\ changes \in Seq(Change) /\ idxplus1 \in [Fd -> Nat]
           /\ kernel \in [Fd -> SUBSET Rw] /\ asked \in [Fd -> SUBSET Rw]

Counted == \A f \in Fd : /\ ctx[f].nread = Cardinality(Of(f, "read"))
                         /\ ctx[f].nwrite = Cardinality(Of(f, "write"))

Pending == /\ ~UseChangelist => changes = <<>>
           /\ \A f \in Fd : idxplus1[f] = 0 => kernel[f] = Want[f]
           /\ \A i \in 1 .. Len(changes) : /\ After(changes[i]) = Want[changes[i].fd]
                                           /\ Linked(kernel[changes[i].fd], changes[i])

\* The events of each descriptor are those in the queue, each once.
Listed == \A f \in Fd : LET l == ctx[f].events
                        IN  /\ l \in Seq(Event) /\ IsInjective(l)
                            /\ Range(l) = {e \in eventqueue : ev_fd[e] = f}

IInv == TypesOK /\ Counted /\ ChangelistConsistent /\ Pending

----------------------------------------------------------------------------
(* Zenon proves the steps that need no arithmetic and no facts about        *)
(* sequences; the others name the SMT solver.                               *)
USE ZenonT(60)

\* Every non-empty set of natural numbers has a least one.
LEMMA LeastNumber ==
  ASSUME NEW T \in SUBSET Nat, T # {}
  PROVE  \E x \in T : \A y \in T : x <= y
<1>1. \E x \in T : \A y \in T : ~(<<y, x>> \in OpToRel(<, Nat))
  BY NatLessThanWellFounded, WFMin
<1>2. \A x, y \in Nat : y < x => <<y, x>> \in OpToRel(<, Nat)
  BY DEF OpToRel
<1>3. PICK R : /\ \E x \in T : \A y \in T : ~(<<y, x>> \in R)
               /\ \A x, y \in Nat : y < x => <<y, x>> \in R
  BY <1>1, <1>2
<1>4. PICK x \in T : \A y \in T : ~(<<y, x>> \in R)
  BY <1>3
<1>5. \A y \in T : ~(y < x)
  BY <1>3, <1>4
<1> QED BY <1>5, SMTT(60)

\* What epoll watches on the descriptor of a change once it is applied.
Result(k, ch) == LET op == Op(ch) IN IF op[1] = "none" THEN k ELSE op[2]

LEMMA OpIs ==
  ASSUME NEW ch \in Change
  PROVE  /\ Op(ch)[1] \in {"none", "ADD", "MOD", "DEL"} /\ Op(ch)[2] \in SUBSET Rw
         /\ Op(ch)[1] = "DEL" => Op(ch)[2] = {}
         /\ Op(ch)[1] = "none" => ch.read = "none" /\ ch.write = "none"
         /\ Op(ch)[1] # "none" => Op(ch)[2] = After(ch)
<1>1. /\ ch.read \in Kind /\ ch.write \in Kind /\ ch.old \in SUBSET Rw
  BY DEF Change
<1>2. \A what \in Rw, k \in Kind : New(ch.old, k, what) \in SUBSET Rw
  BY <1>1 DEF New, Rw, Kind
<1>3. After(ch) \in SUBSET Rw
  BY <1>1, <1>2 DEF After, Rw
<1>4. ch.read = "del" /\ ch.write = "del" => After(ch) = {}
  BY DEF After, New
<1> QED BY <1>1, <1>3, <1>4 DEF Op, After, Kind

LEMMA ApplyOne ==
  ASSUME NEW k \in [Fd -> SUBSET Rw], NEW ch \in Change
  PROVE  epoll_apply_one_change(k, ch) = [k EXCEPT ![ch.fd] = Result(k[ch.fd], ch)]
<1>1. ch.fd \in Fd
  BY DEF Change
<1>2. CASE Op(ch)[1] = "none"
  BY <1>1, <1>2 DEF epoll_apply_one_change, Result
<1>3. CASE Op(ch)[1] = "DEL"
  BY <1>1, <1>3, OpIs DEF epoll_apply_one_change, Result
<1>4. CASE Op(ch)[1] \notin {"none", "DEL"}
  BY <1>1, <1>4 DEF epoll_apply_one_change, Result
<1> QED BY <1>2, <1>3, <1>4

\* Applying a change makes the kernel watch what is wanted.
LEMMA ResultWanted ==
  ASSUME NEW ch \in Change, NEW k \in SUBSET Rw, Linked(k, ch)
  PROVE  Result(k, ch) = After(ch)
<1>1. CASE Op(ch)[1] # "none"
  BY <1>1, OpIs DEF Result
<1>2. CASE Op(ch)[1] = "none"
  <2>1. ch.read = "none" /\ ch.write = "none"
    BY <1>2, OpIs
  <2>2. After(ch) = ch.old
    BY <2>1 DEF After, New, Change, Rw
  <2>3. k = ch.old
    BY <2>1 DEF Linked, Change, Rw
  <2> QED BY <1>2, <2>2, <2>3 DEF Result
<1> QED BY <1>1, <1>2

\* Each descriptor is in the list at most once, so the changes do not disturb
\* each other: applying the list is applying to each descriptor its change.
LEMMA ApplyAll ==
  ASSUME TypesOK, ChangelistConsistent
  PROVE  epoll_apply_changes =
           [f \in Fd |-> IF idxplus1[f] = 0 THEN kernel[f]
                         ELSE Result(kernel[f], changes[idxplus1[f]])]
<1> DEFINE n == Len(changes)
           Upto(i) == [f \in Fd |-> IF idxplus1[f] \in 1 .. i
                                    THEN Result(kernel[f], changes[idxplus1[f]]) ELSE kernel[f]]
           Step(g, i) == IF i = 0 THEN kernel ELSE epoll_apply_one_change(g[i - 1], changes[i])
           G == [i \in 0 .. n |-> Upto(i)]
<1>1. n \in Nat /\ \A i \in 1 .. n : changes[i] \in Change /\ changes[i].fd \in Fd
  <2>1. n \in Nat
    BY LenProperties DEF TypesOK
  <2>2. \A i \in 1 .. n : changes[i] \in Change
    BY ElementOfSeq DEF TypesOK
  <2> QED BY <2>1, <2>2 DEF Change
<1>2. \A i \in 0 .. n : Upto(i) \in [Fd -> SUBSET Rw]
  <2> SUFFICES ASSUME NEW i \in 0 .. n, NEW f \in Fd, idxplus1[f] \in 1 .. i
               PROVE  Result(kernel[f], changes[idxplus1[f]]) \in SUBSET Rw
    BY DEF TypesOK
  <2>1. changes[idxplus1[f]] \in Change /\ kernel[f] \in SUBSET Rw
    BY <1>1, SMTT(60) DEF TypesOK
  <2> QED BY <2>1, OpIs DEF Result
<1>3. \A i \in 0 .. n : Upto(i) = Step(G, i)
  <2> SUFFICES ASSUME NEW i \in 0 .. n PROVE Upto(i) = Step(G, i)
    OBVIOUS
  <2>1. CASE i = 0
    BY <2>1, SMTT(60) DEF TypesOK
  <2>2. CASE i # 0
    <3>1. i \in 1 .. n /\ i - 1 \in 0 .. n /\ G[i - 1] = Upto(i - 1)
      BY <1>1, <2>2, SMTT(60)
    <3> DEFINE g == changes[i].fd
    <3>2. g \in Fd /\ idxplus1[g] = i /\ changes[i] \in Change
      BY <1>1, <3>1 DEF ChangelistConsistent
    <3>3. Step(G, i) = [Upto(i - 1) EXCEPT ![g] = Result(Upto(i - 1)[g], changes[i])]
      BY <1>2, <2>2, <3>1, <3>2, ApplyOne
    <3>4. Upto(i - 1)[g] = kernel[g] /\ Upto(i)[g] = Result(kernel[g], changes[i])
      BY <1>1, <3>1, <3>2, SMTT(60)
    <3>5. ASSUME NEW f \in Fd, f # g PROVE Upto(i)[f] = Upto(i - 1)[f]
      <4>1. idxplus1[f] # i
        <5> SUFFICES ASSUME idxplus1[f] = i PROVE FALSE
          OBVIOUS
        <5>1. changes[i].fd = f
          BY <3>1, SMTT(60) DEF ChangelistConsistent
        <5> QED BY <5>1, <3>5
      <4>2. idxplus1[f] \in 1 .. i <=> idxplus1[f] \in 1 .. (i - 1)
        BY <1>1, <3>1, <4>1, SMTT(60) DEF TypesOK
      <4> QED BY <4>2
    <3>6. Upto(i) \in [Fd -> SUBSET Rw] /\ Upto(i - 1) \in [Fd -> SUBSET Rw]
      BY <1>2, <3>1
    <3> HIDE DEF g, Upto, Step
    <3> QED BY <3>2, <3>3, <3>4, <3>5, <3>6, SMTT(60)
  <2> QED BY <2>1, <2>2
<1>4. G = [i \in 0 .. n |-> Step(G, i)]
  BY <1>3
<1>5. Applied = [i \in 0 .. n |-> Step(Applied, i)]
  BY <1>4 DEF Applied
<1> HIDE DEF n
<1>6. \A i \in 0 .. n : Applied[i] = G[i]
  <2> SUFFICES ASSUME NEW j \in 0 .. n, Applied[j] # G[j] PROVE FALSE
    OBVIOUS
  <2> DEFINE T == {i \in 0 .. n : Applied[i] # G[i]}
  <2>1. T \in SUBSET Nat /\ T # {}
    BY <1>1, SMTT(60)
  <2>2. PICK x \in T : \A y \in T : x <= y
    BY <2>1, LeastNumber
  <2>3. x \in 0 .. n /\ Applied[x] # G[x]
    OBVIOUS
  <2>4. CASE x = 0
    BY <1>4, <1>5, <2>3, <2>4
  <2>5. CASE x # 0
    <3>1. x - 1 \in 0 .. n /\ ~(x <= x - 1)
      BY <1>1, <2>3, <2>5, SMTT(60)
    <3>2. Applied[x - 1] = G[x - 1]
      BY <2>2, <3>1
    <3>3. Applied[x] = Step(Applied, x) /\ G[x] = Step(G, x)
      <4> HIDE DEF G, Step
      <4> QED BY <1>4, <1>5, <2>3
    <3> HIDE DEF G
    <3> QED BY <2>3, <3>2, <3>3
  <2> QED BY <2>4, <2>5
<1>7. epoll_apply_changes = Upto(n)
  BY <1>1, <1>6, SMTT(60) DEF epoll_apply_changes, n
<1>8. ASSUME NEW f \in Fd PROVE idxplus1[f] # 0 <=> idxplus1[f] \in 1 .. n
  BY <1>1, SMTT(60) DEF ChangelistConsistent, TypesOK, n
<1> QED BY <1>7, <1>8

----------------------------------------------------------------------------
(* The counts of evmap.c say what is wanted. *)

LEMMA WantIs ==
  ASSUME ConstantsTyped, TypesOK, NEW f \in Fd
  PROVE  Want[f] \in SUBSET Rw /\ \A w \in Rw : w \in Want[f] <=> Of(f, w) # {}
BY SMTT(60) DEF ConstantsTyped, TypesOK, Want, Of

LEMMA OfIsFinite ==
  ASSUME TypesOK, NEW f, NEW w
  PROVE  /\ IsFiniteSet(Of(f, w)) /\ Cardinality(Of(f, w)) \in Nat
         /\ Cardinality(Of(f, w)) = 0 <=> Of(f, w) = {}
<1>1. Of(f, w) \subseteq eventqueue
  BY DEF Of
<1>2. IsFiniteSet(Of(f, w))
  BY <1>1, FS_Subset DEF TypesOK
<1> QED BY <1>2, FS_CardinalityType, FS_EmptySet

LEMMA OldIsWant ==
  ASSUME ConstantsTyped, TypesOK, Counted, NEW f \in Fd
  PROVE  Old(ctx[f]) = Want[f]
<1>1. /\ ctx[f].nread > 0 <=> Of(f, "read") # {}
      /\ ctx[f].nwrite > 0 <=> Of(f, "write") # {}
  BY OfIsFinite, SMTT(60) DEF Counted
<1> QED BY <1>1, WantIs DEF Old, Rw

\* Adding or deleting an event changes the counts of what it wants by one.
LEMMA OfAdd ==
  ASSUME ConstantsTyped, TypesOK, NEW ev \in Event, ev \notin eventqueue,
         eventqueue' = eventqueue \cup {ev}, NEW f \in Fd, NEW w \in Rw
  PROVE  /\ f = ev_fd[ev] => Cardinality(Of(f, w))' = Cardinality(Of(f, w)) + N(ev, w)
         /\ f # ev_fd[ev] => Cardinality(Of(f, w))' = Cardinality(Of(f, w)) /\ Want'[f] = Want[f]
<1>1. CASE f = ev_fd[ev] /\ w \in ev_events[ev]
  <2>1. Of(f, w)' = Of(f, w) \cup {ev} /\ ev \notin Of(f, w)
    BY <1>1 DEF Of
  <2>2. Cardinality(Of(f, w) \cup {ev}) = Cardinality(Of(f, w)) + 1
    BY <2>1, OfIsFinite, FS_AddElement
  <2> QED BY <1>1, <2>1, <2>2 DEF N
<1>2. CASE f = ev_fd[ev] /\ w \notin ev_events[ev]
  <2>1. Of(f, w)' = Of(f, w)
    BY <1>2 DEF Of
  <2> QED BY <1>2, <2>1, OfIsFinite, SMTT(60) DEF N
<1>3. CASE f # ev_fd[ev]
  <2>1. Of(f, w)' = Of(f, w)
    BY <1>3 DEF Of
  <2>2. {e \in eventqueue' : ev_fd[e] = f} = {e \in eventqueue : ev_fd[e] = f}
    BY <1>3
  <2>3. Want'[f] = Want[f]
    BY <2>2 DEF Want
  <2> QED BY <1>3, <2>1, <2>3
<1> QED BY <1>1, <1>2, <1>3

LEMMA OfDel ==
  ASSUME ConstantsTyped, TypesOK, NEW ev \in Event, ev \in eventqueue,
         eventqueue' = eventqueue \ {ev}, NEW f \in Fd, NEW w \in Rw
  PROVE  /\ f = ev_fd[ev] => Cardinality(Of(f, w))' = Cardinality(Of(f, w)) - N(ev, w)
         /\ f # ev_fd[ev] => Cardinality(Of(f, w))' = Cardinality(Of(f, w)) /\ Want'[f] = Want[f]
<1>1. CASE f = ev_fd[ev] /\ w \in ev_events[ev]
  <2>1. Of(f, w)' = Of(f, w) \ {ev} /\ ev \in Of(f, w)
    BY <1>1 DEF Of
  <2>2. Cardinality(Of(f, w) \ {ev}) = Cardinality(Of(f, w)) - 1
    BY <2>1, OfIsFinite, FS_RemoveElement
  <2> QED BY <1>1, <2>1, <2>2 DEF N
<1>2. CASE f = ev_fd[ev] /\ w \notin ev_events[ev]
  <2>1. Of(f, w)' = Of(f, w)
    BY <1>2 DEF Of
  <2> QED BY <1>2, <2>1, OfIsFinite, SMTT(60) DEF N
<1>3. CASE f # ev_fd[ev]
  <2>1. Of(f, w)' = Of(f, w)
    BY <1>3 DEF Of
  <2>2. {e \in eventqueue' : ev_fd[e] = f} = {e \in eventqueue : ev_fd[e] = f}
    BY <1>3
  <2>3. Want'[f] = Want[f]
    BY <2>2 DEF Want
  <2> QED BY <1>3, <2>1, <2>3
<1> QED BY <1>1, <1>2, <1>3

----------------------------------------------------------------------------
(* The changelist. *)

Empty(f, old) == [fd |-> f, old |-> old, read |-> "none", write |-> "none"]

\* The entry an add or a delete finds or makes.
Entry(f, old) == IF idxplus1[f] = 0 THEN Empty(f, old) ELSE changes[idxplus1[f]]

LEMMA EntryIs ==
  ASSUME ConstantsTyped, TypesOK, Counted, ChangelistConsistent, Pending, NEW f \in Fd
  PROVE  LET ch == Entry(f, Want[f])
         IN  ch \in Change /\ ch.fd = f /\ After(ch) = Want[f] /\ Linked(kernel[f], ch)
<1>1. CASE idxplus1[f] = 0
  <2>1. Want[f] \in SUBSET Rw
    BY WantIs
  <2>2. Empty(f, Want[f]) \in Change
    BY <2>1 DEF Empty, Change, Kind
  <2>3. After(Empty(f, Want[f])) = Want[f]
    BY <2>1 DEF Empty, After, New, Rw
  <2> QED BY <1>1, <2>2, <2>3 DEF Entry, Empty, Linked, Pending
<1>2. CASE idxplus1[f] # 0
  <2>1. idxplus1[f] \in 1 .. Len(changes) /\ changes[idxplus1[f]].fd = f
    BY <1>2, LenProperties, SMTT(60) DEF TypesOK, ChangelistConsistent
  <2>2. changes[idxplus1[f]] \in Change
    BY <2>1, ElementOfSeq DEF TypesOK
  <2> QED BY <1>2, <2>1, <2>2 DEF Entry, Pending
<1> QED BY <1>1, <1>2

\* The list after the entry of f became ch.
LEMMA OnList ==
  ASSUME TypesOK, ChangelistConsistent, Pending, UseChangelist,
         NEW f \in Fd, NEW old \in SUBSET Rw, NEW ch \in Change, ch.fd = f,
         changes' = [event_changelist_get_or_construct(f, old) EXCEPT ![IndexOf(f)] = ch],
         idxplus1' = [idxplus1 EXCEPT ![f] = IndexOf(f)], kernel' = kernel,
         \A g \in Fd : g # f => Want'[g] = Want[g],
         After(ch) = Want'[f], Linked(kernel[f], ch)
  PROVE  /\ changes' \in Seq(Change) /\ idxplus1' \in [Fd -> Nat]
         /\ ChangelistConsistent' /\ Pending'
<1> DEFINE n == Len(changes)
           L == event_changelist_get_or_construct(f, old)
           ix == IndexOf(f)
<1>1. n \in Nat /\ changes \in Seq(Change) /\ idxplus1 \in [Fd -> Nat]
  BY LenProperties DEF TypesOK
<1>2. /\ L \in Seq(Change) /\ ix \in 1 .. Len(L) /\ Len(L) \in Nat
      /\ \A i \in 1 .. Len(L) : i # ix => i \in 1 .. n /\ L[i] = changes[i]
      /\ n <= Len(L)
      /\ idxplus1[f] # 0 => ix = idxplus1[f]
      /\ idxplus1[f] = 0 => ix = n + 1
  <2>1. CASE idxplus1[f] = 0
    <3>1. Empty(f, old) \in Change
      BY DEF Empty, Change, Kind
    <3>2. L = Append(changes, Empty(f, old)) /\ ix = n + 1
      BY <2>1 DEF event_changelist_get_or_construct, IndexOf, Empty
    <3> QED BY <1>1, <2>1, <3>1, <3>2, AppendProperties, SMTT(60)
  <2>2. CASE idxplus1[f] # 0
    BY <1>1, <2>2, SMTT(60) DEF event_changelist_get_or_construct, IndexOf, ChangelistConsistent
  <2> QED BY <2>1, <2>2
<1> HIDE DEF L, ix
<1>3. /\ changes' \in Seq(Change) /\ Len(changes') = Len(L) /\ changes'[ix] = ch
      /\ \A i \in 1 .. Len(L) : i # ix => changes'[i] = changes[i]
  <2>1. changes' = [L EXCEPT ![ix] = ch]
    BY DEF L, ix
  <2>2. /\ [L EXCEPT ![ix] = ch] \in Seq(Change) /\ Len([L EXCEPT ![ix] = ch]) = Len(L)
        /\ \A i \in 1 .. Len(L) : [L EXCEPT ![ix] = ch][i] = IF i = ix THEN ch ELSE L[i]
    BY <1>2, ExceptSeq, SMTT(60)
  <2> QED BY <1>2, <2>1, <2>2
<1>4. idxplus1' \in [Fd -> Nat] /\ idxplus1'[f] = ix /\ \A g \in Fd : g # f => idxplus1'[g] = idxplus1[g]
  BY <1>1, <1>2, SMTT(60) DEF ix
<1>5. ASSUME NEW i \in 1 .. Len(L), i # ix
      PROVE  i \in 1 .. n /\ changes'[i] = changes[i] /\ changes[i].fd \in Fd /\ changes[i].fd # f
             /\ idxplus1[changes[i].fd] = i
  <2>1. i \in 1 .. n /\ changes'[i] = changes[i] /\ changes[i] \in Change
    BY <1>1, <1>2, <1>3, <1>5, ElementOfSeq
  <2>2. changes[i].fd \in Fd /\ idxplus1[changes[i].fd] = i
    BY <2>1 DEF Change, ChangelistConsistent
  <2>3. changes[i].fd # f
    BY <1>1, <1>2, <1>5, <2>1, <2>2, SMTT(60)
  <2> QED BY <2>1, <2>2, <2>3
<1>6. ChangelistConsistent'
  <2>1. \A i \in 1 .. Len(changes') : idxplus1'[changes'[i].fd] = i
    BY <1>2, <1>3, <1>4, <1>5, SMTT(60)
  <2>2. ASSUME NEW g \in Fd, idxplus1'[g] # 0
        PROVE  idxplus1'[g] <= Len(changes') /\ changes'[idxplus1'[g]].fd = g
    <3>1. CASE g = f
      BY <1>2, <1>3, <1>4, <3>1, SMTT(60)
    <3>2. CASE g # f
      <4>1. idxplus1'[g] = idxplus1[g] /\ idxplus1[g] \in 1 .. n /\ changes[idxplus1[g]].fd = g
        BY <1>1, <1>4, <2>2, <3>2, SMTT(60) DEF ChangelistConsistent
      <4>2. idxplus1[g] # ix
        BY <1>1, <1>2, <3>2, <4>1, SMTT(60) DEF ChangelistConsistent
      <4>3. idxplus1[g] \in 1 .. Len(L)
        BY <1>1, <1>2, <4>1, SMTT(60)
      <4> QED BY <1>2, <1>3, <4>1, <4>2, <4>3, SMTT(60)
    <3> QED BY <3>1, <3>2
  <2> QED BY <2>1, <2>2 DEF ChangelistConsistent
<1>7. Pending'
  <2>1. ASSUME NEW g \in Fd, idxplus1'[g] = 0 PROVE kernel'[g] = Want'[g]
    BY <1>2, <1>4, <2>1, SMTT(60) DEF Pending
  <2>2. ASSUME NEW i \in 1 .. Len(changes')
        PROVE  /\ After(changes'[i]) = Want'[changes'[i].fd]
               /\ Linked(kernel'[changes'[i].fd], changes'[i])
    <3>1. CASE i = ix
      BY <1>3, <3>1
    <3>2. CASE i # ix
      BY <1>3, <1>5, <2>2, <3>2, SMTT(60) DEF Pending
    <3> QED BY <3>1, <3>2
  <2> QED BY <2>1, <2>2 DEF Pending
<1> QED BY <1>3, <1>4, <1>6, <1>7

----------------------------------------------------------------------------
(* What an add and a delete make of the entry. *)

Added(ch, res) == [ch EXCEPT !.read = IF "read" \in res THEN "add" ELSE @,
                             !.write = IF "write" \in res THEN "add" ELSE @]

Cancel(ch, was, what) == IF what \notin ch.old /\ was = "add" THEN "none" ELSE "del"
Deleted(ch, res) == [ch EXCEPT !.read = IF "read" \in res THEN Cancel(ch, @, "read") ELSE @,
                               !.write = IF "write" \in res THEN Cancel(ch, @, "write") ELSE @]

LEMMA TwoFields ==
  ASSUME NEW ch \in Change, NEW a, NEW b
  PROVE  [ch EXCEPT !.read = a, !.write = b] = [fd |-> ch.fd, old |-> ch.old, read |-> a, write |-> b]
<1> DEFINE d == [ch EXCEPT !.read = a]
<1>1. d = [fd |-> ch.fd, old |-> ch.old, read |-> a, write |-> ch.write]
  BY SMTT(60) DEF Change
<1>2. [ch EXCEPT !.read = a, !.write = b] = [d EXCEPT !.write = b]
  OBVIOUS
<1> HIDE DEF d
<1>3. [d EXCEPT !.write = b] = [fd |-> ch.fd, old |-> ch.old, read |-> a, write |-> b]
  BY <1>1, SMTT(60)
<1> QED BY <1>2, <1>3

LEMMA AddedIs ==
  ASSUME NEW ch \in Change, NEW res \in SUBSET Rw, NEW k, Linked(k, ch)
  PROVE  /\ Added(ch, res) \in Change /\ Added(ch, res).fd = ch.fd
         /\ After(Added(ch, res)) = After(ch) \cup res
         /\ Linked(k, Added(ch, res))
<1> DEFINE r == IF "read" \in res THEN "add" ELSE ch.read
           w == IF "write" \in res THEN "add" ELSE ch.write
<1>1. ch.old \in SUBSET Rw /\ ch.fd \in Fd /\ ch.read \in Kind /\ ch.write \in Kind /\ r \in Kind /\ w \in Kind
  BY DEF Change, Kind
<1>2. Added(ch, res) = [fd |-> ch.fd, old |-> ch.old, read |-> r, write |-> w]
  <2>1. ch = [fd |-> ch.fd, old |-> ch.old, read |-> ch.read, write |-> ch.write]
    BY DEF Change
  <2>3. Added(ch, res) = [ch EXCEPT !.read = r, !.write = w]
    BY <2>1 DEF Added
  <2> QED BY <2>3, TwoFields
<1>3. New(ch.old, r, "read") = New(ch.old, ch.read, "read") \cup (res \cap {"read"})
  BY <1>1 DEF New, Kind
<1>4. New(ch.old, w, "write") = New(ch.old, ch.write, "write") \cup (res \cap {"write"})
  BY <1>1 DEF New, Kind
<1>5. res = (res \cap {"read"}) \cup (res \cap {"write"})
  BY DEF Rw
<1>6. Linked(k, Added(ch, res))
  BY <1>2, SMTT(60) DEF Linked
<1> HIDE DEF r, w
<1>7. Added(ch, res) \in Change /\ Added(ch, res).fd = ch.fd
  BY <1>1, <1>2, SMTT(60) DEF Change
<1>8. After(Added(ch, res)) = New(ch.old, r, "read") \cup New(ch.old, w, "write")
  BY <1>2, SMTT(60) DEF After
<1>9. After(Added(ch, res)) = After(ch) \cup res
  BY <1>3, <1>4, <1>5, <1>8 DEF After
<1> QED BY <1>6, <1>7, <1>9

LEMMA DeletedIs ==
  ASSUME NEW ch \in Change, NEW res \in SUBSET Rw, NEW k, Linked(k, ch)
  PROVE  /\ Deleted(ch, res) \in Change /\ Deleted(ch, res).fd = ch.fd
         /\ After(Deleted(ch, res)) = After(ch) \ res
         /\ Linked(k, Deleted(ch, res))
<1> DEFINE r == IF "read" \in res THEN Cancel(ch, ch.read, "read") ELSE ch.read
           w == IF "write" \in res THEN Cancel(ch, ch.write, "write") ELSE ch.write
<1>1. ch.old \in SUBSET Rw /\ ch.fd \in Fd /\ ch.read \in Kind /\ ch.write \in Kind /\ r \in Kind /\ w \in Kind
  BY DEF Change, Kind, Cancel
<1>2. Deleted(ch, res) = [fd |-> ch.fd, old |-> ch.old, read |-> r, write |-> w]
  <2>1. ch = [fd |-> ch.fd, old |-> ch.old, read |-> ch.read, write |-> ch.write]
    BY DEF Change
  <2>3. Deleted(ch, res) = [ch EXCEPT !.read = r, !.write = w]
    BY <2>1 DEF Deleted
  <2> QED BY <2>3, TwoFields
<1>3. New(ch.old, r, "read") = New(ch.old, ch.read, "read") \ res
  BY <1>1 DEF New, Kind, Cancel
<1>4. New(ch.old, w, "write") = New(ch.old, ch.write, "write") \ res
  BY <1>1 DEF New, Kind, Cancel
<1>6. Linked(k, Deleted(ch, res))
  BY <1>2, SMTT(60) DEF Linked, Cancel
<1> HIDE DEF r, w
<1>7. Deleted(ch, res) \in Change /\ Deleted(ch, res).fd = ch.fd
  BY <1>1, <1>2, SMTT(60) DEF Change
<1>8. After(Deleted(ch, res)) = New(ch.old, r, "read") \cup New(ch.old, w, "write")
  BY <1>2, SMTT(60) DEF After
<1>9. After(Deleted(ch, res)) = After(ch) \ res
  BY <1>3, <1>4, <1>8 DEF After
<1> QED BY <1>6, <1>7, <1>9

LEMMA ListAdd ==
  ASSUME ConstantsTyped, IInv, NEW f \in Fd, NEW res \in SUBSET Rw
  PROVE  LET old == Want[f]
         IN  /\ event_changelist_add(f, old, res) =
                  [event_changelist_get_or_construct(f, old) EXCEPT ![IndexOf(f)] = Added(Entry(f, old), res)]
             /\ event_changelist_del(f, old, res) =
                  [event_changelist_get_or_construct(f, old) EXCEPT ![IndexOf(f)] = Deleted(Entry(f, old), res)]
<1> DEFINE L == event_changelist_get_or_construct(f, Want[f])
           ix == IndexOf(f)
<1>1. Entry(f, Want[f]) \in Change
  BY EntryIs DEF IInv
<1>2. changes \in Seq(Change) /\ Len(changes) \in Nat /\ idxplus1[f] \in Nat
  BY LenProperties DEF IInv, TypesOK
<1>3. L \in Seq(Change) /\ ix \in 1 .. Len(L) /\ L[ix] = Entry(f, Want[f])
  <2>1. CASE idxplus1[f] = 0
    <3>1. L = Append(changes, Entry(f, Want[f])) /\ ix = Len(changes) + 1
      BY <2>1 DEF event_changelist_get_or_construct, IndexOf, Entry, Empty
    <3> QED BY <1>1, <1>2, <3>1, AppendProperties, SMTT(60)
  <2>2. CASE idxplus1[f] # 0
    BY <1>2, <2>2, SMTT(60) DEF event_changelist_get_or_construct, IndexOf, Entry, IInv, ChangelistConsistent
  <2> QED BY <2>1, <2>2
<1>4. DOMAIN L = 1 .. Len(L)
  BY <1>3, LenProperties
<1>5. event_changelist_add(f, Want[f], res) = [L EXCEPT ![ix] = Added(L[ix], res)]
  BY <1>3, <1>4 DEF event_changelist_add, Added
<1>6. event_changelist_del(f, Want[f], res) = [L EXCEPT ![ix] = Deleted(L[ix], res)]
  BY <1>3, <1>4 DEF event_changelist_del, Deleted, Cancel
<1> QED BY <1>3, <1>5, <1>6

----------------------------------------------------------------------------
(* The steps. *)

\* An add or a delete changes what is wanted of one descriptor, and the back
\* end follows.
LEMMA BackendStep ==
  ASSUME ConstantsTyped, IInv, NEW f \in Fd, NEW res \in SUBSET Rw, NEW op \in {"add", "del"},
         \A g \in Fd : g # f => Want'[g] = Want[g],
         Want'[f] = IF op = "add" THEN Want[f] \cup res ELSE Want[f] \ res,
         Backend(f, Want[f], res,
                 IF op = "add" THEN event_changelist_add(f, Want[f], res)
                               ELSE event_changelist_del(f, Want[f], res),
                 IF op = "add" THEN epoll_nochangelist_add(f, Want[f], res)
                               ELSE epoll_nochangelist_del(f, Want[f], res))
  PROVE  /\ changes' \in Seq(Change) /\ idxplus1' \in [Fd -> Nat]
         /\ kernel' \in [Fd -> SUBSET Rw]
         /\ ChangelistConsistent' /\ Pending'
<1> DEFINE Turn(ch) == IF op = "add" THEN Added(ch, res) ELSE Deleted(ch, res)
<1>1. Want[f] \in SUBSET Rw /\ TypesOK /\ ChangelistConsistent /\ Pending
  BY WantIs DEF IInv
<1>2. CASE res = {}
  <2>1. /\ changes' = changes /\ idxplus1' = idxplus1 /\ kernel' = kernel
    BY <1>2 DEF Backend
  <2>2. \A g \in Fd : Want'[g] = Want[g]
    BY <1>2
  <2>3. \A i \in 1 .. Len(changes) : changes[i].fd \in Fd
    <3>1. \A i \in 1 .. Len(changes) : changes[i] \in Change
      BY <1>1, ElementOfSeq DEF TypesOK
    <3> QED BY <3>1 DEF Change
  <2>4. ChangelistConsistent'
    BY <1>1, <2>1 DEF ChangelistConsistent
  <2>5. Pending'
    BY <1>1, <2>1, <2>2, <2>3 DEF Pending
  <2> QED BY <1>1, <2>1, <2>4, <2>5 DEF TypesOK
<1>3. CASE res # {} /\ UseChangelist
  <2> DEFINE e == Entry(f, Want[f])
  <2>1. e \in Change /\ e.fd = f /\ After(e) = Want[f] /\ Linked(kernel[f], e)
    BY EntryIs DEF IInv
  <2> HIDE DEF e
  <2>2. Turn(e) \in Change /\ Turn(e).fd = f /\ After(Turn(e)) = Want'[f] /\ Linked(kernel[f], Turn(e))
    BY <2>1, AddedIs, DeletedIs
  <2>3. changes' = [event_changelist_get_or_construct(f, Want[f]) EXCEPT ![IndexOf(f)] = Turn(e)]
    BY <1>3, ListAdd DEF Backend, e
  <2>4. idxplus1' = [idxplus1 EXCEPT ![f] = IndexOf(f)] /\ kernel' = kernel
    BY <1>3 DEF Backend
  <2> HIDE DEF Turn
  <2> QED BY <1>1, <1>3, <2>2, <2>3, <2>4, OnList DEF TypesOK
<1>4. CASE res # {} /\ ~UseChangelist
  <2> DEFINE e == Empty(f, Want[f])
  <2>1. changes = <<>> /\ Len(changes) = 0 /\ idxplus1 \in [Fd -> Nat]
    BY <1>1, <1>4 DEF Pending, TypesOK
  <2>2. \A g \in Fd : idxplus1[g] = 0 /\ kernel[g] = Want[g]
    BY <1>1, <2>1, SMTT(60) DEF ChangelistConsistent, Pending
  <2>3. e = Entry(f, Want[f])
    BY <2>2 DEF Entry
  <2>4. e \in Change /\ e.fd = f /\ After(e) = Want[f] /\ Linked(kernel[f], e)
    BY <2>3, EntryIs DEF IInv
  <2>5. kernel' = epoll_apply_one_change(kernel, Turn(e)) /\ changes' = changes /\ idxplus1' = idxplus1
    <3>1. epoll_nochangelist_add(f, Want[f], res) = epoll_apply_one_change(kernel, Added(e, res))
      <4> DEFINE r == IF "read" \in res THEN "add" ELSE "none"
                 w == IF "write" \in res THEN "add" ELSE "none"
      <4>1. Added(e, res) = [e EXCEPT !.read = r, !.write = w]
        BY DEF Added, Empty
      <4>2. Added(e, res) = [fd |-> f, old |-> Want[f], read |-> r, write |-> w]
        BY <2>4, <4>1, TwoFields DEF Empty
      <4> QED BY <4>2 DEF epoll_nochangelist_add
    <3>2. epoll_nochangelist_del(f, Want[f], res) = epoll_apply_one_change(kernel, Deleted(e, res))
      <4> DEFINE r == IF "read" \in res THEN "del" ELSE "none"
                 w == IF "write" \in res THEN "del" ELSE "none"
      <4>1. Deleted(e, res) = [e EXCEPT !.read = r, !.write = w]
        BY DEF Deleted, Empty, Cancel
      <4>2. Deleted(e, res) = [fd |-> f, old |-> Want[f], read |-> r, write |-> w]
        BY <2>4, <4>1, TwoFields DEF Empty
      <4> QED BY <4>2 DEF epoll_nochangelist_del
    <3> HIDE DEF e
    <3> QED BY <1>4, <3>1, <3>2 DEF Backend
  <2> HIDE DEF e
  <2>6. Turn(e) \in Change /\ Turn(e).fd = f /\ After(Turn(e)) = Want'[f] /\ Linked(kernel[f], Turn(e))
    BY <2>4, AddedIs, DeletedIs
  <2> HIDE DEF Turn
  <2>7. kernel' = [kernel EXCEPT ![f] = Want'[f]]
    <3>1. kernel \in [Fd -> SUBSET Rw] /\ kernel[f] \in SUBSET Rw
      BY <1>1 DEF TypesOK
    <3>2. Result(kernel[f], Turn(e)) = Want'[f]
      BY <2>6, <3>1, ResultWanted
    <3> QED BY <2>5, <2>6, <3>1, <3>2, ApplyOne, SMTT(60)
  <2>8. Want'[f] \in SUBSET Rw
    BY <1>1
  <2>9. kernel' \in [Fd -> SUBSET Rw] /\ \A g \in Fd : kernel'[g] = Want'[g]
    BY <1>1, <2>2, <2>7, <2>8 DEF TypesOK
  <2>10. ChangelistConsistent' /\ Pending'
    BY <1>1, <2>1, <2>5, <2>9, SMTT(60) DEF ChangelistConsistent, Pending
  <2> QED BY <1>1, <2>5, <2>9, <2>10 DEF TypesOK
<1> QED BY <1>2, <1>3, <1>4

\* When no descriptor fails the abstract state is that of all of them.
LEMMA SureIs ==
  ASSUME ConstantsTyped, TypesOK
  PROVE  Fd \ Fails = Fd /\ Sure(Want) = Want /\ Sure(asked) = asked
<1>1. Fd \ Fails = Fd
  BY DEF ConstantsTyped
<1>2. Want = [f \in Fd |-> Want[f]] /\ asked = [f \in Fd |-> asked[f]]
  BY DEF Want, TypesOK
<1> QED BY <1>1, <1>2 DEF Sure

\* The same of the next state.
LEMMA SureIsNext ==
  ASSUME ConstantsTyped, TypesOK'
  PROVE  Sure(Want)' = Want' /\ Sure(asked)' = asked'
<1>1. Fd \ Fails = Fd
  BY DEF ConstantsTyped
<1>2. Want' = [f \in Fd |-> Want'[f]] /\ asked' = [f \in Fd |-> asked'[f]]
  BY DEF Want, TypesOK
<1> QED BY <1>1, <1>2 DEF Sure

LEMMA AddStep ==
  ASSUME ConstantsTyped, IInv, NEW ev \in Event, Add(ev)
  PROVE  IInv' /\ Abstract!Change
<1> DEFINE f == ev_fd[ev]
           c == ctx[f]
           nread == c.nread + N(ev, "read")
           nwrite == c.nwrite + N(ev, "write")
           res == {w \in ev_events[ev] : (w = "read" /\ nread = 1) \/ (w = "write" /\ nwrite = 1)}
<1>1. /\ f \in Fd /\ ev_events[ev] \in SUBSET Rw /\ res \in SUBSET Rw
      /\ TypesOK /\ Counted /\ ChangelistConsistent /\ Pending
  BY DEF ConstantsTyped, IInv
<1>2. eventqueue' = eventqueue \cup {ev} /\ (ev \notin eventqueue) /\ asked' = asked
  BY DEF Add
<1>3. eventqueue' \in SUBSET Event /\ IsFiniteSet(eventqueue')
  BY <1>1, <1>2, FS_AddElement, SMTT(60) DEF TypesOK
<1>4. Old(c) = Want[f] /\ Want[f] \in SUBSET Rw
  BY <1>1, OldIsWant, WantIs
<1>5. /\ ctx' = [ctx EXCEPT ![f] = [nread |-> nread, nwrite |-> nwrite, events |-> ctx'[f].events]]
      /\ Backend(f, Want[f], res, event_changelist_add(f, Want[f], res), epoll_nochangelist_add(f, Want[f], res))
  BY <1>1, <1>4 DEF Add, evmap_io_add, TypesOK
<1>6. \A g \in Fd : g # f => ctx'[g] = ctx[g]
  BY <1>1, <1>5 DEF TypesOK
<1>7. ctx'[f].nread = nread /\ ctx'[f].nwrite = nwrite /\ ctx' = [g \in Fd |-> ctx'[g]]
  BY <1>1, <1>5, SMTT(60) DEF TypesOK
<1>8. Counted'
  <2>1. /\ nread = Cardinality(Of(f, "read"))' /\ nwrite = Cardinality(Of(f, "write"))'
    BY <1>1, <1>2, OfAdd, SMTT(60) DEF Counted, Rw
  <2>2. ASSUME NEW g \in Fd, g # f
        PROVE  ctx'[g].nread = Cardinality(Of(g, "read"))' /\ ctx'[g].nwrite = Cardinality(Of(g, "write"))'
    BY <1>1, <1>2, <1>6, <2>2, OfAdd, SMTT(60) DEF Counted, Rw
  <2> QED BY <1>7, <2>1, <2>2 DEF Counted
<1>9. Want'[f] = Want[f] \cup res /\ \A g \in Fd : g # f => Want'[g] = Want[g]
  <2>1. \A g \in Fd : g # f => Want'[g] = Want[g]
    BY <1>2, <1>1, OfAdd DEF Rw
  <2>2. Want'[f] \in SUBSET Rw /\ \A w \in Rw : w \in Want'[f] <=> w \in Want[f] \cup res
    <3>1. Want'[f] = UNION {ev_events[e] : e \in {x \in eventqueue' : ev_fd[x] = f}}
      BY <1>1 DEF Want
    <3>2. Want'[f] \in SUBSET Rw
      BY <1>3, <3>1 DEF ConstantsTyped
    <3>3. ASSUME NEW w \in Rw PROVE w \in Want'[f] <=> w \in Want[f] \cup res
      <4>1. w \in Want'[f] <=> w \in Want[f] \/ w \in ev_events[ev]
        BY <1>1, <1>2, <3>1 DEF Want
      <4>2. w \in ev_events[ev] /\ w \notin Want[f] => w \in res
        <5>1. Of(f, w) = {} => Cardinality(Of(f, w)) = 0
          BY <1>1, OfIsFinite
        <5>2. w \in ev_events[ev] => N(ev, w) = 1
          BY DEF N
        <5>3. w \in ev_events[ev] /\ w \notin Want[f] => (w = "read" /\ nread = 1) \/ (w = "write" /\ nwrite = 1)
          BY <1>1, <5>1, <5>2, WantIs, SMTT(60) DEF Counted, Rw
        <5> QED BY <5>3
      <4> QED BY <4>1, <4>2
    <3> QED BY <3>2, <3>3
  <2> QED BY <1>1, <1>4, <2>1, <2>2
<1>10. /\ changes' \in Seq(Change) /\ idxplus1' \in [Fd -> Nat]
       /\ kernel' \in [Fd -> SUBSET Rw] /\ ChangelistConsistent' /\ Pending'
  <2> HIDE DEF f, res
  <2>1. Backend(f, Want[f], res,
                 IF "add" = "add" THEN event_changelist_add(f, Want[f], res)
                               ELSE event_changelist_del(f, Want[f], res),
                 IF "add" = "add" THEN epoll_nochangelist_add(f, Want[f], res)
                               ELSE epoll_nochangelist_del(f, Want[f], res))
    BY <1>5
  <2> QED BY <1>1, <1>9, <2>1, BackendStep
<1>11. IInv'
  BY <1>1, <1>2, <1>3, <1>7, <1>8, <1>10 DEF IInv, TypesOK
<1>12. Want' = [Want EXCEPT ![f] = Want'[f]] /\ Want'[f] \in SUBSET Rw
  <2> HIDE DEF res
  <2> QED BY <1>1, <1>4, <1>9 DEF Want
<1>13. /\ Fd \ Fails = Fd /\ Sure(Want) = Want /\ Sure(asked) = asked
       /\ Sure(Want)' = Want' /\ Sure(asked)' = asked'
  BY <1>1, <1>11, SureIs, SureIsNext DEF IInv
<1> QED BY <1>1, <1>2, <1>11, <1>12, <1>13 DEF Abstract!Change, Abstract!Rw, Rw

LEMMA DelStep ==
  ASSUME ConstantsTyped, IInv, NEW ev \in Event, Del(ev)
  PROVE  IInv' /\ Abstract!Change
<1> DEFINE f == ev_fd[ev]
           c == ctx[f]
           nread == c.nread - N(ev, "read")
           nwrite == c.nwrite - N(ev, "write")
           res == {w \in ev_events[ev] : (w = "read" /\ nread = 0) \/ (w = "write" /\ nwrite = 0)}
<1>1. /\ f \in Fd /\ ev_events[ev] \in SUBSET Rw /\ res \in SUBSET Rw
      /\ TypesOK /\ Counted /\ ChangelistConsistent /\ Pending
  BY DEF ConstantsTyped, IInv
<1>2. eventqueue' = eventqueue \ {ev} /\ (ev \in eventqueue) /\ asked' = asked
  BY DEF Del
<1>3. eventqueue' \in SUBSET Event /\ IsFiniteSet(eventqueue')
  BY <1>1, <1>2, FS_RemoveElement DEF TypesOK
<1>4. Old(c) = Want[f] /\ Want[f] \in SUBSET Rw
  BY <1>1, OldIsWant, WantIs
<1>5. /\ ctx' = [ctx EXCEPT ![f] = [nread |-> nread, nwrite |-> nwrite, events |-> ctx'[f].events]]
      /\ Backend(f, Want[f], res, event_changelist_del(f, Want[f], res), epoll_nochangelist_del(f, Want[f], res))
  BY <1>1, <1>4 DEF Del, evmap_io_del, TypesOK, ConstantsTyped
<1>6. \A g \in Fd : g # f => ctx'[g] = ctx[g]
  BY <1>1, <1>5 DEF TypesOK
<1>7. ctx'[f].nread = nread /\ ctx'[f].nwrite = nwrite /\ ctx' = [g \in Fd |-> ctx'[g]]
  BY <1>1, <1>5, SMTT(60) DEF TypesOK
<1>8. Counted'
  <2>1. /\ nread = Cardinality(Of(f, "read"))' /\ nwrite = Cardinality(Of(f, "write"))'
    BY <1>1, <1>2, OfDel, SMTT(60) DEF Counted, Rw
  <2>2. ASSUME NEW g \in Fd, g # f
        PROVE  ctx'[g].nread = Cardinality(Of(g, "read"))' /\ ctx'[g].nwrite = Cardinality(Of(g, "write"))'
    BY <1>1, <1>2, <1>6, <2>2, OfDel DEF Counted, Rw
  <2> QED BY <1>7, <2>1, <2>2 DEF Counted
<1>9. Want'[f] = Want[f] \ res /\ \A g \in Fd : g # f => Want'[g] = Want[g]
  <2>1. \A g \in Fd : g # f => Want'[g] = Want[g]
    BY <1>2, <1>1, OfDel DEF Rw
  <2>2. Want'[f] \in SUBSET Rw /\ \A w \in Rw : w \in Want'[f] <=> w \in Want[f] \ res
    <3>1. Want'[f] = UNION {ev_events[e] : e \in {x \in eventqueue' : ev_fd[x] = f}}
      BY <1>1 DEF Want
    <3>2. Want'[f] \in SUBSET Rw
      BY <1>3, <3>1 DEF ConstantsTyped
    <3>3. ASSUME NEW w \in Rw PROVE w \in Want'[f] <=> w \in Want[f] \ res
      <4> DEFINE n == Cardinality(Of(f, w))
      <4>1. w \in Want'[f] <=> \E e \in eventqueue : e # ev /\ ev_fd[e] = f /\ w \in ev_events[e]
        BY <1>2, <3>1
      <4>2. w \in Want[f] <=> Of(f, w) # {}
        BY <1>1, WantIs
      <4>3. /\ n' \in Nat /\ n' = 0 <=> ~\E e \in eventqueue : e # ev /\ ev_fd[e] = f /\ w \in ev_events[e]
        <5>1. IsFiniteSet(Of(f, w)')
          BY <1>3, FS_Subset DEF Of
        <5>2. Cardinality(Of(f, w)') \in Nat /\ (Cardinality(Of(f, w)') = 0 <=> Of(f, w)' = {})
          BY <5>1, FS_CardinalityType, FS_EmptySet
        <5>3. Of(f, w)' = {e \in eventqueue : e # ev /\ ev_fd[e] = f /\ w \in ev_events[e]}
          BY <1>2 DEF Of
        <5> QED BY <5>2, <5>3
      <4>4. n' = n - N(ev, w)
        BY <1>1, <1>2, OfDel
      <4>5. (w = "read" => nread = n') /\ (w = "write" => nwrite = n')
        BY <1>1, <4>4 DEF Counted, Rw
      <4>6. w \in res <=> w \in ev_events[ev] /\ n' = 0
        BY <4>5 DEF Rw
      <4>7. CASE w \in ev_events[ev]
        <5>1. ev \in Of(f, w)
          BY <1>2, <4>7 DEF Of
        <5> QED BY <4>1, <4>2, <4>3, <4>6, <4>7, <5>1, SMTT(60)
      <4>8. CASE w \notin ev_events[ev]
        <5>1. w \in Want'[f] <=> w \in Want[f]
          BY <1>2, <4>1, <4>2, <4>8 DEF Of
        <5> QED BY <4>6, <4>8, <5>1
      <4> QED BY <4>7, <4>8
    <3> QED BY <3>2, <3>3
  <2> QED BY <1>1, <1>4, <2>1, <2>2
<1>10. /\ changes' \in Seq(Change) /\ idxplus1' \in [Fd -> Nat]
       /\ kernel' \in [Fd -> SUBSET Rw] /\ ChangelistConsistent' /\ Pending'
  <2> HIDE DEF f, res
  <2>1. Backend(f, Want[f], res,
                 IF "del" = "add" THEN event_changelist_add(f, Want[f], res)
                               ELSE event_changelist_del(f, Want[f], res),
                 IF "del" = "add" THEN epoll_nochangelist_add(f, Want[f], res)
                               ELSE epoll_nochangelist_del(f, Want[f], res))
    BY <1>5
  <2> QED BY <1>1, <1>9, <2>1, BackendStep
<1>11. IInv'
  BY <1>1, <1>2, <1>3, <1>7, <1>8, <1>10, SMTT(60) DEF IInv, TypesOK
<1>12. Want' = [Want EXCEPT ![f] = Want'[f]] /\ Want'[f] \in SUBSET Rw
  <2> HIDE DEF res
  <2> QED BY <1>1, <1>4, <1>9 DEF Want
<1>13. /\ Fd \ Fails = Fd /\ Sure(Want) = Want /\ Sure(asked) = asked
       /\ Sure(Want)' = Want' /\ Sure(asked)' = asked'
  BY <1>1, <1>11, SureIs, SureIsNext DEF IInv
<1> QED BY <1>1, <1>2, <1>11, <1>12, <1>13 DEF Abstract!Change, Abstract!Rw, Rw

LEMMA DispatchStep ==
  ASSUME ConstantsTyped, IInv, epoll_dispatch
  PROVE  IInv' /\ Abstract!Wait
<1>1. TypesOK /\ Counted /\ ChangelistConsistent /\ Pending
  BY DEF IInv
<1>2. /\ kernel' = [f \in Fd |-> epoll_apply_changes[f]] /\ asked' = kernel' /\ changes' = <<>>
      /\ idxplus1' = [f \in Fd |-> 0] /\ eventqueue' = eventqueue /\ ctx' = ctx
  BY DEF epoll_dispatch, event_changelist_remove_all, ConstantsTyped
<1>3. Want' = Want
  BY <1>2 DEF Want
<1>4. ASSUME NEW f \in Fd
      PROVE  (IF idxplus1[f] = 0 THEN kernel[f] ELSE Result(kernel[f], changes[idxplus1[f]])) = Want[f]
  <2>1. CASE idxplus1[f] = 0
    BY <1>1, <2>1 DEF Pending
  <2>2. CASE idxplus1[f] # 0
    <3>1. idxplus1[f] \in 1 .. Len(changes) /\ changes[idxplus1[f]].fd = f
      BY <1>1, <2>2, LenProperties, SMTT(60) DEF TypesOK, ChangelistConsistent
    <3>2. changes[idxplus1[f]] \in Change /\ kernel[f] \in SUBSET Rw
      BY <1>1, <3>1, ElementOfSeq DEF TypesOK
    <3>3. After(changes[idxplus1[f]]) = Want[f] /\ Linked(kernel[f], changes[idxplus1[f]])
      BY <1>1, <3>1 DEF Pending
    <3> QED BY <2>2, <3>2, <3>3, ResultWanted
  <2> QED BY <2>1, <2>2
<1>5. kernel' = Want
  BY <1>1, <1>2, <1>4, ApplyAll DEF Want
<1>6. Want \in [Fd -> SUBSET Rw]
  BY <1>1, WantIs DEF Want
<1>7. TypesOK'
  BY <1>1, <1>2, <1>5, <1>6, SMTT(60) DEF TypesOK
<1>8. Counted'
  BY <1>1, <1>2 DEF Counted, Of
<1>9. ChangelistConsistent' /\ Pending'
  <2>1. Len(changes') = 0
    BY <1>2
  <2> QED BY <1>2, <1>3, <1>5, <2>1, SMTT(60) DEF ChangelistConsistent, Pending
<1>10. Sure(asked)' = Sure(Want) /\ Sure(Want)' = Sure(Want)
  BY <1>1, <1>2, <1>3, <1>5, <1>7, SureIs, SureIsNext
<1> QED BY <1>7, <1>8, <1>9, <1>10 DEF IInv, Abstract!Wait

LEMMA ReopenStep ==
  ASSUME ConstantsTyped, IInv, NEW f \in Fd, Reopen(f)
  PROVE  IInv' /\ UNCHANGED <<Want, asked>>
<1>1. TypesOK /\ Counted /\ ChangelistConsistent /\ Pending
  BY DEF IInv
<1>2. /\ kernel' = [kernel EXCEPT ![f] = {}] /\ kernel[f] # {} /\ asked' = asked
      /\ ctx' = ctx /\ eventqueue' = eventqueue /\ changes' = changes /\ idxplus1' = idxplus1
      /\ \A ev \in eventqueue : ev_fd[ev] # f
  BY DEF Reopen
<1>3. Want' = Want
  BY <1>2 DEF Want
<1>4. Want[f] = {}
  BY <1>2 DEF Want
<1>5. idxplus1[f] # 0
  BY <1>1, <1>2, <1>4 DEF Pending
<1>6. TypesOK'
  BY <1>1, <1>2 DEF TypesOK
<1>7. Counted'
  BY <1>1, <1>2 DEF Counted, Of
<1>8. ChangelistConsistent'
  BY <1>1, <1>2 DEF ChangelistConsistent
<1>9. Pending'
  <2>1. kernel'[f] = {} /\ \A g \in Fd : g # f => kernel'[g] = kernel[g]
    BY <1>1, <1>2 DEF TypesOK
  <2>2. \A g \in Fd : idxplus1[g] = 0 => kernel'[g] = Want[g]
    BY <1>1, <1>5, <2>1 DEF Pending
  <2>3. ASSUME NEW i \in 1 .. Len(changes) PROVE Linked(kernel'[changes[i].fd], changes[i])
    <3>1. changes[i] \in Change
      BY <1>1, ElementOfSeq DEF TypesOK
    <3>2. changes[i].fd \in Fd /\ changes[i].old \in SUBSET Rw
      BY <3>1 DEF Change
    <3>3. After(changes[i]) = Want[changes[i].fd] /\ Linked(kernel[changes[i].fd], changes[i])
      BY <1>1 DEF Pending
    <3>4. CASE changes[i].fd = f
      <4>1. "read" \in changes[i].old => changes[i].read # "none"
        BY <1>4, <3>3, <3>4 DEF After, New
      <4>2. "write" \in changes[i].old => changes[i].write # "none"
        BY <1>4, <3>3, <3>4 DEF After, New
      <4> QED BY <2>1, <3>4, <4>1, <4>2 DEF Linked
    <3>5. CASE changes[i].fd # f
      BY <2>1, <3>2, <3>3, <3>5
    <3> QED BY <3>4, <3>5
  <2> QED BY <1>1, <1>2, <1>3, <2>2, <2>3 DEF Pending
<1> QED BY <1>2, <1>3, <1>6, <1>7, <1>8, <1>9 DEF IInv

----------------------------------------------------------------------------
(* The lists of events. *)

LEMMA Appended ==
  ASSUME NEW S, NEW l \in Seq(S), IsInjective(l), NEW e \in S, e \notin Range(l)
  PROVE  /\ Append(l, e) \in Seq(S) /\ IsInjective(Append(l, e))
         /\ Range(Append(l, e)) = Range(l) \cup {e}
<1> DEFINE m == Append(l, e)
           n == Len(l)
<1>1. /\ n \in Nat /\ DOMAIN l = 1 .. n /\ DOMAIN m = 1 .. n + 1
      /\ m \in Seq(S) /\ m[n + 1] = e /\ \A i \in 1 .. n : m[i] = l[i]
  BY AppendProperties, LenProperties, SMTT(60)
<1>2. \A i \in 1 .. n : l[i] # e
  BY <1>1 DEF Range
<1>3. n + 1 \in 1 .. n + 1 /\ (\A i \in 1 .. n : i \in 1 .. n + 1)
      /\ \A i \in 1 .. n + 1 : i \in 1 .. n \/ i = n + 1
  BY <1>1, SMTT(60)
<1> HIDE DEF m, n
<1>4. IsInjective(m)
  BY <1>1, <1>2, <1>3 DEF IsInjective
<1>5. Range(m) = Range(l) \cup {e}
  BY <1>1, <1>3 DEF Range
<1> QED BY <1>1, <1>4, <1>5 DEF m

LEMMA UnlinkedIs ==
  ASSUME NEW S, NEW l \in Seq(S), IsInjective(l), NEW e \in Range(l)
  PROVE  /\ Unlinked(l, e) \in Seq(S) /\ IsInjective(Unlinked(l, e))
         /\ Range(Unlinked(l, e)) = Range(l) \ {e}
<1> DEFINE m == Unlinked(l, e)
           n == Len(l)
           i == CHOOSE j \in DOMAIN l : l[j] = e
<1>1. n \in Nat /\ DOMAIN l = 1 .. n /\ \A j \in 1 .. n : l[j] \in S
  BY LenProperties, ElementOfSeq
<1>2. i \in 1 .. n /\ l[i] = e
  BY <1>1 DEF Range
<1>3. m = [j \in 1 .. n - 1 |-> IF j < i THEN l[j] ELSE l[j + 1]]
  BY DEF Unlinked
<1> HIDE DEF m, n, i
<1>4. n - 1 \in Nat /\ DOMAIN m = 1 .. n - 1
  BY <1>1, <1>2, <1>3, SMTT(60)
<1>5. \A j \in 1 .. n - 1 : /\ j < i => j \in 1 .. n /\ m[j] = l[j]
                            /\ ~(j < i) => j + 1 \in 1 .. n /\ m[j] = l[j + 1]
  BY <1>1, <1>2, <1>3, SMTT(60)
<1>6. m \in [1 .. n - 1 -> S]
  BY <1>1, <1>3, <1>5
<1>7. m \in Seq(S)
  BY <1>4, <1>6, SeqDef
<1>8. \A j, k \in 1 .. n : l[j] = l[k] => j = k
  BY <1>1 DEF IsInjective
<1>9. ASSUME NEW j \in 1 .. n - 1, NEW k \in 1 .. n - 1, m[j] = m[k] PROVE j = k
  BY <1>1, <1>2, <1>5, <1>8, <1>9, SMTT(60)
<1>10. ASSUME NEW j \in 1 .. n - 1
       PROVE  \E k \in 1 .. n : k # i /\ m[j] = l[k]
  BY <1>1, <1>2, <1>5, SMTT(60)
<1>11. ASSUME NEW k \in 1 .. n, k # i
       PROVE  \E j \in 1 .. n - 1 : m[j] = l[k]
  <2>1. CASE k < i
    BY <1>1, <1>2, <1>5, <2>1, SMTT(60)
  <2>2. CASE ~(k < i)
    <3>1. k - 1 \in 1 .. n - 1 /\ ~(k - 1 < i) /\ k - 1 + 1 = k
      BY <1>1, <1>2, <1>11, <2>2, SMTT(60)
    <3> QED BY <1>5, <3>1
  <2> QED BY <2>1, <2>2
<1>12. Range(m) = Range(l) \ {e}
  <2>1. ASSUME NEW x \in Range(m) PROVE x \in Range(l) /\ x # e
    <3>1. PICK j \in 1 .. n - 1 : x = m[j]
      BY <1>4 DEF Range
    <3>2. PICK k \in 1 .. n : k # i /\ m[j] = l[k]
      BY <1>10
    <3> QED BY <1>1, <1>2, <1>8, <3>1, <3>2 DEF Range
  <2>2. ASSUME NEW x \in Range(l), x # e PROVE x \in Range(m)
    <3>1. PICK k \in 1 .. n : x = l[k]
      BY <1>1 DEF Range
    <3>2. PICK j \in 1 .. n - 1 : m[j] = l[k]
      BY <1>2, <1>11, <2>2, <3>1
    <3> QED BY <1>4, <3>1, <3>2 DEF Range
  <2> QED BY <2>1, <2>2
<1>13. IsInjective(m)
  BY <1>4, <1>9 DEF IsInjective
<1> QED BY <1>7, <1>12, <1>13 DEF m

LEMMA ListedStep ==
  ASSUME ConstantsTyped, TypesOK, Listed, [Next]_vars
  PROVE  Listed'
<1>1. ASSUME NEW ev \in Event, Add(ev) PROVE Listed'
  <2>1. /\ ev_fd[ev] \in Fd /\ ev \notin eventqueue /\ eventqueue' = eventqueue \cup {ev}
        /\ ctx'[ev_fd[ev]].events = Append(ctx[ev_fd[ev]].events, ev)
        /\ \A f \in Fd : f # ev_fd[ev] => ctx'[f] = ctx[f]
    BY <1>1 DEF Add, evmap_io_add, ConstantsTyped, TypesOK
  <2> SUFFICES ASSUME NEW f \in Fd
               PROVE  /\ ctx'[f].events \in Seq(Event) /\ IsInjective(ctx'[f].events)
                      /\ Range(ctx'[f].events) = {e \in eventqueue' : ev_fd[e] = f}
    BY DEF Listed
  <2>2. /\ ctx[f].events \in Seq(Event) /\ IsInjective(ctx[f].events)
        /\ Range(ctx[f].events) = {e \in eventqueue : ev_fd[e] = f}
    BY DEF Listed
  <2>3. CASE f = ev_fd[ev]
    <3>1. ev \notin Range(ctx[f].events)
      BY <2>1, <2>2
    <3>2. {e \in eventqueue' : ev_fd[e] = f} = {e \in eventqueue : ev_fd[e] = f} \cup {ev}
      BY <2>1, <2>3
    <3>3. ctx'[f].events = Append(ctx[f].events, ev)
      BY <2>1, <2>3
    <3> DEFINE l == ctx[f].events
    <3>4. l \in Seq(Event) /\ IsInjective(l)
      BY <2>2
    <3> HIDE DEF l
    <3>5. /\ Append(l, ev) \in Seq(Event) /\ IsInjective(Append(l, ev))
          /\ Range(Append(l, ev)) = Range(l) \cup {ev}
      BY <3>1, <3>4, Appended DEF l
    <3> QED BY <2>2, <3>2, <3>3, <3>5 DEF l
  <2>4. CASE f # ev_fd[ev]
    BY <2>1, <2>2, <2>4
  <2> QED BY <2>3, <2>4
<1>2. ASSUME NEW ev \in Event, Del(ev) PROVE Listed'
  <2>1. /\ ev_fd[ev] \in Fd /\ ev \in eventqueue /\ eventqueue' = eventqueue \ {ev}
        /\ ctx'[ev_fd[ev]].events = Unlinked(ctx[ev_fd[ev]].events, ev)
        /\ \A f \in Fd : f # ev_fd[ev] => ctx'[f] = ctx[f]
    <3>1. ev_fd[ev] \in Fd /\ ev_fd[ev] \notin Fails /\ ctx = [f \in Fd |-> ctx[f]]
      BY DEF ConstantsTyped, TypesOK
    <3>2. /\ ev \in eventqueue /\ eventqueue' = eventqueue \ {ev}
          /\ \E n, m : ctx' = [ctx EXCEPT ![ev_fd[ev]] =
                                  [nread |-> n, nwrite |-> m, events |-> Unlinked(ctx[ev_fd[ev]].events, ev)]]
      BY <1>2, <3>1 DEF Del, evmap_io_del
    <3>3. PICK n, m : ctx' = [ctx EXCEPT ![ev_fd[ev]] =
                                [nread |-> n, nwrite |-> m, events |-> Unlinked(ctx[ev_fd[ev]].events, ev)]]
      BY <3>2
    <3>4. ctx'[ev_fd[ev]] = [nread |-> n, nwrite |-> m, events |-> Unlinked(ctx[ev_fd[ev]].events, ev)]
      BY <3>1, <3>3
    <3> QED BY <3>1, <3>2, <3>3, <3>4
  <2> SUFFICES ASSUME NEW f \in Fd
               PROVE  /\ ctx'[f].events \in Seq(Event) /\ IsInjective(ctx'[f].events)
                      /\ Range(ctx'[f].events) = {e \in eventqueue' : ev_fd[e] = f}
    BY DEF Listed
  <2>2. /\ ctx[f].events \in Seq(Event) /\ IsInjective(ctx[f].events)
        /\ Range(ctx[f].events) = {e \in eventqueue : ev_fd[e] = f}
    BY DEF Listed
  <2>3. CASE f = ev_fd[ev]
    <3>1. ev \in Range(ctx[f].events)
      BY <2>1, <2>2, <2>3
    <3>2. {e \in eventqueue' : ev_fd[e] = f} = {e \in eventqueue : ev_fd[e] = f} \ {ev}
      BY <2>1
    <3>3. ctx'[f].events = Unlinked(ctx[f].events, ev)
      BY <2>1, <2>3
    <3> DEFINE l == ctx[f].events
    <3>4. l \in Seq(Event) /\ IsInjective(l)
      BY <2>2
    <3> HIDE DEF l
    <3>5. /\ Unlinked(l, ev) \in Seq(Event) /\ IsInjective(Unlinked(l, ev))
          /\ Range(Unlinked(l, ev)) = Range(l) \ {ev}
      BY <3>1, <3>4, UnlinkedIs DEF l
    <3> QED BY <2>2, <3>2, <3>3, <3>5 DEF l
  <2>4. CASE f # ev_fd[ev]
    BY <2>1, <2>2, <2>4
  <2> QED BY <2>3, <2>4
<1>3. ASSUME UNCHANGED <<ctx, eventqueue>> PROVE Listed'
  BY <1>3 DEF Listed
<1> QED BY <1>1, <1>2, <1>3 DEF Next, vars, epoll_dispatch, epoll_return, Reopen

LEMMA InitStep ==
  ASSUME ConstantsTyped, Init
  PROVE  IInv /\ Abstract!Init
<1>1. /\ eventqueue = {} /\ changes = <<>> /\ idxplus1 = [f \in Fd |-> 0]
      /\ kernel = [f \in Fd |-> {}] /\ asked = [f \in Fd |-> {}]
      /\ ctx = [f \in Fd |-> [nread |-> 0, nwrite |-> 0, events |-> <<>>]]
  BY DEF Init
<1>2. Want = [f \in Fd |-> {}] /\ \A f, w : Of(f, w) = {}
  BY <1>1 DEF Want, Of
<1>3. Cardinality({}) = 0 /\ IsFiniteSet({})
  BY FS_EmptySet
<1>4. TypesOK
  BY <1>1, <1>3, SMTT(60) DEF TypesOK
<1>5. Counted
  BY <1>1, <1>2, <1>3 DEF Counted
<1>6. Len(changes) = 0
  BY <1>1
<1>7. ChangelistConsistent /\ Pending
  BY <1>1, <1>2, <1>6, SMTT(60) DEF ChangelistConsistent, Pending
<1> QED BY <1>1, <1>2, <1>4, <1>5, <1>7, SureIs DEF IInv, Abstract!Init

LEMMA StepIs ==
  ASSUME ConstantsTyped, IInv, [Next]_vars
  PROVE  IInv' /\ (Abstract!Next \/ UNCHANGED <<Sure(Want), Sure(asked)>>)
<1>1. ASSUME NEW ev \in Event, Add(ev) PROVE IInv' /\ Abstract!Next
  BY <1>1, AddStep DEF Abstract!Next
<1>2. ASSUME NEW ev \in Event, Del(ev) PROVE IInv' /\ Abstract!Next
  BY <1>2, DelStep DEF Abstract!Next
<1>3. CASE epoll_dispatch
  BY <1>3, DispatchStep DEF Abstract!Next
<1>4. ASSUME NEW f \in Fd, Reopen(f) PROVE IInv' /\ UNCHANGED <<Sure(Want), Sure(asked)>>
  BY <1>4, ReopenStep, SureIs, SureIsNext DEF IInv
<1>5. CASE epoll_return \/ UNCHANGED vars
  <2>1. UNCHANGED <<ctx, eventqueue, changes, idxplus1, kernel, asked>>
    BY <1>5 DEF epoll_return, vars
  <2>2. Want' = Want
    BY <2>1 DEF Want
  <2>3. TypesOK' /\ Counted' /\ ChangelistConsistent'
    BY <2>1 DEF IInv, TypesOK, Counted, Of, ChangelistConsistent
  <2>4. Pending'
    BY <2>1, <2>2 DEF IInv, Pending
  <2> QED BY <2>1, <2>2, <2>3, <2>4, SureIs, SureIsNext DEF IInv
<1> QED BY <1>1, <1>2, <1>3, <1>4, <1>5 DEF Next

\* At each wait epoll is asked for exactly what the inserted events want,
\* whatever was added, deleted, taken back or closed and reopened in between,
\* with the changelist and without it, as long as epoll_ctl does not fail.
THEOREM EpollImplements ==
  ASSUME ConstantsTyped
  PROVE  Spec => Abstract!Spec
<1>1. Init => IInv /\ Abstract!Init
  BY InitStep
<1>2. IInv /\ [Next]_vars => IInv' /\ [Abstract!Next]_<<Sure(Want), Sure(asked)>>
  BY StepIs
<1> QED BY <1>1, <1>2, PTL DEF Spec, Abstract!Spec

\* The assertions of evmap_check_integrity and event_changelist_check hold
\* after every operation: an event is in the list of its descriptor, once,
\* exactly when it is inserted, nread and nwrite count those lists, and the
\* change of a descriptor is where its fdinfo says.
THEOREM MapIsSound ==
  ASSUME ConstantsTyped
  PROVE  Spec => [](MapMatchesQueue /\ CountsMatch /\ ChangelistConsistent)
<1>1. Init => IInv /\ Listed
  <2> SUFFICES ASSUME Init, NEW f \in Fd
               PROVE  /\ ctx[f].events \in Seq(Event) /\ IsInjective(ctx[f].events)
                      /\ Range(ctx[f].events) = {e \in eventqueue : ev_fd[e] = f}
    BY InitStep DEF Listed
  <2>1. ctx[f].events = <<>> /\ eventqueue = {}
    BY DEF Init
  <2>2. <<>> \in Seq(Event) /\ DOMAIN <<>> = {}
    BY SMTT(60)
  <2> QED BY <2>1, <2>2 DEF IsInjective, Range
<1>2. IInv /\ Listed /\ [Next]_vars => IInv' /\ Listed'
  BY StepIs, ListedStep DEF IInv
<1>3. IInv /\ Listed => MapMatchesQueue /\ CountsMatch /\ ChangelistConsistent
  <2> SUFFICES ASSUME IInv, Listed PROVE MapMatchesQueue /\ CountsMatch
    BY DEF IInv
  <2>1. ASSUME NEW f \in Fd
        PROVE  /\ Range(ctx[f].events) = {e \in eventqueue : ev_fd[e] = f}
               /\ Cardinality(Range(ctx[f].events)) = Len(ctx[f].events)
    <3> DEFINE l == ctx[f].events
    <3>1. /\ l \in Seq(Event) /\ IsInjective(l)
          /\ Range(l) = {e \in eventqueue : ev_fd[e] = f}
      BY DEF Listed
    <3> HIDE DEF l
    <3>2. Len(l) \in Nat /\ DOMAIN l = 1 .. Len(l) /\ l \in [1 .. Len(l) -> Range(l)]
      <4>1. Len(l) \in Nat /\ l \in [1 .. Len(l) -> Event]
        BY <3>1, LenProperties
      <4> QED BY <4>1 DEF Range
    <3>3. l \in Bijection(1 .. Len(l), Range(l))
      BY <3>1, <3>2 DEF Bijection, Injection, Surjection, Range
    <3>4. Cardinality(Range(l)) = Len(l)
      BY <3>2, <3>3, FS_CountingElements DEF ExistsBijection
    <3> QED BY <3>1, <3>4 DEF l
  <2>2. ASSUME NEW f \in Fd
        PROVE  \A w \in Rw : {e \in Range(ctx[f].events) : w \in ev_events[e]} = Of(f, w)
    BY <2>1 DEF Of
  <2>3. MapMatchesQueue
    BY <2>1 DEF MapMatchesQueue
  <2>4. CountsMatch
    BY <2>2 DEF CountsMatch, IInv, Counted, Rw
  <2> QED BY <2>3, <2>4
<1> QED BY <1>1, <1>2, <1>3, PTL DEF Spec
=============================================================================
