------------------------------ MODULE Evbuffer ------------------------------
(***************************************************************************)
(* evbuffers (buffer.c): a byte sequence kept in a list of chains.         *)
(*                                                                         *)
(* A chain has buffer_len, misalign and its bytes (off is their number);   *)
(* kind is "mem" for memory of its own, anything else for the immutable    *)
(* kinds (reference, mmap, sendfile).  last_with_datap points at a "next"  *)
(* pointer: it is kept as the number of the chain that pointer leads to,   *)
(* so 1 is &buf->first and Len(chains) + 1 a NULL.  ok becomes FALSE where *)
(* an EVUTIL_ASSERT fails, which ends the program.                         *)
(*                                                                         *)
(* Four fields are history.  shown is the length at the last callback,     *)
(* spilled says that since then evbuffer_prepend has needed a new chain,   *)
(* and told that the last callback's n_added and n_deleted accounted for   *)
(* the change since the one before, or that a prepend had spilled.  behind *)
(* says that evbuffer_add has written into a last chain that was not the   *)
(* one last_with_datap leads to, since the buffer had no chains.           *)
(***************************************************************************)
EXTENDS Integers, Sequences, SequencesExt, FiniteSetsExt

CONSTANTS Buf,
          Ops,                            \* the operations the user calls
          MIN_BUFFER_SIZE,                \* smallest chain
          EVBUFFER_CHAIN_MAX_AUTO_SIZE,   \* chains double up to this
          MAX_TO_REALIGN_IN_EXPAND,
          NUM_READ_IOVEC,
          EV_SIZE_MAX,                    \* evbuffer_add refuses to pass it
          MaxOp                           \* bound: bytes of one operation

(* at most one byte is marked: where it goes, every byte goes *)
Byte == {0, 1}

VARIABLE bufs

vars == bufs

-----------------------------------------------------------------------------
(* Chains *)

evbuffer_chain_new(size) ==
    LET cap == Min({k \in {MIN_BUFFER_SIZE * 2^e : e \in 0..4} : k >= size}) IN
    [buffer_len |-> cap, misalign |-> 0, data |-> <<>>, kind |-> "mem", pins |-> {}]

Off(c) == Len(c.data)
Immutable(c) == c.kind # "mem"
Pinned(c) == c.pins # {}
CHAIN_SPACE_LEN(c) == IF Immutable(c) THEN 0 ELSE c.buffer_len - (c.misalign + Off(c))

evbuffer_chain_align(c) == [c EXCEPT !.misalign = 0]

evbuffer_chain_should_realign(c, datlen) ==
    /\ c.buffer_len - Off(c) >= datlen
    /\ Off(c) < c.buffer_len \div 2
    /\ Off(c) <= MAX_TO_REALIGN_IN_EXPAND

(* the front n bytes leave the chain *)
Skip(c, n) == [c EXCEPT !.misalign = @ + n, !.data = SubSeq(@, n + 1, Len(@))]

evbuffer_new == [chains |-> <<>>, lwd |-> 1, total_len |-> 0, n_add |-> 0, n_del |-> 0,
                 shown |-> 0, spilled |-> FALSE, told |-> TRUE, behind |-> FALSE, freeze_start |-> FALSE, freeze_end |-> FALSE, ok |-> TRUE]

RECURSIVE Joined(_)
Joined(cs) == IF cs = <<>> THEN <<>> ELSE Head(cs).data \o Joined(Tail(cs))

Flat(b) == Joined(b.chains)

Bytes(cs) == Len(Joined(cs))

(* f[lo] + ... + f[hi] *)
RECURSIVE SumOf(_, _, _)
SumOf(f, lo, hi) == IF lo > hi THEN 0 ELSE f[hi] + SumOf(f, lo, hi - 1)

EVUTIL_ASSERT(b, P) == [b EXCEPT !.ok = @ /\ P]

evbuffer_chains_all_empty(cs) == \A i \in DOMAIN cs : Off(cs[i]) = 0

HAS_PINNED_R(b) == b.chains # <<>> /\ "R" \in Last(b.chains).pins

ZERO_CHAIN(b) == [b EXCEPT !.chains = <<>>, !.lwd = 1, !.total_len = 0, !.behind = FALSE]

(* the first chain from last_with_datap on that is empty and not pinned, or 0 *)
Victim(b) ==
    LET V == {i \in b.lwd..Len(b.chains) : Off(b.chains[i]) = 0 /\ ~Pinned(b.chains[i])}
    IN IF V = {} THEN 0 ELSE Min(V)

evbuffer_free_trailing_empty_chains(b) ==
    LET v == Victim(b) IN
    IF v = 0 THEN b
    ELSE EVUTIL_ASSERT([b EXCEPT !.chains = SubSeq(@, 1, v - 1)],
                       evbuffer_chains_all_empty(SubSeq(b.chains, v, Len(b.chains))))

evbuffer_chain_insert(b, c) ==
    LET v == Victim(b)
        n == Len(b.chains)
        placed ==
            CASE b.lwd > n -> EVUTIL_ASSERT([b EXCEPT !.chains = <<c>>], n = 0)
              [] b.lwd <= n /\ v = 0 ->
                     [b EXCEPT !.chains = Append(@, c), !.lwd = IF Off(c) > 0 THEN n + 1 ELSE @]
              [] OTHER -> LET f == evbuffer_free_trailing_empty_chains(b) IN
                          [f EXCEPT !.chains = Append(@, c)]
    IN [placed EXCEPT !.total_len = @ + Off(c)]

(* mutant: last_with_datap stays *)
advance_last_with_data_Stays(b) == b

RECURSIVE advance_last_with_data(_)
advance_last_with_data(b) ==
    IF b.lwd < Len(b.chains) /\ Off(b.chains[b.lwd + 1]) > 0
    THEN advance_last_with_data([b EXCEPT !.lwd = @ + 1])
    ELSE b

(* one immediate callback; a user with none is a user that does not look *)
evbuffer_invoke_callbacks(b) ==
    IF b.n_add = 0 /\ b.n_del = 0 THEN b
    ELSE [b EXCEPT !.shown = b.total_len, !.spilled = FALSE,
                   !.told = b.spilled \/ b.total_len = b.shown + b.n_add - b.n_del,
                   !.n_add = 0, !.n_del = 0]

(* bytes d go to the end of chain i *)
Fill(b, i, d) == [b EXCEPT !.chains[i].data = @ \o d, !.total_len = @ + Len(d), !.n_add = @ + Len(d)]

-----------------------------------------------------------------------------
(* Adding at the ends *)

WithChain(b, len) == IF b.chains = <<>> THEN evbuffer_chain_insert(b, evbuffer_chain_new(len)) ELSE b

(* what the last chain c has no room for goes into a new one *)
AddBehind(b, c, d) ==
    LET twice == IF c.buffer_len <= EVBUFFER_CHAIN_MAX_AUTO_SIZE \div 2
                 THEN 2 * c.buffer_len ELSE c.buffer_len
        remain == CHAIN_SPACE_LEN(c)
        rest == SubSeq(d, remain + 1, Len(d))
        tmp == [evbuffer_chain_new(Max({twice, Len(d)})) EXCEPT !.data = rest]
    IN [evbuffer_chain_insert(Fill(b, Len(b.chains), SubSeq(d, 1, remain)), tmp) EXCEPT !.n_add = @ + Len(rest)]

AddTo(b, c, d) ==
    IF ~Immutable(c) /\ CHAIN_SPACE_LEN(c) >= Len(d) THEN Fill(b, Len(b.chains), d)
    ELSE IF ~Immutable(c) /\ ~Pinned(c) /\ evbuffer_chain_should_realign(c, Len(d))
    THEN Fill([b EXCEPT !.chains[Len(b.chains)] = evbuffer_chain_align(c)], Len(b.chains), d)
    ELSE AddBehind(b, c, d)

AddLast(b, d) == [AddTo(b, Last(b.chains), d) EXCEPT !.behind = @ \/ b.lwd < Len(b.chains)]

evbuffer_add(b, d) ==
    IF b.freeze_end \/ Len(d) > EV_SIZE_MAX - b.total_len THEN b
    ELSE evbuffer_invoke_callbacks(AddLast(WithChain(b, Len(d)), d))

(* the part of d that goes in front of the first chain's data *)
FitsInFront(d, k) == SubSeq(d, Len(d) - k + 1, Len(d))

(* what is left of the data goes into a chain of its own, and n_added grows by
   the room there still is in the chain behind it *)
PrependChain(b, left, room) ==
    LET new == evbuffer_chain_new(Len(left)) IN
    [b EXCEPT !.chains = <<[new EXCEPT !.data = left, !.misalign = new.buffer_len - Len(left)]>> \o @,
              !.lwd = @ + 1, !.total_len = @ + Len(left), !.n_add = @ + room, !.spilled = TRUE]

(* the last k bytes of d fit in front of the first chain c *)
PrependTo(b, c, d) ==
    LET room == IF Immutable(c) THEN 0 ELSE c.misalign
        k == Min({room, Len(d)})
        full == [c EXCEPT !.data = FitsInFront(d, k) \o @, !.misalign = @ - k]
        b1 == [b EXCEPT !.chains[1] = full, !.total_len = @ + k, !.n_add = @ + k]
    IN IF ~Immutable(c) /\ room >= Len(d) THEN b1
       ELSE PrependChain(b1, SubSeq(d, 1, Len(d) - k), c.misalign - k)

(* an empty chain is filled from its end *)
PrependFirst(b, d) ==
    LET c == b.chains[1] IN
    PrependTo(b, IF ~Immutable(c) /\ Off(c) = 0 THEN [c EXCEPT !.misalign = c.buffer_len] ELSE c, d)

evbuffer_prepend(b, d) ==
    IF b.freeze_start \/ Len(d) > EV_SIZE_MAX - b.total_len THEN b
    ELSE evbuffer_invoke_callbacks(PrependFirst(WithChain(b, Len(d)), d))

evbuffer_add_reference(b, d, kind) ==
    LET c == [buffer_len |-> Len(d), misalign |-> 0, data |-> d, kind |-> kind, pins |-> {}] IN
    IF b.freeze_end THEN b
    ELSE evbuffer_invoke_callbacks([evbuffer_chain_insert(b, c) EXCEPT !.n_add = @ + Len(d)])

-----------------------------------------------------------------------------
(* Taking from the front *)

(* how many chains, from number i on, the n bytes swallow whole *)
Whole(cs, i, n) ==
    Max({j \in (i - 1)..Len(cs) : Bytes(SubSeq(cs, i, j)) <= n})

(* n bytes go, and with them chains 1 to k; last = k + 1 is a read-pinned
   chain, which stays in the list, emptied, and ends the loop *)
Drained(b, n, k, last) ==
    LET remaining == n - Bytes(SubSeq(b.chains, 1, last))
        rest == SubSeq(b.chains, k + 1, Len(b.chains))
        front == Skip(rest[1], IF last > k THEN Off(rest[1]) ELSE remaining)
    IN [EVUTIL_ASSERT(b, last = k \/ remaining = 0)
           EXCEPT !.chains = IF rest = <<>> THEN rest ELSE <<front>> \o Tail(rest),
                  !.lwd = IF b.lwd \in 1..(last + 1) THEN 1 ELSE @ - k,
                  !.total_len = @ - n]

(* w chains are swallowed whole, if none is pinned *)
DrainChains(b, n, w) ==
    LET P == {i \in 1..w : "R" \in b.chains[i].pins}
    IN IF P = {} THEN Drained(b, n, w, w) ELSE Drained(b, n, Min(P) - 1, Min(P))

evbuffer_drain(b, len) ==
    LET n == Min({len, b.total_len})
    IN IF b.total_len = 0 \/ b.freeze_start THEN b
       ELSE evbuffer_invoke_callbacks(
                [(IF len >= b.total_len /\ ~HAS_PINNED_R(b) THEN ZERO_CHAIN(b)
                  ELSE DrainChains(b, n, Whole(b.chains, 1, n))) EXCEPT !.n_del = @ + n])

-----------------------------------------------------------------------------
(* Moving between buffers *)

(* the chains that can leave src, and the read-pinned ones that stay *)
PRESERVE_PINNED(s) ==
    LET p == IF "R" \in s.chains[s.lwd].pins THEN s.lwd ELSE s.lwd + 1
        c == s.chains[p]
        tmp == [evbuffer_chain_new(Off(c)) EXCEPT !.data = c.data]
        front == SubSeq(s.chains, 1, p - 1)
    IN IF ~HAS_PINNED_R(s) THEN [moved |-> s.chains, kept |-> <<>>]
       ELSE [moved |-> IF Off(c) > 0 THEN Append(front, tmp) ELSE front,
             kept |-> <<Skip(c, Off(c))>> \o SubSeq(s.chains, p + 1, Len(s.chains))]

(* mutant: the source is left as it was *)
RESTORE_PINNED_Keeps(s, kept) == s

RESTORE_PINNED(s, kept) == [s EXCEPT !.chains = kept, !.lwd = 1, !.total_len = 0, !.behind = FALSE]

COPY_CHAIN(d, moved, s) == [d EXCEPT !.chains = moved, !.lwd = s.lwd, !.total_len = s.total_len,
                                     !.behind = s.behind]

APPEND_CHAIN(d, moved, s) == [d EXCEPT !.chains = @ \o moved,
                                       !.lwd = Len(d.chains) + s.lwd,
                                       !.total_len = @ + s.total_len, !.behind = @ \/ s.behind]

(* mutant: the chains go behind *)
PREPEND_CHAIN_Behind(d, moved, s) == APPEND_CHAIN(d, moved, s)

PREPEND_CHAIN(d, moved, s) ==
    [d EXCEPT !.chains = moved \o @,
              !.lwd = IF d.lwd > Len(d.chains) THEN s.lwd ELSE Len(moved) + @,
              !.total_len = @ + s.total_len, !.behind = @ \/ s.behind]

MoveAll(d, s, where) ==
    LET p == PRESERVE_PINNED(s)
        into == CASE d.total_len = 0 -> COPY_CHAIN(d, p.moved, s)
                  [] d.total_len # 0 /\ where = "end" -> APPEND_CHAIN(d, p.moved, s)
                  [] d.total_len # 0 /\ where = "start" -> PREPEND_CHAIN(d, p.moved, s)
    IN [dst |-> evbuffer_invoke_callbacks([into EXCEPT !.n_add = @ + s.total_len]),
        src |-> evbuffer_invoke_callbacks(
                    [RESTORE_PINNED(s, p.kept) EXCEPT !.n_del = @ + s.total_len])]

evbuffer_add_buffer(d, s) ==
    IF s.total_len = 0 \/ d.freeze_end \/ s.freeze_start THEN [dst |-> d, src |-> s]
    ELSE MoveAll(d, s, "end")

evbuffer_prepend_buffer(d, s) ==
    IF s.total_len = 0 \/ d.freeze_start \/ s.freeze_start THEN [dst |-> d, src |-> s]
    ELSE MoveAll(d, s, "start")

(* the first k chains go over whole, nread bytes, and a part of the next *)
RemovePart(s, d, n, k, nread) ==
    LET cleared == evbuffer_free_trailing_empty_chains(d)
        d1 == IF nread = 0 THEN d
              ELSE [advance_last_with_data([cleared EXCEPT !.chains = @ \o SubSeq(s.chains, 1, k)])
                       EXCEPT !.total_len = @ + nread, !.n_add = @ + nread]
        c == s.chains[k + 1]
        gone == IF nread = 0 THEN 0 ELSE k
        s1 == [s EXCEPT !.chains = SubSeq(@, gone + 1, k) \o <<Skip(c, n - nread)>> \o SubSeq(@, k + 2, Len(@)),
                        !.lwd = IF @ \in 2..(k + 1) THEN 1 ELSE @ - gone,
                        !.total_len = @ - n, !.n_del = @ + n]
    IN [dst |-> evbuffer_invoke_callbacks(evbuffer_add(d1, SubSeq(c.data, 1, n - nread))),
        src |-> EVUTIL_ASSERT(evbuffer_invoke_callbacks(s1), k = 0 \/ s.lwd > 1)]

RemoveChains(s, d, n, k) == RemovePart(s, d, n, k, Bytes(SubSeq(s.chains, 1, k)))

evbuffer_remove_buffer(s, d, n) ==
    CASE n = 0 \/ d.freeze_end \/ s.freeze_start -> [dst |-> d, src |-> s]
      [] n > 0 /\ n >= s.total_len -> evbuffer_add_buffer(d, s)
      [] OTHER -> RemoveChains(s, d, n, Whole(s.chains, 1, n))

(* tmp takes the first size bytes; the chains from number from to w are freed,
   and the next loses what it still had to give *)
Pulled(b, tmp, from, w, taken) ==
    LET rest == SubSeq(b.chains, w + 1, Len(b.chains))
        new == <<tmp>> \o (IF rest = <<>> THEN rest ELSE <<Skip(rest[1], taken)>> \o Tail(rest))
    IN [b EXCEPT !.chains = new,
                 !.lwd = CASE b.lwd \in from..w -> 1
                           [] b.lwd - 1 \in from..w /\ b.lwd > w ->
                                  IF rest # <<>> /\ Off(new[2]) > 0 THEN 2 ELSE 1
                           [] OTHER -> b.lwd - (w - from) - (from - 1)]

(* need bytes are fetched from later chains: into c, the first, or a new one *)
PullInto(b, c, size, need, here) ==
    LET w == IF here THEN Whole(b.chains, 2, need) ELSE Whole(b.chains, 1, size)
        tmp == [(IF here THEN c ELSE evbuffer_chain_new(size)) EXCEPT !.data = SubSeq(Flat(b), 1, size)]
        copied == {j \in 2..Len(b.chains) : Bytes(SubSeq(b.chains, 2, j - 1)) < need}
    IN IF (\E j \in copied : Pinned(b.chains[j])) \/ (Pinned(c) /\ ~here) THEN b
       ELSE IF here THEN Pulled(b, tmp, 2, w, need - Bytes(SubSeq(b.chains, 2, w)))
       ELSE Pulled(b, tmp, 1, w, size - Bytes(SubSeq(b.chains, 1, w)))

evbuffer_pullup(b, size) ==
    LET c == b.chains[1]
        need == size - Off(c)
    IN IF size = 0 \/ size > b.total_len THEN b
       ELSE IF need <= 0 THEN b
       ELSE PullInto(b, c, size, need, IF Pinned(c) THEN CHAIN_SPACE_LEN(c) >= need
                                       ELSE c.buffer_len - c.misalign >= size)

-----------------------------------------------------------------------------
(* Making room at the end, and filling it *)

(* the first chain with room: last_with_data or the one after it *)
FirstSpace(b) == IF b.lwd <= Len(b.chains) /\ CHAIN_SPACE_LEN(b.chains[b.lwd]) = 0
                 THEN b.lwd + 1 ELSE b.lwd

(* "Would expanding this chunk be affordable and worthwhile?"  The last of
   the three conditions holds for every sane size, so a chain is never
   resized: either the next one has the room or a new one is inserted. *)
InNewChain(b) == [b |-> b, i |-> Len(b.chains)]

ExpandAt(b, i, datlen) ==
    LET c == b.chains[i]
        usable == i <= Len(b.chains) /\ ~Immutable(c) /\ ~Pinned(c)
    IN IF usable /\ CHAIN_SPACE_LEN(c) >= datlen THEN [b |-> b, i |-> i]
       ELSE IF usable /\ Off(c) > 0 /\ evbuffer_chain_should_realign(c, datlen)
            THEN [b |-> [b EXCEPT !.chains[i] = evbuffer_chain_align(c)], i |-> i]
       ELSE IF usable /\ Off(c) > 0 /\ i < Len(b.chains) /\ CHAIN_SPACE_LEN(b.chains[i + 1]) >= datlen
            THEN [b |-> b, i |-> i + 1]
       ELSE InNewChain(evbuffer_chain_insert(b, evbuffer_chain_new(datlen)))

evbuffer_expand_singlechain(b, datlen) == ExpandAt(b, FirstSpace(b), datlen)

(* the chains that stay when every empty one is nuked *)
WithData(b) == SubSeq(b.chains, 1, b.lwd)

(* the room in chain c once it is aligned, in the chains lwd to i, and how many
   of these have some *)
RoomIn(c) == IF Off(c) = 0 THEN c.buffer_len ELSE CHAIN_SPACE_LEN(c)
Avail(b, i) == SumOf([j \in DOMAIN b.chains |-> RoomIn(b.chains[j])], b.lwd, i)
InUse(b, i) == Cardinality({j \in b.lwd..i : RoomIn(b.chains[j]) > 0})

(* the chain at which the loop stops: enough room, or n chains in use *)
StopAt(b, datlen, n) ==
    LET stops == {i \in b.lwd..Len(b.chains) : Avail(b, i) >= datlen \/ InUse(b, i) = n}
    IN IF stops = {} THEN Len(b.chains) ELSE Min(stops)

AlignedTo(b, stop) ==
    EVUTIL_ASSERT([b EXCEPT !.chains = [i \in DOMAIN @ |-> IF i \in b.lwd..stop /\ Off(@[i]) = 0
                                                           THEN [@[i] EXCEPT !.misalign = 0] ELSE @[i]]],
                  \A i \in (b.lwd + 1)..stop : Off(b.chains[i]) = 0)

ExpandTo(b, a, stop, datlen, n) ==
    LET c == b.chains[b.lwd]
        none == Off(c) = 0
    IN IF Avail(b, stop) >= datlen THEN a
       ELSE IF InUse(b, stop) < n
       THEN [a EXCEPT !.chains = Append(@, evbuffer_chain_new(datlen - Avail(b, stop)))]
       ELSE [EVUTIL_ASSERT(a, none => b.lwd = 1) EXCEPT
                !.chains = Append(IF none THEN <<>> ELSE WithData(a),
                                  evbuffer_chain_new(datlen - (IF none THEN 0 ELSE CHAIN_SPACE_LEN(c)))),
                !.lwd = IF none THEN 1 ELSE @]

ExpandUpTo(b, stop, datlen, n) == ExpandTo(b, AlignedTo(b, stop), stop, datlen, n)

_evbuffer_expand_fast(b, datlen, n) ==
    IF b.chains = <<>> \/ (b.chains # <<>> /\ Immutable(Last(b.chains)))
    THEN evbuffer_chain_insert(b, evbuffer_chain_new(datlen))
    ELSE ExpandUpTo(b, StopAt(b, datlen, n), datlen, n)

(* the room in the chains from FirstSpace on; a read or a reservation is given
   the first n_vecs of them, exact no more than howmuch *)
Rooms(b) == LET f == FirstSpace(b) IN [i \in 1..(Len(b.chains) - f + 1) |-> CHAIN_SPACE_LEN(b.chains[f + i - 1])]
Before(room, i) == SumOf(room, 1, i - 1)

_evbuffer_read_setup_vecs(room, howmuch, n_vecs, exact) ==
    [i \in 1..Cardinality({j \in 1..n_vecs : j <= Len(room) /\ Before(room, j) < howmuch}) |->
        IF exact /\ room[i] > howmuch - Before(room, i) THEN howmuch - Before(room, i) ELSE room[i]]

(* the chains whose room is handed to the user, with how much there is *)
ReserveOne(e, space, size) ==
    [b |-> EVUTIL_ASSERT(e.b, space >= size), at |-> <<e.i>>, len |-> <<space>>]
ReserveIn(e, size) == ReserveOne(e, CHAIN_SPACE_LEN(e.b.chains[e.i]), size)
ReserveVecs(b, len) == [b |-> b, at |-> [i \in DOMAIN len |-> FirstSpace(b) + i - 1], len |-> len]
ReserveAll(b, size, n_vecs) == ReserveVecs(b, _evbuffer_read_setup_vecs(Rooms(b), size, n_vecs, FALSE))

evbuffer_reserve_space(b, size, n_vecs) ==
    IF n_vecs = 1 THEN ReserveIn(evbuffer_expand_singlechain(b, size), size)
    ELSE ReserveAll(_evbuffer_expand_fast(b, size, n_vecs), size, n_vecs)

(* d[i] are the bytes the user wrote into the i-th room *)
evbuffer_commit_space(b, at, d) ==
    LET n == Len(b.chains)
        f == FirstSpace(b)
        inLast == Len(at) = 1 /\ n > 0 /\ at[1] = n
        inOrder == /\ b.lwd <= n
                   /\ \A i \in DOMAIN at : /\ f + i - 1 <= n
                                           /\ at[i] = f + i - 1
                                           /\ Len(d[i]) <= CHAIN_SPACE_LEN(b.chains[f + i - 1])
        used == {i \in DOMAIN at : d[i] # <<>>}
        all == [i \in DOMAIN b.chains |->
                   IF i - f + 1 \in DOMAIN at THEN [b.chains[i] EXCEPT !.data = @ \o d[i - f + 1]]
                   ELSE b.chains[i]]
        size == SumOf([i \in DOMAIN d |-> Len(d[i])], 1, Len(d))
    IN CASE b.freeze_end \/ at = <<>> -> b
         [] ~b.freeze_end /\ inLast ->
                evbuffer_invoke_callbacks(IF d[1] = <<>> THEN b
                                          ELSE advance_last_with_data(Fill(b, n, d[1])))
         [] ~b.freeze_end /\ at # <<>> /\ ~inLast /\ inOrder ->
                evbuffer_invoke_callbacks(
                    [b EXCEPT !.chains = all, !.lwd = IF used = {} THEN @ ELSE f + Max(used) - 1,
                              !.total_len = @ + size, !.n_add = @ + size])
         [] OTHER -> b

(* readv fills the rooms, from chain f to chain f + stop - 1, with the bytes of d *)
ReadUpTo(b, d, f, room, stop) ==
    LET part(i) == SubSeq(d, Before(room, i) + 1, Min({Len(d), Before(room, i) + room[i]}))
    IN [b EXCEPT !.chains = [i \in DOMAIN @ |->
                     IF i \in f..(f + stop - 1) THEN [@[i] EXCEPT !.data = @ \o part(i - f + 1)] ELSE @[i]],
                 !.lwd = f + stop - 1,
                 !.total_len = @ + Len(d), !.n_add = @ + Len(d)]

ReadInto(b, d, room, vecs) ==
    ReadUpTo(b, d, FirstSpace(b), room, Min({i \in DOMAIN vecs : Before(room, i) + room[i] >= Len(d)}))

ReadVecs(b, d, room, howmuch) ==
    ReadInto(b, d, room, _evbuffer_read_setup_vecs(room, howmuch, NUM_READ_IOVEC, TRUE))

(* d is empty at the end of the file, or when there is nothing yet *)
ReadSome(b, d, howmuch) ==
    IF d = <<>> THEN b ELSE evbuffer_invoke_callbacks(ReadVecs(b, d, Rooms(b), howmuch))

evbuffer_read(b, d, howmuch) ==
    IF b.freeze_end THEN b ELSE ReadSome(_evbuffer_expand_fast(b, howmuch, NUM_READ_IOVEC), d, howmuch)

(* what writev or sendfile is given; the kernel takes a prefix of it *)
evbuffer_write_iovec(b, howmuch) ==
    LET F == {i \in DOMAIN b.chains : b.chains[i].kind = "sendfile"}
    IN IF F = {} THEN SubSeq(Flat(b), 1, howmuch)
       ELSE IF Min(F) = 1 THEN b.chains[1].data
       ELSE LET d == Flat([b EXCEPT !.chains = SubSeq(@, 1, Min(F) - 1)]) IN
            SubSeq(d, 1, Min({howmuch, Len(d)}))

evbuffer_write_atmost(b, n) ==
    IF b.freeze_start \/ n = 0 THEN b ELSE evbuffer_drain(b, n)

evbuffer_expand(b, datlen) == evbuffer_expand_singlechain(b, datlen).b

(* a formatted text d: a first room of 64 bytes, and one of Len(d) + 1 if d
   and its terminator do not fit *)
RoomForText(e, d) == IF Len(d) < CHAIN_SPACE_LEN(e.b.chains[e.i]) THEN e
                     ELSE evbuffer_expand_singlechain(e.b, Len(d) + 1)
PrintInto(e, d) == evbuffer_invoke_callbacks(advance_last_with_data(Fill(e.b, e.i, d)))

evbuffer_add_vprintf(b, d) ==
    IF b.freeze_end THEN b ELSE PrintInto(RoomForText(evbuffer_expand_singlechain(b, 2), d), d)

-----------------------------------------------------------------------------
(* The users of the buffers *)

Marked == \E x \in Buf : Contains(Flat(bufs[x]), 1)

Fresh(n) == {[i \in 1..n |-> IF i = m THEN 1 ELSE 0] : m \in 0..(IF Marked THEN 0 ELSE n)}

Sized(lo, hi) == UNION {Fresh(n) : n \in lo..hi}

Room(n) == FoldFunction(LAMBDA b, acc : b.total_len + acc, n, bufs) <= EV_SIZE_MAX

Step(op, x, new) ==
    /\ op \in Ops
    /\ bufs' = [bufs EXCEPT ![x] = new]

Two(op, x, y, r) ==
    /\ op \in Ops
    /\ x # y
    /\ bufs' = [bufs EXCEPT ![x] = r.dst, ![y] = r.src]

Init == bufs = [x \in Buf |-> evbuffer_new]

Add(x) == \E d \in Sized(IF "add0" \in Ops THEN 0 ELSE 1, MaxOp) :
    Room(Len(d)) /\ Step("add", x, evbuffer_add(bufs[x], d))
Prepend(x) == \E d \in Sized(1, MaxOp) :
    Room(Len(d)) /\ Step("prepend", x, evbuffer_prepend(bufs[x], d))
AddReference(x) == \E d \in Sized(1, MaxOp), kind \in {"reference", "sendfile"} :
    Room(Len(d)) /\ Step("reference", x, evbuffer_add_reference(bufs[x], d, kind))
Printf(x) == \E d \in Sized(1, MaxOp) :
    Room(Len(d)) /\ Step("printf", x, evbuffer_add_vprintf(bufs[x], d))
Expand(x) == \E n \in 1..MaxOp : Step("expand", x, evbuffer_expand(bufs[x], n))
Read(x) == \E howmuch \in 1..MaxOp : \E d \in Sized(0, howmuch) :
    Room(Len(d)) /\ Step("read", x, evbuffer_read(bufs[x], d, howmuch))

Reserve(x) ==
    /\ ~bufs[x].freeze_end
    /\ \E size \in 1..MaxOp, n_vecs \in 1..2 : \E r \in {evbuffer_reserve_space(bufs[x], size, n_vecs)} :
        \E d \in [DOMAIN r.at -> Sized(0, MaxOp)] :
            LET all == Joined([i \in DOMAIN d |-> [data |-> d[i]]]) IN
            /\ \A i \in DOMAIN d : Len(d[i]) <= r.len[i]
            /\ all \in Sized(0, MaxOp) /\ Room(Len(all))
            /\ Step("reserve", x, evbuffer_commit_space(r.b, r.at, d))

Drain(x) == \E n \in 1..MaxOp : Step("drain", x, evbuffer_drain(bufs[x], n))
Write(x) ==
    \E howmuch \in 1..Min({MaxOp, bufs[x].total_len}) :
        \E n \in 0..Len(evbuffer_write_iovec(bufs[x], howmuch)) :
            Step("write", x, evbuffer_write_atmost(bufs[x], n))
Pullup(x) == \E n \in 1..EV_SIZE_MAX : n <= bufs[x].total_len /\ Step("pullup", x, evbuffer_pullup(bufs[x], n))
Freeze(x) == \E s, e \in BOOLEAN :
    Step("freeze", x, [bufs[x] EXCEPT !.freeze_start = s, !.freeze_end = e])

AddBuffer(x, y) == Two("add_buffer", x, y, evbuffer_add_buffer(bufs[x], bufs[y]))
PrependBuffer(x, y) == Two("prepend_buffer", x, y, evbuffer_prepend_buffer(bufs[x], bufs[y]))
RemoveBuffer(x, y) == \E n \in 1..MaxOp :
    Two("remove_buffer", x, y, evbuffer_remove_buffer(bufs[y], bufs[x], n))

Next == /\ \A x \in Buf : bufs[x].ok
        /\ \/ \E x \in Buf : \/ Add(x) \/ Prepend(x) \/ AddReference(x) \/ Printf(x) \/ Expand(x)
                             \/ Read(x) \/ Reserve(x) \/ Drain(x) \/ Write(x) \/ Pullup(x) \/ Freeze(x)
           \/ \E x, y \in Buf : AddBuffer(x, y) \/ PrependBuffer(x, y) \/ RemoveBuffer(x, y)

Spec == Init /\ [][Next]_vars

-----------------------------------------------------------------------------
(* Properties *)

(* What the regression test asks of every buffer: the lengths add up and a
   chain's bytes lie inside it; last_with_datap leads to the last chain with
   data (to the first chain when there is none), and no EVUTIL_ASSERT of
   buffer.c has failed, up to an evbuffer_add behind chains that a reservation
   or a read has left empty: it does not move last_with_datap
   (buffer.c:1561). *)
Validate ==
    \A x \in Buf :
        LET b == bufs[x]
            D == {i \in DOMAIN b.chains : Off(b.chains[i]) > 0} IN
        /\ b.ok => b.total_len = Bytes(b.chains)
        /\ \A i \in DOMAIN b.chains : b.chains[i].buffer_len >= b.chains[i].misalign + Off(b.chains[i])
        /\ ~b.behind => b.ok /\ b.lwd = IF D = {} THEN 1 ELSE Max(D)

(* Where nothing makes room in advance, every chain behind last_with_datap's
   has data, and evbuffer_add never writes behind it. *)
NeverBehind == \A x \in Buf : ~bufs[x].behind

(* A chain that is not the buffer's own memory never has room in it, at
   either end: neither pullup nor prepend nor a read can write there. *)
ImmutableIsFull ==
    \A x \in Buf : \A i \in DOMAIN bufs[x].chains :
        LET c == bufs[x].chains[i] IN
        Immutable(c) => c.misalign + Off(c) = c.buffer_len

(* n_added and n_deleted, as a callback gets them, account for every change
   of the length since the callback before, unless evbuffer_prepend needed a
   chain of its own in between: it counts the room in the chain behind instead
   of the bytes (buffer.c:1708), and with no room there calls nobody. *)
CallbackKnowsLength == \A x \in Buf : bufs[x].told /\ (bufs[x].shown = bufs[x].total_len \/ bufs[x].spilled)

Queue == INSTANCE ByteQueue WITH content <- [x \in Buf |-> Flat(bufs[x])]

(* The chains implement a byte sequence: nothing that any of the operations
   does to the chains puts a byte out of order, drops it or repeats it, as long
   as no evbuffer_add has written behind last_with_datap. *)
IsByteQueue == NeverBehind => Queue!Next \/ UNCHANGED bufs

(* From every state that the calls lead to, each call adds, moves and keeps
   exactly the bytes it is given, in their order and at the end it names, also
   over gaps and empty chains that earlier calls have left, as long as no
   evbuffer_add has written behind last_with_datap; the evbuffer_add that does
   so is still exact, or fails an EVUTIL_ASSERT. *)
ExactBytes == NeverBehind =>
    \A x \in Buf :
        LET b == bufs[x] IN
        /\ \A d \in Sized(1, MaxOp) : Room(Len(d)) =>
              /\ ~b.freeze_end => LET added == evbuffer_add(b, d) IN
                                   added.ok => Flat(added) = Flat(b) \o d
              /\ ~b.freeze_end => Flat(evbuffer_read(b, d, MaxOp)) = Flat(b) \o d
              /\ ~b.freeze_end => Flat(evbuffer_add_vprintf(b, d)) = Flat(b) \o d
              /\ ~b.freeze_start => Flat(evbuffer_prepend(b, d)) = d \o Flat(b)
        /\ \A n \in 1..b.total_len : Flat(evbuffer_pullup(b, n)) = Flat(b)
        /\ \A y \in Buf \ {x} :
              LET c == bufs[y] IN
              /\ Flat(evbuffer_add_buffer(b, c).dst) = Flat(b) \o Flat(c)
              /\ Flat(evbuffer_prepend_buffer(b, c).dst) = Flat(c) \o Flat(b)
              /\ \A n \in 1..MaxOp : Flat(evbuffer_remove_buffer(c, b, n).dst) =
                                      Flat(b) \o SubSeq(Flat(c), 1, Min({n, c.total_len}))

(* While the start is frozen nothing is taken or put there, and while the end
   is frozen nothing is put there. *)
FrozenEndsStay ==
    \A x \in Buf :
        LET old == Flat(bufs[x]) new == Flat(bufs'[x]) IN
        /\ bufs[x].freeze_start => IsPrefix(old, new)
        /\ bufs[x].freeze_end => IsSuffix(old, new) \/ IsSuffix(new, old)
=============================================================================
