--------------------------- MODULE EvbufferSearch ---------------------------
(***************************************************************************)
(* Searching an evbuffer (buffer.c): an evbuffer_ptr is a chain, a place   *)
(* in that chain and the place in the whole buffer; a search walks the     *)
(* chains.  Chain 0 is NULL.  The buffers are all the ways to spread short *)
(* texts of CR, LF and another letter over chains, empty ones included;    *)
(* lines are then read from them one after the other.                      *)
(***************************************************************************)
EXTENDS Integers, Sequences, SequencesExt, FiniteSetsExt

CONSTANTS MaxLen,    \* bound: letters of the text
          MaxChain   \* bound: letters of one chain

Letter == {"r", "n", "x"}
Style == {"ANY", "CRLF_STRICT", "CRLF", "LF"}

VARIABLES chains,    \* the texts of the chains
          line,      \* what the last readln returned, or "none"
          before,    \* the text it was called on
          style

vars == <<chains, line, before, style>>

RECURSIVE Flat(_)
Flat(cs) == IF cs = <<>> THEN <<>> ELSE Head(cs) \o Flat(Tail(cs))

At(c, in, pos) == [chain |-> c, in |-> in, pos |-> pos]
Start(cs) == At(IF cs = <<>> THEN 0 ELSE 1, 0, 0)
NotFound == At(0, 0, -1)
NextChain(cs, c) == IF c < Len(cs) THEN c + 1 ELSE 0

(* the first place of chain c, from in on, with a letter of S; or -1 *)
memchr(cs, c, in, S) ==
    LET F == {i \in in..(Len(cs[c]) - 1) : cs[c][i + 1] \in S}
    IN IF F = {} THEN -1 ELSE Min(F)

(* evbuffer_strchr and evbuffer_find_eol_char: the next letter of S *)
RECURSIVE evbuffer_find_eol_char(_, _, _)
evbuffer_find_eol_char(cs, it, S) ==
    IF it.chain = 0 THEN NotFound
    ELSE LET i == memchr(cs, it.chain, it.in, S) IN
         IF i >= 0 THEN At(it.chain, i, it.pos + i - it.in)
         ELSE evbuffer_find_eol_char(cs, At(NextChain(cs, it.chain), 0, it.pos + Len(cs[it.chain]) - it.in), S)

(* how many letters of S there are from it on *)
RECURSIVE evbuffer_strspn(_, _, _)
evbuffer_strspn(cs, it, S) ==
    LET i == memchr(cs, it.chain, it.in, Letter \ S) IN
    IF i >= 0 THEN i - it.in
    ELSE Len(cs[it.chain]) - it.in +
         (IF it.chain = Len(cs) THEN 0 ELSE evbuffer_strspn(cs, At(it.chain + 1, 0, 0), S))

(* the walk of evbuffer_ptr_set: left letters on from place in of chain c *)
RECURSIVE Walk(_, _, _, _)
Walk(cs, c, in, left) ==
    IF c # 0 /\ in + left >= Len(cs[c]) THEN Walk(cs, NextChain(cs, c), 0, left - (Len(cs[c]) - in))
    ELSE <<c, in + left>>

evbuffer_ptr_set(cs, it, position, how) ==
    LET w == IF how = "SET" THEN Walk(cs, Start(cs).chain, 0, position)
             ELSE Walk(cs, it.chain, it.in, position)
    IN IF (how = "ADD" /\ it.pos < 0) \/ w[1] = 0 THEN NotFound
       ELSE At(w[1], w[2], IF how = "SET" THEN position ELSE it.pos + position)

(* TRUE iff the letters from it on are those of what; as in the code, a text
   that ends early is told by the length, not by the chains *)
RECURSIVE Same(_, _, _, _)
Same(cs, c, in, what) ==
    IF what = <<>> \/ c = 0 THEN TRUE
    ELSE LET n == Min({Len(what), Len(cs[c]) - in}) IN
         /\ SubSeq(cs[c], in + 1, in + n) = SubSeq(what, 1, n)
         /\ Same(cs, NextChain(cs, c), 0, SubSeq(what, n + 1, Len(what)))

evbuffer_ptr_memcmp(cs, it, what) ==
    /\ it.pos >= 0
    /\ it.pos + Len(what) <= Len(Flat(cs))
    /\ Same(cs, it.chain, it.in, what)

(* one letter on after a first letter that did not lead to a match *)
Onward(cs, it) ==
    IF it.in + 1 = Len(cs[it.chain]) THEN At(NextChain(cs, it.chain), 0, it.pos + 1)
    ELSE At(it.chain, it.in + 1, it.pos + 1)

(* end is a pointer, or NotFound for none *)
RECURSIVE evbuffer_search_range(_, _, _, _)
evbuffer_search_range(cs, what, it, end) ==
    IF it.chain = 0 THEN NotFound
    ELSE LET p == memchr(cs, it.chain, it.in, {what[1]})
             here == At(it.chain, p, it.pos + p - it.in)
         IN IF p >= 0 /\ evbuffer_ptr_memcmp(cs, here, what)
            THEN IF end.chain # 0 /\ here.pos + Len(what) > end.pos THEN NotFound ELSE here
            ELSE IF p >= 0 THEN evbuffer_search_range(cs, what, Onward(cs, here), end)
            ELSE IF it.chain = end.chain THEN NotFound
            ELSE evbuffer_search_range(cs, what,
                     At(NextChain(cs, it.chain), 0, it.pos + Len(cs[it.chain]) - it.in), end)

evbuffer_search(cs, what, start) == evbuffer_search_range(cs, what, start, NotFound)

(* an LF, or the CR before it, from it on *)
RECURSIVE CrlfFrom(_, _)
CrlfFrom(cs, it) ==
    LET e == evbuffer_find_eol_char(cs, it, {"r", "n"}) IN
    IF e.pos < 0 THEN <<e, 0>>
    ELSE IF cs[e.chain][e.in + 1] = "n" THEN <<e, 1>>
    ELSE IF evbuffer_ptr_memcmp(cs, e, <<"r", "n">>) THEN <<e, 2>>
    ELSE LET on == evbuffer_ptr_set(cs, e, 1, "ADD") IN
         IF on.pos < 0 THEN <<on, 0>> ELSE CrlfFrom(cs, on)

(* where the line ends and how many letters end it *)
evbuffer_search_eol(cs, st) ==
    CASE st = "ANY" -> LET e == evbuffer_find_eol_char(cs, Start(cs), {"r", "n"}) IN
                       <<e, IF e.pos < 0 THEN 0 ELSE evbuffer_strspn(cs, e, {"r", "n"})>>
      [] st = "CRLF_STRICT" -> LET e == evbuffer_search(cs, <<"r", "n">>, Start(cs)) IN
                               <<e, IF e.pos < 0 THEN 0 ELSE 2>>
      [] st = "CRLF" -> CrlfFrom(cs, Start(cs))
      [] st = "LF" -> LET e == evbuffer_find_eol_char(cs, Start(cs), {"n"}) IN
                      <<e, IF e.pos < 0 THEN 0 ELSE 1>>

(* evbuffer_drain, as far as the texts of the chains go *)
RECURSIVE Drained(_, _)
Drained(cs, n) ==
    IF cs = <<>> THEN cs
    ELSE IF n >= Len(Head(cs)) THEN Drained(Tail(cs), n - Len(Head(cs)))
    ELSE <<SubSeq(Head(cs), n + 1, Len(Head(cs)))>> \o Tail(cs)

(* whole chains first, then the beginning of the next one *)
RECURSIVE evbuffer_copyout(_, _)
evbuffer_copyout(cs, datlen) ==
    IF cs = <<>> \/ datlen = 0 THEN <<>>
    ELSE IF datlen >= Len(Head(cs)) THEN Head(cs) \o evbuffer_copyout(Tail(cs), datlen - Len(Head(cs)))
    ELSE SubSeq(Head(cs), 1, datlen)

evbuffer_peek(cs, len) ==
    LET W == {i \in DOMAIN cs : Len(Flat(SubSeq(cs, 1, i - 1))) < len}
    IN SubSeq(cs, 1, Cardinality(W))

-----------------------------------------------------------------------------

Text(n) == [1..n -> Letter]

Init == /\ \E k \in 1..MaxLen : \E cs \in [1..k -> UNION {Text(n) : n \in 0..MaxChain}] :
              chains = cs /\ Len(Flat(cs)) <= MaxLen
        /\ line = "none" /\ before = <<>> /\ style = "ANY"

evbuffer_readln(st) ==
    LET e == evbuffer_search_eol(chains, st) IN
    /\ Flat(chains) # <<>>
    /\ style' = st
    /\ before' = Flat(chains)
    /\ IF e[1].pos < 0 THEN line' = "none" /\ UNCHANGED chains
       ELSE /\ line' = SubSeq(Flat(chains), 1, e[1].pos)
            /\ chains' = Drained(chains, e[1].pos + e[2])

Next == \E st \in Style : evbuffer_readln(st)

Spec == Init /\ [][Next]_vars

-----------------------------------------------------------------------------
(* Properties *)

Places(s, what) == {i \in 0..(Len(s) - Len(what)) : SubSeq(s, i + 1, i + Len(what)) = what}

(* evbuffer_search finds the first occurrence in the whole text, however the
   text is spread over chains, from any start and up to any end. *)
SearchFindsFirst ==
    \A what \in Text(1) \union Text(2), k \in 0..Len(Flat(chains)) :
        LET s == Flat(chains)
            start == evbuffer_ptr_set(chains, Start(chains), k, "SET")
            end == evbuffer_ptr_set(chains, Start(chains), k, "SET")
            after == {i \in Places(s, what) : i >= k}
            upto == {i \in Places(s, what) : i + Len(what) <= k}
        IN /\ start.chain # 0 =>
                 evbuffer_search(chains, what, start).pos = IF after = {} THEN -1 ELSE Min(after)
           /\ end.chain # 0 =>
                 evbuffer_search_range(chains, what, Start(chains), end).pos =
                     IF upto = {} THEN -1 ELSE Min(upto)

(* A pointer set to a place below the length is a place in a chain, the one
   that many letters into the text; at or past the end there is none. *)
PointerIsPlace ==
    \A k \in 0..(MaxLen + 1) :
        LET s == Flat(chains)
            p == evbuffer_ptr_set(chains, Start(chains), k, "SET")
        IN IF k >= Len(s) THEN p = NotFound
           ELSE p.in < Len(chains[p.chain]) /\ k = Len(Flat(SubSeq(chains, 1, p.chain - 1))) + p.in

(* The line that readln returned and what ended it are those of the style:
   nothing of the text is lost or returned twice. *)
LineIsRight ==
    LET s == before
        left == Flat(chains)
        lf == Places(s, <<"n">>)
        cr == Places(s, <<"r">>)
        crlf == Places(s, <<"r", "n">>)
        n == Len(line)
        eol == SubSeq(s, n + 1, Len(s) - Len(left))
        upto(S) == S # {} /\ line = SubSeq(s, 1, Min(S))
    IN IF before = <<>> THEN TRUE
       ELSE IF line = "none"
       THEN /\ left = s
            /\ (IF style = "ANY" THEN lf \union cr ELSE IF style = "CRLF_STRICT" THEN crlf ELSE lf) = {}
       ELSE /\ s = line \o eol \o left
            /\ CASE style = "ANY" -> /\ upto(lf \union cr)
                                     /\ ToSet(eol) \subseteq {"r", "n"}
                                     /\ left = <<>> \/ left[1] = "x"
                 [] style = "CRLF_STRICT" -> upto(crlf) /\ eol = <<"r", "n">>
                 [] style = "CRLF" -> upto(lf \union crlf) /\ eol \in {<<"n">>, <<"r", "n">>}
                 [] style = "LF" -> upto(lf) /\ eol = <<"n">>

(* The chains evbuffer_peek shows hold the first len letters, the ones that
   evbuffer_copyout copies, and without the last of them they would not. *)
PeekIsEnough ==
    \A len \in 1..Len(Flat(chains)) :
        LET p == evbuffer_peek(chains, len) IN
        /\ IsPrefix(evbuffer_copyout(chains, len), Flat(p))
        /\ Len(evbuffer_copyout(chains, len)) = len
        /\ Len(Flat(Front(p))) < len
=============================================================================
