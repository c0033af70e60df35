----------------------------- MODULE ByteQueue ------------------------------
(***************************************************************************)
(* What an evbuffer promises: a sequence of bytes that grows at its ends   *)
(* and shrinks at its front, however the bytes are spread over chains.     *)
(* Byte 1 stands for one chosen byte of all those ever given: it comes in  *)
(* once, so a byte that were copied instead of moved would show.           *)
(***************************************************************************)
EXTENDS Integers, Sequences, SequencesExt, FiniteSets

CONSTANTS Buf, Byte

VARIABLE content    \* content[x]: the bytes of buffer x, first to last

Chosen(c) == UNION {{<<x, i>> : i \in {j \in DOMAIN c[x] : c[x][j] = 1}} : x \in Buf}

Init == content = [x \in Buf |-> <<>>]

Grow(x) ==
    LET old == content[x] new == content'[x] IN
    /\ Len(new) >= Len(old)
    /\ IsPrefix(old, new) \/ IsSuffix(old, new)
    /\ Cardinality(Chosen(content')) <= 1
    /\ \A y \in Buf \ {x} : content'[y] = content[y]

Shrink(x) ==
    /\ IsSuffix(content'[x], content[x])
    /\ \A y \in Buf \ {x} : content'[y] = content[y]

Move(x, y) ==
    \E n \in 0..Len(content[x]) :
        LET moved == SubSeq(content[x], 1, n)
            rest == SubSeq(content[x], n + 1, Len(content[x])) IN
        \/ content' = [content EXCEPT ![x] = rest, ![y] = @ \o moved]
        \/ content' = [content EXCEPT ![x] = rest, ![y] = moved \o @]

Next == \/ \E x \in Buf : Grow(x) \/ Shrink(x)
        \/ \E x, y \in Buf : x # y /\ Move(x, y)

Spec == Init /\ [][Next]_content
=============================================================================
