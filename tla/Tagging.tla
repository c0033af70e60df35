------------------------------- MODULE Tagging -------------------------------
(***************************************************************************)
(* The tagged wire format of event_tagging.c, and a writer and a reader on *)
(* the two ends of a stream: the reader looks with evtag_peek_length       *)
(* whether a whole record has arrived before it unmarshals it.             *)
(*                                                                         *)
(* Bytes are 0..255.  An integer is the sequence of its significant        *)
(* nibbles, the low one first, so that 64 bits fit; 0 is the empty one.    *)
(***************************************************************************)
EXTENDS Integers, Sequences, SequencesExt, FiniteSetsExt

CONSTANTS Records,    \* [tag, kind, val] of the records that may be written
          MaxRecords  \* bound: records written

VARIABLES sent,    \* the records written
          wire,    \* bytes under way
          evbuf,   \* bytes that have arrived
          got      \* what the reader has read

vars == <<sent, wire, evbuf, got>>
Fail == -1

----------------------------------------------------------------------------
(* Integers and tags. *)

Nibbles(n) == LET d[m \in Nat] == IF m = 0 THEN <<>> ELSE <<m % 16>> \o d[m \div 16]
              IN  d[n]
Number(ns) == LET top == {i \in DOMAIN ns : ns[i] # 0}
              IN  IF top = {} THEN <<>> ELSE SubSeq(ns, 1, Max(top))

\* Nibble 0 is the number of the others less one.
encode_int_internal(ns) ==
    LET nib(k) == IF k = 0 THEN (IF Len(ns) > 1 THEN Len(ns) - 1 ELSE 0)
                  ELSE IF k \in DOMAIN ns THEN ns[k] ELSE 0
    IN  [i \in 1..((Len(ns) + 2) \div 2) |-> 16 * nib(2 * i - 2) + nib(2 * i - 1)]

\* The number at an offset and the length of its encoding.
decode_int_internal(b, offset, maxnibbles) ==
    LET len == Len(b) - offset
        nibbles == (b[offset + 1] \div 16) + 1
        nib(k) == LET byte == b[offset + 1 + (k \div 2)]
                  IN  IF k % 2 = 1 THEN byte % 16 ELSE byte \div 16
    IN  IF len <= 0 THEN [len |-> Fail]
        ELSE IF nibbles > maxnibbles \/ (nibbles \div 2) + 1 > len THEN [len |-> Fail]
        ELSE [len |-> (nibbles \div 2) + 1, number |-> Number([k \in 1..nibbles |-> nib(k)])]

evtag_encode_tag(tag) ==
    LET e[m \in Nat] == IF m < 128 THEN <<m>> ELSE <<(m % 128) + 128>> \o e[m \div 128]
    IN  e[tag]

decode_tag_internal(b) ==
    LET low == {i \in DOMAIN b : b[i] < 128}
        value == FoldRight(LAMBDA byte, acc : (byte % 128) + 128 * acc, SubSeq(b, 1, Min(low)), 0)
    IN  IF low = {} THEN [len |-> Fail] ELSE [len |-> Min(low), tag |-> value]

AsInt(ns) == FoldRight(LAMBDA d, acc : d + 16 * acc, ns, 0)

----------------------------------------------------------------------------
(* Records. *)

Payload(kind, val) ==
    CASE kind \in {"int", "int64"} -> encode_int_internal(val)
      [] kind = "timeval" -> encode_int_internal(val[1]) \o encode_int_internal(val[2])
      [] OTHER -> val

evtag_marshal(r) ==
    LET p == Payload(r.kind, r.val)
    IN  evtag_encode_tag(r.tag) \o encode_int_internal(Nibbles(Len(p))) \o p

NumberValue(n) == IF n.len = Fail THEN Fail ELSE AsInt(n.number)
LengthBehind(b, t) == IF t.len = Fail THEN Fail ELSE NumberValue(decode_int_internal(b, t.len, 8))
evtag_payload_length(b) == LengthBehind(b, decode_tag_internal(b))

Total(tlen, nlen, payload) == tlen + nlen + payload
TotalBehind(t, n) == Total(t.len, n.len, AsInt(n.number))
PeekBehind(b, t) == TotalBehind(t, decode_int_internal(b, t.len, 8))
evtag_peek_length(b) ==
    IF evtag_payload_length(b) = Fail THEN Fail ELSE PeekBehind(b, decode_tag_internal(b))

Drain(b, n) == SubSeq(b, n + 1, Len(b))

\* The header is drained even when the rest has not arrived: b is what is
\* left behind the tag t, and behind the length n.
BehindLength(t, n, b) ==
    IF Len(b) < AsInt(n.number) THEN [len |-> Fail, rest |-> b]
    ELSE [len |-> AsInt(n.number), tag |-> t.tag, rest |-> b]

LengthOf(t, n, b) == IF n.len = Fail THEN [len |-> Fail, rest |-> b] ELSE BehindLength(t, n, Drain(b, n.len))

BehindTag(t, b) == LengthOf(t, decode_int_internal(b, 0, 8), b)

TagOf(t, b) == IF t.len = Fail THEN [len |-> Fail, rest |-> b] ELSE BehindTag(t, Drain(b, t.len))

evtag_unmarshal_header(b) == TagOf(decode_tag_internal(b), b)

\* The number is decoded from the buffer and must not be longer than the
\* payload.
IntWithin(n, h) == IF n.len = Fail THEN <<>> ELSE IF n.len > h.len THEN <<>> ELSE <<n.number>>
evtag_unmarshal_int(h, maxnibbles) == IntWithin(decode_int_internal(h.rest, 0, maxnibbles), h)

TwoWithin(s, u, h) ==
    IF u.len = Fail THEN <<>> ELSE IF s.len + u.len > h.len THEN <<>> ELSE << <<s.number, u.number>> >>
SecondNumber(s, h) == IF s.len = Fail THEN <<>> ELSE TwoWithin(s, decode_int_internal(h.rest, s.len, 8), h)
evtag_unmarshal_timeval(h) == SecondNumber(decode_int_internal(h.rest, 0, 8), h)

\* What the function for the kind reads (no value when it fails), and what is
\* left behind the header h.
Behind(kind, h) ==
    IF h.len = Fail THEN [val |-> <<>>, rest |-> h.rest]
    ELSE [rest |-> Drain(h.rest, h.len),
          val |-> CASE kind = "int" -> evtag_unmarshal_int(h, 8)
                    [] kind = "int64" -> evtag_unmarshal_int(h, 16)
                    [] kind = "timeval" -> evtag_unmarshal_timeval(h)
                    [] kind = "skip" -> <<>>
                    [] OTHER -> <<SubSeq(h.rest, 1, h.len)>>]

Unmarshal(kind, b) == Behind(kind, evtag_unmarshal_header(b))

----------------------------------------------------------------------------
(* The stream. *)

Init == sent = <<>> /\ wire = <<>> /\ evbuf = <<>> /\ got = <<>>

Write(r) == /\ Len(sent) < MaxRecords /\ sent' = Append(sent, r)
            /\ wire' = wire \o evtag_marshal(r) /\ UNCHANGED <<evbuf, got>>

Arrive(n) == /\ evbuf' = evbuf \o SubSeq(wire, 1, n) /\ wire' = Drain(wire, n)
             /\ UNCHANGED <<sent, got>>

\* The reader knows the kind by the tag; it may also skip a record
\* (evtag_consume).
KindOf(tag) == (CHOOSE r \in Records : r.tag = tag).kind
Read(skip) ==
    /\ evtag_peek_length(evbuf) # Fail /\ evtag_peek_length(evbuf) <= Len(evbuf)
    /\ \E u \in {Unmarshal(IF skip THEN "skip" ELSE KindOf(decode_tag_internal(evbuf).tag), evbuf)} :
          got' = Append(got, [skip |-> skip, val |-> u.val]) /\ evbuf' = u.rest
    /\ UNCHANGED <<sent, wire>>

Next == \/ \E r \in Records : Write(r)
        \/ \E n \in 1..Len(wire) : Arrive(n)
        \/ \E skip \in BOOLEAN : Read(skip)

Spec == Init /\ [][Next]_vars

----------------------------------------------------------------------------
\* What is read is what was written, in order, value for value.
ReadIsWritten ==
    /\ Len(got) <= Len(sent)
    /\ \A i \in DOMAIN got : got[i].skip \/ got[i].val = <<sent[i].val>>

\* The buffer always starts at the beginning of a record: no read takes a
\* byte too many or too few, however the stream was cut.
Framed == evbuf \o wire = FlattenSeq([i \in 1..(Len(sent) - Len(got)) |->
                                        evtag_marshal(sent[Len(got) + i])])

\* The peeking functions say -1 only while the header is incomplete, and
\* otherwise the tag, payload length and total length of the first record.
PeekRight ==
    Len(got) < Len(sent) =>
        LET r == sent[Len(got) + 1]
            p == Len(Payload(r.kind, r.val))
            head == Len(evtag_marshal(r)) - p
        IN  IF Len(evbuf) < head THEN evtag_peek_length(evbuf) = Fail
            ELSE /\ decode_tag_internal(evbuf).tag = r.tag
                 /\ evtag_payload_length(evbuf) = p
                 /\ evtag_peek_length(evbuf) = head + p

=============================================================================
