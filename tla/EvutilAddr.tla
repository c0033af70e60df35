----------------------------- MODULE EvutilAddr -----------------------------
(***************************************************************************)
(* Text and binary form of addresses (evutil.c): evutil_inet_pton,         *)
(* evutil_inet_ntop, evutil_parse_sockaddr_port and                        *)
(* evutil_format_sockaddr_port, checked against the grammar of RFC 4291.   *)
(* A string is a sequence of characters, an address a sequence of 16-bit   *)
(* words.                                                                  *)
(***************************************************************************)
EXTENDS Integers, Sequences, FiniteSets, FiniteSetsExt, SequencesExt

CONSTANTS NWords,      \* words of an IPv6 address: 8 in the code
          WordValues,  \* the words that are tried
          Alphabet,    \* the characters that are tried
          MaxLen       \* bound: characters of a string

VARIABLES str,         \* a text
          words,       \* an address
          port         \* a port

vars == <<str, words, port>>

Digits == <<"0", "1", "2", "3", "4", "5", "6", "7", "8", "9", "a", "b", "c", "d", "e", "f">>
EVUTIL_ISXDIGIT(c) == c \in Range(Digits)
EVUTIL_ISDIGIT(c) == c \in {Digits[i] : i \in 1..10}
evutil_hex_char_to_int(c) == (CHOOSE i \in 1..16 : Digits[i] = c) - 1

RECURSIVE Numeral(_, _), Value(_, _)
(* printf's %d and %x *)
Numeral(n, base) == IF n < base THEN <<Digits[n + 1]>>
                    ELSE Numeral(n \div base, base) \o <<Digits[(n % base) + 1]>>
(* strtol of digits *)
Value(x, base) == IF x = <<>> THEN 0
                  ELSE Value(Front(x), base) * base + evutil_hex_char_to_int(Last(x))

(* strchr: where c is in x, 0 if nowhere *)
strchr(x, c) == IF c \in Range(x) THEN SelectInSeq(x, LAMBDA d : d = c) ELSE 0

(* the parts of x between the characters sep *)
RECURSIVE Parts(_, _)
Parts(x, sep) == LET i == strchr(x, sep)
                 IN IF i = 0 THEN <<x>>
                    ELSE <<SubSeq(x, 1, i - 1)>> \o Parts(SubSeq(x, i + 1, Len(x)), sep)
RECURSIVE Joined(_, _)
Joined(ps, sep) == IF Len(ps) = 1 THEN ps[1] ELSE ps[1] \o <<sep>> \o Joined(Tail(ps), sep)

IsNumber(x) == x # <<>> /\ \A i \in DOMAIN x : EVUTIL_ISDIGIT(x[i])

(* sscanf "%d.%d.%d.%d%c" and the checks of the four bytes *)
FourBytes(p) == Len(p) = 4 /\ \A i \in 1..4 : IsNumber(p[i]) /\ Value(p[i], 10) <= 255
IsQuad(x) == FourBytes(Parts(x, "."))
InWords(b) == <<b[1] * 256 + b[2], b[3] * 256 + b[4]>>
Quad(x) == InWords([i \in 1..4 |-> Value(Parts(x, ".")[i], 10)])
QuadText(w) == Joined(<<Numeral(w[1] \div 256, 10), Numeral(w[1] % 256, 10),
                        Numeral(w[2] \div 256, 10), Numeral(w[2] % 256, 10)>>, ".")

Bad == [ok |-> FALSE, w |-> <<>>]
Good(w) == [ok |-> TRUE, w |-> w]
Zeros(n) == [i \in 1..n |-> 0]

(* the words before the dotted part: x from position p on; w is what was set,
   gap where "::" was (-1: nowhere) *)
RECURSIVE ReadWords(_, _, _, _)
ReadWords(x, p, w, gap) ==
    LET at(i) == IF i <= Len(x) THEN x[i] ELSE "NUL"
        n == CHOOSE k \in p..(Len(x) + 1) : /\ ~EVUTIL_ISXDIGIT(at(k))
                                            /\ \A j \in p..(k - 1) : EVUTIL_ISXDIGIT(x[j])
    IN IF p > Len(x) THEN [ok |-> TRUE, w |-> w, gap |-> gap]
       ELSE IF Len(w) > NWords - 1 THEN [ok |-> FALSE, w |-> w, gap |-> gap]
       ELSE IF EVUTIL_ISXDIGIT(x[p])
            THEN IF n > p + 4 \/ (at(n) # ":" /\ n # Len(x) + 1) THEN [ok |-> FALSE, w |-> w, gap |-> gap]
                 ELSE ReadWords(x, n + 1, Append(w, Value(SubSeq(x, p, n - 1), 16)), gap)
       ELSE IF x[p] = ":" /\ w # <<>> /\ gap = -1 THEN ReadWords(x, p + 1, w, Len(w))
       ELSE IF x[p] = ":" /\ w = <<>> /\ at(p + 1) = ":" /\ gap = -1 THEN ReadWords(x, p + 2, w, 0)
       ELSE [ok |-> FALSE, w |-> w, gap |-> gap]

Fits(n, gap) == n <= NWords /\ (n = NWords => gap = -1) /\ (n < NWords => gap # -1)

(* r is what was read before the words end *)
Assembled(r, end) ==
    LET n == Len(r.w) + Len(end)
    IN IF ~r.ok \/ ~Fits(n, r.gap) THEN Bad
       ELSE IF r.gap = -1 THEN Good(r.w \o end)
       ELSE Good(SubSeq(r.w, 1, r.gap) \o Zeros(NWords - n) \o SubSeq(r.w, r.gap + 1, Len(r.w)) \o end)

(* the dotted part of x, if any, starts at eow *)
WordsAndQuad(x, eow) ==
    LET quad == SubSeq(x, eow, Len(x))
    IN IF quad # <<>> /\ ~IsQuad(quad) THEN Bad
       ELSE Assembled(ReadWords(SubSeq(x, 1, eow - 1), 1, <<>>, -1), IF quad = <<>> THEN <<>> ELSE Quad(quad))

StartOfQuad(x, dot) == CHOOSE k \in 1..dot : /\ k = 1 \/ ~EVUTIL_ISDIGIT(x[k - 1])
                                             /\ \A j \in k..(dot - 1) : EVUTIL_ISDIGIT(x[j])
Dotted(x, dot) ==
    IF dot = 0 THEN WordsAndQuad(x, Len(x) + 1)
    ELSE IF dot = 1 THEN Bad
    ELSE WordsAndQuad(x, StartOfQuad(x, dot))

evutil_inet_pton6(x) == Dotted(x, strchr(x, "."))

evutil_inet_pton4(x) == IF IsQuad(x) THEN Good(Quad(x)) ELSE Bad

(* a run of zeros that starts at i *)
RunLen(w, i) == CHOOSE n \in 0..(NWords - i + 1) :
                    /\ \A j \in i..(i + n - 1) : w[j] = 0
                    /\ i + n <= NWords => w[i + n] # 0
longestGapPos(w) ==
    LET longest == CHOOSE i \in 1..NWords : \A j \in 1..NWords :
                       RunLen(w, j) < RunLen(w, i) \/ (RunLen(w, j) = RunLen(w, i) /\ i <= j)
    IN IF RunLen(w, longest) <= 1 THEN 0 ELSE longest

RECURSIVE WordsText(_, _, _)
(* mutant: the second colon of a gap at the front is forgotten *)
WordsText_OneColon(w, i, gap) ==
    IF i > NWords THEN <<>>
    ELSE IF i = gap THEN <<":">> \o WordsText(w, i + RunLen(w, i), gap)
    ELSE Numeral(w[i], 16) \o (IF i # NWords THEN <<":">> ELSE <<>>) \o WordsText(w, i + 1, gap)

WordsText(w, i, gap) ==
    IF i > NWords THEN <<>>
    ELSE IF i = gap THEN (IF i = 1 THEN <<":">> ELSE <<>>) \o <<":">> \o WordsText(w, i + RunLen(w, i), gap)
    ELSE Numeral(w[i], 16) \o (IF i # NWords THEN <<":">> ELSE <<>>) \o WordsText(w, i + 1, gap)

(* the text, before it is copied to the caller's buffer *)
Text6(w) ==
    LET v4 == /\ \A i \in 1..(NWords - 3) : w[i] = 0
              /\ \/ w[NWords - 2] = 0 /\ w[NWords - 1] # 0 /\ w[NWords] # 0
                 \/ w[NWords - 2] = 65535
        quad == QuadText(SubSeq(w, NWords - 1, NWords))
    IN IF v4 THEN <<":", ":">> \o (IF w[NWords - 2] = 0 THEN <<>> ELSE Numeral(w[NWords - 2], 16) \o <<":">>) \o quad
       ELSE WordsText(w, 1, longestGapPos(w))

(* strlcpy keeps a byte for the terminator; <<"NULL">>: refused *)
Copied(text, len) == IF Len(text) > len THEN <<"NULL">> ELSE SubSeq(text, 1, Min({Len(text), len - 1}))
evutil_inet_ntop6(w, len) == Copied(Text6(w), len)
IfRoom(text, len) == IF Len(text) >= len THEN <<"NULL">> ELSE text
evutil_inet_ntop4(w, len) == IfRoom(QuadText(w), len)

evutil_format_sockaddr_port(w, p) ==
    IF Len(w) = NWords THEN <<"[">> \o Text6(w) \o <<"]", ":">> \o Numeral(p, 10)
    ELSE QuadText(w) \o <<":">> \o Numeral(p, 10)

(* atoi: the digits in front *)
atoi(x) == LET n == CHOOSE k \in 0..Len(x) : /\ \A j \in 1..k : EVUTIL_ISDIGIT(x[j])
                                             /\ k < Len(x) => ~EVUTIL_ISDIGIT(x[k + 1])
           IN Value(SubSeq(x, 1, n), 10)

PortAfter(x, i) == SubSeq(x, i + 2, Len(x))

NoPort == <<"none">>
NoAddress == [ok |-> FALSE, w |-> <<>>, port |-> 0]

(* a is what inet_pton made of the address, port_part what is behind it *)
WithPort(a, port_part) ==
    IF ~a.ok THEN NoAddress
    ELSE IF port_part = NoPort THEN [ok |-> TRUE, w |-> a.w, port |-> 0]
    ELSE IF atoi(port_part) \in 1..65535 THEN [ok |-> TRUE, w |-> a.w, port |-> atoi(port_part)] ELSE NoAddress

evutil_parse_sockaddr_port(x) ==
    LET colon == strchr(x, ":")
        close == strchr(x, "]")
    IN CASE x # <<>> /\ x[1] = "[" ->
              IF close = 0 THEN NoAddress
              ELSE WithPort(evutil_inet_pton6(SubSeq(x, 2, close - 1)),
                            IF close < Len(x) /\ x[close + 1] = ":" THEN PortAfter(x, close) ELSE NoPort)
         [] (x = <<>> \/ x[1] # "[") /\ Cardinality({i \in DOMAIN x : x[i] = ":"}) > 1 ->
              WithPort(evutil_inet_pton6(x), NoPort)
         [] OTHER ->
              IF colon = 0 THEN WithPort(evutil_inet_pton4(x), NoPort)
              ELSE WithPort(evutil_inet_pton4(SubSeq(x, 1, colon - 1)), SubSeq(x, colon + 1, Len(x)))

Init == str = <<>> /\ words = Zeros(NWords) /\ port = 80

AddChar == /\ Len(str) < MaxLen /\ words = Zeros(NWords) /\ port = 80
           /\ \E c \in Alphabet : str' = Append(str, c)
           /\ UNCHANGED <<words, port>>
SetWord == /\ str = <<>>
           /\ \E i \in 1..NWords, v \in WordValues : words' = [words EXCEPT ![i] = v]
           /\ UNCHANGED <<str, port>>
SetPort == /\ str = <<>> /\ \E p \in {0, 80} : port' = p
           /\ UNCHANGED <<str, words>>

Next == AddChar \/ SetWord \/ SetPort

Spec == Init /\ [][Next]_vars
-----------------------------------------------------------------------------
(* RFC 4291: groups of one to four hexadecimal digits, a dotted quad may be the
   last, "::" stands for one or more words of zero *)
IsGroup(x) == Len(x) \in 1..4 /\ \A i \in DOMAIN x : EVUTIL_ISXDIGIT(x[i])
InGroups(g, end) ==
    IF \A i \in DOMAIN g : IsGroup(g[i]) THEN Good([i \in DOMAIN g |-> Value(g[i], 16)] \o end) ELSE Bad
LastMayBeQuad(p) == IF IsQuad(Last(p)) THEN InGroups(Front(p), Quad(Last(p))) ELSE InGroups(p, <<>>)
Groups(x, dotted) ==
    IF x = <<>> THEN Good(<<>>)
    ELSE IF dotted THEN LastMayBeQuad(Parts(x, ":")) ELSE InGroups(Parts(x, ":"), <<>>)
Whole(l) == IF l.ok /\ Len(l.w) = NWords THEN l ELSE Bad
WithGap(l, r) ==
    LET n == Len(l.w) + Len(r.w)
    IN IF l.ok /\ r.ok /\ n < NWords THEN Good(l.w \o Zeros(NWords - n) \o r.w) ELSE Bad
GapsAt(x, D) ==
    CASE D = {} -> Whole(Groups(x, TRUE))
      [] Cardinality(D) = 1 ->
           LET d == CHOOSE i \in D : TRUE
           IN WithGap(Groups(SubSeq(x, 1, d - 1), FALSE), Groups(SubSeq(x, d + 2, Len(x)), TRUE))
      [] OTHER -> Bad
TextForm(x) == GapsAt(x, {i \in 1..(Len(x) - 1) : x[i] = ":" /\ x[i + 1] = ":"})

LoneColon(x) == x # <<>> /\ Last(x) = ":" /\ (Len(x) = 1 \/ x[Len(x) - 1] # ":")

(* evutil_inet_pton takes exactly the texts of RFC 4291, with their meaning,
   except that it lets a lone colon at the end pass. *)
PtonMeans == LoneColon(str) \/ evutil_inet_pton6(str) = TextForm(str)

SameAddress(text, w) == TextForm(text) = Good(w) /\ evutil_inet_pton6(text) = Good(w)

(* What evutil_inet_ntop prints is a text of RFC 4291 for the same address, and
   evutil_inet_pton reads it back, given room for the text and its terminator;
   a zero word printed as one is never left out on its own. *)
NtopMeans == LET v4 == SubSeq(words, NWords - 1, NWords)
             IN
             /\ SameAddress(evutil_inet_ntop6(words, Len(Text6(words)) + 1), words)
             /\ \A room \in 1..(Len(QuadText(v4)) + 1) :
                    evutil_inet_ntop4(v4, room) \in {QuadText(v4), <<"NULL">>}
             /\ \A i \in 1..NWords : longestGapPos(words) = i => RunLen(words, i) > 1

(* evutil_parse_sockaddr_port reads back what evutil_format_sockaddr_port
   printed, for both families and every port but 0. *)
SockaddrRoundTrip ==
    \A w \in {words, SubSeq(words, NWords - 1, NWords)} :
        evutil_parse_sockaddr_port(evutil_format_sockaddr_port(w, port))
            = IF port = 0 THEN NoAddress ELSE [ok |-> TRUE, w |-> w, port |-> port]

=============================================================================
