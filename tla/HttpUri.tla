------------------------------ MODULE HttpUri -------------------------------
(***************************************************************************)
(* The string algorithms of http.c: parsing and joining of URIs, escaping  *)
(* and unescaping, query arguments, the host of a request and the choice   *)
(* of a virtual host.  Every string over a small alphabet is tried and the *)
(* results are compared with reference definitions.                        *)
(***************************************************************************)
EXTENDS Integers, Sequences, FiniteSets, SequencesExt

CONSTANTS Alphabet,        \* characters of str
          MaxLen,          \* bound: characters of str, "//" at its front aside
          PatternAlphabet, \* characters of a host pattern
          MaxPattern,      \* bound: characters of a pattern
          Virtualhosts,    \* the virtual hosts of a host, in order
          Vhost_pattern, Aliases   \* of each host

VARIABLES str,             \* the string at hand
          pattern          \* a pattern

vars == <<str, pattern>>

Addr == INSTANCE EvutilAddr WITH NWords <- 8, WordValues <- {}, words <- <<>>, port <- 0

Lowers == <<"a", "b", "c", "d", "e", "f", "h", "o", "p", "t", "v">>
Uppers == <<"A", "B", "C", "D", "E", "F", "H", "O", "P", "T", "V">>
Digit == {"0", "1", "2", "3", "4", "5", "6", "7", "8", "9"}
EVUTIL_ISALPHA(c) == c \in Range(Lowers) \union Range(Uppers)
EVUTIL_ISDIGIT(c) == c \in Digit
EVUTIL_ISALNUM(c) == EVUTIL_ISALPHA(c) \/ EVUTIL_ISDIGIT(c)
EVUTIL_TOLOWER(c) == IF c \in Range(Uppers) THEN Lowers[CHOOSE i \in DOMAIN Uppers : Uppers[i] = c] ELSE c
EVUTIL_ISXDIGIT(c) == EVUTIL_ISDIGIT(c) \/ EVUTIL_TOLOWER(c) \in {"a", "b", "c", "d", "e", "f"}
CHAR_IS_UNRESERVED(c) == EVUTIL_ISALNUM(c) \/ c \in {"-", ".", "_", "~"}
SUBDELIMS == {"!", "$", "&", "'", "(", ")", "*", "+", ",", ";", "="}

(* the codes of the characters that are escaped; "other" is any character that
   is none of the alphabet's *)
Hex == [c \in {" ", "%", "/", "?", "&", "=", "+", "#", ":", "@", "<"} |->
          CASE c = " " -> <<"2", "0">> [] c = "%" -> <<"2", "5">> [] c = "/" -> <<"2", "F">>
            [] c = "?" -> <<"3", "F">> [] c = "&" -> <<"2", "6">> [] c = "=" -> <<"3", "D">>
            [] c = "+" -> <<"2", "B">> [] c = "#" -> <<"2", "3">> [] c = ":" -> <<"3", "A">>
            [] c = "@" -> <<"4", "0">> [] OTHER -> <<"3", "C">>]
Unhex(h, l) == LET same(a, b) == EVUTIL_TOLOWER(a) = EVUTIL_TOLOWER(b)
                   C == {c \in DOMAIN Hex : same(Hex[c][1], h) /\ same(Hex[c][2], l)}
               IN IF C = {} THEN "other" ELSE CHOOSE c \in C : TRUE

at(x, i) == IF i <= Len(x) THEN x[i] ELSE "NUL"
From(x, i) == SubSeq(x, i, Len(x))
Upto(x, i) == SubSeq(x, 1, i - 1)
(* the first position from i on with one of C, or the end *)
RECURSIVE First(_, _, _)
First(x, i, C) == IF i > Len(x) \/ x[i] \in C THEN i ELSE First(x, i + 1, C)
strchr(x, c) == First(x, 1, {c})

NULL == <<"NULL">>

-----------------------------------------------------------------------------
(* Escapes *)

RECURSIVE evhttp_uriencode(_, _), Decode(_, _, _, _)
evhttp_uriencode(x, space_as_plus) ==
    IF x = <<>> THEN <<>>
    ELSE LET c == x[1]
         IN (IF CHAR_IS_UNRESERVED(c) THEN <<c>>
             ELSE IF c = " " /\ space_as_plus THEN <<"+">>
             ELSE <<"%">> \o Hex[c]) \o evhttp_uriencode(Tail(x), space_as_plus)

IsEscape(x, i) == x[i] = "%" /\ EVUTIL_ISXDIGIT(at(x, i + 1)) /\ EVUTIL_ISXDIGIT(at(x, i + 2))

Decode(x, i, plus, ctl) ==
    IF i > Len(x) THEN <<>>
    ELSE IF x[i] = "?" THEN <<"?">> \o Decode(x, i + 1, plus \/ ctl = -1, ctl)
    ELSE IF x[i] = "+" /\ plus THEN <<" ">> \o Decode(x, i + 1, plus, ctl)
    ELSE IF IsEscape(x, i) THEN <<Unhex(x[i + 1], x[i + 2])>> \o Decode(x, i + 3, plus, ctl)
    ELSE <<x[i]>> \o Decode(x, i + 1, plus, ctl)
evhttp_decode_uri_internal(x, ctl) == Decode(x, 1, ctl = 1, ctl)

html_replace(c) == CASE c = "<" -> <<"&", "l", "t", ";">> [] c = ">" -> <<"&", "g", "t", ";">>
                     [] c = "\"" -> <<"&", "q", "u", "o", "t", ";">> [] c = "'" -> <<"&", "#", "0", "3", "9", ";">>
                     [] c = "&" -> <<"&", "a", "m", "p", ";">> [] OTHER -> <<c>>
RECURSIVE evhttp_htmlescape(_)
evhttp_htmlescape(x) == IF x = <<>> THEN <<>> ELSE html_replace(x[1]) \o evhttp_htmlescape(Tail(x))

-----------------------------------------------------------------------------
(* URIs *)

scheme_ok(x) == x # <<>> /\ EVUTIL_ISALPHA(x[1])
                /\ \A i \in 2..Len(x) : EVUTIL_ISALNUM(x[i]) \/ x[i] \in {"+", "-", "."}

(* where the longest run from i of allowed characters and escapes ends, within
   the first e - 1 characters of x *)
RECURSIVE RunOf(_, _, _, _)
RunOf(x, i, e, C) == IF i >= e THEN i
                     ELSE IF CHAR_IS_UNRESERVED(x[i]) \/ x[i] \in SUBDELIMS \union C THEN RunOf(x, i + 1, e, C)
                     ELSE IF IsEscape(x, i) THEN RunOf(x, i + 3, e, C)
                     ELSE i
userinfo_ok(x) == RunOf(x, 1, Len(x) + 1, {":"}) = Len(x) + 1
(* reads beyond e what follows in x *)
regname_ok(x, i, e) == RunOf(x, i, e, {}) >= e

RECURSIVE parse_port(_)
parse_port(x) == IF x = <<>> THEN 0
                 ELSE parse_port(Front(x)) * 10 + Addr!evutil_hex_char_to_int(Last(x))

(* 0: bad, 1: IPv6, 2: a later version *)
bracket_addr_ok(x) ==
    LET in == SubSeq(x, 2, Len(x) - 1)
        dot == strchr(in, ".")
    IN IF Len(x) < 3 \/ x[1] # "[" \/ Last(x) # "]" THEN 0
       ELSE IF in[1] = "v"
            THEN IF /\ dot \in 3..Len(in) /\ \A i \in 2..(dot - 1) : EVUTIL_ISXDIGIT(in[i])
                    /\ \A i \in (dot + 1)..Len(in) : CHAR_IS_UNRESERVED(in[i]) \/ in[i] \in SUBDELIMS \union {":"}
                 THEN 2 ELSE 0
       ELSE IF Addr!evutil_inet_pton6(in).ok THEN 1 ELSE 0

NoUri == [ok |-> FALSE, scheme |-> NULL, userinfo |-> NULL, host |-> NULL, port |-> -1,
          path |-> NULL, query |-> NULL, fragment |-> NULL]

(* the authority is the first e - 1 characters of x; in it the host is from cp
   on and ends before h *)
HostOf(x, cp, h, userinfo, port) ==
    LET host == SubSeq(x, cp, h - 1)
        bracket == host # <<>> /\ host[1] = "[" /\ Len(host) >= 2 /\ Last(host) = "]"
    IN IF IF bracket THEN bracket_addr_ok(host) # 0 ELSE regname_ok(x, cp, h)
       THEN [NoUri EXCEPT !.ok = TRUE, !.host = host, !.userinfo = userinfo, !.port = port]
       ELSE NoUri

(* p is the last character that is no digit *)
PortBehind(x, e, cp, userinfo, p) ==
    IF p >= cp /\ x[p] = ":"
    THEN HostOf(x, cp, p, userinfo, IF p + 1 # e THEN parse_port(SubSeq(x, p + 1, e - 1)) ELSE -1)
    ELSE HostOf(x, cp, e, userinfo, -1)

HostAndPort(x, e, cp, userinfo) ==
    PortBehind(x, e, cp, userinfo,
               CHOOSE k \in (cp - 1)..(e - 1) : /\ \A j \in (k + 1)..(e - 1) : EVUTIL_ISDIGIT(x[j])
                                                /\ k >= cp => ~EVUTIL_ISDIGIT(x[k]))

UserinfoBefore(x, e, a) ==
    IF a >= e THEN HostAndPort(x, e, 1, NULL)
    ELSE IF userinfo_ok(Upto(x, a)) THEN HostAndPort(x, e, a + 1, Upto(x, a))
    ELSE NoUri

parse_authority(x, e) ==
    IF e = 1 THEN [NoUri EXCEPT !.ok = TRUE, !.host = <<>>] ELSE UserinfoBefore(x, e, strchr(x, "@"))

end_of_authority(x) == First(x, 1, {"?", "#", "/"})

end_of_path(x, i, part, nonconformant) ==
    IF nonconformant
    THEN First(x, i, CASE part = "PATH" -> {"#", "?"} [] part = "QUERY" -> {"#"} [] OTHER -> {})
    ELSE RunOf(x, i, Len(x) + 1, {":", "@", "/"} \union IF part = "PATH" THEN {} ELSE {"?"})

path_matches_noscheme(x) == at(x, First(x, 1, {":", "/"})) # ":"

(* p is what is behind scheme and authority: its path ends before q, its query
   before f, its fragment before end; u is the authority *)
Assembled(p, u, scheme, q, f, end) ==
    LET path == Upto(p, q)
        auth == u.host # NULL
    IN IF \/ ~u.ok \/ end <= Len(p)
          \/ ~auth /\ at(path, 1) = "/" /\ at(path, 2) = "/"
          \/ auth /\ path # <<>> /\ path[1] # "/"
          \/ scheme = NULL /\ ~path_matches_noscheme(path)
       THEN NoUri
       ELSE [u EXCEPT !.scheme = scheme, !.path = path,
                      !.query = IF at(p, q) = "?" THEN SubSeq(p, q + 1, f - 1) ELSE NULL,
                      !.fragment = IF at(p, f) = "#" THEN From(p, f + 1) ELSE NULL]

FragmentFrom(p, u, scheme, n, q, f) ==
    Assembled(p, u, scheme, q, f, IF at(p, f) = "#" THEN end_of_path(p, f + 1, "FRAGMENT", n) ELSE f)

QueryFrom(p, u, scheme, n, q) ==
    FragmentFrom(p, u, scheme, n, q, IF at(p, q) = "?" THEN end_of_path(p, q + 1, "QUERY", n) ELSE q)

PathFrom(p, u, scheme, n) == QueryFrom(p, u, scheme, n, end_of_path(p, 1, "PATH", n))

AuthorityUpto(r, e, scheme, n) == PathFrom(From(r, e), parse_authority(r, e), scheme, n)

BehindScheme(r, scheme, n) ==
    IF at(r, 1) = "/" /\ at(r, 2) = "/" THEN AuthorityUpto(From(r, 3), end_of_authority(From(r, 3)), scheme, n)
    ELSE PathFrom(r, [NoUri EXCEPT !.ok = TRUE], scheme, n)

SchemeUpto(x, colon, n) ==
    IF colon <= Len(x) /\ scheme_ok(Upto(x, colon)) THEN BehindScheme(From(x, colon + 1), Upto(x, colon), n)
    ELSE BehindScheme(x, NULL, n)

evhttp_uri_parse_with_flags(x, nonconformant) == SchemeUpto(x, strchr(x, ":"), nonconformant)

evhttp_uri_join(u) ==
    LET opt(x, before, after) == IF x = NULL THEN <<>> ELSE before \o x \o after
        host == opt(u.userinfo, <<>>, <<"@">>) \o u.host
                \o (IF u.port >= 0 THEN <<":">> \o Addr!Numeral(u.port, 10) ELSE <<>>)
    IN IF u.host # NULL /\ u.path # <<>> /\ u.path[1] # "/" THEN NULL
       ELSE opt(u.scheme, <<>>, <<":">>) \o (IF u.host = NULL THEN <<>> ELSE <<"/", "/">> \o host) \o u.path
            \o opt(u.query, <<"?">>, <<>>) \o opt(u.fragment, <<"#">>, <<>>)
-----------------------------------------------------------------------------
(* Queries and hosts *)

(* the pairs of x, or NULL *)
RECURSIVE Arguments(_, _)
Arguments(x, got) ==
    LET amp == strchr(x, "&")
        arg == Upto(x, amp)
        eq == strchr(arg, "=")
    IN IF x = <<>> THEN got
       ELSE IF eq > Len(arg) \/ eq = 1 THEN NULL
       ELSE Arguments(From(x, amp + 1),
                      Append(got, <<Upto(arg, eq), evhttp_decode_uri_internal(From(arg, eq + 1), 1)>>))
evhttp_parse_query_str(x) == Arguments(x, <<>>)

(* the host without its port *)
evhttp_request_get_host(h) ==
    LET p == CHOOSE k \in 1..Len(h) : /\ \A j \in (k + 1)..Len(h) : EVUTIL_ISDIGIT(h[j])
                                      /\ k > 1 => ~EVUTIL_ISDIGIT(h[k])
    IN IF p > 1 /\ h[p] = ":" THEN Upto(h, p) ELSE h

RECURSIVE prefix_suffix_match(_, _)
prefix_suffix_match(p, x) ==
    IF p = <<>> THEN x = <<>>
    ELSE IF p[1] = "*" THEN \E i \in 1..Len(x) : prefix_suffix_match(Tail(p), From(x, i))
    ELSE x # <<>> /\ EVUTIL_TOLOWER(p[1]) = EVUTIL_TOLOWER(x[1]) /\ prefix_suffix_match(Tail(p), Tail(x))

Lower(x) == [i \in DOMAIN x |-> EVUTIL_TOLOWER(x[i])]

(* the first host below http, http included, that has the alias *)
RECURSIVE evhttp_find_alias(_, _), InVhosts(_, _, _)
evhttp_find_alias(http, name) ==
    IF \E a \in Aliases[http] : Lower(a) = Lower(name) THEN {http} ELSE InVhosts(Virtualhosts[http], 1, name)
InVhosts(vs, i, name) ==
    IF i > Len(vs) THEN {}
    ELSE LET r == evhttp_find_alias(vs[i], name) IN IF r # {} THEN r ELSE InVhosts(vs, i + 1, name)

RECURSIVE Narrow(_, _)
Narrow(http, name) ==
    LET M == SelectSeq(Virtualhosts[http], LAMBDA v : prefix_suffix_match(Vhost_pattern[v], name))
    IN IF M = <<>> THEN http ELSE Narrow(M[1], name)

evhttp_find_vhost(http, name) ==
    LET a == evhttp_find_alias(http, name) IN IF a # {} THEN CHOOSE h \in a : TRUE ELSE Narrow(http, name)

Slashes == <<"/", "/">>
Init == str \in {<<>>, Slashes} /\ pattern = <<>>
Grow == Len(str) < MaxLen + (IF IsPrefix(Slashes, str) THEN 2 ELSE 0) /\ \E c \in Alphabet : str' = Append(str, c) /\ UNCHANGED pattern
GrowPattern == Len(pattern) < MaxPattern /\ \E c \in PatternAlphabet : pattern' = Append(pattern, c) /\ UNCHANGED str
Next == Grow \/ GrowPattern
Spec == Init /\ [][Next]_vars
-----------------------------------------------------------------------------
(* RFC 3986, appendix B: how a reference falls into its five components *)
Components(x) ==
    LET c == First(x, 1, {":", "/", "?", "#"})
        sch == c > 1 /\ at(x, c) = ":"
        r == IF sch THEN From(x, c + 1) ELSE x
        auth == at(r, 1) = "/" /\ at(r, 2) = "/"
        e == IF auth THEN First(r, 3, {"/", "?", "#"}) ELSE 1
        q == First(r, e, {"?", "#"})
        f == First(r, q, {"#"})
    IN [scheme |-> IF sch THEN Upto(x, c) ELSE NULL, authority |-> IF auth THEN SubSeq(r, 3, e - 1) ELSE NULL,
        path |-> SubSeq(r, e, q - 1), query |-> IF q < f THEN SubSeq(r, q + 1, f - 1) ELSE NULL,
        fragment |-> IF f <= Len(r) THEN From(r, f + 1) ELSE NULL]

(* evhttp_uri_parse_with_flags splits a URI where RFC 3986 splits it, and
   neither reads past the host nor leaves a piece of the string out. *)
UriComponents ==
    \A n \in BOOLEAN : \A u \in {evhttp_uri_parse_with_flags(str, n)}, c \in {Components(str)} :
        u.ok => /\ u.scheme = c.scheme /\ u.path = c.path /\ u.query = c.query /\ u.fragment = c.fragment
                /\ (u.host = NULL) = (c.authority = NULL)
                /\ u.host # NULL => LET before == IF u.userinfo = NULL THEN <<>> ELSE u.userinfo \o <<"@">>
                                    IN IsPrefix(before \o u.host, c.authority)

(* Joining what was parsed and parsing it again gives the same parts. *)
UriRoundTrip ==
    \A n \in BOOLEAN : \A u \in {evhttp_uri_parse_with_flags(str, n)} :
        u.ok => evhttp_uri_parse_with_flags(evhttp_uri_join(u), n) = u

(* The host of a Host header is the host of the URI with that authority
   ("consistent with uri_elems case above", http.c). *)
HostAgrees ==
    \A u \in {evhttp_uri_parse_with_flags(<<"h", "t", "t", "p", ":", "/", "/">> \o str, FALSE)} :
        u.ok /\ u.userinfo = NULL /\ u.path = <<>> /\ u.query = NULL /\ u.fragment = NULL /\ u.host # <<>>
        => evhttp_request_get_host(str) = u.host

(* What evhttp_uriencode escaped, evhttp_uridecode gives back, and a query made
   of escaped values is parsed into them. *)
EscapesUndone ==
    LET enc(p) == evhttp_uriencode(str, p)
        k == <<"b", "=">>
    IN /\ evhttp_decode_uri_internal(enc(TRUE), 1) = str
       /\ \A ctl \in {0, 1} : evhttp_decode_uri_internal(enc(FALSE), ctl) = str
       /\ \A p \in BOOLEAN : evhttp_parse_query_str(k \o enc(p) \o <<"&">> \o k \o enc(p)) = <<<<<<"b">>, str>>, <<<<"b">>, str>>>>

(* An escaped text holds no character of HTML, and says what it said. *)
RECURSIVE Unescape(_)
Unescape(x) ==
    LET hit == {c \in {"<", ">", "\"", "'", "&"} : IsPrefix(html_replace(c), x)}
    IN IF x = <<>> THEN <<>>
       ELSE IF hit = {} THEN <<x[1]>> \o Unescape(Tail(x))
       ELSE LET c == CHOOSE d \in hit : TRUE IN <<c>> \o Unescape(From(x, Len(html_replace(c)) + 1))
HtmlSafe == LET h == evhttp_htmlescape(str)
            IN Range(h) \intersect {"<", ">", "\"", "'"} = {} /\ Unescape(h) = str

(* shell matching, letters in either case *)
RECURSIVE Glob(_, _)
Glob(p, x) == IF p = <<>> THEN x = <<>>
              ELSE IF p[1] = "*" THEN \E i \in 1..(Len(x) + 1) : Glob(Tail(p), From(x, i))
              ELSE x # <<>> /\ Lower(<<p[1]>>) = Lower(<<x[1]>>) /\ Glob(Tail(p), Tail(x))

(* prefix_suffix_match is shell matching for patterns that do not end in a
   star. *)
MatchIsGlob == (pattern = <<>> \/ Last(pattern) # "*") => prefix_suffix_match(pattern, str) = Glob(pattern, str)

(* evhttp_find_vhost finds a host with that alias if there is one, and else goes
   down the matching patterns as far as they go. *)
RECURSIVE Below(_)
Below(h) == {h} \union UNION {Below(Virtualhosts[h][i]) : i \in DOMAIN Virtualhosts[h]}
BestHost ==
    \A h \in {evhttp_find_vhost("root", str)} :
        LET named == {v \in Below("root") : \E a \in Aliases[v] : Lower(a) = Lower(str)}
            up == {v \in Below("root") \ {"root"} : h \in Below(v)}
        IN IF named # {} THEN h \in named
           ELSE /\ \A v \in up : Glob(Vhost_pattern[v], str)
                /\ \A i \in DOMAIN Virtualhosts[h] : ~Glob(Vhost_pattern[Virtualhosts[h][i]], str)
=============================================================================
