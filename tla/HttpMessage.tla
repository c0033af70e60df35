---------------------------- MODULE HttpMessage ----------------------------
(***************************************************************************)
(* How http.c reads a message from a stream that arrives in pieces: the    *)
(* first line, the headers, a body of known length, in chunks or until the *)
(* end of the connection, and the trailer behind chunks.  The input grows  *)
(* by pieces of any size up to MaxPiece and the reader runs after each.    *)
(* "v" stands for a version, the digits for themselves.                    *)
(***************************************************************************)
EXTENDS Integers, Sequences, SequencesExt

CONSTANTS Chars,        \* the characters that arrive
          MaxLen,       \* bound: of the input
          MaxPiece,     \* bound: characters that arrive together
          Starts,       \* where reading starts: <<phase, kind or framing, length>>
          max_headers_size, max_body_size

VARIABLES text,         \* all of the input so far
          start,        \* where reading started
          r             \* the request and its buffer

vars == <<text, start, r>>

Digit == [ch \in {"0", "1", "2"} |-> CASE ch = "0" -> 0 [] ch = "1" -> 1 [] ch = "2" -> 2]
At(s, i) == IF i <= Len(s) THEN s[i] ELSE "end"
First(s, i, P(_)) == CHOOSE k \in i..(Len(s) + 1) : (k = Len(s) + 1 \/ P(s[k])) /\ \A j \in i..(k - 1) : ~P(s[j])
From(s, i) == SubSeq(s, i, Len(s))

RECURSIVE Value(_)
Value(ds) == IF ds = <<>> THEN 0 ELSE 16 * Value(Front(ds)) + Digit[Last(ds)]

(* strtoll in base 16: blanks, an optional 0x, digits; endp is the start when
   there are none *)
DigitsAt(p, d) ==
    LET e == First(p, d, LAMBDA ch : ch \notin DOMAIN Digit)
    IN IF e = d THEN [value |-> 0, endp |-> 1] ELSE [value |-> Value(SubSeq(p, d, e - 1)), endp |-> e]
evutil_strtoll(p) ==
    LET b == First(p, 1, LAMBDA ch : ch # " ")
    IN DigitsAt(p, IF At(p, b) = "0" /\ At(p, b + 1) = "x" /\ At(p, b + 2) \in DOMAIN Digit THEN b + 2 ELSE b)

(* a line and what is behind it; the caller has made sure there is one *)
HasLine(b) == \E i \in 1..Len(b) : b[i] = "\n"
evbuffer_readln(b) ==
    LET i == First(b, 1, LAMBDA ch : ch = "\n")
    IN [line |-> SubSeq(b, 1, i - 1), rest |-> From(b, i + 1)]

strsep(s, ch) ==
    LET i == First(s, 1, LAMBDA x : x = ch)
    IN [field |-> SubSeq(s, 1, i - 1), rest |-> From(s, i + 1), null |-> i = Len(s) + 1]

Fails(q, why) == [q EXCEPT !.phase = "FAILED", !.why = why]
evhttp_parse_http_version(v) == v = <<"v">>
evhttp_valid_response_code(n) == \E i \in 1..Len(n) : /\ \A j \in 1..i : n[j] \in DOMAIN Digit
                                                       /\ n[i] # "0"

(* fields, of which the first is f, or the second, or the third *)
VersionAndCode(f) ==
    /\ ~f.null /\ evhttp_parse_http_version(f.field)
    /\ evhttp_valid_response_code(strsep(f.rest, " ").field)
evhttp_parse_response_line(line) == VersionAndCode(strsep(line, " "))

LastIsVersion(f) == f.null /\ evhttp_parse_http_version(f.field)
UriAndVersion(f) == ~f.null /\ LastIsVersion(strsep(f.rest, " "))
MethodUriVersion(f) == ~f.null /\ UriAndVersion(strsep(f.rest, " "))
evhttp_parse_request_line(line) == MethodUriVersion(strsep(line, " "))

evhttp_append_to_last_header(hs, line) ==
    [hs EXCEPT ![Len(hs)] = [@ EXCEPT !.value = @ \o line]]

RECURSIVE evhttp_parse_headers(_)

(* one line is a continuation of the last header, or a header: t is the request
   behind it *)
KeyAndValue(t, kv) ==
    IF kv.null THEN Fails(t, "corrupted")
    ELSE evhttp_parse_headers([t EXCEPT !.headers =
             Append(@, [key |-> kv.field, value |-> From(kv.rest, First(kv.rest, 1, LAMBDA ch : ch # " "))])])

HeaderLine(t, line) ==
    CASE t.headers_size > max_headers_size -> Fails(t, "too long")
      [] t.headers_size <= max_headers_size /\ line = <<>> -> [t EXCEPT !.phase = "READ"]
      [] t.headers_size <= max_headers_size /\ At(line, 1) = " " ->
           IF t.headers = <<>> THEN Fails(t, "corrupted")
           ELSE evhttp_parse_headers([t EXCEPT !.headers = evhttp_append_to_last_header(@, line)])
      [] OTHER -> KeyAndValue(t, strsep(line, ":"))

ReadHeader(q, l) == HeaderLine([q EXCEPT !.buf = l.rest, !.headers_size = @ + Len(l.line)], l.line)

(* mutant: the size read so far is forgotten when more is awaited *)
evhttp_parse_headers_Restarts(q) ==
    IF ~HasLine(q.buf) THEN [q EXCEPT !.headers_size = 0] ELSE ReadHeader(q, evbuffer_readln(q.buf))

evhttp_parse_headers(q) ==
    IF HasLine(q.buf) THEN ReadHeader(q, evbuffer_readln(q.buf))
    ELSE IF q.headers_size + Len(q.buf) > max_headers_size THEN Fails(q, "too long") ELSE q

FirstLine(q, l) ==
    LET ok == IF q.how = "REQUEST" THEN evhttp_parse_request_line(l.line) ELSE evhttp_parse_response_line(l.line)
    IN IF Len(l.line) > max_headers_size THEN Fails(q, "too long")
       ELSE IF ~ok THEN Fails(q, "corrupted")
       ELSE [q EXCEPT !.phase = "HEADERS", !.buf = l.rest, !.headers_size = Len(l.line)]

evhttp_parse_firstline(q) ==
    IF HasLine(q.buf) THEN FirstLine(q, evbuffer_readln(q.buf))
    ELSE IF Len(q.buf) > max_headers_size THEN Fails(q, "too long") ELSE q

RECURSIVE evhttp_handle_chunked_read(_)
(* x is the size of a chunk on a line, t the request behind that line *)
ChunkSize(t, line, x) ==
    IF At(line, x.endp) \notin {"end", " "} THEN Fails(t, "corrupted")
    ELSE IF t.body_size + x.value > max_body_size THEN Fails(t, "too long")
    ELSE IF x.value = 0 THEN [t EXCEPT !.phase = "TRAILER", !.ntoread = 0]
    ELSE evhttp_handle_chunked_read([t EXCEPT !.body_size = @ + x.value, !.ntoread = x.value])

ChunkLine(t, line) ==
    IF line = <<>> THEN evhttp_handle_chunked_read(t) ELSE ChunkSize(t, line, evutil_strtoll(line))

ReadChunkLine(q, l) == ChunkLine([q EXCEPT !.buf = l.rest], l.line)

(* ntoread < 0: a size is next *)
evhttp_handle_chunked_read(q) ==
    CASE q.buf = <<>> -> q
      [] q.buf # <<>> /\ q.ntoread < 0 ->
            IF HasLine(q.buf) THEN ReadChunkLine(q, evbuffer_readln(q.buf)) ELSE q
      [] OTHER ->
            IF Len(q.buf) < q.ntoread THEN q
            ELSE evhttp_handle_chunked_read([q EXCEPT !.body = @ \o SubSeq(q.buf, 1, q.ntoread),
                                                      !.buf = From(@, q.ntoread + 1), !.ntoread = -1])

evhttp_read_trailer(q) == evhttp_parse_headers(q)

(* how: in chunks, of a length (moved when all of it is there), until close *)
BodyMoved(q) ==
    CASE q.how = "chunked" -> evhttp_handle_chunked_read(q)
      [] q.how = "close" -> [q EXCEPT !.body = @ \o q.buf, !.buf = <<>>, !.body_size = @ + Len(q.buf)]
      [] OTHER -> IF Len(q.buf) < q.ntoread THEN q
                  ELSE [q EXCEPT !.body = SubSeq(q.buf, 1, q.ntoread), !.buf = From(@, q.ntoread + 1),
                                 !.body_size = q.ntoread, !.ntoread = 0]

BodyChecked(t) ==
    CASE t.phase = "FAILED" -> t
      [] t.phase = "TRAILER" -> evhttp_read_trailer(t)
      [] t.phase = "BODY" /\ (t.body_size > max_body_size \/ (t.how = "length" /\ t.ntoread > max_body_size)) ->
            Fails(t, "too long")
      [] OTHER -> IF t.how = "length" /\ t.ntoread = 0 THEN [t EXCEPT !.phase = "READ"] ELSE t

evhttp_read_body(q) == BodyChecked(BodyMoved(q))

(* evhttp_read_cb: one phase leads into the next *)
evhttp_read_header(q) == evhttp_parse_headers(q)
HeadersNext(t) == IF t.phase = "HEADERS" THEN evhttp_read_header(t) ELSE t
evhttp_read_firstline(q) == HeadersNext(evhttp_parse_firstline(q))
evhttp_read_cb(q) ==
    CASE q.phase = "FIRSTLINE" -> evhttp_read_firstline(q)
      [] q.phase = "HEADERS" -> evhttp_read_header(q)
      [] q.phase = "BODY" -> evhttp_read_body(q)
      [] q.phase = "TRAILER" -> evhttp_read_trailer(q)
      [] OTHER -> q
-----------------------------------------------------------------------------
Fresh(st) == [phase |-> st[1], how |-> st[2], ntoread |-> st[3], buf |-> <<>>, body |-> <<>>, body_size |-> 0,
              headers |-> <<>>, headers_size |-> 0, why |-> "none"]

Init == text = <<>> /\ start \in Starts /\ r = evhttp_read_cb(Fresh(start))

(* a piece arrives while the message is not over *)
Arrives == /\ r.phase \notin {"READ", "FAILED"}
           /\ \E piece \in UNION {[1..n -> Chars] : n \in 1..MaxPiece} :
                  /\ Len(text) + Len(piece) <= MaxLen
                  /\ text' = text \o piece /\ start' = start
                  /\ r' = evhttp_read_cb([r EXCEPT !.buf = @ \o piece])

Next == Arrives
Spec == Init /\ [][Next]_vars
-----------------------------------------------------------------------------
(* What has been read does not depend on how the input was cut into pieces: it
   is what one piece with all of the input gives (but for what stays in the
   buffer of a message that has failed). *)
Result(q) == [phase |-> q.phase, why |-> q.why, body |-> q.body, headers |-> q.headers,
              buf |-> IF q.phase = "FAILED" THEN <<>> ELSE q.buf]
SplitIndependent == Result(r) = Result(evhttp_read_cb([Fresh(start) EXCEPT !.buf = text]))

(* The body of a chunked message is what the encoding says: sizes on lines of
   their own, each followed by as many characters (evhttp_send_reply_chunk
   writes them so), up to a size of 0. *)
RECURSIVE Encodes(_, _)
Encodes(s, b) ==
    \/ /\ Len(s) >= 2 /\ s[1] = "0" /\ s[2] = "\n" /\ b = <<>>
    \/ /\ Len(s) >= 2 /\ s[1] \in {"1", "2"} /\ s[2] = "\n"
       /\ LET n == Digit[s[1]]
          IN /\ Len(s) >= n + 3 /\ s[n + 3] = "\n" /\ Len(b) >= n /\ SubSeq(b, 1, n) = SubSeq(s, 3, n + 2)
             /\ Encodes(From(s, n + 4), From(b, n + 1))
ChunksDecoded == start[2] = "chunked" =>
    \A b \in UNION {[1..n -> Chars] : n \in 0..2} :
        Encodes(text, b) /\ Len(b) <= max_body_size => r.body = b /\ r.phase \in {"TRAILER", "READ", "FAILED"}

(* The head that was read is within the limit, line breaks not counted, and a
   body is within its own. *)
WithinLimits == r.phase # "FAILED" =>
    /\ r.phase = "READ" /\ start[1] = "FIRSTLINE" =>
           Len(SelectSeq(SubSeq(text, 1, Len(text) - Len(r.buf)), LAMBDA ch : ch # "\n")) <= max_headers_size
    /\ Len(r.body) <= max_body_size

(* A request line has three fields and a status line a version and a number;
   anything else is refused. *)
FirstLineChecked == start[1] = "FIRSTLINE" /\ r.phase \in {"HEADERS", "READ"} =>
    LET l == evbuffer_readln(text).line
        blanks == {i \in 1..Len(l) : l[i] = " "}
    IN IF start[2] = "REQUEST"
       THEN \E i, j \in blanks : i < j /\ blanks = {i, j} /\ From(l, j + 1) = <<"v">>
       ELSE \E i \in blanks : SubSeq(l, 1, i - 1) = <<"v">> /\ At(l, i + 1) \in DOMAIN Digit
=============================================================================
