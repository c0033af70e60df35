--------------------------- MODULE DnsServerPort ---------------------------
(***************************************************************************)
(* A DNS server port of evdns.c: requests are read from a UDP socket and   *)
(* handed to the user, who adds records, responds or drops them, perhaps   *)
(* later and from another thread; replies that could not be sent wait      *)
(* until the socket is writable.  The port lives as long as the user or a  *)
(* request refers to it, and is guarded by a recursive lock.               *)
(***************************************************************************)
EXTENDS Integers, Sequences, FiniteSets, SequencesExt

CONSTANTS
  Requests,    \* requests that may arrive
  Threads,     \* threads of the user; "loop" runs the event loop
  Opcodes,     \* opcodes of the queries: 0 is the standard query
  Nets,        \* the results sendto() may have
  Calls        \* "close": the user closes the port

VARIABLE p

Aborted(t, why) == IF t.abort = "" THEN [t EXCEPT !.abort = why] ELSE t

\* ---------------------------------------------------------------------------

server_port_free(t) ==
  IF t.pending # <<>> THEN Aborted(t, "!port->pending_replies")
  ELSE [t EXCEPT !.mem = "freed", !.watch = {}]

\* a request that leaves its reference behind
FreeKeepsRef(t, r) == [t EXCEPT !.pending = Remove(@, r), !.req[r] = "gone"]

server_request_free(t, r) ==
  LET u == [t EXCEPT !.refcnt = @ - 1, !.pending = Remove(@, r), !.req[r] = "gone"]
  IN IF u.refcnt = 0 THEN server_port_free(u) ELSE u

RECURSIVE server_port_flush(_)

server_port_flush(t) ==
  IF t.pending = <<>> THEN [t EXCEPT !.watch = {"read"}]
  ELSE IF t.net = "again" THEN t
  ELSE LET r == t.pending[1]
           u == server_request_free(IF t.net = "ok" THEN [t EXCEPT !.replies[r] = @ + 1] ELSE t, r)
       IN IF u.mem = "freed" THEN u ELSE server_port_flush(u)

\* A reply that cannot be sent waits: the first one makes the port watch for
\* writing (and no longer for reading when it is being closed).
Queue(t, r) ==
  [t EXCEPT !.pending = Append(@, r), !.req[r] = "pending",
            !.choked = IF t.pending = <<>> THEN TRUE ELSE @,
            !.watch = IF t.pending = <<>> THEN {"write"} \cup (IF t.closing THEN {} ELSE {"read"}) ELSE @]

Respond(t, r) ==
  LET u == [t EXCEPT !.built = @ \cup {r}]
      v == server_request_free([u EXCEPT !.replies[r] = @ + 1], r) IN
  CASE t.net = "again" -> u
    [] t.net = "error" -> Queue(u, r)
    [] v.mem = "freed" -> v
    [] v.pending # <<>> -> server_port_flush(v)
    [] OTHER -> v

\* flags &= 0x0110 ("Only RD and CD get preserved"): no bit of the opcode
OpcodeKept(opcode) == 0

\* A query: its flags are masked before its opcode is looked at.
request_parse(t, r, opcode) ==
  LET u == [t EXCEPT !.refcnt = @ + 1, !.req[r] = "user"] IN
  IF OpcodeKept(opcode) # 0 THEN Respond(u, r) ELSE [u EXCEPT !.seen = @ \cup {opcode}]

\* Every operation takes the lock of the port and releases it at its end; th
\* can run it when no other thread holds the lock.
Locked(th, t, held) ==
  /\ p.abort = "" /\ p.mem = "live" /\ p.owner \in {"none", th}
  /\ p' = LET u == IF t.mem = "freed" /\ held THEN Aborted(t, "the lock of a freed port is released") ELSE t
          IN [u EXCEPT !.net = p.net]

evdns_server_request_respond(th, r, net) ==
  /\ p.req[r] = "user"
  /\ Locked(th, Respond([p EXCEPT !.net = net], r), TRUE)

evdns_server_request_drop(th, r) ==
  /\ p.req[r] = "user"
  /\ Locked(th, server_request_free(p, r), FALSE)

\* A record is added to a section of the reply, unless it was already built.
evdns_server_request_add_reply(th, r) ==
  /\ p.req[r] = "user" /\ r \notin p.built /\ p.records[r] = 0
  /\ Locked(th, [p EXCEPT !.records[r] = 1], TRUE)

\* The socket is ready; when it is readable, request r has arrived.
server_port_ready_callback(net, events, r, opcode) ==
  /\ events # {} /\ events \subseteq p.watch /\ ("read" \in events => p.req[r] = "none")
  /\ LET t == [p EXCEPT !.net = net]
         w == IF "write" \in events THEN server_port_flush([t EXCEPT !.choked = FALSE]) ELSE t
     IN Locked("loop", IF "read" \notin events THEN w
                       ELSE IF w.mem = "freed" THEN Aborted(w, "a freed port is read")
                       ELSE request_parse(w, r, opcode), TRUE)

evdns_close_server_port(th) ==
  /\ "close" \in Calls /\ ~p.closed
  /\ LET t == [p EXCEPT !.refcnt = @ - 1, !.closed = TRUE]
     IN Locked(th, IF t.refcnt = 0 THEN server_port_free(t)
                   ELSE [t EXCEPT !.closing = TRUE, !.owner = th], FALSE)   \* no EVDNS_UNLOCK

\* evdns_add_server_port_with_base()
Init ==
  p = [mem |-> "live", refcnt |-> 1, choked |-> FALSE, closing |-> FALSE, closed |-> FALSE,
       watch |-> {"read"}, pending |-> <<>>, req |-> [r \in Requests |-> "none"],
       records |-> [r \in Requests |-> 0], replies |-> [r \in Requests |-> 0], built |-> {},
       seen |-> {}, net |-> "ok", owner |-> "none", abort |-> ""]

Next ==
  \/ \E th \in Threads, r \in Requests, net \in Nets : evdns_server_request_respond(th, r, net)
  \/ \E th \in Threads, r \in Requests : evdns_server_request_drop(th, r)
  \/ \E th \in Threads, r \in Requests : evdns_server_request_add_reply(th, r)
  \/ \E net \in Nets, events \in SUBSET {"read", "write"}, r \in Requests, o \in Opcodes :
       server_port_ready_callback(net, events, r, o)
  \/ \E th \in Threads : evdns_close_server_port(th)

Spec == Init /\ [][Next]_p

\* ---------------------------------------------------------------------------

\* The references of the port are the user's and those of the requests that
\* the user still holds or that wait to be sent: it is freed with the last.
RefCounted ==
  p.refcnt = Cardinality({r \in Requests : p.req[r] \in {"user", "pending"}}) + (IF p.closed THEN 0 ELSE 1)

\* A reply that waits to be sent is on the list, which the event loop flushes
\* when the socket is writable: the port watches for that.
PendingWatched ==
  /\ \A r \in Requests : p.req[r] = "pending" <=> \E i \in 1..Len(p.pending) : p.pending[i] = r
  /\ p.pending # <<>> => "write" \in p.watch

\* No request is answered twice, and none that the user still holds was.
AnsweredOnce ==
  \A r \in Requests : p.replies[r] <= (IF p.req[r] = "gone" THEN 1 ELSE 0)

=============================================================================
