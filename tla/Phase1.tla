------------------------------- MODULE Phase1 -------------------------------
(****************************************************************************)
(* The phase-1 system: clients (client.c) that send a line and wait for its *)
(* echo, the gateway (libevent.c over rf24_wrap.cpp), and on the other side *)
(* of a radio link a node in the receiver role (pingpair_dyn_int.cpp),      *)
(* which hears the gateway and perhaps a node in the transmitter role.      *)
(*                                                                          *)
(* The gateway is one thread: poll, then the callbacks of what was ready.   *)
(* rf24_wrap.cpp and pingpair_dyn_int.cpp hold the same message code but    *)
(* for the pin that handle_set_message looks for.  A message is the record  *)
(* the header's bytes spell; of a body only the first byte is looked at.    *)
(****************************************************************************)
EXTENDS Integers, Sequences, FiniteSets, SequencesExt

(* enum MESSAGE_TYPE and enum MESSAGE_BUS.                                  *)
message_get == 0
message_set == 1
one_pin == 0

on_off_pin == 17
MAX_BODY_LEN == 24
(* sizeof(RF24_MESSAGE) is 12 with its padding.                             *)
RF24_MESSAGE_HEADER_LEN == 12 - 4
max_payload_size == 32

-----------------------------------------------------------------------------
(* Sending.                                                                 *)

(* What a call hands to radio.write(): the packets, none on an error.       *)
send_RF24_mesage(body, len, m_proto, m_type, m_pin_mask) ==
  IF len > MAX_BODY_LEN THEN {}
  ELSE {[message_type |-> (m_type % 16) + 16 * (m_proto % 16),
         message_body_len |-> len,
         pin_mask |-> m_pin_mask,
         message_body |-> IF len = 0 THEN 0 ELSE body,
         size |-> RF24_MESSAGE_HEADER_LEN + len]}

send_RF24_one_pin(on_off, pin_num) ==
  IF pin_num > 32 THEN {}
  ELSE send_RF24_mesage(on_off, 1, one_pin, message_set, 2^pin_num)

-----------------------------------------------------------------------------
(* Receiving.  The node's state is its pin and how many bytes of the        *)
(* 24-byte m_message the last messages wrote.                               *)

(* rf24_wrap.cpp tests the mask for pin 4, the node for on_off_pin.         *)
MaskMatches(mask) == mask \div (2^on_off_pin) = 1

set_pin(node, level) == [node EXCEPT !.pin = level]

handle_set_message(node, protol, mask, body) ==
  IF protol = one_pin /\ MaskMatches(mask)
  THEN set_pin(node, IF body = 1 THEN "high" ELSE "low")
  ELSE node

(* message_get and message_return are still "to be done".                   *)
hanlde_RF24_mesage(node, m) ==
  LET m_type == m.message_type % 16
      m_proto == m.message_type \div 16
      copied == [node EXCEPT !.wrote = m.message_body_len + 1]
  IN  IF m.message_body_len > MAX_BODY_LEN THEN node
      ELSE IF m_type = message_set
           THEN handle_set_message(copied, m_proto, m.pin_mask, m.message_body)
           ELSE copied

-----------------------------------------------------------------------------
CONSTANTS
  Client,      \* client processes, one at a time per descriptor
  Line,        \* lines typed: "a" (on), "b" (off), "other", "exit"
  Buf,         \* addresses malloc() may give the read buffers
  BodyLen,     \* body lengths other users of the library send
  Transmitter, \* is there a node in the transmitter role?
  MaxFifo,     \* packets the node's radio holds (three on the nRF24L01)
  None         \* no buffer

VARIABLES
  up,          \* "running", "corrupt" (libevent's lists), "killed" (SIGPIPE)
  cli,         \* state of each client
  line,        \* the line it sent last
  inbuf,       \* lines on their way to the gateway
  echo,        \* lines on their way back
  open,        \* connections the gateway has accepted and not closed
  active,      \* events of this poll still to be dispatched
  wev,         \* buffer write_ev is pending with, or None
  heap,        \* contents of the allocated buffers
  fifo,        \* packets received by the node's radio
  node,        \* the node's pin, and the extent of its last message copy
  ordered,     \* ghost: the level the last gateway packet delivered asks for
  flag         \* the transmitter's alternating flag

connVars == <<cli, line, inbuf, echo>>
radioVars == <<fifo, node, ordered, flag>>
vars == <<up, connVars, open, active, wev, heap, radioVars>>

Gone == {"fin", "rst", "eof"}

Init ==
  /\ up = "running"
  /\ cli = [c \in Client |-> "new"] /\ line = [c \in Client |-> "other"]
  /\ inbuf = [c \in Client |-> <<>>] /\ echo = [c \in Client |-> <<>>]
  /\ open = {} /\ active = {} /\ wev = [c \in Client |-> None]
  /\ heap = [b \in {} |-> "other"]
  /\ fifo = <<>> /\ node = [pin |-> "unset", wrote |-> 0] /\ ordered = "unset"
  /\ flag \in {0, 1}          \* uninitialised in main()

-----------------------------------------------------------------------------
(* client.c                                                                 *)

Connect(c) ==
  /\ cli[c] = "new"
  /\ cli' = [cli EXCEPT ![c] = "idle"]
  /\ UNCHANGED <<up, line, inbuf, echo, open, active, wev, heap, radioVars>>

(* send(); "exit" is not waited for.                                        *)
SendLine(c, l) ==
  /\ cli[c] = "idle"
  /\ line' = [line EXCEPT ![c] = l]
  /\ inbuf' = [inbuf EXCEPT ![c] = Append(@, l)]
  /\ cli' = [cli EXCEPT ![c] = IF l = "exit" THEN "leaving" ELSE "waiting"]
  /\ UNCHANGED <<up, echo, open, active, wev, heap, radioVars>>

(* recv() takes whatever has come.                                          *)
ReceiveEcho(c) ==
  /\ cli[c] = "waiting" /\ echo[c] # <<>>
  /\ cli' = [cli EXCEPT ![c] = "idle"]
  /\ echo' = [echo EXCEPT ![c] = <<>>]
  /\ UNCHANGED <<up, line, inbuf, open, active, wev, heap, radioVars>>

(* close() behind "exit" or at the end of the input; what was not received  *)
(* turns it into a reset.                                                   *)
Close(c) ==
  /\ cli[c] \in {"idle", "leaving"}
  /\ cli' = [cli EXCEPT ![c] = IF echo[c] = <<>> THEN "fin" ELSE "rst"]
  /\ UNCHANGED <<up, line, inbuf, echo, open, active, wev, heap, radioVars>>

ClientStep(c) ==
  Connect(c) \/ ReceiveEcho(c) \/ Close(c) \/ \E l \in Line : SendLine(c, l)

-----------------------------------------------------------------------------
(* libevent.c                                                               *)

Accepting(c) == c \notin open /\ cli[c] # "new"
Ready ==
  {<<c, "accept">> : c \in {d \in Client : Accepting(d)}}
  \cup {<<c, "read">> : c \in {d \in open : inbuf[d] # <<>> \/ cli[d] \in Gone}}
  \cup {<<c, "write">> : c \in {d \in open : wev[d] # None}}

(* The listening socket is ready once per poll, for one connection.         *)
Poll ==
  /\ up = "running" /\ active = {} /\ Ready # {}
  /\ \E acc \in SUBSET {e \in Ready : e[2] = "accept"} :
        /\ Cardinality(acc) = IF \E e \in Ready : e[2] = "accept" THEN 1 ELSE 0
        /\ active' = acc \cup {e \in Ready : e[2] # "accept"}
  /\ UNCHANGED <<up, connVars, open, wev, heap, radioVars>>

(* Of one descriptor the event added first, read_ev, runs first.            *)
Dispatch(c, kind) ==
  /\ up = "running" /\ <<c, kind>> \in active
  /\ kind = "write" => <<c, "read">> \notin active
  /\ active' = active \ {<<c, kind>>}

on_accept(c) ==
  /\ Dispatch(c, "accept")
  /\ open' = open \cup {c}
  /\ UNCHANGED <<up, connVars, wev, heap, radioVars>>

(* A fresh buffer, zeroed and filled by recv(), becomes the argument of     *)
(* write_ev.  event_set() on an event libevent still holds breaks its lists. *)
ReadInto(c, content) ==
  LET b == CHOOSE x \in Buf : x \notin DOMAIN heap
  IN  /\ heap' = [x \in DOMAIN heap \cup {b} |-> IF x = b THEN content ELSE heap[x]]
      /\ wev' = [wev EXCEPT ![c] = b]
      /\ up' = IF wev[c] = None THEN up ELSE "corrupt"

(* Only read_ev is deleted, whatever write_ev is doing; the buffer on_read  *)
(* has just allocated is freed with the rest.                               *)
release_sock_event(c) ==
  /\ up' = IF wev[c] = None THEN up ELSE "corrupt"
  /\ open' = open \ {c}
  /\ cli' = [cli EXCEPT ![c] = "new"]
  /\ echo' = [echo EXCEPT ![c] = <<>>]
  /\ UNCHANGED <<wev, heap>>

(* recv() = -1 is taken for a line, an empty one.                           *)
on_read(c) ==
  /\ Dispatch(c, "read")
  /\ \/ /\ inbuf[c] # <<>>
        /\ ReadInto(c, Head(inbuf[c]))
        /\ inbuf' = [inbuf EXCEPT ![c] = <<>>]
        /\ UNCHANGED <<cli, echo, open>>
     \/ /\ inbuf[c] = <<>> /\ cli[c] = "rst"
        /\ ReadInto(c, "empty")
        /\ cli' = [cli EXCEPT ![c] = "eof"]
        /\ UNCHANGED <<inbuf, echo, open>>
     \/ /\ inbuf[c] = <<>> /\ cli[c] \in {"fin", "eof"}
        /\ release_sock_event(c)
        /\ UNCHANGED inbuf
  /\ UNCHANGED <<line, radioVars>>

(* radio.write(): the packet reaches the node or is given up; nobody looks. *)
Transmit(packets) ==
  \/ UNCHANGED fifo
  \/ Len(fifo) < MaxFifo /\ fifo' = fifo \o SetToSeq(packets)

LevelOf(on_off) == IF on_off = 1 THEN "high" ELSE "low"

SwitchPin(on_off) ==
  /\ Transmit(send_RF24_one_pin(on_off, 17))
  /\ ordered' = IF fifo' = fifo THEN ordered ELSE LevelOf(on_off)

(* send() to a client that closed: the first is answered by a reset, or      *)
(* fails with the one that came; the one after that raises SIGPIPE.          *)
SendEcho(c, content) ==
  /\ echo' = IF cli[c] \in Gone THEN echo ELSE [echo EXCEPT ![c] = Append(@, content)]
  /\ cli' = IF cli[c] \in {"fin", "rst"} THEN [cli EXCEPT ![c] = "eof"] ELSE cli
  /\ up' = IF cli[c] = "eof" THEN "killed" ELSE up

(* write_ev is not persistent, and its buffer goes with it.                 *)
WriteEvAfter(b) == None
FreeBuffer(b) == [x \in DOMAIN heap \ {b} |-> heap[x]]

on_write(c) ==
  /\ Dispatch(c, "write")
  /\ LET content == heap[wev[c]] IN
       /\ CASE content = "a" -> SwitchPin(1)
            [] content = "b" -> SwitchPin(0)
            [] OTHER -> UNCHANGED <<fifo, ordered>>
       /\ SendEcho(c, content)
  /\ heap' = FreeBuffer(wev[c])
  /\ wev' = [wev EXCEPT ![c] = WriteEvAfter(@)]
  /\ UNCHANGED <<line, inbuf, open, node, flag>>

Gateway == Poll \/ \E c \in Client : on_accept(c) \/ on_read(c) \/ on_write(c)

-----------------------------------------------------------------------------
(* pingpair_dyn_int.cpp                                                     *)

(* Receiver role: one interrupt drains the FIFO.                            *)
intHandler ==
  /\ fifo # <<>>
  /\ node' = FoldLeft(hanlde_RF24_mesage, node, fifo)
  /\ fifo' = <<>>
  /\ UNCHANGED <<up, connVars, open, active, wev, heap, ordered, flag>>

(* Transmitter role: main() asks for pin 4, on and off in turn.             *)
FlagAfter(f) == IF f = 0 THEN 1 ELSE 0
PingOut ==
  /\ Transmitter
  /\ Transmit(send_RF24_one_pin(IF flag = 0 THEN 1 ELSE 0, 4))
  /\ flag' = FlagAfter(flag)
  /\ UNCHANGED <<up, connVars, open, active, wev, heap, node, ordered>>

(* Another user of the library asks for a body of n bytes.                  *)
SendBody(n) ==
  /\ Transmit(send_RF24_mesage(0, n, one_pin, message_get, 2^on_off_pin))
  /\ UNCHANGED <<up, connVars, open, active, wev, heap, node, ordered, flag>>

Next ==
  \/ Gateway \/ intHandler \/ PingOut
  \/ \E c \in Client : ClientStep(c)
  \/ \E n \in BodyLen : SendBody(n)

Spec == Init /\ [][Next]_vars

-----------------------------------------------------------------------------

(* The contract of event_set() and of freeing an event, as on_read uses     *)
(* them: neither happens to a write_ev that is still pending.  Clients that *)
(* wait for each echo keep it.                                              *)
EventsIntact == up # "corrupt"

(* on_read allocates a buffer per call and on_write frees it: whatever the  *)
(* order of reads, writes and releases, the buffers in use are those of     *)
(* pending writes, each of one connection.                                  *)
BuffersOwned ==
  up = "running" =>
    /\ DOMAIN heap = {wev[c] : c \in Client} \ {None}
    /\ \A c, d \in Client : c # d /\ wev[c] # None => wev[c] # wev[d]

(* on_write echoes the line its own connection sent: what waits for a       *)
(* client is exactly the line it sent last, once.                           *)
EchoIsOwn ==
  \A c \in Client : echo[c] # <<>> =>
    cli[c] \in {"waiting", "leaving", "rst", "eof"} /\ echo[c] = <<line[c]>>

(* Between interrupts the node's pin is what the last packet of the gateway *)
(* that reached it asked for, whatever a transmitter asking for another pin *)
(* or a message of another type put in between.                             *)
PinFollows == fifo = <<>> => node.pin = ordered

(* The longest packet that send_RF24_mesage lets through fits the radio.    *)
PacketFits == \A k \in DOMAIN fifo : fifo[k].size <= max_payload_size

(* Every line a client waits for is echoed in the end.                      *)
Unechoed(c) == cli[c] = "waiting"

-----------------------------------------------------------------------------

=============================================================================
