------------------------------- MODULE RfUtil -------------------------------
(****************************************************************************)
(* rf_util.cpp: the byte layout of the messages between the clients, the    *)
(* gateway and the nodes.  A buffer is a sequence of bytes; Junk stands for *)
(* a byte that nobody has written.                                          *)
(****************************************************************************)
EXTENDS Integers, Sequences

Junk == -1
Byte(n) == n % 256
Uninit(n) == [i \in 1 .. n |-> Junk]
Zeroed(n) == [i \in 1 .. n |-> 0]

(* memcpy(buf + off, src, n)                                                *)
memcpy(buf, off, src, n) ==
  [i \in DOMAIN buf |-> IF i > off /\ i <= off + n THEN src[i - off] ELSE buf[i]]

(* struct rf_payload {protocol, len, data}, struct one_wire_onoff_s {pin,   *)
(* data, reserve} and struct socket_message {nodeID, type, len, message}.   *)
SizeofPayload == 3
SizeofOnoff == 3
SizeofSocketMessage == 4
OffData == 2
OffMessage == 3

rf_one_wire_onoff == 0

get_protocol_len(protocol) == IF protocol = rf_one_wire_onoff THEN SizeofOnoff ELSE 0

PayloadLen(protocol) == SizeofPayload + get_protocol_len(protocol) - 1

form_rf_payload(buf, protocol, message) ==
  memcpy(memcpy(buf, 0, <<protocol, PayloadLen(protocol), Junk>>, SizeofPayload),
         OffData, message, get_protocol_len(protocol))

(* socket_message.len stays unwritten.                                      *)
form_socket_message_from_rf_payload(buf, payload, nodeID, type) ==
  memcpy(memcpy(buf, 0, <<nodeID, type, Junk, Junk>>, SizeofSocketMessage),
         OffMessage, payload, payload[2])

form_socket_message(buf, nodeID, type, protocol, message) ==
  form_socket_message_from_rf_payload(
    buf, form_rf_payload(Uninit(32), protocol, message), nodeID, type)
=============================================================================
