---------------------------- MODULE MessagePath -----------------------------
(****************************************************************************)
(* A command's bytes on their way from a client (hack_http.cpp, test.cpp)   *)
(* through the gateway (hack_server.cpp) to the node (ardrino_v1.cpp) and   *)
(* its answer's on the way back, hop by hop.  Every hop copies a length it  *)
(* reads from the bytes themselves into a buffer of its own, which may be   *)
(* zeroed or not.  A frame may be lost on the air.                          *)
(****************************************************************************)
EXTENDS RfUtil, FiniteSets

CONSTANTS
  NodeId, PinNum, Value,   \* fields of the commands
  Protocol

(* Header types are the letters' codes.                                     *)
G == 71
P == 80
S == 83

(* What a client wants: the HTTP front end takes it from an URL, and        *)
(* test.cpp from a letter.                                                  *)
Command == [nodeID : NodeId, type : {G, P, S}, protocol : Protocol, pin : PinNum, data : Value]

get_message_type(t) == CASE t = 0 -> G [] t = 1 -> P [] t = 2 -> S [] OTHER -> 0

Letter == {"a", "b", "c", "d", "e"}
Menu(l) ==
  [nodeID |-> 1, protocol |-> rf_one_wire_onoff,
   type |-> CASE l = "a" -> G [] l \in {"b", "c"} -> P [] l \in {"d", "e"} -> S,
   pin |-> IF l \in {"b", "c"} THEN 2 ELSE 3,
   data |-> CASE l \in {"b", "d"} -> 1 [] l \in {"c", "e"} -> 0 [] l = "a" -> Junk]

RadioPayload == 24        \* 32 - sizeof(RF24NetworkHeader)

VARIABLES
  stage,    \* where the message is
  cmd,      \* what the client wants
  buf,      \* its bytes there
  hdr,      \* type, and node, in the header of a frame
  level,    \* level of the pins at the node
  acted     \* what the node did: <<type, pin, data>>, or <<>>

vars == <<stage, cmd, buf, hdr, level, acted>>

NoCmd == [nodeID |-> 0, type |-> 0, protocol |-> 0, pin |-> 0, data |-> 0]
NoHdr == [type |-> 0, nodeID |-> 0]

Init ==
  /\ stage = "client" /\ cmd = NoCmd /\ buf = <<>> /\ hdr = NoHdr
  /\ level \in {0, 1} /\ acted = <<>>

-----------------------------------------------------------------------------
(* The clients fill pin and data, and send 32 bytes.                        *)
Request(c) ==
  /\ stage = "client"
  /\ cmd' = c /\ acted' = <<>>
  /\ buf' = form_socket_message(Uninit(32), Byte(c.nodeID), c.type, Byte(c.protocol),
                                <<IF c.pin = Junk THEN Junk ELSE Byte(c.pin),
                                  IF c.data = Junk THEN Junk ELSE Byte(c.data), Junk>>)
  /\ stage' = "socket"
  /\ UNCHANGED <<hdr, level>>

HttpRequest == \E c \in Command, t \in 0 .. 3 :
                 get_message_type(t) = c.type /\ Request(c)
TestRequest == \E l \in Letter : Request(Menu(l))

(* on_write and push_frame_queue: the length comes from the payload.        *)
FrameLen(b) == b[OffMessage + 2]

push_frame_queue ==
  /\ stage = "socket"
  /\ buf' = SubSeq(buf, OffMessage + 1, OffMessage + FrameLen(buf))
  /\ hdr' = [type |-> buf[2], nodeID |-> buf[1]]
  /\ stage' = "queue"
  /\ UNCHANGED <<cmd, level, acted>>

(* network.read into the zeroed message_buf of the monitor thread.          *)
ReadFrame(b) == memcpy(Zeroed(RadioPayload), 0, b, Len(b))

(* handle_message sends two bytes more than the payload's length.           *)
LenOnAir(b) == b[2] + 2

handle_message ==
  /\ stage = "queue"
  /\ LET b == ReadFrame(buf) IN buf' = SubSeq(b, 1, LenOnAir(b))
  /\ stage' = "air"
  /\ UNCHANGED <<cmd, hdr, level, acted>>

(* loop() of the node reads into a buffer it does not clear.                *)
NodeBuffer(b) == memcpy(Uninit(RadioPayload), 0, b, Len(b))

(* The handlers: the payload goes back as it came, but for the level read   *)
(* by a 'G'.  An unknown protocol is dropped.                               *)
loop ==
  /\ stage = "air"
  /\ LET b == NodeBuffer(buf)
         onoff == SubSeq(b, OffData + 1, OffData + SizeofOnoff)
         back == IF hdr.type = G THEN memcpy(b, OffData, <<onoff[1], level, onoff[3]>>, SizeofOnoff)
                                 ELSE b
     IN  IF b[1] = rf_one_wire_onoff
         THEN /\ acted' = <<hdr.type, onoff[1], IF hdr.type = G THEN 0 ELSE onoff[2]>>
              /\ buf' = SubSeq(back, 1, b[2])
              /\ stage' = "back"
         ELSE UNCHANGED <<acted, buf>> /\ stage' = "lost"
  /\ UNCHANGED <<cmd, hdr, level>>

(* handle_message again, for a frame from a node: to the client's socket.   *)
handle_reply ==
  /\ stage = "back"
  /\ LET b == ReadFrame(buf) IN buf' = SubSeq(b, 1, LenOnAir(b))
  /\ stage' = "answer"
  /\ UNCHANGED <<cmd, hdr, level, acted>>

(* send_message of the front end receives into a buffer it does not clear   *)
(* and reads the answer out of it.                                          *)
AnswerPin(b) == b[OffData + 1]
AnswerAsMessage(b) == b[OffMessage + OffData + 2]
AnswerData(b) == b[OffData + 2]

TakeAnswer ==
  /\ stage \in {"answer", "lost"}
  /\ stage' = "client" /\ buf' = <<>> /\ cmd' = NoCmd /\ hdr' = NoHdr
  /\ UNCHANGED <<level, acted>>

Lose ==
  /\ stage \in {"air", "back"}
  /\ stage' = "lost"
  /\ UNCHANGED <<cmd, buf, hdr, level, acted>>

LevelChange ==
  /\ stage = "client"
  /\ level' = 1 - level
  /\ UNCHANGED <<stage, cmd, buf, hdr, acted>>

Next ==
  \/ HttpRequest \/ TestRequest \/ push_frame_queue \/ handle_message \/ loop
  \/ handle_reply \/ TakeAnswer \/ Lose \/ LevelChange

Spec == Init /\ [][Next]_vars

-----------------------------------------------------------------------------
(* What the node acts on is what the client asked for, whatever buffers the *)
(* bytes went through; a byte nobody wrote never decides anything.          *)
CommandIntact ==
  stage \in {"back", "answer"} =>
    /\ hdr = [type |-> cmd.type, nodeID |-> cmd.nodeID]
    /\ acted = <<cmd.type, cmd.pin, IF cmd.type = G THEN 0 ELSE cmd.data>>

(* What the client reads out of the answer is its own pin, and the level    *)
(* there or the value it sent.                                              *)
AnswerIntact ==
  stage = "answer" =>
    /\ AnswerPin(buf) = cmd.pin
    /\ AnswerData(buf) = IF cmd.type = G THEN level ELSE cmd.data

(* The length in a payload covers what was written and no more: of the      *)
(* bytes a hop forwards because of it, only reserve, and the value of a 'G' *)
(* typed at the terminal, were never written.                               *)
LengthCovers ==
  LET payload == IF stage = "socket" THEN SubSeq(buf, OffMessage + 1, Len(buf)) ELSE buf
  IN  stage \notin {"client", "lost"} =>
        /\ payload[2] \in 2 .. Len(payload)
        /\ \A i \in 1 .. payload[2] :
             payload[i] = Junk => i = OffData + 3 \/ (i = OffData + 2 /\ cmd.data = Junk)
=============================================================================
