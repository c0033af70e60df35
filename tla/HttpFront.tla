----------------------------- MODULE HttpFront ------------------------------
(****************************************************************************)
(* The HTTP front end, hack_http.cpp: a request's URL is taken apart into   *)
(* five numbers, sent to the gateway as a command over a connection of its  *)
(* own, and the answer's value put into the reply.  One thread; it blocks   *)
(* in recv() for at most three seconds while other requests wait.           *)
(*                                                                          *)
(* A URL is the sequence of its numbers.  Junk is a value never assigned.   *)
(****************************************************************************)
EXTENDS RfUtil, FiniteSets

CONSTANTS
  Browser,     \* clients of the HTTP server
  Protocol, GetSet, Data,   \* numbers used in the last three places of a URL
  MaxFd,       \* sockets the process may have open
  Faults       \* of "refuse", "silent", "nomem"

(* The form sends five numbers; a hand-typed URL may have fewer.            *)
FullUrl == {<<1, 2, p, g, d>> : p \in Protocol, g \in GetSet, d \in Data}
Url == FullUrl \cup {SubSeq(u, 1, n) : u \in FullUrl, n \in 1 .. 4}
Test == <<>>                 \* "/test"

VARIABLES
  up,       \* "running", or "exit"
  asked,    \* each browser's URL
  state,    \* each browser: "none", "asked", "answered"
  reply,    \* the value its answer holds
  cur,      \* browser whose request is in recv(), or a set of none
  args,     \* what parse_url made of its URL
  type,     \* message type sent
  socks,    \* sockets open
  leaked,   \* ghost: requests that send_message refused
  cause,    \* ghost: why the program ended
  level,    \* level at the node's pin
  unheard   \* ghost: browsers whose command the gateway left unanswered

vars == <<up, asked, state, reply, cur, args, type, socks, leaked, cause, level, unheard>>

Var == {"nodeID", "pin", "protocol", "get_set", "data"}
Unset == [v \in Var |-> Junk]

Init ==
  /\ up = "running" /\ cur = {} /\ args = Unset /\ type = 0
  /\ asked = [b \in Browser |-> Test] /\ state = [b \in Browser |-> "none"]
  /\ reply = [b \in Browser |-> Junk]
  /\ socks = 0 /\ leaked = 0 /\ cause = "none" /\ level \in {0, 1} /\ unheard = {}

-----------------------------------------------------------------------------
(* Each number but the last is taken up to the slash behind it; without a   *)
(* slash parse_url returns and leaves the rest as it is.                    *)
Place(v) ==
  CASE v = "nodeID" -> 1 [] v = "pin" -> 2 [] v = "protocol" -> 3
    [] v = "get_set" -> 4 [] v = "data" -> 5
parse_url(url) ==
  [v \in Var |->
     IF Len(url) >= 5 \/ Len(url) > Place(v) THEN url[Place(v)] ELSE Junk]

(* 'G', 'P', 'S', or 0.                                                     *)
get_message_type(t) == CASE t = 0 -> 71 [] t = 1 -> 80 [] t = 2 -> 83 [] OTHER -> 0

(* An unset get_set may hold any value.                                     *)
TypesOf(a) ==
  IF a["get_set"] = Junk THEN {get_message_type(t) : t \in 0 .. 3}
                         ELSE {get_message_type(a["get_set"])}

(* The 32 bytes sent; an unset protocol may be the known one.               *)
Bytes(a, t) ==
  LET B(v) == IF a[v] = Junk THEN Junk ELSE Byte(a[v])
  IN  form_socket_message(Uninit(32), B("nodeID"), t,
                          IF a["protocol"] = Junk THEN rf_one_wire_onoff ELSE Byte(a["protocol"]),
                          <<B("pin"), B("data"), Junk>>)

-----------------------------------------------------------------------------
Ask(b, url) ==
  /\ state[b] \in {"none", "answered"}
  /\ asked' = [asked EXCEPT ![b] = url]
  /\ state' = [state EXCEPT ![b] = "asked"]
  /\ reply' = [reply EXCEPT ![b] = Junk]
  /\ unheard' = unheard \ {b}
  /\ UNCHANGED <<up, cur, args, type, socks, leaked, cause, level>>

(* evhttp_send_reply, unless evbuffer_new fails: then nothing is sent.      *)
SendReply(b, value) ==
  \/ /\ state' = [state EXCEPT ![b] = "answered"]
     /\ reply' = [reply EXCEPT ![b] = value]
  \/ /\ "nomem" \in Faults
     /\ state' = [state EXCEPT ![b] = "none"]
     /\ UNCHANGED reply

Serving(b) == up = "running" /\ cur = {} /\ state[b] = "asked"

(* test_cb does nothing: the browser waits until it gives up.               *)
test_cb(b) ==
  /\ Serving(b) /\ asked[b] = Test
  /\ state' = [state EXCEPT ![b] = "none"]
  /\ UNCHANGED <<up, asked, reply, cur, args, type, socks, leaked, cause, level, unheard>>

(* generic_cb up to recv() in send_message.                                 *)
ConnectFails(b) ==
  /\ socks = MaxFd \/ "refuse" \in Faults
  /\ up' = "exit" /\ cause' = IF socks = MaxFd THEN "sockets" ELSE "refused"
  /\ UNCHANGED <<state, reply, cur, args, type, socks, leaked>>

(* send_message returns before the socket is closed, out_data unset.        *)
BadType(b) ==
  /\ socks < MaxFd /\ 0 \in TypesOf(parse_url(asked[b]))
  /\ socks' = socks + 1 /\ leaked' = leaked + 1
  /\ SendReply(b, Junk)
  /\ UNCHANGED <<up, cause, cur, args, type>>

SendCommand(b) ==
  /\ socks < MaxFd
  /\ args' = parse_url(asked[b])
  /\ type' \in TypesOf(args') \ {0}
  /\ socks' = socks + 1 /\ cur' = {b}
  /\ UNCHANGED <<up, cause, state, reply, leaked>>

generic_cb(b) ==
  /\ Serving(b) /\ asked[b] # Test
  /\ ConnectFails(b) \/ BadType(b) \/ SendCommand(b)
  /\ UNCHANGED <<asked, level, unheard>>

(* recv() returns the gateway's answer, or nothing after three seconds (or  *)
(* because the gateway closed); either way the value is read out of the     *)
(* buffer and the socket closed.  Only commands of the one protocol that    *)
(* nodes know are answered.                                                 *)
AnswerOf(a, t) == IF t = 71 THEN level ELSE Bytes(a, t)[OffMessage + OffData + 2]

CloseSocket(n) == n - 1

send_message(b) ==
  /\ up = "running" /\ cur = {b}
  /\ \/ /\ args["protocol"] \in {rf_one_wire_onoff, Junk}
        /\ SendReply(b, AnswerOf(args, type)) /\ UNCHANGED unheard
     \/ /\ "silent" \in Faults \/ args["protocol"] # rf_one_wire_onoff
        /\ SendReply(b, Junk) /\ unheard' = unheard \cup {b}
  /\ socks' = CloseSocket(socks) /\ cur' = {}
  /\ args' = Unset /\ type' = 0
  /\ UNCHANGED <<up, asked, leaked, cause, level>>

LevelChange ==
  /\ level' = 1 - level
  /\ UNCHANGED <<up, asked, state, reply, cur, args, type, socks, leaked, cause, unheard>>

Next ==
  \/ LevelChange
  \/ \E b \in Browser :
       \/ \E url \in Url \cup {Test} : Ask(b, url)
       \/ test_cb(b) \/ generic_cb(b) \/ send_message(b)

Spec == Init /\ [][Next]_vars

-----------------------------------------------------------------------------

(* Sockets: the one of the request being served, and one for each request   *)
(* whose type send_message refused.  No other request leaves one open.      *)
SocketsAccounted == socks = leaked + Cardinality(cur)

(* A command that reaches the gateway is the URL's own: with five numbers   *)
(* every byte of it that was asked for is the URL's, through the           *)
(* conversions to char.                                                     *)
CommandFromUrl ==
  \A b \in cur :
    Len(asked[b]) >= 5 =>
      LET m == Bytes(args, type)
      IN  /\ m[1] = Byte(asked[b][1]) /\ m[2] = get_message_type(asked[b][4])
          /\ args["protocol"] = asked[b][3]
          /\ asked[b][3] = rf_one_wire_onoff =>
               m[6] = Byte(asked[b][2]) /\ m[7] = Byte(asked[b][5])

(* The program ends only because the gateway cannot be reached, or because  *)
(* requests it refused have used up its sockets.                            *)
ExitCause == up = "exit" => cause = "refused" \/ leaked = MaxFd

(* A well-formed request gets a value of the node, and one of another        *)
(* protocol or type none.  A well-formed one whose command the gateway left  *)
(* unanswered gets what happened to be in recvbuf (hack_http.cpp:160), and    *)
(* the reply does not show it.                                               *)
GoodAnswer ==
  \A b \in Browser :
    state[b] = "answered" /\ Len(asked[b]) = 5 =>
      (reply[b] = Junk <=> \/ b \in unheard
                          \/ asked[b][3] # rf_one_wire_onoff \/ asked[b][4] \notin 0 .. 2)

(* A set's answer is the value asked for, cut to a byte.                    *)
SetAnswer ==
  \A b \in Browser :
    state[b] = "answered" /\ Len(asked[b]) = 5 /\ reply[b] # Junk /\ asked[b][4] \in {1, 2} =>
      reply[b] = Byte(asked[b][5])

(* Every request but /test is answered, unless the program ends.            *)
Unanswered(b) == state[b] = "asked" /\ asked[b] # Test /\ up # "exit"

-----------------------------------------------------------------------------
=============================================================================
