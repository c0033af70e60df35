------------------------------- MODULE Gateway -------------------------------
(***************************************************************************)
(* The RF gateway of hack_server.cpp: a libevent thread that turns client   *)
(* requests into frames of network.frame_queue, and a monitor thread that   *)
(* drains the same queue, sends requests over the RF24 mesh and routes what *)
(* the nodes send back through node_sockt_fd.  The threads share frame_queue*)
(* node_sockt_fd and the mesh's address table without any lock.             *)
(*                                                                         *)
(* Clients (hack_http.cpp, test.cpp), TCP sockets, the RF24 libraries and   *)
(* the sensor nodes are modelled as the environment.  A command carries the *)
(* connection that sent it and its number there, a frame from a node its    *)
(* origin, the command it answers and a serial number: history, used by the *)
(* properties only.                                                         *)
(***************************************************************************)
EXTENDS Integers, Sequences

CONSTANTS Conn,      \* client connections, each opened at most once
          HttpConn,  \* those of hack_http.cpp; the others are test.cpp's
          Fd,        \* descriptors accept() can return
          Node,      \* node IDs
          Addr,      \* mesh addresses DHCP hands out
          Target,    \* nodes each client sends requests to
          ReqType,   \* message types the clients send
          Faults,    \* what the environment may do to the gateway
          MaxReq,    \* bound: requests per test.cpp connection
          MaxUp,     \* bound: frames the nodes send
          MaxRenew,  \* bound: addresses changed after a node has joined
          Listener, NoCmd

FaultKinds == {"loss", "race", "repeat", "report", "timeout"}

ASSUME GatewayAssumption ==
  /\ HttpConn \subseteq Conn /\ Target \in [Conn -> SUBSET Node]
  /\ Fd \subseteq Nat \ {0} /\ Node \subseteq 1 .. 255 /\ Addr \subseteq Nat \ {0}
  /\ ReqType \subseteq {"G", "P", "S", "X"} /\ Faults \subseteq FaultKinds
  /\ MaxReq \in Nat /\ MaxUp \in Nat /\ MaxRenew \in Nat
  /\ Listener \notin Conn

VARIABLES
  up,             \* "running", "corrupt" (heap corrupted) or "killed" (SIGPIPE)
  \* connections: client program and kernel
  cli,            \* client state
  life,           \* gateway's end: "new", "queued" (backlog), "open", "closed"
  fd,             \* descriptor accept() returned, kept after close()
  sent,           \* commands the client has sent
  inbuf,          \* those the gateway has not received yet
  got,            \* frames delivered to the client
  nread,          \* how many of them the client has read
  \* event thread
  wev,            \* argument of the pending write_ev, NoCmd when it is idle
  active,         \* events of the current libevent batch still to be run
  estep, eframe,  \* progress of on_write, and the frame it builds
  \* shared by the two threads
  frame_queue, node_sockt_fd, addrList,
  \* monitor thread
  mstep, mframe, msock,
  \* mesh
  rx,             \* frames in the gateway's radio
  heard,          \* commands each node has received
  nans,           \* how many of them it has answered
  uid,            \* serial number of the last frame sent by a node
  renewals

connVars == <<cli, life, fd, sent, inbuf, got, nread>>
eventVars == <<wev, active>>
writeVars == <<estep, eframe>>
sharedVars == <<frame_queue, node_sockt_fd, addrList>>
monVars == <<mstep, mframe, msock>>
meshVars == <<rx, heard, nans, uid, renewals>>
vars == <<up, connVars, eventVars, writeVars, sharedVars, monVars, meshVars>>

-----------------------------------------------------------------------------
(* Data.  "X" stands for every message type the gateway does not handle.    *)

Type == {"G", "P", "S", "R", "X"}
NodeId == Node \cup {0}
Cmd == [conn : Conn, k : Nat, node : NodeId, type : Type]

ASSUME NoCmdAssumption == NoCmd \notin Cmd

NoAddr == -1
Frame == [from : Addr \cup {0}, to : Addr \cup {0, NoAddr}, type : Type,
          cmd : Cmd \cup {NoCmd}, src : NodeId, uid : Nat]

(* The buffer on_read leaves behind when recv() fails: all zero bytes.      *)
StaleCmd(c) == [conn |-> c, k |-> 0, node |-> CHOOSE n \in Node : TRUE, type |-> "S"]
ZeroCmd(c) == [conn |-> c, k |-> 0, node |-> 0, type |-> "X"]

(* A client's end: not connected, free to send or close, inside recv(),     *)
(* abandoned without close(), closed; "rst" is a close() with unread data,  *)
(* "eof" a connection whose reset the gateway's kernel has reported.        *)
Gone == {"fin", "rst", "eof"}
ClientState == {"new", "ready", "waiting", "leaked"} \cup Gone

(* Events libevent can find ready, and those it finds ready now.            *)
Event == (Conn \cup {Listener}) \X {"read", "write"}
Readable(c) == life[c] = "open" /\ (inbuf[c] # <<>> \/ cli[c] \in Gone)
Ready ==
  {e \in Event :
     \/ e = <<Listener, "read">> /\ \E c \in Conn : life[c] = "queued"
     \/ e[1] \in Conn /\ e[2] = "read" /\ Readable(e[1])
     \/ e[1] \in Conn /\ e[2] = "write" /\ life[e[1]] = "open" /\ wev[e[1]] # NoCmd}

(* Descriptors accept() may return.                                         *)
FreeFdOrError == Fd \cup {-1}
FreeFd == {f \in Fd : \A c \in Conn : life[c] = "open" => fd[c] # f}

(* mesh.getAddress, mesh.getNodeID and the node a frame reaches.            *)
getAddress(n) == IF n = 0 THEN 0 ELSE addrList[n]
NodesAt(a) == {n \in Node : addrList[n] = a /\ a # NoAddr}

-----------------------------------------------------------------------------
Init ==
  /\ up = "running"
  /\ cli = [c \in Conn |-> "new"]
  /\ life = [c \in Conn |-> "new"]
  /\ fd = [c \in Conn |-> 0]
  /\ sent = [c \in Conn |-> <<>>]
  /\ inbuf = [c \in Conn |-> <<>>]
  /\ got = [c \in Conn |-> <<>>]
  /\ nread = [c \in Conn |-> 0]
  /\ wev = [c \in Conn |-> NoCmd]
  /\ active = {}
  /\ estep = "loop" /\ eframe = NoCmd
  /\ frame_queue = <<>>
  /\ node_sockt_fd = [n \in NodeId |-> 0]
  /\ addrList = [n \in Node |-> NoAddr]
  /\ mstep = "update" /\ mframe = NoCmd /\ msock = 0
  /\ rx = <<>>
  /\ heard = [n \in Node |-> <<>>]
  /\ nans = [n \in Node |-> 0]
  /\ uid = 0 /\ renewals = 0

-----------------------------------------------------------------------------
(* Clients.  hack_http.cpp runs one request at a time: connect, send, recv  *)
(* with a 3 s timeout, close.  test.cpp sends, blocks in recv, repeats.     *)

Connect(c) ==
  /\ cli[c] = "new"
  /\ c \in HttpConn => \A d \in HttpConn : cli[d] \in {"new", "leaked"} \cup Gone
  /\ cli' = [cli EXCEPT ![c] = "ready"]
  /\ life' = [life EXCEPT ![c] = "queued"]
  /\ UNCHANGED <<up, fd, sent, inbuf, got, nread, eventVars, writeVars, sharedVars, monVars, meshVars>>

SendWithoutWaiting(c, n, t) ==
  /\ cli[c] = "ready" /\ Len(sent[c]) < MaxReq
  /\ LET cmd == [conn |-> c, k |-> Len(sent[c]) + 1, node |-> n, type |-> t]
     IN  /\ sent' = [sent EXCEPT ![c] = Append(@, cmd)]
         /\ inbuf' = [inbuf EXCEPT ![c] = Append(@, cmd)]
  /\ UNCHANGED <<up, cli, life, fd, got, nread, eventVars, writeVars, sharedVars, monVars, meshVars>>
SendRequest(c, n, t) ==
  /\ cli[c] = "ready" /\ (c \in HttpConn => t # "X")
  /\ Len(sent[c]) < IF c \in HttpConn THEN 1 ELSE MaxReq
  /\ LET cmd == [conn |-> c, k |-> Len(sent[c]) + 1, node |-> n, type |-> t]
     IN  /\ sent' = [sent EXCEPT ![c] = Append(@, cmd)]
         /\ inbuf' = [inbuf EXCEPT ![c] = Append(@, cmd)]
  /\ cli' = [cli EXCEPT ![c] = "waiting"]
  /\ UNCHANGED <<up, life, fd, got, nread, eventVars, writeVars, sharedVars, monVars, meshVars>>

(* recv() returns everything that has arrived; the first message is taken   *)
(* for the answer.                                                          *)
ReceiveAnswer(c) ==
  /\ cli[c] = "waiting" /\ nread[c] < Len(got[c])
  /\ nread' = [nread EXCEPT ![c] = Len(got[c])]
  /\ cli' = [cli EXCEPT ![c] = "ready"]
  /\ UNCHANGED <<up, life, fd, sent, inbuf, got, eventVars, writeVars, sharedVars, monVars, meshVars>>

ReceiveGivesUp(c) ==
  /\ c \in HttpConn /\ cli[c] = "waiting" /\ nread[c] = Len(got[c])
  /\ cli' = [cli EXCEPT ![c] = "ready"]
  /\ UNCHANGED <<up, life, fd, sent, inbuf, got, nread, eventVars, writeVars, sharedVars, monVars, meshVars>>
(* SO_RCVTIMEO of 3 s.  No callback of the event thread blocks, so by then  *)
(* the gateway has taken the request in, unless accept() still fails for    *)
(* want of a descriptor and the connection waits in the backlog.            *)
ReceiveTimeout(c) ==
  /\ "timeout" \in Faults /\ c \in HttpConn
  /\ cli[c] = "waiting" /\ nread[c] = Len(got[c])
  /\ \/ life[c] = "open" /\ inbuf[c] = <<>> /\ wev[c] = NoCmd /\ estep = "loop"
     \/ life[c] = "queued" /\ FreeFd = {}
  /\ cli' = [cli EXCEPT ![c] = "ready"]
  /\ UNCHANGED <<up, life, fd, sent, inbuf, got, nread, eventVars, writeVars, sharedVars, monVars, meshVars>>

CloseClient(c) ==
  /\ cli[c] = "ready"
  /\ c \in HttpConn => Len(sent[c]) = 1
  /\ cli' = [cli EXCEPT ![c] = IF nread[c] < Len(got[c]) THEN "rst" ELSE "fin"]
  /\ UNCHANGED <<up, life, fd, sent, inbuf, got, nread, eventVars, writeVars, sharedVars, monVars, meshVars>>

(* send_message returns early on an invalid type and leaves the socket open.*)
LeakSocket(c) ==
  /\ c \in HttpConn /\ cli[c] = "ready" /\ sent[c] = <<>>
  /\ cli' = [cli EXCEPT ![c] = "leaked"]
  /\ UNCHANGED <<up, life, fd, sent, inbuf, got, nread, eventVars, writeVars, sharedVars, monVars, meshVars>>

Client(c) ==
  \/ Connect(c) \/ ReceiveAnswer(c) \/ ReceiveTimeout(c) \/ CloseClient(c) \/ LeakSocket(c)
  \/ \E n \in Target[c], t \in ReqType : SendRequest(c, n, t)

-----------------------------------------------------------------------------
(* Event thread: libevent's loop and the callbacks of hack_server.cpp.      *)

(* One epoll_wait: every ready event becomes active.                        *)
Poll ==
  /\ up = "running" /\ estep = "loop" /\ active = {} /\ Ready # {}
  /\ active' = Ready
  /\ UNCHANGED <<up, connVars, wev, writeVars, sharedVars, monVars, meshVars>>

(* The next callback.  Events of one descriptor run in the order they were  *)
(* added, read_ev first.                                                    *)
Dispatch(c, kind) ==
  /\ up = "running" /\ estep = "loop"
  /\ <<c, kind>> \in active
  /\ kind = "write" => <<c, "read">> \notin active
  /\ active' = active \ {<<c, kind>>}

(* A failed accept() goes unnoticed: the event added for descriptor -1 never *)
(* fires and the connection stays in the backlog.                           *)
on_accept(c) ==
  /\ Dispatch(Listener, "read")
  /\ life[c] = "queued"
  /\ \/ /\ \E f \in FreeFd : fd' = [fd EXCEPT ![c] = f]
        /\ life' = [life EXCEPT ![c] = "open"]
     \/ /\ FreeFd = {}
        /\ UNCHANGED <<fd, life>>
  /\ UNCHANGED <<up, cli, sent, inbuf, got, nread, wev, writeVars, sharedVars, monVars, meshVars>>

(* What touching write_ev while libevent still holds it may do: nothing     *)
(* visible, or corrupt libevent's lists and the heap.                       *)
AfterMisuse(c) == IF wev[c] = NoCmd THEN {up} ELSE {up, "corrupt"}

(* recv(): the client's bytes up to MEM_SIZE, whole requests; on_write will *)
(* look at the first one only.                                              *)
LeftAfterPeek(buf) == buf
LeftAfterRecv(buf) == <<>>

ReadRequest(c) ==
  /\ inbuf[c] # <<>>
  /\ wev' = [wev EXCEPT ![c] = Head(inbuf[c])]
  /\ inbuf' = [inbuf EXCEPT ![c] = LeftAfterRecv(@)]
  /\ up' \in AfterMisuse(c)
  /\ UNCHANGED <<cli, life>>

(* recv() = -1 is not told from a request: the zeroed buffer is written.    *)
ReadError(c) ==
  /\ inbuf[c] = <<>> /\ cli[c] = "rst"
  /\ wev' = [wev EXCEPT ![c] = ZeroCmd(c)]
  /\ cli' = [cli EXCEPT ![c] = "eof"]
  /\ up' \in AfterMisuse(c)
  /\ UNCHANGED <<inbuf, life>>

(* recv() = 0: release_sock_event, which leaves write_ev registered, and    *)
(* close().  node_sockt_fd keeps the descriptor.                            *)
release_no_close(c) ==
  /\ inbuf[c] = <<>> /\ cli[c] \in {"fin", "eof"}
  /\ UNCHANGED <<wev, inbuf, cli, life, up>>
release_sock_event(c) ==
  /\ inbuf[c] = <<>> /\ cli[c] \in {"fin", "eof"}
  /\ life' = [life EXCEPT ![c] = "closed"]
  /\ up' \in AfterMisuse(c)
  /\ UNCHANGED <<wev, inbuf, cli>>

on_read(c) ==
  /\ Dispatch(c, "read")
  /\ ReadRequest(c) \/ ReadError(c) \/ release_sock_event(c)
  /\ UNCHANGED <<fd, sent, got, nread, writeVars, sharedVars, monVars, meshVars>>

(* The frame push_frame_queue builds; its header says it comes from 0.      *)
RequestFrameToFirst(cmd) ==
  [from |-> 0, to |-> getAddress(CHOOSE n \in Node : TRUE), type |-> cmd.type,
   cmd |-> cmd, src |-> 0, uid |-> 0]
RequestFrame(cmd) ==
  [from |-> 0, to |-> getAddress(cmd.node), type |-> cmd.type,
   cmd |-> cmd, src |-> 0, uid |-> 0]

(* A write_ev without EV_PERSIST is idle once it has been dispatched.       *)
WriteEvAfter(cmd) == NoCmd

(* on_write up to the push: the address is looked up and the frame built.   *)
on_write(c) ==
  /\ Dispatch(c, "write")
  /\ wev' = [wev EXCEPT ![c] = WriteEvAfter(@)]
  /\ estep' = "push"
  /\ eframe' = RequestFrame(wev[c])
  /\ UNCHANGED <<up, connVars, sharedVars, monVars, meshVars>>

(* The push takes effect, unless a push of the other thread overwrote it.   *)
push_frame_queue ==
  /\ up = "running" /\ estep \in {"push", "lost"}
  /\ frame_queue' = IF estep = "push" THEN Append(frame_queue, eframe) ELSE frame_queue
  /\ estep' = "store"
  /\ UNCHANGED <<up, connVars, eventVars, eframe, node_sockt_fd, addrList, monVars, meshVars>>

(* Only then is the reply route of the node set.                            *)
RouteAll(cmd) == [n \in NodeId |-> fd[cmd.conn]]
RouteSet(cmd) == [node_sockt_fd EXCEPT ![cmd.node] = fd[cmd.conn]]

store_sockt_fd ==
  /\ up = "running" /\ estep = "store"
  /\ node_sockt_fd' = RouteSet(eframe.cmd)
  /\ estep' = "loop" /\ eframe' = NoCmd
  /\ UNCHANGED <<up, connVars, eventVars, frame_queue, addrList, monVars, meshVars>>

EventThread ==
  \/ Poll \/ push_frame_queue \/ store_sockt_fd
  \/ \E c \in Conn : on_accept(c) \/ on_read(c) \/ on_write(c)

-----------------------------------------------------------------------------
(* Monitor thread: one iteration is update, DHCP, drain.  The ping at its   *)
(* end touches none of this state; module PingMonitor has it.               *)

(* frame_queue has no lock.  A push or pop of this thread while on_write is  *)
(* inside its own push may leave the std::queue as if one came after the     *)
(* other, or with a torn slot or a broken block: then nothing is promised    *)
(* any more, as after a misuse of write_ev.                                  *)
AfterRace == IF "race" \in Faults /\ estep = "push" THEN {up, "corrupt"} ELSE {up}

(* mesh.update() pushes the radio's frames.  With on_write inside its own   *)
(* push, std::queue may also keep only one of the two frames.               *)
mesh_update ==
  /\ up = "running" /\ mstep = "update"
  /\ \/ /\ rx = <<>>
        /\ mstep' = "dhcp"
        /\ UNCHANGED <<up, rx, frame_queue, estep>>
     \/ /\ rx # <<>>
        /\ rx' = Tail(rx) /\ up' \in AfterRace
        /\ \/ frame_queue' = Append(frame_queue, Head(rx)) /\ estep' = estep
           \/ /\ "race" \in Faults /\ estep = "push"
              /\ \/ frame_queue' = frame_queue /\ estep' = estep
                 \/ frame_queue' = Append(frame_queue, Head(rx)) /\ estep' = "lost"
        /\ UNCHANGED mstep
  /\ UNCHANGED <<connVars, eventVars, eframe, node_sockt_fd, addrList, mframe, msock, heard, nans, uid, renewals>>

(* mesh.DHCP() answers at most one node, which joins or changes address.    *)
mesh_DHCP ==
  /\ up = "running" /\ mstep = "dhcp"
  /\ mstep' = "drain"
  /\ \/ UNCHANGED <<addrList, renewals>>
     \/ \E n \in Node, a \in Addr :
          /\ NodesAt(a) = {}
          /\ addrList' = [addrList EXCEPT ![n] = a]
          /\ \/ addrList[n] = NoAddr /\ renewals' = renewals
             \/ addrList[n] # NoAddr /\ renewals < MaxRenew /\ renewals' = renewals + 1
  /\ UNCHANGED <<up, connVars, eventVars, writeVars, frame_queue, node_sockt_fd, mframe, msock, rx, heard, nans, uid>>

(* network.write(): the node at that address receives the command, or not.  *)
network_write_twice(f) ==
  \/ /\ \E n \in NodesAt(f.to) : heard' = [heard EXCEPT ![n] = Append(Append(@, f.cmd), f.cmd)]
  \/ /\ NodesAt(f.to) = {}
     /\ heard' = heard
network_write(f) ==
  \/ /\ \E n \in NodesAt(f.to) : heard' = [heard EXCEPT ![n] = Append(@, f.cmd)]
  \/ /\ "loss" \in Faults \/ NodesAt(f.to) = {}
     /\ heard' = heard

(* node_sockt_fd[mesh.getNodeID(from)].  The index of an address no node has *)
(* any more is out of range: any value may be read.                         *)
RouteOf(a) ==
  IF NodesAt(a) = {} THEN Fd \cup {0} ELSE {node_sockt_fd[n] : n \in NodesAt(a)}

(* handle_message: a frame from address 0 was pushed by on_write.           *)
handle_message(f) ==
  \/ /\ f.from = 0
     /\ network_write(f)
     /\ UNCHANGED monVars
  \/ /\ f.from # 0
     /\ \E sock \in RouteOf(f.from) :
          IF sock = 0 THEN UNCHANGED monVars
          ELSE mstep' = "send" /\ mframe' = f /\ msock' = sock
     /\ UNCHANGED heard

(* handle_incoming_message: 'M' and unknown types are dropped.              *)
HandledWithoutP == {"G", "S", "R"}
Handled == {"G", "P", "S", "R"}

handle_incoming_message(f) ==
  \/ f.type \in Handled /\ handle_message(f)
  \/ f.type \notin Handled /\ UNCHANGED <<heard, monVars>>

(* while(network.available()): take the oldest frame and handle it.         *)
QueueAfterPopBack(q) == SubSeq(q, 1, Len(q) - 1)
QueueAfterRead(q) == Tail(q)

drain ==
  /\ up = "running" /\ mstep = "drain"
  /\ \/ /\ frame_queue = <<>>
        /\ mstep' = "update"
        /\ UNCHANGED <<up, frame_queue, heard, mframe, msock>>
     \/ /\ frame_queue # <<>> /\ up' \in AfterRace
        /\ frame_queue' = QueueAfterRead(frame_queue)
        /\ handle_incoming_message(Head(frame_queue))
  /\ UNCHANGED <<connVars, eventVars, writeVars, node_sockt_fd, addrList, rx, nans, uid, renewals>>

(* send() on whatever connection has the descriptor by now: a live client   *)
(* receives; a closed one answers the first write with a reset; a write     *)
(* after the reset raises SIGPIPE.  EBADF when nobody has it.               *)
Holder(s) == {c \in Conn : life[c] = "open" /\ fd[c] = s}

send_reply ==
  /\ up = "running" /\ mstep = "send"
  /\ \/ /\ Holder(msock) = {}
        /\ UNCHANGED <<got, cli, up>>
     \/ \E c \in Holder(msock) :
          \/ /\ cli[c] \notin Gone
             /\ got' = [got EXCEPT ![c] = Append(@, mframe)]
             /\ UNCHANGED <<cli, up>>
          \/ /\ cli[c] \in {"fin", "rst"}
             /\ cli' = [cli EXCEPT ![c] = "eof"]
             /\ UNCHANGED <<got, up>>
          \/ /\ cli[c] = "eof"
             /\ up' = "killed"
             /\ UNCHANGED <<got, cli>>
  /\ mstep' = "drain" /\ mframe' = NoCmd /\ msock' = 0
  /\ UNCHANGED <<life, fd, sent, inbuf, nread, eventVars, writeVars, sharedVars, meshVars>>

MonitorThread == mesh_update \/ mesh_DHCP \/ drain \/ send_reply

-----------------------------------------------------------------------------
(* Nodes.  ardrino_v1.cpp answers each command, and may repeat an answer    *)
(* whose acknowledgement was lost; after an 'S' it reports pin changes.     *)

NodeFrame(n, cmd, t) ==
  [from |-> addrList[n], to |-> 0, type |-> t, cmd |-> cmd, src |-> n, uid |-> uid + 1]

Transmit(n, cmd, t) ==
  /\ addrList[n] # NoAddr /\ uid < MaxUp
  /\ rx' = Append(rx, NodeFrame(n, cmd, t))
  /\ uid' = uid + 1
  /\ UNCHANGED <<up, connVars, eventVars, writeVars, sharedVars, monVars, heard, renewals>>

Answer(n) ==
  /\ nans[n] < Len(heard[n])
  /\ LET cmd == heard[n][nans[n] + 1] IN Transmit(n, cmd, cmd.type)
  /\ nans' = [nans EXCEPT ![n] = @ + 1]

Repeat(n) ==
  /\ "repeat" \in Faults /\ nans[n] > 0
  /\ LET cmd == heard[n][nans[n]] IN Transmit(n, cmd, cmd.type)
  /\ UNCHANGED nans

Report(n) ==
  /\ "report" \in Faults
  /\ \E i \in 1 .. nans[n] : heard[n][i].type = "S"
  /\ Transmit(n, NoCmd, "R")
  /\ UNCHANGED nans

SensorNode(n) == Answer(n) \/ Repeat(n) \/ Report(n)

-----------------------------------------------------------------------------
Next ==
  \/ EventThread
  \/ MonitorThread
  \/ \E c \in Conn : Client(c)
  \/ \E n \in Node : SensorNode(n)

Spec == Init /\ [][Next]_vars

(* Both threads are scheduled; clients and nodes may stop at any time.      *)
FairSpec == Spec /\ WF_vars(EventThread) /\ WF_vars(MonitorThread)

-----------------------------------------------------------------------------
ConnTypeOK ==
  /\ cli \in [Conn -> ClientState]
  /\ life \in [Conn -> {"new", "queued", "open", "closed"}]
  /\ fd \in [Conn -> Fd \cup {0}]
  /\ sent \in [Conn -> Seq(Cmd)] /\ inbuf \in [Conn -> Seq(Cmd)]
  /\ got \in [Conn -> Seq(Frame)] /\ nread \in [Conn -> Nat]

EventTypeOK == wev \in [Conn -> Cmd \cup {NoCmd}] /\ active \subseteq Event

WriteTypeOK ==
  estep \in {"loop", "push", "lost", "store"} /\ eframe \in Frame \cup {NoCmd}

SharedTypeOK ==
  /\ frame_queue \in Seq(Frame)
  /\ node_sockt_fd \in [NodeId -> Fd \cup {0}]
  /\ addrList \in [Node -> Addr \cup {NoAddr}]

MonTypeOK ==
  /\ mstep \in {"update", "dhcp", "drain", "send"}
  /\ mframe \in Frame \cup {NoCmd} /\ msock \in Fd \cup {0}

MeshTypeOK ==
  /\ rx \in Seq(Frame)
  /\ heard \in [Node -> Seq(Cmd)] /\ nans \in [Node -> Nat]
  /\ uid \in Nat /\ renewals \in Nat

(* Every variable keeps its type, the frames handed from thread to thread   *)
(* and the commands on_write builds them from included.                     *)
TypeOK ==
  /\ up \in {"running", "corrupt", "killed"}
  /\ ConnTypeOK /\ EventTypeOK /\ WriteTypeOK /\ SharedTypeOK /\ MonTypeOK /\ MeshTypeOK

(* Commands of one connection reach a node at most once and in the order    *)
(* the client sent them: recv() consumes what it returns, the one write_ev  *)
(* of a connection keeps the latest request, and frame_queue is FIFO.       *)
CommandsInOrder ==
  \A n \in Node : \A i, j \in DOMAIN heard[n] :
    i < j /\ heard[n][i].conn = heard[n][j].conn => heard[n][i].k < heard[n][j].k

(* Every command a node receives was sent by a client: on_write queues the  *)
(* buffer of a failed recv() like a request, and only on_read's bzero and   *)
(* the type switch of handle_incoming_message keep it off the air.          *)
OnlyClientCommands ==
  \A n \in Node : \A i \in DOMAIN heard[n] :
    LET cmd == heard[n][i] IN cmd.k \in DOMAIN sent[cmd.conn] /\ sent[cmd.conn][cmd.k] = cmd

(* A frame a node sends is handed to one client at most, once, and a client *)
(* gets frames in the order they were sent, whatever happens to its         *)
(* descriptor between node_sockt_fd's lookup and send().                    *)
FramesInOrder ==
  \A c, d \in Conn : \A i \in DOMAIN got[c], j \in DOMAIN got[d] :
    /\ c = d /\ i < j => got[c][i].uid < got[d][j].uid
    /\ c # d => got[c][i].uid # got[d][j].uid

(* While no node changes its address, a command only reaches the node it    *)
(* names: the address push_frame_queue looked up still belongs to it.       *)
CommandsReachTheirNode ==
  \A n \in Node : \A i \in DOMAIN heard[n] : heard[n][i].node = n

(* While no node changes its address, a client only gets frames of nodes    *)
(* that it, or an earlier connection with the same descriptor, sent a       *)
(* request to: node_sockt_fd is never cleared, but never set otherwise.  A  *)
(* late answer to the earlier connection is such a frame.                   *)
FramesReachAskers ==
  \A c \in Conn : \A i \in DOMAIN got[c] :
    \E d \in Conn : fd[d] = fd[c] /\ \E k \in DOMAIN sent[d] : sent[d][k].node = got[c][i].src

(* What hack_http.cpp takes for the answer is the node's answer to its own  *)
(* request.  Holds when nodes answer once and no request times out; the     *)
(* reply route may still be set after the answer was dropped.               *)
AnswerIsOwn ==
  \A c \in HttpConn : nread[c] > 0 => got[c][1].cmd = sent[c][1]

(* event_set is only applied to a write_ev that is not pending or active    *)
(* (libevent's event_assign contract).                                      *)
AssignOnlyIdle ==
  [][\A c \in Conn : wev'[c] \notin {NoCmd, wev[c]} => wev[c] = NoCmd]_vars

(* release_sock_event only frees a write_ev libevent no longer holds.       *)
ReleaseOnlyIdle ==
  [][\A c \in Conn : life[c] = "open" /\ life'[c] = "closed" => wev[c] = NoCmd]_vars

(* Once the client of an accepted connection has closed, the gateway closes *)
(* its descriptor, unless the process is gone: neither a recv() error nor a *)
(* late reply hides the end of file from on_read.                           *)
ClosedIsReleased ==
  \A c \in Conn :
    cli[c] \in Gone /\ life[c] = "open" ~> life[c] = "closed" \/ up # "running"

(* Without faults a handled command is received by its node if that has     *)
(* joined when the command waits in the socket: no batch, queue or loop of  *)
(* the two threads holds it back forever.                                   *)
CommandsAreHeard ==
  \A c \in Conn : \A k \in 1 .. MaxReq :
    (\E i \in DOMAIN inbuf[c] :
       inbuf[c][i].k = k /\ inbuf[c][i].type # "X" /\ addrList[inbuf[c][i].node] # NoAddr)
    ~> \E n \in Node : \E i \in DOMAIN heard[n] : heard[n][i].conn = c /\ heard[n][i].k = k
=============================================================================
