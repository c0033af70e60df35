---------------------------- MODULE GatewayProofs ----------------------------
(***************************************************************************)
(* Gateway for any number of clients, descriptors, nodes and requests: type  *)
(* correctness and the order of the frames, whatever faults the environment  *)
(* is allowed, and what clients that take turns can rely on.                 *)
(***************************************************************************)
EXTENDS Gateway, SequenceTheorems, TLAPS

(* A frame pushed by on_write.                                               *)
CommandFrame(f) == f \in Frame /\ f.from = 0 /\ f.cmd \in Cmd /\ f.type = f.cmd.type

(* What the threads rely on when they hand data over: an active write_ev     *)
(* has its argument, a callback in progress has its frame, a frame whose     *)
(* header says 0 comes from on_write, and a node answers what it heard.      *)
WellFormed ==
  /\ \A c \in Conn : <<c, "write">> \in active => wev[c] # NoCmd
  /\ estep # "loop" => CommandFrame(eframe)
  /\ mstep = "send" => mframe \in Frame /\ mframe.from # 0
  /\ \A i \in DOMAIN frame_queue : frame_queue[i].from = 0 => CommandFrame(frame_queue[i])
  /\ \A i \in DOMAIN rx : rx[i].from # 0
  /\ \A n \in Node : nans[n] <= Len(heard[n])

TypeInv == TypeOK /\ WellFormed

(* Zenon proves the steps that need no arithmetic and no facts about          *)
(* sequences; the others name the SMT solver.                                 *)
USE ZenonT(60)

LEMMA TypeInit == Init => TypeInv
  BY GatewayAssumption, EmptySeq, SMTT(60)
  DEF Init, TypeInv, TypeOK, WellFormed, ConnTypeOK, EventTypeOK, WriteTypeOK,
      SharedTypeOK, MonTypeOK, MeshTypeOK, NodeId, NoAddr, ClientState, Gone

(* What Append does, with domains.                                           *)
LEMMA Appended ==
  ASSUME NEW S, NEW seq \in Seq(S), NEW elt \in S
  PROVE  /\ Len(seq) \in Nat /\ DOMAIN seq = 1 .. Len(seq)
         /\ DOMAIN Append(seq, elt) = 1 .. Len(seq) + 1
         /\ Append(seq, elt)[Len(seq) + 1] = elt
         /\ \A i \in DOMAIN seq : Append(seq, elt)[i] = seq[i]
         /\ \A i \in DOMAIN Append(seq, elt) : i \in DOMAIN seq \/ i = Len(seq) + 1
<1>1. Append(seq, elt) \in Seq(S) /\ Len(Append(seq, elt)) = Len(seq) + 1
  BY AppendProperties
<1>2. Len(seq) \in Nat /\ DOMAIN seq = 1 .. Len(seq)
  BY LenProperties
<1>3. DOMAIN Append(seq, elt) = 1 .. Len(seq) + 1
  BY <1>1, LenProperties
<1>4. \A i \in 1 .. Len(seq) + 1 : i \in 1 .. Len(seq) \/ i = Len(seq) + 1
  BY <1>2, SMTT(60)
<1> QED BY <1>2, <1>3, <1>4, AppendProperties, SMTT(60)

(* What Tail does, with domains.                                             *)
LEMMA Tailed ==
  ASSUME NEW S, NEW seq \in Seq(S), seq # <<>>
  PROVE  /\ 1 \in DOMAIN seq /\ Head(seq) = seq[1] /\ Head(seq) \in S
         /\ Tail(seq) \in Seq(S)
         /\ \A i \in DOMAIN Tail(seq) :
              i \in Nat /\ i + 1 \in DOMAIN seq /\ 1 < i + 1 /\ Tail(seq)[i] = seq[i + 1]
<1>1. /\ Head(seq) = seq[1] /\ Head(seq) \in S
      /\ Tail(seq) \in Seq(S) /\ Len(Tail(seq)) = Len(seq) - 1
      /\ \A i \in 1 .. Len(Tail(seq)) : Tail(seq)[i] = seq[i + 1]
  BY HeadTailProperties, SMTT(60)
<1>2. Len(seq) \in Nat /\ DOMAIN seq = 1 .. Len(seq) /\ Len(seq) > 0
  BY LenProperties, SMTT(60)
<1>3. DOMAIN Tail(seq) = 1 .. Len(seq) - 1
  BY <1>1, LenProperties
<1>4. \A i \in 1 .. Len(seq) - 1 : i \in Nat /\ i + 1 \in 1 .. Len(seq) /\ 1 < i + 1
  BY <1>2, SMTT(60)
<1>5. 1 \in 1 .. Len(seq)
  BY <1>2, SMTT(60)
<1> QED BY <1>1, <1>2, <1>3, <1>4, <1>5

(* A group of variables that is left alone keeps its types.                  *)
LEMMA GroupsKeep ==
  ASSUME TypeInv
  PROVE  /\ UNCHANGED up => up' \in {"running", "corrupt", "killed"}
         /\ UNCHANGED connVars => ConnTypeOK'
         /\ UNCHANGED eventVars => EventTypeOK'
         /\ UNCHANGED writeVars => WriteTypeOK'
         /\ UNCHANGED monVars => MonTypeOK'
         /\ UNCHANGED meshVars => MeshTypeOK'
         /\ UNCHANGED sharedVars => SharedTypeOK'
<1>0. /\ up \in {"running", "corrupt", "killed"}
      /\ ConnTypeOK /\ EventTypeOK /\ WriteTypeOK /\ SharedTypeOK /\ MonTypeOK /\ MeshTypeOK
  BY DEF TypeInv, TypeOK
<1>1. UNCHANGED up => up' \in {"running", "corrupt", "killed"}
  BY <1>0
<1>2. UNCHANGED connVars => ConnTypeOK'
  BY <1>0 DEF connVars, ConnTypeOK
<1>3. UNCHANGED eventVars => EventTypeOK'
  BY <1>0 DEF eventVars, EventTypeOK
<1>4. UNCHANGED writeVars => WriteTypeOK'
  BY <1>0 DEF writeVars, WriteTypeOK
<1>5. UNCHANGED monVars => MonTypeOK'
  BY <1>0 DEF monVars, MonTypeOK
<1>6. UNCHANGED meshVars => MeshTypeOK'
  BY <1>0 DEF meshVars, MeshTypeOK
<1>7. UNCHANGED sharedVars => SharedTypeOK'
  BY <1>0 DEF sharedVars, SharedTypeOK
<1> QED BY <1>1, <1>2, <1>3, <1>4, <1>5, <1>6, <1>7

(* So do the hand-overs between the threads.                                 *)
LEMMA HandOversKeep ==
  ASSUME TypeInv
  PROVE  /\ UNCHANGED eventVars => \A c \in Conn : <<c, "write">> \in active' => wev'[c] # NoCmd
         /\ UNCHANGED eframe /\ (estep' # "loop" => estep # "loop")
              => (estep' # "loop" => CommandFrame(eframe'))
         /\ UNCHANGED frame_queue
              => \A i \in DOMAIN frame_queue' : frame_queue'[i].from = 0 => CommandFrame(frame_queue'[i])
         /\ UNCHANGED rx => \A i \in DOMAIN rx' : rx'[i].from # 0
         /\ UNCHANGED <<nans, heard>> => \A n \in Node : nans'[n] <= Len(heard'[n])
         /\ UNCHANGED monVars => (mstep' = "send" => mframe' \in Frame /\ mframe'.from # 0)
<1>0. WellFormed
  BY DEF TypeInv
<1>1. UNCHANGED eventVars => \A c \in Conn : <<c, "write">> \in active' => wev'[c] # NoCmd
  BY <1>0 DEF WellFormed, eventVars
<1>2. ASSUME UNCHANGED eframe, estep' # "loop", estep # "loop" PROVE CommandFrame(eframe')
  <2>1. CommandFrame(eframe)
    BY <1>0, <1>2 DEF WellFormed
  <2> QED BY <1>2, <2>1
<1>3. UNCHANGED frame_queue
        => \A i \in DOMAIN frame_queue' : frame_queue'[i].from = 0 => CommandFrame(frame_queue'[i])
  BY <1>0 DEF WellFormed
<1>4. UNCHANGED rx => \A i \in DOMAIN rx' : rx'[i].from # 0
  BY <1>0 DEF WellFormed
<1>5. UNCHANGED <<nans, heard>> => \A n \in Node : nans'[n] <= Len(heard'[n])
  BY <1>0 DEF WellFormed
<1>6. UNCHANGED monVars => (mstep' = "send" => mframe' \in Frame /\ mframe'.from # 0)
  BY <1>0 DEF WellFormed, monVars
<1> QED BY <1>1, <1>2, <1>3, <1>4, <1>5, <1>6

(* The invariant, part by part.                                              *)
LEMMA TypeInvPrime ==
  ASSUME up' \in {"running", "corrupt", "killed"},
         ConnTypeOK', EventTypeOK', WriteTypeOK', SharedTypeOK', MonTypeOK', MeshTypeOK',
         \A c \in Conn : <<c, "write">> \in active' => wev'[c] # NoCmd,
         estep' # "loop" => CommandFrame(eframe'),
         mstep' = "send" => mframe' \in Frame /\ mframe'.from # 0,
         \A i \in DOMAIN frame_queue' : frame_queue'[i].from = 0 => CommandFrame(frame_queue'[i]),
         \A i \in DOMAIN rx' : rx'[i].from # 0,
         \A n \in Node : nans'[n] <= Len(heard'[n])
  PROVE  TypeInv'
<1>1. WellFormed'
  BY DEF WellFormed, CommandFrame
<1> QED BY <1>1 DEF TypeInv, TypeOK

(* The groups of variables a client leaves alone keep their types.           *)
LEMMA ClientRest ==
  ASSUME TypeInv, UNCHANGED <<up, eventVars, writeVars, sharedVars, monVars, meshVars>>, ConnTypeOK'
  PROVE  TypeInv'
<1>1. /\ UNCHANGED <<eframe, estep>> /\ UNCHANGED frame_queue /\ UNCHANGED rx
      /\ UNCHANGED <<nans, heard>>
  BY DEF writeVars, sharedVars, meshVars
<1> QED BY <1>1, GroupsKeep, HandOversKeep, TypeInvPrime

(* A client's step keeps every type.                                         *)
LEMMA ClientTyped ==
  ASSUME TypeInv, NEW c \in Conn, Client(c)
  PROVE  TypeInv'
<1> USE GatewayAssumption DEF ClientState, Gone
<1>0. ConnTypeOK
  BY DEF TypeInv, TypeOK
<1>1. CASE Connect(c)
  <2>1. ConnTypeOK'
    BY <1>0, <1>1 DEF Connect, ConnTypeOK
  <2> QED BY <1>1, <2>1, ClientRest DEF Connect
<1>2. ASSUME NEW n \in Target[c], NEW t \in ReqType, SendRequest(c, n, t) PROVE TypeInv'
  <2> DEFINE cmd == [conn |-> c, k |-> Len(sent[c]) + 1, node |-> n, type |-> t]
  <2>1. cmd \in Cmd
    <3>1. n \in NodeId /\ t \in Type
      BY <1>2 DEF NodeId, Type
    <3>2. Len(sent[c]) + 1 \in Nat
      BY <1>0, SMTT(60) DEF ConnTypeOK
    <3> QED BY <3>1, <3>2 DEF Cmd
  <2>2. /\ sent' = [sent EXCEPT ![c] = Append(@, cmd)]
        /\ inbuf' = [inbuf EXCEPT ![c] = Append(@, cmd)]
        /\ cli' = [cli EXCEPT ![c] = "waiting"]
        /\ UNCHANGED <<life, fd, got, nread>>
    BY <1>2 DEF SendRequest
  <2> HIDE DEF cmd
  <2>3. Append(sent[c], cmd) \in Seq(Cmd) /\ Append(inbuf[c], cmd) \in Seq(Cmd)
    BY <1>0, <2>1, AppendProperties, SMTT(60) DEF ConnTypeOK
  <2>4. ConnTypeOK'
    BY <1>0, <2>2, <2>3 DEF ConnTypeOK
  <2> QED BY <1>2, <2>4, ClientRest DEF SendRequest
<1>3. CASE ReceiveAnswer(c)
  <2>1. Len(got[c]) \in Nat
    BY <1>0, SMTT(60) DEF ConnTypeOK
  <2>2. ConnTypeOK'
    BY <1>0, <1>3, <2>1 DEF ReceiveAnswer, ConnTypeOK
  <2> QED BY <1>3, <2>2, ClientRest DEF ReceiveAnswer
<1>4. CASE ReceiveTimeout(c)
  <2>1. ConnTypeOK'
    BY <1>0, <1>4 DEF ReceiveTimeout, ConnTypeOK
  <2> QED BY <1>4, <2>1, ClientRest DEF ReceiveTimeout
<1>5. CASE CloseClient(c)
  <2>1. ConnTypeOK'
    BY <1>0, <1>5 DEF CloseClient, ConnTypeOK
  <2> QED BY <1>5, <2>1, ClientRest DEF CloseClient
<1>6. CASE LeakSocket(c)
  <2>1. ConnTypeOK'
    BY <1>0, <1>6 DEF LeakSocket, ConnTypeOK
  <2> QED BY <1>6, <2>1, ClientRest DEF LeakSocket
<1> QED BY <1>1, <1>2, <1>3, <1>4, <1>5, <1>6 DEF Client

(* Whatever a callback leaves alone keeps its type.                          *)
LEMMA EventRest ==
  ASSUME TypeInv, UNCHANGED <<monVars, meshVars>>,
         up' \in {"running", "corrupt", "killed"},
         ConnTypeOK', EventTypeOK', WriteTypeOK', SharedTypeOK',
         \A c \in Conn : <<c, "write">> \in active' => wev'[c] # NoCmd,
         estep' # "loop" => CommandFrame(eframe'),
         \A i \in DOMAIN frame_queue' : frame_queue'[i].from = 0 => CommandFrame(frame_queue'[i])
  PROVE  TypeInv'
<1>1. UNCHANGED rx /\ UNCHANGED <<nans, heard>>
  BY DEF meshVars
<1> QED BY <1>1, GroupsKeep, HandOversKeep, TypeInvPrime

(* A zeroed buffer is a command of its connection, to node 0.                *)
LEMMA ZeroCmdTyped ==
  ASSUME NEW c \in Conn
  PROVE  ZeroCmd(c) \in Cmd
  BY DEF ZeroCmd, Cmd, NodeId, Type

(* push_frame_queue builds a frame that says it comes from 0.                *)
LEMMA RequestFrameTyped ==
  ASSUME TypeOK, NEW cmd \in Cmd
  PROVE  CommandFrame(RequestFrame(cmd))
<1>1. cmd.node \in NodeId /\ cmd.type \in Type
  BY DEF Cmd
<1>2. getAddress(cmd.node) \in Addr \cup {0, NoAddr}
  BY <1>1 DEF getAddress, NodeId, TypeOK, SharedTypeOK
<1>3. 0 \in NodeId /\ 0 \in Nat
  BY DEF NodeId
<1> QED BY <1>1, <1>2, <1>3 DEF RequestFrame, CommandFrame, Frame

(* A step of the event thread keeps every type.                              *)
LEMMA EventTyped ==
  ASSUME TypeInv, EventThread
  PROVE  TypeInv'
<1> USE GatewayAssumption
<1>0. /\ TypeOK /\ ConnTypeOK /\ EventTypeOK /\ WriteTypeOK /\ SharedTypeOK
      /\ up \in {"running", "corrupt", "killed"}
      /\ \A c \in Conn : <<c, "write">> \in active => wev[c] # NoCmd
      /\ estep # "loop" => CommandFrame(eframe)
      /\ \A i \in DOMAIN frame_queue : frame_queue[i].from = 0 => CommandFrame(frame_queue[i])
  BY DEF TypeInv, TypeOK, WellFormed
<1>1. CASE Poll
  <2>1. active' \subseteq Event /\ \A c \in Conn : <<c, "write">> \in active' => wev'[c] # NoCmd
    BY <1>1 DEF Poll, Ready
  <2>2. UNCHANGED <<up, connVars, wev, writeVars, sharedVars, monVars, meshVars>>
    BY <1>1 DEF Poll
  <2>3. EventTypeOK' /\ UNCHANGED <<estep, eframe>> /\ UNCHANGED frame_queue
    BY <1>0, <2>1, <2>2 DEF EventTypeOK, writeVars, sharedVars
  <2> QED BY <2>1, <2>2, <2>3, EventRest, GroupsKeep, HandOversKeep
<1>2. CASE push_frame_queue
  <2>1. /\ frame_queue' = IF estep = "push" THEN Append(frame_queue, eframe) ELSE frame_queue
        /\ estep' = "store" /\ estep # "loop"
        /\ UNCHANGED <<up, connVars, eventVars, eframe, node_sockt_fd, addrList, monVars, meshVars>>
    BY <1>2 DEF push_frame_queue
  <2>2. CommandFrame(eframe) /\ eframe \in Frame
    BY <1>0, <2>1 DEF CommandFrame
  <2>3. /\ frame_queue' \in Seq(Frame)
        /\ \A i \in DOMAIN frame_queue' : frame_queue'[i].from = 0 => CommandFrame(frame_queue'[i])
    BY <1>0, <2>1, <2>2, AppendProperties, SMTT(60) DEF SharedTypeOK
  <2>4. WriteTypeOK' /\ SharedTypeOK' /\ CommandFrame(eframe')
    BY <1>0, <2>1, <2>2, <2>3 DEF WriteTypeOK, SharedTypeOK
  <2> QED BY <2>1, <2>3, <2>4, EventRest, GroupsKeep, HandOversKeep
<1>3. CASE store_sockt_fd
  <2>1. /\ node_sockt_fd' = RouteSet(eframe.cmd)
        /\ estep' = "loop" /\ eframe' = NoCmd /\ estep # "loop"
        /\ UNCHANGED <<up, connVars, eventVars, frame_queue, addrList, monVars, meshVars>>
    BY <1>3 DEF store_sockt_fd
  <2>2. eframe.cmd.conn \in Conn
    BY <1>0, <2>1 DEF CommandFrame, Cmd
  <2>3. node_sockt_fd' \in [NodeId -> Fd \cup {0}]
    BY <1>0, <2>1, <2>2 DEF RouteSet, SharedTypeOK, ConnTypeOK
  <2>4. WriteTypeOK' /\ SharedTypeOK'
    BY <1>0, <2>1, <2>3 DEF WriteTypeOK, SharedTypeOK
  <2> QED BY <2>1, <2>4, EventRest, GroupsKeep, HandOversKeep
<1>4. ASSUME NEW c \in Conn, on_accept(c) PROVE TypeInv'
  <2>1. active' \subseteq active /\ UNCHANGED <<up, cli, sent, inbuf, got, nread, wev, writeVars, sharedVars, monVars, meshVars>>
    BY <1>4 DEF on_accept, Dispatch
  <2>2. fd' \in [Conn -> Fd \cup {0}] /\ life' \in [Conn -> {"new", "queued", "open", "closed"}]
    <3>1. CASE UNCHANGED <<fd, life>>
      BY <1>0, <3>1 DEF ConnTypeOK
    <3>2. ASSUME NEW f \in FreeFd, fd' = [fd EXCEPT ![c] = f], life' = [life EXCEPT ![c] = "open"]
          PROVE  fd' \in [Conn -> Fd \cup {0}] /\ life' \in [Conn -> {"new", "queued", "open", "closed"}]
      BY <1>0, <3>2 DEF ConnTypeOK, FreeFd
    <3> QED BY <1>4, <3>1, <3>2 DEF on_accept
  <2>3. /\ ConnTypeOK' /\ EventTypeOK' /\ UNCHANGED <<estep, eframe>> /\ UNCHANGED frame_queue
        /\ \A d \in Conn : <<d, "write">> \in active' => wev'[d] # NoCmd
    BY <1>0, <2>1, <2>2 DEF ConnTypeOK, EventTypeOK, writeVars, sharedVars
  <2> QED BY <2>1, <2>3, EventRest, GroupsKeep, HandOversKeep
<1>5. ASSUME NEW c \in Conn, on_read(c) PROVE TypeInv'
  <2>1. active' \subseteq active /\ UNCHANGED <<fd, sent, got, nread, writeVars, sharedVars, monVars, meshVars>>
    BY <1>5 DEF on_read, Dispatch
  <2>2. up' \in {"running", "corrupt", "killed"}
    BY <1>0, <1>5 DEF on_read, ReadRequest, ReadError, release_sock_event, AfterMisuse
  <2>3. /\ cli' \in [Conn -> ClientState]
        /\ life' \in [Conn -> {"new", "queued", "open", "closed"}]
    BY <1>0, <1>5
    DEF on_read, ReadRequest, ReadError, release_sock_event, ConnTypeOK, ClientState, Gone
  <2>4. inbuf' \in [Conn -> Seq(Cmd)]
    <3>1. inbuf' = inbuf \/ inbuf' = [inbuf EXCEPT ![c] = <<>>]
      BY <1>5 DEF on_read, ReadRequest, ReadError, release_sock_event, LeftAfterRecv
    <3>2. <<>> \in Seq(Cmd)
      BY SMTT(60)
    <3>3. inbuf \in [Conn -> Seq(Cmd)]
      BY <1>0 DEF ConnTypeOK
    <3> QED BY <3>1, <3>2, <3>3
  <2>5. \/ wev' = wev
        \/ \E x \in Cmd : wev' = [wev EXCEPT ![c] = x] /\ x # NoCmd
    <3>1. CASE ReadRequest(c)
      <4>1. Head(inbuf[c]) \in Cmd
        BY <1>0, <3>1, HeadTailProperties, SMTT(60) DEF ReadRequest, ConnTypeOK
      <4> QED BY <3>1, <4>1, NoCmdAssumption DEF ReadRequest
    <3>2. CASE ReadError(c)
      BY <3>2, ZeroCmdTyped, NoCmdAssumption DEF ReadError
    <3>3. CASE release_sock_event(c)
      BY <3>3 DEF release_sock_event
    <3> QED BY <1>5, <3>1, <3>2, <3>3 DEF on_read
  <2>6. wev' \in [Conn -> Cmd \cup {NoCmd}] /\ \A d \in Conn : <<d, "write">> \in active' => wev'[d] # NoCmd
    BY <1>0, <2>1, <2>5, SMTT(60) DEF EventTypeOK
  <2>7. ConnTypeOK' /\ EventTypeOK' /\ UNCHANGED <<estep, eframe>> /\ UNCHANGED frame_queue
    BY <1>0, <2>1, <2>3, <2>4, <2>6 DEF ConnTypeOK, EventTypeOK, writeVars, sharedVars
  <2> QED BY <2>1, <2>2, <2>6, <2>7, EventRest, GroupsKeep, HandOversKeep
<1>6. ASSUME NEW c \in Conn, on_write(c) PROVE TypeInv'
  <2>1. /\ <<c, "write">> \in active /\ active' = active \ {<<c, "write">>}
        /\ wev' = [wev EXCEPT ![c] = NoCmd]
        /\ estep' = "push" /\ eframe' = RequestFrame(wev[c])
        /\ UNCHANGED <<up, connVars, sharedVars, monVars, meshVars>>
    BY <1>6 DEF on_write, Dispatch, WriteEvAfter
  <2>2. wev[c] \in Cmd
    BY <1>0, <2>1 DEF EventTypeOK
  <2>3. CommandFrame(eframe')
    BY <1>0, <2>1, <2>2, RequestFrameTyped
  <2>4. EventTypeOK' /\ \A d \in Conn : <<d, "write">> \in active' => wev'[d] # NoCmd
    BY <1>0, <2>1 DEF EventTypeOK
  <2>5. WriteTypeOK' /\ UNCHANGED frame_queue
    BY <2>1, <2>3 DEF WriteTypeOK, CommandFrame, sharedVars
  <2> QED BY <2>1, <2>3, <2>4, <2>5, EventRest, GroupsKeep, HandOversKeep
<1> QED BY <1>1, <1>2, <1>3, <1>4, <1>5, <1>6 DEF EventThread

(* The effect of draining one frame: a command may be appended to what a     *)
(* node has heard, or a node's frame handed to send(), never both.           *)
LEMMA DrainEffect ==
  ASSUME TypeInv, drain, frame_queue # <<>>
  PROVE  LET f == Head(frame_queue)
         IN  /\ \/ UNCHANGED <<heard, monVars>>
                \/ /\ CommandFrame(f) /\ f.type # "X"
                   /\ \E n \in Node : heard' = [heard EXCEPT ![n] = Append(@, f.cmd)]
                   /\ UNCHANGED monVars
                \/ /\ f.from # 0 /\ UNCHANGED heard
                   /\ mstep' = "send" /\ mframe' = f /\ msock' \in Fd \cup {0}
             /\ f \in Frame /\ f = frame_queue[1] /\ mstep = "drain"
             /\ frame_queue' = Tail(frame_queue) /\ frame_queue' \in Seq(Frame)
<1> DEFINE f == Head(frame_queue)
<1>1. frame_queue \in Seq(Frame)
  BY DEF TypeInv, TypeOK, SharedTypeOK
<1>2. /\ f \in Frame /\ f = frame_queue[1] /\ 1 \in DOMAIN frame_queue
      /\ Tail(frame_queue) \in Seq(Frame)
  BY <1>1, HeadTailProperties, SMTT(60)
<1>3. mstep = "drain" /\ frame_queue' = Tail(frame_queue) /\ handle_incoming_message(f)
  BY DEF drain, QueueAfterRead
<1>4. f.from = 0 => CommandFrame(f)
  BY <1>2 DEF TypeInv, WellFormed
<1> HIDE DEF f
<1>5. CASE f.type \notin Handled /\ UNCHANGED <<heard, monVars>>
  BY <1>2, <1>3, <1>5 DEF f
<1>6. CASE f.type \in Handled /\ f.from = 0 /\ network_write(f) /\ UNCHANGED monVars
  <2>1. CASE heard' = heard
    BY <1>2, <1>3, <1>6, <2>1 DEF f
  <2>2. ASSUME NEW n \in NodesAt(f.to), heard' = [heard EXCEPT ![n] = Append(@, f.cmd)]
        PROVE  \E m \in Node : heard' = [heard EXCEPT ![m] = Append(@, f.cmd)]
    BY <2>2 DEF NodesAt
  <2>3. f.type # "X"
    BY <1>6 DEF Handled
  <2> QED BY <1>2, <1>3, <1>4, <1>6, <2>1, <2>2, <2>3 DEF f, network_write
<1>7. ASSUME f.from # 0, UNCHANGED heard, NEW sock \in RouteOf(f.from),
             IF sock = 0 THEN UNCHANGED monVars ELSE mstep' = "send" /\ mframe' = f /\ msock' = sock
      PROVE  \/ UNCHANGED <<heard, monVars>>
             \/ UNCHANGED heard /\ mstep' = "send" /\ mframe' = f /\ msock' \in Fd \cup {0}
  <2>1. RouteOf(f.from) \subseteq Fd \cup {0}
    <3>1. \A n \in Node : node_sockt_fd[n] \in Fd \cup {0}
      BY DEF TypeInv, TypeOK, SharedTypeOK, NodeId
    <3> QED BY <3>1 DEF RouteOf, NodesAt
  <2> QED BY <1>7, <2>1
<1> QED BY <1>2, <1>3, <1>5, <1>6, <1>7 DEF f, handle_incoming_message, handle_message

(* Appending a command to what one node has heard.                           *)
LEMMA HearOne ==
  ASSUME TypeInv, NEW n \in Node, NEW x \in Cmd, heard' = [heard EXCEPT ![n] = Append(@, x)]
  PROVE  /\ heard' \in [Node -> Seq(Cmd)]
         /\ \A m \in Node : Len(heard[m]) <= Len(heard'[m]) /\ (m # n => heard'[m] = heard[m])
         /\ heard[n] \in Seq(Cmd) /\ heard'[n] = Append(heard[n], x)
<1>1. heard \in [Node -> Seq(Cmd)]
  BY DEF TypeInv, TypeOK, MeshTypeOK
<1>2. heard[n] \in Seq(Cmd)
  BY <1>1
<1>3. Append(heard[n], x) \in Seq(Cmd) /\ Len(Append(heard[n], x)) = Len(heard[n]) + 1
  BY <1>2, AppendProperties, SMTT(60)
<1>4. \A m \in Node : Len(heard[m]) \in Nat
  BY <1>1, SMTT(60)
<1> QED BY <1>1, <1>2, <1>3, <1>4, SMTT(60)

(* A step of the monitor thread keeps every type.                            *)
LEMMA MonitorTyped ==
  ASSUME TypeInv, MonitorThread
  PROVE  TypeInv'
<1> USE GatewayAssumption
<1>0. /\ TypeOK /\ ConnTypeOK /\ EventTypeOK /\ WriteTypeOK /\ SharedTypeOK /\ MonTypeOK /\ MeshTypeOK
      /\ up \in {"running", "corrupt", "killed"} /\ WellFormed
  BY DEF TypeInv, TypeOK
<1>9. ASSUME up' \in AfterRace PROVE up' \in {"running", "corrupt", "killed"}
  BY <1>0, <1>9 DEF AfterRace
<1>1. CASE mesh_update
  <2>0. up' \in {"running", "corrupt", "killed"}
    BY <1>0, <1>1, <1>9 DEF mesh_update
  <2>1. /\ UNCHANGED <<connVars, eventVars, eframe, node_sockt_fd, addrList, mframe, msock, heard, nans, uid, renewals>>
        /\ \/ mstep' = "dhcp" /\ UNCHANGED <<rx, frame_queue, estep>>
           \/ /\ mstep' = mstep /\ mstep = "update" /\ rx # <<>> /\ rx' = Tail(rx)
              /\ frame_queue' \in {frame_queue, Append(frame_queue, Head(rx))}
              /\ estep' = estep \/ (estep = "push" /\ estep' = "lost")
    BY <1>1 DEF mesh_update
  <2>2. /\ rx' \in Seq(Frame) /\ \A i \in DOMAIN rx' : rx'[i].from # 0
        /\ rx # <<>> => Head(rx) \in Frame /\ Head(rx).from # 0
    <3>1. CASE rx' = rx /\ rx = <<>>
      BY <1>0, <3>1 DEF MeshTypeOK, WellFormed
    <3>2. CASE rx # <<>>
      <4>1. rx \in Seq(Frame) /\ \A i \in DOMAIN rx : rx[i].from # 0
        BY <1>0 DEF MeshTypeOK, WellFormed
      <4>2. /\ Head(rx) \in Frame /\ Head(rx) = rx[1] /\ 1 \in DOMAIN rx
            /\ Tail(rx) \in Seq(Frame)
            /\ \A i \in DOMAIN Tail(rx) : Tail(rx)[i] = rx[i + 1] /\ i + 1 \in DOMAIN rx
        BY <3>2, <4>1, HeadTailProperties, SMTT(60)
      <4>3. rx' = Tail(rx)
        BY <1>1, <3>2 DEF mesh_update
      <4>4. \A i \in DOMAIN rx' : rx'[i].from # 0
        BY <4>1, <4>2, <4>3, SMTT(60)
      <4>5. Head(rx).from # 0
        BY <4>1, <4>2
      <4> QED BY <4>2, <4>3, <4>4, <4>5
    <3> QED BY <1>1, <3>1, <3>2 DEF mesh_update
  <2>3. /\ frame_queue' \in Seq(Frame)
        /\ \A i \in DOMAIN frame_queue' : frame_queue'[i].from = 0 => CommandFrame(frame_queue'[i])
    <3>1. CASE frame_queue' = frame_queue
      BY <1>0, <3>1, SMTT(60) DEF SharedTypeOK, WellFormed, CommandFrame
    <3>2. CASE rx # <<>> /\ frame_queue' = Append(frame_queue, Head(rx))
      BY <1>0, <2>2, <3>2, AppendProperties, SMTT(60) DEF SharedTypeOK, WellFormed
    <3> QED BY <2>1, <3>1, <3>2
  <2>4. WriteTypeOK' /\ (estep' # "loop" => estep # "loop")
    BY <1>0, <2>1 DEF WriteTypeOK
  <2>5. SharedTypeOK' /\ MonTypeOK' /\ MeshTypeOK' /\ mstep' # "send"
    BY <1>0, <2>1, <2>2, <2>3 DEF SharedTypeOK, MonTypeOK, MeshTypeOK
  <2> QED BY <2>0, <2>1, <2>2, <2>3, <2>4, <2>5, GroupsKeep, HandOversKeep, TypeInvPrime
<1>2. CASE mesh_DHCP
  <2>1. /\ UNCHANGED <<up, connVars, eventVars, writeVars, frame_queue, node_sockt_fd, mframe, msock, rx, heard, nans, uid>>
        /\ mstep' = "drain"
    BY <1>2 DEF mesh_DHCP
  <2>2. addrList' \in [Node -> Addr \cup {NoAddr}] /\ renewals' \in Nat
    BY <1>0, <1>2, SMTT(60) DEF mesh_DHCP, SharedTypeOK, MeshTypeOK
  <2>3. SharedTypeOK' /\ MonTypeOK' /\ MeshTypeOK' /\ UNCHANGED <<estep, eframe>> /\ mstep' # "send"
    BY <1>0, <2>1, <2>2 DEF SharedTypeOK, MonTypeOK, MeshTypeOK, writeVars
  <2> QED BY <2>1, <2>3, GroupsKeep, HandOversKeep, TypeInvPrime
<1>3. CASE drain
  <2>0. up' \in {"running", "corrupt", "killed"}
    BY <1>0, <1>3, <1>9 DEF drain
  <2>1. UNCHANGED <<connVars, eventVars, writeVars, node_sockt_fd, addrList, rx, nans, uid, renewals>>
    BY <1>3 DEF drain
  <2>2. CASE frame_queue = <<>>
    <3>1. mstep' = "update" /\ UNCHANGED <<frame_queue, heard, mframe, msock>>
      BY <1>3, <2>2 DEF drain
    <3>2. SharedTypeOK' /\ MonTypeOK' /\ MeshTypeOK' /\ UNCHANGED <<estep, eframe>> /\ mstep' # "send"
      BY <1>0, <2>1, <3>1 DEF SharedTypeOK, MonTypeOK, MeshTypeOK, writeVars
    <3> QED BY <2>0, <2>1, <3>1, <3>2, GroupsKeep, HandOversKeep, TypeInvPrime
  <2>3. CASE frame_queue # <<>>
    <3> DEFINE f == Head(frame_queue)
    <3>1. frame_queue \in Seq(Frame)
      BY <1>0 DEF SharedTypeOK
    <3>2. \A i \in DOMAIN Tail(frame_queue) :
            Tail(frame_queue)[i] = frame_queue[i + 1] /\ i + 1 \in DOMAIN frame_queue
      BY <2>3, <3>1, HeadTailProperties, SMTT(60)
    <3>3. /\ f \in Frame /\ frame_queue' = Tail(frame_queue) /\ frame_queue' \in Seq(Frame)
          /\ mstep = "drain"
      BY <1>3, <2>3, DrainEffect
    <3>4. \A i \in DOMAIN frame_queue' : frame_queue'[i].from = 0 => CommandFrame(frame_queue'[i])
      BY <1>0, <3>2, <3>3, SMTT(60) DEF WellFormed
    <3>5. MonTypeOK' /\ (mstep' = "send" => mframe' \in Frame /\ mframe'.from # 0)
      BY <1>0, <1>3, <2>3, <3>3, DrainEffect, SMTT(60) DEF MonTypeOK, monVars
    <3>6. heard' \in [Node -> Seq(Cmd)] /\ \A n \in Node : nans[n] <= Len(heard'[n])
      <4>1. CASE UNCHANGED heard
        BY <1>0, <4>1 DEF MeshTypeOK, WellFormed
      <4>2. ASSUME NEW n \in Node, CommandFrame(f), heard' = [heard EXCEPT ![n] = Append(@, f.cmd)]
            PROVE  heard' \in [Node -> Seq(Cmd)] /\ \A m \in Node : nans[m] <= Len(heard'[m])
        <5>1. f.cmd \in Cmd
          BY <4>2 DEF CommandFrame
        <5>2. /\ heard' \in [Node -> Seq(Cmd)]
              /\ \A m \in Node : Len(heard[m]) <= Len(heard'[m])
          BY <4>2, <5>1, HearOne
        <5>3. ASSUME NEW m \in Node PROVE nans[m] <= Len(heard'[m])
          <6>1. nans[m] \in Nat /\ heard[m] \in Seq(Cmd) /\ heard'[m] \in Seq(Cmd)
            BY <1>0, <5>2, <5>3, SMTT(60) DEF MeshTypeOK
          <6>2. nans[m] <= Len(heard[m]) /\ Len(heard[m]) <= Len(heard'[m])
            BY <1>0, <5>2, <5>3 DEF WellFormed
          <6>3. Len(heard[m]) \in Nat /\ Len(heard'[m]) \in Nat
            BY <6>1, SMTT(60)
          <6> QED BY <6>1, <6>2, <6>3, SMTT(60)
        <5> QED BY <5>2, <5>3
      <4> QED BY <1>3, <2>3, <4>1, <4>2, DrainEffect
    <3>7. SharedTypeOK' /\ MeshTypeOK' /\ UNCHANGED <<estep, eframe>> /\ UNCHANGED nans
      BY <1>0, <2>1, <3>3, <3>6 DEF SharedTypeOK, MeshTypeOK, writeVars
    <3>8. \A n \in Node : nans'[n] <= Len(heard'[n])
      BY <3>6, <3>7
    <3> QED BY <2>0, <2>1, <3>4, <3>5, <3>7, <3>8, GroupsKeep, HandOversKeep, TypeInvPrime
  <2> QED BY <2>2, <2>3
<1>4. CASE send_reply
  <2>1. /\ UNCHANGED <<life, fd, sent, inbuf, nread, eventVars, writeVars, sharedVars, meshVars>>
        /\ mstep' = "drain" /\ mframe' = NoCmd /\ msock' = 0 /\ mstep = "send"
    BY <1>4 DEF send_reply
  <2>2. mframe \in Frame
    BY <1>0, <2>1 DEF WellFormed
  <2>3. up' \in {"running", "corrupt", "killed"} /\ cli' \in [Conn -> ClientState]
    BY <1>0, <1>4 DEF send_reply, ConnTypeOK, ClientState, Gone
  <2>4. got' \in [Conn -> Seq(Frame)]
    <3>1. got' = got \/ \E c \in Conn : got' = [got EXCEPT ![c] = Append(@, mframe)]
      BY <1>4 DEF send_reply, Holder
    <3>2. \A c \in Conn : Append(got[c], mframe) \in Seq(Frame)
      BY <1>0, <2>2, AppendProperties DEF ConnTypeOK
    <3>3. got \in [Conn -> Seq(Frame)]
      BY <1>0 DEF ConnTypeOK
    <3>4. ASSUME NEW c \in Conn, got' = [got EXCEPT ![c] = Append(@, mframe)]
          PROVE  got' \in [Conn -> Seq(Frame)]
      <4>1. Append(got[c], mframe) \in Seq(Frame)
        BY <3>2, <3>4
      <4> QED BY <3>3, <3>4, <4>1
    <3> QED BY <3>1, <3>3, <3>4
  <2>5. /\ ConnTypeOK' /\ MonTypeOK' /\ mstep' # "send"
        /\ UNCHANGED <<estep, eframe>> /\ UNCHANGED frame_queue /\ UNCHANGED rx /\ UNCHANGED <<nans, heard>>
    BY <1>0, <2>1, <2>3, <2>4 DEF ConnTypeOK, MonTypeOK, writeVars, sharedVars, meshVars
  <2> QED BY <2>1, <2>3, <2>5, GroupsKeep, HandOversKeep, TypeInvPrime
<1> QED BY <1>1, <1>2, <1>3, <1>4 DEF MonitorThread

(* The effect of a node's step: one new frame, numbered uid + 1.             *)
LEMMA NodeEffect ==
  ASSUME TypeInv, NEW n \in Node, SensorNode(n)
  PROVE  /\ \E f \in Frame : f.from # 0 /\ f.uid = uid + 1 /\ rx' = Append(rx, f)
         /\ uid' = uid + 1
         /\ nans' \in [Node -> Nat] /\ \A m \in Node : nans'[m] <= Len(heard[m])
         /\ UNCHANGED <<up, connVars, eventVars, writeVars, sharedVars, monVars, heard, renewals>>
<1> USE GatewayAssumption
<1>0. /\ addrList[n] \in Addr \cup {NoAddr} /\ heard[n] \in Seq(Cmd) /\ uid \in Nat
      /\ nans \in [Node -> Nat] /\ \A m \in Node : nans[m] <= Len(heard[m]) /\ Len(heard[m]) \in Nat
  <2>1. SharedTypeOK /\ MeshTypeOK /\ WellFormed
    BY DEF TypeInv, TypeOK
  <2>2. \A m \in Node : heard[m] \in Seq(Cmd)
    BY <2>1 DEF MeshTypeOK
  <2>3. \A m \in Node : Len(heard[m]) \in Nat
    BY <2>2, SMTT(60)
  <2> QED BY <2>1, <2>2, <2>3 DEF SharedTypeOK, MeshTypeOK, WellFormed
<1>1. ASSUME NEW cmd \in Cmd \cup {NoCmd}, NEW t \in Type, Transmit(n, cmd, t)
      PROVE  /\ \E f \in Frame : f.from # 0 /\ f.uid = uid + 1 /\ rx' = Append(rx, f)
             /\ uid' = uid + 1
             /\ UNCHANGED <<up, connVars, eventVars, writeVars, sharedVars, monVars, heard, renewals>>
  <2>1. /\ addrList[n] # NoAddr /\ rx' = Append(rx, NodeFrame(n, cmd, t)) /\ uid' = uid + 1
        /\ UNCHANGED <<up, connVars, eventVars, writeVars, sharedVars, monVars, heard, renewals>>
    BY <1>1 DEF Transmit
  <2>2. addrList[n] \in Addr /\ addrList[n] # 0
    BY <1>0, <2>1
  <2>3. NodeFrame(n, cmd, t) \in Frame /\ NodeFrame(n, cmd, t).from # 0 /\ NodeFrame(n, cmd, t).uid = uid + 1
    <3>1. n \in NodeId /\ uid + 1 \in Nat /\ 0 \in Addr \cup {0, NoAddr}
      BY <1>0, SMTT(60) DEF NodeId
    <3> QED BY <1>1, <2>2, <3>1 DEF NodeFrame, Frame
  <2> QED BY <2>1, <2>3
<1>2. ASSUME NEW i \in DOMAIN heard[n] PROVE heard[n][i] \in Cmd /\ heard[n][i].type \in Type
  <2>1. heard[n][i] \in Cmd
    BY <1>0, <1>2, ElementOfSeq, SMTT(60)
  <2> QED BY <2>1 DEF Cmd
<1>3. CASE Answer(n)
  <2>1. /\ nans[n] < Len(heard[n]) /\ nans' = [nans EXCEPT ![n] = @ + 1]
        /\ Transmit(n, heard[n][nans[n] + 1], heard[n][nans[n] + 1].type)
    BY <1>3 DEF Answer
  <2>2. nans[n] + 1 \in DOMAIN heard[n]
    BY <1>0, <2>1, SMTT(60)
  <2>3. nans' \in [Node -> Nat] /\ \A m \in Node : nans'[m] <= Len(heard[m])
    <3>1. nans[n] \in Nat /\ Len(heard[n]) \in Nat
      BY <1>0
    <3>2. nans[n] + 1 \in Nat /\ nans[n] + 1 <= Len(heard[n])
      BY <2>1, <3>1, SMTT(60)
    <3>3. nans' = [nans EXCEPT ![n] = nans[n] + 1]
      BY <2>1
    <3> QED BY <1>0, <3>2, <3>3
  <2> QED BY <1>1, <1>2, <2>1, <2>2, <2>3, SMTT(60)
<1>4. CASE Repeat(n)
  <2>1. /\ nans[n] > 0 /\ nans' = nans
        /\ Transmit(n, heard[n][nans[n]], heard[n][nans[n]].type)
    BY <1>4 DEF Repeat
  <2>2. /\ nans[n] \in Nat /\ nans[n] <= Len(heard[n]) /\ Len(heard[n]) \in Nat
        /\ nans[n] \in 1 .. Len(heard[n])
    <3>1. nans[n] \in Nat /\ nans[n] <= Len(heard[n]) /\ Len(heard[n]) \in Nat
      BY <1>0, SMTT(60)
    <3>2. nans[n] > 0
      BY <1>4 DEF Repeat
    <3> QED BY <3>1, <3>2, SMTT(60)
  <2>3. nans[n] \in DOMAIN heard[n]
    <3>1. heard[n] \in Seq(Cmd)
      BY <1>0
    <3>2. DOMAIN heard[n] = 1 .. Len(heard[n])
      BY <3>1, LenProperties
    <3> QED BY <2>2, <3>2
  <2> QED BY <1>0, <1>1, <1>2, <2>1, <2>3
<1>5. CASE Report(n)
  <2>1. nans' = nans /\ Transmit(n, NoCmd, "R")
    BY <1>5 DEF Report
  <2>2. "R" \in Type
    BY DEF Type
  <2>3. /\ \E f \in Frame : f.from # 0 /\ f.uid = uid + 1 /\ rx' = Append(rx, f)
        /\ uid' = uid + 1
        /\ UNCHANGED <<up, connVars, eventVars, writeVars, sharedVars, monVars, heard, renewals>>
    BY <1>1, <2>1, <2>2
  <2> QED BY <1>0, <2>1, <2>3
<1> QED BY <1>3, <1>4, <1>5 DEF SensorNode

(* A node's step keeps every type.                                           *)
LEMMA NodeTyped ==
  ASSUME TypeInv, NEW n \in Node, SensorNode(n)
  PROVE  TypeInv'
<1>1. PICK f \in Frame : f.from # 0 /\ rx' = Append(rx, f)
  BY NodeEffect
<1>2. rx \in Seq(Frame) /\ uid \in Nat /\ \A i \in DOMAIN rx : rx[i].from # 0
  BY DEF TypeInv, TypeOK, MeshTypeOK, WellFormed
<1>3. rx' \in Seq(Frame) /\ \A i \in DOMAIN rx' : rx'[i].from # 0
  <2>1. rx' \in Seq(Frame)
    BY <1>1, <1>2, AppendProperties
  <2>2. \A i \in DOMAIN rx' : rx'[i].from # 0
    BY <1>1, <1>2, Appended, SMTT(60)
  <2> QED BY <2>1, <2>2
<1>4. /\ uid' = uid + 1
      /\ nans' \in [Node -> Nat] /\ \A m \in Node : nans'[m] <= Len(heard[m])
      /\ UNCHANGED <<up, connVars, eventVars, writeVars, sharedVars, monVars, heard, renewals>>
  BY NodeEffect
<1>5. MeshTypeOK'
  BY <1>2, <1>3, <1>4, SMTT(60) DEF TypeInv, TypeOK, MeshTypeOK
<1>6. /\ UNCHANGED <<estep, eframe>> /\ UNCHANGED frame_queue
      /\ \A m \in Node : nans'[m] <= Len(heard'[m])
  BY <1>4 DEF writeVars, sharedVars
<1> QED BY <1>3, <1>4, <1>5, <1>6, GroupsKeep, HandOversKeep, TypeInvPrime

LEMMA TypeStep ==
  ASSUME TypeInv, [Next]_vars
  PROVE  TypeInv'
<1>1. CASE UNCHANGED vars
  <2>1. UNCHANGED <<up, eventVars, writeVars, sharedVars, monVars, meshVars>> /\ UNCHANGED connVars
    BY <1>1 DEF vars
  <2> QED BY <2>1, ClientRest, GroupsKeep
<1> QED BY <1>1, ClientTyped, EventTyped, MonitorTyped, NodeTyped DEF Next

LEMMA TypeInvariant == Spec => []TypeInv
  BY TypeInit, TypeStep, PTL DEF Spec

(* Every variable of the gateway keeps its type, the data the two threads    *)
(* hand to each other included: on_write never builds a frame from an        *)
(* argument that is not there, and send() is never called without one.       *)
THEOREM TypesHold == Spec => []TypeOK
<1>1. TypeInv => TypeOK
  BY DEF TypeInv
<1> QED BY <1>1, TypeInvariant, PTL

-----------------------------------------------------------------------------
(* The order of the frames that go from the nodes up to the clients.         *)

(* Serial numbers of the frames on their way up, stage by stage.             *)
Got == UNION {{got[c][i].uid : i \in DOMAIN got[c]} : c \in Conn}
Sending == {f.uid : f \in {g \in {mframe} : mstep = "send"}}
QueuedUp == {frame_queue[i].uid : i \in {j \in DOMAIN frame_queue : frame_queue[j].from # 0}}
Arrived == {rx[i].uid : i \in DOMAIN rx}

AllBelow(S, T) == \A x \in S, y \in T : x < y

QueueRising ==
  \A i, j \in DOMAIN frame_queue :
    i < j /\ frame_queue[i].from # 0 /\ frame_queue[j].from # 0
      => frame_queue[i].uid < frame_queue[j].uid
ArrivedRising == \A i, j \in DOMAIN rx : i < j => rx[i].uid < rx[j].uid

Climbing ==
  /\ AllBelow(Got, Sending) /\ AllBelow(Got, QueuedUp) /\ AllBelow(Got, Arrived)
  /\ AllBelow(Sending, QueuedUp) /\ AllBelow(Sending, Arrived) /\ AllBelow(QueuedUp, Arrived)

UpInv ==
  /\ Climbing /\ QueueRising /\ ArrivedRising
  /\ \A x \in Got \cup Sending \cup QueuedUp \cup Arrived : x <= uid
  /\ FramesInOrder

LEMMA UpInit == Init => UpInv
<1> SUFFICES ASSUME Init PROVE UpInv
  OBVIOUS
<1>1. /\ \A c \in Conn : got[c] = <<>>
      /\ mstep = "update" /\ frame_queue = <<>> /\ rx = <<>>
  BY DEF Init
<1>2. Got = {} /\ Sending = {} /\ QueuedUp = {} /\ Arrived = {}
  BY <1>1, SMTT(60) DEF Got, Sending, QueuedUp, Arrived
<1>3. QueueRising /\ ArrivedRising /\ FramesInOrder
  BY <1>1, SMTT(60) DEF QueueRising, ArrivedRising, FramesInOrder
<1> QED BY <1>2, <1>3 DEF UpInv, Climbing, AllBelow

(* Serial numbers are numbers.                                               *)
LEMMA SerialTypes ==
  ASSUME TypeInv
  PROVE  /\ Got \subseteq Nat /\ Sending \subseteq Nat /\ QueuedUp \subseteq Nat
         /\ Arrived \subseteq Nat /\ uid \in Nat
<1>0. \A f \in Frame : f.uid \in Nat
  BY DEF Frame
<1>1. Got \subseteq Nat
  <2>1. ASSUME NEW c \in Conn, NEW i \in DOMAIN got[c] PROVE got[c][i].uid \in Nat
    BY <1>0, <2>1, ElementOfSeq, SMTT(60) DEF TypeInv, TypeOK, ConnTypeOK
  <2> QED BY <2>1, SMTT(60) DEF Got
<1>2. Sending \subseteq Nat
  BY <1>0 DEF Sending, TypeInv, WellFormed
<1>3. QueuedUp \subseteq Nat
  BY <1>0, ElementOfSeq, SMTT(60) DEF QueuedUp, TypeInv, TypeOK, SharedTypeOK
<1>4. Arrived \subseteq Nat
  BY <1>0, ElementOfSeq, SMTT(60) DEF Arrived, TypeInv, TypeOK, MeshTypeOK
<1> QED BY <1>1, <1>2, <1>3, <1>4 DEF TypeInv, TypeOK, MeshTypeOK

(* Steps that move no frame.                                                 *)
LEMMA UpRest ==
  ASSUME UpInv, UNCHANGED <<got, frame_queue, rx, uid>>,
         UNCHANGED <<mstep, mframe>> \/ (mstep # "send" /\ mstep' # "send")
  PROVE  UpInv'
<1>1. UNCHANGED <<Got, Sending, QueuedUp, Arrived>>
  BY SMTT(60) DEF Got, Sending, QueuedUp, Arrived
<1>2. QueueRising' /\ ArrivedRising' /\ FramesInOrder'
  BY SMTT(60) DEF UpInv, QueueRising, ArrivedRising, FramesInOrder
<1> QED BY <1>1, <1>2 DEF UpInv, Climbing, AllBelow

(* An append to frame_queue: a command, or a frame later than all the        *)
(* frames in it.                                                             *)
LEMMA AppendRising ==
  ASSUME TypeInv, UpInv, NEW f \in Frame, frame_queue' = Append(frame_queue, f),
         f.from # 0 => \A x \in QueuedUp : x < f.uid
  PROVE  /\ QueueRising'
         /\ QueuedUp' \subseteq QueuedUp \cup (IF f.from # 0 THEN {f.uid} ELSE {})
<1>1. frame_queue \in Seq(Frame) /\ Len(frame_queue) \in Nat
  BY SMTT(60) DEF TypeInv, TypeOK, SharedTypeOK
<1>2. /\ DOMAIN frame_queue = 1 .. Len(frame_queue)
      /\ DOMAIN frame_queue' = 1 .. Len(frame_queue) + 1
      /\ frame_queue'[Len(frame_queue) + 1] = f
      /\ \A i \in DOMAIN frame_queue : frame_queue'[i] = frame_queue[i]
  BY <1>1, AppendProperties, SMTT(60)
<1>3. ASSUME NEW i \in DOMAIN frame_queue'
      PROVE  (i \in DOMAIN frame_queue /\ frame_queue'[i] = frame_queue[i])
             \/ (i = Len(frame_queue) + 1 /\ frame_queue'[i] = f)
  BY <1>1, <1>2, SMTT(60)
<1>4. QueuedUp' \subseteq QueuedUp \cup (IF f.from # 0 THEN {f.uid} ELSE {})
  <2>1. ASSUME NEW i \in DOMAIN frame_queue', frame_queue'[i].from # 0
        PROVE  frame_queue'[i].uid \in QueuedUp \cup (IF f.from # 0 THEN {f.uid} ELSE {})
    BY <1>3, <2>1 DEF QueuedUp
  <2> QED BY <2>1, SMTT(60) DEF QueuedUp
<1>5. ASSUME NEW i \in DOMAIN frame_queue', NEW j \in DOMAIN frame_queue', i < j,
             frame_queue'[i].from # 0, frame_queue'[j].from # 0
      PROVE  frame_queue'[i].uid < frame_queue'[j].uid
  <2>1. i \in DOMAIN frame_queue /\ frame_queue'[i] = frame_queue[i]
    BY <1>1, <1>2, <1>5, SMTT(60)
  <2>2. frame_queue[i].uid \in QueuedUp
    BY <1>5, <2>1 DEF QueuedUp
  <2>3. CASE j \in DOMAIN frame_queue /\ frame_queue'[j] = frame_queue[j]
    BY <1>5, <2>1, <2>3 DEF UpInv, QueueRising
  <2>4. CASE frame_queue'[j] = f
    BY <1>5, <2>1, <2>2, <2>4
  <2> QED BY <1>3, <2>3, <2>4
<1> QED BY <1>4, <1>5 DEF QueueRising

LEMMA PushRising ==
  ASSUME TypeInv, UpInv, push_frame_queue
  PROVE  UpInv'
<1>0. PICK f : f = eframe
  OBVIOUS
<1>1. /\ frame_queue' = IF estep = "push" THEN Append(frame_queue, f) ELSE frame_queue
      /\ estep # "loop" /\ UNCHANGED <<got, mstep, mframe, rx, uid>>
  BY <1>0 DEF push_frame_queue, connVars, monVars, meshVars
<1>2. CASE estep # "push"
  BY <1>1, <1>2, UpRest
<1>3. CASE estep = "push"
  <2>1. f \in Frame /\ f.from = 0
    BY <1>0, <1>1 DEF TypeInv, WellFormed, CommandFrame
  <2>2. QueueRising' /\ QueuedUp' \subseteq QueuedUp
    BY <1>1, <1>3, <2>1, AppendRising
  <2>3. UNCHANGED <<Got, Sending, Arrived>>
    BY <1>1, SMTT(60) DEF Got, Sending, Arrived
  <2>4. FramesInOrder' /\ ArrivedRising'
    BY <1>1, SMTT(60) DEF UpInv, FramesInOrder, ArrivedRising
  <2> QED BY <1>1, <2>2, <2>3, <2>4 DEF UpInv, Climbing, AllBelow
<1> QED BY <1>2, <1>3

(* mesh.update() moves the oldest frame of the radio to the queue, or loses  *)
(* it to the race with on_write.                                             *)
LEMMA UpdateRising ==
  ASSUME TypeInv, UpInv, mesh_update
  PROVE  UpInv'
<1>0. PICK f : f = Head(rx)
  OBVIOUS
<1>1. UNCHANGED <<got, mframe, uid>> /\ mstep = "update"
  BY DEF mesh_update, connVars
<1>2. CASE rx = <<>>
  <2>1. mstep' = "dhcp" /\ UNCHANGED <<rx, frame_queue>>
    BY <1>2 DEF mesh_update
  <2> QED BY <1>1, <2>1, UpRest
<1>3. CASE rx # <<>>
  <2>1. /\ mstep' = mstep /\ rx' = Tail(rx)
        /\ frame_queue' = frame_queue \/ frame_queue' = Append(frame_queue, f)
    BY <1>0, <1>3 DEF mesh_update
  <2>2. /\ rx \in Seq(Frame) /\ 1 \in DOMAIN rx /\ Len(rx) \in Nat /\ DOMAIN rx = 1 .. Len(rx)
        /\ DOMAIN rx' = 1 .. Len(rx) - 1 /\ \A i \in DOMAIN rx' : rx'[i] = rx[i + 1]
        /\ f \in Frame /\ f = rx[1] /\ f.from # 0
    <3>1. rx \in Seq(Frame) /\ \A i \in DOMAIN rx : rx[i].from # 0
      BY DEF TypeInv, TypeOK, MeshTypeOK, WellFormed
    <3> QED BY <1>0, <1>3, <2>1, <3>1, HeadTailProperties, SMTT(60)
  <2>3. \A i \in DOMAIN rx' : i + 1 \in DOMAIN rx /\ 1 < i + 1 /\ i \in Int
    BY <2>2, SMTT(60)
  <2>4. f.uid \in Arrived /\ Arrived' \subseteq Arrived /\ \A y \in Arrived' : f.uid < y
    BY <2>2, <2>3 DEF Arrived, UpInv, ArrivedRising
  <2>5. ArrivedRising'
    <3>1. ASSUME NEW i \in DOMAIN rx', NEW j \in DOMAIN rx', i < j PROVE rx'[i].uid < rx'[j].uid
      <4>1. i + 1 < j + 1 /\ i + 1 \in DOMAIN rx /\ j + 1 \in DOMAIN rx
        BY <2>3, <3>1, SMTT(60)
      <4> QED BY <2>2, <3>1, <4>1 DEF UpInv, ArrivedRising
    <3> QED BY <3>1 DEF ArrivedRising
  <2>6. \A x \in QueuedUp : x < f.uid
    BY <2>4 DEF UpInv, Climbing, AllBelow
  <2>7. QueueRising' /\ QueuedUp' \subseteq QueuedUp \cup {f.uid}
    <3>1. CASE frame_queue' = frame_queue
      BY <3>1 DEF UpInv, QueueRising, QueuedUp
    <3>2. CASE frame_queue' = Append(frame_queue, f)
      BY <2>2, <2>6, <3>2, AppendRising
    <3> QED BY <2>1, <3>1, <3>2
  <2>8. UNCHANGED <<Got, Sending>>
    BY <1>1, <2>1, SMTT(60) DEF Got, Sending
  <2>9. FramesInOrder'
    BY <1>1, SMTT(60) DEF UpInv, FramesInOrder
  <2>10. Climbing'
    <3>1. /\ AllBelow(Got, QueuedUp') /\ AllBelow(Got, Arrived') /\ AllBelow(Sending, QueuedUp')
          /\ AllBelow(Sending, Arrived') /\ AllBelow(QueuedUp', Arrived')
      BY <2>4, <2>7 DEF UpInv, Climbing, AllBelow
    <3> QED BY <2>8, <3>1 DEF UpInv, Climbing, AllBelow
  <2>11. \A x \in (Got \cup Sending \cup QueuedUp \cup Arrived)' : x <= uid'
    BY <1>1, <2>4, <2>7, <2>8 DEF UpInv
  <2> QED BY <2>5, <2>7, <2>9, <2>10, <2>11 DEF UpInv
<1> QED BY <1>2, <1>3

(* Draining takes the oldest frame; only a node's frame goes on to send().   *)
LEMMA DrainRising ==
  ASSUME TypeInv, UpInv, drain
  PROVE  UpInv'
<1>1. UNCHANGED <<got, rx, uid>> /\ mstep = "drain"
  BY DEF drain, connVars
<1>2. CASE frame_queue = <<>>
  <2>1. mstep' = "update" /\ UNCHANGED frame_queue
    BY <1>2 DEF drain
  <2> QED BY <1>1, <2>1, UpRest
<1>3. CASE frame_queue # <<>>
  <2>0. PICK f : f = Head(frame_queue)
    OBVIOUS
  <2>1. /\ f \in Frame /\ f = frame_queue[1] /\ frame_queue' = Tail(frame_queue)
        /\ mstep' = mstep \/ (f.from # 0 /\ mstep' = "send" /\ mframe' = f)
    BY <1>3, <2>0, DrainEffect DEF monVars
  <2>2. /\ frame_queue \in Seq(Frame) /\ 1 \in DOMAIN frame_queue /\ Len(frame_queue) \in Nat
        /\ DOMAIN frame_queue = 1 .. Len(frame_queue)
        /\ DOMAIN frame_queue' = 1 .. Len(frame_queue) - 1
        /\ \A i \in DOMAIN frame_queue' : frame_queue'[i] = frame_queue[i + 1]
    BY <1>3, <2>1, HeadTailProperties, SMTT(60) DEF TypeInv, TypeOK, SharedTypeOK
  <2>3. \A i \in DOMAIN frame_queue' : i + 1 \in DOMAIN frame_queue /\ 1 < i + 1 /\ i \in Int
    BY <2>2, SMTT(60)
  <2>4. QueuedUp' \subseteq QueuedUp
    BY <2>2, <2>3 DEF QueuedUp
  <2>5. QueueRising'
    <3>1. ASSUME NEW i \in DOMAIN frame_queue', NEW j \in DOMAIN frame_queue', i < j,
                 frame_queue'[i].from # 0, frame_queue'[j].from # 0
          PROVE  frame_queue'[i].uid < frame_queue'[j].uid
      <4>1. i + 1 < j + 1 /\ i + 1 \in DOMAIN frame_queue /\ j + 1 \in DOMAIN frame_queue
        BY <2>3, <3>1, SMTT(60)
      <4> QED BY <2>2, <3>1, <4>1 DEF UpInv, QueueRising
    <3> QED BY <3>1 DEF QueueRising
  <2>6. UNCHANGED <<Got, Arrived>> /\ FramesInOrder' /\ ArrivedRising'
    BY <1>1, SMTT(60) DEF Got, Arrived, UpInv, FramesInOrder, ArrivedRising
  <2>7. /\ Sending' \subseteq QueuedUp /\ AllBelow(Sending', QueuedUp')
    <3>1. CASE mstep' = mstep
      BY <1>1, <3>1 DEF Sending, AllBelow
    <3>2. CASE f.from # 0 /\ mstep' = "send" /\ mframe' = f
      <4>1. f.uid \in QueuedUp /\ Sending' = {f.uid}
        BY <2>1, <2>2, <3>2 DEF QueuedUp, Sending
      <4>2. ASSUME NEW i \in DOMAIN frame_queue', frame_queue'[i].from # 0
            PROVE  f.uid < frame_queue'[i].uid
        BY <2>1, <2>2, <2>3, <3>2, <4>2 DEF UpInv, QueueRising
      <4> QED BY <4>1, <4>2 DEF QueuedUp, AllBelow
    <3> QED BY <2>1, <3>1, <3>2
  <2>8. Climbing'
    <3>1. /\ AllBelow(Got, Sending') /\ AllBelow(Got, QueuedUp') /\ AllBelow(Sending', Arrived)
          /\ AllBelow(QueuedUp', Arrived)
      BY <2>4, <2>7 DEF UpInv, Climbing, AllBelow
    <3> QED BY <2>6, <2>7, <3>1 DEF UpInv, Climbing, AllBelow
  <2>9. \A x \in (Got \cup Sending \cup QueuedUp \cup Arrived)' : x <= uid'
    BY <1>1, <2>4, <2>6, <2>7 DEF UpInv
  <2> QED BY <2>5, <2>6, <2>8, <2>9 DEF UpInv
<1> QED BY <1>2, <1>3

(* send() delivers the frame to one client at most.                          *)
LEMMA SendRising ==
  ASSUME TypeInv, UpInv, send_reply
  PROVE  UpInv'
<1>0. PICK f : f = mframe
  OBVIOUS
<1>1. /\ mstep = "send" /\ mstep' = "drain" /\ UNCHANGED <<frame_queue, rx, uid>>
      /\ got' = got \/ \E c \in Conn : got' = [got EXCEPT ![c] = Append(@, f)]
  BY <1>0 DEF send_reply, Holder, sharedVars, meshVars
<1>2. f \in Frame /\ f.uid \in Sending /\ f.uid \in Nat /\ Sending' = {}
  BY <1>0, <1>1 DEF TypeInv, WellFormed, Sending, Frame
<1>3. UNCHANGED <<QueuedUp, Arrived>> /\ QueueRising' /\ ArrivedRising'
  BY <1>1 DEF QueuedUp, Arrived, UpInv, QueueRising, ArrivedRising
<1>4. \A x \in Got : x < f.uid /\ x \in Nat
  BY <1>2, SerialTypes DEF UpInv, Climbing, AllBelow
<1>5. Got' \subseteq Got \cup {f.uid} /\ FramesInOrder'
  <2>1. CASE got' = got
    BY <2>1, SMTT(60) DEF Got, UpInv, FramesInOrder
  <2>2. ASSUME NEW c \in Conn, got' = [got EXCEPT ![c] = Append(@, f)]
        PROVE  Got' \subseteq Got \cup {f.uid} /\ FramesInOrder'
    <3>1. /\ got[c] \in Seq(Frame) /\ got'[c] = Append(got[c], f)
          /\ \A d \in Conn : d # c => got'[d] = got[d]
      BY <2>2 DEF TypeInv, TypeOK, ConnTypeOK
    <3>2. /\ DOMAIN got[c] = 1 .. Len(got[c]) /\ Len(got[c]) \in Nat
          /\ DOMAIN got'[c] = 1 .. Len(got[c]) + 1
          /\ got'[c][Len(got[c]) + 1] = f
          /\ \A i \in DOMAIN got[c] : got'[c][i] = got[c][i]
      BY <3>1, AppendProperties, SMTT(60)
    <3>3. ASSUME NEW d \in Conn, NEW i \in DOMAIN got'[d]
          PROVE  \/ i \in DOMAIN got[d] /\ got'[d][i] = got[d][i] /\ got[d][i].uid \in Got
                 \/ d = c /\ i = Len(got[c]) + 1 /\ got'[d][i] = f
      <4>1. CASE d # c
        BY <3>1, <3>3, <4>1, SMTT(60) DEF Got
      <4>2. CASE d = c /\ i = Len(got[c]) + 1
        BY <3>2, <4>2
      <4>3. CASE d = c /\ i # Len(got[c]) + 1
        <5>1. i \in DOMAIN got[c]
          BY <3>2, <3>3, <4>3, SMTT(60)
        <5> QED BY <3>2, <4>3, <5>1, SMTT(60) DEF Got
      <4> QED BY <4>1, <4>2, <4>3
    <3>4. Got' \subseteq Got \cup {f.uid}
      BY <3>3, SMTT(60) DEF Got
    <3>5. ASSUME NEW d \in Conn, NEW e \in Conn, NEW i \in DOMAIN got'[d], NEW j \in DOMAIN got'[e]
          PROVE  /\ d = e /\ i < j => got'[d][i].uid < got'[e][j].uid
                 /\ d # e => got'[d][i].uid # got'[e][j].uid
      <4>1. \/ i \in DOMAIN got[d] /\ got'[d][i] = got[d][i] /\ got[d][i].uid \in Got
            \/ d = c /\ i = Len(got[c]) + 1 /\ got'[d][i] = f
        BY <3>3
      <4>2. \/ j \in DOMAIN got[e] /\ got'[e][j] = got[e][j] /\ got[e][j].uid \in Got
            \/ e = c /\ j = Len(got[c]) + 1 /\ got'[e][j] = f
        BY <3>3
      <4>3. CASE i \in DOMAIN got[d] /\ got'[d][i] = got[d][i] /\ got[d][i].uid \in Got
        <5>1. CASE j \in DOMAIN got[e] /\ got'[e][j] = got[e][j]
          BY <4>3, <5>1, SMTT(60) DEF UpInv, FramesInOrder
        <5>2. CASE got'[e][j] = f
          BY <1>2, <1>4, <4>3, <5>2, SMTT(60)
        <5> QED BY <4>2, <5>1, <5>2
      <4>4. CASE d = c /\ i = Len(got[c]) + 1 /\ got'[d][i] = f
        <5>1. d = e => ~(i < j)
          BY <3>2, <3>5, <4>4, SMTT(60)
        <5>2. d # e => got[e][j].uid \in Got /\ got'[e][j] = got[e][j]
          BY <4>2, <4>4
        <5> QED BY <1>2, <1>4, <4>4, <5>1, <5>2, SMTT(60)
      <4> QED BY <4>1, <4>3, <4>4
    <3>6. FramesInOrder'
      BY <3>5 DEF FramesInOrder
    <3> QED BY <3>4, <3>6
  <2> QED BY <1>1, <2>1, <2>2
<1>6. Climbing'
  <2>1. AllBelow(Got', QueuedUp) /\ AllBelow(Got', Arrived)
    BY <1>2, <1>5 DEF UpInv, Climbing, AllBelow
  <2> QED BY <1>2, <1>3, <2>1 DEF UpInv, Climbing, AllBelow
<1>7. \A x \in (Got \cup Sending \cup QueuedUp \cup Arrived)' : x <= uid'
  BY <1>1, <1>2, <1>3, <1>5 DEF UpInv
<1> QED BY <1>3, <1>5, <1>6, <1>7 DEF UpInv

(* A node numbers its frames above all earlier ones.                         *)
LEMMA NodeRising ==
  ASSUME TypeInv, UpInv, NEW n \in Node, SensorNode(n)
  PROVE  UpInv'
<1>1. PICK f \in Frame : f.from # 0 /\ f.uid = uid + 1 /\ rx' = Append(rx, f)
  BY NodeEffect
<1>2. uid' = uid + 1 /\ UNCHANGED <<got, mstep, mframe, frame_queue>>
  BY NodeEffect DEF connVars, sharedVars, monVars
<1>3. UNCHANGED <<Got, Sending, QueuedUp>> /\ QueueRising' /\ FramesInOrder'
  BY <1>2, SMTT(60) DEF Got, Sending, QueuedUp, UpInv, QueueRising, FramesInOrder
<1>4. rx \in Seq(Frame)
  BY DEF TypeInv, TypeOK, MeshTypeOK
<1>5. /\ DOMAIN rx = 1 .. Len(rx) /\ Len(rx) \in Nat
      /\ DOMAIN rx' = 1 .. Len(rx) + 1 /\ rx'[Len(rx) + 1] = f
      /\ \A i \in DOMAIN rx : rx'[i] = rx[i] /\ rx[i].uid \in Arrived
  BY <1>1, <1>4, AppendProperties, SMTT(60) DEF Arrived
<1>6. Arrived' \subseteq Arrived \cup {uid + 1}
  <2>1. ASSUME NEW i \in DOMAIN rx' PROVE rx'[i].uid \in Arrived \cup {uid + 1}
    <3>1. CASE i \in DOMAIN rx
      BY <1>5, <3>1
    <3>2. CASE i = Len(rx) + 1
      BY <1>1, <1>5, <3>2
    <3> QED BY <1>5, <2>1, <3>1, <3>2, SMTT(60)
  <2> QED BY <2>1 DEF Arrived
<1>7. \A x \in Got \cup Sending \cup QueuedUp \cup Arrived : x < uid + 1 /\ x <= uid + 1 /\ x \in Nat
  BY SerialTypes, SMTT(60) DEF UpInv
<1>8. ArrivedRising'
  <2>1. ASSUME NEW i \in DOMAIN rx', NEW j \in DOMAIN rx', i < j PROVE rx'[i].uid < rx'[j].uid
    <3>1. i \in DOMAIN rx /\ rx'[i] = rx[i] /\ rx[i].uid \in Arrived
      <4>1. i \in DOMAIN rx
        BY <1>5, <2>1, SMTT(60)
      <4> QED BY <1>5, <4>1
    <3>2. CASE j \in DOMAIN rx
      BY <1>5, <2>1, <3>1, <3>2 DEF UpInv, ArrivedRising
    <3>3. CASE j = Len(rx) + 1
      BY <1>1, <1>5, <1>7, <3>1, <3>3
    <3> QED BY <1>5, <2>1, <3>2, <3>3, SMTT(60)
  <2> QED BY <2>1 DEF ArrivedRising
<1>9. Climbing'
  <2>1. AllBelow(Got, Arrived') /\ AllBelow(Sending, Arrived') /\ AllBelow(QueuedUp, Arrived')
    BY <1>6, <1>7 DEF UpInv, Climbing, AllBelow
  <2> QED BY <1>3, <2>1 DEF UpInv, Climbing, AllBelow
<1>10. \A x \in (Got \cup Sending \cup QueuedUp \cup Arrived)' : x <= uid'
  <2>1. uid + 1 <= uid + 1
    BY SerialTypes, SMTT(60)
  <2> QED BY <1>2, <1>3, <1>6, <1>7, <2>1
<1> QED BY <1>3, <1>8, <1>9, <1>10 DEF UpInv

LEMMA UpStep ==
  ASSUME TypeInv, UpInv, [Next]_vars
  PROVE  UpInv'
<1> USE DEF vars, connVars, eventVars, writeVars, sharedVars, monVars, meshVars
<1>1. CASE UNCHANGED vars
  BY <1>1, UpRest
<1>2. CASE EventThread
  <2>1. CASE Poll
    BY <2>1, UpRest DEF Poll
  <2>2. CASE store_sockt_fd
    BY <2>2, UpRest DEF store_sockt_fd
  <2>3. ASSUME NEW c \in Conn, on_accept(c) PROVE UpInv'
    BY <2>3, UpRest DEF on_accept
  <2>4. ASSUME NEW c \in Conn, on_read(c) PROVE UpInv'
    BY <2>4, UpRest DEF on_read
  <2>5. ASSUME NEW c \in Conn, on_write(c) PROVE UpInv'
    BY <2>5, UpRest DEF on_write
  <2> QED BY <1>2, <2>1, <2>2, <2>3, <2>4, <2>5, PushRising DEF EventThread
<1>3. CASE MonitorThread
  <2>1. CASE mesh_DHCP
    BY <2>1, UpRest DEF mesh_DHCP
  <2> QED BY <1>3, <2>1, UpdateRising, DrainRising, SendRising DEF MonitorThread
<1>4. ASSUME NEW c \in Conn, Client(c) PROVE UpInv'
  <2>1. UNCHANGED <<got, mstep, mframe, frame_queue, rx, uid>>
    BY <1>4
    DEF Client, Connect, SendRequest, ReceiveAnswer, ReceiveTimeout, CloseClient, LeakSocket
  <2> QED BY <2>1, UpRest
<1> QED BY <1>1, <1>2, <1>3, <1>4, NodeRising DEF Next

LEMMA UpInvariant == Spec => []UpInv
  BY TypeInvariant, UpInit, UpStep, PTL DEF Spec

(* A frame a node sends is delivered at most once, to one client, and each   *)
(* client gets frames in the order they were sent, although descriptors are  *)
(* reused and the queue is shared without a lock.                            *)
THEOREM FramesStayInOrder == Spec => []FramesInOrder
<1>1. UpInv => FramesInOrder
  BY DEF UpInv
<1> QED BY <1>1, UpInvariant, PTL

-----------------------------------------------------------------------------
(* What clients that take turns can rely on.  hack_http.cpp runs one         *)
(* request at a time, and a test.cpp client alone waits for each answer:     *)
(* while the nodes answer once and no client gives up, one request or its    *)
(* answer is under way in the whole gateway, at one place.                   *)


(* Only hack_http.cpp's clients, or only one client; no frame of a node but  *)
(* its answers, and no timeout.  Radio loss and queue races are allowed, and *)
(* so are address changes.                                                   *)
TakingTurns == \A c, d \in Conn : c = d \/ (c \in HttpConn /\ d \in HttpConn)
AnswersOnly == Faults \cap {"repeat", "report", "timeout"} = {}

(* The places a request and its answer pass.  Each predicate says that its   *)
(* place holds exactly cmd, of connection c, or nothing.                     *)
InSocket(here, c, cmd) == \A d \in Conn : inbuf[d] = IF here /\ d = c THEN <<cmd>> ELSE <<>>
InWriteEv(here, c, cmd) == \A d \in Conn : wev[d] = IF here /\ d = c THEN cmd ELSE NoCmd
InOnWrite(here, cmd) ==
  IF here THEN estep \in {"push", "lost"} /\ eframe.cmd = cmd ELSE estep \in {"loop", "store"}
InQueue(here, cmd) ==
  IF here THEN Len(frame_queue) = 1 /\ frame_queue[1].cmd = cmd ELSE frame_queue = <<>>
AtNode(here, cmd) ==
  IF here THEN \E n \in Node : /\ nans[n] + 1 = Len(heard[n]) /\ heard[n][Len(heard[n])] = cmd
                               /\ \A m \in Node \ {n} : nans[m] = Len(heard[m])
  ELSE \A m \in Node : nans[m] = Len(heard[m])
InRadio(here, cmd) == IF here THEN Len(rx) = 1 /\ rx[1].cmd = cmd ELSE rx = <<>>
InSend(here, cmd) == IF here THEN mstep = "send" /\ mframe.cmd = cmd ELSE mstep # "send"

Places == {"socket", "write_ev", "on_write", "queue", "node", "radio", "send"}

(* Nothing but cmd is under way, and that at place p only.                   *)
OnlyAt(p, c, cmd) ==
  /\ InSocket(p = "socket", c, cmd) /\ InWriteEv(p = "write_ev", c, cmd)
  /\ InOnWrite(p = "on_write", cmd) /\ InQueue(p = "queue", cmd) /\ AtNode(p = "node", cmd)
  /\ InRadio(p = "radio", cmd) /\ InSend(p = "send", cmd)

(* Nothing is.                                                               *)
Quiet == OnlyAt("nowhere", NoCmd, NoCmd)

(* cmd is the latest request of c, which waits for its answer and has read   *)
(* what came before.                                                         *)
Awaited(c, cmd) ==
  /\ cli[c] = "waiting" /\ nread[c] = Len(got[c])
  /\ sent[c] # <<>> /\ cmd = sent[c][Len(sent[c])]

OneUnderWay == Quiet \/ \E p \in Places, c \in Conn, cmd \in Cmd : OnlyAt(p, c, cmd) /\ Awaited(c, cmd)

Busy(c) == cli[c] \in {"ready", "waiting"}
OneBusy == \A c, d \in Conn : Busy(c) /\ Busy(d) => c = d

(* What a client has sent and got at each of its states.                     *)
ClientOK(c) ==
  /\ cli[c] # "rst" /\ nread[c] <= Len(got[c])
  /\ cli[c] = "new" => life[c] = "new" /\ sent[c] = <<>> /\ got[c] = <<>> /\ nread[c] = 0
  /\ cli[c] = "ready" => nread[c] = Len(got[c])
  /\ cli[c] = "leaked" => nread[c] = 0
  /\ c \in HttpConn => Len(sent[c]) <= 1
  /\ c \in HttpConn /\ cli[c] # "leaked" /\ got[c] # <<>>
       => sent[c] # <<>> /\ got[c][1].cmd = sent[c][1]
ClientsOK == \A c \in Conn : ClientOK(c)

SerialInv == up # "corrupt" /\ OneUnderWay /\ OneBusy /\ ClientsOK

LEMMA SerialInit == Init => SerialInv
<1> SUFFICES ASSUME Init PROVE SerialInv
  OBVIOUS
<1>1. Quiet
  BY DEF Init, Quiet, OnlyAt, InSocket, InWriteEv, InOnWrite, InQueue, AtNode, InRadio, InSend
<1>2. OneBusy
  BY DEF Init, OneBusy, Busy
<1>3. ClientsOK
  <2>1. \A c \in Conn : /\ cli[c] = "new" /\ life[c] = "new" /\ nread[c] = 0
                       /\ sent[c] = <<>> /\ got[c] = <<>>
    BY DEF Init
  <2>2. Len(<<>>) <= 1
    BY EmptySeq, SMTT(60)
  <2>3. ASSUME NEW c \in Conn PROVE ClientOK(c)
    <3>1. /\ cli[c] = "new" /\ life[c] = "new" /\ nread[c] = 0
          /\ sent[c] = <<>> /\ got[c] = <<>>
      BY <2>1
    <3>2. Len(got[c]) = 0 /\ Len(sent[c]) = 0
      BY <3>1, EmptySeq
    <3>3. nread[c] <= Len(got[c]) /\ Len(sent[c]) <= 1
      BY <3>1, <3>2, SMTT(60)
    <3> QED BY <3>1, <3>3 DEF ClientOK
  <2> QED BY <2>3 DEF ClientsOK
<1> QED BY <1>1, <1>2, <1>3 DEF Init, SerialInv, OneUnderWay

(* Whose request is under way is the one busy client, and waits.             *)
LEMMA ReadyIsQuiet ==
  ASSUME SerialInv, NEW c \in Conn, cli[c] = "ready" \/ (cli[c] = "waiting" /\ nread[c] # Len(got[c]))
  PROVE  Quiet
<1>1. \A d \in Conn : cli[d] = "waiting" => d = c
  BY DEF SerialInv, OneBusy, Busy
<1> QED BY <1>1 DEF SerialInv, OneUnderWay, Awaited

(* A step that leaves the places alone.                                      *)
LEMMA PlacesKeep ==
  ASSUME UNCHANGED <<inbuf, wev, frame_queue, nans, heard, rx>>,
         UNCHANGED <<estep, eframe>> \/ {estep, estep'} \subseteq {"loop", "store"},
         UNCHANGED <<mstep, mframe>> \/ "send" \notin {mstep, mstep'}
  PROVE  \A p, c, cmd : OnlyAt(p, c, cmd) => OnlyAt(p, c, cmd)'
<1> SUFFICES ASSUME NEW p, NEW c, NEW cmd, OnlyAt(p, c, cmd) PROVE OnlyAt(p, c, cmd)'
  OBVIOUS
<1>1. InSocket(p = "socket", c, cmd)' /\ InWriteEv(p = "write_ev", c, cmd)'
  BY DEF OnlyAt, InSocket, InWriteEv
<1>2. InOnWrite(p = "on_write", cmd)'
  BY DEF OnlyAt, InOnWrite
<1>3. InQueue(p = "queue", cmd)' /\ AtNode(p = "node", cmd)' /\ InRadio(p = "radio", cmd)'
  BY DEF OnlyAt, InQueue, AtNode, InRadio
<1>4. InSend(p = "send", cmd)'
  BY DEF OnlyAt, InSend
<1> QED BY <1>1, <1>2, <1>3, <1>4 DEF OnlyAt

(* A step of a client.                                                       *)
LEMMA ClientSerial ==
  ASSUME TakingTurns, AnswersOnly, TypeInv, SerialInv, NEW c \in Conn, Client(c)
  PROVE  SerialInv'
<1>0. /\ cli \in [Conn -> ClientState] /\ life \in [Conn -> {"new", "queued", "open", "closed"}]
      /\ sent \in [Conn -> Seq(Cmd)] /\ got \in [Conn -> Seq(Frame)] /\ nread \in [Conn -> Nat]
      /\ inbuf \in [Conn -> Seq(Cmd)]
  BY DEF TypeInv, TypeOK, ConnTypeOK
<1>1. up # "corrupt" /\ OneUnderWay /\ OneBusy /\ \A d \in Conn : ClientOK(d)
  BY DEF SerialInv, ClientsOK
<1>2. UNCHANGED <<up, eventVars, writeVars, sharedVars, monVars, meshVars>>
  BY DEF Client, Connect, SendRequest, ReceiveAnswer, ReceiveTimeout, CloseClient, LeakSocket
<1>3. UNCHANGED <<up, wev, eframe, estep, mstep, frame_queue, nans, heard, rx, mframe>>
  BY <1>2 DEF eventVars, writeVars, sharedVars, monVars, meshVars
<1>4. UNCHANGED inbuf /\ Quiet => Quiet'
  BY <1>3, PlacesKeep DEF Quiet
<1>5. CASE Connect(c)
  <2>1. /\ cli[c] = "new" /\ cli' = [cli EXCEPT ![c] = "ready"] /\ life' = [life EXCEPT ![c] = "queued"]
        /\ c \in HttpConn => \A d \in HttpConn : cli[d] \in {"new", "leaked"} \cup Gone
        /\ UNCHANGED <<sent, inbuf, got, nread>>
    BY <1>5 DEF Connect
  <2>2. \A d \in Conn : ~Busy(d)
    BY <2>1 DEF TakingTurns, Busy, Gone
  <2>3. Quiet'
    BY <1>1, <1>4, <2>1, <2>2 DEF OneUnderWay, Awaited, Busy
  <2>4. OneBusy'
    BY <1>0, <2>1, <2>2 DEF OneBusy, Busy
  <2>5. ClientsOK'
    BY <1>0, <1>1, <2>1, EmptySeq DEF ClientsOK, ClientOK
  <2> QED BY <1>1, <1>3, <2>3, <2>4, <2>5 DEF SerialInv, OneUnderWay
<1>6. ASSUME NEW n \in Target[c], NEW t \in ReqType, SendRequest(c, n, t) PROVE SerialInv'
  <2>0. [conn |-> c, k |-> Len(sent[c]) + 1, node |-> n, type |-> t] \in Cmd
    <3>1. n \in NodeId /\ t \in Type
      BY GatewayAssumption DEF NodeId, Type
    <3>2. Len(sent[c]) + 1 \in Nat
      BY <1>0, SMTT(60)
    <3> QED BY <3>1, <3>2 DEF Cmd
  <2>2. PICK cmd \in Cmd : cmd = [conn |-> c, k |-> Len(sent[c]) + 1, node |-> n, type |-> t]
    BY <2>0
  <2>1. /\ cli[c] = "ready" /\ sent' = [sent EXCEPT ![c] = Append(@, cmd)]
        /\ Len(sent[c]) < IF c \in HttpConn THEN 1 ELSE MaxReq
        /\ inbuf' = [inbuf EXCEPT ![c] = Append(@, cmd)]
        /\ cli' = [cli EXCEPT ![c] = "waiting"]
        /\ UNCHANGED <<life, got, nread>>
    BY <1>6, <2>2 DEF SendRequest
  <2>3. Quiet
    BY <2>1, ReadyIsQuiet
  <2>4. OnlyAt("socket", c, cmd)'
    <3>1. \A d \in Conn : inbuf[d] = <<>>
      BY <2>3 DEF Quiet, OnlyAt, InSocket
    <3>2. InSocket(TRUE, c, cmd)'
      <4>1. Append(<<>>, cmd) = <<cmd>>
        BY SMTT(60)
      <4> QED BY <1>0, <2>1, <3>1, <4>1 DEF InSocket
    <3>3. InWriteEv(FALSE, c, cmd)' /\ InOnWrite(FALSE, cmd)' /\ InQueue(FALSE, cmd)'
          /\ AtNode(FALSE, cmd)' /\ InRadio(FALSE, cmd)' /\ InSend(FALSE, cmd)'
      BY <1>3, <2>3
      DEF Quiet, OnlyAt, InWriteEv, InOnWrite, InQueue, AtNode, InRadio, InSend
    <3> QED BY <3>2, <3>3 DEF OnlyAt
  <2>5. /\ sent'[c] # <<>> /\ Len(sent'[c]) = Len(sent[c]) + 1 /\ sent'[c][Len(sent'[c])] = cmd
    <3>1. sent'[c] = Append(sent[c], cmd) /\ sent[c] \in Seq(Cmd)
      BY <1>0, <2>1
    <3> QED BY <2>2, <3>1, AppendProperties, SMTT(60)
  <2>6. Awaited(c, cmd)'
    BY <1>0, <1>1, <2>1, <2>5 DEF Awaited, ClientOK
  <2>7. OneBusy'
    BY <1>0, <1>1, <2>1 DEF OneBusy, Busy
  <2>8. ClientsOK'
    <3>1. ASSUME NEW d \in Conn, d # c PROVE ClientOK(d)'
      BY <1>0, <1>1, <2>1, <3>1 DEF ClientOK
    <3>2. ClientOK(c)'
      <4>1. c \in HttpConn => sent[c] = <<>> /\ Len(sent[c]) = 0
        BY <1>0, <2>1, EmptySeq, SMTT(60)
      <4>2. c \in HttpConn => got[c] = <<>>
        BY <1>1, <2>1, <4>1 DEF ClientOK
      <4>3. /\ cli'[c] = "waiting" /\ got'[c] = got[c] /\ nread'[c] = nread[c]
            /\ c \in HttpConn => Len(sent'[c]) <= 1
        BY <1>0, <2>1, <2>5, <4>1, SMTT(60)
      <4> QED BY <1>1, <4>2, <4>3 DEF ClientOK
    <3> QED BY <3>1, <3>2 DEF ClientsOK
  <2>9. OneUnderWay'
    BY <2>2, <2>4, <2>6 DEF OneUnderWay, Places
  <2> QED BY <1>1, <1>3, <2>7, <2>8, <2>9 DEF SerialInv
<1>7. CASE ReceiveAnswer(c)
  <2>1. /\ cli[c] = "waiting" /\ nread[c] < Len(got[c])
        /\ nread' = [nread EXCEPT ![c] = Len(got[c])] /\ cli' = [cli EXCEPT ![c] = "ready"]
        /\ UNCHANGED <<life, sent, inbuf, got>>
    BY <1>7 DEF ReceiveAnswer
  <2>2. Quiet
    <3>1. nread[c] # Len(got[c])
      BY <1>0, <2>1, SMTT(60)
    <3> QED BY <2>1, <3>1, ReadyIsQuiet
  <2>3. OneBusy'
    BY <1>0, <1>1, <2>1 DEF OneBusy, Busy
  <2>4. ClientsOK'
    BY <1>0, <1>1, <2>1, SMTT(60) DEF ClientsOK, ClientOK
  <2> QED BY <1>1, <1>3, <1>4, <2>1, <2>2, <2>3, <2>4 DEF SerialInv, OneUnderWay
<1>8. CASE ReceiveTimeout(c)
  BY <1>8 DEF ReceiveTimeout, AnswersOnly
<1>9. CASE CloseClient(c)
  <2>1. /\ cli[c] = "ready" /\ UNCHANGED <<life, sent, inbuf, got, nread>>
        /\ cli' = [cli EXCEPT ![c] = IF nread[c] < Len(got[c]) THEN "rst" ELSE "fin"]
    BY <1>9 DEF CloseClient
  <2>2. cli' = [cli EXCEPT ![c] = "fin"]
    <3>1. nread[c] = Len(got[c]) /\ nread[c] \in Nat
      BY <1>0, <1>1, <2>1 DEF ClientOK
    <3>2. ~(nread[c] < Len(got[c]))
      BY <3>1, SMTT(60)
    <3> QED BY <2>1, <3>2
  <2>3. Quiet
    BY <2>1, ReadyIsQuiet
  <2>4. OneBusy'
    BY <1>0, <1>1, <2>1, <2>2 DEF OneBusy, Busy
  <2>5. ClientsOK'
    BY <1>0, <1>1, <2>1, <2>2, SMTT(60) DEF ClientsOK, ClientOK
  <2> QED BY <1>1, <1>3, <1>4, <2>1, <2>3, <2>4, <2>5 DEF SerialInv, OneUnderWay
<1>10. CASE LeakSocket(c)
  <2>1. /\ c \in HttpConn /\ cli[c] = "ready" /\ sent[c] = <<>>
        /\ cli' = [cli EXCEPT ![c] = "leaked"] /\ UNCHANGED <<life, sent, inbuf, got, nread>>
    BY <1>10 DEF LeakSocket
  <2>2. Quiet
    BY <2>1, ReadyIsQuiet
  <2>3. nread[c] = 0
    <3>1. nread[c] = Len(got[c]) /\ got[c] = <<>>
      BY <1>1, <2>1 DEF ClientOK
    <3> QED BY <3>1, EmptySeq
  <2>4. OneBusy'
    BY <1>0, <1>1, <2>1 DEF OneBusy, Busy
  <2>5. ClientsOK'
    BY <1>0, <1>1, <2>1, <2>3 DEF ClientsOK, ClientOK
  <2> QED BY <1>1, <1>3, <1>4, <2>1, <2>2, <2>4, <2>5 DEF SerialInv, OneUnderWay
<1> QED BY <1>5, <1>6, <1>7, <1>8, <1>9, <1>10 DEF Client

(* A step that changes no client's state but its life: what is awaited stays *)
(* awaited, and the clients stay as they are.                                *)
LEMMA ClientsKeep ==
  ASSUME SerialInv, UNCHANGED <<cli, sent, got, nread>>,
         \A c \in Conn : life'[c] = life[c] \/ cli[c] # "new"
  PROVE  /\ OneBusy' /\ ClientsOK'
         /\ \A c, cmd : Awaited(c, cmd) => Awaited(c, cmd)'
<1>1. OneBusy'
  BY DEF SerialInv, OneBusy, Busy
<1>2. \A c, cmd : Awaited(c, cmd) => Awaited(c, cmd)'
  BY DEF Awaited
<1>3. ASSUME NEW c \in Conn PROVE ClientOK(c)'
  BY DEF SerialInv, ClientsOK, ClientOK
<1> QED BY <1>1, <1>2, <1>3 DEF ClientsOK

(* What is in the sockets, or in a write_ev, is what is under way.           *)
LEMMA UnreadIsUnderWay ==
  ASSUME SerialInv, NEW c \in Conn, inbuf[c] # <<>>
  PROVE  \E cmd \in Cmd : OnlyAt("socket", c, cmd) /\ Awaited(c, cmd)
  BY DEF SerialInv, OneUnderWay, Quiet, OnlyAt, InSocket

LEMMA WritingIsUnderWay ==
  ASSUME SerialInv, NEW c \in Conn, wev[c] # NoCmd
  PROVE  \E cmd \in Cmd : OnlyAt("write_ev", c, cmd) /\ Awaited(c, cmd)
  BY DEF SerialInv, OneUnderWay, Quiet, OnlyAt, InWriteEv

(* A step of the event thread.                                               *)
LEMMA EventSerial ==
  ASSUME TypeInv, SerialInv, EventThread
  PROVE  SerialInv'
<1>0. /\ wev \in [Conn -> Cmd \cup {NoCmd}] /\ inbuf \in [Conn -> Seq(Cmd)]
      /\ frame_queue \in Seq(Frame)
      /\ life \in [Conn -> {"new", "queued", "open", "closed"}]
      /\ \A c \in Conn : <<c, "write">> \in active => wev[c] # NoCmd
  BY DEF TypeInv, TypeOK, ConnTypeOK, EventTypeOK, SharedTypeOK, WellFormed
<1>1. up # "corrupt" /\ OneUnderWay /\ \A c \in Conn : ClientOK(c)
  BY DEF SerialInv, ClientsOK
<1>2. ASSUME up' = up, UNCHANGED <<cli, sent, got, nread>>,
             UNCHANGED <<inbuf, wev, frame_queue, nans, heard, rx, mframe, mstep>>,
             UNCHANGED <<estep, eframe>> \/ {estep, estep'} \subseteq {"loop", "store"},
             \A c \in Conn : life'[c] = life[c] \/ cli[c] # "new"
      PROVE  SerialInv'
  <2>1. \A p, c, cmd : OnlyAt(p, c, cmd) => OnlyAt(p, c, cmd)'
    BY <1>2, PlacesKeep
  <2>2. OneUnderWay'
    BY <1>1, <1>2, <2>1, ClientsKeep DEF OneUnderWay, Quiet
  <2> QED BY <1>1, <1>2, <2>2, ClientsKeep DEF SerialInv
<1>3. CASE Poll
  BY <1>2, <1>3 DEF Poll, connVars, writeVars, sharedVars, monVars, meshVars
<1>4. ASSUME NEW c \in Conn, on_accept(c) PROVE SerialInv'
  <2>1. \A d \in Conn : life'[d] = life[d] \/ cli[d] # "new"
    BY <1>0, <1>1, <1>4 DEF on_accept, ClientOK
  <2> QED BY <1>2, <1>4, <2>1 DEF on_accept, writeVars, sharedVars, monVars, meshVars
<1>5. ASSUME NEW c \in Conn, on_read(c), ReadRequest(c) PROVE SerialInv'
  <2>1. /\ inbuf[c] # <<>> /\ wev' = [wev EXCEPT ![c] = Head(inbuf[c])]
        /\ inbuf' = [inbuf EXCEPT ![c] = <<>>] /\ up' \in AfterMisuse(c)
        /\ UNCHANGED <<cli, life, sent, got, nread>>
        /\ UNCHANGED <<estep, eframe, frame_queue, nans, heard, rx, mframe, mstep>>
    BY <1>5 DEF on_read, ReadRequest, LeftAfterRecv, writeVars, sharedVars, monVars, meshVars
  <2>2. PICK cmd \in Cmd : OnlyAt("socket", c, cmd) /\ Awaited(c, cmd)
    BY <2>1, UnreadIsUnderWay
  <2>3. /\ inbuf[c] = <<cmd>> /\ \A d \in Conn : d # c => inbuf[d] = <<>>
        /\ \A d \in Conn : wev[d] = NoCmd
    BY <2>2 DEF OnlyAt, InSocket, InWriteEv
  <2>4. Head(inbuf[c]) = cmd
    BY <2>3, SMTT(60)
  <2>5. OnlyAt("write_ev", c, cmd)'
    <3>1. InSocket(FALSE, c, cmd)' /\ InWriteEv(TRUE, c, cmd)'
      BY <1>0, <2>1, <2>3, <2>4 DEF InSocket, InWriteEv
    <3>2. InOnWrite(FALSE, cmd)' /\ InQueue(FALSE, cmd)' /\ AtNode(FALSE, cmd)'
          /\ InRadio(FALSE, cmd)' /\ InSend(FALSE, cmd)'
      BY <2>1, <2>2 DEF OnlyAt, InOnWrite, InQueue, AtNode, InRadio, InSend
    <3> QED BY <3>1, <3>2 DEF OnlyAt
  <2>6. up' = up
    BY <2>1, <2>3 DEF AfterMisuse
  <2>7. OneUnderWay'
    BY <2>1, <2>2, <2>5, ClientsKeep DEF OneUnderWay, Places
  <2> QED BY <1>1, <2>1, <2>6, <2>7, ClientsKeep DEF SerialInv
<1>6. ASSUME NEW c \in Conn, on_read(c), ReadError(c) PROVE SerialInv'
  BY <1>1, <1>6 DEF ReadError, ClientOK
<1>7. ASSUME NEW c \in Conn, on_read(c), release_sock_event(c) PROVE SerialInv'
  <2>1. /\ cli[c] \in {"fin", "eof"} /\ life' = [life EXCEPT ![c] = "closed"]
        /\ up' \in AfterMisuse(c) /\ UNCHANGED <<wev, inbuf, cli, sent, got, nread>>
        /\ UNCHANGED <<estep, eframe, frame_queue, nans, heard, rx, mframe, mstep>>
    BY <1>7 DEF on_read, release_sock_event, writeVars, sharedVars, monVars, meshVars
  <2>2. up' = up
    <3>1. wev[c] = NoCmd
      BY <2>1, WritingIsUnderWay DEF Awaited
    <3> QED BY <2>1, <3>1 DEF AfterMisuse
  <2>3. \A d \in Conn : life'[d] = life[d] \/ cli[d] # "new"
    BY <1>0, <2>1
  <2> QED BY <1>2, <2>1, <2>2, <2>3
<1>8. ASSUME NEW c \in Conn, on_write(c) PROVE SerialInv'
  <2>1. /\ <<c, "write">> \in active /\ wev' = [wev EXCEPT ![c] = NoCmd]
        /\ estep' = "push" /\ eframe' = RequestFrame(wev[c]) /\ up' = up
        /\ UNCHANGED <<cli, life, sent, inbuf, got, nread>>
        /\ UNCHANGED <<frame_queue, nans, heard, rx, mframe, mstep>>
    BY <1>8 DEF on_write, Dispatch, WriteEvAfter, connVars, sharedVars, monVars, meshVars
  <2>2. PICK cmd \in Cmd : OnlyAt("write_ev", c, cmd) /\ Awaited(c, cmd)
    BY <1>0, <2>1, WritingIsUnderWay
  <2>3. wev[c] = cmd /\ \A d \in Conn : d # c => wev[d] = NoCmd
    BY <2>2 DEF OnlyAt, InWriteEv
  <2>4. OnlyAt("on_write", c, cmd)'
    <3>1. InWriteEv(FALSE, c, cmd)'
      BY <1>0, <2>1, <2>3 DEF InWriteEv
    <3>2. InOnWrite(TRUE, cmd)'
      BY <2>1, <2>3 DEF InOnWrite, RequestFrame
    <3>3. InSocket(FALSE, c, cmd)' /\ InQueue(FALSE, cmd)' /\ AtNode(FALSE, cmd)'
          /\ InRadio(FALSE, cmd)' /\ InSend(FALSE, cmd)'
      BY <2>1, <2>2 DEF OnlyAt, InSocket, InQueue, AtNode, InRadio, InSend
    <3> QED BY <3>1, <3>2, <3>3 DEF OnlyAt
  <2>5. OneUnderWay'
    BY <2>1, <2>2, <2>4, ClientsKeep DEF OneUnderWay, Places
  <2> QED BY <1>1, <2>1, <2>5, ClientsKeep DEF SerialInv
<1>9. CASE push_frame_queue
  <2>1. /\ estep \in {"push", "lost"} /\ estep' = "store" /\ up' = up
        /\ frame_queue' = IF estep = "push" THEN Append(frame_queue, eframe) ELSE frame_queue
        /\ UNCHANGED <<cli, life, sent, inbuf, got, nread>>
        /\ UNCHANGED <<wev, eframe, nans, heard, rx, mframe, mstep>>
    BY <1>9 DEF push_frame_queue, connVars, eventVars, monVars, meshVars
  <2>2. PICK c \in Conn, cmd \in Cmd : OnlyAt("on_write", c, cmd) /\ Awaited(c, cmd)
    BY <1>1, <2>1 DEF OneUnderWay, Quiet, OnlyAt, InOnWrite
  <2>3. frame_queue = <<>> /\ eframe.cmd = cmd
    BY <2>2 DEF OnlyAt, InQueue, InOnWrite
  <2>4. /\ InSocket(FALSE, c, cmd)' /\ InWriteEv(FALSE, c, cmd)' /\ InOnWrite(FALSE, cmd)'
        /\ AtNode(FALSE, cmd)' /\ InRadio(FALSE, cmd)' /\ InSend(FALSE, cmd)'
    BY <2>1, <2>2 DEF OnlyAt, InSocket, InWriteEv, InOnWrite, AtNode, InRadio, InSend
  <2>5. CASE estep = "push"
    <3>1. frame_queue' = <<eframe>>
      BY <2>1, <2>3, <2>5, SMTT(60)
    <3>2. Len(<<eframe>>) = 1 /\ <<eframe>>[1] = eframe
      OBVIOUS
    <3>3. InQueue(TRUE, cmd)'
      BY <2>3, <3>1, <3>2 DEF InQueue
    <3>4. OnlyAt("queue", c, cmd)'
      BY <2>4, <3>3 DEF OnlyAt
    <3> QED BY <1>1, <2>1, <2>2, <3>4, ClientsKeep DEF SerialInv, OneUnderWay, Places
  <2>6. CASE estep = "lost"
    <3>1. Quiet'
      BY <2>1, <2>3, <2>4, <2>6
      DEF Quiet, OnlyAt, InSocket, InWriteEv, InOnWrite, InQueue, AtNode, InRadio, InSend
    <3> QED BY <1>1, <2>1, <3>1, ClientsKeep DEF SerialInv, OneUnderWay
  <2> QED BY <2>1, <2>5, <2>6
<1>10. CASE store_sockt_fd
  <2>1. /\ estep = "store" /\ estep' = "loop" /\ up' = up
        /\ UNCHANGED <<cli, life, sent, inbuf, got, nread>>
        /\ UNCHANGED <<wev, frame_queue, nans, heard, rx, mframe, mstep>>
    BY <1>10 DEF store_sockt_fd, connVars, eventVars, monVars, meshVars
  <2> QED BY <1>2, <2>1
<1> QED BY <1>3, <1>4, <1>5, <1>6, <1>7, <1>8, <1>9, <1>10 DEF EventThread, on_read

(* Taking the only element leaves nothing.                                   *)
LEMMA TakeOnly ==
  ASSUME NEW S, NEW seq \in Seq(S), Len(seq) = 1
  PROVE  Head(seq) = seq[1] /\ Tail(seq) = <<>>
<1>1. seq # <<>>
  BY EmptySeq, SMTT(60)
<1>2. Head(seq) = seq[1] /\ Tail(seq) \in Seq(S) /\ Len(Tail(seq)) = 0
  BY <1>1, HeadTailProperties, SMTT(60)
<1> QED BY <1>2, EmptySeq

(* A step of the monitor thread.                                             *)
LEMMA MonitorSerial ==
  ASSUME TypeInv, SerialInv, MonitorThread
  PROVE  SerialInv'
<1>0. /\ frame_queue \in Seq(Frame) /\ rx \in Seq(Frame)
      /\ got \in [Conn -> Seq(Frame)] /\ cli \in [Conn -> ClientState]
      /\ heard \in [Node -> Seq(Cmd)] /\ nans \in [Node -> Nat]
  BY DEF TypeInv, TypeOK, ConnTypeOK, SharedTypeOK, MeshTypeOK
<1>1. up # "corrupt" /\ OneUnderWay /\ OneBusy /\ \A c \in Conn : ClientOK(c)
  BY DEF SerialInv, ClientsOK
<1>2. ASSUME up' = up, UNCHANGED connVars, OneUnderWay' PROVE SerialInv'
  BY <1>1, <1>2, ClientsKeep DEF SerialInv, connVars
<1>3. ASSUME UNCHANGED connVars, UNCHANGED <<wev, estep, eframe, frame_queue, nans, heard, rx>>,
             mstep # "send", mstep' # "send"
      PROVE  OneUnderWay'
  <2>1. \A p, c, cmd : OnlyAt(p, c, cmd) => OnlyAt(p, c, cmd)'
    BY <1>3, PlacesKeep DEF connVars
  <2> QED BY <1>1, <1>3, <2>1, ClientsKeep DEF OneUnderWay, Quiet, connVars
<1>4. CASE mesh_update
  <2>1. /\ mstep = "update" /\ UNCHANGED <<connVars, eframe, heard, nans, mframe>>
        /\ UNCHANGED wev
    BY <1>4 DEF mesh_update, eventVars
  <2>2. CASE rx = <<>>
    BY <1>2, <1>3, <1>4, <2>1, <2>2 DEF mesh_update
  <2>3. CASE rx # <<>>
    <3>1. PICK c \in Conn, cmd \in Cmd : OnlyAt("radio", c, cmd) /\ Awaited(c, cmd)
      BY <1>1, <2>3 DEF OneUnderWay, Quiet, OnlyAt, InRadio
    <3>2. /\ Len(rx) = 1 /\ rx[1].cmd = cmd /\ frame_queue = <<>> /\ estep \in {"loop", "store"}
      BY <3>1 DEF OnlyAt, InRadio, InQueue, InOnWrite
    <3>3. Head(rx) = rx[1] /\ Tail(rx) = <<>>
      BY <1>0, <3>2, TakeOnly
    <3>4. /\ rx' = Tail(rx) /\ frame_queue' = Append(frame_queue, Head(rx)) /\ estep' = estep
          /\ mstep' = mstep /\ up' = up
      BY <1>4, <2>3, <3>2 DEF mesh_update, AfterRace
    <3>5. InQueue(TRUE, cmd)'
      <4>1. frame_queue' = <<rx[1]>>
        BY <3>2, <3>3, <3>4, SMTT(60)
      <4> QED BY <3>2, <4>1 DEF InQueue
    <3>6. InRadio(FALSE, cmd)' /\ InOnWrite(FALSE, cmd)' /\ InSend(FALSE, cmd)'
      BY <2>1, <3>2, <3>3, <3>4 DEF InRadio, InOnWrite, InSend
    <3>7. InSocket(FALSE, c, cmd)' /\ InWriteEv(FALSE, c, cmd)' /\ AtNode(FALSE, cmd)'
      BY <2>1, <3>1 DEF OnlyAt, InSocket, InWriteEv, AtNode, connVars
    <3>8. OnlyAt("queue", c, cmd)'
      BY <3>5, <3>6, <3>7 DEF OnlyAt
    <3>9. Awaited(c, cmd)'
      BY <2>1, <3>1 DEF Awaited, connVars
    <3> QED BY <1>2, <2>1, <3>4, <3>8, <3>9 DEF OneUnderWay, Places
  <2> QED BY <2>2, <2>3
<1>5. CASE mesh_DHCP
  BY <1>2, <1>3, <1>5 DEF mesh_DHCP, eventVars, writeVars
<1>6. CASE drain
  <2>1. /\ mstep = "drain" /\ UNCHANGED <<connVars, wev, estep, eframe, rx, nans>>
    BY <1>6 DEF drain, eventVars, writeVars
  <2>2. CASE frame_queue = <<>>
    BY <1>2, <1>3, <1>6, <2>1, <2>2 DEF drain
  <2>3. CASE frame_queue # <<>>
    <3>1. PICK c \in Conn, cmd \in Cmd : OnlyAt("queue", c, cmd) /\ Awaited(c, cmd)
      BY <1>1, <2>3 DEF OneUnderWay, Quiet, OnlyAt, InQueue
    <3>2. Len(frame_queue) = 1 /\ frame_queue[1].cmd = cmd /\ \A n \in Node : nans[n] = Len(heard[n])
      BY <3>1 DEF OnlyAt, InQueue, AtNode
    <3>3. Head(frame_queue) = frame_queue[1] /\ Tail(frame_queue) = <<>>
      BY <1>0, <3>2, TakeOnly
    <3>4. frame_queue' = <<>> /\ handle_incoming_message(Head(frame_queue))
      BY <1>6, <2>3, <3>3 DEF drain, QueueAfterRead
    <3>10. up' = up
      <4>1. estep # "push"
        BY <3>1 DEF OnlyAt, InOnWrite
      <4> QED BY <1>6, <2>3, <4>1 DEF drain, AfterRace
    <3>5. /\ InSocket(FALSE, c, cmd)' /\ InWriteEv(FALSE, c, cmd)' /\ InOnWrite(FALSE, cmd)'
          /\ InQueue(FALSE, cmd)' /\ InRadio(FALSE, cmd)' /\ Awaited(c, cmd)'
      BY <2>1, <3>1, <3>4
      DEF OnlyAt, InSocket, InWriteEv, InOnWrite, InQueue, InRadio, Awaited, connVars
    <3>6. ASSUME UNCHANGED <<heard, monVars>> PROVE OneUnderWay'
      <4>1. Quiet'
        BY <2>1, <3>2, <3>5, <3>6
        DEF Quiet, OnlyAt, InSocket, InWriteEv, InOnWrite, InQueue, AtNode, InRadio, InSend, monVars
      <4> QED BY <4>1 DEF OneUnderWay
    <3>7. ASSUME NEW n \in Node, heard' = [heard EXCEPT ![n] = Append(@, cmd)], UNCHANGED monVars
          PROVE  OneUnderWay'
      <4>1. /\ Len(heard'[n]) = Len(heard[n]) + 1 /\ heard'[n][Len(heard[n]) + 1] = cmd
            /\ \A m \in Node \ {n} : heard'[m] = heard[m]
        <5>1. heard[n] \in Seq(Cmd) /\ heard'[n] = Append(heard[n], cmd)
          BY <1>0, <3>7
        <5> QED BY <1>0, <3>7, <5>1, AppendProperties, SMTT(60)
      <4>2. AtNode(TRUE, cmd)'
        BY <1>0, <2>1, <3>2, <4>1 DEF AtNode
      <4>3. InSend(FALSE, cmd)'
        BY <2>1, <3>7 DEF InSend, monVars
      <4>4. OnlyAt("node", c, cmd)'
        BY <3>5, <4>2, <4>3 DEF OnlyAt
      <4> QED BY <3>5, <4>4 DEF OneUnderWay, Places
    <3>8. ASSUME mstep' = "send", mframe' = Head(frame_queue), UNCHANGED heard PROVE OneUnderWay'
      <4>1. InSend(TRUE, cmd)' /\ AtNode(FALSE, cmd)'
        BY <2>1, <3>2, <3>3, <3>8 DEF InSend, AtNode
      <4>2. OnlyAt("send", c, cmd)'
        BY <3>5, <4>1 DEF OnlyAt
      <4> QED BY <3>5, <4>2 DEF OneUnderWay, Places
    <3>9. \/ UNCHANGED <<heard, monVars>>
          \/ (\E n \in Node : heard' = [heard EXCEPT ![n] = Append(@, cmd)]) /\ UNCHANGED monVars
          \/ mstep' = "send" /\ mframe' = Head(frame_queue) /\ UNCHANGED heard
      BY <3>2, <3>3, <3>4
      DEF handle_incoming_message, handle_message, network_write, NodesAt
    <3> QED BY <1>2, <2>1, <3>6, <3>7, <3>8, <3>9, <3>10
  <2> QED BY <2>2, <2>3
<1>7. CASE send_reply
  <2>1. /\ mstep = "send" /\ mstep' = "drain"
        /\ UNCHANGED <<life, sent, inbuf, nread, wev, estep, eframe, frame_queue, rx, nans, heard>>
    BY <1>7 DEF send_reply, eventVars, writeVars, sharedVars, meshVars
  <2>2. PICK c \in Conn, cmd \in Cmd : OnlyAt("send", c, cmd) /\ Awaited(c, cmd)
    BY <1>1, <2>1 DEF OneUnderWay, Quiet, OnlyAt, InSend
  <2>3. mframe.cmd = cmd
    BY <2>2 DEF OnlyAt, InSend
  <2>4. Quiet'
    BY <2>1, <2>2
    DEF Quiet, OnlyAt, InSocket, InWriteEv, InOnWrite, InQueue, AtNode, InRadio, InSend
  <2>5. CASE UNCHANGED <<got, cli>> /\ up' # "corrupt"
    BY <1>1, <2>1, <2>4, <2>5, ClientsKeep DEF SerialInv, OneUnderWay
  <2>6. ASSUME NEW d \in Conn, life[d] = "open", cli[d] \notin Gone, UNCHANGED <<cli, up>>,
               got' = [got EXCEPT ![d] = Append(@, mframe)]
        PROVE  SerialInv'
    <3>1. OneBusy'
      BY <1>1, <2>6 DEF OneBusy, Busy
    <3>2. ASSUME NEW e \in Conn, e # d PROVE ClientOK(e)'
      BY <1>0, <1>1, <2>1, <2>6, <3>2 DEF ClientOK
    <3>3. ClientOK(d)'
      <4>1. cli[d] = "leaked" \/ d = c
        <5>1. cli[d] \in {"ready", "waiting", "leaked"}
          BY <1>0, <1>1, <2>6 DEF ClientOK, ClientState
        <5> QED BY <1>1, <2>2, <5>1 DEF OneBusy, Busy, Awaited
      <4>2. CASE cli[d] = "leaked"
        BY <1>1, <2>1, <2>6, <4>2, SMTT(60) DEF ClientOK
      <4>3. CASE d = c /\ cli[d] # "leaked"
        <5>1. cli[c] = "waiting" /\ nread[c] = Len(got[c]) /\ sent[c] # <<>> /\ cmd = sent[c][Len(sent[c])]
          BY <2>2 DEF Awaited
        <5>2. got'[c] = Append(got[c], mframe) /\ got[c] \in Seq(Frame) /\ mframe \in Frame
          BY <1>0, <2>1, <2>6, <4>3 DEF TypeInv, WellFormed
        <5>3. CASE got[c] = <<>>
          <6>1. got'[c] = <<mframe>>
            BY <5>2, <5>3, SMTT(60)
          <6>2. ASSUME c \in HttpConn PROVE Len(sent[c]) = 1
            <7>1. sent[c] \in Seq(Cmd)
              BY DEF TypeInv, TypeOK, ConnTypeOK
            <7>2. Len(sent[c]) \in Nat /\ Len(sent[c]) # 0
              BY <5>1, <7>1, EmptySeq, LenProperties
            <7>3. Len(sent[c]) <= 1
              BY <1>1, <6>2 DEF ClientOK
            <7>4. \A x \in Nat : x # 0 /\ x <= 1 => x = 1
              BY SMTT(60)
            <7> QED BY <7>2, <7>3, <7>4
          <6>3. c \in HttpConn => got'[c][1].cmd = sent[c][1]
            BY <2>3, <5>1, <6>1, <6>2, SMTT(60)
          <6> QED BY <1>1, <2>1, <2>6, <4>3, <5>1, <6>3, SMTT(60) DEF ClientOK
        <5>4. CASE got[c] # <<>>
          <6>1. got'[c][1] = got[c][1]
            <7>1. 1 \in DOMAIN got[c]
              BY <5>2, <5>4, Tailed
            <7> QED BY <5>2, <7>1, Appended, SMTT(60)
          <6> QED BY <1>1, <2>1, <2>6, <4>3, <5>1, <5>4, <6>1, SMTT(60) DEF ClientOK
        <5> QED BY <5>3, <5>4
      <4> QED BY <4>1, <4>2, <4>3
    <3> QED BY <1>1, <2>4, <2>6, <3>1, <3>2, <3>3 DEF SerialInv, OneUnderWay, ClientsOK
  <2>7. ASSUME NEW d \in Conn, cli[d] \in {"fin", "rst"}, cli' = [cli EXCEPT ![d] = "eof"],
               UNCHANGED <<got, up>>
        PROVE  SerialInv'
    <3>1. OneBusy'
      BY <1>0, <1>1, <2>7 DEF OneBusy, Busy
    <3>2. ClientsOK'
      BY <1>0, <1>1, <2>1, <2>7 DEF ClientsOK, ClientOK
    <3> QED BY <1>1, <2>4, <2>7, <3>1, <3>2 DEF SerialInv, OneUnderWay
  <2> QED BY <1>1, <1>7, <2>5, <2>6, <2>7 DEF send_reply, Holder
<1> QED BY <1>4, <1>5, <1>6, <1>7 DEF MonitorThread

(* A step of a node: of what it may send, only answers are left.             *)
LEMMA NodeSerial ==
  ASSUME AnswersOnly, TypeInv, SerialInv, NEW n \in Node, SensorNode(n)
  PROVE  SerialInv'
<1>0. /\ rx \in Seq(Frame) /\ heard \in [Node -> Seq(Cmd)] /\ nans \in [Node -> Nat]
  BY DEF TypeInv, TypeOK, MeshTypeOK
<1>1. /\ nans[n] < Len(heard[n]) /\ nans' = [nans EXCEPT ![n] = @ + 1]
      /\ LET cmd == heard[n][nans[n] + 1] IN Transmit(n, cmd, cmd.type)
  BY DEF SensorNode, Answer, Repeat, Report, AnswersOnly
<1>2. /\ rx' = Append(rx, NodeFrame(n, heard[n][nans[n] + 1], heard[n][nans[n] + 1].type))
      /\ UNCHANGED <<up, connVars, wev, estep, eframe, frame_queue, mstep, mframe, heard>>
  BY <1>1 DEF Transmit, eventVars, writeVars, sharedVars, monVars
<1>3. nans[n] # Len(heard[n])
  BY <1>0, <1>1, SMTT(60)
<1>4. PICK c \in Conn, cmd \in Cmd : OnlyAt("node", c, cmd) /\ Awaited(c, cmd)
  BY <1>3 DEF SerialInv, OneUnderWay, Quiet, OnlyAt, AtNode
<1>5. /\ nans[n] + 1 = Len(heard[n]) /\ heard[n][Len(heard[n])] = cmd
      /\ \A m \in Node \ {n} : nans[m] = Len(heard[m])
      /\ rx = <<>>
  BY <1>3, <1>4 DEF OnlyAt, AtNode, InRadio
<1>6. AtNode(FALSE, cmd)'
  BY <1>0, <1>1, <1>2, <1>5 DEF AtNode
<1>7. InRadio(TRUE, cmd)'
  <2>1. rx' = <<NodeFrame(n, cmd, cmd.type)>>
    BY <1>2, <1>5, SMTT(60)
  <2> QED BY <2>1 DEF InRadio, NodeFrame
<1>8. /\ InSocket(FALSE, c, cmd)' /\ InWriteEv(FALSE, c, cmd)' /\ InOnWrite(FALSE, cmd)'
      /\ InQueue(FALSE, cmd)' /\ InSend(FALSE, cmd)' /\ Awaited(c, cmd)'
  BY <1>2, <1>4 DEF OnlyAt, InSocket, InWriteEv, InOnWrite, InQueue, InSend, Awaited, connVars
<1>9. OnlyAt("radio", c, cmd)'
  BY <1>6, <1>7, <1>8 DEF OnlyAt
<1>10. OneUnderWay'
  BY <1>8, <1>9 DEF OneUnderWay, Places
<1> QED BY <1>2, <1>10, ClientsKeep DEF SerialInv, connVars

LEMMA SerialStep ==
  ASSUME TakingTurns, AnswersOnly, TypeInv, SerialInv, [Next]_vars
  PROVE  SerialInv'
<1>1. CASE UNCHANGED vars
  <2>1. /\ UNCHANGED <<up, cli, life, sent, inbuf, got, nread>>
        /\ UNCHANGED <<wev, estep, eframe, frame_queue, nans, heard, rx, mstep, mframe>>
    BY <1>1 DEF vars, connVars, eventVars, writeVars, sharedVars, monVars, meshVars
  <2>2. \A p, c, cmd : OnlyAt(p, c, cmd) => OnlyAt(p, c, cmd)'
    BY <2>1, PlacesKeep
  <2>3. OneUnderWay'
    BY <2>1, <2>2, ClientsKeep DEF SerialInv, OneUnderWay, Quiet
  <2> QED BY <2>1, <2>3, ClientsKeep DEF SerialInv
<1> QED BY <1>1, ClientSerial, EventSerial, MonitorSerial, NodeSerial DEF Next

LEMMA SerialInvariant ==
  ASSUME TakingTurns, AnswersOnly
  PROVE  Spec => []SerialInv
  BY SerialInit, SerialStep, TypeInvariant, PTL DEF Spec

(* When hack_http.cpp's clients are alone, nodes answer once and nobody      *)
(* times out, what send_message takes for the answer is the node's answer to *)
(* its own request, however descriptors, routes and addresses are reused.    *)
THEOREM AnswersAreOwn ==
  ASSUME TakingTurns, AnswersOnly
  PROVE  Spec => []AnswerIsOwn
<1>1. TypeInv /\ SerialInv => AnswerIsOwn
  <2> SUFFICES ASSUME TypeInv, SerialInv, NEW c \in HttpConn, nread[c] > 0
               PROVE  got[c][1].cmd = sent[c][1]
    BY DEF AnswerIsOwn
  <2>1. c \in Conn /\ ClientOK(c) /\ got[c] \in Seq(Frame) /\ nread[c] \in Nat
    BY GatewayAssumption DEF SerialInv, ClientsOK, TypeInv, TypeOK, ConnTypeOK
  <2>2. Len(got[c]) > 0 /\ nread[c] # 0
    BY <2>1, LenProperties, SMTT(60) DEF ClientOK
  <2>3. got[c] # <<>>
    BY <2>2, EmptySeq, SMTT(60)
  <2> QED BY <2>1, <2>2, <2>3 DEF ClientOK
<1> QED BY <1>1, SerialInvariant, TypeInvariant, PTL

(* Where write_ev is set and where it is freed.                              *)
LEMMA WriteEvSteps ==
  ASSUME TypeInv, SerialInv, Next, NEW c \in Conn
  PROVE  /\ wev'[c] \notin {NoCmd, wev[c]} => wev[c] = NoCmd
         /\ life[c] = "open" /\ life'[c] = "closed" => wev[c] = NoCmd
<1>0. wev \in [Conn -> Cmd \cup {NoCmd}] /\ life \in [Conn -> {"new", "queued", "open", "closed"}]
  BY DEF TypeInv, TypeOK, ConnTypeOK, EventTypeOK
<1>1. ASSUME NEW d \in Conn, on_read(d), ReadRequest(d) PROVE wev[c] = NoCmd
  BY <1>1, UnreadIsUnderWay DEF ReadRequest, OnlyAt, InWriteEv
<1>2. ASSUME NEW d \in Conn, on_read(d), ReadError(d) PROVE FALSE
  BY <1>2 DEF ReadError, SerialInv, ClientsOK, ClientOK
<1>3. ASSUME NEW d \in Conn, on_read(d), release_sock_event(d)
      PROVE  UNCHANGED wev /\ wev[d] = NoCmd /\ life' = [life EXCEPT ![d] = "closed"]
  BY <1>3, WritingIsUnderWay DEF release_sock_event, Awaited
<1>4. ASSUME NEW d \in Conn, on_write(d) PROVE wev' = [wev EXCEPT ![d] = NoCmd] /\ UNCHANGED life
  BY <1>4 DEF on_write, WriteEvAfter, connVars
<1>5. ASSUME NEW d \in Conn, on_accept(d)
      PROVE  UNCHANGED wev /\ (UNCHANGED life \/ life' = [life EXCEPT ![d] = "open"])
  BY <1>5 DEF on_accept
<1>6. Poll \/ push_frame_queue \/ store_sockt_fd => UNCHANGED <<wev, life>>
  BY DEF Poll, push_frame_queue, store_sockt_fd, connVars, eventVars
<1>7. MonitorThread => UNCHANGED <<wev, life>>
  BY DEF MonitorThread, mesh_update, mesh_DHCP, drain, send_reply, connVars, eventVars
<1>8. ASSUME NEW n \in Node, SensorNode(n) PROVE UNCHANGED <<wev, life>>
  BY <1>8 DEF SensorNode, Answer, Repeat, Report, Transmit, connVars, eventVars
<1>9. ASSUME NEW d \in Conn, Client(d)
      PROVE  UNCHANGED wev /\ (UNCHANGED life \/ life' = [life EXCEPT ![d] = "queued"])
  BY <1>9 DEF Client, Connect, SendRequest, ReceiveAnswer, ReceiveTimeout, CloseClient, LeakSocket, eventVars
<1>10. EventThread =>
         /\ wev'[c] \notin {NoCmd, wev[c]} => wev[c] = NoCmd
         /\ life[c] = "open" /\ life'[c] = "closed" => wev[c] = NoCmd
  <2>1. ASSUME NEW d \in Conn, on_read(d)
        PROVE  /\ wev'[c] \notin {NoCmd, wev[c]} => wev[c] = NoCmd
               /\ life[c] = "open" /\ life'[c] = "closed" => wev[c] = NoCmd
    BY <1>0, <1>1, <1>2, <1>3, <2>1 DEF on_read
  <2> QED BY <1>0, <1>4, <1>5, <1>6, <2>1 DEF EventThread
<1> QED BY <1>0, <1>7, <1>8, <1>9, <1>10 DEF Next

(* For the same clients, or for one test.cpp client alone, on_read applies   *)
(* event_set only to a write_ev that libevent does not hold, as event_assign *)
(* demands.                                                                  *)
THEOREM AssignsOnlyIdle ==
  ASSUME TakingTurns, AnswersOnly
  PROVE  Spec => AssignOnlyIdle
<1>1. TypeInv /\ SerialInv /\ [Next]_vars
        => [\A c \in Conn : wev'[c] \notin {NoCmd, wev[c]} => wev[c] = NoCmd]_vars
  BY WriteEvSteps
<1> QED BY <1>1, SerialInvariant, TypeInvariant, PTL DEF Spec, AssignOnlyIdle

(* And release_sock_event frees only such a write_ev, although it does not   *)
(* look.                                                                     *)
THEOREM ReleasesOnlyIdle ==
  ASSUME TakingTurns, AnswersOnly
  PROVE  Spec => ReleaseOnlyIdle
<1>1. TypeInv /\ SerialInv /\ [Next]_vars
        => [\A c \in Conn : life[c] = "open" /\ life'[c] = "closed" => wev[c] = NoCmd]_vars
  BY WriteEvSteps
<1> QED BY <1>1, SerialInvariant, TypeInvariant, PTL DEF Spec, ReleaseOnlyIdle

(* So the process is never left with corrupted lists or heap: without the    *)
(* hypotheses the run gateway_contract shows how two clients of one node     *)
(* bring it there.                                                           *)
THEOREM NeverCorrupt ==
  ASSUME TakingTurns, AnswersOnly
  PROVE  Spec => [](up # "corrupt")
<1>1. SerialInv => up # "corrupt"
  BY DEF SerialInv
<1> QED BY <1>1, SerialInvariant, PTL
=============================================================================
