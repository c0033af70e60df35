------------------------ MODULE GatewayCommandProofs ------------------------
(***************************************************************************)
(* The order of the commands that go from the clients down to the nodes.     *)
(* The inductive invariant follows a command through the five places it can *)
(* be in: the socket, write_ev, on_write's frame, frame_queue and the node.  *)
(***************************************************************************)
EXTENDS GatewayProofs

(* Commands on their way down, stage by stage.                               *)
Heard == UNION {{heard[n][i] : i \in DOMAIN heard[n]} : n \in Node}
Queued == {frame_queue[i].cmd : i \in {j \in DOMAIN frame_queue : frame_queue[j].from = 0}}
Pushing == {f.cmd : f \in {g \in {eframe} : estep \in {"push", "lost"}}}
Writing == {wev[c] : c \in {d \in Conn : wev[d] # NoCmd}}
Unread == UNION {{inbuf[c][i] : i \in DOMAIN inbuf[c]} : c \in Conn}

(* x was sent before y, if both come from the same client at all.            *)
Before(x, y) == x.conn = y.conn /\ x.k > 0 /\ y.k > 0 => x.k < y.k
AllBefore(S, T) == \A x \in S, y \in T : Before(x, y)

FromClient(x) == x.k \in DOMAIN sent[x.conn] /\ sent[x.conn][x.k] = x
Genuine(x) == FromClient(x) \/ (x.k = 0 /\ x.type = "X")

Senders ==
  \A c \in Conn :
    /\ \A i \in DOMAIN sent[c] : sent[c][i].conn = c /\ sent[c][i].k = i
    /\ \A i \in DOMAIN inbuf[c] : inbuf[c][i].conn = c
    /\ wev[c] # NoCmd => wev[c].conn = c

Stages ==
  /\ AllBefore(Heard, Queued) /\ AllBefore(Heard, Pushing)
  /\ AllBefore(Heard, Writing) /\ AllBefore(Heard, Unread)
  /\ AllBefore(Queued, Pushing) /\ AllBefore(Queued, Writing) /\ AllBefore(Queued, Unread)
  /\ AllBefore(Pushing, Writing) /\ AllBefore(Pushing, Unread)
  /\ AllBefore(Writing, Unread)

QueueSorted ==
  \A i, j \in DOMAIN frame_queue :
    i < j /\ frame_queue[i].from = 0 /\ frame_queue[j].from = 0
      => Before(frame_queue[i].cmd, frame_queue[j].cmd)

HeardSorted ==
  \A n \in Node : \A i, j \in DOMAIN heard[n] : i < j => Before(heard[n][i], heard[n][j])

DownInv ==
  /\ Senders
  /\ \A x \in Heard : FromClient(x)
  /\ \A x \in Queued \cup Pushing \cup Writing \cup Unread : Genuine(x)
  /\ Stages /\ QueueSorted /\ HeardSorted

downVars == <<sent, inbuf, wev, estep, eframe, frame_queue, heard>>

\* Zenon is the default prover; steps with arithmetic name the SMT solver.
USE ZenonT(60)

LEMMA DownInit == Init => DownInv
<1> SUFFICES ASSUME Init PROVE DownInv
  OBVIOUS
<1>1. /\ \A c \in Conn : sent[c] = <<>> /\ inbuf[c] = <<>> /\ wev[c] = NoCmd
      /\ estep = "loop" /\ frame_queue = <<>> /\ \A n \in Node : heard[n] = <<>>
  BY DEF Init
<1>2. Heard = {} /\ Queued = {} /\ Pushing = {} /\ Writing = {} /\ Unread = {}
  BY <1>1, SMTT(60) DEF Heard, Queued, Pushing, Writing, Unread
<1>3. Senders /\ QueueSorted /\ HeardSorted
  BY <1>1, SMTT(60) DEF Senders, QueueSorted, HeardSorted
<1>4. Stages
  BY <1>2 DEF Stages, AllBefore
<1> QED BY <1>2, <1>3, <1>4 DEF DownInv

(* A stage whose variables do not change keeps its commands.                 *)
LEMMA SameStage ==
  /\ UNCHANGED heard => Heard' = Heard
  /\ UNCHANGED frame_queue => Queued' = Queued
  /\ UNCHANGED wev => Writing' = Writing
  /\ UNCHANGED inbuf => Unread' = Unread
<1>1. UNCHANGED heard => Heard' = Heard
  BY SMTT(60) DEF Heard
<1>2. UNCHANGED frame_queue => Queued' = Queued
  BY DEF Queued
<1>3. UNCHANGED wev => Writing' = Writing
  BY DEF Writing
<1>4. UNCHANGED inbuf => Unread' = Unread
  BY SMTT(60) DEF Unread
<1> QED BY <1>1, <1>2, <1>3, <1>4

(* What a node has heard is in the last stage.                               *)
LEMMA InHeard ==
  ASSUME NEW n \in Node, NEW i \in DOMAIN heard[n]
  PROVE  heard[n][i] \in Heard
<1>1. heard[n][i] \in {heard[n][j] : j \in DOMAIN heard[n]}
  OBVIOUS
<1> QED BY <1>1 DEF Heard

LEMMA DownRest ==
  ASSUME DownInv, UNCHANGED downVars
  PROVE  DownInv'
<1>1. UNCHANGED <<Heard, Queued, Pushing, Writing, Unread>>
  BY SameStage DEF downVars, Pushing
<1>2. Stages'
  BY <1>1 DEF DownInv, Stages, AllBefore, Before
<1>3. Senders' /\ QueueSorted' /\ HeardSorted'
  BY DEF downVars, DownInv, Senders, QueueSorted, HeardSorted, Before
<1>4. \A x \in Heard' : FromClient(x)'
  BY <1>1 DEF DownInv, downVars, FromClient
<1>5. \A x \in (Queued \cup Pushing \cup Writing \cup Unread)' : Genuine(x)'
  BY <1>1 DEF DownInv, downVars, Genuine, FromClient
<1> QED BY <1>2, <1>3, <1>4, <1>5 DEF DownInv

(* Every stage holds commands.                                               *)
LEMMA StageTypes ==
  ASSUME TypeInv
  PROVE  /\ Heard \subseteq Cmd /\ Queued \subseteq Cmd /\ Pushing \subseteq Cmd
         /\ Writing \subseteq Cmd /\ Unread \subseteq Cmd
<1>1. Heard \subseteq Cmd
  <2>1. ASSUME NEW n \in Node, NEW i \in DOMAIN heard[n] PROVE heard[n][i] \in Cmd
    BY <2>1, ElementOfSeq, SMTT(60) DEF TypeInv, TypeOK, MeshTypeOK
  <2> QED BY <2>1, SMTT(60) DEF Heard
<1>2. Queued \subseteq Cmd
  BY DEF Queued, TypeInv, WellFormed, CommandFrame
<1>3. Pushing \subseteq Cmd
  BY DEF Pushing, TypeInv, WellFormed, CommandFrame
<1>4. Writing \subseteq Cmd
  BY DEF Writing, TypeInv, TypeOK, EventTypeOK
<1>5. Unread \subseteq Cmd
  <2>1. ASSUME NEW c \in Conn, NEW i \in DOMAIN inbuf[c] PROVE inbuf[c][i] \in Cmd
    BY <2>1, ElementOfSeq, SMTT(60) DEF TypeInv, TypeOK, ConnTypeOK
  <2> QED BY <2>1, SMTT(60) DEF Unread
<1> QED BY <1>1, <1>2, <1>3, <1>4, <1>5

-----------------------------------------------------------------------------
(* A new request comes after everything its client has sent so far.          *)
LEMMA SendRequestOrder ==
  ASSUME TypeInv, DownInv, NEW c \in Conn, NEW n \in Target[c], NEW t \in ReqType,
         SendRequest(c, n, t)
  PROVE  DownInv'
<1> USE GatewayAssumption
<1>0. PICK cmd : cmd = [conn |-> c, k |-> Len(sent[c]) + 1, node |-> n, type |-> t]
  OBVIOUS
<1>1. /\ sent' = [sent EXCEPT ![c] = Append(@, cmd)]
      /\ inbuf' = [inbuf EXCEPT ![c] = Append(@, cmd)]
      /\ UNCHANGED <<wev, estep, eframe, frame_queue, heard>>
  BY <1>0 DEF SendRequest, eventVars, writeVars, sharedVars, meshVars
<1>2. cmd.conn = c /\ cmd.k = Len(sent[c]) + 1
  BY <1>0
<1>3. /\ sent \in [Conn -> Seq(Cmd)] /\ inbuf \in [Conn -> Seq(Cmd)]
      /\ sent[c] \in Seq(Cmd) /\ inbuf[c] \in Seq(Cmd) /\ Len(sent[c]) \in Nat
  BY SMTT(60) DEF TypeInv, TypeOK, ConnTypeOK
<1>4. /\ DOMAIN sent'[c] = 1 .. Len(sent[c]) + 1 /\ sent'[c][Len(sent[c]) + 1] = cmd
      /\ \A i \in DOMAIN sent[c] : sent'[c][i] = sent[c][i]
      /\ DOMAIN sent[c] = 1 .. Len(sent[c])
      /\ \A d \in Conn : d # c => sent'[d] = sent[d]
  BY <1>1, <1>3, AppendProperties, SMTT(60)
<1>5. /\ DOMAIN inbuf'[c] = 1 .. Len(inbuf[c]) + 1 /\ inbuf'[c][Len(inbuf[c]) + 1] = cmd
      /\ \A i \in DOMAIN inbuf[c] : inbuf'[c][i] = inbuf[c][i]
      /\ DOMAIN inbuf[c] = 1 .. Len(inbuf[c]) /\ Len(inbuf[c]) \in Nat
      /\ \A d \in Conn : d # c => inbuf'[d] = inbuf[d]
  BY <1>1, <1>3, AppendProperties, SMTT(60)
<1>6. UNCHANGED <<Heard, Queued, Pushing, Writing>>
  BY <1>1, SameStage DEF Pushing
<1>7. Unread' \subseteq Unread \cup {cmd}
  <2>1. ASSUME NEW d \in Conn, NEW i \in DOMAIN inbuf'[d] PROVE inbuf'[d][i] \in Unread \cup {cmd}
    <3>1. CASE d # c
      BY <1>5, <2>1, <3>1, SMTT(60) DEF Unread
    <3>2. CASE d = c /\ i = Len(inbuf[c]) + 1
      BY <1>5, <3>2
    <3>3. CASE d = c /\ i # Len(inbuf[c]) + 1
      <4>1. i \in DOMAIN inbuf[c]
        BY <1>5, <2>1, <3>3, SMTT(60)
      <4> QED BY <1>5, <3>3, <4>1, SMTT(60) DEF Unread
    <3> QED BY <3>1, <3>2, <3>3
  <2> QED BY <2>1, SMTT(60) DEF Unread
<1>8. ASSUME NEW x \in Cmd, FromClient(x) PROVE FromClient(x)' /\ Before(x, cmd)
  <2>1. x.conn \in Conn /\ x.k \in Nat /\ x.k \in DOMAIN sent[x.conn] /\ sent[x.conn][x.k] = x
    BY <1>8 DEF Cmd, FromClient
  <2>2. CASE x.conn # c
    BY <1>2, <1>4, <2>1, <2>2 DEF FromClient, Before
  <2>3. CASE x.conn = c
    <3>1. x.k \in DOMAIN sent[c] /\ sent[c][x.k] = x
      BY <2>1, <2>3
    <3>2. x.k \in DOMAIN sent'[c] /\ sent'[c][x.k] = x /\ x.k < Len(sent[c]) + 1
      BY <1>3, <1>4, <3>1, SMTT(60)
    <3> QED BY <1>2, <2>3, <3>2, SMTT(60) DEF FromClient, Before
  <2> QED BY <2>2, <2>3
<1>9. ASSUME NEW x \in Cmd, Genuine(x) PROVE Genuine(x)' /\ Before(x, cmd)
  BY <1>8, <1>9 DEF Genuine, Before
<1>10. FromClient(cmd)'
  <2>1. cmd.k \in DOMAIN sent'[c] /\ sent'[c][cmd.k] = cmd
    BY <1>2, <1>3, <1>4, SMTT(60)
  <2> QED BY <1>2, <2>1 DEF FromClient
<1>11. /\ \A x \in Heard : x \in Cmd /\ FromClient(x)
       /\ \A x \in Queued \cup Pushing \cup Writing \cup Unread : x \in Cmd /\ Genuine(x)
  BY StageTypes, SMTT(60) DEF DownInv
<1>12. /\ \A x \in Heard' : FromClient(x)'
       /\ \A x \in (Queued \cup Pushing \cup Writing \cup Unread)' : Genuine(x)'
  BY <1>6, <1>7, <1>8, <1>9, <1>10, <1>11, SMTT(60) DEF Genuine
<1>13. Senders'
  <2>1. ASSUME NEW d \in Conn, NEW i \in DOMAIN sent'[d] PROVE sent'[d][i].conn = d /\ sent'[d][i].k = i
    <3>1. CASE d = c /\ i = Len(sent[c]) + 1
      BY <1>2, <1>4, <3>1
    <3>2. CASE d = c /\ i # Len(sent[c]) + 1
      <4>1. i \in DOMAIN sent[c]
        BY <1>3, <1>4, <2>1, <3>2, SMTT(60)
      <4> QED BY <1>4, <3>2, <4>1, SMTT(60) DEF DownInv, Senders
    <3>3. CASE d # c
      <4>1. sent'[d] = sent[d]
        BY <1>4, <3>3
      <4> QED BY <2>1, <4>1, SMTT(60) DEF DownInv, Senders
    <3> QED BY <3>1, <3>2, <3>3
  <2>2. ASSUME NEW d \in Conn, NEW i \in DOMAIN inbuf'[d] PROVE inbuf'[d][i].conn = d
    <3>1. CASE d = c /\ i = Len(inbuf[c]) + 1
      BY <1>2, <1>5, <3>1
    <3>2. CASE d = c /\ i # Len(inbuf[c]) + 1
      <4>1. i \in DOMAIN inbuf[c]
        BY <1>5, <2>2, <3>2, SMTT(60)
      <4> QED BY <1>5, <3>2, <4>1, SMTT(60) DEF DownInv, Senders
    <3>3. CASE d # c
      <4>1. inbuf'[d] = inbuf[d]
        BY <1>5, <3>3
      <4> QED BY <2>2, <4>1, SMTT(60) DEF DownInv, Senders
    <3> QED BY <3>1, <3>2, <3>3
  <2> QED BY <1>1, <2>1, <2>2 DEF DownInv, Senders
<1>14. Stages'
  <2>1. \A x \in Heard \cup Queued \cup Pushing \cup Writing : Before(x, cmd)
    BY <1>8, <1>9, <1>11, SMTT(60)
  <2>2. AllBefore(Heard, Unread') /\ AllBefore(Queued, Unread') /\ AllBefore(Pushing, Unread') /\ AllBefore(Writing, Unread')
    BY <1>7, <2>1, SMTT(60) DEF DownInv, Stages, AllBefore
  <2> QED BY <1>6, <2>2 DEF DownInv, Stages, AllBefore, Before
<1>15. QueueSorted' /\ HeardSorted'
  BY <1>1 DEF DownInv, QueueSorted, HeardSorted, Before
<1> QED BY <1>12, <1>13, <1>14, <1>15 DEF DownInv

(* recv() moves the oldest request of a connection to write_ev and leaves    *)
(* none behind; a failed recv() leaves a buffer without a request.           *)
LEMMA OnReadOrder ==
  ASSUME TypeInv, DownInv, NEW c \in Conn, on_read(c)
  PROVE  DownInv'
<1>1. UNCHANGED <<sent, estep, eframe, frame_queue, heard>>
  BY DEF on_read, writeVars, sharedVars, meshVars
<1>2. CASE release_sock_event(c)
  BY <1>1, <1>2, DownRest DEF release_sock_event, downVars
<1>3. ASSUME NEW x \in Cmd, wev' = [wev EXCEPT ![c] = x], x.conn = c, Genuine(x),
             Unread' \subseteq Unread,
             x.k = 0 \/ (x \in Unread /\ \A y \in Unread' : y.conn # c),
             \A d \in Conn : \A i \in DOMAIN inbuf'[d] : inbuf'[d][i].conn = d
      PROVE  DownInv'
  <2>1. UNCHANGED <<Heard, Queued, Pushing>>
    BY <1>1, SameStage DEF Pushing
  <2>2. Writing' \subseteq Writing \cup {x}
    BY <1>3 DEF Writing, TypeInv, TypeOK, EventTypeOK
  <2>3. /\ \A z \in Heard' : FromClient(z)'
        /\ \A z \in (Queued \cup Pushing \cup Writing \cup Unread)' : Genuine(z)'
    <3>1. \A z : (FromClient(z)' <=> FromClient(z)) /\ (Genuine(z)' <=> Genuine(z))
      BY <1>1 DEF FromClient, Genuine
    <3>2. (Queued \cup Pushing \cup Writing \cup Unread)'
            \subseteq (Queued \cup Pushing \cup Writing \cup Unread) \cup {x}
      BY <1>3, <2>1, <2>2
    <3>3. \A z \in Queued \cup Pushing \cup Writing \cup Unread : Genuine(z)
      BY DEF DownInv
    <3>4. \A z \in Heard' : FromClient(z)
      BY <2>1 DEF DownInv
    <3>5. \A z \in (Queued \cup Pushing \cup Writing \cup Unread)' : Genuine(z)
      BY <1>3, <3>2, <3>3
    <3> QED BY <3>1, <3>4, <3>5
  <2>4. Senders'
    <3>1. \A d \in Conn : wev'[d] # NoCmd => wev'[d].conn = d
      BY <1>3, SMTT(60) DEF DownInv, Senders, TypeInv, TypeOK, EventTypeOK
    <3> QED BY <1>1, <1>3, <3>1 DEF DownInv, Senders
  <2>5. /\ \A z \in Heard \cup Queued \cup Pushing : Before(z, x)
        /\ \A z \in Unread' : Before(x, z)
    <3>1. CASE x.k = 0
      BY <3>1, SMTT(60) DEF Before
    <3>2. CASE x \in Unread /\ \A y \in Unread' : y.conn # c
      BY <1>3, <3>2 DEF Before, DownInv, Stages, AllBefore
    <3> QED BY <1>3, <3>1, <3>2
  <2>6. /\ AllBefore(Heard, Writing') /\ AllBefore(Queued, Writing') /\ AllBefore(Pushing, Writing')
        /\ AllBefore(Writing', Unread')
        /\ AllBefore(Heard, Unread') /\ AllBefore(Queued, Unread') /\ AllBefore(Pushing, Unread')
    BY <1>3, <2>2, <2>5 DEF DownInv, Stages, AllBefore
  <2>7. Stages'
    BY <2>1, <2>6 DEF DownInv, Stages, AllBefore, Before
  <2>8. QueueSorted' /\ HeardSorted'
    BY <1>1 DEF DownInv, QueueSorted, HeardSorted, Before
  <2> QED BY <2>3, <2>4, <2>7, <2>8 DEF DownInv
<1>4. CASE ReadRequest(c)
  <2>0. PICK x : x = Head(inbuf[c])
    OBVIOUS
  <2>1. /\ inbuf[c] # <<>> /\ inbuf[c] \in Seq(Cmd)
        /\ wev' = [wev EXCEPT ![c] = x] /\ inbuf' = [inbuf EXCEPT ![c] = <<>>]
    BY <1>4, <2>0 DEF ReadRequest, LeftAfterRecv, TypeInv, TypeOK, ConnTypeOK
  <2>2. x = inbuf[c][1] /\ 1 \in DOMAIN inbuf[c] /\ x \in Cmd
    BY <2>0, <2>1, HeadTailProperties, SMTT(60)
  <2>3. x \in Unread /\ x.conn = c /\ Genuine(x)
    BY <2>2, SMTT(60) DEF Unread, DownInv, Senders
  <2>4. ASSUME NEW d \in Conn, NEW i \in DOMAIN inbuf'[d] 
        PROVE  /\ d # c /\ i \in DOMAIN inbuf[d] /\ inbuf'[d][i] = inbuf[d][i]
               /\ inbuf'[d][i].conn = d
    <3>1. d # c /\ inbuf'[d] = inbuf[d]
      BY <2>1, <2>4, SMTT(60) DEF TypeInv, TypeOK, ConnTypeOK
    <3> QED BY <2>4, <3>1 DEF DownInv, Senders
  <2>5. Unread' \subseteq Unread /\ \A y \in Unread' : y.conn # c
    BY <2>4, SMTT(60) DEF Unread
  <2>6. \A d \in Conn : \A i \in DOMAIN inbuf'[d] : inbuf'[d][i].conn = d
    BY <2>4
  <2>7. wev' = [wev EXCEPT ![c] = x] /\ x \in Cmd
    BY <2>1, <2>2
  <2> QED BY <1>3, <2>3, <2>5, <2>6, <2>7
<1>5. CASE ReadError(c)
  <2>1. wev' = [wev EXCEPT ![c] = ZeroCmd(c)] /\ inbuf' = inbuf
    BY <1>5 DEF ReadError
  <2>2. PICK x \in Cmd : x = ZeroCmd(c)
    BY ZeroCmdTyped
  <2>3. x.conn = c /\ x.k = 0 /\ x.type = "X"
    BY <2>2 DEF ZeroCmd
  <2>4. Genuine(x)
    BY <2>3 DEF Genuine
  <2>5. \A d \in Conn : \A i \in DOMAIN inbuf'[d] : inbuf'[d][i].conn = d
    BY <2>1 DEF DownInv, Senders
  <2>6. Unread' \subseteq Unread
    BY <2>1, SameStage
  <2>7. wev' = [wev EXCEPT ![c] = x]
    BY <2>1, <2>2
  <2> QED BY <1>3, <2>3, <2>4, <2>5, <2>6, <2>7
<1> QED BY <1>2, <1>4, <1>5 DEF on_read

(* on_write takes the argument of write_ev into its frame.                   *)
LEMMA OnWriteOrder ==
  ASSUME TypeInv, DownInv, NEW c \in Conn, on_write(c)
  PROVE  DownInv'
<1>0. PICK x : x = wev[c]
  OBVIOUS
<1>1. /\ <<c, "write">> \in active /\ estep = "loop"
      /\ wev' = [wev EXCEPT ![c] = NoCmd] /\ eframe' = RequestFrame(x)
      /\ UNCHANGED <<sent, inbuf, frame_queue, heard>>
  BY <1>0 DEF on_write, Dispatch, WriteEvAfter, connVars, sharedVars, meshVars
<1>2. wev \in [Conn -> Cmd \cup {NoCmd}] /\ x # NoCmd /\ x \in Writing
  BY <1>0, <1>1 DEF TypeInv, TypeOK, EventTypeOK, WellFormed, Writing
<1>3. UNCHANGED <<Heard, Queued, Unread>>
  BY <1>1, SameStage
<1>4. Writing' \subseteq Writing /\ \A y \in Writing' : y.conn # c
  <2>1. ASSUME NEW d \in Conn, wev'[d] # NoCmd PROVE d # c /\ wev'[d] = wev[d] /\ wev[d].conn = d
    BY <1>1, <1>2, <2>1 DEF DownInv, Senders
  <2> QED BY <2>1, SMTT(60) DEF Writing
<1>5. Pushing' \subseteq {x} /\ x.conn = c
  BY <1>0, <1>1, <1>2, SMTT(60) DEF Pushing, RequestFrame, DownInv, Senders
<1>6. /\ AllBefore(Heard, Pushing') /\ AllBefore(Queued, Pushing') /\ AllBefore(Pushing', Unread)
      /\ AllBefore(Pushing', Writing') /\ AllBefore(Heard, Writing') /\ AllBefore(Queued, Writing')
      /\ AllBefore(Writing', Unread)
  BY <1>2, <1>4, <1>5 DEF DownInv, Stages, AllBefore, Before
<1>7. Stages'
  BY <1>3, <1>6 DEF DownInv, Stages, AllBefore, Before
<1>8. \A z : (FromClient(z)' <=> FromClient(z)) /\ (Genuine(z)' <=> Genuine(z))
  BY <1>1 DEF FromClient, Genuine
<1>9. /\ \A z \in Heard' : FromClient(z)'
      /\ \A z \in (Queued \cup Pushing \cup Writing \cup Unread)' : Genuine(z)'
  BY <1>2, <1>3, <1>4, <1>5, <1>8 DEF DownInv
<1>10. Senders' /\ QueueSorted' /\ HeardSorted'
  BY <1>1, <1>2 DEF DownInv, Senders, QueueSorted, HeardSorted, Before
<1> QED BY <1>7, <1>9, <1>10 DEF DownInv

(* An append to frame_queue keeps the commands in it in order when the new   *)
(* frame is a node's, or carries a command later than all of them.           *)
LEMMA AppendOrder ==
  ASSUME TypeInv, DownInv, NEW f \in Frame, frame_queue' = Append(frame_queue, f),
         f.from = 0 => \A x \in Queued : Before(x, f.cmd)
  PROVE  /\ QueueSorted'
         /\ Queued' \subseteq Queued \cup (IF f.from = 0 THEN {f.cmd} ELSE {})
<1>1. frame_queue \in Seq(Frame) /\ Len(frame_queue) \in Nat
  BY SMTT(60) DEF TypeInv, TypeOK, SharedTypeOK
<1>2. /\ DOMAIN frame_queue = 1 .. Len(frame_queue)
      /\ DOMAIN frame_queue' = 1 .. Len(frame_queue) + 1
      /\ frame_queue'[Len(frame_queue) + 1] = f
      /\ \A i \in DOMAIN frame_queue : frame_queue'[i] = frame_queue[i]
  BY <1>1, Appended, SMTT(60)
<1>3. ASSUME NEW i \in DOMAIN frame_queue'
      PROVE  (i \in DOMAIN frame_queue /\ frame_queue'[i] = frame_queue[i])
             \/ (i = Len(frame_queue) + 1 /\ frame_queue'[i] = f)
  BY <1>1, <1>2, SMTT(60)
<1>4. Queued' \subseteq Queued \cup (IF f.from = 0 THEN {f.cmd} ELSE {})
  <2>1. ASSUME NEW i \in DOMAIN frame_queue', frame_queue'[i].from = 0
        PROVE  frame_queue'[i].cmd \in Queued \cup (IF f.from = 0 THEN {f.cmd} ELSE {})
    BY <1>3, <2>1 DEF Queued
  <2> QED BY <2>1, SMTT(60) DEF Queued
<1>5. ASSUME NEW i \in DOMAIN frame_queue', NEW j \in DOMAIN frame_queue', i < j,
             frame_queue'[i].from = 0, frame_queue'[j].from = 0
      PROVE  Before(frame_queue'[i].cmd, frame_queue'[j].cmd)
  <2>1. i \in DOMAIN frame_queue /\ frame_queue'[i] = frame_queue[i]
    BY <1>1, <1>2, <1>5, SMTT(60)
  <2>2. frame_queue[i].cmd \in Queued
    BY <1>5, <2>1 DEF Queued
  <2>3. CASE j \in DOMAIN frame_queue /\ frame_queue'[j] = frame_queue[j]
    BY <1>5, <2>1, <2>3 DEF DownInv, QueueSorted
  <2>4. CASE frame_queue'[j] = f
    BY <1>5, <2>1, <2>2, <2>4
  <2> QED BY <1>3, <2>3, <2>4
<1> QED BY <1>4, <1>5 DEF QueueSorted, Before

(* The push, and the reply route stored after it.                            *)
LEMMA PushOrder ==
  ASSUME TypeInv, DownInv, push_frame_queue
  PROVE  DownInv'
<1>0. PICK f : f = eframe
  OBVIOUS
<1>1. /\ frame_queue' = IF estep = "push" THEN Append(frame_queue, f) ELSE frame_queue
      /\ estep \in {"push", "lost"} /\ estep' = "store"
      /\ UNCHANGED <<sent, inbuf, wev, eframe, heard>>
  BY <1>0 DEF push_frame_queue, connVars, eventVars, meshVars
<1>2. f \in Frame /\ f.from = 0 /\ f.cmd \in Pushing
  BY <1>0, <1>1 DEF TypeInv, WellFormed, CommandFrame, Pushing
<1>3. UNCHANGED <<Heard, Writing, Unread>> /\ Pushing' = {}
  <2>1. Pushing' = {}
    BY <1>1 DEF Pushing
  <2> QED BY <1>1, <2>1, SameStage
<1>4. \A x \in Queued : Before(x, f.cmd)
  BY <1>2 DEF DownInv, Stages, AllBefore
<1>5. QueueSorted' /\ Queued' \subseteq Queued \cup {f.cmd}
  <2>1. CASE estep = "push"
    BY <1>1, <1>2, <1>4, <2>1, AppendOrder
  <2>2. CASE estep # "push"
    BY <1>1, <2>2 DEF DownInv, QueueSorted, Queued, Before
  <2> QED BY <2>1, <2>2
<1>6. Stages'
  <2>1. AllBefore(Heard, Queued') /\ AllBefore(Queued', Writing) /\ AllBefore(Queued', Unread)
    BY <1>2, <1>5 DEF DownInv, Stages, AllBefore
  <2> QED BY <1>3, <2>1 DEF DownInv, Stages, AllBefore, Before
<1>7. \A z : (FromClient(z)' <=> FromClient(z)) /\ (Genuine(z)' <=> Genuine(z))
  BY <1>1 DEF FromClient, Genuine
<1>8. /\ \A z \in Heard' : FromClient(z)'
      /\ \A z \in (Queued \cup Pushing \cup Writing \cup Unread)' : Genuine(z)'
  BY <1>2, <1>3, <1>5, <1>7 DEF DownInv
<1>9. Senders' /\ HeardSorted'
  BY <1>1 DEF DownInv, Senders, HeardSorted, Before
<1> QED BY <1>5, <1>6, <1>8, <1>9 DEF DownInv

LEMMA StoreOrder ==
  ASSUME DownInv, store_sockt_fd
  PROVE  DownInv'
<1>1. /\ estep = "store" /\ estep' = "loop"
      /\ UNCHANGED <<sent, inbuf, wev, frame_queue, heard>>
  BY DEF store_sockt_fd, connVars, eventVars, meshVars
<1>2. UNCHANGED <<Heard, Queued, Writing, Unread>> /\ Pushing = {} /\ Pushing' = {}
  <2>1. Pushing = {} /\ Pushing' = {}
    BY <1>1 DEF Pushing
  <2> QED BY <1>1, <2>1, SameStage
<1>3. Stages'
  BY <1>2 DEF DownInv, Stages, AllBefore, Before
<1>4. \A z : (FromClient(z)' <=> FromClient(z)) /\ (Genuine(z)' <=> Genuine(z))
  BY <1>1 DEF FromClient, Genuine
<1>5. /\ \A z \in Heard' : FromClient(z)'
      /\ \A z \in (Queued \cup Pushing \cup Writing \cup Unread)' : Genuine(z)'
  BY <1>2, <1>4 DEF DownInv
<1>6. Senders' /\ QueueSorted' /\ HeardSorted'
  BY <1>1 DEF DownInv, Senders, QueueSorted, HeardSorted, Before
<1> QED BY <1>3, <1>5, <1>6 DEF DownInv

(* mesh.update() puts frames of nodes between the commands of the queue.     *)
LEMMA UpdateOrder ==
  ASSUME TypeInv, DownInv, mesh_update
  PROVE  DownInv'
<1>0. PICK f : f = Head(rx)
  OBVIOUS
<1>1. /\ \/ frame_queue' = frame_queue
         \/ rx # <<>> /\ frame_queue' = Append(frame_queue, f)
      /\ estep' = estep \/ (estep = "push" /\ estep' = "lost")
      /\ UNCHANGED <<sent, inbuf, wev, eframe, heard>>
  BY <1>0 DEF mesh_update, connVars, eventVars
<1>2. rx # <<>> => f \in Frame /\ f.from # 0
  <2>1. rx \in Seq(Frame) /\ \A i \in DOMAIN rx : rx[i].from # 0
    BY DEF TypeInv, TypeOK, MeshTypeOK, WellFormed
  <2> QED BY <1>0, <2>1, HeadTailProperties, SMTT(60)
<1>3. QueueSorted' /\ Queued' \subseteq Queued
  <2>1. CASE frame_queue' = frame_queue
    BY <2>1 DEF DownInv, QueueSorted, Queued, Before
  <2>2. CASE rx # <<>> /\ frame_queue' = Append(frame_queue, f)
    BY <1>2, <2>2, AppendOrder
  <2> QED BY <1>1, <2>1, <2>2
<1>4. UNCHANGED <<Heard, Pushing, Writing, Unread>>
  <2>1. Pushing' = Pushing
    BY <1>1 DEF Pushing
  <2> QED BY <1>1, <2>1, SameStage
<1>5. Stages'
  <2>1. /\ AllBefore(Heard, Queued') /\ AllBefore(Queued', Pushing)
        /\ AllBefore(Queued', Writing) /\ AllBefore(Queued', Unread)
    BY <1>3 DEF DownInv, Stages, AllBefore
  <2> QED BY <1>4, <2>1 DEF DownInv, Stages, AllBefore, Before
<1>6. \A z : (FromClient(z)' <=> FromClient(z)) /\ (Genuine(z)' <=> Genuine(z))
  BY <1>1 DEF FromClient, Genuine
<1>7. /\ \A z \in Heard' : FromClient(z)'
      /\ \A z \in (Queued \cup Pushing \cup Writing \cup Unread)' : Genuine(z)'
  BY <1>3, <1>4, <1>6 DEF DownInv
<1>8. Senders' /\ HeardSorted'
  BY <1>1 DEF DownInv, Senders, HeardSorted, Before
<1> QED BY <1>3, <1>5, <1>7, <1>8 DEF DownInv

(* Draining hands the oldest command of the queue to a node, or drops it.    *)
LEMMA DrainOrder ==
  ASSUME TypeInv, DownInv, drain
  PROVE  DownInv'
<1>1. UNCHANGED <<sent, inbuf, wev, estep, eframe>>
  BY DEF drain, connVars, eventVars, writeVars
<1>2. CASE frame_queue = <<>>
  BY <1>1, <1>2, DownRest DEF drain, downVars
<1>3. CASE frame_queue # <<>>
  <2>0. PICK f : f = Head(frame_queue)
    OBVIOUS
  <2>1. /\ f \in Frame /\ f = frame_queue[1] /\ frame_queue' = Tail(frame_queue)
        /\ \/ heard' = heard
           \/ /\ CommandFrame(f) /\ f.type # "X"
              /\ \E n \in Node : heard' = [heard EXCEPT ![n] = Append(@, f.cmd)]
    BY <1>3, <2>0, DrainEffect
  <2>2. frame_queue \in Seq(Frame)
    BY DEF TypeInv, TypeOK, SharedTypeOK
  <2>3. /\ 1 \in DOMAIN frame_queue
        /\ \A i \in DOMAIN frame_queue' :
             /\ i \in Nat /\ i + 1 \in DOMAIN frame_queue /\ 1 < i + 1
             /\ frame_queue'[i] = frame_queue[i + 1]
    BY <1>3, <2>1, <2>2, Tailed, SMTT(60)
  <2>4. Queued' \subseteq Queued
    BY <2>3 DEF Queued
  <2>5. QueueSorted'
    <3>1. ASSUME NEW i \in DOMAIN frame_queue', NEW j \in DOMAIN frame_queue', i < j,
                 frame_queue'[i].from = 0, frame_queue'[j].from = 0
          PROVE  Before(frame_queue'[i].cmd, frame_queue'[j].cmd)
      <4>1. i + 1 < j + 1 /\ i + 1 \in DOMAIN frame_queue /\ j + 1 \in DOMAIN frame_queue
        BY <2>3, <3>1, SMTT(60)
      <4> QED BY <2>3, <3>1, <4>1 DEF DownInv, QueueSorted
    <3> QED BY <3>1 DEF QueueSorted, Before
  <2>6. UNCHANGED <<Pushing, Writing, Unread>>
    BY <1>1, SameStage DEF Pushing
  <2>7. \A z : (FromClient(z)' <=> FromClient(z)) /\ (Genuine(z)' <=> Genuine(z))
    BY <1>1 DEF FromClient, Genuine
  <2>8. Senders'
    BY <1>1 DEF DownInv, Senders
  <2>9. /\ HeardSorted' /\ \A z \in Heard' : FromClient(z)
        /\ AllBefore(Heard', Queued') /\ AllBefore(Heard', Pushing)
        /\ AllBefore(Heard', Writing) /\ AllBefore(Heard', Unread)
    <3>1. CASE heard' = heard
      <4>1. Heard' = Heard
        BY <3>1, SMTT(60) DEF Heard
      <4> QED BY <2>4, <3>1, <4>1 DEF DownInv, Stages, AllBefore, HeardSorted, Before
    <3>2. ASSUME NEW n \in Node, CommandFrame(f), f.type # "X",
                 heard' = [heard EXCEPT ![n] = Append(@, f.cmd)]
          PROVE  /\ HeardSorted' /\ \A z \in Heard' : FromClient(z)
                 /\ AllBefore(Heard', Queued') /\ AllBefore(Heard', Pushing)
                 /\ AllBefore(Heard', Writing) /\ AllBefore(Heard', Unread)
      <4>0. PICK x : x = f.cmd
        OBVIOUS
      <4>1. x \in Cmd /\ x.type = f.type /\ x \in Queued
        BY <2>1, <2>3, <3>2, <4>0 DEF CommandFrame, Queued
      <4>2. FromClient(x)
        BY <3>2, <4>1 DEF DownInv, Genuine
      <4>3. /\ \A m \in Node : m # n => heard'[m] = heard[m]
            /\ heard[n] \in Seq(Cmd) /\ heard'[n] = Append(heard[n], x)
        <5>1. heard' = [heard EXCEPT ![n] = Append(@, x)]
          BY <3>2, <4>0
        <5> QED BY <4>1, <5>1, HearOne
      <4>4. /\ DOMAIN heard[n] = 1 .. Len(heard[n]) /\ Len(heard[n]) \in Nat
            /\ DOMAIN heard'[n] = 1 .. Len(heard[n]) + 1
            /\ heard'[n][Len(heard[n]) + 1] = x
            /\ \A i \in DOMAIN heard[n] : heard'[n][i] = heard[n][i]
            /\ \A i \in DOMAIN heard'[n] : i \in DOMAIN heard[n] \/ i = Len(heard[n]) + 1
        BY <4>1, <4>3, Appended, SMTT(60)
      <4>5. \A y \in Heard : Before(y, x)
        BY <4>1 DEF DownInv, Stages, AllBefore
      <4>6. Heard' \subseteq Heard \cup {x}
        <5>1. ASSUME NEW m \in Node, NEW i \in DOMAIN heard'[m] PROVE heard'[m][i] \in Heard \cup {x}
          <6>1. CASE m # n
            BY <4>3, <5>1, <6>1, InHeard
          <6>2. CASE m = n /\ i \in DOMAIN heard[n]
            BY <4>4, <6>2, InHeard
          <6>3. CASE m = n /\ i = Len(heard[n]) + 1
            BY <4>4, <6>3
          <6>4. m = n => i \in DOMAIN heard[n] \/ i = Len(heard[n]) + 1
            BY <4>4, <5>1
          <6> QED BY <6>1, <6>2, <6>3, <6>4
        <5> QED BY <5>1, SMTT(60) DEF Heard
      <4>7. HeardSorted'
        <5>1. ASSUME NEW m \in Node, NEW i \in DOMAIN heard'[m], NEW j \in DOMAIN heard'[m], i < j
              PROVE  Before(heard'[m][i], heard'[m][j])
          <6>1. CASE m # n
            BY <4>3, <5>1, <6>1 DEF DownInv, HeardSorted
          <6>2. CASE m = n
            <7>1. i \in DOMAIN heard[n] /\ heard'[n][i] = heard[n][i] /\ heard[n][i] \in Heard
              <8>1. i \in DOMAIN heard[n]
                BY <4>4, <5>1, <6>2, SMTT(60)
              <8> QED BY <4>4, <8>1, InHeard
            <7>2. CASE j \in DOMAIN heard[n]
              BY <4>4, <5>1, <6>2, <7>1, <7>2 DEF DownInv, HeardSorted
            <7>3. CASE j = Len(heard[n]) + 1
              BY <4>4, <4>5, <6>2, <7>1, <7>3
            <7>4. j \in DOMAIN heard[n] \/ j = Len(heard[n]) + 1
              BY <4>4, <5>1, <6>2
            <7> QED BY <7>2, <7>3, <7>4
          <6> QED BY <6>1, <6>2
        <5> QED BY <5>1 DEF HeardSorted, Before
      <4>8. \A y \in Queued' : Before(x, y)
        <5>1. ASSUME NEW i \in DOMAIN frame_queue', frame_queue'[i].from = 0
              PROVE  Before(x, frame_queue'[i].cmd)
          BY <2>1, <2>3, <3>2, <4>0, <5>1 DEF DownInv, QueueSorted, CommandFrame
        <5> QED BY <5>1 DEF Queued
      <4>9. \A y \in Pushing \cup Writing \cup Unread : Before(x, y)
        BY <4>1 DEF DownInv, Stages, AllBefore
      <4> QED BY <2>4, <4>2, <4>6, <4>7, <4>8, <4>9 DEF DownInv, Stages, AllBefore
    <3> QED BY <2>1, <3>1, <3>2
  <2>10. Stages'
    <3>1. AllBefore(Queued', Pushing) /\ AllBefore(Queued', Writing) /\ AllBefore(Queued', Unread)
      BY <2>4 DEF DownInv, Stages, AllBefore
    <3> QED BY <2>6, <2>9, <3>1 DEF DownInv, Stages, AllBefore, Before
  <2>11. /\ \A z \in Heard' : FromClient(z)'
         /\ \A z \in (Queued \cup Pushing \cup Writing \cup Unread)' : Genuine(z)'
    BY <2>4, <2>6, <2>7, <2>9 DEF DownInv
  <2> QED BY <2>5, <2>8, <2>9, <2>10, <2>11 DEF DownInv
<1> QED BY <1>2, <1>3

LEMMA DownStep ==
  ASSUME TypeInv, DownInv, [Next]_vars
  PROVE  DownInv'
<1> USE DEF vars, connVars, eventVars, writeVars, sharedVars, monVars, meshVars, downVars
<1>1. CASE UNCHANGED vars
  BY <1>1, DownRest
<1>2. CASE EventThread
  <2>1. CASE Poll
    BY <2>1, DownRest DEF Poll
  <2>2. ASSUME NEW c \in Conn, on_accept(c) PROVE DownInv'
    BY <2>2, DownRest DEF on_accept
  <2> QED BY <1>2, <2>1, <2>2, PushOrder, StoreOrder, OnReadOrder, OnWriteOrder DEF EventThread
<1>3. CASE MonitorThread
  <2>1. CASE mesh_DHCP
    BY <2>1, DownRest DEF mesh_DHCP
  <2>2. CASE send_reply
    BY <2>2, DownRest DEF send_reply
  <2> QED BY <1>3, <2>1, <2>2, UpdateOrder, DrainOrder DEF MonitorThread
<1>4. ASSUME NEW c \in Conn, Client(c) PROVE DownInv'
  <2>1. CASE Connect(c) \/ ReceiveAnswer(c) \/ ReceiveTimeout(c) \/ CloseClient(c) \/ LeakSocket(c)
    BY <2>1, DownRest DEF Connect, ReceiveAnswer, ReceiveTimeout, CloseClient, LeakSocket
  <2> QED BY <1>4, <2>1, SendRequestOrder DEF Client
<1>5. ASSUME NEW n \in Node, SensorNode(n) PROVE DownInv'
  BY <1>5, NodeEffect, DownRest
<1> QED BY <1>1, <1>2, <1>3, <1>4, <1>5 DEF Next

LEMMA DownInvariant == Spec => []DownInv
  BY TypeInvariant, DownInit, DownStep, PTL DEF Spec

(* Commands of one client reach a node at most once and in the order they    *)
(* were sent, for any number of clients and requests, whatever frames are    *)
(* lost, raced, repeated or reported and however the threads interleave.     *)
THEOREM CommandsStayInOrder == Spec => []CommandsInOrder
<1>1. TypeInv /\ DownInv => CommandsInOrder
  <2> SUFFICES ASSUME TypeInv, DownInv, NEW n \in Node, NEW i \in DOMAIN heard[n], NEW j \in DOMAIN heard[n],
                      i < j, heard[n][i].conn = heard[n][j].conn
               PROVE  heard[n][i].k < heard[n][j].k
    BY DEF CommandsInOrder
  <2>1. Before(heard[n][i], heard[n][j])
    BY DEF DownInv, HeardSorted
  <2>2. ASSUME NEW l \in DOMAIN heard[n] PROVE heard[n][l].k > 0
    <3>1. heard[n][l] \in Heard /\ heard[n][l] \in Cmd
      BY <2>2, InHeard, StageTypes
    <3>2. heard[n][l].k \in DOMAIN sent[heard[n][l].conn] /\ sent[heard[n][l].conn] \in Seq(Cmd)
      BY <3>1 DEF DownInv, FromClient, Cmd, TypeInv, TypeOK, ConnTypeOK
    <3> QED BY <3>2, SMTT(60)
  <2> QED BY <2>1, <2>2 DEF Before
<1> QED BY <1>1, TypeInvariant, DownInvariant, PTL

(* Nothing but what a client sent is ever transmitted to a node: the buffer  *)
(* of a failed recv() travels through write_ev and frame_queue like a        *)
(* request, and never gets further.                                          *)
THEOREM NodesHearOnlyClients == Spec => []OnlyClientCommands
<1>1. DownInv => OnlyClientCommands
  <2>1. ASSUME DownInv, NEW n \in Node, NEW i \in DOMAIN heard[n] PROVE FromClient(heard[n][i])
    BY <2>1, InHeard DEF DownInv
  <2> QED BY <2>1 DEF OnlyClientCommands, FromClient
<1> QED BY <1>1, DownInvariant, PTL

-----------------------------------------------------------------------------
(* Where commands go as long as no node changes its address.                 *)

(* No two nodes share an address, and a command frame carries the address    *)
(* of the node it names, or none.                                            *)
Addressed(f) == f.from = 0 => f.to \in {NoAddr, getAddress(f.cmd.node)}

RouteInv ==
  /\ \A m, n \in Node : addrList[m] = addrList[n] /\ addrList[n] # NoAddr => m = n
  /\ estep # "loop" => Addressed(eframe)
  /\ \A i \in DOMAIN frame_queue : Addressed(frame_queue[i])
  /\ CommandsReachTheirNode

LEMMA RouteInit == Init => RouteInv
  BY SMTT(60) DEF Init, RouteInv, CommandsReachTheirNode

LEMMA RouteRest ==
  ASSUME RouteInv, UNCHANGED <<addrList, frame_queue, heard>>,
         UNCHANGED <<estep, eframe>> \/ estep' = "loop"
  PROVE  RouteInv'
  BY DEF RouteInv, Addressed, getAddress, CommandsReachTheirNode

LEMMA OnWriteRoute ==
  ASSUME TypeInv, RouteInv, NEW c \in Conn, on_write(c)
  PROVE  RouteInv'
<1>1. eframe' = RequestFrame(wev[c]) /\ UNCHANGED <<addrList, frame_queue, heard>>
  BY DEF on_write, sharedVars, meshVars
<1>2. Addressed(eframe)'
  BY <1>1 DEF RequestFrame, Addressed, getAddress
<1> QED BY <1>1, <1>2 DEF RouteInv, Addressed, getAddress, CommandsReachTheirNode

LEMMA PushRoute ==
  ASSUME TypeInv, RouteInv, push_frame_queue
  PROVE  RouteInv'
<1>1. /\ frame_queue' = IF estep = "push" THEN Append(frame_queue, eframe) ELSE frame_queue
      /\ estep # "loop" /\ UNCHANGED <<addrList, heard, eframe>>
  BY DEF push_frame_queue, meshVars
<1>2. eframe \in Frame /\ frame_queue \in Seq(Frame) /\ Addressed(eframe)
  BY <1>1 DEF RouteInv, TypeInv, TypeOK, SharedTypeOK, WellFormed, CommandFrame
<1>3. \A i \in DOMAIN frame_queue' : Addressed(frame_queue'[i])
  BY <1>1, <1>2, AppendProperties, SMTT(60) DEF RouteInv
<1> QED BY <1>1, <1>2, <1>3 DEF RouteInv, Addressed, getAddress, CommandsReachTheirNode

LEMMA UpdateRoute ==
  ASSUME TypeInv, RouteInv, mesh_update
  PROVE  RouteInv'
<1>1. /\ UNCHANGED <<addrList, heard, eframe>> /\ (estep' # "loop" => estep # "loop")
      /\ \/ frame_queue' = frame_queue
         \/ rx # <<>> /\ frame_queue' = Append(frame_queue, Head(rx))
  BY DEF mesh_update
<1>2. frame_queue \in Seq(Frame) /\ rx \in Seq(Frame) /\ \A i \in DOMAIN rx : rx[i].from # 0
  BY DEF TypeInv, TypeOK, SharedTypeOK, MeshTypeOK, WellFormed
<1>3. rx # <<>> => Head(rx) \in Frame /\ Addressed(Head(rx))
  BY <1>2, HeadTailProperties, SMTT(60) DEF Addressed
<1>4. \A i \in DOMAIN frame_queue' : Addressed(frame_queue'[i])
  <2>1. CASE frame_queue' = frame_queue
    BY <2>1 DEF RouteInv
  <2>2. CASE rx # <<>> /\ frame_queue' = Append(frame_queue, Head(rx))
    BY <1>2, <1>3, <2>2, AppendProperties, SMTT(60) DEF RouteInv
  <2> QED BY <1>1, <2>1, <2>2
<1> QED BY <1>1, <1>4 DEF RouteInv, Addressed, getAddress, CommandsReachTheirNode

(* mesh.DHCP() hands out free addresses only, and without renewals never     *)
(* touches an address some frame may carry.                                  *)
LEMMA DHCPRoute ==
  ASSUME MaxRenew = 0, TypeInv, RouteInv, mesh_DHCP
  PROVE  RouteInv'
<1>1. UNCHANGED <<estep, eframe, frame_queue, heard>>
  BY DEF mesh_DHCP, writeVars
<1>2. CASE UNCHANGED addrList
  BY <1>1, <1>2, RouteRest
<1>3. ASSUME NEW n \in Node, NEW a \in Addr, NodesAt(a) = {}, addrList[n] = NoAddr,
             addrList' = [addrList EXCEPT ![n] = a]
      PROVE  RouteInv'
  <2>1. addrList \in [Node -> Addr \cup {NoAddr}] /\ a # NoAddr
    BY GatewayAssumption, SMTT(60) DEF TypeInv, TypeOK, SharedTypeOK, NoAddr
  <2>2. \A m \in Node : addrList[m] # a
    BY <1>3, <2>1 DEF NodesAt
  <2>3. \A m, l \in Node : addrList'[m] = addrList'[l] /\ addrList'[l] # NoAddr => m = l
    BY <1>3, <2>1, <2>2 DEF RouteInv
  <2>4. ASSUME NEW f, Addressed(f), f.from = 0 => f.cmd \in Cmd PROVE Addressed(f)'
    <3>1. CASE f.from = 0 /\ f.to # NoAddr
      <4>1. f.cmd.node \in NodeId /\ f.to = getAddress(f.cmd.node)
        BY <2>4, <3>1 DEF Addressed, Cmd
      <4>2. f.cmd.node # n
        BY <1>3, <3>1, <4>1, GatewayAssumption, SMTT(60) DEF getAddress
      <4> QED BY <1>3, <2>1, <3>1, <4>1, <4>2 DEF Addressed, getAddress, NodeId
    <3> QED BY <3>1 DEF Addressed
  <2>5. estep # "loop" => Addressed(eframe)'
    BY <1>1, <2>4 DEF RouteInv, TypeInv, WellFormed, CommandFrame, Addressed, getAddress
  <2>6. ASSUME NEW i \in DOMAIN frame_queue PROVE Addressed(frame_queue[i])'
    BY <1>1, <2>4, <2>6 DEF RouteInv, TypeInv, WellFormed, CommandFrame, Addressed, getAddress
  <2> QED BY <1>1, <2>3, <2>5, <2>6 DEF RouteInv, CommandsReachTheirNode
<1>4. ~(renewals < MaxRenew)
  BY SMTT(60) DEF TypeInv, TypeOK, MeshTypeOK
<1> QED BY <1>2, <1>3, <1>4 DEF mesh_DHCP

LEMMA DrainRoute ==
  ASSUME TypeInv, RouteInv, drain
  PROVE  RouteInv'
<1> USE GatewayAssumption
<1>1. UNCHANGED <<addrList, estep, eframe>>
  BY DEF drain, writeVars
<1>2. CASE frame_queue = <<>>
  BY <1>1, <1>2, RouteRest DEF drain
<1>3. CASE frame_queue # <<>>
  <2>0. PICK f : f = Head(frame_queue)
    OBVIOUS
  <2>1. f = frame_queue[1] /\ frame_queue' = Tail(frame_queue) /\ handle_incoming_message(f)
    BY <1>3, <2>0, DrainEffect DEF drain
  <2>2. /\ 1 \in DOMAIN frame_queue /\ Len(frame_queue) \in Nat
        /\ DOMAIN frame_queue = 1 .. Len(frame_queue)
        /\ DOMAIN frame_queue' = 1 .. Len(frame_queue) - 1
        /\ \A i \in DOMAIN frame_queue' : frame_queue'[i] = frame_queue[i + 1]
    BY <1>3, <2>1, HeadTailProperties, SMTT(60) DEF TypeInv, TypeOK, SharedTypeOK
  <2>3. \A i \in DOMAIN frame_queue' : i + 1 \in DOMAIN frame_queue
    BY <2>2, SMTT(60)
  <2>4. \A i \in DOMAIN frame_queue' : Addressed(frame_queue'[i])
    BY <2>2, <2>3 DEF RouteInv
  <2>5. CommandsReachTheirNode'
    <3>1. CASE heard' = heard
      BY <3>1 DEF RouteInv, CommandsReachTheirNode
    <3>2. ASSUME NEW n \in NodesAt(f.to), f.from = 0, heard' = [heard EXCEPT ![n] = Append(@, f.cmd)]
          PROVE  CommandsReachTheirNode'
      <4>1. n \in Node /\ addrList[n] = f.to /\ f.to # NoAddr /\ addrList[n] \in Addr
        BY <3>2, SMTT(60) DEF NodesAt, TypeInv, TypeOK, SharedTypeOK
      <4>0. PICK x : x = f.cmd
        OBVIOUS
      <4>2. x \in Cmd /\ x.node \in NodeId /\ f.to = getAddress(x.node)
        BY <2>1, <2>2, <3>2, <4>0, <4>1 DEF RouteInv, Addressed, TypeInv, WellFormed, CommandFrame, Cmd
      <4>3. x.node = n
        BY <4>1, <4>2 DEF getAddress, NodeId, RouteInv
      <4>4. /\ \A m \in Node : m # n => heard'[m] = heard[m]
            /\ heard[n] \in Seq(Cmd) /\ heard'[n] = Append(heard[n], x)
        <5>1. heard' = [heard EXCEPT ![n] = Append(@, x)]
          BY <3>2, <4>0
        <5> QED BY <4>1, <4>2, <5>1, HearOne
      <4>5. \A i \in DOMAIN heard'[n] : heard'[n][i] = x \/ (i \in DOMAIN heard[n] /\ heard'[n][i] = heard[n][i])
        BY <4>2, <4>4, Appended, SMTT(60)
      <4>6. ASSUME NEW m \in Node, NEW i \in DOMAIN heard'[m] PROVE heard'[m][i].node = m
        <5>1. CASE m # n
          BY <4>4, <4>6, <5>1, SMTT(60) DEF RouteInv, CommandsReachTheirNode
        <5>2. CASE m = n
          <6>1. \A j \in DOMAIN heard[n] : heard[n][j].node = n
            BY <4>1 DEF RouteInv, CommandsReachTheirNode
          <6> QED BY <4>3, <4>5, <4>6, <5>2, <6>1, SMTT(60)
        <5> QED BY <5>1, <5>2
      <4> QED BY <4>6 DEF CommandsReachTheirNode
    <3>3. \/ heard' = heard
          \/ f.from = 0 /\ \E n \in NodesAt(f.to) : heard' = [heard EXCEPT ![n] = Append(@, f.cmd)]
      BY <2>1 DEF handle_incoming_message, handle_message, network_write
    <3> QED BY <3>1, <3>2, <3>3
  <2>6. (\A i \in DOMAIN frame_queue : Addressed(frame_queue[i]))' /\ (estep # "loop" => Addressed(eframe))'
    BY <1>1, <2>4 DEF RouteInv, Addressed, getAddress
  <2> QED BY <1>1, <2>5, <2>6 DEF RouteInv
<1> QED BY <1>2, <1>3

LEMMA RouteStep ==
  ASSUME MaxRenew = 0, TypeInv, RouteInv, [Next]_vars
  PROVE  RouteInv'
<1> USE DEF vars, connVars, eventVars, writeVars, sharedVars, monVars, meshVars
<1>1. CASE UNCHANGED vars
  BY <1>1, RouteRest
<1>2. CASE EventThread
  <2>1. CASE Poll \/ store_sockt_fd
    BY <2>1, RouteRest DEF Poll, store_sockt_fd
  <2>2. ASSUME NEW c \in Conn, on_accept(c) \/ on_read(c) PROVE RouteInv'
    BY <2>2, RouteRest DEF on_accept, on_read
  <2> QED BY <1>2, <2>1, <2>2, OnWriteRoute, PushRoute DEF EventThread
<1>3. CASE MonitorThread
  <2>1. CASE send_reply
    BY <2>1, RouteRest DEF send_reply
  <2> QED BY <1>3, <2>1, UpdateRoute, DHCPRoute, DrainRoute DEF MonitorThread
<1>4. ASSUME NEW c \in Conn, Client(c) PROVE RouteInv'
  <2>1. UNCHANGED <<addrList, frame_queue, heard, estep, eframe>>
    BY <1>4
    DEF Client, Connect, SendRequest, ReceiveAnswer, ReceiveTimeout, CloseClient, LeakSocket
  <2> QED BY <2>1, RouteRest
<1>5. ASSUME NEW n \in Node, SensorNode(n) PROVE RouteInv'
  BY <1>5, NodeEffect, RouteRest
<1> QED BY <1>1, <1>2, <1>3, <1>4, <1>5 DEF Next

(* If no address changes after a node has joined, a command only ever        *)
(* reaches the node it names: the address push_frame_queue looked up is      *)
(* still that node's when handle_message transmits.                          *)
THEOREM CommandsReach ==
  ASSUME MaxRenew = 0
  PROVE  Spec => []CommandsReachTheirNode
<1>1. TypeInv /\ RouteInv /\ [Next]_vars => RouteInv'
  BY RouteStep
<1>2. RouteInv => CommandsReachTheirNode
  BY DEF RouteInv
<1> QED BY <1>1, <1>2, RouteInit, TypeInvariant, PTL DEF Spec

-----------------------------------------------------------------------------
(* Where frames go.  A descriptor is bound to a node by a request only: the  *)
(* invariant follows the request from the socket to node_sockt_fd, and the   *)
(* node's frame from the radio through the route to the client.              *)
AskedFor(c, n) == \E k \in DOMAIN sent[c] : sent[c][k].node = n
Asked(s, n) == \E d \in Conn : fd[d] = s /\ AskedFor(d, n)
Own(x) == x.node = 0 \/ AskedFor(x.conn, x.node)
Sourced(f) == f.from # 0 => f.src \in Node /\ addrList[f.src] = f.from

RequestsOwn ==
  /\ \A c \in Conn : \A i \in DOMAIN inbuf[c] : Own(inbuf[c][i])
  /\ \A c \in Conn : wev[c] # NoCmd => Own(wev[c])
  /\ estep # "loop" => Own(eframe.cmd)
FramesSourced ==
  /\ \A i \in DOMAIN rx : Sourced(rx[i])
  /\ \A i \in DOMAIN frame_queue : Sourced(frame_queue[i])
FdFresh ==
  \A c \in Conn : /\ cli[c] = "new" => life[c] = "new"
                  /\ life[c] \in {"new", "queued"} => fd[c] = 0
RoutesAsked == \A n \in Node : node_sockt_fd[n] # 0 => Asked(node_sockt_fd[n], n)
SendAsked == mstep = "send" => msock # 0 /\ Asked(msock, mframe.src)
GotAsked == \A c \in Conn : \A i \in DOMAIN got[c] : fd[c] # 0 /\ Asked(fd[c], got[c][i].src)

AskInv == RequestsOwn /\ FramesSourced /\ FdFresh /\ RoutesAsked /\ SendAsked /\ GotAsked

(* What no step takes back: a request that was sent, a descriptor that was   *)
(* given.                                                                    *)
Monotone ==
  \A c \in Conn : /\ \A n \in NodeId : AskedFor(c, n) => AskedFor(c, n)'
                  /\ fd[c] # 0 => fd'[c] = fd[c]

LEMMA AskInit == Init => AskInv
<1> SUFFICES ASSUME Init PROVE AskInv
  OBVIOUS
<1>1. /\ \A c \in Conn : inbuf[c] = <<>> /\ wev[c] = NoCmd /\ got[c] = <<>>
      /\ \A c \in Conn : life[c] = "new" /\ fd[c] = 0
      /\ estep = "loop" /\ frame_queue = <<>> /\ rx = <<>> /\ mstep = "update"
      /\ \A n \in Node : node_sockt_fd[n] = 0
  BY DEF Init, NodeId
<1>2. RequestsOwn /\ FramesSourced
  BY <1>1, SMTT(60) DEF RequestsOwn, FramesSourced
<1>3. FdFresh /\ RoutesAsked /\ SendAsked /\ GotAsked
  BY <1>1, SMTT(60) DEF FdFresh, RoutesAsked, SendAsked, GotAsked
<1> QED BY <1>2, <1>3 DEF AskInv

LEMMA AskedStays ==
  ASSUME Monotone, NEW s, s # 0, NEW n \in NodeId, Asked(s, n)
  PROVE  Asked(s, n)'
<1>1. PICK d \in Conn : fd[d] = s /\ AskedFor(d, n)
  BY DEF Asked
<1>2. fd'[d] = s /\ AskedFor(d, n)'
  BY <1>1 DEF Monotone
<1> QED BY <1>2 DEF Asked

LEMMA OwnStays ==
  ASSUME Monotone, NEW x \in Cmd, Own(x)
  PROVE  Own(x)'
<1>1. x.conn \in Conn /\ x.node \in NodeId
  BY DEF Cmd
<1>2. CASE x.node = 0
  BY <1>2 DEF Own
<1>3. CASE AskedFor(x.conn, x.node)
  <2>1. AskedFor(x.conn, x.node)'
    BY <1>1, <1>3 DEF Monotone
  <2> QED BY <2>1 DEF Own
<1> QED BY <1>2, <1>3 DEF Own

(* A part of the invariant whose variables a step leaves alone stays.        *)
LEMMA AskKeeps ==
  ASSUME TypeInv, AskInv, Monotone
  PROVE  /\ UNCHANGED <<inbuf, wev, eframe>> /\ (estep' # "loop" => estep # "loop") => RequestsOwn'
         /\ UNCHANGED <<rx, frame_queue, addrList>> => FramesSourced'
         /\ UNCHANGED <<cli, life, fd>> => FdFresh'
         /\ UNCHANGED node_sockt_fd => RoutesAsked'
         /\ UNCHANGED <<mstep, mframe, msock>> => SendAsked'
         /\ UNCHANGED got => GotAsked'
<1>1. ASSUME UNCHANGED <<inbuf, wev, eframe>>, estep' # "loop" => estep # "loop" PROVE RequestsOwn'
  <2>1. ASSUME NEW c \in Conn, NEW i \in DOMAIN inbuf[c] PROVE Own(inbuf[c][i])'
    <3>1. inbuf[c][i] \in Cmd
      BY <2>1, ElementOfSeq, SMTT(60) DEF TypeInv, TypeOK, ConnTypeOK
    <3>2. Own(inbuf[c][i])
      BY <2>1 DEF AskInv, RequestsOwn
    <3>3. PICK x : x = inbuf[c][i]
      OBVIOUS
    <3>4. Own(x)'
      BY <3>1, <3>2, <3>3, OwnStays
    <3> QED BY <1>1, <3>3, <3>4 DEF Own, AskedFor
  <2>2. ASSUME NEW c \in Conn, wev[c] # NoCmd PROVE Own(wev[c])'
    <3>3. PICK x : x = wev[c]
      OBVIOUS
    <3>1. x \in Cmd /\ Own(x)
      BY <2>2, <3>3 DEF TypeInv, TypeOK, EventTypeOK, AskInv, RequestsOwn
    <3>4. Own(x)'
      BY <3>1, OwnStays
    <3> QED BY <1>1, <3>3, <3>4 DEF Own, AskedFor
  <2>3. ASSUME estep # "loop" PROVE Own(eframe.cmd)'
    <3>3. PICK x : x = eframe.cmd
      OBVIOUS
    <3>1. x \in Cmd /\ Own(x)
      BY <2>3, <3>3 DEF TypeInv, WellFormed, CommandFrame, AskInv, RequestsOwn
    <3>4. Own(x)'
      BY <3>1, OwnStays
    <3> QED BY <1>1, <3>3, <3>4 DEF Own, AskedFor
  <2> QED BY <1>1, <2>1, <2>2, <2>3 DEF RequestsOwn
<1>2. UNCHANGED <<rx, frame_queue, addrList>> => FramesSourced'
  BY DEF AskInv, FramesSourced, Sourced
<1>3. UNCHANGED <<cli, life, fd>> => FdFresh'
  BY DEF AskInv, FdFresh
<1>4. ASSUME UNCHANGED node_sockt_fd PROVE RoutesAsked'
  <2>1. ASSUME NEW n \in Node, node_sockt_fd[n] # 0 PROVE Asked(node_sockt_fd[n], n)'
    <3>1. PICK s : s = node_sockt_fd[n]
      OBVIOUS
    <3>2. s # 0 /\ Asked(s, n) /\ n \in NodeId
      BY <2>1, <3>1 DEF AskInv, RoutesAsked, NodeId
    <3>3. Asked(s, n)'
      BY <3>2, AskedStays
    <3> QED BY <1>4, <3>1, <3>3 DEF Asked
  <2> QED BY <1>4, <2>1 DEF RoutesAsked
<1>5. ASSUME UNCHANGED <<mstep, mframe, msock>>, mstep = "send" PROVE msock # 0 /\ Asked(msock, mframe.src)'
  <2>1. PICK s, n : s = msock /\ n = mframe.src
    OBVIOUS
  <2>2. s # 0 /\ Asked(s, n) /\ n \in NodeId
    BY <1>5, <2>1 DEF AskInv, SendAsked, TypeInv, WellFormed, Frame
  <2>3. Asked(s, n)'
    BY <2>2, AskedStays
  <2> QED BY <1>5, <2>1, <2>2, <2>3 DEF Asked
<1>6. ASSUME UNCHANGED got PROVE GotAsked'
  <2>1. ASSUME NEW c \in Conn, NEW i \in DOMAIN got[c]
        PROVE  fd'[c] # 0 /\ Asked(fd[c], got[c][i].src)'
    <3>1. PICK s, n : s = fd[c] /\ n = got[c][i].src
      OBVIOUS
    <3>2. got[c][i] \in Frame
      BY <2>1, ElementOfSeq, SMTT(60) DEF TypeInv, TypeOK, ConnTypeOK
    <3>3. s # 0 /\ Asked(s, n) /\ n \in NodeId
      BY <2>1, <3>1, <3>2 DEF AskInv, GotAsked, Frame
    <3>4. Asked(s, n)' /\ fd'[c] = s
      BY <3>1, <3>3, AskedStays DEF Monotone
    <3> QED BY <1>6, <3>1, <3>3, <3>4 DEF Asked
  <2> QED BY <1>6, <2>1 DEF GotAsked
<1> QED BY <1>1, <1>2, <1>3, <1>4, <1>5, <1>6 DEF SendAsked

LEMMA Unmoved == UNCHANGED <<sent, fd>> => Monotone
  BY DEF Monotone, AskedFor

LEMMA ConnectAsk ==
  ASSUME TypeInv, AskInv, NEW c \in Conn, Connect(c)
  PROVE  AskInv'
<1>1. /\ cli[c] = "new" /\ cli' = [cli EXCEPT ![c] = "ready"] /\ life' = [life EXCEPT ![c] = "queued"]
      /\ UNCHANGED <<fd, sent, inbuf, got, wev, estep, eframe, frame_queue, node_sockt_fd, addrList,
                     mstep, mframe, msock, rx>>
  BY DEF Connect, eventVars, writeVars, sharedVars, monVars, meshVars
<1>2. FdFresh'
  BY <1>1 DEF AskInv, FdFresh, TypeInv, TypeOK, ConnTypeOK
<1> QED BY <1>1, <1>2, AskKeeps, Unmoved DEF AskInv

LEMMA SendRequestAsk ==
  ASSUME TypeInv, AskInv, NEW c \in Conn, NEW n \in Target[c], NEW t \in ReqType, SendRequest(c, n, t)
  PROVE  AskInv'
<1>0. PICK x : x = [conn |-> c, k |-> Len(sent[c]) + 1, node |-> n, type |-> t]
  OBVIOUS
<1>1. /\ cli[c] = "ready" /\ cli' = [cli EXCEPT ![c] = "waiting"]
      /\ sent' = [sent EXCEPT ![c] = Append(@, x)] /\ inbuf' = [inbuf EXCEPT ![c] = Append(@, x)]
      /\ UNCHANGED <<fd, life, got, wev, estep, eframe, frame_queue, node_sockt_fd, addrList,
                     mstep, mframe, msock, rx>>
  BY <1>0 DEF SendRequest, eventVars, writeVars, sharedVars, monVars, meshVars
<1>2. sent \in [Conn -> Seq(Cmd)] /\ inbuf \in [Conn -> Seq(Cmd)] /\ cli \in [Conn -> ClientState]
  BY DEF TypeInv, TypeOK, ConnTypeOK
<1>3. x \in Cmd /\ x.conn = c /\ x.node = n
  <2>1. n \in NodeId /\ t \in Type /\ Len(sent[c]) + 1 \in Nat
    BY <1>2, GatewayAssumption, SMTT(60) DEF NodeId, Type
  <2> QED BY <1>0, <2>1 DEF Cmd
<1>4. /\ sent'[c] = Append(sent[c], x) /\ inbuf'[c] = Append(inbuf[c], x)
      /\ \A d \in Conn : d # c => sent'[d] = sent[d] /\ inbuf'[d] = inbuf[d]
      /\ sent[c] \in Seq(Cmd) /\ inbuf[c] \in Seq(Cmd)
  BY <1>1, <1>2
<1>5. /\ \A k \in DOMAIN sent[c] : k \in DOMAIN sent'[c] /\ sent'[c][k] = sent[c][k]
      /\ Len(sent[c]) + 1 \in DOMAIN sent'[c] /\ sent'[c][Len(sent[c]) + 1] = x
      /\ \A i \in DOMAIN inbuf'[c] :
           (i \in DOMAIN inbuf[c] /\ inbuf'[c][i] = inbuf[c][i]) \/ inbuf'[c][i] = x
  BY <1>3, <1>4, Appended, SMTT(60)
<1>6. Monotone
  BY <1>1, <1>4, <1>5, SMTT(60) DEF Monotone, AskedFor
<1>7. Own(x)'
  BY <1>3, <1>5 DEF Own, AskedFor
<1>8. RequestsOwn'
  <2>1. ASSUME NEW d \in Conn, NEW i \in DOMAIN inbuf'[d] PROVE Own(inbuf[d][i])'
    <3>1. CASE i \in DOMAIN inbuf[d] /\ inbuf'[d][i] = inbuf[d][i]
      <4>1. PICK y : y = inbuf[d][i]
        OBVIOUS
      <4>2. y \in Cmd /\ Own(y)
        BY <1>2, <3>1, <4>1, ElementOfSeq, SMTT(60) DEF AskInv, RequestsOwn
      <4>3. Own(y)'
        BY <1>6, <4>2, OwnStays
      <4> QED BY <3>1, <4>1, <4>3
    <3>2. CASE inbuf'[d][i] = x
      BY <1>7, <3>2
    <3> QED BY <1>4, <1>5, <2>1, <3>1, <3>2
  <2>2. ASSUME NEW d \in Conn, wev'[d] # NoCmd PROVE Own(wev[d])'
    <3>1. PICK y : y = wev[d]
      OBVIOUS
    <3>2. y \in Cmd /\ Own(y)
      BY <1>1, <2>2, <3>1 DEF TypeInv, TypeOK, EventTypeOK, AskInv, RequestsOwn
    <3> QED BY <1>1, <1>6, <3>1, <3>2, OwnStays
  <2>3. ASSUME estep' # "loop" PROVE Own(eframe.cmd)'
    <3>1. PICK y : y = eframe.cmd
      OBVIOUS
    <3>2. y \in Cmd /\ Own(y)
      BY <1>1, <2>3, <3>1 DEF TypeInv, WellFormed, CommandFrame, AskInv, RequestsOwn
    <3> QED BY <1>1, <1>6, <3>1, <3>2, OwnStays
  <2> QED BY <2>1, <2>2, <2>3 DEF RequestsOwn, Own, AskedFor
<1>9. FdFresh'
  BY <1>1, <1>2 DEF AskInv, FdFresh
<1> QED BY <1>1, <1>6, <1>8, <1>9, AskKeeps DEF AskInv

LEMMA ClientAsk ==
  ASSUME TypeInv, AskInv, NEW c \in Conn, Client(c)
  PROVE  AskInv'
<1>1. CASE ReceiveAnswer(c) \/ ReceiveTimeout(c) \/ CloseClient(c) \/ LeakSocket(c)
  <2>1. /\ \E s \in {"ready", "rst", "fin", "leaked"} : cli' = [cli EXCEPT ![c] = s]
        /\ UNCHANGED <<fd, life, sent, inbuf, got, wev, estep, eframe, frame_queue, node_sockt_fd,
                       addrList, mstep, mframe, msock, rx>>
    BY <1>1
    DEF ReceiveAnswer, ReceiveTimeout, CloseClient, LeakSocket,
        eventVars, writeVars, sharedVars, monVars, meshVars
  <2>2. FdFresh'
    BY <2>1 DEF AskInv, FdFresh, TypeInv, TypeOK, ConnTypeOK
  <2> QED BY <2>1, <2>2, AskKeeps, Unmoved DEF AskInv
<1> QED BY <1>1, ConnectAsk, SendRequestAsk DEF Client

(* accept() gives a descriptor to a connection that had none.                *)
LEMMA AcceptAsk ==
  ASSUME TypeInv, AskInv, NEW c \in Conn, on_accept(c)
  PROVE  AskInv'
<1>1. /\ life[c] = "queued"
      /\ UNCHANGED <<cli, sent, inbuf, got, wev, estep, eframe, frame_queue, node_sockt_fd,
                     addrList, mstep, mframe, msock, rx>>
  BY DEF on_accept, writeVars, sharedVars, monVars, meshVars
<1>2. /\ fd[c] = 0 /\ cli[c] # "new" /\ fd \in [Conn -> Fd \cup {0}]
      /\ life \in [Conn -> {"new", "queued", "open", "closed"}]
  BY <1>1 DEF AskInv, FdFresh, TypeInv, TypeOK, ConnTypeOK
<1>3. CASE UNCHANGED <<fd, life>>
  BY <1>1, <1>3, AskKeeps, Unmoved DEF AskInv
<1>4. ASSUME NEW f \in FreeFd, fd' = [fd EXCEPT ![c] = f], life' = [life EXCEPT ![c] = "open"]
      PROVE  AskInv'
  <2>1. Monotone
    BY <1>1, <1>2, <1>4 DEF Monotone, AskedFor
  <2>2. FdFresh'
    BY <1>1, <1>2, <1>4 DEF AskInv, FdFresh
  <2> QED BY <1>1, <2>1, <2>2, AskKeeps DEF AskInv
<1> QED BY <1>3, <1>4 DEF on_accept

LEMMA ReadAsk ==
  ASSUME TypeInv, AskInv, NEW c \in Conn, on_read(c)
  PROVE  AskInv'
<1>1. UNCHANGED <<fd, sent, got, estep, eframe, frame_queue, node_sockt_fd,
                  addrList, mstep, mframe, msock, rx>>
  BY DEF on_read, writeVars, sharedVars, monVars, meshVars
<1>2. /\ cli \in [Conn -> ClientState] /\ inbuf \in [Conn -> Seq(Cmd)]
      /\ life \in [Conn -> {"new", "queued", "open", "closed"}] /\ wev \in [Conn -> Cmd \cup {NoCmd}]
  BY DEF TypeInv, TypeOK, ConnTypeOK, EventTypeOK
<1>3. /\ inbuf' = inbuf \/ inbuf' = [inbuf EXCEPT ![c] = <<>>]
      /\ \/ wev' = wev
         \/ \E x : wev' = [wev EXCEPT ![c] = x] /\ Own(x)
  <2>1. CASE ReadRequest(c)
    <3>1. 1 \in DOMAIN inbuf[c] /\ Head(inbuf[c]) = inbuf[c][1]
      BY <1>2, <2>1, Tailed DEF ReadRequest
    <3>2. Own(Head(inbuf[c]))
      BY <3>1 DEF AskInv, RequestsOwn
    <3> QED BY <2>1, <3>2 DEF ReadRequest, LeftAfterRecv
  <2>2. CASE ReadError(c)
    <3>1. Own(ZeroCmd(c))
      BY DEF ZeroCmd, Own
    <3> QED BY <2>2, <3>1 DEF ReadError
  <2>3. CASE release_sock_event(c)
    BY <2>3 DEF release_sock_event
  <2> QED BY <2>1, <2>2, <2>3 DEF on_read
<1>4. \A x : Own(x) => Own(x)'
  BY <1>1 DEF Own, AskedFor
<1>5. RequestsOwn'
  <2>1. ASSUME NEW d \in Conn, NEW i \in DOMAIN inbuf'[d] PROVE Own(inbuf[d][i])'
    <3>1. i \in DOMAIN inbuf[d] /\ inbuf'[d][i] = inbuf[d][i]
      <4>1. CASE inbuf' = inbuf
        BY <2>1, <4>1
      <4>2. CASE inbuf' = [inbuf EXCEPT ![c] = <<>>]
        <5>1. d # c
          BY <1>2, <2>1, <4>2, SMTT(60)
        <5> QED BY <1>2, <2>1, <4>2, <5>1
      <4> QED BY <1>3, <4>1, <4>2
    <3>2. PICK y : y = inbuf[d][i]
      OBVIOUS
    <3>3. Own(y)
      BY <3>1, <3>2 DEF AskInv, RequestsOwn
    <3> QED BY <1>4, <3>1, <3>2, <3>3
  <2>2. ASSUME NEW d \in Conn, wev'[d] # NoCmd PROVE Own(wev[d])'
    <3>1. PICK y : y = wev'[d]
      OBVIOUS
    <3>2. Own(y)
      BY <1>2, <1>3, <2>2, <3>1 DEF AskInv, RequestsOwn
    <3> QED BY <1>4, <3>1, <3>2
  <2>3. ASSUME estep' # "loop" PROVE Own(eframe.cmd)'
    BY <1>1, <1>4, <2>3 DEF AskInv, RequestsOwn
  <2> QED BY <2>1, <2>2, <2>3 DEF RequestsOwn, Own, AskedFor
<1>6. FdFresh'
  <2>1. /\ cli' = cli \/ (cli[c] = "rst" /\ cli' = [cli EXCEPT ![c] = "eof"])
        /\ life' = life \/ (cli[c] \in {"fin", "eof"} /\ cli' = cli /\ life' = [life EXCEPT ![c] = "closed"])
    BY DEF on_read, ReadRequest, ReadError, release_sock_event
  <2> QED BY <1>1, <1>2, <2>1 DEF AskInv, FdFresh
<1> QED BY <1>1, <1>5, <1>6, AskKeeps, Unmoved DEF AskInv

LEMMA WriteAsk ==
  ASSUME TypeInv, AskInv, NEW c \in Conn, on_write(c)
  PROVE  AskInv'
<1>1. /\ wev' = [wev EXCEPT ![c] = NoCmd] /\ eframe' = RequestFrame(wev[c])
      /\ <<c, "write">> \in active
      /\ UNCHANGED <<cli, life, fd, sent, inbuf, got, frame_queue, node_sockt_fd,
                     addrList, mstep, mframe, msock, rx>>
  BY DEF on_write, Dispatch, WriteEvAfter, connVars, sharedVars, monVars, meshVars
<1>2. eframe'.cmd = wev[c] /\ wev[c] # NoCmd
  BY <1>1 DEF RequestFrame, TypeInv, WellFormed
<1>3. \A x : Own(x) => Own(x)'
  BY <1>1 DEF Own, AskedFor
<1>4. Own(wev[c])
  BY <1>2 DEF AskInv, RequestsOwn
<1>5. RequestsOwn'
  <2>1. ASSUME NEW d \in Conn, NEW i \in DOMAIN inbuf'[d] PROVE Own(inbuf[d][i])'
    BY <1>1, <1>3, <2>1 DEF AskInv, RequestsOwn
  <2>2. ASSUME NEW d \in Conn, wev'[d] # NoCmd PROVE Own(wev[d])'
    <3>1. PICK y : y = wev'[d]
      OBVIOUS
    <3>2. Own(y)
      BY <1>1, <2>2, <3>1 DEF AskInv, RequestsOwn, TypeInv, TypeOK, EventTypeOK
    <3> QED BY <1>3, <3>1, <3>2
  <2>3. Own(eframe.cmd)'
    <3>1. PICK y : y = wev[c]
      OBVIOUS
    <3> QED BY <1>2, <1>3, <1>4, <3>1
  <2> QED BY <2>1, <2>2, <2>3 DEF RequestsOwn, Own, AskedFor
<1> QED BY <1>1, <1>5, AskKeeps, Unmoved DEF AskInv

LEMMA PushAsk ==
  ASSUME TypeInv, AskInv, push_frame_queue
  PROVE  AskInv'
<1>1. /\ estep # "loop"
      /\ frame_queue' = IF estep = "push" THEN Append(frame_queue, eframe) ELSE frame_queue
      /\ UNCHANGED <<cli, life, fd, sent, inbuf, got, wev, eframe, node_sockt_fd,
                     addrList, mstep, mframe, msock, rx>>
  BY DEF push_frame_queue, connVars, eventVars, monVars, meshVars
<1>2. eframe \in Frame /\ frame_queue \in Seq(Frame) /\ Sourced(eframe)
  BY <1>1 DEF TypeInv, TypeOK, SharedTypeOK, WellFormed, CommandFrame, Sourced
<1>3. \A i \in DOMAIN frame_queue' : Sourced(frame_queue'[i])
  BY <1>1, <1>2, AppendProperties, SMTT(60) DEF AskInv, FramesSourced
<1>4. FramesSourced'
  BY <1>1, <1>3 DEF AskInv, FramesSourced, Sourced
<1> QED BY <1>1, <1>4, AskKeeps, Unmoved DEF AskInv

(* The route of a node is set to the descriptor of a connection that sent it *)
(* a request; the zeroed buffer of a failed recv() names no node.            *)
LEMMA StoreAsk ==
  ASSUME TypeInv, AskInv, store_sockt_fd
  PROVE  AskInv'
<1>0. PICK x : x = eframe.cmd
  OBVIOUS
<1>1. /\ estep = "store" /\ estep' = "loop" /\ node_sockt_fd' = [node_sockt_fd EXCEPT ![x.node] = fd[x.conn]]
      /\ UNCHANGED <<cli, life, fd, sent, inbuf, got, wev, frame_queue,
                     addrList, mstep, mframe, msock, rx>>
  BY <1>0 DEF store_sockt_fd, RouteSet, connVars, eventVars, monVars, meshVars
<1>2. x \in Cmd /\ Own(x)
  BY <1>0, <1>1 DEF TypeInv, WellFormed, CommandFrame, AskInv, RequestsOwn
<1>3. x.conn \in Conn /\ x.node \in NodeId
  BY <1>2 DEF Cmd
<1>4. ASSUME NEW n \in Node, node_sockt_fd'[n] # 0 PROVE Asked(node_sockt_fd'[n], n)
  <2>1. n \in NodeId /\ n # 0 /\ node_sockt_fd \in [NodeId -> Fd \cup {0}]
    BY GatewayAssumption, SMTT(60) DEF NodeId, TypeInv, TypeOK, SharedTypeOK
  <2>2. CASE n = x.node
    <3>1. node_sockt_fd'[n] = fd[x.conn] /\ AskedFor(x.conn, n)
      BY <1>1, <1>2, <2>1, <2>2 DEF Own
    <3> QED BY <1>3, <3>1 DEF Asked
  <2>3. CASE n # x.node
    <3>1. node_sockt_fd'[n] = node_sockt_fd[n]
      BY <1>1, <2>1, <2>3
    <3> QED BY <1>4, <3>1 DEF AskInv, RoutesAsked
  <2> QED BY <2>2, <2>3
<1>5. RoutesAsked'
  BY <1>1, <1>4 DEF RoutesAsked, Asked, AskedFor
<1>6. RequestsOwn'
  <2>1. /\ \A c \in Conn : \A i \in DOMAIN inbuf[c] : Own(inbuf[c][i])
        /\ \A c \in Conn : wev[c] # NoCmd => Own(wev[c])
    BY DEF AskInv, RequestsOwn
  <2> QED BY <1>1, <2>1 DEF RequestsOwn, Own, AskedFor
<1> QED BY <1>1, <1>5, <1>6, AskKeeps, Unmoved DEF AskInv

LEMMA UpdateAsk ==
  ASSUME TypeInv, AskInv, mesh_update
  PROVE  AskInv'
<1>1. /\ UNCHANGED <<cli, life, fd, sent, inbuf, got, wev, eframe, node_sockt_fd,
                     addrList, mframe, msock>>
      /\ mstep = "update" /\ mstep' \in {"update", "dhcp"} /\ (estep' # "loop" => estep # "loop")
      /\ \/ UNCHANGED <<rx, frame_queue>>
         \/ /\ rx # <<>> /\ rx' = Tail(rx)
            /\ frame_queue' = frame_queue \/ frame_queue' = Append(frame_queue, Head(rx))
  BY DEF mesh_update, connVars, eventVars
<1>2. rx \in Seq(Frame) /\ frame_queue \in Seq(Frame)
  BY DEF TypeInv, TypeOK, SharedTypeOK, MeshTypeOK
<1>3. CASE UNCHANGED <<rx, frame_queue>>
  BY <1>1, <1>3, AskKeeps, Unmoved DEF AskInv, SendAsked
<1>4. CASE rx # <<>> /\ rx' = Tail(rx) /\ (frame_queue' = frame_queue \/ frame_queue' = Append(frame_queue, Head(rx)))
  <2>1. /\ Head(rx) \in Frame /\ Sourced(Head(rx))
        /\ \A i \in DOMAIN rx' : Sourced(rx'[i])
    BY <1>2, <1>4, Tailed, SMTT(60) DEF AskInv, FramesSourced
  <2>2. \A i \in DOMAIN frame_queue' : Sourced(frame_queue'[i])
    <3>1. CASE frame_queue' = frame_queue
      BY <3>1 DEF AskInv, FramesSourced
    <3>2. CASE frame_queue' = Append(frame_queue, Head(rx))
      BY <1>2, <2>1, <3>2, AppendProperties, SMTT(60) DEF AskInv, FramesSourced
    <3> QED BY <1>4, <3>1, <3>2
  <2>3. FramesSourced'
    BY <1>1, <2>1, <2>2 DEF FramesSourced, Sourced
  <2>4. SendAsked'
    BY <1>1 DEF SendAsked
  <2> QED BY <1>1, <2>3, <2>4, AskKeeps, Unmoved DEF AskInv
<1> QED BY <1>1, <1>3, <1>4

LEMMA DHCPAsk ==
  ASSUME MaxRenew = 0, TypeInv, AskInv, mesh_DHCP
  PROVE  AskInv'
<1>1. /\ UNCHANGED <<cli, life, fd, sent, inbuf, got, wev, estep, eframe, frame_queue, node_sockt_fd,
                     mframe, msock, rx>>
      /\ mstep' = "drain"
  BY DEF mesh_DHCP, connVars, eventVars, writeVars
<1>2. addrList \in [Node -> Addr \cup {NoAddr}] /\ ~(renewals < MaxRenew)
  BY SMTT(60) DEF TypeInv, TypeOK, SharedTypeOK, MeshTypeOK
<1>3. \/ addrList' = addrList
      \/ \E n \in Node, a \in Addr : addrList[n] = NoAddr /\ addrList' = [addrList EXCEPT ![n] = a]
  BY <1>2 DEF mesh_DHCP
<1>4. ASSUME NEW f \in Frame, Sourced(f) PROVE Sourced(f)'
  <2>1. CASE f.from # 0
    <3>1. f.src \in Node /\ addrList[f.src] = f.from /\ f.from # NoAddr
      BY <1>4, <2>1, GatewayAssumption, SMTT(60) DEF Sourced, Frame, NoAddr
    <3>2. addrList'[f.src] = f.from
      BY <1>2, <1>3, <3>1
    <3> QED BY <3>1, <3>2 DEF Sourced
  <2> QED BY <2>1 DEF Sourced
<1>5. FramesSourced'
  <2>1. ASSUME NEW i \in DOMAIN rx PROVE Sourced(rx[i])'
    <3>1. PICK f : f = rx[i]
      OBVIOUS
    <3>2. f \in Frame /\ Sourced(f)
      BY <2>1, <3>1, ElementOfSeq, SMTT(60) DEF AskInv, FramesSourced, TypeInv, TypeOK, MeshTypeOK
    <3>3. Sourced(f)'
      BY <1>4, <3>2
    <3> QED BY <1>1, <3>1, <3>3 DEF Sourced
  <2>2. ASSUME NEW i \in DOMAIN frame_queue PROVE Sourced(frame_queue[i])'
    <3>1. PICK f : f = frame_queue[i]
      OBVIOUS
    <3>2. f \in Frame /\ Sourced(f)
      BY <2>2, <3>1, ElementOfSeq, SMTT(60) DEF AskInv, FramesSourced, TypeInv, TypeOK, SharedTypeOK
    <3>3. Sourced(f)'
      BY <1>4, <3>2
    <3> QED BY <1>1, <3>1, <3>3 DEF Sourced
  <2> QED BY <1>1, <2>1, <2>2 DEF FramesSourced
<1>6. SendAsked'
  BY <1>1 DEF SendAsked
<1> QED BY <1>1, <1>5, <1>6, AskKeeps, Unmoved DEF AskInv

(* The route handle_message looks up is the one of the node that sent the    *)
(* frame: no other has its address.                                          *)
LEMMA DrainAsk ==
  ASSUME TypeInv, RouteInv, AskInv, drain
  PROVE  AskInv'
<1>1. UNCHANGED <<cli, life, fd, sent, inbuf, got, wev, estep, eframe, node_sockt_fd, addrList, rx>>
  BY DEF drain, connVars, eventVars, writeVars
<1>2. CASE frame_queue = <<>>
  <2>1. UNCHANGED frame_queue /\ mstep' = "update"
    BY <1>2 DEF drain
  <2>2. SendAsked'
    BY <2>1 DEF SendAsked
  <2> QED BY <1>1, <2>1, <2>2, AskKeeps, Unmoved DEF AskInv
<1>3. CASE frame_queue # <<>>
  <2>0. PICK f : f = Head(frame_queue)
    OBVIOUS
  <2>1. /\ f \in Frame /\ f = frame_queue[1] /\ frame_queue' = Tail(frame_queue) /\ mstep = "drain"
        /\ handle_incoming_message(f) /\ frame_queue \in Seq(Frame)
    BY <1>3, <2>0, DrainEffect DEF drain, TypeInv, TypeOK, SharedTypeOK
  <2>2. Sourced(f) /\ \A i \in DOMAIN frame_queue' : Sourced(frame_queue'[i])
    BY <1>3, <2>1, Tailed DEF AskInv, FramesSourced
  <2>3. FramesSourced'
    BY <1>1, <2>2 DEF AskInv, FramesSourced, Sourced
  <2>4. SendAsked'
    <3>1. CASE UNCHANGED monVars
      BY <2>1, <3>1 DEF SendAsked, monVars
    <3>2. ASSUME f.from # 0, NEW s \in RouteOf(f.from), s # 0, mframe' = f, msock' = s
          PROVE  SendAsked'
      <4>1. f.src \in Node /\ addrList[f.src] = f.from /\ f.from # NoAddr
        BY <2>1, <2>2, <3>2, GatewayAssumption, SMTT(60) DEF Sourced, Frame, NoAddr
      <4>2. NodesAt(f.from) = {f.src}
        BY <4>1, SMTT(60) DEF NodesAt, RouteInv
      <4>3. s = node_sockt_fd[f.src]
        BY <3>2, <4>2 DEF RouteOf
      <4>4. Asked(s, f.src)
        BY <3>2, <4>1, <4>3 DEF AskInv, RoutesAsked
      <4> QED BY <1>1, <3>2, <4>4 DEF SendAsked, Asked, AskedFor
    <3>3. \/ UNCHANGED monVars
          \/ /\ f.from # 0
             /\ \E s \in RouteOf(f.from) : s # 0 /\ mframe' = f /\ msock' = s
      BY <2>1 DEF handle_incoming_message, handle_message
    <3> QED BY <3>1, <3>2, <3>3
  <2> QED BY <1>1, <2>3, <2>4, AskKeeps, Unmoved DEF AskInv
<1> QED BY <1>2, <1>3

(* send() reaches whoever has the descriptor by now.                         *)
LEMMA ReplyAsk ==
  ASSUME TypeInv, AskInv, send_reply
  PROVE  AskInv'
<1>1. /\ UNCHANGED <<life, fd, sent, inbuf, wev, estep, eframe, frame_queue, node_sockt_fd,
                     addrList, rx>>
      /\ mstep = "send" /\ mstep' = "drain"
  BY DEF send_reply, eventVars, writeVars, sharedVars, meshVars
<1>2. FdFresh'
  <2>1. cli' = cli \/ \E c \in Conn : cli' = [cli EXCEPT ![c] = "eof"]
    BY DEF send_reply, Holder
  <2> QED BY <1>1, <2>1 DEF AskInv, FdFresh, TypeInv, TypeOK, ConnTypeOK
<1>3. GotAsked'
  <2>1. CASE got' = got
    BY <1>1, <2>1, AskKeeps, Unmoved
  <2>2. ASSUME NEW c \in Holder(msock), got' = [got EXCEPT ![c] = Append(@, mframe)] PROVE GotAsked'
    <3>1. /\ c \in Conn /\ fd[c] = msock /\ msock # 0 /\ Asked(msock, mframe.src)
          /\ mframe \in Frame /\ got \in [Conn -> Seq(Frame)]
      BY <1>1 DEF Holder, AskInv, SendAsked, TypeInv, TypeOK, WellFormed, ConnTypeOK
    <3>2. got'[c] = Append(got[c], mframe) /\ \A d \in Conn : d # c => got'[d] = got[d]
      BY <2>2, <3>1
    <3>3. \A i \in DOMAIN got'[c] : (i \in DOMAIN got[c] /\ got'[c][i] = got[c][i]) \/ got'[c][i] = mframe
      BY <3>1, <3>2, Appended, SMTT(60)
    <3>4. ASSUME NEW d \in Conn, NEW i \in DOMAIN got'[d]
          PROVE  fd[d] # 0 /\ Asked(fd[d], got'[d][i].src)
      <4>1. CASE d = c /\ got'[d][i] = mframe
        BY <3>1, <4>1
      <4>2. CASE i \in DOMAIN got[d] /\ got'[d][i] = got[d][i]
        BY <4>2 DEF AskInv, GotAsked
      <4> QED BY <3>2, <3>3, <3>4, <4>1, <4>2
    <3> QED BY <1>1, <3>4 DEF GotAsked, Asked, AskedFor
  <2> QED BY <2>1, <2>2 DEF send_reply
<1>4. SendAsked'
  BY <1>1 DEF SendAsked
<1> QED BY <1>1, <1>2, <1>3, <1>4, AskKeeps, Unmoved DEF AskInv

LEMMA NodeAsk ==
  ASSUME TypeInv, AskInv, NEW n \in Node, SensorNode(n)
  PROVE  AskInv'
<1>1. /\ UNCHANGED <<cli, life, fd, sent, inbuf, got, wev, estep, eframe, frame_queue, node_sockt_fd,
                     addrList, mstep, mframe, msock>>
      /\ \E f \in Frame : rx' = Append(rx, f) /\ f.src = n /\ f.from = addrList[n]
  <2>1. PICK f \in Frame : rx' = Append(rx, f)
    BY NodeEffect
  <2>2. \E x, t : rx' = Append(rx, NodeFrame(n, x, t))
    BY DEF SensorNode, Answer, Repeat, Report, Transmit
  <2>3. PICK x, t : rx' = Append(rx, NodeFrame(n, x, t))
    BY <2>2
  <2>4. rx \in Seq(Frame)
    BY DEF TypeInv, TypeOK, MeshTypeOK
  <2>5. f = NodeFrame(n, x, t)
    <3>1. PICK g : g = NodeFrame(n, x, t)
      OBVIOUS
    <3>2. Append(rx, f)[Len(rx) + 1] = f /\ Append(rx, g)[Len(rx) + 1] = g
      BY <2>4, SMTT(60)
    <3> QED BY <2>1, <2>3, <3>1, <3>2
  <2>6. f.src = n /\ f.from = addrList[n]
    BY <2>5 DEF NodeFrame
  <2> QED BY <2>1, <2>6, NodeEffect DEF connVars, eventVars, writeVars, sharedVars, monVars
<1>2. FramesSourced'
  <2>1. PICK f \in Frame : rx' = Append(rx, f) /\ f.src = n /\ f.from = addrList[n]
    BY <1>1
  <2>2. Sourced(f)
    BY <2>1 DEF Sourced
  <2>3. \A i \in DOMAIN rx' : Sourced(rx'[i])
    BY <2>1, <2>2, AppendProperties, SMTT(60) DEF AskInv, FramesSourced, TypeInv, TypeOK, MeshTypeOK
  <2> QED BY <1>1, <2>3 DEF AskInv, FramesSourced, Sourced
<1> QED BY <1>1, <1>2, AskKeeps, Unmoved DEF AskInv

LEMMA AskStep ==
  ASSUME MaxRenew = 0, TypeInv, RouteInv, AskInv, [Next]_vars
  PROVE  AskInv'
<1>1. CASE UNCHANGED vars \/ Poll
  BY <1>1, AskKeeps, Unmoved
  DEF AskInv, Poll, vars, connVars, eventVars, writeVars, sharedVars, monVars, meshVars
<1>2. CASE EventThread /\ ~Poll
  BY <1>2, AcceptAsk, ReadAsk, WriteAsk, PushAsk, StoreAsk DEF EventThread
<1>3. CASE MonitorThread
  BY <1>3, UpdateAsk, DHCPAsk, DrainAsk, ReplyAsk DEF MonitorThread
<1> QED BY <1>1, <1>2, <1>3, ClientAsk, NodeAsk DEF Next

(* If no address changes after a node has joined, a client only gets frames  *)
(* of nodes that it, or an earlier connection with the same descriptor, sent *)
(* a request to, however long the routes in node_sockt_fd outlive it.        *)
THEOREM FramesReach ==
  ASSUME MaxRenew = 0
  PROVE  Spec => []FramesReachAskers
<1>1. TypeInv /\ RouteInv /\ AskInv /\ [Next]_vars => RouteInv' /\ AskInv'
  BY RouteStep, AskStep
<1>2. AskInv => FramesReachAskers
  BY DEF AskInv, GotAsked, FramesReachAskers, Asked, AskedFor
<1> QED BY <1>1, <1>2, RouteInit, AskInit, TypeInvariant, PTL DEF Spec
=============================================================================
