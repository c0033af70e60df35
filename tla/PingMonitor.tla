----------------------------- MODULE PingMonitor -----------------------------
(***************************************************************************)
(* The ping at the end of each iteration of start_monitor (hack_server.cpp):*)
(* nodeCounter walks over mesh.addrList, one entry per 1003 ms, and pingNode*)
(* keeps in failID the node whose ping failed last.  nodeCounter is a       *)
(* uint8_t and is compared with addrListTop by equality only, so with an    *)
(* empty list it runs over the end and reads whatever lies there.           *)
(***************************************************************************)
EXTENDS Integers, Sequences, SequenceTheorems, TLAPS

CONSTANTS ID,      \* IDs of the nodes that may join
          Junk     \* IDs memory behind the list may show

ASSUME PingAssumption == ID \subseteq 1 .. 255 /\ Junk \subseteq 0 .. 255

VARIABLES addrList,     \* mesh.addrList[0 .. addrListTop-1]; address 0: released, 1: any other
          nodeCounter, failID,
          index,        \* list index of the last ping, -1 before the first
          reads,        \* history: have all pings read "inside" the list?
          result        \* history: outcome of the last ping of each node

vars == <<addrList, nodeCounter, failID, index, reads, result>>

Entry == [id : ID, address : 0 .. 1]
Listed(id) == \E i \in DOMAIN addrList : addrList[i].id = id

Init ==
  /\ addrList = <<>>
  /\ nodeCounter = 0 /\ failID = 0 /\ index = -1 /\ reads = "inside"
  /\ result = [id \in ID |-> "none"]

-----------------------------------------------------------------------------
(* mesh.DHCP(): a new node is appended, and there is room for 255; a known  *)
(* one gets an address again.  A node that releases its address stays listed.     *)
Join(id) ==
  /\ ~Listed(id) /\ Len(addrList) < 255
  /\ addrList' = Append(addrList, [id |-> id, address |-> 1])
  /\ UNCHANGED <<nodeCounter, failID, index, reads, result>>

Relink(i, a) ==
  /\ i \in DOMAIN addrList
  /\ addrList' = [addrList EXCEPT ![i].address = a]
  /\ UNCHANGED <<nodeCounter, failID, index, reads, result>>

(* nodeCounter after the wrap at addrListTop, and after the increment.      *)
WrapEarly == IF nodeCounter = Len(addrList) - 1 THEN 0 ELSE nodeCounter
NoWrap == nodeCounter
Wrap == IF nodeCounter = Len(addrList) THEN 0 ELSE nodeCounter
IncrementInt(i) == i + 1
Increment(i) == (i + 1) % 256

(* pingNode(listNo) on the entry found there: no write to address 0; a      *)
(* failure is recorded, a success clears the record of the same node.       *)
FailAfterAny(id, outcome) == IF outcome = "ok" THEN failID ELSE id
FailAfter(id, outcome) ==
  IF outcome = "fail" THEN id ELSE IF failID = id THEN 0 ELSE failID

pingNode(e) ==
  \/ e.address = 0 /\ UNCHANGED <<failID, result>>
  \/ /\ e.address # 0
     /\ \E outcome \in {"ok", "fail"} :
          /\ failID' = FailAfter(e.id, outcome)
          /\ result' = [id \in ID |-> IF id = e.id THEN outcome ELSE result[id]]

(* The timer has expired: wrap, ping, increment.                            *)
Ping ==
  /\ index' = Wrap
  /\ nodeCounter' = Increment(Wrap)
  /\ \/ /\ Wrap < Len(addrList)
        /\ reads' = reads
        /\ pingNode(addrList[Wrap + 1])
     \/ /\ Wrap >= Len(addrList)
        /\ reads' = "outside"
        /\ \E id \in Junk, a \in 0 .. 1 : pingNode([id |-> id, address |-> a])
  /\ UNCHANGED addrList

Next ==
  \/ Ping
  \/ \E id \in ID : Join(id)
  \/ \E i \in 1 .. Len(addrList), a \in 0 .. 1 : Relink(i, a)

Spec == Init /\ [][Next]_vars

(* The monitor thread is scheduled and its clock advances.                  *)
FairSpec == Spec /\ WF_vars(Ping)

-----------------------------------------------------------------------------
TypeOK ==
  /\ addrList \in Seq(Entry)
  /\ nodeCounter \in 0 .. 255 /\ failID \in 0 .. 255 /\ index \in -1 .. 255
  /\ reads \in {"inside", "outside"}
  /\ result \in [ID -> {"none", "ok", "fail"}]

(* As long as no ping has read behind the list, failID is 0 or the ID of a  *)
(* node whose latest ping failed, however joins, releases and the pings of  *)
(* other nodes interleave.                                                  *)
FailIsLatest == reads = "inside" /\ failID # 0 => failID \in ID /\ result[failID] = "fail"

(* Once nodeCounter is inside a non-empty list no later ping leaves it.     *)
StaysInList ==
  [][addrList # <<>> /\ nodeCounter <= Len(addrList) => nodeCounter' <= Len(addrList')]_vars

(* Every listed node is pinged again and again ("continuously ping each of  *)
(* the child nodes"): after an overrun the uint8_t wrap brings nodeCounter  *)
(* back to the list.                                                        *)
EveryNodePinged ==
  \A id \in ID :
    Listed(id) ~> index + 1 \in DOMAIN addrList /\ addrList[index + 1].id = id

(* "Wait until a sensor node is connected": nothing is pinged before.       *)
WaitsForNode == [][Ping => addrList # <<>>]_vars

-----------------------------------------------------------------------------
(* Proofs, for every set of node IDs.                                       *)

\* Zenon is the default prover; steps with arithmetic name the SMT solver.
USE ZenonT(60)

(* The uint8_t increment stays in range, and is the plain successor below    *)
(* the wrap.                                                                 *)
LEMMA IncrementRange ==
  ASSUME NEW i \in 0 .. 255
  PROVE  Increment(i) \in 0 .. 255 /\ (i < 255 => Increment(i) = i + 1)
BY SMTT(60) DEF Increment

(* Every state has the types of hack_server.cpp's variables.                 *)
THEOREM TypeCorrect == Spec => []TypeOK
<1>1. Init => TypeOK
  BY PingAssumption, EmptySeq, SMTT(60) DEF Init, TypeOK
<1>2. TypeOK /\ [Next]_vars => TypeOK'
  <2> SUFFICES ASSUME TypeOK, [Next]_vars PROVE TypeOK'
    OBVIOUS
  <2> USE PingAssumption
  <2>1. ASSUME NEW id \in ID, Join(id) PROVE TypeOK'
    BY <2>1, AppendProperties, SMTT(60) DEF Join, TypeOK, Entry
  <2>2. ASSUME NEW i \in 1 .. Len(addrList), NEW a \in 0 .. 1, Relink(i, a)
        PROVE  TypeOK'
    <3>0. addrList[i] \in Entry
      BY ElementOfSeq DEF TypeOK
    <3>1. [addrList[i] EXCEPT !.address = a] \in Entry
      BY <3>0 DEF Entry
    <3>2. addrList' = [addrList EXCEPT ![i] = [addrList[i] EXCEPT !.address = a]]
      BY <2>2 DEF Relink
    <3>3. addrList' \in Seq(Entry)
      BY <3>1, <3>2, ExceptSeq DEF TypeOK
    <3> QED BY <2>2, <3>3 DEF Relink, TypeOK
  <2>3. CASE Ping
    <3>1. Wrap \in 0 .. 255
      BY SMTT(60) DEF Wrap, TypeOK
    <3>2. /\ index' = Wrap /\ nodeCounter' = Increment(Wrap) /\ addrList' = addrList
          /\ reads' \in {reads, "outside"}
      BY <2>3 DEF Ping
    <3>3. nodeCounter' \in 0 .. 255
      <4>1. Increment(Wrap) \in 0 .. 255
        BY <3>1, IncrementRange
      <4> QED BY <3>2, <4>1
    <3>4. PICK id \in 0 .. 255, a \in 0 .. 1 : pingNode([id |-> id, address |-> a])
      <4>1. CASE Wrap < Len(addrList)
        <5>1. addrList[Wrap + 1] \in Entry
          BY <3>1, <4>1, ElementOfSeq, SMTT(60) DEF TypeOK
        <5>2. PICK id \in ID, a \in 0 .. 1 : addrList[Wrap + 1] = [id |-> id, address |-> a]
          BY <5>1 DEF Entry
        <5>3. pingNode([id |-> id, address |-> a])
          BY <2>3, <3>1, <4>1, <5>2, SMTT(60) DEF Ping, TypeOK
        <5>4. id \in 0 .. 255 /\ a \in 0 .. 1
          BY <5>2, SMTT(60)
        <5> QED BY <5>3, <5>4
      <4>2. CASE ~(Wrap < Len(addrList))
        BY <2>3, <4>2 DEF Ping
      <4> QED BY <4>1, <4>2
    <3>5. failID' \in 0 .. 255 /\ result' \in [ID -> {"none", "ok", "fail"}]
      <4>1. CASE a = 0
        BY <3>4, <4>1, SMTT(60) DEF pingNode, TypeOK
      <4>2. CASE a # 0
        <5>1. PICK outcome \in {"ok", "fail"} :
                /\ failID' = FailAfter(id, outcome)
                /\ result' = [j \in ID |-> IF j = id THEN outcome ELSE result[j]]
          BY <3>4, <4>2, SMTT(60) DEF pingNode
        <5> QED BY <5>1, SMTT(60) DEF FailAfter, TypeOK
      <4> QED BY <4>1, <4>2
    <3> QED BY <3>1, <3>2, <3>3, <3>5, SMTT(60) DEF TypeOK
  <2>4. CASE UNCHANGED vars
    BY <2>4 DEF vars, TypeOK
  <2> QED BY <2>1, <2>2, <2>3, <2>4 DEF Next
<1> QED BY <1>1, <1>2, PTL DEF Spec

(* Until a ping reads behind the list, failID is 0 or a node whose latest    *)
(* ping failed, for any number of nodes.                                     *)
THEOREM FailCorrect == Spec => []FailIsLatest
<1>1. Init => FailIsLatest
  BY DEF Init, FailIsLatest
<1>2. TypeOK /\ FailIsLatest /\ [Next]_vars => FailIsLatest'
  <2> SUFFICES ASSUME TypeOK, FailIsLatest, [Next]_vars PROVE FailIsLatest'
    OBVIOUS
  <2> USE PingAssumption DEF FailIsLatest
  <2>1. ASSUME NEW id \in ID, Join(id) PROVE FailIsLatest'
    BY <2>1 DEF Join
  <2>2. ASSUME NEW i \in 1 .. Len(addrList), NEW a \in 0 .. 1, Relink(i, a)
        PROVE  FailIsLatest'
    BY <2>2 DEF Relink
  <2>3. CASE Ping
    <3>1. CASE Wrap < Len(addrList)
      <4>0. Wrap \in 0 .. 255
        BY SMTT(60) DEF Wrap, TypeOK
      <4>1. /\ addrList[Wrap + 1].id \in ID
            /\ reads' = reads /\ pingNode(addrList[Wrap + 1])
        <5>1. addrList[Wrap + 1] \in Entry
          BY <3>1, <4>0, ElementOfSeq, SMTT(60) DEF TypeOK
        <5>2. reads' = reads /\ pingNode(addrList[Wrap + 1])
          BY <2>3, <3>1, <4>0, LenProperties, SMTT(60) DEF Ping, TypeOK
        <5> QED BY <5>1, <5>2 DEF Entry
      <4>2. CASE addrList[Wrap + 1].address = 0
        BY <4>1, <4>2, SMTT(60) DEF pingNode
      <4>3. CASE addrList[Wrap + 1].address # 0
        <5>1. PICK outcome \in {"ok", "fail"} :
                /\ failID' = FailAfter(addrList[Wrap + 1].id, outcome)
                /\ result' = [j \in ID |-> IF j = addrList[Wrap + 1].id THEN outcome ELSE result[j]]
          BY <4>1, <4>3 DEF pingNode
        <5> QED BY <4>1, <5>1 DEF FailAfter
      <4> QED BY <4>2, <4>3
    <3>2. CASE ~(Wrap < Len(addrList))
      BY <2>3, <3>2 DEF Ping
    <3> QED BY <3>1, <3>2
  <2>4. CASE UNCHANGED vars
    BY <2>4 DEF vars
  <2> QED BY <2>1, <2>2, <2>3, <2>4 DEF Next
<1> QED BY <1>1, <1>2, TypeCorrect, PTL DEF Spec

(* A nodeCounter inside a non-empty list never leaves it again.              *)
THEOREM CounterStays == Spec => StaysInList
<1>1. TypeOK /\ [Next]_vars =>
        [addrList # <<>> /\ nodeCounter <= Len(addrList) => nodeCounter' <= Len(addrList')]_vars
  <2> SUFFICES ASSUME TypeOK, Next, addrList # <<>>, nodeCounter <= Len(addrList)
               PROVE  nodeCounter' <= Len(addrList')
    OBVIOUS
  <2>1. Len(addrList) \in Nat \ {0} /\ nodeCounter \in 0 .. 255
    BY EmptySeq DEF TypeOK
  <2>2. ASSUME NEW id \in ID, Join(id) PROVE nodeCounter' <= Len(addrList')
    BY <2>1, <2>2, AppendProperties, PingAssumption, SMTT(60) DEF Join, TypeOK, Entry
  <2>3. ASSUME NEW i \in 1 .. Len(addrList), NEW a \in 0 .. 1, Relink(i, a)
        PROVE  nodeCounter' <= Len(addrList')
    BY <2>1, <2>3, SMTT(60) DEF Relink, TypeOK
  <2>4. CASE Ping
    BY <2>1, <2>4, SMTT(60) DEF Ping, Wrap, Increment
  <2> QED BY <2>2, <2>3, <2>4 DEF Next
<1> QED BY <1>1, TypeCorrect, PTL DEF Spec, StaysInList
=============================================================================
