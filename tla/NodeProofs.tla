----------------------------- MODULE NodeProofs -----------------------------
(****************************************************************************)
(* What the node's answers promise, for every retry limit, every set of     *)
(* pins and messages, and interrupts at every point.                        *)
(****************************************************************************)
EXTENDS Node, SequenceTheorems, TLAPS

SentPayload ==
  [protocol : Protocols \cup {rf_one_wire_onoff}, pin : Pins, data : Data \cup {0, 1}]

Context ==
  [pc : {"idle", "send", "writing"}, type : {"-", "S", "G", "P", "R"}, p : SentPayload,
   tries : Nat, heard : Nat, ok : BOOLEAN, hit : BOOLEAN]

PinState == [mode : [Pins -> {INPUT, OUTPUT}], out : [Pins -> {0, 1}], attached : SUBSET Line]

(* How far one send_message has come: between two writes there is one left, *)
(* during a write the gateway has heard the earlier ones at most.           *)
Progress(c) ==
  /\ c.heard <= c.tries /\ c.tries <= RETRY_MAX
  /\ c.type = "-" => c.pc = "idle" /\ ~c.ok
  /\ c.pc = "send" => c.tries < RETRY_MAX
  /\ c.pc = "writing" => c.heard < c.tries
  /\ c.pc = "idle" /\ c.type # "-" =>
       IF c.ok THEN c.heard > 0 \/ c.hit ELSE c.tries = RETRY_MAX

NodeTypes ==
  /\ inbox \in Seq(Types \X Payload)
  /\ pins \in PinState /\ level \in [Pins -> {0, 1}]
  /\ main \in Context /\ isr \in Context

IInv ==
  /\ NodeTypes
  /\ Progress(main) /\ Progress(isr)
  /\ isr.type = "-" => ~main.hit
  /\ WatchAnswered /\ PutAnswered

-----------------------------------------------------------------------------
\* Zenon is the default prover; steps with arithmetic name the SMT solver.
USE ZenonT(60)

(* One write of send_message, from its call to its result, keeps Progress.  *)
LEMMA WriteBeginProgress ==
  ASSUME NEW c \in Context, Progress(c), c.pc = "send", NEW broken \in BOOLEAN
  PROVE  LET d == WriteBegin(c, broken) IN
           d \in Context /\ Progress(d) /\ d.hit = broken /\ d.type = c.type /\ d.p = c.p
<1> DEFINE d == WriteBegin(c, broken)
<1>a. c.tries + 1 \in Nat
  BY SMTT(60) DEF Context
<1>b. d \in Context
  BY <1>a DEF WriteBegin, Context
<1>1. /\ d.pc = "writing" /\ d.tries = c.tries + 1 /\ d.heard = c.heard
      /\ d.hit = broken /\ d.type = c.type /\ d.p = c.p
  BY DEF WriteBegin, Context
<1>2. Progress(d)
  BY <1>1, NodeAssumption, SMTT(60) DEF Progress, Context
<1> QED BY <1>b, <1>1, <1>2

LEMMA WriteEndProgress ==
  ASSUME NEW c \in Context, Progress(c), c.pc = "writing", NEW r \in WriteResults(c)
  PROVE  LET d == WriteEnd(c, r[1], r[2]) IN
           d \in Context /\ Progress(d) /\ d.hit = c.hit /\ d.type = c.type /\ d.p = c.p
<1> DEFINE d == WriteEnd(c, r[1], r[2])
<1>0. /\ r[1] \in BOOLEAN /\ r[2] \in BOOLEAN
      /\ r[2] => r[1] \/ c.hit
  <2>1. CASE r = <<TRUE, TRUE>>
    BY <2>1
  <2>2. CASE r = <<TRUE, FALSE>>
    BY <2>2
  <2>3. CASE r = <<FALSE, FALSE>>
    BY <2>3
  <2>4. CASE c.hit /\ r = <<FALSE, TRUE>>
    BY <2>4
  <2> QED BY <2>1, <2>2, <2>3, <2>4 DEF WriteResults
<1>1. /\ d.heard = c.heard + (IF r[1] THEN 1 ELSE 0)
      /\ d.pc = AfterWrite(c, r[2]) /\ d.ok = r[2] /\ d.tries = c.tries
      /\ d.hit = c.hit /\ d.type = c.type /\ d.p = c.p
  BY DEF WriteEnd, Context
<1>2. AfterWrite(c, r[2]) \in {"idle", "send"}
  BY DEF AfterWrite
<1>3. c.heard + (IF r[1] THEN 1 ELSE 0) \in Nat
  BY SMTT(60) DEF Context
<1>4. d \in Context
  BY <1>0, <1>2, <1>3 DEF WriteEnd, Context
<1>5. Progress(d)
  <2>1. d.heard <= d.tries /\ d.tries <= RETRY_MAX
    BY <1>1, NodeAssumption, SMTT(60) DEF Progress, Context
  <2>2. d.type # "-"
    BY <1>1 DEF Progress
  <2>3. d.pc = "send" => d.tries < RETRY_MAX
    BY <1>1, NodeAssumption, SMTT(60) DEF Progress, Context, AfterWrite
  <2>4. d.pc # "writing"
    BY <1>1, <1>2
  <2>5. d.pc = "idle" => IF d.ok THEN d.heard > 0 \/ d.hit ELSE d.tries = RETRY_MAX
    <3>1. CASE r[2]
      <4>1. r[1] => d.heard > 0
        BY <1>1, SMTT(60) DEF Context
      <4> QED BY <1>0, <1>1, <3>1, <4>1
    <3>2. CASE ~r[2]
      BY <1>1, <3>2 DEF AfterWrite
    <3> QED BY <1>0, <3>1, <3>2
  <2> QED BY <2>1, <2>2, <2>3, <2>4, <2>5 DEF Progress
<1> QED BY <1>1, <1>4, <1>5

(* Before the first send_message; and at the start of one, nothing tried.   *)
LEMMA IdleProgress == Idle \in Context /\ Progress(Idle) /\ ~Idle.hit /\ Idle.type = "-"
<1> DEFINE q == CHOOSE p \in Payload : TRUE
<1>1. PICK a \in Protocols, b \in PinNums, e \in Data : TRUE
  BY NodeAssumption
<1>2. [protocol |-> a, pin |-> b, data |-> e] \in Payload
  BY DEF Payload
<1>3. q \in Payload
  BY <1>2
<1>4. q \in SentPayload
  BY <1>3 DEF Payload, SentPayload, Pins
<1>5. Idle = [pc |-> "idle", type |-> "-", p |-> q, tries |-> 0, heard |-> 0,
              ok |-> FALSE, hit |-> FALSE]
  BY DEF Idle
<1> HIDE DEF q
<1> QED BY <1>4, <1>5, NodeAssumption, SMTT(60) DEF Context, Progress

LEMMA StartProgress ==
  ASSUME NEW t \in {"S", "G", "P", "R"}, NEW p \in SentPayload
  PROVE  LET d == Start(t, p) IN
           d \in Context /\ Progress(d) /\ ~d.hit /\ d.type = t /\ d.p = p
<1> DEFINE d == Start(t, p)
<1>0. Idle \in Context /\ ~Idle.hit /\ Idle.tries = 0 /\ Idle.heard = 0
  <2>1. Idle.tries = 0 /\ Idle.heard = 0
    BY DEF Idle
  <2> QED BY <2>1, IdleProgress
<1>1. d \in Context
  BY <1>0 DEF Start, Context
<1>2. /\ d.pc = "send" /\ d.type = t /\ d.p = p
      /\ d.tries = 0 /\ d.heard = 0 /\ ~d.hit
  BY <1>0 DEF Start, Context
<1>3. Progress(d)
  BY <1>2, NodeAssumption, SMTT(60) DEF Progress
<1> QED BY <1>1, <1>2, <1>3

(* What a handler leaves behind agrees with the payload it sends back.      *)
LEMMA HandleAnswers ==
  ASSUME NEW s \in PinState, NEW lv \in [Pins -> {0, 1}],
         NEW t \in {"S", "G", "P"}, NEW p \in Payload
  PROVE  LET done == Handle(s, lv, t, p) IN
           /\ done[1] \in PinState /\ done[2] \in SentPayload
           /\ t = "S" => \A i \in Line :
                PinOf(i) = done[2].pin => (i \in done[1].attached <=> done[2].data # 0)
           /\ t = "P" => /\ done[1].mode[done[2].pin] = OUTPUT
                         /\ (done[1].out[done[2].pin] = 1) <=> (done[2].data # 0)
<1> DEFINE done == Handle(s, lv, t, p)
<1>0. p \in SentPayload /\ p.pin \in Pins
  BY DEF Payload, SentPayload, Pins
<1>m. ASSUME NEW m \in {INPUT, OUTPUT}
      PROVE  LET u == pinMode(s, p.pin, m) IN
               u \in PinState /\ u.mode[p.pin] = m /\ u.out = s.out /\ u.attached = s.attached
  BY <1>0, <1>m DEF pinMode, PinState
<1>1. CASE t = "S"
  <2> DEFINE u == pinMode(s, p.pin, INPUT)
  <2>1. u \in PinState
    BY <1>m
  <2>2. Attach(u.attached, p) \in SUBSET Line
    BY <2>1 DEF Attach, PinState
  <2>3. done = <<[u EXCEPT !.attached = Attach(@, p)], p>>
    BY <1>1 DEF Handle, handle_S_message
  <2>4. done[1] \in PinState /\ done[1].attached = Attach(u.attached, p) /\ done[2] = p
    BY <2>1, <2>2, <2>3, SMTT(60) DEF PinState
  <2>5. \A i \in Line : PinOf(i) = p.pin => (i \in Attach(u.attached, p) <=> p.data # 0)
    BY DEF Attach
  <2> QED BY <1>0, <1>1, <2>4, <2>5
<1>2. CASE t = "G"
  <2> DEFINE u == pinMode(s, p.pin, INPUT)
  <2>1. u \in PinState /\ u.mode[p.pin] = INPUT
    BY <1>m
  <2>2. digitalRead(u, lv, p.pin) \in {0, 1}
    BY <1>0, <2>1 DEF digitalRead
  <2>3. done = <<u, [p EXCEPT !.data = digitalRead(u, lv, p.pin)]>>
    BY <1>2 DEF Handle, handle_G_message
  <2>4. [p EXCEPT !.data = digitalRead(u, lv, p.pin)] \in SentPayload
    BY <1>0, <2>2 DEF SentPayload
  <2> QED BY <1>2, <2>1, <2>3, <2>4, SMTT(60)
<1>3. CASE t = "P"
  <2> DEFINE u == pinMode(s, p.pin, OUTPUT)
             v == IF p.data # 0 THEN 1 ELSE 0
  <2>1. u \in PinState /\ u.mode[p.pin] = OUTPUT
    BY <1>m
  <2>3. done = <<[u EXCEPT !.out[p.pin] = v], p>>
    BY <1>3 DEF Handle, handle_P_message
  <2>4. done[1] \in PinState /\ done[1].mode = u.mode /\ done[1].out[p.pin] = v
    <3> HIDE DEF u
    <3> QED BY <1>0, <2>1, <2>3, SMTT(60) DEF PinState
  <2> QED BY <1>0, <1>3, <2>1, <2>3, <2>4, SMTT(60)
<1> QED BY <1>1, <1>2, <1>3

-----------------------------------------------------------------------------
LEMMA InitIInv == Init => IInv
<1> SUFFICES ASSUME Init PROVE IInv
  OBVIOUS
<1>1. inbox \in Seq(Types \X Payload)
  BY EmptySeq DEF Init
<1>2. pins \in PinState /\ level \in [Pins -> {0, 1}]
  BY DEF Init, PinState
<1>3. main = Idle /\ isr = Idle
  BY DEF Init
<1> QED BY <1>1, <1>2, <1>3, IdleProgress DEF IInv, NodeTypes, WatchAnswered, PutAnswered

(* An interrupt marks a send_message that has not ended, and changes nothing *)
(* else of it.                                                               *)
LEMMA HitProgress ==
  ASSUME NEW c \in Context, Progress(c), c.pc \in {"send", "writing"}, NEW broken \in BOOLEAN
  PROVE  LET d == [c EXCEPT !.hit = broken] IN
           d \in Context /\ Progress(d) /\ d.type = c.type /\ d.p = c.p
<1> DEFINE d == [c EXCEPT !.hit = broken]
<1>1. d \in Context
  BY DEF Context
<1>2. /\ d.pc = c.pc /\ d.tries = c.tries /\ d.heard = c.heard
      /\ d.type = c.type /\ d.p = c.p
  BY DEF Context
<1>3. Progress(d)
  BY <1>2 DEF Progress
<1> QED BY <1>1, <1>2, <1>3

(* The answer the main program is sending, and the pins, decide the two     *)
(* properties of answers.                                                   *)
LEMMA AnswersUnchanged ==
  ASSUME WatchAnswered, PutAnswered, pins' = pins, main'.type = main.type, main'.p = main.p
  PROVE  WatchAnswered' /\ PutAnswered'
BY DEF WatchAnswered, PutAnswered

LEMMA LoopStep ==
  ASSUME IInv, loop
  PROVE  IInv'
<1> USE DEF IInv, NodeTypes
<1> DEFINE type == Head(inbox)[1]
           p == Head(inbox)[2]
           done == Handle(pins, level, type, p)
<1>1. Head(inbox) \in Types \X Payload /\ inbox' \in Seq(Types \X Payload)
  BY HeadTailProperties DEF loop
<1>2. p \in Payload
  BY <1>1
<1>3. level' = level /\ isr' = isr
  BY DEF loop
<1>4. CASE Known(type, p)
  <2>1. type \in {"S", "G", "P"}
    BY <1>4 DEF Known
  <2>2. pins' = done[1] /\ main' = Start(type, done[2])
    BY <1>4 DEF loop
  <2> HIDE DEF type, p
  <2>3. /\ done[1] \in PinState /\ done[2] \in SentPayload
        /\ type = "S" => \A i \in Line :
             PinOf(i) = done[2].pin => (i \in done[1].attached <=> done[2].data # 0)
        /\ type = "P" => /\ done[1].mode[done[2].pin] = OUTPUT
                         /\ (done[1].out[done[2].pin] = 1) <=> (done[2].data # 0)
    BY <1>2, <2>1, HandleAnswers
  <2> HIDE DEF done
  <2>4. main' \in Context /\ Progress(main') /\ main'.type = type /\ main'.p = done[2]
    BY <2>1, <2>2, <2>3, StartProgress, SMTT(60)
  <2>5. WatchAnswered' /\ PutAnswered'
    BY <2>2, <2>3, <2>4 DEF WatchAnswered, PutAnswered
  <2>6. Progress(isr)' /\ Progress(main)'
    BY <1>3, <2>4 DEF Progress
  <2>7. ~main'.hit
    BY <2>1, <2>2, <2>3, StartProgress, SMTT(60)
  <2>8. NodeTypes'
    BY <1>1, <1>3, <2>2, <2>3, <2>4
  <2> QED BY <2>5, <2>6, <2>7, <2>8
<1>5. CASE ~Known(type, p)
  <2>1. pins' = pins /\ main' = main
    BY <1>5 DEF loop
  <2> QED BY <1>1, <1>3, <2>1, AnswersUnchanged DEF Progress
<1> QED BY <1>4, <1>5

LEMMA SendStep ==
  ASSUME IInv, send_message
  PROVE  IInv'
<1> USE DEF IInv, NodeTypes
<1>1. UNCHANGED <<inbox, pins, level, isr>>
  BY DEF send_message
<1>2. /\ main' \in Context /\ Progress(main') /\ main'.type = main.type /\ main'.p = main.p
      /\ main'.hit => main.hit
  <2>1. CASE main.pc = "send" /\ main' = WriteBegin(main, FALSE)
    BY <2>1, WriteBeginProgress
  <2>2. ASSUME main.pc = "writing", NEW r \in WriteResults(main),
               main' = WriteEnd(main, r[1], r[2])
        PROVE  /\ main' \in Context /\ Progress(main')
               /\ main'.type = main.type /\ main'.p = main.p /\ main'.hit = main.hit
    BY <2>2, WriteEndProgress
  <2> QED BY <2>1, <2>2 DEF send_message
<1>3. WatchAnswered' /\ PutAnswered'
  BY <1>1, <1>2, AnswersUnchanged
<1> QED BY <1>1, <1>2, <1>3 DEF Progress

LEMMA IsrSendStep ==
  ASSUME IInv, isr_send_message
  PROVE  IInv'
<1> USE DEF IInv, NodeTypes
<1>1. UNCHANGED <<inbox, pins, level, main>>
  BY DEF isr_send_message
<1>2. isr' \in Context /\ Progress(isr') /\ isr'.type = isr.type
  <2>1. CASE isr.pc = "send" /\ isr' = WriteBegin(isr, isr.hit)
    <3>1. isr.hit \in BOOLEAN
      BY DEF Context
    <3> QED BY <2>1, <3>1, WriteBeginProgress
  <2>2. ASSUME isr.pc = "writing", NEW r \in WriteResults(isr),
               isr' = WriteEnd(isr, r[1], r[2])
        PROVE  isr' \in Context /\ Progress(isr') /\ isr'.type = isr.type
    BY <2>2, WriteEndProgress
  <2> QED BY <2>1, <2>2 DEF isr_send_message
<1>3. WatchAnswered' /\ PutAnswered'
  BY <1>1, AnswersUnchanged
<1> QED BY <1>1, <1>2, <1>3 DEF Progress

LEMMA InterruptStep ==
  ASSUME IInv, NEW i \in Line, interrupt(i)
  PROVE  IInv'
<1> USE DEF IInv, NodeTypes
<1> DEFINE q == [protocol |-> rf_one_wire_onoff, pin |-> PinOf(i), data |-> 1]
<1>1. PICK broken \in BOOLEAN :
        UNCHANGED <<inbox, pins, level>> /\ isr' = [Start("R", q) EXCEPT !.hit = broken]
  BY DEF interrupt, RadioInUse
<1>2. q \in SentPayload
  BY DEF SentPayload, Line
<1>3. isr' \in Context /\ Progress(isr') /\ isr'.type = "R"
  <2> HIDE DEF q
  <2>1. LET d == Start("R", q) IN d \in Context /\ Progress(d) /\ d.type = "R"
    BY <1>2, StartProgress
  <2>2. Start("R", q).pc = "send"
    BY <2>1 DEF Start, Context
  <2> QED BY <1>1, <2>1, <2>2, HitProgress
<1>4. main' \in Context /\ Progress(main') /\ main'.type = main.type /\ main'.p = main.p
  <2>1. CASE main.pc = "writing"
    BY <2>1, HitProgress DEF interrupt
  <2>2. CASE main.pc # "writing"
    BY <2>2 DEF interrupt
  <2> QED BY <2>1, <2>2
<1>5. WatchAnswered' /\ PutAnswered'
  BY <1>1, <1>4, AnswersUnchanged
<1> QED BY <1>1, <1>3, <1>4, <1>5 DEF Progress

LEMMA WorldStep ==
  ASSUME IInv,
         \/ \E type \in Types, p \in Payload : Arrive(type, p)
         \/ \E n \in Pins : LevelChange(n)
         \/ UNCHANGED vars
  PROVE  IInv'
<1> USE DEF IInv, NodeTypes
<1>1. pins' = pins /\ main' = main /\ isr' = isr
  BY DEF Arrive, LevelChange, vars
<1>2. inbox' \in Seq(Types \X Payload)
  <2>1. ASSUME NEW type \in Types, NEW p \in Payload, Arrive(type, p)
        PROVE  inbox' \in Seq(Types \X Payload)
    BY <2>1, AppendProperties DEF Arrive
  <2> QED BY <2>1 DEF LevelChange, vars
<1>3. level' \in [Pins -> {0, 1}]
  <2>1. ASSUME NEW n \in Pins, LevelChange(n)
        PROVE  level' \in [Pins -> {0, 1}]
    BY <2>1, SMTT(60) DEF LevelChange
  <2> QED BY <2>1 DEF Arrive, vars
<1>4. WatchAnswered' /\ PutAnswered'
  BY <1>1, AnswersUnchanged
<1> QED BY <1>1, <1>2, <1>3, <1>4 DEF Progress

LEMMA Inductive == Spec => []IInv
<1>1. IInv /\ [Next]_vars => IInv'
  BY LoopStep, SendStep, IsrSendStep, InterruptStep, WorldStep DEF Next
<1> QED BY InitIInv, <1>1, PTL DEF Spec

(* send_message, in the main program and in a handler, tries RETRY_MAX      *)
(* times at most, gives up only after that many, and reports a success only *)
(* for a write that was heard, or in which a handler and the main program    *)
(* met.                                                                     *)
THEOREM SendOutcomeHolds == Spec => []SendOutcome
<1>1. IInv => SendOutcome
  BY SMTT(60) DEF IInv, Progress, SendOutcome
<1> QED BY Inductive, <1>1, PTL

(* The answers of a node on which interrupt_0 and interrupt_1 never ran are  *)
(* counted as sent only if they were heard: a handler is the one way to a    *)
(* false success.                                                            *)
THEOREM HeardUntilInterruptHolds == Spec => []HeardUntilInterrupt
<1>1. IInv => HeardUntilInterrupt
  BY DEF IInv, Progress, HeardUntilInterrupt
<1> QED BY Inductive, <1>1, PTL

(* The answer to an 'S' tells the truth about the interrupt handler of its  *)
(* pin, whatever interrupts come before the next message is taken.          *)
THEOREM WatchAnsweredHolds == Spec => []WatchAnswered
<1>1. IInv => WatchAnswered
  BY DEF IInv
<1> QED BY Inductive, <1>1, PTL

(* The answer to a 'P' tells the truth about the level its pin is driven to.*)
THEOREM PutAnsweredHolds == Spec => []PutAnswered
<1>1. IInv => PutAnswered
  BY DEF IInv
<1> QED BY Inductive, <1>1, PTL

(* All the promises of the node together, for any pins, payloads, messages   *)
(* and limit of retries.                                                     *)
THEOREM NodeSafeHolds == Spec => []NodeSafe
<1>1. SendOutcome /\ HeardUntilInterrupt /\ WatchAnswered /\ PutAnswered => NodeSafe
  BY DEF NodeSafe
<1> QED BY SendOutcomeHolds, HeardUntilInterruptHolds, WatchAnsweredHolds, PutAnsweredHolds, <1>1, PTL
=============================================================================
