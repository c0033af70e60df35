-------------------------------- MODULE Node --------------------------------
(****************************************************************************)
(* The sensor node, ardrino_v1.cpp: the loop that reads a message, acts on  *)
(* a pin and sends the message back, the retries of send_message, and the   *)
(* two interrupt handlers, which run send_message themselves wherever the   *)
(* main program happens to be, inside its own radio write included.         *)
(*                                                                          *)
(* A payload is the record its bytes spell.  A radio write is two steps, so *)
(* that an interrupt can come between them.  On the AVR a handler runs with *)
(* interrupts off; an edge seen meanwhile is remembered, one per line.      *)
(****************************************************************************)
EXTENDS Integers, Sequences, FiniteSets

CONSTANTS
  Protocols, PinNums, Data,  \* fields of the payloads the gateway sends
  Types,       \* header types it sends
  MaxInbox,    \* frames the network layer holds
  RETRY_MAX    \* writes send_message tries

ASSUME NodeAssumption ==
  /\ RETRY_MAX \in Nat \ {0}
  /\ Protocols # {} /\ Data # {} /\ PinNums # {} /\ PinNums \subseteq Nat

Payload == [protocol : Protocols, pin : PinNums, data : Data]
rf_one_wire_onoff == 0
INPUT == "input"
OUTPUT == "output"

(* Interrupt line 0 is on pin 2 and line 1 on pin 3.                        *)
Pins == PinNums
PinOf(i) == i + 2
Line == {i \in {0, 1} : PinOf(i) \in Pins}

Idle == [pc |-> "idle", type |-> "-", p |-> CHOOSE p \in Payload : TRUE,
         tries |-> 0, heard |-> 0, ok |-> FALSE, hit |-> FALSE]

VARIABLES
  inbox,       \* frames received, <<type, payload>>
  pins,        \* what the program did to the pins, and the handlers attached
  level,       \* the level outside at each pin
  main,        \* send_message of the main program
  isr,         \* send_message of an interrupt handler
  flag         \* lines with a remembered edge

vars == <<inbox, pins, level, main, isr, flag>>

Init ==
  /\ inbox = <<>>
  /\ pins = [mode |-> [n \in Pins |-> INPUT], out |-> [n \in Pins |-> 0], attached |-> {}]
  /\ level \in [Pins -> {0, 1}]
  /\ main = Idle /\ isr = Idle /\ flag = {}

-----------------------------------------------------------------------------
(* The handlers: what a payload does to the pins, and the payload that goes *)
(* back; <<>> for a protocol that is not known.                             *)

Attach(attached, p) ==
  IF p.data # 0 THEN attached \cup {i \in Line : PinOf(i) = p.pin}
                ELSE attached \ {i \in Line : PinOf(i) = p.pin}

pinMode(s, pin, m) == [s EXCEPT !.mode[pin] = m]
digitalRead(s, lv, pin) == IF s.mode[pin] = INPUT THEN lv[pin] ELSE s.out[pin]

handle_S_message(s, lv, p) ==
  <<[pinMode(s, p.pin, INPUT) EXCEPT !.attached = Attach(@, p)], p>>

handle_G_message(s, lv, p) ==
  LET t == pinMode(s, p.pin, INPUT)
  IN  <<t, [p EXCEPT !.data = digitalRead(t, lv, p.pin)]>>

handle_P_message(s, lv, p) ==
  <<[pinMode(s, p.pin, OUTPUT) EXCEPT !.out[p.pin] = IF p.data # 0 THEN 1 ELSE 0], p>>

Handle(s, lv, type, p) ==
  CASE type = "S" -> handle_S_message(s, lv, p)
    [] type = "G" -> handle_G_message(s, lv, p)
    [] type = "P" -> handle_P_message(s, lv, p)

Known(type, p) == type \in {"S", "G", "P"} /\ p.protocol = rf_one_wire_onoff

-----------------------------------------------------------------------------
(* The world: the gateway's frames, the levels, the edges.                  *)

Arrive(type, p) ==
  /\ Len(inbox) < MaxInbox
  /\ inbox' = Append(inbox, <<type, p>>)
  /\ UNCHANGED <<pins, level, main, isr, flag>>

(* Lines whose pin rises between two states of pins and levels.  The AVR     *)
(* sees the edge whoever makes it, a digitalWrite included.                 *)
Rising(s, lv, t, lw) ==
  {i \in s.attached : digitalRead(s, lv, PinOf(i)) = 0 /\ digitalRead(t, lw, PinOf(i)) = 1}

LevelChange(n) ==
  /\ level' = [level EXCEPT ![n] = 1 - @]
  /\ flag' = flag \cup Rising(pins, level, pins, level')
  /\ UNCHANGED <<inbox, pins, main, isr>>

-----------------------------------------------------------------------------
(* send_message, for the main program and for a handler.                    *)

Start(type, p) == [Idle EXCEPT !.pc = "send", !.type = type, !.p = p]

WriteBegin(c, broken) == [c EXCEPT !.pc = "writing", !.tries = @ + 1, !.hit = broken]

(* mesh.write(): heard or not, and acknowledged or not.  A write that an    *)
(* interrupt handler broke into, and one of a handler that broke into what  *)
(* the main program was doing with the radio, may also report a success     *)
(* that is none.                                                            *)
WriteResults(c) ==
  {<<TRUE, TRUE>>, <<TRUE, FALSE>>, <<FALSE, FALSE>>}
  \cup IF c.hit THEN {<<FALSE, TRUE>>} ELSE {}

(* After a failure: checkConnection, perhaps renewAddress, and once more.   *)
AfterWrite(c, ack) == IF ack \/ c.tries = RETRY_MAX THEN "idle" ELSE "send"

WriteUnchecked(c, heard, ack) ==
  [c EXCEPT !.pc = "idle", !.heard = @ + IF heard THEN 1 ELSE 0, !.ok = TRUE]
WriteEnd(c, heard, ack) ==
  [c EXCEPT !.pc = AfterWrite(c, ack),
            !.heard = @ + IF heard THEN 1 ELSE 0,
            !.ok = ack]

-----------------------------------------------------------------------------
(* The main program; it stands still while a handler runs.                  *)

MainRuns == isr.pc = "idle"

loop ==
  /\ MainRuns /\ main.pc = "idle" /\ inbox # <<>>
  /\ inbox' = Tail(inbox)
  /\ LET type == Head(inbox)[1]
         p == Head(inbox)[2]
         done == Handle(pins, level, type, p)
     IN  IF Known(type, p)
         THEN /\ pins' = done[1] /\ main' = Start(type, done[2])
              /\ flag' = flag \cup Rising(pins, level, done[1], level)
         ELSE UNCHANGED <<pins, main, flag>>
  /\ UNCHANGED <<level, isr>>

send_message ==
  /\ MainRuns
  /\ \/ main.pc = "send" /\ main' = WriteBegin(main, FALSE)
     \/ main.pc = "writing" /\ \E r \in WriteResults(main) : main' = WriteEnd(main, r[1], r[2])
  /\ UNCHANGED <<inbox, pins, level, isr, flag>>

(* interrupt_0 and interrupt_1; the lower line goes first.  The radio may be *)
(* in use outside a write as well: mesh.update(), checkConnection() and     *)
(* renewAddress() of the main program can be broken into too.               *)
Due == flag \cap pins.attached
RadioInUse == IF main.pc = "writing" THEN {TRUE} ELSE BOOLEAN

interrupt(i) ==
  /\ isr.pc = "idle" /\ i \in Due /\ \A j \in Due : i <= j
  /\ flag' = flag \ {i}
  /\ \E broken \in RadioInUse :
       isr' = [Start("R", [protocol |-> rf_one_wire_onoff, pin |-> PinOf(i), data |-> 1])
                 EXCEPT !.hit = broken]
  /\ main' = IF main.pc = "writing" THEN [main EXCEPT !.hit = TRUE] ELSE main
  /\ UNCHANGED <<inbox, pins, level>>

isr_send_message ==
  /\ \/ isr.pc = "send" /\ isr' = WriteBegin(isr, isr.hit)
     \/ isr.pc = "writing" /\ \E r \in WriteResults(isr) : isr' = WriteEnd(isr, r[1], r[2])
  /\ UNCHANGED <<inbox, pins, level, main, flag>>

Next ==
  \/ loop \/ send_message \/ isr_send_message
  \/ \E i \in Line : interrupt(i)
  \/ \E type \in Types, p \in Payload : Arrive(type, p)
  \/ \E n \in Pins : LevelChange(n)

Spec == Init /\ [][Next]_vars

-----------------------------------------------------------------------------

(* What send_message may end with: an acknowledged write, which the gateway *)
(* heard unless a handler and the main program used the radio at the same   *)
(* time, or RETRY_MAX writes, of which it may have heard any number.        *)
SendOutcome ==
  \A c \in {main, isr} :
    /\ c.heard <= c.tries /\ c.tries <= RETRY_MAX
    /\ c.pc = "idle" /\ c.type # "-" =>
         IF c.ok THEN c.heard > 0 \/ c.hit ELSE c.tries = RETRY_MAX

(* Retries and messages alone never lead to a false success: until a handler *)
(* has run for the first time, an answer send_message counts as sent was     *)
(* heard, whatever was watched, driven and failed before.                    *)
HeardUntilInterrupt ==
  isr.type = "-" /\ main.pc = "idle" /\ main.ok => main.heard > 0

(* From the first write of the answer to an 'S' until the next message is   *)
(* taken, interrupts included, the handler of that pin is attached exactly  *)
(* if the answer says so.                                                   *)
WatchAnswered ==
  main.type = "S" =>
    \A i \in Line : PinOf(i) = main.p.pin => (i \in pins.attached <=> main.p.data # 0)

(* A pin the answer to a 'P' speaks of is driven to what it says, until the *)
(* next message is taken, interrupts included.                              *)
PutAnswered ==
  main.type = "P" =>
    /\ pins.mode[main.p.pin] = OUTPUT
    /\ (pins.out[main.p.pin] = 1) <=> (main.p.data # 0)

(* The loop gets to every message, however many interrupts come.            *)
Unhandled == Len(inbox) = MaxInbox

(* A rising edge on a watched pin 2 is reported, if it stays watched.       *)
Unreported == 0 \in Due
Reported == (isr.type = "R" /\ isr.p.pin = 2) \/ 0 \notin Due

(* All that the answers of the node promise.                                *)
NodeSafe == SendOutcome /\ HeardUntilInterrupt /\ WatchAnswered /\ PutAnswered
=============================================================================
