-------------------------------- MODULE Gpio --------------------------------
(***************************************************************************)
(* The output pins of the board and the programs that write them through   *)
(* sysfs: the gateway (gateway/src/gpio_ops.c) and the command line tool   *)
(* (gateway/src/peripheral_ctrl.c), which has the same functions.          *)
(*                                                                         *)
(* A function is the sequence of the file writes that it makes; each write *)
(* is a step, so two programs interleave between any two.  The sleeps      *)
(* between writes are not visible here: a program may rest anywhere.  A    *)
(* write to a file of sysfs succeeds when the file exists and the kernel   *)
(* takes the value; the code ignores all failures.                         *)
(***************************************************************************)
EXTENDS Naturals, Sequences

CONSTANTS
  Gateway,   \* the gateway
  Tools,     \* runs of the tool at the same time
  Commands   \* what a tool may be asked to do

Programs == {Gateway} \cup Tools

Relay  == "relay"
Buzzer == "buzzer"
Red    == "red"
Green  == "green"
Blue   == "blue"
IR     == "ir"

Outputs == {Relay, Buzzer, Red, Green, Blue}
Pins == Outputs \cup {IR}

VARIABLES
  direction,  \* of each pin; "none" as long as it is not exported
  level,      \* of each pin
  running,    \* the programs that run
  script,     \* what each program does, or did last
  todo,       \* the writes it has not made
  alone       \* history: no other program ran since this one's script began

pinVars == <<direction, level, running, script, todo, alone>>

-----------------------------------------------------------------------------
(* The functions, as the writes they make. *)

On(p)  == [op |-> "value", pin |-> p, val |-> "1"]
Off(p) == [op |-> "value", pin |-> p, val |-> "0"]
Out(p) == [op |-> "direction", pin |-> p, val |-> IF p = IR THEN "in" ELSE "out"]

Order == <<Relay, Buzzer, Red, Green, Blue, IR>>

gpio_export_all ==
  [i \in 1 .. 6 |-> [op |-> "export", pin |-> Order[i], val |-> "0"]]
  \o [i \in 1 .. 6 |-> Out(Order[i])]

Lit ==
  [red   |-> {Red},   green |-> {Green}, blue |-> {Blue},
   white |-> {Red, Green, Blue}, off |-> {}]

rgb_led(color) ==
  [i \in 1 .. 3 |->
     LET p == <<Red, Green, Blue>>[i] IN IF p \in Lit[color] THEN On(p) ELSE Off(p)]

(* The two halves of trigger_alarm(), with two seconds between them. *)
Sound == rgb_led("red") \o <<On(Buzzer), On(Relay)>>

(* Mutant: the relay is switched on a second time. *)
ClearWrong == <<Off(Buzzer), On(Relay)>> \o rgb_led("green")

Clear == <<Off(Buzzer), Off(Relay)>> \o rgb_led("green")

trigger_alarm == Sound \o Clear

(* main() of the tool.  "none" stands for a call without a known command,  *)
(* "ir" for the one that only reads.                                       *)
Script ==
  [none |-> <<>>, ir |-> <<>>,
   relay_on |-> <<On(Relay)>>, relay_off |-> <<Off(Relay)>>,
   buzzer_on |-> <<On(Buzzer)>>, buzzer_off |-> <<Off(Buzzer)>>,
   red |-> rgb_led("red"), green |-> rgb_led("green"), blue |-> rgb_led("blue"),
   white |-> rgb_led("white"), off |-> rgb_led("off"),
   alarm |-> trigger_alarm,
   demo |-> rgb_led("red") \o rgb_led("green") \o rgb_led("blue") \o rgb_led("white")
            \o rgb_led("off") \o <<On(Buzzer), Off(Buzzer), On(Relay), Off(Relay)>>
            \o trigger_alarm]

ASSUME CommandAssumption == Commands \subseteq DOMAIN Script

-----------------------------------------------------------------------------
PinInit ==
  /\ direction = [p \in Pins |-> "none"]
  /\ level = [p \in Pins |-> "0"]
  /\ running = {}
  /\ script = [q \in Programs |-> "none"]
  /\ todo = [q \in Programs |-> <<>>]
  /\ alone = [q \in Programs |-> FALSE]

(* Program q begins to make the writes w. *)
Begin(q, s, w) ==
  /\ script' = [script EXCEPT ![q] = s]
  /\ todo' = [todo EXCEPT ![q] = w]
  /\ alone' = [r \in Programs |-> r = q /\ running \subseteq {q}]
  /\ UNCHANGED <<direction, level>>

(* Mutant: pins that are exported already are left alone. *)
StartProgramKeeping(q) ==
  /\ q \notin running
  /\ running' = running \cup {q}
  /\ Begin(q, "start", IF direction[Relay] = "none" THEN gpio_export_all ELSE <<>>)

(* The start of a program: it exports the pins and sets their directions. *)
StartProgram(q) ==
  /\ q \notin running
  /\ running' = running \cup {q}
  /\ Begin(q, "start", gpio_export_all)

(* The gateway sounds an alarm, time and again; a tool does one thing. *)
Call(q, c) ==
  /\ q \in running
  /\ todo[q] = <<>>
  /\ IF q = Gateway THEN c = "alarm" ELSE script[q] = "start"
  /\ Begin(q, c, Script[c])
  /\ UNCHANGED running

(* What the kernel does with a write.  Exporting a pin twice fails.  The   *)
(* direction "out" drives the pin low.  An input takes no value.           *)
Export(p) ==
  /\ direction' = [direction EXCEPT ![p] = IF @ = "none" THEN "in" ELSE @]
  /\ UNCHANGED level

SetDirection(p, d) ==
  IF direction[p] = "none"
    THEN UNCHANGED <<direction, level>>
    ELSE /\ direction' = [direction EXCEPT ![p] = d]
         /\ level' = IF d = "out" THEN [level EXCEPT ![p] = "0"] ELSE level

(* Mutant: the value is inverted, as for an active-low pin. *)
gpio_write_inverted(p, v) ==
  /\ level' = IF direction[p] = "out" THEN [level EXCEPT ![p] = IF v = "1" THEN "0" ELSE "1"] ELSE level
  /\ UNCHANGED direction

gpio_write(p, v) ==
  /\ level' = IF direction[p] = "out" THEN [level EXCEPT ![p] = v] ELSE level
  /\ UNCHANGED direction

Write(q) ==
  /\ q \in running
  /\ todo[q] # <<>>
  /\ LET w == Head(todo[q]) IN
       CASE w.op = "export"    -> Export(w.pin)
         [] w.op = "direction" -> SetDirection(w.pin, w.val)
         [] w.op = "value"     -> gpio_write(w.pin, w.val)
  /\ todo' = [todo EXCEPT ![q] = Tail(@)]
  /\ UNCHANGED <<running, script, alone>>

(* Program q returns from main(), or a signal ends it anywhere.  The pins  *)
(* stay as they are.                                                       *)
EndProgram(q) ==
  /\ q \in running
  /\ running' = running \ {q}
  /\ UNCHANGED <<direction, level, script, todo, alone>>

PinNext ==
  \E q \in Programs :
    StartProgram(q) \/ (\E c \in Commands : Call(q, c)) \/ Write(q) \/ EndProgram(q)

PinSpec == PinInit /\ [][PinNext]_pinVars

-----------------------------------------------------------------------------
(* Properties *)

Writes == [op : {"export", "direction", "value"}, pin : Pins, val : {"0", "1", "in", "out"}]

PinTypeOK ==
  /\ direction \in [Pins -> {"none", "in", "out"}]
  /\ level \in [Pins -> {"0", "1"}]
  /\ running \subseteq Programs
  /\ script \in [Programs -> DOMAIN Script \cup {"start"}]
  /\ todo \in [Programs -> Seq(Writes)]
  /\ alone \in [Programs -> BOOLEAN]

Lights == {p \in Outputs : level[p] = "1"}

(* An alarm that no other program disturbed sounds as it should, and ends  *)
(* with everything off but the green light.                                *)
AlarmUndisturbed ==
  \A q \in Programs :
    alone[q] /\ script[q] \in {"alarm", "demo"} =>
      /\ todo[q] = Clear => Lights = {Red, Buzzer, Relay}
      /\ todo[q] = <<>> => Lights = {Green}

(* Whatever a program that was killed left switched on, the next start of  *)
(* one switches off.                                                       *)
StartSilences ==
  \A q \in Programs :
    alone[q] /\ script[q] = "start" /\ todo[q] = <<>> => Lights = {}

(* When two programs write at once, colours mix, but relay and buzzer are  *)
(* on only by a command to switch them on, or as long as a program, alive  *)
(* or killed, has not come to switching them off.                          *)
SwitchesOff(w, p) == w.pin = p /\ w.op \in {"direction", "value"} /\ w.val \in {"0", "out"}
NoStrayOutput ==
  \A p \in {Relay, Buzzer} :
    level[p] = "1" =>
      \E q \in Programs :
        \/ \E i \in DOMAIN todo[q] : SwitchesOff(todo[q][i], p)
        \/ script[q] = (IF p = Relay THEN "relay_on" ELSE "buzzer_on")

=============================================================================
