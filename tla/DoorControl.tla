------------------------------ MODULE DoorControl ------------------------------
(***************************************************************************)
(* The control task and the door relay (main/door/control_task.cpp and     *)
(* control.cpp).  Unlock commands of the SM task and of the web UI go      *)
(* through one bounded queue to one task, which turns each into a pulse on *)
(* the relay pin.  The 500 ms of the pulse are the time between PulseBegin *)
(* and PulseEnd.                                                           *)
(***************************************************************************)
EXTENDS Integers, Sequences, Functions

CONSTANTS ControlQueueDepth    \* kQueueDepth (4)

ASSUME DoorAssumption == ControlQueueDepth \in Nat \ {0}

VARIABLES
  control_queue,      \* s_queue: commands waiting for the control task
  control_pc,         \* where control_task is: in xQueueReceive, holding a command, in the pulse
  cmd,                \* the command control_task took last
  gpio,               \* level of DOOR_GPIO
  pulse_in_progress   \* the atomic flag of door_trigger_pulse

doorVars == <<control_queue, control_pc, cmd, gpio, pulse_in_progress>>

ControlCommand == {"AutoUnlock", "ManualUnlock"}

DoorTypeOK ==
  /\ control_queue \in Seq(ControlCommand) /\ Len(control_queue) <= ControlQueueDepth
  /\ control_pc \in {"receive", "trigger", "pulse"}
  /\ cmd \in ControlCommand
  /\ gpio \in {0, 1}
  /\ pulse_in_progress \in BOOLEAN

DoorInit ==
  /\ control_queue = << >>
  /\ control_pc = "receive"
  /\ cmd \in ControlCommand
  /\ gpio = 0
  /\ pulse_in_progress = FALSE

\* control_queue_send: a full queue drops the command.
ControlQueueSend(c) ==
  /\ control_queue' = IF Len(control_queue) < ControlQueueDepth
                      THEN Append(control_queue, c) ELSE control_queue
  /\ UNCHANGED <<control_pc, cmd, gpio, pulse_in_progress>>

ControlReceive ==
  /\ control_pc = "receive" /\ control_queue # << >>
  /\ cmd' = Head(control_queue)
  /\ control_queue' = Tail(control_queue)
  /\ control_pc' = "trigger"
  /\ UNCHANGED <<gpio, pulse_in_progress>>

\* door_trigger_pulse up to the delay; a pulse already in progress skips it.
PulseBegin ==
  /\ control_pc = "trigger"
  /\ pulse_in_progress' = TRUE
  /\ IF pulse_in_progress
     THEN control_pc' = "receive" /\ UNCHANGED gpio
     ELSE control_pc' = "pulse" /\ gpio' = 1
  /\ UNCHANGED <<control_queue, cmd>>

\* Mutant: the flag stays set after the pulse.
PulseEnd_FlagStays ==
  /\ control_pc = "pulse"
  /\ gpio' = 0
  /\ control_pc' = "receive"
  /\ UNCHANGED <<control_queue, cmd, pulse_in_progress>>

\* Mutant: the pin is not released.
PulseEnd_PinStays ==
  /\ control_pc = "pulse"
  /\ pulse_in_progress' = FALSE
  /\ control_pc' = "receive"
  /\ UNCHANGED <<control_queue, cmd, gpio>>

PulseEnd ==
  /\ control_pc = "pulse"
  /\ gpio' = 0
  /\ pulse_in_progress' = FALSE
  /\ control_pc' = "receive"
  /\ UNCHANGED <<control_queue, cmd>>

ControlTask == ControlReceive \/ PulseBegin \/ PulseEnd

-------------------------------------------------------------------------------
\* A command is on its way from the queue to the relay, or there.
UnderWay(c) == c \in Range(control_queue) \/ (control_pc # "receive" /\ cmd = c)

\* A command that was accepted into the queue is carried out, whatever else is
\* sent meanwhile (control_task: serialised, in order, never preempted).
CommandsArePulsed ==
  \A c \in ControlCommand : c \in Range(control_queue) ~> (gpio = 1 /\ cmd = c)

\* The relay is never left energised: every pulse ends.
RelayIsReleased == gpio = 1 ~> gpio = 0
===============================================================================
