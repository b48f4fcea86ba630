---------------------------- MODULE PacketDropper ---------------------------
(***************************************************************************)
(* PacketDropper: a link that drops packets as a script commands, each     *)
(* command naming a time and how many packets to drop from then on.        *)
(***************************************************************************)
EXTENDS Naturals, Sequences

VARIABLES
  commands,         \* what is left of the script
  dropPacketEvent,  \* the command that is scheduled, NoEvent if none
  numPktsToDrop     \* packets still to be dropped

dropperVars == <<commands, dropPacketEvent, numPktsToDrop>>

NoEvent == [dropTime |-> 0, numPktsToDrop |-> 0]

(* parseScript() reads the commands in the order of the script; a time     *)
(* before that of the command ahead of it could not be scheduled.          *)
Scripts(times, counts, length) ==
  LET Command == [dropTime : times, numPktsToDrop : counts]
  IN  {script \in UNION {[1 .. n -> Command] : n \in 0 .. length} :
         \A i \in 1 .. Len(script) - 1 : script[i].dropTime <= script[i + 1].dropTime}

(* initialize() handles an event of kind 0, which schedules the first      *)
(* command.                                                                *)
DropperInit(script) ==
  /\ commands = IF script = << >> THEN << >> ELSE Tail(script)
  /\ dropPacketEvent = IF script = << >> THEN NoEvent ELSE Head(script)
  /\ numPktsToDrop = 0

(* What is left of an earlier command is forgotten.                        *)
HandleDropEvent(now) ==
  /\ dropPacketEvent # NoEvent
  /\ dropPacketEvent.dropTime <= now
  /\ numPktsToDrop' = dropPacketEvent.numPktsToDrop
  /\ IF commands = << >>
     THEN dropPacketEvent' = NoEvent /\ UNCHANGED commands
     ELSE dropPacketEvent' = Head(commands) /\ commands' = Tail(commands)

Drops ==
  /\ numPktsToDrop > 0
  /\ numPktsToDrop' = numPktsToDrop - 1
  /\ UNCHANGED <<commands, dropPacketEvent>>

PassesOn ==
  /\ numPktsToDrop = 0
  /\ UNCHANGED dropperVars
=============================================================================
