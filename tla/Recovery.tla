------------------------------ MODULE Recovery ------------------------------
(***************************************************************************)
(* What the master-slave pair promises, without queues, polls or counters: *)
(* the state of the slave and whether the master has raised the alarm.     *)
(*                                                                         *)
(* The slave leaves FAULT by itself only to ACTIVE; it is forced to SLEEP  *)
(* only under an alarm; the alarm is raised on a slave that is faulty or   *)
(* that recovers in the same instant; and it is cleared as soon as the     *)
(* slave is asleep, before the slave does anything else.                   *)
(***************************************************************************)
CONSTANTS
  Mode,            \* the states of the slave
  Drift            \* Drift[m]: where the slave may go from m by itself

VARIABLES
  mode,            \* the state of the slave
  alarm,           \* the master treats the slave as faulty
  on               \* the promise holds until the simulation ends

vars == <<mode, alarm, on>>

Init == mode = "SLEEP" /\ alarm = FALSE /\ on = TRUE

Wander ==
  /\ on
  /\ ~(alarm /\ mode = "SLEEP")
  /\ mode' \in Drift[mode]
  /\ UNCHANGED <<alarm, on>>

Raise ==
  /\ on
  /\ ~alarm
  /\ mode \in {"FAULT", "ACTIVE"}
  /\ alarm' = TRUE
  /\ UNCHANGED <<mode, on>>

Reset ==
  /\ on
  /\ alarm
  /\ mode # "SLEEP"
  /\ mode' = "SLEEP"
  /\ UNCHANGED <<alarm, on>>

Clear ==
  /\ on
  /\ alarm
  /\ mode = "SLEEP"
  /\ alarm' = FALSE
  /\ UNCHANGED <<mode, on>>

Stop ==
  /\ on
  /\ on' = FALSE
  /\ UNCHANGED <<mode, alarm>>

\* After the end the two tasks wind up in any order.
WindUp ==
  /\ ~on
  /\ mode' \in Mode
  /\ alarm' \in BOOLEAN
  /\ UNCHANGED on

Next == Wander \/ Raise \/ Reset \/ Clear \/ Stop \/ WindUp

Spec == Init /\ [][Next]_vars /\ WF_vars(Clear) /\ WF_vars(Reset)

\* An alarm does not last: the slave is reset and the master told of it.
AlarmEnds == alarm ~> (~alarm \/ ~on)

=============================================================================
