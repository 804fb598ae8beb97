------------------------------ MODULE Devices ------------------------------
(***************************************************************************)
(* The data the two device tasks of freertos_master_slave share, the pure  *)
(* state-machine functions the tasks call, and the two non-blocking        *)
(* FreeRTOS queue operations the tasks use (external code: the kernel).    *)
(***************************************************************************)
EXTENDS Naturals, Sequences

CONSTANT
  FaultThreshold    \* FAULT_THRESHOLD of sim_config.h

ASSUME FaultThresholdAssumption == FaultThreshold \in Nat \ {0}

\* device_b_state_t and device_a_state_t.
BState == {"SLEEP", "ACTIVE", "FAULT"}
AState == {"IDLE", "PROCESSING", "ERROR"}

\* reset_cmd_t has the one value RESET_CMD_REBOOT.
ResetCmd == {"REBOOT"}

\* The states Device A moves between, once it is known whether the series of
\* FAULTs is long enough for an alarm.
Transition(current, b, alarm) ==
  CASE current # "ERROR" /\ alarm -> "ERROR"
    [] current = "IDLE" /\ ~alarm /\ b = "ACTIVE" -> "PROCESSING"
    [] current = "PROCESSING" /\ ~alarm /\ b = "SLEEP" -> "IDLE"
    [] current = "ERROR" /\ b = "SLEEP" -> "IDLE"
    [] OTHER -> current

\* Faulty variants of ProcessEvent: the threshold has to be exceeded; the alarm
\* is raised one FAULT early; any sign of life ends an alarm.
ProcessEventLate(current, b, faults) == Transition(current, b, faults > FaultThreshold)
ProcessEventEarly(current, b, faults) ==
  Transition(current, b, faults + 1 >= FaultThreshold)
ProcessEventEager(current, b, faults) ==
  IF current = "ERROR" /\ b # "FAULT" THEN "IDLE"
                                      ELSE Transition(current, b, faults >= FaultThreshold)

\* device_a_process_event: the state Device A moves to from current, given
\* Device B's state and the length of the running series of FAULTs.
ProcessEvent(current, b, faults) == Transition(current, b, faults >= FaultThreshold)

(***************************************************************************)
(* device_b_next_state draws rand(); every residue it tests for is drawn   *)
(* by some value, so each branch is one of the possible next states.       *)
(***************************************************************************)
NextBState ==
  [SLEEP  |-> {"SLEEP", "ACTIVE"},
   ACTIVE |-> {"FAULT", "SLEEP", "ACTIVE"},
   FAULT  |-> {"ACTIVE", "FAULT"}]

(***************************************************************************)
(* xQueueSend with a zero timeout: the item is appended when the queue has *)
(* room, otherwise the call fails and the queue is as it was.  The faulty   *)
(* variant takes one item too many.                                        *)
(***************************************************************************)
HasRoomOffByOne(queue, depth) == Len(queue) <= depth
HasRoom(queue, depth) == Len(queue) < depth
TrySend(queue, depth, item) ==
  IF HasRoom(queue, depth) THEN Append(queue, item) ELSE queue
=============================================================================
