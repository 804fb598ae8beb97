---------------------------- MODULE MasterSlave ----------------------------
(***************************************************************************)
(* Device A (master) and Device B (slave) of freertos_master_slave.        *)
(*                                                                         *)
(* The two tasks have the same priority under preemptive time slicing, so  *)
(* one can be suspended between any two accesses to what they share: the   *)
(* state queue, the reset queue and g_sim_running.  A step of this module  *)
(* is the code of one task from one such access to the next; time is left  *)
(* out, so a poll times out whenever the queue is empty and a delay ends   *)
(* whenever it likes.  TimedMasterSlave adds the clock.                    *)
(***************************************************************************)
EXTENDS Devices

CONSTANTS
  StateDepth,      \* STATE_QUEUE_DEPTH
  ResetDepth,      \* RESET_QUEUE_DEPTH
  PollPeriod,      \* DEVICE_A_POLL_MS, in any unit of time
  ResetTimeout,    \* RESET_TIMEOUT_MS, in the same unit
  WordSize         \* number of values of uint32_t, the type of A's counters

ASSUME DepthAssumption == StateDepth \in Nat \ {0} /\ ResetDepth \in Nat \ {0}
ASSUME PeriodAssumption == PollPeriod \in Nat \ {0} /\ ResetTimeout \in Nat \ {0}
\* Neither the fault counter below its threshold nor the time spent in ERROR
\* reaches the end of the counter's range.
ASSUME WordAssumption ==
  /\ WordSize \in Nat
  /\ FaultThreshold < WordSize
  /\ ResetTimeout + PollPeriod <= WordSize

VARIABLES
  \* shared
  stateQueue,      \* g_state_queue, B to A
  resetQueue,      \* g_reset_queue, A to B
  simRunning,      \* g_sim_running
  \* locals of device_a_task
  aPc, aState, aView, faultCount, errorPollCount,
  \* locals of device_b_task
  bPc, bState,
  \* what B's two calls of xQueueSend returned last (the first is tested, at
  \* device_b.c:109, the other ignored): the state A has not been told of
  updateLost,      \* the newest publication was dropped
  sleepLost        \* the SLEEP that answers the last reset was dropped

shared == <<stateQueue, resetQueue, simRunning>>
aVars  == <<aPc, aState, aView, faultCount, errorPollCount>>
bVars  == <<bPc, bState, updateLost, sleepLost>>
vars   == <<shared, aVars, bVars>>

Counter == 0 .. WordSize - 1

Init ==
  /\ stateQueue = <<>> /\ resetQueue = <<>> /\ simRunning = TRUE
  /\ aPc = "poll" /\ aState = "IDLE" /\ aView = "SLEEP"
  /\ faultCount = 0 /\ errorPollCount = 0
  /\ bPc = "start" /\ bState = "SLEEP"
  /\ updateLost = FALSE /\ sleepLost = FALSE

----------------------------------------------------------------------------
(* Device A: one iteration is poll, evaluate, watchdog, loopEnd.           *)

\* The queue held a state, or one arrived within the poll period.
AReceive ==
  /\ aPc = "poll"
  /\ stateQueue # <<>>
  /\ aView' = Head(stateQueue)
  /\ stateQueue' = Tail(stateQueue)
  /\ aPc' = "evaluate"
  /\ UNCHANGED <<resetQueue, simRunning, aState, faultCount, errorPollCount, bVars>>

\* The poll period passed with the queue empty: b_state keeps its value.
APollTimeout ==
  /\ aPc = "poll"
  /\ stateQueue = <<>>
  /\ aPc' = "evaluate"
  /\ UNCHANGED <<shared, aState, aView, faultCount, errorPollCount, bVars>>

\* Faulty variant of IssueReset: the command is built but never sent.
IssueResetUnsent == UNCHANGED resetQueue

\* issue_reset: the command is sent if there is room, and lost otherwise.
IssueReset == resetQueue' = TrySend(resetQueue, ResetDepth, "REBOOT")

\* Faulty variant of Faults: an observation other than FAULT leaves the count.
FaultsNotCleared == IF aView = "FAULT" THEN (faultCount + 1) % WordSize ELSE faultCount

\* The fault counter after an observation; uint32_t arithmetic.
Faults == IF aView = "FAULT" THEN (faultCount + 1) % WordSize ELSE 0

\* Up to the assignment of a_state.  Entering ERROR is the one case in which
\* the step reaches a shared object: issue_reset.
AEvaluate ==
  /\ aPc = "evaluate"
  /\ LET next == ProcessEvent(aState, aView, Faults)
         enters == next = "ERROR" /\ aState # "ERROR"
         leaves == next # "ERROR" /\ aState = "ERROR"
     IN  /\ aState' = next
         /\ IF enters THEN IssueReset ELSE UNCHANGED resetQueue
         /\ faultCount' = IF enters \/ leaves THEN 0 ELSE Faults
         /\ errorPollCount' = IF enters \/ leaves THEN 0 ELSE errorPollCount
  /\ aPc' = "watchdog"
  /\ UNCHANGED <<stateQueue, simRunning, aView, bVars>>

\* Faulty variants of Polls: the increment is missing; it counts time, which
\* TimedOut multiplies by the period once more.
PollsNotCounted == errorPollCount
PollsInTime == (errorPollCount + PollPeriod) % WordSize

\* The iterations spent in ERROR, this one included.
Polls == (errorPollCount + 1) % WordSize

\* Faulty variant of TimedOut: the comparison is strict.
TimedOutStrict == (Polls * PollPeriod) % WordSize > ResetTimeout

\* The recovery time-out, as the code computes it from the iterations counted.
TimedOut == (Polls * PollPeriod) % WordSize >= ResetTimeout

\* The block after the transition: count the iteration spent in ERROR and
\* re-issue the reset when the count stands for RESET_TIMEOUT_MS.
AWatchdog ==
  /\ aPc = "watchdog"
  /\ IF aState = "ERROR" /\ TimedOut THEN IssueReset ELSE UNCHANGED resetQueue
  /\ errorPollCount' = IF aState = "ERROR" /\ ~TimedOut THEN Polls ELSE 0
  /\ aPc' = "loopEnd"
  /\ UNCHANGED <<stateQueue, simRunning, aState, aView, faultCount, bVars>>

\* The iteration is over; the task deletes itself once the simulation is.
ALoopEnd ==
  /\ aPc = "loopEnd"
  /\ aPc' = IF simRunning THEN "poll" ELSE "deleted"
  /\ UNCHANGED <<shared, aState, aView, faultCount, errorPollCount, bVars>>

ANext == AReceive \/ APollTimeout \/ AEvaluate \/ AWatchdog \/ ALoopEnd

----------------------------------------------------------------------------
(* Device B: one iteration is service, then publishReset or step, then     *)
(* delay.                                                                  *)

\* Faulty variant of Publish: the new state overtakes the ones still queued.
PublishToFront(b) ==
  /\ stateQueue' = IF HasRoom(stateQueue, StateDepth) THEN <<b>> \o stateQueue
                                                      ELSE stateQueue
  /\ updateLost' = ~HasRoom(stateQueue, StateDepth)

\* xQueueSend(g_state_queue, &b_state, 0).
Publish(b) ==
  /\ stateQueue' = TrySend(stateQueue, StateDepth, b)
  /\ updateLost' = ~HasRoom(stateQueue, StateDepth)

\* The baseline publication before the loop.
BStart ==
  /\ bPc = "start"
  /\ Publish(bState)
  /\ bPc' = "service"
  /\ UNCHANGED <<resetQueue, simRunning, aVars, bState, sleepLost>>

\* A pending reset is taken before any autonomous transition.
BTakeReset ==
  /\ bPc = "service"
  /\ resetQueue # <<>>
  /\ resetQueue' = Tail(resetQueue)
  /\ bState' = "SLEEP"
  /\ bPc' = "publishReset"
  /\ UNCHANGED <<stateQueue, simRunning, aVars, updateLost, sleepLost>>

\* SLEEP is published; the result of the call is not looked at.
BPublishReset ==
  /\ bPc = "publishReset"
  /\ Publish(bState)
  /\ sleepLost' = ~HasRoom(stateQueue, StateDepth)
  /\ bPc' = "delay"
  /\ UNCHANGED <<resetQueue, simRunning, aVars, bState>>

BNoReset ==
  /\ bPc = "service"
  /\ resetQueue = <<>>
  /\ bPc' = "step"
  /\ UNCHANGED <<shared, aVars, bState, updateLost, sleepLost>>

\* The autonomous transition; B publishes only a state that changed.
BStep ==
  /\ bPc = "step"
  /\ \E next \in NextBState[bState] :
       /\ bState' = next
       /\ IF next # bState THEN Publish(next) ELSE UNCHANGED <<stateQueue, updateLost>>
  /\ bPc' = "delay"
  /\ UNCHANGED <<resetQueue, simRunning, aVars, sleepLost>>

\* vTaskDelay is over; the loop ends when the simulation does.
BWake ==
  /\ bPc = "delay"
  /\ bPc' = IF simRunning THEN "service" ELSE "deleted"
  /\ UNCHANGED <<shared, aVars, bState, updateLost, sleepLost>>

BNext == BStart \/ BTakeReset \/ BPublishReset \/ BNoReset \/ BStep \/ BWake

----------------------------------------------------------------------------
\* sim_timer_task, after its one delay of SIM_DURATION_MS.
SimTimer ==
  /\ simRunning
  /\ simRunning' = FALSE
  /\ UNCHANGED <<stateQueue, resetQueue, aVars, bVars>>

Next == ANext \/ BNext \/ SimTimer

Spec == Init /\ [][Next]_vars

\* Both tasks run for ever at one priority with time slicing, and neither
\* waits without a time-out.
FairSpec == Spec /\ WF_vars(ANext) /\ WF_vars(BNext)

----------------------------------------------------------------------------
(* Properties.                                                             *)

\* Type correctness: every local and every queue holds values of its type,
\* and neither queue exceeds the depth it was created with.
TypeOK ==
  /\ stateQueue \in Seq(BState) /\ Len(stateQueue) <= StateDepth
  /\ resetQueue \in Seq(ResetCmd) /\ Len(resetQueue) <= ResetDepth
  /\ simRunning \in BOOLEAN
  /\ aPc \in {"poll", "evaluate", "watchdog", "loopEnd", "deleted"}
  /\ aState \in AState /\ aView \in BState
  /\ faultCount \in Counter /\ errorPollCount \in Counter
  /\ bPc \in {"start", "service", "publishReset", "step", "delay", "deleted"}
  /\ bState \in BState
  /\ updateLost \in BOOLEAN /\ sleepLost \in BOOLEAN

\* The newest state A has been sent: the last in the queue, or A's own copy.
Newest == IF stateQueue = <<>> THEN aView ELSE stateQueue[Len(stateQueue)]

\* B publishes its changes only, so A is right about B only if none goes
\* missing: unless the last publication was dropped (or a reset is being
\* published), the newest state sent to A is the state B is in.
BeliefFollows ==
  ~updateLost /\ bPc # "publishReset" => Newest = bState

\* A has finished an iteration and heard of everything B published.
Quiet ==
  /\ aPc = "poll" /\ stateQueue = <<>>
  /\ ~updateLost /\ bPc # "publishReset"

\* When nothing is in flight, A's state agrees with B's: a sleeping B is seen
\* as IDLE, an active B never is, and a faulty B is never more than
\* FAULT_THRESHOLD - 1 observations from being escalated.
MirrorWhenQuiet ==
  Quiet => /\ bState = "SLEEP" => aState = "IDLE"
           /\ bState = "ACTIVE" => aState # "IDLE"
           /\ bState # "FAULT" => faultCount = 0
           /\ aState # "ERROR" => faultCount < FaultThreshold

\* No fault episode is forgotten: while A is in ERROR a reset is waiting for
\* B, or B is answering one, or the SLEEP that ends the episode is on its way
\* to A, or that SLEEP was dropped and only the watchdog can help.
RecoveryUnderWay ==
  aState = "ERROR" =>
    \/ resetQueue # <<>>
    \/ bPc = "publishReset"
    \/ \E i \in 1 .. Len(stateQueue) : stateQueue[i] = "SLEEP"
    \/ aPc = "evaluate" /\ aView = "SLEEP"
    \/ sleepLost

\* The watchdog is armed at the start of every poll: the iterations counted in
\* ERROR stand for less than RESET_TIMEOUT_MS, and outside ERROR none is counted.
WatchdogArmed ==
  aPc = "poll" =>
    /\ errorPollCount * PollPeriod < ResetTimeout
    /\ aState # "ERROR" => errorPollCount = 0

\* Strengthenings for the proofs.  Once an iteration has been evaluated A's
\* state fits the state it holds of B; and the counters, between any two steps.
Settled ==
  aPc # "evaluate" =>
    /\ aView = "SLEEP" => aState = "IDLE"
    /\ aView = "ACTIVE" => aState # "IDLE"
    /\ aView # "FAULT" => faultCount = 0
CountersBounded ==
  /\ aState # "ERROR" => faultCount < FaultThreshold /\ errorPollCount = 0
  /\ errorPollCount * PollPeriod < ResetTimeout

\* What B publishes in answer to a reset is SLEEP.
AnswersSleep == bPc = "publishReset" => bState = "SLEEP"

\* The inductive invariant.
IInv ==
  /\ TypeOK
  /\ BeliefFollows
  /\ RecoveryUnderWay
  /\ Settled
  /\ CountersBounded
  /\ AnswersSleep

\* A escalates at the moment its own counter reaches the threshold, not after
\* it, and on a FAULT it has in hand; it recovers to IDLE only, on a SLEEP.
DebouncedEscalation ==
  [][ /\ aState # "ERROR" /\ aState' = "ERROR" =>
           aView = "FAULT" /\ faultCount + 1 = FaultThreshold
      /\ aState = "ERROR" /\ aState' # "ERROR" =>
           aView = "SLEEP" /\ aState' = "IDLE" /\ errorPollCount' = 0 ]_vars

\* Even when the SLEEP that answers a reset is dropped, A does not stay in
\* ERROR without another reset being sent, as long as the simulation runs.
KeepsResetting ==
  aState = "ERROR" ~> (aState # "ERROR" \/ resetQueue # <<>> \/ ~simRunning)
=============================================================================
