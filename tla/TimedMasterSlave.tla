-------------------------- MODULE TimedMasterSlave --------------------------
(***************************************************************************)
(* MasterSlave under the clock and the scheduler, with the logger task.    *)
(*                                                                         *)
(* Time passes only when every task is blocked: the code between two       *)
(* blocking calls takes far less than one unit of time.  The device tasks  *)
(* have priority 3, the simulation timer 2 and the logger 1, so the timer  *)
(* runs when both devices are blocked and the logger when they are; at one *)
(* instant the two devices still interleave in any order.                  *)
(*                                                                         *)
(* The simulation may end at any instant, which stands for every value of  *)
(* SIM_DURATION_MS that is a multiple of the unit.                         *)
(***************************************************************************)
EXTENDS MasterSlave

CONSTANTS
  TickPeriod,      \* DEVICE_B_TICK_MS
  LogPeriod,       \* the 200 ms of logger_task
  LogDepth,        \* LOG_QUEUE_DEPTH
  AgeBound         \* the ages below are counted up to this bound

ASSUME TimedAssumption ==
  /\ TickPeriod \in Nat \ {0} /\ LogPeriod \in Nat \ {0}
  /\ LogDepth \in Nat \ {0} /\ AgeBound \in Nat

VARIABLES
  aTimer,          \* what is left of A's poll period, 0 when it is not polling
  bTimer,          \* what is left of B's delay, 0 when it is not in one
  logQueue,        \* the number of messages in g_log_queue
  logTimer,        \* what is left of the logger's wait for a message
  scheduler,       \* "running", or "ended" by vTaskEndScheduler
  \* measurements, not read by any action
  faultAge,        \* how long B has been in FAULT without a break
  errorAge         \* how long ago A entered ERROR or last re-issued the reset

log   == <<logQueue, logTimer>>
clock == <<aTimer, bTimer, log, scheduler>>
ages  == <<faultAge, errorAge>>
tvars == <<vars, clock, ages>>

Least(m, n) == IF m <= n THEN m ELSE n

\* logger_log, n times: a message that finds the queue full is dropped.
Log(n) ==
  /\ logQueue' = Least(logQueue + n, LogDepth)
  /\ UNCHANGED logTimer

TInit ==
  /\ Init
  /\ aTimer = PollPeriod /\ bTimer = 0
  /\ logQueue = 1                       \* A's "task started"
  /\ logTimer = LogPeriod
  /\ scheduler = "running"
  /\ faultAge = 0 /\ errorAge = 0

----------------------------------------------------------------------------
(* Who can run.                                                            *)

ABlocked == aPc = "deleted" \/ (aPc = "poll" /\ stateQueue = <<>> /\ aTimer > 0)
BBlocked == bPc = "deleted" \/ (bPc = "delay" /\ bTimer > 0)
DevicesBlocked == ABlocked /\ BBlocked
LogBlocked == logQueue = 0 /\ logTimer > 0

----------------------------------------------------------------------------
(* The device tasks.                                                       *)

\* The messages A logs in its step: fault_count, the transition and what
\* issue_reset reports; the time-out and issue_reset again; "task exiting".
AMessages ==
  CASE aPc = "evaluate" ->
         (IF aView = "FAULT" THEN 1 ELSE 0)
         + (IF aState' = aState THEN 0 ELSE IF aState' = "ERROR" THEN 2 ELSE 1)
    [] aPc = "watchdog" -> IF aState = "ERROR" /\ TimedOut THEN 2 ELSE 0
    [] aPc = "loopEnd"  -> IF simRunning THEN 0 ELSE 1
    [] OTHER -> 0

\* A restarts its poll period each time it goes back to the queue.
AStep ==
  /\ scheduler = "running"
  /\ ANext
  /\ aPc = "poll" /\ stateQueue = <<>> => aTimer = 0
  /\ aTimer' = IF aPc' = "poll" THEN PollPeriod ELSE 0
  /\ Log(AMessages)
  /\ errorAge' = IF aState' # aState \/ (aPc = "watchdog" /\ TimedOut)
                 THEN 0 ELSE errorAge
  /\ UNCHANGED <<bTimer, scheduler, faultAge>>

\* "task started"; "(reset received)"; the transition, and the dropped update;
\* "task exiting".
BMessages ==
  CASE bPc = "start" -> 1
    [] bPc = "service" /\ resetQueue # <<>> -> 1
    [] bPc = "step" /\ bState' # bState -> IF updateLost' THEN 2 ELSE 1
    [] bPc = "delay" /\ ~simRunning -> 1
    [] OTHER -> 0

\* Faulty variant of Delay: pdMS_TO_TICKS rounds the delay down to nothing.
DelayNone == 0

\* vTaskDelay(pdMS_TO_TICKS(DEVICE_B_TICK_MS)).
Delay == TickPeriod

BStepTimed ==
  /\ scheduler = "running"
  /\ BNext
  /\ bPc = "delay" => bTimer = 0
  /\ bTimer' = IF bPc' = "delay" THEN Delay ELSE 0
  /\ Log(BMessages)
  /\ faultAge' = IF bState' = bState THEN faultAge ELSE 0
  /\ UNCHANGED <<aTimer, scheduler, errorAge>>

----------------------------------------------------------------------------
(* The simulation timer, the logger and the clock.                         *)

SimTimerStep ==
  /\ scheduler = "running"
  /\ DevicesBlocked
  /\ SimTimer
  /\ UNCHANGED <<clock, ages>>

\* The logger prints a message and waits again, a full period.
LogPrint ==
  /\ scheduler = "running"
  /\ DevicesBlocked
  /\ logQueue > 0
  /\ logQueue' = logQueue - 1
  /\ logTimer' = LogPeriod
  /\ UNCHANGED <<vars, aTimer, bTimer, scheduler, ages>>

\* Faulty variant of AfterSilence: the test is the wrong way round.
AfterSilenceInverted == IF simRunning THEN "ended" ELSE "running"

AfterSilence == IF simRunning THEN "running" ELSE "ended"

\* Nothing came for a full period: go on, or stop the scheduler.
LogTimeout ==
  /\ scheduler = "running"
  /\ DevicesBlocked
  /\ logQueue = 0 /\ logTimer = 0
  /\ scheduler' = AfterSilence
  /\ logTimer' = LogPeriod
  /\ UNCHANGED <<vars, aTimer, bTimer, logQueue, ages>>

\* Faulty variant of Sooner: a timer that has expired is counted down.
SoonerUnguarded(timer) == timer - 1

\* What is left of a timer a tick later.
Sooner(timer) == IF timer > 0 THEN timer - 1 ELSE 0

Tick ==
  /\ scheduler = "running"
  /\ DevicesBlocked /\ LogBlocked
  /\ aTimer' = Sooner(aTimer) /\ bTimer' = Sooner(bTimer)
  /\ logTimer' = Sooner(logTimer)
  /\ faultAge' = IF bState = "FAULT" THEN Least(faultAge + 1, AgeBound) ELSE 0
  /\ errorAge' = IF aState = "ERROR" THEN Least(errorAge + 1, AgeBound) ELSE 0
  /\ UNCHANGED <<vars, logQueue, scheduler>>

TNext == AStep \/ BStepTimed \/ SimTimerStep \/ LogPrint \/ LogTimeout \/ Tick

TSpec == TInit /\ [][TNext]_tvars

\* Time passes and the tasks that can run do.  The simulation need not end: the
\* promises must be kept however long it lasts.
TFairSpec ==
  /\ TSpec
  /\ WF_tvars(AStep) /\ WF_tvars(BStepTimed) /\ WF_tvars(Tick)
  /\ WF_tvars(LogPrint) /\ WF_tvars(LogTimeout)

----------------------------------------------------------------------------
(* Properties.                                                             *)

\* Type correctness of what this module adds.
TTypeOK ==
  /\ aTimer \in 0 .. PollPeriod /\ bTimer \in 0 .. TickPeriod
  /\ logQueue \in 0 .. LogDepth /\ logTimer \in 0 .. LogPeriod
  /\ scheduler \in {"running", "ended"}
  /\ faultAge \in 0 .. AgeBound /\ errorAge \in 0 .. AgeBound

\* What the proofs ask of the periods and depths, and those of sim_config.h grant:
\* room for the two publications of B's first iteration; room for the lines of
\* one instant; a reset answered before the watchdog re-issues it, with a poll for
\* the entry, one that times out as B wakes and one as the simulation ends; and
\* ages counted past every window.
PeriodsFit ==
  /\ StateDepth >= 2
  /\ LogDepth > 15
  /\ TickPeriod + 3 * PollPeriod < ResetTimeout
  /\ AgeBound >= (FaultThreshold - 1) * PollPeriod
  /\ AgeBound >= TickPeriod + PollPeriod

\* With the periods of sim_config.h nothing is ever dropped: neither B's updates,
\* nor the SLEEP whose send is not checked (device_b.c:92), nor a line of the log,
\* whose queue is emptied only when both devices are blocked.
NothingDropped == ~updateLost /\ ~sleepLost /\ logQueue < LogDepth

\* At most one reset is outstanding: when A issues one, none is queued and
\* none is being answered, so issue_reset never finds the queue full.
IssuesReset ==
  \/ aPc = "evaluate" /\ aState # "ERROR" /\ aState' = "ERROR"
  \/ aPc = "watchdog" /\ aPc' # aPc /\ aState = "ERROR" /\ TimedOut
OneOutstandingReset ==
  [][IssuesReset => resetQueue = <<>> /\ bPc # "publishReset"]_tvars

\* No reset outlives the episode it was issued for: B is never reset while A
\* takes it for healthy.
ResetsAreWanted ==
  [][bPc = "service" /\ bPc' = "publishReset" => aState = "ERROR"]_tvars

\* Whenever time passes A knows the state of B and has acted on it: a change
\* of B shows in A on the same tick.
SameTick ==
  DevicesBlocked /\ aPc = "poll" /\ bPc = "delay" =>
    /\ aView = bState
    /\ bState = "SLEEP" <=> aState = "IDLE"

\* The fault window, both ways: A escalates only when B has been in FAULT for
\* the FAULT_THRESHOLD - 1 polls that follow the first observation (but for
\* the instant in which B recovers), and no fault outlasts that window by a
\* tick of the clock without A being in ERROR.
Window == (FaultThreshold - 1) * PollPeriod
NoEarlyAlarm ==
  [][aState # "ERROR" /\ aState' = "ERROR" /\ bState = "FAULT"
       => faultAge >= Window]_tvars
NoLateAlarm ==
  DevicesBlocked /\ aPc = "poll" /\ faultAge > Window => aState = "ERROR"

\* What SIMULATION_RESULTS.md reports of the detection time: always exactly
\* FAULT_THRESHOLD poll periods from the first FAULT observation.  The first
\* observation counts, so the threshold is reached a period earlier (Window).
DetectionTime ==
  [][aState # "ERROR" /\ aState' = "ERROR" /\ bState = "FAULT"
       => faultAge = FaultThreshold * PollPeriod]_tvars

\* A is out of ERROR within one period of B, as long as both tasks live.
RecoveryInOneTick ==
  aState = "ERROR" /\ aPc # "deleted" /\ bPc # "deleted" => errorAge <= TickPeriod

\* The pair keeps the promise of Recovery, its liveness included.
Promise == INSTANCE Recovery WITH
  Mode <- BState, Drift <- NextBState,
  mode <- bState, alarm <- (aState = "ERROR"), on <- simRunning
PromiseKept == Promise!Spec

\* The scheduler stops once the simulation is over, with every message printed.
SchedulerStops == ~simRunning ~> (scheduler = "ended" /\ logQueue = 0)
=============================================================================
