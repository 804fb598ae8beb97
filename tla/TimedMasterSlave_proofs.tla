---------------------- MODULE TimedMasterSlave_proofs ----------------------
(***************************************************************************)
(* The timed model implements the untimed one, so that what is proved of   *)
(* MasterSlave for every interleaving holds of the timed system with every *)
(* choice of its periods.  What the clock adds, the timed windows and that *)
(* nothing is dropped, is proved for all periods that satisfy PeriodsFit.  *)
(***************************************************************************)
EXTENDS TimedMasterSlave, MasterSlave_proofs

\* A step of the clocked system is a step of the tasks, or leaves them alone.
LEMMA TimedStep == [TNext]_tvars => [Next]_vars
<1> SUFFICES ASSUME [TNext]_tvars PROVE [Next]_vars
  OBVIOUS
<1>1. CASE AStep
  BY <1>1 DEF AStep, Next
<1>2. CASE BStepTimed
  BY <1>2 DEF BStepTimed, Next
<1>3. CASE SimTimerStep
  BY <1>3 DEF SimTimerStep, Next
<1>4. CASE LogPrint \/ LogTimeout \/ Tick
  BY <1>4 DEF LogPrint, LogTimeout, Tick
<1>5. CASE UNCHANGED tvars
  BY <1>5 DEF tvars
<1> QED BY <1>1, <1>2, <1>3, <1>4, <1>5 DEF TNext

\* Every behaviour of the timed system is a behaviour of the two tasks without
\* the clock.
THEOREM TimedImplementsUntimed == TSpec => Spec
<1>1. TInit => Init
  BY DEF TInit
<1> QED BY <1>1, TimedStep, PTL DEF TSpec, Spec

\* So the invariant of the two tasks holds under the clock, for any periods.
THEOREM TimedInvariance == TSpec => []IInv
BY TimedImplementsUntimed, Invariance, PTL

\* What the timed module adds keeps its type: no timer passes its period and
\* the log queue never passes its depth.
LEMMA TTypeInit == TInit => TTypeOK
BY PeriodAssumption, TimedAssumption DEF TInit, TTypeOK
LEMMA TTypeStep == TTypeOK /\ [TNext]_tvars => TTypeOK'
<1> SUFFICES ASSUME TTypeOK, [TNext]_tvars PROVE TTypeOK'
  OBVIOUS
<1> USE PeriodAssumption, TimedAssumption DEF TTypeOK
<1>1. CASE AStep
  <2>1. AMessages \in Nat
    BY DEF AMessages
  <2>2. logQueue' \in 0 .. LogDepth /\ logTimer' = logTimer
    <3> HIDE DEF AMessages
    <3> QED BY <1>1, <2>1 DEF AStep, Log, Least
  <2>3. aTimer' \in 0 .. PollPeriod /\ errorAge' \in 0 .. AgeBound
    BY <1>1 DEF AStep
  <2> QED BY <1>1, <2>2, <2>3 DEF AStep
<1>2. CASE BStepTimed
  <2>1. BMessages \in Nat
    BY DEF BMessages
  <2>2. logQueue' \in 0 .. LogDepth /\ logTimer' = logTimer
    <3> HIDE DEF BMessages
    <3> QED BY <1>2, <2>1 DEF BStepTimed, Log, Least
  <2>3. bTimer' \in 0 .. TickPeriod /\ faultAge' \in 0 .. AgeBound
    BY <1>2 DEF BStepTimed, Delay
  <2> QED BY <1>2, <2>2, <2>3 DEF BStepTimed
<1>3. CASE SimTimerStep
  BY <1>3 DEF SimTimerStep, clock, log, ages
<1>4. CASE LogPrint
  BY <1>4 DEF LogPrint, ages
<1>5. CASE LogTimeout
  BY <1>5 DEF LogTimeout, AfterSilence, ages
<1>6. CASE Tick
  BY <1>6 DEF Tick, Sooner, Least
<1>7. CASE UNCHANGED tvars
  BY <1>7 DEF tvars, clock, log, ages
<1> QED BY <1>1, <1>2, <1>3, <1>4, <1>5, <1>6, <1>7 DEF TNext

THEOREM TimedTypeCorrect == TSpec => []TTypeOK
BY TTypeInit, TTypeStep, PTL DEF TSpec

----------------------------------------------------------------------------
(* The invariant of the clocked system, for periods that fit.              *)

\* A's state fits the state it holds of B.
InSync == aView = "SLEEP" <=> aState = "IDLE"
Alarm == aState = "ERROR"

\* x may follow p among the states that A is sent: B moves by itself and
\* publishes changes, or was reset; its first publication is SLEEP too.
Link(p, x) ==
  \/ x \in NextBState[p] /\ (x = "SLEEP" \/ x # p)
  \/ x = "SLEEP" /\ Alarm

\* What has not been received are the one or two states published in this
\* instant, and nothing was dropped.
QueueOK ==
  /\ ~updateLost /\ ~sleepLost
  /\ \/ stateQueue = <<>>
     \/ InSync /\ \E x \in BState :
          \/ stateQueue = <<x>> /\ Link(aView, x)
          \/ stateQueue = <<"SLEEP", x>> /\ aView = "SLEEP" /\ Link("SLEEP", x)

\* Only an observation not yet evaluated can be at odds with A's state.
ViewOK ==
  /\ aPc # "evaluate" => InSync
  /\ aView = "FAULT" => aState # "IDLE"

\* Once a tick has passed since B published, A has evaluated it.
Heard == bPc # "delay" \/ bTimer < TickPeriod
HeardOK == Heard =>
  /\ InSync
  /\ bPc # "publishReset" => aView = bState
  /\ \/ stateQueue = <<>>
     \/ stateQueue = <<"SLEEP">> /\ aView = "SLEEP" /\ bPc \in {"service", "step"}

\* B publishes nothing before its start and after the end of the simulation.
WindUpOK ==
  /\ aPc = "deleted" \/ bPc = "deleted" => ~simRunning
  /\ ~simRunning => stateQueue = <<>> /\ bPc \in {"delay", "deleted"}
  /\ bPc = "start" => stateQueue = <<>> /\ bState = "SLEEP"

\* One reset is pending from the alarm until B takes it, and none at other times.
ResetOK ==
  /\ Len(resetQueue) <= 1
  /\ resetQueue # <<>> <=> Alarm /\ bState # "SLEEP"
  /\ bPc = "publishReset" => Alarm /\ bState = "SLEEP"
  /\ bPc = "step" /\ Alarm => bState = "FAULT"

\* B moves by itself under an alarm only in the instant in which it was raised.
JustRaised ==
  /\ errorAge = 0
  /\ \/ aPc = "watchdog" /\ errorPollCount = 0
     \/ aPc = "loopEnd" /\ errorPollCount = 1
     \/ aPc = "poll" /\ errorPollCount = 1 /\ aTimer = PollPeriod
RaisedOK ==
  Alarm /\ (bPc = "step" \/ (stateQueue # <<>> /\ bState # "SLEEP")) => JustRaised

\* B answers when its delay is over; if it has been deleted, A will be.
AnswerOK ==
  Alarm =>
    /\ bPc = "delay" /\ bState # "SLEEP" => errorAge + bTimer <= TickPeriod
    /\ bPc # "deleted" => errorAge <= TickPeriod
    /\ ~simRunning /\ aPc = "poll" => errorAge + aTimer <= TickPeriod + PollPeriod
    /\ aPc # "deleted" => errorAge <= TickPeriod + PollPeriod

\* The time the watchdog has counted is at most two polls ahead of the clock.
Counted == errorPollCount * PollPeriod
PollsOK ==
  Alarm =>
    /\ aPc = "poll" => Counted <= errorAge + PollPeriod + aTimer
    /\ aPc = "evaluate" /\ aView # "SLEEP" => Counted <= errorAge + PollPeriod
    /\ aPc = "watchdog" => Counted <= errorAge + PollPeriod
    /\ aPc = "loopEnd" => Counted <= errorAge + 2 * PollPeriod

\* The time the fault counter stands for is the age of the fault.
FaultTime == faultCount * PollPeriod
FaultOK ==
  /\ bState # "FAULT" \/ stateQueue # <<>> => faultAge = 0
  /\ ~Alarm /\ aView = "FAULT" /\ bState = "FAULT" /\ stateQueue = <<>> =>
       /\ aPc = "evaluate" => faultAge = Least(FaultTime, AgeBound)
       /\ aPc = "poll" => faultCount >= 1 /\ faultAge = Least(FaultTime - aTimer, AgeBound)
       /\ aPc \in {"watchdog", "loopEnd"} =>
            faultCount >= 1 /\ faultAge = Least(FaultTime - PollPeriod, AgeBound)

\* The lines the tasks may still log before they are blocked.
AMore ==
  CASE aPc = "evaluate" \/ (aPc = "poll" /\ aTimer = 0) -> 6
    [] aPc = "watchdog" -> 3
    [] aPc = "loopEnd" -> 1
    [] OTHER -> 0
BMore ==
  CASE bPc = "start" -> 14
    [] bPc \in {"service", "step"} \/ (bPc = "delay" /\ bTimer = 0) -> 7
    [] bPc = "publishReset" -> 6
    [] OTHER -> 0
LogOK == logQueue + AMore + 6 * Len(stateQueue) + BMore <= 15

TInv ==
  /\ IInv /\ TTypeOK
  /\ QueueOK /\ ViewOK /\ HeardOK /\ WindUpOK
  /\ ResetOK /\ RaisedOK /\ AnswerOK /\ PollsOK
  /\ FaultOK /\ LogOK

----------------------------------------------------------------------------
(* What each step does, under the invariant.                               *)

\* Short queues.
LEMMA AppendSecond == ASSUME NEW x, NEW y PROVE Append(<<x>>, y) = <<x, y>>
<1> DEFINE s == Append(<<x>>, y)
           t == <<x, y>>
<1>1. /\ <<x>> \in Seq({x, y}) /\ Len(<<x>>) = 1 /\ <<x>>[1] = x
      /\ t \in Seq({x, y}) /\ Len(t) = 2 /\ t[1] = x /\ t[2] = y
  OBVIOUS
<1>2. s \in Seq({x, y}) /\ Len(s) = 2 /\ s[1] = x /\ s[2] = y
  BY <1>1, AppendProperties
<1>3. s = t
  <2> HIDE DEF s, t
  <2> \A i \in 1 .. 2 : s[i] = t[i]
    BY <1>1, <1>2
  <2> QED BY <1>1, <1>2, SeqEqual
<1> QED BY <1>3
LEMMA QueueOps ==
  ASSUME NEW x, NEW y
  PROVE  /\ Head(<<x>>) = x /\ Tail(<<x>>) = <<>> /\ <<x>> # <<>> /\ Len(<<x>>) = 1
         /\ Head(<<x, y>>) = x /\ Tail(<<x, y>>) = <<y>> /\ <<x, y>> # <<>>
         /\ Len(<<x, y>>) = 2 /\ <<x, y>>[2] = y /\ <<x>>[1] = x
         /\ Append(<<>>, x) = <<x>> /\ Append(<<x>>, y) = <<x, y>> /\ Len(<<>>) = 0
<1>1. Tail(<<x>>) = <<>> /\ Tail(<<x, y>>) = <<y>> /\ Append(<<>>, x) = <<x>>
  OBVIOUS
<1> QED BY <1>1, AppendSecond

\* What is sent last is B's state.
LEMMA SentLast ==
  ASSUME TInv
  PROVE  /\ stateQueue = <<>> /\ bPc # "publishReset" => aView = bState
         /\ bPc # "publishReset" =>
              \A x \in BState : stateQueue \in {<<x>>, <<"SLEEP", x>>} => x = bState
<1> Newest = bState \/ bPc = "publishReset"
  BY DEF TInv, IInv, BeliefFollows, QueueOK
<1>1. ASSUME NEW x \in BState PROVE stateQueue \in {<<x>>, <<"SLEEP", x>>} => Newest = x
  BY QueueOps DEF Newest
<1>2. stateQueue = <<>> => Newest = aView
  BY DEF Newest
<1> QED BY <1>1, <1>2

\* The steps of the clocked system, one by one.
TReceive      == AStep /\ AReceive
TPollTimeout  == AStep /\ APollTimeout
TEvaluate     == AStep /\ AEvaluate
TWatchdog     == AStep /\ AWatchdog
TLoopEnd      == AStep /\ ALoopEnd
TStart        == BStepTimed /\ BStart
TTakeReset    == BStepTimed /\ BTakeReset
TPublishReset == BStepTimed /\ BPublishReset
TNoReset      == BStepTimed /\ BNoReset
TWander       == BStepTimed /\ BStep
TWake         == BStepTimed /\ BWake
Idle          == /\ UNCHANGED <<vars, aTimer, bTimer, ages>>
                 /\ logQueue' \in {logQueue, logQueue - 1}

LEMMA TimedActions ==
  ASSUME [TNext]_tvars
  PROVE  \/ TReceive \/ TPollTimeout \/ TEvaluate \/ TWatchdog \/ TLoopEnd
         \/ TStart \/ TTakeReset \/ TPublishReset \/ TNoReset \/ TWander \/ TWake
         \/ SimTimerStep \/ Tick \/ Idle
BY DEF TNext, AStep, BStepTimed, ANext, BNext, TReceive, TPollTimeout, TEvaluate,
       TWatchdog, TLoopEnd, TStart, TTakeReset, TPublishReset, TNoReset, TWander, TWake,
       Idle, LogPrint, LogTimeout, tvars, clock, log

\* A takes the state that B is in, or B's first SLEEP, which it knows of.
LEMMA ReceiveEffect ==
  ASSUME TInv, TReceive
  PROVE  /\ aPc = "poll" /\ aPc' = "evaluate" /\ InSync
         /\ \/ /\ stateQueue' = <<>> /\ stateQueue # <<>> /\ Link(aView, aView')
               /\ bPc # "publishReset" => aView' = bState
            \/ \E x \in BState :
                 /\ stateQueue = <<"SLEEP", x>> /\ stateQueue' = <<x>>
                 /\ Link("SLEEP", x) /\ aView' = "SLEEP" /\ aView = "SLEEP"
         /\ aTimer' = 0
         /\ UNCHANGED <<resetQueue, simRunning, aState, faultCount, errorPollCount, bPc,
                        bState, updateLost, sleepLost, bTimer, faultAge, errorAge>>
<1>1. /\ aPc = "poll" /\ stateQueue # <<>> /\ aPc' = "evaluate"
      /\ aView' = Head(stateQueue) /\ stateQueue' = Tail(stateQueue)
      /\ UNCHANGED <<resetQueue, simRunning, aState, faultCount, errorPollCount, bPc,
                     bState, updateLost, sleepLost, bTimer, faultAge>>
  BY DEF TReceive, AReceive, AStep, bVars
<1>2. aTimer' = 0 /\ errorAge' = errorAge
  BY <1>1 DEF TReceive, AStep
<1>3. PICK x \in BState : InSync /\ \/ stateQueue = <<x>> /\ Link(aView, x)
                                    \/ /\ stateQueue = <<"SLEEP", x>> /\ aView = "SLEEP"
                                       /\ Link("SLEEP", x)
  BY <1>1 DEF TInv, QueueOK
<1>4. CASE stateQueue = <<x>>
  <2>1. Link(aView, x)
    BY <1>3, <1>4
  <2>2. aView' = x /\ stateQueue' = <<>>
    BY <1>1, <1>4, QueueOps
  <2>3. bPc # "publishReset" => x = bState
    BY <1>4, SentLast
  <2> QED BY <1>1, <1>2, <1>3, <2>1, <2>2, <2>3
<1>5. CASE stateQueue = <<"SLEEP", x>>
  <2>1. Link("SLEEP", x) /\ aView = "SLEEP"
    BY <1>3, <1>5
  <2>2. aView' = "SLEEP" /\ stateQueue' = <<x>>
    BY <1>1, <1>5, QueueOps
  <2> QED BY <1>1, <1>2, <1>3, <1>5, <2>1, <2>2
<1> QED BY <1>3, <1>4, <1>5

\* A poll times out when its period is over and nothing has been sent.
LEMMA PollTimeoutEffect ==
  ASSUME TPollTimeout
  PROVE  /\ aPc = "poll" /\ aPc' = "evaluate" /\ stateQueue = <<>> /\ aTimer = 0
         /\ aTimer' = 0
         /\ UNCHANGED <<stateQueue, resetQueue, simRunning, aState, aView, faultCount,
                        errorPollCount, bPc, bState, updateLost, sleepLost, bTimer,
                        faultAge, errorAge>>
<1>1. /\ aPc = "poll" /\ aPc' = "evaluate" /\ stateQueue = <<>>
      /\ UNCHANGED <<stateQueue, resetQueue, simRunning, aState, aView, faultCount,
                     errorPollCount, bPc, bState, updateLost, sleepLost, bTimer, faultAge>>
  BY DEF TPollTimeout, APollTimeout, AStep, shared, bVars
<1> QED BY <1>1 DEF TPollTimeout, AStep

\* An evaluation raises the alarm, ends it, or leaves it as it is.
Raises ==
  /\ ~Alarm /\ aState' = "ERROR" /\ aView = "FAULT" /\ faultCount + 1 >= FaultThreshold
  /\ resetQueue' = TrySend(resetQueue, ResetDepth, "REBOOT")
  /\ errorPollCount' = 0 /\ errorAge' = 0
Clears ==
  /\ Alarm /\ aState' = "IDLE" /\ aView = "SLEEP"
  /\ resetQueue' = resetQueue /\ errorAge' = 0
Keeps ==
  /\ Alarm' <=> Alarm
  /\ resetQueue' = resetQueue /\ errorPollCount' = errorPollCount
  /\ Alarm => aView # "SLEEP" /\ errorAge' = errorAge
  /\ ~Alarm /\ aView = "FAULT" => faultCount' = faultCount + 1
LEMMA EvaluateEffect ==
  ASSUME TInv, TEvaluate
  PROVE  /\ aPc = "evaluate" /\ aPc' = "watchdog" /\ aTimer' = 0 /\ InSync'
         /\ aView = "FAULT" => aState' # "IDLE"
         /\ Raises \/ Clears \/ Keeps
         /\ UNCHANGED <<stateQueue, simRunning, aView, bPc, bState, updateLost, sleepLost,
                        bTimer, faultAge>>
<1> DEFINE next == ProcessEvent(aState, aView, Faults)
<1>1. /\ aState \in AState /\ aView \in BState
      /\ Faults \in Nat /\ (aView # "FAULT" => Faults = 0)
      /\ faultCount \in Nat
  BY FaultsType DEF TInv, IInv, TypeOK, Counter
<1>2. /\ aPc = "evaluate" /\ aPc' = "watchdog" /\ aState' = next
      /\ UNCHANGED <<stateQueue, simRunning, aView, bPc, bState, updateLost, sleepLost,
                     bTimer, faultAge>>
  BY DEF TEvaluate, AEvaluate, AStep, bVars
<1>3. aTimer' = 0 /\ errorAge' = IF aState' # aState THEN 0 ELSE errorAge
  BY <1>2 DEF TEvaluate, AStep
<1>4. ~Alarm /\ aView = "FAULT" => Faults = faultCount + 1
  <2>1. ~Alarm => faultCount < FaultThreshold
    BY DEF TInv, IInv, CountersBounded, Alarm
  <2> QED BY <1>1, <2>1, WordAssumption, FaultThresholdAssumption DEF Faults
<1>5. /\ aView = "SLEEP" => next = "IDLE"
      /\ aView # "SLEEP" => next # "IDLE"
  <2>1. aView = "FAULT" => aState # "IDLE"
    BY DEF TInv, ViewOK
  <2>2. aView # "FAULT" => Faults < FaultThreshold
    BY <1>1, FaultThresholdAssumption
  <2>3. aView = "FAULT" /\ aState # "IDLE" => next # "IDLE"
    BY <1>1 DEF ProcessEvent, Transition, AState
  <2>4. aView \in {"SLEEP", "ACTIVE", "FAULT"}
    BY <1>1 DEF BState
  <2> HIDE DEF next
  <2>5. /\ aView = "SLEEP" => next = "IDLE"
        /\ aView = "ACTIVE" => next # "IDLE"
    BY <1>1, <2>2, ProcessEventCases DEF next
  <2> QED BY <2>1, <2>3, <2>4, <2>5
<1>6. CASE ~Alarm /\ next = "ERROR"
  <2>1. Faults >= FaultThreshold
    BY <1>1, <1>6, ProcessEventCases DEF Alarm
  <2>2. aView = "FAULT" /\ faultCount + 1 >= FaultThreshold
    BY <1>1, <1>4, <1>6, <2>1, FaultThresholdAssumption
  <2>3. resetQueue' = TrySend(resetQueue, ResetDepth, "REBOOT") /\ errorPollCount' = 0
    BY <1>6 DEF TEvaluate, AEvaluate, IssueReset, Alarm
  <2>4. Raises
    BY <1>2, <1>3, <1>6, <2>2, <2>3 DEF Raises, Alarm
  <2> QED BY <1>2, <1>3, <1>5, <2>4 DEF InSync
<1>7. CASE Alarm /\ next # "ERROR"
  <2>1. aView = "SLEEP" /\ next = "IDLE"
    BY <1>1, <1>7, ProcessEventCases DEF Alarm
  <2>2. resetQueue' = resetQueue
    BY <1>7 DEF TEvaluate, AEvaluate, Alarm
  <2>3. Clears
    BY <1>2, <1>3, <1>7, <2>1, <2>2 DEF Clears, Alarm
  <2> QED BY <1>2, <1>3, <1>5, <2>3 DEF InSync
<1>8. CASE Alarm <=> next = "ERROR"
  <2>1. /\ resetQueue' = resetQueue /\ errorPollCount' = errorPollCount
        /\ faultCount' = Faults
    BY <1>8 DEF TEvaluate, AEvaluate, Alarm
  <2>2. Keeps
    BY <1>2, <1>3, <1>4, <1>5, <1>8, <2>1 DEF Keeps, Alarm
  <2> QED BY <1>2, <1>3, <1>5, <2>2 DEF InSync
<1> QED BY <1>6, <1>7, <1>8

\* The watchdog counts an iteration under an alarm; it does not time out.
LEMMA WatchdogEffect ==
  ASSUME PeriodsFit, TInv, TWatchdog
  PROVE  /\ aPc = "watchdog" /\ aPc' = "loopEnd" /\ aTimer' = 0
         /\ Alarm => errorPollCount' = errorPollCount + 1 /\ ~TimedOut /\ errorAge' = errorAge
         /\ UNCHANGED <<stateQueue, resetQueue, simRunning, aState, aView, faultCount, bPc,
                        bState, updateLost, sleepLost, bTimer, faultAge>>
<1>1. /\ aPc = "watchdog" /\ aPc' = "loopEnd"
      /\ UNCHANGED <<stateQueue, simRunning, aState, aView, faultCount, bPc,
                     bState, updateLost, sleepLost, bTimer, faultAge>>
  BY DEF TWatchdog, AWatchdog, AStep, bVars
<1>2. aTimer' = 0
  BY <1>1 DEF TWatchdog, AStep
<1>3. Alarm => Polls = errorPollCount + 1 /\ ~TimedOut
  <2> SUFFICES ASSUME Alarm PROVE Polls = errorPollCount + 1 /\ ~TimedOut
    OBVIOUS
  <2>1. /\ Counted <= errorAge + PollPeriod
        /\ errorAge <= TickPeriod + PollPeriod /\ errorAge \in Nat
    BY <1>1 DEF TInv, PollsOK, AnswerOK, TTypeOK
  <2>2. /\ errorPollCount \in Counter /\ errorPollCount * PollPeriod < ResetTimeout
        /\ errorPollCount \in Nat
    BY DEF TInv, IInv, TypeOK, CountersBounded, Counter
  <2>3. /\ Polls = errorPollCount + 1
        /\ ((errorPollCount + 1) * PollPeriod) % WordSize = (errorPollCount + 1) * PollPeriod
    BY <2>2, NoWrap DEF Polls
  <2>4. (errorPollCount + 1) * PollPeriod = Counted + PollPeriod /\ Counted \in Nat
    BY <2>2, PeriodAssumption DEF Counted
  <2>5. (errorPollCount + 1) * PollPeriod < ResetTimeout
    <3> HIDE DEF Counted
    <3> QED BY <2>1, <2>4, PeriodAssumption, TimedAssumption DEF PeriodsFit
  <2> QED BY <2>3, <2>4, <2>5, PeriodAssumption DEF TimedOut
<1>4. resetQueue' = resetQueue /\ (Alarm => errorPollCount' = errorPollCount + 1)
  BY <1>3 DEF TWatchdog, AWatchdog, Alarm
<1>5. Alarm => errorAge' = errorAge
  <2>1. errorAge' = IF aState' # aState \/ (aPc = "watchdog" /\ TimedOut) THEN 0 ELSE errorAge
    BY DEF TWatchdog, AStep
  <2> QED BY <1>1, <1>3, <2>1 DEF Alarm
<1> QED BY <1>1, <1>2, <1>3, <1>4, <1>5

\* A goes back to its queue for a full period, or is deleted.
LEMMA LoopEndEffect ==
  ASSUME TLoopEnd
  PROVE  /\ aPc = "loopEnd"
         /\ \/ simRunning /\ aPc' = "poll" /\ aTimer' = PollPeriod
            \/ ~simRunning /\ aPc' = "deleted" /\ aTimer' = 0
         /\ UNCHANGED <<stateQueue, resetQueue, simRunning, aState, aView, faultCount,
                        errorPollCount, bPc, bState, updateLost, sleepLost, bTimer,
                        faultAge, errorAge>>
<1>1. /\ aPc = "loopEnd" /\ aPc' = IF simRunning THEN "poll" ELSE "deleted"
      /\ UNCHANGED <<stateQueue, resetQueue, simRunning, aState, aView, faultCount,
                     errorPollCount, bPc, bState, updateLost, sleepLost, bTimer, faultAge>>
  BY DEF TLoopEnd, ALoopEnd, AStep, shared, bVars
<1> QED BY <1>1 DEF TLoopEnd, AStep

\* A publication finds room.
LEMMA PublishEffect ==
  ASSUME PeriodsFit, TInv, bPc \in {"start", "publishReset", "step"},
         NEW b \in BState, Publish(b)
  PROVE  /\ HasRoom(stateQueue, StateDepth) /\ ~updateLost'
         /\ \/ stateQueue = <<>> /\ stateQueue' = <<b>>
            \/ /\ stateQueue = <<"SLEEP">> /\ stateQueue' = <<"SLEEP", b>>
               /\ aView = "SLEEP" /\ bPc = "step"
<1>1. stateQueue = <<>> \/ (stateQueue = <<"SLEEP">> /\ aView = "SLEEP" /\ bPc = "step")
  BY DEF TInv, HeardOK, Heard, WindUpOK
<1>2. HasRoom(stateQueue, StateDepth)
  <2>1. Len(<<>>) = 0 /\ Len(<<"SLEEP">>) = 1
    BY QueueOps
  <2> DEFINE n == Len(stateQueue)
  <2>2. n \in {0, 1}
    BY <1>1, <2>1
  <2> HIDE DEF n
  <2>3. n < StateDepth
    BY <2>2, DepthAssumption DEF PeriodsFit
  <2> QED BY <2>3 DEF HasRoom, n
<1>3. stateQueue' = Append(stateQueue, b) /\ updateLost' = FALSE
  BY <1>2 DEF Publish, TrySend
<1>4. Append(<<>>, b) = <<b>> /\ Append(<<"SLEEP">>, b) = <<"SLEEP", b>>
  BY QueueOps
<1> QED BY <1>1, <1>2, <1>3, <1>4

\* The baseline.
LEMMA StartEffect ==
  ASSUME PeriodsFit, TInv, TStart
  PROVE  /\ bPc = "start" /\ bPc' = "service" /\ bState = "SLEEP"
         /\ stateQueue = <<>> /\ stateQueue' = <<"SLEEP">> /\ ~updateLost'
         /\ UNCHANGED <<resetQueue, simRunning, aPc, aState, aView, faultCount,
                        errorPollCount, bState, sleepLost, aTimer, faultAge, errorAge>>
<1>1. /\ bPc = "start" /\ bPc' = "service" /\ Publish(bState)
      /\ UNCHANGED <<resetQueue, simRunning, aPc, aState, aView, faultCount,
                     errorPollCount, bState, sleepLost, aTimer, faultAge, errorAge>>
  BY DEF TStart, BStart, BStepTimed, aVars
<1>2. bState = "SLEEP" /\ stateQueue = <<>> /\ bState \in BState
  BY <1>1 DEF TInv, WindUpOK, BState
<1>3. ~updateLost' /\ stateQueue' = <<bState>>
  BY <1>1, <1>2, PublishEffect, QueueOps
<1> QED BY <1>1, <1>2, <1>3

\* A reset is taken under an alarm, from a B that is not asleep, and the queue is
\* empty then.
LEMMA TakeResetEffect ==
  ASSUME TInv, TTakeReset
  PROVE  /\ bPc = "service" /\ bPc' = "publishReset" /\ bState # "SLEEP" /\ bState' = "SLEEP"
         /\ Alarm /\ resetQueue # <<>> /\ resetQueue' = <<>> /\ stateQueue = <<>> /\ faultAge' = 0
         /\ UNCHANGED <<stateQueue, simRunning, aPc, aState, aView, faultCount,
                        errorPollCount, updateLost, sleepLost, aTimer, errorAge>>
<1>1. /\ bPc = "service" /\ bPc' = "publishReset" /\ bState' = "SLEEP"
      /\ resetQueue # <<>> /\ resetQueue' = Tail(resetQueue)
      /\ faultAge' = IF bState' = bState THEN faultAge ELSE 0
      /\ UNCHANGED <<stateQueue, simRunning, aPc, aState, aView, faultCount,
                     errorPollCount, updateLost, sleepLost, aTimer, errorAge>>
  BY DEF TTakeReset, BTakeReset, BStepTimed, aVars
<1>2. Alarm /\ bState # "SLEEP"
  BY <1>1 DEF TInv, ResetOK
<1>3. stateQueue = <<>>
  BY <1>1, <1>2 DEF TInv, HeardOK, Heard, InSync, Alarm
<1>4. resetQueue' = <<>>
  <2>1. resetQueue \in Seq(ResetCmd) /\ Len(resetQueue) <= 1
    BY DEF TInv, IInv, TypeOK, ResetOK
  <2>2. resetQueue # <<>>
    BY <1>1
  <2>3. Len(resetQueue) \in Nat \ {0}
    BY <2>1, <2>2, EmptySeq
  <2>4. Len(resetQueue) = 1
    <3> DEFINE n == Len(resetQueue)
    <3>1. n \in Nat \ {0} /\ n <= 1
      BY <2>1, <2>3
    <3> HIDE DEF n
    <3>2. n = 1
      BY <3>1
    <3> QED BY <3>2 DEF n
  <2>5. Tail(resetQueue) \in Seq(ResetCmd) /\ Len(Tail(resetQueue)) = 0
    BY <2>1, <2>2, <2>4, HeadTailProperties
  <2> QED BY <1>1, <2>5, EmptySeq
<1> QED BY <1>1, <1>2, <1>3, <1>4

\* The answer.
LEMMA PublishResetEffect ==
  ASSUME PeriodsFit, TInv, TPublishReset
  PROVE  /\ bPc = "publishReset" /\ bPc' = "delay" /\ bTimer' = TickPeriod
         /\ bState = "SLEEP" /\ Alarm /\ InSync
         /\ stateQueue = <<>> /\ stateQueue' = <<"SLEEP">> /\ ~updateLost' /\ ~sleepLost'
         /\ UNCHANGED <<resetQueue, simRunning, aPc, aState, aView, faultCount,
                        errorPollCount, bState, aTimer, faultAge, errorAge>>
<1>1. /\ bPc = "publishReset" /\ bPc' = "delay" /\ Publish(bState)
      /\ sleepLost' = ~HasRoom(stateQueue, StateDepth)
      /\ UNCHANGED <<resetQueue, simRunning, aPc, aState, aView, faultCount,
                     errorPollCount, bState, aTimer, faultAge, errorAge>>
  BY DEF TPublishReset, BPublishReset, BStepTimed, aVars
<1>2. bTimer' = TickPeriod
  BY <1>1 DEF TPublishReset, BStepTimed, Delay
<1>3. bState = "SLEEP" /\ Alarm /\ InSync /\ bState \in BState
  BY <1>1 DEF TInv, ResetOK, HeardOK, Heard, BState
<1>4. /\ HasRoom(stateQueue, StateDepth) /\ ~updateLost'
      /\ stateQueue = <<>> /\ stateQueue' = <<bState>>
  BY <1>1, <1>3, PublishEffect
<1> QED BY <1>1, <1>2, <1>3, <1>4

\* No reset is pending, and no alarm raised.
LEMMA NoResetEffect ==
  ASSUME TInv, TNoReset
  PROVE  /\ bPc = "service" /\ bPc' = "step" /\ ~Alarm /\ bTimer' = 0
         /\ UNCHANGED <<stateQueue, resetQueue, simRunning, aPc, aState, aView, faultCount,
                        errorPollCount, bState, updateLost, sleepLost, aTimer, faultAge,
                        errorAge>>
<1>1. /\ bPc = "service" /\ bPc' = "step" /\ resetQueue = <<>>
      /\ UNCHANGED <<stateQueue, resetQueue, simRunning, aPc, aState, aView, faultCount,
                     errorPollCount, bState, updateLost, sleepLost, aTimer, faultAge, errorAge>>
  BY DEF TNoReset, BNoReset, BStepTimed, shared, aVars
<1>2. bTimer' = 0
  BY <1>1 DEF TNoReset, BStepTimed
<1>3. ~Alarm
  BY <1>1 DEF TInv, ResetOK, HeardOK, Heard, InSync, Alarm
<1> QED BY <1>1, <1>2, <1>3

\* B moves by itself, from FAULT if the alarm has just been raised.
LEMMA WanderEffect ==
  ASSUME PeriodsFit, TInv, TWander
  PROVE  /\ bPc = "step" /\ bPc' = "delay" /\ bTimer' = TickPeriod /\ InSync /\ aView = bState
         /\ bState' \in NextBState[bState] /\ (Alarm => bState = "FAULT") /\ ~updateLost'
         /\ \/ /\ bState' = bState /\ UNCHANGED <<stateQueue, faultAge>>
               /\ stateQueue = <<>> \/ (stateQueue = <<"SLEEP">> /\ aView = "SLEEP")
            \/ /\ bState' # bState /\ faultAge' = 0
               /\ \/ stateQueue = <<>> /\ stateQueue' = <<bState'>>
                  \/ /\ stateQueue = <<"SLEEP">> /\ stateQueue' = <<"SLEEP", bState'>>
                     /\ aView = "SLEEP"
         /\ UNCHANGED <<resetQueue, simRunning, aPc, aState, aView, faultCount,
                        errorPollCount, sleepLost, aTimer, errorAge>>
<1>1. /\ bPc = "step" /\ bPc' = "delay" /\ bState' \in NextBState[bState]
      /\ IF bState' # bState THEN Publish(bState') ELSE UNCHANGED <<stateQueue, updateLost>>
      /\ faultAge' = IF bState' = bState THEN faultAge ELSE 0
      /\ UNCHANGED <<resetQueue, simRunning, aPc, aState, aView, faultCount,
                     errorPollCount, sleepLost, aTimer, errorAge>>
  BY DEF TWander, BStep, BStepTimed, aVars
<1>2. bTimer' = TickPeriod
  BY <1>1 DEF TWander, BStepTimed, Delay
<1>3. /\ InSync /\ aView = bState /\ (Alarm => bState = "FAULT") /\ ~updateLost
      /\ stateQueue = <<>> \/ (stateQueue = <<"SLEEP">> /\ aView = "SLEEP")
  BY <1>1 DEF TInv, HeardOK, Heard, ResetOK, QueueOK
<1>4. bState' \in BState
  BY <1>1 DEF NextBState, BState, TInv, IInv, TypeOK
<1>5. CASE bState' = bState
  BY <1>1, <1>2, <1>3, <1>5
<1>6. CASE bState' # bState
  BY <1>1, <1>2, <1>3, <1>4, <1>6, PublishEffect
<1> QED BY <1>5, <1>6

\* B's delay is over.
LEMMA WakeEffect ==
  ASSUME TWake
  PROVE  /\ bPc = "delay" /\ bTimer = 0 /\ bTimer' = 0
         /\ \/ simRunning /\ bPc' = "service"
            \/ ~simRunning /\ bPc' = "deleted"
         /\ UNCHANGED <<stateQueue, resetQueue, simRunning, aPc, aState, aView, faultCount,
                        errorPollCount, bState, updateLost, sleepLost, aTimer, faultAge,
                        errorAge>>
<1>1. /\ bPc = "delay" /\ bPc' = IF simRunning THEN "service" ELSE "deleted"
      /\ UNCHANGED <<stateQueue, resetQueue, simRunning, aPc, aState, aView, faultCount,
                     errorPollCount, bState, updateLost, sleepLost, aTimer, faultAge, errorAge>>
  BY DEF TWake, BWake, BStepTimed, shared, aVars
<1> QED BY <1>1 DEF TWake, BStepTimed

\* When the simulation ends, or time passes, A has heard of all B has done, and
\* B sleeps.
LEMMA BlockedState ==
  ASSUME TInv, DevicesBlocked
  PROVE  /\ stateQueue = <<>> /\ aView = bState /\ InSync
         /\ \/ aPc = "poll" /\ aTimer > 0
            \/ aPc = "deleted" /\ ~simRunning
         /\ \/ bPc = "delay" /\ bTimer > 0
            \/ bPc = "deleted" /\ ~simRunning
<1>1. /\ \/ aPc = "poll" /\ stateQueue = <<>> /\ aTimer > 0
         \/ aPc = "deleted" /\ ~simRunning
      /\ \/ bPc = "delay" /\ bTimer > 0
         \/ bPc = "deleted" /\ ~simRunning
  BY DEF DevicesBlocked, ABlocked, BBlocked, TInv, WindUpOK
<1>2. stateQueue = <<>>
  BY <1>1 DEF TInv, WindUpOK
<1> QED BY <1>1, <1>2, SentLast DEF TInv, ViewOK

LEMMA SimTimerEffect ==
  ASSUME TInv, SimTimerStep
  PROVE  /\ simRunning /\ ~simRunning' /\ DevicesBlocked /\ aPc = "poll" /\ bPc = "delay"
         /\ UNCHANGED <<stateQueue, resetQueue, aPc, aState, aView, faultCount,
                        errorPollCount, bPc, bState, updateLost, sleepLost, aTimer, bTimer,
                        logQueue, faultAge, errorAge>>
<1>1. simRunning /\ ~simRunning' /\ DevicesBlocked
  BY DEF SimTimerStep, SimTimer
<1>2. aPc = "poll" /\ bPc = "delay"
  BY <1>1, BlockedState
<1> QED BY <1>1, <1>2 DEF SimTimerStep, SimTimer, aVars, bVars, clock, log, ages

LEMMA TickEffect ==
  ASSUME Tick
  PROVE  /\ DevicesBlocked /\ LogBlocked
         /\ aTimer' = Sooner(aTimer) /\ bTimer' = Sooner(bTimer)
         /\ faultAge' = IF bState = "FAULT" THEN Least(faultAge + 1, AgeBound) ELSE 0
         /\ errorAge' = IF Alarm THEN Least(errorAge + 1, AgeBound) ELSE 0
         /\ UNCHANGED <<stateQueue, resetQueue, simRunning, aPc, aState, aView, faultCount,
                        errorPollCount, bPc, bState, updateLost, sleepLost, logQueue>>
BY DEF Tick, Alarm, vars, shared, aVars, bVars

----------------------------------------------------------------------------
(* Every step preserves each part of the invariant.                        *)

LEMMA QueueStep ==
  ASSUME PeriodsFit, TInv, [TNext]_tvars
  PROVE  QueueOK'
<1>1. ASSUME UNCHANGED <<stateQueue, aView, aState, updateLost, sleepLost>> PROVE QueueOK'
  BY <1>1 DEF TInv, QueueOK, InSync, Link, Alarm
<1>2. ASSUME stateQueue' = <<>>, ~updateLost', ~sleepLost' PROVE QueueOK'
  BY <1>2 DEF QueueOK
<1>3. ASSUME NEW x \in BState, stateQueue' = <<x>>, InSync', Link(aView, x)',
             ~updateLost', ~sleepLost'
      PROVE  QueueOK'
  BY <1>3 DEF QueueOK
<1>4. ~updateLost /\ ~sleepLost
  BY DEF TInv, QueueOK
<1>5. CASE TReceive
  <2>1. /\ InSync /\ UNCHANGED <<aState, updateLost, sleepLost>>
        /\ \/ stateQueue' = <<>>
           \/ \E x \in BState : /\ stateQueue' = <<x>> /\ Link("SLEEP", x)
                                /\ aView' = "SLEEP" /\ aView = "SLEEP"
    BY <1>5, ReceiveEffect
  <2>2. CASE stateQueue' = <<>>
    BY <1>2, <1>4, <2>1, <2>2
  <2>3. CASE \E x \in BState : /\ stateQueue' = <<x>> /\ Link("SLEEP", x)
                               /\ aView' = "SLEEP" /\ aView = "SLEEP"
    <3>1. PICK x \in BState : /\ stateQueue' = <<x>> /\ Link("SLEEP", x)
                              /\ aView' = "SLEEP" /\ aView = "SLEEP"
      BY <2>3
    <3>2. InSync' /\ Link(aView, x)'
      BY <2>1, <3>1 DEF InSync, Link, Alarm
    <3> QED BY <1>3, <1>4, <2>1, <3>1, <3>2
  <2> QED BY <2>1, <2>2, <2>3
<1>6. CASE TPollTimeout
  BY <1>1, <1>6, PollTimeoutEffect
<1>7. CASE TEvaluate
  <2>1. /\ InSync' /\ UNCHANGED <<stateQueue, aView, updateLost, sleepLost>>
        /\ Raises \/ Clears \/ Keeps
    BY <1>7, EvaluateEffect
  <2>2. stateQueue # <<>> => (Alarm => Alarm')
    <3> SUFFICES ASSUME stateQueue # <<>>, Alarm PROVE Alarm'
      OBVIOUS
    <3>1. InSync
      BY DEF TInv, QueueOK
    <3>2. ~Clears
      BY <3>1 DEF Clears, InSync, Alarm
    <3> QED BY <2>1, <3>2 DEF Raises, Keeps, Alarm
  <2>3. ASSUME NEW p, NEW x, stateQueue # <<>>, Link(p, x)
        PROVE  Link(p, x)'
    BY <2>2, <2>3 DEF Link
  <2>4. CASE stateQueue = <<>>
    BY <1>2, <1>4, <2>1, <2>4
  <2>5. CASE stateQueue # <<>>
    <3>1. PICK x \in BState :
            \/ stateQueue = <<x>> /\ Link(aView, x)
            \/ stateQueue = <<"SLEEP", x>> /\ aView = "SLEEP" /\ Link("SLEEP", x)
      BY <2>5 DEF TInv, QueueOK
    <3>2. CASE stateQueue = <<x>> /\ Link(aView, x)
      <4>1. Link(aView, x)'
        BY <2>1, <2>3, <2>5, <3>2 DEF Link
      <4> QED BY <1>3, <1>4, <2>1, <3>2, <4>1
    <3>3. CASE stateQueue = <<"SLEEP", x>> /\ aView = "SLEEP" /\ Link("SLEEP", x)
      <4>1. Link("SLEEP", x)'
        BY <2>3, <2>5, <3>3
      <4> QED BY <1>4, <2>1, <3>3, <4>1 DEF QueueOK
    <3> QED BY <3>1, <3>2, <3>3
  <2> QED BY <2>4, <2>5
<1>8. CASE TWatchdog
  BY <1>1, <1>8, WatchdogEffect
<1>9. CASE TLoopEnd
  BY <1>1, <1>9, LoopEndEffect
<1>10. CASE TStart
  <2>1. /\ stateQueue' = <<"SLEEP">> /\ ~updateLost' /\ UNCHANGED <<aView, aState, sleepLost>>
        /\ bPc = "start" /\ bState = "SLEEP"
    BY <1>10, StartEffect
  <2>2. InSync /\ aView = "SLEEP"
    BY <2>1 DEF TInv, HeardOK, Heard
  <2>3. InSync' /\ Link(aView, "SLEEP")'
    BY <2>1, <2>2 DEF InSync, Link, NextBState
  <2> QED BY <1>3, <1>4, <2>1, <2>3 DEF BState
<1>11. CASE TTakeReset
  BY <1>1, <1>11, TakeResetEffect
<1>12. CASE TPublishReset
  <2>1. /\ stateQueue' = <<"SLEEP">> /\ ~updateLost' /\ ~sleepLost' /\ Alarm /\ InSync
        /\ UNCHANGED <<aView, aState>>
    BY <1>12, PublishResetEffect
  <2>2. InSync' /\ Link(aView, "SLEEP")'
    BY <2>1 DEF InSync, Link, Alarm
  <2> QED BY <1>3, <2>1, <2>2 DEF BState
<1>13. CASE TNoReset
  BY <1>1, <1>13, NoResetEffect
<1>14. CASE TWander
  <2>1. /\ InSync /\ aView = bState /\ ~updateLost' /\ bState' \in NextBState[bState]
        /\ \/ bState' = bState /\ UNCHANGED stateQueue
           \/ /\ bState' # bState
              /\ \/ stateQueue' = <<bState'>>
                 \/ stateQueue' = <<"SLEEP", bState'>> /\ aView = "SLEEP"
        /\ UNCHANGED <<aState, aView, sleepLost>>
    BY <1>14, WanderEffect
  <2>2. InSync' /\ bState' \in BState
    BY <2>1 DEF InSync, TInv, IInv, TypeOK, NextBState, BState
  <2>3. CASE UNCHANGED stateQueue
    BY <1>4, <2>1, <2>2, <2>3 DEF TInv, QueueOK, Link, Alarm
  <2>4. CASE bState' # bState /\ stateQueue' # stateQueue
    <3>1. PICK x \in BState : x = bState'
      BY <2>2
    <3>2. Link(aView, x)' /\ (aView = "SLEEP" => Link("SLEEP", x)')
      BY <2>1, <2>4, <3>1 DEF Link
    <3>3. \/ stateQueue' = <<x>>
          \/ stateQueue' = <<"SLEEP", x>> /\ aView' = "SLEEP"
      BY <2>1, <2>4, <3>1
    <3> QED BY <1>4, <2>1, <2>2, <3>2, <3>3 DEF QueueOK
  <2> QED BY <2>1, <2>3, <2>4
<1>15. CASE TWake
  BY <1>1, <1>15, WakeEffect
<1>16. CASE SimTimerStep
  BY <1>1, <1>16, SimTimerEffect
<1>17. CASE Tick
  BY <1>1, <1>17, TickEffect
<1>18. CASE Idle
  BY <1>1, <1>18 DEF Idle, vars, shared, aVars, bVars
<1> QED BY TimedActions, <1>5, <1>6, <1>7, <1>8, <1>9, <1>10, <1>11, <1>12, <1>13, <1>14,
           <1>15, <1>16, <1>17, <1>18

LEMMA ViewStep ==
  ASSUME PeriodsFit, TInv, [TNext]_tvars
  PROVE  ViewOK'
<1>1. ViewOK
  BY DEF TInv
<1>2. ASSUME UNCHANGED <<aView, aState>>,
             aPc' = aPc \/ aPc # "evaluate" \/ aPc' = "evaluate"
      PROVE  ViewOK'
  BY <1>1, <1>2 DEF ViewOK, InSync
<1>3. CASE TReceive
  <2>1. /\ aPc = "poll" /\ aPc' = "evaluate" /\ aState' = aState
        /\ Link(aView, aView') \/ aView' = "SLEEP"
    BY <1>3, ReceiveEffect
  <2>2. aView \in BState
    BY DEF TInv, IInv, TypeOK
  <2>3. aView' = "FAULT" => aView = "ACTIVE"
    BY <2>1, <2>2 DEF Link, NextBState, BState
  <2>4. aView = "ACTIVE" => aState # "IDLE"
    BY <2>1 DEF TInv, IInv, Settled
  <2> QED BY <2>1, <2>3, <2>4 DEF ViewOK
<1>4. CASE TEvaluate
  BY <1>4, EvaluateEffect DEF ViewOK
<1>5. CASE TPollTimeout
  BY <1>2, <1>5, PollTimeoutEffect
<1>6. CASE TWatchdog
  BY <1>2, <1>6, WatchdogEffect
<1>7. CASE TLoopEnd
  BY <1>2, <1>7, LoopEndEffect
<1>8. CASE BStepTimed
  BY <1>2, <1>8 DEF BStepTimed, BNext, BStart, BTakeReset, BPublishReset, BNoReset, BStep,
                    BWake, aVars
<1>9. CASE SimTimerStep
  BY <1>2, <1>9, SimTimerEffect
<1>10. CASE Tick
  BY <1>2, <1>10, TickEffect
<1>11. CASE Idle
  BY <1>2, <1>11 DEF Idle, vars, aVars
<1> QED BY TimedActions, <1>3, <1>4, <1>5, <1>6, <1>7, <1>8, <1>9, <1>10, <1>11
        DEF TStart, TTakeReset, TPublishReset, TNoReset, TWander, TWake

LEMMA HeardStep ==
  ASSUME PeriodsFit, TInv, [TNext]_tvars
  PROVE  HeardOK'
<1>1. ASSUME UNCHANGED <<stateQueue, aView, aState, bState>>, Heard' => Heard,
             bPc' = bPc \/ (bPc \notin {"service", "step"} /\ bPc' # "publishReset")
                        \/ stateQueue = <<>>,
             bPc = "publishReset" => bPc' = bPc
      PROVE  HeardOK'
  BY <1>1 DEF TInv, HeardOK, InSync
<1>2. ASSUME UNCHANGED <<stateQueue, aView, aState, bState, bPc, bTimer>> PROVE HeardOK'
  BY <1>2 DEF TInv, HeardOK, Heard, InSync
<1>3. ASSUME bPc' = "delay", bTimer' = TickPeriod PROVE HeardOK'
  BY <1>3, TimedAssumption DEF HeardOK, Heard
<1>4. CASE TReceive
  <2> SUFFICES ASSUME Heard' PROVE HeardOK'
    BY DEF HeardOK
  <2>1. /\ stateQueue # <<>> /\ UNCHANGED <<bPc, bTimer, aState, bState>> /\ InSync
        /\ \/ stateQueue' = <<>> /\ (bPc # "publishReset" => aView' = bState)
           \/ \E x \in BState : stateQueue = <<"SLEEP", x>>
    BY <1>4, ReceiveEffect, QueueOps
  <2>2. Heard
    BY <2>1 DEF Heard
  <2>3. stateQueue = <<"SLEEP">> /\ bPc \in {"service", "step"} /\ aView = bState
    BY <2>1, <2>2 DEF TInv, HeardOK
  <2>4. \A x \in BState : stateQueue # <<"SLEEP", x>>
    BY <2>3, QueueOps
  <2> QED BY <2>1, <2>3, <2>4 DEF HeardOK, InSync
<1>5. CASE TPollTimeout
  BY <1>2, <1>5, PollTimeoutEffect
<1>6. CASE TEvaluate
  BY <1>6, EvaluateEffect DEF TInv, HeardOK, Heard
<1>7. CASE TWatchdog
  BY <1>2, <1>7, WatchdogEffect
<1>8. CASE TLoopEnd
  BY <1>2, <1>8, LoopEndEffect
<1>9. CASE TStart
  <2>1. /\ bPc = "start" /\ bPc' = "service" /\ bState = "SLEEP" /\ stateQueue' = <<"SLEEP">>
        /\ UNCHANGED <<aView, aState, bState>>
    BY <1>9, StartEffect
  <2>2. InSync /\ aView = bState
    BY <2>1 DEF TInv, HeardOK, Heard
  <2> QED BY <2>1, <2>2 DEF HeardOK, InSync
<1>10. CASE TTakeReset
  <2>1. /\ bPc = "service" /\ bPc' = "publishReset" /\ stateQueue = <<>>
        /\ UNCHANGED <<stateQueue, aView, aState>>
    BY <1>10, TakeResetEffect
  <2>2. InSync
    BY <2>1 DEF TInv, HeardOK, Heard
  <2> QED BY <2>1, <2>2 DEF HeardOK, InSync
<1>11. CASE TPublishReset
  BY <1>3, <1>11, PublishResetEffect
<1>12. CASE TNoReset
  <2>1. /\ bPc = "service" /\ bPc' = "step" /\ UNCHANGED <<stateQueue, aView, aState, bState>>
    BY <1>12, NoResetEffect
  <2> QED BY <2>1 DEF TInv, HeardOK, Heard, InSync
<1>13. CASE TWander
  BY <1>3, <1>13, WanderEffect
<1>14. CASE TWake
  <2>1. /\ bPc = "delay" /\ bTimer = 0 /\ bPc' \in {"service", "deleted"}
        /\ UNCHANGED <<stateQueue, aView, aState, bState>>
    BY <1>14, WakeEffect
  <2>2. Heard
    BY <2>1, TimedAssumption DEF Heard
  <2> QED BY <2>1, <2>2 DEF TInv, HeardOK, InSync
<1>15. CASE SimTimerStep
  BY <1>2, <1>15, SimTimerEffect
<1>16. CASE Tick
  <2>1. /\ stateQueue = <<>> /\ aView = bState /\ InSync
        /\ UNCHANGED <<stateQueue, aView, aState, bState>>
    BY <1>16, TickEffect, BlockedState
  <2> QED BY <2>1 DEF HeardOK, InSync
<1>17. CASE Idle
  BY <1>2, <1>17 DEF Idle, vars, shared, aVars, bVars
<1> QED BY TimedActions, <1>4, <1>5, <1>6, <1>7, <1>8, <1>9, <1>10, <1>11, <1>12, <1>13,
           <1>14, <1>15, <1>16, <1>17

LEMMA WindUpStep ==
  ASSUME PeriodsFit, TInv, [TNext]_tvars
  PROVE  WindUpOK'
<1> USE DEF WindUpOK
<1>1. WindUpOK
  BY DEF TInv
<1>2. CASE TReceive
  BY <1>1, <1>2, ReceiveEffect, QueueOps
<1>3. CASE TPollTimeout
  BY <1>1, <1>3, PollTimeoutEffect
<1>4. CASE TEvaluate
  BY <1>1, <1>4, EvaluateEffect
<1>5. CASE TWatchdog
  BY <1>1, <1>5, WatchdogEffect
<1>6. CASE TLoopEnd
  BY <1>1, <1>6, LoopEndEffect
<1>7. CASE TStart
  BY <1>1, <1>7, StartEffect
<1>8. CASE TTakeReset
  BY <1>1, <1>8, TakeResetEffect
<1>9. CASE TPublishReset
  BY <1>1, <1>9, PublishResetEffect
<1>10. CASE TNoReset
  BY <1>1, <1>10, NoResetEffect
<1>11. CASE TWander
  BY <1>1, <1>11, WanderEffect
<1>12. CASE TWake
  BY <1>1, <1>12, WakeEffect
<1>13. CASE SimTimerStep
  BY <1>1, <1>13, SimTimerEffect, BlockedState
<1>14. CASE Tick
  BY <1>1, <1>14, TickEffect
<1>15. CASE Idle
  BY <1>1, <1>15 DEF Idle, vars, shared, aVars, bVars
<1> QED BY TimedActions, <1>2, <1>3, <1>4, <1>5, <1>6, <1>7, <1>8, <1>9, <1>10, <1>11,
           <1>12, <1>13, <1>14, <1>15

\* When an alarm is raised B is awake, and not between taking a reset and
\* publishing SLEEP.
LEMMA RaisesEffect ==
  ASSUME TInv, aPc = "evaluate", Raises
  PROVE  /\ bState # "SLEEP" /\ bPc # "publishReset" /\ (bPc = "step" => bState = "FAULT")
         /\ resetQueue = <<>> /\ resetQueue' = <<"REBOOT">>
<1>1. /\ ~Alarm /\ aView = "FAULT"
      /\ resetQueue' = TrySend(resetQueue, ResetDepth, "REBOOT")
  BY DEF Raises
<1>2. resetQueue = <<>> /\ bPc # "publishReset"
  BY <1>1 DEF TInv, ResetOK
<1>3. resetQueue' = <<"REBOOT">>
  <2>1. Len(<<>>) = 0 /\ Append(<<>>, "REBOOT") = <<"REBOOT">>
    BY QueueOps
  <2> QED BY <1>1, <1>2, <2>1, DepthAssumption DEF TrySend, HasRoom
<1>4. CASE Heard
  BY <1>1, <1>2, <1>3, <1>4 DEF TInv, HeardOK
<1>5. CASE ~Heard
  <2>1. bPc = "delay"
    BY <1>5 DEF Heard
  <2>2. CASE stateQueue = <<>>
    BY <1>1, <1>2, <1>3, <2>1, <2>2, SentLast
  <2>3. CASE stateQueue # <<>>
    <3>1. PICK x \in BState : stateQueue = <<x>> /\ Link("FAULT", x)
      BY <1>1, <2>3 DEF TInv, QueueOK
    <3>2. x = "ACTIVE"
      BY <1>1, <3>1 DEF Link, NextBState
    <3> QED BY <1>2, <1>3, <2>1, <3>1, <3>2, SentLast
  <2> QED BY <2>2, <2>3
<1> QED BY <1>4, <1>5

\* When it ends, B sleeps and nothing is in flight either way.
LEMMA ClearsEffect ==
  ASSUME TInv, aPc = "evaluate", Clears
  PROVE  bState = "SLEEP" /\ bPc = "delay" /\ stateQueue = <<>> /\ resetQueue = <<>>
<1>1. ~InSync /\ Alarm /\ aView = "SLEEP"
  BY DEF Clears, InSync, Alarm
<1>2. bPc = "delay" /\ stateQueue = <<>>
  BY <1>1 DEF TInv, HeardOK, Heard, QueueOK
<1>3. bState = "SLEEP"
  BY <1>1, <1>2, SentLast
<1> QED BY <1>2, <1>3 DEF TInv, ResetOK

LEMMA ResetStep ==
  ASSUME PeriodsFit, TInv, [TNext]_tvars
  PROVE  ResetOK'
<1>1. ResetOK
  BY DEF TInv
<1>2. ASSUME UNCHANGED <<resetQueue, aState, bState>>,
             bPc' = bPc \/ bPc' \notin {"publishReset", "step"}
      PROVE  ResetOK'
  BY <1>1, <1>2 DEF ResetOK, Alarm
<1>3. CASE TReceive
  BY <1>2, <1>3, ReceiveEffect
<1>4. CASE TPollTimeout
  BY <1>2, <1>4, PollTimeoutEffect
<1>5. CASE TEvaluate
  <2>1. aPc = "evaluate" /\ (Raises \/ Clears \/ Keeps) /\ UNCHANGED <<bPc, bState>>
    BY <1>5, EvaluateEffect
  <2>2. CASE Raises
    <3>1. Len(<<"REBOOT">>) = 1 /\ <<"REBOOT">> # <<>>
      BY QueueOps
    <3>2. Len(resetQueue') <= 1 /\ resetQueue' # <<>>
      <4> DEFINE n == Len(resetQueue')
      <4>1. n = 1 /\ resetQueue' # <<>>
        BY <2>1, <2>2, <3>1, RaisesEffect
      <4> HIDE DEF n
      <4>2. n <= 1
        BY <4>1
      <4> QED BY <4>1, <4>2 DEF n
    <3> QED BY <2>1, <2>2, <3>2, RaisesEffect DEF Raises, ResetOK, Alarm
  <2>3. CASE Clears
    BY <1>1, <2>1, <2>3, ClearsEffect DEF Clears, ResetOK, Alarm
  <2>4. CASE Keeps
    BY <1>1, <2>1, <2>4 DEF Keeps, ResetOK
  <2> QED BY <2>1, <2>2, <2>3, <2>4
<1>6. CASE TWatchdog
  BY <1>2, <1>6, WatchdogEffect
<1>7. CASE TLoopEnd
  BY <1>2, <1>7, LoopEndEffect
<1>8. CASE TStart
  BY <1>2, <1>8, StartEffect
<1>9. CASE TTakeReset
  <2>1. Len(<<>>) = 0
    BY QueueOps
  <2> QED BY <1>9, <2>1, TakeResetEffect DEF ResetOK, Alarm
<1>10. CASE TPublishReset
  BY <1>2, <1>10, PublishResetEffect
<1>11. CASE TNoReset
  BY <1>1, <1>11, NoResetEffect DEF ResetOK, Alarm
<1>12. CASE TWander
  <2>1. /\ bPc' = "delay" /\ bState' \in NextBState[bState] /\ (Alarm => bState = "FAULT")
        /\ UNCHANGED <<resetQueue, aState>>
    BY <1>12, WanderEffect
  <2>2. Alarm => bState' # "SLEEP"
    BY <2>1 DEF NextBState
  <2> QED BY <1>1, <2>1, <2>2 DEF ResetOK, Alarm
<1>13. CASE TWake
  BY <1>2, <1>13, WakeEffect
<1>14. CASE SimTimerStep
  BY <1>2, <1>14, SimTimerEffect
<1>15. CASE Tick
  BY <1>2, <1>15, TickEffect
<1>16. CASE Idle
  BY <1>2, <1>16 DEF Idle, vars, shared, aVars, bVars
<1> QED BY TimedActions, <1>3, <1>4, <1>5, <1>6, <1>7, <1>8, <1>9, <1>10, <1>11,
           <1>12, <1>13, <1>14, <1>15, <1>16

LEMMA RaisedStep ==
  ASSUME PeriodsFit, TInv, [TNext]_tvars
  PROVE  RaisedOK'
<1> DEFINE Premise == Alarm /\ (bPc = "step" \/ (stateQueue # <<>> /\ bState # "SLEEP"))
<1>1. /\ Premise => JustRaised
      /\ ~Premise' => RaisedOK'
      /\ JustRaised' => RaisedOK'
  BY DEF TInv, RaisedOK
<1>2. ASSUME UNCHANGED <<aState, bPc, bState, stateQueue>> PROVE Premise' => Premise
  BY <1>2 DEF Alarm
<1>3. ASSUME UNCHANGED <<errorAge, aPc, errorPollCount, aTimer>> PROVE JustRaised => JustRaised'
  BY <1>3 DEF JustRaised
<1>4. CASE TReceive
  <2>1. /\ stateQueue # <<>> /\ InSync /\ UNCHANGED <<aState, bPc, bState>>
        /\ stateQueue' = <<>> \/ aView = "SLEEP"
    BY <1>4, ReceiveEffect, QueueOps
  <2>2. bPc = "step" => aView = "SLEEP"
    BY <2>1 DEF TInv, HeardOK, Heard
  <2>3. aView = "SLEEP" => ~Alarm
    BY <2>1 DEF InSync, Alarm
  <2> QED BY <1>1, <2>1, <2>2, <2>3 DEF Alarm
<1>5. CASE TPollTimeout
  <2>1. /\ aPc = "poll" /\ aTimer = 0 /\ UNCHANGED <<aState, bPc, bState, stateQueue>>
    BY <1>5, PollTimeoutEffect
  <2>2. ~JustRaised
    BY <2>1, PeriodAssumption DEF JustRaised
  <2> QED BY <1>1, <1>2, <2>1, <2>2
<1>6. CASE TEvaluate
  <2>1. /\ aPc = "evaluate" /\ aPc' = "watchdog" /\ (Raises \/ Clears \/ Keeps)
        /\ UNCHANGED <<bPc, bState, stateQueue>>
    BY <1>6, EvaluateEffect
  <2>2. CASE Raises
    BY <1>1, <2>1, <2>2 DEF Raises, JustRaised
  <2>3. CASE Clears
    BY <1>1, <2>3 DEF Clears, Alarm
  <2>4. CASE Keeps
    <3>1. ~JustRaised
      BY <2>1 DEF JustRaised
    <3> QED BY <1>1, <2>1, <2>4, <3>1 DEF Keeps
  <2> QED BY <2>1, <2>2, <2>3, <2>4
<1>7. CASE TWatchdog
  <2>1. /\ aPc = "watchdog" /\ aPc' = "loopEnd" /\ UNCHANGED <<aState, bPc, bState, stateQueue>>
        /\ Alarm => errorPollCount' = errorPollCount + 1 /\ errorAge' = errorAge
    BY <1>7, WatchdogEffect
  <2>2. Premise => JustRaised'
    BY <1>1, <2>1 DEF JustRaised
  <2> QED BY <1>1, <1>2, <2>1, <2>2
<1>8. CASE TLoopEnd
  <2>1. /\ aPc = "loopEnd" /\ UNCHANGED <<aState, bPc, bState, stateQueue>>
        /\ UNCHANGED <<errorPollCount, errorAge>>
        /\ \/ simRunning /\ aPc' = "poll" /\ aTimer' = PollPeriod
           \/ ~simRunning
    BY <1>8, LoopEndEffect
  <2>2. CASE simRunning
    <3>1. Premise => JustRaised'
      BY <1>1, <2>1, <2>2 DEF JustRaised
    <3> QED BY <1>1, <1>2, <2>1, <3>1
  <2>3. CASE ~simRunning
    <3>1. ~Premise
      BY <2>3 DEF TInv, WindUpOK
    <3> QED BY <1>1, <1>2, <2>1, <3>1
  <2> QED BY <2>2, <2>3
<1>9. CASE TStart
  BY <1>1, <1>9, StartEffect
<1>10. CASE TTakeReset
  BY <1>1, <1>10, TakeResetEffect
<1>11. CASE TPublishReset
  BY <1>1, <1>11, PublishResetEffect
<1>12. CASE TNoReset
  BY <1>1, <1>12, NoResetEffect DEF Alarm
<1>13. CASE TWander
  <2>1. bPc = "step" /\ UNCHANGED <<aState, errorAge, aPc, errorPollCount, aTimer>>
    BY <1>13, WanderEffect
  <2>2. Premise' => JustRaised
    BY <1>1, <2>1 DEF Alarm
  <2> QED BY <1>1, <1>3, <2>1, <2>2
<1>14. CASE TWake
  <2>1. /\ bPc' # "step"
        /\ UNCHANGED <<aState, bState, stateQueue, errorAge, aPc, errorPollCount, aTimer>>
    BY <1>14, WakeEffect
  <2>2. Premise' => Premise
    BY <2>1 DEF Alarm
  <2> QED BY <1>1, <1>3, <2>1, <2>2
<1>15. CASE SimTimerStep
  BY <1>1, <1>2, <1>3, <1>15, SimTimerEffect
<1>16. CASE Tick
  BY <1>1, <1>16, TickEffect, BlockedState
<1>17. CASE Idle
  BY <1>1, <1>2, <1>3, <1>17 DEF Idle, vars, shared, aVars, bVars, ages
<1> QED BY TimedActions, <1>4, <1>5, <1>6, <1>7, <1>8, <1>9, <1>10, <1>11, <1>12, <1>13,
           <1>14, <1>15, <1>16, <1>17

\* The clocks and counters are natural numbers.
LEMMA Numeric ==
  ASSUME TInv
  PROVE  /\ aTimer \in Nat /\ aTimer <= PollPeriod /\ bTimer \in Nat /\ bTimer <= TickPeriod
         /\ errorAge \in Nat /\ faultAge \in Nat
         /\ errorPollCount \in Nat /\ faultCount \in Nat /\ logQueue \in Nat
         /\ PollPeriod \in Nat \ {0} /\ TickPeriod \in Nat \ {0} /\ AgeBound \in Nat
BY PeriodAssumption, TimedAssumption, WordAssumption
   DEF TInv, IInv, TypeOK, Counter, TTypeOK

\* While time passes under an alarm, B is to wake within its delay or has been
\* deleted, and A is polling or has been deleted.
LEMMA TickUnderAlarm ==
  ASSUME PeriodsFit, TInv, Tick, Alarm
  PROVE  /\ bPc = "delay" =>
              bTimer' = bTimer - 1 /\ errorAge + bTimer <= TickPeriod /\ bTimer > 0
         /\ bPc = "delay" \/ bPc = "deleted"
         /\ aPc = "poll" =>
              /\ aTimer' = aTimer - 1 /\ aTimer > 0
              /\ errorAge' = errorAge + 1 /\ errorAge + 1 <= TickPeriod + PollPeriod
         /\ aPc = "poll" \/ aPc = "deleted"
         /\ errorAge' <= errorAge + 1
<1>1. /\ bState # "SLEEP"
      /\ \/ aPc = "poll" /\ aTimer > 0
         \/ aPc = "deleted" /\ ~simRunning
      /\ \/ bPc = "delay" /\ bTimer > 0
         \/ bPc = "deleted" /\ ~simRunning
  BY TickEffect, BlockedState DEF InSync, Alarm
<1>2. /\ aTimer' = Sooner(aTimer) /\ bTimer' = Sooner(bTimer)
      /\ errorAge' = Least(errorAge + 1, AgeBound)
  BY TickEffect
<1>3. bPc = "delay" =>
        bTimer' = bTimer - 1 /\ errorAge + bTimer <= TickPeriod /\ bTimer > 0
  BY <1>1, <1>2, Numeric DEF Sooner, TInv, AnswerOK
<1>4. aPc = "poll" => aTimer' = aTimer - 1 /\ aTimer > 0
  BY <1>1, <1>2, Numeric DEF Sooner
<1>5. aPc = "poll" => errorAge + 1 <= TickPeriod + PollPeriod
  <2>1. CASE bPc = "delay"
    BY <1>3, <2>1, Numeric
  <2>2. CASE bPc = "deleted"
    <3>1. aPc = "poll" => errorAge + aTimer <= TickPeriod + PollPeriod
      BY <1>1, <2>2 DEF TInv, AnswerOK
    <3> QED BY <1>4, <3>1, Numeric
  <2> QED BY <1>1, <2>1, <2>2
<1>6. aPc = "poll" => errorAge' = errorAge + 1
  BY <1>2, <1>5, Numeric DEF PeriodsFit, Least
<1> QED BY <1>1, <1>2, <1>3, <1>4, <1>5, <1>6, Numeric DEF Least

LEMMA AnswerInTimeStep ==
  ASSUME PeriodsFit, TInv, [TNext]_tvars
  PROVE  AnswerOK'
<1>1. AnswerOK
  BY DEF TInv
<1>2. ASSUME UNCHANGED <<errorAge, aState, simRunning>>, bPc = "deleted" => bPc' = bPc,
             aPc = "deleted" => aPc' = aPc,
             (aPc' = aPc /\ aTimer' = aTimer) \/ aPc' # "poll" \/ simRunning,
             UNCHANGED <<bPc, bTimer, bState>> \/ bPc' # "delay" \/ bState' = "SLEEP"
      PROVE  AnswerOK'
  BY <1>1, <1>2 DEF AnswerOK, Alarm
<1>3. CASE TReceive
  BY <1>2, <1>3, ReceiveEffect
<1>4. CASE TPollTimeout
  BY <1>2, <1>4, PollTimeoutEffect
<1>5. CASE TEvaluate
  <2>1. /\ aPc = "evaluate" /\ aPc' = "watchdog" /\ (Raises \/ Clears \/ Keeps)
        /\ UNCHANGED <<simRunning, bPc, bState, bTimer>>
    BY <1>5, EvaluateEffect
  <2>2. CASE Raises
    <3>1. errorAge' = 0
      BY <2>2 DEF Raises
    <3> QED BY <2>1, <3>1, Numeric DEF AnswerOK
  <2>3. CASE Clears
    BY <2>3 DEF Clears, AnswerOK, Alarm
  <2>4. CASE Keeps
    BY <1>1, <2>1, <2>4 DEF Keeps, AnswerOK
  <2> QED BY <2>1, <2>2, <2>3, <2>4
<1>6. CASE TWatchdog
  <2>1. /\ aPc = "watchdog" /\ aPc' = "loopEnd" /\ (Alarm => errorAge' = errorAge)
        /\ UNCHANGED <<simRunning, aState, bPc, bState, bTimer>>
    BY <1>6, WatchdogEffect
  <2> QED BY <1>1, <2>1 DEF AnswerOK, Alarm
<1>7. CASE TLoopEnd
  BY <1>2, <1>7, LoopEndEffect
<1>8. CASE TStart
  BY <1>2, <1>8, StartEffect
<1>9. CASE TTakeReset
  BY <1>2, <1>9, TakeResetEffect
<1>10. CASE TPublishReset
  BY <1>2, <1>10, PublishResetEffect
<1>11. CASE TNoReset
  BY <1>2, <1>11, NoResetEffect
<1>12. CASE TWander
  <2>1. /\ bPc = "step" /\ bPc' = "delay" /\ bTimer' = TickPeriod
        /\ UNCHANGED <<errorAge, aState, simRunning, aPc, aTimer>>
    BY <1>12, WanderEffect
  <2>2. Alarm => errorAge = 0
    BY <2>1 DEF TInv, RaisedOK, JustRaised
  <2> QED BY <1>1, <2>1, <2>2, Numeric DEF AnswerOK, Alarm
<1>13. CASE TWake
  BY <1>2, <1>13, WakeEffect
<1>14. CASE SimTimerStep
  <2>1. /\ simRunning /\ ~simRunning' /\ aPc = "poll" /\ bPc = "delay"
        /\ UNCHANGED <<errorAge, aState, aPc, aTimer, bPc, bState, bTimer>>
    BY <1>14, SimTimerEffect
  <2>2. Alarm => errorAge + aTimer <= TickPeriod + PollPeriod
    <3>1. Alarm => errorAge <= TickPeriod
      BY <1>1, <2>1 DEF AnswerOK
    <3> QED BY <3>1, Numeric
  <2> QED BY <1>1, <2>1, <2>2 DEF AnswerOK, Alarm
<1>15. CASE Tick
  <2> SUFFICES ASSUME Alarm' PROVE AnswerOK'
    BY DEF AnswerOK
  <2>1. UNCHANGED <<aState, simRunning, aPc, bPc, bState>> /\ Alarm
    BY <1>15, TickEffect DEF Alarm
  <2>2. errorAge' \in Nat /\ bTimer' \in Nat /\ aTimer' \in Nat
    BY <1>15, TickEffect, Numeric DEF Sooner, Least
  <2>3. bPc = "delay" => errorAge' + bTimer' <= TickPeriod /\ errorAge' <= TickPeriod
    BY <1>15, <2>1, <2>2, TickUnderAlarm, Numeric
  <2>4. aPc = "poll" => errorAge' <= TickPeriod + PollPeriod
    BY <1>15, <2>1, TickUnderAlarm
  <2>5. ~simRunning /\ aPc = "poll" => errorAge' + aTimer' <= TickPeriod + PollPeriod
    <3>1. ~simRunning /\ aPc = "poll" => errorAge + aTimer <= TickPeriod + PollPeriod
      BY <1>1, <2>1 DEF AnswerOK
    <3> QED BY <1>15, <2>1, <3>1, TickUnderAlarm, Numeric
  <2>6. (bPc = "delay" \/ bPc = "deleted") /\ (aPc = "poll" \/ aPc = "deleted")
    BY <1>15, <2>1, TickUnderAlarm
  <2> QED BY <2>1, <2>3, <2>4, <2>5, <2>6 DEF AnswerOK
<1>16. CASE Idle
  BY <1>1, <1>16 DEF Idle, vars, shared, aVars, bVars, ages, AnswerOK, Alarm
<1> QED BY TimedActions, <1>3, <1>4, <1>5, <1>6, <1>7, <1>8, <1>9, <1>10, <1>11, <1>12,
           <1>13, <1>14, <1>15, <1>16

LEMMA PollsStep ==
  ASSUME PeriodsFit, TInv, [TNext]_tvars
  PROVE  PollsOK'
<1>1. PollsOK
  BY DEF TInv
<1>2. ASSUME UNCHANGED <<aState, aView, aPc, aTimer, errorPollCount, errorAge>> PROVE PollsOK'
  BY <1>1, <1>2 DEF PollsOK, Alarm, Counted
<1>3. Counted \in Nat
  BY Numeric DEF Counted
<1>4. CASE TReceive
  <2>1. /\ aPc = "poll" /\ aPc' = "evaluate" /\ stateQueue # <<>>
        /\ \/ bPc # "publishReset" => aView' = bState
           \/ aView' = "SLEEP"
        /\ UNCHANGED <<aState, errorPollCount, errorAge>>
    BY <1>4, ReceiveEffect, QueueOps
  <2>2. bPc # "publishReset"
    BY <2>1 DEF TInv, HeardOK, Heard
  <2>3. Alarm /\ aView' # "SLEEP" => errorAge = 0 /\ errorPollCount = 1
    BY <2>1, <2>2 DEF TInv, RaisedOK, JustRaised
  <2>4. Alarm /\ aView' # "SLEEP" => Counted' <= errorAge' + PollPeriod
    <3>1. Counted' = errorPollCount * PollPeriod
      BY <2>1 DEF Counted
    <3> QED BY <2>1, <2>3, <3>1, Numeric
  <2> QED BY <2>1, <2>4 DEF PollsOK, Alarm
<1>5. CASE TPollTimeout
  <2>1. /\ aPc = "poll" /\ aPc' = "evaluate" /\ aTimer = 0
        /\ UNCHANGED <<aState, aView, errorPollCount, errorAge>>
    BY <1>5, PollTimeoutEffect
  <2>2. Counted' = Counted
    BY <2>1 DEF Counted
  <2>3. Alarm => Counted <= errorAge + PollPeriod
    <3>1. Alarm => Counted <= errorAge + PollPeriod + aTimer
      BY <1>1, <2>1 DEF PollsOK
    <3> QED BY <1>3, <2>1, <3>1, Numeric
  <2> QED BY <2>1, <2>2, <2>3 DEF PollsOK, Alarm
<1>6. CASE TEvaluate
  <2>1. /\ aPc = "evaluate" /\ aPc' = "watchdog" /\ (Raises \/ Clears \/ Keeps)
    BY <1>6, EvaluateEffect
  <2>2. CASE Raises
    <3>1. errorPollCount' = 0 /\ errorAge' = 0
      BY <2>2 DEF Raises
    <3>2. Counted' <= errorAge' + PollPeriod
      BY <3>1, Numeric DEF Counted
    <3> QED BY <2>1, <3>2 DEF PollsOK
  <2>3. CASE Clears
    BY <2>3 DEF Clears, PollsOK, Alarm
  <2>4. CASE Keeps
    <3>1. Alarm => Counted' = Counted /\ errorAge' = errorAge /\ aView # "SLEEP"
      BY <2>4 DEF Keeps, Counted
    <3> QED BY <1>1, <2>1, <2>4, <3>1 DEF Keeps, PollsOK
  <2> QED BY <2>1, <2>2, <2>3, <2>4
<1>7. CASE TWatchdog
  <2>1. /\ aPc = "watchdog" /\ aPc' = "loopEnd" /\ aState' = aState
        /\ Alarm => errorPollCount' = errorPollCount + 1 /\ errorAge' = errorAge
    BY <1>7, WatchdogEffect
  <2>2. Alarm => Counted' = Counted + PollPeriod
    BY <2>1, Numeric DEF Counted
  <2>3. Alarm => Counted' <= errorAge' + 2 * PollPeriod
    <3>1. Alarm => Counted <= errorAge + PollPeriod
      BY <1>1, <2>1 DEF PollsOK
    <3> QED BY <1>3, <2>1, <2>2, <3>1, Numeric
  <2> QED BY <2>1, <2>3 DEF PollsOK, Alarm
<1>8. CASE TLoopEnd
  <2>1. /\ aPc = "loopEnd"
        /\ \/ aPc' = "poll" /\ aTimer' = PollPeriod
           \/ aPc' = "deleted"
        /\ UNCHANGED <<aState, errorPollCount, errorAge>>
    BY <1>8, LoopEndEffect
  <2>2. Counted' = Counted
    BY <2>1 DEF Counted
  <2>3. Alarm => Counted <= errorAge + PollPeriod + PollPeriod
    <3>1. Alarm => Counted <= errorAge + 2 * PollPeriod
      BY <1>1, <2>1 DEF PollsOK
    <3> QED BY <1>3, <3>1, Numeric
  <2> QED BY <2>1, <2>2, <2>3 DEF PollsOK, Alarm
<1>9. CASE TStart
  BY <1>2, <1>9, StartEffect
<1>10. CASE TTakeReset
  BY <1>2, <1>10, TakeResetEffect
<1>11. CASE TPublishReset
  BY <1>2, <1>11, PublishResetEffect
<1>12. CASE TNoReset
  BY <1>2, <1>12, NoResetEffect
<1>13. CASE TWander
  BY <1>2, <1>13, WanderEffect
<1>14. CASE TWake
  BY <1>2, <1>14, WakeEffect
<1>15. CASE SimTimerStep
  BY <1>2, <1>15, SimTimerEffect
<1>16. CASE Tick
  <2> SUFFICES ASSUME Alarm' PROVE PollsOK'
    BY DEF PollsOK
  <2>1. UNCHANGED <<aState, aPc, errorPollCount>> /\ Alarm
    BY <1>16, TickEffect DEF Alarm
  <2>2. Counted' = Counted
    BY <2>1 DEF Counted
  <2>3. aPc = "poll" => Counted' <= errorAge' + PollPeriod + aTimer'
    <3>1. aPc = "poll" => Counted <= errorAge + PollPeriod + aTimer
      BY <1>1, <2>1 DEF PollsOK
    <3>2. aPc = "poll" => errorAge' = errorAge + 1 /\ aTimer' = aTimer - 1
      BY <1>16, <2>1, TickUnderAlarm
    <3> QED BY <1>3, <2>2, <3>1, <3>2, Numeric
  <2>4. aPc = "poll" \/ aPc = "deleted"
    BY <1>16, <2>1, TickUnderAlarm
  <2> QED BY <2>1, <2>3, <2>4 DEF PollsOK
<1>17. CASE Idle
  BY <1>2, <1>17 DEF Idle, vars, aVars, ages
<1> QED BY TimedActions, <1>4, <1>5, <1>6, <1>7, <1>8, <1>9, <1>10, <1>11, <1>12, <1>13,
           <1>14, <1>15, <1>16, <1>17

\* A counter that saturates, as the ages do.
LEMMA LeastNext ==
  ASSUME NEW x \in Int, NEW m \in Nat
  PROVE  Least(Least(x, m) + 1, m) = Least(x + 1, m)
BY DEF Least

LEMMA FaultStep ==
  ASSUME PeriodsFit, TInv, [TNext]_tvars
  PROVE  FaultOK'
<1> DEFINE Alike == ~Alarm /\ aView = "FAULT" /\ bState = "FAULT" /\ stateQueue = <<>>
<1>1. FaultOK
  BY DEF TInv
<1>2. ASSUME UNCHANGED <<bState, stateQueue, faultAge, aState, aView, faultCount>>,
             aPc' = aPc, aPc # "poll" \/ aTimer' = aTimer
      PROVE  FaultOK'
  BY <1>1, <1>2 DEF FaultOK, FaultTime, Alarm
<1>3. ASSUME bState' # "FAULT" \/ stateQueue' # <<>>, faultAge' = 0 PROVE FaultOK'
  BY <1>3 DEF FaultOK
<1>4. FaultTime \in Nat
  BY Numeric DEF FaultTime
<1>5. CASE TReceive
  <2>1. /\ aPc = "poll" /\ aPc' = "evaluate" /\ stateQueue # <<>>
        /\ Link(aView, aView') \/ aView' = "SLEEP"
        /\ UNCHANGED <<bState, faultAge, aState, faultCount>>
    BY <1>5, ReceiveEffect, QueueOps
  <2>2. faultAge = 0
    BY <1>1, <2>1 DEF FaultOK
  <2>3. aView' = "FAULT" => faultCount = 0
    <3>1. aView \in BState
      BY DEF TInv, IInv, TypeOK
    <3>2. aView' = "FAULT" => aView = "ACTIVE"
      BY <2>1, <3>1 DEF Link, NextBState, BState
    <3> QED BY <2>1, <3>2 DEF TInv, IInv, Settled
  <2>4. aView' = "FAULT" => Least(FaultTime', AgeBound) = 0
    <3>1. aView' = "FAULT" => FaultTime' = 0
      BY <2>1, <2>3, Numeric DEF FaultTime
    <3> QED BY <3>1, Numeric DEF Least
  <2> QED BY <2>1, <2>2, <2>4 DEF FaultOK
<1>6. CASE TPollTimeout
  <2>1. /\ aPc = "poll" /\ aPc' = "evaluate" /\ aTimer = 0
        /\ UNCHANGED <<bState, stateQueue, faultAge, aState, aView, faultCount>>
    BY <1>6, PollTimeoutEffect
  <2>2. Alike => faultAge = Least(FaultTime - aTimer, AgeBound)
    BY <1>1, <2>1 DEF FaultOK
  <2>3. FaultTime - aTimer = FaultTime
    BY <1>4, <2>1
  <2>4. FaultTime' = FaultTime /\ (Alike' => Alike)
    BY <2>1 DEF FaultTime, Alarm
  <2> QED BY <1>1, <2>1, <2>2, <2>3, <2>4 DEF FaultOK, Alarm
<1>7. CASE TEvaluate
  <2>1. /\ aPc = "evaluate" /\ aPc' = "watchdog" /\ (Raises \/ Clears \/ Keeps)
        /\ UNCHANGED <<bState, stateQueue, faultAge, aView>>
    BY <1>7, EvaluateEffect
  <2>2. Alike' => Alike /\ faultCount' = faultCount + 1
    <3>1. ~(Raises /\ ~Alarm') /\ ~(Clears /\ aView = "FAULT")
      BY DEF Raises, Clears, Alarm
    <3> QED BY <2>1, <3>1 DEF Keeps
  <2>3. Alike' => faultCount' >= 1 /\ FaultTime' = FaultTime + PollPeriod
    BY <2>2, Numeric DEF FaultTime
  <2>4. Alike' => FaultTime' - PollPeriod = FaultTime
    BY <1>4, <2>3, Numeric
  <2>5. Alike => faultAge = Least(FaultTime, AgeBound)
    BY <1>1, <2>1 DEF FaultOK
  <2> QED BY <1>1, <2>1, <2>2, <2>3, <2>4, <2>5 DEF FaultOK
<1>8. CASE TWatchdog
  <2>1. /\ aPc = "watchdog" /\ aPc' = "loopEnd"
        /\ UNCHANGED <<bState, stateQueue, faultAge, aState, aView, faultCount>>
    BY <1>8, WatchdogEffect
  <2> QED BY <1>1, <2>1 DEF FaultOK, FaultTime, Alarm
<1>9. CASE TLoopEnd
  <2>1. /\ aPc = "loopEnd"
        /\ \/ aPc' = "poll" /\ aTimer' = PollPeriod
           \/ aPc' = "deleted"
        /\ UNCHANGED <<bState, stateQueue, faultAge, aState, aView, faultCount>>
    BY <1>9, LoopEndEffect
  <2> QED BY <1>1, <2>1 DEF FaultOK, FaultTime, Alarm
<1>10. CASE TStart
  <2>1. bState = "SLEEP" /\ UNCHANGED <<bState, faultAge>>
    BY <1>10, StartEffect
  <2> QED BY <1>1, <1>3, <2>1 DEF FaultOK
<1>11. CASE TTakeReset
  BY <1>3, <1>11, TakeResetEffect
<1>12. CASE TPublishReset
  <2>1. bState = "SLEEP" /\ UNCHANGED <<bState, faultAge>>
    BY <1>12, PublishResetEffect
  <2> QED BY <1>1, <1>3, <2>1 DEF FaultOK
<1>13. CASE TNoReset
  BY <1>2, <1>13, NoResetEffect
<1>14. CASE TWander
  <2>1. /\ \/ UNCHANGED <<bState, stateQueue, faultAge>>
           \/ stateQueue' # <<>> /\ faultAge' = 0
        /\ UNCHANGED <<aState, aView, faultCount, aPc, aTimer>>
    BY <1>14, WanderEffect, QueueOps
  <2> QED BY <1>2, <1>3, <2>1
<1>15. CASE TWake
  BY <1>2, <1>15, WakeEffect
<1>16. CASE SimTimerStep
  BY <1>2, <1>16, SimTimerEffect
<1>17. CASE Tick
  <2>1. /\ stateQueue = <<>>
        /\ (aPc = "poll" /\ aTimer > 0) \/ aPc = "deleted"
        /\ aTimer' = Sooner(aTimer)
        /\ faultAge' = IF bState = "FAULT" THEN Least(faultAge + 1, AgeBound) ELSE 0
        /\ UNCHANGED <<bState, stateQueue, aState, aView, faultCount, aPc>>
    BY <1>17, TickEffect, BlockedState
  <2>2. CASE Alike /\ aPc = "poll"
    <3>1. /\ faultCount >= 1 /\ faultAge = Least(FaultTime - aTimer, AgeBound)
          /\ aTimer' = aTimer - 1
      BY <1>1, <2>1, <2>2, Numeric DEF FaultOK, Sooner
    <3>2. FaultTime - aTimer \in Int /\ FaultTime - aTimer + 1 = FaultTime - aTimer'
      BY <1>4, <3>1, Numeric
    <3>3. faultAge' = Least(FaultTime - aTimer', AgeBound)
      <4> DEFINE x == FaultTime - aTimer
      <4>1. faultAge' = Least(Least(x, AgeBound) + 1, AgeBound)
        BY <2>1, <2>2, <3>1
      <4>2. Least(Least(x, AgeBound) + 1, AgeBound) = Least(x + 1, AgeBound)
        BY <3>2, LeastNext, Numeric
      <4> QED BY <3>2, <4>1, <4>2
    <3>4. FaultTime' = FaultTime
      BY <2>1 DEF FaultTime
    <3> QED BY <1>1, <2>1, <2>2, <3>1, <3>3, <3>4 DEF FaultOK
  <2>3. CASE ~(Alike /\ aPc = "poll")
    <3>1. ~(Alike' /\ aPc' = "poll") /\ aPc' \notin {"evaluate", "watchdog", "loopEnd"}
      BY <2>1, <2>3 DEF Alarm
    <3>2. bState' # "FAULT" \/ stateQueue' # <<>> => faultAge' = 0
      BY <2>1
    <3> QED BY <3>1, <3>2 DEF FaultOK
  <2> QED BY <2>2, <2>3
<1>18. CASE Idle
  BY <1>2, <1>18 DEF Idle, vars, shared, aVars, bVars, ages
<1> QED BY TimedActions, <1>5, <1>6, <1>7, <1>8, <1>9, <1>10, <1>11, <1>12, <1>13, <1>14,
           <1>15, <1>16, <1>17, <1>18

\* What a device logs in a step.
LEMMA LogBound ==
  ASSUME NEW n \in Nat, Log(n), logQueue \in Nat
  PROVE  logQueue' <= logQueue + n /\ logQueue' \in Int
BY TimedAssumption DEF Log, Least

\* A step that logs n lines must take as many off what may still be logged.
Spends(n, l, l2) ==
  /\ n \in Nat /\ l \in Nat /\ l2 \in Nat
  /\ Len(stateQueue) = l /\ Len(stateQueue') = l2
  /\ logQueue' \in Int /\ logQueue' <= logQueue + n
  /\ n + AMore' + 6 * l2 + BMore' <= AMore + 6 * l + BMore
LEMMA LogBudget ==
  ASSUME TInv, NEW n, NEW l, NEW l2, Spends(n, l, l2)
  PROVE  LogOK'
<1>1. /\ n \in Nat /\ l \in Nat /\ l2 \in Nat
      /\ Len(stateQueue) = l /\ Len(stateQueue') = l2
      /\ logQueue' \in Int /\ logQueue' <= logQueue + n
      /\ n + AMore' + 6 * l2 + BMore' <= AMore + 6 * l + BMore
  BY DEF Spends
<1>2. logQueue + AMore + 6 * l + BMore <= 15
  BY <1>1 DEF TInv, LogOK
<1>3. AMore \in Int /\ BMore \in Int /\ AMore' \in Int /\ BMore' \in Int
  BY DEF AMore, BMore
<1>4. PICK a \in Int, b \in Int, a2 \in Int, b2 \in Int, q \in Int, q2 \in Int :
        a = AMore /\ b = BMore /\ a2 = AMore' /\ b2 = BMore' /\ q = logQueue /\ q2 = logQueue'
  BY <1>1, <1>3, Numeric
<1>5. /\ q + a + 6 * l + b <= 15 /\ q2 <= q + n
      /\ n + a2 + 6 * l2 + b2 <= a + 6 * l + b
  BY <1>1, <1>2, <1>4
<1>6. q2 + a2 + 6 * l2 + b2 <= 15
  BY <1>1, <1>5
<1> QED BY <1>1, <1>4, <1>6 DEF LogOK

\* What the tasks log in each step.
LEMMA ALogs ==
  ASSUME AStep
  PROVE  /\ AMessages \in 0 .. 3 /\ Log(AMessages)
         /\ aPc = "poll" => AMessages = 0
         /\ aPc = "watchdog" => AMessages <= 2
         /\ aPc = "loopEnd" => AMessages <= 1
BY DEF AStep, AMessages
LEMMA BLogs ==
  ASSUME BStepTimed
  PROVE  /\ BMessages \in 0 .. 2 /\ Log(BMessages)
         /\ bPc = "start" => BMessages = 1
         /\ bPc = "service" => BMessages = IF resetQueue = <<>> THEN 0 ELSE 1
         /\ bPc = "publishReset" => BMessages = 0
         /\ bPc = "step" /\ ~updateLost' => BMessages = IF bState' = bState THEN 0 ELSE 1
         /\ bPc = "delay" => BMessages = IF simRunning THEN 0 ELSE 1
BY DEF BStepTimed, BMessages

LEMMA LogStep ==
  ASSUME PeriodsFit, TInv, [TNext]_tvars
  PROVE  LogOK'
<1>1. /\ logQueue \in Nat /\ TickPeriod \in Nat \ {0} /\ PollPeriod \in Nat \ {0}
      /\ aTimer \in Nat /\ bTimer \in Nat
  BY Numeric
<1>2. PICK a \in Nat, a2 \in Nat, b \in Nat, b2 \in Nat :
        /\ a = AMore /\ a2 = AMore' /\ b = BMore /\ b2 = BMore'
  <2>1. AMore \in Nat /\ AMore' \in 0 .. 6 /\ BMore \in Nat /\ BMore' \in Nat
    BY DEF AMore, BMore
  <2> QED BY <2>1
<1>3. a2 <= 6
  BY <1>2 DEF AMore
<1>4. PICK l \in Nat : l = Len(stateQueue)
  BY LenProperties DEF TInv, IInv, TypeOK
<1>5. \A x, y : Len(<<x>>) = 1 /\ Len(<<x, y>>) = 2 /\ Len(<<>>) = 0
  BY QueueOps
<1>6. ASSUME AStep
      PROVE  logQueue' \in Int /\ AMessages \in Nat /\ logQueue' <= logQueue + AMessages
  <2>1. AMessages \in Nat /\ Log(AMessages)
    BY <1>6, ALogs
  <2> QED BY <1>1, <2>1, LogBound
<1>7. ASSUME BStepTimed
      PROVE  logQueue' \in Int /\ BMessages \in Nat /\ logQueue' <= logQueue + BMessages
  <2>1. BMessages \in Nat /\ Log(BMessages)
    BY <1>7, BLogs
  <2> QED BY <1>1, <2>1, LogBound
<1>8. ASSUME UNCHANGED stateQueue, NEW n \in Nat, logQueue' \in Int, logQueue' <= logQueue + n,
             n + a2 + b2 <= a + b
      PROVE  LogOK'
  <2>1. n + a2 + 6 * l + b2 <= a + 6 * l + b
    BY <1>8
  <2>2. Spends(n, l, l)
    BY <1>2, <1>4, <1>8, <2>1 DEF Spends
  <2> QED BY <2>2, LogBudget
<1>9. CASE TReceive
  <2>1. /\ aPc = "poll" /\ aPc' = "evaluate" /\ UNCHANGED <<bPc, bTimer>>
        /\ \/ stateQueue # <<>> /\ stateQueue' = <<>>
           \/ \E x \in BState : stateQueue = <<"SLEEP", x>> /\ stateQueue' = <<x>>
    BY <1>9, ReceiveEffect
  <2>2. AMessages = 0 /\ logQueue' \in Int /\ logQueue' <= logQueue + 0
    BY <1>6, <1>9, <2>1, ALogs DEF TReceive
  <2>3. a2 = 6 /\ b2 = b
    BY <1>2, <2>1 DEF AMore, BMore
  <2>4. CASE stateQueue # <<>> /\ stateQueue' = <<>>
    <3>1. Len(stateQueue') = 0
      BY <1>5, <2>4
    <3>2. l # 0
      BY <1>4, <2>4, EmptySeq DEF TInv, IInv, TypeOK
    <3>3. Spends(0, l, 0)
      BY <1>2, <1>4, <2>2, <2>3, <3>1, <3>2 DEF Spends
    <3> QED BY <3>3, LogBudget
  <2>5. CASE \E x \in BState : stateQueue = <<"SLEEP", x>> /\ stateQueue' = <<x>>
    <3>1. Len(stateQueue') = 1 /\ Len(stateQueue) = 2
      BY <1>5, <2>5
    <3>2. Spends(0, 2, 1)
      BY <1>2, <2>2, <2>3, <3>1 DEF Spends
    <3> QED BY <3>2, LogBudget
  <2> QED BY <2>1, <2>4, <2>5
<1>10. CASE TPollTimeout
  <2>1. /\ aPc = "poll" /\ aPc' = "evaluate" /\ aTimer = 0
        /\ UNCHANGED <<stateQueue, bPc, bTimer>>
    BY <1>10, PollTimeoutEffect
  <2>2. AMessages = 0 /\ logQueue' \in Int /\ logQueue' <= logQueue + 0
    BY <1>6, <1>10, <2>1, ALogs DEF TPollTimeout
  <2>3. a2 = 6 /\ a = 6 /\ b2 = b
    BY <1>2, <2>1 DEF AMore, BMore
  <2> QED BY <1>2, <1>8, <2>1, <2>2, <2>3
<1>11. CASE TEvaluate \/ TWatchdog \/ TLoopEnd
  <2>1. /\ \/ aPc = "evaluate" /\ aPc' = "watchdog"
           \/ aPc = "watchdog" /\ aPc' = "loopEnd"
           \/ /\ aPc = "loopEnd"
              /\ \/ aPc' = "poll" /\ aTimer' = PollPeriod
                 \/ aPc' = "deleted"
        /\ UNCHANGED <<stateQueue, bPc, bTimer>>
    BY <1>11, EvaluateEffect, WatchdogEffect, LoopEndEffect
  <2>2. AStep
    BY <1>11 DEF TEvaluate, TWatchdog, TLoopEnd
  <2>3. AMessages + a2 <= a /\ b2 = b /\ AMessages \in Nat
    <3> HIDE DEF AMessages
    <3> QED BY <1>1, <1>2, <2>1, <2>2, ALogs DEF AMore, BMore
  <2>4. PICK n \in Nat : n = AMessages
    BY <2>3
  <2>5. logQueue' \in Int /\ logQueue' <= logQueue + n
    BY <1>6, <2>2, <2>4
  <2>6. n + a2 + b2 <= a + b
    <3>1. n + a2 <= a /\ b2 = b
      BY <2>3, <2>4
    <3> QED BY <3>1
  <2> QED BY <1>8, <2>1, <2>5, <2>6
<1>12. CASE TStart \/ TPublishReset
  <2>1. /\ \/ bPc = "start" /\ bPc' = "service"
           \/ bPc = "publishReset" /\ bPc' = "delay" /\ bTimer' = TickPeriod
        /\ stateQueue = <<>> /\ stateQueue' = <<"SLEEP">> /\ UNCHANGED <<aPc, aTimer>>
    BY <1>12, StartEffect, PublishResetEffect
  <2>2. BStepTimed
    BY <1>12 DEF TStart, TPublishReset
  <2>3. PICK n \in Nat : n = BMessages
    BY <1>7, <2>2
  <2>4. n + b2 + 6 <= b /\ a2 = a
    BY <1>1, <1>2, <2>1, <2>2, <2>3, BLogs DEF AMore, BMore
  <2>5. Len(stateQueue) = 0 /\ Len(stateQueue') = 1
    BY <1>5, <2>1
  <2>6. logQueue' \in Int /\ logQueue' <= logQueue + n
    BY <1>7, <2>2, <2>3
  <2>7. n + a2 + 6 * 1 + b2 <= a + 6 * 0 + b
    BY <2>4
  <2>8. Spends(n, 0, 1)
    BY <1>2, <2>5, <2>6, <2>7 DEF Spends
  <2> QED BY <2>8, LogBudget
<1>13. CASE TTakeReset \/ TNoReset \/ TWake
  <2>1. /\ \/ bPc = "service" /\ bPc' = "publishReset"
           \/ bPc = "service" /\ bPc' = "step" /\ ~Alarm
           \/ bPc = "delay" /\ bTimer = 0 /\ bPc' = "service" /\ simRunning
           \/ bPc = "delay" /\ bTimer = 0 /\ bPc' = "deleted"
        /\ UNCHANGED <<stateQueue, aPc, aTimer>>
    BY <1>13, TakeResetEffect, NoResetEffect, WakeEffect
  <2>2. BStepTimed
    BY <1>13 DEF TTakeReset, TNoReset, TWake
  <2>3. ~Alarm => resetQueue = <<>>
    BY DEF TInv, ResetOK
  <2>4. PICK n \in Nat : n = BMessages
    BY <1>7, <2>2
  <2>5. n + b2 <= b /\ a2 = a
    BY <1>1, <1>2, <2>1, <2>2, <2>3, <2>4, BLogs DEF AMore, BMore
  <2>6. logQueue' \in Int /\ logQueue' <= logQueue + n
    BY <1>7, <2>2, <2>4
  <2>7. n + a2 + b2 <= a + b
    BY <2>5
  <2> QED BY <1>8, <2>1, <2>6, <2>7
<1>14. CASE TWander
  <2>1. /\ bPc = "step" /\ bPc' = "delay" /\ bTimer' = TickPeriod /\ ~updateLost'
        /\ UNCHANGED <<aPc, aTimer>>
        /\ \/ bState' = bState /\ UNCHANGED stateQueue
           \/ /\ bState' # bState
              /\ \/ stateQueue = <<>> /\ stateQueue' = <<bState'>>
                 \/ stateQueue = <<"SLEEP">> /\ stateQueue' = <<"SLEEP", bState'>>
    BY <1>14, WanderEffect
  <2>2. BStepTimed
    BY <1>14 DEF TWander
  <2>3. PICK n \in Nat : n = BMessages
    BY <1>7, <2>2
  <2>4. b = 7 /\ b2 = 0 /\ a2 = a /\ n <= 1
    BY <1>1, <1>2, <2>1, <2>2, <2>3, BLogs DEF AMore, BMore
  <2>5. logQueue' \in Int /\ logQueue' <= logQueue + n
    BY <1>7, <2>2, <2>3
  <2>6. /\ n + a2 + b2 <= a + b
        /\ n + a2 + 6 * 1 + b2 <= a + 6 * 0 + b
        /\ n + a2 + 6 * 2 + b2 <= a + 6 * 1 + b
    BY <2>4
  <2>7. CASE UNCHANGED stateQueue
    BY <1>8, <2>7, <2>5, <2>6
  <2>8. CASE stateQueue = <<>> /\ stateQueue' = <<bState'>>
    <3>1. Len(stateQueue) = 0 /\ Len(stateQueue') = 1
      BY <1>5, <2>8
    <3>2. Spends(n, 0, 1)
      BY <1>2, <2>5, <2>6, <3>1 DEF Spends
    <3> QED BY <3>2, LogBudget
  <2>9. CASE stateQueue = <<"SLEEP">> /\ stateQueue' = <<"SLEEP", bState'>>
    <3>1. Len(stateQueue) = 1 /\ Len(stateQueue') = 2
      BY <1>5, <2>9
    <3>2. Spends(n, 1, 2)
      BY <1>2, <2>5, <2>6, <3>1 DEF Spends
    <3> QED BY <3>2, LogBudget
  <2> QED BY <2>1, <2>7, <2>8, <2>9
<1>15. CASE SimTimerStep
  <2>1. UNCHANGED <<stateQueue, logQueue, aPc, aTimer, bPc, bTimer>>
    BY <1>15, SimTimerEffect
  <2>2. a2 = a /\ b2 = b
    BY <1>2, <2>1 DEF AMore, BMore
  <2> QED BY <1>1, <1>2, <1>8, <2>1, <2>2
<1>16. CASE Tick
  <2>1. /\ logQueue' = 0 /\ stateQueue' = <<>>
        /\ bPc' \in {"delay", "deleted"}
    BY <1>16, TickEffect, BlockedState DEF LogBlocked
  <2>2. Len(stateQueue') = 0
    BY <1>5, <2>1
  <2>3. b2 <= 7
    BY <1>2, <2>1 DEF BMore
  <2>4. 0 + a2 + 6 * 0 + b2 <= 15
    BY <1>3, <2>3
  <2> QED BY <1>2, <2>1, <2>2, <2>4 DEF LogOK
<1>17. CASE Idle
  <2>1. UNCHANGED <<stateQueue, aPc, aTimer, bPc, bTimer>> /\ logQueue' \in {logQueue, logQueue - 1}
    BY <1>17 DEF Idle, vars, shared, aVars, bVars
  <2>2. a2 = a /\ b2 = b
    BY <1>2, <2>1 DEF AMore, BMore
  <2> QED BY <1>1, <1>2, <1>8, <2>1, <2>2
<1> QED BY TimedActions, <1>9, <1>10, <1>11, <1>12, <1>13, <1>14, <1>15, <1>16, <1>17

----------------------------------------------------------------------------
(* The invariant and what follows from it.                                 *)

LEMMA TInvInit ==
  ASSUME TInit, PeriodsFit
  PROVE  TInv
<1>1. /\ stateQueue = <<>> /\ resetQueue = <<>> /\ simRunning = TRUE
      /\ aPc = "poll" /\ aState = "IDLE" /\ aView = "SLEEP"
      /\ bPc = "start" /\ bState = "SLEEP" /\ updateLost = FALSE /\ sleepLost = FALSE
      /\ aTimer = PollPeriod /\ logQueue = 1 /\ faultAge = 0
  BY DEF TInit, Init
<1>2. IInv /\ TTypeOK
  BY IInvInit, TTypeInit DEF TInit
<1>3. Len(<<>>) = 0
  BY QueueOps
<1>4. QueueOK /\ ViewOK /\ HeardOK /\ WindUpOK
  BY <1>1 DEF QueueOK, ViewOK, InSync, HeardOK, WindUpOK
<1>5. ResetOK
  BY <1>1, <1>3 DEF ResetOK, Alarm
<1>6. RaisedOK /\ AnswerOK /\ PollsOK /\ FaultOK
  BY <1>1 DEF RaisedOK, AnswerOK, PollsOK, FaultOK, Alarm
<1>7. LogOK
  <2>1. AMore = 0 /\ BMore = 14
    BY <1>1, PeriodAssumption DEF AMore, BMore
  <2> QED BY <1>1, <1>3, <2>1 DEF LogOK
<1> QED BY <1>2, <1>4, <1>5, <1>6, <1>7 DEF TInv

LEMMA TInvStep ==
  ASSUME PeriodsFit, TInv, [TNext]_tvars
  PROVE  TInv'
<1>1. IInv'
  BY IInvStep, TimedStep DEF TInv
<1>2. TTypeOK'
  BY TTypeStep DEF TInv
<1> QED BY <1>1, <1>2, QueueStep, ViewStep, HeardStep, WindUpStep, ResetStep, RaisedStep,
           AnswerInTimeStep, PollsStep, FaultStep, LogStep
        DEF TInv

\* The invariant of the clocked system, for all periods and depths that fit.
THEOREM TimedSafety ==
  ASSUME PeriodsFit
  PROVE  TSpec => []TInv
BY TInvInit, TInvStep, PTL DEF TSpec

\* Nothing is ever dropped: no update of B, no SLEEP, no line of the log.
THEOREM NothingDroppedCorrect ==
  ASSUME PeriodsFit
  PROVE  TSpec => []NothingDropped
<1>1. TInv => NothingDropped
  <2> SUFFICES ASSUME TInv PROVE NothingDropped
    OBVIOUS
  <2>1. ~updateLost /\ ~sleepLost
    BY DEF TInv, QueueOK
  <2>2. PICK l \in Nat : l = Len(stateQueue)
    BY LenProperties DEF TInv, IInv, TypeOK
  <2>3. PICK a \in Nat, b \in Nat : a = AMore /\ b = BMore
    <3>1. AMore \in Nat /\ BMore \in Nat
      BY DEF AMore, BMore
    <3> QED BY <3>1
  <2>4. logQueue + a + 6 * l + b <= 15 /\ logQueue \in Nat
    BY <2>2, <2>3, Numeric DEF TInv, LogOK
  <2>5. logQueue < LogDepth
    BY <2>4, TimedAssumption DEF PeriodsFit
  <2> QED BY <2>1, <2>5 DEF NothingDropped
<1> QED BY <1>1, TimedSafety, PTL

\* Whenever time passes A knows the state of B and has acted on it.
THEOREM SameTickCorrect ==
  ASSUME PeriodsFit
  PROVE  TSpec => []SameTick
<1>1. TInv => SameTick
  BY BlockedState DEF SameTick, InSync
<1> QED BY <1>1, TimedSafety, PTL

\* A is out of ERROR within one period of B.
THEOREM RecoveryInTime ==
  ASSUME PeriodsFit
  PROVE  TSpec => []RecoveryInOneTick
<1>1. TInv => RecoveryInOneTick
  BY DEF TInv, AnswerOK, Alarm, RecoveryInOneTick
<1> QED BY <1>1, TimedSafety, PTL

\* No fault outlasts the window by a tick without the alarm.
THEOREM AlarmNotLate ==
  ASSUME PeriodsFit
  PROVE  TSpec => []NoLateAlarm
<1>1. TInv => NoLateAlarm
  <2> SUFFICES ASSUME TInv, DevicesBlocked, aPc = "poll", faultAge > Window, ~Alarm
               PROVE  FALSE
    BY DEF NoLateAlarm, Alarm
  <2>1. stateQueue = <<>> /\ aView = bState /\ aTimer > 0
    BY BlockedState
  <2>2. faultCount < FaultThreshold /\ faultCount <= FaultThreshold - 1
    BY FaultThresholdAssumption, Numeric DEF TInv, IInv, CountersBounded, Alarm
  <2>3. FaultTime <= Window /\ FaultTime \in Nat /\ Window \in Nat
    BY <2>2, FaultThresholdAssumption, Numeric DEF FaultTime, Window
  <2>4. bState = "FAULT"
    BY <2>3, Numeric DEF TInv, FaultOK
  <2>5. faultAge = Least(FaultTime - aTimer, AgeBound)
    BY <2>1, <2>4 DEF TInv, FaultOK
  <2>6. FaultTime - aTimer < Window
    BY <2>1, <2>3, Numeric
  <2> QED BY <2>3, <2>5, <2>6, Numeric DEF Least
<1> QED BY <1>1, TimedSafety, PTL

\* A escalates only on a fault that has lasted the window.
THEOREM AlarmNotEarly ==
  ASSUME PeriodsFit
  PROVE  TSpec => NoEarlyAlarm
<1>1. TInv /\ [TNext]_tvars
        => [aState # "ERROR" /\ aState' = "ERROR" /\ bState = "FAULT"
              => faultAge >= Window]_tvars
  <2> SUFFICES ASSUME TInv, [TNext]_tvars, ~Alarm, aState' = "ERROR", bState = "FAULT"
               PROVE  faultAge >= Window
    BY DEF Alarm
  <2>1. TEvaluate
    BY TimedActions, ReceiveEffect, PollTimeoutEffect, WatchdogEffect, LoopEndEffect,
       StartEffect, TakeResetEffect, PublishResetEffect, NoResetEffect, WanderEffect,
       WakeEffect, SimTimerEffect, TickEffect
       DEF Alarm, Idle, vars, aVars
  <2>2. aPc = "evaluate" /\ aView = "FAULT" /\ faultCount + 1 >= FaultThreshold /\ Raises
    BY <2>1, EvaluateEffect DEF Raises, Clears, Keeps, Alarm
  <2>3. stateQueue = <<>>
    <3> SUFFICES ASSUME stateQueue # <<>> PROVE FALSE
      OBVIOUS
    <3>1. PICK x \in BState : stateQueue = <<x>> /\ Link("FAULT", x)
      BY <2>2 DEF TInv, QueueOK
    <3>2. x = "ACTIVE"
      BY <3>1 DEF Link, NextBState, Alarm
    <3> QED BY <2>2, <3>1, <3>2, RaisesEffect, SentLast
  <2>4. faultAge = Least(FaultTime, AgeBound)
    BY <2>2, <2>3 DEF TInv, FaultOK
  <2>5. FaultTime >= Window /\ FaultTime \in Nat
    <3>1. faultCount >= FaultThreshold - 1
      BY <2>2, FaultThresholdAssumption, Numeric
    <3> QED BY <3>1, FaultThresholdAssumption, Numeric DEF FaultTime, Window
  <2>6. AgeBound >= Window
    BY DEF PeriodsFit, Window
  <2> QED BY <2>4, <2>5, <2>6 DEF Least
<1> QED BY <1>1, TimedSafety, PTL DEF TSpec, NoEarlyAlarm

\* A reset is issued only when none is queued or being answered.
THEOREM OneResetOutstanding ==
  ASSUME PeriodsFit
  PROVE  TSpec => OneOutstandingReset
<1>1. TInv /\ [TNext]_tvars
        => [IssuesReset => resetQueue = <<>> /\ bPc # "publishReset"]_tvars
  <2> SUFFICES ASSUME TInv, [TNext]_tvars, IssuesReset
               PROVE  resetQueue = <<>> /\ bPc # "publishReset"
    OBVIOUS
  <2>1. CASE aPc = "evaluate" /\ aState # "ERROR" /\ aState' = "ERROR"
    <3>1. TEvaluate
      BY <2>1, TimedActions, ReceiveEffect, PollTimeoutEffect, WatchdogEffect, LoopEndEffect,
         StartEffect, TakeResetEffect, PublishResetEffect, NoResetEffect, WanderEffect,
         WakeEffect, SimTimerEffect, TickEffect
         DEF Idle, vars, aVars
    <3>2. Raises
      BY <2>1, <3>1, EvaluateEffect DEF Clears, Keeps, Alarm
    <3> QED BY <2>1, <3>2, RaisesEffect
  <2>2. CASE aPc = "watchdog" /\ aPc' # aPc /\ aState = "ERROR" /\ TimedOut
    <3>1. TWatchdog
      BY <2>2, TimedActions, ReceiveEffect, PollTimeoutEffect, EvaluateEffect, LoopEndEffect,
         StartEffect, TakeResetEffect, PublishResetEffect, NoResetEffect, WanderEffect,
         WakeEffect, SimTimerEffect, TickEffect
         DEF Idle, vars, aVars
    <3> QED BY <2>2, <3>1, WatchdogEffect DEF Alarm
  <2> QED BY <2>1, <2>2 DEF IssuesReset
<1> QED BY <1>1, TimedSafety, PTL DEF TSpec, OneOutstandingReset

\* B is reset only while A is in ERROR, here by an invariant in which the watchdog
\* never fires; with a B slower than the time-out it does.
THEOREM ResetsWanted ==
  ASSUME PeriodsFit
  PROVE  TSpec => ResetsAreWanted
<1>1. TInv /\ [TNext]_tvars
        => [bPc = "service" /\ bPc' = "publishReset" => aState = "ERROR"]_tvars
  <2> SUFFICES ASSUME TInv, [TNext]_tvars, bPc = "service", bPc' = "publishReset"
               PROVE  aState = "ERROR"
    OBVIOUS
  <2>1. TTakeReset
    BY TimedActions, ReceiveEffect, PollTimeoutEffect, EvaluateEffect, WatchdogEffect,
       LoopEndEffect, StartEffect, PublishResetEffect, NoResetEffect, WanderEffect,
       WakeEffect, SimTimerEffect, TickEffect
       DEF Idle, vars, bVars
  <2> QED BY <2>1, TakeResetEffect DEF Alarm
<1> QED BY <1>1, TimedSafety, PTL DEF TSpec, ResetsAreWanted

----------------------------------------------------------------------------
(* The pair implements Recovery: each step maps to a step of the promise,  *)
(* or to none.                                                             *)

LEMMA PromiseStep ==
  ASSUME PeriodsFit, TInv, [TNext]_tvars
  PROVE  [Promise!Next]_(Promise!vars)
<1> USE DEF Promise!Next, Promise!vars, Alarm
<1>1. ASSUME UNCHANGED <<bState, aState, simRunning>> PROVE [Promise!Next]_(Promise!vars)
  BY <1>1
<1>2. bState \in BState /\ simRunning \in BOOLEAN
  BY DEF TInv, IInv, TypeOK
<1>3. CASE TEvaluate
  <2>1. /\ aPc = "evaluate" /\ (Raises \/ Clears \/ Keeps)
        /\ UNCHANGED <<bState, simRunning>>
    BY <1>3, EvaluateEffect
  <2>2. CASE ~simRunning
    BY <1>2, <2>1, <2>2 DEF Promise!WindUp
  <2>3. CASE simRunning /\ Raises
    <3>1. bState \in {"FAULT", "ACTIVE"}
      BY <1>2, <2>1, <2>3, RaisesEffect DEF BState
    <3> QED BY <2>1, <2>3, <3>1 DEF Raises, Promise!Raise
  <2>4. CASE simRunning /\ Clears
    <3>1. bState = "SLEEP"
      BY <2>1, <2>4, ClearsEffect
    <3> QED BY <2>1, <2>4, <3>1 DEF Clears, Promise!Clear
  <2>5. CASE Keeps
    BY <2>1, <2>5 DEF Keeps
  <2> QED BY <2>1, <2>2, <2>3, <2>4, <2>5
<1>4. CASE TTakeReset
  <2>1. /\ bState # "SLEEP" /\ bState' = "SLEEP" /\ Alarm /\ bPc = "service"
        /\ UNCHANGED <<aState, simRunning>>
    BY <1>4, TakeResetEffect
  <2>2. simRunning
    BY <1>2, <2>1 DEF TInv, WindUpOK
  <2> QED BY <2>1, <2>2 DEF Promise!Reset
<1>5. CASE TWander
  <2>1. /\ bPc = "step" /\ bState' \in NextBState[bState] /\ (Alarm => bState = "FAULT")
        /\ UNCHANGED <<aState, simRunning>>
    BY <1>5, WanderEffect
  <2>2. simRunning
    BY <1>2, <2>1 DEF TInv, WindUpOK
  <2> QED BY <2>1, <2>2 DEF Promise!Wander
<1>6. CASE SimTimerStep
  BY <1>6, SimTimerEffect DEF SimTimerStep, SimTimer, Promise!Stop
<1>7. CASE TReceive \/ TPollTimeout \/ TWatchdog \/ TLoopEnd
  BY <1>1, <1>7, ReceiveEffect, PollTimeoutEffect, WatchdogEffect, LoopEndEffect
<1>8. CASE TStart \/ TPublishReset \/ TNoReset \/ TWake
  BY <1>1, <1>8, StartEffect, PublishResetEffect, NoResetEffect, WakeEffect
<1>9. CASE Tick \/ Idle
  BY <1>1, <1>9, TickEffect DEF Idle, vars, shared, aVars, bVars
<1> QED BY TimedActions, <1>3, <1>4, <1>5, <1>6, <1>7, <1>8, <1>9

\* The safety part of PromiseKept: a reset only under an alarm, an alarm only on a
\* slave that is or has just been faulty, and its end before B moves again.
THEOREM PromiseSafety ==
  ASSUME PeriodsFit
  PROVE  TSpec => Promise!Init /\ [][Promise!Next]_(Promise!vars)
<1>1. TInit => Promise!Init
  BY DEF TInit, Init, Promise!Init
<1> QED BY <1>1, PromiseStep, TimedSafety, PTL DEF TSpec
=============================================================================
