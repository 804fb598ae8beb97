------------------------ MODULE MasterSlave_proofs ------------------------
(***************************************************************************)
(* Proofs about MasterSlave, for every threshold, depth, period and word   *)
(* size that satisfy the assumptions.                                      *)
(***************************************************************************)
EXTENDS MasterSlave, SequenceTheorems, TLAPS

----------------------------------------------------------------------------
(* The helpers.                                                            *)

\* A non-blocking send keeps the items' type and never passes the depth; a
\* queue that could be sent to is not empty afterwards.
LEMMA TrySendType ==
  ASSUME NEW S, NEW q \in Seq(S), NEW depth \in Nat \ {0}, NEW x \in S,
         Len(q) <= depth
  PROVE  /\ TrySend(q, depth, x) \in Seq(S)
         /\ Len(TrySend(q, depth, x)) <= depth
         /\ TrySend(q, depth, x) # <<>>
BY DEF TrySend, HasRoom

\* A receive keeps the items' type and shortens the queue.
LEMMA ReceiveType ==
  ASSUME NEW S, NEW q \in Seq(S), q # <<>>, NEW depth \in Nat, Len(q) <= depth
  PROVE  /\ Head(q) \in S
         /\ Tail(q) \in Seq(S)
         /\ Len(Tail(q)) <= depth
OBVIOUS

\* device_a_process_event returns a state of Device A.
LEMMA ProcessEventType ==
  ASSUME NEW a \in AState, NEW b \in BState, NEW n \in Nat
  PROVE  ProcessEvent(a, b, n) \in AState
BY FaultThresholdAssumption DEF ProcessEvent, Transition, AState

\* One step of Device A's state machine, case by case.
LEMMA ProcessEventCases ==
  ASSUME NEW a \in AState, NEW b \in BState, NEW n \in Nat
  PROVE  /\ a # "ERROR" /\ ProcessEvent(a, b, n) = "ERROR" => n >= FaultThreshold
         /\ a # "ERROR" /\ n >= FaultThreshold => ProcessEvent(a, b, n) = "ERROR"
         /\ a = "ERROR" /\ ProcessEvent(a, b, n) # "ERROR" =>
              b = "SLEEP" /\ ProcessEvent(a, b, n) = "IDLE"
         /\ n < FaultThreshold /\ b = "SLEEP" => ProcessEvent(a, b, n) = "IDLE"
         /\ n < FaultThreshold /\ b = "ACTIVE" => ProcessEvent(a, b, n) # "IDLE"
BY FaultThresholdAssumption DEF ProcessEvent, Transition, AState, BState

\* The fault counter stays in uint32_t, and is nothing without a FAULT.
LEMMA FaultsType ==
  ASSUME aView \in BState, faultCount \in Counter
  PROVE  Faults \in Counter /\ (aView # "FAULT" => Faults = 0)
BY WordAssumption, FaultThresholdAssumption DEF Faults, Counter

\* The recovery counter stays in uint32_t.
LEMMA PollsType ==
  ASSUME errorPollCount \in Counter
  PROVE  Polls \in Counter
BY WordAssumption, FaultThresholdAssumption DEF Polls, Counter

----------------------------------------------------------------------------
(* Types.                                                                  *)

\* The initial state is type-correct.
LEMMA TypeInit == Init => TypeOK
<1> SUFFICES ASSUME Init PROVE TypeOK
  OBVIOUS
<1>1. 0 \in Counter
  BY WordAssumption, FaultThresholdAssumption DEF Counter
<1>2. stateQueue \in Seq(BState) /\ Len(stateQueue) <= StateDepth
  BY EmptySeq, DepthAssumption DEF Init
<1>3. resetQueue \in Seq(ResetCmd) /\ Len(resetQueue) <= ResetDepth
  BY EmptySeq, DepthAssumption DEF Init
<1> QED
  BY <1>1, <1>2, <1>3 DEF Init, TypeOK, AState, BState

\* Every step of either task keeps the types.
LEMMA TypeStep == TypeOK /\ [Next]_vars => TypeOK'
<1> SUFFICES ASSUME TypeOK, [Next]_vars PROVE TypeOK'
  OBVIOUS
<1> USE DEF TypeOK
<1>1. CASE AReceive
  BY <1>1, ReceiveType, DepthAssumption DEF AReceive, bVars
<1>2. CASE APollTimeout
  BY <1>2 DEF APollTimeout, shared, bVars
<1>3. CASE AEvaluate
  <2> Faults \in Counter /\ Faults \in Nat
    BY FaultsType, WordAssumption DEF Counter
  <2>1. aState' \in AState
    BY <1>3, ProcessEventType DEF AEvaluate
  <2>2. resetQueue' \in Seq(ResetCmd) /\ Len(resetQueue') <= ResetDepth
    BY <1>3, TrySendType, DepthAssumption DEF AEvaluate, IssueReset, ResetCmd
  <2>3. faultCount' \in Counter /\ errorPollCount' \in Counter
    BY <1>3, WordAssumption, FaultThresholdAssumption DEF AEvaluate, Counter
  <2> QED BY <1>3, <2>1, <2>2, <2>3 DEF AEvaluate, bVars
<1>4. CASE AWatchdog
  <2>1. resetQueue' \in Seq(ResetCmd) /\ Len(resetQueue') <= ResetDepth
    BY <1>4, TrySendType, DepthAssumption DEF AWatchdog, IssueReset, ResetCmd
  <2>2. errorPollCount' \in Counter
    BY <1>4, PollsType, WordAssumption, FaultThresholdAssumption DEF AWatchdog, Counter
  <2> QED BY <1>4, <2>1, <2>2 DEF AWatchdog, bVars
<1>5. CASE ALoopEnd
  BY <1>5 DEF ALoopEnd, shared, bVars
<1>6. CASE BStart
  BY <1>6, TrySendType, DepthAssumption DEF BStart, Publish, aVars, HasRoom
<1>7. CASE BTakeReset
  BY <1>7, ReceiveType, DepthAssumption DEF BTakeReset, aVars, BState
<1>8. CASE BPublishReset
  BY <1>8, TrySendType, DepthAssumption DEF BPublishReset, Publish, aVars, HasRoom, BState
<1>9. CASE BNoReset
  BY <1>9 DEF BNoReset, shared, aVars
<1>10. CASE BStep
  <2> PICK next \in NextBState[bState] :
        /\ bState' = next
        /\ IF next # bState THEN Publish(next) ELSE UNCHANGED <<stateQueue, updateLost>>
    BY <1>10 DEF BStep
  <2>1. next \in BState
    BY DEF NextBState, BState
  <2>2. stateQueue' \in Seq(BState) /\ Len(stateQueue') <= StateDepth
    BY <2>1, TrySendType, DepthAssumption DEF Publish
  <2>3. updateLost' \in BOOLEAN
    BY DEF Publish
  <2> QED BY <1>10, <2>1, <2>2, <2>3 DEF BStep, aVars
<1>11. CASE BWake
  BY <1>11 DEF BWake, shared, aVars
<1>12. CASE SimTimer
  BY <1>12 DEF SimTimer, aVars, bVars
<1>13. CASE UNCHANGED vars
  BY <1>13 DEF vars, shared, aVars, bVars
<1> QED
  BY <1>1, <1>2, <1>3, <1>4, <1>5, <1>6, <1>7, <1>8, <1>9, <1>10, <1>11, <1>12, <1>13
     DEF Next, ANext, BNext

\* Type correctness of the two tasks: no queue passes its depth and no counter
\* leaves uint32_t, however the tasks interleave.
THEOREM TypeCorrect == Spec => []TypeOK
BY TypeInit, TypeStep, PTL DEF Spec

----------------------------------------------------------------------------
(* What A believes of B.                                                   *)

\* A dropped send leaves the queue alone; one that succeeds adds at the end.
LEMMA TrySendItems ==
  ASSUME NEW S, NEW q \in Seq(S), NEW depth \in Nat, NEW x \in S
  PROVE  /\ ~HasRoom(q, depth) => TrySend(q, depth, x) = q
         /\ HasRoom(q, depth) =>
              /\ TrySend(q, depth, x) # <<>>
              /\ Len(TrySend(q, depth, x)) = Len(q) + 1
              /\ TrySend(q, depth, x)[Len(q) + 1] = x
              /\ \A i \in 1 .. Len(q) : TrySend(q, depth, x)[i] = q[i]
BY AppendProperties DEF TrySend, HasRoom

\* A publication that is not dropped becomes the newest state sent to A.
LEMMA PublishNewest ==
  ASSUME TypeOK, NEW b \in BState, Publish(b), UNCHANGED aView
  PROVE  ~updateLost' => Newest' = b
<1>1. SUFFICES ASSUME HasRoom(stateQueue, StateDepth)
               PROVE  Newest' = b
  BY DEF Publish
<1> QED
  BY <1>1, TrySendItems, DepthAssumption DEF Publish, Newest, TypeOK

\* BeliefFollows survives every step: B publishes whatever changes its state.
LEMMA BeliefStep ==
  ASSUME TypeOK, BeliefFollows, [Next]_vars
  PROVE  BeliefFollows'
<1> USE DEF BeliefFollows
<1>1. CASE AReceive
  <2> stateQueue \in Seq(BState) /\ stateQueue # <<>>
    BY <1>1 DEF AReceive, TypeOK
  <2>1. Newest' = Newest
    <3>1. CASE Len(stateQueue) = 1
      BY <1>1, <3>1 DEF AReceive, Newest
    <3>2. CASE Len(stateQueue) # 1
      <4> DEFINE n == Len(stateQueue)
      <4>1. n \in Nat /\ n > 1
        BY <3>2, EmptySeq
      <4>2. /\ Len(Tail(stateQueue)) = n - 1
            /\ \A i \in 1 .. n - 1 : Tail(stateQueue)[i] = stateQueue[i + 1]
        BY <4>1, HeadTailProperties
      <4>3. Tail(stateQueue)[n - 1] = stateQueue[n] /\ Tail(stateQueue) # <<>>
        BY <4>1, <4>2
      <4> QED BY <1>1, <4>2, <4>3 DEF AReceive, Newest
    <3> QED BY <3>1, <3>2
  <2> QED BY <1>1, <2>1 DEF AReceive, bVars
<1>2. CASE APollTimeout \/ ALoopEnd \/ BNoReset \/ BWake \/ SimTimer \/ UNCHANGED vars
  BY <1>2 DEF APollTimeout, ALoopEnd, BNoReset, BWake, SimTimer, Newest,
              vars, shared, aVars, bVars
<1>3. CASE AEvaluate \/ AWatchdog
  BY <1>3 DEF AEvaluate, AWatchdog, Newest, bVars
<1>4. CASE BStart
  BY <1>4, PublishNewest DEF BStart, aVars, TypeOK
<1>5. CASE BTakeReset
  BY <1>5 DEF BTakeReset
<1>6. CASE BPublishReset
  BY <1>6, PublishNewest DEF BPublishReset, aVars, TypeOK
<1>7. CASE BStep
  <2> PICK next \in NextBState[bState] :
        /\ bState' = next
        /\ IF next # bState THEN Publish(next) ELSE UNCHANGED <<stateQueue, updateLost>>
    BY <1>7 DEF BStep
  <2>1. next \in BState
    BY DEF NextBState, BState, TypeOK
  <2>2. CASE next # bState
    BY <1>7, <2>1, <2>2, PublishNewest DEF BStep, aVars
  <2>3. CASE next = bState
    BY <1>7, <2>3 DEF BStep, aVars, Newest
  <2> QED BY <2>2, <2>3
<1> QED
  BY <1>1, <1>2, <1>3, <1>4, <1>5, <1>6, <1>7 DEF Next, ANext, BNext

\* What B is about to publish after a reset stays SLEEP.
LEMMA AnswerStep ==
  ASSUME TypeOK, AnswersSleep, [Next]_vars
  PROVE  AnswersSleep'
BY DEF AnswersSleep, Next, ANext, BNext, AReceive, APollTimeout, AEvaluate, AWatchdog,
       ALoopEnd, BStart, BTakeReset, BPublishReset, BNoReset, BStep, BWake, SimTimer,
       vars, shared, aVars, bVars

----------------------------------------------------------------------------
(* What A keeps of an iteration.                                           *)

\* A's state keeps fitting the observation it has evaluated.
LEMMA SettledStep ==
  ASSUME TypeOK, Settled, CountersBounded, [Next]_vars
  PROVE  Settled'
<1> USE DEF Settled
<1>1. CASE AReceive \/ APollTimeout
  BY <1>1 DEF AReceive, APollTimeout
<1>2. CASE AEvaluate
  <2> DEFINE next == ProcessEvent(aState, aView, Faults)
  <2>1. Faults \in Nat /\ (aView # "FAULT" => Faults = 0)
    BY FaultsType DEF TypeOK, Counter
  <2>2. aState' = next /\ aView' = aView
    BY <1>2 DEF AEvaluate
  <2>3. aView # "FAULT" => Faults < FaultThreshold
    BY <2>1, FaultThresholdAssumption
  <2>4. aView = "SLEEP" => next = "IDLE"
    BY <2>1, <2>3, ProcessEventCases DEF TypeOK
  <2>5. aView = "ACTIVE" => next # "IDLE"
    BY <2>1, <2>3, ProcessEventCases DEF TypeOK
  <2>6. aView # "FAULT" => faultCount' = 0
    BY <1>2, <2>1 DEF AEvaluate
  <2> QED BY <2>2, <2>4, <2>5, <2>6
<1>3. CASE AWatchdog \/ ALoopEnd
  BY <1>3 DEF AWatchdog, ALoopEnd
<1>4. CASE BNext \/ SimTimer \/ UNCHANGED vars
  BY <1>4 DEF BNext, BStart, BTakeReset, BPublishReset, BNoReset, BStep, BWake, SimTimer,
              vars, aVars
<1> QED BY <1>1, <1>2, <1>3, <1>4 DEF Next, ANext

\* The multiplication in the time-out test does not wrap.
LEMMA NoWrap ==
  ASSUME NEW n \in Counter, n * PollPeriod < ResetTimeout
  PROVE  /\ (n + 1) % WordSize = n + 1
         /\ ((n + 1) * PollPeriod) % WordSize = (n + 1) * PollPeriod
<1> n \in Nat /\ PollPeriod \in Nat \ {0} /\ ResetTimeout \in Nat /\ WordSize \in Nat
  BY PeriodAssumption, WordAssumption DEF Counter
<1>1. n <= n * PollPeriod
  OBVIOUS
<1>2. n + 1 < WordSize
  BY <1>1, WordAssumption
<1>3. (n + 1) * PollPeriod = n * PollPeriod + PollPeriod
  OBVIOUS
<1>4. (n + 1) * PollPeriod \in Nat /\ (n + 1) * PollPeriod < WordSize
  BY <1>3, WordAssumption
<1>5. ASSUME NEW m \in Nat, m < WordSize PROVE m % WordSize = m
  BY <1>5, WordAssumption, FaultThresholdAssumption
<1> QED BY <1>2, <1>4, <1>5

\* Between steps the counters stay below the threshold and the time-out.
LEMMA CountersStep ==
  ASSUME TypeOK, Settled, CountersBounded, [Next]_vars
  PROVE  CountersBounded'
<1> USE DEF CountersBounded
<1>1. CASE AEvaluate
  <2>1. Faults \in Nat
    BY FaultsType DEF TypeOK, Counter
  <2>2. 0 * PollPeriod < ResetTimeout
    BY PeriodAssumption
  <2>3. aState' # "ERROR" => faultCount' < FaultThreshold
    BY <1>1, <2>1, ProcessEventCases, FaultThresholdAssumption DEF AEvaluate, TypeOK
  <2>4. aState' # "ERROR" => errorPollCount' = 0
    BY <1>1 DEF AEvaluate
  <2>5. errorPollCount' * PollPeriod < ResetTimeout
    BY <1>1, <2>2 DEF AEvaluate
  <2> QED BY <2>3, <2>4, <2>5
<1>2. CASE AWatchdog
  <2>1. 0 * PollPeriod < ResetTimeout
    BY PeriodAssumption
  <2>2. ~TimedOut => Polls * PollPeriod < ResetTimeout
    <3>1. Polls = errorPollCount + 1
      BY NoWrap DEF Polls, TypeOK
    <3>2. (Polls * PollPeriod) % WordSize = Polls * PollPeriod
      BY <3>1, NoWrap DEF TypeOK
    <3>3. Polls * PollPeriod \in Nat
      BY <3>1, PeriodAssumption DEF TypeOK, Counter
    <3> HIDE DEF Polls
    <3> QED BY <3>2, <3>3, PeriodAssumption DEF TimedOut
  <2> QED BY <1>2, <2>1, <2>2 DEF AWatchdog
<1>3. CASE AReceive \/ APollTimeout \/ ALoopEnd
  BY <1>3 DEF AReceive, APollTimeout, ALoopEnd
<1>4. CASE BNext \/ SimTimer \/ UNCHANGED vars
  BY <1>4 DEF BNext, BStart, BTakeReset, BPublishReset, BNoReset, BStep, BWake, SimTimer,
              vars, aVars
<1> QED BY <1>1, <1>2, <1>3, <1>4 DEF Next, ANext

----------------------------------------------------------------------------
(* The fault episode.                                                      *)

\* A reset under way, its answer, or the loss of the answer: each step of an
\* alarm leads from one to the next.
LEMMA RecoveryStep ==
  ASSUME TypeOK, RecoveryUnderWay, AnswersSleep, [Next]_vars
  PROVE  RecoveryUnderWay'
<1> SUFFICES ASSUME aState' = "ERROR" PROVE RecoveryUnderWay'
  BY DEF RecoveryUnderWay
<1> DEFINE SleepIn(q) == \E i \in 1 .. Len(q) : q[i] = "SLEEP"
<1>1. CASE AReceive
  <2> stateQueue \in Seq(BState) /\ stateQueue # <<>>
    BY <1>1 DEF AReceive, TypeOK
  <2>1. SleepIn(stateQueue) => SleepIn(stateQueue') \/ aView' = "SLEEP"
    <3> SUFFICES ASSUME NEW i \in 1 .. Len(stateQueue), stateQueue[i] = "SLEEP"
                 PROVE  SleepIn(stateQueue') \/ aView' = "SLEEP"
      OBVIOUS
    <3>1. CASE i = 1
      BY <1>1, <3>1 DEF AReceive
    <3>2. CASE i # 1
      <4>1. i - 1 \in 1 .. Len(Tail(stateQueue))
        BY <3>2, HeadTailProperties
      <4>2. Tail(stateQueue)[i - 1] = "SLEEP"
        BY <4>1, HeadTailProperties
      <4> QED BY <1>1, <4>1, <4>2 DEF AReceive
    <3> QED BY <3>1, <3>2
  <2> QED BY <1>1, <2>1 DEF AReceive, RecoveryUnderWay, bVars
<1>2. CASE AEvaluate
  <2>1. CASE aState = "ERROR"
    <3>1. aView # "SLEEP"
      BY <1>2, <2>1 DEF AEvaluate, ProcessEvent, Transition
    <3> QED BY <1>2, <2>1, <3>1 DEF AEvaluate, RecoveryUnderWay, bVars
  <2>2. CASE aState # "ERROR"
    <3>1. IssueReset
      BY <1>2, <2>2 DEF AEvaluate
    <3>2. resetQueue' # <<>>
      BY <3>1, TrySendType, DepthAssumption DEF IssueReset, TypeOK, ResetCmd
    <3> QED BY <3>2 DEF RecoveryUnderWay
  <2> QED BY <2>1, <2>2
<1>3. CASE AWatchdog
  <2>1. resetQueue # <<>> => resetQueue' # <<>>
    BY <1>3, TrySendType, DepthAssumption DEF AWatchdog, IssueReset, TypeOK, ResetCmd
  <2> QED BY <1>3, <2>1 DEF AWatchdog, RecoveryUnderWay, bVars
<1>4. CASE APollTimeout \/ ALoopEnd \/ BNoReset \/ BWake \/ SimTimer \/ UNCHANGED vars
  BY <1>4 DEF APollTimeout, ALoopEnd, BNoReset, BWake, SimTimer, RecoveryUnderWay,
              vars, shared, aVars, bVars
<1>5. CASE BTakeReset
  BY <1>5 DEF BTakeReset, RecoveryUnderWay
<1>6. ASSUME NEW b \in BState, Publish(b)
      PROVE  /\ SleepIn(stateQueue) => SleepIn(stateQueue')
             /\ b = "SLEEP" => SleepIn(stateQueue') \/ updateLost'
  <2> stateQueue \in Seq(BState) /\ StateDepth \in Nat /\ Len(stateQueue) \in Nat
    BY DepthAssumption DEF TypeOK
  <2>1. CASE HasRoom(stateQueue, StateDepth)
    <3> DEFINE n == Len(stateQueue)
    <3>1. /\ Len(stateQueue') = n + 1
          /\ stateQueue'[n + 1] = b
          /\ \A i \in 1 .. n : stateQueue'[i] = stateQueue[i]
      BY <1>6, <2>1, TrySendItems DEF Publish
    <3>2. SleepIn(stateQueue) => SleepIn(stateQueue')
      <4> SUFFICES ASSUME NEW i \in 1 .. n, stateQueue[i] = "SLEEP"
                   PROVE  SleepIn(stateQueue')
        OBVIOUS
      <4> QED BY <3>1, i \in 1 .. n + 1
    <3>3. b = "SLEEP" => SleepIn(stateQueue')
      BY <3>1, n + 1 \in 1 .. n + 1
    <3> QED BY <3>2, <3>3
  <2>2. CASE ~HasRoom(stateQueue, StateDepth)
    <3>1. stateQueue' = stateQueue
      BY <1>6, <2>2 DEF Publish, TrySend
    <3>2. updateLost'
      BY <1>6, <2>2 DEF Publish
    <3> QED BY <3>1, <3>2
  <2> QED BY <2>1, <2>2
<1>7. CASE BStart
  BY <1>6, <1>7 DEF BStart, RecoveryUnderWay, TypeOK, aVars
<1>8. CASE BPublishReset
  <2>1. SleepIn(stateQueue') \/ updateLost'
    BY <1>6, <1>8 DEF BPublishReset, AnswersSleep, TypeOK
  <2> QED BY <1>8, <2>1 DEF BPublishReset, Publish, RecoveryUnderWay
<1>9. CASE BStep
  <2> PICK next \in NextBState[bState] :
        /\ bState' = next
        /\ IF next # bState THEN Publish(next) ELSE UNCHANGED <<stateQueue, updateLost>>
    BY <1>9 DEF BStep
  <2>1. next \in BState
    BY DEF NextBState, BState, TypeOK
  <2>2. SleepIn(stateQueue) => SleepIn(stateQueue')
    BY <1>6, <2>1
  <2> QED BY <1>9, <2>2 DEF BStep, RecoveryUnderWay, aVars
<1> QED
  BY <1>1, <1>2, <1>3, <1>4, <1>5, <1>7, <1>8, <1>9 DEF Next, ANext, BNext

----------------------------------------------------------------------------
(* The inductive invariant and what follows from it.                       *)

\* The initial state satisfies the inductive invariant.
LEMMA IInvInit == Init => IInv
<1> SUFFICES ASSUME Init PROVE IInv
  OBVIOUS
<1>1. CountersBounded
  BY FaultThresholdAssumption, PeriodAssumption DEF Init, CountersBounded
<1> QED
  BY <1>1, TypeInit DEF Init, IInv, BeliefFollows, Newest, RecoveryUnderWay, Settled,
                        AnswersSleep

\* The inductive invariant is inductive.
LEMMA IInvStep == IInv /\ [Next]_vars => IInv'
BY TypeStep, BeliefStep, RecoveryStep, SettledStep, CountersStep, AnswerStep DEF IInv

\* The inductive invariant of the two tasks holds in every interleaving, for
\* every threshold, time-out, queue depth and word size the assumptions allow.
THEOREM Invariance == Spec => []IInv
BY IInvInit, IInvStep, PTL DEF Spec

\* Whatever the interleaving, the newest state A has been sent is B's state,
\* unless the last publication was dropped.
THEOREM BeliefCorrect == Spec => []BeliefFollows
BY Invariance, PTL DEF IInv

\* When nothing is in flight the two state machines agree.
THEOREM MirrorCorrect == Spec => []MirrorWhenQuiet
<1>1. IInv => MirrorWhenQuiet
  BY DEF IInv, BeliefFollows, Settled, CountersBounded, MirrorWhenQuiet, Quiet, Newest
<1> QED BY <1>1, Invariance, PTL

\* No fault episode is forgotten: while A is in ERROR, a reset or its answer
\* is somewhere on its way, or the answer was dropped.
THEOREM RecoveryCorrect == Spec => []RecoveryUnderWay
BY Invariance, PTL DEF IInv

\* The recovery counter never reaches the time-out at the start of a poll.
THEOREM WatchdogCorrect == Spec => []WatchdogArmed
<1>1. IInv => WatchdogArmed
  BY DEF IInv, CountersBounded, WatchdogArmed
<1> QED BY <1>1, Invariance, PTL

\* A escalates exactly when the FAULTs it observed in a row reach the threshold,
\* and de-escalates only on a SLEEP.
THEOREM EscalationCorrect == Spec => DebouncedEscalation
<1> DEFINE Escalates == aState # "ERROR" /\ aState' = "ERROR"
           Recovers  == aState = "ERROR" /\ aState' # "ERROR"
           A == /\ Escalates => aView = "FAULT" /\ faultCount + 1 = FaultThreshold
                /\ Recovers => aView = "SLEEP" /\ aState' = "IDLE" /\ errorPollCount' = 0
<1>1. IInv /\ [Next]_vars => [A]_vars
  <2> SUFFICES ASSUME IInv, Next PROVE A
    OBVIOUS
  <2>1. CASE AEvaluate
    <3> DEFINE next == ProcessEvent(aState, aView, Faults)
    <3>1. Faults \in Nat /\ (aView # "FAULT" => Faults = 0)
      BY FaultsType DEF IInv, TypeOK, Counter
    <3>2. aState' = next /\ aState \in AState /\ aView \in BState
      BY <2>1 DEF AEvaluate, IInv, TypeOK
    <3>3. ASSUME Escalates PROVE aView = "FAULT" /\ faultCount + 1 = FaultThreshold
      <4>1. Faults >= FaultThreshold
        <5> HIDE DEF next
        <5>1. next = "ERROR" /\ aState # "ERROR"
          BY <3>2, <3>3
        <5> QED BY <3>1, <3>2, <5>1, ProcessEventCases DEF next
      <4>2. aView = "FAULT"
        BY <3>1, <4>1, FaultThresholdAssumption
      <4>3. faultCount < FaultThreshold /\ faultCount \in Nat
        BY <3>3 DEF IInv, CountersBounded, TypeOK, Counter
      <4>4. Faults = faultCount + 1
        <5>1. faultCount + 1 \in Nat /\ faultCount + 1 < WordSize
          BY <4>3, FaultThresholdAssumption, WordAssumption
        <5>2. (faultCount + 1) % WordSize = faultCount + 1
          BY <5>1, WordAssumption
        <5> QED BY <4>2, <5>2 DEF Faults
      <4> HIDE DEF Faults
      <4> QED BY <4>1, <4>2, <4>3, <4>4, FaultThresholdAssumption
    <3>4. ASSUME Recovers PROVE aView = "SLEEP" /\ aState' = "IDLE" /\ errorPollCount' = 0
      BY <2>1, <3>1, <3>2, <3>4, ProcessEventCases DEF AEvaluate
    <3> QED BY <3>3, <3>4
  <2>2. CASE AReceive \/ APollTimeout \/ AWatchdog \/ ALoopEnd \/ BNext \/ SimTimer
    BY <2>2 DEF AReceive, APollTimeout, AWatchdog, ALoopEnd, BNext, BStart, BTakeReset,
                BPublishReset, BNoReset, BStep, BWake, SimTimer, aVars
  <2> QED BY <2>1, <2>2 DEF Next, ANext
<1> QED BY <1>1, Invariance, PTL DEF Spec, DebouncedEscalation
=============================================================================
