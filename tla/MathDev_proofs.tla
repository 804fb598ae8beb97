--------------------------- MODULE MathDev_proofs ---------------------------
(***************************************************************************)
(* The safety of the kernel module, for any threads, files, operands and   *)
(* word size: exact unwinding, no use after free, mutual exclusion, an     *)
(* exact counter and right results.                                        *)
(***************************************************************************)
EXTENDS MathDev, Arithmetic_proofs, FiniteSetTheorems

\* What the module holds is a matter of the place it has reached.
HeldAt ==
  [unloaded |-> {}, freed |-> {}, region |-> {}, cdev |-> {"region"}, class |-> {"region", "cdev"},
   device |-> {"region", "cdev", "class"}, loaded |-> Resource,
   err_device |-> {"region", "cdev", "class"}, err_class |-> {"region", "cdev"},
   err_cdev |-> {"region"},
   exit_device |-> Resource, exit_class |-> {"region", "cdev", "class"},
   exit_cdev |-> {"region", "cdev"}, exit_region |-> {"region"}]
HeldOK == modPc \in DOMAIN HeldAt /\ held = HeldAt[modPc]

\* A thread in the kernel is in the ioctl of a file that is open.  There may be one
\* from cdev_add on, and there is none while the module is being unloaded.
PlacesOK ==
  /\ modPc \in Exiting \cup {"unloaded", "region", "cdev"} => opened = {}
  /\ \A t \in Thread : /\ pc[t] = "user" <=> file[t] = NoFile
                       /\ pc[t] # "user" => file[t] \in opened

\* A thread in the critical section holds the mutex of its file's instance.
Inside(t) == pc[t] \in {"calculate", "count", "unlock", "dead"}
MutexOK == \A t \in Thread : Inside(t) => lock[file[t]] = t

\* The counter is short of the calculations while a thread is counting, by one.
Counting(t, f) == file[t] = f /\ pc[t] = "count"
CounterOK ==
  /\ \A t \in Thread : pc[t] = "count" => seen[t] = opCount[file[t]]
  /\ \A f \in opened :
       calculated[f] = opCount[f] + IF \E t \in Thread : Counting(t, f) THEN 1 ELSE 0

\* A result that is on its way out is what mathdev_calculate left.
Computed(r) == Errno(r.op, r.a, r.b) = "0" /\ r.result = Calculate(r.op, r.a, r.b)
Successful(t) == pc[t] = "count" \/ (pc[t] = "unlock" /\ ret[t] = "0") \/ pc[t] = "copyOut"
ResultOK ==
  /\ \A t \in Thread : Successful(t) => Computed(req[t])
  /\ \A t \in Thread : pc[t] = "count" => ret[t] = "0"

MInv == TypeOK /\ HeldOK /\ PlacesOK /\ MutexOK /\ CounterOK /\ ResultOK

----------------------------------------------------------------------------
(* Each part is kept by every step.                                        *)

\* What the kernel computes for two words is a word.
LEMMA CalculateInWord ==
  ASSUME NEW op \in OpCode, NEW a \in Word, NEW b \in Word, Errno(op, a, b) = "0"
  PROVE  Calculate(op, a, b) \in Word
<1>1. a \in Int /\ b \in Int
  BY HalfAssumption DEF Word, IntMin, IntMax
<1>2. CASE op = "ADD"
  BY <1>1, <1>2, WrapInWord DEF Calculate
<1>3. CASE op = "SUB"
  BY <1>1, <1>3, WrapInWord DEF Calculate
<1>4. CASE op = "MUL"
  BY <1>1, <1>4, WrapInWord DEF Calculate
<1>5. CASE op = "DIV"
  <2>1. b # 0
    BY <1>5 DEF Errno, OpCode
  <2> QED BY <1>1, <1>5, <2>1, QuotientRight, WrapInWord DEF Calculate
<1> QED BY <1>2, <1>3, <1>4, <1>5 DEF OpCode

\* The constants that the code starts from are what the types expect.
LEMMA Constants ==
  /\ 0 \in Word
  /\ NoRequest \in [op : OpCode \cup {"other"}, a : Word, b : Word, result : Word]
  /\ Request \subseteq [op : OpCode \cup {"other"}, a : Word, b : Word, result : Word]
<1>1. 0 \in Word
  BY HalfAssumption DEF Word, IntMin, IntMax
<1> QED BY <1>1, MathDevAssumption DEF NoRequest, Request

\* Every step keeps the types; the places say that a thread in the kernel has
\* a file.
LEMMA TypeStep == TypeOK /\ PlacesOK /\ [Next]_vars => TypeOK'
<1> SUFFICES ASSUME TypeOK, PlacesOK, [Next]_vars PROVE TypeOK'
  OBVIOUS
<1>0. \A t \in Thread : pc[t] # "user" => file[t] \in File
  BY DEF PlacesOK, TypeOK
<1> USE DEF TypeOK, At
<1>1. CASE Load
  BY <1>1 DEF Load, instVars, callVars, Resource
<1>2. CASE Acquire
  BY <1>2 DEF Acquire, AfterAcquire, Resource, instVars, callVars
<1>3. CASE AcquireFails
  BY <1>3 DEF AcquireFails, OnFailure, Releases, Resource, instVars, callVars
<1>4. CASE Unload
  BY <1>4 DEF Unload, Releases, instVars, callVars
<1>5. CASE Release
  BY <1>5 DEF Release, Releases, AfterRelease, instVars, callVars
<1>6. ASSUME NEW f \in File, Open(f) PROVE TypeOK'
  BY <1>6 DEF Open, modVars, callVars
<1>7. ASSUME NEW f \in File, Close(f) PROVE TypeOK'
  BY <1>7 DEF Close, modVars, callVars
<1>8. ASSUME NEW t \in Thread, NEW f \in File, CopyIn(t, f) PROVE TypeOK'
  BY <1>8, Constants DEF CopyIn, Goto, modVars, instVars
<1>9. ASSUME NEW t \in Thread, NEW f \in File, CopyInFails(t, f) PROVE TypeOK'
  BY <1>9, Constants DEF CopyInFails, Return, Goto, modVars, instVars
<1>10. ASSUME NEW t \in Thread, MutexLock(t) PROVE TypeOK'
  BY <1>10 DEF MutexLock, Goto, modVars
<1>11. ASSUME NEW t \in Thread, CalculateOp(t) PROVE TypeOK'
  <2>1. req[t].op \in OpCode
    BY <1>11 DEF CalculateOp, Errno
  <2>2. Calculate(req[t].op, req[t].a, req[t].b) \in Word
    BY <1>11, <2>1, CalculateInWord DEF CalculateOp
  <2> DEFINE Types == [op : OpCode \cup {"other"}, a : Word, b : Word, result : Word]
             r == Calculate(req[t].op, req[t].a, req[t].b)
  <2>3. req' \in [Thread -> Types]
    <3>1. req[t] \in Types
      OBVIOUS
    <3>2. [req[t] EXCEPT !.result = r] \in Types
      BY <2>2, <3>1
    <3>3. req' = [req EXCEPT ![t] = [req[t] EXCEPT !.result = r]]
      BY <1>11 DEF CalculateOp
    <3> HIDE DEF Types, r
    <3>4. req \in [Thread -> Types]
      BY DEF Types
    <3> QED BY <3>2, <3>3, <3>4
  <2>4. seen' \in [Thread -> Nat] /\ calculated' \in [File -> Nat]
    BY <1>0, <1>11 DEF CalculateOp
  <2> QED BY <1>11, <2>3, <2>4 DEF CalculateOp, Goto, modVars, instVars
<1>12. ASSUME NEW t \in Thread, CalculateFails(t) PROVE TypeOK'
  <2>1. Errno(req[t].op, req[t].a, req[t].b) \in {"0", "EDOM", "EINVAL"}
    BY DEF Errno
  <2> QED BY <1>12, <2>1 DEF CalculateFails, Goto, modVars, instVars
<1>13. ASSUME NEW t \in Thread, CalculateTraps(t) PROVE TypeOK'
  BY <1>13 DEF CalculateTraps, Goto, modVars, instVars
<1>14. ASSUME NEW t \in Thread, CountOp(t) PROVE TypeOK'
  BY <1>0, <1>14 DEF CountOp, Goto, modVars
<1>15. ASSUME NEW t \in Thread, MutexUnlock(t) PROVE TypeOK'
  <2>1. lock' \in [File -> Thread \cup {NoThread}]
    BY <1>15 DEF MutexUnlock, Unlocks
  <2>2. CASE ret[t] = "0"
    BY <1>15, <2>1, <2>2 DEF MutexUnlock, Goto, modVars
  <2>3. CASE ret[t] # "0"
    <3>1. Return(t, ret[t]) /\ UNCHANGED <<modVars, opened, opCount, seen, calculated>>
      BY <1>15, <2>3 DEF MutexUnlock
    <3>2. ret[t] \in {"0", "EDOM", "EINVAL", "EFAULT"}
      OBVIOUS
    <3> QED BY <2>1, <3>1, <3>2, Constants DEF Return, Goto, modVars
  <2> QED BY <2>2, <2>3
<1>16. ASSUME NEW t \in Thread, CopyOut(t) \/ CopyOutFails(t) PROVE TypeOK'
  <2>1. PICK v \in {"0", "EFAULT"} : Return(t, v)
    BY <1>16 DEF CopyOut, CopyOutFails
  <2>2. UNCHANGED <<modVars, instVars, seen, calculated>>
    BY <1>16 DEF CopyOut, CopyOutFails
  <2> QED BY <2>1, <2>2, Constants DEF Return, Goto, modVars, instVars
<1>17. CASE UNCHANGED vars
  BY <1>17 DEF vars, modVars, instVars, callVars
<1> QED
  BY <1>1, <1>2, <1>3, <1>4, <1>5, <1>6, <1>7, <1>8, <1>9, <1>10, <1>11, <1>12, <1>13, <1>14,
     <1>15, <1>16, <1>17 DEF Next, Ioctl

\* The unwind chains release what was acquired, in reverse order.
LEMMA HeldStep == HeldOK /\ [Next]_vars => HeldOK'
<1> SUFFICES ASSUME HeldOK, [Next]_vars PROVE HeldOK'
  OBVIOUS
<1> USE DEF HeldOK, HeldAt, Resource
<1>1. CASE Load \/ Unload
  BY <1>1 DEF Load, Unload
<1>2. CASE Acquire
  BY <1>2 DEF Acquire, AfterAcquire
<1>3. CASE AcquireFails
  BY <1>3 DEF AcquireFails, OnFailure
<1>4. CASE Release
  BY <1>4 DEF Release, Releases, AfterRelease
<1>5. CASE UNCHANGED modVars
  BY <1>5 DEF modVars
<1> QED
  BY <1>1, <1>2, <1>3, <1>4, <1>5
  DEF Next, Ioctl, Open, Close, CopyIn, CopyInFails, MutexLock, CalculateOp, CalculateFails,
      CalculateTraps, CountOp, MutexUnlock, CopyOut, CopyOutFails, vars

\* A file is closed only when no thread is in an ioctl of it, a module unloaded
\* only when no file is open; and one is opened only when the cdev is there, or
\* was, and mathdev_exit is not to come.
LEMMA PlacesStep == TypeOK /\ HeldOK /\ PlacesOK /\ [Next]_vars => PlacesOK'
<1> SUFFICES ASSUME TypeOK, HeldOK, PlacesOK, [Next]_vars PROVE PlacesOK'
  OBVIOUS
<1> USE MathDevAssumption DEF TypeOK, PlacesOK, Goto, At
<1>1. CASE Load \/ Acquire \/ AcquireFails \/ Unload \/ Release
  <2>1. UNCHANGED <<opened, callVars>>
    BY <1>1 DEF Load, Acquire, AcquireFails, Unload, Release, instVars
  <2>2. opened # {} => modPc' \notin Exiting \cup {"unloaded", "region", "cdev"}
    BY <1>1 DEF Load, Acquire, AcquireFails, Unload, Release, Resource, Releases, AfterAcquire,
       OnFailure, AfterRelease, Exiting
  <2> QED BY <2>1, <2>2 DEF callVars
<1>2. ASSUME NEW f \in File, Open(f) PROVE PlacesOK'
  <2>1. modPc \notin Exiting \cup {"unloaded", "region", "cdev"}
    BY <1>2 DEF Open, Openable, HeldOK, HeldAt, Exiting
  <2> QED BY <1>2, <2>1 DEF Open, modVars, callVars
<1>3. ASSUME NEW f \in File, Close(f) PROVE PlacesOK'
  BY <1>3 DEF Close, Busy, modVars, callVars
<1>4. ASSUME NEW t \in Thread, NEW f \in File, CopyIn(t, f) PROVE PlacesOK'
  BY <1>4 DEF CopyIn, modVars, instVars
<1>5. ASSUME NEW t \in Thread, NEW f \in File, CopyInFails(t, f) PROVE PlacesOK'
  BY <1>5 DEF CopyInFails, Return, modVars, instVars
<1>6. ASSUME NEW t \in Thread, MutexLock(t) PROVE PlacesOK'
  BY <1>6 DEF MutexLock, modVars
<1>7. ASSUME NEW t \in Thread, CalculateOp(t) \/ CalculateFails(t) \/ CalculateTraps(t)
      PROVE  PlacesOK'
  BY <1>7 DEF CalculateOp, CalculateFails, CalculateTraps, modVars, instVars
<1>8. ASSUME NEW t \in Thread, CountOp(t) PROVE PlacesOK'
  BY <1>8 DEF CountOp, modVars
<1>9. ASSUME NEW t \in Thread, MutexUnlock(t) PROVE PlacesOK'
  BY <1>9 DEF MutexUnlock, Return, modVars
<1>10. ASSUME NEW t \in Thread, CopyOut(t) \/ CopyOutFails(t) PROVE PlacesOK'
  BY <1>10 DEF CopyOut, CopyOutFails, Return, modVars, instVars
<1>11. CASE UNCHANGED vars
  BY <1>11 DEF vars, modVars, instVars, callVars
<1> QED
  BY <1>1, <1>2, <1>3, <1>4, <1>5, <1>6, <1>7, <1>8, <1>9, <1>10, <1>11 DEF Next, Ioctl

\* The mutex of an instance is taken by the thread that enters, and released by
\* the thread that leaves.
LEMMA MutexStep == TypeOK /\ PlacesOK /\ MutexOK /\ [Next]_vars => MutexOK'
<1> SUFFICES ASSUME TypeOK, PlacesOK, MutexOK, [Next]_vars PROVE MutexOK'
  OBVIOUS
<1>0. \A t \in Thread : pc[t] # "user" => file[t] \in File /\ file[t] \in opened
  BY DEF PlacesOK, TypeOK
<1> USE MathDevAssumption DEF TypeOK, MutexOK, Inside, Goto, At
<1>1. CASE Load \/ Acquire \/ AcquireFails \/ Unload \/ Release
  BY <1>1 DEF Load, Acquire, AcquireFails, Unload, Release, instVars, callVars
<1>2. ASSUME NEW f \in File, Open(f) PROVE MutexOK'
  BY <1>0, <1>2 DEF Open, callVars
<1>3. ASSUME NEW f \in File, Close(f) PROVE MutexOK'
  BY <1>3 DEF Close, callVars
<1>4. ASSUME NEW t \in Thread, NEW f \in File, CopyIn(t, f) PROVE MutexOK'
  BY <1>4 DEF CopyIn, instVars
<1>5. ASSUME NEW t \in Thread, NEW f \in File, CopyInFails(t, f) PROVE MutexOK'
  BY <1>5 DEF CopyInFails, Return, instVars
<1>6. ASSUME NEW t \in Thread, MutexLock(t) PROVE MutexOK'
  BY <1>0, <1>6 DEF MutexLock, MutexFree
<1>7. ASSUME NEW t \in Thread, CalculateOp(t) \/ CalculateFails(t) \/ CalculateTraps(t)
      PROVE  MutexOK'
  BY <1>7 DEF CalculateOp, CalculateFails, CalculateTraps, instVars
<1>8. ASSUME NEW t \in Thread, CountOp(t) PROVE MutexOK'
  BY <1>8 DEF CountOp
<1>9. ASSUME NEW t \in Thread, MutexUnlock(t) PROVE MutexOK'
  BY <1>0, <1>9 DEF MutexUnlock, Unlocks, Return
<1>10. ASSUME NEW t \in Thread, CopyOut(t) \/ CopyOutFails(t) PROVE MutexOK'
  BY <1>10 DEF CopyOut, CopyOutFails, Return, instVars
<1>11. CASE UNCHANGED vars
  BY <1>11 DEF vars, modVars, instVars, callVars
<1> QED
  BY <1>1, <1>2, <1>3, <1>4, <1>5, <1>6, <1>7, <1>8, <1>9, <1>10, <1>11 DEF Next, Ioctl

\* Two threads in one critical section are one.
LEMMA OneInside ==
  ASSUME MutexOK, NEW t \in Thread, NEW u \in Thread, Inside(t), Inside(u), file[t] = file[u]
  PROVE  t = u
BY DEF MutexOK

\* Steps that leave who is counting, and what is counted, as they are.
LEMMA CounterUnchanged ==
  ASSUME CounterOK, UNCHANGED <<opened, opCount, seen, calculated>>,
         \A u \in Thread :
           (pc'[u] = "count" <=> pc[u] = "count") /\ (pc[u] = "count" => file'[u] = file[u])
  PROVE  CounterOK'
<1>1. \A u \in Thread, f \in opened : Counting(u, f)' <=> Counting(u, f)
  BY DEF Counting
<1>2. \A f \in opened : (\E u \in Thread : Counting(u, f))' <=> \E u \in Thread : Counting(u, f)
  BY <1>1
<1> QED BY <1>2 DEF CounterOK

\* The counter is read and written by the one thread that is inside.
LEMMA CounterStep ==
  TypeOK /\ PlacesOK /\ MutexOK /\ CounterOK /\ [Next]_vars => CounterOK'
<1> SUFFICES ASSUME TypeOK, PlacesOK, MutexOK, CounterOK, [Next]_vars PROVE CounterOK'
  OBVIOUS
<1>0. \A t \in Thread : pc[t] # "user" => file[t] \in File /\ file[t] \in opened
  BY DEF PlacesOK, TypeOK
<1>u. \A t, u \in Thread : Inside(t) /\ Inside(u) /\ file[t] = file[u] => t = u
  BY OneInside
<1> USE MathDevAssumption DEF TypeOK, CounterOK, Counting, Goto, At
<1>1. CASE Load \/ Acquire \/ AcquireFails \/ Unload \/ Release
  BY <1>1 DEF Load, Acquire, AcquireFails, Unload, Release, instVars, callVars
<1>2. ASSUME NEW f \in File, Open(f) PROVE CounterOK'
  BY <1>0, <1>2 DEF Open, callVars
<1>3. ASSUME NEW f \in File, Close(f) PROVE CounterOK'
  BY <1>3 DEF Close, callVars
<1>4. ASSUME NEW t \in Thread, NEW f \in File, CopyIn(t, f) PROVE CounterOK'
  BY <1>4 DEF CopyIn, instVars
<1>5. ASSUME NEW t \in Thread, NEW f \in File, CopyInFails(t, f) PROVE CounterOK'
  BY <1>5 DEF CopyInFails, Return, instVars
<1>6. ASSUME NEW t \in Thread, MutexLock(t) PROVE CounterOK'
  BY <1>6 DEF MutexLock
<1>7. ASSUME NEW t \in Thread, CalculateOp(t) PROVE CounterOK'
  <2>1. ~ \E u \in Thread : Counting(u, file[t])
    BY <1>u, <1>7 DEF CalculateOp, Inside
  <2>2. Counting(t, file[t])'
    BY <1>7 DEF CalculateOp
  <2>3. \A f \in opened : f # file[t] =>
          ((\E u \in Thread : Counting(u, f))' <=> \E u \in Thread : Counting(u, f))
    BY <1>7 DEF CalculateOp
  <2>4. ASSUME NEW f \in opened'
        PROVE  calculated'[f]
                 = opCount'[f] + IF (\E u \in Thread : Counting(u, f))' THEN 1 ELSE 0
    BY <1>0, <1>7, <2>1, <2>2, <2>3, <2>4 DEF CalculateOp, instVars
  <2>5. \A u \in Thread : pc'[u] = "count" => seen'[u] = opCount'[file'[u]]
    BY <1>7 DEF CalculateOp, instVars
  <2> QED BY <2>4, <2>5
<1>8. ASSUME NEW t \in Thread, CalculateFails(t) \/ CalculateTraps(t) PROVE CounterOK'
  BY <1>8 DEF CalculateFails, CalculateTraps, instVars
<1>9. ASSUME NEW t \in Thread, CountOp(t) PROVE CounterOK'
  <2>1. Counting(t, file[t])
    BY <1>9 DEF CountOp
  <2>2. ~ (\E u \in Thread : Counting(u, file[t]))'
    BY <1>u, <1>9 DEF CountOp, Inside
  <2>3. \A f \in opened : f # file[t] =>
          ((\E u \in Thread : Counting(u, f))' <=> \E u \in Thread : Counting(u, f))
    BY <1>9 DEF CountOp
  <2>4. ASSUME NEW f \in opened'
        PROVE  calculated'[f]
                 = opCount'[f] + IF (\E u \in Thread : Counting(u, f))' THEN 1 ELSE 0
    BY <1>0, <1>9, <2>1, <2>2, <2>3, <2>4 DEF CountOp
  <2>5. \A u \in Thread : pc'[u] = "count" => seen'[u] = opCount'[file'[u]]
    BY <1>0, <1>u, <1>9 DEF CountOp, Inside
  <2> QED BY <2>4, <2>5
<1>10. ASSUME NEW t \in Thread, MutexUnlock(t) PROVE CounterOK'
  <2>1. \A u \in Thread :
          (pc'[u] = "count" <=> pc[u] = "count") /\ (pc[u] = "count" => file'[u] = file[u])
    BY <1>10 DEF MutexUnlock, Return
  <2>2. UNCHANGED <<opened, opCount, seen, calculated>>
    BY <1>10 DEF MutexUnlock
  <2> QED BY <2>1, <2>2, CounterUnchanged
<1>11. ASSUME NEW t \in Thread, CopyOut(t) \/ CopyOutFails(t) PROVE CounterOK'
  <2>1. \A u \in Thread :
          (pc'[u] = "count" <=> pc[u] = "count") /\ (pc[u] = "count" => file'[u] = file[u])
    BY <1>11 DEF CopyOut, CopyOutFails, Return
  <2>2. UNCHANGED <<opened, opCount, seen, calculated>>
    BY <1>11 DEF CopyOut, CopyOutFails, instVars
  <2> QED BY <2>1, <2>2, CounterUnchanged
<1>12. CASE UNCHANGED vars
  BY <1>12 DEF vars, modVars, instVars, callVars
<1> QED
  BY <1>1, <1>2, <1>3, <1>4, <1>5, <1>6, <1>7, <1>8, <1>9, <1>10, <1>11, <1>12 DEF Next, Ioctl

\* Between the calculation and its return nobody changes the request.
LEMMA ResultStep == ResultOK /\ TypeOK /\ [Next]_vars => ResultOK'
<1> SUFFICES ASSUME ResultOK, TypeOK, [Next]_vars PROVE ResultOK'
  OBVIOUS
<1> USE MathDevAssumption DEF TypeOK, ResultOK, Successful, Goto, At
<1>1. CASE UNCHANGED callVars
  BY <1>1 DEF callVars
<1>2. ASSUME NEW t \in Thread, NEW f \in File, CopyIn(t, f) PROVE ResultOK'
  BY <1>2 DEF CopyIn
<1>3. ASSUME NEW t \in Thread, NEW f \in File, CopyInFails(t, f) PROVE ResultOK'
  BY <1>3 DEF CopyInFails, Return
<1>4. ASSUME NEW t \in Thread, MutexLock(t) PROVE ResultOK'
  BY <1>4 DEF MutexLock
<1>5. ASSUME NEW t \in Thread, CalculateOp(t) PROVE ResultOK'
  <2>1. Computed(req'[t])
    <3> DEFINE r == Calculate(req[t].op, req[t].a, req[t].b)
    <3>1. req'[t] = [req[t] EXCEPT !.result = r]
      BY <1>5 DEF CalculateOp
    <3>2. req'[t].op = req[t].op /\ req'[t].a = req[t].a /\ req'[t].b = req[t].b
      BY <3>1
    <3>3. req'[t].result = r
      BY <3>1
    <3>4. Errno(req[t].op, req[t].a, req[t].b) = "0"
      BY <1>5 DEF CalculateOp
    <3> QED BY <3>2, <3>3, <3>4 DEF Computed
  <2>2. \A u \in Thread \ {t} : pc'[u] = pc[u] /\ req'[u] = req[u] /\ ret'[u] = ret[u]
    BY <1>5 DEF CalculateOp
  <2>3. ret'[t] = "0"
    BY <1>5 DEF CalculateOp
  <2> QED BY <2>1, <2>2, <2>3
<1>6. ASSUME NEW t \in Thread, CalculateFails(t) PROVE ResultOK'
  BY <1>6 DEF CalculateFails
<1>7. ASSUME NEW t \in Thread, CalculateTraps(t) PROVE ResultOK'
  BY <1>7 DEF CalculateTraps
<1>8. ASSUME NEW t \in Thread, CountOp(t) PROVE ResultOK'
  BY <1>8 DEF CountOp
<1>9. ASSUME NEW t \in Thread, MutexUnlock(t) PROVE ResultOK'
  BY <1>9 DEF MutexUnlock, Return
<1>10. ASSUME NEW t \in Thread, CopyOut(t) \/ CopyOutFails(t) PROVE ResultOK'
  BY <1>10 DEF CopyOut, CopyOutFails, Return
<1> QED
  BY <1>1, <1>2, <1>3, <1>4, <1>5, <1>6, <1>7, <1>8, <1>9, <1>10
  DEF Next, Ioctl, Load, Acquire, AcquireFails, Unload, Release, Open, Close, vars

----------------------------------------------------------------------------
(* The theorems.                                                           *)

\* The invariant holds in every reachable state.
THEOREM MathDevInvariance == Spec => []MInv
<1>1. Init => MInv
  <2> SUFFICES ASSUME Init PROVE MInv
    OBVIOUS
  <2>1. TypeOK
    BY Constants, MathDevAssumption DEF Init, TypeOK, Resource
  <2>2. HeldOK /\ PlacesOK /\ MutexOK /\ CounterOK /\ ResultOK
    BY DEF Init, HeldOK, HeldAt, PlacesOK, MutexOK, Inside, CounterOK, Counting, ResultOK,
           Successful
  <2> QED BY <2>1, <2>2 DEF MInv
<1>2. MInv /\ [Next]_vars => MInv'
  BY TypeStep, HeldStep, PlacesStep, MutexStep, CounterStep, ResultStep DEF MInv
<1> QED BY <1>1, <1>2, PTL DEF Spec

\* Type correctness of the kernel module.
THEOREM TypeCorrect == Spec => []TypeOK
<1>1. MInv => TypeOK
  BY DEF MInv
<1> QED BY <1>1, MathDevInvariance, PTL

\* mathdev_init and mathdev_exit release every resource once, and leave none.
THEOREM Unwinding == Spec => []UnwindExact
<1>1. MInv => UnwindExact
  BY DEF MInv, HeldOK, HeldAt, UnwindExact, Releases, Resource
<1> QED BY <1>1, MathDevInvariance, PTL

\* A thread's file stays open as long as the thread is in its ioctl, and a module that
\* is being unloaded has no open file.
THEOREM NoUse == Spec => []NoUseAfterFree
<1>1. MInv => NoUseAfterFree
  BY DEF MInv, PlacesOK, NoUseAfterFree
<1> QED BY <1>1, MathDevInvariance, PTL

\* Two threads are never inside the critical section of one instance, a thread
\* that died there included.
MutualExclusion ==
  \A t, u \in Thread : Inside(t) /\ Inside(u) /\ file[t] = file[u] => t = u

\* The mutex of an instance excludes, with however many threads.
THEOREM Exclusion == Spec => []MutualExclusion
<1>1. MInv => MutualExclusion
  BY OneInside DEF MInv, MutualExclusion
<1> QED BY <1>1, MathDevInvariance, PTL

\* op_count counts every successful calculation, with however many threads.
THEOREM Counted == Spec => []CountExact
<1>1. MInv => CountExact
  <2> SUFFICES ASSUME MInv, NEW f \in opened
               PROVE  opCount[f]
                        + Cardinality({t \in Thread : file[t] = f /\ pc[t] = "count"})
                        = calculated[f]
    BY DEF CountExact
  <2> DEFINE C == {t \in Thread : file[t] = f /\ pc[t] = "count"}
  <2>1. calculated[f] = opCount[f] + IF \E t \in Thread : Counting(t, f) THEN 1 ELSE 0
    BY DEF MInv, CounterOK
  <2>2. opCount[f] \in Nat
    BY DEF MInv, TypeOK
  <2>3. CASE \E t \in Thread : Counting(t, f)
    <3>1. PICK t \in Thread : Counting(t, f)
      BY <2>3
    <3>2. C = {t}
      BY <3>1, OneInside DEF MInv, Counting, Inside
    <3> QED BY <2>1, <2>2, <2>3, <3>2, FS_Singleton
  <2>4. CASE ~ \E t \in Thread : Counting(t, f)
    <3>1. C = {}
      BY <2>4 DEF Counting
    <3> QED BY <2>1, <2>2, <2>4, <3>1, FS_EmptySet
  <2> QED BY <2>3, <2>4
<1> QED BY <1>1, MathDevInvariance, PTL

\* ResultRight for one request.
RightFor(op, a, b, r) ==
  CASE op = "ADD" -> r \in Word /\ (r - (a + b)) % Modulus = 0
    [] op = "SUB" -> r \in Word /\ (r - (a - b)) % Modulus = 0
    [] op = "MUL" -> r \in Word /\ (r - a * b) % Modulus = 0
    [] op = "DIV" -> \/ Unrepresentable(op, a, b) /\ r = IntMin
                     \/ IsQuotient(a, b, r)

\* What mathdev_calculate returns for one request is right.
LEMMA RightResult ==
  ASSUME NEW op \in OpCode, NEW a \in Word, NEW b \in Word, NEW r,
         Errno(op, a, b) = "0", r = Calculate(op, a, b)
  PROVE  RightFor(op, a, b, r)
<1> USE DEF RightFor
<1>1. a \in Int /\ b \in Int
  BY HalfAssumption DEF Word, IntMin, IntMax
<1>2. CASE op = "ADD"
  BY <1>1, <1>2, WrapInWord, WrapCongruent DEF Calculate
<1>3. CASE op = "SUB"
  BY <1>1, <1>3, WrapInWord, WrapCongruent DEF Calculate
<1>4. CASE op = "MUL"
  <2>1. a * b \in Int /\ r = Wrap(a * b)
    BY <1>1, <1>4 DEF Calculate
  <2>2. Wrap(a * b) \in Word /\ (Wrap(a * b) - a * b) % Modulus = 0
    BY <2>1, WrapInWord, WrapCongruent
  <2> QED BY <1>4, <2>1, <2>2
<1>5. CASE op = "DIV"
  <2>1. b # 0 /\ r = Wrap(Quotient(a, b))
    BY <1>5 DEF Errno, OpCode, Calculate
  <2>2. CASE Unrepresentable(op, a, b)
    <3>1. Quotient(a, b) = Half
      BY <2>2, HalfAssumption DEF Unrepresentable, Quotient, Magnitude, IntMin
    <3>2. Wrap(Half) = IntMin
      BY HalfAssumption DEF Wrap, IntMin, Modulus
    <3> QED BY <1>5, <2>1, <2>2, <3>1, <3>2
  <2>3. CASE ~Unrepresentable(op, a, b)
    <3>1. Wrap(Quotient(a, b)) = Quotient(a, b)
      BY <1>5, <2>1, <2>3, QuotientInWord, WrapOfWord
    <3>2. IsQuotient(a, b, Quotient(a, b))
      BY <1>1, <2>1, QuotientRight
    <3> QED BY <1>5, <2>1, <3>1, <3>2
  <2> QED BY <2>2, <2>3
<1> QED BY <1>2, <1>3, <1>4, <1>5 DEF OpCode

\* Every caller gets the result of its own request, for every word size.
THEOREM Right == Spec => []ResultRight
<1>1. MInv => ResultRight
  <2> SUFFICES ASSUME MInv PROVE ResultRight
    OBVIOUS
  <2>1. ASSUME NEW t \in Thread, pc[t] = "copyOut"
        PROVE  /\ Errno(req[t].op, req[t].a, req[t].b) = "0"
               /\ req[t].result = Calculate(req[t].op, req[t].a, req[t].b)
               /\ req[t].op \in OpCode /\ req[t].a \in Word /\ req[t].b \in Word
    <3>1. Computed(req[t])
      BY <2>1 DEF MInv, ResultOK, Successful
    <3>2. req[t].a \in Word /\ req[t].b \in Word
      BY DEF MInv, TypeOK
    <3>3. req[t].op \in OpCode
      BY <3>1 DEF Computed, Errno
    <3> QED BY <3>1, <3>2, <3>3 DEF Computed
  <2>2. ASSUME NEW t \in Thread, pc[t] = "copyOut"
        PROVE  RightFor(req[t].op, req[t].a, req[t].b, req[t].result)
    BY <2>1, <2>2, RightResult
  <2> QED BY <2>2 DEF ResultRight, RightFor
<1> QED BY <1>1, MathDevInvariance, PTL
=============================================================================
