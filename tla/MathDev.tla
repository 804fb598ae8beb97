------------------------------ MODULE MathDev ------------------------------
(***************************************************************************)
(* The kernel module mathdev: loading and unloading with their unwind      *)
(* chains, the open files with their instances, and concurrent ioctls.     *)
(*                                                                         *)
(* A thread's ioctl is split where another thread can come in between: the *)
(* copies from and to user space, the two ends of the critical section and *)
(* the read and the write of op_count++.                                   *)
(***************************************************************************)
EXTENDS Arithmetic, FiniteSets

CONSTANTS
  Thread,          \* the threads that use the device
  File,            \* the open file descriptions there can be
  Operands,        \* the pairs of values requests are made with
  NoThread,        \* the holder of a free mutex
  NoFile,          \* the file of a thread that is in no ioctl
  MaxCalls         \* bound: successful calculations per open file

ASSUME MathDevAssumption ==
  /\ NoThread \notin Thread
  /\ NoFile \notin File
  /\ Operands \subseteq Word \X Word
  /\ MaxCalls \in Nat

VARIABLES
  modPc,           \* where mathdev_init or mathdev_exit is, or between them; "freed"
                   \* when the module's memory is gone under an open file
  held,            \* the kernel resources the module holds
  opened,          \* the open files
  lock,            \* lock[f]: the thread in the critical section of f's instance
  opCount,         \* opCount[f]: the op_count of f's instance
  pc, file, req, ret, \* of each thread: its place in mathdev_ioctl, its locals
  seen,            \* seen[t]: the value of op_count t has read and not yet written
  \* history, read by no action but the bound
  calculated       \* calculated[f]: the calculations that returned 0 on f

modVars  == <<modPc, held>>
instVars == <<opened, lock, opCount>>
callVars == <<pc, file, req, ret, seen>>
vars     == <<modVars, instVars, callVars, calculated>>

Resource == {"region", "cdev", "class", "device"}

\* struct math_request, as a caller fills it in and with its result.
Request ==
  {[op |-> code, a |-> ab[1], b |-> ab[2], result |-> 0] :
     code \in OpCode \cup {"other"}, ab \in Operands}
NoRequest == [op |-> "other", a |-> 0, b |-> 0, result |-> 0]

Init ==
  /\ modPc = "unloaded" /\ held = {}
  /\ opened = {}
  /\ lock = [f \in File |-> NoThread]
  /\ opCount = [f \in File |-> 0]
  /\ pc = [t \in Thread |-> "user"]
  /\ file = [t \in Thread |-> NoFile]
  /\ req = [t \in Thread |-> NoRequest]
  /\ ret = [t \in Thread |-> "0"]
  /\ seen = [t \in Thread |-> 0]
  /\ calculated = [f \in File |-> 0]

----------------------------------------------------------------------------
(* Loading and unloading.                                                  *)

\* Faulty variant of OnFailure: a failing device_create forgets the class.
OnFailureSkips ==
  [region |-> "unloaded", cdev |-> "err_cdev", class |-> "err_class",
   device |-> "err_class"]

\* mathdev_init acquires in this order, and goes to a label when it fails.
AfterAcquire ==
  [region |-> "cdev", cdev |-> "class", class |-> "device", device |-> "loaded"]
OnFailure ==
  [region |-> "unloaded", cdev |-> "err_cdev", class |-> "err_class",
   device |-> "err_device"]

\* The labels and the lines of mathdev_exit: what is released, and what follows.
Releases ==
  [err_device |-> "class", err_class |-> "cdev", err_cdev |-> "region",
   exit_device |-> "device", exit_class |-> "class", exit_cdev |-> "cdev",
   exit_region |-> "region"]
AfterRelease ==
  [err_device |-> "err_class", err_class |-> "err_cdev", err_cdev |-> "unloaded",
   exit_device |-> "exit_class", exit_class |-> "exit_cdev",
   exit_cdev |-> "exit_region", exit_region |-> "unloaded"]
Exiting == {"exit_device", "exit_class", "exit_cdev", "exit_region"}

\* insmod.
Load ==
  /\ modPc = "unloaded"
  /\ modPc' = "region"
  /\ UNCHANGED <<held, instVars, callVars, calculated>>

Acquire ==
  /\ modPc \in Resource
  /\ held' = held \cup {modPc}
  /\ modPc' = AfterAcquire[modPc]
  /\ UNCHANGED <<instVars, callVars, calculated>>

AcquireFails ==
  /\ modPc \in Resource
  /\ modPc' = OnFailure[modPc]
  /\ UNCHANGED <<held, instVars, callVars, calculated>>

\* rmmod; the kernel refuses it while a file is open (fops.owner).
Unload ==
  /\ modPc = "loaded"
  /\ opened = {}
  /\ modPc' = "exit_device"
  /\ UNCHANGED <<held, instVars, callVars, calculated>>

\* When mathdev_init has returned an error the kernel frees the module, also
\* under a file that was opened meanwhile.
Release ==
  /\ modPc \in DOMAIN Releases
  /\ held' = held \ {Releases[modPc]}
  /\ modPc' = IF modPc = "err_cdev" /\ opened # {} THEN "freed" ELSE AfterRelease[modPc]
  /\ UNCHANGED <<instVars, callVars, calculated>>

----------------------------------------------------------------------------
(* Open and release.                                                       *)

\* The kernel opens the device from cdev_add on, while mathdev_init is still to
\* succeed or fail, but not once mathdev_exit is to be called; after cdev_del it
\* still opens the cdev that another open file keeps.
Openable ==
  /\ modPc \notin Exiting \cup {"freed"}
  /\ "cdev" \in held \/ opened # {}

\* mathdev_open, kzalloc having succeeded: a zeroed instance.
Open(f) ==
  /\ Openable
  /\ f \notin opened
  /\ opened' = opened \cup {f}
  /\ lock' = [lock EXCEPT ![f] = NoThread]
  /\ opCount' = [opCount EXCEPT ![f] = 0]
  /\ calculated' = [calculated EXCEPT ![f] = 0]
  /\ UNCHANGED <<modVars, callVars>>

\* Faulty variant of Busy: the instance goes with the last descriptor.
BusyIgnored(f) == FALSE

\* A thread inside an ioctl holds a reference to its file.
Busy(f) == \E t \in Thread : file[t] = f

\* mathdev_release, at the last close.
Close(f) ==
  /\ modPc # "freed"
  /\ f \in opened
  /\ ~Busy(f)
  /\ opened' = opened \ {f}
  /\ UNCHANGED <<modVars, lock, opCount, callVars, calculated>>

----------------------------------------------------------------------------
(* MATH_IOCTL_CALC.                                                        *)

\* Where a thread is, as long as the code is there: what one does in a module that
\* has been freed is undefined, and not modelled.
At(t, place) == pc[t] = place /\ modPc # "freed"

Goto(t, label) == pc' = [pc EXCEPT ![t] = label]

\* The ioctl is over; ret is what the caller sees.
Return(t, value) ==
  /\ Goto(t, "user")
  /\ ret' = [ret EXCEPT ![t] = value]
  /\ file' = [file EXCEPT ![t] = NoFile]
  /\ req' = [req EXCEPT ![t] = NoRequest]

\* copy_from_user, ...
CopyIn(t, f) ==
  /\ At(t, "user")
  /\ f \in opened
  /\ calculated[f] < MaxCalls
  /\ \E r \in Request : req' = [req EXCEPT ![t] = r]
  /\ file' = [file EXCEPT ![t] = f]
  /\ Goto(t, "lock")
  /\ UNCHANGED <<modVars, instVars, ret, seen, calculated>>

\* ... or its failure.
CopyInFails(t, f) ==
  /\ At(t, "user")
  /\ f \in opened
  /\ Return(t, "EFAULT")
  /\ UNCHANGED <<modVars, instVars, seen, calculated>>

\* Faulty variant of MutexFree: the critical section is not guarded.
MutexFreeIgnored(f) == TRUE

MutexFree(f) == lock[f] = NoThread

MutexLock(t) ==
  /\ At(t, "lock")
  /\ MutexFree(file[t])
  /\ lock' = [lock EXCEPT ![file[t]] = t]
  /\ Goto(t, "calculate")
  /\ UNCHANGED <<modVars, opened, opCount, file, req, ret, seen, calculated>>

\* mathdev_calculate succeeds; the read half of op_count++.
CalculateOp(t) ==
  /\ At(t, "calculate")
  /\ Errno(req[t].op, req[t].a, req[t].b) = "0"
  /\ req' = [req EXCEPT ![t].result = Calculate(req[t].op, req[t].a, req[t].b)]
  /\ ret' = [ret EXCEPT ![t] = "0"]
  /\ seen' = [seen EXCEPT ![t] = opCount[file[t]]]
  /\ calculated' = [calculated EXCEPT ![file[t]] = @ + 1]
  /\ Goto(t, "count")
  /\ UNCHANGED <<modVars, instVars, file>>

\* mathdev_calculate fails: op_count and the request stay as they are.
CalculateFails(t) ==
  /\ At(t, "calculate")
  /\ Errno(req[t].op, req[t].a, req[t].b) # "0"
  /\ ret' = [ret EXCEPT ![t] = Errno(req[t].op, req[t].a, req[t].b)]
  /\ Goto(t, "unlock")
  /\ UNCHANGED <<modVars, instVars, file, req, seen, calculated>>

\* The quotient that s64 cannot represent is undefined: where the division
\* instruction traps, the thread dies in the kernel with the mutex held.
CalculateTraps(t) ==
  /\ At(t, "calculate")
  /\ Unrepresentable(req[t].op, req[t].a, req[t].b)
  /\ Goto(t, "dead")
  /\ UNCHANGED <<modVars, instVars, file, req, ret, seen, calculated>>

\* The write half of op_count++.
CountOp(t) ==
  /\ At(t, "count")
  /\ opCount' = [opCount EXCEPT ![file[t]] = seen[t] + 1]
  /\ seen' = [seen EXCEPT ![t] = 0]
  /\ Goto(t, "unlock")
  /\ UNCHANGED <<modVars, opened, lock, file, req, ret, calculated>>

\* Faulty variant of Unlocks: the error path keeps the mutex.
UnlocksOnSuccess(t) ==
  IF ret[t] = "0" THEN lock' = [lock EXCEPT ![file[t]] = NoThread] ELSE UNCHANGED lock

Unlocks(t) == lock' = [lock EXCEPT ![file[t]] = NoThread]

MutexUnlock(t) ==
  /\ At(t, "unlock")
  /\ Unlocks(t)
  /\ IF ret[t] = "0"
     THEN Goto(t, "copyOut") /\ UNCHANGED <<file, req, ret>>
     ELSE Return(t, ret[t])
  /\ UNCHANGED <<modVars, opened, opCount, seen, calculated>>

\* copy_to_user, ...
CopyOut(t) ==
  /\ At(t, "copyOut")
  /\ Return(t, "0")
  /\ UNCHANGED <<modVars, instVars, seen, calculated>>

\* ... or its failure.
CopyOutFails(t) ==
  /\ At(t, "copyOut")
  /\ Return(t, "EFAULT")
  /\ UNCHANGED <<modVars, instVars, seen, calculated>>

\* MATH_IOCTL_QUERY_OPS and commands of other devices touch no state.
Ioctl(t) ==
  \/ MutexLock(t)
  \/ CalculateOp(t) \/ CalculateFails(t) \/ CalculateTraps(t)
  \/ CountOp(t) \/ MutexUnlock(t)
  \/ CopyOut(t) \/ CopyOutFails(t)

Next ==
  \/ Load \/ Acquire \/ AcquireFails \/ Unload \/ Release
  \/ \E f \in File : Open(f) \/ Close(f)
  \/ \E t \in Thread, f \in File : CopyIn(t, f) \/ CopyInFails(t, f)
  \/ \E t \in Thread : Ioctl(t)

Spec == Init /\ [][Next]_vars

\* A thread in the kernel is scheduled, and a mutex that is released again and
\* again is in the end handed to each of its waiters.
FairSpec ==
  /\ Spec
  /\ \A t \in Thread : WF_vars(Ioctl(t)) /\ SF_vars(MutexLock(t))

----------------------------------------------------------------------------
(* Properties.                                                             *)

\* Type correctness: the module's place, the instances and the threads' locals.
TypeOK ==
  /\ modPc \in {"unloaded", "loaded", "freed"} \cup Resource \cup DOMAIN Releases
  /\ held \subseteq Resource
  /\ opened \subseteq File
  /\ lock \in [File -> Thread \cup {NoThread}]
  /\ opCount \in [File -> Nat]
  /\ pc \in [Thread -> {"user", "lock", "calculate", "count", "unlock", "copyOut", "dead"}]
  /\ file \in [Thread -> File \cup {NoFile}]
  /\ req \in [Thread -> [op : OpCode \cup {"other"}, a : Word, b : Word, result : Word]]
  /\ ret \in [Thread -> {"0", "EDOM", "EINVAL", "EFAULT"}]
  /\ seen \in [Thread -> Nat]
  /\ calculated \in [File -> Nat]

\* Every resource is released exactly once, whatever step of mathdev_init fails:
\* a release finds its resource held, and nothing is left behind.
UnwindExact ==
  /\ modPc \in DOMAIN Releases => Releases[modPc] \in held
  /\ modPc \in Resource => modPc \notin held
  /\ modPc \in {"unloaded", "freed"} => held = {}
  /\ modPc = "loaded" => held = Resource

\* No thread is in the instance of a file that is closed; and a module that has
\* been loaded is not unloaded under an open file, nor one left open for the next.
\* So only the kernel's freeing of a module that failed to load ("freed") takes
\* code or instance from under a thread.
NoUseAfterFree ==
  /\ \A t \in Thread : pc[t] # "user" => file[t] \in opened
  /\ modPc \in Exiting \cup {"unloaded", "region", "cdev"} => opened = {}

\* No update of op_count is lost, however the ioctls on one file interleave:
\* it is short of the successful calculations only by the one being counted.
CountExact ==
  \A f \in opened :
    opCount[f] + Cardinality({t \in Thread : file[t] = f /\ pc[t] = "count"})
      = calculated[f]

\* The result copied to the caller is that of the caller's own request: the
\* exact one if s64 can hold it, and congruent to it otherwise; the quotient
\* leaves a remainder smaller than the divisor with the sign of the dividend.
ResultRight ==
  \A t \in Thread :
    pc[t] = "copyOut" =>
      LET op == req[t].op  a == req[t].a  b == req[t].b  r == req[t].result
      IN  CASE op = "ADD" -> r \in Word /\ (r - (a + b)) % Modulus = 0
            [] op = "SUB" -> r \in Word /\ (r - (a - b)) % Modulus = 0
            [] op = "MUL" -> r \in Word /\ (r - a * b) % Modulus = 0
            [] op = "DIV" -> \/ Unrepresentable(op, a, b) /\ r = IntMin
                             \/ IsQuotient(a, b, r)

\* An ioctl returns, unless a thread has died with that file's mutex, or the module
\* was freed under it.
Stuck(f) == f # NoFile /\ lock[f] # NoThread /\ pc[lock[f]] = "dead"
CallsReturn ==
  \A t \in Thread :
    pc[t] # "user" ~> (pc[t] = "user" \/ Stuck(file[t]) \/ modPc = "freed")
=============================================================================
