# A verification project for ES_Tasks

The repository holds two independent systems:

* `freertos_master_slave`: a FreeRTOS simulation in C. Device A (the master)
  watches Device B (the slave), raises an alarm when B stays faulty, and resets it.
* `mathdev`: a Linux character device that calculates on 64-bit integers, a
  Python server that offers it on a Unix socket, a Python and a C client.

The TLA+ modules in this directory model their control: tasks and threads,
queues, locks, protocol states, error paths and shutdown. TLC checks them on
small instances; TLAPS proves most of the safety results for every value of the constants.

## 1. Inventory

| Component | State | Operations | Interacts through |
|---|---|---|---|
| Device A, `device_a.c` | `a_state`, last `b_state`, `fault_count`, `error_poll_count` | poll with time-out, count, transition, `issue_reset`, recovery time-out, exit | receives from the state queue, sends to the reset queue, logs |
| Device B, `device_b.c` | `b_state` | baseline publication, reset service, random transition, delay, exit | sends to the state queue, receives from the reset queue, logs |
| IPC, `ipc.c`, `ipc.h` | three bounded queues (8, 1, 32) | non-blocking send, receive | shared by all tasks |
| Logger, `logger.c` | its wait for a message | enqueue or drop, print, stop the scheduler | log queue, `g_sim_running` |
| Timer and main, `main.c` | `g_sim_running` | create the tasks, end the simulation | the flag all tasks read |
| Kernel module, `mathdev.c` | the registered resources; per open file a mutex and `op_count` | init and exit, open, release, two ioctls | called by the server's threads |
| Server, `server.py` | the listening socket and its path, `_running`, the device's descriptor and lock, one handler per connection | start, accept, HELLO, CALC, BYE, errors, signal, shutdown | sockets to the clients, ioctls to the device |
| Mock server, `mock_server.py` | as the server, without a device | as the server, arithmetic on Python's integers | sockets |
| Protocol, `protocol.py` | none | framing, message builders | used by server and Python client |
| Clients, `client.py`, `client.c` | connection, operations announced, request number, the terminal's line buffer | handshake, prompts, request, goodbye; number parsing and formatting | sockets, the user's terminal |

What makes them hard:

* The two devices have one priority and are time-sliced: either can be suspended
  between any two accesses to a queue. Every send is non-blocking and may be dropped;
  A polls every 250 ms and B moves every 500 ms; A decides on the state it
  received last. Correct are: A's picture of B, the debounced alarm (neither early
  nor late), recovery whatever is lost, and an orderly end.
* `mathdev_init` may fail at each of four steps and must undo the earlier ones, while the
  device can be opened already from `cdev_add` on. Threads share a descriptor, so the counter
  needs its mutex, and the instance must outlive every call. `INT64_MIN / -1` has no result: on x86 it traps, and the thread dies with
  the instance's mutex held and, in the server, with the device's lock.
* The server runs a thread per connection on one device descriptor. A signal, an `accept`
  that fails or a thread that cannot be started ends the accept loop, and the descriptor is
  closed without the lock while handlers use it. Clients send messages in
  any order and vanish at any time. Each request must get one fitting reply, in order.
* A number passes through many forms on its way: a line in a buffer, what the client's own
  parser or `int()` takes it for, JSON, a `c_int64`, an `s64`, a double, text on the screen. The
  number shown must be the result of the numbers typed.

`PROJECT.json` lists each hazard at its line, with the properties that cover it.

## 2. The modules

```
Devices --- MasterSlave --- TimedMasterSlave --- MCTimed  . . refines . .>  Recovery
                 |                  |
        MasterSlave_proofs --- TimedMasterSlave_proofs

Arithmetic --+-- MathDev --- MCMathDev
     |       +-- Numbers --- Calculation --- MCCalculation
     |               |               |
Arithmetic_proofs    |      Calculation_proofs   (also of Arithmetic_proofs, Digits_proofs)
     |               |
MathDev_proofs     Digits --- Framing
                     |           |
              Digits_proofs --- Framing_proofs

Protocol --+-- MathServer --+-- MCMathServer    . . refines . .>  Session
           +-- Session      +-- Gateway --+-- MCGateway
                                          +-- Gateway_proofs  (also of MathServer)
```

**Devices** has the shared types, `device_a_process_event` (`ProcessEvent`),
`device_b_next_state` (`NextBState`: every residue of `rand()` the code tests
occurs, so each branch is possible) and the non-blocking `xQueueSend` (`TrySend`).

**MasterSlave** is the two tasks in every interleaving, without time. A step is the
code of one task from one access to a shared object to the next. One iteration of A
is `AReceive` or `APollTimeout`, `AEvaluate` (count the fault, decide, reset on
entering ERROR), `AWatchdog` (the recovery time-out), `ALoopEnd`. One of B is
`BTakeReset`, `BPublishReset` or `BNoReset`, `BStep`; then `BWake`. A poll may time
out whenever the queue is empty and a delay may end whenever it likes, so this
module covers every choice of periods. The counters are `uint32_t`
with `WordSize` values. Two history variables, `updateLost` and `sleepLost`, keep
what `xQueueSend` returned to B.

**TimedMasterSlave** adds the clock, the priorities (devices above timer above logger)
and the logger. Time passes only when all tasks are blocked. The
simulation may end at any instant, which stands for every `SIM_DURATION_MS` that is a
multiple of the unit of time. `faultAge` and `errorAge` only measure. `PeriodsFit` names what the
module's promises need of the periods and depths; **MCTimed** assumes it, so that TLC
confirms it of the shipped ones.

**Recovery** is the promise of the pair with no queue or counter: the slave is forced
to SLEEP only under an alarm, the alarm ends as soon as the slave sleeps and before it does
anything else, and both happen if the alarm is raised.

**Arithmetic** has `mathdev_calculate` on words of `2 * Half` values (results wrap, the quotient
truncates toward zero), the mock's arithmetic on Python's integers (no word, `//` rounds
down), and the reference `IsQuotient`: the remainder is smaller than the divisor and has the
sign of the dividend.

**MathDev** is the kernel module: loading and unloading as a walk through the
acquisitions and the `goto` labels, the open files, and the ioctl of each thread, split at
the copies from and to user space, at the mutex, and between the read and the write of
`op_count++`. A file can be opened as soon as `cdev_add` has succeeded (`Openable`), so before
`class_create` and `device_create` have, and all through the unwind while another file keeps the
cdev. If the unwind ends with a file open, the kernel frees the module
under it: the place `freed`, after which no thread moves, since what it would
execute is gone. On the quotient that overflows, the thread either goes on with the wrapped
value (as on ARM) or dies with the mutex (the trap of x86).

**Protocol** names messages by what the server tells apart. **MathServer** is the
main thread with its signal handler, the handlers, and the shared device wrapper; a handler's
step goes from one blocking call (`recv_msg`, the lock, the ioctl, `sendall`) to the
next. The main thread's place tells what `_running` would: `accept` is the loop with the flag
up, `stopping` the loop after the signal handler took it down. What can go wrong with it
is `Trouble`: it fails or is killed before its signal handlers are installed (`StartupFails`), `accept`
raises for want of a descriptor or of memory and ends the loop with the flag still up (`AcceptFails`),
no thread can be started (`StartFails`), or the signal comes. Exceptions (`raised`) pass by
the last `unlink`. A handler whose quotient traps (`CalcTraps`) is dead: its connection stays open and the
device's lock is never released. Clients are the environment. **Session** is the promise to one
client: a device error is a fitting reply only once the server has begun to end (`up`, that is
`Serving`, is false). Its input `stuck` says that the device is lost, which excuses a reply that needs it.

**Gateway** puts `client.py` and `client.c` in the place of those clients: connect, greet, one
request at a time, goodbye, with Ctrl-C at any moment. A client's step is the code
between two calls on its socket. Where the two programs differ the action says so: a failed
handshake, a write to a closed connection (an exception in Python, SIGPIPE in C), the
interrupt. Here a choice at the menu and its operands are valid; what is typed at the prompts
is the subject of **Calculation**.

**Framing** is what the modules above take for granted, that messages arrive whole: one
direction of a connection, byte by byte, with `send_msg` and `recv_msg` of `protocol.py` or
`client.c` at either end. A header is the length, shifted byte by byte as the code does (**Digits**,
which **Numbers** uses for decimal digits). Header and body are read
in as many pieces as the stream gives, C's reader has a buffer of fixed size, and the writer
may die at any byte. What a body says
is left to the other modules.

**Numbers** has the conversions: `parse_int64` (an unsigned accumulator that may wrap, its guard
and its cap), Python's `int()` with its underscores, `int64_to_str`, the rounding of an integer
to a double, and the cast back, which is undefined beyond the word: either end of it.

**Calculation** follows one user through one calculation after another. `Type` is the user,
`Answer` a prompt of either client (the buffer of `read_line` leaves the rest of a long line to the
next prompt; a choice is narrowed to 32 bits before it is compared), `Send` the request, `Serve`
the kernel or the mock, `Show` the screen. A *foreign* client sends any integers. `meant` and
`overlong` are history: the number in the user's last answer to each prompt, and whether a line
was too long for the buffer.

Each operator that a comment calls a *faulty variant* is the definition
below it with one plausible mistake. No specification uses it; `PROJECT.json` pairs it
with the property that detects the mistake, so each property is known to depend on
the code it is about.

## 3. The runs

| Run | Question | Bounds |
|---|---|---|
| `MasterSlave` | Are the tasks right in every interleaving, with queues that overflow? | state queue 2, reset queue 1, threshold 3, time-out of 2 polls, counters of 7 values |
| `Timed` | What do the periods of `sim_config.h` add? | the real periods in units of 50 ms; ages counted to 20 units, past every window |
| `MathDev` | Init, exit, open, release and concurrent ioctls | two threads, one file, words of 8 values, five pairs of operands: overflow of each operation, quotients of every sign, a division by zero; one successful call per opening |
| `Server` | Handlers, device lock, start and end of the server | a client with any two messages, one with one; a handler may die in the kernel |
| `Framing` | Do messages survive the byte stream? | three bodies of up to three bytes of one bit, headers of two bits, socket buffer 3, C buffer 3 |
| `Gateway` | The two clients on one server | two requests of the Python client, one of the C client; one kind of request each |
| `Calculation` | Does the screen show the result of what was typed? | words of 32 values, doubles of 3 bits, choices of 8 values, a line buffer of 6; every line of up to 3 of 10 characters, and longer ones |
| `DetectionTime`, `Malformed`, `ExitStatus`, `MockDivision`, `ClientsAgree` | What a document says and the code does not do | as above |

*MasterSlave.* `BeliefFollows`: B publishes only changes, so A is right only if none goes
missing; unless the newest publication was dropped, the newest state sent to A is B's
state. `MirrorWhenQuiet`: with nothing in flight the two state machines agree and no
fault is past the threshold unnoticed. `RecoveryUnderWay`: no alarm is forgotten: in
ERROR there is a reset, an answer to it, or a dropped answer. `WatchdogArmed`: the
time-out never slips past its comparison. `DebouncedEscalation`: A enters ERROR when the
count reaches the threshold, on a FAULT in hand, and leaves it for IDLE on a SLEEP.
`KeepsResetting`: even if answers are dropped, resets keep coming. Queues of 2 and 1
are full after three steps, so every drop happens; a time-out of two polls makes
the watchdog fire; 7 counter values allow the counters to come near their end.

*Timed.* With the shipped periods no publication and no log line is dropped
(`NothingDropped`), at most one reset is outstanding and none hits a slave that A takes for
healthy (`ResetsAreWanted`), A knows of a
change of B on the same tick, the alarm is raised no earlier and no later than
FAULT_THRESHOLD - 1 polls after the FAULT (500 ms; see `DetectionTime` below), ERROR lasts at most one
period of B, the pair implements `Recovery` (`PromiseKept`), and the scheduler stops with the log drained.

`ResetsAreWanted` depends on the periods. It needs the watchdog not to fire before B has answered,
which `PeriodsFit` grants. It is false of a slower slave: with `DEVICE_B_TICK_MS` at 2250
the watchdog re-issues the reset at the instant in which B takes the first one out of the queue, so the
second stays queued and is served a period later, when B has recovered and A is no longer
in ERROR. (At 2500 or 3000 every re-issue finds the queue full, and TLC finds no such reset.) No document
claims otherwise; a change of the periods in `sim_config.h` has to keep `PeriodsFit`.

*MathDev.* `UnwindExact`: whatever step of `mathdev_init` fails, each resource acquired is
released exactly once. `NoUseAfterFree`: the instance a thread is in is not released, and
no file is open while the module is being removed, when it is gone, or when the next load begins. What it
does not exclude, because the code does not, is a file that was opened after `cdev_add` and is
still open when a later step of `mathdev_init` fails: the module is freed under it (`freed`). The
runs reach that place, and `CallsReturn` excuses it. `CountExact` (no lost update),
`ResultRight` (a caller gets the result of its own request; congruent modulo the word, the
quotient by its remainder), `CallsReturn` (unless a thread has died with the mutex of that
file or the module was freed). Two threads are what a race needs; words of 8 values have every kind of overflow.

*Server.* `SessionsKept`: each connection is a `Session`, whatever the other client does and
however and whenever the server ends, liveness included; the one exception is a device that a dead handler
has locked. A client may be told of a device error by a server that nobody stopped, but only by one that
has left its accept loop. `OneReplyEach`, `Serialised`. `Stops`: a server that is told to stop or has
left its loop by itself ends, and takes its socket file with it unless an exception ends it
(a start that fails, a handler that cannot be started): then the file stays.
Two messages reach every kind of message before and after a handshake.

*Framing.* `InOrderIntact`: what is received is a prefix of what was sent. `OutcomeRight`: the
clean end is reported only between messages, an error only for a reason. `Delivered`: what
was written is received. The socket buffer is smaller than most frames, which must be written and
read in pieces; a body of three bytes is too long for C's buffer, one of two fills it but for the NUL.

*Gateway.* `AnswersOwnRequest`: neither client compares `req_id`, yet each answer shown is that of
the request before it, because nothing else can be next on the stream. `NeverRefused`: the
two programs keep to the protocol. `NoClientHangs`: no client has a time-out, and none needs one,
even if the server stops before it accepts or while it works; only a dead handler (`Stuck`) makes
clients wait for ever. Two requests are what a
stale answer needs.

*Calculation.* `AnswersTaken`: a plain number that a prompt asks for is never refused, and what is
accepted is the number meant. `ShownRight`: when the operation chosen has a result that is a word,
of the numbers typed, it is the number shown; an error is shown when the divisor is zero and only
then. Both are stated with the limits that the code has, each named in the module: lines longer than
the buffer, choices of more than 32 bits, results beyond 2^53 in the C client, quotients of
operands of different sign on the mock, operands of a foreign client that the server cuts. Small
widths suffice because the code compares numbers only with the ends of their types: one digit
more or less decides each guard in 5 bits as in 64, and the buffer of 6 is shorter and longer than the lines.

*What the documents say otherwise.* `DetectionTime`: `SIMULATION_RESULTS.md` reports that the
threshold was always reached "in exactly 3 × DEVICE_A_POLL_MS = 750 ms from the first FAULT observation";
the first observation counts, so it is two poll periods, 500 ms, as the log in the same file shows
(`fault_count=1` at 7001, `fault_count=3` at 7501). `NoEarlyAlarm` and `NoLateAlarm` state what the code does. `Malformed`: the protocol has ERR_BAD_REQUEST for
malformed JSON, the server closes the connection without a reply. `ExitStatus`: `client.c`
promises status 1 on any error; a write to a server that has stopped ends it by SIGPIPE.
`MockDivision`: the mock calls itself a drop-in replacement of the kernel, and rounds -7 / 2 to -4.
`ClientsAgree`: the two clients are said to be identical to the user; the C client shows a
neighbour of a result that a double cannot hold.

Three smaller ones have no run: `device_b.h` says B deletes itself, but the logger stops the
scheduler after 200 ms of silence, while B is in a delay of 500 ms; `sim_config.h` gives the
time before a reset is re-issued, but the first comes one poll early, since the iteration that
raises the alarm is counted; `op_count` is documented as the successful operations, but is
incremented before `copy_to_user` may fail.

Deadlock is not checked where the system ends: the tasks are deleted, the scheduler or the
server stops, the user ends the input; a thread that traps leaves its waiters behind.

### Fairness

* `MasterSlave`: weak fairness of each task. They share a priority with time slicing and
  no call of theirs waits without a time-out.
* `TimedMasterSlave`: weak fairness of each task and of the tick. None of the
  simulation timer: the liveness properties hold however long the simulation lasts.
* `MathDev`: a thread in the kernel runs on (weak), and a mutex that is released again
  and again reaches each waiter (strong; the kernel's mutex hands over to starving waiters).
  Nothing is assumed of callers or of loading.
* `MathServer`: every thread is scheduled (weak), the lock is won in the end
  (strong). Clients need not send, read or close, and no `Trouble` need ever come.
* `Framing`: both ends go on with a frame once begun. The writer need not send or close.
* `Gateway`: as `MathServer`, and each client goes on between its user's inputs (weak). The
  user need not type anything.
* `Calculation`: none; its properties are about safety.

## 4. Proofs

`MasterSlave_proofs` proves, for every threshold, queue depth, period and word size
that satisfy the named assumptions (the threshold is positive and representable, the
time-out plus one poll fits the counter's type), that `IInv` is inductive:

* `TypeOK`;
* `BeliefFollows` and `RecoveryUnderWay`, both inductive only together with the rest;
* `Settled`: once an observation is evaluated, A's state fits it. Without it nothing
  says that a SLEEP in A's hand ends an alarm;
* `CountersBounded`: between steps the counters are below their limits. Without it the
  counters could start past the comparison and wrap;
* `AnswersSleep`: what is published in answer to a reset is SLEEP.

`Invariance` is the theorem; `TypeCorrect`, `BeliefCorrect`, `MirrorCorrect`,
`RecoveryCorrect`, `WatchdogCorrect` and `EscalationCorrect` follow for the properties the run checks.
Each step lemma has a case per action. `MasterSlave` checks `IInv` as an invariant too.

`TimedMasterSlave_proofs` proves that the clocked system implements the untimed one
(`TimedImplementsUntimed`), so `IInv` holds of it for any periods (`TimedInvariance`), and that its
timers and its log queue stay in range. The rest is proved for all periods that satisfy
`PeriodsFit`:

* the state queue holds two, because B can answer a reset and then move by itself before A runs;
* the log queue holds the most that both devices write in one instant, 15 lines, and one more;
* B's period and three polls are shorter than the reset time-out: B answers a reset within its
  period, and of the polls one is the entry, counted at once, one times out as B wakes, and
  one passes as the simulation ends;
* ages are counted past the two windows they measure (a bound of the model, not of the code).

`TInv` has no part that could be left out:

* `QueueOK`: what is unreceived was published in this instant, after A's last receipt, and each
  state follows from the one before it. So nothing is ever dropped from the state queue;
* `ViewOK`, `HeardOK`: A's state fits what it holds of B except while it evaluates, and once
  a tick has passed since B published, what A holds is B's state;
* `ResetOK`: a reset is queued exactly as long as A is in ERROR and B not yet asleep;
* `RaisedOK`: B moves by itself under an alarm only in the instant in which it was raised. It is
  what makes `ResetOK` inductive, since the two run in either order in an instant;
* `AnswerOK`, `PollsOK`: how old an alarm is against B's delay, and how many polls it has been
  counted for. Together with the third part of `PeriodsFit` the watchdog never fires before the answer;
* `FaultOK`: how old a FAULT is against the polls counted;
* `LogOK`: the lines queued, and those either task can still write before time passes;
* `WindUpOK`: what is left of all this when the simulation has ended.

From `TInv` follow `NothingDroppedCorrect`, `SameTickCorrect`, `RecoveryInTime`, `AlarmNotLate`,
`AlarmNotEarly`, `OneResetOutstanding`, `ResetsWanted` and `PromiseSafety`, the safety part of
the refinement of `Recovery`: each step of the pair is a step of the promise or a stutter.

`Arithmetic_proofs` has the lemmas on words and quotients: `Wrap` yields the one word congruent to
its argument, `Quotient` satisfies `IsQuotient` and nothing else does, and only IntMin / -1
leaves the word. `MockQuotient` says when the mock's floor is the quotient of C.

`MathDev_proofs` proves the properties of the kernel module for any threads, files, operands and
word size, from `MInv`, which adds to `TypeOK`

* `HeldOK`: what is held at each label of `mathdev_init` and `mathdev_exit`; `UnwindExact` looks only
  at the ends of the walk;
* `PlacesOK`: who is where: a thread in the kernel is on an open file, and no file is open before
  `cdev_add` and in `mathdev_exit`. A file may be open at every other place, the labels of the
  unwind included, where the resources shrink under it;
* `MutexOK`: a thread in the critical section owns the mutex, a dead one included;
* `CounterOK`: the counter, and what the thread between its read and its write has read.
  `CountExact` speaks of both, but is inductive only with `MutexOK`;
* `ResultOK`: a thread's result is that of its own request. `Right` follows with the lemmas on words.

`Gateway_proofs` first proves of the server, for any number of clients that send anything, `SInv`: for each
connection the replies so far fit the messages so far (`CountOK`), the handler's `greeted` is
what the messages say (`GreetedOK`), what it holds is the reply to the last one (`HandOK`); the
descriptor is open from before the first connection until the loop has been left, for whatever reason
(`DeviceOK`), and the lock is with whoever is in the ioctl (`LockOK`). Handlers outlive the descriptor, so `DeviceOK`
says nothing of it once the server has begun to end; `up` in `Session` is where that matters. `HandlerQuiet` says
what a step of one handler leaves alone in another. `SessionsImplemented` is the safety part of
the refinement of `Session`. All step lemmas are about `Moves`, which lets clients
do what they like, so that the client programs are among them: `GatewayMoves` maps each step of the
gateway to one of those. `GInv` adds `TalkOK`, how far a client's conversation is against the handler's,
and `RepliesFit`. From it follow `NeverRefused` and `AnswersOwnRequest`.

`Framing_proofs` proves the safety of the byte stream for any size of byte, header, buffers and
bodies, and any number of messages. `HeaderDecodes` says that `Decode` undoes `Header`, given that
the longest body has a header (`LengthsFit`). It is an instance of `DigitsDenote` in `Digits_proofs`:
the digits of a number, in any base and of any width that it fits, stand for that number.
`FInv` speaks of a *trail*: the bytes of every frame from the first that has not been returned, in order.

* `FlightOK`: what the reader has of its part, the stream and what is still to be written are,
  joined, the trail (`AtHeader`), or the trail without the header just read (`AtBody`). Every read and
  write only moves the cuts between the three;
* `PrefixOK`, `ReadingOK`, `WritingOK`: the messages returned are the first of those sent; the
  part and its length are those of the next; what is still to be written is a rest of the last frame.

A read that completes a part cuts the trail where a header or a body ends, and two cuts of one
sequence at one place are equal (`SameCut`), so what is returned is what was sent:
`ReceivedInOrder`, `EndsRight` and `FramingTypeCorrect`.

`Calculation_proofs` follows a number from the keyboard to the screen, for every width of words and
doubles, every size of the buffers, and whatever lines are typed. First what the conversions do:

* `ParseInt64Right`: the accumulator, its guard and its cap accept exactly the numerals that denote a
  word, and yield the number denoted; the one that overflows, IntMin, comes out right because
  the build's negation wraps. It needs that `Half` is no multiple of ten: the guard looks only at
  `IntMax \div 10`;
* `Int64ToStrDenotes`: what `int64_to_str` writes of a word denotes it;
* `PyIntRight`, `StrippedMeaning`, `PlainMeaning`: stripping, underscores and carriage returns do not
  change what a line means. They rest on the lemmas on `Without`, by induction over sequences;
* `WrapFinds`, `CutOperands`, `ComputeRight`: operands cut to a word and a wrapped result still give the
  exact sum, difference or product, if that is a word.

The invariant `CInv` ties the ends together:

* `CTypeOK`, `PlaceOK`: only one of the two clients with prompts is ever at a prompt;
* `TypedOK`: a line that has not been read is the user's last answer to this prompt. `read_line` breaks it
  with a line longer than its buffer, hence `overlong`;
* `AnsweredOK`: what a prompt has accepted is what was meant. A choice may have been narrowed, but then
  none on the menu was meant (`NarrowedFromElsewhere`);
* `RequestOK`, `ReplyOK`, `ShownOK`: the request is for what was meant, the reply is to that request, and
  the screen shows that reply. They survive until the next calculation begins.

`CalculationTypeCorrect`, `AnswersTakenCorrect` and `ShownCorrect` follow. Of the constants they assume that
`Half` is more than 8 (so the numbers of the menu are words), that the buffer of `int64_to_str` has room for
the digits of `Half`, and that the menu fits a narrowed choice.
The assumptions are those named in the modules: constants have their types, depths and
the threshold are positive, `Half >= 2`, a model value such as `NoThread` is no thread. The
rounding of `Double` is left to TLC: the proofs use only that an integer of at most `2 ^ Precision` is a
double, which is its first case.

Inductions over numbers are stated for a set: one that has 0, and n + 1 with every n, has all of
them (`InductiveSet`, from the well-foundedness of <). So the modules that are proved about write
recursion as functions on 0 .. N, of which `RecursionWorks` and `SameRecursion` say that they exist and
are the only ones, rather than as folds, of which the prover knows nothing.

Only model-checked: all liveness, that of `PromiseKept` and `SessionsKept` included (out of
this prover's reach, as is ENABLED).

## 5. Not modelled

* Texts of log lines and messages, the output of `main`, heap and stack hooks.
* What a thread does in code or in an instance that the kernel has freed: undefined.
* A `sendall` that blocks because the client does not read. A client in `Gateway` reads each answer
  before it sends again; one that does not would have to leave a socket buffer full of replies unread. The handler
  holds no lock then, and as a daemon it ends with the process, so nobody else would notice.
* A socket file that cannot be removed (`PermissionError` at either `unlink`); at the first the server
  ends, which is `StartupFails`.
* The failure of `ipc_init`, which ends the program before a task exists.
* `MATH_IOCTL_QUERY_OPS` in the kernel: it copies a constant table.
* Drift: a task's delay is taken to be exactly its period.
* The C client reading on after a frame that is too long; the server sends none.
* Values of operands that are no integers (a `float`, which the server truncates, a string it cannot
  convert): only the kinds of answer they lead to are in `MathServer`.
* A last line without a newline at the end of the input.
* `load_fallback_ops`: the server always announces its operations.
* The mock's accept loop: that of the server without the flag, with a device that cannot fail.
* Two servers on one path: what a second one does to the socket file is limited by no code
  of the first.
* The scripts and the test suites.

## 6. Plan

1. Weaker periods: which relation of B's period to the reset time-out `ResetsAreWanted` needs beyond
   `PeriodsFit`.
2. Several users in `Calculation`, so that replies may meet the prompts of another.
