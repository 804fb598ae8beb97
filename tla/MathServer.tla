----------------------------- MODULE MathServer -----------------------------
(***************************************************************************)
(* server.py: the main thread of MathServer.run, one ClientHandler thread  *)
(* per connection, and the KernelInterface they share.                     *)
(*                                                                         *)
(* A handler's step runs from one blocking call to the next: recv_msg, the *)
(* lock of KernelInterface, the ioctl under it, sendall.  The clients are  *)
(* the environment: they connect, send any messages and close at any time. *)
(***************************************************************************)
EXTENDS Protocol

CONSTANTS
  Client,          \* the connections there can be
  Nobody,          \* the holder of a free lock
  Sendable,        \* Sendable[c]: the messages the client of c may send
  MaxMessages      \* bound: MaxMessages[c] of them on the connection

ASSUME ServerAssumption ==
  /\ Nobody \notin Client
  /\ Sendable \in [Client -> SUBSET Message]
  /\ MaxMessages \in [Client -> Nat]

VARIABLES
  \* the main thread
  mainPc,          \* its place in MathServer.run: "accept" is the loop while
                   \* self._running is TRUE, "stopping" is the loop when it is FALSE;
                   \* nothing else reads it
  raised,          \* the process ends by an exception or a signal's default action
  listening,       \* srv is open
  path,            \* the socket file exists
  \* KernelInterface
  fd,              \* self._fd: "none", "open", or "closed" but still the number
  lock,            \* the handler that holds self._lock
  \* the connections and their handlers
  sent,            \* sent[c]: every message the client has sent
  received,        \* received[c]: how many of them recv_msg has returned
  replies,         \* replies[c]: every message the server has sent
  peerOpen,        \* peerOpen[c]: the client has not closed
  pc,              \* pc[c]: the handler's place
  handshaken,      \* local of _loop
  pending          \* pending[c]: the reply about to be sent

mainVars == <<mainPc, raised, listening, path>>
kernVars == <<fd, lock>>
wireVars == <<sent, peerOpen>>
handVars == <<received, replies, pc, handshaken, pending>>
vars     == <<mainVars, kernVars, wireVars, handVars>>

NoReply == "none"

Init ==
  /\ mainPc = "unlinkStale" /\ raised = FALSE /\ listening = FALSE
  /\ path \in BOOLEAN                   \* a stale file of an earlier server
  /\ fd = "none" /\ lock = Nobody
  /\ sent = [c \in Client |-> <<>>] /\ received = [c \in Client |-> 0]
  /\ replies = [c \in Client |-> <<>>]
  /\ peerOpen = [c \in Client |-> FALSE]
  /\ pc = [c \in Client |-> "none"]
  /\ handshaken = [c \in Client |-> FALSE]
  /\ pending = [c \in Client |-> NoReply]

----------------------------------------------------------------------------
(* MathServer.run.                                                         *)

\* Where it is before its signal handlers are installed, and after its loop.
Startup == {"unlinkStale", "openKernel", "bind", "install"}
Ending  == {"closeKernel", "clearFd", "unlink", "exit", "exited"}

\* srv is closed: the connections of its backlog are, but not those of kept.
CloseListener(kept) ==
  /\ listening' = FALSE
  /\ pc' = [c \in Client |-> IF pc[c] = "backlog" /\ c \notin kept THEN "closed" ELSE pc[c]]

UnlinkStale ==
  /\ mainPc = "unlinkStale"
  /\ path' = FALSE
  /\ mainPc' = "openKernel"
  /\ UNCHANGED <<raised, listening, kernVars, wireVars, handVars>>

\* KernelInterface.open.
OpenKernel ==
  /\ mainPc = "openKernel"
  /\ fd' = "open"
  /\ mainPc' = "bind"
  /\ UNCHANGED <<raised, listening, path, lock, wireVars, handVars>>

\* bind, chmod and listen: clients can connect from here on.
Bind ==
  /\ mainPc = "bind"
  /\ path' = TRUE /\ listening' = TRUE
  /\ mainPc' = "install"
  /\ UNCHANGED <<raised, kernVars, wireVars, handVars>>

\* The signal handlers.
Install ==
  /\ mainPc = "install"
  /\ mainPc' = "accept"
  /\ UNCHANGED <<raised, listening, path, kernVars, wireVars, handVars>>

\* Before that an exception (no device, the path in use) or a signal ends the
\* process, and whatever file bind has made stays.
StartupFails ==
  /\ mainPc \in Startup
  /\ mainPc' = "exited" /\ raised' = TRUE
  /\ path' \in {path, path \/ mainPc = "bind"}
  /\ CloseListener({})
  /\ UNCHANGED <<kernVars, wireVars, received, replies, handshaken, pending>>

\* accept returns a connection of the backlog, and its handler is started.
Accept(c) ==
  /\ mainPc = "accept" /\ listening
  /\ pc[c] = "backlog"
  /\ pc' = [pc EXCEPT ![c] = "recv"]
  /\ UNCHANGED <<mainVars, kernVars, wireVars, received, replies, handshaken, pending>>

\* _shutdown, on SIGINT or SIGTERM: the backlog is refused with the socket.  Once
\* the loop has been left it changes nothing that is read again.
Signal ==
  /\ mainPc = "accept"
  /\ mainPc' = "stopping"
  /\ CloseListener({})
  /\ UNCHANGED <<raised, path, kernVars, wireVars, received, replies, handshaken, pending>>

\* accept raises on the closed socket, or the loop's condition is false.
LeaveLoop ==
  /\ mainPc = "stopping"
  /\ mainPc' = "closeKernel"
  /\ UNCHANGED <<raised, listening, path, kernVars, wireVars, handVars>>

\* Any OSError of accept (no descriptor or memory left) ends the loop like a
\* shutdown, though nobody asked for one.
AcceptFails ==
  /\ mainPc = "accept"
  /\ mainPc' = "closeKernel"
  /\ CloseListener({})
  /\ UNCHANGED <<raised, path, kernVars, wireVars, received, replies, handshaken, pending>>

\* No thread for the connection that was accepted: the exception leaves run, and
\* the connection is open, with nobody to read it, to the end of the process.
StartFails(c) ==
  /\ mainPc = "accept" /\ listening
  /\ pc[c] = "backlog"
  /\ mainPc' = "closeKernel" /\ raised' = TRUE
  /\ CloseListener({c})
  /\ UNCHANGED <<path, kernVars, wireVars, received, replies, handshaken, pending>>

\* KernelInterface.close does not take the lock: os.close first, ...
CloseKernel ==
  /\ mainPc = "closeKernel"
  /\ fd' = "closed"
  /\ mainPc' = "clearFd"
  /\ UNCHANGED <<raised, listening, path, lock, wireVars, handVars>>

\* ... then the attribute.  An exception passes by the last unlink.
ClearFd ==
  /\ mainPc = "clearFd"
  /\ fd' = "none"
  /\ mainPc' = IF raised THEN "exit" ELSE "unlink"
  /\ UNCHANGED <<raised, listening, path, lock, wireVars, handVars>>

\* Faulty variant of RemovePath: the file of the socket is left behind.
RemovePathSkipped == UNCHANGED path

RemovePath == path' = FALSE

Unlink ==
  /\ mainPc = "unlink"
  /\ RemovePath
  /\ mainPc' = "exit"
  /\ UNCHANGED <<raised, listening, kernVars, wireVars, handVars>>

\* The interpreter ends; the handlers are daemon threads and end with it.
Exit ==
  /\ mainPc = "exit"
  /\ mainPc' = "exited"
  /\ lock' = Nobody
  /\ pc' = [c \in Client |-> IF pc[c] = "none" THEN "none" ELSE "closed"]
  /\ UNCHANGED <<raised, listening, path, fd, wireVars, received, replies, handshaken,
                 pending>>

Main ==
  \/ UnlinkStale \/ OpenKernel \/ Bind \/ Install \/ (\E c \in Client : Accept(c))
  \/ LeaveLoop \/ CloseKernel \/ ClearFd \/ Unlink \/ Exit

\* What may happen to the main thread, and need not.
Trouble ==
  \/ StartupFails \/ AcceptFails \/ (\E c \in Client : StartFails(c)) \/ Signal

----------------------------------------------------------------------------
(* ClientHandler.                                                          *)

Goto(c, label) == pc' = [pc EXCEPT ![c] = label]

\* Faulty variant of Answer: the reply is not filled in.
AnswerUnset(c, r) == Goto(c, "send") /\ UNCHANGED pending

\* The reply that is sent next.
Answer(c, r) == Goto(c, "send") /\ pending' = [pending EXCEPT ![c] = r]

\* Faulty variant of BeforeHello: the request is passed over.
BeforeHelloIgnored(c) == Goto(c, "recv") /\ UNCHANGED pending

\* A CALC before the handshake is refused.
BeforeHello(c) == Answer(c, "ERR_BAD_REQUEST")

\* recv_msg has a whole message; what _loop does with it up to the next
\* blocking call.
Dispatch(c, m) ==
  CASE m = "HELLO" -> Goto(c, "query") /\ UNCHANGED pending
    [] m = "BYE" -> Answer(c, "BYE_ACK")
    [] m = "other" -> Answer(c, "ERR_BAD_REQUEST")
    [] m \in Calc /\ ~handshaken[c] -> BeforeHello(c)
    [] m \in RefusedCalc /\ handshaken[c] -> Answer(c, Refusal[m])
    [] m \in KernelCalc /\ handshaken[c] -> Goto(c, "calculate") /\ UNCHANGED pending
    [] OTHER -> Goto(c, "close") /\ UNCHANGED pending

Receive(c) ==
  /\ pc[c] = "recv"
  /\ received[c] < Len(sent[c])
  /\ received' = [received EXCEPT ![c] = @ + 1]
  /\ Dispatch(c, sent[c][received[c] + 1])
  /\ UNCHANGED <<mainVars, kernVars, wireVars, replies, handshaken>>

\* recv_msg meets the end of the stream.
ReceiveEof(c) ==
  /\ pc[c] = "recv"
  /\ received[c] = Len(sent[c]) /\ ~peerOpen[c]
  /\ Goto(c, "close")
  /\ UNCHANGED <<mainVars, kernVars, wireVars, received, replies, handshaken, pending>>

\* Faulty variant of LockFree: nobody waits for the lock.
LockFreeIgnored == TRUE

LockFree == lock = Nobody

\* with self._lock.
TakeLock(c) ==
  /\ pc[c] \in {"query", "calculate"}
  /\ LockFree
  /\ lock' = c
  /\ Goto(c, IF pc[c] = "query" THEN "queryIoctl" ELSE "calcIoctl")
  /\ UNCHANGED <<mainVars, fd, wireVars, received, replies, handshaken, pending>>

\* Faulty variant of ReleaseLock: an early return keeps the lock.
ReleaseLockKept == UNCHANGED lock

\* The end of the with block.
ReleaseLock == lock' = Nobody

\* QUERY_OPS: any failure falls back on the static list, so HELLO always gets
\* its acknowledgement.
QueryIoctl(c) ==
  /\ pc[c] = "queryIoctl"
  /\ ReleaseLock
  /\ Answer(c, "HELLO_ACK")
  /\ UNCHANGED <<mainVars, fd, wireVars, received, replies, handshaken>>

\* Faulty variant of CalcReply: every error of the kernel is a division by zero.
CalcReplyAnyErrno(m) ==
  CASE fd = "open" /\ m # "calcDivZero" -> "CALC_ACK"
    [] fd = "none" -> "ERR_INTERNAL"
    [] OTHER -> "ERR_DIV_ZERO"

\* The kernel's answer, or EBADF, or ioctl(None, ...).
CalcReply(m) ==
  CASE fd = "open" /\ m = "calcDivZero" -> "ERR_DIV_ZERO"
    [] fd = "open" /\ m # "calcDivZero" -> "CALC_ACK"
    [] fd = "closed" -> "ERR_DEVICE"
    [] fd = "none" -> "ERR_INTERNAL"

CalcIoctl(c) ==
  /\ pc[c] = "calcIoctl"
  /\ ReleaseLock
  /\ Answer(c, CalcReply(sent[c][received[c]]))
  /\ UNCHANGED <<mainVars, fd, wireVars, received, replies, handshaken>>

\* Where the division traps, the thread dies inside the ioctl: the lock is not
\* released, and the connection stays open with nobody to read it.
CalcTraps(c) ==
  /\ pc[c] = "calcIoctl"
  /\ fd = "open" /\ sent[c][received[c]] = "calcTraps"
  /\ Goto(c, "dead")
  /\ UNCHANGED <<mainVars, kernVars, wireVars, received, replies, handshaken, pending>>

\* sendall; _loop sets handshaken after a HELLO_ACK and ends after a BYE_ACK.
Send(c) ==
  /\ pc[c] = "send"
  /\ peerOpen[c]
  /\ replies' = [replies EXCEPT ![c] = Append(@, pending[c])]
  /\ handshaken' = [handshaken EXCEPT ![c] = @ \/ pending[c] = "HELLO_ACK"]
  /\ pending' = [pending EXCEPT ![c] = NoReply]
  /\ Goto(c, IF pending[c] = "BYE_ACK" THEN "close" ELSE "recv")
  /\ UNCHANGED <<mainVars, kernVars, wireVars, received>>

\* sendall to a client that is gone raises, and run ends the thread.
SendFails(c) ==
  /\ pc[c] = "send"
  /\ ~peerOpen[c]
  /\ pending' = [pending EXCEPT ![c] = NoReply]
  /\ Goto(c, "close")
  /\ UNCHANGED <<mainVars, kernVars, wireVars, received, replies, handshaken>>

\* The finally of run.
CloseConn(c) ==
  /\ pc[c] = "close"
  /\ Goto(c, "closed")
  /\ UNCHANGED <<mainVars, kernVars, wireVars, received, replies, handshaken, pending>>

Handler(c) ==
  \/ Receive(c) \/ ReceiveEof(c) \/ TakeLock(c) \/ QueryIoctl(c) \/ CalcIoctl(c)
  \/ CalcTraps(c) \/ Send(c) \/ SendFails(c) \/ CloseConn(c)

----------------------------------------------------------------------------
(* The clients.                                                            *)

Connect(c) ==
  /\ pc[c] = "none"
  /\ path /\ listening
  /\ pc' = [pc EXCEPT ![c] = "backlog"]
  /\ peerOpen' = [peerOpen EXCEPT ![c] = TRUE]
  /\ UNCHANGED <<mainVars, kernVars, sent, received, replies, handshaken, pending>>

ClientSend(c) ==
  /\ peerOpen[c] /\ pc[c] # "closed"
  /\ Len(sent[c]) < MaxMessages[c]
  /\ \E m \in Sendable[c] : sent' = [sent EXCEPT ![c] = Append(@, m)]
  /\ UNCHANGED <<mainVars, kernVars, peerOpen, handVars>>

ClientClose(c) ==
  /\ peerOpen[c]
  /\ peerOpen' = [peerOpen EXCEPT ![c] = FALSE]
  /\ UNCHANGED <<mainVars, kernVars, sent, handVars>>

Next ==
  \/ Main \/ Trouble
  \/ \E c \in Client : Handler(c) \/ Connect(c) \/ ClientSend(c) \/ ClientClose(c)

Spec == Init /\ [][Next]_vars

\* Every thread is scheduled, and the lock is in the end won by each waiter.
FairSpec ==
  /\ Spec
  /\ WF_vars(Main)
  /\ \A c \in Client : WF_vars(Handler(c)) /\ SF_vars(TakeLock(c))

----------------------------------------------------------------------------
(* Properties.                                                             *)

\* Type correctness: the places of the threads and what the queues hold.
TypeOK ==
  /\ mainPc \in Startup \cup {"accept", "stopping"} \cup Ending
  /\ raised \in BOOLEAN /\ listening \in BOOLEAN /\ path \in BOOLEAN
  /\ fd \in {"none", "open", "closed"}
  /\ lock \in Client \cup {Nobody}
  /\ sent \in [Client -> Seq(Message)] /\ replies \in [Client -> Seq(Reply)]
  /\ received \in [Client -> Nat]
  /\ peerOpen \in [Client -> BOOLEAN]
  /\ pc \in [Client -> {"none", "backlog", "recv", "query", "calculate", "queryIoctl",
                        "calcIoctl", "dead", "send", "close", "closed"}]
  /\ handshaken \in [Client -> BOOLEAN]
  /\ pending \in [Client -> Reply \cup {NoReply}]

\* A handler has died in the kernel, and its lock with it.
Stuck == \E c \in Client : pc[c] = "dead"

\* The server has not begun to end.
Serving == mainPc \notin Ending

\* Each connection is a Session, whatever the others do and whenever the server
\* ends, of itself or because it is told to: its requests are answered in order,
\* once and fittingly, a device error is reported only once the accept loop has
\* been left, and no request is left unanswered on a connection that stays open,
\* but for those that need the device after a handler has died with its lock.
S(c) == INSTANCE Session WITH
  asked <- sent[c], answered <- replies[c], up <- Serving, over <- (pc[c] = "closed"),
  stuck <- Stuck
SessionsKept ==
  /\ \A c \in Client : S(c)!Init
  /\ [][\A c \in Client : S(c)!Step]_vars
  /\ \A c \in Client : S(c)!Live

\* One reply to each message received, but for the one in hand: a reply never
\* runs ahead of its request, and none is skipped.
OneReplyEach ==
  \A c \in Client :
    pc[c] \in {"none", "backlog", "recv"} => Len(replies[c]) = received[c]

\* The ioctl is made by the holder of the lock, and by nobody else.
Serialised ==
  \A c \in Client : pc[c] \in {"queryIoctl", "calcIoctl"} => lock = c

\* A server that is told to stop, or has left its loop by itself, does end, and
\* takes its socket file with it unless an exception ends it.
Stops == mainPc = "stopping" \/ ~Serving ~> mainPc = "exited" /\ (raised \/ ~path)

\* What the protocol says of a message that is not JSON: it is answered with
\* ERR_BAD_REQUEST.
MalformedAnswered ==
  \A c \in Client :
    /\ pc[c] = "closed" /\ peerOpen[c] /\ mainPc = "accept"
    /\ received[c] > 0 /\ sent[c][received[c]] = "malformed"
    => Len(replies[c]) = received[c] /\ replies[c][received[c]] = "ERR_BAD_REQUEST"
=============================================================================
