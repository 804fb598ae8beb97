--------------------------- MODULE Gateway_proofs ---------------------------
(***************************************************************************)
(* The server for any number of clients, which send what they like: the    *)
(* invariants, and the safety part of the refinement of Session.  Then the *)
(* two client programs on it, any number of each: they are never refused,  *)
(* and take each answer for the right request.                             *)
(***************************************************************************)
EXTENDS Gateway, SequenceTheorems, TLAPS

\* Where a handler has answered all it has received, and where it has not yet.
Waiting == {"none", "backlog", "recv"}
InHand == {"query", "calculate", "queryIoctl", "calcIoctl", "dead", "send"}

\* A reply never runs ahead of its request, and none is skipped.
CountOK(c) ==
  /\ received[c] <= Len(sent[c])
  /\ Len(replies[c]) <= received[c]
  /\ pc[c] \in Waiting => Len(replies[c]) = received[c]
  /\ pc[c] \in InHand => Len(replies[c]) + 1 = received[c]

\* The handshake is over once a HELLO has been answered.
GreetedOK(c) == handshaken[c] <=> S(c)!Greeted(Len(replies[c]) + 1)

\* What a handler does fits the request it has in hand.
HandOK(c) ==
  /\ pc[c] \in {"query", "queryIoctl"} => sent[c][received[c]] = "HELLO"
  /\ pc[c] \in {"calculate", "calcIoctl", "dead"} =>
       sent[c][received[c]] \in KernelCalc /\ handshaken[c]
  /\ pc[c] = "send" => pending[c] \in S(c)!Fitting(received[c])

\* The three, for every connection.
ConnOK == \A c \in Client : CountOK(c) /\ GreetedOK(c) /\ HandOK(c)

\* Clients come only once the server listens, and the device is open from then on
\* until the loop has been left, for whatever reason.
DeviceOK ==
  /\ listening => mainPc \in {"install", "accept"}
  /\ mainPc \in {"bind", "install", "accept", "stopping"} => fd = "open"
  /\ \A c \in Client :
       pc[c] # "none" => mainPc \in {"install", "accept", "stopping"} \cup Ending

\* Who is inside the with block, or died there, has the lock.
LockOK == \A c \in Client : pc[c] \in {"queryIoctl", "calcIoctl", "dead"} => lock = c

SInv == TypeOK /\ ConnOK /\ DeviceOK /\ LockOK

\* Clients that send whatever message they like, whenever they like.
Grow(c) ==
  /\ \E m \in Message : sent' = [sent EXCEPT ![c] = Append(@, m)]
  /\ UNCHANGED <<mainVars, kernVars, peerOpen, handVars>>
Moves ==
  \/ Main \/ Trouble
  \/ \E c \in Client : Handler(c) \/ Connect(c) \/ Grow(c) \/ ClientClose(c)

\* The clients of the specification are among them.
LEMMA NextMoves == Next => Moves
<1>1. ASSUME NEW c \in Client, ClientSend(c) PROVE Grow(c)
  BY <1>1, ServerAssumption DEF ClientSend, Grow
<1> QED BY <1>1 DEF Next, Moves

----------------------------------------------------------------------------
(* What a request may be answered.                                         *)

\* Messages that arrive later do not matter to a request, and a server that is
\* ending may give more answers, never fewer.
LEMMA FittingGrows ==
  ASSUME NEW c \in Client, NEW i \in Nat, Serving' => Serving,
         \A j \in 1 .. i : sent'[c][j] = sent[c][j], i # 0
  PROVE  /\ S(c)!Greeted(i)' <=> S(c)!Greeted(i)
         /\ S(c)!Fitting(i) \subseteq S(c)!Fitting(i)'
<1>1. S(c)!Greeted(i)' <=> S(c)!Greeted(i)
  BY DEF S!Greeted
<1>2. sent'[c][i] = sent[c][i]
  OBVIOUS
<1> QED BY <1>1, <1>2 DEF S!Fitting

\* A greeting is acknowledged.
LEMMA FittingHello ==
  ASSUME NEW c \in Client, NEW i \in Nat, sent[c][i] = "HELLO"
  PROVE  S(c)!Fitting(i) = {"HELLO_ACK"}
BY DEF S!Fitting, S!Calc, S!KernelCalc, S!RefusedCalc, S!Raising

\* A goodbye is acknowledged, and what the server does not know is refused.
LEMMA FittingOther ==
  ASSUME NEW c \in Client, NEW i \in Nat
  PROVE  /\ sent[c][i] = "BYE" => S(c)!Fitting(i) = {"BYE_ACK"}
         /\ sent[c][i] = "other" => S(c)!Fitting(i) = {"ERR_BAD_REQUEST"}
BY DEF S!Fitting, S!Calc, S!KernelCalc, S!RefusedCalc, S!Raising

\* Before a greeting a calculation is refused.
LEMMA FittingEarly ==
  ASSUME NEW c \in Client, NEW i \in Nat, sent[c][i] \in Calc, ~S(c)!Greeted(i)
  PROVE  S(c)!Fitting(i) = {"ERR_BAD_REQUEST"}
BY DEF S!Fitting, Calc, KernelCalc, RefusedCalc, Raising, S!Calc, S!KernelCalc, S!RefusedCalc,
       S!Raising

\* So is, after it, one that the server can tell is wrong.
LEMMA FittingRefused ==
  ASSUME NEW c \in Client, NEW i \in Nat, sent[c][i] \in RefusedCalc, S(c)!Greeted(i)
  PROVE  S(c)!Fitting(i) = {Refusal[sent[c][i]]}
BY DEF S!Fitting, RefusedCalc, Refusal, S!Calc, S!KernelCalc, S!RefusedCalc, S!Raising, S!Refusal

\* Only a greeting is acknowledged as one.
LEMMA FittingAck ==
  ASSUME NEW c \in Client, NEW i \in Nat, NEW r \in S(c)!Fitting(i)
  PROVE  r = "HELLO_ACK" <=> sent[c][i] = "HELLO"
BY DEF S!Fitting, S!Calc, S!KernelCalc, S!RefusedCalc, S!Raising, S!Refusal

\* What the device says fits, and that it is gone fits once the server ends.
LEMMA FittingDevice ==
  ASSUME NEW c \in Client, NEW i \in Nat, sent[c][i] \in KernelCalc, S(c)!Greeted(i),
         fd \in {"none", "open", "closed"}, Serving => fd = "open", Serving \in BOOLEAN
  PROVE  CalcReply(sent[c][i]) \in S(c)!Fitting(i)
<1>1. CASE sent[c][i] = "calcDivZero"
  <2>1. S(c)!Fitting(i) = {"ERR_DIV_ZERO"} \cup
                            IF Serving THEN {} ELSE {"ERR_DEVICE", "ERR_INTERNAL"}
    BY <1>1 DEF S!Fitting, S!Calc, S!KernelCalc, S!RefusedCalc, S!Raising
  <2> QED BY <1>1, <2>1 DEF CalcReply
<1>2. CASE sent[c][i] # "calcDivZero"
  <2>1. S(c)!Fitting(i) = {"CALC_ACK"} \cup
                            IF Serving THEN {} ELSE {"ERR_DEVICE", "ERR_INTERNAL"}
    BY <1>2 DEF KernelCalc, S!Fitting, S!Calc, S!KernelCalc, S!RefusedCalc, S!Raising
  <2> QED BY <1>2, <2>1 DEF CalcReply
<1> QED BY <1>1, <1>2

\* Every reply that fits is a reply of the protocol.
LEMMA FittingReply ==
  ASSUME NEW c \in Client, NEW i \in Nat
  PROVE  S(c)!Fitting(i) \subseteq Reply
BY DEF S!Fitting, Reply, S!Refusal, S!RefusedCalc

----------------------------------------------------------------------------
(* Each part is kept by every step.                                        *)

\* Appending to one sequence of several.
LEMMA Appended ==
  ASSUME NEW T, NEW f \in [Client -> Seq(T)], NEW c \in Client, NEW e \in T,
         NEW g, g = [f EXCEPT ![c] = Append(f[c], e)]
  PROVE  /\ g \in [Client -> Seq(T)]
         /\ \A d \in Client \ {c} : g[d] = f[d]
         /\ Len(g[c]) = Len(f[c]) + 1 /\ Len(f[c]) \in Nat
         /\ \A j \in 1 .. Len(f[c]) : g[c][j] = f[c][j]
         /\ g[c][Len(f[c]) + 1] = e
<1>1. f[c] \in Seq(T)
  OBVIOUS
<1>2. g[c] = Append(f[c], e)
  OBVIOUS
<1> QED BY <1>1, <1>2, AppendProperties

\* What Dispatch may do with a message.
LEMMA Dispatched ==
  ASSUME NEW c \in Client, NEW m, Dispatch(c, m)
  PROVE  \/ m = "HELLO" /\ Goto(c, "query") /\ UNCHANGED pending
         \/ m = "BYE" /\ Answer(c, "BYE_ACK")
         \/ m = "other" /\ Answer(c, "ERR_BAD_REQUEST")
         \/ m \in Calc /\ ~handshaken[c] /\ Answer(c, "ERR_BAD_REQUEST")
         \/ m \in RefusedCalc /\ handshaken[c] /\ Answer(c, Refusal[m])
         \/ m \in KernelCalc /\ handshaken[c] /\ Goto(c, "calculate") /\ UNCHANGED pending
         \/ Goto(c, "close") /\ UNCHANGED pending
BY DEF Dispatch, BeforeHello

\* Every step keeps the types.
LEMMA TypeStep == TypeOK /\ ConnOK /\ [Moves]_vars => TypeOK'
<1> SUFFICES ASSUME TypeOK, ConnOK, [Moves]_vars PROVE TypeOK'
  OBVIOUS
<1> USE DEF TypeOK
<1>1. CASE UnlinkStale \/ OpenKernel \/ Bind \/ Install
  BY <1>1 DEF UnlinkStale, OpenKernel, Bind, Install, Startup, kernVars, wireVars, handVars
<1>2. ASSUME NEW c \in Client, Accept(c) PROVE TypeOK'
  BY <1>2 DEF Accept, mainVars, kernVars, wireVars
<1>3. CASE Trouble
  <2>1. mainPc' \in {"exited", "closeKernel", "stopping"} /\ raised' \in BOOLEAN /\ path' \in BOOLEAN
    BY <1>3 DEF Trouble, StartupFails, AcceptFails, StartFails, Signal
  <2>2. /\ \E kept : CloseListener(kept)
        /\ UNCHANGED <<kernVars, wireVars, received, replies, handshaken, pending>>
    BY <1>3 DEF Trouble, StartupFails, AcceptFails, StartFails, Signal
  <2> QED BY <2>1, <2>2 DEF CloseListener, Ending, kernVars, wireVars
<1>4. CASE LeaveLoop \/ CloseKernel \/ ClearFd \/ Unlink
  BY <1>4 DEF LeaveLoop, CloseKernel, ClearFd, Unlink, RemovePath, Ending, kernVars, wireVars,
     handVars
<1>5. CASE Exit
  BY <1>5 DEF Exit, Ending, wireVars
<1>6. ASSUME NEW c \in Client, Receive(c) PROVE TypeOK'
  <2>1. /\ received' \in [Client -> Nat]
        /\ UNCHANGED <<mainVars, kernVars, wireVars, replies, handshaken>>
    BY <1>6 DEF Receive
  <2>2. \/ Goto(c, "query") /\ UNCHANGED pending
        \/ Goto(c, "calculate") /\ UNCHANGED pending
        \/ Goto(c, "close") /\ UNCHANGED pending
        \/ \E r \in Reply : Answer(c, r)
    BY <1>6, Dispatched DEF Receive, Reply, RefusedCalc, Refusal
  <2>3. \E l \in {"query", "calculate", "send", "close"} : pc' = [pc EXCEPT ![c] = l]
    BY <2>2 DEF Goto, Answer
  <2>4. pending' \in [Client -> Reply \cup {NoReply}]
    BY <2>2 DEF Answer
  <2>5. pc' \in [Client -> {"none", "backlog", "recv", "query", "calculate", "queryIoctl",
                           "calcIoctl", "dead", "send", "close", "closed"}]
    BY <2>3
  <2>6. UNCHANGED <<mainPc, raised, listening, path, fd, lock, sent, peerOpen, replies, handshaken>>
    BY <2>1 DEF mainVars, kernVars, wireVars
  <2> QED BY <2>1, <2>4, <2>5, <2>6
<1>7. ASSUME NEW c \in Client, ReceiveEof(c) PROVE TypeOK'
  BY <1>7 DEF ReceiveEof, Goto, mainVars, kernVars, wireVars
<1>8. ASSUME NEW c \in Client, TakeLock(c) PROVE TypeOK'
  BY <1>8 DEF TakeLock, Goto, mainVars, wireVars
<1>9. ASSUME NEW c \in Client, QueryIoctl(c) PROVE TypeOK'
  BY <1>9 DEF QueryIoctl, ReleaseLock, Answer, Goto, Reply, mainVars, wireVars
<1>10. ASSUME NEW c \in Client, CalcIoctl(c) PROVE TypeOK'
  <2>1. CalcReply(sent[c][received[c]]) \in Reply
    BY <1>10 DEF ConnOK, HandOK, CalcIoctl, CalcReply, Reply, KernelCalc
  <2> QED BY <1>10, <2>1 DEF CalcIoctl, ReleaseLock, Answer, Goto, mainVars, wireVars
<1>11. ASSUME NEW c \in Client, CalcTraps(c) PROVE TypeOK'
  BY <1>11 DEF CalcTraps, Goto, mainVars, kernVars, wireVars
<1>12. ASSUME NEW c \in Client, Send(c) PROVE TypeOK'
  <2>1. pending[c] \in Reply
    <3>1. received[c] \in Nat /\ pending[c] \in S(c)!Fitting(received[c])
      BY <1>12 DEF ConnOK, HandOK, Send
    <3> QED BY <3>1, FittingReply
  <2>2. replies' \in [Client -> Seq(Reply)]
    BY <1>12, <2>1, Appended DEF Send
  <2> QED BY <1>12, <2>2 DEF Send, Goto, mainVars, kernVars, wireVars
<1>13. ASSUME NEW c \in Client, SendFails(c) PROVE TypeOK'
  BY <1>13 DEF SendFails, Goto, mainVars, kernVars, wireVars
<1>14. ASSUME NEW c \in Client, CloseConn(c) PROVE TypeOK'
  BY <1>14 DEF CloseConn, Goto, mainVars, kernVars, wireVars
<1>15. ASSUME NEW c \in Client, Connect(c) PROVE TypeOK'
  BY <1>15 DEF Connect, mainVars, kernVars
<1>16. ASSUME NEW c \in Client, Grow(c) PROVE TypeOK'
  <2>1. PICK m \in Message : sent' = [sent EXCEPT ![c] = Append(@, m)]
    BY <1>16 DEF Grow
  <2>2. sent' \in [Client -> Seq(Message)]
    BY <2>1, Appended
  <2> QED BY <1>16, <2>2 DEF Grow, mainVars, kernVars, handVars
<1>17. ASSUME NEW c \in Client, ClientClose(c) PROVE TypeOK'
  BY <1>17 DEF ClientClose, mainVars, kernVars, handVars
<1>18. CASE UNCHANGED vars
  BY <1>18 DEF vars, mainVars, kernVars, wireVars, handVars
<1> QED
  BY <1>1, <1>2, <1>3, <1>4, <1>5, <1>6, <1>7, <1>8, <1>9, <1>10, <1>11, <1>12, <1>13, <1>14,
     <1>15, <1>16, <1>17, <1>18 DEF Moves, Main, Handler

\* The device is closed by the one thread that also leaves the accept loop.
LEMMA DeviceStep == TypeOK /\ DeviceOK /\ [Moves]_vars => DeviceOK'
<1> SUFFICES ASSUME TypeOK, DeviceOK, [Moves]_vars PROVE DeviceOK'
  OBVIOUS
<1> USE DEF TypeOK, DeviceOK
<1>1. CASE Main
  <2>1. ASSUME NEW c \in Client, Accept(c) PROVE DeviceOK'
    BY <2>1 DEF Accept, mainVars, kernVars
  <2> QED
    BY <1>1, <2>1 DEF Main, UnlinkStale, OpenKernel, Bind, Install, LeaveLoop, CloseKernel, ClearFd,
       Unlink, RemovePath, Exit, Ending, kernVars, handVars
<1>2. CASE Trouble
  BY <1>2 DEF Trouble, StartupFails, AcceptFails, StartFails, Signal, CloseListener, Ending, kernVars
<1>3. ASSUME NEW c \in Client, Handler(c) PROVE DeviceOK'
  <2>1. UNCHANGED <<mainVars, fd>>
    BY <1>3 DEF Handler, Receive, ReceiveEof, TakeLock, QueryIoctl, CalcIoctl, CalcTraps, Send,
       SendFails, CloseConn, kernVars
  <2>2. pc[c] # "none" /\ \A d \in Client \ {c} : pc'[d] = pc[d]
    BY <1>3, Dispatched DEF Handler, Receive, ReceiveEof, TakeLock, QueryIoctl, CalcIoctl,
       CalcTraps, Send, SendFails, CloseConn, Goto, Answer
  <2> QED BY <2>1, <2>2 DEF mainVars
<1>4. ASSUME NEW c \in Client, Connect(c) PROVE DeviceOK'
  BY <1>4 DEF Connect, mainVars, kernVars
<1>5. ASSUME NEW c \in Client, Grow(c) \/ ClientClose(c) PROVE DeviceOK'
  BY <1>5 DEF Grow, ClientClose, mainVars, kernVars, handVars
<1>6. CASE UNCHANGED vars
  BY <1>6 DEF vars, mainVars, kernVars, handVars
<1> QED BY <1>1, <1>2, <1>3, <1>4, <1>5, <1>6 DEF Moves

\* The lock is taken when it is free, and given back by who has it.
LEMMA LockStep == TypeOK /\ LockOK /\ [Moves]_vars => LockOK'
<1> SUFFICES ASSUME TypeOK, LockOK, [Moves]_vars PROVE LockOK'
  OBVIOUS
<1> USE ServerAssumption DEF TypeOK, LockOK
<1>1. CASE Main
  <2>1. ASSUME NEW c \in Client, Accept(c) PROVE LockOK'
    BY <2>1 DEF Accept, kernVars
  <2>2. CASE Exit
    BY <2>2 DEF Exit
  <2> QED
    BY <1>1, <2>1, <2>2 DEF Main, UnlinkStale, OpenKernel, Bind, Install, LeaveLoop, CloseKernel,
       ClearFd, Unlink, RemovePath, kernVars, handVars
<1>2. CASE Trouble
  BY <1>2 DEF Trouble, StartupFails, AcceptFails, StartFails, Signal, CloseListener, kernVars
<1>3. ASSUME NEW c \in Client, Receive(c) PROVE LockOK'
  <2>1. lock' = lock /\ pc[c] = "recv"
    BY <1>3 DEF Receive, kernVars
  <2>2. \E l \in {"query", "calculate", "send", "close"} : pc' = [pc EXCEPT ![c] = l]
    BY <1>3, Dispatched DEF Receive, Goto, Answer
  <2> QED BY <2>1, <2>2
<1>4. ASSUME NEW c \in Client, ReceiveEof(c) \/ CalcTraps(c) PROVE LockOK'
  BY <1>4 DEF ReceiveEof, CalcTraps, Goto, kernVars
<1>5. ASSUME NEW c \in Client, TakeLock(c) PROVE LockOK'
  BY <1>5 DEF TakeLock, LockFree, Goto
<1>6. ASSUME NEW c \in Client, QueryIoctl(c) \/ CalcIoctl(c) PROVE LockOK'
  <2>1. lock = c /\ pc' = [pc EXCEPT ![c] = "send"]
    BY <1>6 DEF QueryIoctl, CalcIoctl, Answer, Goto
  <2> QED BY <2>1
<1>7. ASSUME NEW c \in Client, Send(c) \/ SendFails(c) \/ CloseConn(c) PROVE LockOK'
  BY <1>7 DEF Send, SendFails, CloseConn, Goto, kernVars
<1>8. ASSUME NEW c \in Client, Connect(c) PROVE LockOK'
  BY <1>8 DEF Connect, kernVars
<1>9. ASSUME NEW c \in Client, Grow(c) \/ ClientClose(c) PROVE LockOK'
  BY <1>9 DEF Grow, ClientClose, kernVars, handVars
<1>10. CASE UNCHANGED vars
  BY <1>10 DEF vars, kernVars, handVars
<1> QED
  BY <1>1, <1>2, <1>3, <1>4, <1>5, <1>6, <1>7, <1>8, <1>9, <1>10 DEF Moves, Handler

\* What a step may do to the messages and the replies of a connection: nothing, ...
Quiet(c) ==
  /\ UNCHANGED <<received[c], replies[c], handshaken[c]>>
  /\ Len(sent[c]) <= Len(sent'[c])
  /\ \A j \in 1 .. Len(sent[c]) : sent'[c][j] = sent[c][j]
  /\ Serving' => Serving
Keeps(c) ==
  \/ pc'[c] = pc[c] /\ pending'[c] = pending[c]
  \/ pc'[c] = "closed"
  \/ pc[c] = "none" /\ pc'[c] = "backlog"
  \/ pc[c] = "backlog" /\ pc'[c] = "recv"

\* ... which is all that the main thread, the clients and the handlers of other
\* connections do.
LEMMA OthersQuiet ==
  ASSUME TypeOK, Main \/ Trouble \/ (\E c \in Client : Connect(c) \/ Grow(c) \/ ClientClose(c))
                 \/ UNCHANGED vars
  PROVE  \A c \in Client : Quiet(c) /\ Keeps(c)
<1> USE DEF TypeOK, Quiet, Keeps
<1>0. \A c \in Client : Len(sent[c]) \in Nat
  OBVIOUS
<1>1. CASE Main
  <2>1. ASSUME NEW c \in Client, Accept(c) PROVE \A d \in Client : Quiet(d) /\ Keeps(d)
    BY <1>0, <2>1 DEF Accept, Serving, mainVars, wireVars
  <2>2. CASE Exit
    BY <1>0, <2>2 DEF Exit, Serving, Ending, wireVars
  <2>3. CASE \/ UnlinkStale \/ OpenKernel \/ Bind \/ Install \/ LeaveLoop \/ CloseKernel \/ ClearFd
             \/ Unlink
    <3>1. UNCHANGED <<wireVars, handVars>> /\ (Serving' => Serving)
      BY <2>3 DEF UnlinkStale, OpenKernel, Bind, Install, LeaveLoop, CloseKernel, ClearFd, Unlink,
         Serving, Ending
    <3> QED BY <1>0, <3>1 DEF wireVars, handVars
  <2> QED BY <1>1, <2>1, <2>2, <2>3 DEF Main
<1>2. CASE Trouble
  <2>1. /\ \E kept : CloseListener(kept)
        /\ UNCHANGED <<wireVars, received, replies, handshaken, pending>>
        /\ mainPc \notin Ending
    BY <1>2 DEF Trouble, StartupFails, AcceptFails, StartFails, Signal, Startup, Ending
  <2> QED BY <1>0, <2>1 DEF CloseListener, Serving, wireVars
<1>3. ASSUME NEW c \in Client, Connect(c) PROVE \A d \in Client : Quiet(d) /\ Keeps(d)
  BY <1>0, <1>3 DEF Connect, Serving, mainVars
<1>4. ASSUME NEW c \in Client, Grow(c) PROVE \A d \in Client : Quiet(d) /\ Keeps(d)
  <2>1. PICK m \in Message : sent' = [sent EXCEPT ![c] = Append(@, m)]
    BY <1>4 DEF Grow
  <2>2. /\ \A d \in Client \ {c} : sent'[d] = sent[d]
        /\ Len(sent'[c]) = Len(sent[c]) + 1
        /\ \A j \in 1 .. Len(sent[c]) : sent'[c][j] = sent[c][j]
    BY <2>1, Appended
  <2>3. UNCHANGED <<mainVars, handVars>>
    BY <1>4 DEF Grow
  <2>4. \A d \in Client : /\ Len(sent[d]) <= Len(sent'[d])
                          /\ \A j \in 1 .. Len(sent[d]) : sent'[d][j] = sent[d][j]
    <3>1. ASSUME NEW d \in Client, d # c
          PROVE  /\ Len(sent[d]) <= Len(sent'[d])
                 /\ \A j \in 1 .. Len(sent[d]) : sent'[d][j] = sent[d][j]
      <4>1. sent'[d] = sent[d]
        BY <2>2, <3>1
      <4>2. Len(sent[d]) \in Nat
        BY <1>0
      <4> HIDE DEF TypeOK
      <4> QED BY <4>1, <4>2
    <3>2. Len(sent[c]) <= Len(sent'[c])
      BY <1>0, <2>2
    <3> QED BY <2>2, <3>1, <3>2
  <2> QED BY <2>3, <2>4 DEF Serving, mainVars, handVars
<1>5. ASSUME NEW c \in Client, ClientClose(c) PROVE \A d \in Client : Quiet(d) /\ Keeps(d)
  BY <1>0, <1>5 DEF ClientClose, Serving, mainVars, handVars
<1>6. CASE UNCHANGED vars
  BY <1>0, <1>6 DEF vars, Serving, mainVars, wireVars, handVars
<1> QED BY <1>1, <1>2, <1>3, <1>4, <1>5, <1>6

\* A handler leaves the other connections alone.
LEMMA HandlerQuiet ==
  ASSUME TypeOK, NEW c \in Client, Handler(c)
  PROVE  /\ \A d \in Client \ {c} : Quiet(d) /\ Keeps(d)
         /\ UNCHANGED <<mainVars, fd, wireVars>>
<1> USE DEF TypeOK, Quiet, Keeps
<1>1. \A d \in Client : Len(sent[d]) \in Nat
  OBVIOUS
<1>2. UNCHANGED <<mainVars, fd, wireVars>>
  BY DEF Handler, Receive, ReceiveEof, TakeLock, QueryIoctl, CalcIoctl, CalcTraps, Send,
     SendFails, CloseConn, kernVars
<1>3. \A d \in Client \ {c} : /\ UNCHANGED <<received[d], replies[d], handshaken[d]>>
                              /\ UNCHANGED <<pc[d], pending[d]>>
  <2>1. CASE Receive(c)
    BY <2>1, Dispatched DEF Receive, Goto, Answer
  <2>2. CASE Send(c)
    BY <2>2 DEF Send, Goto
  <2>3. CASE QueryIoctl(c) \/ CalcIoctl(c)
    BY <2>3 DEF QueryIoctl, CalcIoctl, Goto, Answer
  <2>4. CASE ReceiveEof(c) \/ TakeLock(c) \/ CalcTraps(c) \/ SendFails(c) \/ CloseConn(c)
    BY <2>4 DEF ReceiveEof, TakeLock, CalcTraps, SendFails, CloseConn, Goto
  <2> QED BY <2>1, <2>2, <2>3, <2>4 DEF Handler
<1> QED BY <1>1, <1>2, <1>3 DEF Serving, mainVars, wireVars

\* A connection that nothing happens to stays as it should be.
LEMMA ConnQuiet ==
  ASSUME TypeOK, NEW c \in Client, CountOK(c), GreetedOK(c), HandOK(c), Quiet(c), Keeps(c)
  PROVE  CountOK(c)' /\ GreetedOK(c)' /\ HandOK(c)'
<1> USE DEF TypeOK, Quiet
<1>1. /\ received[c] \in Nat /\ Len(replies[c]) \in Nat /\ Len(sent[c]) \in Nat
      /\ Len(sent'[c]) >= Len(sent[c])
  OBVIOUS
<1>2. CountOK(c)'
  <2>1. received'[c] <= Len(sent'[c]) /\ Len(replies'[c]) <= received'[c]
    BY <1>1 DEF CountOK
  <2> QED BY <2>1 DEF CountOK, Keeps, Waiting, InHand
<1>3. \A j \in 1 .. received[c] : sent'[c][j] = sent[c][j]
  BY <1>1 DEF CountOK
<1>4. GreetedOK(c)'
  <2>1. \A j \in 1 .. Len(replies[c]) : sent'[c][j] = sent[c][j]
    BY <1>1, <1>3 DEF CountOK
  <2>2. (Len(replies[c]) + 1) - 1 = Len(replies[c])
    BY <1>1
  <2> QED BY <2>1, <2>2 DEF GreetedOK, S!Greeted
<1>5. HandOK(c)'
  <2>1. CASE pc[c] \in InHand
    <3>1. received[c] # 0 /\ sent'[c][received[c]] = sent[c][received[c]]
      BY <1>1, <1>3, <2>1 DEF CountOK
    <3>2. S(c)!Fitting(received[c]) \subseteq S(c)!Fitting(received[c])'
      BY <1>1, <1>3, <3>1, FittingGrows
    <3> QED BY <2>1, <3>1, <3>2 DEF HandOK, Keeps, InHand, S!Fitting
  <2>2. CASE pc[c] \notin InHand
    BY <2>2 DEF HandOK, Keeps, InHand
  <2> QED BY <2>1, <2>2
<1> QED BY <1>2, <1>4, <1>5

\* A handler's step keeps its own connection as it should be.
LEMMA ConnReceive ==
  ASSUME TypeOK, NEW c \in Client, CountOK(c), GreetedOK(c), HandOK(c), Receive(c)
  PROVE  CountOK(c)' /\ GreetedOK(c)' /\ HandOK(c)'
<1> DEFINE i == received[c] + 1
           m == sent[c][i]
<1> USE DEF TypeOK
<1>1. /\ received[c] \in Nat /\ Len(replies[c]) = received[c] /\ Len(sent[c]) \in Nat
      /\ i <= Len(sent[c]) /\ i \in Nat
  BY DEF Receive, CountOK, Waiting
<1>2. /\ received'[c] = i /\ UNCHANGED <<sent, replies, handshaken, Serving>>
      /\ Dispatch(c, m)
  BY DEF Receive, Serving, wireVars, mainVars
<1>3. S(c)!Greeted(Len(replies[c]) + 1)' <=> handshaken[c]
  BY <1>1, <1>2 DEF GreetedOK, S!Greeted
<1>4. S(c)!Greeted(i) <=> handshaken[c]
  BY <1>1 DEF GreetedOK
<1>5. S(c)!Fitting(received[c])' = S(c)!Fitting(i)
  BY <1>2 DEF S!Fitting, S!Greeted
<1>6. \/ pc'[c] = "query" /\ m = "HELLO"
      \/ pc'[c] = "send" /\ pending'[c] \in S(c)!Fitting(i)
      \/ pc'[c] = "calculate" /\ m \in KernelCalc /\ handshaken[c]
      \/ pc'[c] = "close"
  <2> HIDE DEF i, m
  <2>1. \A r : Answer(c, r) => pc'[c] = "send" /\ pending'[c] = r
    BY DEF Answer, Goto
  <2>2. \A l : Goto(c, l) => pc'[c] = l
    BY DEF Goto
  <2>3. m = "BYE" => "BYE_ACK" \in S(c)!Fitting(i)
    BY <1>1, FittingOther DEF m
  <2>4. m = "other" => "ERR_BAD_REQUEST" \in S(c)!Fitting(i)
    BY <1>1, FittingOther DEF m
  <2>5. m \in Calc /\ ~handshaken[c] => "ERR_BAD_REQUEST" \in S(c)!Fitting(i)
    BY <1>1, <1>4, FittingEarly DEF m
  <2>6. m \in RefusedCalc /\ handshaken[c] => Refusal[m] \in S(c)!Fitting(i)
    BY <1>1, <1>4, FittingRefused DEF m
  <2> QED BY <1>2, <2>1, <2>2, <2>3, <2>4, <2>5, <2>6, Dispatched
<1>7. CountOK(c)'
  BY <1>1, <1>2, <1>6 DEF CountOK, Waiting, InHand
<1>8. GreetedOK(c)'
  BY <1>1, <1>2, <1>3 DEF GreetedOK
<1>9. HandOK(c)'
  BY <1>2, <1>5, <1>6 DEF HandOK
<1> QED BY <1>7, <1>8, <1>9

\* A step between receiving a request and sending its answer.
LEMMA ConnInside ==
  ASSUME TypeOK, DeviceOK, NEW c \in Client, CountOK(c), GreetedOK(c), HandOK(c),
         TakeLock(c) \/ QueryIoctl(c) \/ CalcIoctl(c) \/ CalcTraps(c)
  PROVE  CountOK(c)' /\ GreetedOK(c)' /\ HandOK(c)'
<1> USE DEF TypeOK
<1>1. /\ UNCHANGED <<sent, replies, received, handshaken, Serving>>
      /\ pc[c] \in InHand /\ pc'[c] \in InHand
  BY DEF TakeLock, QueryIoctl, CalcIoctl, CalcTraps, Answer, Goto, InHand, Serving, wireVars,
     mainVars
<1>2. received[c] \in Nat /\ Len(replies[c]) + 1 = received[c]
  BY <1>1 DEF CountOK
<1>3. S(c)!Fitting(received[c])' = S(c)!Fitting(received[c])
  BY <1>1 DEF S!Fitting, S!Greeted
<1>4. CountOK(c)'
  BY <1>1 DEF CountOK, Waiting, InHand
<1>5. GreetedOK(c)'
  BY <1>1 DEF GreetedOK, S!Greeted
<1>6. HandOK(c)'
  <2>1. CASE TakeLock(c)
    BY <1>1, <2>1 DEF TakeLock, Goto, HandOK
  <2>2. CASE QueryIoctl(c)
    <3>1. "HELLO_ACK" \in S(c)!Fitting(received[c])
      BY <1>2, <2>2, FittingHello DEF QueryIoctl, HandOK
    <3>2. pc'[c] = "send" /\ pending'[c] = "HELLO_ACK"
      BY <2>2 DEF QueryIoctl, Answer, Goto
    <3> QED BY <1>1, <1>3, <3>1, <3>2 DEF HandOK
  <2>3. CASE CalcIoctl(c)
    <3>1. sent[c][received[c]] \in KernelCalc /\ handshaken[c]
      BY <2>3 DEF CalcIoctl, HandOK
    <3>2. Serving => fd = "open"
      BY <2>3 DEF CalcIoctl, DeviceOK, Serving
    <3>3. S(c)!Greeted(received[c])
      BY <1>2, <3>1 DEF GreetedOK
    <3>4. CalcReply(sent[c][received[c]]) \in S(c)!Fitting(received[c])
      <4>1. Serving \in BOOLEAN
        BY DEF Serving
      <4> QED BY <1>2, <3>1, <3>2, <3>3, <4>1, FittingDevice
    <3>5. pc'[c] = "send" /\ pending'[c] = CalcReply(sent[c][received[c]])
      BY <2>3 DEF CalcIoctl, Answer, Goto
    <3> QED BY <1>1, <1>3, <3>4, <3>5 DEF HandOK
  <2>4. CASE CalcTraps(c)
    BY <1>1, <2>4 DEF CalcTraps, Goto, HandOK
  <2> QED BY <2>1, <2>2, <2>3, <2>4
<1> QED BY <1>4, <1>5, <1>6

\* What is sent is the answer to the request in hand.
LEMMA ConnSend ==
  ASSUME TypeOK, NEW c \in Client, CountOK(c), GreetedOK(c), HandOK(c), Send(c)
  PROVE  CountOK(c)' /\ GreetedOK(c)' /\ HandOK(c)'
<1> USE DEF TypeOK
<1>1. /\ received[c] \in Nat /\ Len(replies[c]) + 1 = received[c] /\ Len(replies[c]) \in Nat
      /\ pending[c] \in S(c)!Fitting(received[c])
  BY DEF Send, CountOK, HandOK, InHand
<1>2. pending[c] \in Reply
  BY <1>1, FittingReply
<1>3. Len(replies'[c]) = Len(replies[c]) + 1
  <2>1. replies' = [replies EXCEPT ![c] = Append(replies[c], pending[c])]
    BY DEF Send
  <2> QED BY <1>2, <2>1, Appended
<1>4. /\ UNCHANGED <<sent, received, Serving>>
      /\ pc'[c] \in {"close", "recv"}
      /\ handshaken'[c] = (handshaken[c] \/ pending[c] = "HELLO_ACK")
  BY DEF Send, Goto, Serving, wireVars, mainVars
<1>5. CountOK(c)'
  BY <1>1, <1>3, <1>4 DEF CountOK, Waiting, InHand
<1>6. GreetedOK(c)'
  <2> DEFINE n == received[c]
  <2>1. pending[c] = "HELLO_ACK" <=> sent[c][n] = "HELLO"
    BY <1>1, FittingAck
  <2>2. handshaken[c] <=> \E j \in 1 .. n - 1 : sent[c][j] = "HELLO"
    BY <1>1 DEF GreetedOK, S!Greeted
  <2>3. 1 .. (n + 1) - 1 = (1 .. n - 1) \cup {n}
    BY <1>1
  <2>4. Len(replies'[c]) + 1 = n + 1
    BY <1>1, <1>3
  <2>5. S(c)!Greeted(Len(replies[c]) + 1)'
          <=> \E j \in (1 .. n - 1) \cup {n} : sent[c][j] = "HELLO"
    BY <1>4, <2>3, <2>4 DEF S!Greeted
  <2> HIDE DEF n
  <2> QED BY <1>4, <2>1, <2>2, <2>5 DEF GreetedOK
<1>7. HandOK(c)'
  BY <1>4 DEF HandOK
<1> QED BY <1>5, <1>6, <1>7

\* A connection that ends, or is about to, has nothing more to keep.
LEMMA ConnEnds ==
  ASSUME TypeOK, NEW c \in Client, CountOK(c), GreetedOK(c), HandOK(c),
         ReceiveEof(c) \/ SendFails(c) \/ CloseConn(c)
  PROVE  CountOK(c)' /\ GreetedOK(c)' /\ HandOK(c)'
<1> USE DEF TypeOK
<1>1. /\ UNCHANGED <<sent, replies, received, handshaken>>
      /\ pc'[c] \in {"close", "closed"}
  BY DEF ReceiveEof, SendFails, CloseConn, Goto, wireVars
<1>2. CountOK(c)' /\ HandOK(c)'
  BY <1>1 DEF CountOK, HandOK, Waiting, InHand
<1>3. GreetedOK(c)'
  BY <1>1 DEF GreetedOK, S!Greeted
<1> QED BY <1>2, <1>3

\* All connections are as they should be after every step.
LEMMA ConnStep == TypeOK /\ DeviceOK /\ ConnOK /\ [Moves]_vars => ConnOK'
<1> SUFFICES ASSUME TypeOK, DeviceOK, ConnOK, [Moves]_vars PROVE ConnOK'
  OBVIOUS
<1>1. CASE Main \/ Trouble \/ (\E c \in Client : Connect(c) \/ Grow(c) \/ ClientClose(c))
           \/ UNCHANGED vars
  BY <1>1, OthersQuiet, ConnQuiet DEF ConnOK
<1>2. ASSUME NEW c \in Client, Handler(c) PROVE ConnOK'
  <2>1. ASSUME NEW d \in Client \ {c} PROVE CountOK(d)' /\ GreetedOK(d)' /\ HandOK(d)'
    BY <1>2, <2>1, HandlerQuiet, ConnQuiet DEF ConnOK
  <2>2. CountOK(c)' /\ GreetedOK(c)' /\ HandOK(c)'
    BY <1>2, ConnReceive, ConnInside, ConnSend, ConnEnds DEF ConnOK, Handler
  <2> QED BY <2>1, <2>2 DEF ConnOK
<1> QED BY <1>1, <1>2 DEF Moves

----------------------------------------------------------------------------
(* The refinement of Session.                                              *)

\* What is seen of a connection by its client.
Over(c) == pc[c] = "closed"
SameTalk(c) == UNCHANGED <<sent[c], replies[c], Serving>>

\* The steps of a session, one by one.
LEMMA SessionMoves ==
  ASSUME TypeOK, NEW c \in Client,
         \/ SameTalk(c) /\ (Over(c)' <=> Over(c))
         \/ SameTalk(c) /\ ~Over(c) /\ Over(c)'
         \/ /\ \E m \in Message : sent'[c] = Append(sent[c], m)
            /\ UNCHANGED <<replies[c], Serving>> /\ (Over(c)' <=> Over(c))
         \/ /\ Serving /\ ~Serving'
            /\ UNCHANGED <<sent[c], replies[c]>> /\ (Over(c) => Over(c)')
         \/ /\ ~Over(c) /\ ~Over(c)' /\ UNCHANGED <<sent[c], Serving>>
            /\ Len(replies[c]) < Len(sent[c])
            /\ \E r \in S(c)!Fitting(Len(replies[c]) + 1) :
                 replies'[c] = Append(replies[c], r)
  PROVE  S(c)!Step
<1> USE DEF Over, SameTalk
<1>1. CASE SameTalk(c) /\ (Over(c)' <=> Over(c))
  BY <1>1 DEF S!Step, S!vars
<1>2. CASE SameTalk(c) /\ ~Over(c) /\ Over(c)'
  BY <1>2 DEF S!Step, S!Next, S!HangUp
<1>3. CASE /\ \E m \in Message : sent'[c] = Append(sent[c], m)
           /\ UNCHANGED <<replies[c], Serving>> /\ (Over(c)' <=> Over(c))
  <2>1. S(c)!Message = Message
    BY DEF Message, Calc, KernelCalc, RefusedCalc, Raising, S!Message, S!Calc, S!KernelCalc,
       S!RefusedCalc, S!Raising
  <2> QED BY <1>3, <2>1 DEF S!Step, S!Next, S!Ask
<1>4. CASE /\ Serving /\ ~Serving'
           /\ UNCHANGED <<sent[c], replies[c]>> /\ (Over(c) => Over(c)')
  BY <1>4 DEF Serving, S!Step, S!Next, S!Stop
<1>5. CASE /\ ~Over(c) /\ ~Over(c)' /\ UNCHANGED <<sent[c], Serving>>
           /\ Len(replies[c]) < Len(sent[c])
           /\ \E r \in S(c)!Fitting(Len(replies[c]) + 1) :
                replies'[c] = Append(replies[c], r)
  BY <1>5 DEF S!Step, S!Next, S!Answer
<1> QED BY <1>1, <1>2, <1>3, <1>4, <1>5

\* Every step of the server and its clients is one of each session, or none.
LEMMA SessionStep ==
  ASSUME TypeOK, ConnOK, TypeOK', [Moves]_vars, NEW c \in Client
  PROVE  S(c)!Step
<1> USE DEF TypeOK, Over, SameTalk
<1>1. CASE \/ UnlinkStale \/ OpenKernel \/ Bind \/ Install \/ CloseKernel \/ ClearFd \/ Unlink
           \/ UNCHANGED vars
  <2>1. UNCHANGED <<sent, replies, pc>>
    BY <1>1 DEF UnlinkStale, OpenKernel, Bind, Install, CloseKernel, ClearFd, Unlink, vars,
       wireVars, handVars
  <2>2. Serving' = Serving
    BY <1>1 DEF UnlinkStale, OpenKernel, Bind, Install, CloseKernel, ClearFd, Unlink, vars,
       mainVars, Serving, Ending
  <2> QED BY <2>1, <2>2, SessionMoves
<1>2. ASSUME NEW d \in Client, Accept(d) PROVE S(c)!Step
  <2>1. SameTalk(c) /\ (Over(c)' <=> Over(c))
    BY <1>2 DEF Accept, Serving, mainVars, wireVars
  <2> QED BY <2>1, SessionMoves
<1>3. CASE Trouble \/ LeaveLoop
  <2>1. /\ (\E kept : CloseListener(kept)) \/ pc' = pc
        /\ UNCHANGED <<sent, replies>>
    BY <1>3 DEF Trouble, StartupFails, AcceptFails, StartFails, Signal, LeaveLoop, wireVars, handVars
  <2>2. Serving
    BY <1>3 DEF Trouble, StartupFails, AcceptFails, StartFails, Signal, LeaveLoop, Startup, Ending,
       Serving
  <2>3. UNCHANGED <<sent[c], replies[c]>> /\ (Over(c) => Over(c)')
    BY <2>1 DEF CloseListener
  <2>4. CASE Serving'
    <3>1. Serving' = Serving
      BY <2>2, <2>4 DEF Serving
    <3> QED BY <2>3, <3>1, SessionMoves
  <2>5. CASE ~Serving'
    BY <2>2, <2>3, <2>5, SessionMoves
  <2> QED BY <2>4, <2>5
<1>4. CASE Exit
  <2>1. SameTalk(c) /\ (Over(c) => Over(c)')
    BY <1>4 DEF Exit, Serving, Ending, wireVars
  <2> QED BY <2>1, SessionMoves
<1>5. ASSUME NEW d \in Client, Handler(d) PROVE S(c)!Step
  <2>1. UNCHANGED <<sent, Serving>>
    BY <1>5, HandlerQuiet DEF Serving, mainVars, wireVars
  <2>2. CASE c # d
    <3>1. SameTalk(c) /\ (Over(c) => Over(c)')
      <4>1. Quiet(c) /\ Keeps(c)
        BY <1>5, <2>2, HandlerQuiet
      <4> QED BY <2>1, <4>1 DEF Quiet, Keeps
    <3> QED BY <3>1, SessionMoves
  <2>3. CASE c = d /\ Send(c)
    <3>1. replies'[c] = Append(replies[c], pending[c]) /\ ~Over(c) /\ ~Over(c)'
      BY <2>3 DEF Send, Goto
    <3>2. CountOK(c) /\ HandOK(c) /\ pc[c] = "send"
      BY <2>3 DEF ConnOK, Send
    <3>3. /\ Len(replies[c]) + 1 = received[c] /\ Len(replies[c]) < Len(sent[c])
          /\ pending[c] \in S(c)!Fitting(received[c])
      BY <3>2 DEF CountOK, HandOK, InHand
    <3> QED BY <2>1, <3>1, <3>3, SessionMoves
  <2>4. CASE c = d /\ ~Send(c)
    <3>1. replies' = replies /\ ~Over(c)
      BY <1>5, <2>4 DEF Handler, Receive, ReceiveEof, TakeLock, QueryIoctl, CalcIoctl, CalcTraps,
         SendFails, CloseConn
    <3> QED BY <2>1, <3>1, SessionMoves
  <2> QED BY <2>2, <2>3, <2>4
<1>6. ASSUME NEW d \in Client, Connect(d) PROVE S(c)!Step
  <2>1. SameTalk(c) /\ (Over(c)' <=> Over(c))
    BY <1>6 DEF Connect, Serving, mainVars
  <2> QED BY <2>1, SessionMoves
<1>7. ASSUME NEW d \in Client, Grow(d) PROVE S(c)!Step
  <2>1. PICK m \in Message : sent' = [sent EXCEPT ![d] = Append(@, m)]
    BY <1>7 DEF Grow
  <2>2. sent'[c] = sent[c] \/ sent'[c] = Append(sent[c], m)
    BY <2>1
  <2>3. UNCHANGED <<Serving, replies, pc>>
    BY <1>7 DEF Grow, Serving, mainVars, handVars
  <2> QED BY <2>2, <2>3, SessionMoves
<1>8. ASSUME NEW d \in Client, ClientClose(d) PROVE S(c)!Step
  <2>1. UNCHANGED <<sent, replies, Serving, pc>>
    BY <1>8 DEF ClientClose, Serving, mainVars, handVars
  <2> QED BY <2>1, SessionMoves
<1> QED BY <1>1, <1>2, <1>3, <1>4, <1>5, <1>6, <1>7, <1>8 DEF Moves, Main

----------------------------------------------------------------------------
(* The theorems.                                                           *)

\* The invariant holds at the start ...
LEMMA SInvInit == Init => SInv
<1> SUFFICES ASSUME Init PROVE SInv
  OBVIOUS
<1>1. TypeOK
  <2>1. <<>> \in Seq(Message) /\ <<>> \in Seq(Reply)
    OBVIOUS
  <2>2. sent \in [Client -> Seq(Message)] /\ replies \in [Client -> Seq(Reply)]
    BY <2>1 DEF Init
  <2> QED BY <2>2 DEF Init, TypeOK, Startup, NoReply
<1>2. ASSUME NEW c \in Client PROVE CountOK(c) /\ GreetedOK(c) /\ HandOK(c)
  <2>1. Len(sent[c]) = 0 /\ Len(replies[c]) = 0 /\ received[c] = 0 /\ pc[c] = "none"
    BY DEF Init
  <2>2. ~handshaken[c] /\ (Len(replies[c]) + 1) - 1 = 0
    BY <2>1 DEF Init
  <2>3. ~ S(c)!Greeted(Len(replies[c]) + 1)
    BY <2>2 DEF S!Greeted
  <2> QED BY <2>1, <2>2, <2>3 DEF CountOK, GreetedOK, HandOK, InHand
<1>3. DeviceOK /\ LockOK
  BY DEF Init, DeviceOK, LockOK, Ending
<1> QED BY <1>1, <1>2, <1>3 DEF SInv, ConnOK

\* ... and after every step.
LEMMA SInvStep == SInv /\ [Moves]_vars => SInv'
BY TypeStep, ConnStep, DeviceStep, LockStep DEF SInv

\* The invariant holds in every reachable state, with any number of clients.
THEOREM ServerInvariance == Spec => []SInv
<1>1. [Next]_vars => [Moves]_vars
  BY NextMoves
<1> QED BY <1>1, SInvInit, SInvStep, PTL DEF Spec

\* Type correctness of the server.
THEOREM TypeCorrect == Spec => []TypeOK
<1>1. SInv => TypeOK
  BY DEF SInv
<1> QED BY <1>1, ServerInvariance, PTL

\* A handler answers each request once before it takes the next.
THEOREM RepliesCounted == Spec => []OneReplyEach
<1>1. SInv => OneReplyEach
  BY DEF SInv, ConnOK, CountOK, OneReplyEach, Waiting
<1> QED BY <1>1, ServerInvariance, PTL

\* One handler at a time is in an ioctl.
THEOREM DeviceSerialised == Spec => []Serialised
<1>1. SInv => Serialised
  BY DEF SInv, LockOK, Serialised
<1> QED BY <1>1, ServerInvariance, PTL

\* The safety part of SessionsKept.
SessionsSafe ==
  /\ \A c \in Client : S(c)!Init
  /\ [][\A c \in Client : S(c)!Step]_vars

\* Each connection implements Session, whatever all the clients send.
THEOREM SessionsImplemented == Spec => SessionsSafe
<1>1. Init => \A c \in Client : S(c)!Init
  BY DEF Init, Serving, Ending, S!Init
<1>2. SInv /\ SInv' /\ [Next]_vars => \A c \in Client : S(c)!Step
  BY NextMoves, SessionStep DEF SInv
<1> QED BY <1>1, <1>2, ServerInvariance, PTL DEF Spec, SessionsSafe

----------------------------------------------------------------------------
(* The client programs.                                                    *)

\* Every reply fits the request at its place in the stream.
RepliesFit(c) == \A i \in 1 .. Len(replies[c]) : replies[c][i] \in S(c)!Fitting(i)

\* Each client keeps to its script: a greeting first, one request at a time.
TalkOK(c) ==
  /\ \A i \in 1 .. Len(sent[c]) :
       /\ sent[c][i] \in {"HELLO", "BYE"} \cup KernelCalc
       /\ sent[c][i] \in KernelCalc => i > 1 /\ sent[c][1] = "HELLO"
  /\ cPc[c] \in {"start", "hello"} => Len(sent[c]) = 0 /\ got[c] = 0
  /\ cPc[c] = "helloWait" => Len(sent[c]) = 1 /\ got[c] = 0 /\ sent[c][1] = "HELLO"
  /\ cPc[c] = "menu" => Len(sent[c]) = got[c] /\ got[c] >= 1 /\ sent[c][1] = "HELLO"
  /\ cPc[c] = "calcWait" => Len(sent[c]) = got[c] + 1 /\ got[c] >= 1 /\ sent[c][1] = "HELLO"

GInv == SInv /\ GTypeOK /\ \A c \in Client : RepliesFit(c) /\ TalkOK(c)

----------------------------------------------------------------------------
(* The programs are clients that the server is proved about.               *)

\* Every step of the composition is one of the server and its clients, or none.
LEMMA GatewayMoves == TypeOK /\ [GNext]_gvars => [Moves]_vars
<1> SUFFICES ASSUME TypeOK, [GNext]_gvars PROVE [Moves]_vars
  OBVIOUS
<1>1. ASSUME NEW c \in Client, NEW m \in Message, Put(c, m) PROVE Moves
  BY <1>1 DEF Put, Grow, Moves
<1>2. ASSUME NEW c \in Client, ShutSocket(c) PROVE [Moves]_vars
  <2>1. CASE peerOpen[c]
    BY <1>2, <2>1 DEF ShutSocket, ClientClose, Moves
  <2>2. CASE ~peerOpen[c]
    <3>1. peerOpen' = peerOpen
      BY <1>2, <2>2 DEF ShutSocket, TypeOK
    <3> QED BY <1>2, <3>1 DEF ShutSocket, vars, wireVars
  <2> QED BY <2>1, <2>2
<1>3. ASSUME NEW c \in Client, ClientStep(c) PROVE [Moves]_vars
  <2>1. CASE Greet(c) \/ Goodbye(c)
    BY <1>1, <2>1 DEF Greet, Goodbye, Message
  <2>2. CASE Request(c)
    BY <1>1, <2>2 DEF Request, Message, Calc
  <2>3. CASE Connects(c)
    BY <2>3 DEF Connects, Moves
  <2>4. CASE \/ Greeted(c) \/ GreetingFails(c) \/ ShowAnswer(c) \/ AnswerLost(c) \/ Drain(c)
             \/ WriteFails(c) \/ ConnectFails(c) \/ Quit(c) \/ Interrupt(c)
    <3>1. UNCHANGED vars \/ ShutSocket(c)
      <4>1. CASE Greeted(c) \/ ShowAnswer(c) \/ AnswerLost(c) \/ Quit(c)
        BY <4>1 DEF Greeted, ShowAnswer, AnswerLost, Quit, Keep
      <4>2. CASE Drain(c) \/ ConnectFails(c)
        BY <4>2 DEF Drain, ConnectFails, Leave
      <4>3. CASE GreetingFails(c) \/ Interrupt(c)
        BY <4>3 DEF GreetingFails, Interrupt, Keep, Leave
      <4>4. CASE WriteFails(c)
        BY <4>4 DEF WriteFails, At, Keep, Leave
      <4> QED BY <2>4, <4>1, <4>2, <4>3, <4>4
    <3> QED BY <1>2, <3>1
  <2> QED BY <1>3, <2>1, <2>2, <2>3, <2>4 DEF ClientStep, Proceed
<1> QED BY <1>3 DEF GNext, Moves, gvars

\* A reply that is sent fits, and goes on fitting.
LEMMA FitStep ==
  ASSUME SInv, [Moves]_vars, \A c \in Client : RepliesFit(c)
  PROVE  \A c \in Client : RepliesFit(c)'
<1> USE DEF SInv
<1>1. ASSUME NEW c \in Client, Quiet(c) PROVE RepliesFit(c)'
  <2>1. /\ Len(replies[c]) \in Nat /\ Len(sent[c]) \in Nat /\ replies'[c] = replies[c]
        /\ Len(replies[c]) <= Len(sent[c])
    BY <1>1 DEF Quiet, ConnOK, CountOK, TypeOK
  <2>2. ASSUME NEW i \in 1 .. Len(replies[c])
        PROVE  S(c)!Fitting(i) \subseteq S(c)!Fitting(i)'
    <3>1. i \in Nat /\ i # 0 /\ \A j \in 1 .. i : sent'[c][j] = sent[c][j]
      BY <1>1, <2>1 DEF Quiet
    <3>2. Serving' => Serving
      BY <1>1 DEF Quiet
    <3> QED BY <3>1, <3>2, FittingGrows
  <2> QED BY <2>1, <2>2 DEF RepliesFit
<1>2. ASSUME NEW c \in Client, Handler(c) PROVE \A d \in Client : RepliesFit(d)'
  <2>1. UNCHANGED <<sent, Serving>> /\ \A d \in Client \ {c} : Quiet(d)
    BY <1>2, HandlerQuiet DEF Serving, mainVars, wireVars
  <2>2. \A i : S(c)!Fitting(i)' = S(c)!Fitting(i)
    BY <2>1 DEF S!Fitting, S!Greeted
  <2>3. CASE Send(c)
    <3>1. pc[c] = "send" /\ CountOK(c) /\ HandOK(c)
      BY <2>3 DEF Send, ConnOK
    <3>2. received[c] = Len(replies[c]) + 1 /\ pending[c] \in S(c)!Fitting(received[c])
      BY <3>1 DEF CountOK, HandOK, InHand, TypeOK
    <3>3. pending[c] \in Reply
      BY <3>2, FittingReply DEF TypeOK
    <3>4. replies' = [replies EXCEPT ![c] = Append(replies[c], pending[c])]
      BY <2>3 DEF Send
    <3>5. /\ Len(replies'[c]) = Len(replies[c]) + 1 /\ Len(replies[c]) \in Nat
          /\ \A j \in 1 .. Len(replies[c]) : replies'[c][j] = replies[c][j]
          /\ replies'[c][Len(replies[c]) + 1] = pending[c]
      BY <3>3, <3>4, Appended DEF TypeOK
    <3>6. ASSUME NEW i \in 1 .. Len(replies'[c]) PROVE replies'[c][i] \in S(c)!Fitting(i)
      <4>1. CASE i <= Len(replies[c])
        BY <3>5, <4>1 DEF RepliesFit
      <4>2. CASE i = Len(replies[c]) + 1
        BY <3>2, <3>5, <4>2
      <4> QED BY <3>5, <4>1, <4>2
    <3>7. RepliesFit(c)'
      BY <2>2, <3>6 DEF RepliesFit
    <3> QED BY <1>1, <2>1, <3>7
  <2>4. CASE ~Send(c)
    <3>1. replies' = replies
      BY <1>2, <2>4 DEF Handler, Receive, ReceiveEof, TakeLock, QueryIoctl, CalcIoctl, CalcTraps,
         SendFails, CloseConn
    <3>2. RepliesFit(c)'
      BY <2>2, <3>1 DEF RepliesFit
    <3> QED BY <1>1, <2>1, <3>2
  <2> QED BY <2>3, <2>4
<1>3. CASE ~ \E c \in Client : Handler(c)
  BY <1>1, <1>3, OthersQuiet DEF Moves
<1> QED BY <1>2, <1>3

\* The script of a client, as far as its messages are concerned: it connects, it
\* sends, it takes an answer, or it gives up.
Sends(c, m) == sent'[c] = Append(sent[c], m) /\ got'[c] = got[c]
Goes(c, from, to) == cPc[c] = from /\ cPc'[c] = to
Script(c) ==
  \/ UNCHANGED <<sent[c], got[c]>> /\ Goes(c, "start", "hello")
  \/ Sends(c, "HELLO") /\ Goes(c, "hello", "helloWait")
  \/ (\E m \in KernelCalc : Sends(c, m)) /\ Goes(c, "menu", "calcWait")
  \/ Sends(c, "BYE") /\ Goes(c, "bye", "byeWait")
  \/ /\ sent'[c] = sent[c] /\ got'[c] = got[c] + 1 /\ got[c] < Len(replies[c])
     /\ Goes(c, "helloWait", "menu") \/ Goes(c, "calcWait", "menu")
  \/ /\ sent'[c] = sent[c] /\ cPc'[c] \in {"bye", "exited"}
     /\ got'[c] = got[c] \/ (got'[c] = got[c] + 1 /\ got[c] < Len(replies[c]))

\* A client keeps to its script, and leaves the others alone.
LEMMA ClientMoves ==
  ASSUME TypeOK, GTypeOK, NEW c \in Client, ClientStep(c)
  PROVE  /\ Script(c)
         /\ \A d \in Client \ {c} : UNCHANGED <<sent[d], cPc[d], got[d]>>
         /\ cPc' \in [Client -> {"start", "hello", "helloWait", "menu", "calcWait", "bye",
                                 "byeWait", "exited"}]
         /\ status' \in [Client -> {"0", "1", "SIGPIPE", "SIGINT"}]
         /\ UNCHANGED replies /\ got' \in [Client -> Nat]
<1> USE DEF Script, Sends, Goes, At, Move, Read, Keep, GTypeOK
<1>1. CASE Connects(c)
  BY <1>1 DEF Connects, Connect
<1>2. CASE Greet(c) \/ Request(c) \/ Goodbye(c)
  BY <1>2 DEF Greet, Request, Goodbye, Put, handVars, TypeOK
<1>3. CASE Greeted(c) \/ ShowAnswer(c)
  <2>1. UNCHANGED <<sent, replies>> /\ got' = [got EXCEPT ![c] = @ + 1] /\ got[c] < Len(replies[c])
    BY <1>3 DEF Greeted, ShowAnswer, Taken, Arrived, vars, wireVars, handVars
  <2>2. /\ cPc[c] \in {"helloWait", "calcWait"} /\ cPc' = [cPc EXCEPT ![c] = "menu"]
        /\ status' = [status EXCEPT ![c] = "0"]
    BY <1>3 DEF Greeted, ShowAnswer
  <2> QED BY <2>1, <2>2
<1>4. CASE GreetingFails(c) \/ Drain(c) \/ ConnectFails(c)
  <2>1. UNCHANGED <<sent, replies>>
    BY <1>4 DEF GreetingFails, Drain, ConnectFails, Leave, ShutSocket, vars, wireVars, handVars
  <2>2. \/ UNCHANGED got
        \/ got' = [got EXCEPT ![c] = @ + 1] /\ got[c] < Len(replies[c])
    BY <1>4 DEF GreetingFails, Drain, ConnectFails, Arrived
  <2>3. \E l \in {"bye", "exited"}, code \in {"0", "1", "SIGPIPE", "SIGINT"} :
          cPc' = [cPc EXCEPT ![c] = l] /\ status' = [status EXCEPT ![c] = code]
    BY <1>4 DEF GreetingFails, Drain, ConnectFails, Leave
  <2> QED BY <2>1, <2>2, <2>3
<1>5. CASE AnswerLost(c) \/ Quit(c) \/ WriteFails(c) \/ Interrupt(c)
  <2>1. UNCHANGED <<sent, replies, got>>
    BY <1>5 DEF AnswerLost, Quit, WriteFails, Interrupt, Leave, ShutSocket, vars, wireVars, handVars
  <2>2. \E l \in {"bye", "exited"}, code \in {"0", "1", "SIGPIPE", "SIGINT"} :
          cPc' = [cPc EXCEPT ![c] = l] /\ status' = [status EXCEPT ![c] = code]
    BY <1>5 DEF AnswerLost, Quit, WriteFails, Interrupt, Leave
  <2> QED BY <2>1, <2>2
<1> QED BY <1>1, <1>2, <1>3, <1>4, <1>5 DEF ClientStep, Proceed

\* The script keeps what a client has sent in order.
LEMMA TalkKept ==
  ASSUME TypeOK, GTypeOK, NEW c \in Client, TalkOK(c), Script(c)
  PROVE  TalkOK(c)'
<1>1. Len(sent[c]) \in Nat /\ got[c] \in Nat
  BY DEF TypeOK, GTypeOK
<1>2. \A m \in Message : Sends(c, m) =>
        /\ Len(sent'[c]) = Len(sent[c]) + 1
        /\ \A j \in 1 .. Len(sent[c]) : sent'[c][j] = sent[c][j]
        /\ sent'[c][Len(sent[c]) + 1] = m
  <2>1. sent[c] \in Seq(Message)
    BY DEF TypeOK
  <2> QED BY <2>1, AppendProperties DEF Sends
<1>3. ASSUME NEW m \in {"HELLO", "BYE"} \cup KernelCalc, Sends(c, m), NEW i \in 1 .. Len(sent'[c]),
             m \in KernelCalc => Len(sent[c]) >= 1 /\ sent[c][1] = "HELLO"
      PROVE  /\ sent'[c][i] \in {"HELLO", "BYE"} \cup KernelCalc
             /\ sent'[c][i] \in KernelCalc => i > 1 /\ sent'[c][1] = "HELLO"
  <2>1. /\ Len(sent'[c]) = Len(sent[c]) + 1
        /\ \A j \in 1 .. Len(sent[c]) : sent'[c][j] = sent[c][j]
        /\ sent'[c][Len(sent[c]) + 1] = m
    BY <1>3, <1>2 DEF Message, Calc
  <2>2. CASE i <= Len(sent[c])
    <3>1. i \in 1 .. Len(sent[c]) /\ 1 \in 1 .. Len(sent[c])
      BY <1>1, <2>2
    <3>2. sent'[c][i] = sent[c][i] /\ sent'[c][1] = sent[c][1]
      BY <2>1, <3>1
    <3> QED BY <3>1, <3>2 DEF TalkOK
  <2>3. CASE i = Len(sent[c]) + 1
    <3>1. sent'[c][i] = m
      BY <2>1, <2>3
    <3>2. m \in KernelCalc => i > 1 /\ 1 \in 1 .. Len(sent[c])
      BY <1>3, <1>1, <2>3
    <3>3. m \in KernelCalc => sent'[c][1] = "HELLO"
      BY <1>3, <2>1, <3>2
    <3> QED BY <1>3, <3>1, <3>2, <3>3
  <2> QED BY <1>1, <2>1, <2>2, <2>3
<1>4. CASE sent'[c] = sent[c]
  BY <1>1, <1>4, <1>2 DEF TalkOK, Script, Goes, Sends, Message
<1>5. CASE Sends(c, "HELLO") /\ Goes(c, "hello", "helloWait")
  <2>1. Len(sent'[c]) = 1 /\ sent'[c][1] = "HELLO" /\ got'[c] = 0
    BY <1>1, <1>2, <1>5 DEF TalkOK, Goes, Sends, Message
  <2> QED BY <1>5, <2>1 DEF TalkOK, Goes, KernelCalc
<1>6. ASSUME NEW m \in KernelCalc, Sends(c, m), Goes(c, "menu", "calcWait") PROVE TalkOK(c)'
  <2>1. /\ Len(sent[c]) >= 1 /\ sent[c][1] = "HELLO" /\ Len(sent[c]) = got[c]
        /\ cPc'[c] = "calcWait" /\ got'[c] = got[c]
    BY <1>1, <1>6 DEF TalkOK, Goes, Sends
  <2>2. /\ Len(sent'[c]) = Len(sent[c]) + 1
        /\ \A j \in 1 .. Len(sent[c]) : sent'[c][j] = sent[c][j]
        /\ sent'[c][Len(sent[c]) + 1] = m
    BY <1>2, <1>6 DEF Message, Calc
  <2>3. \A i \in 1 .. Len(sent'[c]) :
          /\ sent'[c][i] \in {"HELLO", "BYE"} \cup KernelCalc
          /\ sent'[c][i] \in KernelCalc => i > 1 /\ sent'[c][1] = "HELLO"
    BY <1>3, <1>6, <2>1
  <2>4. Len(sent'[c]) = got'[c] + 1 /\ got'[c] >= 1 /\ sent'[c][1] = "HELLO"
    BY <1>1, <2>1, <2>2
  <2> QED BY <2>1, <2>3, <2>4 DEF TalkOK
<1>7. CASE Sends(c, "BYE") /\ Goes(c, "bye", "byeWait")
  <2>1. \A i \in 1 .. Len(sent'[c]) :
          /\ sent'[c][i] \in {"HELLO", "BYE"} \cup KernelCalc
          /\ sent'[c][i] \in KernelCalc => i > 1 /\ sent'[c][1] = "HELLO"
    BY <1>3, <1>7 DEF KernelCalc
  <2>2. cPc'[c] = "byeWait"
    BY <1>7 DEF Goes
  <2> QED BY <2>1, <2>2 DEF TalkOK
<1> QED BY <1>4, <1>5, <1>6, <1>7 DEF Script

\* Replies are only added.
LEMMA RepliesGrow ==
  ASSUME TypeOK, TypeOK', [Moves]_vars
  PROVE  \A c \in Client : /\ Len(replies[c]) \in Nat /\ Len(replies'[c]) \in Nat
                           /\ Len(replies[c]) <= Len(replies'[c])
<1>1. \A c \in Client : Len(replies[c]) \in Nat /\ Len(replies'[c]) \in Nat
  <2>1. replies \in [Client -> Seq(Reply)] /\ replies' \in [Client -> Seq(Reply)]
    BY DEF TypeOK
  <2>2. \A q \in Seq(Reply) : Len(q) \in Nat
    OBVIOUS
  <2> QED BY <2>1, <2>2
<1>2. CASE ~ \E c \in Client : Handler(c)
  <2>1. \A c \in Client : Quiet(c)
    BY <1>2, OthersQuiet DEF Moves
  <2> QED BY <1>1, <2>1 DEF Quiet
<1>3. ASSUME NEW c \in Client, Handler(c)
      PROVE  \A d \in Client : Len(replies[d]) <= Len(replies'[d])
  <2>1. \A d \in Client \ {c} : replies'[d] = replies[d]
    BY <1>3, HandlerQuiet DEF Quiet
  <2>2. Len(replies[c]) <= Len(replies'[c])
    <3>1. CASE Send(c)
      BY <1>1, <3>1 DEF Send, TypeOK
    <3>2. CASE ~Send(c)
      BY <1>1, <1>3, <3>2 DEF Handler, Receive, ReceiveEof, TakeLock, QueryIoctl, CalcIoctl,
         CalcTraps, SendFails, CloseConn
    <3> QED BY <3>1, <3>2
  <2> QED BY <1>1, <2>1, <2>2
<1> QED BY <1>1, <1>2, <1>3

\* Every step keeps the invariant.
LEMMA GInvStep == GInv /\ [GNext]_gvars => GInv'
<1> SUFFICES ASSUME GInv, [GNext]_gvars PROVE GInv'
  OBVIOUS
<1>1. SInv /\ SInv' /\ TypeOK /\ [Moves]_vars
  BY GatewayMoves, SInvStep DEF GInv, SInv
<1>2. \A c \in Client : RepliesFit(c)'
  BY <1>1, FitStep DEF GInv
<1>3. \A c \in Client : /\ Len(replies[c]) \in Nat /\ Len(replies'[c]) \in Nat
                        /\ Len(replies[c]) <= Len(replies'[c])
  BY <1>1, RepliesGrow DEF SInv
<1>4. ASSUME NEW c \in Client, ClientStep(c) PROVE GTypeOK' /\ \A d \in Client : TalkOK(d)'
  <2>1. /\ Script(c) /\ UNCHANGED replies
        /\ \A d \in Client \ {c} : UNCHANGED <<sent[d], cPc[d], got[d]>>
    BY <1>1, <1>4, ClientMoves DEF GInv
  <2>2. GTypeOK'
    BY <1>1, <1>3, <1>4, <2>1, ClientMoves DEF GInv, GTypeOK, Script, Sends, Goes
  <2>3. ASSUME NEW d \in Client \ {c} PROVE TalkOK(d)'
    BY <2>1 DEF GInv, TalkOK
  <2>4. TalkOK(c)'
    BY <1>1, <2>1, TalkKept DEF GInv
  <2> QED BY <2>2, <2>3, <2>4
<1>5. CASE UNCHANGED <<sent, clientVars>>
  <2>1. UNCHANGED <<sent, cPc, got, status>>
    BY <1>5 DEF clientVars
  <2>2. GTypeOK'
    <3>1. \A c \in Client : got'[c] <= Len(replies'[c])
      BY <1>3, <2>1 DEF GInv, GTypeOK
    <3> QED BY <2>1, <3>1 DEF GInv, GTypeOK
  <2>3. \A d \in Client : TalkOK(d)'
    BY <2>1 DEF GInv, TalkOK
  <2> QED BY <1>1, <1>2, <2>2, <2>3 DEF GInv
<1>6. \/ UNCHANGED <<sent, clientVars>>
      \/ \E c \in Client : ClientStep(c)
  <2>1. ASSUME NEW c \in Client, Handler(c) PROVE UNCHANGED sent
    BY <1>1, <2>1, HandlerQuiet DEF wireVars
  <2>2. ASSUME NEW c \in Client, Accept(c) PROVE UNCHANGED sent
    BY <2>2 DEF Accept, wireVars
  <2>3. Main \/ Trouble => UNCHANGED sent
    BY <2>2 DEF Main, UnlinkStale, OpenKernel, Bind, Install, LeaveLoop, CloseKernel, ClearFd, Unlink,
       Exit, Trouble, StartupFails, AcceptFails, StartFails, Signal, wireVars
  <2>4. CASE UNCHANGED gvars
    BY <2>4 DEF gvars, vars, wireVars
  <2> QED BY <2>1, <2>3, <2>4 DEF GNext
<1> QED BY <1>1, <1>2, <1>4, <1>5, <1>6 DEF GInv

----------------------------------------------------------------------------
(* The theorems.                                                           *)

\* The invariant holds in every reachable state, with any number of clients of
\* either kind.
THEOREM GatewayInvariance == GSpec => []GInv
<1>1. GInit => GInv
  <2> SUFFICES ASSUME GInit PROVE GInv
    OBVIOUS
  <2>1. SInv
    BY SInvInit DEF GInit
  <2>2. \A c \in Client : Len(sent[c]) = 0 /\ Len(replies[c]) = 0 /\ got[c] = 0 /\ cPc[c] = "start"
    BY DEF GInit, Init
  <2>3. GTypeOK
    BY <2>2 DEF GInit, GTypeOK
  <2>4. \A c \in Client : RepliesFit(c) /\ TalkOK(c)
    BY <2>2 DEF RepliesFit, TalkOK
  <2> QED BY <2>1, <2>3, <2>4 DEF GInv
<1> QED BY <1>1, GInvStep, PTL DEF GSpec

\* Type correctness of the clients.
THEOREM ClientTypesCorrect == GSpec => []GTypeOK
<1>1. GInv => GTypeOK
  BY DEF GInv
<1> QED BY <1>1, GatewayInvariance, PTL

\* Neither program is ever refused.
THEOREM NeverRefusedCorrect == GSpec => []NeverRefused
<1>1. GInv => NeverRefused
  <2> SUFFICES ASSUME GInv, NEW c \in Client, NEW i \in DOMAIN replies[c]
               PROVE  replies[c][i] \notin {"ERR_BAD_REQUEST", "ERR_UNKNOWN_OP"}
    BY DEF NeverRefused
  <2>1. /\ i \in 1 .. Len(replies[c]) /\ i \in Nat /\ i \in 1 .. Len(sent[c])
    BY DEF GInv, SInv, TypeOK, ConnOK, CountOK
  <2>2. replies[c][i] \in S(c)!Fitting(i)
    BY <2>1 DEF GInv, RepliesFit
  <2>3. CASE sent[c][i] = "HELLO" \/ sent[c][i] = "BYE"
    BY <2>1, <2>2, <2>3, FittingHello, FittingOther
  <2>4. CASE sent[c][i] \in KernelCalc
    <3>1. S(c)!Greeted(i)
      BY <2>1, <2>4 DEF GInv, TalkOK, S!Greeted
    <3> QED
      BY <2>1, <2>2, <2>4, <3>1 DEF KernelCalc, S!Fitting, S!Calc, S!KernelCalc, S!RefusedCalc,
         S!Raising
  <2> QED BY <2>1, <2>3, <2>4 DEF GInv, TalkOK
<1> QED BY <1>1, GatewayInvariance, PTL

\* Though no program compares req_id, each answer shown is the answer to the
\* request before it.
THEOREM AnswersCorrect == GSpec => AnswersOwnRequest
<1>1. GInv /\ [GNext]_gvars =>
        [\A c \in Client :
           At(c, "calcWait") /\ cPc'[c] = "menu" =>
             /\ got[c] + 1 = Len(sent[c])
             /\ NextReply(c) \in S(c)!Fitting(Len(sent[c]))]_gvars
  <2> SUFFICES ASSUME GInv, [GNext]_gvars, NEW c \in Client, At(c, "calcWait"), cPc'[c] = "menu"
               PROVE  /\ got[c] + 1 = Len(sent[c])
                      /\ NextReply(c) \in S(c)!Fitting(Len(sent[c]))
    OBVIOUS
  <2>1. got[c] + 1 = Len(sent[c]) /\ got[c] \in Nat
    BY DEF GInv, TalkOK, At, GTypeOK
  <2>2. PICK d \in Client : ClientStep(d)
    BY DEF GNext, At, gvars, clientVars
  <2>3. /\ Script(d) /\ \A e \in Client \ {d} : cPc'[e] = cPc[e]
    BY <2>2, ClientMoves DEF GInv, SInv
  <2>4. got[c] < Len(replies[c])
    BY <2>3 DEF At, Script, Goes
  <2>5. got[c] + 1 \in 1 .. Len(replies[c])
    BY <2>1, <2>4 DEF GInv, SInv, TypeOK
  <2> QED BY <2>1, <2>5 DEF GInv, RepliesFit, NextReply
<1> QED BY <1>1, GatewayInvariance, PTL DEF GSpec, AnswersOwnRequest
=============================================================================
