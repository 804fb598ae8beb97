------------------------------ MODULE Gateway ------------------------------
(***************************************************************************)
(* The server with the two programs that talk to it: client.py and         *)
(* client.c.  They take the place of MathServer's unconstrained clients.   *)
(*                                                                         *)
(* Both are sequential: greet, then one request at a time for as long as   *)
(* the user asks, then a goodbye.  Neither looks at req_id: the next       *)
(* message is taken for the answer.  A write to a connection the server    *)
(* has closed raises an exception in Python and kills the C program, which *)
(* leaves SIGPIPE at its default.                                          *)
(***************************************************************************)
EXTENDS MathServer

CONSTANT Python                  \* the clients that run client.py; the others run client.c

ASSUME GatewayAssumption == Python \subseteq Client

VARIABLES
  cPc,             \* cPc[c]: the client's place
  got,             \* got[c]: how many messages it has received
  status           \* status[c]: the exit status it is heading for

clientVars == <<cPc, got, status>>
gvars == <<vars, clientVars>>

GInit ==
  /\ Init
  /\ cPc = [c \in Client |-> "start"]
  /\ got = [c \in Client |-> 0]
  /\ status = [c \in Client |-> "0"]

----------------------------------------------------------------------------
(* The connection, seen from the client.                                   *)

\* The server's end is closed: a write fails.
Broken(c) == pc[c] = "closed"

\* Nothing more will come: a read meets the end of the stream.
Eof(c) == Broken(c) /\ got[c] = Len(replies[c])

\* A whole message is there to be received.
Arrived(c) == got[c] < Len(replies[c])
NextReply(c) == replies[c][got[c] + 1]

Put(c, m) ==
  /\ ~Broken(c)
  /\ sent' = [sent EXCEPT ![c] = Append(@, m)]
  /\ UNCHANGED <<mainVars, kernVars, peerOpen, handVars>>

Keep(c) == UNCHANGED vars
ShutSocket(c) ==
  /\ peerOpen' = [peerOpen EXCEPT ![c] = FALSE]
  /\ UNCHANGED <<mainVars, kernVars, sent, handVars>>

At(c, place) == cPc[c] = place
Move(c, place, code) ==
  /\ cPc' = [cPc EXCEPT ![c] = place]
  /\ status' = [status EXCEPT ![c] = code]
Leave(c, code) == Move(c, "exited", code) /\ ShutSocket(c)
Read(c) == got' = [got EXCEPT ![c] = @ + 1]

----------------------------------------------------------------------------
(* Connection and handshake.                                               *)

Connects(c) ==
  /\ At(c, "start")
  /\ Connect(c)
  /\ Move(c, "hello", "0")
  /\ UNCHANGED got

\* No socket file, or nobody listening.
ConnectFails(c) ==
  /\ At(c, "start")
  /\ ~(path /\ listening)
  /\ Leave(c, "1")
  /\ UNCHANGED got

\* Faulty variant of Greet: a client that does not introduce itself.
GreetSkipped(c) ==
  /\ At(c, "hello")
  /\ Move(c, "menu", "0")
  /\ UNCHANGED <<vars, got>>

Greet(c) ==
  /\ At(c, "hello")
  /\ Put(c, "HELLO")
  /\ Move(c, "helloWait", "0")
  /\ UNCHANGED got

Greeted(c) ==
  /\ At(c, "helloWait")
  /\ Arrived(c) /\ NextReply(c) = "HELLO_ACK"
  /\ Read(c)
  /\ Move(c, "menu", "0")
  /\ Keep(c)

\* The stream ends, or another message comes: Python goes through disconnect,
\* C closes at once.
GreetingFails(c) ==
  /\ At(c, "helloWait")
  /\ \/ Eof(c) /\ UNCHANGED got
     \/ Arrived(c) /\ NextReply(c) # "HELLO_ACK" /\ Read(c)
  /\ IF c \in Python THEN Move(c, "bye", "1") /\ Keep(c) ELSE Leave(c, "1")

----------------------------------------------------------------------------
(* The menu, a request and its answer.                                     *)

\* A choice of the menu and two operands that are valid; what the prompts make of
\* other lines is the subject of Calculation.
Request(c) ==
  /\ At(c, "menu")
  /\ Len(sent[c]) < MaxMessages[c]
  /\ \E m \in KernelCalc \cap Sendable[c] : Put(c, m)
  /\ Move(c, "calcWait", "0")
  /\ UNCHANGED got

\* Faulty variant of Taken: the answer is shown but stays in the stream.
TakenNot(c) == UNCHANGED got

\* Faulty variant of Taken: the message after the answer is dropped with it.
TakenTwice(c) == got' = [got EXCEPT ![c] = @ + 2]

Taken(c) == Read(c)

\* CALC_ACK, ERROR and anything else are shown, and the menu comes again.
ShowAnswer(c) ==
  /\ At(c, "calcWait")
  /\ Arrived(c)
  /\ Taken(c)
  /\ Move(c, "menu", "0")
  /\ Keep(c)

\* Both clients leave their loop and say goodbye.
AnswerLost(c) ==
  /\ At(c, "calcWait")
  /\ Eof(c)
  /\ Move(c, "bye", "0")
  /\ UNCHANGED <<vars, got>>

\* The user chooses to exit, or ends the input (in Python an EOFError that
\* nothing catches but the finally clause).
Quit(c) ==
  /\ At(c, "menu")
  /\ \E code \in IF c \in Python THEN {"0", "1"} ELSE {"0"} : Move(c, "bye", code)
  /\ UNCHANGED <<vars, got>>

----------------------------------------------------------------------------
(* The goodbye, and what can go wrong anywhere.                            *)

Goodbye(c) ==
  /\ At(c, "bye")
  /\ Put(c, "BYE")
  /\ Move(c, "byeWait", status[c])
  /\ UNCHANGED got

\* Whatever comes next is taken for the acknowledgement.
Drain(c) ==
  /\ At(c, "byeWait")
  /\ \/ Arrived(c) /\ Read(c)
     \/ Eof(c) /\ UNCHANGED got
  /\ Leave(c, status[c])

\* A write to the closed connection.  Python's handshake fails with status 1,
\* its loop ends and its disconnect ignores the exception; C is killed.
WriteFails(c) ==
  /\ cPc[c] \in {"hello", "menu", "bye"}
  /\ Broken(c)
  /\ IF c \in Python
     THEN CASE At(c, "hello") -> Move(c, "bye", "1") /\ Keep(c)
            [] At(c, "menu")  -> Move(c, "bye", "0") /\ Keep(c)
            [] At(c, "bye")   -> Leave(c, status[c])
     ELSE Leave(c, "SIGPIPE")
  /\ UNCHANGED got

\* Ctrl-C.  In Python it leads to disconnect, unless it comes before the try
\* or inside disconnect itself; in C it ends the process.
Interrupt(c) ==
  /\ ~At(c, "exited")
  /\ IF c \in Python /\ cPc[c] \in {"hello", "helloWait", "menu", "calcWait"}
     THEN Move(c, "bye", "0") /\ Keep(c)
     ELSE Leave(c, "SIGINT")
  /\ UNCHANGED got

\* What the program does without its user.
Proceed(c) ==
  \/ Greet(c) \/ Greeted(c) \/ GreetingFails(c)
  \/ ShowAnswer(c) \/ AnswerLost(c)
  \/ Goodbye(c) \/ Drain(c)
  \/ ~At(c, "menu") /\ WriteFails(c)
ClientStep(c) ==
  \/ Proceed(c)
  \/ Connects(c) \/ ConnectFails(c)
  \/ Request(c) \/ Quit(c) \/ WriteFails(c) \/ Interrupt(c)

GNext ==
  \/ (Main \/ Trouble \/ \E c \in Client : Handler(c)) /\ UNCHANGED clientVars
  \/ \E c \in Client : ClientStep(c)

GSpec == GInit /\ [][GNext]_gvars

\* As in MathServer; and the clients' programs run on.
GFairSpec ==
  /\ GSpec
  /\ WF_gvars(Main /\ UNCHANGED clientVars)
  /\ \A c \in Client :
       /\ WF_gvars(Handler(c) /\ UNCHANGED clientVars)
       /\ SF_gvars(TakeLock(c) /\ UNCHANGED clientVars)
       /\ WF_gvars(Proceed(c))

----------------------------------------------------------------------------
(* Properties.                                                             *)

\* Type correctness of the clients.
GTypeOK ==
  /\ cPc \in [Client -> {"start", "hello", "helloWait", "menu", "calcWait", "bye",
                         "byeWait", "exited"}]
  /\ got \in [Client -> Nat] /\ \A c \in Client : got[c] <= Len(replies[c])
  /\ status \in [Client -> {"0", "1", "SIGPIPE", "SIGINT"}]

\* Though req_id is not compared, what a client shows as the answer to its
\* request is the answer to that request: it is at the same place in the
\* stream, and one that fits it.
AnswersOwnRequest ==
  [][\A c \in Client :
       At(c, "calcWait") /\ cPc'[c] = "menu" =>
         /\ got[c] + 1 = Len(sent[c])
         /\ NextReply(c) \in S(c)!Fitting(Len(sent[c]))]_gvars

\* These two programs are never refused: whatever happens, they send no CALC
\* before the handshake and no operation the server did not announce.
NeverRefused ==
  \A c \in Client :
    \A i \in DOMAIN replies[c] :
      replies[c][i] \notin {"ERR_BAD_REQUEST", "ERR_UNKNOWN_OP"}

\* No client waits for ever: its message is answered, or the connection ends,
\* also when the server is stopped at that moment or before it accepted, unless
\* a handler has died in the kernel with the lock that all of them need.
NoClientHangs ==
  \A c \in Client :
    cPc[c] \in {"helloWait", "calcWait", "byeWait"} ~>
      (cPc[c] \notin {"helloWait", "calcWait", "byeWait"} \/ Stuck)

\* What client.c says of its exit status: 0 on a clean exit, 1 on any error.
ExitStatusTells ==
  \A c \in Client \ Python :
    At(c, "exited") /\ status[c] # "SIGINT" => status[c] \in {"0", "1"}
=============================================================================
