---------------------------- MODULE Calculation ----------------------------
(***************************************************************************)
(* One user at one client on one server, calculation after calculation:    *)
(* what is typed at the prompts, what the client takes it for and sends,   *)
(* what the device or the mock in its place computes, and what the client  *)
(* shows.  Connections and failures are the business of Gateway.           *)
(***************************************************************************)
EXTENDS Numbers

CONSTANTS
  LineSize,        \* LINE_BUF_SIZE
  ChoiceValues,    \* the values of the C client's menu choice: 2^32
  Lines,           \* Lines[p]: the lines a user may type at the prompt p
  Foreign          \* the operands of a client of another make

Prompt == {"choice", "a", "b"}

\* The operations as HELLO_ACK announces them; the number after them ends the client.
Menu == <<"ADD", "SUB", "MUL", "DIV">>
Exit == Len(Menu) + 1

ASSUME CalculationAssumption ==
  /\ LineSize \in Nat /\ LineSize >= 2
  /\ ChoiceValues \in Nat /\ ChoiceValues > Exit
  /\ DOMAIN Lines = Prompt /\ \A p \in Prompt : Lines[p] \subseteq Seq(Char)
  /\ Foreign \subseteq Int

VARIABLES
  client, server,  \* what is connected to what
  pc,              \* the client's prompt, or how far its request is
  stdin,           \* the line the client has not read yet, if any
  input,           \* input[p]: what the client took the answer to p for
  request,         \* the CALC the server has received
  reply,           \* its answer
  shown,           \* the result on the screen
  \* history, read by no action
  meant,           \* meant[p]: the number in the user's last answer to p, if it is one
  overlong         \* the C client has been given a line its buffer cannot hold

vars == <<client, server, pc, stdin, input, request, reply, shown, meant, overlong>>

NoInput   == [p \in Prompt |-> 0]
NoMeaning == [p \in Prompt |-> {}]
NoRequest == [op |-> "other", a |-> 0, b |-> 0]
NoReply   == [code |-> "none", result |-> 0]

Start(c) == IF c = "foreign" THEN "send" ELSE "choice"

Init ==
  /\ client \in {"python", "c", "foreign"} /\ server \in {"kernel", "mock"}
  /\ pc = Start(client) /\ stdin = <<>>
  /\ input = NoInput /\ request = NoRequest /\ reply = NoReply /\ shown = 0
  /\ meant = NoMeaning /\ overlong = FALSE

----------------------------------------------------------------------------
(* The prompts.                                                            *)

\* A line without the carriage returns that read_line skips.
Kept(s) == Without(s, {CR})

\* The numbers a user can mean by a line: at most one.
Meanings(s) ==
  LET plain == Without(s, {CR, Blank, Underscore})
  IN  IF IsNumeral(plain) THEN {Denotes(plain)} ELSE {}

\* The C client's buffer is full before the line ends.
Overlong(s) == client = "c" /\ Len(Kept(s)) >= LineSize - 1

Type ==
  /\ pc \in Prompt /\ stdin = <<>>
  /\ \E s \in Lines[pc] :
       /\ stdin' = <<s>>
       /\ meant' = [meant EXCEPT ![pc] = Meanings(s)]
       /\ overlong' = (overlong \/ Overlong(s))
  /\ UNCHANGED <<client, server, pc, input, request, reply, shown>>

\* The user ends the input: read_line fails, input() raises, and both clients end.
EndOfInput ==
  /\ pc \in Prompt /\ stdin = <<>>
  /\ pc' = "exited"
  /\ UNCHANGED <<client, server, stdin, input, request, reply, shown, meant, overlong>>

\* read_line stops when its buffer is full and leaves the rest of the line to
\* the next prompt; input() takes the line, and strip what is blank at its ends.
ReadLine(s) ==
  LET k == Kept(s) IN
  IF Overlong(s)
  THEN [line |-> SubSeq(k, 1, LineSize - 1), rest |-> <<SubSeq(k, LineSize, Len(k))>>]
  ELSE [line |-> IF client = "c" THEN k ELSE Strip(s), rest |-> <<>>]

\* What the C client takes a line for: a choice is narrowed to uint32_t before it
\* is compared with the menu.
CValue(s) ==
  IF pc = "choice"
  THEN {n % ChoiceValues : n \in {m \in ParseInt64(s) : m >= 1 /\ m % ChoiceValues <= Exit}}
  ELSE ParseInt64(s)

\* And the Python client, whose integers are unbounded.
Asked == IF pc = "choice" THEN 1 .. Exit ELSE Word
PyValue(s) == PyInt(s) \cap Asked

Value(s) == IF client = "c" THEN CValue(s) ELSE PyValue(s)

Following(p, n) ==
  CASE p = "choice" -> IF n = Exit THEN "exited" ELSE "a"
    [] p = "a" -> "b"
    [] p = "b" -> "send"

\* The client reads a line; what it cannot use it asks for again.
Answer ==
  /\ pc \in Prompt /\ stdin # <<>>
  /\ LET read == ReadLine(stdin[1])
     IN  /\ stdin' = read.rest
         /\ IF Value(read.line) = {}
            THEN UNCHANGED <<pc, input>>
            ELSE \E n \in Value(read.line) :
                   /\ input' = [input EXCEPT ![pc] = n]
                   /\ pc' = Following(pc, n)
  /\ UNCHANGED <<client, server, request, reply, shown, meant, overlong>>

----------------------------------------------------------------------------
(* The request.                                                            *)

\* The C client writes its operands as text, Python as JSON integers; the server
\* reads either as integers of any size.
OnWire(n) == IF client = "c" THEN Denotes(Int64ToStr(n)) ELSE n

Send ==
  /\ pc = "send" /\ client # "foreign"
  /\ input["choice"] \in DOMAIN Menu
  /\ request' = [op |-> Menu[input["choice"]], a |-> OnWire(input["a"]), b |-> OnWire(input["b"])]
  /\ pc' = "serve"
  /\ UNCHANGED <<client, server, stdin, input, reply, shown, meant, overlong>>

\* The choice 0, out of 2^32: g_ops[choice - 1U] is far behind the table, where
\* there is no memory, or, with 32-bit addresses, before it, no operation's name.
SendUndefined ==
  /\ pc = "send" /\ client # "foreign"
  /\ input["choice"] = 0
  /\ \/ /\ request' = [op |-> "other", a |-> OnWire(input["a"]), b |-> OnWire(input["b"])]
        /\ pc' = "serve"
     \/ pc' = "crashed" /\ UNCHANGED request
  /\ UNCHANGED <<client, server, stdin, input, reply, shown, meant, overlong>>

\* A client that checks nothing.
SendForeign ==
  /\ pc = "send" /\ client = "foreign"
  /\ \E n \in DOMAIN Menu, x, y \in Foreign :
       /\ request' = [op |-> Menu[n], a |-> x, b |-> y]
       /\ meant' = [choice |-> {n}, a |-> {x}, b |-> {y}]
  /\ pc' = "serve"
  /\ UNCHANGED <<client, server, stdin, input, reply, shown, overlong>>

----------------------------------------------------------------------------
(* The server.                                                             *)

\* MathRequest cuts the operands to c_int64, with no error.
Cut(n) == IF server = "kernel" THEN Wrap(n) ELSE n

Compute(op, a, b) ==
  IF server = "kernel" THEN Calculate(op, a, b) ELSE MockCalculate(op, a, b)

ReplyTo(op, a, b) ==
  CASE op \notin OpCode -> [code |-> "ERR_UNKNOWN_OP", result |-> 0]
    [] op = "DIV" /\ b = 0 -> [code |-> "ERR_DIV_ZERO", result |-> 0]
    [] OTHER -> [code |-> "CALC_ACK", result |-> Compute(op, a, b)]

Serve ==
  /\ pc = "serve"
  /\ reply' = ReplyTo(request.op, Cut(request.a), Cut(request.b))
  /\ pc' = "show"
  /\ UNCHANGED <<client, server, stdin, input, request, shown, meant, overlong>>

\* The division traps in the kernel: the handler is gone and no reply comes.
ServeTraps ==
  /\ pc = "serve" /\ server = "kernel"
  /\ Unrepresentable(request.op, Cut(request.a), Cut(request.b))
  /\ pc' = "hung"
  /\ UNCHANGED <<client, server, stdin, input, request, reply, shown, meant, overlong>>

----------------------------------------------------------------------------
(* The answer.                                                             *)

\* The result as it comes on the screen: cJSON has it as a double.
Screen(n) ==
  IF client = "c" THEN {Denotes(Int64ToStr(r)) : r \in CastInt64(Double(n))} ELSE {n}

Show ==
  /\ pc = "show"
  /\ IF reply.code = "CALC_ACK" THEN shown' \in Screen(reply.result) ELSE UNCHANGED shown
  /\ pc' = "shown"
  /\ UNCHANGED <<client, server, stdin, input, request, reply, meant, overlong>>

\* The next calculation.
Again ==
  /\ pc = "shown"
  /\ pc' = Start(client)
  /\ input' = NoInput /\ request' = NoRequest /\ reply' = NoReply /\ shown' = 0
  /\ meant' = NoMeaning
  /\ UNCHANGED <<client, server, stdin, overlong>>

Next ==
  \/ Type \/ EndOfInput \/ Answer
  \/ Send \/ SendUndefined \/ SendForeign
  \/ Serve \/ ServeTraps
  \/ Show \/ Again

Spec == Init /\ [][Next]_vars

----------------------------------------------------------------------------
(* Properties.                                                             *)

\* Type correctness: what leaves the prompts is a choice and two words.
CTypeOK ==
  /\ client \in {"python", "c", "foreign"} /\ server \in {"kernel", "mock"}
  /\ pc \in Prompt \cup {"send", "serve", "show", "shown", "exited", "crashed", "hung"}
  /\ stdin \in Seq(Seq(Char)) /\ Len(stdin) <= 1
  /\ input \in [Prompt -> Int]
  /\ input["choice"] \in 0 .. Exit /\ input["a"] \in Word /\ input["b"] \in Word
  /\ request \in [op : OpCode \cup {"other"}, a : Int, b : Int]
  /\ reply \in [code : {"none", "CALC_ACK", "ERR_DIV_ZERO", "ERR_UNKNOWN_OP"}, result : Int]
  /\ shown \in Int
  /\ meant \in [Prompt -> SUBSET Int]
  /\ overlong \in BOOLEAN

\* Each prompt gets the user's own answer: a plain number that is asked for is
\* never refused, and what is accepted is the number that was meant.  Two lines
\* of client.c limit this: read_line leaves the rest of an overlong line to the
\* next prompt, and a choice is narrowed to 32 bits before it is compared.
Narrowed(m, n) == m >= ChoiceValues /\ m % ChoiceValues = n
AnswerTaken ==
  LET s == IF client = "c" THEN Kept(stdin[1]) ELSE Strip(stdin[1])
      n == input'[pc]
  IN  IF pc' = pc
      THEN ~(IsNumeral(s) /\ Denotes(s) \in Asked)
      ELSE /\ client = "c" => IsNumeral(s)
           /\ \/ meant[pc] = {n} /\ n \in Asked
              \/ client = "c" /\ pc = "choice" /\ \E m \in meant[pc] : Narrowed(m, n)
AnswersTaken == [][~overlong /\ pc \in Prompt /\ stdin # <<>> => AnswerTaken]_vars

\* The exact result of an operation.
IsResult(op, a, b, r) ==
  CASE op = "ADD" -> r = a + b
    [] op = "SUB" -> r = a - b
    [] op = "MUL" -> r = a * b
    [] op = "DIV" -> b # 0 /\ IsQuotient(a, b, r)

\* Where the code carries the result all the way: a double holds it, the mock's
\* floor is the quotient of C, and the operands of a quotient were not cut.
Carried(op, a, b, r) ==
  /\ client = "c" => Magnitude(r) <= 2 ^ Precision
  /\ op = "DIV" /\ server = "mock" => a = b * r \/ (a < 0) = (b < 0)
  /\ op = "DIV" /\ server = "kernel" => {a, b} \subseteq Word

\* From the keyboard to the screen: if the operation the user chose has a result
\* that is a word, of the numbers the user typed, it is the result shown, and the
\* error shown is a division by zero when it is one.
ShownRight ==
  pc = "shown" /\ ~overlong =>
    \A n \in meant["choice"] \cap DOMAIN Menu, a \in meant["a"], b \in meant["b"] :
      /\ reply.code = "CALC_ACK" =>
           \A r \in Word : IsResult(Menu[n], a, b, r) /\ Carried(Menu[n], a, b, r) => shown = r
      /\ {a, b} \subseteq Word =>
           reply.code = IF Menu[n] = "DIV" /\ b = 0 THEN "ERR_DIV_ZERO" ELSE "CALC_ACK"

\* What mock_server.py says of itself: it is server.py with the kernel replaced.
MockLikeKernel ==
  /\ pc = "show" /\ server = "mock" /\ reply.code = "CALC_ACK"
  /\ {request.a, request.b, reply.result} \subseteq Word
  => reply.result = Calculate(request.op, request.a, request.b)

\* What the README says of the C client: to its user it is the Python client.
ClientsAgree ==
  pc = "shown" /\ reply.code = "CALC_ACK" /\ reply.result \in Word /\ ~overlong
  => shown = reply.result
=============================================================================
