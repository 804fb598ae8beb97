------------------------------ MODULE Framing ------------------------------
(***************************************************************************)
(* One direction of a connection: send_msg at one end, recv_msg at the     *)
(* other, a byte stream that carries them in any pieces between, and a     *)
(* writer that may die at any byte.  Each end is protocol.py (the server,  *)
(* the Python client) or client.c.                                         *)
(*                                                                         *)
(* Sizes are small: a byte has Base values, a header HeaderSize bytes.     *)
(***************************************************************************)
EXTENDS Digits, SequencesExt

CONSTANTS
  Base,            \* the values of a byte; 256 in the code
  HeaderSize,      \* 4
  BufSize,         \* MSG_BUF_SIZE of client.c
  Capacity,        \* the socket buffer
  MaxBody,         \* bound: the longest body
  MaxFrames        \* bound: how many messages are sent

ASSUME FramingAssumption ==
  /\ Base \in Nat /\ Base > 1 /\ HeaderSize \in Nat \ {0}
  /\ BufSize \in Nat /\ BufSize > 1 /\ Capacity \in Nat \ {0}
  /\ MaxFrames \in Nat /\ MaxBody \in Nat
VARIABLES
  writer, reader,  \* the program at each end: "python" or "c"
  sent,            \* the bodies given to send_msg
  toWrite,         \* what is still to be written of the last of them
  wOpen,           \* the writer has not closed
  stream,          \* the bytes in the socket buffer
  part,            \* what recv_msg reads: "header" or "body"; "stopped" after it failed
  buf,             \* what it has read of that part
  need,            \* the length of the part
  received,        \* the bodies it has returned
  outcome          \* why it stopped: "end", the clean end of the stream, or "error"

wVars == <<sent, toWrite, wOpen>>
rVars == <<part, buf, need, received, outcome>>
vars  == <<writer, reader, wVars, stream, rVars>>

Byte == 0 .. Base - 1
Body == BoundedSeq(Byte, MaxBody)

Init ==
  /\ writer \in {"python", "c"} /\ reader \in {"python", "c"}
  /\ sent = <<>> /\ toWrite = <<>> /\ wOpen = TRUE
  /\ stream = <<>>
  /\ part = "header" /\ buf = <<>> /\ need = HeaderSize
  /\ received = <<>> /\ outcome = "none"

----------------------------------------------------------------------------
(* The writer.                                                             *)

\* Each length has a header: nothing is left of it beyond HeaderSize bytes.
ASSUME LengthsFit == Shifts(MaxBody, Base, HeaderSize)[HeaderSize] = 0

\* The length, most significant byte first.
Header(n) == ToDigits(n, Base, HeaderSize)

Frame(body) == Header(Len(body)) \o body
SendMsg(body) ==
  /\ wOpen /\ toWrite = <<>> /\ Len(sent) < MaxFrames
  /\ sent' = Append(sent, body)
  /\ toWrite' = Frame(body)
  /\ UNCHANGED <<writer, reader, wOpen, stream, rVars>>

\* What one write is offered: C writes the header by itself, Python's sendall
\* has the whole frame.
Offered ==
  LET body == Len(Last(sent)) IN
  IF writer = "c" /\ Len(toWrite) > body THEN Len(toWrite) - body ELSE Len(toWrite)

\* Faulty variant of Rest: a short write is taken for a whole one.
RestDropped(k) == SubSeq(toWrite, Offered + 1, Len(toWrite))

\* What is left after a write of k bytes; the loop goes on with it.
Rest(k) == SubSeq(toWrite, k + 1, Len(toWrite))

Write ==
  /\ wOpen /\ toWrite # <<>> /\ part # "stopped"
  /\ \E k \in 1 .. Offered :
       /\ Len(stream) + k <= Capacity
       /\ stream' = stream \o SubSeq(toWrite, 1, k)
       /\ toWrite' = Rest(k)
  /\ UNCHANGED <<writer, reader, sent, wOpen, rVars>>

\* It closes after a message, is killed inside one, or its write fails because
\* the reader has closed.
WriterCloses ==
  /\ wOpen
  /\ wOpen' = FALSE
  /\ UNCHANGED <<writer, reader, sent, toWrite, stream, rVars>>

----------------------------------------------------------------------------
(* The reader.                                                             *)

\* The length in a header.
Decode(h) == FromDigits(h, Base)

\* Faulty variant of Missing: the loop runs until there is more than enough.
MissingOneMore == need + 1 - Len(buf)

\* How much of the part has still to come.
Missing == need - Len(buf)

\* Faulty variant of TooLong: no place is kept for the terminating NUL.
TooLongOffByOne(n) == reader = "c" /\ n > BufSize

\* The C client reads into a buffer of fixed size.
TooLong(n) == reader = "c" /\ n >= BufSize

Await(p, n) == part' = p /\ need' = n /\ buf' = <<>>
Stop(why) == Await("stopped", 0) /\ outcome' = why
Return(body) ==
  /\ received' = Append(received, body)
  /\ Await("header", HeaderSize)
  /\ UNCHANGED outcome

GotHeader(n) ==
  \/ n = 0 /\ Return(<<>>)
  \/ n > 0 /\ TooLong(n) /\ Stop("error") /\ UNCHANGED received
  \/ n > 0 /\ ~TooLong(n) /\ Await("body", n) /\ UNCHANGED <<received, outcome>>

\* One read, and what recv_msg does up to the next.
Read ==
  /\ part # "stopped"
  /\ \E k \in 1 .. Missing :
       LET now == buf \o SubSeq(stream, 1, k) IN
       /\ k <= Len(stream)
       /\ stream' = SubSeq(stream, k + 1, Len(stream))
       /\ CASE k < Missing -> buf' = now /\ UNCHANGED <<part, need, received, outcome>>
            [] k = Missing /\ part = "header" -> GotHeader(Decode(now))
            [] k = Missing /\ part = "body" -> Return(now)
  /\ UNCHANGED <<writer, reader, wVars>>

\* Faulty variant of EndIsClean: the end inside a header passes for clean.
EndIsCleanAnywhere == reader = "python" /\ part = "header"

\* Python tells the end between two messages from one inside; C does not.
EndIsClean == reader = "python" /\ part = "header" /\ buf = <<>>

ReadEnd ==
  /\ part # "stopped" /\ ~wOpen /\ stream = <<>>
  /\ Stop(IF EndIsClean THEN "end" ELSE "error")
  /\ UNCHANGED <<writer, reader, wVars, stream, received>>

Next == (\E body \in Body : SendMsg(body)) \/ Write \/ WriterCloses \/ Read \/ ReadEnd

Spec == Init /\ [][Next]_vars

\* Both ends run on, but the writer need not send or close.
FairSpec == Spec /\ WF_vars(Write) /\ WF_vars(Read) /\ WF_vars(ReadEnd)

----------------------------------------------------------------------------
(* Properties.                                                             *)

\* Type correctness: the C reader's body and its NUL stay inside the buffer.
TypeOK ==
  /\ writer \in {"python", "c"} /\ reader \in {"python", "c"}
  /\ sent \in Seq(Body) /\ received \in Seq(Body)
  /\ toWrite \in Seq(Byte) /\ stream \in Seq(Byte) /\ buf \in Seq(Byte)
  /\ Len(stream) <= Capacity /\ Len(buf) <= need
  /\ part \in {"header", "body", "stopped"} /\ outcome \in {"none", "end", "error"}
  /\ reader = "c" /\ part = "body" => need + 1 <= BufSize

\* However the bytes are cut into pieces, recv_msg returns the messages that
\* were sent, whole, in order, and none twice.
InOrderIntact == IsPrefix(received, sent)

\* The clean end is reported only after every message of which a byte was
\* written; an error only if a message was cut short or is too long for the
\* buffer, or, in C, at the end too.
OutcomeRight ==
  LET unwritten == IF toWrite = Frame(Last(sent)) THEN 1 ELSE 0
      written   == IF sent = <<>> THEN 0 ELSE Len(sent) - unwritten
  IN /\ outcome = "end" => Len(received) = written
     /\ outcome = "error" =>
          \/ reader = "c" /\ ~wOpen
          \/ ~wOpen /\ toWrite # <<>>
          \/ Len(sent) > Len(received) /\ TooLong(Len(sent[Len(received) + 1]))

\* A message that was written completely is received, unless one that the
\* reader has no room for came before it.
Delivered ==
  \A i \in 1 .. MaxFrames :
    (Len(sent) > i \/ (Len(sent) = i /\ toWrite = <<>>)) ~>
      (Len(received) >= i \/ \E j \in DOMAIN sent : j <= i /\ TooLong(Len(sent[j])))
=============================================================================
