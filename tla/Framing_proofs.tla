--------------------------- MODULE Framing_proofs ---------------------------
(***************************************************************************)
(* What Framing promises holds for every size of byte, header, buffers,    *)
(* bodies, and for any number of messages.                                 *)
(***************************************************************************)
EXTENDS Framing, Digits_proofs

----------------------------------------------------------------------------
(* Headers.                                                                *)

\* Decode is the inverse of Header, for every length that has a header.
LEMMA HeaderDecodes ==
  ASSUME NEW n \in 0 .. MaxBody
  PROVE  Header(n) \in Seq(Byte) /\ Len(Header(n)) = HeaderSize /\ Decode(Header(n)) = n
<1>1. /\ n \in Nat /\ MaxBody \in Nat /\ n <= MaxBody
      /\ HeaderSize \in Nat /\ Base \in Nat /\ Base > 1
  BY FramingAssumption
<1>2. Shifts(n, Base, HeaderSize)[HeaderSize] = 0
  BY <1>1, LengthsFit, SmallerFits
<1> QED BY <1>1, <1>2, DigitsDenote DEF Header, Decode, Byte

----------------------------------------------------------------------------
(* Sequences and frames.                                                   *)

\* A sequence cut after k elements.
LEMMA CutSequence ==
  ASSUME NEW S, NEW s \in Seq(S), NEW k \in Nat, k <= Len(s)
  PROVE  /\ SubSeq(s, 1, k) \in Seq(S) /\ SubSeq(s, k + 1, Len(s)) \in Seq(S)
         /\ Len(SubSeq(s, 1, k)) = k /\ Len(SubSeq(s, k + 1, Len(s))) = Len(s) - k
         /\ s = SubSeq(s, 1, k) \o SubSeq(s, k + 1, Len(s))
<1>1. Len(s) \in Nat /\ \A i \in 1 .. Len(s) : s[i] \in S
  BY LenProperties, ElementOfSeq
<1>2. /\ SubSeq(s, 1, k) \in Seq(S)
      /\ Len(SubSeq(s, 1, k)) = IF 1 <= k THEN k - 1 + 1 ELSE 0
  BY <1>1, SubSeqProperties
<1>3. /\ SubSeq(s, k + 1, Len(s)) \in Seq(S)
      /\ Len(SubSeq(s, k + 1, Len(s))) =
           IF k + 1 <= Len(s) THEN Len(s) - (k + 1) + 1 ELSE 0
  BY <1>1, SubSeqProperties
<1>4. s = SubSeq(s, 1, k) \o SubSeq(s, k + 1, Len(s))
  <2>1. 1 \in 1 .. Len(s) + 1 /\ k \in 1 - 1 .. Len(s) /\ Len(s) \in k .. Len(s)
    BY <1>1
  <2>2. SubSeq(s, 1, k) \o SubSeq(s, k + 1, Len(s)) = SubSeq(s, 1, Len(s))
    BY <2>1, ConcatAdjacentSubSeq
  <2> QED BY <2>2, SubSeqFull
<1>5. \A l \in Nat : k <= l =>
        /\ (IF 1 <= k THEN k - 1 + 1 ELSE 0) = k
        /\ (IF k + 1 <= l THEN l - (k + 1) + 1 ELSE 0) = l - k
  OBVIOUS
<1>6. Len(SubSeq(s, 1, k)) = k /\ Len(SubSeq(s, k + 1, Len(s))) = Len(s) - k
  BY <1>1, <1>2, <1>3, <1>5
<1> QED BY <1>2, <1>3, <1>4, <1>6

\* Two ways to cut one sequence at the same place are the same.
LEMMA SameCut ==
  ASSUME NEW S, NEW a \in Seq(S), NEW b \in Seq(S), NEW c \in Seq(S), NEW d \in Seq(S),
         a \o b = c \o d, Len(a) = Len(c)
  PROVE  a = c /\ b = d
<1>1. a = c
  <2>1. /\ Len(a) \in Nat /\ Len(b) \in Nat /\ Len(d) \in Nat
        /\ \A i \in 1 .. Len(a) + Len(b) : (a \o b)[i] =
                     IF i <= Len(a) THEN a[i] ELSE b[i - Len(a)]
        /\ \A i \in 1 .. Len(c) + Len(d) : (c \o d)[i] =
                     IF i <= Len(c) THEN c[i] ELSE d[i - Len(c)]
    BY LenProperties, ConcatProperties
  <2>2. ASSUME NEW i \in 1 .. Len(a) PROVE a[i] = c[i]
    <3>1. i \in 1 .. Len(a) + Len(b) /\ i \in 1 .. Len(c) + Len(d) /\ i <= Len(a)
      BY <2>1
    <3> QED BY <2>1, <3>1
  <2> QED BY <2>2, SeqEqual
<1>2. b = d
  <2>1. a \o b = a \o d
    BY <1>1
  <2> QED BY <2>1, ConcatSimplifications
<1> QED BY <1>1, <1>2

LEMMA Regroup ==
  \A a, b, c \in Seq(Byte) : a \o b \in Seq(Byte) /\ (a \o b) \o c = a \o (b \o c)
BY ConcatAssociative, ConcatProperties

LEMMA BodyIsSequence ==
  ASSUME NEW body \in Body
  PROVE  body \in Seq(Byte) /\ Len(body) \in 0 .. MaxBody
<1>1. PICK m \in 0 .. MaxBody : body \in [1 .. m -> Byte]
  BY DEF Body, BoundedSeq, SeqOf
<1>2. m \in Nat
  BY FramingAssumption
<1>3. body \in Seq(Byte)
  BY <1>1, <1>2, SeqDef
<1>4. Len(body) = m
  <2>1. DOMAIN body = 1 .. m /\ DOMAIN body = 1 .. Len(body) /\ Len(body) \in Nat
    BY <1>1, <1>3, LenProperties
  <2> QED BY <2>1, <1>2
<1> QED BY <1>3, <1>4

LEMMA FrameIsSequence ==
  ASSUME NEW body \in Body
  PROVE  /\ Frame(body) \in Seq(Byte)
         /\ Len(Frame(body)) = HeaderSize + Len(body)
<1>1. /\ Header(Len(body)) \in Seq(Byte) /\ Len(Header(Len(body))) = HeaderSize
      /\ body \in Seq(Byte)
  BY BodyIsSequence, HeaderDecodes
<1> QED BY <1>1, ConcatProperties DEF Frame

----------------------------------------------------------------------------
(* The inductive invariant.                                                *)

\* t[i] is what remains of the frames of the messages s after the first i.
Trail(t, s) ==
  /\ t \in [0 .. Len(s) -> Seq(Byte)]
  /\ t[Len(s)] = <<>>
  /\ \A i \in 0 .. Len(s) - 1 : t[i] = Frame(s[i + 1]) \o t[i + 1]
  /\ \A i, j \in 0 .. Len(s) : i < j => Len(t[j]) < Len(t[i])

\* The message that is being received.
Current == sent[Len(received) + 1]

\* What the reader still has to make messages of: at a header, all frames after
\* those received; in a body, that body and the frames after it.
InFlight == (buf \o stream) \o toWrite
AtHeader(t) == part = "header" /\ need = HeaderSize /\ InFlight = t[Len(received)]
AtBody(t) ==
  /\ part = "body" /\ Len(received) < Len(sent) /\ need = Len(Current)
  /\ InFlight = Current \o t[Len(received) + 1]
FlightOK ==
  \E t : Trail(t, sent) /\ (part # "stopped" => AtHeader(t) \/ AtBody(t))

PrefixOK ==
  /\ Len(received) <= Len(sent)
  /\ \A i \in 1 .. Len(received) : received[i] = sent[i]

ReadingOK ==
  /\ need \in Nat
  /\ IF part = "stopped" THEN need = 0 /\ buf = <<>> ELSE Len(buf) < need
  /\ part = "body" => ~TooLong(need)
  /\ outcome = "none" <=> part # "stopped"
  /\ outcome = "end" => ~wOpen

WritingOK ==
  IF sent = <<>> THEN toWrite = <<>> ELSE Len(toWrite) <= Len(Frame(Last(sent)))

FInv == TypeOK /\ FlightOK /\ PrefixOK /\ ReadingOK /\ WritingOK /\ OutcomeRight

LEMMA FInvInit == Init => FInv
<1> SUFFICES ASSUME Init PROVE FInv
  OBVIOUS
<1>1. Len(sent) = 0 /\ Len(received) = 0 /\ Len(buf) = 0 /\ Len(stream) = 0
  BY EmptySeq DEF Init
<1>2. TypeOK
  BY <1>1, EmptySeq, FramingAssumption DEF Init, TypeOK
<1>3. FlightOK
  <2> DEFINE t == [i \in 0 .. 0 |-> <<>>]
  <2>1. Trail(t, sent)
    BY <1>1, EmptySeq DEF Trail
  <2>2. AtHeader(t)
    <3>1. InFlight = <<>>
      BY EmptySeq, ConcatEmptySeq DEF Init, InFlight
    <3> QED BY <3>1, <1>1 DEF Init, AtHeader
  <2> HIDE DEF t
  <2> QED BY <2>1, <2>2 DEF FlightOK
<1>4. PrefixOK
  BY <1>1 DEF PrefixOK
<1>5. ReadingOK
  BY <1>1, FramingAssumption DEF Init, ReadingOK
<1>6. WritingOK
  BY DEF Init, WritingOK
<1>7. OutcomeRight
  BY DEF Init, OutcomeRight
<1> QED BY <1>2, <1>3, <1>4, <1>5, <1>6, <1>7 DEF FInv

\* A message more lengthens every rest of the trail by its frame.
LEMMA TrailGrows ==
  ASSUME NEW s \in Seq(Body), NEW body \in Body, NEW t, Trail(t, s)
  PROVE  \E u : /\ Trail(u, Append(s, body))
                /\ \A i \in 0 .. Len(s) : u[i] = t[i] \o Frame(body)
<1> DEFINE f == Frame(body)
           s1 == Append(s, body)
<1>1. PICK n \in Nat : n = Len(s)
  BY LenProperties
<1>2. f \in Seq(Byte) /\ Len(f) \in Nat /\ Len(f) > 0
  <2>1. PICK l \in Nat : l = Len(body)
    BY BodyIsSequence, LenProperties
  <2>2. HeaderSize + l \in Nat /\ HeaderSize + l > 0
    BY FramingAssumption
  <2> QED BY <2>1, <2>2, FrameIsSequence
<1>3. Len(s1) = n + 1 /\ s1[n + 1] = body /\ \A i \in 1 .. n : s1[i] = s[i]
  BY <1>1, AppendProperties
<1>4. /\ t \in [0 .. n -> Seq(Byte)] /\ t[n] = <<>>
      /\ \A i \in 0 .. n - 1 : t[i] = Frame(s[i + 1]) \o t[i + 1]
      /\ \A i, j \in 0 .. n : i < j => Len(t[j]) < Len(t[i])
  BY <1>1 DEF Trail
<1> DEFINE u == [i \in 0 .. n + 1 |-> IF i <= n THEN t[i] \o f ELSE <<>>]
<1>5. \A i \in 0 .. n : u[i] = t[i] \o f
  OBVIOUS
<1>6. u[n + 1] = <<>>
  OBVIOUS
<1>7. u \in [0 .. n + 1 -> Seq(Byte)]
  <2>1. \A i \in 0 .. n : t[i] \o f \in Seq(Byte)
    BY <1>2, <1>4, ConcatProperties
  <2>2. <<>> \in Seq(Byte)
    BY EmptySeq
  <2> HIDE DEF f
  <2> QED BY <2>1, <2>2
<1> HIDE DEF u
<1>8. ASSUME NEW i \in 0 .. n PROVE u[i] = Frame(s1[i + 1]) \o u[i + 1]
  <2>1. CASE i = n
    <3>1. u[i] = f
      BY <1>2, <1>4, <1>5, <2>1, ConcatEmptySeq
    <3>2. Frame(s1[i + 1]) \o u[i + 1] = f
      BY <1>2, <1>3, <1>6, <2>1, ConcatEmptySeq
    <3> QED BY <3>1, <3>2
  <2>2. CASE i < n
    <3>1. i \in 0 .. n - 1 /\ i + 1 \in 1 .. n /\ i + 1 \in 0 .. n
      BY <2>2
    <3>2. Frame(s[i + 1]) \in Seq(Byte) /\ t[i + 1] \in Seq(Byte) /\ f \in Seq(Byte)
      <4>1. s[i + 1] \in Body
        BY <1>1, <3>1, ElementOfSeq
      <4> QED BY <4>1, <1>2, <1>4, <3>1, FrameIsSequence
    <3>3. u[i] = (Frame(s[i + 1]) \o t[i + 1]) \o f
      BY <1>4, <1>5, <3>1
    <3>4. u[i] = Frame(s[i + 1]) \o (t[i + 1] \o f)
      <4> DEFINE a == Frame(s[i + 1])
                 b == t[i + 1]
      <4>1. a \in Seq(Byte) /\ b \in Seq(Byte) /\ f \in Seq(Byte)
        BY <3>2
      <4>2. (a \o b) \o f = a \o (b \o f)
        <5> HIDE DEF a, b, f
        <5> QED BY <4>1, ConcatAssociative
      <4> QED BY <3>3, <4>2
    <3> QED BY <1>3, <1>5, <3>1, <3>4
  <2>3. i = n \/ i < n
    BY <1>1, <1>8
  <2> QED BY <2>1, <2>2, <2>3
<1>9. ASSUME NEW i \in 0 .. n + 1, NEW j \in 0 .. n + 1, i < j
      PROVE  Len(u[j]) < Len(u[i])
  <2>1. PICK l \in Nat : l = Len(f) /\ l > 0
    BY <1>2
  <2>2. PICK a \in Nat : a = Len(t[i]) /\ Len(u[i]) = a + l
    <3>1. i \in 0 .. n
      BY <1>9
    <3>2. t[i] \in Seq(Byte) /\ u[i] = t[i] \o f
      BY <1>4, <1>5, <3>1
    <3>3. Len(t[i]) \in Nat /\ Len(u[i]) = Len(t[i]) + Len(f)
      <4> HIDE DEF f
      <4> QED BY <1>2, <3>2, LenProperties, ConcatProperties
    <3> QED BY <2>1, <3>3
  <2>3. CASE j = n + 1
    BY <1>6, <2>1, <2>2, <2>3, EmptySeq
  <2>4. CASE j <= n
    <3>1. PICK b \in Nat : b = Len(t[j]) /\ Len(u[j]) = b + l
      <4>1. t[j] \in Seq(Byte) /\ u[j] = t[j] \o f
        <5>1. j \in 0 .. n
          BY <1>1, <1>9, <2>4
        <5> QED BY <1>4, <1>5, <5>1
      <4>2. Len(t[j]) \in Nat /\ Len(u[j]) = Len(t[j]) + Len(f)
        <5> HIDE DEF f
        <5> QED BY <1>2, <4>1, LenProperties, ConcatProperties
      <4> QED BY <2>1, <4>2
    <3>2. b < a
      BY <1>4, <1>9, <2>2, <2>4, <3>1
    <3>3. b + l < a + l
      BY <3>2
    <3> QED BY <2>2, <3>1, <3>3
  <2> QED BY <2>3, <2>4
<1>10. Trail(u, s1)
  <2>1. \A i \in 0 .. Len(s1) - 1 : i \in 0 .. n
    BY <1>3
  <2> HIDE DEF s1
  <2> QED BY <1>3, <1>6, <1>7, <1>8, <1>9, <2>1 DEF Trail
<1> QED BY <1>1, <1>5, <1>10

----------------------------------------------------------------------------
(* The writer's steps.                                                     *)

LEMMA SendMsgStep ==
  ASSUME FInv, NEW body \in Body, SendMsg(body)
  PROVE  FInv'
<1> DEFINE f == Frame(body)
<1>1. /\ sent \in Seq(Body) /\ received \in Seq(Body)
      /\ toWrite = <<>> /\ wOpen /\ sent' = Append(sent, body) /\ toWrite' = f
      /\ UNCHANGED <<writer, reader, wOpen, stream, rVars>>
  BY DEF FInv, TypeOK, SendMsg
<1>2. f \in Seq(Byte)
  BY FrameIsSequence
<1>3. PICK n \in Nat : n = Len(sent)
  BY <1>1, LenProperties
<1>4. PICK r \in Nat : r = Len(received) /\ r <= n
  BY <1>1, <1>3, LenProperties DEF FInv, PrefixOK
<1>5. /\ sent' \in Seq(Body) /\ Len(sent') = n + 1 /\ sent'[n + 1] = body
      /\ sent' # <<>> /\ \A i \in 1 .. n : sent'[i] = sent[i]
  BY <1>1, <1>3, AppendProperties
<1>6. TypeOK'
  BY <1>1, <1>2, <1>5 DEF FInv, TypeOK, rVars
<1>7. FlightOK'
  <2>1. PICK t : Trail(t, sent) /\ (part # "stopped" => AtHeader(t) \/ AtBody(t))
    BY DEF FInv, FlightOK
  <2>2. PICK u : Trail(u, sent') /\ \A i \in 0 .. n : u[i] = t[i] \o f
    <3>1. \E u : /\ Trail(u, Append(sent, body))
                 /\ \A i \in 0 .. Len(sent) : u[i] = t[i] \o Frame(body)
      BY <1>1, <2>1, TrailGrows
    <3> QED BY <1>1, <1>3, <3>1
  <2>3. \A i \in 0 .. n : t[i] \in Seq(Byte)
    BY <1>3, <2>1 DEF Trail
  <2>4. InFlight' = InFlight \o f
    <3>1. InFlight' = (buf \o stream) \o f
      BY <1>1 DEF InFlight, rVars
    <3>2. buf \o stream \in Seq(Byte) /\ InFlight = (buf \o stream) \o <<>>
      BY <1>1, ConcatProperties DEF FInv, TypeOK, InFlight
    <3> QED BY <3>1, <3>2, ConcatEmptySeq
  <2>5. CASE part = "stopped"
    BY <1>1, <2>2, <2>5 DEF FlightOK, rVars
  <2>6. CASE part # "stopped" /\ AtHeader(t)
    <3>1. r \in 0 .. n
      BY <1>4
    <3>2. InFlight' = u[r]
      BY <1>4, <2>2, <2>4, <2>6, <3>1 DEF AtHeader
    <3>3. AtHeader(u)'
      BY <1>1, <1>4, <2>6, <3>2 DEF AtHeader, rVars
    <3> QED BY <2>2, <3>3 DEF FlightOK
  <2>7. CASE part # "stopped" /\ AtBody(t)
    <3>1. r < n /\ r + 1 \in 0 .. n /\ r + 1 \in 1 .. n
      BY <1>3, <1>4, <2>7 DEF AtBody
    <3>2. Current' = Current /\ Current \in Seq(Byte)
      <4>1. sent[r + 1] \in Body
        BY <1>1, <1>3, <3>1, ElementOfSeq
      <4>2. Current = sent[r + 1]
        BY <1>4 DEF Current
      <4>3. Current' = sent'[r + 1]
        BY <1>1, <1>4 DEF Current, rVars
      <4> QED BY <1>5, <3>1, <4>1, <4>2, <4>3, BodyIsSequence
    <3>3. InFlight' = (Current \o t[r + 1]) \o f
      BY <1>4, <2>4, <2>7 DEF AtBody
    <3>4. (Current \o t[r + 1]) \o f = Current \o (t[r + 1] \o f)
      <4> HIDE DEF f
      <4>1. t[r + 1] \in Seq(Byte)
        BY <2>3, <3>1
      <4> QED BY <1>2, <3>2, <4>1, Regroup
    <3>5. InFlight' = Current' \o u[r + 1]
      BY <2>2, <3>1, <3>2, <3>3, <3>4
    <3>6. Len(received)' < Len(sent')
      BY <1>1, <1>4, <1>5, <3>1 DEF rVars
    <3>7. AtBody(u)'
      BY <1>1, <1>4, <2>7, <3>2, <3>5, <3>6 DEF AtBody, rVars
    <3> QED BY <2>2, <3>7 DEF FlightOK
  <2> QED BY <2>1, <2>5, <2>6, <2>7
<1>8. PrefixOK'
  <2>1. Len(received') = r /\ received' = received
    BY <1>1, <1>4 DEF rVars
  <2>2. \A i \in 1 .. r : received[i] = sent'[i]
    BY <1>4, <1>5 DEF FInv, PrefixOK
  <2> QED BY <1>4, <1>5, <2>1, <2>2 DEF PrefixOK
<1>9. ReadingOK'
  BY <1>1 DEF FInv, ReadingOK, rVars, TooLong
<1>10. WritingOK'
  <2>1. Last(sent)' = body
    BY <1>5 DEF Last
  <2>2. Len(f) \in Nat
    BY <1>2, LenProperties
  <2> QED BY <1>1, <1>5, <2>1, <2>2 DEF WritingOK
<1>11. OutcomeRight'
  <2>1. outcome' # "end"
    BY <1>1 DEF FInv, ReadingOK, rVars
  <2>2. ASSUME outcome' = "error"
        PROVE  /\ Len(sent') > Len(received')
               /\ reader' = "c" /\ Len(sent'[Len(received') + 1]) >= BufSize
    <3>1. Len(sent) > Len(received) /\ TooLong(Len(sent[Len(received) + 1]))
      BY <1>1, <2>2 DEF FInv, OutcomeRight, rVars
    <3>2. reader = "c" /\ Len(sent[r + 1]) >= BufSize
      BY <1>4, <3>1 DEF TooLong
    <3>3. r + 1 \in 1 .. n /\ n + 1 > r
      BY <1>3, <1>4, <3>1
    <3>4. sent'[r + 1] = sent[r + 1] /\ Len(received') = r
      BY <1>1, <1>4, <1>5, <3>3 DEF rVars
    <3>5. Len(sent') > Len(received')
      BY <1>5, <3>3, <3>4
    <3> QED BY <1>1, <3>4, <3>2, <3>5
  <2> QED BY <2>1, <2>2 DEF OutcomeRight, TooLong
<1> QED BY <1>6, <1>7, <1>8, <1>9, <1>10, <1>11 DEF FInv

\* A write moves bytes from the writer to the socket and changes none of them.
LEMMA WriteStep == FInv /\ Write => FInv'
<1> SUFFICES ASSUME FInv, Write PROVE FInv'
  OBVIOUS
<1>1. PICK k \in 1 .. Offered :
        /\ Len(stream) + k <= Capacity
        /\ stream' = stream \o SubSeq(toWrite, 1, k)
        /\ toWrite' = SubSeq(toWrite, k + 1, Len(toWrite))
  BY DEF Write, Rest
<1>2. /\ wOpen /\ toWrite # <<>> /\ part # "stopped"
      /\ UNCHANGED <<writer, reader, sent, wOpen, rVars>>
  BY DEF Write
<1>3. /\ sent \in Seq(Body) /\ toWrite \in Seq(Byte) /\ stream \in Seq(Byte)
      /\ buf \in Seq(Byte)
  BY DEF FInv, TypeOK
<1>4. PICK l \in Nat : l = Len(toWrite)
  BY <1>3, LenProperties
<1>5. sent # <<>> /\ l <= Len(Frame(Last(sent)))
  BY <1>2, <1>4 DEF FInv, WritingOK
<1>6. PICK m \in Nat : m = Len(sent) /\ m > 0
  BY <1>3, <1>5, EmptySeq, LenProperties
<1>7. Last(sent) \in Body
  <2>1. m \in 1 .. Len(sent)
    BY <1>6
  <2> QED BY <1>3, <1>6, <2>1, ElementOfSeq DEF Last
<1>8. k \in Nat /\ k <= l
  <2>1. PICK b \in Nat : b = Len(Last(sent))
    BY <1>7, BodyIsSequence, LenProperties
  <2>2. k \in 1 .. (IF writer = "c" /\ l > b THEN l - b ELSE l)
    BY <1>1, <1>4, <2>1 DEF Offered
  <2> QED BY <2>2
<1> DEFINE head == SubSeq(toWrite, 1, k)
           tail == SubSeq(toWrite, k + 1, Len(toWrite))
<1>9. /\ head \in Seq(Byte) /\ tail \in Seq(Byte) /\ Len(head) = k /\ Len(tail) = l - k
      /\ toWrite = head \o tail
  BY <1>3, <1>4, <1>8, CutSequence
<1>10. stream' = stream \o head /\ toWrite' = tail
  BY <1>1
<1> HIDE DEF head, tail
<1>11. stream' \in Seq(Byte) /\ Len(stream') <= Capacity
  BY <1>1, <1>3, <1>9, <1>10, ConcatProperties
<1>12. TypeOK'
  BY <1>2, <1>9, <1>10, <1>11 DEF FInv, TypeOK, rVars
<1>13. InFlight' = InFlight
  <2>1. InFlight' = (buf \o (stream \o head)) \o tail
    BY <1>2, <1>10 DEF InFlight, rVars
  <2>2. InFlight = (buf \o stream) \o (head \o tail)
    BY <1>9 DEF InFlight
  <2>3. buf \o (stream \o head) = (buf \o stream) \o head /\ buf \o stream \in Seq(Byte)
    BY <1>3, <1>9, Regroup
  <2>4. ((buf \o stream) \o head) \o tail = (buf \o stream) \o (head \o tail)
    BY <1>9, <2>3, Regroup
  <2> QED BY <2>1, <2>2, <2>3, <2>4
<1>14. FlightOK'
  BY <1>2, <1>13 DEF FInv, FlightOK, AtHeader, AtBody, Current, rVars
<1>15. PrefixOK'
  BY <1>2 DEF FInv, PrefixOK, rVars
<1>16. ReadingOK'
  BY <1>2 DEF FInv, ReadingOK, TooLong, rVars
<1>17. WritingOK'
  <2>1. PICK c \in Nat : c = Len(Frame(Last(sent)))
    BY <1>7, FrameIsSequence, LenProperties
  <2>2. l - k <= c
    BY <1>5, <1>8, <2>1
  <2> QED BY <1>2, <1>5, <1>9, <1>10, <2>1, <2>2 DEF WritingOK
<1>18. OutcomeRight'
  <2>1. outcome' = "none"
    BY <1>2 DEF FInv, ReadingOK, rVars
  <2> QED BY <2>1 DEF OutcomeRight
<1> QED BY <1>12, <1>14, <1>15, <1>16, <1>17, <1>18 DEF FInv

LEMMA WriterClosesStep == FInv /\ WriterCloses => FInv'
<1> SUFFICES ASSUME FInv, WriterCloses PROVE FInv'
  OBVIOUS
<1>1. /\ wOpen /\ ~wOpen'
      /\ UNCHANGED <<writer, reader, sent, toWrite, stream, rVars>>
  BY DEF WriterCloses
<1>2. TypeOK' /\ PrefixOK' /\ ReadingOK' /\ WritingOK'
  BY <1>1 DEF FInv, TypeOK, PrefixOK, ReadingOK, WritingOK, TooLong, rVars
<1>3. FlightOK'
  BY <1>1 DEF FInv, FlightOK, AtHeader, AtBody, Current, InFlight, rVars
<1>4. OutcomeRight'
  BY <1>1 DEF FInv, ReadingOK, OutcomeRight, TooLong, rVars
<1> QED BY <1>2, <1>3, <1>4 DEF FInv

----------------------------------------------------------------------------
(* The reader's steps.                                                     *)

\* One read of k bytes: what the part has then, and what follows.
Now(k) == buf \o SubSeq(stream, 1, k)
Kept(k) == SubSeq(stream, k + 1, Len(stream))
Ahead(k) == Kept(k) \o toWrite

LEMMA ReadBytes ==
  ASSUME FInv, part # "stopped", NEW k \in 1 .. Missing, k <= Len(stream)
  PROVE  /\ Now(k) \in Seq(Byte) /\ Kept(k) \in Seq(Byte) /\ Ahead(k) \in Seq(Byte)
         /\ (k < Missing => Len(Now(k)) < need) /\ (k = Missing => Len(Now(k)) = need)
         /\ Len(Kept(k)) <= Capacity
         /\ InFlight = Now(k) \o Ahead(k)
<1> DEFINE head == SubSeq(stream, 1, k)
           tail == SubSeq(stream, k + 1, Len(stream))
<1>1. /\ buf \in Seq(Byte) /\ stream \in Seq(Byte) /\ toWrite \in Seq(Byte)
      /\ Len(stream) <= Capacity /\ need \in Nat
  BY DEF FInv, TypeOK, ReadingOK
<1>2. PICK l \in Nat : l = Len(stream)
  BY <1>1, LenProperties
<1>3. PICK b \in Nat : b = Len(buf)
  BY <1>1, LenProperties
<1>4. k \in Nat /\ k \in 1 .. need - b /\ k <= l
  BY <1>1, <1>2, <1>3 DEF Missing
<1>5. /\ head \in Seq(Byte) /\ tail \in Seq(Byte) /\ Len(head) = k /\ Len(tail) = l - k
      /\ stream = head \o tail
  BY <1>1, <1>2, <1>4, CutSequence
<1>6. Now(k) = buf \o head /\ Kept(k) = tail /\ Ahead(k) = tail \o toWrite
  BY DEF Now, Kept, Ahead
<1>7. head \in Seq(Byte) /\ tail \in Seq(Byte) /\ Len(head) = k
  BY <1>5
<1> HIDE DEF head, tail
<1>8. Now(k) \in Seq(Byte) /\ Len(Now(k)) = b + k /\ Ahead(k) \in Seq(Byte)
  <2>1. buf \in Seq(Byte) /\ toWrite \in Seq(Byte)
    BY <1>1
  <2>2. buf \o head \in Seq(Byte) /\ Len(buf \o head) = Len(buf) + Len(head)
    BY <1>7, <2>1, ConcatProperties
  <2>3. tail \o toWrite \in Seq(Byte)
    BY <1>7, <2>1, ConcatProperties
  <2> QED BY <1>3, <1>6, <1>7, <2>2, <2>3
<1>9. Len(Kept(k)) <= Capacity
  <2>1. l <= Capacity
    BY <1>1, <1>2
  <2>2. l - k <= Capacity
    BY <1>4, <2>1, FramingAssumption
  <2> QED BY <1>5, <1>6, <2>2
<1>10. (k < Missing => Len(Now(k)) < need) /\ (k = Missing => Len(Now(k)) = need)
  <2>1. PICK m \in Int : m = need - b
    BY <1>1
  <2>2. Missing = m
    BY <1>3, <2>1 DEF Missing
  <2>3. PICK w \in Nat : w = b + k
    BY <1>4
  <2>4. (k < m => w < need) /\ (k = m => w = need)
    BY <1>1, <1>4, <2>1, <2>3
  <2> QED BY <1>8, <2>2, <2>3, <2>4
<1>11. InFlight = Now(k) \o Ahead(k)
  <2>1. InFlight = (buf \o (head \o tail)) \o toWrite
    BY <1>5 DEF InFlight
  <2>2. buf \o (head \o tail) = (buf \o head) \o tail /\ buf \o head \in Seq(Byte)
    <3>1. buf \in Seq(Byte)
      BY <1>1
    <3> QED BY <1>7, <3>1, Regroup
  <2>3. ((buf \o head) \o tail) \o toWrite = (buf \o head) \o (tail \o toWrite)
    BY <1>1, <1>5, <2>2, Regroup
  <2> QED BY <1>6, <2>1, <2>2, <2>3
<1> QED BY <1>5, <1>6, <1>8, <1>9, <1>10, <1>11

\* A trail from where the reader is: its message, if there is one, and the rest.
LEMMA TrailHead ==
  ASSUME FInv, NEW t, Trail(t, sent), Len(received) < Len(sent)
  PROVE  /\ Current \in Body
         /\ t[Len(received) + 1] \in Seq(Byte)
         /\ t[Len(received)] =
              Header(Len(Current)) \o (Current \o t[Len(received) + 1])
<1>1. PICK n \in Nat : n = Len(sent)
  BY LenProperties DEF FInv, TypeOK
<1>2. PICK r \in Nat : r = Len(received)
  BY LenProperties DEF FInv, TypeOK
<1>3. r \in 0 .. n - 1 /\ r + 1 \in 0 .. n /\ r + 1 \in 1 .. n
  BY <1>1, <1>2
<1>4. Current \in Body
  BY <1>1, <1>2, <1>3, ElementOfSeq DEF FInv, TypeOK, Current
<1>5. t[r + 1] \in Seq(Byte) /\ t[r] = Frame(Current) \o t[r + 1]
  BY <1>1, <1>2, <1>3 DEF Trail, Current
<1>6. (Header(Len(Current)) \o Current) \o t[r + 1] =
        Header(Len(Current)) \o (Current \o t[r + 1])
  <2>1. Header(Len(Current)) \in Seq(Byte) /\ Current \in Seq(Byte)
    BY <1>4, BodyIsSequence, HeaderDecodes
  <2> QED BY <1>5, <2>1, Regroup
<1> QED BY <1>2, <1>4, <1>5, <1>6 DEF Frame

\* What a read leaves alone.
Others == UNCHANGED <<writer, reader, sent, toWrite, wOpen>>

\* The reader stands before a message of which nothing has been read.
LEMMA ReturnStep ==
  ASSUME FInv, NEW t, Trail(t, sent), NEW rest \in Seq(Byte),
         part # "stopped", Len(received) < Len(sent), Others,
         stream' = rest, Len(rest) <= Capacity,
         rest \o toWrite = t[Len(received) + 1], Return(Current)
  PROVE  FInv'
<1>1. PICK n \in Nat : n = Len(sent)
  BY LenProperties DEF FInv, TypeOK
<1>2. PICK r \in Nat : r = Len(received)
  BY LenProperties DEF FInv, TypeOK
<1>3. r < n /\ r + 1 <= n
  BY <1>1, <1>2
<1>4. Current \in Body /\ Current = sent[r + 1]
  BY <1>2, TrailHead DEF Current
<1>5. /\ received' = Append(received, Current) /\ part' = "header"
      /\ need' = HeaderSize /\ buf' = <<>> /\ outcome' = outcome
  BY DEF Return, Await
<1>6. /\ received' \in Seq(Body) /\ Len(received') = r + 1
      /\ received'[r + 1] = Current /\ \A i \in 1 .. r : received'[i] = received[i]
  BY <1>2, <1>4, <1>5, AppendProperties DEF FInv, TypeOK
<1>7. outcome = "none"
  BY DEF FInv, ReadingOK
<1>8. Len(buf') = 0 /\ buf' \in Seq(Byte)
  BY <1>5, EmptySeq
<1>9. TypeOK'
  BY <1>5, <1>6, <1>8, FramingAssumption DEF FInv, TypeOK, Others
<1>10. FlightOK'
  <2>1. InFlight' = t[r + 1]
    <3>1. InFlight' = (<<>> \o rest) \o toWrite
      BY <1>5 DEF InFlight, Others
    <3> QED BY <1>2, <3>1, ConcatEmptySeq
  <2>2. AtHeader(t)'
    BY <1>5, <1>6, <2>1 DEF AtHeader
  <2>3. Trail(t, sent')
    BY DEF Others
  <2> QED BY <2>2, <2>3 DEF FlightOK
<1>11. PrefixOK'
  <2>1. \A i \in 1 .. r + 1 : received'[i] = sent[i]
    <3>1. \A i \in 1 .. r : received'[i] = sent[i]
      BY <1>2, <1>6 DEF FInv, PrefixOK
    <3> QED BY <1>4, <1>6, <3>1
  <2> QED BY <1>1, <1>3, <1>6, <2>1 DEF PrefixOK, Others
<1>12. ReadingOK'
  BY <1>5, <1>7, <1>8, FramingAssumption DEF ReadingOK
<1>13. WritingOK'
  BY DEF FInv, WritingOK, Others
<1>14. OutcomeRight'
  BY <1>5, <1>7 DEF OutcomeRight
<1> QED BY <1>9, <1>10, <1>11, <1>12, <1>13, <1>14 DEF FInv

\* A read that does not complete the part.
LEMMA PartialStep ==
  ASSUME FInv, part # "stopped", NEW k \in 1 .. Missing, k <= Len(stream), k < Missing,
         Others, stream' = Kept(k), buf' = Now(k),
         UNCHANGED <<part, need, received, outcome>>
  PROVE  FInv'
<1>1. /\ Now(k) \in Seq(Byte) /\ Kept(k) \in Seq(Byte) /\ Len(Now(k)) < need
      /\ Len(Kept(k)) <= Capacity /\ InFlight = Now(k) \o Ahead(k)
  BY ReadBytes
<1>2. outcome = "none" /\ need \in Nat /\ Len(Now(k)) \in Nat
  BY <1>1, LenProperties DEF FInv, ReadingOK
<1>3. TypeOK'
  BY <1>1, <1>2 DEF FInv, TypeOK, Others
<1>4. InFlight' = InFlight
  <2>1. InFlight' = (Now(k) \o Kept(k)) \o toWrite
    BY DEF InFlight, Others
  <2>2. toWrite \in Seq(Byte)
    BY DEF FInv, TypeOK
  <2>3. (Now(k) \o Kept(k)) \o toWrite = Now(k) \o (Kept(k) \o toWrite)
    BY <1>1, <2>2, Regroup
  <2> QED BY <1>1, <2>1, <2>3 DEF Ahead
<1>5. FlightOK'
  BY <1>4 DEF FInv, FlightOK, AtHeader, AtBody, Current, Others
<1>6. PrefixOK' /\ WritingOK'
  BY DEF FInv, PrefixOK, WritingOK, Others
<1>7. ReadingOK'
  BY <1>1 DEF FInv, ReadingOK, TooLong, Others
<1>8. OutcomeRight'
  BY <1>2 DEF OutcomeRight
<1> QED BY <1>3, <1>5, <1>6, <1>7, <1>8 DEF FInv

\* A header that is complete is that of the message the reader stands before.
LEMMA HeaderRead ==
  ASSUME FInv, NEW t, Trail(t, sent), AtHeader(t),
         NEW now \in Seq(Byte), NEW ahead \in Seq(Byte),
         Len(now) = need, InFlight = now \o ahead
  PROVE  /\ Len(received) < Len(sent)
         /\ Decode(now) = Len(Current)
         /\ ahead = Current \o t[Len(received) + 1]
<1>1. PICK n \in Nat : n = Len(sent)
  BY LenProperties DEF FInv, TypeOK
<1>2. PICK r \in Nat : r = Len(received) /\ r <= n
  BY <1>1, LenProperties DEF FInv, TypeOK, PrefixOK
<1>3. Len(now) = HeaderSize /\ t[r] = now \o ahead
  BY <1>2 DEF AtHeader
<1>4. r # n
  <2>1. PICK a \in Nat : a = Len(ahead)
    BY LenProperties
  <2>2. HeaderSize + a # 0
    BY FramingAssumption
  <2>3. Len(now \o ahead) = HeaderSize + a
    BY <1>3, <2>1, ConcatProperties
  <2>4. t[r] # <<>>
    BY <1>3, <2>2, <2>3, EmptySeq
  <2> QED BY <1>1, <2>4 DEF Trail
<1>5. Len(received) < Len(sent)
  <2>1. r < n
    BY <1>2, <1>4
  <2> QED BY <1>1, <1>2, <2>1
<1> DEFINE h == Header(Len(Current))
           body == Current \o t[r + 1]
<1>6. /\ Current \in Body /\ t[r + 1] \in Seq(Byte) /\ t[r] = h \o body
  BY <1>2, <1>5, TrailHead
<1>7. /\ h \in Seq(Byte) /\ Len(h) = HeaderSize /\ Decode(h) = Len(Current)
      /\ Current \in Seq(Byte)
  BY <1>6, BodyIsSequence, HeaderDecodes
<1>8. body \in Seq(Byte)
  BY <1>6, <1>7, ConcatProperties
<1>9. now = h /\ ahead = body
  <2>1. now \o ahead = h \o body /\ Len(now) = Len(h)
    BY <1>3, <1>6, <1>7
  <2>2. h \in Seq(Byte)
    BY <1>7
  <2> HIDE DEF h, body
  <2> QED BY <1>8, <2>1, <2>2, SameCut
<1> QED BY <1>2, <1>5, <1>7, <1>9

\* Once a header is read: an empty message is returned, one that is too long ends
\* the reader, and any other is awaited.
LEMMA GotHeaderStep ==
  ASSUME FInv, NEW t, Trail(t, sent), AtHeader(t), part # "stopped",
         NEW now \in Seq(Byte), NEW rest \in Seq(Byte), Len(rest) <= Capacity,
         Len(now) = need, InFlight = now \o (rest \o toWrite),
         Others, stream' = rest, GotHeader(Decode(now))
  PROVE  FInv'
<1>1. toWrite \in Seq(Byte)
  BY DEF FInv, TypeOK
<1>2. rest \o toWrite \in Seq(Byte)
  BY <1>1, ConcatProperties
<1>3. /\ Len(received) < Len(sent) /\ Decode(now) = Len(Current)
      /\ rest \o toWrite = Current \o t[Len(received) + 1]
  BY <1>2, HeaderRead
<1>4. Current \in Body /\ t[Len(received) + 1] \in Seq(Byte)
  BY <1>3, TrailHead
<1>5. Current \in Seq(Byte)
  BY <1>4, BodyIsSequence
<1>6. PICK l \in Nat : l = Len(Current)
  BY <1>5, LenProperties
<1>7. GotHeader(l)
  BY <1>3, <1>6
<1>8. CASE l = 0 /\ Return(<<>>)
  <2>1. Current = <<>>
    BY <1>5, <1>6, <1>8, EmptySeq
  <2>2. rest \o toWrite = t[Len(received) + 1]
    BY <1>3, <1>4, <2>1, ConcatEmptySeq
  <2>3. Return(Current)
    BY <1>8, <2>1
  <2> QED BY <1>3, <2>2, <2>3, ReturnStep
<1>9. CASE l > 0 /\ TooLong(l) /\ Stop("error") /\ UNCHANGED received
  <2>1. /\ part' = "stopped" /\ need' = 0 /\ buf' = <<>> /\ outcome' = "error"
        /\ received' = received
    BY <1>9 DEF Stop, Await
  <2>2. TypeOK'
    BY <2>1, EmptySeq DEF FInv, TypeOK, Others
  <2>3. FlightOK'
    BY <2>1 DEF FlightOK, Others
  <2>4. PrefixOK' /\ WritingOK'
    BY <2>1 DEF FInv, PrefixOK, WritingOK, Others
  <2>5. ReadingOK'
    BY <2>1 DEF ReadingOK
  <2>6. OutcomeRight'
    <3>1. Len(sent') > Len(received')
      <4>1. PICK n \in Nat : n = Len(sent)
        BY LenProperties DEF FInv, TypeOK
      <4>2. PICK r \in Nat : r = Len(received)
        BY LenProperties DEF FInv, TypeOK
      <4>3. n > r
        BY <1>3, <4>1, <4>2
      <4> QED BY <2>1, <4>1, <4>2, <4>3 DEF Others
    <3>2. reader' = "c" /\ Len(sent'[Len(received') + 1]) >= BufSize
      BY <1>6, <1>9, <2>1 DEF TooLong, Others, Current
    <3> QED BY <2>1, <3>1, <3>2 DEF OutcomeRight, TooLong
  <2> QED BY <2>2, <2>3, <2>4, <2>5, <2>6 DEF FInv
<1>10. CASE l > 0 /\ ~TooLong(l) /\ Await("body", l) /\ UNCHANGED <<received, outcome>>
  <2>1. /\ part' = "body" /\ need' = l /\ buf' = <<>> /\ outcome' = outcome
        /\ received' = received /\ Len(buf') = 0 /\ buf' \in Seq(Byte)
    BY <1>10, EmptySeq DEF Await
  <2>2. outcome = "none"
    BY DEF FInv, ReadingOK
  <2>3. TypeOK'
    <3>1. reader = "c" => l + 1 <= BufSize
      BY <1>10, FramingAssumption DEF TooLong
    <3> QED BY <2>1, <3>1 DEF FInv, TypeOK, Others
  <2>4. FlightOK'
    <3>1. InFlight' = rest \o toWrite
      <4>1. InFlight' = (<<>> \o rest) \o toWrite
        BY <2>1 DEF InFlight, Others
      <4> QED BY <4>1, ConcatEmptySeq
    <3>2. AtBody(t)'
      BY <1>3, <1>6, <2>1, <3>1 DEF AtBody, Current, Others
    <3>3. Trail(t, sent')
      BY DEF Others
    <3> QED BY <3>2, <3>3 DEF FlightOK
  <2>5. PrefixOK' /\ WritingOK'
    BY <2>1 DEF FInv, PrefixOK, WritingOK, Others
  <2>6. ReadingOK'
    BY <1>10, <2>1, <2>2 DEF ReadingOK, TooLong, Others
  <2>7. OutcomeRight'
    BY <2>1, <2>2 DEF OutcomeRight
  <2> QED BY <2>3, <2>4, <2>5, <2>6, <2>7 DEF FInv
<1> QED BY <1>7, <1>8, <1>9, <1>10 DEF GotHeader

LEMMA ReadStep == FInv /\ Read => FInv'
<1> SUFFICES ASSUME FInv, Read PROVE FInv'
  OBVIOUS
<1>1. part # "stopped" /\ Others
  BY DEF Read, wVars, Others
<1>2. PICK k \in 1 .. Missing :
        /\ k <= Len(stream) /\ stream' = Kept(k)
        /\ CASE k < Missing -> buf' = Now(k) /\ UNCHANGED <<part, need, received, outcome>>
             [] k = Missing /\ part = "header" -> GotHeader(Decode(Now(k)))
             [] k = Missing /\ part = "body" -> Return(Now(k))
  BY DEF Read, Now, Kept
<1>3. (k < Missing /\ k # Missing) \/ (k = Missing /\ ~(k < Missing))
  <2>1. PICK b \in Nat : b = Len(buf)
    BY LenProperties DEF FInv, TypeOK
  <2>2. PICK m \in Int : m = need - b
    BY DEF FInv, ReadingOK
  <2>3. Missing = m
    BY <2>1, <2>2 DEF Missing
  <2>4. k \in 1 .. m
    BY <1>2, <2>3
  <2>5. (k < m /\ k # m) \/ (k = m /\ ~(k < m))
    BY <2>4
  <2> QED BY <2>3, <2>5
<1>4. CASE k < Missing /\ k # Missing
  <2>1. buf' = Now(k) /\ UNCHANGED <<part, need, received, outcome>>
    BY <1>2, <1>4
  <2> QED BY <1>1, <1>2, <1>4, <2>1, PartialStep
<1>5. CASE k = Missing /\ ~(k < Missing)
  <2>1. PICK t : Trail(t, sent) /\ (AtHeader(t) \/ AtBody(t))
    BY <1>1 DEF FInv, FlightOK
  <2>2. /\ Now(k) \in Seq(Byte) /\ Kept(k) \in Seq(Byte) /\ Ahead(k) \in Seq(Byte)
        /\ Len(Now(k)) = need /\ Len(Kept(k)) <= Capacity
        /\ InFlight = Now(k) \o Ahead(k) /\ Ahead(k) = Kept(k) \o toWrite
    BY <1>1, <1>2, <1>5, ReadBytes DEF Ahead
  <2>3. CASE AtHeader(t)
    <3>1. GotHeader(Decode(Now(k)))
      BY <1>2, <1>5, <2>3 DEF AtHeader
    <3> QED BY <1>1, <1>2, <2>1, <2>2, <2>3, <3>1, GotHeaderStep
  <2>4. CASE AtBody(t)
    <3>1. Return(Now(k))
      BY <1>2, <1>5, <2>4 DEF AtBody
    <3>2. /\ Len(received) < Len(sent) /\ need = Len(Current)
          /\ InFlight = Current \o t[Len(received) + 1]
      BY <2>4 DEF AtBody
    <3>3. Current \in Body /\ t[Len(received) + 1] \in Seq(Byte)
      BY <2>1, <3>2, TrailHead
    <3>4. Current \in Seq(Byte)
      BY <3>3, BodyIsSequence
    <3>5. Now(k) = Current /\ Ahead(k) = t[Len(received) + 1]
      <4>1. Now(k) \o Ahead(k) = Current \o t[Len(received) + 1] /\ Len(Now(k)) = Len(Current)
        BY <2>2, <3>2
      <4> QED BY <2>2, <3>3, <3>4, <4>1, SameCut
    <3>6. Return(Current) /\ Kept(k) \o toWrite = t[Len(received) + 1]
      BY <2>2, <3>1, <3>5
    <3> QED BY <1>1, <1>2, <2>1, <2>2, <3>2, <3>6, ReturnStep
  <2> QED BY <2>1, <2>3, <2>4
<1> QED BY <1>3, <1>4, <1>5

\* The clean end comes when the reader stands between two messages and the writer has
\* closed with nothing written of the next one; any other end cuts a message short.
LEMMA ReadEndStep == FInv /\ ReadEnd => FInv'
<1> SUFFICES ASSUME FInv, ReadEnd PROVE FInv'
  OBVIOUS
<1>1. /\ part # "stopped" /\ ~wOpen /\ stream = <<>> /\ received' = received
      /\ part' = "stopped" /\ need' = 0 /\ buf' = <<>>
      /\ outcome' = (IF EndIsClean THEN "end" ELSE "error")
      /\ UNCHANGED <<writer, reader, sent, toWrite, wOpen, stream>>
  BY DEF ReadEnd, Stop, Await, wVars
<1>2. TypeOK'
  BY <1>1, EmptySeq DEF FInv, TypeOK
<1>3. FlightOK'
  BY <1>1 DEF FInv, FlightOK
<1>4. PrefixOK' /\ WritingOK'
  BY <1>1 DEF FInv, PrefixOK, WritingOK
<1>5. ReadingOK'
  BY <1>1 DEF ReadingOK
<1>6. PICK t : Trail(t, sent) /\ (AtHeader(t) \/ AtBody(t))
  BY <1>1 DEF FInv, FlightOK
<1>7. PICK n \in Nat : n = Len(sent)
  BY LenProperties DEF FInv, TypeOK
<1>8. PICK r \in Nat : r = Len(received) /\ r <= n
  BY <1>7, LenProperties DEF FInv, TypeOK, PrefixOK
<1>9. buf \in Seq(Byte) /\ toWrite \in Seq(Byte) /\ need \in Nat /\ Len(buf) < need
  BY <1>1 DEF FInv, TypeOK, ReadingOK
<1>10. InFlight = buf \o toWrite
  <2>1. buf \o <<>> = buf
    BY <1>9, ConcatEmptySeq
  <2> QED BY <1>1, <2>1 DEF InFlight
<1>11. ASSUME r < n
       PROVE  /\ Current \in Body /\ Current \in Seq(Byte) /\ t[r + 1] \in Seq(Byte)
              /\ t[r] = Header(Len(Current)) \o (Current \o t[r + 1])
  BY <1>6, <1>7, <1>8, <1>11, TrailHead, BodyIsSequence
<1>12. ASSUME ~EndIsClean, reader = "python"
       PROVE  toWrite # <<>>
  <2> SUFFICES ASSUME toWrite = <<>> PROVE FALSE
    OBVIOUS
  <2>1. InFlight = buf
    BY <1>9, <1>10, ConcatEmptySeq
  <2>2. CASE AtHeader(t)
    <3>1. buf # <<>> /\ t[r] = buf /\ need = HeaderSize
      BY <1>8, <1>12, <2>1, <2>2 DEF AtHeader, EndIsClean
    <3>2. r < n
      <4>1. r # n
        BY <1>6, <1>7, <3>1 DEF Trail
      <4> QED BY <1>8, <4>1
    <3>3. PICK body \in Seq(Byte) : t[r] = Header(Len(Current)) \o body
      BY <1>11, <3>2, ConcatProperties
    <3>4. Header(Len(Current)) \in Seq(Byte) /\ Len(Header(Len(Current))) = HeaderSize
      BY <1>11, <3>2, BodyIsSequence, HeaderDecodes
    <3>5. Len(t[r]) = HeaderSize + Len(body)
      BY <3>3, <3>4, ConcatProperties
    <3>6. PICK b \in Nat : b = Len(body)
      BY LenProperties
    <3>7. PICK c \in Nat : c = Len(buf)
      BY <1>9, LenProperties
    <3>8. c < HeaderSize /\ c = HeaderSize + b
      BY <1>9, <3>1, <3>5, <3>6, <3>7
    <3> QED BY <3>8, FramingAssumption
  <2>3. CASE AtBody(t)
    <3>1. r < n /\ need = Len(Current) /\ buf = Current \o t[r + 1]
      BY <1>7, <1>8, <2>1, <2>3 DEF AtBody
    <3>2. PICK a \in Nat : a = Len(Current)
      BY <1>11, <3>1, LenProperties
    <3>3. PICK b \in Nat : b = Len(t[r + 1])
      BY <1>11, <3>1, LenProperties
    <3>4. Len(buf) = a + b
      BY <1>11, <3>1, <3>2, <3>3, ConcatProperties
    <3>5. a + b < a
      BY <1>9, <3>1, <3>2, <3>4
    <3> QED BY <3>5
  <2> QED BY <1>6, <2>2, <2>3
<1>13. ASSUME EndIsClean
       PROVE  r = IF sent = <<>> THEN 0
                  ELSE n - (IF toWrite = Frame(Last(sent)) THEN 1 ELSE 0)
  <2>1. buf = <<>> /\ AtHeader(t)
    BY <1>6, <1>13 DEF EndIsClean, AtBody
  <2>2. toWrite = t[r]
    BY <1>8, <1>9, <1>10, <2>1, ConcatEmptySeq DEF AtHeader
  <2>3. CASE sent = <<>>
    <3>1. n = 0
      BY <1>7, <2>3, EmptySeq
    <3> QED BY <1>8, <2>3, <3>1
  <2>4. CASE sent # <<>>
    <3>1. n > 0
      <4>1. sent \in Seq(Body)
        BY DEF FInv, TypeOK
      <4> QED BY <1>7, <2>4, <4>1, EmptySeq
    <3>2. n - 1 \in 0 .. n - 1 /\ (n - 1) + 1 = n /\ n \in 1 .. n /\ n - 1 \in 0 .. n
      BY <3>1
    <3>3. Last(sent) \in Body /\ Last(sent) = sent[n]
      BY <1>7, <3>2, ElementOfSeq DEF FInv, TypeOK, Last
    <3> DEFINE f == Frame(Last(sent))
    <3>4. PICK l \in Nat : l = Len(f) /\ l > 0
      <4>1. PICK b \in Nat : b = Len(Last(sent))
        BY <3>3, BodyIsSequence, LenProperties
      <4>2. HeaderSize + b \in Nat /\ HeaderSize + b > 0
        BY FramingAssumption
      <4> QED BY <3>3, <4>1, <4>2, FrameIsSequence
    <3>5. t[n] = <<>> /\ t[n - 1] = f
      <4>1. t[n] = <<>> /\ t[n - 1] = f \o t[n]
        BY <1>6, <1>7, <3>2, <3>3 DEF Trail
      <4>2. f \in Seq(Byte)
        BY <3>3, FrameIsSequence
      <4> HIDE DEF f
      <4> QED BY <4>1, <4>2, ConcatEmptySeq
    <3>6. r >= n - 1
      <4> SUFFICES ASSUME r < n - 1 PROVE FALSE
        BY <1>7, <1>8
      <4>1. r \in 0 .. n
        BY <1>8
      <4>2. Len(t[n - 1]) < Len(t[r])
        BY <1>6, <1>7, <3>2, <4>1 DEF Trail
      <4>3. PICK w \in Nat : w = Len(toWrite)
        BY <1>9, LenProperties
      <4>4. w <= l
        BY <2>4, <3>4, <4>3 DEF FInv, WritingOK
      <4>5. l < w
        BY <2>2, <3>4, <3>5, <4>2, <4>3
      <4> QED BY <4>4, <4>5
    <3>7. CASE r = n
      <4>1. toWrite = <<>>
        BY <2>2, <3>5, <3>7
      <4>2. toWrite # f
        BY <3>4, <4>1, EmptySeq
      <4> QED BY <1>7, <2>4, <3>7, <4>2
    <3>8. CASE r = n - 1
      <4>1. toWrite = f
        BY <2>2, <3>5, <3>8
      <4> QED BY <2>4, <3>8, <4>1
    <3>9. r = n \/ r = n - 1
      BY <1>7, <1>8, <3>6
    <3> QED BY <3>7, <3>8, <3>9
  <2> QED BY <2>3, <2>4
<1>14. OutcomeRight'
  <2>1. CASE EndIsClean
    <3>1. outcome' = "end" /\ received' = received /\ sent' = sent /\ toWrite' = toWrite
      BY <1>1, <2>1
    <3>2. Len(received) = IF sent = <<>> THEN 0
                          ELSE Len(sent) - (IF toWrite = Frame(Last(sent)) THEN 1 ELSE 0)
      BY <1>7, <1>8, <1>13, <2>1
    <3> QED BY <3>1, <3>2 DEF OutcomeRight
  <2>2. CASE ~EndIsClean
    <3>1. reader = "c" \/ reader = "python"
      BY DEF FInv, TypeOK
    <3>2. CASE reader = "c"
      BY <1>1, <2>2, <3>2 DEF OutcomeRight
    <3>3. CASE reader = "python"
      BY <1>1, <1>12, <2>2, <3>3 DEF OutcomeRight
    <3> QED BY <3>1, <3>2, <3>3
  <2> QED BY <2>1, <2>2
<1> QED BY <1>2, <1>3, <1>4, <1>5, <1>14 DEF FInv

----------------------------------------------------------------------------
(* The theorems.                                                           *)

LEMMA FInvStep == FInv /\ [Next]_vars => FInv'
<1> SUFFICES ASSUME FInv, [Next]_vars PROVE FInv'
  OBVIOUS
<1>1. CASE \E body \in Body : SendMsg(body)
  BY <1>1, SendMsgStep
<1>2. CASE Write
  BY <1>2, WriteStep
<1>3. CASE WriterCloses
  BY <1>3, WriterClosesStep
<1>4. CASE Read
  BY <1>4, ReadStep
<1>5. CASE ReadEnd
  BY <1>5, ReadEndStep
<1>6. CASE UNCHANGED vars
  BY <1>6 DEF vars, wVars, rVars, FInv, TypeOK, FlightOK, AtHeader, AtBody, Current,
              InFlight, PrefixOK, ReadingOK, WritingOK, OutcomeRight, TooLong
<1> QED BY <1>1, <1>2, <1>3, <1>4, <1>5, <1>6 DEF Next

\* The invariant of a connection, for every size and any number of messages.
THEOREM FramingInvariance == Spec => []FInv
BY FInvInit, FInvStep, PTL DEF Spec

\* Type correctness: no body that the C reader accepts reaches past its buffer.
THEOREM FramingTypeCorrect == Spec => []TypeOK
<1>1. FInv => TypeOK
  BY DEF FInv
<1> QED BY <1>1, FramingInvariance, PTL

\* What recv_msg has returned is what was given to send_msg, in order.
THEOREM ReceivedInOrder == Spec => []InOrderIntact
<1>1. FInv => InOrderIntact
  <2> SUFFICES ASSUME FInv PROVE InOrderIntact
    OBVIOUS
  <2>1. /\ sent \in Seq(Body) /\ received \in Seq(Body)
        /\ Len(received) <= Len(sent) /\ \A i \in 1 .. Len(received) : received[i] = sent[i]
    BY DEF FInv, TypeOK, PrefixOK
  <2>2. PICK r \in Nat : r = Len(received)
    BY <2>1, LenProperties
  <2>3. PICK n \in Nat : n = Len(sent) /\ r <= n
    BY <2>1, <2>2, LenProperties
  <2> DEFINE a == SubSeq(received, 1, r)
             b == SubSeq(sent, 1, r)
  <2>4. a \in Seq(Body) /\ a = received
    BY <2>1, <2>2, SubSeqFull
  <2>5. b \in Seq(Body) /\ Len(b) = r /\ \A i \in 1 .. r : b[i] = sent[i]
    <3>1. \A i \in 1 .. r : sent[i] \in Body
      BY <2>1, <2>3, ElementOfSeq
    <3>2. /\ b \in Seq(Body)
          /\ Len(b) = IF 1 <= r THEN r - 1 + 1 ELSE 0
          /\ \A i \in 1 .. r - 1 + 1 : b[i] = sent[1 + i - 1]
      BY <3>1, SubSeqProperties
    <3> HIDE DEF b
    <3> QED BY <3>2
  <2>6. a = b
    <3>1. Len(a) = r /\ \A i \in 1 .. r : a[i] = b[i]
      BY <2>1, <2>2, <2>4, <2>5
    <3> HIDE DEF a, b
    <3> QED BY <2>4, <2>5, <3>1, SeqEqual
  <2> QED BY <2>1, <2>2, <2>6 DEF InOrderIntact, IsPrefix
<1> QED BY <1>1, FramingInvariance, PTL

\* A clean end loses no message of which a byte was written, and an error has a cause.
THEOREM EndsRight == Spec => []OutcomeRight
<1>1. FInv => OutcomeRight
  BY DEF FInv
<1> QED BY <1>1, FramingInvariance, PTL
=============================================================================
