------------------------------ MODULE Numbers ------------------------------
(***************************************************************************)
(* Numbers as text and as doubles: what the C client's own conversions and *)
(* Python's int() make of a line, and what cJSON makes of an integer.      *)
(***************************************************************************)
EXTENDS Arithmetic, Digits, FiniteSetsExt

CONSTANTS
  Precision,       \* the bits of a double's significand
  StrSize          \* INT_STR_SIZE

\* 2^63 has more than one digit and is no multiple of ten.  The buffer has room
\* for its digits, the sign and the NUL.
ASSUME NumbersAssumption ==
  /\ Precision \in Nat \ {0}
  /\ Half > 8 /\ Half % 10 # 0
  /\ StrSize \in Nat /\ StrSize >= 3
  /\ Shifts(Half, 10, StrSize - 2)[StrSize - 2] = 0

\* Characters: the digits, and what else the code tells apart.
Digit      == 0 .. 9
Minus      == -1
Plus       == -2
Blank      == -3
CR         == -4
Underscore == -5
Letter     == -6
Char       == Letter .. 9

\* A line without certain characters.
Without(s, C) ==
  LET kept[k \in 0 .. Len(s)] ==
        IF k = 0 THEN <<>>
        ELSE IF s[k] \in C THEN kept[k - 1]
        ELSE Append(kept[k - 1], s[k])
  IN  kept[Len(s)]

\* A line without its sign.
Unsigned(s) == IF s # <<>> /\ s[1] \in {Minus, Plus} THEN Tail(s) ELSE s

\* Reference: an optional sign and digits, and the number they denote.
IsNumeral(s) == Unsigned(s) # <<>> /\ \A i \in DOMAIN Unsigned(s) : Unsigned(s)[i] \in Digit
Denotes(s) ==
  LET n == FromDigits(Unsigned(s), 10)
  IN  IF s[1] = Minus THEN -n ELSE n

\* Each of the following yields a set: of the one number, or none if it refuses.

\* Faulty variant of NoOverflow: the next digit may wrap the accumulator.
NoOverflowUnguarded(acc) == TRUE

\* Faulty variant of InRange: both signs reach as far.
InRangeAnySign(s, acc) == acc <= IntMax + 1

\* The guard of parse_int64 before a digit, and its cap after it.
NoOverflow(acc) == acc <= IntMax \div 10
InRange(s, acc) == acc <= IF s[1] = Minus THEN IntMax + 1 ELSE IntMax

\* parse_int64: acc is a uint64_t.  The negation of IntMin overflows; the
\* build's negation wraps.
AddDigit(s, accs, c) ==
  {n \in {(acc * 10 + c) % Modulus : acc \in {x \in accs : c \in Digit /\ NoOverflow(x)}} :
     InRange(s, n)}
ParseInt64(s) ==
  LET d == Unsigned(s)
      accs[k \in 0 .. Len(d)] == IF k = 0 THEN {0} ELSE AddDigit(s, accs[k - 1], d[k])
  IN  IF d = <<>> THEN {} ELSE {IF s[1] = Minus THEN Wrap(-acc) ELSE acc : acc \in accs[Len(d)]}

\* str.strip.
Strip(s) ==
  LET ink == {i \in DOMAIN s : s[i] \notin {Blank, CR}}
  IN  IF ink = {} THEN <<>> ELSE SubSeq(s, Min(ink), Max(ink))

\* int() of a stripped line: single underscores may separate the digits.
PyInt(s) ==
  LET d     == Unsigned(s)
      plain == Without(s, {Underscore})
  IN  IF /\ IsNumeral(plain)
         /\ \A i \in DOMAIN d :
              d[i] = Underscore => i > 1 /\ i < Len(d) /\ d[i + 1] # Underscore
      THEN {Denotes(plain)}
      ELSE {}

\* Faulty variant of Int64ToStr: the sign is lost.
Int64ToStrUnsigned(v) ==
  LET m == Magnitude(v)
  IN  ToDigits(m, 10, Min({k \in 1 .. StrSize - 2 : Shifts(m, 10, k)[k] = 0}))

\* int64_to_str: digits until nothing is left.
Int64ToStr(v) ==
  LET m == Magnitude(v)
      d == ToDigits(m, 10, Min({k \in 1 .. StrSize - 2 : Shifts(m, 10, k)[k] = 0}))
  IN  IF v < 0 THEN <<Minus>> \o d ELSE d

\* The double nearest to an integer, ties to the even significand; an integer of
\* no more bits than that is a double.
Double(n) ==
  LET m    == Magnitude(n)
      k    == CHOOSE j \in 0 .. m :
                /\ m < 2 ^ (j + Precision)
                /\ j = 0 \/ m >= 2 ^ (j + Precision - 1)
      unit == 2 ^ k
      q    == m \div unit
      rest == m % unit
      near == IF 2 * rest > unit \/ (2 * rest = unit /\ q % 2 = 1) THEN q + 1 ELSE q
  IN  IF m <= 2 ^ Precision THEN n
      ELSE IF n < 0 THEN -(near * unit) ELSE near * unit

\* (int64_t) of a double that int64_t cannot hold is undefined: one end or the
\* other of the range, as the processors have it.
CastInt64(d) == IF d \in Word THEN {d} ELSE {IntMin, IntMax}
=============================================================================
