------------------------- MODULE Arithmetic_proofs -------------------------
(***************************************************************************)
(* What the arithmetic of the kernel and of the mock computes, for words   *)
(* of every size.                                                          *)
(***************************************************************************)
EXTENDS Arithmetic, TLAPS

\* The two numbers that \div and % stand for.
LEMMA Division ==
  ASSUME NEW n \in Int, NEW m \in Nat \ {0}
  PROVE  /\ n \div m \in Int /\ n % m \in 0 .. m - 1
         /\ n = m * (n \div m) + (n % m)
OBVIOUS

\* Wrapping yields a word, ...
LEMMA WrapInWord == ASSUME NEW n \in Int PROVE Wrap(n) \in Word
BY HalfAssumption DEF Wrap, Word, IntMin, IntMax, Modulus

\* ... that differs from what is wrapped by a multiple of the modulus, ...
LEMMA WrapCongruent == ASSUME NEW n \in Int PROVE (Wrap(n) - n) % Modulus = 0
<1> DEFINE k == (n - IntMin) \div Modulus
<1>1. Modulus \in Nat \ {0} /\ IntMin \in Int
  BY HalfAssumption DEF Modulus, IntMin
<1>2. k \in Int /\ n - IntMin = Modulus * k + ((n - IntMin) % Modulus)
  BY <1>1, Division
<1>3. Wrap(n) - n = Modulus * (-k)
  BY <1>1, <1>2 DEF Wrap
<1>4. \A i \in Int : (Modulus * i) % Modulus = 0
  BY <1>1
<1> QED BY <1>2, <1>3, <1>4

\* ... and is a word itself.
LEMMA WrapOfWord == ASSUME NEW n \in Word PROVE Wrap(n) = n
BY HalfAssumption DEF Wrap, Word, IntMin, IntMax, Modulus

\* The kernel's quotient is that of C.
LEMMA QuotientRight ==
  ASSUME NEW a \in Int, NEW b \in Int \ {0}
  PROVE  Quotient(a, b) \in Int /\ IsQuotient(a, b, Quotient(a, b))
<1> DEFINE m == Magnitude(a)
           d == Magnitude(b)
           q == m \div d
           rest == m % d
<1>1. m \in Int /\ d \in Nat \ {0}
  BY DEF Magnitude
<1>2. Quotient(a, b) = IF (a < 0) = (b < 0) THEN q ELSE -q
  BY DEF Quotient
<1>3. m = (IF a < 0 THEN -a ELSE a) /\ d = (IF b < 0 THEN -b ELSE b)
  BY DEF Magnitude
<1> HIDE DEF m, d
<1>4. q \in Int /\ rest \in 0 .. d - 1 /\ m = d * q + rest
  BY <1>1, Division
<1> HIDE DEF q, rest
<1>5. a - b * Quotient(a, b) = IF a < 0 THEN -rest ELSE rest
  BY <1>2, <1>3, <1>4
<1> QED BY <1>1, <1>2, <1>3, <1>4, <1>5 DEF IsQuotient, Magnitude, d

\* There is only one.
LEMMA QuotientUnique ==
  ASSUME NEW a \in Int, NEW b \in Int \ {0}, NEW r \in Int, NEW s \in Int,
         IsQuotient(a, b, r), IsQuotient(a, b, s)
  PROVE  r = s
<1>1. Magnitude(b) \in Nat \ {0}
  BY DEF Magnitude
<1>2. b * (r - s) \in Int /\ Magnitude(b * (r - s)) < Magnitude(b)
  <2>1. b * (r - s) = (a - b * s) - (a - b * r)
    OBVIOUS
  <2> QED BY <2>1 DEF IsQuotient, Magnitude
<1>3. r - s < 1 /\ r - s > -1
  BY <1>1, <1>2 DEF Magnitude
<1> QED BY <1>3

\* Every quotient of two words is a word but the one that is not.
LEMMA QuotientInWord ==
  ASSUME NEW a \in Word, NEW b \in Word \ {0}, ~Unrepresentable("DIV", a, b)
  PROVE  Quotient(a, b) \in Word
<1> DEFINE q == Magnitude(a) \div Magnitude(b)
<1>1. a \in Int /\ b \in Int /\ Magnitude(a) \in 0 .. Half /\ Magnitude(b) \in Nat \ {0}
  BY HalfAssumption DEF Magnitude, Word, IntMin, IntMax
<1>2. q \in Int /\ q >= 0 /\ q <= Magnitude(a)
  BY <1>1
<1>3. Magnitude(b) >= 2 => q < Half
  BY <1>1, HalfAssumption
<1> HIDE DEF q
<1>4. Quotient(a, b) = IF (a < 0) = (b < 0) THEN q ELSE -q
  BY DEF Quotient, q
<1>5. CASE Magnitude(b) >= 2
  BY <1>2, <1>3, <1>4, <1>5, HalfAssumption DEF Word, IntMin, IntMax
<1>6. CASE b = 1
  BY <1>1, <1>2, <1>4, <1>6, HalfAssumption DEF Word, IntMin, IntMax, Magnitude
<1>7. CASE b = -1
  <2>1. a # IntMin
    BY <1>7 DEF Unrepresentable
  <2> QED
    BY <1>1, <1>2, <1>4, <1>7, <2>1, HalfAssumption DEF Word, IntMin, IntMax, Magnitude
<1> QED BY <1>1, <1>5, <1>6, <1>7 DEF Magnitude

\* Where its quotient is exact, or its operands have one sign, the mock divides
\* as the kernel does: the floor is the quotient of C.
THEOREM MockQuotient ==
  ASSUME NEW a \in Int, NEW b \in Int \ {0},
         NEW r \in Int, IsQuotient(a, b, r), a = b * r \/ (a < 0) = (b < 0)
  PROVE  MockCalculate("DIV", a, b) = r
<1> DEFINE n == IF b > 0 THEN a ELSE -a
           q == n \div Magnitude(b)
           rest == n % Magnitude(b)
<1>1. Magnitude(b) \in Nat \ {0} /\ n \in Int
  BY DEF Magnitude
<1>2. q \in Int /\ rest \in 0 .. Magnitude(b) - 1 /\ n = Magnitude(b) * q + rest
  BY <1>1, Division
<1>3. MockCalculate("DIV", a, b) = q
  BY DEF MockCalculate, FloorQuotient, Magnitude
<1> HIDE DEF q, rest
<1>4. IsQuotient(a, b, q)
  <2>1. a - b * q = IF b > 0 THEN rest ELSE -rest
    BY <1>2 DEF Magnitude
  <2>2. CASE (a < 0) = (b < 0)
    BY <1>1, <1>2, <2>1, <2>2 DEF IsQuotient, Magnitude
  <2>3. CASE a = b * r
    <3>1. rest = Magnitude(b) * (r - q)
      BY <1>2, <2>3 DEF Magnitude
    <3>2. r - q < 1 /\ r - q > -1
      BY <1>1, <1>2, <3>1
    <3>3. rest = 0
      BY <1>1, <1>2, <3>1, <3>2
    <3> QED BY <1>1, <2>1, <3>3 DEF IsQuotient, Magnitude
  <2> QED BY <2>2, <2>3
<1> QED BY <1>2, <1>3, <1>4, QuotientUnique
=============================================================================
