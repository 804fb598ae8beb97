----------------------------- MODULE Arithmetic -----------------------------
(***************************************************************************)
(* The arithmetic of mathdev_calculate on s64, the range of which is a     *)
(* parameter, and of the mock server, which computes on Python's integers. *)
(***************************************************************************)
EXTENDS Integers

CONSTANT Half                   \* half the values of s64: 2^63

ASSUME HalfAssumption == Half \in Nat /\ Half >= 2

Modulus == 2 * Half
IntMin == -Half
IntMax == Half - 1
Word   == IntMin .. IntMax

\* Faulty variant of Wrap: an overflow leaves the word.
WrapNot(n) == n

\* Signed overflow of +, - and * in the kernel, which is built so that it wraps.
Wrap(n) == ((n - IntMin) % Modulus) + IntMin

Magnitude(n) == IF n < 0 THEN -n ELSE n

\* The quotient of C, which truncates toward zero; TLA+'s \div rounds down.
Quotient(a, b) ==
  LET q == Magnitude(a) \div Magnitude(b)
  IN  IF (a < 0) = (b < 0) THEN q ELSE -q

OpCode == {"ADD", "SUB", "MUL", "DIV"}

\* The one quotient that is not a value of s64.
Unrepresentable(op, a, b) == op = "DIV" /\ a = IntMin /\ b = -1

\* Reference: r is a / b in the sense of C; the remainder has the sign of a.
IsQuotient(a, b, r) ==
  LET rest == a - b * r
  IN  Magnitude(rest) < Magnitude(b) /\ (rest = 0 \/ (rest < 0) = (a < 0))

\* mathdev_calculate: what it returns ...
Errno(op, a, b) ==
  CASE op \notin OpCode    -> "EINVAL"
    [] op = "DIV" /\ b = 0 -> "EDOM"
    [] OTHER               -> "0"

\* Faulty variant of Calculate: SUB and DIV take their operands in the wrong order.
CalculateSwapped(op, a, b) ==
  CASE op = "ADD" -> Wrap(a + b)
    [] op = "SUB" -> Wrap(b - a)
    [] op = "MUL" -> Wrap(a * b)
    [] op = "DIV" -> IF a = 0 THEN 0 ELSE Wrap(Quotient(b, a))

\* ... and the result it leaves when it returns 0.
Calculate(op, a, b) ==
  CASE op = "ADD" -> Wrap(a + b)
    [] op = "SUB" -> Wrap(a - b)
    [] op = "MUL" -> Wrap(a * b)
    [] op = "DIV" -> Wrap(Quotient(a, b))

\* MockKernelInterface.calculate: Python's integers do not overflow, and //
\* rounds down.
FloorQuotient(a, b) == IF b > 0 THEN a \div b ELSE (-a) \div (-b)

MockCalculate(op, a, b) ==
  CASE op = "ADD" -> a + b
    [] op = "SUB" -> a - b
    [] op = "MUL" -> a * b
    [] op = "DIV" -> FloorQuotient(a, b)
=============================================================================
