--------------------------- MODULE Digits_proofs ---------------------------
(***************************************************************************)
(* The digits of a number stand for it, whatever the base; and what such   *)
(* proofs need: induction and recursion over numbers, stated for sets and  *)
(* functions.                                                              *)
(***************************************************************************)
EXTENDS Digits, SequenceTheorems, WellFoundedInduction, TLAPS

----------------------------------------------------------------------------
(* Recursion over 0 .. N.                                                  *)

LEMMA LeastOfSet ==
  ASSUME NEW T \in SUBSET Nat, T # {}
  PROVE  \E x \in T : \A y \in T : x <= y
<1> DEFINE R == OpToRel(<, Nat)
<1>1. PICK x \in T : \A y \in T : ~(<<y, x>> \in R)
  <2>1. IsWellFoundedOn(R, Nat)
    BY NatLessThanWellFounded
  <2> HIDE DEF R
  <2> QED BY <2>1, WFMin
<1>2. ASSUME NEW y \in T PROVE x <= y
  <2>1. <<y, x>> \in Nat \X Nat
    OBVIOUS
  <2> QED BY <1>1, <2>1 DEF OpToRel
<1> QED BY <1>2

\* Induction, for the set of the numbers that have the property.
LEMMA InductiveSet ==
  ASSUME NEW S, 0 \in S, \A n \in Nat : n \in S => n + 1 \in S
  PROVE  Nat \subseteq S
<1> SUFFICES ASSUME Nat \ S # {} PROVE FALSE
  OBVIOUS
<1>1. PICK x \in Nat \ S : \A y \in Nat \ S : x <= y
  BY LeastOfSet
<1>2. x # 0 /\ x - 1 \in Nat /\ x - 1 \notin Nat \ S
  BY <1>1
<1> QED BY <1>1, <1>2

\* g is defined by recursion on 0 .. N: its first value is x0, and F has its steps.
Steps(N, F, X) == F \in [1 .. N -> [X -> X]]
Recursive(g, N, x0, F, X) ==
  /\ g \in [0 .. N -> X]
  /\ g[0] = x0 /\ \A k \in 1 .. N : g[k] = F[k][g[k - 1]]

LEMMA RecursionWorks ==
  ASSUME NEW N \in Nat, NEW X, NEW x0 \in X, NEW F, Steps(N, F, X)
  PROVE  \E g : Recursive(g, N, x0, F, X)
<1> DEFINE Upto(n, g) == g[0] = x0 /\ \A k \in 1 .. n : g[k] = F[k][g[k - 1]]
           S == {n \in Nat : n <= N => \E g \in [0 .. n -> X] : Upto(n, g)}
<1>1. 0 \in S
  <2> DEFINE g == [k \in 0 .. 0 |-> x0]
  <2>1. g \in [0 .. 0 -> X] /\ Upto(0, g)
    OBVIOUS
  <2> QED BY <2>1
<1>2. ASSUME NEW n \in Nat, n \in S PROVE n + 1 \in S
  <2> SUFFICES ASSUME n + 1 <= N
               PROVE  \E g \in [0 .. n + 1 -> X] : Upto(n + 1, g)
    OBVIOUS
  <2>1. PICK g \in [0 .. n -> X] : Upto(n, g)
    BY <1>2
  <2> DEFINE f == [k \in 0 .. n + 1 |-> IF k <= n THEN g[k] ELSE F[n + 1][g[n]]]
  <2>2. n + 1 \in 1 .. N /\ n \in 0 .. n
    OBVIOUS
  <2>3. F[n + 1] \in [X -> X] /\ g[n] \in X
    BY <2>2 DEF Steps
  <2>4. F[n + 1][g[n]] \in X
    BY <2>3
  <2>5. f \in [0 .. n + 1 -> X]
    BY <2>4
  <2>6. f[0] = x0
    BY <2>1
  <2>7. ASSUME NEW k \in 1 .. n + 1 PROVE f[k] = F[k][f[k - 1]]
    <3>1. CASE k <= n
      <4>1. k \in 1 .. n /\ k - 1 \in 0 .. n /\ k \in 0 .. n + 1 /\ k - 1 \in 0 .. n + 1
        BY <3>1
      <4>2. f[k] = g[k] /\ f[k - 1] = g[k - 1]
        BY <3>1, <4>1
      <4> QED BY <4>1, <4>2, <2>1
    <3>2. CASE k = n + 1
      <4>1. k \in 0 .. n + 1 /\ k - 1 = n /\ n \in 0 .. n + 1 /\ ~(k <= n)
        BY <3>2
      <4>2. f[k] = F[n + 1][g[n]] /\ f[n] = g[n]
        BY <4>1
      <4> QED BY <3>2, <4>1, <4>2
    <3> QED BY <3>1, <3>2
  <2> QED BY <2>5, <2>6, <2>7
<1>3. N \in S
  <2> HIDE DEF S
  <2> QED BY <1>1, <1>2, InductiveSet
<1> QED BY <1>3 DEF Recursive

LEMMA RecursionStays ==
  ASSUME NEW N \in Nat, NEW X, NEW x0, NEW F, NEW g, Recursive(g, N, x0, F, X)
  PROVE  \A k \in 1 .. N : g[k - 1] \in X /\ g[k] = F[k][g[k - 1]]
<1> SUFFICES ASSUME NEW k \in 1 .. N PROVE g[k - 1] \in X /\ g[k] = F[k][g[k - 1]]
  OBVIOUS
<1>1. k - 1 \in 0 .. N
  OBVIOUS
<1>2. g \in [0 .. N -> X]
  BY DEF Recursive
<1> QED BY <1>1, <1>2 DEF Recursive

\* Two functions that obey the same recursion are equal.
SameStart(f, g) == f[0] = g[0]
SameSteps(f, g, N) == \A k \in 1 .. N : f[k - 1] = g[k - 1] => f[k] = g[k]

LEMMA SameRecursion ==
  ASSUME NEW N \in Nat, NEW f, NEW g,
         SameStart(f, g), SameSteps(f, g, N)
  PROVE  \A k \in 0 .. N : f[k] = g[k]
<1> DEFINE S == {n \in Nat : n <= N => f[n] = g[n]}
<1>1. 0 \in S
  BY DEF SameStart
<1>2. ASSUME NEW n \in Nat, n \in S PROVE n + 1 \in S
  <2> SUFFICES ASSUME n + 1 <= N PROVE f[n + 1] = g[n + 1]
    OBVIOUS
  <2>1. n + 1 \in 1 .. N /\ (n + 1) - 1 = n
    OBVIOUS
  <2>2. f[n] = g[n]
    BY <1>2
  <2> QED BY <2>1, <2>2 DEF SameSteps
<1>3. Nat \subseteq S
  <2> HIDE DEF S
  <2> QED BY <1>1, <1>2, InductiveSet
<1> QED BY <1>3

----------------------------------------------------------------------------
(* Digits.                                                                 *)

LEMMA DivisionByBase ==
  ASSUME NEW b \in Nat, b > 1, NEW m \in Nat
  PROVE  /\ m \div b \in Nat /\ m % b \in 0 .. b - 1
         /\ (m \div b) * b + (m % b) = m
         /\ \A n \in Nat : m <= n => m \div b <= n \div b
OBVIOUS

LEMMA ShiftsValue ==
  ASSUME NEW n \in Nat, NEW b \in Nat, b > 1, NEW w \in Nat
  PROVE  /\ Shifts(n, b, w) \in [0 .. w -> Nat]
         /\ Shifts(n, b, w)[0] = n
         /\ \A k \in 1 .. w : Shifts(n, b, w)[k] = Shifts(n, b, w)[k - 1] \div b
<1> DEFINE F == [k \in 1 .. w |-> [m \in Nat |-> m \div b]]
           q == Shifts(n, b, w)
<1>1. Steps(w, F, Nat)
  BY DivisionByBase DEF Steps
<1>2. PICK g : Recursive(g, w, n, F, Nat)
  <2> HIDE DEF F
  <2> QED BY <1>1, RecursionWorks
<1>3. ASSUME NEW k \in 1 .. w PROVE g[k] = g[k - 1] \div b
  <2>1. \A j \in 1 .. w : g[j - 1] \in Nat /\ g[j] = F[j][g[j - 1]]
    <3> HIDE DEF F
    <3> QED BY <1>2, RecursionStays
  <2>2. g[k - 1] \in Nat /\ g[k] = F[k][g[k - 1]]
    <3> HIDE DEF F
    <3> QED BY <2>1
  <2> QED BY <2>2
<1>4. g = [k \in 0 .. w |-> IF k = 0 THEN n ELSE g[k - 1] \div b]
  <2>1. \A k \in 0 .. w : k # 0 => k \in 1 .. w
    OBVIOUS
  <2> QED BY <1>2, <1>3, <2>1 DEF Recursive
<1>5. q = [k \in 0 .. w |-> IF k = 0 THEN n ELSE q[k - 1] \div b]
  BY <1>4 DEF Shifts
<1> HIDE DEF q
<1>6. q = g
  <2>1. SameSteps(q, g, w)
    <3> SUFFICES ASSUME NEW k \in 1 .. w, q[k - 1] = g[k - 1] PROVE q[k] = g[k]
      BY DEF SameSteps
    <3>1. k \in 0 .. w /\ k # 0
      OBVIOUS
    <3> QED BY <1>5, <1>3, <3>1
  <2>2. SameStart(q, g)
    BY <1>2, <1>5 DEF Recursive, SameStart
  <2>3. \A k \in 0 .. w : q[k] = g[k]
    BY <2>1, <2>2, SameRecursion
  <2>4. q = [k \in 0 .. w |-> q[k]]
    BY <1>5
  <2>5. g = [k \in 0 .. w |-> g[k]]
    BY <1>2 DEF Recursive
  <2> QED BY <2>3, <2>4, <2>5
<1>7. q \in [0 .. w -> Nat] /\ q[0] = n /\ \A k \in 1 .. w : q[k] = q[k - 1] \div b
  BY <1>2, <1>3, <1>6 DEF Recursive
<1> QED BY <1>7 DEF q

LEMMA FromDigitsValue ==
  ASSUME NEW d \in Seq(Int), NEW b \in Int
  PROVE  \E v \in [0 .. Len(d) -> Int] :
           /\ v[0] = 0 /\ FromDigits(d, b) = v[Len(d)]
           /\ \A k \in 1 .. Len(d) : v[k] = v[k - 1] * b + d[k]
<1> PICK w \in Nat : w = Len(d)
  BY LenProperties
<1>1. \A k \in 1 .. w : d[k] \in Int
  BY ElementOfSeq
<1> DEFINE F == [k \in 1 .. w |-> [m \in Int |-> m * b + d[k]]]
<1>2. Steps(w, F, Int)
  BY <1>1 DEF Steps
<1>3. PICK g : Recursive(g, w, 0, F, Int)
  <2>1. 0 \in Int
    OBVIOUS
  <2> HIDE DEF F
  <2> QED BY <1>2, <2>1, RecursionWorks, Zenon
<1>4. ASSUME NEW k \in 1 .. w PROVE g[k] = g[k - 1] * b + d[k]
  <2>1. \A j \in 1 .. w : g[j - 1] \in Int /\ g[j] = F[j][g[j - 1]]
    <3> HIDE DEF F
    <3>1. PICK X, z : X = Int /\ z = 0
      OBVIOUS
    <3>2. Recursive(g, w, z, F, X)
      BY <1>3, <3>1
    <3>3. \A j \in 1 .. w : g[j - 1] \in X /\ g[j] = F[j][g[j - 1]]
      BY <3>2, RecursionStays
    <3> QED BY <3>1, <3>3
  <2>2. g[k - 1] \in Int /\ g[k] = F[k][g[k - 1]]
    <3> HIDE DEF F
    <3> QED BY <2>1
  <2> QED BY <2>2
<1>5. g = [k \in 0 .. w |-> IF k = 0 THEN 0 ELSE g[k - 1] * b + d[k]]
  <2>1. \A k \in 0 .. w : k # 0 => k \in 1 .. w
    OBVIOUS
  <2> QED BY <1>3, <1>4, <2>1 DEF Recursive
<1> DEFINE IsValue(v) ==
             v = [k \in 0 .. Len(d) |-> IF k = 0 THEN 0 ELSE v[k - 1] * b + d[k]]
           f == CHOOSE v : IsValue(v)
<1>6. FromDigits(d, b) = f[Len(d)]
  BY DEF FromDigits
<1>7. f = g
  <2>1. IsValue(f)
    BY <1>5
  <2> HIDE DEF f
  <2>2. SameSteps(f, g, w)
    <3> SUFFICES ASSUME NEW k \in 1 .. w, f[k - 1] = g[k - 1] PROVE f[k] = g[k]
      BY DEF SameSteps
    <3>1. k \in 0 .. w /\ k # 0
      OBVIOUS
    <3> QED BY <2>1, <1>4, <3>1
  <2>3. SameStart(f, g)
    BY <1>3, <2>1 DEF Recursive, SameStart
  <2>4. \A k \in 0 .. w : f[k] = g[k]
    BY <2>2, <2>3, SameRecursion
  <2>5. f = [k \in 0 .. w |-> f[k]]
    BY <2>1
  <2>6. g = [k \in 0 .. w |-> g[k]]
    BY <1>3 DEF Recursive
  <2> QED BY <2>4, <2>5, <2>6
<1> HIDE DEF f
<1> QED BY <1>3, <1>4, <1>6, <1>7 DEF Recursive

\* A greater number leaves more of itself behind each shift.
LEMMA ShiftsMonotonic ==
  ASSUME NEW b \in Nat, b > 1, NEW w \in Nat,
         NEW m \in Nat, NEW n \in Nat, m <= n
  PROVE  \A k \in 0 .. w : Shifts(m, b, w)[k] <= Shifts(n, b, w)[k]
<1> DEFINE p == Shifts(m, b, w)
           q == Shifts(n, b, w)
<1>1. /\ p \in [0 .. w -> Nat] /\ p[0] = m
      /\ \A k \in 1 .. w : p[k] = p[k - 1] \div b
  BY ShiftsValue
<1>2. /\ q \in [0 .. w -> Nat] /\ q[0] = n
      /\ \A k \in 1 .. w : q[k] = q[k - 1] \div b
  BY ShiftsValue
<1> HIDE DEF p, q
<1> DEFINE S == {k \in Nat : k <= w => p[k] <= q[k]}
<1>3. 0 \in S
  BY <1>1, <1>2
<1>4. ASSUME NEW k \in Nat, k \in S PROVE k + 1 \in S
  <2> SUFFICES ASSUME k + 1 <= w PROVE p[k + 1] <= q[k + 1]
    OBVIOUS
  <2>1. k + 1 \in 1 .. w /\ (k + 1) - 1 = k /\ k \in 0 .. w
    OBVIOUS
  <2>2. p[k + 1] = p[k] \div b /\ q[k + 1] = q[k] \div b
    BY <1>1, <1>2, <2>1
  <2>3. p[k] \in Nat /\ q[k] \in Nat /\ p[k] <= q[k]
    BY <1>1, <1>2, <1>4, <2>1
  <2>4. p[k] \div b <= q[k] \div b
    BY <2>3, DivisionByBase
  <2> QED BY <2>2, <2>4
<1>5. Nat \subseteq S
  <2> HIDE DEF S
  <2> QED BY <1>3, <1>4, InductiveSet
<1> QED BY <1>5 DEF p, q

\* What a number is shorter than, smaller numbers are shorter than.
LEMMA SmallerFits ==
  ASSUME NEW b \in Nat, b > 1, NEW w \in Nat,
         NEW m \in Nat, NEW n \in Nat, m <= n, Shifts(n, b, w)[w] = 0
  PROVE  Shifts(m, b, w)[w] = 0
<1> w \in 0 .. w
  OBVIOUS
<1>1. Shifts(m, b, w) \in [0 .. w -> Nat]
  BY ShiftsValue
<1>2. Shifts(m, b, w)[w] \in Nat /\ Shifts(m, b, w)[w] <= Shifts(n, b, w)[w]
  BY <1>1, ShiftsMonotonic
<1> QED BY <1>2

\* FromDigits is the inverse of ToDigits, for every number that w digits can hold.
LEMMA DigitsDenote ==
  ASSUME NEW n \in Nat, NEW b \in Nat, b > 1, NEW w \in Nat,
         Shifts(n, b, w)[w] = 0
  PROVE  /\ ToDigits(n, b, w) \in Seq(0 .. b - 1) /\ Len(ToDigits(n, b, w)) = w
         /\ FromDigits(ToDigits(n, b, w), b) = n
<1> DEFINE d == ToDigits(n, b, w)
           q == Shifts(n, b, w)
<1>1. /\ q \in [0 .. w -> Nat] /\ q[0] = n
      /\ \A k \in 1 .. w : q[k] = q[k - 1] \div b
  <2>1. q \in [0 .. w -> Nat] /\ q[0] = n
    BY ShiftsValue
  <2>2. \A k \in 1 .. w : q[k] = q[k - 1] \div b
    BY ShiftsValue
  <2> QED BY <2>1, <2>2
<1> q[w] = 0
  OBVIOUS
<1>2. d = [i \in 1 .. w |-> q[w - i] % b]
  BY DEF ToDigits
<1> HIDE DEF d, q
<1>3. ASSUME NEW k \in 1 .. w PROVE d[k] = q[w - k] % b /\ q[w - k] \in Nat
  <2>1. w - k \in 0 .. w
    OBVIOUS
  <2> QED BY <2>1, <1>1, <1>2
<1>4. d \in [1 .. w -> 0 .. b - 1]
  <2>1. \A k \in 1 .. w : d[k] \in 0 .. b - 1
    BY <1>3, DivisionByBase
  <2> QED BY <2>1, <1>2
<1>5. d \in Seq(0 .. b - 1) /\ Len(d) = w
  BY <1>4, SeqDef
<1>6. d \in Seq(Int)
  BY <1>5, SeqMonotonic
<1>7. PICK v \in [0 .. w -> Int] :
        /\ v[0] = 0 /\ FromDigits(d, b) = v[w]
        /\ \A k \in 1 .. w : v[k] = v[k - 1] * b + d[k]
  <2>1. PICK u \in [0 .. Len(d) -> Int] :
          /\ u[0] = 0 /\ FromDigits(d, b) = u[Len(d)]
          /\ \A k \in 1 .. Len(d) : u[k] = u[k - 1] * b + d[k]
    <3>1. b \in Int
      OBVIOUS
    <3> QED BY <1>6, <3>1, FromDigitsValue, Zenon
  <2> QED BY <1>5, <2>1
<1> DEFINE S == {k \in Nat : k <= w => v[k] = q[w - k]}
<1>8. 0 \in S
  BY <1>1, <1>7
<1>9. ASSUME NEW k \in Nat, k \in S PROVE k + 1 \in S
  <2> SUFFICES ASSUME k + 1 <= w PROVE v[k + 1] = q[w - (k + 1)]
    OBVIOUS
  <2> DEFINE j == w - (k + 1)
  <2>1. /\ k + 1 \in 1 .. w /\ (k + 1) - 1 = k
        /\ w - k \in 1 .. w /\ (w - k) - 1 = j
    OBVIOUS
  <2>2. v[k + 1] = q[w - k] * b + d[k + 1]
    BY <1>7, <1>9, <2>1
  <2>3. q[w - k] = q[j] \div b
    BY <1>1, <2>1
  <2>4. d[k + 1] = q[j] % b /\ q[j] \in Nat
    BY <1>3, <2>1
  <2>5. (q[j] \div b) * b + (q[j] % b) = q[j]
    BY <2>4, DivisionByBase
  <2> QED BY <2>2, <2>3, <2>4, <2>5
<1>10. w \in S
  <2> HIDE DEF S
  <2> QED BY <1>8, <1>9, InductiveSet
<1>11. v[w] = n
  <2>1. w - w = 0
    OBVIOUS
  <2> QED BY <1>1, <1>10, <2>1
<1> QED BY <1>5, <1>7, <1>11 DEF d
=============================================================================
