------------------------- MODULE Calculation_proofs -------------------------
(***************************************************************************)
(* What the user types is what is calculated and shown, for every size of  *)
(* words, buffers and doubles, and whatever is typed.                      *)
(***************************************************************************)
EXTENDS Calculation, Arithmetic_proofs, Digits_proofs

----------------------------------------------------------------------------
(* Lines without certain characters.                                       *)

\* Induction over sequences, for the set of those that have the property.
LEMMA SequenceSet ==
  ASSUME NEW S, NEW T, <<>> \in T,
         \A s \in Seq(S), c \in S : s \in T => Append(s, c) \in T
  PROVE  Seq(S) \subseteq T
<1> DEFINE N == {n \in Nat : \A s \in Seq(S) : Len(s) = n => s \in T}
<1>1. 0 \in N
  <2> SUFFICES ASSUME NEW s \in Seq(S), Len(s) = 0 PROVE s \in T
    OBVIOUS
  <2>1. s = <<>>
    BY EmptySeq
  <2> QED BY <2>1
<1>2. ASSUME NEW n \in Nat, n \in N PROVE n + 1 \in N
  <2> SUFFICES ASSUME NEW s \in Seq(S), Len(s) = n + 1 PROVE s \in T
    OBVIOUS
  <2>1. s # <<>>
    BY EmptySeq
  <2>2. PICK r \in Seq(S), c \in S : s = Append(r, c)
    BY <2>1, SequenceEmptyOrAppend
  <2>3. Len(r) = n
    BY <2>2, AppendProperties, LenProperties
  <2> QED BY <1>2, <2>2, <2>3
<1>3. Nat \subseteq N
  <2> HIDE DEF N
  <2> QED BY <1>1, <1>2, InductiveSet
<1> QED BY <1>3, LenProperties

\* t[k] is what is kept of the first k elements of s.
Keeps(t, s, C, S) ==
  /\ t \in [0 .. Len(s) -> Seq(S)]
  /\ t[0] = <<>> /\ Without(s, C) = t[Len(s)]
  /\ \A k \in 1 .. Len(s) :
       t[k] = IF s[k] \in C THEN t[k - 1] ELSE Append(t[k - 1], s[k])

LEMMA WithoutValue ==
  ASSUME NEW S, NEW s \in Seq(S), NEW C
  PROVE  \E t : Keeps(t, s, C, S)
<1> PICK w \in Nat : w = Len(s)
  BY LenProperties
<1>1. \A k \in 1 .. w : s[k] \in S
  BY ElementOfSeq
<1> DEFINE F == [k \in 1 .. w |-> [t \in Seq(S) |-> IF s[k] \in C THEN t ELSE Append(t, s[k])]]
<1>2. Steps(w, F, Seq(S))
  <2>1. \A k \in 1 .. w, t \in Seq(S) : (IF s[k] \in C THEN t ELSE Append(t, s[k])) \in Seq(S)
    BY <1>1, AppendProperties
  <2> QED BY <2>1 DEF Steps
<1>3. PICK g : Recursive(g, w, <<>>, F, Seq(S))
  <2>1. <<>> \in Seq(S)
    BY EmptySeq
  <2> HIDE DEF F
  <2> QED BY <1>2, <2>1, RecursionWorks, Zenon
<1>4. ASSUME NEW k \in 1 .. w
      PROVE  g[k] = IF s[k] \in C THEN g[k - 1] ELSE Append(g[k - 1], s[k])
  <2>1. \A j \in 1 .. w : g[j - 1] \in Seq(S) /\ g[j] = F[j][g[j - 1]]
    <3> HIDE DEF F
    <3> QED BY <1>3, RecursionStays
  <2>2. g[k - 1] \in Seq(S) /\ g[k] = F[k][g[k - 1]]
    <3> HIDE DEF F
    <3> QED BY <2>1
  <2> QED BY <2>2
<1>5. g = [k \in 0 .. w |-> IF k = 0 THEN <<>>
                            ELSE IF s[k] \in C THEN g[k - 1] ELSE Append(g[k - 1], s[k])]
  <2>1. \A k \in 0 .. w : k # 0 => k \in 1 .. w
    OBVIOUS
  <2> QED BY <1>3, <1>4, <2>1 DEF Recursive
<1> DEFINE IsKept(t) ==
             t = [k \in 0 .. Len(s) |-> IF k = 0 THEN <<>>
                                        ELSE IF s[k] \in C THEN t[k - 1]
                                        ELSE Append(t[k - 1], s[k])]
           f == CHOOSE t : IsKept(t)
<1>6. Without(s, C) = f[Len(s)]
  BY DEF Without
<1>7. f = g
  <2>1. IsKept(f)
    BY <1>5
  <2> HIDE DEF f
  <2>2. SameSteps(f, g, w)
    <3> SUFFICES ASSUME NEW k \in 1 .. w, f[k - 1] = g[k - 1] PROVE f[k] = g[k]
      BY DEF SameSteps
    <3>1. k \in 0 .. w /\ k # 0
      OBVIOUS
    <3> QED BY <2>1, <1>4, <3>1
  <2>3. SameStart(f, g)
    BY <1>3, <2>1 DEF Recursive, SameStart
  <2>4. \A k \in 0 .. w : f[k] = g[k]
    BY <2>2, <2>3, SameRecursion
  <2>5. f = [k \in 0 .. w |-> f[k]]
    BY <2>1
  <2>6. g = [k \in 0 .. w |-> g[k]]
    BY <1>3 DEF Recursive
  <2> QED BY <2>4, <2>5, <2>6
<1> HIDE DEF f
<1>8. Keeps(g, s, C, S)
  BY <1>3, <1>4, <1>6, <1>7 DEF Recursive, Keeps
<1> QED BY <1>8

LEMMA WithoutEmpty == ASSUME NEW C PROVE Without(<<>>, C) = <<>>
<1>1. <<>> \in Seq({}) /\ Len(<<>>) = 0
  BY EmptySeq
<1>2. PICK t : Keeps(t, <<>>, C, {})
  BY <1>1, WithoutValue
<1> QED BY <1>1, <1>2 DEF Keeps

LEMMA WithoutAppend ==
  ASSUME NEW S, NEW s \in Seq(S), NEW c \in S, NEW C
  PROVE  Without(Append(s, c), C) =
           IF c \in C THEN Without(s, C) ELSE Append(Without(s, C), c)
<1> DEFINE r == Append(s, c)
<1> PICK n \in Nat : n = Len(s)
  BY LenProperties
<1>1. r \in Seq(S) /\ Len(r) = n + 1 /\ r[n + 1] = c /\ \A k \in 1 .. n : r[k] = s[k]
  BY AppendProperties
<1> HIDE DEF r
<1>2. PICK t : Keeps(t, s, C, S)
  BY WithoutValue
<1>3. PICK u : Keeps(u, r, C, S)
  BY <1>1, WithoutValue
<1>4. SameStart(u, t)
  BY <1>2, <1>3 DEF SameStart, Keeps
<1>5. SameSteps(u, t, n)
  <2>1. \A k \in 1 .. n : k \in 1 .. Len(s) /\ k \in 1 .. Len(r) /\ r[k] = s[k]
    BY <1>1
  <2> QED BY <2>1, <1>2, <1>3 DEF SameSteps, Keeps
<1>6. u[n] = t[n]
  BY <1>4, <1>5, SameRecursion
<1>7. u[n + 1] = IF c \in C THEN u[n] ELSE Append(u[n], c)
  <2>1. n + 1 \in 1 .. Len(r) /\ (n + 1) - 1 = n
    BY <1>1
  <2> QED BY <2>1, <1>1, <1>3 DEF Keeps
<1> QED BY <1>1, <1>2, <1>3, <1>6, <1>7 DEF r, Keeps

\* Nothing that is to go is left, ...
LEMMA WithoutIsSequence ==
  ASSUME NEW S, NEW C, NEW s \in Seq(S)
  PROVE  Without(s, C) \in Seq(S \ C)
<1> DEFINE T == {r \in Seq(S) : Without(r, C) \in Seq(S \ C)}
<1>1. <<>> \in T
  BY EmptySeq, WithoutEmpty
<1>2. ASSUME NEW r \in Seq(S), NEW c \in S, r \in T PROVE Append(r, c) \in T
  <2>1. Append(r, c) \in Seq(S)
    BY AppendProperties
  <2>2. Without(Append(r, c), C) = IF c \in C THEN Without(r, C) ELSE Append(Without(r, C), c)
    BY WithoutAppend
  <2>3. Without(r, C) \in Seq(S \ C)
    BY <1>2
  <2>4. c \notin C => Append(Without(r, C), c) \in Seq(S \ C)
    BY <2>3, AppendProperties
  <2> QED BY <2>1, <2>2, <2>3, <2>4
<1>3. Seq(S) \subseteq T
  <2> HIDE DEF T
  <2> QED BY <1>1, <1>2, SequenceSet
<1> QED BY <1>3

\* ... a line with nothing to go is left as it is, ...
LEMMA WithoutNone ==
  ASSUME NEW S, NEW C, NEW s \in Seq(S \ C)
  PROVE  Without(s, C) = s
<1> DEFINE T == {r \in Seq(S \ C) : Without(r, C) = r}
<1>1. <<>> \in T
  BY EmptySeq, WithoutEmpty
<1>2. ASSUME NEW r \in Seq(S \ C), NEW c \in S \ C, r \in T PROVE Append(r, c) \in T
  BY <1>2, AppendProperties, WithoutAppend
<1>3. Seq(S \ C) \subseteq T
  <2> HIDE DEF T
  <2> QED BY <1>1, <1>2, SequenceSet
<1> QED BY <1>3

\* ... and nothing of one in which all is to go.
LEMMA WithoutAll ==
  ASSUME NEW C, NEW s \in Seq(C)
  PROVE  Without(s, C) = <<>>
<1> DEFINE T == {r \in Seq(C) : Without(r, C) = <<>>}
<1>1. <<>> \in T
  BY EmptySeq, WithoutEmpty
<1>2. ASSUME NEW r \in Seq(C), NEW c \in C, r \in T PROVE Append(r, c) \in T
  BY <1>2, AppendProperties, WithoutAppend
<1>3. Seq(C) \subseteq T
  <2> HIDE DEF T
  <2> QED BY <1>1, <1>2, SequenceSet
<1> QED BY <1>3

LEMMA WithoutTwice ==
  ASSUME NEW S, NEW C, NEW D, NEW s \in Seq(S)
  PROVE  Without(Without(s, C), D) = Without(s, C \cup D)
<1> DEFINE T == {r \in Seq(S) : Without(Without(r, C), D) = Without(r, C \cup D)}
<1>1. <<>> \in T
  BY EmptySeq, WithoutEmpty
<1>2. ASSUME NEW r \in Seq(S), NEW c \in S, r \in T PROVE Append(r, c) \in T
  <2>1. Append(r, c) \in Seq(S)
    BY AppendProperties
  <2>2. Without(Append(r, c), C) = IF c \in C THEN Without(r, C) ELSE Append(Without(r, C), c)
    BY WithoutAppend
  <2>3. Without(Append(r, c), C \cup D) =
          IF c \in C \cup D THEN Without(r, C \cup D) ELSE Append(Without(r, C \cup D), c)
    BY WithoutAppend
  <2>4. Without(r, C) \in Seq(S \ C)
    BY WithoutIsSequence
  <2>5. c \notin C =>
          Without(Append(Without(r, C), c), D) =
            IF c \in D THEN Without(Without(r, C), D) ELSE Append(Without(Without(r, C), D), c)
    <3> SUFFICES ASSUME c \in S \ C
                 PROVE  Without(Append(Without(r, C), c), D) =
                          IF c \in D THEN Without(Without(r, C), D)
                          ELSE Append(Without(Without(r, C), D), c)
      OBVIOUS
    <3> DEFINE u == Without(r, C)
               U == S \ C
    <3>1. u \in Seq(U) /\ c \in U
      BY <2>4
    <3> HIDE DEF u, U
    <3>2. Without(Append(u, c), D) = IF c \in D THEN Without(u, D) ELSE Append(Without(u, D), c)
      BY <3>1, WithoutAppend
    <3> QED BY <3>2 DEF u
  <2>6. Without(Without(r, C), D) = Without(r, C \cup D)
    BY <1>2
  <2> QED BY <2>1, <2>2, <2>3, <2>5, <2>6
<1>3. Seq(S) \subseteq T
  <2> HIDE DEF T
  <2> QED BY <1>1, <1>2, SequenceSet
<1> QED BY <1>3

LEMMA WithoutConcat ==
  ASSUME NEW S, NEW C, NEW s \in Seq(S), NEW t \in Seq(S)
  PROVE  Without(s \o t, C) = Without(s, C) \o Without(t, C)
<1> DEFINE T == {r \in Seq(S) : Without(s \o r, C) = Without(s, C) \o Without(r, C)}
<1>1. <<>> \in T
  <2>1. Without(s, C) \in Seq(S \ C)
    BY WithoutIsSequence
  <2>2. s \o <<>> = s /\ Without(s, C) \o <<>> = Without(s, C)
    BY <2>1, ConcatEmptySeq
  <2> QED BY <2>2, EmptySeq, WithoutEmpty
<1>2. ASSUME NEW r \in Seq(S), NEW c \in S, r \in T PROVE Append(r, c) \in T
  <2>1. Append(r, c) \in Seq(S) /\ s \o r \in Seq(S)
    BY AppendProperties, ConcatProperties
  <2>2. s \o Append(r, c) = Append(s \o r, c)
    OBVIOUS
  <2>3. Without(Append(r, c), C) = IF c \in C THEN Without(r, C) ELSE Append(Without(r, C), c)
    BY WithoutAppend
  <2>4. Without(Append(s \o r, c), C) =
          IF c \in C THEN Without(s \o r, C) ELSE Append(Without(s \o r, C), c)
    BY <2>1, WithoutAppend
  <2>5. Without(s, C) \in Seq(S \ C) /\ Without(r, C) \in Seq(S \ C)
    BY WithoutIsSequence
  <2>6. c \notin C =>
          Without(s, C) \o Append(Without(r, C), c) = Append(Without(s, C) \o Without(r, C), c)
    BY <2>5
  <2> QED BY <1>2, <2>1, <2>2, <2>3, <2>4, <2>6
<1>3. Seq(S) \subseteq T
  <2> HIDE DEF T
  <2> QED BY <1>1, <1>2, SequenceSet
<1> QED BY <1>3

----------------------------------------------------------------------------
(* Numerals.                                                               *)

LEMMA UnsignedLine ==
  ASSUME NEW s \in Seq(Char)
  PROVE  /\ Unsigned(s) \in Seq(Char)
         /\ Unsigned(s) # <<>> => s # <<>>
         /\ s # <<>> /\ s[1] \in {Minus, Plus} => Unsigned(s) = Tail(s)
         /\ ~(s # <<>> /\ s[1] \in {Minus, Plus}) => Unsigned(s) = s
<1>1. s # <<>> => Tail(s) \in Seq(Char)
  BY HeadTailProperties
<1> QED BY <1>1 DEF Unsigned

\* The characters of a numeral.
Figure == Digit \cup {Minus, Plus}

LEMMA NumeralFigures ==
  ASSUME NEW s \in Seq(Char), IsNumeral(s)
  PROVE  s \in Seq(Figure) /\ s # <<>>
<1> PICK n \in Nat : n = Len(s)
  BY LenProperties
<1>1. s # <<>> /\ Unsigned(s) \in Seq(Char)
  BY UnsignedLine DEF IsNumeral
<1>2. ASSUME NEW i \in 1 .. n PROVE s[i] \in Figure
  <2>1. CASE s[1] \in {Minus, Plus}
    <3>1. Unsigned(s) = Tail(s)
      BY <1>1, <2>1, UnsignedLine
    <3>2. CASE i = 1
      BY <2>1, <3>2 DEF Figure
    <3>3. CASE i # 1
      <4>1. i - 1 \in 1 .. n - 1
        BY <1>2, <3>3
      <4>2. Len(Tail(s)) = n - 1 /\ Tail(s) \in Seq(Char)
        BY <1>1, HeadTailProperties
      <4>3. i - 1 \in DOMAIN Tail(s)
        BY <4>1, <4>2, LenProperties
      <4>4. Tail(s)[i - 1] = s[i]
        <5>1. \A j \in 1 .. Len(Tail(s)) : Tail(s)[j] = s[j + 1]
          BY <1>1, HeadTailProperties
        <5>2. (i - 1) + 1 = i
          BY <1>2
        <5> QED BY <4>1, <4>2, <5>1, <5>2
      <4> QED BY <3>1, <4>3, <4>4 DEF IsNumeral, Figure
    <3> QED BY <3>2, <3>3
  <2>2. CASE s[1] \notin {Minus, Plus}
    <3>1. Unsigned(s) = s
      BY <2>2, UnsignedLine
    <3>2. i \in DOMAIN s
      BY LenProperties, <1>2
    <3> QED BY <3>1, <3>2 DEF IsNumeral, Figure
  <2> QED BY <2>1, <2>2
<1>3. s \in [1 .. n -> Figure]
  BY <1>2, LenProperties
<1> QED BY <1>1, <1>3, SeqDef

\* v[k] is the number that the first k digits of d stand for.
Values(v, d) ==
  /\ v \in [0 .. Len(d) -> Int]
  /\ v[0] = 0 /\ FromDigits(d, 10) = v[Len(d)]
  /\ \A k \in 1 .. Len(d) : v[k] = v[k - 1] * 10 + d[k]

LEMMA LineValues ==
  ASSUME NEW d \in Seq(Char)
  PROVE  \E v : Values(v, d)
<1>1. d \in Seq(Int)
  <2>1. Char \subseteq Int
    BY DEF Char, Letter
  <2> QED BY <2>1, SeqMonotonic
<1>2. 10 \in Int
  OBVIOUS
<1> DEFINE b == 10
<1>3. b \in Int
  OBVIOUS
<1> HIDE DEF b
<1>4. PICK v \in [0 .. Len(d) -> Int] :
        /\ v[0] = 0 /\ FromDigits(d, b) = v[Len(d)]
        /\ \A k \in 1 .. Len(d) : v[k] = v[k - 1] * b + d[k]
  BY <1>1, <1>3, FromDigitsValue, Zenon
<1> QED BY <1>4 DEF b, Values

LEMMA DenotesNumber == ASSUME NEW s \in Seq(Char) PROVE Denotes(s) \in Int
<1>1. PICK v : Values(v, Unsigned(s))
  BY UnsignedLine, LineValues
<1>2. Len(Unsigned(s)) \in 0 .. Len(Unsigned(s))
  BY UnsignedLine, LenProperties
<1> QED BY <1>1, <1>2 DEF Denotes, Values

\* One digit more, if what it gives is in range.
LEMMA AddDigitEffect ==
  ASSUME NEW s, NEW a \in Nat, NEW c \in Char
  PROVE  AddDigit(s, {a}, c) =
           IF c \in Digit /\ InRange(s, a * 10 + c) THEN {a * 10 + c} ELSE {}
<1> DEFINE n == a * 10 + c
<1>1. CASE c \notin Digit
  BY <1>1 DEF AddDigit
<1>2. CASE c \in Digit
  <2>1. n \in Nat /\ c \in 0 .. 9
    BY <1>2 DEF Digit
  <2>2. NoOverflow(a) => n % Modulus = n
    BY <2>1, HalfAssumption, NumbersAssumption DEF NoOverflow, IntMax, Modulus
  <2>3. InRange(s, n) => NoOverflow(a)
    <3>1. Half \in Nat /\ Half % 10 # 0
      BY HalfAssumption, NumbersAssumption
    <3>2. a * 10 <= Half => a <= (Half - 1) \div 10
      BY <3>1
    <3> QED BY <2>1, <3>1, <3>2 DEF InRange, NoOverflow, IntMax
  <2>4. AddDigit(s, {a}, c) =
          IF NoOverflow(a) /\ InRange(s, n % Modulus) THEN {n % Modulus} ELSE {}
    BY <1>2 DEF AddDigit
  <2> QED BY <1>2, <2>2, <2>3, <2>4
<1> QED BY <1>1, <1>2

\* A[k] is what parse_int64 has in its accumulator after k digits, if it has
\* not refused the line.
Accumulates(A, s, d) ==
  /\ A \in [0 .. Len(d) -> SUBSET Int]
  /\ A[0] = {0} /\ \A k \in 1 .. Len(d) : A[k] = AddDigit(s, A[k - 1], d[k])

LEMMA ParseValue ==
  ASSUME NEW s \in Seq(Char)
  PROVE  \E A : /\ Accumulates(A, s, Unsigned(s))
                /\ ParseInt64(s) =
                     IF Unsigned(s) = <<>> THEN {}
                     ELSE {IF s[1] = Minus THEN Wrap(-acc) ELSE acc :
                             acc \in A[Len(Unsigned(s))]}
<1> DEFINE d == Unsigned(s)
<1>1. d \in Seq(Char)
  BY UnsignedLine
<1> PICK w \in Nat : w = Len(d)
  BY <1>1, LenProperties
<1> DEFINE F == [k \in 1 .. w |-> [B \in SUBSET Int |-> AddDigit(s, B, d[k])]]
<1>2. Steps(w, F, SUBSET Int)
  <2>1. ASSUME NEW B \in SUBSET Int, NEW c \in Char PROVE AddDigit(s, B, c) \in SUBSET Int
    <3>1. Modulus \in Nat \ {0} /\ Char \subseteq Int
      BY HalfAssumption DEF Modulus, Char, Letter
    <3>2. \A x \in Int : x % Modulus \in Int
      BY <3>1
    <3>3. \A acc \in B : (acc * 10 + c) % Modulus \in Int
      BY <3>1, <3>2
    <3> QED BY <3>3 DEF AddDigit
  <2>2. \A k \in 1 .. w : d[k] \in Char
    BY <1>1, ElementOfSeq
  <2> HIDE DEF d
  <2>3. \A k \in 1 .. w, B \in SUBSET Int : AddDigit(s, B, d[k]) \in SUBSET Int
    BY <2>1, <2>2
  <2> QED BY <2>3 DEF Steps
<1>3. PICK g : Recursive(g, w, {0}, F, SUBSET Int)
  <2>1. {0} \in SUBSET Int
    OBVIOUS
  <2> HIDE DEF F
  <2> QED BY <1>2, <2>1, RecursionWorks, Zenon
<1>4. ASSUME NEW k \in 1 .. w PROVE g[k] = AddDigit(s, g[k - 1], d[k])
  <2> HIDE DEF d
  <2>1. \A j \in 1 .. w : g[j - 1] \in SUBSET Int /\ g[j] = F[j][g[j - 1]]
    <3> HIDE DEF F
    <3> QED BY <1>3, RecursionStays
  <2>2. g[k - 1] \in SUBSET Int /\ g[k] = F[k][g[k - 1]]
    <3> HIDE DEF F
    <3> QED BY <2>1
  <2> QED BY <2>2
<1>5. g = [k \in 0 .. w |-> IF k = 0 THEN {0} ELSE AddDigit(s, g[k - 1], d[k])]
  <2>1. \A k \in 0 .. w : k # 0 => k \in 1 .. w
    OBVIOUS
  <2> HIDE DEF d
  <2> QED BY <1>3, <1>4, <2>1 DEF Recursive
<1> DEFINE IsAccs(A) ==
             A = [k \in 0 .. Len(d) |-> IF k = 0 THEN {0} ELSE AddDigit(s, A[k - 1], d[k])]
           f == CHOOSE A : IsAccs(A)
<1>6. ParseInt64(s) =
        IF d = <<>> THEN {} ELSE {IF s[1] = Minus THEN Wrap(-acc) ELSE acc : acc \in f[Len(d)]}
  BY DEF ParseInt64
<1> HIDE DEF d
<1>7. f = g
  <2>1. IsAccs(f)
    BY <1>5
  <2> HIDE DEF f
  <2>2. SameSteps(f, g, w)
    <3> SUFFICES ASSUME NEW k \in 1 .. w, f[k - 1] = g[k - 1] PROVE f[k] = g[k]
      BY DEF SameSteps
    <3>1. k \in 0 .. w /\ k # 0
      OBVIOUS
    <3> QED BY <2>1, <1>4, <3>1
  <2>3. SameStart(f, g)
    BY <1>3, <2>1 DEF Recursive, SameStart
  <2>4. \A k \in 0 .. w : f[k] = g[k]
    BY <2>2, <2>3, SameRecursion
  <2>5. f = [k \in 0 .. w |-> f[k]]
    BY <2>1
  <2>6. g = [k \in 0 .. w |-> g[k]]
    BY <1>3 DEF Recursive
  <2> QED BY <2>4, <2>5, <2>6
<1> HIDE DEF f
<1>8. Accumulates(g, s, d)
  BY <1>3, <1>4 DEF Recursive, Accumulates
<1> QED BY <1>6, <1>7, <1>8 DEF d

\* parse_int64 takes the numerals of words for what they denote, and nothing else.
LEMMA ParseInt64Right ==
  ASSUME NEW s \in Seq(Char)
  PROVE  ParseInt64(s) = IF IsNumeral(s) /\ Denotes(s) \in Word THEN {Denotes(s)} ELSE {}
<1> DEFINE d == Unsigned(s)
<1>1. d \in Seq(Char)
  BY UnsignedLine
<1>2. PICK v : Values(v, d)
  BY <1>1, LineValues
<1>3. PICK A : /\ Accumulates(A, s, d)
               /\ ParseInt64(s) =
                    IF d = <<>> THEN {}
                    ELSE {IF s[1] = Minus THEN Wrap(-acc) ELSE acc : acc \in A[Len(d)]}
  BY ParseValue
<1>4. IsNumeral(s) <=> d # <<>> /\ \A i \in DOMAIN d : d[i] \in Digit
  BY DEF IsNumeral
<1>5. Denotes(s) = IF s[1] = Minus THEN -v[Len(d)] ELSE v[Len(d)]
  BY <1>2 DEF Denotes, Values
<1> HIDE DEF d
<1> PICK w \in Nat : w = Len(d)
  BY <1>1, LenProperties
<1>6. DOMAIN d = 1 .. w /\ \A k \in 1 .. w : d[k] \in Char
  BY <1>1, LenProperties, ElementOfSeq
<1>7. /\ v \in [0 .. w -> Int] /\ v[0] = 0
      /\ \A k \in 1 .. w : v[k] = v[k - 1] * 10 + d[k]
  BY <1>2 DEF Values
<1>8. A[0] = {0} /\ \A k \in 1 .. w : A[k] = AddDigit(s, A[k - 1], d[k])
  BY <1>3 DEF Accumulates
<1> DEFINE Plain(k) == \A i \in 1 .. k : d[i] \in Digit
           Right(k) == /\ Plain(k) => v[k] \in Nat
                       /\ A[k] = IF Plain(k) /\ InRange(s, v[k]) THEN {v[k]} ELSE {}
           S == {k \in Nat : k <= w => Right(k)}
<1>9. 0 \in S
  <2>1. InRange(s, 0)
    BY HalfAssumption DEF InRange, IntMax
  <2>2. Plain(0)
    OBVIOUS
  <2> HIDE DEF Plain
  <2>3. A[0] = {v[0]} /\ InRange(s, v[0]) /\ v[0] \in Nat
    BY <1>7, <1>8, <2>1
  <2> QED BY <2>2, <2>3
<1>10. ASSUME NEW k \in Nat, k \in S PROVE k + 1 \in S
  <2> SUFFICES ASSUME k + 1 <= w PROVE Right(k + 1)
    OBVIOUS
  <2> DEFINE c == d[k + 1]
  <2>1. k + 1 \in 1 .. w /\ (k + 1) - 1 = k /\ k \in 0 .. w /\ k + 1 \in 0 .. w
    OBVIOUS
  <2>2. Right(k)
    BY <1>10
  <2>3. v[k + 1] = v[k] * 10 + c /\ A[k + 1] = AddDigit(s, A[k], c) /\ c \in Char
    BY <1>6, <1>7, <1>8, <2>1
  <2>4. Plain(k + 1) <=> Plain(k) /\ c \in Digit
    <3>1. \A i \in 1 .. k + 1 : i \in 1 .. k \/ i = k + 1
      OBVIOUS
    <3> QED BY <3>1
  <2> HIDE DEF c, Plain
  <2>5. v[k] \in Int /\ v[k + 1] \in Int
    BY <1>7, <2>1
  <2>6. AddDigit(s, {}, c) = {}
    BY DEF AddDigit
  <2>7. CASE ~Plain(k)
    BY <2>2, <2>3, <2>4, <2>6, <2>7
  <2>8. CASE Plain(k) /\ ~InRange(s, v[k])
    <3>1. A[k + 1] = {} /\ v[k] \in Nat
      BY <2>2, <2>3, <2>6, <2>8
    <3>2. c \in Digit => v[k + 1] \in Nat /\ v[k + 1] >= v[k]
      BY <2>3, <3>1 DEF Digit
    <3>3. c \in Digit => ~InRange(s, v[k + 1])
      BY <2>5, <2>8, <3>2, HalfAssumption DEF InRange, IntMax
    <3> QED BY <2>4, <3>1, <3>2, <3>3
  <2>9. CASE Plain(k) /\ InRange(s, v[k])
    <3>1. v[k] \in Nat /\ A[k + 1] = AddDigit(s, {v[k]}, c)
      BY <2>2, <2>3, <2>9
    <3>2. A[k + 1] = IF c \in Digit /\ InRange(s, v[k + 1]) THEN {v[k + 1]} ELSE {}
      <4> PICK a \in Nat : a = v[k]
        BY <3>1
      <4>1. AddDigit(s, {a}, c) =
              IF c \in Digit /\ InRange(s, a * 10 + c) THEN {a * 10 + c} ELSE {}
        BY <2>3, AddDigitEffect
      <4> QED BY <2>3, <3>1, <4>1
    <3>3. c \in Digit => v[k + 1] \in Nat
      BY <2>3, <3>1 DEF Digit
    <3> QED BY <2>4, <2>9, <3>2, <3>3
  <2> QED BY <2>7, <2>8, <2>9
<1>11. Right(w)
  <2>1. Nat \subseteq S
    <3> HIDE DEF S
    <3> QED BY <1>9, <1>10, InductiveSet
  <2> HIDE DEF Right
  <2> QED BY <2>1
<1>12. IsNumeral(s) <=> d # <<>> /\ Plain(w)
  BY <1>4, <1>6
<1> HIDE DEF Plain
<1>13. CASE IsNumeral(s)
  <2>1. v[w] \in Nat /\ A[w] = IF InRange(s, v[w]) THEN {v[w]} ELSE {}
    BY <1>11, <1>12, <1>13
  <2>2. Denotes(s) \in Word <=> InRange(s, v[w])
    BY <1>5, <2>1, HalfAssumption DEF InRange, Word, IntMin, IntMax
  <2>3. InRange(s, v[w]) => (IF s[1] = Minus THEN Wrap(-v[w]) ELSE v[w]) = Denotes(s)
    <3>1. InRange(s, v[w]) /\ s[1] = Minus => -v[w] \in Word
      BY <2>1, HalfAssumption DEF InRange, Word, IntMin, IntMax
    <3> QED BY <1>5, <3>1, WrapOfWord
  <2> QED BY <1>3, <1>12, <1>13, <2>1, <2>2, <2>3
<1>14. CASE ~IsNumeral(s)
  <2>1. d # <<>> => A[w] = {}
    BY <1>11, <1>12, <1>14
  <2> QED BY <1>3, <1>14, <2>1
<1> QED BY <1>13, <1>14

\* What int64_to_str writes is a numeral of its argument, IntMin included.
LEMMA Int64ToStrDenotes ==
  ASSUME NEW v \in Word
  PROVE  IsNumeral(Int64ToStr(v)) /\ Denotes(Int64ToStr(v)) = v
<1> DEFINE m == Magnitude(v)
           K == {k \in 1 .. StrSize - 2 : Shifts(m, 10, k)[k] = 0}
           n == Min(K)
           d == ToDigits(m, 10, n)
<1>1. m \in Nat /\ m <= Half /\ v = (IF v < 0 THEN -m ELSE m)
  BY HalfAssumption DEF Magnitude, Word, IntMin, IntMax
<1> HIDE DEF m
<1>2. n \in K
  <2> DEFINE w == StrSize - 2
             b == 10
  <2>1. w \in Nat /\ w \in 1 .. w /\ Half \in Nat /\ b \in Nat /\ b > 1
    BY NumbersAssumption, HalfAssumption
  <2>2. Shifts(Half, b, w)[w] = 0
    BY NumbersAssumption
  <2> HIDE DEF b, w
  <2>3. Shifts(m, b, w)[w] = 0
    BY <1>1, <2>1, <2>2, SmallerFits
  <2>4. w \in K
    BY <2>1, <2>3 DEF b, w
  <2>5. PICK x \in K : \A y \in K : x <= y
    <3>1. K \in SUBSET Nat
      OBVIOUS
    <3> HIDE DEF K
    <3> QED BY <2>4, <3>1, LeastOfSet
  <2> HIDE DEF K
  <2> QED BY <2>5 DEF Min
<1>3. n \in Nat /\ n >= 1 /\ Shifts(m, 10, n)[n] = 0
  BY <1>2, NumbersAssumption
<1> HIDE DEF n, K
<1>4. d \in Seq(Digit) /\ Len(d) = n /\ FromDigits(d, 10) = m
  <2> DEFINE b == 10
  <2>1. b \in Nat /\ b > 1
    OBVIOUS
  <2>2. Shifts(m, b, n)[n] = 0
    BY <1>3
  <2> HIDE DEF b
  <2>3. ToDigits(m, b, n) \in Seq(0 .. b - 1) /\ Len(ToDigits(m, b, n)) = n
    BY <1>1, <1>3, <2>1, <2>2, DigitsDenote
  <2>4. FromDigits(ToDigits(m, b, n), b) = m
    BY <1>1, <1>3, <2>1, <2>2, DigitsDenote
  <2>5. 0 .. b - 1 = Digit
    BY DEF Digit, b
  <2> QED BY <2>3, <2>4, <2>5 DEF b
<1>5. Int64ToStr(v) = IF v < 0 THEN <<Minus>> \o d ELSE d
  BY DEF Int64ToStr, m, K, n
<1> HIDE DEF d
<1>6. d # <<>> /\ DOMAIN d = 1 .. n /\ \A i \in 1 .. n : d[i] \in Digit
  BY <1>3, <1>4, LenProperties, ElementOfSeq, EmptySeq
<1>7. d[1] \notin {Minus, Plus}
  BY <1>3, <1>6 DEF Digit, Minus, Plus
<1>8. CASE v >= 0
  <2>1. Unsigned(d) = d
    BY <1>7 DEF Unsigned
  <2> QED BY <1>1, <1>4, <1>5, <1>6, <1>7, <1>8, <2>1 DEF IsNumeral, Denotes
<1>9. CASE v < 0
  <2> DEFINE s == <<Minus>> \o d
  <2>1. s # <<>> /\ s[1] = Minus /\ Tail(s) = d
    BY <1>4
  <2>2. Unsigned(s) = d
    BY <2>1 DEF Unsigned
  <2> QED BY <1>1, <1>4, <1>5, <1>6, <1>9, <2>1, <2>2 DEF IsNumeral, Denotes
<1>10. v \in Int
  BY HalfAssumption DEF Word, IntMin, IntMax
<1> QED BY <1>8, <1>9, <1>10

----------------------------------------------------------------------------
(* What a line means, and what the prompts take it for.                    *)

\* What a user may add to a number without changing its meaning.
Fill == {CR, Blank, Underscore}

LEMMA FiguresStay ==
  ASSUME NEW s \in Seq(Char), IsNumeral(s), NEW C \in SUBSET Fill
  PROVE  Without(s, C) = s
<1> DEFINE U == Figure \ C
<1>1. Figure = U
  BY DEF Figure, Fill, Digit, Minus, Plus, CR, Blank, Underscore
<1>2. s \in Seq(Figure \ C)
  BY <1>1, NumeralFigures
<1> QED BY <1>2, WithoutNone

LEMMA PlainMeaning ==
  ASSUME NEW s \in Seq(Char), IsNumeral(Kept(s))
  PROVE  Meanings(s) = {Denotes(Kept(s))}
<1> DEFINE k == Kept(s)
<1>1. k \in Seq(Char)
  <2>1. Without(s, {CR}) \in Seq(Char \ {CR})
    BY WithoutIsSequence
  <2> QED BY <2>1, SeqMonotonic DEF Kept
<1>2. Without(k, {Blank, Underscore}) = k
  BY <1>1, FiguresStay DEF Fill
<1>3. Without(k, {Blank, Underscore}) = Without(s, {CR, Blank, Underscore})
  <2>1. {CR} \cup {Blank, Underscore} = {CR, Blank, Underscore}
    OBVIOUS
  <2>2. Without(Without(s, {CR}), {Blank, Underscore}) = Without(s, {CR} \cup {Blank, Underscore})
    BY WithoutTwice
  <2> QED BY <2>1, <2>2 DEF Kept
<1> QED BY <1>2, <1>3 DEF Meanings

\* What strip removes is blank.
LEMMA StripParts ==
  ASSUME NEW s \in Seq(Char)
  PROVE  /\ Strip(s) \in Seq(Char)
         /\ \E pre \in Seq({Blank, CR}), post \in Seq({Blank, CR}) :
              s = pre \o (Strip(s) \o post)
<1> PICK n \in Nat : n = Len(s)
  BY LenProperties
<1>1. DOMAIN s = 1 .. n /\ \A i \in 1 .. n : s[i] \in Char
  BY LenProperties, ElementOfSeq
<1> DEFINE ink == {i \in DOMAIN s : s[i] \notin {Blank, CR}}
<1>2. Strip(s) = IF ink = {} THEN <<>> ELSE SubSeq(s, Min(ink), Max(ink))
  BY DEF Strip
<1>3. CASE ink = {}
  <2>1. s \in [1 .. n -> {Blank, CR}]
    BY <1>1, <1>3, LenProperties
  <2>2. s \in Seq({Blank, CR})
    BY <2>1, SeqDef
  <2>3. s = s \o (<<>> \o <<>>) /\ <<>> \in Seq({Blank, CR}) /\ <<>> \in Seq(Char)
    BY ConcatEmptySeq, EmptySeq
  <2> QED BY <1>2, <1>3, <2>2, <2>3
<1>4. CASE ink # {}
  <2>1. PICK a \in ink : \A i \in ink : a <= i
    <3>1. ink \in SUBSET Nat
      BY <1>1
    <3> HIDE DEF ink
    <3> QED BY <1>4, <3>1, LeastOfSet
  <2>2. PICK b \in ink : \A i \in ink : b >= i
    <3> DEFINE T == {n - i : i \in ink}
    <3>1. T \in SUBSET Nat /\ T # {}
      BY <1>1, <1>4
    <3>2. PICK x \in T : \A y \in T : x <= y
      <4> HIDE DEF T
      <4> QED BY <3>1, LeastOfSet
    <3>3. PICK b \in ink : x = n - b
      BY <3>2
    <3>4. \A i \in ink : n - b <= n - i
      BY <3>2, <3>3
    <3> QED BY <1>1, <3>4
  <2>3. Min(ink) = a /\ Max(ink) = b
    <3>1. ink \subseteq Int
      BY <1>1
    <3> HIDE DEF ink
    <3>2. Min(ink) \in ink /\ \A i \in ink : Min(ink) <= i
      BY <2>1 DEF Min
    <3>3. Max(ink) \in ink /\ \A i \in ink : Max(ink) >= i
      BY <2>2 DEF Max
    <3>4. \A i, j \in Int : i <= j /\ j <= i => i = j
      OBVIOUS
    <3> QED BY <2>1, <2>2, <3>1, <3>2, <3>3, <3>4
  <2>4. a \in 1 .. n /\ b \in 1 .. n /\ a <= b
    BY <1>1, <2>1
  <2>5. \A i \in 1 .. a - 1 : s[i] \in {Blank, CR}
    BY <1>1, <2>1, <2>4
  <2>6. \A i \in b + 1 .. n : s[i] \in {Blank, CR}
    BY <1>1, <2>2, <2>4
  <2>7. Strip(s) = SubSeq(s, a, b)
    BY <1>2, <1>4, <2>3
  <2> HIDE DEF ink
  <2>8. SubSeq(s, a, b) \in Seq(Char)
    BY <1>1, <2>4, SubSeqProperties
  <2>9. SubSeq(s, 1, a - 1) \in Seq({Blank, CR}) /\ SubSeq(s, b + 1, n) \in Seq({Blank, CR})
    <3>1. a - 1 \in Int /\ b + 1 \in Int /\ n \in Int /\ 1 \in Int
      BY <2>4
    <3> QED BY <2>5, <2>6, <3>1, SubSeqProperties
  <2>10. s = SubSeq(s, 1, a - 1) \o SubSeq(s, a, n)
    <3> PICK k \in Int : k = a - 1
      BY <2>4
    <3>1. 1 \in 1 .. Len(s) + 1 /\ k \in 1 - 1 .. Len(s) /\ n \in k .. Len(s) /\ k + 1 = a
      BY <2>4
    <3>2. SubSeq(s, 1, k) \o SubSeq(s, k + 1, n) = SubSeq(s, 1, n)
      BY <3>1, ConcatAdjacentSubSeq
    <3> QED BY <3>1, <3>2, SubSeqFull
  <2>11. SubSeq(s, a, n) = SubSeq(s, a, b) \o SubSeq(s, b + 1, n)
    <3>1. a \in 1 .. Len(s) + 1 /\ b \in a - 1 .. Len(s) /\ n \in b .. Len(s)
      BY <2>4
    <3> QED BY <3>1, ConcatAdjacentSubSeq
  <2> QED BY <2>7, <2>8, <2>9, <2>10, <2>11
<1> QED BY <1>3, <1>4

\* int() takes numerals for what they denote, and of other lines those that are
\* numerals without their underscores.
LEMMA PyIntRight ==
  ASSUME NEW t \in Seq(Char)
  PROVE  /\ IsNumeral(t) => PyInt(t) = {Denotes(t)}
         /\ \A n \in PyInt(t) :
              IsNumeral(Without(t, {Underscore})) /\ n = Denotes(Without(t, {Underscore}))
<1>1. ASSUME IsNumeral(t) PROVE PyInt(t) = {Denotes(t)}
  <2>1. Without(t, {Underscore}) = t
    BY <1>1, FiguresStay DEF Fill
  <2>2. \A i \in DOMAIN Unsigned(t) : Unsigned(t)[i] # Underscore
    BY <1>1 DEF IsNumeral, Digit, Underscore
  <2> QED BY <1>1, <2>1, <2>2 DEF PyInt
<1>2. ASSUME NEW n \in PyInt(t)
      PROVE  IsNumeral(Without(t, {Underscore})) /\ n = Denotes(Without(t, {Underscore}))
  BY <1>2 DEF PyInt
<1> QED BY <1>1, <1>2

LEMMA StrippedMeaning ==
  ASSUME NEW s \in Seq(Char), NEW n \in PyInt(Strip(s))
  PROVE  Meanings(s) = {n}
<1> DEFINE t == Strip(s)
           C == {CR, Blank, Underscore}
           u == Without(t, {Underscore})
<1>1. t \in Seq(Char) /\ \E pre \in Seq({Blank, CR}), post \in Seq({Blank, CR}) :
                           s = pre \o (t \o post)
  BY StripParts
<1>2. IsNumeral(u) /\ n = Denotes(u)
  BY <1>1, PyIntRight
<1> HIDE DEF t
<1>3. PICK pre \in Seq({Blank, CR}), post \in Seq({Blank, CR}) : s = pre \o (t \o post)
  BY <1>1
<1>4. u \in Seq(Char)
  <2>1. u \in Seq(Char \ {Underscore})
    BY <1>1, WithoutIsSequence
  <2> QED BY <2>1, SeqMonotonic
<1>5. Without(t, C) = u
  <2>1. Without(u, {CR, Blank}) = u
    <3> HIDE DEF u
    <3> QED BY <1>2, <1>4, FiguresStay DEF Fill
  <2>2. Without(u, {CR, Blank}) = Without(t, {Underscore} \cup {CR, Blank})
    <3>1. t \in Seq(Char)
      BY <1>1
    <3>2. \A A, B : Without(Without(t, A), B) = Without(t, A \cup B)
      BY <3>1, WithoutTwice
    <3> QED BY <3>2
  <2>3. {Underscore} \cup {CR, Blank} = C
    OBVIOUS
  <2> QED BY <2>1, <2>2, <2>3
<1>6. Without(s, C) = Without(t, C)
  <2>1. {Blank, CR} \subseteq Char /\ {Blank, CR} \subseteq C
    BY DEF Char, Letter, Blank, CR
  <2> HIDE DEF C, u
  <2>2. /\ pre \in Seq(Char) /\ post \in Seq(Char) /\ t \in Seq(Char)
        /\ pre \in Seq(C) /\ post \in Seq(C)
    BY <1>1, <2>1, SeqMonotonic
  <2>3. Without(pre, C) = <<>> /\ Without(post, C) = <<>>
    BY <2>2, WithoutAll
  <2>4. Without(t \o post, C) = Without(t, C) \o Without(post, C) /\ t \o post \in Seq(Char)
    BY <2>2, WithoutConcat, ConcatProperties
  <2>5. Without(s, C) = Without(pre, C) \o Without(t \o post, C)
    BY <1>3, <2>2, <2>4, WithoutConcat
  <2>6. Without(t, C) \in Seq(Char \ C)
    BY <2>2, WithoutIsSequence
  <2> QED BY <2>3, <2>4, <2>5, <2>6, ConcatEmptySeq
<1> QED BY <1>2, <1>5, <1>6 DEF Meanings

----------------------------------------------------------------------------
(* Results.                                                                *)

LEMMA WrapShifts ==
  ASSUME NEW n \in Int
  PROVE  \E k \in Int : Wrap(n) = n + Modulus * k
<1> DEFINE k == (n - IntMin) \div Modulus
<1>1. Modulus \in Nat \ {0} /\ IntMin \in Int
  BY HalfAssumption DEF Modulus, IntMin
<1>2. k \in Int /\ n - IntMin = Modulus * k + ((n - IntMin) % Modulus)
  BY <1>1, Division
<1>3. Wrap(n) = n + Modulus * (-k) /\ -k \in Int
  BY <1>1, <1>2 DEF Wrap
<1> QED BY <1>3

\* A word is all that is left of any number that differs from it by multiples
\* of the modulus.
LEMMA WrapFinds ==
  ASSUME NEW r \in Word, NEW k \in Int
  PROVE  Wrap(r + Modulus * k) = r
<1>1. Modulus = 2 * Half /\ Half \in Nat /\ Half >= 2 /\ r \in Int
  BY HalfAssumption DEF Modulus, Word, IntMin, IntMax
<1> PICK n \in Int : n = r + Modulus * k
  BY <1>1
<1>2. PICK j \in Int : Wrap(n) = n + Modulus * j
  BY WrapShifts
<1>3. Wrap(n) \in Word
  BY WrapInWord
<1>4. Wrap(n) - r = Modulus * (k + j)
  BY <1>1, <1>2
<1>5. Wrap(n) - r > -Modulus /\ Wrap(n) - r < Modulus
  BY <1>1, <1>3 DEF Word, IntMin, IntMax
<1>6. k + j < 1 /\ k + j > -1
  BY <1>1, <1>4, <1>5
<1>7. k + j = 0
  BY <1>6
<1> QED BY <1>1, <1>3, <1>4, <1>7 DEF Word, IntMin, IntMax

\* Cutting the operands does not change a sum, a difference or a product that
\* is a word.
LEMMA CutOperands ==
  ASSUME NEW a \in Int, NEW b \in Int
  PROVE  /\ a + b \in Word => Wrap(Wrap(a) + Wrap(b)) = a + b
         /\ a - b \in Word => Wrap(Wrap(a) - Wrap(b)) = a - b
         /\ a * b \in Word => Wrap(Wrap(a) * Wrap(b)) = a * b
<1>1. PICK i \in Int : Wrap(a) = a + Modulus * i
  BY WrapShifts
<1>2. PICK j \in Int : Wrap(b) = b + Modulus * j
  BY WrapShifts
<1>3. Modulus \in Int
  BY HalfAssumption DEF Modulus
<1>4. Wrap(a) + Wrap(b) = (a + b) + Modulus * (i + j) /\ i + j \in Int
  BY <1>1, <1>2, <1>3
<1>5. Wrap(a) - Wrap(b) = (a - b) + Modulus * (i - j) /\ i - j \in Int
  BY <1>1, <1>2, <1>3
<1> DEFINE k == (a * j + b * i) + Modulus * (i * j)
<1>6. Wrap(a) * Wrap(b) = (a * b) + Modulus * k /\ k \in Int
  <2> PICK m \in Int : m = Modulus
    BY <1>3
  <2>1. (a + m * i) * (b + m * j) = (a * b) + m * ((a * j + b * i) + m * (i * j))
    OBVIOUS
  <2>2. m * (i * j) \in Int /\ a * j + b * i \in Int
    OBVIOUS
  <2> QED BY <1>1, <1>2, <2>1, <2>2
<1> HIDE DEF k
<1> QED BY <1>4, <1>5, <1>6, WrapFinds

LEMMA ComputeIsNumber ==
  ASSUME server \in {"kernel", "mock"}, NEW op \in OpCode, NEW a \in Int, NEW b \in Int,
         op = "DIV" => Cut(b) # 0
  PROVE  Cut(a) \in Int /\ Cut(b) \in Int /\ Compute(op, Cut(a), Cut(b)) \in Int
<1>1. \A n \in Int : Wrap(n) \in Int
  BY WrapInWord, HalfAssumption DEF Word, IntMin, IntMax
<1>2. PICK x \in Int : x = Cut(a)
  BY <1>1 DEF Cut
<1>3. PICK y \in Int : y = Cut(b)
  BY <1>1 DEF Cut
<1>4. op = "DIV" => y # 0
  BY <1>3
<1>5. Calculate(op, x, y) \in Int
  <2>1. op = "DIV" => Quotient(x, y) \in Int
    BY <1>4, QuotientRight
  <2>2. x + y \in Int /\ x - y \in Int /\ x * y \in Int
    OBVIOUS
  <2> QED BY <1>1, <2>1, <2>2 DEF Calculate, OpCode
<1>6. MockCalculate(op, x, y) \in Int
  <2>1. op = "DIV" => FloorQuotient(x, y) \in Int
    <3> SUFFICES ASSUME y # 0 PROVE FloorQuotient(x, y) \in Int
      BY <1>4
    <3>1. y > 0 => x \div y \in Int
      BY Division
    <3>2. y < 0 => (-x) \div (-y) \in Int
      <4> SUFFICES ASSUME y < 0 PROVE (-x) \div (-y) \in Int
        OBVIOUS
      <4>1. -x \in Int /\ -y \in Nat \ {0}
        OBVIOUS
      <4> QED BY <4>1, Division
    <3> QED BY <3>1, <3>2 DEF FloorQuotient
  <2>2. x + y \in Int /\ x - y \in Int /\ x * y \in Int
    OBVIOUS
  <2> QED BY <2>1, <2>2 DEF MockCalculate, OpCode
<1> QED BY <1>2, <1>3, <1>5, <1>6 DEF Compute

\* Where the code carries a result, the server computes it.
LEMMA ComputeRight ==
  ASSUME server \in {"kernel", "mock"}, NEW op \in OpCode, NEW a \in Int, NEW b \in Int,
         NEW r \in Word, IsResult(op, a, b, r), Carried(op, a, b, r)
  PROVE  Compute(op, Cut(a), Cut(b)) = r
<1>1. r \in Int
  BY HalfAssumption DEF Word, IntMin, IntMax
<1>2. CASE server = "kernel" /\ op # "DIV"
  BY <1>2, CutOperands DEF Compute, Cut, Calculate, IsResult, OpCode
<1>3. CASE server = "kernel" /\ op = "DIV"
  <2>1. a \in Word /\ b \in Word /\ b # 0 /\ IsQuotient(a, b, r)
    BY <1>3 DEF Carried, IsResult
  <2>2. Cut(a) = a /\ Cut(b) = b
    BY <1>3, <2>1, WrapOfWord DEF Cut
  <2>3. Quotient(a, b) \in Int /\ IsQuotient(a, b, Quotient(a, b))
    BY <2>1, QuotientRight
  <2>4. Quotient(a, b) = r
    BY <1>1, <2>1, <2>3, QuotientUnique
  <2> QED BY <1>3, <2>2, <2>4, WrapOfWord DEF Compute, Calculate
<1>4. CASE server = "mock" /\ op # "DIV"
  BY <1>4 DEF Compute, Cut, MockCalculate, IsResult, OpCode
<1>5. CASE server = "mock" /\ op = "DIV"
  <2>1. b # 0 /\ IsQuotient(a, b, r) /\ (a = b * r \/ (a < 0) = (b < 0))
    BY <1>5 DEF Carried, IsResult
  <2>2. MockCalculate("DIV", a, b) = r
    BY <1>1, <2>1, MockQuotient
  <2> QED BY <1>5, <2>2 DEF Compute, Cut
<1> QED BY <1>2, <1>3, <1>4, <1>5

\* What a client puts on the wire is the number that it took.
LEMMA OnWireRight == ASSUME NEW n \in Word PROVE OnWire(n) = n
BY Int64ToStrDenotes DEF OnWire

LEMMA ScreenIsNumber == ASSUME NEW n \in Int PROVE Screen(n) \subseteq Int
<1>1. IntMin \in Word /\ IntMax \in Word /\ Word \subseteq Int
  BY HalfAssumption DEF Word, IntMin, IntMax
<1>2. CastInt64(Double(n)) \subseteq Word
  BY <1>1 DEF CastInt64
<1>3. \A r \in CastInt64(Double(n)) : Denotes(Int64ToStr(r)) \in Int
  BY <1>1, <1>2, Int64ToStrDenotes
<1> QED BY <1>3 DEF Screen

LEMMA ScreenRight ==
  ASSUME NEW r \in Word, client = "c" => Magnitude(r) <= 2 ^ Precision
  PROVE  Screen(r) = {r}
<1>1. client = "c" => Double(r) = r
  BY DEF Double
<1>2. client = "c" => CastInt64(Double(r)) = {r}
  BY <1>1 DEF CastInt64
<1> QED BY <1>2, Int64ToStrDenotes DEF Screen

----------------------------------------------------------------------------
(* The inductive invariant.                                                *)

\* A line that has not been read is the user's last answer.
TypedOK ==
  ~overlong /\ stdin # <<>> =>
    pc \in Prompt /\ meant[pc] = Meanings(stdin[1]) /\ ~Overlong(stdin[1])

\* A client of another make has no prompts.
PlaceOK == client = "foreign" => pc \notin Prompt

\* What a prompt has accepted is what was meant; only a choice may have been
\* narrowed, but not one that is on the menu.
Requested == {"serve", "show", "shown"}
AnsweredOK ==
  ~overlong /\ client # "foreign" =>
    /\ pc \in {"b", "send"} \cup Requested => meant["a"] = {input["a"]}
    /\ pc \in {"send"} \cup Requested => meant["b"] = {input["b"]}
    /\ pc \in {"a", "b", "send"} \cup Requested =>
         meant["choice"] \cap DOMAIN Menu \subseteq {input["choice"]}

\* The request is for what was meant.
RequestOK ==
  ~overlong /\ pc \in Requested =>
    /\ \A n \in meant["choice"] \cap DOMAIN Menu : request.op = Menu[n]
    /\ meant["a"] = {request.a} /\ meant["b"] = {request.b}

\* The reply is to this request, and what is shown is this reply.
ReplyOK ==
  pc \in {"show", "shown"} => reply = ReplyTo(request.op, Cut(request.a), Cut(request.b))
ShownOK ==
  pc = "shown" /\ reply.code = "CALC_ACK" => shown \in Screen(reply.result)

CInv == CTypeOK /\ TypedOK /\ PlaceOK /\ AnsweredOK /\ RequestOK /\ ReplyOK /\ ShownOK

----------------------------------------------------------------------------
(* The prompts.                                                            *)

LEMMA MenuIs ==
  /\ Exit = 5 /\ DOMAIN Menu = 1 .. 4
  /\ \A n \in 1 .. 4 : Menu[n] \in OpCode
<1>1. Len(Menu) = 4 /\ DOMAIN Menu = 1 .. 4
  BY DEF Menu
<1>2. \A n \in 1 .. 4 : n = 1 \/ n = 2 \/ n = 3 \/ n = 4
  OBVIOUS
<1>3. Menu[1] = "ADD" /\ Menu[2] = "SUB" /\ Menu[3] = "MUL" /\ Menu[4] = "DIV"
  BY DEF Menu
<1> QED BY <1>1, <1>2, <1>3 DEF Exit, OpCode

LEMMA ReadLineType ==
  ASSUME NEW s \in Seq(Char)
  PROVE  /\ ReadLine(s).line \in Seq(Char)
         /\ ReadLine(s).rest \in Seq(Seq(Char)) /\ Len(ReadLine(s).rest) <= 1
         /\ ~Overlong(s) =>
              /\ ReadLine(s).rest = <<>>
              /\ ReadLine(s).line = IF client = "c" THEN Kept(s) ELSE Strip(s)
<1> DEFINE k == Kept(s)
<1>1. k \in Seq(Char)
  <2>1. k \in Seq(Char \ {CR})
    BY WithoutIsSequence DEF Kept
  <2> QED BY <2>1, SeqMonotonic
<1>2. Strip(s) \in Seq(Char)
  BY StripParts
<1> HIDE DEF k
<1>3. ~Overlong(s) => ReadLine(s) = [line |-> IF client = "c" THEN k ELSE Strip(s), rest |-> <<>>]
  BY DEF ReadLine, k
<1>4. Overlong(s) =>
        /\ SubSeq(k, 1, LineSize - 1) \in Seq(Char)
        /\ SubSeq(k, LineSize, Len(k)) \in Seq(Char)
  <2> SUFFICES ASSUME Overlong(s)
               PROVE  /\ SubSeq(k, 1, LineSize - 1) \in Seq(Char)
                      /\ SubSeq(k, LineSize, Len(k)) \in Seq(Char)
    OBVIOUS
  <2> PICK n \in Nat : n = Len(k)
    BY <1>1, LenProperties
  <2>1. LineSize \in Nat /\ LineSize >= 2 /\ n >= LineSize - 1
    BY CalculationAssumption DEF Overlong, k
  <2>2. \A i \in 1 .. n : k[i] \in Char
    BY <1>1, ElementOfSeq
  <2>3. 1 \in Int /\ LineSize - 1 \in Int /\ \A i \in 1 .. LineSize - 1 : k[i] \in Char
    BY <2>1, <2>2
  <2>4. LineSize \in Int /\ n \in Int /\ \A i \in LineSize .. n : k[i] \in Char
    BY <2>1, <2>2
  <2> QED BY <2>3, <2>4, SubSeqProperties
<1>5. Overlong(s) => ReadLine(s) = [line |-> SubSeq(k, 1, LineSize - 1),
                                    rest |-> <<SubSeq(k, LineSize, Len(k))>>]
  BY DEF ReadLine, k
<1>6. <<>> \in Seq(Seq(Char)) /\ Len(<<>>) = 0
  BY EmptySeq
<1>7. \A x \in Seq(Char) : <<x>> \in Seq(Seq(Char)) /\ Len(<<x>>) = 1
  OBVIOUS
<1>8. CASE Overlong(s)
  <2> PICK x \in Seq(Char), y \in Seq(Char) :
        x = SubSeq(k, 1, LineSize - 1) /\ y = SubSeq(k, LineSize, Len(k))
    BY <1>4, <1>8
  <2>1. ReadLine(s) = [line |-> x, rest |-> <<y>>]
    BY <1>5, <1>8
  <2>2. ReadLine(s).line = x /\ ReadLine(s).rest = <<y>>
    BY <2>1
  <2>3. <<y>> \in Seq(Seq(Char)) /\ Len(<<y>>) = 1
    BY <1>7
  <2>4. Len(<<y>>) <= 1
    BY <2>3
  <2> QED BY <1>8, <2>2, <2>3, <2>4, Zenon
<1>9. CASE ~Overlong(s)
  <2>1. ReadLine(s).line = (IF client = "c" THEN k ELSE Strip(s)) /\ ReadLine(s).rest = <<>>
    BY <1>3, <1>9
  <2> QED BY <1>1, <1>2, <1>6, <1>9, <2>1 DEF k
<1> QED BY <1>8, <1>9, Zenon

\* What the C client takes a line for.
LEMMA CValueRight ==
  ASSUME pc \in Prompt, NEW t \in Seq(Char)
  PROVE  /\ \A n \in CValue(t) :
              /\ IsNumeral(t) /\ n \in Int
              /\ \/ n = Denotes(t) /\ n \in Asked
                 \/ pc = "choice" /\ Narrowed(Denotes(t), n) /\ n \in 0 .. Exit
         /\ IsNumeral(t) /\ Denotes(t) \in Asked => CValue(t) # {}
<1>1. ParseInt64(t) = IF IsNumeral(t) /\ Denotes(t) \in Word THEN {Denotes(t)} ELSE {}
  BY ParseInt64Right
<1>2. Word \subseteq Int /\ 1 .. Exit \subseteq Word
  BY MenuIs, HalfAssumption, NumbersAssumption DEF Word, IntMin, IntMax
<1>3. PICK v : v = Denotes(t)
  OBVIOUS
<1>4. CASE pc # "choice"
  BY <1>1, <1>2, <1>4 DEF CValue, Asked
<1>5. CASE pc = "choice"
  <2> PICK c \in Nat : c = ChoiceValues /\ c > 5 /\ Exit = 5
    BY CalculationAssumption, MenuIs
  <2>1. CValue(t) = IF IsNumeral(t) /\ v \in Word /\ v >= 1 /\ v % c <= Exit THEN {v % c} ELSE {}
    BY <1>1, <1>3, <1>5 DEF CValue
  <2>2. v \in Word => v \in Int
    BY <1>2
  <2>3. v \in Int /\ v >= 1 => /\ v % c \in Nat
                               /\ v < c => v % c = v
    OBVIOUS
  <2>4. v \in Int /\ v >= 1 /\ v % c <= 5 =>
          v % c \in 0 .. 5 /\ (v < c => v % c = v /\ v \in 1 .. 5)
    BY <2>3
  <2>5. v \in 1 .. 5 => v \in Word /\ v >= 1 /\ v % c <= 5
    BY <1>2, <2>3
  <2>6. IsNumeral(t) /\ v \in Asked => CValue(t) # {}
    BY <1>5, <2>1, <2>5 DEF Asked
  <2>7. ASSUME NEW n \in CValue(t)
        PROVE  /\ IsNumeral(t) /\ n \in Int
               /\ \/ n = v /\ n \in Asked
                  \/ Narrowed(v, n) /\ n \in 0 .. Exit
    <3>1. IsNumeral(t) /\ v \in Int /\ v >= 1 /\ v % c <= 5 /\ n = v % c
      BY <2>1, <2>2, <2>7
    <3>2. CASE v < c
      BY <1>5, <2>4, <3>1, <3>2 DEF Asked
    <3>3. CASE v >= c
      BY <2>4, <3>1, <3>3 DEF Narrowed
    <3> QED BY <3>1, <3>2, <3>3
  <2> QED BY <1>3, <1>5, <2>6, <2>7
<1> QED BY <1>4, <1>5

\* A line that is read as it is: what is accepted was meant, ...
LEMMA AcceptedMeaning ==
  ASSUME client \in {"python", "c"}, pc \in Prompt,
         NEW s \in Seq(Char), ~Overlong(s), NEW n \in Value(ReadLine(s).line)
  PROVE  /\ client = "c" => IsNumeral(Kept(s))
         /\ \/ Meanings(s) = {n} /\ n \in Asked
            \/ client = "c" /\ pc = "choice" /\ \E m \in Meanings(s) : Narrowed(m, n)
<1>1. ReadLine(s).line = IF client = "c" THEN Kept(s) ELSE Strip(s)
  BY ReadLineType
<1>2. CASE client = "c"
  <2>1. n \in CValue(Kept(s)) /\ Kept(s) \in Seq(Char)
    BY <1>1, <1>2, ReadLineType DEF Value
  <2>2. /\ IsNumeral(Kept(s))
        /\ \/ n = Denotes(Kept(s)) /\ n \in Asked
           \/ pc = "choice" /\ Narrowed(Denotes(Kept(s)), n)
    BY <2>1, CValueRight
  <2>3. Meanings(s) = {Denotes(Kept(s))}
    BY <2>2, PlainMeaning
  <2> QED BY <1>2, <2>2, <2>3
<1>3. CASE client = "python"
  <2>1. n \in PyInt(Strip(s)) /\ n \in Asked
    BY <1>1, <1>3 DEF Value, PyValue
  <2> QED BY <1>3, <2>1, StrippedMeaning
<1> QED BY <1>2, <1>3

\* ... and what is asked for is accepted.
LEMMA RefusedLine ==
  ASSUME client \in {"python", "c"}, pc \in Prompt,
         NEW s \in Seq(Char), ~Overlong(s), Value(ReadLine(s).line) = {},
         NEW t, t = (IF client = "c" THEN Kept(s) ELSE Strip(s))
  PROVE  ~(IsNumeral(t) /\ Denotes(t) \in Asked)
<1>1. ReadLine(s).line = t /\ t \in Seq(Char)
  BY ReadLineType
<1>2. CASE client = "c"
  BY <1>1, <1>2, CValueRight DEF Value
<1>3. CASE client = "python"
  BY <1>1, <1>3, PyIntRight DEF Value, PyValue
<1> QED BY <1>2, <1>3

LEMMA MeaningsAreNumbers == ASSUME NEW s \in Seq(Char) PROVE Meanings(s) \in SUBSET Int
<1> DEFINE C == {CR, Blank, Underscore}
<1>1. Without(s, C) \in Seq(Char)
  <2>1. Without(s, C) \in Seq(Char \ C)
    BY WithoutIsSequence
  <2> QED BY <2>1, SeqMonotonic
<1>2. PICK d \in Seq(Char) : d = Without(s, C)
  BY <1>1
<1>3. Denotes(d) \in Int
  BY DenotesNumber
<1> QED BY <1>2, <1>3 DEF Meanings

\* What leaves a prompt is what is asked for there, or the choice that the
\* narrowing makes.
LEMMA ValueType ==
  ASSUME client \in {"python", "c"}, pc \in Prompt,
         NEW t \in Seq(Char), NEW n \in Value(t)
  PROVE  /\ n \in Int
         /\ pc = "choice" => n \in 0 .. Exit
         /\ pc # "choice" => n \in Word
<1>1. Word \subseteq Int /\ 1 .. Exit \subseteq 0 .. Exit /\ 0 .. Exit \subseteq Int
  BY MenuIs, HalfAssumption DEF Word, IntMin, IntMax
<1>2. n \in Asked \/ (pc = "choice" /\ n \in 0 .. Exit)
  <2>1. CASE client = "c"
    BY <2>1, CValueRight DEF Value
  <2>2. CASE client = "python"
    BY <2>2 DEF Value, PyValue
  <2> QED BY <2>1, <2>2
<1> QED BY <1>1, <1>2 DEF Asked

\* A choice that has been narrowed was not on the menu.
LEMMA NarrowedFromElsewhere ==
  ASSUME NEW m \in Int, NEW n, Narrowed(m, n)
  PROVE  m \notin DOMAIN Menu
<1> PICK c \in Nat : c = ChoiceValues /\ c > 5
  BY CalculationAssumption, MenuIs
<1>1. m >= c
  BY DEF Narrowed
<1> QED BY <1>1, MenuIs

----------------------------------------------------------------------------
(* The invariant, action by action.                                        *)

LEMMA CInvInit == Init => CInv
<1> SUFFICES ASSUME Init PROVE CInv
  OBVIOUS
<1>1. 0 \in Word /\ 0 \in 0 .. Exit
  BY MenuIs, HalfAssumption DEF Word, IntMin, IntMax
<1>2. <<>> \in Seq(Seq(Char)) /\ Len(<<>>) = 0
  BY EmptySeq
<1>3. pc \in Prompt \cup {"send"} /\ (client = "foreign" => pc = "send")
  BY DEF Init, Start, Prompt
<1>4. pc \in {"choice", "send"} /\ (client # "foreign" => pc = "choice")
  BY DEF Init, Start
<1>5. CTypeOK
  <2>1. input \in [Prompt -> Int] /\ meant \in [Prompt -> SUBSET Int]
    BY DEF Init, NoInput, NoMeaning
  <2>2. input["choice"] = 0 /\ input["a"] = 0 /\ input["b"] = 0
    BY DEF Init, NoInput, Prompt
  <2>3. request \in [op : OpCode \cup {"other"}, a : Int, b : Int]
    BY DEF Init, NoRequest
  <2>4. reply \in [code : {"none", "CALC_ACK", "ERR_DIV_ZERO", "ERR_UNKNOWN_OP"}, result : Int]
    BY DEF Init, NoReply
  <2>5. stdin \in Seq(Seq(Char)) /\ Len(stdin) <= 1
    BY <1>2 DEF Init
  <2>6. /\ client \in {"python", "c", "foreign"} /\ server \in {"kernel", "mock"}
        /\ shown \in Int /\ overlong \in BOOLEAN
    <3>1. shown = 0 /\ overlong = FALSE
      BY DEF Init
    <3>2. overlong \in BOOLEAN
      BY <3>1, Zenon
    <3>3. shown \in Int
      BY <3>1
    <3> QED BY <3>2, <3>3, Zenon DEF Init
  <2>7. /\ pc \in Prompt \cup {"send", "serve", "show", "shown", "exited", "crashed", "hung"}
        /\ input["choice"] \in 0 .. Exit /\ input["a"] \in Word /\ input["b"] \in Word
    BY <1>1, <1>3, <2>2
  <2> QED BY <2>1, <2>3, <2>4, <2>5, <2>6, <2>7, Zenon DEF CTypeOK
<1>6. TypedOK
  BY DEF Init, TypedOK
<1>7. PlaceOK
  BY <1>3 DEF PlaceOK, Prompt
<1>8. AnsweredOK /\ RequestOK /\ ReplyOK /\ ShownOK
  BY <1>4 DEF AnsweredOK, RequestOK, ReplyOK, ShownOK, Requested
<1> QED BY <1>5, <1>6, <1>7, <1>8 DEF CInv

LEMMA TypeStep == CInv /\ Type => CInv'
<1> SUFFICES ASSUME CInv, Type PROVE CInv'
  OBVIOUS
<1> USE DEF CInv
<1> PICK s \in Lines[pc] :
      /\ stdin' = <<s>>
      /\ meant' = [meant EXCEPT ![pc] = Meanings(s)]
      /\ overlong' = (overlong \/ Overlong(s))
  BY DEF Type
<1>1. /\ pc \in Prompt /\ pc' = pc /\ client' = client /\ server' = server
      /\ input' = input /\ request' = request /\ reply' = reply /\ shown' = shown
  BY DEF Type
<1>2. s \in Seq(Char) /\ Meanings(s) \in SUBSET Int
  BY <1>1, CalculationAssumption, MeaningsAreNumbers
<1>3. Overlong(s) \in BOOLEAN /\ Overlong(s)' = Overlong(s) /\ Meanings(s)' = Meanings(s)
  BY <1>1 DEF Overlong
<1>4. CTypeOK'
  <2>1. <<s>> \in Seq(Seq(Char)) /\ Len(<<s>>) = 1
    BY <1>2
  <2>2. stdin' \in Seq(Seq(Char)) /\ Len(stdin') <= 1
    BY <2>1
  <2>3. meant' \in [Prompt -> SUBSET Int]
    BY <1>1, <1>2 DEF CTypeOK
  <2>4. overlong' \in BOOLEAN
    BY <1>3 DEF CTypeOK
  <2> QED BY <1>1, <2>2, <2>3, <2>4 DEF CTypeOK
<1>5. TypedOK'
  <2>1. stdin'[1] = s
    OBVIOUS
  <2>2. meant'[pc] = Meanings(s)
    BY <1>1 DEF CTypeOK
  <2>3. ~overlong' => ~Overlong(s)'
    BY <1>3
  <2> QED BY <1>1, <1>3, <2>1, <2>2, <2>3 DEF TypedOK
<1>6. PlaceOK'
  BY <1>1 DEF PlaceOK
<1>7. AnsweredOK'
  <2>1. \A p \in Prompt : p # pc => meant'[p] = meant[p]
    BY DEF CTypeOK
  <2>2. ~overlong' => ~overlong
    OBVIOUS
  <2> QED BY <1>1, <2>1, <2>2 DEF AnsweredOK, Prompt, Requested
<1>8. RequestOK' /\ ReplyOK' /\ ShownOK'
  BY <1>1 DEF RequestOK, ReplyOK, ShownOK, Requested, Prompt
<1> QED BY <1>4, <1>5, <1>6, <1>7, <1>8

LEMMA EndOfInputStep == CInv /\ EndOfInput => CInv'
<1> SUFFICES ASSUME CInv, EndOfInput PROVE CInv'
  OBVIOUS
<1> USE DEF CInv
<1>1. /\ pc' = "exited" /\ client' = client /\ server' = server /\ stdin' = stdin
      /\ input' = input /\ request' = request /\ reply' = reply /\ shown' = shown
      /\ meant' = meant /\ overlong' = overlong /\ stdin = <<>>
  BY DEF EndOfInput
<1>2. CTypeOK'
  BY <1>1 DEF CTypeOK
<1> QED BY <1>1, <1>2 DEF TypedOK, PlaceOK, AnsweredOK, RequestOK, ReplyOK, ShownOK,
                          Requested, Prompt

LEMMA AnswerStep == CInv /\ Answer => CInv'
<1> SUFFICES ASSUME CInv, Answer PROVE CInv'
  OBVIOUS
<1> USE DEF CInv
<1>1. /\ pc \in Prompt /\ stdin # <<>> /\ client' = client /\ server' = server
      /\ request' = request /\ reply' = reply /\ shown' = shown
      /\ meant' = meant /\ overlong' = overlong
  BY DEF Answer
<1>2. client \in {"python", "c"}
  BY <1>1 DEF PlaceOK, CTypeOK
<1> PICK s \in Seq(Char) : s = stdin[1]
  <2>1. Len(stdin) >= 1
    <3>1. stdin \in Seq(Seq(Char)) /\ Len(stdin) \in Nat
      BY LenProperties DEF CTypeOK
    <3> QED BY <1>1, <3>1, EmptySeq
  <2> QED BY <2>1, ElementOfSeq DEF CTypeOK
<1> PICK t \in Seq(Char) : t = ReadLine(s).line
  BY ReadLineType
<1>3. /\ stdin' = ReadLine(s).rest
      /\ \/ Value(t) = {} /\ pc' = pc /\ input' = input
         \/ \E n \in Value(t) : /\ input' = [input EXCEPT ![pc] = n]
                                /\ pc' = Following(pc, n)
  BY DEF Answer
<1>4. stdin' \in Seq(Seq(Char)) /\ Len(stdin') <= 1
  BY <1>3, ReadLineType
<1>5. ~overlong => /\ stdin' = <<>> /\ ~Overlong(s) /\ meant[pc] = Meanings(s)
  BY <1>1, <1>3, ReadLineType DEF TypedOK
<1>6. TypedOK'
  BY <1>1, <1>5 DEF TypedOK
<1>7. PlaceOK'
  BY <1>1, <1>2 DEF PlaceOK
<1>8. CASE pc' = pc /\ input' = input
  <2>1. CTypeOK'
    BY <1>1, <1>4, <1>8 DEF CTypeOK
  <2>2. AnsweredOK' /\ RequestOK' /\ ReplyOK' /\ ShownOK'
    BY <1>1, <1>8 DEF AnsweredOK, RequestOK, ReplyOK, ShownOK, Requested, Prompt
  <2> QED BY <1>6, <1>7, <2>1, <2>2
<1>9. ASSUME NEW n \in Value(t), input' = [input EXCEPT ![pc] = n], pc' = Following(pc, n)
      PROVE  CInv'
  <2>1. /\ n \in Int
        /\ pc = "choice" => n \in 0 .. Exit
        /\ pc # "choice" => n \in Word
    BY <1>1, <1>2, ValueType
  <2>2. /\ pc = "choice" => pc' \in {"a", "exited"}
        /\ pc = "a" => pc' = "b"
        /\ pc = "b" => pc' = "send"
    BY <1>9 DEF Following
  <2>3. \A p \in Prompt : input'[p] = IF p = pc THEN n ELSE input[p]
    BY <1>9 DEF CTypeOK
  <2>4. "choice" \in Prompt /\ "a" \in Prompt /\ "b" \in Prompt
    BY DEF Prompt
  <2>5. CTypeOK'
    <3>1. input' \in [Prompt -> Int]
      BY <1>1, <1>9, <2>1 DEF CTypeOK
    <3>2. input'["choice"] \in 0 .. Exit /\ input'["a"] \in Word /\ input'["b"] \in Word
      BY <1>1, <2>1, <2>3, <2>4 DEF CTypeOK
    <3>3. pc' \in Prompt \cup {"send", "serve", "show", "shown", "exited", "crashed", "hung"}
      BY <1>1, <2>2 DEF Prompt
    <3> QED BY <1>1, <1>4, <3>1, <3>2, <3>3 DEF CTypeOK
  <2>6. AnsweredOK'
    <3> SUFFICES ASSUME ~overlong PROVE AnsweredOK'
      BY <1>1 DEF AnsweredOK
    <3>1. \/ meant[pc] = {n} /\ n \in Asked
          \/ client = "c" /\ pc = "choice" /\ \E m \in meant[pc] : Narrowed(m, n)
      BY <1>1, <1>2, <1>5, AcceptedMeaning
    <3>2. pc # "choice" => meant[pc] = {n}
      BY <3>1
    <3>3. pc = "choice" => meant["choice"] \cap DOMAIN Menu \subseteq {n}
      <4> SUFFICES ASSUME pc = "choice", NEW k \in meant["choice"], k \in DOMAIN Menu
                   PROVE  k = n
        OBVIOUS
      <4>1. meant["choice"] = Meanings(s) /\ \A j \in Meanings(s) : j = k
        <5>1. meant["choice"] = Meanings(s)
          BY <1>5
        <5> QED BY <5>1 DEF Meanings
      <4>2. k \in Int
        BY <2>4 DEF CTypeOK
      <4>3. ~Narrowed(k, n)
        BY <4>2, NarrowedFromElsewhere
      <4> QED BY <3>1, <4>1, <4>3
    <3> QED BY <1>1, <2>2, <2>3, <2>4, <3>2, <3>3 DEF AnsweredOK, Requested, Prompt
  <2>7. RequestOK' /\ ReplyOK' /\ ShownOK'
    BY <1>1, <2>2 DEF RequestOK, ReplyOK, ShownOK, Requested, Prompt
  <2> QED BY <1>6, <1>7, <2>5, <2>6, <2>7
<1> QED BY <1>3, <1>8, <1>9

\* What is on its way, of what a client took.
LEMMA SentOperands ==
  ASSUME CInv
  PROVE  OnWire(input["a"]) = input["a"] /\ OnWire(input["b"]) = input["b"]
BY OnWireRight DEF CInv, CTypeOK

LEMMA SendStep == CInv /\ (Send \/ SendUndefined) => CInv'
<1> SUFFICES ASSUME CInv, Send \/ SendUndefined PROVE CInv'
  OBVIOUS
<1>1. /\ pc = "send" /\ client # "foreign" /\ client' = client /\ server' = server
      /\ stdin' = stdin /\ input' = input /\ reply' = reply /\ shown' = shown
      /\ meant' = meant /\ overlong' = overlong
  BY DEF Send, SendUndefined
<1>2. PICK x \in Int, y \in Int : x = input["a"] /\ y = input["b"]
  BY DEF CInv, CTypeOK, Prompt
<1>3. OnWire(input["a"]) = x /\ OnWire(input["b"]) = y
  BY <1>2, SentOperands
<1>4. CASE pc' = "crashed" /\ request' = request
  <2>1. CTypeOK'
    BY <1>1, <1>4 DEF CInv, CTypeOK
  <2> QED BY <1>1, <1>4, <2>1 DEF CInv, TypedOK, PlaceOK, AnsweredOK, RequestOK, ReplyOK,
                                  ShownOK, Requested, Prompt
<1>5. ASSUME NEW op \in OpCode \cup {"other"}, pc' = "serve",
             request' = [op |-> op, a |-> x, b |-> y],
             input["choice"] \in DOMAIN Menu => op = Menu[input["choice"]]
      PROVE  CInv'
  <2>1. request' \in [op : OpCode \cup {"other"}, a : Int, b : Int]
    BY <1>5
  <2>2. CTypeOK'
    BY <1>1, <1>5, <2>1 DEF CInv, CTypeOK
  <2>3. TypedOK' /\ PlaceOK' /\ AnsweredOK'
    BY <1>1, <1>5 DEF CInv, TypedOK, PlaceOK, AnsweredOK, Requested, Prompt
  <2>4. RequestOK'
    <3> SUFFICES ASSUME ~overlong PROVE RequestOK'
      BY <1>1 DEF RequestOK
    <3>1. /\ meant["a"] = {x} /\ meant["b"] = {y}
          /\ meant["choice"] \cap DOMAIN Menu \subseteq {input["choice"]}
      BY <1>1, <1>2 DEF CInv, AnsweredOK
    <3>2. request'.op = op /\ request'.a = x /\ request'.b = y
      BY <1>5
    <3>3. \A n \in meant["choice"] \cap DOMAIN Menu : request'.op = Menu[n]
      BY <1>5, <3>1, <3>2
    <3> QED BY <1>1, <3>1, <3>2, <3>3 DEF RequestOK
  <2>5. ReplyOK' /\ ShownOK'
    BY <1>5 DEF ReplyOK, ShownOK
  <2> QED BY <2>2, <2>3, <2>4, <2>5 DEF CInv
<1>6. CASE Send
  <2>1. input["choice"] \in DOMAIN Menu /\ Menu[input["choice"]] \in OpCode
    BY <1>6, MenuIs DEF Send
  <2> QED BY <1>3, <1>5, <1>6, <2>1 DEF Send
<1>7. CASE SendUndefined
  <2>1. input["choice"] \notin DOMAIN Menu
    BY <1>7, MenuIs DEF SendUndefined
  <2> QED BY <1>3, <1>4, <1>5, <1>7, <2>1 DEF SendUndefined
<1> QED BY <1>6, <1>7

LEMMA SendForeignStep == CInv /\ SendForeign => CInv'
<1> SUFFICES ASSUME CInv, SendForeign PROVE CInv'
  OBVIOUS
<1>1. /\ pc = "send" /\ client = "foreign" /\ client' = client /\ server' = server
      /\ stdin' = stdin /\ input' = input /\ reply' = reply /\ shown' = shown
      /\ overlong' = overlong /\ pc' = "serve"
  BY DEF SendForeign
<1> PICK n \in DOMAIN Menu, x \in Int, y \in Int :
      /\ request' = [op |-> Menu[n], a |-> x, b |-> y]
      /\ meant' = [choice |-> {n}, a |-> {x}, b |-> {y}]
  BY CalculationAssumption DEF SendForeign
<1> PICK o \in OpCode : o = Menu[n]
  BY MenuIs
<1>2. n \in Int
  BY MenuIs
<1>3. meant' \in [Prompt -> SUBSET Int]
  BY <1>2 DEF Prompt
<1>4. meant'["choice"] = {n} /\ meant'["a"] = {x} /\ meant'["b"] = {y}
  OBVIOUS
<1>5. request' \in [op : OpCode \cup {"other"}, a : Int, b : Int]
  OBVIOUS
<1>6. request'.op = o /\ request'.a = x /\ request'.b = y
  OBVIOUS
<1>7. CTypeOK'
  BY <1>1, <1>3, <1>5 DEF CInv, CTypeOK
<1>8. TypedOK' /\ PlaceOK' /\ AnsweredOK'
  BY <1>1 DEF CInv, TypedOK, PlaceOK, AnsweredOK, Prompt
<1>9. RequestOK'
  BY <1>4, <1>6 DEF RequestOK
<1>10. ReplyOK' /\ ShownOK'
  BY <1>1 DEF ReplyOK, ShownOK
<1> QED BY <1>7, <1>8, <1>9, <1>10 DEF CInv

LEMMA ServeStep == CInv /\ Serve => CInv'
<1> SUFFICES ASSUME CInv, Serve PROVE CInv'
  OBVIOUS
<1>1. /\ pc = "serve" /\ pc' = "show" /\ client' = client /\ server' = server
      /\ stdin' = stdin /\ input' = input /\ request' = request /\ shown' = shown
      /\ meant' = meant /\ overlong' = overlong
      /\ reply' = ReplyTo(request.op, Cut(request.a), Cut(request.b))
  BY DEF Serve
<1>2. CTypeOK'
  <2> PICK op \in OpCode \cup {"other"}, a \in Int, b \in Int :
        op = request.op /\ a = request.a /\ b = request.b
    BY DEF CInv, CTypeOK
  <2>1. ReplyTo(op, Cut(a), Cut(b)) \in
          [code : {"none", "CALC_ACK", "ERR_DIV_ZERO", "ERR_UNKNOWN_OP"}, result : Int]
    <3>1. CASE op \notin OpCode
      BY <3>1 DEF ReplyTo
    <3>2. CASE op = "DIV" /\ Cut(b) = 0
      BY <3>2 DEF ReplyTo, OpCode
    <3>3. CASE op \in OpCode /\ ~(op = "DIV" /\ Cut(b) = 0)
      <4>1. server \in {"kernel", "mock"}
        BY DEF CInv, CTypeOK
      <4>2. Compute(op, Cut(a), Cut(b)) \in Int
        BY <3>3, <4>1, ComputeIsNumber
      <4>3. ReplyTo(op, Cut(a), Cut(b)) =
              [code |-> "CALC_ACK", result |-> Compute(op, Cut(a), Cut(b))]
        BY <3>3 DEF ReplyTo
      <4> QED BY <4>2, <4>3
    <3> QED BY <3>1, <3>2, <3>3
  <2> QED BY <1>1, <2>1 DEF CInv, CTypeOK
<1>3. TypedOK' /\ PlaceOK' /\ AnsweredOK' /\ RequestOK'
  BY <1>1 DEF CInv, TypedOK, PlaceOK, AnsweredOK, RequestOK, Requested, Prompt
<1>4. ReplyOK'
  <2>1. \A n : Cut(n)' = Cut(n)
    BY <1>1 DEF Cut
  <2>2. \A op, a, b : ReplyTo(op, a, b)' = ReplyTo(op, a, b)
    BY <1>1 DEF ReplyTo, Compute
  <2> QED BY <1>1, <2>1, <2>2 DEF ReplyOK, Cut, ReplyTo, Compute
<1>5. ShownOK'
  BY <1>1 DEF ShownOK
<1> QED BY <1>2, <1>3, <1>4, <1>5 DEF CInv

LEMMA ServeTrapsStep == CInv /\ ServeTraps => CInv'
<1> SUFFICES ASSUME CInv, ServeTraps PROVE CInv'
  OBVIOUS
<1>1. /\ pc = "serve" /\ pc' = "hung" /\ client' = client /\ server' = server
      /\ stdin' = stdin /\ input' = input /\ request' = request /\ reply' = reply
      /\ shown' = shown /\ meant' = meant /\ overlong' = overlong
  BY DEF ServeTraps
<1>2. CTypeOK'
  BY <1>1 DEF CInv, CTypeOK
<1> QED BY <1>1, <1>2 DEF CInv, TypedOK, PlaceOK, AnsweredOK, RequestOK, ReplyOK, ShownOK,
                          Requested, Prompt

LEMMA ShowStep == CInv /\ Show => CInv'
<1> SUFFICES ASSUME CInv, Show PROVE CInv'
  OBVIOUS
<1>1. /\ pc = "show" /\ pc' = "shown" /\ client' = client /\ server' = server
      /\ stdin' = stdin /\ input' = input /\ request' = request /\ reply' = reply
      /\ meant' = meant /\ overlong' = overlong
      /\ reply.code = "CALC_ACK" => shown' \in Screen(reply.result)
      /\ reply.code # "CALC_ACK" => shown' = shown
  BY DEF Show
<1>2. shown' \in Int
  <2>1. PICK r \in Int : r = reply.result
    BY DEF CInv, CTypeOK
  <2> QED BY <1>1, <2>1, ScreenIsNumber DEF CInv, CTypeOK
<1>3. CTypeOK'
  BY <1>1, <1>2 DEF CInv, CTypeOK
<1>4. TypedOK' /\ PlaceOK' /\ AnsweredOK' /\ RequestOK'
  BY <1>1 DEF CInv, TypedOK, PlaceOK, AnsweredOK, RequestOK, Requested, Prompt
<1>5. ReplyOK'
  BY <1>1 DEF CInv, ReplyOK, Cut, ReplyTo, Compute
<1>6. ShownOK'
  BY <1>1 DEF ShownOK, Screen
<1> QED BY <1>3, <1>4, <1>5, <1>6 DEF CInv

LEMMA AgainStep == CInv /\ Again => CInv'
<1> SUFFICES ASSUME CInv, Again PROVE CInv'
  OBVIOUS
<1>1. /\ pc = "shown" /\ pc' = Start(client) /\ client' = client /\ server' = server
      /\ input' = NoInput /\ request' = NoRequest /\ reply' = NoReply /\ shown' = 0
      /\ meant' = NoMeaning /\ stdin' = stdin /\ overlong' = overlong
  BY DEF Again
<1>2. /\ pc' \in {"choice", "send"}
      /\ client # "foreign" => pc' = "choice"
      /\ client = "foreign" => pc' = "send"
  BY <1>1 DEF Start
<1>3. CTypeOK'
  <2>1. 0 \in Word /\ 0 \in 0 .. Exit
    BY MenuIs, HalfAssumption DEF Word, IntMin, IntMax
  <2>2. input' \in [Prompt -> Int] /\ meant' \in [Prompt -> SUBSET Int]
    BY <1>1 DEF NoInput, NoMeaning
  <2>3. input'["choice"] = 0 /\ input'["a"] = 0 /\ input'["b"] = 0
    BY <1>1 DEF NoInput, Prompt
  <2>4. request' \in [op : OpCode \cup {"other"}, a : Int, b : Int]
    BY <1>1 DEF NoRequest
  <2>5. reply' \in [code : {"none", "CALC_ACK", "ERR_DIV_ZERO", "ERR_UNKNOWN_OP"}, result : Int]
    BY <1>1 DEF NoReply
  <2>6. pc' \in Prompt \cup {"send", "serve", "show", "shown", "exited", "crashed", "hung"}
    BY <1>2 DEF Prompt
  <2>7. shown' \in Int
    BY <1>1
  <2> QED BY <1>1, <2>1, <2>2, <2>3, <2>4, <2>5, <2>6, <2>7, Zenon DEF CInv, CTypeOK
<1>4. TypedOK'
  <2>1. ~overlong => stdin = <<>>
    BY <1>1 DEF CInv, TypedOK, Prompt
  <2> QED BY <1>1, <2>1 DEF TypedOK
<1>5. PlaceOK' /\ AnsweredOK' /\ RequestOK' /\ ReplyOK' /\ ShownOK'
  BY <1>1, <1>2 DEF PlaceOK, AnsweredOK, RequestOK, ReplyOK, ShownOK, Requested, Prompt
<1> QED BY <1>3, <1>4, <1>5 DEF CInv

LEMMA CInvStutter == CInv /\ UNCHANGED vars => CInv'
BY DEF vars, CInv, CTypeOK, TypedOK, PlaceOK, AnsweredOK, RequestOK, ReplyOK, ShownOK,
       Overlong, Cut, ReplyTo, Compute, Screen

LEMMA CInvStep == CInv /\ [Next]_vars => CInv'
BY TypeStep, EndOfInputStep, AnswerStep, SendStep, SendForeignStep, ServeStep,
   ServeTrapsStep, ShowStep, AgainStep, CInvStutter DEF Next

----------------------------------------------------------------------------
(* The theorems.                                                           *)

\* What follows needs of a calculation: what the user meant is what was
\* accepted and sent, and the reply and the screen belong to it.
THEOREM CalculationInvariance == Spec => []CInv
<1>1. Init => CInv
  BY CInvInit
<1>2. CInv /\ [Next]_vars => CInv'
  BY CInvStep
<1> QED BY <1>1, <1>2, PTL DEF Spec

\* Type correctness: whatever is typed, what leaves the prompts is a choice of
\* the menu (or the 0 that narrowing makes) and two words.
THEOREM CalculationTypeCorrect == Spec => []CTypeOK
<1>1. CInv => CTypeOK
  BY DEF CInv
<1> QED BY <1>1, CalculationInvariance, PTL

\* Each prompt gets the user's own answer: a plain number that is asked for is
\* never refused, and what is accepted is the number that was meant.
THEOREM AnswersTakenCorrect == Spec => AnswersTaken
<1>1. CInv /\ [Next]_vars => [~overlong /\ pc \in Prompt /\ stdin # <<>> => AnswerTaken]_vars
  <2> SUFFICES ASSUME CInv, Next, ~overlong, pc \in Prompt, stdin # <<>>
               PROVE  AnswerTaken
    OBVIOUS
  <2>1. Answer
    BY DEF Next, Type, EndOfInput, Answer, Send, SendUndefined, SendForeign, Serve,
           ServeTraps, Show, Again, Prompt
  <2>2. client \in {"python", "c"}
    BY DEF CInv, CTypeOK, PlaceOK
  <2> PICK s \in Seq(Char) : s = stdin[1]
    <3>1. stdin \in Seq(Seq(Char)) /\ Len(stdin) \in Nat
      BY LenProperties DEF CInv, CTypeOK
    <3>2. Len(stdin) >= 1
      BY <3>1, EmptySeq
    <3> QED BY <3>1, <3>2, ElementOfSeq
  <2>3. meant[pc] = Meanings(s) /\ ~Overlong(s)
    BY DEF CInv, TypedOK
  <2> PICK t \in Seq(Char) : t = ReadLine(s).line
    BY ReadLineType
  <2>4. \/ Value(t) = {} /\ pc' = pc
        \/ \E n \in Value(t) : /\ input' = [input EXCEPT ![pc] = n]
                               /\ pc' = Following(pc, n)
    BY <2>1 DEF Answer
  <2>5. PICK u : u = (IF client = "c" THEN Kept(s) ELSE Strip(s))
    OBVIOUS
  <2>6. CASE Value(t) = {} /\ pc' = pc
    <3>1. ~(IsNumeral(u) /\ Denotes(u) \in Asked)
      BY <2>2, <2>3, <2>5, <2>6, RefusedLine
    <3> QED BY <2>5, <2>6, <3>1 DEF AnswerTaken
  <2>7. ASSUME NEW n \in Value(t), input' = [input EXCEPT ![pc] = n], pc' = Following(pc, n)
        PROVE  AnswerTaken
    <3>1. pc' # pc
      BY <2>7 DEF Following, Prompt
    <3>2. input'[pc] = n
      BY <2>7 DEF CInv, CTypeOK
    <3>3. /\ client = "c" => IsNumeral(Kept(s))
          /\ \/ Meanings(s) = {n} /\ n \in Asked
             \/ client = "c" /\ pc = "choice" /\ \E m \in Meanings(s) : Narrowed(m, n)
      BY <2>2, <2>3, AcceptedMeaning
    <3>4. client = "c" => u = Kept(s)
      BY <2>5
    <3> QED BY <2>3, <2>5, <3>1, <3>2, <3>3, <3>4 DEF AnswerTaken
  <2> QED BY <2>4, <2>6, <2>7
<1> QED BY <1>1, CalculationInvariance, PTL DEF Spec, AnswersTaken

\* From the keyboard to the screen: if the operation the user chose has a result
\* that is a word, of the numbers the user typed, it is the result shown, and the
\* error shown is a division by zero when it is one.
THEOREM ShownCorrect == Spec => []ShownRight
<1>1. CInv => ShownRight
  <2> SUFFICES ASSUME CInv, pc = "shown", ~overlong,
                      NEW n \in meant["choice"] \cap DOMAIN Menu,
                      NEW a \in meant["a"], NEW b \in meant["b"]
               PROVE  /\ reply.code = "CALC_ACK" =>
                           \A r \in Word : IsResult(Menu[n], a, b, r) /\ Carried(Menu[n], a, b, r)
                                             => shown = r
                      /\ {a, b} \subseteq Word =>
                           reply.code = IF Menu[n] = "DIV" /\ b = 0
                                        THEN "ERR_DIV_ZERO" ELSE "CALC_ACK"
    BY DEF ShownRight
  <2> PICK op \in OpCode : op = Menu[n]
    BY MenuIs
  <2>1. request.op = op /\ request.a = a /\ request.b = b
    BY DEF CInv, RequestOK, Requested
  <2>2. a \in Int /\ b \in Int
    BY DEF CInv, CTypeOK, Prompt
  <2>3. reply = ReplyTo(op, Cut(a), Cut(b))
    BY <2>1 DEF CInv, ReplyOK
  <2>4. server \in {"kernel", "mock"}
    BY DEF CInv, CTypeOK
  <2>5. /\ op = "DIV" /\ Cut(b) = 0 => reply.code = "ERR_DIV_ZERO"
        /\ ~(op = "DIV" /\ Cut(b) = 0) =>
             reply.code = "CALC_ACK" /\ reply.result = Compute(op, Cut(a), Cut(b))
    <3>1. CASE op = "DIV" /\ Cut(b) = 0
      <4>1. reply = [code |-> "ERR_DIV_ZERO", result |-> 0]
        BY <2>3, <3>1 DEF ReplyTo
      <4> QED BY <3>1, <4>1
    <3>2. CASE ~(op = "DIV" /\ Cut(b) = 0)
      <4>1. reply = [code |-> "CALC_ACK", result |-> Compute(op, Cut(a), Cut(b))]
        BY <2>3, <3>2 DEF ReplyTo
      <4> QED BY <3>2, <4>1
    <3> QED BY <3>1, <3>2
  <2>6. ASSUME reply.code = "CALC_ACK", NEW r \in Word,
               IsResult(op, a, b, r), Carried(op, a, b, r)
        PROVE  shown = r
    <3>1. reply.result = r
      BY <2>2, <2>4, <2>5, <2>6, ComputeRight
    <3>2. shown \in Screen(r)
      BY <2>6, <3>1 DEF CInv, ShownOK
    <3>3. Screen(r) = {r}
      BY <2>6, ScreenRight DEF Carried
    <3> QED BY <3>2, <3>3
  <2>7. ASSUME {a, b} \subseteq Word
        PROVE  reply.code = IF op = "DIV" /\ b = 0 THEN "ERR_DIV_ZERO" ELSE "CALC_ACK"
    <3>1. Cut(b) = b
      BY <2>7, WrapOfWord DEF Cut
    <3> QED BY <2>5, <3>1
  <2> QED BY <2>6, <2>7
<1> QED BY <1>1, CalculationInvariance, PTL
=============================================================================
