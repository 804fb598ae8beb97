------------------------------- MODULE Digits -------------------------------
(***************************************************************************)
(* Numbers as digits of any base: the bytes of a frame's header and the    *)
(* decimal digits of a number on the wire or on the screen.                *)
(***************************************************************************)
EXTENDS Integers, Sequences

\* Shifts(n, base, w)[k] is what is left of n without its last k digits.
Shifts(n, base, w) ==
  LET shifted[k \in 0 .. w] == IF k = 0 THEN n ELSE shifted[k - 1] \div base
  IN  shifted

\* The last w digits of n, the most significant first.
ToDigits(n, base, w) == [i \in 1 .. w |-> Shifts(n, base, w)[w - i] % base]

\* The number that digits stand for.
FromDigits(d, base) ==
  LET value[k \in 0 .. Len(d)] == IF k = 0 THEN 0 ELSE value[k - 1] * base + d[k]
  IN  value[Len(d)]
=============================================================================
