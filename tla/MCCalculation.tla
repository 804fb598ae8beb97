--------------------------- MODULE MCCalculation ---------------------------
(* Calculation for TLC.  Words have 5 bits: the numbers from -16 to 15     *)
(* are what the numbers of 64 bits are to the code.                        *)
EXTENDS Calculation

\* Every line of up to three of these characters, and some longer ones: beyond
\* the word on either side, at the length of the buffer and past it.
MCChar == {0, 1, 5, 6, 7, Minus, Plus, Underscore, Blank, Letter}
MCOperandLines ==
  UNION {[1 .. n -> MCChar] : n \in 0 .. 3} \cup
  {<<1, CR, 5>>, <<Minus, 1, 6, 0>>, <<Minus, 0, 1, 7>>, <<1, 6, 0>>, <<1, 5, CR>>, <<1, Underscore, Underscore, 5>>,
   <<0, 0, 0, 1, 5>>, <<0, 0, 0, 1, 5, 1>>, <<Minus, 0, 0, 0, 1, 5, CR>>}

\* Each choice, some that are none, and some that are one modulo 2^3.
MCChoiceLines ==
  {<<>>, <<Letter>>, <<0>>, <<1>>, <<Blank, 2, CR>>, <<Plus, 3>>, <<4>>, <<5>>, <<6>>,
   <<8>>, <<9>>, <<1, 3>>, <<Minus, 1>>, <<0, 0, 0, 0, 2>>}

MCSecondLines ==
  {<<>>, <<0>>, <<1>>, <<Minus, 1>>, <<5>>, <<Minus, 6>>, <<1, 5>>, <<Minus, 1, 6>>, <<1, 6>>,
   <<Letter>>, <<0, 0, 0, 0, 5>>}

MCLines == [choice |-> MCChoiceLines, a |-> MCOperandLines, b |-> MCSecondLines]

\* Two that are cut, and three words.
MCForeign == {-33, 20, 32, -16, -1, 3}
=============================================================================
