----------------------------- MODULE MCMathDev -----------------------------
(* MathDev for TLC.                                                        *)
EXTENDS MathDev

\* Sums, differences and products that overflow at either end; quotients with a
\* remainder of either sign, the one that overflows, and one by zero.
MCOperands == {<<-4, -1>>, <<-4, 3>>, <<3, -2>>, <<3, 3>>, <<-1, 0>>}
=============================================================================
