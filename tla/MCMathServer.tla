--------------------------- MODULE MCMathServer ---------------------------
(* MathServer for TLC: one client that may send anything, and one that     *)
(* competes with it for the device.                                        *)
EXTENDS MathServer

CONSTANTS c1, c2

MCSendable == [c \in Client |-> IF c = c1 THEN Message ELSE {"HELLO"}]
MCMaxMessages == [c \in Client |-> IF c = c1 THEN 2 ELSE 1]
=============================================================================
