----------------------------- MODULE MCGateway -----------------------------
(* Gateway for TLC: a Python client and a C client of one server.          *)
EXTENDS Gateway

CONSTANTS py, cc

\* The user of the Python client divides by zero; that of the C client asks for the
\* quotient that may trap.
MCSendable == [c \in Client |-> IF c = py THEN {"calcDivZero"} ELSE {"calcTraps"}]
MCMaxMessages == [c \in Client |-> IF c = py THEN 3 ELSE 2]
=============================================================================
