------------------------------ MODULE Protocol ------------------------------
(***************************************************************************)
(* The messages of the mathdev protocol, as far as the server tells them   *)
(* apart.  A request is named by its type, a CALC by what is special about *)
(* its fields; a reply by its type, an ERROR by its code.                  *)
(***************************************************************************)
EXTENDS Naturals, Sequences

\* CALC requests the server passes to the kernel: one with a result, one that
\* divides by zero, and the quotient of which the kernel's division may trap.
KernelCalc == {"calc", "calcDivZero", "calcTraps"}

\* CALC requests it answers by itself: a field missing, an operator that is not
\* in the table, an operand that int() rejects.
RefusedCalc == {"calcMissing", "calcUnknownOp", "calcNonInteger"}

\* A CALC whose fields raise what no handler expects: an unhashable operator, an
\* infinite operand.
Raising == {"calcRaises"}

Calc == KernelCalc \cup RefusedCalc \cup Raising

\* "other": any object of another type, {} for an empty frame included.
\* "malformed": a frame that is not JSON, or cut short.
Message == {"HELLO", "BYE", "other", "malformed"} \cup Calc

Reply == {"HELLO_ACK", "BYE_ACK", "CALC_ACK", "ERR_BAD_REQUEST", "ERR_UNKNOWN_OP",
          "ERR_DIV_ZERO", "ERR_DEVICE", "ERR_INTERNAL"}

\* What _handle_calc answers without the kernel.
Refusal ==
  [calcMissing |-> "ERR_BAD_REQUEST", calcUnknownOp |-> "ERR_UNKNOWN_OP",
   calcNonInteger |-> "ERR_BAD_REQUEST"]
=============================================================================
