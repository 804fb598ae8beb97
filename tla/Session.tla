------------------------------ MODULE Session ------------------------------
(***************************************************************************)
(* What the server promises to one client: its requests are answered in    *)
(* the order they were made, each once and with a reply that fits it, as   *)
(* long as the session lasts.                                              *)
(***************************************************************************)
EXTENDS Protocol

VARIABLES
  asked,           \* the requests the client has sent
  answered,        \* the replies it has been sent
  up,              \* the server has not begun to end
  over,            \* the connection is closed
  stuck            \* an input: the device is lost to all who need it

vars == <<asked, answered, up, over>>

Init == asked = <<>> /\ answered = <<>> /\ up = TRUE /\ over = FALSE

Ask ==
  /\ \E m \in Message : asked' = Append(asked, m)
  /\ UNCHANGED <<answered, up, over>>

\* Some earlier request of the session was a HELLO.
Greeted(i) == \E j \in 1 .. i - 1 : asked[j] = "HELLO"

\* The replies that fit the i-th request; none, if it ends the session.
Fitting(i) ==
  CASE asked[i] = "HELLO" -> {"HELLO_ACK"}
    [] asked[i] = "BYE"   -> {"BYE_ACK"}
    [] asked[i] = "other" -> {"ERR_BAD_REQUEST"}
    [] asked[i] \in Calc /\ ~Greeted(i) -> {"ERR_BAD_REQUEST"}
    [] asked[i] \in {"calc", "calcTraps"} /\ Greeted(i) ->
         {"CALC_ACK"} \cup IF up THEN {} ELSE {"ERR_DEVICE", "ERR_INTERNAL"}
    [] asked[i] = "calcDivZero" /\ Greeted(i) ->
         {"ERR_DIV_ZERO"} \cup IF up THEN {} ELSE {"ERR_DEVICE", "ERR_INTERNAL"}
    [] asked[i] \in RefusedCalc /\ Greeted(i) -> {Refusal[asked[i]]}
    [] OTHER -> {}

Answer ==
  /\ ~over
  /\ Len(answered) < Len(asked)
  /\ \E r \in Fitting(Len(answered) + 1) : answered' = Append(answered, r)
  /\ UNCHANGED <<asked, up, over>>

\* Either side may end the session at any time.
HangUp ==
  /\ ~over
  /\ over' = TRUE
  /\ UNCHANGED <<asked, answered, up>>

Stop ==
  /\ up
  /\ up' = FALSE
  /\ over' \in {over, TRUE}
  /\ UNCHANGED <<asked, answered>>

Next == Ask \/ Answer \/ HangUp \/ Stop

NeedsDevice(i) ==
  asked[i] = "HELLO" \/ (asked[i] \in KernelCalc /\ Greeted(i))

\* A request that has a fitting reply gets it, or the session ends, unless it
\* needs a device that is lost.
Step == [Next]_vars
Live == WF_vars(Answer /\ ~(stuck /\ NeedsDevice(Len(answered) + 1)))
Spec == Init /\ [][Next]_vars /\ Live
=============================================================================
