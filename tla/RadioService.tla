---------------------------- MODULE RadioService ----------------------------
(***************************************************************************)
(* What a radio promises the layers above it, by the callbacks and calls   *)
(* of LoRaRadio.h: what was started is under way until it is reported or   *)
(* called off; a transmission and a single reception are reported once, by *)
(* an event of their own; a continuous reception goes on after each frame. *)
(* LoRaDevice and LoRaWANStack rely on it: dev.radio is mode, and the      *)
(* actions of the radio there are Report.                                  *)
(***************************************************************************)
EXTENDS Naturals, Sequences

VARIABLES
    mode,     \* what is under way
    asked,    \* what the call in progress asks for, "nothing" between calls
    reports   \* the events reported so far, in their order

vars == <<mode, asked, reports>>

Events(m) ==
    CASE m = "tx" -> {"tx_done", "tx_timeout"}
      [] m = "rx" -> {"rx_done", "rx_error", "rx_timeout"}
      [] m = "rx_continuous" -> {"rx_done", "rx_error"}
      [] m = "rest" -> {}

Init == mode = "rest" /\ asked = "nothing" /\ reports = <<>>

Call ==
    /\ asked = "nothing"
    /\ asked' \in {"tx", "rx", "rx_continuous", "rest"}
    /\ UNCHANGED <<mode, reports>>

Start ==
    /\ mode = "rest" /\ asked \in {"tx", "rx", "rx_continuous"}
    /\ mode' = asked
    /\ UNCHANGED <<asked, reports>>

\* A call ends what is under way when it asks for something else, and a reception
\* also when it asks for another one.  The call may return with it.
CallOff ==
    /\ mode # "rest" /\ asked # "nothing"
    /\ mode = "rx_continuous" \/ asked # mode
    /\ mode' = "rest"
    /\ asked' \in {asked, "nothing"}
    /\ UNCHANGED reports

Return ==
    /\ asked # "nothing"
    /\ asked' = "nothing"
    /\ UNCHANGED <<mode, reports>>

Report ==
    /\ \E event \in Events(mode) : reports' = Append(reports, event)
    /\ mode' = IF mode = "rx_continuous" THEN mode ELSE "rest"
    /\ UNCHANGED asked

Next == Call \/ Start \/ CallOff \/ Return \/ Report

\* What ends by itself is reported.
Spec == Init /\ [][Next]_vars /\ WF_vars(mode \in {"tx", "rx"} /\ Report)
=============================================================================
