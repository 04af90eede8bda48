------------------------------- MODULE MCLoRa -------------------------------
(***************************************************************************)
(* Instances of LoRaProperties for TLC.                                    *)
(***************************************************************************)
EXTENDS LoRaProperties

Frame(kind) == [kind |-> kind, confirmed |-> FALSE, ack |-> FALSE, fpending |-> FALSE,
                sticky |-> FALSE, payload |-> FALSE, nb |-> 0]

Accept  == Frame("accept")
Reject  == Frame("reject")
Foreign == Frame("foreign")
First   == [Frame("first") EXCEPT !.payload = TRUE]
Data    == [Frame("data") EXCEPT !.payload = TRUE]
Ack     == [Frame("data") EXCEPT !.ack = TRUE]
Pending == [Ack EXCEPT !.fpending = TRUE]
Confirmed == [Ack EXCEPT !.confirmed = TRUE, !.payload = TRUE]
Sticky  == [Ack EXCEPT !.sticky = TRUE]
LinkADR == [Ack EXCEPT !.nb = 2]

Repeat  == [Frame("repeat") EXCEPT !.payload = TRUE]

JoinAnswers    == {Accept, Reject}
Answers        == JoinAnswers \cup {First, Data, Ack, Confirmed}
Commands       == Answers \cup {LinkADR}
Strangers      == Answers \cup {Foreign}
UplinkRequests == {Accept, Data, Ack, Confirmed, Pending, Sticky, Repeat}
FirstRepeated  == {Accept, First, Repeat}
AnyFrame       == {Accept, Reject, Foreign, Confirmed}
AcceptOnly     == {Accept}
=============================================================================
