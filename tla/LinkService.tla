----------------------------- MODULE LinkService -----------------------------
(***************************************************************************)
(* What LoRaWANInterface promises an application that disconnects between  *)
(* transactions: one connection attempt or one transmission at a time, one *)
(* event to answer each, and an uplink counter that moves on with every    *)
(* message.  Frames, windows, timers, retries and the radio are out of     *)
(* sight.                                                                  *)
(***************************************************************************)
EXTENDS Naturals

VARIABLES
    link,     \* "down", "joining" or "up"
    busy,     \* a message is being sent
    answers,  \* CONNECTED, JOIN_FAILURE and DISCONNECTED events on their way
    reports,  \* TX_DONE and TX_ERROR events on their way
    counter   \* the counter of the next uplink

vars == <<link, busy, answers, reports, counter>>

Init ==
    /\ link = "down"
    /\ busy = FALSE
    /\ answers = 0
    /\ reports = 0
    /\ counter = 0

-----------------------------------------------------------------------------

\* connect() with OTAA parameters, which begins a new session.
Join ==
    /\ link = "down"
    /\ link' = "joining"
    /\ counter' = 0
    /\ UNCHANGED <<busy, answers, reports>>

\* connect() with ABP parameters, which goes on with the old one.
Personalize ==
    /\ link = "down"
    /\ link' = "up"
    /\ answers' = answers + 1
    /\ UNCHANGED <<busy, reports, counter>>

JoinOver ==
    /\ link = "joining"
    /\ link' \in {"up", "down"}
    /\ answers' = answers + 1
    /\ UNCHANGED <<busy, reports, counter>>

Disconnect ==
    /\ link # "joining" /\ ~busy
    /\ link' = "down"
    /\ answers' = answers + 1
    /\ UNCHANGED <<busy, reports, counter>>

Submit ==
    /\ link = "up" /\ ~busy
    /\ busy' = TRUE
    /\ UNCHANGED <<link, answers, reports, counter>>

Complete ==
    /\ busy
    /\ busy' = FALSE
    /\ reports' = reports + 1
    /\ counter' = counter + 1
    /\ UNCHANGED <<link, answers>>

\* stop_sending() before the message is on the air: nothing is reported.
Cancel ==
    /\ busy
    /\ busy' = FALSE
    /\ UNCHANGED <<link, answers, reports, counter>>

HearAnswer ==
    /\ answers > 0
    /\ answers' = answers - 1
    /\ UNCHANGED <<link, busy, reports, counter>>

HearReport ==
    /\ reports > 0
    /\ reports' = reports - 1
    /\ UNCHANGED <<link, busy, answers, counter>>

Next ==
    \/ Join \/ Personalize \/ JoinOver \/ Disconnect
    \/ Submit \/ Complete \/ Cancel
    \/ HearAnswer \/ HearReport

\* Whatever the application has begun comes to an end, and it hears of it.
Fairness ==
    /\ WF_vars(JoinOver)
    /\ WF_vars(Complete \/ Cancel)
    /\ WF_vars(HearAnswer)
    /\ WF_vars(HearReport)

Spec == Init /\ [][Next]_vars /\ Fairness
=============================================================================
