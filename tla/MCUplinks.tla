------------------------------ MODULE MCUplinks ------------------------------
(***************************************************************************)
(* Instances of UplinkProperties for TLC: one default channel and two that *)
(* come and go, two bands, two data rates.  Frequency 4 is in no band.     *)
(***************************************************************************)
EXTENDS UplinkProperties

Region == [c \in 0 .. 0 |-> 1]
BandTable == <<1, 0, 1, -1>>
DutyCycles == [b \in 0 .. 1 |-> 2]
Payloads == [d \in 0 .. 1 |-> IF d = 0 THEN 6 ELSE 9]
Airtimes == [d \in 0 .. 1 |-> IF d = 0 THEN 2 ELSE 1]

LinkAdr(mask, ctrl, datarate) ==
    [cmd |-> "LINK_ADR_REQ", mask |-> mask, ctrl |-> ctrl, datarate |-> datarate]
NewChannel(id, frequency, max) ==
    [cmd |-> "NEW_CHANNEL_REQ", id |-> id, frequency |-> frequency, min |-> 0, max |-> max]
DlChannel(id, frequency) == [cmd |-> "DL_CHANNEL_REQ", id |-> id, frequency |-> frequency]
DutyCycleReqOf(max) == [cmd |-> "DUTY_CYCLE_REQ", max_duty_cycle |-> max]
Other(name) == [cmd |-> name]

AllCommands ==
    {<<>>,
     <<Other("RX_TIMING_SETUP_REQ"), Other("DEV_STATUS_REQ"), Other("unknown")>>,
     <<NewChannel(1, 2, 1), LinkAdr({0, 1}, 0, 1)>>,
     <<LinkAdr({2}, 0, 0), LinkAdr({1}, 0, 1)>>,
     <<NewChannel(1, 0, 1), LinkAdr({}, 6, 0)>>,
     <<DutyCycleReqOf(1), NewChannel(1, 2, 0), Other("TX_PARAM_SETUP_REQ")>>,
     <<DlChannel(1, 3), Other("RX_PARAM_SETUP_REQ"), DutyCycleReqOf(255)>>}
StickyCommands == {<<Other("RX_TIMING_SETUP_REQ")>>}

OneList == {[i \in 0 .. 0 |-> 2]}
NoLists == {}

Planned(id, frequency, band) ==
    [id |-> id, channel |-> [frequency |-> frequency, rx1_frequency |-> 0, min |-> 0,
                             max |-> 1, band |-> band]]
SomePlans == {Planned(2, 3, 1), Planned(0, 2, 0)}
NoPlans == {}
=============================================================================
