----------------------------- MODULE ChannelPlan -----------------------------
(***************************************************************************)
(* The channels, the bands and their duty cycle, for the regions that have *)
(* at most 16 channels and a plan the network may change, EU868 being the  *)
(* one of this firmware: LoRaPHY.cpp and LoRaMacChannelPlan.cpp.           *)
(*                                                                         *)
(* A phy is a record of the channel list, the mask of the enabled channels *)
(* and the table of bands.  An operator named after a function of the code *)
(* takes the phy before the call and gives the phy after it, together with *)
(* what the function returns when it returns something.  A frequency is a  *)
(* number with a band, 0 meaning that there is none.  Data rates begin at  *)
(* DR_0.  A moment is kept as the time that has elapsed since, which is    *)
(* all the code asks of it, and no elapsed time grows beyond MaxAge.       *)
(***************************************************************************)
EXTENDS Integers, FiniteSets

CONSTANTS
    MaxChannelCnt,      \* phy_params.max_channel_cnt
    DefaultChannelCnt,  \* phy_params.default_channel_cnt
    DefaultFrequency,   \* of each default channel
    Frequencies,        \* frequencies requests may name
    NbBands,            \* phy_params.bands.size
    BandOf,             \* the band of each frequency, -1 when no band has it
    DutyCycle,          \* of each band: one part in DutyCycle is for transmissions
    JoinDutyCycle,      \* BACKOFF_DC_1_HOUR
    MaxDatarate,        \* phy_params.max_tx_datarate
    DefaultMaxDatarate, \* phy_params.default_max_datarate
    CfListChannelCnt,   \* phy_params.cflist_channel_cnt
    AdrAckLimit,        \* phy_params.adr_ack_limit
    AdrAckDelay,        \* phy_params.adr_ack_delay
    MaxAge              \* bound on the elapsed times

Channels == 0 .. MaxChannelCnt - 1
DefaultMask == 0 .. DefaultChannelCnt - 1
Bands == 0 .. NbBands - 1
Datarates == 0 .. MaxDatarate

ASSUME ChannelPlanAssumption ==
    /\ MaxChannelCnt \in Nat /\ DefaultChannelCnt \in 1 .. MaxChannelCnt
    /\ Frequencies \subseteq Nat \ {0}
    /\ NbBands \in Nat \ {0}
    /\ BandOf \in [Frequencies -> Bands \union {-1}]
    /\ DefaultFrequency \in [DefaultMask -> {f \in Frequencies : BandOf[f] \in Bands}]
    /\ DutyCycle \in [Bands -> Nat \ {0}]
    /\ JoinDutyCycle \in Nat \ {0}
    /\ MaxDatarate \in Nat /\ DefaultMaxDatarate \in Datarates
    /\ CfListChannelCnt \in Nat
    /\ AdrAckLimit \in Nat /\ AdrAckDelay \in Nat \ {0}
    /\ MaxAge \in Nat

-----------------------------------------------------------------------------
(* The constructor of the region *)

Later(a, b) == IF a < b THEN b ELSE a

EmptyChannel == [frequency |-> 0, rx1_frequency |-> 0, min |-> 0, max |-> 0, band |-> 0]

DefaultChannel(c) ==
    [frequency |-> DefaultFrequency[c], rx1_frequency |-> 0, min |-> 0,
     max |-> DefaultMaxDatarate, band |-> BandOf[DefaultFrequency[c]]]

InitialPhy ==
    [channels |-> [c \in Channels |-> IF c \in DefaultMask THEN DefaultChannel(c)
                                      ELSE EmptyChannel],
     mask |-> DefaultMask,
     bands |-> [b \in Bands |-> [last_tx_time |-> 0, last_join_tx_time |-> 0,
                                 off_time |-> 0]]]

Defined(phy) == {c \in Channels : phy.channels[c].frequency # 0}

-----------------------------------------------------------------------------
(* The channel plan *)

lookup_band_for_frequency(f) == IF f \in Frequencies THEN BandOf[f] ELSE -1

datarates_invalid(id, channel) ==
    \/ channel.min \notin Datarates
    \/ channel.max \notin Datarates
    \/ channel.min > channel.max
    \/ /\ id \in DefaultMask
       /\ \/ channel.min # 0
          \/ channel.max < DefaultMaxDatarate

frequency_invalid(phy, id, channel) ==
    \/ id \in DefaultMask /\ channel.frequency # phy.channels[id].frequency
    \/ channel.band \notin Bands
    \/ channel.band # lookup_band_for_frequency(channel.frequency)

add_channel_accepts(phy, id, channel) ==
    ~datarates_invalid(id, channel) /\ ~frequency_invalid(phy, id, channel)

add_channel(phy, id, channel) ==
    IF add_channel_accepts(phy, id, channel)
    THEN [phy EXCEPT !.channels[id] = channel, !.mask = @ \union {id}]
    ELSE phy

\* Mutant: a removed channel stays enabled.
remove_channel_left_enabled(phy, id) ==
    IF id \in DefaultMask THEN phy
    ELSE [phy EXCEPT !.channels[id] = EmptyChannel]

remove_channel(phy, id) ==
    IF id \in DefaultMask THEN phy
    ELSE [phy EXCEPT !.channels[id] = EmptyChannel, !.mask = @ \ {id}]

\* The channel of a request, which names a frequency and a range of data rates.
ChannelOf(frequency, min, max) ==
    [frequency |-> frequency, rx1_frequency |-> 0, min |-> min, max |-> max,
     band |-> lookup_band_for_frequency(frequency)]

request_new_channel(phy, id, channel) ==
    IF channel.frequency = 0 THEN remove_channel(phy, id)
    ELSE add_channel(phy, id, channel)

dl_channel_request(phy, id, rx1_frequency) ==
    IF /\ lookup_band_for_frequency(rx1_frequency) \in Bands
       /\ phy.channels[id].frequency # 0
    THEN [phy EXCEPT !.channels[id].rx1_frequency = rx1_frequency]
    ELSE phy

\* The list of a Join Accept gives a frequency, or 0, to each channel behind the
\* default ones; the channels it does not reach are removed.
apply_cf_list(phy, list) ==
    LET Frequency(c) == IF c < DefaultChannelCnt + CfListChannelCnt
                        THEN list[c - DefaultChannelCnt] ELSE 0
        channel(c) == ChannelOf(Frequency(c), 0, DefaultMaxDatarate)
        others == Channels \ DefaultMask
        added == {c \in others : Frequency(c) # 0 /\ add_channel_accepts(phy, c, channel(c))}
        removed == {c \in others : Frequency(c) = 0}
    IN  [phy EXCEPT !.channels = [c \in Channels |->
                                    IF c \in added THEN channel(c)
                                    ELSE IF c \in removed THEN EmptyChannel
                                    ELSE phy.channels[c]],
                    !.mask = (@ \union added) \ removed]

restore_default_channels(phy) == [phy EXCEPT !.mask = @ \union DefaultMask]

-----------------------------------------------------------------------------
(* Adaptive data rate, which this firmware leaves on *)

Supports(phy, c, datarate) == datarate \in phy.channels[c].min .. phy.channels[c].max

verify_channel_DR(phy, mask, datarate) ==
    datarate \in Datarates /\ \E c \in mask : Supports(phy, c, datarate)

\* What the last LinkADRReq of a block asks for: the mask, with every defined
\* channel when ChMaskCntl is 6.
RequestedMask(phy, request) ==
    IF request.ctrl = 6 THEN request.mask \union Defined(phy) ELSE request.mask

link_ADR_accepts(phy, request) ==
    /\ \/ request.ctrl = 6
       \/ request.ctrl = 0 /\ request.mask # {} /\ request.mask \subseteq Defined(phy)
    /\ verify_channel_DR(phy, RequestedMask(phy, request), request.datarate)

link_ADR_request(phy, request) ==
    IF link_ADR_accepts(phy, request)
    THEN [phy EXCEPT !.mask = RequestedMask(phy, request)]
    ELSE phy

get_next_lower_dr(datarate) == IF datarate = 0 THEN 0 ELSE datarate - 1

\* Without an answer for too long the data rate goes down, and at the lowest the
\* default channels come back: what get_next_ADR() leaves behind.
get_next_ADR(phy, datarate, adr_ack_cnt) ==
    LET lower == /\ adr_ack_cnt >= AdrAckLimit + AdrAckDelay
                 /\ adr_ack_cnt % AdrAckDelay = 1
    IN  IF datarate = 0 THEN
            [phy |-> phy, datarate |-> 0, adr_ack_cnt |-> 0]
        ELSE IF lower THEN
            [phy |-> IF get_next_lower_dr(datarate) = 0
                     THEN restore_default_channels(phy) ELSE phy,
             datarate |-> get_next_lower_dr(datarate), adr_ack_cnt |-> adr_ack_cnt]
        ELSE [phy |-> phy, datarate |-> datarate, adr_ack_cnt |-> adr_ack_cnt]

\* The data rate of a join trial: the default one, then each lower one in turn.
get_alternate_DR(nb_trials) ==
    LET res == nb_trials % (DefaultMaxDatarate + 1)
    IN  IF res = 0 THEN 0
        ELSE IF res = 1 THEN DefaultMaxDatarate
        ELSE DefaultMaxDatarate - res + 1

-----------------------------------------------------------------------------
(* The duty cycle *)

set_last_tx_done(phy, c, joined) ==
    LET b == phy.channels[c].band
        join_time == IF joined THEN phy.bands[b].last_join_tx_time ELSE 0
    IN  [phy EXCEPT !.bands[b] = [@ EXCEPT !.last_tx_time = 0,
                                           !.last_join_tx_time = join_time]]

\* Mutant: the band of the channel is not charged.
calculate_backoff_uncharged(phy, joined, c, tx_toa) == phy

\* Charges the band of the given channel with an airtime.
calculate_backoff(phy, joined, c, tx_toa) ==
    LET b == phy.channels[c].band
        duty_cycle == IF joined THEN DutyCycle[b] ELSE Later(DutyCycle[b], JoinDutyCycle)
    IN  [phy EXCEPT !.bands[b].off_time = tx_toa * duty_cycle - tx_toa]

\* How long a band is taken to be silent.
SilentFor(band, joined) ==
    IF joined THEN band.last_tx_time ELSE Later(band.last_join_tx_time, band.last_tx_time)


update_band_timeoff(phy, joined) ==
    [phy EXCEPT !.bands = [b \in Bands |->
        IF @[b].off_time <= SilentFor(@[b], joined)
        THEN [@[b] EXCEPT !.off_time = 0] ELSE @[b]]]

\* The delay update_band_timeoff() returns: of the first band that is free again.
\* While joining, up to a second is added for each band that is not.
next_tx_delays(phy, joined) ==
    LET restricted == {b \in Bands : phy.bands[b].off_time # 0}
        left == {phy.bands[b].off_time - SilentFor(phy.bands[b], joined) : b \in restricted}
        first == {d \in left : \A e \in left : d <= e}
        added == IF joined THEN 0 ELSE Cardinality(restricted)
    IN  {d + extra : d \in first, extra \in 0 .. added}

\* The enabled channels that carry the data rate, and those whose band is free.
Candidates(phy, datarate) == {c \in phy.mask : Supports(phy, c, datarate)}
Free(phy, datarate) ==
    {c \in Candidates(phy, datarate) : phy.bands[phy.channels[c].band].off_time = 0}

set_default_mask(phy) == [phy EXCEPT !.mask = DefaultMask]

Aged(age) == IF age < MaxAge THEN age + 1 ELSE age

\* One unit of time passes.
Older(phy) ==
    [phy EXCEPT !.bands = [b \in Bands |->
        [phy.bands[b] EXCEPT !.last_tx_time = Aged(@), !.last_join_tx_time = Aged(@)]]]
=============================================================================
