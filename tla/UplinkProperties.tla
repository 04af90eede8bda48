-------------------------- MODULE UplinkProperties --------------------------
(***************************************************************************)
(* What Uplinks has to guarantee: to the network, which relies on the      *)
(* answers and on the channels both sides agreed on; to the other users of *)
(* the band; and to the application, whose message must get on its way.    *)
(***************************************************************************)
EXTENDS Uplinks

\* Type invariant.
TypeOK ==
    /\ phy \in [channels : [Channels -> [frequency : Nat, rx1_frequency : Nat,
                                         min : Datarates, max : Datarates, band : Bands]],
                mask : SUBSET Channels,
                bands : [Bands -> [last_tx_time : Nat, last_join_tx_time : Nat,
                                   off_time : Nat]]]
    /\ mac \in [joined : BOOLEAN, heard : BOOLEAN, datarate : Datarates,
                channel : Channels, last_channel_idx : Channels, tx_toa : Nat,
                aggregated_last_tx_time : Nat, max_duty_cycle : Nat,
                aggregated_duty_cycle : Nat, adr_ack_counter : Nat,
                join_request_trial_counter : Nat]
    /\ cmd \in [buffer : [Kinds -> Nat], repeat : [Kinds -> Nat]]
    /\ tx \in [st : {"idle", "backoff", "stuck", "air", "window"}, join : BOOLEAN, size : Nat,
               datarate : Datarates, carried : [Kinds -> Nat], wait : Nat,
               status : {"OK", "LENGTH_ERROR", "DEVICE_OFF", "NO_CHANNEL_FOUND"}]
    /\ todo \in Seq(Commands)
    /\ owed \in [Kinds -> Nat]
    /\ silence \in [Bands -> Nat]
    /\ calls \in [connects : Nat, sends : Nat]

\* With ChMaskCntl 6, which asks for every defined channel, the mask is not looked
\* at: the network must not name other channels in it.
Benign(request) ==
    request.cmd = "LINK_ADR_REQ" /\ request.ctrl = 6 => request.mask \subseteq DefaultMask

ASSUME NetworkAssumption ==
    \A commands \in Downlinks : \A i \in 1 .. Len(commands) : Benign(commands[i])

\* Whatever the network and the application ask for, in whatever order: the
\* default channels stay where the region puts them, every enabled channel has a
\* frequency, in the band it is charged to, and so has the channel of a
\* transmission, from which the RX1 window takes its frequency.
ChannelsConsistent ==
    /\ \A c \in DefaultMask : phy.channels[c].frequency = DefaultFrequency[c]
    /\ \A c \in Defined(phy) :
          phy.channels[c].band = lookup_band_for_frequency(phy.channels[c].frequency)
    /\ phy.mask \subseteq Defined(phy)
    /\ tx.st \in {"air", "window"} => mac.channel \in Defined(phy)

\* A transmission begins only when its band has been silent for as long as the last
\* transmission in that band demands, whatever channels were added, removed,
\* enabled or disabled in between.  The band is charged when the next message is
\* scheduled; what the code has forgotten by then is forgotten in silence too.
DutyCycleKept ==
    [][tx.st # "air" /\ tx'.st = "air" =>
          silence'[phy.channels[mac'.channel].band] = 0]_vars

\* A data frame on the air carries every answer the network is waiting for: those
\* to the commands of the last downlink, and the sticky ones of the downlink the
\* device heard last, through cancelled and refused messages.
AnswersCarried ==
    tx.st \in {"backoff", "air"} /\ ~tx.join =>
        \A kind \in Kinds : owed[kind] <= tx.carried[kind]


\* schedule_tx() checks the length of a message that was cut to the right length
\* when it was prepared "as datarate may have changed since we last attempted to
\* transmit": at the same data rate no message is refused for its length.
RefusedForDatarateOnly == tx.status = "LENGTH_ERROR" => mac.datarate # tx.datarate
=============================================================================
