---------------------------- MODULE DutyCycleProofs ----------------------------
(***************************************************************************)
(* Proofs about Uplinks, for every value of the constants: every variable  *)
(* keeps its type, and no band is used before it has been silent for as    *)
(* long as its last transmission demands.                                  *)
(***************************************************************************)
EXTENDS UplinkProofs, FiniteSetTheorems

-----------------------------------------------------------------------------
(* Arithmetic *)

\* Charging an airtime gives a time to be silent, and a longer one for a band that
\* may transmit less.
LEMMA Charge ==
    ASSUME NEW toa \in Nat, NEW less \in Nat \ {0}, NEW more \in Nat, less <= more
    PROVE  /\ toa * less - toa \in Nat
           /\ toa * more - toa \in Nat
           /\ toa * less - toa <= toa * more - toa
  <1>1. toa * less \in Nat /\ toa * more \in Nat
    OBVIOUS
  <1>2. toa <= toa * less
    OBVIOUS
  <1>3. toa * less <= toa * more
    OBVIOUS
  <1> QED BY <1>1, <1>2, <1>3

\* 1 << max_duty_cycle
LEMMA PowersOfTwo ==
    ASSUME NEW n \in 0 .. 15
    PROVE  2 ^ n \in Nat
  <1>1. n \in {0, 1, 2, 3, 4, 5, 6, 7} \/ n \in {8, 9, 10, 11, 12, 13, 14, 15}
    OBVIOUS
  <1>2. /\ 2 ^ 0 \in Nat /\ 2 ^ 1 \in Nat /\ 2 ^ 2 \in Nat /\ 2 ^ 3 \in Nat
        /\ 2 ^ 4 \in Nat /\ 2 ^ 5 \in Nat /\ 2 ^ 6 \in Nat /\ 2 ^ 7 \in Nat
    OBVIOUS
  <1>3. /\ 2 ^ 8 \in Nat /\ 2 ^ 9 \in Nat /\ 2 ^ 10 \in Nat /\ 2 ^ 11 \in Nat
        /\ 2 ^ 12 \in Nat /\ 2 ^ 13 \in Nat /\ 2 ^ 14 \in Nat /\ 2 ^ 15 \in Nat
    OBVIOUS
  <1> QED BY <1>1, <1>2, <1>3

-----------------------------------------------------------------------------
(* The types of the operations *)

BandRecords == [last_tx_time : Nat, last_join_tx_time : Nat, off_time : Nat]

BandsOK(p) == p.bands \in [Bands -> BandRecords]

MacRecords == [joined : BOOLEAN, heard : BOOLEAN, datarate : Datarates,
               channel : Channels, last_channel_idx : Channels, tx_toa : Nat,
               aggregated_last_tx_time : Nat, max_duty_cycle : Nat,
               aggregated_duty_cycle : Nat, adr_ack_counter : Nat,
               join_request_trial_counter : Nat]

TxRecords == [st : {"idle", "backoff", "stuck", "air", "window"}, join : BOOLEAN, size : Nat,
              datarate : Datarates, carried : [Kinds -> Nat], wait : Nat,
              status : {"OK", "LENGTH_ERROR", "DEVICE_OFF", "NO_CHANNEL_FOUND"}]

Buffers == [buffer : Counts, repeat : Counts]

\* The bands of the constructor.
LEMMA InitialBands == BandsOK(InitialPhy)
  BY DEF BandsOK, InitialPhy, BandRecords

\* Times stay natural numbers as they pass.
LEMMA OlderBands ==
    ASSUME NEW p, PlanOK(p), BandsOK(p)
    PROVE  /\ BandsOK(Older(p))
           /\ \A b \in Bands :
                 /\ Older(p).bands[b].off_time = p.bands[b].off_time
                 /\ Older(p).bands[b].last_tx_time = Aged(p.bands[b].last_tx_time)
                 /\ Older(p).bands[b].last_join_tx_time = Aged(p.bands[b].last_join_tx_time)
  <1> DEFINE bands == [b \in Bands |->
                 [p.bands[b] EXCEPT !.last_tx_time = Aged(@), !.last_join_tx_time = Aged(@)]]
  <1>1. Older(p).bands = bands
    BY DEF Older, PlanOK
  <1>2. \A n \in Nat : Aged(n) \in Nat
    BY DEF Aged
  <1>3. ASSUME NEW b \in Bands
        PROVE  /\ bands[b] \in BandRecords
               /\ bands[b].off_time = p.bands[b].off_time
               /\ bands[b].last_tx_time = Aged(p.bands[b].last_tx_time)
               /\ bands[b].last_join_tx_time = Aged(p.bands[b].last_join_tx_time)
    BY <1>2 DEF BandsOK, BandRecords
  <1>4. bands \in [Bands -> BandRecords]
    BY <1>3
  <1> HIDE DEF bands
  <1> QED BY <1>1, <1>3, <1>4 DEF BandsOK

\* calculate_backoff() charges one band.
LEMMA ChargedBands ==
    ASSUME NEW p, PlanOK(p), BandsOK(p), NEW joined \in BOOLEAN, NEW c \in Channels,
           NEW toa \in Nat
    PROVE  LET b == p.channels[c].band
               q == calculate_backoff(p, joined, c, toa)
           IN  /\ b \in Bands
               /\ BandsOK(q)
               /\ \A a \in Bands \ {b} : q.bands[a] = p.bands[a]
               /\ q.bands[b].last_tx_time = p.bands[b].last_tx_time
               /\ q.bands[b].last_join_tx_time = p.bands[b].last_join_tx_time
               /\ toa * DutyCycle[b] - toa <= q.bands[b].off_time
  <1> DEFINE b == p.channels[c].band
             q == calculate_backoff(p, joined, c, toa)
             dc == IF joined THEN DutyCycle[b] ELSE Later(DutyCycle[b], JoinDutyCycle)
             off == toa * dc - toa
  <1>1. b \in Bands /\ p.channels[c] \in ChannelRecords
    BY DEF PlanOK, ChannelRecords
  <1>2. DutyCycle[b] \in Nat \ {0} /\ dc \in Nat /\ DutyCycle[b] <= dc
    BY <1>1, ChannelPlanAssumption DEF ChannelPlanAssumption, Later
  <1>3. off \in Nat /\ toa * DutyCycle[b] - toa <= off
    BY <1>2, Charge
  <1>4. q.bands = [p.bands EXCEPT ![b].off_time = off]
    BY <1>1 DEF calculate_backoff, PlanOK
  <1> HIDE DEF off, dc, b, q
  <1>5. \A a \in Bands \ {b} : q.bands[a] = p.bands[a]
    BY <1>4 DEF BandsOK
  <1>6. q.bands[b] = [p.bands[b] EXCEPT !.off_time = off]
    BY <1>1, <1>4 DEF BandsOK
  <1>7. q.bands[b] \in BandRecords
    BY <1>1, <1>3, <1>6 DEF BandsOK, BandRecords
  <1>8. q.bands \in [Bands -> BandRecords]
    BY <1>1, <1>3, <1>4, <1>7 DEF BandsOK, BandRecords
  <1>9. /\ q.bands[b].last_tx_time = p.bands[b].last_tx_time
        /\ q.bands[b].last_join_tx_time = p.bands[b].last_join_tx_time
        /\ q.bands[b].off_time = off
    BY <1>1, <1>6 DEF BandsOK, BandRecords
  <1> QED BY <1>1, <1>3, <1>5, <1>8, <1>9 DEF BandsOK, b, q

\* How long a band is taken to be silent.
LEMMA SilentForInNat ==
    ASSUME NEW band \in BandRecords, NEW joined \in BOOLEAN
    PROVE  /\ SilentFor(band, joined) \in Nat
           /\ joined \/ band.last_join_tx_time <= band.last_tx_time
                 => SilentFor(band, joined) = band.last_tx_time
  BY DEF SilentFor, Later, BandRecords

\* update_band_timeoff() frees the bands that have been silent for long enough; what
\* is left of the time of the others is more than 0.
LEMMA UpdatedBands ==
    ASSUME NEW p, PlanOK(p), BandsOK(p), NEW joined \in BOOLEAN
    PROVE  LET q == update_band_timeoff(p, joined)
           IN  /\ BandsOK(q)
               /\ \A b \in Bands :
                     /\ q.bands[b].last_tx_time = p.bands[b].last_tx_time
                     /\ q.bands[b].last_join_tx_time = p.bands[b].last_join_tx_time
                     /\ q.bands[b].off_time = IF p.bands[b].off_time <= SilentFor(p.bands[b], joined)
                                              THEN 0 ELSE p.bands[b].off_time
                     /\ SilentFor(q.bands[b], joined) = SilentFor(p.bands[b], joined)
  <1> DEFINE q == update_band_timeoff(p, joined)
             bands == [b \in Bands |->
                         IF p.bands[b].off_time <= SilentFor(p.bands[b], joined)
                         THEN [p.bands[b] EXCEPT !.off_time = 0] ELSE p.bands[b]]
  <1>1. q.bands = bands
    BY DEF update_band_timeoff, PlanOK
  <1>2. ASSUME NEW b \in Bands
        PROVE  /\ bands[b] \in BandRecords
               /\ bands[b].last_tx_time = p.bands[b].last_tx_time
               /\ bands[b].last_join_tx_time = p.bands[b].last_join_tx_time
               /\ bands[b].off_time = IF p.bands[b].off_time <= SilentFor(p.bands[b], joined)
                                      THEN 0 ELSE p.bands[b].off_time
    BY DEF BandsOK, BandRecords
  <1>3. bands \in [Bands -> BandRecords]
    BY <1>2
  <1> HIDE DEF q, bands
  <1>4. \A b \in Bands : SilentFor(q.bands[b], joined) = SilentFor(p.bands[b], joined)
    BY <1>1, <1>2 DEF SilentFor
  <1> QED BY <1>1, <1>2, <1>3, <1>4 DEF BandsOK, q

\* set_last_tx_done() notes the time in one band.
LEMMA DoneBands ==
    ASSUME NEW p, PlanOK(p), BandsOK(p), NEW joined \in BOOLEAN, NEW c \in Channels
    PROVE  LET b == p.channels[c].band
               q == set_last_tx_done(p, c, joined)
           IN  /\ b \in Bands
               /\ BandsOK(q)
               /\ \A a \in Bands \ {b} : q.bands[a] = p.bands[a]
               /\ q.bands[b].last_tx_time = 0
               /\ ~joined => q.bands[b].last_join_tx_time = 0
  <1> DEFINE b == p.channels[c].band
             q == set_last_tx_done(p, c, joined)
  <1>1. b \in Bands
    BY DEF PlanOK, ChannelRecords
  <1>2. BandsOK(q)
    <2> DEFINE time == IF joined THEN p.bands[b].last_join_tx_time ELSE 0
               band == [p.bands[b] EXCEPT !.last_tx_time = 0, !.last_join_tx_time = time]
    <2>1. q.bands = [p.bands EXCEPT ![b] = band]
      BY <1>1 DEF set_last_tx_done, PlanOK, BandsOK
    <2>2. band \in BandRecords
      BY <1>1 DEF BandsOK, BandRecords
    <2> HIDE DEF band
    <2> QED BY <1>1, <2>1, <2>2 DEF BandsOK
  <1>3. /\ \A a \in Bands \ {b} : q.bands[a] = p.bands[a]
        /\ q.bands[b].last_tx_time = 0
        /\ ~joined => q.bands[b].last_join_tx_time = 0
    BY <1>1 DEF set_last_tx_done, PlanOK, BandsOK, BandRecords
  <1> QED BY <1>1, <1>2, <1>3

\* The other operations leave the bands alone.
LEMMA BandsLeftAlone ==
    ASSUME NEW p, PlanOK(p), BandsOK(p)
    PROVE  /\ \A id, ch : add_channel(p, id, ch).bands = p.bands
           /\ \A id : remove_channel(p, id).bands = p.bands
           /\ \A id, ch : request_new_channel(p, id, ch).bands = p.bands
           /\ \A id, f : dl_channel_request(p, id, f).bands = p.bands
           /\ \A list : apply_cf_list(p, list).bands = p.bands
           /\ \A request : link_ADR_request(p, request).bands = p.bands
           /\ restore_default_channels(p).bands = p.bands
           /\ set_default_mask(p).bands = p.bands
           /\ \A d, n : get_next_ADR(p, d, n).phy.bands = p.bands
  <1> DEFINE shape == p = [channels |-> p.channels, mask |-> p.mask, bands |-> p.bands]
  <1>1. shape
    BY DEF PlanOK
  <1>2. \A id, ch : add_channel(p, id, ch).bands = p.bands
    BY <1>1 DEF add_channel
  <1>3. \A id : remove_channel(p, id).bands = p.bands
    BY <1>1 DEF remove_channel
  <1>4. \A id, ch : request_new_channel(p, id, ch).bands = p.bands
    BY <1>2, <1>3 DEF request_new_channel
  <1>5. \A id, f : dl_channel_request(p, id, f).bands = p.bands
    BY <1>1 DEF dl_channel_request
  <1>6. ASSUME NEW list
        PROVE  apply_cf_list(p, list).bands = p.bands
    <2>1. \E chs, mask : apply_cf_list(p, list) = [p EXCEPT !.channels = chs, !.mask = mask]
      BY Zenon DEF apply_cf_list
    <2> QED BY <1>1, <2>1
  <1>7. \A request : link_ADR_request(p, request).bands = p.bands
    BY <1>1 DEF link_ADR_request
  <1>8. restore_default_channels(p).bands = p.bands /\ set_default_mask(p).bands = p.bands
    BY <1>1 DEF restore_default_channels, set_default_mask
  <1>9. \A d, n : get_next_ADR(p, d, n).phy.bands = p.bands
    BY <1>8 DEF get_next_ADR
  <1> QED BY <1>2, <1>3, <1>4, <1>5, <1>6, <1>7, <1>8, <1>9

-----------------------------------------------------------------------------
(* The types of schedule_tx() *)

\* Every delay until a band is free again is a natural number.
LEMMA NextDelays ==
    ASSUME NEW p, PlanOK(p), BandsOK(p), NEW joined \in BOOLEAN
    PROVE  next_tx_delays(update_band_timeoff(p, joined), joined) \subseteq Nat
  <1> DEFINE q == update_band_timeoff(p, joined)
             restricted == {b \in Bands : q.bands[b].off_time # 0}
             left == {q.bands[b].off_time - SilentFor(q.bands[b], joined) : b \in restricted}
             first == {d \in left : \A e \in left : d <= e}
             added == IF joined THEN 0 ELSE Cardinality(restricted)
  <1>1. ASSUME NEW b \in restricted
        PROVE  q.bands[b].off_time - SilentFor(q.bands[b], joined) \in Nat
    <2>1. b \in Bands /\ q.bands[b].off_time # 0
      OBVIOUS
    <2> HIDE DEF q, restricted
    <2>2. /\ p.bands[b] \in BandRecords /\ p.bands[b].off_time \in Nat
          /\ SilentFor(p.bands[b], joined) \in Nat
      BY <2>1, SilentForInNat DEF BandsOK, BandRecords
    <2>3. /\ SilentFor(q.bands[b], joined) = SilentFor(p.bands[b], joined)
          /\ q.bands[b].off_time = IF p.bands[b].off_time <= SilentFor(p.bands[b], joined)
                                   THEN 0 ELSE p.bands[b].off_time
      BY <2>1, UpdatedBands DEF q
    <2> QED BY <2>1, <2>2, <2>3
  <1>2. added \in Nat
    <2>1. IsFiniteSet(Bands)
      BY FS_Interval, ChannelPlanAssumption DEF ChannelPlanAssumption, Bands
    <2>2. restricted \in SUBSET Bands
      OBVIOUS
    <2> HIDE DEF restricted
    <2>3. Cardinality(restricted) \in Nat
      BY <2>1, <2>2, FS_Subset, FS_CardinalityType
    <2> QED BY <2>3
  <1>3. next_tx_delays(q, joined) = {d + extra : d \in first, extra \in 0 .. added}
    BY DEF next_tx_delays
  <1>4. first \subseteq Nat
    BY <1>1
  <1> HIDE DEF first, added, q
  <1>5. \A d \in first, extra \in 0 .. added : d + extra \in Nat
    BY <1>2, <1>4
  <1> QED BY <1>3, <1>5 DEF q

\* The data rates that are chosen exist.
LEMMA DataratesChosen ==
    /\ \A n \in Nat : get_alternate_DR(n) \in Datarates
    /\ \A p : \A datarate \in Datarates, n \in Nat :
          /\ get_next_ADR(p, datarate, n).datarate \in Datarates
          /\ get_next_ADR(p, datarate, n).adr_ack_cnt \in Nat
  <1>1. /\ MaxDatarate \in Nat /\ DefaultMaxDatarate \in Nat
        /\ DefaultMaxDatarate <= MaxDatarate
    BY ChannelPlanAssumption DEF ChannelPlanAssumption, Datarates
  <1>2. ASSUME NEW n \in Nat
        PROVE  get_alternate_DR(n) \in Datarates
    <2> DEFINE res == n % (DefaultMaxDatarate + 1)
    <2>1. res \in 0 .. DefaultMaxDatarate
      BY <1>1
    <2> HIDE DEF res
    <2>2. \/ res = 0 \/ res = 1 \/ res \in 2 .. DefaultMaxDatarate
      BY <1>1, <2>1
    <2>3. (IF res = 0 THEN 0 ELSE IF res = 1 THEN DefaultMaxDatarate
           ELSE DefaultMaxDatarate - res + 1) \in Datarates
      BY <1>1, <2>2 DEF Datarates
    <2> QED BY <2>3 DEF get_alternate_DR, res
  <1>3. ASSUME NEW p, NEW datarate \in Datarates, NEW n \in Nat
        PROVE  /\ get_next_ADR(p, datarate, n).datarate \in Datarates
               /\ get_next_ADR(p, datarate, n).adr_ack_cnt \in Nat
    <2>1. datarate # 0 => get_next_lower_dr(datarate) \in Datarates
      BY <1>1 DEF get_next_lower_dr, Datarates
    <2>2. 0 \in Datarates
      BY <1>1 DEF Datarates
    <2> QED BY <2>1, <2>2 DEF get_next_ADR
  <1> QED BY <1>2, <1>3

\* What schedule_tx() leaves behind is well formed.
LEMMA ScheduledTypes ==
    ASSUME NEW p, PlanOK(p), BandsOK(p), NEW m \in MacRecords, NEW c, NEW t \in TxRecords,
           schedule_tx(p, m, c, t)
    PROVE  /\ BandsOK(phy') /\ mac' \in MacRecords /\ tx' \in TxRecords
           /\ mac'.joined = m.joined /\ mac'.last_channel_idx = m.last_channel_idx
           /\ tx'.st # "air" => mac'.tx_toa = m.tx_toa
  <1> DEFINE aggregated_timeoff == m.tx_toa * m.aggregated_duty_cycle - m.tx_toa
             charged == calculate_backoff(p, m.joined, m.last_channel_idx, m.tx_toa)
             active == IF charged.mask = {} THEN set_default_mask(charged) ELSE charged
             updated == update_band_timeoff(active, m.joined)
             free == Free(updated, m.datarate)
             Typed == /\ mac' \in MacRecords /\ tx' \in TxRecords
                      /\ mac'.joined = m.joined
                      /\ mac'.last_channel_idx = m.last_channel_idx
                      /\ tx'.st # "air" => mac'.tx_toa = m.tx_toa
  <1>1. /\ m.joined \in BOOLEAN /\ m.last_channel_idx \in Channels /\ m.tx_toa \in Nat
        /\ m.aggregated_duty_cycle \in Nat /\ m.aggregated_last_tx_time \in Nat
        /\ m.datarate \in Datarates /\ m.join_request_trial_counter \in Nat
    BY DEF MacRecords
  <1>11. \/ phy' = p /\ mac' = m /\ tx' = Refused(t, "DEVICE_OFF")
         \/ /\ aggregated_timeoff > m.aggregated_last_tx_time
            /\ phy' = active /\ Backoff(m, t, {aggregated_timeoff - m.aggregated_last_tx_time})
         \/ phy' = updated /\ \E channel \in free : OnChannel([m EXCEPT !.channel = channel], c, t)
         \/ phy' = updated /\ Backoff(m, t, next_tx_delays(updated, m.joined))
         \/ /\ phy' = set_default_mask(updated)
            /\ mac' = [m EXCEPT !.channel = 0] /\ tx' = Refused(t, "NO_CHANNEL_FOUND")
    BY ScheduleOutcomes
  <1>2. PlanOK(charged) /\ BandsOK(charged)
    <2>1. PlanOK(charged)
      BY BandsSamePlan, SamePlanOK
    <2> QED BY <1>1, <2>1, ChargedBands
  <1>3. PlanOK(active) /\ BandsOK(active)
    <2> HIDE DEF charged
    <2>1. PlanOK(set_default_mask(charged)) /\ BandsOK(set_default_mask(charged))
      BY <1>2, DefaultMaskOK, BandsLeftAlone DEF BandsOK
    <2> QED BY <1>2, <2>1
  <1> HIDE DEF active, charged
  <1>4. PlanOK(updated) /\ BandsOK(updated)
    <2>1. PlanOK(updated)
      BY <1>3, BandsSamePlan, SamePlanOK
    <2> QED BY <1>1, <1>3, <2>1, UpdatedBands
  <1>5. BandsOK(set_default_mask(updated))
    <2> HIDE DEF updated
    <2> QED BY <1>4, BandsLeftAlone DEF BandsOK
  <1>6. free \subseteq Channels
    <2> HIDE DEF updated
    <2> QED BY <1>4 DEF Free, Candidates, PlanOK, Defined
  <1>7. 0 \in Channels
    BY ChannelPlanAssumption DEF ChannelPlanAssumption, Channels
  <1>8. ASSUME NEW status \in {"LENGTH_ERROR", "DEVICE_OFF", "NO_CHANNEL_FOUND"}
        PROVE  Refused(t, status) \in TxRecords /\ Refused(t, status).st = "idle"
    <2>1. Nothing \in [Kinds -> Nat]
      BY DEF Nothing
    <2> QED BY <2>1 DEF Refused, Idle, TxRecords
  <1>9. ASSUME NEW delays \in SUBSET Nat, Backoff(m, t, delays)
        PROVE  Typed
    <2>1. PICK delay \in delays :
             /\ mac' = [m EXCEPT !.channel = 0]
             /\ tx' = [t EXCEPT !.st = IF delay = 0 THEN "stuck" ELSE "backoff", !.wait = delay]
      BY <1>9 DEF Backoff
    <2>2. /\ mac' \in MacRecords /\ mac'.joined = m.joined
          /\ mac'.last_channel_idx = m.last_channel_idx /\ mac'.tx_toa = m.tx_toa
      BY <1>7, <2>1 DEF MacRecords
    <2>3. tx' \in TxRecords
      BY <2>1 DEF TxRecords
    <2> QED BY <2>2, <2>3
  <1>10. ASSUME NEW channel \in free, OnChannel([m EXCEPT !.channel = channel], c, t)
         PROVE  Typed
    <2> DEFINE n == [m EXCEPT !.channel = channel]
    <2>1. /\ n \in MacRecords /\ n.joined = m.joined /\ n.tx_toa = m.tx_toa
          /\ n.last_channel_idx = m.last_channel_idx /\ n.datarate = m.datarate
      BY <1>6 DEF MacRecords
    <2> HIDE DEF n
    <2>2. CASE validate_payload_length(t, n, c)
      <3> DEFINE trials == IF n.joined THEN n.join_request_trial_counter
                           ELSE n.join_request_trial_counter + 1
      <3>1. /\ mac' = [n EXCEPT !.tx_toa = Toa[n.datarate],
                               !.join_request_trial_counter = trials]
            /\ tx' = [t EXCEPT !.st = "air", !.wait = 0]
        BY <1>10, <2>2 DEF OnChannel, n
      <3>2. Toa[n.datarate] \in Nat /\ trials \in Nat
        BY <1>1, <2>1, UplinksAssumption DEF UplinksAssumption, MacRecords
      <3> HIDE DEF trials
      <3>3. /\ mac' \in MacRecords /\ mac'.joined = n.joined
            /\ mac'.last_channel_idx = n.last_channel_idx
        BY <2>1, <3>1, <3>2 DEF MacRecords
      <3>4. tx' \in TxRecords /\ tx'.st = "air"
        BY <3>1 DEF TxRecords
      <3> QED BY <2>1, <3>3, <3>4
    <2>3. CASE ~validate_payload_length(t, n, c)
      <3>1. mac' = n /\ tx' = Refused(t, "LENGTH_ERROR")
        BY <1>10, <2>3 DEF OnChannel, n
      <3> QED BY <1>8, <2>1, <3>1
    <2> QED BY <2>2, <2>3
  <1>12. next_tx_delays(updated, m.joined) \in SUBSET Nat
    BY <1>1, <1>3, NextDelays
  <1>13. aggregated_timeoff > m.aggregated_last_tx_time =>
            {aggregated_timeoff - m.aggregated_last_tx_time} \in SUBSET Nat
    <2>1. m.tx_toa * m.aggregated_duty_cycle \in Nat
      BY <1>1
    <2> QED BY <1>1, <2>1
  <1>14. /\ [m EXCEPT !.channel = 0] \in MacRecords
         /\ [m EXCEPT !.channel = 0].joined = m.joined
         /\ [m EXCEPT !.channel = 0].last_channel_idx = m.last_channel_idx
         /\ [m EXCEPT !.channel = 0].tx_toa = m.tx_toa
    BY <1>7 DEF MacRecords
  <1> HIDE DEF updated, free, aggregated_timeoff
  <1>15. CASE phy' = p /\ mac' = m /\ tx' = Refused(t, "DEVICE_OFF")
    BY <1>8, <1>15
  <1>16. CASE /\ phy' = set_default_mask(updated)
              /\ mac' = [m EXCEPT !.channel = 0] /\ tx' = Refused(t, "NO_CHANNEL_FOUND")
    BY <1>5, <1>8, <1>14, <1>16
  <1>17. CASE /\ aggregated_timeoff > m.aggregated_last_tx_time
              /\ phy' = active /\ Backoff(m, t, {aggregated_timeoff - m.aggregated_last_tx_time})
    BY <1>3, <1>9, <1>13, <1>17
  <1>18. CASE phy' = updated /\ Backoff(m, t, next_tx_delays(updated, m.joined))
    BY <1>4, <1>9, <1>12, <1>18
  <1>19. CASE phy' = updated /\ \E channel \in free : OnChannel([m EXCEPT !.channel = channel], c, t)
    BY <1>4, <1>10, <1>19
  <1> QED BY <1>11, <1>15, <1>16, <1>17, <1>18, <1>19


-----------------------------------------------------------------------------
(* Every variable keeps its type *)

TypeInv ==
    /\ BandsOK(phy)
    /\ mac \in MacRecords
    /\ tx \in TxRecords
    /\ cmd \in Buffers
    /\ owed \in Counts
    /\ silence \in [Bands -> Nat]
    /\ calls \in [connects : Nat, sends : Nat]

\* With the channel plan and the commands in hand, that is the type invariant.
LEMMA TypeInvImplies == PlanInv /\ TypeInv => TypeOK
  <1> SUFFICES ASSUME PlanInv, TypeInv PROVE TypeOK
    OBVIOUS
  <1>1. /\ phy = [channels |-> phy.channels, mask |-> phy.mask, bands |-> phy.bands]
        /\ phy.channels \in [Channels -> ChannelRecords]
        /\ phy.mask \subseteq Channels
        /\ phy.bands \in [Bands -> BandRecords]
    BY DEF PlanInv, PlanOK, Defined, TypeInv, BandsOK
  <1>2. phy \in [channels : [Channels -> ChannelRecords], mask : SUBSET Channels,
                 bands : [Bands -> BandRecords]]
    BY <1>1
  <1>3. todo \in Seq(Commands)
    BY DEF PlanInv, TodoOK
  <1> QED BY <1>2, <1>3 DEF TypeInv, TypeOK, ChannelRecords, BandRecords, MacRecords, TxRecords,
             Buffers, Counts

\* Buffers keep their type, and so do the answers that are owed.
LEMMA BufferTypes ==
    /\ NoAnswers \in Buffers /\ Nothing \in Counts
    /\ \A c \in Buffers : /\ Prepared(c) \in Buffers
                          /\ clear_command_buffer(c) \in Buffers
    /\ \A c \in Buffers, kind \in Kinds, n \in Nat :
          add(c, kind, n) \in Buffers /\ Room(c, kind, n) \in Nat
    /\ \A debt \in Counts : OnlySticky(debt) \in Counts
  <1>1. NoAnswers \in Buffers /\ Nothing \in Counts
    BY DEF NoAnswers, Nothing, Buffers, Counts
  <1>2. ASSUME NEW c, NEW debt, Kept(c, debt)
        PROVE  c \in Buffers
    BY <1>2 DEF Kept, Buffers
  <1>3. ASSUME NEW c \in Buffers
        PROVE  /\ Kept(c, Nothing)
               /\ \A kind \in Sticky : Nothing[kind] <= c.repeat[kind]
    BY <1>1 DEF Buffers, Kept, Counts, Nothing, Kinds
  <1>4. ASSUME NEW c \in Buffers
        PROVE  Prepared(c) \in Buffers /\ clear_command_buffer(c) \in Buffers
    BY <1>2, <1>3, PreparedKept, SentKept
  <1>5. ASSUME NEW c \in Buffers, NEW kind \in Kinds, NEW n \in Nat
        PROVE  add(c, kind, n) \in Buffers /\ Room(c, kind, n) \in Nat
    <2>1. Kept(c, Nothing) /\ c.buffer \in Counts /\ c.repeat \in Counts
      BY <1>3 DEF Buffers
    <2>2. Kept(add(c, kind, n), [Nothing EXCEPT ![kind] = Room(c, kind, n)])
      BY <2>1, AddKept
    <2>3. Room(c, kind, n) \in Nat
      BY <2>1, RoomInNat
    <2> QED BY <1>2, <2>2, <2>3
  <1>6. \A debt \in Counts : OnlySticky(debt) \in Counts
    BY DEF OnlySticky, Counts
  <1> QED BY <1>1, <1>4, <1>5, <1>6

\* The length of the answers in a buffer.
LEMMA BytesInNat == \A b \in Counts : Bytes(b) \in Nat
  BY DEF Counts, Bytes, Kinds, Sticky

\* A message without anything in it, and one that begins a join.
LEMMA IdleTypes == Idle \in TxRecords /\ [Idle EXCEPT !.join = TRUE] \in TxRecords
  <1>1. 0 \in Datarates
    BY ChannelPlanAssumption DEF ChannelPlanAssumption, Datarates
  <1> QED BY <1>1 DEF Idle, TxRecords, Nothing

\* A Join Request.
LEMMA JoinTypes ==
    ASSUME PlanOK(phy), BandsOK(phy), NEW m \in MacRecords, JoinRequest(m)
    PROVE  /\ BandsOK(phy') /\ mac' \in MacRecords /\ tx' \in TxRecords
           /\ mac'.joined = m.joined /\ mac'.last_channel_idx = m.last_channel_idx
           /\ tx'.st # "air" => mac'.tx_toa = m.tx_toa
  <1> DEFINE rate == get_alternate_DR(m.join_request_trial_counter + 1)
             n == [m EXCEPT !.datarate = rate]
             t == [Idle EXCEPT !.join = TRUE]
  <1>1. rate \in Datarates
    <2>1. m.join_request_trial_counter + 1 \in Nat
      BY DEF MacRecords
    <2> QED BY <2>1, DataratesChosen
  <1>2. schedule_tx(phy, n, NoAnswers, t)
    BY DEF JoinRequest
  <1> HIDE DEF rate
  <1>3. /\ n \in MacRecords /\ n.joined = m.joined
        /\ n.last_channel_idx = m.last_channel_idx /\ n.tx_toa = m.tx_toa
    BY <1>1 DEF MacRecords
  <1> HIDE DEF n, t
  <1>4. t \in TxRecords
    BY IdleTypes DEF t
  <1> QED BY <1>2, <1>3, <1>4, ScheduledTypes

\* What send() hands to schedule_tx() is well formed.
LEMMA SendTypes ==
    ASSUME PlanInv, TypeInv, NEW length \in Lengths, NEW check \in BOOLEAN,
           Send(length, check)
    PROVE  \E p, m, t :
              /\ p \in {phy, restore_default_channels(phy)} /\ PlanOK(p) /\ BandsOK(p)
              /\ p.bands = phy.bands /\ p.channels = phy.channels
              /\ m \in MacRecords /\ t \in TxRecords
              /\ m.joined = mac.joined /\ m.last_channel_idx = mac.last_channel_idx
              /\ m.tx_toa = mac.tx_toa
              /\ cmd' \in Buffers /\ owed' \in Counts
              /\ schedule_tx(p, m, cmd', t)
  <1> DEFINE asked == IF check THEN Room(cmd, "LINK_CHECK_REQ", 1) ELSE 0
             checked == IF check THEN add(cmd, "LINK_CHECK_REQ", 1) ELSE cmd
             debt == [owed EXCEPT !["LINK_CHECK_REQ"] = asked]
             fopts_len == (Bytes(checked.buffer) + Bytes(checked.repeat)) % 256
             adr == get_next_ADR(phy, mac.datarate, mac.adr_ack_counter)
             allowed == MaxPayload[adr.datarate]
             overfull == allowed < fopts_len
             prepared == Prepared(IF overfull THEN NoAnswers ELSE checked)
             room == IF overfull THEN allowed ELSE allowed - fopts_len
             size == IF room < length THEN room ELSE length
             message == [Idle EXCEPT !.size = size, !.datarate = adr.datarate,
                                     !.carried = prepared.buffer]
             params == [mac EXCEPT !.datarate = adr.datarate,
                                   !.adr_ack_counter = adr.adr_ack_cnt]
  <1>1. /\ cmd' = prepared
        /\ owed' = IF overfull THEN Nothing ELSE debt
        /\ schedule_tx(adr.phy, params, prepared, message)
    BY Zenon DEF Send
  <1>2. checked \in Buffers /\ debt \in Counts
    <2>1. "LINK_CHECK_REQ" \in Kinds /\ 1 \in Nat
      BY DEF Kinds
    <2>2. cmd \in Buffers /\ owed \in Counts
      BY DEF TypeInv
    <2>3. asked \in Nat /\ checked \in Buffers
      BY <2>1, <2>2, BufferTypes
    <2> HIDE DEF asked, checked
    <2> QED BY <2>1, <2>2, <2>3 DEF Counts
  <1> HIDE DEF asked, checked, debt
  <1>3. adr.datarate \in Datarates /\ adr.adr_ack_cnt \in Nat
    <2>1. mac.datarate \in Datarates /\ mac.adr_ack_counter \in Nat
      BY DEF TypeInv, MacRecords
    <2> QED BY <2>1, DataratesChosen
  <1>4. adr.phy \in {phy, restore_default_channels(phy)}
    BY DEF get_next_ADR
  <1>5. PlanOK(adr.phy) /\ BandsOK(adr.phy) /\ adr.phy.bands = phy.bands
        /\ adr.phy.channels = phy.channels
    <2>1. PlanOK(adr.phy) /\ adr.phy.bands = phy.bands
      BY NextAdrOK, BandsLeftAlone DEF PlanInv, TypeInv
    <2>2. restore_default_channels(phy).channels = phy.channels
      BY DEF restore_default_channels, PlanInv, PlanOK
    <2> HIDE DEF adr
    <2>3. adr.phy.channels = phy.channels
      BY <1>4, <2>2
    <2> QED BY <2>1, <2>3 DEF TypeInv, BandsOK
  <1> HIDE DEF adr
  <1>6. size \in Nat
    <2>1. allowed \in Nat /\ length \in Nat
      BY <1>3, UplinksAssumption DEF UplinksAssumption
    <2>2. Bytes(checked.buffer) + Bytes(checked.repeat) \in Nat
      BY <1>2, BytesInNat DEF Buffers
    <2>3. fopts_len \in Nat
      BY <2>2
    <2> HIDE DEF fopts_len, allowed
    <2> QED BY <2>1, <2>3
  <1>7. prepared \in Buffers
    BY <1>2, BufferTypes
  <1>8. owed' \in Counts
    BY <1>1, <1>2, BufferTypes
  <1> HIDE DEF size, prepared, overfull
  <1>9. message \in TxRecords
    BY <1>3, <1>6, <1>7, IdleTypes DEF TxRecords, Buffers, Counts
  <1>10. /\ params \in MacRecords
         /\ params.joined = mac.joined /\ params.last_channel_idx = mac.last_channel_idx
         /\ params.tx_toa = mac.tx_toa
    BY <1>3 DEF TypeInv, MacRecords
  <1> HIDE DEF message, params
  <1> QED BY <1>1, <1>4, <1>5, <1>7, <1>8, <1>9, <1>10


\* An answer is collected.
LEMMA AnswerTypes ==
    ASSUME TypeInv, NEW kind \in Kinds, NEW n \in Nat, Answer(kind, n)
    PROVE  cmd' \in Buffers /\ owed' \in Counts /\ tx' \in TxRecords
           /\ calls' \in [connects : Nat, sends : Nat]
  <1>1. /\ cmd' = add(cmd, kind, n) /\ owed' = [owed EXCEPT ![kind] = @ + Room(cmd, kind, n)]
        /\ tx' = tx /\ calls' = calls
    BY DEF Answer
  <1>2. cmd \in Buffers /\ owed \in Counts
    BY DEF TypeInv
  <1>3. add(cmd, kind, n) \in Buffers /\ Room(cmd, kind, n) \in Nat
    BY <1>2, BufferTypes
  <1> QED BY <1>1, <1>2, <1>3 DEF TypeInv, Counts

\* The corrections of the history leave it a history.
LEMMA SilenceTypes ==
    ASSUME TypeInv
    PROVE  /\ NoSilence \in [Bands -> Nat]
           /\ CutShort \in [Bands -> Nat]
           /\ \A p : Recharged(p) \in [Bands -> Nat]
  <1>1. silence \in [Bands -> Nat]
    BY DEF TypeInv
  <1>2. NoSilence \in [Bands -> Nat] /\ CutShort \in [Bands -> Nat]
    BY <1>1 DEF NoSilence, CutShort
  <1>3. ASSUME NEW used, NEW now
        PROVE  [silence EXCEPT ![used] = 0, ![now] = 0] \in [Bands -> Nat]
    BY <1>1
  <1>4. \A p : Recharged(p) \in [Bands -> Nat]
    BY <1>1, <1>3 DEF Recharged
  <1> QED BY <1>2, <1>4

\* Every step keeps the types.
LEMMA TypeInvNext == PlanInv /\ TypeInv /\ [Next]_vars => TypeInv'
  <1> SUFFICES ASSUME PlanInv, TypeInv, [Next]_vars PROVE TypeInv'
    OBVIOUS
  <1>0. /\ PlanOK(phy) /\ BandsOK(phy) /\ mac \in MacRecords /\ tx \in TxRecords
        /\ cmd \in Buffers /\ owed \in Counts /\ silence \in [Bands -> Nat]
        /\ calls \in [connects : Nat, sends : Nat]
        /\ NoAnswers \in Buffers /\ Nothing \in Counts /\ Idle \in TxRecords
        /\ clear_command_buffer(cmd) \in Buffers /\ OnlySticky(owed) \in Counts
        /\ NoSilence \in [Bands -> Nat] /\ CutShort \in [Bands -> Nat]
        /\ \A p : Recharged(p) \in [Bands -> Nat]
    BY BufferTypes, IdleTypes, SilenceTypes DEF PlanInv, TypeInv
  <1>1. \A p : p.bands = phy.bands => BandsOK(p)
    BY <1>0 DEF BandsOK
  <1>2. /\ [calls EXCEPT !.connects = @ + 1] \in [connects : Nat, sends : Nat]
        /\ [calls EXCEPT !.sends = @ + 1] \in [connects : Nat, sends : Nat]
    BY <1>0
  <1>3. ASSUME NEW length \in Lengths, NEW check \in {FALSE, LinkChecks}, Send(length, check)
        PROVE  TypeInv'
    <2>1. check \in BOOLEAN
      BY UplinksAssumption DEF UplinksAssumption
    <2>2. PICK p, m, t : /\ PlanOK(p) /\ BandsOK(p) /\ m \in MacRecords /\ t \in TxRecords
                         /\ cmd' \in Buffers /\ owed' \in Counts
                         /\ schedule_tx(p, m, cmd', t)
      BY <1>3, <2>1, SendTypes
    <2>3. BandsOK(phy') /\ mac' \in MacRecords /\ tx' \in TxRecords
      BY <2>2, ScheduledTypes
    <2>4. silence' = silence /\ calls' = [calls EXCEPT !.sends = @ + 1]
      BY <1>3 DEF Send
    <2> QED BY <1>0, <1>2, <2>2, <2>3, <2>4 DEF TypeInv, BandsOK
  <1>4. CASE Cancel
    BY <1>0, <1>4 DEF Cancel, TypeInv, BandsOK
  <1>5. CASE Connect
    <2> DEFINE m == [mac EXCEPT !.heard = FALSE, !.adr_ack_counter = 0,
                                !.max_duty_cycle = 0, !.aggregated_duty_cycle = 1,
                                !.channel = 0, !.last_channel_idx = 0,
                                !.join_request_trial_counter = 0]
    <2>1. /\ JoinRequest(m)
          /\ cmd' = NoAnswers /\ owed' = Nothing /\ silence' = NoSilence
          /\ calls' = [calls EXCEPT !.connects = @ + 1]
      BY <1>5 DEF Connect
    <2>2. m \in MacRecords
      <3>1. 0 \in Channels
        BY ChannelPlanAssumption DEF ChannelPlanAssumption, Channels
      <3> QED BY <1>0, <3>1 DEF MacRecords
    <2> HIDE DEF m
    <2>3. BandsOK(phy') /\ mac' \in MacRecords /\ tx' \in TxRecords
      BY <1>0, <2>1, <2>2, JoinTypes
    <2> QED BY <1>0, <1>2, <2>1, <2>3 DEF TypeInv, BandsOK
  <1>6. CASE Personalize
    <2>1. [mac EXCEPT !.joined = TRUE] \in MacRecords
      BY <1>0 DEF MacRecords
    <2> QED BY <1>0, <1>2, <1>6, <2>1 DEF Personalize, TypeInv, BandsOK
  <1>7. CASE Disconnect
    <2>1. [mac EXCEPT !.joined = FALSE] \in MacRecords
      BY <1>0 DEF MacRecords
    <2> QED BY <1>0, <1>7, <2>1 DEF Disconnect, TypeInv, BandsOK
  <1>8. ASSUME NEW plan \in Plans, AddChannel(plan)
        PROVE  TypeInv'
    <2>1. BandsOK(add_channel(phy, plan.id, plan.channel))
      BY <1>0, <1>1, BandsLeftAlone
    <2> QED BY <1>0, <1>8, <2>1 DEF AddChannel, TypeInv, BandsOK
  <1>9. ASSUME NEW id \in Channels, RemoveChannel(id)
        PROVE  TypeInv'
    <2>1. BandsOK(remove_channel(phy, id))
      BY <1>0, <1>1, BandsLeftAlone
    <2> QED BY <1>0, <1>9, <2>1 DEF RemoveChannel, TypeInv, BandsOK
  <1>10. CASE BackoffExpiry
    <2>1. /\ schedule_tx(phy, mac, cmd, tx)
          /\ UNCHANGED <<cmd, owed, silence, calls>>
      BY <1>10 DEF BackoffExpiry
    <2>2. BandsOK(phy') /\ mac' \in MacRecords /\ tx' \in TxRecords
      BY <1>0, <2>1, ScheduledTypes
    <2> QED BY <1>0, <2>1, <2>2 DEF TypeInv, BandsOK
  <1>11. CASE TxDone
    <2> DEFINE b == phy.channels[mac.channel].band
               time == mac.tx_toa * DutyCycle[b] - mac.tx_toa
    <2>1. /\ phy' = set_last_tx_done(phy, mac.channel, mac.joined)
          /\ mac' = [mac EXCEPT !.last_channel_idx = mac.channel, !.aggregated_last_tx_time = 0]
          /\ cmd' = clear_command_buffer(cmd)
          /\ tx' = [tx EXCEPT !.st = "window"]
          /\ owed' = OnlySticky(owed)
          /\ silence' = [silence EXCEPT ![b] = time]
          /\ calls' = calls
      BY <1>11 DEF TxDone
    <2>2. mac.channel \in Channels /\ mac.joined \in BOOLEAN /\ mac.tx_toa \in Nat
      BY <1>0 DEF MacRecords
    <2>3. b \in Bands /\ BandsOK(phy')
      BY <1>0, <2>1, <2>2, DoneBands
    <2>4. time \in Nat
      <3>1. DutyCycle[b] \in Nat \ {0}
        BY <2>3, ChannelPlanAssumption DEF ChannelPlanAssumption
      <3> HIDE DEF b
      <3> QED BY <2>2, <3>1, Charge
    <2> HIDE DEF b, time
    <2>5. mac' \in MacRecords
      BY <1>0, <2>1, <2>2 DEF MacRecords
    <2>6. tx' \in TxRecords
      BY <1>0, <2>1 DEF TxRecords
    <2>7. silence' \in [Bands -> Nat]
      BY <1>0, <2>1, <2>4
    <2> QED BY <1>0, <2>1, <2>3, <2>5, <2>6, <2>7 DEF TypeInv, BandsOK
  <1>12. CASE TxTimeout
    BY <1>0, <1>12 DEF TxTimeout, TypeInv, BandsOK
  <1>13. CASE Tick
    <2>1. BandsOK(phy')
      BY <1>0, <1>13, OlderBands DEF Tick
    <2>2. mac' \in MacRecords
      <3>1. mac' = [mac EXCEPT !.aggregated_last_tx_time = Aged(@)]
        BY <1>13 DEF Tick
      <3> QED BY <1>0, <3>1 DEF MacRecords, Aged
    <2>3. tx' \in TxRecords
      <3>1. tx' = [tx EXCEPT !.wait = IF @ = 0 THEN 0 ELSE @ - 1]
        BY <1>13 DEF Tick
      <3> QED BY <1>0, <3>1 DEF TxRecords
    <2>4. silence' \in [Bands -> Nat]
      BY <1>0, <1>13 DEF Tick
    <2> QED BY <1>0, <1>13, <2>1, <2>2, <2>3, <2>4 DEF Tick, TypeInv, BandsOK
  <1>14. CASE JoinAccept(CfLists)
    <2>1. /\ mac' = [mac EXCEPT !.joined = TRUE, !.adr_ack_counter = 0]
          /\ \/ phy' = phy /\ silence' = silence
             \/ \E list : /\ phy' = apply_cf_list(phy, list)
                          /\ silence' = Recharged(apply_cf_list(phy, list))
          /\ tx' = Idle
          /\ UNCHANGED <<cmd, owed, calls>>
      BY <1>14 DEF JoinAccept
    <2>2. BandsOK(phy') /\ silence' \in [Bands -> Nat]
      BY <1>0, <1>1, <2>1, BandsLeftAlone
    <2>3. mac' \in MacRecords
      BY <1>0, <2>1 DEF MacRecords
    <2> QED BY <1>0, <2>1, <2>2, <2>3 DEF TypeInv, BandsOK
  <1>15. CASE NoJoinAccept
    <2>1. /\ UNCHANGED <<cmd, owed, silence, calls>>
          /\ (tx' = Idle /\ UNCHANGED <<phy, mac>>) \/ JoinRequest(mac)
      BY <1>15 DEF NoJoinAccept
    <2>2. BandsOK(phy') /\ mac' \in MacRecords /\ tx' \in TxRecords
      BY <1>0, <2>1, JoinTypes DEF BandsOK
    <2> QED BY <1>0, <2>1, <2>2 DEF TypeInv, BandsOK
  <1>16. CASE NoDownlink
    <2>1. [mac EXCEPT !.adr_ack_counter = @ + 1] \in MacRecords
      BY <1>0 DEF MacRecords
    <2> QED BY <1>0, <1>16, <2>1 DEF NoDownlink, TypeInv, BandsOK
  <1>17. [mac EXCEPT !.heard = TRUE, !.adr_ack_counter = 1] \in MacRecords
         /\ [mac EXCEPT !.adr_ack_counter = 1] \in MacRecords
    BY <1>0 DEF MacRecords
  <1>18. ASSUME NEW commands \in Downlinks, Downlink(commands)
         PROVE  TypeInv'
    BY <1>0, <1>17, <1>18 DEF Downlink, TypeInv, BandsOK
  <1>19. CASE RepeatedDownlink
    BY <1>0, <1>17, <1>19 DEF RepeatedDownlink, TypeInv, BandsOK
  <1>20. ASSUME NEW kind \in Kinds, NEW n \in Nat, Answer(kind, n),
                BandsOK(phy'), mac' \in MacRecords, silence' \in [Bands -> Nat]
         PROVE  TypeInv'
    BY <1>20, AnswerTypes DEF TypeInv
  <1>21. /\ "LINK_ADR_ANS" \in Kinds /\ "DUTY_CYCLE_ANS" \in Kinds
         /\ "NEW_CHANNEL_ANS" \in Kinds /\ "DL_CHANNEL_ANS" \in Kinds
         /\ "RX_PARAM_SETUP_ANS" \in Kinds /\ "DEV_STATUS_ANS" \in Kinds
         /\ "RX_TIMING_SETUP_ANS" \in Kinds /\ "TX_PARAM_SETUP_ANS" \in Kinds
    BY DEF Kinds, Sticky
  <1>22. CASE LinkAdrReq
    <2>1. PICK n \in 1 .. Len(todo) :
             /\ phy' = link_ADR_request(phy, todo[n])
             /\ mac' = IF link_ADR_accepts(phy, todo[n])
                       THEN [mac EXCEPT !.datarate = todo[n].datarate] ELSE mac
             /\ Answer("LINK_ADR_ANS", n)
             /\ silence' = silence
      BY <1>22, ZenonT(30) DEF LinkAdrReq
    <2>2. n \in Nat
      BY <2>1 DEF PlanInv, TodoOK
    <2>3. BandsOK(phy')
      BY <1>0, <1>1, <2>1, BandsLeftAlone
    <2>4. mac' \in MacRecords
      <3>1. link_ADR_accepts(phy, todo[n]) => todo[n].datarate \in Datarates
        BY DEF link_ADR_accepts, verify_channel_DR
      <3> QED BY <1>0, <2>1, <3>1 DEF MacRecords
    <2> QED BY <1>0, <1>20, <1>21, <2>1, <2>2, <2>3, <2>4
  <1>23. CASE DutyCycleReq
    <2> DEFINE max == Head(todo).max_duty_cycle
    <2>1. /\ todo # <<>> /\ Head(todo).cmd = "DUTY_CYCLE_REQ"
          /\ mac' = [mac EXCEPT !.max_duty_cycle = max,
                       !.aggregated_duty_cycle = IF max = 255 THEN 0 ELSE 2 ^ max]
          /\ Answer("DUTY_CYCLE_ANS", 1)
          /\ UNCHANGED <<phy, silence>>
      BY <1>23 DEF DutyCycleReq, Next_is
    <2>2. Head(todo) \in Commands
      BY <2>1, TodoTail DEF PlanInv
    <2>3. max \in 0 .. 15 \union {255}
      BY <2>1, <2>2 DEF Commands
    <2> HIDE DEF max
    <2>4. max \in Nat /\ (IF max = 255 THEN 0 ELSE 2 ^ max) \in Nat
      <3>1. CASE max = 255
        BY <3>1
      <3>2. CASE max \in 0 .. 15
        <4>1. 2 ^ max \in Nat
          BY <3>2, PowersOfTwo
        <4> QED BY <3>2, <4>1
      <3> QED BY <2>3, <3>1, <3>2
    <2>5. mac' \in MacRecords
      BY <1>0, <2>1, <2>4 DEF MacRecords
    <2> QED BY <1>0, <1>20, <1>21, <2>1, <2>5 DEF BandsOK
  <1>24. CASE NewChannelReq
    <2>1. PICK id, ch : /\ phy' = request_new_channel(phy, id, ch)
                        /\ silence' = Recharged(request_new_channel(phy, id, ch))
                        /\ Answer("NEW_CHANNEL_ANS", 1) /\ mac' = mac
      BY <1>24, Zenon DEF NewChannelReq
    <2>2. BandsOK(phy')
      BY <1>0, <1>1, <2>1, BandsLeftAlone
    <2> QED BY <1>0, <1>20, <1>21, <2>1, <2>2
  <1>25. CASE DlChannelReq
    <2>1. BandsOK(phy')
      BY <1>0, <1>1, <1>25, BandsLeftAlone DEF DlChannelReq
    <2> QED BY <1>0, <1>20, <1>21, <1>25, <2>1 DEF DlChannelReq
  <1>26. ASSUME NEW name, NEW kind \in Kinds, OtherReq(name, kind)
         PROVE  TypeInv'
    BY <1>0, <1>20, <1>26 DEF OtherReq, BandsOK
  <1>27. CASE UnknownReq
    BY <1>0, <1>27 DEF UnknownReq, TypeInv, BandsOK
  <1>28. CASE UNCHANGED vars
    BY <1>0, <1>28 DEF vars, TypeInv, BandsOK
  <1> QED
    BY <1>3, <1>4, <1>5, <1>6, <1>7, <1>8, <1>9, <1>10, <1>11, <1>12, <1>13, <1>14, <1>15,
       <1>16, <1>18, <1>19, <1>21, <1>22, <1>23, <1>24, <1>25, <1>26, <1>27, <1>28
    DEF Next, ProcessMacCommands, RxParamSetupReq, DevStatusReq, RxTimingSetupReq,
        TxParamSetupReq

\* At first everything is well formed.
LEMMA TypeInvInit == Init => TypeInv
  <1> SUFFICES ASSUME Init PROVE TypeInv
    OBVIOUS
  <1>1. BandsOK(phy) /\ tx \in TxRecords /\ cmd \in Buffers /\ owed \in Counts
    BY InitialBands, IdleTypes, BufferTypes DEF Init
  <1>2. mac \in MacRecords
    BY ChannelPlanAssumption DEF Init, ChannelPlanAssumption, Channels, MacRecords
  <1>3. silence \in [Bands -> Nat] /\ calls \in [connects : Nat, sends : Nat]
    BY DEF Init, NoSilence
  <1> QED BY <1>1, <1>2, <1>3 DEF TypeInv

\* Every variable keeps its type: the data rates, channels and bands that LoRaMac.cpp
\* indexes its tables with exist, and no time, delay or length is below 0.
THEOREM TypesKept == Spec => []TypeOK
  <1>1. Init => PlanInv /\ TypeInv
    BY PlanInvInit, TypeInvInit
  <1>2. PlanInv /\ TypeInv /\ [Next]_vars => (PlanInv /\ TypeInv)'
    BY PlanInvNext, TypeInvNext
  <1>3. PlanInv /\ TypeInv => TypeOK
    BY TypeInvImplies
  <1> QED BY <1>1, <1>2, <1>3, PTL DEF Spec


-----------------------------------------------------------------------------
(* The duty cycle *)

\* The band of the channel used last, which the next schedule_tx() charges.
UsedBand == phy.channels[mac.last_channel_idx].band

\* Until then the time a band must still be silent, and the time since its last
\* transmission, add up to no more than what is charged to the band that was used, and
\* than the off time of each other band; while a frame is on the air that band has
\* been charged too.  While a join is underway a band with a time to be silent was last
\* used for a Join Request, so that SilentFor() is the time since.
DutyInv ==
    /\ ~mac.joined /\ tx.st # "idle" =>
          \A b \in Bands : silence[b] > 0 =>
             phy.bands[b].last_join_tx_time <= phy.bands[b].last_tx_time
    /\ \A b \in Bands : silence[b] > 0 /\ (tx.st = "air" \/ b # UsedBand) =>
          silence[b] + phy.bands[b].last_tx_time <= phy.bands[b].off_time
    /\ \A b \in Bands : silence[b] > 0 /\ tx.st # "air" /\ b = UsedBand =>
          silence[b] + phy.bands[b].last_tx_time <= mac.tx_toa * DutyCycle[b] - mac.tx_toa

\* schedule_tx() charges the band that was used, and takes no channel whose band still
\* has to be silent.
LEMMA ScheduledDuty ==
    ASSUME NEW p, PlanOK(p), BandsOK(p), NEW m \in MacRecords, NEW c, NEW t \in TxRecords,
           schedule_tx(p, m, c, t), NEW s \in [Bands -> Nat],
           NEW used, used = p.channels[m.last_channel_idx].band,
           ~m.joined => \A b \in Bands : s[b] > 0 =>
               p.bands[b].last_join_tx_time <= p.bands[b].last_tx_time,
           \A b \in Bands : s[b] > 0 /\ b # used =>
               s[b] + p.bands[b].last_tx_time <= p.bands[b].off_time,
           s[used] > 0 =>
               s[used] + p.bands[used].last_tx_time <= m.tx_toa * DutyCycle[used] - m.tx_toa
    PROVE  /\ phy'.channels = p.channels
           /\ \A b \in Bands :
                 /\ phy'.bands[b].last_tx_time = p.bands[b].last_tx_time
                 /\ phy'.bands[b].last_join_tx_time = p.bands[b].last_join_tx_time
           /\ \A b \in Bands : s[b] > 0 /\ (tx'.st = "air" \/ b # used) =>
                 s[b] + phy'.bands[b].last_tx_time <= phy'.bands[b].off_time
           /\ tx'.st = "air" => s[phy'.channels[mac'.channel].band] = 0
  <1> DEFINE charged == calculate_backoff(p, m.joined, m.last_channel_idx, m.tx_toa)
             active == IF charged.mask = {} THEN set_default_mask(charged) ELSE charged
             updated == update_band_timeoff(active, m.joined)
             free == Free(updated, m.datarate)
             Times(q) == /\ q.channels = p.channels
                         /\ \A b \in Bands :
                               /\ q.bands[b].last_tx_time = p.bands[b].last_tx_time
                               /\ q.bands[b].last_join_tx_time = p.bands[b].last_join_tx_time
             Charges(q) == \A b \in Bands : s[b] > 0 =>
                               s[b] + q.bands[b].last_tx_time <= q.bands[b].off_time
  <1>1. /\ m.joined \in BOOLEAN /\ m.last_channel_idx \in Channels /\ m.tx_toa \in Nat
    BY DEF MacRecords
  <1>2. /\ PlanOK(charged) /\ BandsOK(charged) /\ charged.channels = p.channels
        /\ Times(charged) /\ Charges(charged)
    <2>1. PlanOK(charged) /\ charged.channels = p.channels
      BY BandsSamePlan, SamePlanOK DEF SamePlan
    <2>2. /\ used \in Bands
          /\ BandsOK(charged)
          /\ \A a \in Bands \ {used} : charged.bands[a] = p.bands[a]
          /\ charged.bands[used].last_tx_time = p.bands[used].last_tx_time
          /\ charged.bands[used].last_join_tx_time = p.bands[used].last_join_tx_time
          /\ m.tx_toa * DutyCycle[used] - m.tx_toa <= charged.bands[used].off_time
      <3> DEFINE b == p.channels[m.last_channel_idx].band
      <3>1. /\ b \in Bands
            /\ BandsOK(charged)
            /\ \A a \in Bands \ {b} : charged.bands[a] = p.bands[a]
            /\ charged.bands[b].last_tx_time = p.bands[b].last_tx_time
            /\ charged.bands[b].last_join_tx_time = p.bands[b].last_join_tx_time
            /\ m.tx_toa * DutyCycle[b] - m.tx_toa <= charged.bands[b].off_time
        BY <1>1, ChargedBands
      <3>2. used = b
        OBVIOUS
      <3> HIDE DEF b, charged
      <3> QED BY <3>1, <3>2
    <2>3. m.tx_toa * DutyCycle[used] - m.tx_toa \in Int
      <3>1. DutyCycle[used] \in Nat
        BY <2>2, ChannelPlanAssumption DEF ChannelPlanAssumption
      <3> QED BY <1>1, <3>1
    <2> DEFINE limit == m.tx_toa * DutyCycle[used] - m.tx_toa
    <2>4. /\ limit \in Int /\ limit <= charged.bands[used].off_time
          /\ s[used] > 0 => s[used] + p.bands[used].last_tx_time <= limit
      BY <2>2, <2>3
    <2> HIDE DEF charged, limit
    <2>5. Times(charged)
      BY <2>1, <2>2
    <2>6. \A b \in Bands : /\ s[b] \in Nat /\ p.bands[b].last_tx_time \in Nat
                           /\ charged.bands[b].off_time \in Nat
      BY <2>2 DEF BandsOK, BandRecords
    <2>7. \A b \in Bands \ {used} : charged.bands[b] = p.bands[b]
      BY <2>2
    <2>8. ASSUME NEW b \in Bands, s[b] > 0
          PROVE  s[b] + charged.bands[b].last_tx_time <= charged.bands[b].off_time
      <3>1. CASE b = used
        <4>1. charged.bands[used].last_tx_time = p.bands[used].last_tx_time
          BY <2>2
        <4>2. s[b] + charged.bands[b].last_tx_time <= limit
          BY <2>4, <2>8, <3>1, <4>1
        <4>3. limit <= charged.bands[b].off_time
          BY <2>4, <3>1
        <4> QED BY <2>4, <2>6, <4>1, <4>2, <4>3, <3>1
      <3>2. CASE b # used
        <4>1. charged.bands[b] = p.bands[b]
          BY <2>7, <3>2
        <4>2. s[b] + p.bands[b].last_tx_time <= p.bands[b].off_time
          BY <2>8, <3>2
        <4> QED BY <4>1, <4>2
      <3> QED BY <3>1, <3>2
    <2>9. Charges(charged)
      BY <2>8
    <2> QED BY <2>1, <2>2, <2>5, <2>9
  <1> HIDE DEF charged
  <1>3. PlanOK(active) /\ BandsOK(active) /\ Times(active) /\ Charges(active)
    <2>1. PlanOK(set_default_mask(charged))
      BY <1>2, DefaultMaskOK
    <2>2. /\ set_default_mask(charged).bands = charged.bands
          /\ set_default_mask(charged).channels = charged.channels
      BY <1>2 DEF set_default_mask, PlanOK
    <2>3. /\ active.bands = charged.bands /\ active.channels = charged.channels
          /\ PlanOK(active)
      BY <1>2, <2>1, <2>2
    <2> HIDE DEF active
    <2> QED BY <1>2, <2>3 DEF BandsOK
  <1> HIDE DEF active
  <1>4. PlanOK(updated) /\ updated.channels = active.channels
    BY <1>3, BandsSamePlan, SamePlanOK DEF SamePlan
  <1>5. /\ BandsOK(updated)
        /\ \A b \in Bands :
              /\ updated.bands[b].last_tx_time = active.bands[b].last_tx_time
              /\ updated.bands[b].last_join_tx_time = active.bands[b].last_join_tx_time
              /\ updated.bands[b].off_time =
                    IF active.bands[b].off_time <= SilentFor(active.bands[b], m.joined)
                    THEN 0 ELSE active.bands[b].off_time
    BY <1>1, <1>3, UpdatedBands
  <1> HIDE DEF updated
  <1>6. Times(updated)
    BY <1>3, <1>4, <1>5
  <1>7. ASSUME NEW b \in Bands, s[b] > 0
        PROVE  /\ s[b] + updated.bands[b].last_tx_time <= updated.bands[b].off_time
               /\ updated.bands[b].off_time # 0
    <2>1. active.bands[b] \in BandRecords
      BY <1>3 DEF BandsOK
    <2>2. m.joined \/ active.bands[b].last_join_tx_time <= active.bands[b].last_tx_time
      BY <1>3, <1>7
    <2>3. SilentFor(active.bands[b], m.joined) = active.bands[b].last_tx_time
      BY <1>1, <2>1, <2>2, SilentForInNat
    <2>4. /\ active.bands[b].last_tx_time \in Nat /\ active.bands[b].off_time \in Nat
          /\ s[b] \in Nat
      BY <2>1 DEF BandRecords
    <2>5. s[b] + active.bands[b].last_tx_time <= active.bands[b].off_time
      BY <1>3, <1>7
    <2>6. ~(active.bands[b].off_time <= active.bands[b].last_tx_time)
      BY <1>7, <2>4, <2>5
    <2> QED BY <1>5, <1>7, <2>3, <2>4, <2>5, <2>6
  <1>8. /\ set_default_mask(updated).bands = updated.bands
        /\ set_default_mask(updated).channels = updated.channels
    BY <1>4 DEF set_default_mask, PlanOK
  <1>9. ASSUME NEW channel \in free
        PROVE  s[updated.channels[channel].band] = 0
    <2>1. /\ channel \in Channels
          /\ updated.bands[updated.channels[channel].band].off_time = 0
      BY <1>4 DEF Free, Candidates, PlanOK, Defined
    <2>2. updated.channels[channel].band \in Bands
      BY <1>4, <2>1 DEF PlanOK, ChannelRecords
    <2>3. s[updated.channels[channel].band] \in Nat
      BY <2>2
    <2> QED BY <1>7, <2>1, <2>2, <2>3
  <1>10. \A status : Refused(t, status).st = "idle"
    BY DEF Refused, Idle
  <1>11. ASSUME NEW delays, Backoff(m, t, delays)
         PROVE  tx'.st # "air"
    BY <1>11 DEF Backoff, TxRecords
  <1>12. ASSUME NEW channel \in free, OnChannel([m EXCEPT !.channel = channel], c, t)
         PROVE  tx'.st = "air" => mac'.channel = channel
    <2> DEFINE n == [m EXCEPT !.channel = channel]
    <2>1. n.channel = channel /\ DOMAIN n = DOMAIN m
      BY DEF MacRecords
    <2> HIDE DEF n, free
    <2>2. CASE validate_payload_length(t, n, c)
      <3>1. mac' = [n EXCEPT !.tx_toa = Toa[n.datarate],
                             !.join_request_trial_counter = IF n.joined THEN @ ELSE @ + 1]
        BY <1>12, <2>2 DEF OnChannel, n
      <3> QED BY <2>1, <3>1
    <2>3. CASE ~validate_payload_length(t, n, c)
      <3>1. tx' = Refused(t, "LENGTH_ERROR")
        BY <1>12, <2>3 DEF OnChannel, n
      <3> QED BY <1>10, <3>1
    <2> QED BY <2>2, <2>3
  <1>13. \/ phy' = p /\ tx' = Refused(t, "DEVICE_OFF")
         \/ phy' = active /\ \E delays : Backoff(m, t, delays)
         \/ phy' = updated /\ \E channel \in free : OnChannel([m EXCEPT !.channel = channel], c, t)
         \/ phy' = updated /\ \E delays : Backoff(m, t, delays)
         \/ phy' = set_default_mask(updated) /\ tx' = Refused(t, "NO_CHANNEL_FOUND")
    BY Zenon DEF schedule_tx, updated, active, charged
  <1> HIDE DEF free
  <1>14. CASE phy' = p /\ tx' = Refused(t, "DEVICE_OFF")
    BY <1>10, <1>14
  <1>15. CASE phy' = active /\ \E delays : Backoff(m, t, delays)
    BY <1>3, <1>11, <1>15
  <1>16. CASE phy' = updated /\ \E delays : Backoff(m, t, delays)
    BY <1>6, <1>7, <1>11, <1>16
  <1>17. CASE phy' = set_default_mask(updated) /\ tx' = Refused(t, "NO_CHANNEL_FOUND")
    BY <1>6, <1>7, <1>8, <1>10, <1>17
  <1>18. CASE phy' = updated /\ \E channel \in free : OnChannel([m EXCEPT !.channel = channel], c, t)
    BY <1>6, <1>7, <1>9, <1>12, <1>18
  <1> QED BY <1>13, <1>14, <1>15, <1>16, <1>17, <1>18


\* A transmission begins in a band that has been silent for long enough.
DutyStep ==
    tx.st # "air" /\ tx'.st = "air" => silence'[phy.channels[mac'.channel].band] = 0

\* A call of schedule_tx() for a message that waits, or for the first one of a session.
LEMMA ScheduledStep ==
    ASSUME PlanInv, TypeInv, DutyInv, tx.st # "air", mac.joined \/ tx.st # "idle",
           NEW p, PlanOK(p), BandsOK(p), p.bands = phy.bands, p.channels = phy.channels,
           NEW m \in MacRecords, m.joined = mac.joined,
           m.last_channel_idx = mac.last_channel_idx, m.tx_toa = mac.tx_toa,
           NEW c, NEW t \in TxRecords, schedule_tx(p, m, c, t), silence' = silence
    PROVE  DutyInv' /\ DutyStep
  <1>1. silence \in [Bands -> Nat] /\ UsedBand \in Bands
    BY DEF TypeInv, PlanInv, PlanOK, UsedBand, ChannelRecords, MacRecords
  <1>2. UsedBand = p.channels[m.last_channel_idx].band
    BY DEF UsedBand
  <1>3. /\ ~m.joined => \A b \in Bands : silence[b] > 0 =>
              p.bands[b].last_join_tx_time <= p.bands[b].last_tx_time
        /\ \A b \in Bands : silence[b] > 0 /\ b # UsedBand =>
              silence[b] + p.bands[b].last_tx_time <= p.bands[b].off_time
        /\ silence[UsedBand] > 0 =>
              silence[UsedBand] + p.bands[UsedBand].last_tx_time
                 <= m.tx_toa * DutyCycle[UsedBand] - m.tx_toa
    BY <1>1 DEF DutyInv
  <1>4. /\ phy'.channels = p.channels
        /\ \A b \in Bands :
              /\ phy'.bands[b].last_tx_time = p.bands[b].last_tx_time
              /\ phy'.bands[b].last_join_tx_time = p.bands[b].last_join_tx_time
        /\ \A b \in Bands : silence[b] > 0 /\ (tx'.st = "air" \/ b # UsedBand) =>
              silence[b] + phy'.bands[b].last_tx_time <= phy'.bands[b].off_time
        /\ tx'.st = "air" => silence[phy'.channels[mac'.channel].band] = 0
    BY <1>1, <1>2, <1>3, ScheduledDuty
  <1>5. /\ mac'.joined = m.joined /\ mac'.last_channel_idx = m.last_channel_idx
        /\ tx'.st # "air" => mac'.tx_toa = m.tx_toa
    BY ScheduledTypes
  <1>6. UsedBand' = UsedBand
    BY <1>4, <1>5 DEF UsedBand
  <1>7. DutyStep
    BY <1>4 DEF DutyStep
  <1>8. \A b \in Bands : silence'[b] > 0 /\ (tx'.st = "air" \/ b # UsedBand') =>
           silence'[b] + phy'.bands[b].last_tx_time <= phy'.bands[b].off_time
    BY <1>4, <1>6
  <1>9. \A b \in Bands : silence'[b] > 0 /\ tx'.st # "air" /\ b = UsedBand' =>
           silence'[b] + phy'.bands[b].last_tx_time
              <= mac'.tx_toa * DutyCycle[b] - mac'.tx_toa
    <2>1. ASSUME NEW b \in Bands, silence'[b] > 0, tx'.st # "air", b = UsedBand'
          PROVE  /\ mac'.tx_toa = mac.tx_toa
                 /\ phy'.bands[b].last_tx_time = phy.bands[b].last_tx_time
                 /\ silence[b] + phy.bands[b].last_tx_time
                       <= mac.tx_toa * DutyCycle[b] - mac.tx_toa
      BY <1>4, <1>5, <1>6, <2>1 DEF DutyInv
    <2> QED BY <2>1
  <1>10. ~mac'.joined /\ tx'.st # "idle" =>
            \A b \in Bands : silence'[b] > 0 =>
               phy'.bands[b].last_join_tx_time <= phy'.bands[b].last_tx_time
    BY <1>3, <1>4, <1>5
  <1> QED BY <1>7, <1>8, <1>9, <1>10 DEF DutyInv

\* A step that begins no transmission, while none is on the air, and changes neither
\* the bands nor what is known of the last transmission.
LEMMA QuietStep ==
    ASSUME DutyInv, tx.st # "air", tx'.st # "air",
           phy'.bands = phy.bands, UsedBand' = UsedBand, mac'.tx_toa = mac.tx_toa,
           silence' = silence,
           \/ mac'.joined
           \/ tx'.st = "idle"
           \/ ~mac.joined /\ tx.st # "idle"
    PROVE  DutyInv' /\ DutyStep
  BY DEF DutyInv, DutyStep

\* The channel used last gets another band, or none does.
LEMMA RechargedStep ==
    ASSUME PlanInv, TypeInv, DutyInv, tx.st # "air", tx'.st = "idle",
           PlanOK(phy'), phy'.bands = phy.bands,
           mac'.last_channel_idx = mac.last_channel_idx, mac'.tx_toa = mac.tx_toa,
           silence' = Recharged(phy')
    PROVE  DutyInv' /\ DutyStep
  <1> DEFINE now == phy'.channels[mac.last_channel_idx].band
  <1>1. UsedBand' = now
    BY DEF UsedBand
  <1>2. silence' = IF now = UsedBand THEN silence
                   ELSE [silence EXCEPT ![UsedBand] = 0, ![now] = 0]
    BY DEF Recharged, UsedBand
  <1> HIDE DEF now
  <1>3. silence \in [Bands -> Nat]
    BY DEF TypeInv
  <1>4. CASE now = UsedBand
    BY <1>1, <1>2, <1>4 DEF DutyInv, DutyStep
  <1>5. CASE now # UsedBand
    <2>1. \A b \in Bands : silence'[b] > 0 =>
             b # now /\ b # UsedBand /\ silence'[b] = silence[b]
      BY <1>2, <1>3, <1>5
    <2> QED BY <1>1, <2>1 DEF DutyInv, DutyStep
  <1> QED BY <1>4, <1>5

\* A transmission is cut short, or there is none.
LEMMA CutShortStep ==
    ASSUME PlanInv, TypeInv, DutyInv, tx'.st = "idle", phy' = phy,
           mac'.last_channel_idx = mac.last_channel_idx, mac'.tx_toa = mac.tx_toa,
           silence' = CutShort
    PROVE  DutyInv' /\ DutyStep
  <1>1. silence' = IF tx.st = "air" THEN [silence EXCEPT ![UsedBand] = 0] ELSE silence
    BY DEF CutShort, UsedBand
  <1>2. silence \in [Bands -> Nat] /\ UsedBand' = UsedBand
    BY DEF TypeInv, UsedBand
  <1>3. CASE tx.st = "air"
    <2>1. \A b \in Bands : silence'[b] > 0 => b # UsedBand /\ silence'[b] = silence[b]
      BY <1>1, <1>2, <1>3
    <2> QED BY <1>2, <1>3, <2>1 DEF DutyInv, DutyStep
  <1>4. CASE tx.st # "air"
    BY <1>1, <1>2, <1>4 DEF DutyInv, DutyStep
  <1> QED BY <1>3, <1>4

\* The last bit is on the air: the time begins.
LEMMA TxDoneStep ==
    ASSUME PlanInv, TypeInv, DutyInv, TxDone
    PROVE  DutyInv' /\ DutyStep
  <1> DEFINE b == phy.channels[mac.channel].band
             time == mac.tx_toa * DutyCycle[b] - mac.tx_toa
  <1>1. /\ tx.st = "air"
        /\ phy' = set_last_tx_done(phy, mac.channel, mac.joined)
        /\ mac' = [mac EXCEPT !.last_channel_idx = mac.channel, !.aggregated_last_tx_time = 0]
        /\ tx' = [tx EXCEPT !.st = "window"]
        /\ silence' = [silence EXCEPT ![b] = time]
    BY DEF TxDone
  <1>2. /\ mac.channel \in Channels /\ mac.joined \in BOOLEAN /\ mac.tx_toa \in Nat
        /\ silence \in [Bands -> Nat]
    BY DEF TypeInv, MacRecords
  <1>3. /\ mac'.last_channel_idx = mac.channel /\ mac'.joined = mac.joined
        /\ mac'.tx_toa = mac.tx_toa /\ tx'.st = "window"
    BY <1>1 DEF TypeInv, MacRecords, TxRecords
  <1>4. /\ b \in Bands
        /\ \A a \in Bands \ {b} : phy'.bands[a] = phy.bands[a]
        /\ phy'.bands[b].last_tx_time = 0
        /\ ~mac.joined => phy'.bands[b].last_join_tx_time = 0
    BY <1>1, <1>2, DoneBands DEF PlanInv, TypeInv
  <1>5. phy'.channels = phy.channels
    BY <1>1, BandsSamePlan DEF PlanInv, SamePlan
  <1>6. UsedBand' = b
    BY <1>3, <1>5 DEF UsedBand
  <1>7. time \in Nat
    <2>1. DutyCycle[b] \in Nat \ {0}
      BY <1>4, ChannelPlanAssumption DEF ChannelPlanAssumption
    <2> HIDE DEF b
    <2> QED BY <1>2, <2>1, Charge
  <1>8. time = mac'.tx_toa * DutyCycle[b] - mac'.tx_toa
    BY <1>3
  <1> HIDE DEF b, time
  <1>9. /\ silence'[b] = time
        /\ \A a \in Bands \ {b} : silence'[a] = silence[a]
    BY <1>1, <1>2, <1>4
  <1>10. \A a \in Bands : silence'[a] > 0 /\ a # b =>
            silence'[a] + phy'.bands[a].last_tx_time <= phy'.bands[a].off_time
    BY <1>1, <1>4, <1>9 DEF DutyInv
  <1>11. silence'[b] + phy'.bands[b].last_tx_time = time
    BY <1>4, <1>7, <1>9
  <1>12. ~mac'.joined => \A a \in Bands : silence'[a] > 0 =>
            phy'.bands[a].last_join_tx_time <= phy'.bands[a].last_tx_time
    BY <1>1, <1>3, <1>4, <1>9 DEF DutyInv
  <1>13. \A a \in Bands : silence'[a] > 0 /\ tx'.st # "air" /\ a = UsedBand' =>
            silence'[a] + phy'.bands[a].last_tx_time
               <= mac'.tx_toa * DutyCycle[a] - mac'.tx_toa
    <2>1. time <= time
      BY <1>7
    <2> QED BY <1>6, <1>8, <1>11, <2>1
  <1> QED BY <1>1, <1>3, <1>6, <1>10, <1>12, <1>13 DEF DutyInv, DutyStep

\* A unit of time is taken off the time to be silent, and at most one is added to the
\* time since the last transmission.
LEMMA TickStep ==
    ASSUME PlanInv, TypeInv, DutyInv, Tick
    PROVE  DutyInv' /\ DutyStep
  <1>1. /\ phy' = Older(phy)
        /\ mac' = [mac EXCEPT !.aggregated_last_tx_time = Aged(@)]
        /\ tx' = [tx EXCEPT !.wait = IF @ = 0 THEN 0 ELSE @ - 1]
        /\ silence' = [b \in Bands |-> IF silence[b] = 0 THEN 0 ELSE silence[b] - 1]
    BY DEF Tick
  <1>2. /\ mac'.last_channel_idx = mac.last_channel_idx /\ mac'.joined = mac.joined
        /\ mac'.tx_toa = mac.tx_toa /\ tx'.st = tx.st
    BY <1>1 DEF TypeInv, MacRecords, TxRecords
  <1>3. phy'.channels = phy.channels
    BY <1>1, BandsSamePlan DEF PlanInv, SamePlan
  <1>4. UsedBand' = UsedBand
    BY <1>2, <1>3 DEF UsedBand
  <1>5. ASSUME NEW b \in Bands
        PROVE  /\ phy'.bands[b].off_time = phy.bands[b].off_time
               /\ phy'.bands[b].last_tx_time = Aged(phy.bands[b].last_tx_time)
               /\ phy'.bands[b].last_join_tx_time = Aged(phy.bands[b].last_join_tx_time)
    BY <1>1, OlderBands DEF PlanInv, TypeInv
  <1>6. /\ \A n \in Nat : Aged(n) \in Nat /\ Aged(n) <= n + 1
        /\ \A n, k \in Nat : n <= k => Aged(n) <= Aged(k)
    BY ChannelPlanAssumption DEF ChannelPlanAssumption, Aged
  <1>7. ASSUME NEW b \in Bands
        PROVE  /\ silence[b] \in Nat /\ phy.bands[b].off_time \in Nat
               /\ phy.bands[b].last_tx_time \in Nat /\ phy.bands[b].last_join_tx_time \in Nat
    BY DEF TypeInv, BandsOK, BandRecords
  <1>8. ASSUME NEW b \in Bands, silence'[b] > 0
        PROVE  /\ silence[b] > 0
               /\ silence'[b] + phy'.bands[b].last_tx_time
                     <= silence[b] + phy.bands[b].last_tx_time
               /\ silence'[b] + phy'.bands[b].last_tx_time \in Nat
               /\ silence[b] + phy.bands[b].last_tx_time \in Nat
    <2>1. silence[b] > 0 /\ silence'[b] = silence[b] - 1
      BY <1>1, <1>7, <1>8
    <2>2. /\ silence[b] \in Nat /\ phy.bands[b].last_tx_time \in Nat
          /\ phy'.bands[b].last_tx_time = Aged(phy.bands[b].last_tx_time)
      BY <1>5, <1>7
    <2>3. /\ phy'.bands[b].last_tx_time \in Nat
          /\ phy'.bands[b].last_tx_time <= phy.bands[b].last_tx_time + 1
      BY <1>6, <2>2
    <2> QED BY <2>1, <2>2, <2>3
  <1>9. ASSUME NEW b \in Bands, silence'[b] > 0, tx'.st = "air" \/ b # UsedBand'
        PROVE  silence'[b] + phy'.bands[b].last_tx_time <= phy'.bands[b].off_time
    <2>1. silence[b] + phy.bands[b].last_tx_time <= phy.bands[b].off_time
      BY <1>2, <1>4, <1>8, <1>9 DEF DutyInv
    <2> QED BY <1>5, <1>7, <1>8, <1>9, <2>1
  <1>10. ASSUME NEW b \in Bands, silence'[b] > 0, tx'.st # "air", b = UsedBand'
         PROVE  silence'[b] + phy'.bands[b].last_tx_time
                   <= mac'.tx_toa * DutyCycle[b] - mac'.tx_toa
    <2> DEFINE limit == mac.tx_toa * DutyCycle[b] - mac.tx_toa
    <2>1. silence[b] + phy.bands[b].last_tx_time <= limit
      BY <1>2, <1>4, <1>8, <1>10 DEF DutyInv
    <2>2. limit \in Int
      <3>1. DutyCycle[b] \in Nat /\ mac.tx_toa \in Nat
        BY ChannelPlanAssumption DEF ChannelPlanAssumption, TypeInv, MacRecords
      <3> QED BY <3>1
    <2>3. limit = mac'.tx_toa * DutyCycle[b] - mac'.tx_toa
      BY <1>2
    <2> HIDE DEF limit
    <2>4. silence'[b] + phy'.bands[b].last_tx_time <= limit
      BY <1>8, <1>10, <2>1, <2>2
    <2> QED BY <2>3, <2>4
  <1>11. ASSUME ~mac'.joined, tx'.st # "idle", NEW b \in Bands, silence'[b] > 0
         PROVE  phy'.bands[b].last_join_tx_time <= phy'.bands[b].last_tx_time
    <2>1. phy.bands[b].last_join_tx_time <= phy.bands[b].last_tx_time
      BY <1>2, <1>8, <1>11 DEF DutyInv
    <2>2. phy.bands[b].last_join_tx_time \in Nat /\ phy.bands[b].last_tx_time \in Nat
      BY <1>7
    <2>3. Aged(phy.bands[b].last_join_tx_time) <= Aged(phy.bands[b].last_tx_time)
      BY <1>6, <2>1, <2>2
    <2> QED BY <1>5, <2>3
  <1>12. DutyInv'
    BY <1>9, <1>10, <1>11 DEF DutyInv
  <1> QED BY <1>2, <1>12 DEF DutyStep


\* Every step keeps the sums, and begins a transmission only where it may.
LEMMA DutyInvNext ==
    ASSUME PlanInv, TypeInv, DutyInv, [Next]_vars
    PROVE  DutyInv' /\ DutyStep
  <1>0. /\ PlanOK(phy) /\ BandsOK(phy) /\ mac \in MacRecords /\ tx \in TxRecords
        /\ silence \in [Bands -> Nat] /\ Idle \in TxRecords /\ Idle.st = "idle"
        /\ PlanInv' /\ TypeInv'
    BY PlanInvNext, TypeInvNext, IdleTypes DEF PlanInv, TypeInv, Idle
  <1>1. ASSUME NEW f, NEW n, mac' = [mac EXCEPT !.joined = f, !.adr_ack_counter = n]
        PROVE  /\ mac'.joined = f /\ mac'.tx_toa = mac.tx_toa
               /\ mac'.last_channel_idx = mac.last_channel_idx
    BY <1>0, <1>1 DEF MacRecords
  <1>2. ASSUME mac'.tx_toa = mac.tx_toa, mac'.last_channel_idx = mac.last_channel_idx,
               tx.st # "air", tx'.st = "idle", silence' = silence,
               phy'.bands = phy.bands,
               \A c \in Channels : phy'.channels[c].band = phy.channels[c].band
        PROVE  DutyInv' /\ DutyStep
    <2>1. UsedBand' = UsedBand
      BY <1>0, <1>2 DEF UsedBand, MacRecords
    <2> QED BY <1>2, <2>1, QuietStep
  <1>3. ASSUME NEW length \in Lengths, NEW check \in {FALSE, LinkChecks}, Send(length, check)
        PROVE  DutyInv' /\ DutyStep
    <2>1. check \in BOOLEAN
      BY UplinksAssumption DEF UplinksAssumption
    <2>2. PICK p, m, t : /\ PlanOK(p) /\ BandsOK(p) /\ p.bands = phy.bands
                         /\ p.channels = phy.channels
                         /\ m \in MacRecords /\ t \in TxRecords
                         /\ m.joined = mac.joined
                         /\ m.last_channel_idx = mac.last_channel_idx
                         /\ m.tx_toa = mac.tx_toa
                         /\ schedule_tx(p, m, cmd', t)
      BY <1>3, <2>1, SendTypes
    <2>3. mac.joined /\ tx.st # "air" /\ silence' = silence
      BY <1>3 DEF Send
    <2> QED BY <2>2, <2>3, ScheduledStep
  <1>4. CASE Cancel
    BY <1>0, <1>2, <1>4 DEF Cancel
  <1>5. CASE Connect
    <2>1. silence' = NoSilence /\ tx.st = "idle"
      BY <1>5 DEF Connect
    <2>2. \A b \in Bands : silence'[b] = 0
      BY <2>1 DEF NoSilence
    <2>3. mac'.channel \in Channels
      BY <1>0 DEF TypeInv, MacRecords
    <2>4. phy.channels[mac'.channel].band \in Bands
      BY <1>0, <2>3 DEF PlanOK, ChannelRecords
    <2> QED BY <2>2, <2>4 DEF DutyInv, DutyStep
  <1>6. CASE Personalize
    <2>1. mac' = [mac EXCEPT !.joined = TRUE] /\ UNCHANGED <<phy, tx, silence>>
          /\ tx.st = "idle"
      BY <1>6 DEF Personalize
    <2>2. mac'.tx_toa = mac.tx_toa /\ mac'.last_channel_idx = mac.last_channel_idx
      BY <1>0, <2>1 DEF MacRecords
    <2> QED BY <1>2, <2>1, <2>2
  <1>7. CASE Disconnect
    <2>1. /\ mac' = [mac EXCEPT !.joined = FALSE] /\ tx' = Idle
          /\ phy' = phy /\ silence' = CutShort
      BY <1>7 DEF Disconnect
    <2>2. mac'.tx_toa = mac.tx_toa /\ mac'.last_channel_idx = mac.last_channel_idx
      BY <1>0, <2>1 DEF MacRecords
    <2> QED BY <1>0, <2>1, <2>2, CutShortStep
  <1>8. ASSUME NEW plan \in Plans, AddChannel(plan)
        PROVE  DutyInv' /\ DutyStep
    <2>1. /\ phy' = add_channel(phy, plan.id, plan.channel)
          /\ silence' = Recharged(phy') /\ tx.st = "idle" /\ tx' = tx /\ mac' = mac
      BY <1>8 DEF AddChannel
    <2>2. phy'.bands = phy.bands /\ PlanOK(phy')
      BY <1>0, <2>1, BandsLeftAlone DEF PlanInv
    <2> QED BY <2>1, <2>2, RechargedStep
  <1>9. ASSUME NEW id \in Channels, RemoveChannel(id)
        PROVE  DutyInv' /\ DutyStep
    <2>1. /\ phy' = remove_channel(phy, id)
          /\ silence' = Recharged(phy') /\ tx.st = "idle" /\ tx' = tx /\ mac' = mac
      BY <1>9 DEF RemoveChannel
    <2>2. phy'.bands = phy.bands /\ PlanOK(phy')
      BY <1>0, <2>1, BandsLeftAlone DEF PlanInv
    <2> QED BY <2>1, <2>2, RechargedStep
  <1>10. CASE BackoffExpiry
    <2>1. schedule_tx(phy, mac, cmd, tx) /\ tx.st = "backoff" /\ silence' = silence
      BY <1>10 DEF BackoffExpiry
    <2> QED BY <1>0, <2>1, ScheduledStep
  <1>11. CASE TxDone
    BY <1>11, TxDoneStep
  <1>12. CASE TxTimeout
    <2>1. tx' = Idle /\ phy' = phy /\ mac' = mac /\ silence' = CutShort
      BY <1>12 DEF TxTimeout
    <2> QED BY <1>0, <2>1, CutShortStep
  <1>13. CASE Tick
    BY <1>13, TickStep
  <1>14. CASE JoinAccept(CfLists)
    <2>1. /\ mac' = [mac EXCEPT !.joined = TRUE, !.adr_ack_counter = 0]
          /\ \/ phy' = phy /\ silence' = silence
             \/ \E list : /\ phy' = apply_cf_list(phy, list)
                          /\ silence' = Recharged(apply_cf_list(phy, list))
          /\ tx' = Idle /\ tx.st = "window"
      BY <1>14 DEF JoinAccept
    <2>2. mac'.tx_toa = mac.tx_toa /\ mac'.last_channel_idx = mac.last_channel_idx
      BY <1>1, <2>1
    <2>3. CASE phy' = phy /\ silence' = silence
      BY <1>0, <1>2, <2>1, <2>2, <2>3
    <2>4. ASSUME NEW list, phy' = apply_cf_list(phy, list),
                 silence' = Recharged(apply_cf_list(phy, list))
          PROVE  DutyInv' /\ DutyStep
      <3>1. phy'.bands = phy.bands /\ PlanOK(phy')
        BY <1>0, <2>4, BandsLeftAlone DEF PlanInv
      <3> QED BY <1>0, <2>1, <2>2, <2>4, <3>1, RechargedStep
    <2> QED BY <2>1, <2>3, <2>4
  <1>15. CASE NoJoinAccept
    <2>1. /\ tx.st = "window" /\ silence' = silence
          /\ (tx' = Idle /\ UNCHANGED <<phy, mac>>) \/ JoinRequest(mac)
      BY <1>15 DEF NoJoinAccept
    <2>2. CASE tx' = Idle /\ UNCHANGED <<phy, mac>>
      BY <1>0, <1>2, <2>1, <2>2
    <2>3. CASE JoinRequest(mac)
      <3> DEFINE rate == get_alternate_DR(mac.join_request_trial_counter + 1)
                 n == [mac EXCEPT !.datarate = rate]
                 t == [Idle EXCEPT !.join = TRUE]
      <3>1. schedule_tx(phy, n, NoAnswers, t)
        BY <2>3 DEF JoinRequest
      <3>2. rate \in Datarates
        <4>1. mac.join_request_trial_counter + 1 \in Nat
          BY <1>0 DEF MacRecords
        <4> QED BY <4>1, DataratesChosen
      <3> HIDE DEF rate
      <3>3. /\ n \in MacRecords /\ n.joined = mac.joined
            /\ n.last_channel_idx = mac.last_channel_idx /\ n.tx_toa = mac.tx_toa
        BY <1>0, <3>2 DEF MacRecords
      <3>4. t \in TxRecords
        BY IdleTypes
      <3> HIDE DEF n, t
      <3> QED BY <1>0, <2>1, <3>1, <3>3, <3>4, ScheduledStep
    <2> QED BY <2>1, <2>2, <2>3
  <1>16. CASE NoDownlink
    <2>1. /\ mac' = [mac EXCEPT !.adr_ack_counter = @ + 1]
          /\ tx' = Idle /\ tx.st = "window" /\ UNCHANGED <<phy, silence>>
      BY <1>16 DEF NoDownlink
    <2>2. mac'.tx_toa = mac.tx_toa /\ mac'.last_channel_idx = mac.last_channel_idx
      BY <1>0, <2>1 DEF MacRecords
    <2> QED BY <1>0, <1>2, <2>1, <2>2
  <1>17. ASSUME NEW commands \in Downlinks, Downlink(commands)
         PROVE  DutyInv' /\ DutyStep
    <2>1. /\ mac' = [mac EXCEPT !.heard = TRUE, !.adr_ack_counter = 1]
          /\ tx' = Idle /\ tx.st = "window" /\ UNCHANGED <<phy, silence>>
      BY <1>17 DEF Downlink
    <2>2. mac'.tx_toa = mac.tx_toa /\ mac'.last_channel_idx = mac.last_channel_idx
      BY <1>0, <2>1 DEF MacRecords
    <2> QED BY <1>0, <1>2, <2>1, <2>2
  <1>18. CASE RepeatedDownlink
    <2>1. /\ mac' = [mac EXCEPT !.adr_ack_counter = 1]
          /\ tx' = Idle /\ tx.st = "window" /\ UNCHANGED <<phy, silence>>
      BY <1>18 DEF RepeatedDownlink
    <2>2. mac'.tx_toa = mac.tx_toa /\ mac'.last_channel_idx = mac.last_channel_idx
      BY <1>0, <2>1 DEF MacRecords
    <2> QED BY <1>0, <1>2, <2>1, <2>2
  <1>19. CASE LinkAdrReq
    <2>1. PICK n : /\ n \in 1 .. Len(todo)
                   /\ phy' = link_ADR_request(phy, todo[n])
                   /\ mac' = IF link_ADR_accepts(phy, todo[n])
                             THEN [mac EXCEPT !.datarate = todo[n].datarate] ELSE mac
                   /\ tx' = tx /\ silence' = silence
      BY <1>19, ZenonT(30) DEF LinkAdrReq, Answer
    <2>2. tx.st = "idle"
      <3>1. todo # <<>>
        BY <2>1 DEF PlanInv, TodoOK
      <3> QED BY <3>1 DEF PlanInv
    <2>3. phy'.bands = phy.bands /\ phy'.channels = phy.channels
      BY <1>0, <2>1, BandsLeftAlone DEF link_ADR_request, PlanOK
    <2>4. mac'.tx_toa = mac.tx_toa /\ mac'.last_channel_idx = mac.last_channel_idx
      BY <1>0, <2>1 DEF MacRecords
    <2> QED BY <1>2, <2>1, <2>2, <2>3, <2>4
  <1>20. CASE DutyCycleReq
    <2>1. PICK max, agg :
             mac' = [mac EXCEPT !.max_duty_cycle = max, !.aggregated_duty_cycle = agg]
      BY <1>20, Zenon DEF DutyCycleReq
    <2>2. UNCHANGED <<phy, silence, tx>> /\ todo # <<>>
      BY <1>20 DEF DutyCycleReq, Next_is, Answer
    <2>3. mac'.tx_toa = mac.tx_toa /\ mac'.last_channel_idx = mac.last_channel_idx
      BY <1>0, <2>1 DEF MacRecords
    <2> QED BY <1>2, <2>2, <2>3 DEF PlanInv
  <1>21. CASE NewChannelReq
    <2>1. PICK id, ch : /\ phy' = request_new_channel(phy, id, ch)
                        /\ silence' = Recharged(request_new_channel(phy, id, ch))
      BY <1>21, Zenon DEF NewChannelReq
    <2>2. mac' = mac /\ tx' = tx /\ todo # <<>>
      BY <1>21 DEF NewChannelReq, Next_is, Answer
    <2>3. phy'.bands = phy.bands /\ PlanOK(phy') /\ tx.st = "idle"
      BY <1>0, <2>1, <2>2, BandsLeftAlone DEF PlanInv
    <2> QED BY <2>1, <2>2, <2>3, RechargedStep
  <1>22. CASE DlChannelReq
    <2>1. PICK id, f : phy' = dl_channel_request(phy, id, f)
      BY <1>22 DEF DlChannelReq
    <2>2. mac' = mac /\ tx' = tx /\ todo # <<>> /\ silence' = silence
      BY <1>22 DEF DlChannelReq, Next_is, Answer
    <2>3. \A c \in Channels : phy'.channels[c].band = phy.channels[c].band
      BY <1>0, <2>1 DEF dl_channel_request, PlanOK, ChannelRecords
    <2>4. phy'.bands = phy.bands /\ tx.st = "idle"
      BY <1>0, <2>1, <2>2, BandsLeftAlone DEF PlanInv
    <2> QED BY <1>2, <2>2, <2>3, <2>4
  <1>23. ASSUME NEW name, NEW kind, OtherReq(name, kind)
         PROVE  DutyInv' /\ DutyStep
    <2>1. UNCHANGED <<phy, mac, tx, silence>> /\ tx.st = "idle"
      BY <1>23 DEF OtherReq, Next_is, Answer, PlanInv
    <2> QED BY <1>2, <2>1
  <1>24. CASE UnknownReq
    <2>1. UNCHANGED <<phy, mac, tx, silence>> /\ tx.st = "idle"
      BY <1>24 DEF UnknownReq, Next_is, PlanInv
    <2> QED BY <1>2, <2>1
  <1>25. CASE UNCHANGED vars
    <2>1. UNCHANGED <<phy, mac, tx, silence>>
      BY <1>25 DEF vars
    <2> QED BY <2>1 DEF DutyInv, DutyStep, UsedBand
  <1> QED
    BY <1>3, <1>4, <1>5, <1>6, <1>7, <1>8, <1>9, <1>10, <1>11, <1>12, <1>13, <1>14, <1>15,
       <1>16, <1>17, <1>18, <1>19, <1>20, <1>21, <1>22, <1>23, <1>24, <1>25
    DEF Next, ProcessMacCommands, RxParamSetupReq, DevStatusReq, RxTimingSetupReq,
        TxParamSetupReq

\* The band of a transmission has been silent for as long as the duty cycle demands,
\* whatever channels were added, removed, enabled or disabled since the last one, and
\* whatever was joined, disconnected, refused or cut short: calculate_backoff() and
\* update_band_timeoff() of LoRaPHY.cpp as schedule_tx() calls them.
THEOREM DutyCycleIsKept == Spec => DutyCycleKept
  <1>1. Init => PlanInv /\ TypeInv /\ DutyInv
    <2>1. Init => \A b \in Bands : silence[b] = 0
      BY DEF Init, NoSilence
    <2> QED BY <2>1, PlanInvInit, TypeInvInit DEF DutyInv
  <1>2. PlanInv /\ TypeInv /\ DutyInv /\ [Next]_vars => (PlanInv /\ TypeInv /\ DutyInv)'
    BY PlanInvNext, TypeInvNext, DutyInvNext
  <1>3. PlanInv /\ TypeInv /\ DutyInv /\ [Next]_vars =>
           [tx.st # "air" /\ tx'.st = "air" =>
               silence'[phy.channels[mac'.channel].band] = 0]_vars
    BY DutyInvNext DEF DutyStep
  <1> QED BY <1>1, <1>2, <1>3, PTL DEF Spec, DutyCycleKept

=============================================================================
