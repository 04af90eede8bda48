----------------------------- MODULE UplinkProofs -----------------------------
(***************************************************************************)
(* Proofs about Uplinks, for every value of the constants: the channel     *)
(* plan stays consistent, and the answers owed to the network are carried. *)
(***************************************************************************)
EXTENDS UplinkProperties, TLAPS

-----------------------------------------------------------------------------
(* The channel plan: what each operation of ChannelPlan preserves *)

ChannelRecords == [frequency : Nat, rx1_frequency : Nat, min : Datarates,
                   max : Datarates, band : Bands]

\* The parts of ChannelsConsistent that are about a phy, and its shape.
PlanOK(p) ==
    /\ p = [channels |-> p.channels, mask |-> p.mask, bands |-> p.bands]
    /\ p.channels \in [Channels -> ChannelRecords]
    /\ \A c \in DefaultMask : p.channels[c].frequency = DefaultFrequency[c]
    /\ \A c \in Defined(p) :
          p.channels[c].band = lookup_band_for_frequency(p.channels[c].frequency)
    /\ p.mask \subseteq Defined(p)

\* Two phys with the same channels and the same mask, whatever their bands.
SamePlan(p, q) ==
    /\ q = [channels |-> q.channels, mask |-> q.mask, bands |-> q.bands]
    /\ q.channels = p.channels
    /\ q.mask = p.mask

\* The default channels are channels, and have a frequency and a band.
LEMMA DefaultsDefined ==
    /\ DefaultMask \subseteq Channels
    /\ \A c \in DefaultMask : /\ DefaultFrequency[c] \in Nat \ {0}
                              /\ DefaultFrequency[c] \in Frequencies
                              /\ BandOf[DefaultFrequency[c]] \in Bands
  <1>1. DefaultChannelCnt \in 1 .. MaxChannelCnt /\ MaxChannelCnt \in Nat
    BY ChannelPlanAssumption DEF ChannelPlanAssumption
  <1>2. DefaultMask \subseteq Channels
    BY <1>1 DEF DefaultMask, Channels
  <1>3. ASSUME NEW c \in DefaultMask
        PROVE  /\ DefaultFrequency[c] \in Nat \ {0}
               /\ DefaultFrequency[c] \in Frequencies
               /\ BandOf[DefaultFrequency[c]] \in Bands
    BY ChannelPlanAssumption DEF ChannelPlanAssumption
  <1> QED BY <1>2, <1>3

\* The plan of the constructor is consistent.
LEMMA InitialPlan == PlanOK(InitialPhy)
  <1> DEFINE d == [c \in Channels |-> IF c \in DefaultMask THEN DefaultChannel(c)
                                      ELSE EmptyChannel]
  <1>1. /\ 0 \in Bands /\ 0 \in Datarates
        /\ DefaultMaxDatarate \in Datarates
    BY ChannelPlanAssumption DEF ChannelPlanAssumption, Bands, Datarates
  <1>2. EmptyChannel \in ChannelRecords
    BY <1>1 DEF EmptyChannel, ChannelRecords
  <1>3. \A c \in DefaultMask : DefaultChannel(c) \in ChannelRecords
    BY <1>1, DefaultsDefined DEF DefaultChannel, ChannelRecords
  <1>4. d \in [Channels -> ChannelRecords]
    BY <1>2, <1>3
  <1>5. \A c \in DefaultMask : d[c].frequency = DefaultFrequency[c]
    BY DefaultsDefined DEF DefaultChannel
  <1>6. ASSUME NEW c \in Channels, d[c].frequency # 0
        PROVE  d[c].band = lookup_band_for_frequency(d[c].frequency)
    BY <1>6, DefaultsDefined DEF DefaultChannel, EmptyChannel, lookup_band_for_frequency
  <1>7. /\ InitialPhy = [channels |-> InitialPhy.channels, mask |-> InitialPhy.mask,
                         bands |-> InitialPhy.bands]
        /\ InitialPhy.channels = d
        /\ InitialPhy.mask = DefaultMask
    BY DEF InitialPhy
  <1>8. DefaultMask \subseteq {c \in Channels : d[c].frequency # 0}
    BY <1>5, DefaultsDefined
  <1> HIDE DEF d
  <1> QED BY <1>4, <1>5, <1>6, <1>7, <1>8 DEF PlanOK, Defined

\* What leaves channels and mask alone preserves the plan.
LEMMA SamePlanOK ==
    ASSUME NEW p, NEW q, PlanOK(p), SamePlan(p, q)
    PROVE  PlanOK(q)
  BY DEF PlanOK, SamePlan, Defined

\* A channel that add_channel() accepts is well formed, in the band of its frequency;
\* a default channel keeps its frequency.
LEMMA AcceptedChannel ==
    ASSUME NEW p, PlanOK(p), NEW id \in Channels,
           NEW ch, ch.frequency \in Nat, ch.rx1_frequency \in Nat,
           ch = [frequency |-> ch.frequency, rx1_frequency |-> ch.rx1_frequency,
                 min |-> ch.min, max |-> ch.max, band |-> ch.band],
           add_channel_accepts(p, id, ch)
    PROVE  /\ ch \in ChannelRecords
           /\ ch.frequency # 0
           /\ ch.band = lookup_band_for_frequency(ch.frequency)
           /\ id \in DefaultMask => ch.frequency = DefaultFrequency[id]
  <1>1. ch.min \in Datarates /\ ch.max \in Datarates
    BY DEF add_channel_accepts, datarates_invalid
  <1>2. /\ ch.band \in Bands
        /\ ch.band = lookup_band_for_frequency(ch.frequency)
    BY DEF add_channel_accepts, frequency_invalid
  <1>3. ch \in ChannelRecords
    BY <1>1, <1>2 DEF ChannelRecords
  <1>4. ch.frequency # 0
    <2>1. Bands \subseteq Nat
      BY ChannelPlanAssumption DEF ChannelPlanAssumption, Bands
    <2>2. ch.frequency \in Frequencies
      BY <1>2, <2>1 DEF lookup_band_for_frequency
    <2> QED BY <2>2, ChannelPlanAssumption DEF ChannelPlanAssumption
  <1>5. id \in DefaultMask => ch.frequency = DefaultFrequency[id]
    BY DEF add_channel_accepts, frequency_invalid, PlanOK
  <1> QED BY <1>2, <1>3, <1>4, <1>5

\* The phy with the given channels and mask.
PlanWith(chs, mask, bands) == [channels |-> chs, mask |-> mask, bands |-> bands]

\* A plan with other channels and another mask, of the same shape and as consistent.
LEMMA PlanWithOK ==
    ASSUME NEW chs \in [Channels -> ChannelRecords], NEW mask, NEW bands,
           \A c \in DefaultMask : chs[c].frequency = DefaultFrequency[c],
           \A c \in Channels : chs[c].frequency # 0 =>
               chs[c].band = lookup_band_for_frequency(chs[c].frequency),
           \A c \in mask : c \in Channels /\ chs[c].frequency # 0
    PROVE  PlanOK(PlanWith(chs, mask, bands))
  <1> DEFINE q == PlanWith(chs, mask, bands)
  <1>1. /\ q = [channels |-> q.channels, mask |-> q.mask, bands |-> q.bands]
        /\ q.channels = chs /\ q.mask = mask
    BY DEF PlanWith
  <1> HIDE DEF q
  <1>2. PlanOK(q)
    BY <1>1 DEF PlanOK, Defined
  <1> QED BY <1>2 DEF q

\* add_channel() preserves the plan.
LEMMA AddChannelOK ==
    ASSUME NEW p, PlanOK(p), NEW id \in Channels,
           NEW ch, ch.frequency \in Nat, ch.rx1_frequency \in Nat,
           ch = [frequency |-> ch.frequency, rx1_frequency |-> ch.rx1_frequency,
                 min |-> ch.min, max |-> ch.max, band |-> ch.band]
    PROVE  PlanOK(add_channel(p, id, ch))
  <1>1. CASE ~add_channel_accepts(p, id, ch)
    BY <1>1 DEF add_channel
  <1>2. CASE add_channel_accepts(p, id, ch)
    <2> DEFINE chs == [p.channels EXCEPT ![id] = ch]
               q == PlanWith(chs, p.mask \union {id}, p.bands)
    <2>1. /\ ch \in ChannelRecords
          /\ ch.frequency # 0
          /\ ch.band = lookup_band_for_frequency(ch.frequency)
          /\ id \in DefaultMask => ch.frequency = DefaultFrequency[id]
      BY <1>2, AcceptedChannel
    <2>2. p = [channels |-> p.channels, mask |-> p.mask, bands |-> p.bands]
      BY DEF PlanOK
    <2>3. add_channel(p, id, ch) = q
      BY <1>2, <2>2 DEF add_channel, PlanWith
    <2>4. p.channels \in [Channels -> ChannelRecords]
      BY DEF PlanOK
    <2>5. \A c \in Channels : chs[c] = IF c = id THEN ch ELSE p.channels[c]
      BY <2>4
    <2>6. chs \in [Channels -> ChannelRecords]
      BY <2>1, <2>4
    <2>7. \A c \in DefaultMask : chs[c].frequency = DefaultFrequency[c]
      BY <2>1, <2>5, DefaultsDefined DEF PlanOK
    <2>8. \A c \in Channels : chs[c].frequency # 0 =>
              chs[c].band = lookup_band_for_frequency(chs[c].frequency)
      BY <2>1, <2>5 DEF PlanOK, Defined
    <2>9. \A c \in p.mask \union {id} : c \in Channels /\ chs[c].frequency # 0
      BY <2>1, <2>5 DEF PlanOK, Defined
    <2> HIDE DEF chs
    <2> QED BY <2>3, <2>6, <2>7, <2>8, <2>9, PlanWithOK
  <1> QED BY <1>1, <1>2

\* remove_channel() preserves the plan.
LEMMA RemoveChannelOK ==
    ASSUME NEW p, PlanOK(p), NEW id \in Channels
    PROVE  PlanOK(remove_channel(p, id))
  <1>1. CASE id \in DefaultMask
    BY <1>1 DEF remove_channel
  <1>2. CASE id \notin DefaultMask
    <2> DEFINE chs == [p.channels EXCEPT ![id] = EmptyChannel]
               q == PlanWith(chs, p.mask \ {id}, p.bands)
    <2>1. EmptyChannel \in ChannelRecords /\ EmptyChannel.frequency = 0
      BY ChannelPlanAssumption DEF ChannelPlanAssumption, EmptyChannel, ChannelRecords,
           Bands, Datarates
    <2>2. p = [channels |-> p.channels, mask |-> p.mask, bands |-> p.bands]
      BY DEF PlanOK
    <2>3. remove_channel(p, id) = q
      BY <1>2, <2>2 DEF remove_channel, PlanWith
    <2>4. p.channels \in [Channels -> ChannelRecords]
      BY DEF PlanOK
    <2>5. \A c \in Channels : chs[c] = IF c = id THEN EmptyChannel ELSE p.channels[c]
      BY <2>4
    <2>6. chs \in [Channels -> ChannelRecords]
      BY <2>1, <2>4
    <2>7. \A c \in DefaultMask : chs[c].frequency = DefaultFrequency[c]
      BY <1>2, <2>5, DefaultsDefined DEF PlanOK
    <2>8. \A c \in Channels : chs[c].frequency # 0 =>
              chs[c].band = lookup_band_for_frequency(chs[c].frequency)
      BY <2>1, <2>5 DEF PlanOK, Defined
    <2>9. \A c \in p.mask \ {id} : c \in Channels /\ chs[c].frequency # 0
      BY <2>5 DEF PlanOK, Defined
    <2> HIDE DEF chs
    <2> QED BY <2>3, <2>6, <2>7, <2>8, <2>9, PlanWithOK
  <1> QED BY <1>1, <1>2

\* request_new_channel() preserves the plan.
LEMMA RequestNewChannelOK ==
    ASSUME NEW p, PlanOK(p), NEW id \in Channels, NEW f \in Nat, NEW min, NEW max
    PROVE  PlanOK(request_new_channel(p, id, ChannelOf(f, min, max)))
  <1> DEFINE ch == ChannelOf(f, min, max)
  <1>1. /\ ch = [frequency |-> ch.frequency, rx1_frequency |-> ch.rx1_frequency,
                 min |-> ch.min, max |-> ch.max, band |-> ch.band]
        /\ ch.frequency \in Nat /\ ch.rx1_frequency \in Nat
    BY DEF ChannelOf
  <1> HIDE DEF ch
  <1>2. PlanOK(add_channel(p, id, ch))
    BY <1>1, AddChannelOK
  <1>3. PlanOK(remove_channel(p, id))
    BY RemoveChannelOK
  <1>4. PlanOK(request_new_channel(p, id, ch))
    BY <1>2, <1>3 DEF request_new_channel
  <1> QED BY <1>4 DEF ch

\* dl_channel_request() preserves the plan.
LEMMA DlChannelOK ==
    ASSUME NEW p, PlanOK(p), NEW id \in Channels, NEW f \in Nat
    PROVE  PlanOK(dl_channel_request(p, id, f))
  <1> DEFINE changes == /\ lookup_band_for_frequency(f) \in Bands
                        /\ p.channels[id].frequency # 0
             chs == [p.channels EXCEPT ![id].rx1_frequency = f]
             q == PlanWith(chs, p.mask, p.bands)
  <1>1. p = [channels |-> p.channels, mask |-> p.mask, bands |-> p.bands]
        /\ p.channels \in [Channels -> ChannelRecords]
    BY DEF PlanOK
  <1>2. dl_channel_request(p, id, f) = IF changes THEN q ELSE p
    BY <1>1 DEF dl_channel_request, PlanWith
  <1>3. chs \in [Channels -> ChannelRecords]
    BY <1>1 DEF ChannelRecords
  <1>4. \A c \in Channels : /\ chs[c].frequency = p.channels[c].frequency
                           /\ chs[c].band = p.channels[c].band
    BY <1>1 DEF ChannelRecords
  <1> HIDE DEF chs
  <1>5. PlanOK(q)
    <2>1. \A c \in DefaultMask : chs[c].frequency = DefaultFrequency[c]
      BY <1>4, DefaultsDefined DEF PlanOK
    <2>2. \A c \in Channels : chs[c].frequency # 0 =>
              chs[c].band = lookup_band_for_frequency(chs[c].frequency)
      BY <1>4 DEF PlanOK, Defined
    <2>3. \A c \in p.mask : c \in Channels /\ chs[c].frequency # 0
      BY <1>4 DEF PlanOK, Defined
    <2> QED BY <1>3, <2>1, <2>2, <2>3, PlanWithOK
  <1> QED BY <1>2, <1>5

\* Changing the mask to defined channels preserves the plan.
LEMMA MaskOK ==
    ASSUME NEW p, PlanOK(p), NEW mask \in SUBSET Defined(p)
    PROVE  PlanOK([p EXCEPT !.mask = mask])
  <1>1. p = [channels |-> p.channels, mask |-> p.mask, bands |-> p.bands]
        /\ p.channels \in [Channels -> ChannelRecords]
    BY DEF PlanOK
  <1>2. [p EXCEPT !.mask = mask] = PlanWith(p.channels, mask, p.bands)
    BY <1>1 DEF PlanWith
  <1>3. PlanOK(PlanWith(p.channels, mask, p.bands))
    BY <1>1, PlanWithOK DEF PlanOK, Defined
  <1> QED BY <1>2, <1>3

\* The default channels are defined in every consistent plan.
LEMMA DefaultMaskDefined ==
    ASSUME NEW p, PlanOK(p)
    PROVE  DefaultMask \subseteq Defined(p)
  BY DefaultsDefined DEF PlanOK, Defined

\* Enabling the default channels, alone or beside the others, preserves the plan.
LEMMA DefaultMaskOK ==
    ASSUME NEW p, PlanOK(p)
    PROVE  PlanOK(set_default_mask(p)) /\ PlanOK(restore_default_channels(p))
  <1>1. DefaultMask \in SUBSET Defined(p)
        /\ p.mask \union DefaultMask \in SUBSET Defined(p)
    BY DefaultMaskDefined DEF PlanOK
  <1>2. PlanOK([p EXCEPT !.mask = DefaultMask])
    BY <1>1, MaskOK
  <1>3. PlanOK([p EXCEPT !.mask = p.mask \union DefaultMask])
    BY <1>1, MaskOK
  <1> QED BY <1>2, <1>3 DEF set_default_mask, restore_default_channels

\* link_ADR_request() enables defined channels only.
LEMMA LinkAdrOK ==
    ASSUME NEW p, PlanOK(p), NEW request, Benign(request), request.cmd = "LINK_ADR_REQ"
    PROVE  PlanOK(link_ADR_request(p, request))
  <1>1. CASE ~link_ADR_accepts(p, request)
    BY <1>1 DEF link_ADR_request
  <1>2. CASE link_ADR_accepts(p, request)
    <2>1. RequestedMask(p, request) \subseteq Defined(p)
      BY <1>2, DefaultMaskDefined DEF link_ADR_accepts, RequestedMask, Benign
    <2>2. PlanOK([p EXCEPT !.mask = RequestedMask(p, request)])
      BY <2>1, MaskOK
    <2> QED BY <1>2, <2>2 DEF link_ADR_request
  <1> QED BY <1>1, <1>2

\* get_next_ADR() enables the default channels, or none.
LEMMA NextAdrOK ==
    ASSUME NEW p, PlanOK(p), NEW datarate, NEW adr_ack_cnt
    PROVE  PlanOK(get_next_ADR(p, datarate, adr_ack_cnt).phy)
  <1>1. PlanOK(restore_default_channels(p))
    BY DefaultMaskOK
  <1> QED BY <1>1 DEF get_next_ADR

\* apply_cf_list() preserves the plan.
LEMMA CfListOK ==
    ASSUME NEW p, PlanOK(p),
           NEW list \in [0 .. CfListChannelCnt - 1 -> Frequencies \union {0}]
    PROVE  PlanOK(apply_cf_list(p, list))
  <1> DEFINE Frequency(c) == IF c < DefaultChannelCnt + CfListChannelCnt
                             THEN list[c - DefaultChannelCnt] ELSE 0
             channel(c) == ChannelOf(Frequency(c), 0, DefaultMaxDatarate)
             others == Channels \ DefaultMask
             added == {c \in others : Frequency(c) # 0 /\ add_channel_accepts(p, c, channel(c))}
             removed == {c \in others : Frequency(c) = 0}
             chs == [c \in Channels |-> IF c \in added THEN channel(c)
                                       ELSE IF c \in removed THEN EmptyChannel
                                       ELSE p.channels[c]]
             mask == (p.mask \union added) \ removed
  <1>1. p = [channels |-> p.channels, mask |-> p.mask, bands |-> p.bands]
        /\ p.channels \in [Channels -> ChannelRecords]
    BY DEF PlanOK
  <1>2. apply_cf_list(p, list) = PlanWith(chs, mask, p.bands)
    <2>1. apply_cf_list(p, list) = [p EXCEPT !.channels = chs, !.mask = mask]
      BY Zenon DEF apply_cf_list
    <2> HIDE DEF chs, mask
    <2> QED BY <1>1, <2>1 DEF PlanWith
  <1>3. ASSUME NEW c \in others PROVE Frequency(c) \in Nat
    <2>1. c \in Nat /\ c >= DefaultChannelCnt
      BY ChannelPlanAssumption DEF ChannelPlanAssumption, Channels, DefaultMask
    <2>2. c < DefaultChannelCnt + CfListChannelCnt =>
              c - DefaultChannelCnt \in 0 .. CfListChannelCnt - 1
      BY <2>1, ChannelPlanAssumption DEF ChannelPlanAssumption
    <2>3. Frequencies \union {0} \subseteq Nat
      BY ChannelPlanAssumption DEF ChannelPlanAssumption
    <2>4. \A i \in 0 .. CfListChannelCnt - 1 : list[i] \in Nat
      BY <2>3
    <2> QED BY <2>2, <2>4
  <1>4. ASSUME NEW c \in added
        PROVE  /\ channel(c) \in ChannelRecords
               /\ channel(c).frequency # 0
               /\ channel(c).band = lookup_band_for_frequency(channel(c).frequency)
    <2> DEFINE ch == channel(c)
    <2>1. /\ ch = [frequency |-> ch.frequency, rx1_frequency |-> ch.rx1_frequency,
                   min |-> ch.min, max |-> ch.max, band |-> ch.band]
          /\ ch.rx1_frequency = 0 /\ ch.frequency = Frequency(c)
      BY DEF ChannelOf
    <2>2. ch.frequency \in Nat /\ ch.rx1_frequency \in Nat
      BY <1>3, <2>1
    <2>3. c \in Channels /\ add_channel_accepts(p, c, ch)
      OBVIOUS
    <2> HIDE DEF ch
    <2>4. ch \in ChannelRecords /\ ch.frequency # 0
          /\ ch.band = lookup_band_for_frequency(ch.frequency)
      BY <2>1, <2>2, <2>3, AcceptedChannel
    <2> QED BY <2>4 DEF ch
  <1>5. EmptyChannel \in ChannelRecords /\ EmptyChannel.frequency = 0
    BY ChannelPlanAssumption DEF ChannelPlanAssumption, EmptyChannel, ChannelRecords,
         Bands, Datarates
  <1>6. added \subseteq Channels \ DefaultMask /\ removed \subseteq Channels \ DefaultMask
        /\ added \intersect removed = {}
    OBVIOUS
  <1>7. \A c \in Channels : chs[c] = IF c \in added THEN channel(c)
                                     ELSE IF c \in removed THEN EmptyChannel
                                     ELSE p.channels[c]
    OBVIOUS
  <1>8. chs \in [Channels -> ChannelRecords]
    <2> HIDE DEF added, removed, channel
    <2> QED BY <1>1, <1>4, <1>5
  <1> HIDE DEF chs, added, removed, channel
  <1>9. \A c \in DefaultMask : chs[c].frequency = DefaultFrequency[c]
    BY <1>6, <1>7, DefaultsDefined DEF PlanOK
  <1>10. \A c \in Channels : chs[c].frequency # 0 =>
             chs[c].band = lookup_band_for_frequency(chs[c].frequency)
    BY <1>4, <1>5, <1>7 DEF PlanOK, Defined
  <1>11. \A c \in mask : c \in Channels /\ chs[c].frequency # 0
    BY <1>4, <1>6, <1>7 DEF PlanOK, Defined
  <1> QED BY <1>2, <1>8, <1>9, <1>10, <1>11, PlanWithOK

-----------------------------------------------------------------------------
(* schedule_tx() *)

\* The operations on the bands leave the plan alone.
LEMMA BandsSamePlan ==
    ASSUME NEW p, PlanOK(p), NEW joined, NEW c, NEW toa
    PROVE  /\ SamePlan(p, calculate_backoff(p, joined, c, toa))
           /\ SamePlan(p, update_band_timeoff(p, joined))
           /\ SamePlan(p, set_last_tx_done(p, c, joined))
           /\ SamePlan(p, Older(p))
  <1>1. p = [channels |-> p.channels, mask |-> p.mask, bands |-> p.bands]
    BY DEF PlanOK
  <1>2. ASSUME NEW bands
        PROVE  SamePlan(p, [p EXCEPT !.bands = bands])
    BY <1>1 DEF SamePlan
  <1>3. SamePlan(p, calculate_backoff(p, joined, c, toa))
    BY <1>1 DEF calculate_backoff, SamePlan
  <1>4. SamePlan(p, update_band_timeoff(p, joined))
    BY <1>1 DEF update_band_timeoff, SamePlan
  <1>5. SamePlan(p, set_last_tx_done(p, c, joined))
    BY <1>1 DEF set_last_tx_done, SamePlan
  <1>6. SamePlan(p, Older(p))
    BY <1>2, Zenon DEF Older
  <1> QED BY <1>3, <1>4, <1>5, <1>6

\* What schedule_tx() does.
LEMMA ScheduleOutcomes ==
    ASSUME NEW p, NEW m, NEW c, NEW t, schedule_tx(p, m, c, t)
    PROVE  LET aggregated_timeoff == m.tx_toa * m.aggregated_duty_cycle - m.tx_toa
               charged == calculate_backoff(p, m.joined, m.last_channel_idx, m.tx_toa)
               active == IF charged.mask = {} THEN set_default_mask(charged) ELSE charged
               updated == update_band_timeoff(active, m.joined)
               free == Free(updated, m.datarate)
           IN  \/ phy' = p /\ mac' = m /\ tx' = Refused(t, "DEVICE_OFF")
               \/ /\ aggregated_timeoff > m.aggregated_last_tx_time
                  /\ phy' = active /\ Backoff(m, t, {aggregated_timeoff - m.aggregated_last_tx_time})
               \/ phy' = updated /\ \E channel \in free : OnChannel([m EXCEPT !.channel = channel], c, t)
               \/ phy' = updated /\ Backoff(m, t, next_tx_delays(updated, m.joined))
               \/ /\ phy' = set_default_mask(updated)
                  /\ mac' = [m EXCEPT !.channel = 0] /\ tx' = Refused(t, "NO_CHANNEL_FOUND")
  BY ZenonT(60) DEF schedule_tx

\* What schedule_tx() does to the message: it goes on the air on a channel that is
\* defined, it waits, or it is given up.
LEMMA Scheduled ==
    ASSUME NEW p, PlanOK(p), NEW m, "channel" \in DOMAIN m, NEW c,
           NEW t, "st" \in DOMAIN t, schedule_tx(p, m, c, t)
    PROVE  /\ PlanOK(phy')
           /\ "channel" \in DOMAIN mac' /\ "st" \in DOMAIN tx'
           /\ \/ tx'.st = "air" /\ mac'.channel \in Defined(phy')
              \/ tx'.st \in {"idle", "backoff", "stuck"}
  <1> DEFINE charged == calculate_backoff(p, m.joined, m.last_channel_idx, m.tx_toa)
             active == IF charged.mask = {} THEN set_default_mask(charged) ELSE charged
             updated == update_band_timeoff(active, m.joined)
             aggregated_timeoff == m.tx_toa * m.aggregated_duty_cycle - m.tx_toa
             free == Free(updated, m.datarate)
  <1>1. PlanOK(charged)
    BY BandsSamePlan, SamePlanOK
  <1>2. PlanOK(active)
    BY <1>1, DefaultMaskOK
  <1>3. PlanOK(updated) /\ PlanOK(set_default_mask(updated))
    <2> HIDE DEF active
    <2>1. PlanOK(updated)
      BY <1>2, BandsSamePlan, SamePlanOK
    <2> QED BY <2>1, DefaultMaskOK
  <1>4. free \subseteq Defined(updated)
    <2> HIDE DEF updated
    <2> QED BY <1>3 DEF Free, Candidates, PlanOK
  <1>5. ASSUME NEW status
        PROVE  /\ "st" \in DOMAIN Refused(t, status)
               /\ Refused(t, status).st = "idle"
    BY DEF Refused, Idle
  <1>6. ASSUME NEW delays, Backoff(m, t, delays)
        PROVE  /\ "channel" \in DOMAIN mac' /\ "st" \in DOMAIN tx'
               /\ tx'.st \in {"backoff", "stuck"}
    BY <1>6 DEF Backoff
  <1>7. ASSUME NEW channel \in free, OnChannel([m EXCEPT !.channel = channel], c, t),
               phy' = updated
        PROVE  /\ "channel" \in DOMAIN mac' /\ "st" \in DOMAIN tx'
               /\ \/ tx'.st = "air" /\ mac'.channel \in Defined(phy')
                  \/ tx'.st = "idle"
    <2> DEFINE n == [m EXCEPT !.channel = channel]
    <2>1. "channel" \in DOMAIN n /\ n.channel = channel
      OBVIOUS
    <2> HIDE DEF updated, free, n
    <2>2. CASE validate_payload_length(t, n, c)
      <3>1. /\ mac' = [n EXCEPT !.tx_toa = Toa[n.datarate],
                               !.join_request_trial_counter = IF n.joined THEN @ ELSE @ + 1]
            /\ tx' = [t EXCEPT !.st = "air", !.wait = 0]
        BY <1>7, <2>2 DEF OnChannel, n
      <3>2. "channel" \in DOMAIN mac' /\ mac'.channel = channel
        BY <2>1, <3>1
      <3>3. "st" \in DOMAIN tx' /\ tx'.st = "air"
        BY <3>1
      <3> QED BY <1>4, <1>7, <3>2, <3>3
    <2>3. CASE ~validate_payload_length(t, n, c)
      <3>1. mac' = n /\ tx' = Refused(t, "LENGTH_ERROR")
        BY <1>7, <2>3 DEF OnChannel, n
      <3> QED BY <1>5, <2>1, <3>1
    <2> QED BY <2>2, <2>3
  <1>8. \/ phy' = p /\ mac' = m /\ tx' = Refused(t, "DEVICE_OFF")
        \/ phy' = active /\ Backoff(m, t, {aggregated_timeoff - m.aggregated_last_tx_time})
        \/ phy' = updated /\ \E channel \in free : OnChannel([m EXCEPT !.channel = channel], c, t)
        \/ phy' = updated /\ Backoff(m, t, next_tx_delays(updated, m.joined))
        \/ /\ phy' = set_default_mask(updated)
           /\ mac' = [m EXCEPT !.channel = 0] /\ tx' = Refused(t, "NO_CHANNEL_FOUND")
    BY Zenon, ScheduleOutcomes
  <1> HIDE DEF active, updated, free, aggregated_timeoff
  <1> QED BY <1>2, <1>3, <1>5, <1>6, <1>7, <1>8

-----------------------------------------------------------------------------
(* The channels stay consistent *)

TodoOK(commands) ==
    /\ commands \in Seq(Commands)
    /\ \A i \in 1 .. Len(commands) : Benign(commands[i])

\* The inductive invariant.  Commands are processed while nothing is on the air, so
\* the channel of a transmission cannot go away under it.
PlanInv ==
    /\ PlanOK(phy)
    /\ "channel" \in DOMAIN mac
    /\ "st" \in DOMAIN tx
    /\ tx.st \in {"air", "window"} => mac.channel \in Defined(phy)
    /\ TodoOK(todo)
    /\ todo # <<>> => tx.st = "idle"

\* The invariant says more than the property.
LEMMA PlanInvImplies == PlanInv => ChannelsConsistent
  BY DEF PlanInv, PlanOK, ChannelsConsistent

\* It holds after the construction of the MAC.
LEMMA PlanInvInit == Init => PlanInv
  <1> SUFFICES ASSUME Init PROVE PlanInv
    OBVIOUS
  <1>1. PlanOK(phy)
    BY InitialPlan DEF Init
  <1>2. "channel" \in DOMAIN mac /\ "st" \in DOMAIN tx /\ tx.st = "idle"
    BY DEF Init, Idle
  <1>3. TodoOK(todo) /\ todo = <<>>
    BY DEF Init, TodoOK
  <1> QED BY <1>1, <1>2, <1>3 DEF PlanInv

\* Reading the first n commands leaves well-formed commands.
LEMMA TodoRest ==
    ASSUME NEW commands, TodoOK(commands), NEW n \in 1 .. Len(commands)
    PROVE  TodoOK(SubSeq(commands, n + 1, Len(commands)))
  <1> DEFINE rest == SubSeq(commands, n + 1, Len(commands))
  <1>1. /\ rest \in Seq(Commands)
        /\ Len(rest) = Len(commands) - n
        /\ \A i \in 1 .. Len(rest) : rest[i] = commands[n + i]
    BY DEF TodoOK
  <1>2. \A i \in 1 .. Len(rest) : n + i \in 1 .. Len(commands)
    BY <1>1 DEF TodoOK
  <1> HIDE DEF rest
  <1>3. TodoOK(rest)
    BY <1>1, <1>2 DEF TodoOK
  <1> QED BY <1>3 DEF rest

\* So does reading one command.
LEMMA TodoTail ==
    ASSUME NEW commands, TodoOK(commands), commands # <<>>
    PROVE  TodoOK(Tail(commands)) /\ Head(commands) \in Commands
  <1> DEFINE rest == Tail(commands)
  <1>1. /\ rest \in Seq(Commands)
        /\ Len(rest) = Len(commands) - 1
        /\ \A i \in 1 .. Len(rest) : rest[i] = commands[i + 1]
        /\ Head(commands) \in Commands
    BY DEF TodoOK
  <1>2. \A i \in 1 .. Len(rest) : i + 1 \in 1 .. Len(commands)
    BY <1>1 DEF TodoOK
  <1> HIDE DEF rest
  <1>3. TodoOK(rest)
    BY <1>1, <1>2 DEF TodoOK
  <1> QED BY <1>1, <1>3 DEF rest

\* A call of schedule_tx() while no commands are left.
LEMMA ScheduledInv ==
    ASSUME NEW p, PlanOK(p), NEW m, "channel" \in DOMAIN m, NEW c,
           NEW t, "st" \in DOMAIN t, schedule_tx(p, m, c, t),
           todo = <<>>, todo' = todo
    PROVE  PlanInv'
  <1>1. /\ PlanOK(phy')
        /\ "channel" \in DOMAIN mac' /\ "st" \in DOMAIN tx'
        /\ \/ tx'.st = "air" /\ mac'.channel \in Defined(phy')
           \/ tx'.st \in {"idle", "backoff", "stuck"}
    BY Scheduled
  <1>2. TodoOK(todo') /\ todo' = <<>>
    BY DEF TodoOK
  <1> QED BY <1>1, <1>2 DEF PlanInv

\* Every step preserves the invariant.
LEMMA PlanInvNext == PlanInv /\ [Next]_vars => PlanInv'
  <1> SUFFICES ASSUME PlanInv, [Next]_vars PROVE PlanInv'
    OBVIOUS
  <1> USE DEF PlanInv
  <1>1. ASSUME NEW length \in Lengths, NEW check \in {FALSE, LinkChecks}, Send(length, check)
        PROVE  PlanInv'
    <2>1. PICK m, c, t : /\ "channel" \in DOMAIN m /\ "st" \in DOMAIN t
                         /\ schedule_tx(get_next_ADR(phy, mac.datarate, mac.adr_ack_counter).phy,
                                        m, c, t)
      <3> DEFINE adr == get_next_ADR(phy, mac.datarate, mac.adr_ack_counter)
                 m == [mac EXCEPT !.datarate = adr.datarate, !.adr_ack_counter = adr.adr_ack_cnt]
      <3>1. "channel" \in DOMAIN m
        OBVIOUS
      <3>2. \A size, carried : "st" \in DOMAIN [Idle EXCEPT !.size = size,
                                    !.datarate = adr.datarate, !.carried = carried]
        BY DEF Idle
      <3> HIDE DEF m, adr
      <3> DEFINE checked == IF check THEN add(cmd, "LINK_CHECK_REQ", 1) ELSE cmd
                 fopts_len == (Bytes(checked.buffer) + Bytes(checked.repeat)) % 256
                 allowed == MaxPayload[adr.datarate]
                 overfull == allowed < fopts_len
                 prepared == Prepared(IF overfull THEN NoAnswers ELSE checked)
                 room == IF overfull THEN allowed ELSE allowed - fopts_len
                 size == IF room < length THEN room ELSE length
                 message == [Idle EXCEPT !.size = size, !.datarate = adr.datarate,
                                         !.carried = prepared.buffer]
      <3>3. schedule_tx(adr.phy, m, prepared, message)
        BY <1>1 DEF Send, adr, m
      <3>4. "st" \in DOMAIN message
        BY <3>2
      <3> HIDE DEF prepared, message
      <3> QED BY <3>1, <3>3, <3>4 DEF adr
    <2>2. PlanOK(get_next_ADR(phy, mac.datarate, mac.adr_ack_counter).phy)
      BY NextAdrOK
    <2>3. todo = <<>> /\ todo' = todo
      BY <1>1 DEF Send, Unlocked
    <2> QED BY <2>1, <2>2, <2>3, ScheduledInv
  <1>2. CASE Cancel
    BY <1>2 DEF Cancel, Idle
  <1>3. CASE Connect
    <2>1. PICK m, c, t : "channel" \in DOMAIN m /\ "st" \in DOMAIN t /\ schedule_tx(phy, m, c, t)
      <3>1. PICK n : "channel" \in DOMAIN n /\ JoinRequest(n)
        BY <1>3 DEF Connect
      <3> QED BY <3>1 DEF JoinRequest, Idle
    <2>2. todo = <<>> /\ todo' = todo
      BY <1>3 DEF Connect, Unlocked
    <2> QED BY <2>1, <2>2, ScheduledInv
  <1>4. CASE Personalize
    BY <1>4 DEF Personalize
  <1>5. CASE Disconnect
    BY <1>5 DEF Disconnect, Idle
  <1>6. ASSUME NEW plan \in Plans, AddChannel(plan)
        PROVE  PlanInv'
    <2> DEFINE ch == plan.channel
    <2>1. /\ plan.id \in Channels
          /\ ch = [frequency |-> ch.frequency, rx1_frequency |-> ch.rx1_frequency,
                   min |-> ch.min, max |-> ch.max, band |-> ch.band]
          /\ ch.frequency \in Nat /\ ch.rx1_frequency \in Nat
      BY UplinksAssumption DEF UplinksAssumption
    <2> HIDE DEF ch
    <2>2. PlanOK(add_channel(phy, plan.id, ch))
      BY <2>1, AddChannelOK
    <2> QED BY <1>6, <2>2 DEF AddChannel, ch
  <1>7. ASSUME NEW id \in Channels, RemoveChannel(id)
        PROVE  PlanInv'
    BY <1>7, RemoveChannelOK DEF RemoveChannel
  <1>8. CASE BackoffExpiry
    <2>1. todo = <<>> /\ todo' = todo /\ schedule_tx(phy, mac, cmd, tx)
      BY <1>8 DEF BackoffExpiry, Unlocked
    <2> QED BY <2>1, ScheduledInv
  <1>9. CASE TxDone
    <2>1. SamePlan(phy, phy')
      BY <1>9, BandsSamePlan DEF TxDone
    <2>2. PlanOK(phy') /\ Defined(phy') = Defined(phy)
      BY <2>1, SamePlanOK DEF SamePlan, Defined
    <2>3. /\ "channel" \in DOMAIN mac' /\ mac'.channel = mac.channel
          /\ "st" \in DOMAIN tx' /\ tx'.st = "window" /\ tx.st = "air"
          /\ todo' = todo
      BY <1>9 DEF TxDone
    <2> QED BY <2>2, <2>3
  <1>10. CASE TxTimeout
    BY <1>10 DEF TxTimeout, Idle
  <1>11. CASE Tick
    <2>1. SamePlan(phy, phy')
      BY <1>11, BandsSamePlan DEF Tick
    <2>2. PlanOK(phy') /\ Defined(phy') = Defined(phy)
      BY <2>1, SamePlanOK DEF SamePlan, Defined
    <2>3. /\ "channel" \in DOMAIN mac' /\ mac'.channel = mac.channel
          /\ "st" \in DOMAIN tx' /\ tx'.st = tx.st
          /\ todo' = todo
      BY <1>11 DEF Tick
    <2> QED BY <2>2, <2>3
  <1>12. CASE JoinAccept(CfLists)
    <2>1. PlanOK(phy')
      BY <1>12, CfListOK, UplinksAssumption DEF JoinAccept, UplinksAssumption
    <2>2. /\ "channel" \in DOMAIN mac' /\ "st" \in DOMAIN tx' /\ tx'.st = "idle"
          /\ todo' = todo
      BY <1>12 DEF JoinAccept, Idle
    <2> QED BY <2>1, <2>2
  <1>13. CASE NoJoinAccept
    <2>1. CASE mac.join_request_trial_counter >= MaxJoinTrials
      BY <1>13, <2>1 DEF NoJoinAccept, Idle
    <2>2. CASE ~(mac.join_request_trial_counter >= MaxJoinTrials)
      <3>1. PICK m, c, t : "channel" \in DOMAIN m /\ "st" \in DOMAIN t /\ schedule_tx(phy, m, c, t)
        <4>1. JoinRequest(mac)
          BY <1>13, <2>2 DEF NoJoinAccept
        <4> QED BY <4>1 DEF JoinRequest, Idle
      <3>2. todo = <<>> /\ todo' = todo
        BY <1>13 DEF NoJoinAccept
      <3> QED BY <3>1, <3>2, ScheduledInv
    <2> QED BY <2>1, <2>2
  <1>14. CASE NoDownlink
    BY <1>14 DEF NoDownlink, Idle
  <1>15. ASSUME NEW commands \in Downlinks, Downlink(commands)
         PROVE  PlanInv'
    <2>1. TodoOK(commands)
      BY UplinksAssumption, NetworkAssumption DEF UplinksAssumption, TodoOK
    <2> QED BY <1>15, <2>1 DEF Downlink, Idle
  <1>16. CASE RepeatedDownlink
    BY <1>16 DEF RepeatedDownlink, Idle
  <1>17. CASE LinkAdrReq
    <2>1. PICK n \in 1 .. Len(todo) :
             /\ \A i \in 1 .. n : todo[i].cmd = "LINK_ADR_REQ"
             /\ phy' = link_ADR_request(phy, todo[n])
             /\ mac' = IF link_ADR_accepts(phy, todo[n])
                       THEN [mac EXCEPT !.datarate = todo[n].datarate] ELSE mac
             /\ todo' = SubSeq(todo, n + 1, Len(todo))
             /\ tx' = tx
      BY <1>17, ZenonT(30) DEF LinkAdrReq, Answer
    <2>2. todo # <<>> /\ todo[n].cmd = "LINK_ADR_REQ" /\ Benign(todo[n])
      <3>1. todo \in Seq(Commands) /\ n \in 1 .. n /\ todo # <<>>
        BY SMT DEF TodoOK
      <3> QED BY <3>1, <2>1 DEF TodoOK
    <2>3. PlanOK(phy')
      BY <2>1, <2>2, LinkAdrOK
    <2>4. TodoOK(todo')
      BY <2>1, TodoRest
    <2>5. "channel" \in DOMAIN mac' /\ mac'.channel = mac.channel
      BY <2>1
    <2> QED BY <2>1, <2>2, <2>3, <2>4, <2>5
  <1>18. CASE DutyCycleReq
    BY <1>18, TodoTail DEF DutyCycleReq, Next_is, Answer
  <1>19. CASE NewChannelReq
    <2>1. /\ todo # <<>> /\ Head(todo).cmd = "NEW_CHANNEL_REQ"
          /\ phy' = request_new_channel(phy, Head(todo).id,
                        ChannelOf(Head(todo).frequency, Head(todo).min, Head(todo).max))
          /\ mac' = mac /\ tx' = tx /\ todo' = Tail(todo)
      BY <1>19 DEF NewChannelReq, Next_is, Answer
    <2>2. TodoOK(Tail(todo)) /\ Head(todo) \in Commands
      BY <2>1, TodoTail
    <2>3. Head(todo).id \in Channels /\ Head(todo).frequency \in Nat
      BY <2>1, <2>2 DEF Commands
    <2>4. PlanOK(phy')
      BY <2>1, <2>3, RequestNewChannelOK
    <2> QED BY <2>1, <2>2, <2>4
  <1>20. CASE DlChannelReq
    <2>1. /\ todo # <<>> /\ Head(todo).cmd = "DL_CHANNEL_REQ"
          /\ phy' = dl_channel_request(phy, Head(todo).id, Head(todo).frequency)
          /\ mac' = mac /\ tx' = tx /\ todo' = Tail(todo)
      BY <1>20 DEF DlChannelReq, Next_is, Answer
    <2>2. TodoOK(Tail(todo)) /\ Head(todo) \in Commands
      BY <2>1, TodoTail
    <2>3. Head(todo).id \in Channels /\ Head(todo).frequency \in Nat
      BY <2>1, <2>2 DEF Commands
    <2>4. PlanOK(phy')
      BY <2>1, <2>3, DlChannelOK
    <2> QED BY <2>1, <2>2, <2>4
  <1>21. ASSUME NEW name, NEW kind, OtherReq(name, kind)
         PROVE  PlanInv'
    BY <1>21, TodoTail DEF OtherReq, Next_is, Answer
  <1>22. CASE UnknownReq
    BY <1>22 DEF UnknownReq, Next_is, TodoOK
  <1>23. CASE UNCHANGED vars
    <2>1. UNCHANGED <<phy, mac, tx, todo>>
      BY <1>23 DEF vars
    <2> QED BY <2>1 DEF PlanOK, Defined
  <1> QED
    BY <1>1, <1>2, <1>3, <1>4, <1>5, <1>6, <1>7, <1>8, <1>9, <1>10, <1>11, <1>12, <1>13,
       <1>14, <1>15, <1>16, <1>17, <1>18, <1>19, <1>20, <1>21, <1>22, <1>23
    DEF Next, ProcessMacCommands, RxParamSetupReq, DevStatusReq, RxTimingSetupReq,
        TxParamSetupReq

\* Whatever the network and the application ask for, in whatever order, the channels
\* stay consistent: the channel plan of LoRaPHY.cpp under the requests, the channel
\* lists and the fallbacks that change it.
THEOREM ChannelsStayConsistent == Spec => []ChannelsConsistent
  <1>1. Init => PlanInv
    BY PlanInvInit
  <1>2. PlanInv /\ [Next]_vars => PlanInv'
    BY PlanInvNext
  <1>3. PlanInv => ChannelsConsistent
    BY PlanInvImplies
  <1> QED BY <1>1, <1>2, <1>3, PTL DEF Spec

-----------------------------------------------------------------------------
(* The answers are carried *)

\* What schedule_tx() puts on the air or lets wait is the message it was given.
LEMMA ScheduledMessage ==
    ASSUME NEW p, NEW m, NEW c, NEW t, DOMAIN t = DOMAIN Idle, schedule_tx(p, m, c, t)
    PROVE  /\ DOMAIN tx' = DOMAIN Idle
           /\ tx'.st # "idle" => tx'.join = t.join /\ tx'.carried = t.carried
  <1>1. {"st", "join", "carried"} \subseteq DOMAIN t
    BY DEF Idle
  <1>2. ASSUME NEW status, tx' = Refused(t, status)
        PROVE  DOMAIN tx' = DOMAIN Idle /\ tx'.st = "idle"
    BY <1>2 DEF Refused, Idle
  <1>3. ASSUME NEW n, NEW delays, Backoff(n, t, delays)
        PROVE  DOMAIN tx' = DOMAIN Idle /\ tx'.join = t.join /\ tx'.carried = t.carried
    BY <1>1, <1>3 DEF Backoff
  <1>4. ASSUME NEW n, OnChannel(n, c, t)
        PROVE  /\ DOMAIN tx' = DOMAIN Idle
               /\ tx'.st # "idle" => tx'.join = t.join /\ tx'.carried = t.carried
    <2>1. CASE validate_payload_length(t, n, c)
      BY <1>1, <1>4, <2>1 DEF OnChannel
    <2>2. CASE ~validate_payload_length(t, n, c)
      <3>1. tx' = Refused(t, "LENGTH_ERROR")
        BY <1>4, <2>2 DEF OnChannel
      <3> QED BY <1>2, <3>1
    <2> QED BY <2>1, <2>2
  <1>5. \/ \E status : tx' = Refused(t, status)
        \/ \E delays : Backoff(m, t, delays)
        \/ \E n : OnChannel(n, c, t)
    BY Zenon DEF schedule_tx
  <1> QED BY <1>2, <1>3, <1>4, <1>5

Counts == [Kinds -> Nat]

\* What is owed at any time is in one of the buffers; what is owed and to be
\* repeated is in the second one once a frame was prepared, and so survives the
\* frame; and the frame that waits or is on the air carries everything.
Kept(buffers, debt) ==
    /\ buffers = [buffer |-> buffers.buffer, repeat |-> buffers.repeat]
    /\ buffers.buffer \in Counts /\ buffers.repeat \in Counts
    /\ debt \in Counts
    /\ \A kind \in Kinds : debt[kind] <= buffers.buffer[kind] + buffers.repeat[kind]

KeptByFrame(t, buffers, debt) ==
    /\ t.st # "idle" => \A kind \in Sticky : debt[kind] <= buffers.repeat[kind]
    /\ t.st \in {"backoff", "stuck", "air"} /\ ~t.join =>
          \A kind \in Kinds : debt[kind] <= t.carried[kind]

AnswersInv ==
    /\ DOMAIN tx = DOMAIN Idle
    /\ Kept(cmd, owed)
    /\ KeptByFrame(tx, cmd, owed)

\* The room in the buffer is a natural number, not more than asked for.
LEMMA RoomInNat ==
    ASSUME NEW c, c.buffer \in Counts, c.repeat \in Counts, NEW kind \in Kinds, NEW n \in Nat
    PROVE  Room(c, kind, n) \in Nat
  <1>1. \A b \in Counts : Bytes(b) \in Int
    BY DEF Counts, Bytes, Kinds, Sticky
  <1>2. cmd_buffer_remaining(c) \in Int
    BY <1>1, MacCommandsAssumption DEF cmd_buffer_remaining, MacCommandsAssumption
  <1>3. Length(kind) \in {1, 2, 3}
    BY DEF Length, Kinds, Sticky
  <1>4. (cmd_buffer_remaining(c) \div Length(kind)) \in Int
    BY <1>2, <1>3
  <1> QED BY <1>4 DEF Room

\* n answers are collected, and owed as far as there is room for them.
LEMMA AddKept ==
    ASSUME NEW c, NEW debt, Kept(c, debt), NEW kind \in Kinds, NEW n \in Nat
    PROVE  /\ Kept(add(c, kind, n), [debt EXCEPT ![kind] = @ + Room(c, kind, n)])
           /\ Kept(add(c, kind, n), [debt EXCEPT ![kind] = Room(c, kind, n)])
           /\ Kept(c, [debt EXCEPT ![kind] = 0])
           /\ add(c, kind, n).repeat = c.repeat
  <1> DEFINE room == Room(c, kind, n)
  <1>1. room \in Nat
    BY RoomInNat DEF Kept
  <1> HIDE DEF room
  <1>2. /\ add(c, kind, n) = [buffer |-> [c.buffer EXCEPT ![kind] = @ + room],
                             repeat |-> c.repeat]
    BY DEF Kept, add, room
  <1> DEFINE b == [c.buffer EXCEPT ![kind] = @ + room]
  <1>3. /\ b \in Counts
        /\ \A k \in Kinds : b[k] = IF k = kind THEN c.buffer[k] + room ELSE c.buffer[k]
    BY <1>1 DEF Kept, Counts
  <1> HIDE DEF b
  <1>4. ASSUME NEW d \in Counts, \A k \in Kinds : d[k] <= b[k] + c.repeat[k]
        PROVE  Kept(add(c, kind, n), d)
    BY <1>2, <1>3, <1>4 DEF Kept, b
  <1>5. ASSUME NEW d \in Counts, \A k \in Kinds : d[k] <= c.buffer[k] + c.repeat[k]
        PROVE  Kept(c, d)
    BY <1>5 DEF Kept
  <1>6. \A k \in Kinds : /\ debt[k] \in Nat /\ c.buffer[k] \in Nat /\ c.repeat[k] \in Nat
                         /\ debt[k] <= c.buffer[k] + c.repeat[k]
    BY DEF Kept, Counts
  <1>7. /\ [debt EXCEPT ![kind] = @ + room] \in Counts
        /\ [debt EXCEPT ![kind] = room] \in Counts
        /\ [debt EXCEPT ![kind] = 0] \in Counts
    BY <1>1 DEF Kept, Counts
  <1>8. Kept(add(c, kind, n), [debt EXCEPT ![kind] = @ + room])
    <2>1. \A k \in Kinds : [debt EXCEPT ![kind] = @ + room][k] <= b[k] + c.repeat[k]
      BY <1>1, <1>3, <1>6 DEF Kept, Counts
    <2> QED BY <1>4, <1>7, <2>1
  <1>9. Kept(add(c, kind, n), [debt EXCEPT ![kind] = room])
    <2>1. \A k \in Kinds : [debt EXCEPT ![kind] = room][k] <= b[k] + c.repeat[k]
      BY <1>1, <1>3, <1>6 DEF Kept, Counts
    <2> QED BY <1>4, <1>7, <2>1
  <1>10. Kept(c, [debt EXCEPT ![kind] = 0])
    <2>1. \A k \in Kinds : [debt EXCEPT ![kind] = 0][k] <= c.buffer[k] + c.repeat[k]
      BY <1>6 DEF Kept, Counts
    <2> QED BY <1>5, <1>7, <2>1
  <1> QED BY <1>2, <1>8, <1>9, <1>10 DEF room

\* A frame is prepared: it carries what is owed, and keeps what is to be repeated.
LEMMA PreparedKept ==
    ASSUME NEW c, NEW debt, Kept(c, debt)
    PROVE  /\ Kept(Prepared(c), debt)
           /\ \A kind \in Kinds : debt[kind] <= Prepared(c).buffer[kind]
           /\ \A kind \in Sticky : debt[kind] <= Prepared(c).repeat[kind]
  <1> DEFINE b == [kind \in Kinds |-> c.buffer[kind] + c.repeat[kind]]
             r == [kind \in Kinds |-> IF kind \in Sticky THEN b[kind] ELSE 0]
  <1>1. Prepared(c) = [buffer |-> b, repeat |-> r]
    <2> DEFINE copied == copy_repeat_commands_to_buffer(c)
    <2>1. copied = [buffer |-> b, repeat |-> c.repeat]
      <3>1. c = [buffer |-> c.buffer, repeat |-> c.repeat] /\ Sum(c.buffer, c.repeat) = b
        BY DEF Kept, Sum
      <3> QED BY <3>1 DEF copy_repeat_commands_to_buffer
    <2>2. OnlySticky(b) = r
      BY DEF OnlySticky
    <2> HIDE DEF copied, b, r
    <2>3. parse_mac_commands_to_repeat(copied) = [buffer |-> b, repeat |-> r]
      BY <2>1, <2>2 DEF parse_mac_commands_to_repeat
    <2> QED BY <2>3 DEF Prepared, copied
  <1>2. b \in Counts /\ r \in Counts
    BY DEF Kept, Counts
  <1>3. \A kind \in Kinds : debt[kind] <= b[kind]
    BY DEF Kept
  <1>4. \A kind \in Sticky : kind \in Kinds /\ r[kind] = b[kind]
    BY DEF Kinds
  <1>5. \A kind \in Kinds : debt[kind] \in Nat /\ b[kind] \in Nat /\ r[kind] \in Nat
    BY <1>2 DEF Kept, Counts
  <1> HIDE DEF b, r
  <1>6. \A kind \in Kinds : debt[kind] <= b[kind] + r[kind]
    BY <1>3, <1>5
  <1>7. Kept([buffer |-> b, repeat |-> r], debt)
    BY <1>2, <1>6 DEF Kept
  <1> QED BY <1>1, <1>3, <1>4, <1>7

\* Nothing is owed and nothing is kept.
LEMMA NothingKept ==
    /\ Kept(NoAnswers, Nothing)
    /\ \A c, debt : Kept(c, debt) => Kept(c, Nothing)
    /\ \A kind \in Kinds : Nothing[kind] = 0
  <1>1. Nothing \in Counts /\ \A kind \in Kinds : Nothing[kind] = 0
    BY DEF Nothing, Counts
  <1>2. NoAnswers = [buffer |-> Nothing, repeat |-> Nothing]
    BY DEF NoAnswers
  <1>3. Kept(NoAnswers, Nothing)
    BY <1>1, <1>2 DEF Kept
  <1>4. ASSUME NEW c, NEW debt, Kept(c, debt)
        PROVE  Kept(c, Nothing)
    BY <1>1, <1>4 DEF Kept, Counts
  <1> QED BY <1>1, <1>3, <1>4

\* At first nothing is owed.
LEMMA AnswersInvInit == Init => AnswersInv
  <1> SUFFICES ASSUME Init PROVE AnswersInv
    OBVIOUS
  <1>1. tx = Idle /\ tx.st = "idle" /\ Kept(cmd, owed)
    BY NothingKept DEF Init, Idle
  <1> QED BY <1>1 DEF AnswersInv, KeptByFrame

\* A frame without answers on the way, or none at all: only the buffers matter.
LEMMA KeptIdle ==
    ASSUME NEW c, NEW debt, Kept(c, debt), NEW t, DOMAIN t = DOMAIN Idle, t.st = "idle"
    PROVE  KeptByFrame(t, c, debt)
  BY DEF KeptByFrame

\* A join begins: no answers are owed.
LEMMA JoinScheduled ==
    ASSUME NEW m, JoinRequest(m), NEW c, Kept(c, Nothing)
    PROVE  DOMAIN tx' = DOMAIN Idle /\ KeptByFrame(tx', c, Nothing)
  <1>1. /\ DOMAIN tx' = DOMAIN Idle
        /\ tx'.st # "idle" => tx'.join
    <2> DEFINE t == [Idle EXCEPT !.join = TRUE]
    <2>1. DOMAIN t = DOMAIN Idle /\ t.join = TRUE
      BY DEF Idle
    <2>2. \E p, n, a : schedule_tx(p, n, a, t)
      BY Zenon DEF JoinRequest
    <2> QED BY <2>1, <2>2, ScheduledMessage
  <1>2. \A kind \in Sticky : Nothing[kind] <= c.repeat[kind]
    BY NothingKept DEF Kept, Counts, Kinds
  <1> QED BY <1>1, <1>2 DEF KeptByFrame

\* The clearing of the first buffer, and what is owed after it.
LEMMA SentKept ==
    ASSUME NEW c, NEW debt, Kept(c, debt),
           \A kind \in Sticky : debt[kind] <= c.repeat[kind]
    PROVE  /\ Kept(clear_command_buffer(c), OnlySticky(debt))
           /\ clear_command_buffer(c).repeat = c.repeat
           /\ \A kind \in Sticky : OnlySticky(debt)[kind] <= c.repeat[kind]
  <1>1. clear_command_buffer(c) = [buffer |-> Nothing, repeat |-> c.repeat]
    BY DEF Kept, clear_command_buffer
  <1>2. Nothing \in Counts /\ \A kind \in Kinds : Nothing[kind] = 0
    BY DEF Nothing, Counts
  <1>3. /\ OnlySticky(debt) \in Counts
        /\ \A kind \in Kinds : OnlySticky(debt)[kind] = IF kind \in Sticky THEN debt[kind] ELSE 0
    BY DEF Kept, Counts, OnlySticky
  <1>4. \A kind \in Kinds : c.repeat[kind] \in Nat
    BY DEF Kept, Counts
  <1>5. \A kind \in Kinds : OnlySticky(debt)[kind] <= Nothing[kind] + c.repeat[kind]
    BY <1>2, <1>3, <1>4
  <1>6. \A kind \in Sticky : OnlySticky(debt)[kind] <= c.repeat[kind]
    BY <1>3 DEF Kinds
  <1>7. Kept([buffer |-> Nothing, repeat |-> c.repeat], OnlySticky(debt))
    BY <1>2, <1>3, <1>5 DEF Kept
  <1> QED BY <1>1, <1>6, <1>7

\* send() prepares a frame that carries what is owed.
LEMMA SendKept ==
    ASSUME AnswersInv, NEW length, NEW check, Send(length, check)
    PROVE  AnswersInv'
  <1> DEFINE asked == IF check THEN Room(cmd, "LINK_CHECK_REQ", 1) ELSE 0
             checked == IF check THEN add(cmd, "LINK_CHECK_REQ", 1) ELSE cmd
             debt == [owed EXCEPT !["LINK_CHECK_REQ"] = asked]
  <1>1. Kept(checked, debt)
    <2>1. "LINK_CHECK_REQ" \in Kinds /\ 1 \in Nat
      BY DEF Kinds
    <2> QED BY <2>1, AddKept DEF AnswersInv
  <1> HIDE DEF asked, checked, debt
  <1>2. PICK p, m, t :
            /\ \/ cmd' = Prepared(NoAnswers) /\ owed' = Nothing
               \/ cmd' = Prepared(checked) /\ owed' = debt
            /\ schedule_tx(p, m, cmd', t)
            /\ DOMAIN t = DOMAIN Idle /\ t.carried = cmd'.buffer
    <2> DEFINE adr == get_next_ADR(phy, mac.datarate, mac.adr_ack_counter)
               allowed == MaxPayload[adr.datarate]
               fopts_len == (Bytes(checked.buffer) + Bytes(checked.repeat)) % 256
               overfull == allowed < fopts_len
               prepared == Prepared(IF overfull THEN NoAnswers ELSE checked)
               room == IF overfull THEN allowed ELSE allowed - fopts_len
               message == [Idle EXCEPT !.size = IF room < length THEN room ELSE length,
                                       !.datarate = adr.datarate,
                                       !.carried = prepared.buffer]
               params == [mac EXCEPT !.datarate = adr.datarate,
                                     !.adr_ack_counter = adr.adr_ack_cnt]
    <2>1. /\ cmd' = prepared
          /\ owed' = IF overfull THEN Nothing ELSE debt
          /\ schedule_tx(adr.phy, params, prepared, message)
      BY Zenon DEF Send, asked, checked, debt
    <2>2. DOMAIN message = DOMAIN Idle /\ message.carried = prepared.buffer
      BY DEF Idle
    <2> HIDE DEF overfull, message, params, adr
    <2>3. \/ prepared = Prepared(NoAnswers) /\ owed' = Nothing
          \/ prepared = Prepared(checked) /\ owed' = debt
      BY <2>1
    <2> HIDE DEF prepared
    <2> QED BY <2>1, <2>2, <2>3, Zenon
  <1>3. /\ Kept(cmd', owed')
        /\ \A kind \in Kinds : owed'[kind] <= cmd'.buffer[kind]
        /\ \A kind \in Sticky : owed'[kind] <= cmd'.repeat[kind]
    <2>1. Kept(NoAnswers, Nothing)
      BY NothingKept
    <2> QED BY <1>1, <1>2, <2>1, PreparedKept
  <1>4. /\ DOMAIN tx' = DOMAIN Idle
        /\ tx'.st # "idle" => tx'.carried = cmd'.buffer
    BY <1>2, ScheduledMessage
  <1> QED BY <1>3, <1>4 DEF AnswersInv, KeptByFrame

\* An answer is collected while no frame is underway.
LEMMA AnswerKept ==
    ASSUME AnswersInv, tx.st = "idle", NEW kind \in Kinds, NEW n \in Nat, Answer(kind, n)
    PROVE  AnswersInv'
  <1>1. /\ cmd' = add(cmd, kind, n) /\ tx' = tx
        /\ owed' = [owed EXCEPT ![kind] = @ + Room(cmd, kind, n)]
    BY DEF Answer
  <1>2. Kept(cmd', owed')
    BY <1>1, AddKept DEF AnswersInv
  <1> QED BY <1>1, <1>2, KeptIdle DEF AnswersInv

\* Every step keeps the answers, if the network does not wait for answers after it
\* sent a downlink again.
LEMMA AnswersInvNext ==
    ASSUME ~NetworkWaits, PlanInv, AnswersInv, [Next]_vars
    PROVE  AnswersInv'
  <1>0. /\ DOMAIN tx = DOMAIN Idle /\ {"st", "join", "carried", "wait"} \subseteq DOMAIN tx
        /\ Kept(cmd, owed) /\ KeptByFrame(tx, cmd, owed)
        /\ Idle.st = "idle"
        /\ Kept(NoAnswers, Nothing) /\ Kept(cmd, Nothing)
    BY NothingKept DEF AnswersInv, Idle
  <1>1. ASSUME tx' = Idle, Kept(cmd', owed')
        PROVE  AnswersInv'
    BY <1>0, <1>1, KeptIdle DEF AnswersInv
  <1>2. ASSUME UNCHANGED <<tx, cmd, owed>>
        PROVE  AnswersInv'
    BY <1>2 DEF AnswersInv, Kept, KeptByFrame
  <1>3. ASSUME NEW length \in Lengths, NEW check \in {FALSE, LinkChecks}, Send(length, check)
        PROVE  AnswersInv'
    BY <1>3, SendKept
  <1>4. CASE Cancel
    BY <1>0, <1>1, <1>4 DEF Cancel
  <1>5. CASE Connect
    <2>1. /\ \E m : JoinRequest(m)
          /\ cmd' = NoAnswers /\ owed' = Nothing
      BY <1>5 DEF Connect
    <2> QED BY <1>0, <2>1, JoinScheduled DEF AnswersInv
  <1>6. CASE Disconnect
    BY <1>0, <1>1, <1>6 DEF Disconnect
  <1>7. CASE BackoffExpiry
    <2>1. /\ DOMAIN tx' = DOMAIN Idle
          /\ tx'.st # "idle" => tx'.join = tx.join /\ tx'.carried = tx.carried
          /\ tx.st = "backoff" /\ cmd' = cmd /\ owed' = owed
      BY <1>0, <1>7, ScheduledMessage DEF BackoffExpiry
    <2> QED BY <1>0, <2>1 DEF AnswersInv, KeptByFrame
  <1>8. CASE TxDone
    <2>1. /\ cmd' = clear_command_buffer(cmd) /\ owed' = OnlySticky(owed)
          /\ tx.st = "air" /\ tx' = [tx EXCEPT !.st = "window"]
      BY <1>8 DEF TxDone
    <2>2. DOMAIN tx' = DOMAIN Idle /\ tx'.st = "window"
      BY <1>0, <2>1
    <2> QED BY <1>0, <2>1, <2>2, SentKept DEF AnswersInv, KeptByFrame
  <1>9. CASE TxTimeout
    <2>1. /\ cmd' = clear_command_buffer(cmd) /\ owed' = OnlySticky(owed)
          /\ tx.st = "air" /\ tx' = Idle
      BY <1>9 DEF TxTimeout
    <2> QED BY <1>0, <1>1, <2>1, SentKept DEF KeptByFrame
  <1>10. CASE Tick
    <2>1. /\ tx' = [tx EXCEPT !.wait = IF @ = 0 THEN 0 ELSE @ - 1]
          /\ cmd' = cmd /\ owed' = owed
      BY <1>10 DEF Tick
    <2>2. /\ DOMAIN tx' = DOMAIN tx /\ tx'.st = tx.st /\ tx'.join = tx.join
          /\ tx'.carried = tx.carried
      BY <1>0, <2>1
    <2> QED BY <1>0, <2>1, <2>2 DEF AnswersInv, KeptByFrame
  <1>11. CASE JoinAccept(CfLists)
    BY <1>0, <1>1, <1>11 DEF JoinAccept
  <1>12. CASE NoJoinAccept
    <2>1. /\ cmd' = cmd /\ owed' = owed
          /\ tx.st = "window" /\ tx.join
          /\ tx' = Idle \/ JoinRequest(mac)
      BY <1>12 DEF NoJoinAccept
    <2>2. ASSUME JoinRequest(mac)
          PROVE  /\ DOMAIN tx' = DOMAIN Idle
                 /\ tx'.st # "idle" => tx'.join
      <3> DEFINE t == [Idle EXCEPT !.join = TRUE]
      <3>1. DOMAIN t = DOMAIN Idle /\ t.join = TRUE
        BY DEF Idle
      <3>2. \E p, n, a : schedule_tx(p, n, a, t)
        BY <2>2, Zenon DEF JoinRequest
      <3> QED BY <3>1, <3>2, ScheduledMessage
    <2> QED BY <1>0, <1>1, <2>1, <2>2 DEF AnswersInv, KeptByFrame
  <1>13. CASE NoDownlink
    BY <1>0, <1>1, <1>13 DEF NoDownlink
  <1>14. ASSUME NEW commands \in Downlinks, Downlink(commands)
         PROVE  AnswersInv'
    BY <1>0, <1>1, <1>14 DEF Downlink
  <1>15. CASE RepeatedDownlink
    BY <1>0, <1>1, <1>15 DEF RepeatedDownlink
  <1>16. ASSUME todo # <<>>, NEW kind \in Kinds, NEW n \in Nat, Answer(kind, n)
         PROVE  AnswersInv'
    BY <1>16, AnswerKept DEF PlanInv
  <1>17. /\ "LINK_ADR_ANS" \in Kinds /\ "DUTY_CYCLE_ANS" \in Kinds
         /\ "NEW_CHANNEL_ANS" \in Kinds /\ "DL_CHANNEL_ANS" \in Kinds
         /\ "RX_PARAM_SETUP_ANS" \in Kinds /\ "DEV_STATUS_ANS" \in Kinds
         /\ "RX_TIMING_SETUP_ANS" \in Kinds /\ "TX_PARAM_SETUP_ANS" \in Kinds
    BY DEF Kinds, Sticky
  <1>18. CASE LinkAdrReq
    <2>1. PICK n \in 1 .. Len(todo) : Answer("LINK_ADR_ANS", n)
      BY <1>18 DEF LinkAdrReq
    <2>2. n \in Nat /\ todo # <<>>
      BY <2>1 DEF PlanInv, TodoOK
    <2> QED BY <1>16, <1>17, <2>1, <2>2
  <1>19. CASE DutyCycleReq
    BY <1>16, <1>17, <1>19 DEF DutyCycleReq, Next_is
  <1>20. CASE NewChannelReq
    BY <1>16, <1>17, <1>20 DEF NewChannelReq, Next_is
  <1>21. CASE DlChannelReq
    BY <1>16, <1>17, <1>21 DEF DlChannelReq, Next_is
  <1>22. ASSUME NEW name, NEW kind \in Kinds, OtherReq(name, kind)
         PROVE  AnswersInv'
    BY <1>16, <1>22 DEF OtherReq, Next_is
  <1>23. CASE UNCHANGED vars
    BY <1>2, <1>23 DEF vars
  <1> QED
    BY <1>2, <1>3, <1>4, <1>5, <1>6, <1>7, <1>8, <1>9, <1>10, <1>11, <1>12, <1>13, <1>14,
       <1>15, <1>17, <1>18, <1>19, <1>20, <1>21, <1>22, <1>23
    DEF Next, ProcessMacCommands, RxParamSetupReq, DevStatusReq, RxTimingSetupReq,
        TxParamSetupReq, UnknownReq, Personalize, AddChannel, RemoveChannel

\* Every data frame carries the answers the network waits for, whatever is cancelled,
\* refused, cut short or lost before it, unless the network waits for answers that a
\* downlink sent again has made the device forget: the buffers of LoRaMacCommand.cpp
\* as prepare_frame(), on_radio_tx_done() and handle_data_frame() use them.
THEOREM AnswersAreCarried == ~NetworkWaits /\ Spec => []AnswersCarried
  <1> SUFFICES ASSUME ~NetworkWaits PROVE Spec => []AnswersCarried
    OBVIOUS
  <1>1. Init => PlanInv /\ AnswersInv
    BY PlanInvInit, AnswersInvInit
  <1>2. PlanInv /\ AnswersInv /\ [Next]_vars => (PlanInv /\ AnswersInv)'
    BY PlanInvNext, AnswersInvNext
  <1>3. PlanInv /\ AnswersInv => AnswersCarried
    BY DEF AnswersInv, KeptByFrame, AnswersCarried
  <1> QED BY <1>1, <1>2, <1>3, PTL DEF Spec

=============================================================================
