------------------------------- MODULE Uplinks -------------------------------
(***************************************************************************)
(* How LoRaMac.cpp puts uplinks on the air: the data rate and the size of  *)
(* a message, the answers to MAC commands it carries, the choice of a      *)
(* channel under the duty cycle, the backoff, and the downlinks that       *)
(* change all of these.  A class A device, one message at a time; sessions *)
(* and windows in detail are the matter of LoRaMac and LoRaStack.          *)
(*                                                                         *)
(* The commands of a downlink are processed one per step, in the order     *)
(* they have in the frame; nothing else happens in between.                *)
(***************************************************************************)
EXTENDS ChannelPlan, MacCommands, Sequences

CONSTANTS
    MaxPayload,    \* for each data rate
    Toa,           \* time on air at each data rate
    Lengths,       \* lengths of the messages of the application
    Downlinks,     \* the MAC commands a downlink may carry, in their order
    CfLists,       \* the channel lists a Join Accept may carry
    Plans,         \* channels the application may add: an id and a channel
    LinkChecks,    \* whether the application may ask for link checks
    NetworkWaits,  \* whether a network that sends a downlink again waits for answers
    MaxJoinTrials, \* max_join_request_trials
    MaxConnects,   \* bound on the calls of connect()
    MaxSends       \* bound on the calls of send()

\* SRV_MAC_...: what the network may ask for.  Of RXParamSetupReq, DevStatusReq,
\* RXTimingSetupReq and TxParamSetupReq only the answer is of interest here.
Commands ==
    [cmd : {"LINK_ADR_REQ"}, mask : SUBSET Channels, ctrl : 0 .. 7, datarate : 0 .. 15]
    \union [cmd : {"DUTY_CYCLE_REQ"}, max_duty_cycle : 0 .. 15 \union {255}]
    \union [cmd : {"NEW_CHANNEL_REQ"}, id : Channels, frequency : Nat, min : 0 .. 15,
            max : 0 .. 15]
    \union [cmd : {"DL_CHANNEL_REQ"}, id : Channels, frequency : Nat]
    \union [cmd : {"RX_PARAM_SETUP_REQ", "DEV_STATUS_REQ", "RX_TIMING_SETUP_REQ",
                   "TX_PARAM_SETUP_REQ", "unknown"}]

ASSUME UplinksAssumption ==
    /\ MaxPayload \in [Datarates -> Nat]
    /\ Toa \in [Datarates -> Nat \ {0}]
    /\ Lengths \subseteq Nat
    /\ Downlinks \subseteq Seq(Commands)
    /\ CfLists \subseteq [0 .. CfListChannelCnt - 1 -> Frequencies \union {0}]
    /\ Plans \subseteq [id : Channels,
                        channel : [frequency : Nat, rx1_frequency : Nat, min : 0 .. 15,
                                   max : 0 .. 15, band : Nat]]
    /\ LinkChecks \in BOOLEAN /\ NetworkWaits \in BOOLEAN
    /\ MaxJoinTrials \in Nat /\ MaxConnects \in Nat /\ MaxSends \in Nat

VARIABLES
    phy,     \* channels, mask and bands of the PHY layer
    mac,     \* what LoRaMac keeps: _params and _is_nwk_joined
    cmd,     \* the buffers of LoRaMacCommand
    tx,      \* the message underway, or st = "idle"
    todo,    \* commands of the downlink in hand that are not processed yet
    owed,    \* history: the answers the network is still to be sent
    silence, \* history: how long each band has to stay silent
    calls    \* how often connect() and send() were called

vars == <<phy, mac, cmd, tx, todo, owed, silence, calls>>

Idle == [st |-> "idle", join |-> FALSE, size |-> 0, datarate |-> 0, carried |-> Nothing,
         wait |-> 0, status |-> "OK"]

\* What is left of a message that was refused with a status.
Refused(t, status) == [Idle EXCEPT !.datarate = t.datarate, !.status = status]

NoAnswers == [buffer |-> Nothing, repeat |-> Nothing]
NoSilence == [b \in Bands |-> 0]

Init ==
    /\ phy = InitialPhy
    /\ mac = [joined |-> FALSE, heard |-> FALSE, datarate |-> DefaultMaxDatarate,
              channel |-> 0, last_channel_idx |-> 0, tx_toa |-> 0,
              aggregated_last_tx_time |-> 0, max_duty_cycle |-> 0,
              aggregated_duty_cycle |-> 1, adr_ack_counter |-> 0,
              join_request_trial_counter |-> 0]
    /\ cmd = NoAnswers
    /\ tx = Idle
    /\ todo = <<>>
    /\ owed = Nothing
    /\ silence = NoSilence
    /\ calls = [connects |-> 0, sends |-> 0]

\* Nobody holds the lock of the MAC to process commands.
Unlocked == todo = <<>>

-----------------------------------------------------------------------------
(* schedule_tx() *)

\* The length is checked again before the frame goes out.
validate_payload_length(t, m, c) ==
    t.join \/ t.size + Bytes(c.buffer) + Bytes(c.repeat) <= MaxPayload[m.datarate]

\* send_frame_on_channel(), or LORAWAN_STATUS_LENGTH_ERROR.
OnChannel(m, c, t) ==
    IF validate_payload_length(t, m, c)
    THEN /\ mac' = [m EXCEPT !.tx_toa = Toa[m.datarate],
                             !.join_request_trial_counter = IF m.joined THEN @ ELSE @ + 1]
         /\ tx' = [t EXCEPT !.st = "air", !.wait = 0]
    ELSE /\ mac' = m
         /\ tx' = Refused(t, "LENGTH_ERROR")

\* The backoff timer is started, unless the delay is 0.
Backoff(m, t, delays) ==
    \E delay \in delays :
        /\ mac' = [m EXCEPT !.channel = 0]
        /\ tx' = [t EXCEPT !.st = IF delay = 0 THEN "stuck" ELSE "backoff", !.wait = delay]

\* schedule_tx() for the message t, after the caller has made p, m and c of the
\* phy, the parameters of the MAC and the buffers.  A message that is refused is
\* given up by its caller.
schedule_tx(p, m, c, t) ==
    LET aggregated_timeoff == m.tx_toa * m.aggregated_duty_cycle - m.tx_toa
        charged == calculate_backoff(p, m.joined, m.last_channel_idx, m.tx_toa)
        active == IF charged.mask = {} THEN set_default_mask(charged) ELSE charged
        updated == update_band_timeoff(active, m.joined)
        free == Free(updated, m.datarate)
    IN  IF m.max_duty_cycle = 255 THEN
            phy' = p /\ mac' = m /\ tx' = Refused(t, "DEVICE_OFF")
        ELSE IF aggregated_timeoff > m.aggregated_last_tx_time THEN
            /\ phy' = active
            /\ Backoff(m, t, {aggregated_timeoff - m.aggregated_last_tx_time})
        ELSE
            \/ /\ phy' = updated
               /\ \E channel \in free : OnChannel([m EXCEPT !.channel = channel], c, t)
            \/ /\ free = {} /\ Candidates(updated, m.datarate) # {}
               /\ phy' = updated
               /\ Backoff(m, t, next_tx_delays(updated, m.joined))
            \/ /\ Candidates(updated, m.datarate) = {}
               /\ phy' = set_default_mask(updated)
               /\ mac' = [m EXCEPT !.channel = 0]
               /\ tx' = Refused(t, "NO_CHANNEL_FOUND")

-----------------------------------------------------------------------------
(* The application *)

\* send(): setup_link_check_request(), prepare_ongoing_tx() and prepare_frame(),
\* then schedule_tx().  A message is cut to the length that is left beside the
\* answers; when they fill more than a frame get_max_possible_tx_size() throws
\* them away.  fopts_len is a uint8_t.
Send(length, check) ==
    LET asked == IF check THEN Room(cmd, "LINK_CHECK_REQ", 1) ELSE 0
        checked == IF check THEN add(cmd, "LINK_CHECK_REQ", 1) ELSE cmd
        fopts_len == (Bytes(checked.buffer) + Bytes(checked.repeat)) % 256
        adr == get_next_ADR(phy, mac.datarate, mac.adr_ack_counter)
        allowed == MaxPayload[adr.datarate]
        overfull == allowed < fopts_len
        prepared == Prepared(IF overfull THEN NoAnswers ELSE checked)
        room == IF overfull THEN allowed ELSE allowed - fopts_len
        message == [Idle EXCEPT !.size = IF room < length THEN room ELSE length,
                                !.datarate = adr.datarate, !.carried = prepared.buffer]
    IN  /\ Unlocked
        /\ mac.joined
        /\ tx.st = "idle"
        /\ calls.sends < MaxSends
        /\ cmd' = prepared
        /\ owed' = IF overfull THEN Nothing ELSE [owed EXCEPT !["LINK_CHECK_REQ"] = asked]
        /\ schedule_tx(adr.phy, [mac EXCEPT !.datarate = adr.datarate,
                                            !.adr_ack_counter = adr.adr_ack_cnt],
                       prepared, message)
        /\ calls' = [calls EXCEPT !.sends = @ + 1]
        /\ UNCHANGED <<todo, silence>>

\* stop_sending(): a message that waits for the duty cycle is taken back.
Cancel ==
    /\ Unlocked
    /\ mac.joined
    /\ tx.st = "backoff"
    /\ tx.wait > 0
    /\ tx' = Idle
    /\ UNCHANGED <<phy, mac, cmd, todo, owed, silence, calls>>

\* send_join_request()
JoinRequest(m) ==
    schedule_tx(phy, [m EXCEPT !.datarate = get_alternate_DR(m.join_request_trial_counter + 1)],
                NoAnswers, [Idle EXCEPT !.join = TRUE])

\* connect() over the air: reset_mac_parameters(), which forgets the channel used
\* last, and the first Join Request.
Connect ==
    /\ Unlocked
    /\ ~mac.joined
    /\ tx.st = "idle"
    /\ calls.connects < MaxConnects
    /\ JoinRequest([mac EXCEPT !.heard = FALSE, !.adr_ack_counter = 0,
                               !.max_duty_cycle = 0, !.aggregated_duty_cycle = 1,
                               !.channel = 0, !.last_channel_idx = 0,
                               !.join_request_trial_counter = 0])
    /\ cmd' = NoAnswers
    /\ owed' = Nothing
    /\ silence' = NoSilence
    /\ calls' = [calls EXCEPT !.connects = @ + 1]
    /\ UNCHANGED todo

\* connect() with a session that is personalized: nothing is reset.
Personalize ==
    /\ Unlocked
    /\ ~mac.joined
    /\ tx.st = "idle"
    /\ calls.connects < MaxConnects
    /\ mac' = [mac EXCEPT !.joined = TRUE]
    /\ calls' = [calls EXCEPT !.connects = @ + 1]
    /\ UNCHANGED <<phy, cmd, tx, todo, owed, silence>>

\* History: a transmission that is cut short is not charged, and its airtime takes
\* the place of that of the transmission before.
CutShort ==
    IF tx.st = "air" THEN [silence EXCEPT ![phy.channels[mac.last_channel_idx].band] = 0]
    ELSE silence

\* shutdown(): disconnect() stops the timers and sends the radio to sleep.
Disconnect ==
    /\ Unlocked
    /\ mac.joined \/ tx.st # "idle"
    /\ mac' = [mac EXCEPT !.joined = FALSE]
    /\ cmd' = NoAnswers
    /\ tx' = Idle
    /\ owed' = Nothing
    /\ silence' = CutShort
    /\ UNCHANGED <<phy, todo, calls>>

\* History: once the channel used last has another band, that one is charged in the
\* place of the band that was used, whatever it was charged before.
Recharged(p) ==
    LET used == phy.channels[mac.last_channel_idx].band
        now == p.channels[mac.last_channel_idx].band
    IN  IF now = used THEN silence ELSE [silence EXCEPT ![used] = 0, ![now] = 0]

\* add_channel_plan() of one channel, with the band the application gives it.
AddChannel(plan) ==
    /\ Unlocked
    /\ tx.st = "idle"
    /\ phy' = add_channel(phy, plan.id, plan.channel)
    /\ silence' = Recharged(add_channel(phy, plan.id, plan.channel))
    /\ UNCHANGED <<mac, cmd, tx, todo, owed, calls>>

\* remove_single_channel()
RemoveChannel(id) ==
    /\ Unlocked
    /\ tx.st = "idle"
    /\ phy' = remove_channel(phy, id)
    /\ silence' = Recharged(remove_channel(phy, id))
    /\ UNCHANGED <<mac, cmd, tx, todo, owed, calls>>

-----------------------------------------------------------------------------
(* The radio and the backoff timer *)

BackoffExpiry ==
    /\ Unlocked
    /\ tx.st = "backoff"
    /\ tx.wait = 0
    /\ schedule_tx(phy, mac, cmd, tx)
    /\ UNCHANGED <<cmd, todo, owed, silence, calls>>

\* on_radio_tx_done().  From now on the band has to be silent, and what was sent
\* is owed no more, unless it is to be repeated.
TxDone ==
    /\ tx.st = "air"
    /\ phy' = set_last_tx_done(phy, mac.channel, mac.joined)
    /\ mac' = [mac EXCEPT !.last_channel_idx = mac.channel, !.aggregated_last_tx_time = 0]
    /\ cmd' = clear_command_buffer(cmd)
    /\ tx' = [tx EXCEPT !.st = "window"]
    /\ owed' = OnlySticky(owed)
    /\ silence' = [silence EXCEPT ![phy.channels[mac.channel].band] =
                     mac.tx_toa * DutyCycle[phy.channels[mac.channel].band] - mac.tx_toa]
    /\ UNCHANGED <<todo, calls>>

\* on_radio_tx_timeout()
TxTimeout ==
    /\ tx.st = "air"
    /\ cmd' = clear_command_buffer(cmd)
    /\ tx' = Idle
    /\ owed' = OnlySticky(owed)
    /\ silence' = CutShort
    /\ UNCHANGED <<phy, mac, todo, calls>>

\* One unit of time.  The timer may be late.
Tick ==
    /\ Unlocked
    /\ phy' = Older(phy)
    /\ mac' = [mac EXCEPT !.aggregated_last_tx_time = Aged(@)]
    /\ tx' = [tx EXCEPT !.wait = IF @ = 0 THEN 0 ELSE @ - 1]
    /\ silence' = [b \in Bands |-> IF silence[b] = 0 THEN 0 ELSE silence[b] - 1]
    /\ UNCHANGED <<cmd, todo, owed, calls>>

-----------------------------------------------------------------------------
(* Downlinks *)

\* handle_join_accept_frame(), with a channel list or without one.
JoinAccept(lists) ==
    /\ tx.st = "window" /\ tx.join
    /\ mac' = [mac EXCEPT !.joined = TRUE, !.adr_ack_counter = 0]
    /\ \/ phy' = phy /\ silence' = silence
       \/ \E list \in lists : /\ phy' = apply_cf_list(phy, list)
                              /\ silence' = Recharged(apply_cf_list(phy, list))
    /\ tx' = Idle
    /\ UNCHANGED <<cmd, todo, owed, calls>>

\* continue_joining_process(), when no Join Accept was heard.
NoJoinAccept ==
    /\ tx.st = "window" /\ tx.join
    /\ IF mac.join_request_trial_counter >= MaxJoinTrials
       THEN tx' = Idle /\ UNCHANGED <<phy, mac>>
       ELSE JoinRequest(mac)
    /\ UNCHANGED <<cmd, todo, owed, silence, calls>>

\* The windows close, post_process_mcps_req().
NoDownlink ==
    /\ Unlocked
    /\ tx.st = "window" /\ ~tx.join
    /\ mac' = [mac EXCEPT !.adr_ack_counter = @ + 1]
    /\ tx' = Idle
    /\ UNCHANGED <<phy, cmd, todo, owed, silence, calls>>

\* handle_data_frame(): the device was heard, both buffers are cleared, and the
\* commands of the frame are next.  The counter counts the message that ends.
Downlink(commands) ==
    /\ tx.st = "window" /\ ~tx.join
    /\ mac' = [mac EXCEPT !.heard = TRUE, !.adr_ack_counter = 1]
    /\ cmd' = NoAnswers
    /\ tx' = Idle
    /\ todo' = commands
    /\ owed' = Nothing
    /\ UNCHANGED <<phy, silence, calls>>

\* The same for a frame the network sends again: its commands are not processed.
\* Their answers are owed as before, if the network waits for them.  (The counter
\* of the downlinks is not 0.)
RepeatedDownlink ==
    /\ mac.heard
    /\ tx.st = "window" /\ ~tx.join
    /\ mac' = [mac EXCEPT !.adr_ack_counter = 1]
    /\ cmd' = NoAnswers
    /\ tx' = Idle
    /\ owed' = IF NetworkWaits THEN owed ELSE Nothing
    /\ UNCHANGED <<phy, todo, silence, calls>>

-----------------------------------------------------------------------------
(* process_mac_commands() *)

Next_is(name) == todo # <<>> /\ Head(todo).cmd = name

\* n equal answers, of which those are owed that fit into the buffer.
Answer(kind, n) ==
    /\ cmd' = add(cmd, kind, n)
    /\ owed' = [owed EXCEPT ![kind] = @ + Room(cmd, kind, n)]
    /\ UNCHANGED <<tx, calls>>

\* A block of LinkADRReq is answered one by one; only the last one counts.
LinkAdrReq ==
    \E n \in 1 .. Len(todo) :
        /\ \A i \in 1 .. n : todo[i].cmd = "LINK_ADR_REQ"
        /\ n < Len(todo) => todo[n + 1].cmd # "LINK_ADR_REQ"
        /\ phy' = link_ADR_request(phy, todo[n])
        /\ mac' = IF link_ADR_accepts(phy, todo[n])
                  THEN [mac EXCEPT !.datarate = todo[n].datarate] ELSE mac
        /\ Answer("LINK_ADR_ANS", n)
        /\ todo' = SubSeq(todo, n + 1, Len(todo))
        /\ UNCHANGED silence

DutyCycleReq ==
    /\ Next_is("DUTY_CYCLE_REQ")
    /\ mac' = [mac EXCEPT
                !.max_duty_cycle = Head(todo).max_duty_cycle,
                !.aggregated_duty_cycle = IF Head(todo).max_duty_cycle = 255 THEN 0
                                          ELSE 2 ^ Head(todo).max_duty_cycle]
    /\ Answer("DUTY_CYCLE_ANS", 1)
    /\ todo' = Tail(todo)
    /\ UNCHANGED <<phy, silence>>

NewChannelReq ==
    /\ Next_is("NEW_CHANNEL_REQ")
    /\ LET request == Head(todo)
           p == request_new_channel(phy, request.id,
                                    ChannelOf(request.frequency, request.min, request.max))
       IN  phy' = p /\ silence' = Recharged(p)
    /\ Answer("NEW_CHANNEL_ANS", 1)
    /\ todo' = Tail(todo)
    /\ UNCHANGED mac

DlChannelReq ==
    /\ Next_is("DL_CHANNEL_REQ")
    /\ phy' = dl_channel_request(phy, Head(todo).id, Head(todo).frequency)
    /\ Answer("DL_CHANNEL_ANS", 1)
    /\ todo' = Tail(todo)
    /\ UNCHANGED <<mac, silence>>

\* The commands whose answer alone is modelled.
OtherReq(name, kind) ==
    /\ Next_is(name)
    /\ Answer(kind, 1)
    /\ todo' = Tail(todo)
    /\ UNCHANGED <<phy, mac, silence>>

RxParamSetupReq == OtherReq("RX_PARAM_SETUP_REQ", "RX_PARAM_SETUP_ANS")
DevStatusReq == OtherReq("DEV_STATUS_REQ", "DEV_STATUS_ANS")
RxTimingSetupReq == OtherReq("RX_TIMING_SETUP_REQ", "RX_TIMING_SETUP_ANS")
TxParamSetupReq == OtherReq("TX_PARAM_SETUP_REQ", "TX_PARAM_SETUP_ANS")

\* An unknown command: the rest of the frame cannot be read.
UnknownReq ==
    /\ Next_is("unknown")
    /\ todo' = <<>>
    /\ UNCHANGED <<phy, mac, cmd, tx, owed, silence, calls>>

ProcessMacCommands ==
    \/ LinkAdrReq \/ DutyCycleReq \/ NewChannelReq \/ DlChannelReq
    \/ RxParamSetupReq \/ DevStatusReq \/ RxTimingSetupReq \/ TxParamSetupReq
    \/ UnknownReq

Next ==
    \/ \E length \in Lengths, check \in {FALSE, LinkChecks} : Send(length, check)
    \/ Cancel \/ Connect \/ Personalize \/ Disconnect
    \/ \E plan \in Plans : AddChannel(plan)
    \/ \E id \in Channels : RemoveChannel(id)
    \/ BackoffExpiry \/ TxDone \/ TxTimeout \/ Tick
    \/ JoinAccept(CfLists) \/ NoJoinAccept \/ NoDownlink
    \/ \E commands \in Downlinks : Downlink(commands)
    \/ RepeatedDownlink
    \/ ProcessMacCommands

Spec == Init /\ [][Next]_vars

\* Time passes and the backoff timer expires.
FairSpec == Spec /\ WF_vars(Tick) /\ WF_vars(BackoffExpiry)
=============================================================================
