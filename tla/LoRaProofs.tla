----------------------------- MODULE LoRaProofs -----------------------------
(***************************************************************************)
(* What holds of the device whatever the frames, the channel outcomes, the *)
(* faults and the bounds are: its types, and the agreement of the three    *)
(* copies of the session state.                                            *)
(***************************************************************************)
EXTENDS LoRaProperties, TLAPS

-----------------------------------------------------------------------------
(* The operators of the device: each takes a device to a device, and all but *)
(* a handful leave the session alone.                                        *)

\* The control flags that say what became of the last connect().
LinkFlags == {"CONNECTED", "CONN_IN_PROGRESS"}

\* e is a device with the session of d.
Keeps(d, e) ==
    /\ e \in Devices
    /\ e.nwk_joined = d.nwk_joined
    /\ e.session_active = d.session_active
    /\ e.flags \cap LinkFlags = d.flags \cap LinkFlags

\* A device keeps its own session.
LEMMA KeepsReflexive ==
    ASSUME NEW d \in Devices
    PROVE  Keeps(d, d)
BY DEF Keeps

\* What two operations keep, one after the other, their composition keeps.
LEMMA KeepsTransitive ==
    ASSUME NEW c, NEW d, NEW e, Keeps(c, d), Keeps(d, e)
    PROVE  Keeps(c, e)
BY DEF Keeps

-----------------------------------------------------------------------------
(* Timers and the queue *)

\* The calls a timer and its cancellation put into the queue are calls.
LEMMA TimerCallTypes ==
    ASSUME NEW t \in Timers
    PROVE  /\ LiveCall(t) \in Calls
           /\ StaleCall(t) \in Calls
           /\ CancelledCall \in Calls
BY DEF LiveCall, StaleCall, CancelledCall, Calls

\* Replacing a call keeps the queue a sequence of calls.
LEMMA ReplaceDueType ==
    ASSUME NEW d \in Devices, NEW old \in Calls, NEW new \in Calls
    PROVE  ReplaceDue(d, old, new) \in Seq(Calls)
BY SMT DEF ReplaceDue, Devices

\* Posting a call, which may be lost, touches the queue only.
LEMMA PostKeeps ==
    ASSUME NEW d \in Devices, NEW call \in Calls
    PROVE  Keeps(d, post(d, call))
<1>1. Append(d.due, call) \in Seq(Calls)
  BY DEF Devices
<1>2. [d EXCEPT !.due = Append(@, call)] \in Devices
  BY ZenonT(120), <1>1 DEF Devices
<1>3. Keeps(d, [d EXCEPT !.due = Append(@, call)])
  BY <1>2 DEF Keeps, Devices
<1> QED
  BY <1>3, KeepsReflexive DEF post

\* Telling the application of an event does not touch the session.
LEMMA SendEventKeeps ==
    ASSUME NEW d \in Devices, NEW e \in AppEvents
    PROVE  Keeps(d, send_event_to_application(d, e))
<1>1. [fn |-> "event", event |-> e] \in Calls
  BY DEF Calls
<1> QED
  BY <1>1, PostKeeps DEF send_event_to_application

\* Stopping a timer that may have expired already.
LEMMA StopKeeps ==
    ASSUME NEW d \in Devices, NEW t \in Timers
    PROVE  Keeps(d, stop(d, t))
<1>1. ReplaceDue(d, LiveCall(t), CancelledCall) \in Seq(Calls)
  BY ReplaceDueType, TimerCallTypes
<1>2. stop(d, t) \in Devices
  BY ZenonT(120), <1>1 DEF stop, Devices
<1> QED
  BY <1>2 DEF stop, Keeps, Devices

\* Forgetting the event of a timer touches timers and queue only.
LEMMA InitKeeps ==
    ASSUME NEW d \in Devices, NEW t \in Timers
    PROVE  Keeps(d, init(d, t))
<1> DEFINE orphans == IF t \in d.armed THEN d.orphans \cup {t} ELSE d.orphans
           due == ReplaceDue(d, LiveCall(t), StaleCall(t))
<1>1. orphans \in SUBSET Timers
  BY DEF Devices
<1>2. due \in Seq(Calls)
  BY ReplaceDueType, TimerCallTypes
<1>3. init(d, t) = [d EXCEPT !.orphans = orphans, !.armed = d.armed \ {t}, !.due = due]
  BY DEF init, Devices
<1> HIDE DEF orphans, due
<1>4. [d EXCEPT !.orphans = orphans, !.armed = d.armed \ {t}, !.due = due] \in Devices
  BY ZenonT(120), <1>1, <1>2 DEF Devices
<1> QED
  BY ZenonT(120), <1>3, <1>4 DEF Keeps, Devices

\* So does starting a timer, with or without room for its event.
LEMMA StartKeeps ==
    ASSUME NEW d \in Devices, NEW t \in Timers
    PROVE  Keeps(d, start(d, t))
<1> DEFINE forgotten == init(d, t)
<1>1. Keeps(d, forgotten)
  BY InitKeeps
<1> HIDE DEF forgotten
<1>2. [forgotten EXCEPT !.armed = @ \cup {t}] \in Devices
  BY ZenonT(120), <1>1 DEF Keeps, Devices
<1>3. Keeps(forgotten, [forgotten EXCEPT !.armed = @ \cup {t}])
  BY <1>1, <1>2 DEF Keeps, Devices
<1>4. Keeps(d, [forgotten EXCEPT !.armed = @ \cup {t}])
  BY <1>1, <1>3, KeepsTransitive
<1> QED
  BY <1>1, <1>4 DEF start, forgotten

-----------------------------------------------------------------------------
(* Sending *)

\* The mode of the radio is no part of the session.
LEMMA PutRadioToSleepKeeps ==
    ASSUME NEW d \in Devices
    PROVE  Keeps(d, put_radio_to_sleep(d))
<1>1. put_radio_to_sleep(d) \in Devices
  BY ZenonT(120) DEF put_radio_to_sleep, Devices, RadioModes
<1> QED
  BY <1>1 DEF put_radio_to_sleep, Keeps, Devices

\* Nor is the transmission slot: a transmission may end or begin in any session.
LEMMA SetTxOngoingKeeps ==
    ASSUME NEW d \in Devices, NEW ongoing \in BOOLEAN
    PROVE  /\ Keeps(d, set_tx_ongoing(d, ongoing))
           /\ Keeps(d, reset_ongoing_tx(d))
<1>1. set_tx_ongoing(d, ongoing) \in Devices /\ reset_ongoing_tx(d) \in Devices
  BY ZenonT(120) DEF set_tx_ongoing, reset_ongoing_tx, Devices
<1> QED
  BY <1>1 DEF set_tx_ongoing, reset_ongoing_tx, Keeps, Devices

\* A frame is sent without a change of session.
LEMMA SendFrameOnChannelKeeps ==
    ASSUME NEW d \in Devices
    PROVE  Keeps(d, send_frame_on_channel(d))
<1> DEFINE trials == IF d.nwk_joined THEN d.join_request_trial_counter
                                     ELSE d.join_request_trial_counter + 1
<1>1. trials \in Nat
  <2>1. d.join_request_trial_counter \in Nat
    BY DEF Devices
  <2> QED
    BY <2>1
<1>2. send_frame_on_channel(d) =
        [d EXCEPT !.conf_status = "ERROR", !.join_request_trial_counter = trials,
                  !.radio = "tx"]
  BY DEF send_frame_on_channel, Devices
<1> HIDE DEF trials
<1>3. [d EXCEPT !.conf_status = "ERROR", !.join_request_trial_counter = trials,
                !.radio = "tx"] \in Devices
  BY ZenonT(120), <1>1 DEF Devices, ConfirmStatuses, RadioModes
<1> QED
  BY ZenonT(120), <1>2, <1>3 DEF Keeps, Devices

\* Scheduling a frame sends it, waits for the duty cycle, or does neither.
LEMMA ScheduleTxKeeps ==
    ASSUME NEW d \in Devices, NEW ch
    PROVE  Keeps(d, schedule_tx(d, ch).dev)
<1> DEFINE wanted == [d EXCEPT !.can_cancel_tx = TRUE]
           granted == [d EXCEPT !.is_srv_ack_requested = FALSE, !.can_cancel_tx = FALSE]
           refused == [d EXCEPT !.conf_status = "ERROR"]
<1>1. Keeps(d, wanted)
  BY ZenonT(120) DEF Keeps, Devices
<1>2. Keeps(d, granted)
  BY ZenonT(120) DEF Keeps, Devices
<1>3. Keeps(d, refused)
  BY ZenonT(120) DEF Keeps, Devices, ConfirmStatuses
<1>4. wait_for_duty_cycle(d) = start(wanted, "backoff")
  BY DEF wait_for_duty_cycle
<1> HIDE DEF wanted, granted, refused
<1>5. Keeps(d, start(wanted, "backoff"))
  BY <1>1, StartKeeps, KeepsTransitive DEF Keeps, Timers
<1>6. Keeps(d, send_frame_on_channel(granted))
  BY <1>2, SendFrameOnChannelKeeps, KeepsTransitive DEF Keeps
<1>7. schedule_tx(d, ch).dev \in {d, refused, wait_for_duty_cycle(d),
                                  send_frame_on_channel(granted)}
  BY Zenon DEF schedule_tx, refused, granted
<1> QED
  BY <1>3, <1>4, <1>5, <1>6, <1>7, KeepsReflexive

\* A Join Request asks for a session and does not begin one.
LEMMA SendJoinRequestKeeps ==
    ASSUME NEW d \in Devices, NEW ch
    PROVE  Keeps(d, send_join_request(d, ch).dev)
<1> DEFINE request == [NoTxBuffer EXCEPT !.join = TRUE]
           framed == [d EXCEPT !.is_node_ack_requested = FALSE, !.tx_buffer = request]
<1>1. request \in TxBuffers
  BY DEF NoTxBuffer, TxBuffers
<1>2. send_join_request(d, ch).dev = schedule_tx(framed, ch).dev
  BY DEF send_join_request
<1> HIDE DEF request
<1>3. Keeps(d, framed)
  BY ZenonT(120), <1>1 DEF Keeps, Devices
<1> HIDE DEF framed
<1> QED
  BY <1>2, <1>3, ScheduleTxKeeps, KeepsTransitive DEF Keeps

\* A retransmission sends a frame of the session again, or another Join Request.
LEMMA HandleRetransmissionKeeps ==
    ASSUME NEW d \in Devices, NEW ch
    PROVE  Keeps(d, handle_retransmission(d, ch).dev)
BY ScheduleTxKeeps, SendJoinRequestKeeps DEF handle_retransmission

\* Building a frame changes the confirmation and tx_buffer only.
LEMMA PrepareFrameKeeps ==
    ASSUME NEW d \in Devices
    PROVE  Keeps(d, prepare_frame(d).dev)
<1> DEFINE wanted == [d EXCEPT !.is_node_ack_requested = (d.tx_type = "CONFIRMED")]
           frame == [join |-> FALSE, msg |-> d.tx_msg, ul |-> d.ul_frame_counter,
                     ack |-> AckBit(d)]
<1>1. wanted \in Devices
  BY ZenonT(120) DEF Devices
<1>2. Keeps(d, wanted)
  BY ZenonT(120), <1>1 DEF Keeps, Devices
<1>3. frame \in TxBuffers
  BY DEF AckBit, TxBuffers, Devices
<1>4. prepare_frame(d).dev \in {wanted, [wanted EXCEPT !.tx_buffer = frame]}
  BY Zenon DEF prepare_frame
<1> HIDE DEF wanted, frame
<1>5. Keeps(wanted, [wanted EXCEPT !.tx_buffer = frame])
  BY ZenonT(120), <1>1, <1>3 DEF Keeps, Devices
<1> QED
  BY <1>2, <1>4, <1>5, KeepsTransitive

\* send() of the MAC, whether it is refused, delayed or carried out.
LEMMA SendOngoingTxKeeps ==
    ASSUME NEW d \in Devices, NEW ch
    PROVE  Keeps(d, send_ongoing_tx(d, ch).dev)
<1> DEFINE retries == IF d.tx_type = "CONFIRMED" THEN d.nb_trials ELSE 1
           reset == [d EXCEPT !.req_type = "UNCONFIRMED", !.conf_status = "ERROR",
                              !.ack_received = FALSE, !.ack_timeout_retry_counter = 1,
                              !.max_ack_timeout_retries = retries]
           prep  == prepare_frame(reset)
           sched == schedule_tx(prep.dev, ch)
           sent  == [sched.dev EXCEPT !.req_type = d.tx_type]
<1>1. retries \in Nat
  BY DEF Devices
<1>2. send_ongoing_tx(d, ch).dev \in {prep.dev, sched.dev, sent}
  BY Zenon DEF send_ongoing_tx
<1> HIDE DEF retries
<1>3. reset \in Devices
  BY ZenonT(120), <1>1 DEF Devices, MessageTypes, ConfirmStatuses
<1>4. Keeps(d, reset)
  BY <1>3 DEF Keeps, Devices
<1> HIDE DEF reset
<1>5. Keeps(d, prep.dev)
  BY <1>3, <1>4, PrepareFrameKeeps, KeepsTransitive
<1> HIDE DEF prep
<1>6. Keeps(d, sched.dev)
  BY <1>5, ScheduleTxKeeps, KeepsTransitive DEF Keeps
<1> HIDE DEF sched
<1>7. sent \in Devices
  BY ZenonT(120), <1>6 DEF Keeps, Devices
<1>8. Keeps(d, sent)
  BY <1>6, <1>7 DEF Keeps, Devices
<1> QED
  BY <1>2, <1>5, <1>6, <1>8

\* The message of the application is stored with a number of trials.
LEMMA PrepareOngoingTxKeeps ==
    ASSUME NEW d \in Devices, NEW msg \in Nat, NEW type \in MessageTypes
    PROVE  Keeps(d, prepare_ongoing_tx(d, msg, type))
<1> DEFINE trials == CASE type = "UNCONFIRMED" -> 1
                       [] type = "CONFIRMED"   -> NumRetry
                       [] type = "PROPRIETARY" -> d.nb_trans
<1>1. trials \in Nat
  BY BoundsAssumption DEF MessageTypes, Devices
<1>2. prepare_ongoing_tx(d, msg, type) =
        [d EXCEPT !.tx_msg = msg, !.tx_type = type, !.nb_trials = trials]
  BY DEF prepare_ongoing_tx
<1> HIDE DEF trials
<1>3. [d EXCEPT !.tx_msg = msg, !.tx_type = type, !.nb_trials = trials] \in Devices
  BY ZenonT(120), <1>1 DEF Devices
<1> QED
  BY ZenonT(120), <1>2, <1>3 DEF Keeps, Devices

\* A message that is dropped from the pipe leaves the session up.
LEMMA DropOngoingTxKeeps ==
    ASSUME NEW d \in Devices
    PROVE  Keeps(d, drop_ongoing_tx(d))
<1> DEFINE stopped == stop(stop(d, "backoff"), "ack")
           emptied == [stopped EXCEPT !.tx_buffer = NoTxBuffer]
<1>1. Keeps(d, stopped)
  BY StopKeeps, KeepsTransitive DEF Keeps, Timers
<1>2. drop_ongoing_tx(d) = reset_ongoing_tx(emptied)
  BY DEF drop_ongoing_tx
<1> HIDE DEF stopped
<1>3. emptied \in Devices
  BY ZenonT(120), <1>1 DEF Keeps, Devices, NoTxBuffer, TxBuffers
<1>4. Keeps(d, emptied)
  BY <1>1, <1>3 DEF Keeps, Devices
<1> HIDE DEF emptied
<1> QED
  BY <1>2, <1>3, <1>4, SetTxOngoingKeeps, KeepsTransitive

\* The same for a cancellation, granted or refused.
LEMMA ClearTxPipeKeeps ==
    ASSUME NEW d \in Devices
    PROVE  Keeps(d, clear_tx_pipe(d).dev)
<1>1. clear_tx_pipe(d).dev \in {d, drop_ongoing_tx(d)}
  BY Zenon DEF clear_tx_pipe
<1> QED
  BY <1>1, DropOngoingTxKeeps, KeepsReflexive

-----------------------------------------------------------------------------
(* The receive windows *)

\* Opening a receive window touches the radio and the slot.
LEMMA OpenWindowKeeps ==
    ASSUME NEW d \in Devices
    PROVE  /\ Keeps(d, open_rx1_window(d))
           /\ Keeps(d, open_rx2_window(d))
<1>1. Keeps(d, open_rx1_window(d))
  <2> DEFINE stopped == stop(d, "rx1")
             opened == [stopped EXCEPT !.demod_ongoing = TRUE,
                                       !.continuous_rx2_window_open = FALSE,
                                       !.rx_slot = "RX1", !.radio = "rx"]
  <2>1. Keeps(d, stopped)
    BY StopKeeps DEF Timers
  <2>2. open_rx1_window(d) = opened
    BY DEF open_rx1_window
  <2> HIDE DEF stopped
  <2>3. opened \in Devices
    BY ZenonT(120), <2>1 DEF Keeps, Devices, RadioModes
  <2>4. Keeps(d, opened)
    BY <2>1, <2>3 DEF Keeps, Devices
  <2> QED
    BY <2>2, <2>4
<1>2. Keeps(d, open_rx2_window(d))
  <2> DEFINE stopped == stop(d, "rx2")
             slot == IF d.device_class = "C" THEN "CLASS_C" ELSE "RX2"
             mode == IF d.device_class = "C" THEN "rx_continuous" ELSE "rx"
             opened == [stopped EXCEPT !.continuous_rx2_window_open = TRUE,
                                       !.rx_slot = slot, !.radio = mode]
  <2>1. Keeps(d, stopped)
    BY StopKeeps DEF Timers
  <2>2. slot \in {"RX1", "RX2", "CLASS_C"} /\ mode \in RadioModes
    BY DEF RadioModes
  <2>3. open_rx2_window(d) \in {d, opened}
    BY Zenon DEF open_rx2_window
  <2> HIDE DEF stopped, slot, mode
  <2>4. opened \in Devices
    BY ZenonT(120), <2>1, <2>2 DEF Keeps, Devices
  <2>5. Keeps(d, opened)
    BY <2>1, <2>4 DEF Keeps, Devices
  <2> QED
    BY <2>3, <2>5, KeepsReflexive
<1> QED
  BY <1>1, <1>2

\* After a transmission the radio rests, in class A and in class C.
LEMMA RestRadioKeeps ==
    ASSUME NEW d \in Devices
    PROVE  Keeps(d, rest_radio(d))
BY OpenWindowKeeps, PutRadioToSleepKeeps DEF rest_radio

\* The closure of the RX2 window of class C is a timer like the others.
LEMMA StartClosureKeeps ==
    ASSUME NEW d \in Devices
    PROVE  Keeps(d, start_closure(d))
BY StartKeeps, KeepsReflexive DEF start_closure, Timers

\* The end of a transmission starts the windows of the session it belongs to.
LEMMA OnRadioTxDoneKeeps ==
    ASSUME NEW d \in Devices
    PROVE  Keeps(d, on_radio_tx_done(d))
<1> DEFINE rest == rest_radio(d)
           count == IF d.req_type = "UNCONFIRMED" /\ d.nb_trans > 1
                    THEN rest.ul_nb_rep_counter + 1 ELSE rest.ul_nb_rep_counter
           counted == [rest EXCEPT !.ul_nb_rep_counter = count]
           rx1 == start(counted, "rx1")
           rx2 == start(rx1, "rx2")
           windows == start_closure(rx2)
<1>1. Keeps(d, rest)
  BY RestRadioKeeps
<1>2. counted = [rest EXCEPT !.ul_nb_rep_counter =
                   IF d.req_type = "UNCONFIRMED" /\ d.nb_trans > 1 THEN @ + 1 ELSE @]
  OBVIOUS
<1>3. on_radio_tx_done(d) \in {windows, start(windows, "ack")}
  BY <1>2, Zenon DEF on_radio_tx_done
<1> HIDE DEF rest
<1>4. count \in Nat
  <2>1. rest.ul_nb_rep_counter \in Nat
    BY <1>1 DEF Keeps, Devices
  <2> QED
    BY <2>1
<1> HIDE DEF count
<1>5. counted \in Devices
  BY ZenonT(120), <1>1, <1>4 DEF Keeps, Devices
<1>6. Keeps(d, counted)
  BY <1>1, <1>5 DEF Keeps, Devices
<1> HIDE DEF counted
<1>7. Keeps(d, rx2)
  BY <1>6, StartKeeps, KeepsTransitive DEF Keeps, Timers
<1> HIDE DEF rx2
<1>8. Keeps(d, windows)
  BY <1>7, StartClosureKeeps, KeepsTransitive DEF Keeps
<1> HIDE DEF windows
<1>9. Keeps(d, start(windows, "ack"))
  BY <1>8, StartKeeps, KeepsTransitive DEF Keeps, Timers
<1> QED
  BY <1>3, <1>8, <1>9

\* A radio that fails to transmit ends a transmission, not a session.
LEMMA OnRadioTxTimeoutKeeps ==
    ASSUME NEW d \in Devices
    PROVE  Keeps(d, on_radio_tx_timeout(d))
<1> DEFINE windows == stop(stop(d, "rx1"), "rx2")
           stopped == stop(stop(windows, "rx2_closure"), "ack")
           rest == rest_radio(stopped)
           failed == [rest EXCEPT !.conf_status = "TX_TIMEOUT", !.ack_received = FALSE]
<1>1. on_radio_tx_timeout(d) = failed
  BY DEF on_radio_tx_timeout
<1>2. Keeps(d, windows)
  BY StopKeeps, KeepsTransitive DEF Keeps, Timers
<1> HIDE DEF windows
<1>3. Keeps(d, stopped)
  <2>1. Keeps(d, stop(windows, "rx2_closure"))
    BY <1>2, StopKeeps, KeepsTransitive DEF Keeps, Timers
  <2> QED
    BY <2>1, StopKeeps, KeepsTransitive DEF Keeps, Timers
<1> HIDE DEF stopped
<1>4. Keeps(d, rest)
  BY <1>3, RestRadioKeeps, KeepsTransitive DEF Keeps
<1> HIDE DEF rest
<1>5. failed \in Devices
  BY ZenonT(120), <1>4 DEF Keeps, Devices, ConfirmStatuses
<1>6. Keeps(d, failed)
  BY <1>4, <1>5 DEF Keeps, Devices
<1> QED
  BY <1>1, <1>6

\* An empty receive window changes no session.
LEMMA OnRadioRxTimeoutKeeps ==
    ASSUME NEW d \in Devices
    PROVE  Keeps(d, on_radio_rx_timeout(d))
<1> DEFINE mode == IF d.device_class = "A" THEN "sleep" ELSE d.radio
           status == IF d.is_node_ack_requested THEN "ERROR" ELSE d.conf_status
           quiet == [d EXCEPT !.demod_ongoing = FALSE, !.radio = mode,
                              !.conf_status = status]
<1>1. mode \in RadioModes
  BY DEF Devices, RadioModes
<1>2. status \in ConfirmStatuses
  BY DEF Devices, ConfirmStatuses
<1>3. on_radio_rx_timeout(d) \in {quiet, stop(quiet, "rx2")}
  BY Zenon DEF on_radio_rx_timeout, quiet, mode, status
<1> HIDE DEF mode, status
<1>4. quiet \in Devices
  BY ZenonT(120), <1>1, <1>2 DEF Devices
<1>5. Keeps(d, quiet)
  BY <1>4 DEF Keeps, Devices
<1> HIDE DEF quiet
<1>6. Keeps(d, stop(quiet, "rx2"))
  BY <1>5, StopKeeps, KeepsTransitive DEF Keeps, Timers
<1> QED
  BY <1>3, <1>5, <1>6

-----------------------------------------------------------------------------
(* Reception *)

\* A valid frame closes the windows that remain.
LEMMA StopRxWindowsKeeps ==
    ASSUME NEW d \in Devices
    PROVE  Keeps(d, stop_rx_windows(d))
<1> DEFINE windows == IF d.rx_slot = "RX1" THEN stop(d, "rx2")
                                           ELSE stop(stop(d, "rx1"), "rx2")
<1>1. Keeps(d, windows)
  <2>1. Keeps(d, stop(d, "rx2"))
    BY StopKeeps DEF Timers
  <2>2. Keeps(d, stop(stop(d, "rx1"), "rx2"))
    BY StopKeeps, KeepsTransitive DEF Keeps, Timers
  <2> QED
    BY <2>1, <2>2
<1>2. stop_rx_windows(d) \in {windows, stop(windows, "rx2_closure")}
  BY Zenon DEF stop_rx_windows
<1> HIDE DEF windows
<1>3. Keeps(d, stop(windows, "rx2_closure"))
  BY <1>1, StopKeeps, KeepsTransitive DEF Keeps, Timers
<1> QED
  BY <1>1, <1>2, <1>3

\* A data frame, of the session or foreign, does not change the session.
LEMMA HandleDataFrameKeeps ==
    ASSUME NEW d \in Devices, NEW f \in Frames
    PROVE  Keeps(d, handle_data_frame(d, f).dev)
<1> DEFINE addressed == [d EXCEPT !.ack_received = FALSE, !.is_ack_recvd = FALSE,
                                  !.conf_status = "OK",
                                  !.is_srv_ack_requested = f.confirmed]
           acked == d.is_node_ack_requested /\ f.ack
           quiet == stop_rx_windows(addressed)
           counter == DownlinkCounter(d, f)
           trans == IF f.nb > 0 THEN f.nb ELSE quiet.nb_trans
           uplink == quiet.mlme_ind_pending \/ f.sticky
           taken == [quiet EXCEPT
                       !.dl_frame_counter = counter,
                       !.ack_received = acked, !.is_ack_recvd = acked,
                       !.nb_trans = trans, !.mlme_ind_pending = uplink]
<1>1. handle_data_frame(d, f).dev \in {d, addressed, taken, stop(taken, "ack")}
  BY Zenon DEF handle_data_frame
<1>2. f.confirmed \in BOOLEAN /\ f.ack \in BOOLEAN /\ f.sticky \in BOOLEAN /\ f.nb \in Nat
  BY BoundsAssumption DEF Frames
<1>3. addressed \in Devices
  BY ZenonT(120), <1>2 DEF Devices, ConfirmStatuses
<1>4. Keeps(d, addressed)
  BY <1>3 DEF Keeps, Devices
<1> HIDE DEF addressed
<1>5. Keeps(d, quiet)
  BY <1>3, <1>4, StopRxWindowsKeeps, KeepsTransitive
<1> HIDE DEF quiet
<1>6. counter \in {0, 1}
  BY DEF DownlinkCounter, Devices
<1>7. trans \in Nat
  <2>1. quiet.nb_trans \in Nat
    BY <1>5 DEF Keeps, Devices
  <2> QED
    BY <1>2, <2>1
<1>8. acked \in BOOLEAN /\ uplink \in BOOLEAN
  OBVIOUS
<1> HIDE DEF acked, counter, trans, uplink
<1>9. taken \in Devices
  BY ZenonT(120), <1>5, <1>6, <1>7, <1>8 DEF Keeps, Devices
<1>10. Keeps(d, taken)
  BY <1>5, <1>9 DEF Keeps, Devices
<1> HIDE DEF taken
<1>11. Keeps(d, stop(taken, "ack"))
  BY <1>10, StopKeeps, KeepsTransitive DEF Keeps, Timers
<1> QED
  BY <1>1, <1>4, <1>10, <1>11, KeepsReflexive

\* Only a Join Accept with a right MIC joins the network; the stack's session
\* follows in mlme_confirm_handler().
LEMMA HandleJoinAcceptFrameJoins ==
    ASSUME NEW d \in Devices, NEW f
    PROVE  LET e == handle_join_accept_frame(d, f)
           IN  /\ e \in Devices
               /\ e.nwk_joined = (d.nwk_joined \/ f.kind = "accept")
               /\ e.session_active = d.session_active
               /\ e.flags \cap LinkFlags = d.flags \cap LinkFlags
<1> DEFINE stopped == stop(d, "rx2")
           joined == [stopped EXCEPT !.nwk_joined = TRUE, !.ul_frame_counter = 0,
                                     !.ul_nb_rep_counter = 0]
<1>1. Keeps(d, stopped)
  BY StopKeeps DEF Timers
<1>2. handle_join_accept_frame(d, f) = IF f.kind = "accept" THEN joined ELSE d
  BY DEF handle_join_accept_frame
<1> HIDE DEF stopped
<1>3. joined \in Devices
  BY ZenonT(120), <1>1 DEF Keeps, Devices
<1>4. /\ joined.nwk_joined = TRUE
      /\ joined.session_active = d.session_active
      /\ joined.flags \cap LinkFlags = d.flags \cap LinkFlags
  BY <1>1 DEF Keeps, Devices
<1> HIDE DEF joined
<1>5. d.nwk_joined \in BOOLEAN
  BY DEF Devices
<1> QED
  BY <1>2, <1>3, <1>4, <1>5

\* A received frame joins the network, or leaves the session alone.
LEMMA OnRadioRxDoneJoins ==
    ASSUME NEW d \in Devices, NEW f \in Frames
    PROVE  LET e == on_radio_rx_done(d, f).dev
           IN  /\ e \in Devices
               /\ e.nwk_joined = (d.nwk_joined \/ f.kind = "accept")
               /\ e.session_active = d.session_active
               /\ e.flags \cap LinkFlags = d.flags \cap LinkFlags
<1> DEFINE heard == [d EXCEPT !.demod_ongoing = FALSE]
           closed == stop(heard, "rx2_closure")
           first == stop(heard, "rx1")
           ready == IF d.device_class = "C"
                    THEN IF d.continuous_rx2_window_open THEN heard
                         ELSE open_rx2_window(closed)
                    ELSE put_radio_to_sleep(first)
<1>1. heard \in Devices
  BY ZenonT(120) DEF Devices
<1>2. Keeps(d, heard)
  BY <1>1 DEF Keeps, Devices
<1>3. on_radio_rx_done(d, f).dev =
        CASE JoinFrame(f) /\ d.nwk_joined  -> ready
          [] JoinFrame(f) /\ ~d.nwk_joined -> handle_join_accept_frame(ready, f)
          [] OTHER                         -> handle_data_frame(ready, f).dev
  BY Zenon DEF on_radio_rx_done
<1> HIDE DEF heard
<1>4. Keeps(d, closed) /\ Keeps(d, first)
  BY <1>1, <1>2, StopKeeps, KeepsTransitive DEF Timers
<1> HIDE DEF closed, first
<1>5. Keeps(d, ready)
  <2>1. Keeps(d, open_rx2_window(closed))
    BY <1>4, OpenWindowKeeps, KeepsTransitive DEF Keeps
  <2>2. Keeps(d, put_radio_to_sleep(first))
    BY <1>4, PutRadioToSleepKeeps, KeepsTransitive DEF Keeps
  <2> QED
    BY <1>2, <2>1, <2>2
<1> HIDE DEF ready
<1>6. CASE JoinFrame(f) /\ ~d.nwk_joined
  <2> DEFINE answered == handle_join_accept_frame(ready, f)
  <2>1. ready \in Devices
    BY <1>5 DEF Keeps
  <2>2. /\ answered \in Devices
        /\ answered.nwk_joined = (ready.nwk_joined \/ f.kind = "accept")
        /\ answered.session_active = ready.session_active
        /\ answered.flags \cap LinkFlags = ready.flags \cap LinkFlags
    BY <2>1, HandleJoinAcceptFrameJoins
  <2>3. on_radio_rx_done(d, f).dev = answered
    BY <1>3, <1>6
  <2> HIDE DEF answered
  <2> QED
    BY <1>5, <2>2, <2>3 DEF Keeps
<1>7. CASE JoinFrame(f) /\ d.nwk_joined
  BY <1>3, <1>5, <1>7 DEF Keeps
<1>8. CASE ~JoinFrame(f)
  <2>1. Keeps(d, handle_data_frame(ready, f).dev)
    BY <1>5, HandleDataFrameKeeps, KeepsTransitive DEF Keeps
  <2> QED
    BY ZenonT(120), <1>3, <1>8, <2>1 DEF Keeps, JoinFrame, Devices
<1> QED
  BY <1>6, <1>7, <1>8 DEF Devices

-----------------------------------------------------------------------------
(* Retrying, joining, completing *)

\* Asking whether a retry is left may stop the ACK timer only.
LEMMA ContinueSendingProcessKeeps ==
    ASSUME NEW d \in Devices
    PROVE  Keeps(d, continue_sending_process(d).dev)
BY StopKeeps, KeepsReflexive DEF continue_sending_process, Timers

\* A further Join Request, or none, leaves the connection in progress.
LEMMA ContinueJoiningProcessKeeps ==
    ASSUME NEW d \in Devices, NEW ch
    PROVE  Keeps(d, continue_joining_process(d, ch).dev)
BY HandleRetransmissionKeeps, KeepsReflexive DEF continue_joining_process

\* The ACK timeout retransmits up to three times over.
LEMMA OnAckTimeoutKeeps ==
    ASSUME NEW d \in Devices, NEW ch
    PROVE  Keeps(d, on_ack_timeout_timer_event(d, ch).dev)
<1> DEFINE stopped == stop(d, "ack")
           first == handle_retransmission(stopped, ch[1]).dev
           noAck == [first EXCEPT !.is_node_ack_requested = FALSE, !.ack_received = FALSE]
           second == handle_retransmission(noAck, ch[2]).dev
           third == handle_retransmission(second, ch[3]).dev
           counted(x) == [x EXCEPT !.ack_timeout_retry_counter = @ + 1]
<1>1. on_ack_timeout_timer_event(d, ch).dev \in
        {d, first, second, counted(first), counted(third)}
  BY Zenon DEF on_ack_timeout_timer_event
<1>2. Keeps(d, stopped)
  BY StopKeeps DEF Timers
<1> HIDE DEF stopped
<1>3. Keeps(d, first)
  BY <1>2, HandleRetransmissionKeeps, KeepsTransitive DEF Keeps
<1> HIDE DEF first
<1>4. noAck \in Devices
  BY ZenonT(120), <1>3 DEF Keeps, Devices
<1>5. Keeps(d, noAck)
  BY <1>3, <1>4 DEF Keeps, Devices
<1> HIDE DEF noAck
<1>6. Keeps(d, second)
  BY <1>4, <1>5, HandleRetransmissionKeeps, KeepsTransitive
<1> HIDE DEF second
<1>7. Keeps(d, third)
  BY <1>6, HandleRetransmissionKeeps, KeepsTransitive DEF Keeps
<1> HIDE DEF third
<1>8. ASSUME NEW x, Keeps(d, x)
      PROVE  Keeps(d, counted(x))
  <2> DEFINE next == x.ack_timeout_retry_counter + 1
             updated == [x EXCEPT !.ack_timeout_retry_counter = next]
  <2>1. x \in Devices
    BY <1>8 DEF Keeps
  <2>2. next \in Nat
    <3>1. x.ack_timeout_retry_counter \in Nat
      BY <2>1 DEF Devices
    <3> QED
      BY <3>1
  <2>3. counted(x) = updated
    OBVIOUS
  <2> HIDE DEF next, counted
  <2>4. updated \in Devices
    BY ZenonT(120), <2>1, <2>2 DEF Devices
  <2>5. Keeps(x, updated)
    BY <2>1, <2>4 DEF Keeps, Devices
  <2> QED
    BY <1>8, <2>3, <2>5, KeepsTransitive
<1> HIDE DEF counted
<1> QED
  BY <1>1, <1>3, <1>6, <1>7, <1>8, KeepsReflexive

\* The transmission that waited for the duty cycle belongs to the session.
LEMMA OnBackoffTimerExpiryKeeps ==
    ASSUME NEW d \in Devices, NEW ch
    PROVE  Keeps(d, on_backoff_timer_expiry(d, ch).dev)
<1>1. Keeps(d, stop(d, "backoff"))
  BY StopKeeps DEF Timers
<1> QED
  BY <1>1, ScheduleTxKeeps, KeepsTransitive DEF Keeps, on_backoff_timer_expiry

\* Counting an uplink does not touch the session.
LEMMA CountUplinkKeeps ==
    ASSUME NEW d \in Devices
    PROVE  Keeps(d, count_uplink(d))
<1> DEFINE next == d.ul_frame_counter + 1
<1>1. next \in Nat
  <2>1. d.ul_frame_counter \in Nat
    BY DEF Devices
  <2> QED
    BY <2>1
<1>2. count_uplink(d) = [d EXCEPT !.ul_frame_counter = next]
  BY DEF count_uplink
<1> HIDE DEF next
<1>3. [d EXCEPT !.ul_frame_counter = next] \in Devices
  BY ZenonT(120), <1>1 DEF Devices
<1>4. Keeps(d, [d EXCEPT !.ul_frame_counter = next])
  BY <1>3 DEF Keeps, Devices
<1> QED
  BY <1>2, <1>4

\* The confirmation of a finished transmission is computed within the session.
LEMMA PostProcessMcpsReqKeeps ==
    ASSUME NEW d \in Devices
    PROVE  Keeps(d, post_process_mcps_req(d))
<1> DEFINE acked == d.req_type = "CONFIRMED" /\ d.ack_received
           status == IF d.req_type = "CONFIRMED" /\ ~acked THEN "ERROR" ELSE "OK"
           requested == d.is_node_ack_requested /\ ~acked
           received == d.ack_received /\ ~acked
           recvd == d.is_ack_recvd /\ ~acked
           processed == [d EXCEPT !.conf_status = status,
                                  !.is_node_ack_requested = requested,
                                  !.ack_received = received, !.is_ack_recvd = recvd]
<1>1. post_process_mcps_req(d) = count_uplink(processed)
  BY DEF post_process_mcps_req
<1>2. status \in ConfirmStatuses
  BY DEF ConfirmStatuses
<1>3. requested \in BOOLEAN /\ received \in BOOLEAN /\ recvd \in BOOLEAN
  OBVIOUS
<1> HIDE DEF acked, status, requested, received, recvd
<1>4. processed \in Devices
  BY ZenonT(120), <1>2, <1>3 DEF Devices
<1>5. Keeps(d, processed)
  BY <1>4 DEF Keeps, Devices
<1> HIDE DEF processed
<1> QED
  BY <1>1, <1>4, <1>5, CountUplinkKeeps, KeepsTransitive

\* The remembered number of repetitions is data of the MAC.
LEMMA RememberQOSKeeps ==
    ASSUME NEW d \in Devices
    PROVE  Keeps(d, remember_QOS(d))
<1>1. remember_QOS(d) \in Devices
  BY ZenonT(120) DEF remember_QOS, Devices
<1> QED
  BY <1>1 DEF remember_QOS, Keeps, Devices

\* A reset of the MAC ends its session; the stack's copy is the caller's affair.
LEMMA PrepareJoinLeaves ==
    ASSUME NEW d \in Devices
    PROVE  /\ prepare_join(d) \in Devices
           /\ prepare_join(d).nwk_joined = FALSE
           /\ prepare_join(d).session_active = d.session_active
           /\ prepare_join(d).flags = d.flags
<1> DEFINE reset == reset_mac_parameters(d)
<1>1. reset \in Devices
  BY ZenonT(120) DEF reset_mac_parameters, Devices
<1>2. /\ reset.nwk_joined = FALSE
      /\ reset.session_active = d.session_active
      /\ reset.flags = d.flags
  BY DEF reset_mac_parameters, Devices
<1>3. prepare_join(d) = [reset EXCEPT !.join_request_trial_counter = 0]
  BY DEF prepare_join
<1> HIDE DEF reset
<1>4. [reset EXCEPT !.join_request_trial_counter = 0] \in Devices
  BY ZenonT(120), <1>1 DEF Devices
<1> QED
  BY ZenonT(120), <1>1, <1>2, <1>3, <1>4 DEF Devices

\* The MAC's part of a disconnection.
LEMMA DisconnectLeaves ==
    ASSUME NEW d \in Devices
    PROVE  disconnect(d) \in Devices /\ disconnect(d).nwk_joined = FALSE
<1> DEFINE windows == stop(stop(d, "backoff"), "rx1")
           stopped == stop(stop(windows, "rx2"), "ack")
           asleep == put_radio_to_sleep(stopped)
           parted == [asleep EXCEPT !.nwk_joined = FALSE, !.is_node_ack_requested = FALSE,
                                    !.is_srv_ack_requested = FALSE]
           left == [parted EXCEPT !.req_type = "UNCONFIRMED", !.conf_status = "ERROR",
                                  !.ack_received = FALSE, !.is_ack_recvd = FALSE]
<1>1. disconnect(d) = left
  BY DEF disconnect
<1>2. windows \in Devices
  BY StopKeeps DEF Keeps, Timers
<1> HIDE DEF windows
<1>3. stopped \in Devices
  BY <1>2, StopKeeps DEF Keeps, Timers
<1> HIDE DEF stopped
<1>4. asleep \in Devices
  BY <1>3, PutRadioToSleepKeeps DEF Keeps
<1> HIDE DEF asleep
<1>5. parted \in Devices /\ parted.nwk_joined = FALSE
  BY ZenonT(120), <1>4 DEF Devices
<1> HIDE DEF parted
<1>6. left \in Devices
  BY ZenonT(120), <1>5 DEF Devices, MessageTypes, ConfirmStatuses
<1>7. left.nwk_joined = FALSE
  BY <1>5 DEF Devices
<1> QED
  BY <1>1, <1>6, <1>7

\* A change of class keeps the session.
LEMMA SetDeviceClassKeeps ==
    ASSUME NEW d \in Devices, NEW class \in {"A", "C"}
    PROVE  Keeps(d, set_device_class(d, class))
<1> DEFINE closed == init(d, "rx2_closure")
           slept == [closed EXCEPT !.device_class = class, !.radio = "sleep"]
           silent == [slept EXCEPT !.is_node_ack_requested = FALSE]
<1>1. set_device_class(d, class) \in {slept, open_rx2_window(silent)}
  BY Zenon DEF set_device_class
<1>2. Keeps(d, closed)
  BY InitKeeps DEF Timers
<1> HIDE DEF closed
<1>3. slept \in Devices
  BY ZenonT(120), <1>2 DEF Keeps, Devices, RadioModes
<1>4. Keeps(d, slept)
  BY <1>2, <1>3 DEF Keeps, Devices
<1> HIDE DEF slept
<1>5. silent \in Devices
  BY ZenonT(120), <1>3 DEF Devices
<1>6. Keeps(d, silent)
  BY <1>3, <1>4, <1>5 DEF Keeps, Devices
<1> HIDE DEF silent
<1>7. Keeps(d, open_rx2_window(silent))
  BY <1>5, <1>6, OpenWindowKeeps, KeepsTransitive
<1> QED
  BY <1>1, <1>4, <1>7

-----------------------------------------------------------------------------
(* The stack: states, flags, confirmations *)

\* The state of the controller is not a copy of the session state.
LEMMA SetStateKeeps ==
    ASSUME NEW d \in Devices, NEW s \in DeviceStates
    PROVE  Keeps(d, set_state(d, s))
<1>1. set_state(d, s) \in Devices
  BY ZenonT(120) DEF set_state, Devices
<1> QED
  BY <1>1 DEF set_state, Keeps, Devices

\* The flags of a transmission are no part of the session.
LEMMA FlagsKeep ==
    ASSUME NEW d \in Devices, NEW some \in SUBSET (CtrlFlags \ LinkFlags)
    PROVE  /\ Keeps(d, set_flags(d, some))
           /\ Keeps(d, clear_flags(d, some))
<1>1. ASSUME NEW g \in SUBSET CtrlFlags, g \cap LinkFlags = d.flags \cap LinkFlags
      PROVE  Keeps(d, [d EXCEPT !.flags = g])
  <2> DEFINE e == [d EXCEPT !.flags = g]
  <2>1. e \in Devices
    BY ZenonT(120) DEF Devices
  <2>2. /\ e.flags = g
        /\ e.nwk_joined = d.nwk_joined
        /\ e.session_active = d.session_active
    BY DEF Devices
  <2> HIDE DEF e
  <2>3. Keeps(d, e)
    BY <1>1, <2>1, <2>2 DEF Keeps
  <2> QED
    BY <2>3 DEF e
<1>2. d.flags \in SUBSET CtrlFlags
  BY DEF Devices
<1>3. Keeps(d, set_flags(d, some))
  BY <1>1, <1>2 DEF set_flags
<1>4. Keeps(d, clear_flags(d, some))
  BY <1>1, <1>2 DEF clear_flags
<1> QED
  BY <1>3, <1>4

\* The controller returns to its resting state within the session.
LEMMA RunToCompletionKeeps ==
    ASSUME NEW d \in Devices
    PROVE  Keeps(d, state_machine_run_to_completion(d))
BY SetStateKeeps DEF state_machine_run_to_completion, DeviceStates

\* Every confirmation status has an event of its own.
LEMMA McpsConfirmHandlerKeeps ==
    ASSUME NEW d \in Devices
    PROVE  Keeps(d, mcps_confirm_handler(d))
<1> DEFINE event == CASE d.conf_status = "OK"         -> "TX_DONE"
                      [] d.conf_status = "TX_TIMEOUT" -> "TX_TIMEOUT"
                      [] d.conf_status = "ERROR"      -> "TX_ERROR"
<1>1. d.conf_status \in ConfirmStatuses
  BY DEF Devices
<1>2. event \in AppEvents
  BY <1>1 DEF ConfirmStatuses, AppEvents
<1>3. mcps_confirm_handler(d) = send_event_to_application(d, event)
  BY DEF mcps_confirm_handler
<1> HIDE DEF event
<1> QED
  BY <1>2, <1>3, SendEventKeeps

\* An automatic uplink is asked for by a call of its own.
LEMMA ScheduleAutomaticUplinkKeeps ==
    ASSUME NEW d \in Devices
    PROVE  Keeps(d, schedule_automatic_uplink(d))
<1> DEFINE ongoing == [d EXCEPT !.automatic_uplink_ongoing = TRUE]
           call == [fn |-> "send_automatic_uplink_message"]
<1>1. ongoing \in Devices
  BY ZenonT(120) DEF Devices
<1>2. Keeps(d, ongoing)
  BY <1>1 DEF Keeps, Devices
<1>3. call \in Calls
  BY DEF Calls
<1>4. schedule_automatic_uplink(d) = post(ongoing, call)
  BY DEF schedule_automatic_uplink
<1> HIDE DEF ongoing, call
<1> QED
  BY <1>1, <1>2, <1>3, <1>4, PostKeeps, KeepsTransitive

\* A message for the application is announced, and may ask for an uplink.
LEMMA McpsIndicationHandlerKeeps ==
    ASSUME NEW d \in Devices, NEW f
    PROVE  Keeps(d, mcps_indication_handler(d, f))
<1> DEFINE told == IF f.payload THEN send_event_to_application(d, "RX_DONE") ELSE d
<1>1. Keeps(d, told)
  BY SendEventKeeps, KeepsReflexive DEF AppEvents
<1>2. mcps_indication_handler(d, f) \in {told, schedule_automatic_uplink(told)}
  BY Zenon DEF mcps_indication_handler
<1> HIDE DEF told
<1> QED
  BY <1>1, <1>2, ScheduleAutomaticUplinkKeeps, KeepsTransitive DEF Keeps

\* The end of a transmission frees its slot.
LEMMA EndTxKeeps ==
    ASSUME NEW d \in Devices
    PROVE  Keeps(d, end_tx(d))
BY SetTxOngoingKeeps, KeepsTransitive DEF end_tx, Keeps

\* The status check reports and indicates; it neither connects nor disconnects.
LEMMA ProcessStatusCheckKeeps ==
    ASSUME NEW d \in Devices, NEW f
    PROVE  Keeps(d, process_status_check_state(d, f))
<1> DEFINE cleared == clear_flags(d, {"TX_DONE", "RETRY_EXHAUSTED"})
           ended == end_tx(cleared)
           uplinked == [ended EXCEPT !.automatic_uplink_ongoing = FALSE]
           over == d.flags \cap {"TX_DONE", "RETRY_EXHAUSTED"} # {}
           reported == CASE ~over -> d
                         [] over /\ ended.automatic_uplink_ongoing -> uplinked
                         [] OTHER -> mcps_confirm_handler(ended)
           heard == clear_flags(reported, {"MSG_RECVD"})
           sent == end_tx(clear_flags(d, {"TX_DONE"}))
<1>1. process_status_check_state(d, f) \in
        {mcps_confirm_handler(sent), mcps_indication_handler(heard, f), reported, d}
  BY Zenon DEF process_status_check_state
<1>2. Keeps(d, ended)
  <2>1. Keeps(d, cleared)
    BY FlagsKeep DEF CtrlFlags, LinkFlags
  <2> HIDE DEF cleared
  <2> QED
    BY <2>1, EndTxKeeps, KeepsTransitive DEF Keeps
<1>3. Keeps(d, sent)
  <2>1. Keeps(d, clear_flags(d, {"TX_DONE"}))
    BY FlagsKeep DEF CtrlFlags, LinkFlags
  <2> QED
    BY <2>1, EndTxKeeps, KeepsTransitive DEF Keeps
<1> HIDE DEF ended, sent
<1>4. Keeps(d, uplinked)
  <2>1. uplinked \in Devices
    BY ZenonT(120), <1>2 DEF Keeps, Devices
  <2> QED
    BY <1>2, <2>1 DEF Keeps, Devices
<1>5. Keeps(d, mcps_confirm_handler(ended))
  BY <1>2, McpsConfirmHandlerKeeps, KeepsTransitive DEF Keeps
<1>6. Keeps(d, reported)
  <2>1. reported \in {d, uplinked, mcps_confirm_handler(ended)}
    BY Zenon
  <2> QED
    BY <2>1, <1>4, <1>5, KeepsReflexive
<1> HIDE DEF reported
<1>7. Keeps(d, heard)
  <2>1. Keeps(reported, heard)
    BY <1>6, FlagsKeep DEF Keeps, CtrlFlags, LinkFlags
  <2> QED
    BY <1>6, <2>1, KeepsTransitive
<1> HIDE DEF heard
<1>8. Keeps(d, mcps_indication_handler(heard, f))
  BY <1>7, McpsIndicationHandlerKeeps, KeepsTransitive DEF Keeps
<1>9. Keeps(d, mcps_confirm_handler(sent))
  BY <1>3, McpsConfirmHandlerKeeps, KeepsTransitive DEF Keeps
<1> QED
  BY <1>1, <1>6, <1>8, <1>9, KeepsReflexive

\* The same where no frame was received.
LEMMA StatusCheckKeeps ==
    ASSUME NEW d \in Devices
    PROVE  Keeps(d, STATUS_CHECK(d))
BY ProcessStatusCheckKeeps DEF STATUS_CHECK

-----------------------------------------------------------------------------
(* Sending *)

\* Scheduling a message, accepted or not, keeps the session.
LEMMA ProcessSchedulingStateKeeps ==
    ASSUME NEW d \in Devices, NEW ch
    PROVE  Keeps(d, process_scheduling_state(d, ch).dev)
<1> DEFINE sent == send_ongoing_tx(d, ch).dev
           cleared == clear_flags(sent, {"TX_DONE"})
           ongoing == set_tx_ongoing(cleared, TRUE)
<1>1. process_scheduling_state(d, ch).dev \in {d, sent, set_state(ongoing, "SENDING")}
  BY Zenon DEF process_scheduling_state
<1>2. Keeps(d, sent)
  BY SendOngoingTxKeeps
<1> HIDE DEF sent
<1>3. Keeps(d, cleared)
  <2>1. Keeps(sent, cleared)
    BY <1>2, FlagsKeep DEF Keeps, CtrlFlags, LinkFlags
  <2> QED
    BY <1>2, <2>1, KeepsTransitive
<1> HIDE DEF cleared
<1>4. Keeps(d, ongoing)
  BY <1>3, SetTxOngoingKeeps, KeepsTransitive DEF Keeps
<1> HIDE DEF ongoing
<1>5. Keeps(d, set_state(ongoing, "SENDING"))
  BY <1>4, SetStateKeeps, KeepsTransitive DEF Keeps, DeviceStates
<1> QED
  BY <1>1, <1>2, <1>5, KeepsReflexive

\* So does send(), with every answer it has.
LEMMA HandleTxKeeps ==
    ASSUME NEW d \in Devices, NEW msg \in Nat, NEW type \in MessageTypes, NEW ch
    PROVE  Keeps(d, handle_tx(d, msg, type, ch).dev)
<1> DEFINE counted == [d EXCEPT !.qos_cnt = 1]
           prepared == prepare_ongoing_tx(counted, msg, type)
<1>1. handle_tx(d, msg, type, ch).dev \in
        {d, counted, process_scheduling_state(prepared, ch).dev}
  BY Zenon DEF handle_tx
<1>2. counted \in Devices
  BY ZenonT(120) DEF Devices
<1>3. Keeps(d, counted)
  BY <1>2 DEF Keeps, Devices
<1> HIDE DEF counted
<1>4. Keeps(d, prepared)
  BY <1>2, <1>3, PrepareOngoingTxKeeps, KeepsTransitive
<1> HIDE DEF prepared
<1>5. Keeps(d, process_scheduling_state(prepared, ch).dev)
  BY <1>4, ProcessSchedulingStateKeeps, KeepsTransitive DEF Keeps
<1> QED
  BY <1>1, <1>3, <1>5, KeepsReflexive

\* Every status of the MAC but OK reaches the caller of send() as an ERROR.
LEMMA HandleTxStatus ==
    ASSUME NEW d, NEW msg, NEW type, NEW ch
    PROVE  handle_tx(d, msg, type, ch).status \in {"OK", "WOULD_BLOCK", "ERROR"}
<1>1. ASSUME NEW e
      PROVE  process_scheduling_state(e, ch).status \in {"OK", "ERROR"}
  BY DEF process_scheduling_state
<1> QED
  BY <1>1 DEF handle_tx

\* An automatic uplink is sent, given up or reported as failed.
LEMMA SendAutomaticUplinkKeeps ==
    ASSUME NEW d \in Devices, NEW ch
    PROVE  Keeps(d, send_automatic_uplink_message(d, ch))
<1> DEFINE sent == handle_tx(d, AutomaticUplink, "CONFIRMED", ch)
           over == [sent.dev EXCEPT !.automatic_uplink_ongoing = FALSE]
<1>1. sent.status \in {"OK", "WOULD_BLOCK", "ERROR"} =>
        send_automatic_uplink_message(d, ch) \in
          {sent.dev, over, send_event_to_application(sent.dev, "AUTOMATIC_UPLINK_ERROR")}
  BY Zenon DEF send_automatic_uplink_message
<1>2. Keeps(d, sent.dev)
  BY HandleTxKeeps DEF AutomaticUplink, MessageTypes
<1>3. sent.status \in {"OK", "WOULD_BLOCK", "ERROR"}
  BY HandleTxStatus
<1> HIDE DEF sent
<1>4. over \in Devices
  BY ZenonT(120), <1>2 DEF Keeps, Devices
<1>5. Keeps(d, over)
  BY <1>2, <1>4 DEF Keeps, Devices
<1> HIDE DEF over
<1>6. Keeps(d, send_event_to_application(sent.dev, "AUTOMATIC_UPLINK_ERROR"))
  BY <1>2, SendEventKeeps, KeepsTransitive DEF Keeps, AppEvents
<1> QED
  BY <1>1, <1>2, <1>3, <1>5, <1>6

\* Cancelling a message is not disconnecting.
LEMMA StopSendingKeeps ==
    ASSUME NEW d \in Devices
    PROVE  Keeps(d, stop_sending(d))
<1> DEFINE cleared == clear_tx_pipe(d).dev
           done == clear_flags(cleared, {"TX_DONE"})
           ended == set_tx_ongoing(done, FALSE)
<1>1. stop_sending(d) \in {d, set_state(ended, "IDLE")}
  BY Zenon DEF stop_sending
<1>2. Keeps(d, cleared)
  BY ClearTxPipeKeeps
<1> HIDE DEF cleared
<1>3. Keeps(d, done)
  <2>1. Keeps(cleared, done)
    BY <1>2, FlagsKeep DEF Keeps, CtrlFlags, LinkFlags
  <2> QED
    BY <1>2, <2>1, KeepsTransitive
<1> HIDE DEF done
<1>4. Keeps(d, ended)
  BY <1>3, SetTxOngoingKeeps, KeepsTransitive DEF Keeps
<1> HIDE DEF ended
<1>5. Keeps(d, set_state(ended, "IDLE"))
  BY <1>4, SetStateKeeps, KeepsTransitive DEF Keeps, DeviceStates
<1> QED
  BY <1>1, <1>5, KeepsReflexive

-----------------------------------------------------------------------------
(* Deferred interrupts *)

\* The interrupt of a finished transmission.
LEMMA ProcessTransmissionKeeps ==
    ASSUME NEW d \in Devices
    PROVE  Keeps(d, process_transmission(d))
<1> DEFINE next == CASE d.state = "JOINING" -> set_state(d, "AWAITING_JOIN_ACCEPT")
                     [] d.state = "SENDING" /\ d.req_type = "CONFIRMED" ->
                          set_state(d, "AWAITING_ACK")
                     [] OTHER -> d
<1>1. Keeps(d, next)
  <2>1. next \in {d, set_state(d, "AWAITING_JOIN_ACCEPT"), set_state(d, "AWAITING_ACK")}
    BY Zenon
  <2> QED
    BY <2>1, SetStateKeeps, KeepsReflexive DEF DeviceStates
<1>2. process_transmission(d) = on_radio_tx_done(next)
  BY DEF process_transmission
<1> HIDE DEF next
<1> QED
  BY <1>1, <1>2, OnRadioTxDoneKeeps, KeepsTransitive DEF Keeps

\* The interrupt of a failed one, during a join as well.
LEMMA ProcessTransmissionTimeoutKeeps ==
    ASSUME NEW d \in Devices
    PROVE  Keeps(d, process_transmission_timeout(d))
<1> DEFINE failed == on_radio_tx_timeout(d)
           silent == clear_flags(failed, {"TX_DONE"})
           idle == set_state(silent, "IDLE")
           told == send_event_to_application(idle, "TX_TIMEOUT")
           checked == STATUS_CHECK(silent)
           over == IF d.state = "JOINING" THEN told ELSE checked
<1>1. process_transmission_timeout(d) = state_machine_run_to_completion(over)
  BY DEF process_transmission_timeout
<1>2. Keeps(d, failed)
  BY OnRadioTxTimeoutKeeps
<1> HIDE DEF failed
<1>3. Keeps(d, silent)
  <2>1. Keeps(failed, silent)
    BY <1>2, FlagsKeep DEF Keeps, CtrlFlags, LinkFlags
  <2> QED
    BY <1>2, <2>1, KeepsTransitive
<1> HIDE DEF silent
<1>4. Keeps(d, idle)
  BY <1>3, SetStateKeeps, KeepsTransitive DEF Keeps, DeviceStates
<1> HIDE DEF idle
<1>5. Keeps(d, told)
  BY <1>4, SendEventKeeps, KeepsTransitive DEF Keeps, AppEvents
<1>6. Keeps(d, checked)
  BY <1>3, StatusCheckKeeps, KeepsTransitive DEF Keeps
<1>7. Keeps(d, over)
  BY <1>5, <1>6
<1> HIDE DEF over
<1> QED
  BY <1>1, <1>7, RunToCompletionKeeps, KeepsTransitive DEF Keeps

\* A retry that cannot be scheduled ends the transmission.
LEMMA HandleSchedulingFailureKeeps ==
    ASSUME NEW d \in Devices
    PROVE  Keeps(d, handle_scheduling_failure(d))
<1>1. Keeps(d, STATUS_CHECK(d))
  BY StatusCheckKeeps
<1> QED
  BY <1>1, RunToCompletionKeeps, KeepsTransitive DEF Keeps, handle_scheduling_failure

\* A repetition for the network is a call posted to the queue.
LEMMA RepeatForQOSKeeps ==
    ASSUME NEW d \in Devices
    PROVE  Keeps(d, repeat_for_QOS(d))
<1> DEFINE remembered == remember_QOS(d)
           call == [fn |-> "state_controller_scheduling"]
           posted == post(remembered, call)
           next == posted.qos_cnt + 1
           repeated == [posted EXCEPT !.qos_cnt = next]
<1>1. repeat_for_QOS(d) = repeated
  BY DEF repeat_for_QOS
<1>2. call \in Calls
  BY DEF Calls
<1>3. Keeps(d, remembered)
  BY RememberQOSKeeps
<1> HIDE DEF remembered, call
<1>4. Keeps(d, posted)
  BY <1>2, <1>3, PostKeeps, KeepsTransitive DEF Keeps
<1> HIDE DEF posted
<1>5. next \in Nat
  <2>1. posted.qos_cnt \in Nat
    BY <1>4 DEF Keeps, Devices
  <2> QED
    BY <2>1
<1> HIDE DEF next
<1>6. repeated \in Devices
  BY ZenonT(120), <1>4, <1>5 DEF Keeps, Devices
<1>7. Keeps(posted, repeated)
  BY <1>4, <1>6 DEF Keeps, Devices
<1> QED
  BY <1>1, <1>4, <1>7, KeepsTransitive

\* Setting some transmission flags after others have been cleared.
LEMMA ExchangeFlagsKeeps ==
    ASSUME NEW d \in Devices, NEW off \in SUBSET (CtrlFlags \ LinkFlags),
           NEW on \in SUBSET (CtrlFlags \ LinkFlags)
    PROVE  Keeps(d, set_flags(clear_flags(d, off), on))
<1>1. Keeps(d, clear_flags(d, off))
  BY FlagsKeep
<1> QED
  BY <1>1, FlagsKeep, KeepsTransitive DEF Keeps

\* Counting the uplink, then the status check: how a transmission ends.
LEMMA CompletionKeeps ==
    ASSUME NEW d \in Devices
    PROVE  Keeps(d, STATUS_CHECK(post_process_mcps_req(d)))
<1>1. Keeps(d, post_process_mcps_req(d))
  BY PostProcessMcpsReqKeeps
<1> QED
  BY <1>1, StatusCheckKeeps, KeepsTransitive DEF Keeps

\* A transmission completed by a frame: acknowledged, exhausted, repeated or done.
LEMMA PostProcessTxWithReceptionKeeps ==
    ASSUME NEW d \in Devices
    PROVE  Keeps(d, post_process_tx_with_reception(d))
<1> DEFINE done == set_flags(clear_flags(d, {"RETRY_EXHAUSTED"}), {"TX_DONE"})
           left == continue_sending_process(d).dev
           failed == set_flags(clear_flags(left, {"TX_DONE"}), {"RETRY_EXHAUSTED"})
           again == clear_flags(d, {"TX_DONE"})
           remembered == remember_QOS(d)
           counted == post_process_mcps_req(remembered)
           over == set_flags(counted, {"TX_DONE"})
<1>1. post_process_tx_with_reception(d) \in
        {STATUS_CHECK(post_process_mcps_req(done)),
         STATUS_CHECK(post_process_mcps_req(failed)), left,
         repeat_for_QOS(again), STATUS_CHECK(over)}
  BY Zenon DEF post_process_tx_with_reception
<1>2. Keeps(d, done)
  BY ExchangeFlagsKeeps DEF CtrlFlags, LinkFlags
<1>3. Keeps(d, left)
  BY ContinueSendingProcessKeeps
<1> HIDE DEF done, left
<1>4. Keeps(d, failed)
  <2>1. Keeps(left, failed)
    BY <1>3, ExchangeFlagsKeeps DEF Keeps, CtrlFlags, LinkFlags
  <2> QED
    BY <1>3, <2>1, KeepsTransitive
<1>5. Keeps(d, again)
  BY FlagsKeep DEF CtrlFlags, LinkFlags
<1>6. Keeps(d, counted)
  <2>1. Keeps(d, remembered)
    BY RememberQOSKeeps
  <2> HIDE DEF remembered
  <2> QED
    BY <2>1, PostProcessMcpsReqKeeps, KeepsTransitive DEF Keeps
<1> HIDE DEF failed, again, counted
<1>7. Keeps(d, over)
  <2>1. Keeps(counted, over)
    BY <1>6, FlagsKeep DEF Keeps, CtrlFlags, LinkFlags
  <2> QED
    BY <1>6, <2>1, KeepsTransitive
<1> HIDE DEF over
<1>8. /\ Keeps(d, STATUS_CHECK(post_process_mcps_req(done)))
      /\ Keeps(d, STATUS_CHECK(post_process_mcps_req(failed)))
  BY <1>2, <1>4, CompletionKeeps, KeepsTransitive DEF Keeps
<1>9. Keeps(d, repeat_for_QOS(again))
  BY <1>5, RepeatForQOSKeeps, KeepsTransitive DEF Keeps
<1>10. Keeps(d, STATUS_CHECK(over))
  BY <1>7, StatusCheckKeeps, KeepsTransitive DEF Keeps
<1> QED
  BY <1>1, <1>3, <1>8, <1>9, <1>10

\* A transmission completed by silence.
LEMMA PostProcessTxNoReceptionKeeps ==
    ASSUME NEW d \in Devices
    PROVE  Keeps(d, post_process_tx_no_reception(d))
<1> DEFINE end(x) == state_machine_run_to_completion(STATUS_CHECK(post_process_mcps_req(x)))
           left == continue_sending_process(d).dev
           more == clear_flags(left, {"TX_DONE", "RETRY_EXHAUSTED"})
           failed == set_flags(clear_flags(left, {"TX_DONE"}), {"RETRY_EXHAUSTED"})
           again == set_flags(d, {"TX_DONE"})
           repeated == repeat_for_QOS(again)
           remembered == remember_QOS(d)
           done == set_flags(remembered, {"TX_DONE"})
<1>1. post_process_tx_no_reception(d) \in
        {more, end(failed), state_machine_run_to_completion(repeated), end(done)}
  BY Zenon DEF post_process_tx_no_reception
<1>2. Keeps(d, left) /\ Keeps(d, remembered)
  BY ContinueSendingProcessKeeps, RememberQOSKeeps
<1> HIDE DEF left, remembered
<1>3. Keeps(d, more)
  <2>1. Keeps(left, more)
    BY <1>2, FlagsKeep DEF Keeps, CtrlFlags, LinkFlags
  <2> QED
    BY <1>2, <2>1, KeepsTransitive
<1>4. Keeps(d, failed)
  <2>1. Keeps(left, failed)
    BY <1>2, ExchangeFlagsKeeps DEF Keeps, CtrlFlags, LinkFlags
  <2> QED
    BY <1>2, <2>1, KeepsTransitive
<1>5. Keeps(d, done)
  <2>1. Keeps(remembered, done)
    BY <1>2, FlagsKeep DEF Keeps, CtrlFlags, LinkFlags
  <2> QED
    BY <1>2, <2>1, KeepsTransitive
<1>6. Keeps(d, repeated)
  <2>1. Keeps(d, again)
    BY FlagsKeep DEF CtrlFlags, LinkFlags
  <2> HIDE DEF again
  <2> QED
    BY <2>1, RepeatForQOSKeeps, KeepsTransitive DEF Keeps
<1> HIDE DEF more, failed, done, repeated
<1>7. Keeps(d, state_machine_run_to_completion(repeated))
  BY <1>6, RunToCompletionKeeps, KeepsTransitive DEF Keeps
<1>8. ASSUME NEW x, Keeps(d, x)
      PROVE  Keeps(d, end(x))
  <2> DEFINE checked == STATUS_CHECK(post_process_mcps_req(x))
  <2>1. Keeps(d, checked)
    BY <1>8, CompletionKeeps, KeepsTransitive DEF Keeps
  <2> HIDE DEF checked
  <2>2. Keeps(d, state_machine_run_to_completion(checked))
    BY <2>1, RunToCompletionKeeps, KeepsTransitive DEF Keeps
  <2> QED
    BY <2>2 DEF checked
<1> HIDE DEF end
<1> QED
  BY <1>1, <1>3, <1>4, <1>5, <1>7, <1>8

\* The work on a frame of a joined network.
LEMMA FinishReceptionKeeps ==
    ASSUME NEW d \in Devices, NEW f, NEW pending
    PROVE  Keeps(d, finish_reception(d, f, pending))
<1> DEFINE post_processed == post_process_tx_with_reception(d)
           received == set_flags(post_processed, {"MSG_RECVD"})
           told == process_status_check_state(received, f)
           indicated == IF pending THEN told ELSE post_processed
           completed == IF "TX_DONE" \in indicated.flags
                        THEN state_machine_run_to_completion(indicated) ELSE indicated
           handled == [completed EXCEPT !.mlme_ind_pending = FALSE]
<1>1. finish_reception(d, f, pending) \in {mlme_indication_handler(handled), completed}
  BY Zenon DEF finish_reception
<1>2. Keeps(d, post_processed)
  BY PostProcessTxWithReceptionKeeps
<1> HIDE DEF post_processed
<1>3. Keeps(d, received)
  <2>1. Keeps(post_processed, received)
    BY <1>2, FlagsKeep DEF Keeps, CtrlFlags, LinkFlags
  <2> QED
    BY <1>2, <2>1, KeepsTransitive
<1> HIDE DEF received
<1>4. Keeps(d, told)
  BY <1>3, ProcessStatusCheckKeeps, KeepsTransitive DEF Keeps
<1>5. Keeps(d, indicated)
  BY <1>2, <1>4
<1> HIDE DEF indicated
<1>6. Keeps(d, completed)
  BY <1>5, RunToCompletionKeeps, KeepsTransitive DEF Keeps
<1> HIDE DEF completed
<1>7. handled \in Devices
  BY ZenonT(120), <1>6 DEF Keeps, Devices
<1>8. Keeps(completed, handled)
  BY <1>6, <1>7 DEF Keeps, Devices
<1> HIDE DEF handled
<1>9. Keeps(d, mlme_indication_handler(handled))
  BY <1>6, <1>7, <1>8, ScheduleAutomaticUplinkKeeps, KeepsTransitive
  DEF mlme_indication_handler
<1> QED
  BY <1>1, <1>6, <1>9

\* The buffer of the frame is given back.
LEMMA ReleaseRxPayloadKeeps ==
    ASSUME NEW d \in Devices
    PROVE  Keeps(d, release_rx_payload(d))
<1>1. release_rx_payload(d) \in Devices
  BY ZenonT(120) DEF release_rx_payload, Devices
<1> QED
  BY <1>1 DEF release_rx_payload, Keeps, Devices

-----------------------------------------------------------------------------
(* Connecting and disconnecting: the handlers that change the session *)

\* The copies of the session state agree (SessionConsistent, of a device), in a
\* device of the right type.
Sound(d) ==
    /\ d \in Devices
    /\ d.session_active <=> "CONNECTED" \in d.flags
    /\ d.nwk_joined <=> "CONNECTED" \in d.flags
    /\ ~({"CONNECTED", "CONN_IN_PROGRESS"} \subseteq d.flags)

\* What leaves the session alone leaves it sound.
LEMMA KeepsSound ==
    ASSUME NEW d, NEW e, Sound(d), Keeps(d, e)
    PROVE  Sound(e)
<1>1. \A x \in LinkFlags : x \in e.flags <=> x \in d.flags
  BY DEF Keeps
<1>2. e \in Devices /\ e.nwk_joined = d.nwk_joined /\ e.session_active = d.session_active
  BY DEF Keeps
<1> QED
  BY <1>1, <1>2 DEF Sound, LinkFlags

\* A joined network becomes a session.
LEMMA ProcessConnectedStateSound ==
    ASSUME NEW d \in Devices, d.nwk_joined
    PROVE  Sound(process_connected_state(d))
<1> DEFINE flags == (d.flags \cup {"CONNECTED"}) \ {"CONN_IN_PROGRESS"}
           up == [d EXCEPT !.flags = flags, !.session_active = TRUE]
           told == send_event_to_application(up, "CONNECTED")
<1>1. process_connected_state(d) = set_state(told, "IDLE")
  BY DEF process_connected_state
<1>2. flags \in SUBSET CtrlFlags
  BY DEF Devices, CtrlFlags
<1>3. "CONNECTED" \in flags /\ "CONN_IN_PROGRESS" \notin flags
  OBVIOUS
<1> HIDE DEF flags
<1>4. up \in Devices
  BY ZenonT(120), <1>2 DEF Devices
<1>5. up.flags = flags /\ up.session_active = TRUE /\ up.nwk_joined = d.nwk_joined
  BY DEF Devices
<1> HIDE DEF up
<1>6. Sound(up)
  BY <1>3, <1>4, <1>5 DEF Sound
<1>7. Keeps(up, told)
  BY <1>4, SendEventKeeps DEF AppEvents
<1> HIDE DEF told
<1>8. Keeps(told, set_state(told, "IDLE"))
  BY <1>7, SetStateKeeps DEF Keeps, DeviceStates
<1> QED
  BY <1>1, <1>6, <1>7, <1>8, KeepsSound

\* A join given up leaves nothing in progress.
LEMMA JoinFailedSound ==
    ASSUME NEW d, Sound(d)
    PROVE  Sound(join_failed(d))
<1> DEFINE flags == d.flags \ {"CONN_IN_PROGRESS"}
           given_up == [d EXCEPT !.flags = flags]
           told == send_event_to_application(given_up, "JOIN_FAILURE")
<1>1. join_failed(d) = set_state(told, "IDLE")
  BY DEF join_failed, clear_flags
<1>2. d \in Devices
  BY DEF Sound
<1>3. flags \in SUBSET CtrlFlags
  BY <1>2 DEF Devices
<1>4. "CONNECTED" \in flags <=> "CONNECTED" \in d.flags
  OBVIOUS
<1>5. "CONN_IN_PROGRESS" \notin flags
  OBVIOUS
<1> HIDE DEF flags
<1>6. given_up \in Devices
  BY ZenonT(120), <1>2, <1>3 DEF Devices
<1>7. /\ given_up.flags = flags
      /\ given_up.session_active = d.session_active
      /\ given_up.nwk_joined = d.nwk_joined
  BY <1>2 DEF Devices
<1> HIDE DEF given_up
<1>8. Sound(given_up)
  BY <1>4, <1>5, <1>6, <1>7 DEF Sound
<1>9. Keeps(given_up, told)
  BY <1>6, SendEventKeeps DEF AppEvents
<1> HIDE DEF told
<1>10. Keeps(told, set_state(told, "IDLE"))
  BY <1>9, SetStateKeeps DEF Keeps, DeviceStates
<1> QED
  BY <1>1, <1>8, <1>9, <1>10, KeepsSound

\* A join goes on or is given up.
LEMMA ProcessJoiningStateSound ==
    ASSUME NEW d, Sound(d), NEW ch
    PROVE  Sound(process_joining_state(d, ch))
<1> DEFINE joining == set_state(d, "JOINING")
           retry == continue_joining_process(joining, ch).dev
           request == send_join_request(joining, ch).dev
<1>1. process_joining_state(d, ch) \in {request, retry, join_failed(retry), d}
  BY Zenon DEF process_joining_state
<1>2. Keeps(d, joining)
  BY SetStateKeeps DEF Sound, DeviceStates
<1> HIDE DEF joining
<1>3. Keeps(d, request)
  BY <1>2, SendJoinRequestKeeps, KeepsTransitive DEF Keeps
<1>4. Keeps(d, retry)
  BY <1>2, ContinueJoiningProcessKeeps, KeepsTransitive DEF Keeps
<1> HIDE DEF request, retry
<1>5. Sound(request) /\ Sound(retry)
  BY <1>3, <1>4, KeepsSound
<1>6. Sound(join_failed(retry))
  BY <1>5, JoinFailedSound
<1> QED
  BY <1>1, <1>5, <1>6

\* connect() is refused while a connection is up or in progress; otherwise it
\* starts a join or, with ABP, is up at once.
LEMMA ConnectSound ==
    ASSUME NEW d, Sound(d), NEW otaa \in BOOLEAN, NEW ch,
           d.flags \cap {"CONN_IN_PROGRESS", "CONNECTED"} = {}
    PROVE  Sound(connect(d, otaa, ch))
<1>1. d \in Devices /\ "CONNECTED" \notin d.flags /\ d.session_active = FALSE
  BY DEF Sound, Devices
<1>2. CASE otaa
  <2> DEFINE reset == prepare_join(d)
             flags == reset.flags \cup {"CONN_IN_PROGRESS", "USING_OTAA"}
             begun == [reset EXCEPT !.flags = flags]
             connecting == set_state(begun, "CONNECTING")
  <2>1. /\ reset \in Devices /\ reset.nwk_joined = FALSE
        /\ reset.session_active = FALSE /\ reset.flags = d.flags
    BY <1>1, PrepareJoinLeaves
  <2>2. flags \in SUBSET CtrlFlags /\ "CONNECTED" \notin flags /\ "USING_OTAA" \in flags
    BY <1>1, <2>1 DEF Devices, CtrlFlags
  <2>3. connect(d, otaa, ch) = process_connecting_state(begun, ch)
    BY <1>2 DEF connect, set_flags
  <2> HIDE DEF reset, flags
  <2>4. begun \in Devices
    BY ZenonT(120), <2>1, <2>2 DEF Devices
  <2>5. begun.flags = flags /\ begun.nwk_joined = FALSE /\ begun.session_active = FALSE
    BY <2>1 DEF Devices
  <2> HIDE DEF begun
  <2>6. Sound(begun)
    BY <2>2, <2>4, <2>5 DEF Sound
  <2>7. Keeps(begun, connecting)
    BY <2>4, SetStateKeeps DEF DeviceStates
  <2>8. Sound(connecting)
    BY <2>6, <2>7, KeepsSound
  <2>9. "USING_OTAA" \in begun.flags
    BY <2>2, <2>5
  <2>10. process_connecting_state(begun, ch) = process_joining_state(connecting, ch)
    BY <2>9 DEF process_connecting_state
  <2> HIDE DEF connecting
  <2> QED
    BY <2>3, <2>8, <2>10, ProcessJoiningStateSound
<1>3. CASE ~otaa
  <2> DEFINE flags == (d.flags \cup {"CONN_IN_PROGRESS"}) \ {"USING_OTAA"}
             begun == clear_flags(set_flags(d, {"CONN_IN_PROGRESS"}), {"USING_OTAA"})
             connecting == set_state(begun, "CONNECTING")
             joined == [connecting EXCEPT !.nwk_joined = TRUE]
  <2>1. connect(d, otaa, ch) = process_connecting_state(begun, ch)
    BY <1>3 DEF connect
  <2>2. Keeps(set_flags(d, {"CONN_IN_PROGRESS"}), begun)
    <3>1. set_flags(d, {"CONN_IN_PROGRESS"}) \in Devices
      BY ZenonT(120), <1>1 DEF set_flags, Devices, CtrlFlags
    <3> QED
      BY <3>1, FlagsKeep DEF CtrlFlags, LinkFlags
  <2>3. begun \in Devices
    BY <2>2 DEF Keeps
  <2>4. "USING_OTAA" \notin begun.flags
    <3>1. set_flags(d, {"CONN_IN_PROGRESS"}) \in Devices
      BY ZenonT(120), <1>1 DEF set_flags, Devices, CtrlFlags
    <3> QED
      BY <3>1 DEF clear_flags, Devices
  <2>5. process_connecting_state(begun, ch) = process_connected_state(joined)
    BY <2>4 DEF process_connecting_state
  <2> HIDE DEF begun
  <2>6. connecting \in Devices
    BY <2>3, SetStateKeeps DEF Keeps, DeviceStates
  <2> HIDE DEF connecting
  <2>7. joined \in Devices /\ joined.nwk_joined
    BY ZenonT(120), <2>6 DEF Devices
  <2> HIDE DEF joined
  <2> QED
    BY <2>1, <2>5, <2>7, ProcessConnectedStateSound
<1> QED
  BY <1>2, <1>3

\* A disconnection resets all three copies of the session.
LEMMA ProcessShutdownStateSound ==
    ASSUME NEW d \in Devices
    PROVE  Sound(process_shutdown_state(d))
<1> DEFINE left == disconnect(d)
           down == [left EXCEPT !.session_active = FALSE, !.state = "SHUTDOWN",
                                !.flags = {}]
<1>1. process_shutdown_state(d) = send_event_to_application(down, "DISCONNECTED")
  BY DEF process_shutdown_state
<1>2. left \in Devices /\ left.nwk_joined = FALSE
  BY DisconnectLeaves
<1> HIDE DEF left
<1>3. down \in Devices
  BY ZenonT(120), <1>2 DEF Devices, DeviceStates
<1>4. down.nwk_joined = FALSE /\ down.session_active = FALSE /\ down.flags = {}
  BY <1>2 DEF Devices
<1> HIDE DEF down
<1>5. Sound(down)
  BY <1>3, <1>4 DEF Sound
<1> QED
  BY <1>1, <1>3, <1>5, SendEventKeeps, KeepsSound DEF AppEvents

\* A received frame joins the network in the MAC and connects the stack in one
\* handler, or changes nothing of the session.
LEMMA ProcessReceptionSound ==
    ASSUME NEW d, Sound(d), NEW f \in Frames, NEW ch
    PROVE  Sound(process_reception(d, f, ch))
<1> DEFINE active == set_state(d, "RECEIVING")
           receiving == clear_flags(active, {"MSG_RECVD", "TX_DONE", "RETRY_EXHAUSTED"})
           heard == on_radio_rx_done(receiving, f)
           handled == CASE JoinFrame(f) /\ ~d.nwk_joined ->
                             mlme_confirm_handler(heard.dev, f.kind = "accept", ch)
                        [] ~JoinFrame(f) /\ ~d.nwk_joined -> heard.dev
                        [] d.nwk_joined -> finish_reception(heard.dev, f, heard.pending)
<1>1. process_reception(d, f, ch) = release_rx_payload(handled)
  BY DEF process_reception
<1>2. d \in Devices
  BY DEF Sound
<1>3. Keeps(d, receiving)
  <2>1. Keeps(d, active)
    BY <1>2, SetStateKeeps DEF DeviceStates
  <2> HIDE DEF active
  <2>2. Keeps(active, receiving)
    BY <2>1, FlagsKeep DEF Keeps, CtrlFlags, LinkFlags
  <2> QED
    BY <2>1, <2>2, KeepsTransitive
<1> HIDE DEF receiving
<1>4. /\ heard.dev \in Devices
      /\ heard.dev.nwk_joined = (receiving.nwk_joined \/ f.kind = "accept")
      /\ heard.dev.session_active = receiving.session_active
      /\ heard.dev.flags \cap LinkFlags = receiving.flags \cap LinkFlags
  BY <1>3, OnRadioRxDoneJoins DEF Keeps
<1> HIDE DEF heard
<1>5. d.nwk_joined \/ f.kind # "accept" => Keeps(d, heard.dev)
  BY <1>2, <1>3, <1>4 DEF Keeps, Devices
<1>6. CASE JoinFrame(f) /\ ~d.nwk_joined /\ f.kind = "accept"
  <2>1. heard.dev.nwk_joined
    BY <1>4, <1>6
  <2>2. handled = process_connected_state(heard.dev)
    BY <1>6 DEF mlme_confirm_handler
  <2> QED
    BY <1>1, <1>4, <2>1, <2>2, ProcessConnectedStateSound, ReleaseRxPayloadKeeps, KeepsSound
    DEF Sound
<1>7. CASE JoinFrame(f) /\ ~d.nwk_joined /\ f.kind # "accept"
  <2> DEFINE waiting == set_state(heard.dev, "AWAITING_JOIN_ACCEPT")
  <2>1. handled = process_joining_state(waiting, ch)
    BY <1>7 DEF mlme_confirm_handler
  <2>2. Sound(waiting)
    <3>1. Keeps(heard.dev, waiting)
      BY <1>4, SetStateKeeps DEF DeviceStates
    <3> QED
      BY <1>5, <1>7, <3>1, KeepsSound
  <2> HIDE DEF waiting, handled
  <2>3. Sound(handled)
    BY <2>1, <2>2, ProcessJoiningStateSound
  <2> QED
    BY <1>1, <2>3, ReleaseRxPayloadKeeps, KeepsSound DEF Sound
<1>8. CASE ~JoinFrame(f) /\ ~d.nwk_joined
  <2>1. handled = heard.dev
    BY <1>8
  <2>2. Sound(heard.dev)
    BY <1>5, <1>8, KeepsSound DEF JoinFrame
  <2> HIDE DEF handled
  <2> QED
    BY <1>1, <2>1, <2>2, ReleaseRxPayloadKeeps, KeepsSound DEF Sound
<1>9. CASE d.nwk_joined
  <2> DEFINE finished == finish_reception(heard.dev, f, heard.pending)
  <2>1. handled = finished
    BY <1>9
  <2>2. Keeps(heard.dev, finished)
    BY <1>4, FinishReceptionKeeps
  <2> HIDE DEF handled, finished
  <2>3. Sound(finished)
    BY <1>5, <1>9, <2>2, KeepsSound
  <2> QED
    BY <1>1, <2>1, <2>3, ReleaseRxPayloadKeeps, KeepsSound DEF Sound
<1> QED
  BY <1>2, <1>6, <1>7, <1>8, <1>9 DEF Devices

\* A window that ends in silence may end the join.
LEMMA ProcessReceptionTimeoutSound ==
    ASSUME NEW d, Sound(d), NEW ch
    PROVE  Sound(process_reception_timeout(d, ch))
<1> DEFINE quiet == on_radio_rx_timeout(d)
<1>1. Keeps(d, quiet)
  BY OnRadioRxTimeoutKeeps DEF Sound
<1>2. process_reception_timeout(d, ch) \in
        {quiet, process_joining_state(quiet, ch), post_process_tx_no_reception(quiet)}
  <2>1. d.nwk_joined \in BOOLEAN
    BY DEF Sound, Devices
  <2> QED
    BY <2>1, Zenon DEF process_reception_timeout
<1> HIDE DEF quiet
<1>3. Sound(quiet)
  BY <1>1, KeepsSound
<1>4. Sound(process_joining_state(quiet, ch))
  BY <1>3, ProcessJoiningStateSound
<1>5. Sound(post_process_tx_no_reception(quiet))
  BY <1>3, PostProcessTxNoReceptionKeeps, KeepsSound DEF Sound
<1> QED
  BY <1>2, <1>3, <1>4, <1>5

-----------------------------------------------------------------------------
(* The invariant of the specification *)

\* The variables that only remember what happened.
HistoryOK ==
    /\ messages \in Nat
    /\ owed \in Int
    /\ aired \subseteq [msg : Nat, ul : Nat]
    /\ downlink \in {"none", "first", "data"}

\* TypeOK and SessionConsistent together are inductive; neither is alone, because
\* whether a handler keeps the copies of the session together depends on which of
\* them it reads.
SessionInv == Sound(dev) /\ HistoryOK

\* The invariant is the two properties the runs check, no more.
LEMMA SessionInvIs == SessionInv <=> TypeOK /\ SessionConsistent
BY DEF SessionInv, Sound, HistoryOK, TypeOK, SessionConsistent

\* A new device has no session and an empty queue.
LEMMA SessionInvInit == Init => SessionInv
<1> SUFFICES ASSUME Init PROVE SessionInv
  OBVIOUS
<1>1. NoTxBuffer \in TxBuffers
  BY DEF NoTxBuffer, TxBuffers
<1>2. NewDevice \in Devices
  BY <1>1 DEF NewDevice, Devices, DeviceStates, MessageTypes, ConfirmStatuses, RadioModes
<1>3. /\ NewDevice.flags = {}
      /\ NewDevice.session_active = FALSE
      /\ NewDevice.nwk_joined = FALSE
  BY DEF NewDevice
<1>4. Sound(NewDevice)
  BY <1>2, <1>3 DEF Sound
<1> QED
  BY <1>4 DEF Init, SessionInv, HistoryOK

-----------------------------------------------------------------------------
(* A step of the device *)

\* A frame that goes on the air enters the history with its message and counter.
LEMMA AiringType ==
    ASSUME NEW d \in Devices
    PROVE  Airing(d) \subseteq [msg : Nat, ul : Nat]
BY DEF Airing, Devices, TxBuffers

\* A step to a sound device keeps the invariant, its history included.
LEMMA StepInv ==
    ASSUME SessionInv, NEW d, Sound(d), Step(d), messages' \in Nat, owed' \in Int
    PROVE  SessionInv'
<1>1. dev' = d
  BY DEF Step
<1>2. d \in Devices
  BY DEF Sound
<1>3. aired' \subseteq [msg : Nat, ul : Nat] /\ downlink' \in {"none", "first", "data"}
  BY <1>2, AiringType DEF Step, SessionInv, HistoryOK
<1>4. HistoryOK'
  BY <1>3 DEF HistoryOK
<1>5. Sound(dev)'
  BY <1>1 DEF Sound
<1> QED
  BY <1>4, <1>5 DEF SessionInv

\* The same for a step that leaves what the application knows alone.
LEMMA QuietStepInv ==
    ASSUME SessionInv, NEW d, Sound(d), Step(d), UNCHANGED <<messages, owed>>
    PROVE  SessionInv'
BY StepInv DEF SessionInv, HistoryOK

\* The call that is dispatched is a call; without it the device is as sound.
LEMMA PoppedSound ==
    ASSUME SessionInv, dev.due # <<>>
    PROVE  Sound(Popped) /\ Head(dev.due) \in Calls
<1>1. dev \in Devices
  BY DEF SessionInv, Sound
<1>2. dev.due \in Seq(Calls)
  BY <1>1 DEF Devices
<1>3. Tail(dev.due) \in Seq(Calls) /\ Head(dev.due) \in Calls
  BY <1>2
<1>4. Popped \in Devices
  BY ZenonT(60), <1>1, <1>3 DEF Popped, Devices
<1>5. Keeps(dev, Popped)
  BY <1>1, <1>4 DEF Popped, Keeps, Devices
<1> QED
  BY <1>3, <1>5, KeepsSound DEF SessionInv

\* A dispatched call whose handler leaves the session alone.
LEMMA HandlerInv ==
    ASSUME SessionInv, dev.due # <<>>, NEW d, Keeps(Popped, d), Step(d),
           UNCHANGED <<messages, owed>>
    PROVE  SessionInv'
BY PoppedSound, KeepsSound, QuietStepInv

\* So does the failure handler of the scheduler.
LEMMA RetryOrFailKeeps ==
    ASSUME NEW d \in Devices, NEW r, Keeps(d, r.dev)
    PROVE  Keeps(d, retry_or_fail(r))
BY HandleSchedulingFailureKeeps, KeepsTransitive DEF retry_or_fail, Keeps

\* Each call the LoRa task may dispatch.
LEMMA DispatchInv ==
    ASSUME SessionInv, Dispatch
    PROVE  SessionInv'
<1> USE DEF Called, TimerCalled
<1>a. dev.due # <<>>
  BY DEF Dispatch, ProcessTransmission, ProcessTransmissionTimeout, ProcessReception,
         ProcessReceptionTimeout, RepeatForQOS, SendAutomaticUplink, SkipCancelled,
         EventHandler, OpenRx1, OpenRx2, Rx2Closure, BackoffExpired, AckTimeout
<1>b. Sound(Popped) /\ Head(dev.due) \in Calls
  BY <1>a, PoppedSound
<1>c. Popped \in Devices
  BY <1>b DEF Sound
<1>1. CASE ProcessTransmission
  BY <1>a, <1>c, <1>1, ProcessTransmissionKeeps, HandlerInv DEF ProcessTransmission
<1>2. CASE ProcessTransmissionTimeout
  BY <1>a, <1>c, <1>2, ProcessTransmissionTimeoutKeeps, HandlerInv
  DEF ProcessTransmissionTimeout
<1>3. CASE ProcessReception
  <2>1. Head(dev.due).frame \in Frames
    BY <1>b, <1>3 DEF ProcessReception, Calls
  <2>2. PICK ch \in Outcomes : Step(process_reception(Popped, Head(dev.due).frame, ch))
    BY <1>3 DEF ProcessReception
  <2>3. Sound(process_reception(Popped, Head(dev.due).frame, ch))
    BY <1>b, <2>1, ProcessReceptionSound
  <2> QED
    BY <1>3, <2>2, <2>3, QuietStepInv DEF ProcessReception
<1>4. CASE ProcessReceptionTimeout
  <2>1. PICK ch \in Outcomes : Step(process_reception_timeout(Popped, ch))
    BY <1>4 DEF ProcessReceptionTimeout
  <2>2. Sound(process_reception_timeout(Popped, ch))
    BY <1>b, ProcessReceptionTimeoutSound
  <2> QED
    BY <1>4, <2>1, <2>2, QuietStepInv DEF ProcessReceptionTimeout
<1>5. CASE RepeatForQOS
  BY <1>a, <1>c, <1>5, ProcessSchedulingStateKeeps, HandlerInv DEF RepeatForQOS
<1>6. CASE SendAutomaticUplink
  BY <1>a, <1>c, <1>6, SendAutomaticUplinkKeeps, HandlerInv DEF SendAutomaticUplink
<1>7. CASE SkipCancelled
  BY <1>b, <1>7, QuietStepInv DEF SkipCancelled
<1>8. CASE EventHandler
  <2>1. owed' \in Int /\ messages' \in Nat
    BY <1>8 DEF EventHandler, SessionInv, HistoryOK
  <2> QED
    BY <1>b, <1>8, <2>1, StepInv DEF EventHandler
<1>9. CASE OpenRx1
  BY <1>a, <1>c, <1>9, OpenWindowKeeps, HandlerInv DEF OpenRx1
<1>10. CASE OpenRx2
  BY <1>a, <1>c, <1>10, OpenWindowKeeps, HandlerInv DEF OpenRx2
<1>11. CASE Rx2Closure
  BY <1>a, <1>c, <1>11, PostProcessTxNoReceptionKeeps, HandlerInv DEF Rx2Closure
<1>12. ASSUME NEW ch \in Outcomes, BackoffExpired(ch)
       PROVE  SessionInv'
  BY <1>a, <1>c, <1>12, OnBackoffTimerExpiryKeeps, RetryOrFailKeeps, HandlerInv
  DEF BackoffExpired
<1>13. ASSUME NEW ch \in [1 .. 3 -> Outcomes], AckTimeout(ch)
       PROVE  SessionInv'
  BY <1>a, <1>c, <1>13, OnAckTimeoutKeeps, RetryOrFailKeeps, HandlerInv DEF AckTimeout
<1> QED
  BY <1>1, <1>2, <1>3, <1>4, <1>5, <1>6, <1>7, <1>8, <1>9, <1>10, <1>11, <1>12, <1>13
  DEF Dispatch

\* A call of the application.
LEMMA ApplicationInv ==
    ASSUME SessionInv, Application
    PROVE  SessionInv'
<1>a. Sound(dev) /\ dev \in Devices /\ messages \in Nat /\ owed \in Int
  BY DEF SessionInv, Sound, HistoryOK
<1>1. CASE Initialize
  <2>1. Sound(set_state(dev, "IDLE"))
    BY <1>a, SetStateKeeps, KeepsSound DEF DeviceStates
  <2> QED
    BY <1>1, <2>1, QuietStepInv DEF Initialize
<1>2. ASSUME NEW otaa \in BOOLEAN, Connect(otaa)
      PROVE  SessionInv'
  <2>1. PICK ch \in Outcomes : Step(connect(dev, otaa, ch))
    BY <1>2 DEF Connect
  <2>2. Sound(connect(dev, otaa, ch))
    BY <1>a, <1>2, ConnectSound DEF Connect
  <2> QED
    BY <1>2, <2>1, <2>2, QuietStepInv DEF Connect
<1>3. ASSUME NEW type \in SendTypes, Send(type)
      PROVE  SessionInv'
  <2>1. PICK ch \in Outcomes :
           LET sent == handle_tx(dev, messages + 1, type, ch)
           IN  /\ Step(sent.dev)
               /\ owed' = IF sent.status = "OK" THEN owed + 1 ELSE owed
               /\ messages' = IF sent.status = "OK" THEN messages + 1 ELSE messages
    BY <1>3 DEF Send
  <2>2. type \in MessageTypes /\ messages + 1 \in Nat
    BY <1>a, EnvironmentAssumption
  <2> DEFINE sent == handle_tx(dev, messages + 1, type, ch)
  <2>3. Sound(sent.dev)
    BY <1>a, <2>2, HandleTxKeeps, KeepsSound
  <2>4. Step(sent.dev)
    BY <2>1
  <2>5. messages' \in Nat /\ owed' \in Int
    BY <1>a, <2>1
  <2> HIDE DEF sent
  <2> QED
    BY <2>3, <2>4, <2>5, StepInv
<1>4. CASE StopSending
  <2>1. Sound(stop_sending(dev))
    BY <1>a, StopSendingKeeps, KeepsSound
  <2>2. messages' \in Nat /\ owed' \in Int
    BY <1>a, <1>4 DEF StopSending
  <2> QED
    BY <1>4, <2>1, <2>2, StepInv DEF StopSending
<1>5. CASE Shutdown
  <2>1. Sound(process_shutdown_state(dev))
    BY <1>a, ProcessShutdownStateSound
  <2> QED
    BY <1>5, <2>1, QuietStepInv DEF Shutdown
<1>6. ASSUME NEW c \in {"A", "C"}, SetDeviceClass(c)
      PROVE  SessionInv'
  <2>1. Sound(set_device_class(dev, c))
    BY <1>a, SetDeviceClassKeeps, KeepsSound
  <2> QED
    BY <1>6, <2>1, QuietStepInv DEF SetDeviceClass
<1> QED
  BY <1>1, <1>2, <1>3, <1>4, <1>5, <1>6 DEF Application

-----------------------------------------------------------------------------
(* The radio and the clock *)

\* A change of the radio's mode, followed by the post of an interrupt's call.
LEMMA InterruptSound ==
    ASSUME SessionInv, NEW d, Keeps(dev, d), NEW call \in Calls
    PROVE  Sound(post(d, call))
<1>1. Sound(d)
  BY KeepsSound DEF SessionInv
<1> QED
  BY <1>1, PostKeeps, KeepsSound DEF Sound

\* The end of a reception touches the mode of the radio only.
LEMMA AfterReceptionKeeps ==
    ASSUME NEW d \in Devices
    PROVE  Keeps(d, AfterReception(d))
<1> DEFINE mode == IF d.radio = "rx" THEN "standby" ELSE d.radio
<1>1. mode \in RadioModes
  BY DEF Devices, RadioModes
<1>2. AfterReception(d) = [d EXCEPT !.radio = mode]
  BY DEF AfterReception
<1> HIDE DEF mode
<1>3. [d EXCEPT !.radio = mode] \in Devices
  BY ZenonT(60), <1>1 DEF Devices
<1>4. Keeps(d, [d EXCEPT !.radio = mode])
  BY <1>3 DEF Keeps, Devices
<1> QED
  BY <1>2, <1>4

\* Each interrupt of the radio, the one that drops its frame included.
LEMMA RadioInv ==
    ASSUME SessionInv, Radio
    PROVE  SessionInv'
<1>a. dev \in Devices
  BY DEF SessionInv, Sound
<1> DEFINE standby == [dev EXCEPT !.radio = "standby"]
           received == AfterReception(dev)
<1>b. Keeps(dev, standby)
  <2>1. standby \in Devices
    BY ZenonT(60), <1>a DEF Devices, RadioModes
  <2> QED
    BY <1>a, <2>1 DEF Keeps, Devices
<1>c. Keeps(dev, received)
  BY <1>a, AfterReceptionKeeps
<1> HIDE DEF standby, received
<1>1. CASE TxDone
  <2>1. [fn |-> "process_transmission"] \in Calls
    BY DEF Calls
  <2> QED
    BY <1>b, <1>1, <2>1, InterruptSound, QuietStepInv DEF TxDone, standby
<1>2. CASE TxTimeout
  <2>1. [fn |-> "process_transmission_timeout"] \in Calls
    BY DEF Calls
  <2> QED
    BY <1>b, <1>2, <2>1, InterruptSound, QuietStepInv DEF TxTimeout, standby
<1>3. ASSUME NEW f \in Downlinks, RxDone(f)
      PROVE  SessionInv'
  <2> DEFINE buffered == [received EXCEPT !.rx_payload_in_use = TRUE]
             call == [fn |-> "process_reception", frame |-> f]
  <2>1. Sound(received)
    BY <1>c, KeepsSound DEF SessionInv
  <2>2. buffered \in Devices
    BY ZenonT(60), <2>1 DEF Sound, Devices
  <2>3. Keeps(received, buffered)
    BY <2>1, <2>2 DEF Sound, Keeps, Devices
  <2>4. Keeps(dev, buffered)
    BY <1>c, <2>3, KeepsTransitive
  <2>5. call \in Calls
    BY EnvironmentAssumption DEF Calls
  <2>6. dev' \in {received, post(buffered, call)}
    BY <1>3 DEF RxDone, received
  <2> HIDE DEF buffered, call
  <2>7. Sound(dev')
    BY <2>1, <2>4, <2>5, <2>6, InterruptSound
  <2>8. downlink' \in {downlink, "first", "data"} /\ UNCHANGED <<messages, owed, aired>>
    BY <1>3 DEF RxDone
  <2> QED
    BY <2>7, <2>8 DEF SessionInv, HistoryOK, Sound
<1>4. CASE RxError
  <2>1. [fn |-> "process_reception_timeout", is_timeout |-> FALSE] \in Calls
    BY DEF Calls
  <2> QED
    BY <1>c, <1>4, <2>1, InterruptSound, QuietStepInv DEF RxError, received
<1>5. CASE RxTimeout
  <2>1. [fn |-> "process_reception_timeout", is_timeout |-> TRUE] \in Calls
    BY DEF Calls
  <2> QED
    BY <1>c, <1>5, <2>1, InterruptSound, QuietStepInv DEF RxTimeout, received
<1> QED
  BY <1>1, <1>2, <1>3, <1>4, <1>5 DEF Radio

\* A timer that expires moves its event into the queue.
LEMMA ClockInv ==
    ASSUME SessionInv, Clock
    PROVE  SessionInv'
<1>a. dev \in Devices
  BY DEF SessionInv, Sound
<1>1. PICK t \in Timers : Expire(t) \/ ExpireOrphan(t)
  BY DEF Clock
<1>2. Append(dev.due, LiveCall(t)) \in Seq(Calls) /\ Append(dev.due, StaleCall(t)) \in Seq(Calls)
  BY <1>a, TimerCallTypes DEF Devices
<1>3. CASE Expire(t)
  <2> DEFINE expired == [dev EXCEPT !.armed = @ \ {t}, !.due = Append(@, LiveCall(t))]
  <2>1. expired \in Devices
    BY ZenonT(60), <1>a, <1>2 DEF Devices
  <2>2. Keeps(dev, expired)
    BY <1>a, <2>1 DEF Keeps, Devices
  <2> QED
    BY <1>3, <2>2, KeepsSound, QuietStepInv DEF Expire, SessionInv
<1>4. CASE ExpireOrphan(t)
  <2> DEFINE expired == [dev EXCEPT !.orphans = @ \ {t}, !.due = Append(@, StaleCall(t))]
  <2>1. expired \in Devices
    BY ZenonT(60), <1>a, <1>2 DEF Devices
  <2>2. Keeps(dev, expired)
    BY <1>a, <2>1 DEF Keeps, Devices
  <2> QED
    BY <1>4, <2>2, KeepsSound, QuietStepInv DEF ExpireOrphan, SessionInv
<1> QED
  BY <1>1, <1>3, <1>4

-----------------------------------------------------------------------------
(* The theorems *)

\* No handler takes the session apart, whichever party makes the step.
LEMMA SessionInvNext == SessionInv /\ [Next]_vars => SessionInv'
<1> SUFFICES ASSUME SessionInv, [Next]_vars PROVE SessionInv'
  OBVIOUS
<1>1. CASE Dispatch
  BY <1>1, DispatchInv
<1>2. CASE Application
  BY <1>2, ApplicationInv
<1>3. CASE Radio
  BY <1>3, RadioInv
<1>4. CASE Clock
  BY <1>4, ClockInv
<1>5. CASE UNCHANGED vars
  BY <1>5 DEF vars, SessionInv, HistoryOK, Sound
<1> QED
  BY <1>1, <1>2, <1>3, <1>4, <1>5 DEF Next

\* The strengthened invariant, of which both properties are a part.
THEOREM SessionInvHolds == Spec => []SessionInv
BY SessionInvInit, SessionInvNext, PTL DEF Spec

\* Every handler of the stack, the MAC and the radio leaves the device in a state
\* the others are written for: TypeOK, for every frame, fault and bound.
THEOREM TypeCorrect == Spec => []TypeOK
<1>1. SessionInv => TypeOK
  BY SessionInvIs
<1> QED
  BY <1>1, SessionInvHolds, PTL

\* The stack's CONNECTED flag, its session record and the MAC's join state agree
\* between any two handlers, also when windows overlap, calls are lost for want of
\* memory, and the application disconnects in the middle of a transmission.
THEOREM SessionConsistentHolds == Spec => []SessionConsistent
<1>1. SessionInv => SessionConsistent
  BY SessionInvIs
<1> QED
  BY <1>1, SessionInvHolds, PTL
=============================================================================
