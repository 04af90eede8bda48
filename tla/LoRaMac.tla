------------------------------- MODULE LoRaMac -------------------------------
(***************************************************************************)
(* The MAC layer: scheduling and sending a frame, the two receive windows, *)
(* retransmission, and what a received frame changes.  Every operator is a *)
(* member function of LoRaMac, the PHY calls it makes reduced to their     *)
(* effect on the radio and to the outcome of the channel selection.        *)
(*                                                                         *)
(* Not modelled: payload bytes, keys and frequencies; the link check       *)
(* request (nothing in src/ asks for one, so _mlme_confirmation.req_type   *)
(* stays MLME_JOIN, which is also what a reset leaves in it); failures of  *)
(* the cryptographic library; malformed MAC commands.                      *)
(***************************************************************************)
EXTENDS LoRaDevice

\* What LoRaPHY::set_next_channel() and the checks around it can answer to
\* schedule_tx(): a free channel, a wait for the duty cycle, no channel for the
\* data rate, a payload too long for the data rate, or a radio the network has
\* switched off (max_duty_cycle = 255).
ChannelOutcomes == {"OK", "RESTRICTED", "NO_CHANNEL", "LENGTH_ERROR", "DEVICE_OFF"}

MacStatuses == {"OK", "CONNECT_IN_PROGRESS", "NO_CHANNEL", "LENGTH_ERROR",
                "DEVICE_OFF", "NO_NETWORK_JOINED", "BUSY", "NO_OP"}

put_radio_to_sleep(d) == [d EXCEPT !.radio = "sleep"]

-----------------------------------------------------------------------------
(* Sending *)

set_tx_ongoing(d, ongoing) == [d EXCEPT !.can_cancel_tx = TRUE, !.tx_ongoing = ongoing]

reset_ongoing_tx(d) == [d EXCEPT !.tx_ongoing = FALSE]

send_frame_on_channel(d) ==
    [d EXCEPT !.conf_status = "ERROR",
              !.join_request_trial_counter = IF d.nwk_joined THEN @ ELSE @ + 1,
              !.radio = "tx"]

\* Mutant: the request to acknowledge is dropped before its frame is on the air.
wait_for_duty_cycle_ack_dropped(d) ==
    start([d EXCEPT !.can_cancel_tx = TRUE, !.is_srv_ack_requested = FALSE], "backoff")

wait_for_duty_cycle(d) == start([d EXCEPT !.can_cancel_tx = TRUE], "backoff")

schedule_tx(d, ch) ==
    CASE ch = "DEVICE_OFF" ->
           [dev |-> d, status |-> "DEVICE_OFF"]
      [] ch = "NO_CHANNEL" ->
           [dev |-> [d EXCEPT !.conf_status = "ERROR"], status |-> "NO_CHANNEL"]
      [] ch = "RESTRICTED" ->
           [dev |-> wait_for_duty_cycle(d), status |-> "OK"]
      [] ch = "LENGTH_ERROR" /\ d.nwk_joined ->
           [dev |-> d, status |-> "LENGTH_ERROR"]
      [] OTHER ->
           [dev |-> send_frame_on_channel([d EXCEPT !.is_srv_ack_requested = FALSE,
                                                    !.can_cancel_tx = FALSE]),
            status |-> "OK"]

\* prepare_frame() and schedule_tx() for a Join Request.  A channel that is not
\* found is reported as OK: status keeps the value prepare_frame() gave it.
send_join_request(d, ch) ==
    LET framed == [d EXCEPT !.is_node_ack_requested = FALSE,
                            !.tx_buffer = [NoTxBuffer EXCEPT !.join = TRUE]]
        sched == schedule_tx(framed, ch)
    IN  [dev |-> sched.dev,
         status |-> IF sched.status = "OK" THEN "CONNECT_IN_PROGRESS" ELSE "OK"]

handle_retransmission(d, ch) ==
    IF d.nwk_joined THEN schedule_tx(d, ch) ELSE send_join_request(d, ch)

\* Mutant: only a confirmed frame carries the acknowledgement.
AckBit_confirmed_only(d) == d.is_srv_ack_requested /\ d.tx_type = "CONFIRMED"

\* The ACK bit of the frame control field.
AckBit(d) == d.is_srv_ack_requested /\ d.tx_type # "PROPRIETARY"

\* prepare_frame() for a data or proprietary frame, with its status.
prepare_frame(d) ==
    LET wanted == [d EXCEPT !.is_node_ack_requested = (d.tx_type = "CONFIRMED")]
        framed == [wanted EXCEPT !.tx_buffer =
                     [join |-> FALSE, msg |-> d.tx_msg, ul |-> d.ul_frame_counter,
                      ack |-> AckBit(d)]]
    IN  IF d.tx_type # "PROPRIETARY" /\ ~d.nwk_joined
        THEN [dev |-> wanted, status |-> "NO_NETWORK_JOINED"]
        ELSE [dev |-> framed, status |-> "OK"]

\* send_ongoing_tx() with send(): reset the confirmation and the retry counters,
\* build the frame, schedule it.
send_ongoing_tx(d, ch) ==
    LET reset == [d EXCEPT !.req_type = "UNCONFIRMED", !.conf_status = "ERROR",
                           !.ack_received = FALSE, !.ack_timeout_retry_counter = 1,
                           !.max_ack_timeout_retries =
                               IF d.tx_type = "CONFIRMED" THEN d.nb_trials ELSE 1]
        prep  == prepare_frame(reset)
        sched == schedule_tx(prep.dev, ch)
    IN  CASE prep.status # "OK" -> prep
          [] prep.status = "OK" /\ sched.status # "OK" -> sched
          [] OTHER -> [dev |-> [sched.dev EXCEPT !.req_type = d.tx_type], status |-> "OK"]

\* set_type and set_nb_trials of prepare_ongoing_tx(); the payload is msg.
prepare_ongoing_tx(d, msg, type) ==
    [d EXCEPT !.tx_msg = msg, !.tx_type = type,
              !.nb_trials = CASE type = "UNCONFIRMED" -> 1
                              [] type = "CONFIRMED"   -> NumRetry
                              [] type = "PROPRIETARY" -> d.nb_trans]

\* Mutant: the backoff timer goes on.
drop_ongoing_tx_timer_kept(d) ==
    reset_ongoing_tx([stop(d, "ack") EXCEPT !.tx_buffer = NoTxBuffer])

drop_ongoing_tx(d) ==
    reset_ongoing_tx([stop(stop(d, "backoff"), "ack") EXCEPT !.tx_buffer = NoTxBuffer])

clear_tx_pipe(d) ==
    CASE d.can_cancel_tx /\ ~TimerIdSet(d, "backoff") ->
           [dev |-> d, status |-> "NO_OP"]
      [] d.can_cancel_tx /\ "backoff" \in d.armed ->
           [dev |-> drop_ongoing_tx(d), status |-> "OK"]
      [] OTHER ->
           [dev |-> d, status |-> "BUSY"]

-----------------------------------------------------------------------------
(* The receive windows *)

open_rx1_window(d) ==
    [stop(d, "rx1") EXCEPT !.demod_ongoing = TRUE, !.continuous_rx2_window_open = FALSE,
                           !.rx_slot = "RX1", !.radio = "rx"]

open_rx2_window(d) ==
    IF d.demod_ongoing THEN d
    ELSE [stop(d, "rx2") EXCEPT
            !.continuous_rx2_window_open = TRUE,
            !.rx_slot = IF d.device_class = "C" THEN "CLASS_C" ELSE "RX2",
            !.radio = IF d.device_class = "C" THEN "rx_continuous" ELSE "rx"]

\* The radio after a transmission: listening (class C) or asleep.
rest_radio(d) == IF d.device_class = "C" THEN open_rx2_window(d) ELSE put_radio_to_sleep(d)

\* Mutant: the RX2 window of class C is never closed.
start_closure_never(d) == d

start_closure(d) == IF d.device_class = "C" THEN start(d, "rx2_closure") ELSE d

on_radio_tx_done(d) ==
    LET counted == [rest_radio(d) EXCEPT !.ul_nb_rep_counter =
                      IF d.req_type = "UNCONFIRMED" /\ d.nb_trans > 1 THEN @ + 1 ELSE @]
        windows == start_closure(start(start(counted, "rx1"), "rx2"))
    IN  IF d.is_node_ack_requested THEN start(windows, "ack") ELSE windows

on_radio_tx_timeout(d) ==
    LET stopped == stop(stop(stop(stop(d, "rx1"), "rx2"), "rx2_closure"), "ack")
    IN  [rest_radio(stopped) EXCEPT !.conf_status = "TX_TIMEOUT", !.ack_received = FALSE]

\* rx2 is due when its time has come but its call has not run yet.
on_radio_rx_timeout(d) ==
    LET quiet == [d EXCEPT !.demod_ongoing = FALSE,
                           !.radio = IF d.device_class = "A" THEN "sleep" ELSE @,
                           !.conf_status = IF d.is_node_ack_requested THEN "ERROR" ELSE @]
    IN  IF d.rx_slot = "RX1" /\ d.device_class # "C" /\ InDue(d, LiveCall("rx2"))
        THEN stop(quiet, "rx2")
        ELSE quiet

-----------------------------------------------------------------------------
(* Reception *)

\* Mutant: a frame in RX1 leaves RX2 to come.
stop_rx_windows_rx1_only(d) == stop(d, "rx1")

stop_rx_windows(d) ==
    LET windows == IF d.rx_slot = "RX1" THEN stop(d, "rx2") ELSE stop(stop(d, "rx1"), "rx2")
    IN  IF d.device_class = "C" THEN stop(windows, "rx2_closure") ELSE windows

\* Mutant: no test for repeated downlinks.
Discarded_never(d, f) == FALSE

\* The dl_frame_counter test for a repeated downlink, which a repeated downlink
\* with counter 0 passes.
Discarded(d, f) == f.kind = "repeat" /\ d.dl_frame_counter # 0

\* Mutant: the downlinks are counted instead.
DownlinkCounter_counts(d, f) == d.dl_frame_counter + 1

DownlinkCounter(d, f) ==
    CASE f.kind = "first" -> 0
      [] f.kind = "data"  -> 1
      [] OTHER            -> d.dl_frame_counter

\* handle_data_frame(), with the functions that extract payload and MAC commands.
\* pending is _mcps_indication.pending when it returns.
handle_data_frame(d, f) ==
    LET addressed == [d EXCEPT !.ack_received = FALSE, !.is_ack_recvd = FALSE,
                               !.conf_status = "OK",
                               !.is_srv_ack_requested = f.confirmed]
        acked == d.is_node_ack_requested /\ f.ack
        taken == [stop_rx_windows(addressed) EXCEPT
                    !.dl_frame_counter = DownlinkCounter(d, f),
                    !.ack_received = acked, !.is_ack_recvd = acked,
                    !.nb_trans = IF f.nb > 0 THEN f.nb ELSE @,
                    !.mlme_ind_pending = @ \/ f.sticky]
    IN  CASE f.kind = "foreign" -> [dev |-> d, pending |-> FALSE]
          [] Discarded(d, f)    -> [dev |-> addressed, pending |-> FALSE]
          [] OTHER -> [dev |-> IF acked THEN stop(taken, "ack") ELSE taken,
                       pending |-> TRUE]

\* A Join Accept with a right MIC joins the network and stops the RX2 window.
handle_join_accept_frame(d, f) ==
    IF f.kind = "accept"
    THEN [stop(d, "rx2") EXCEPT !.nwk_joined = TRUE, !.ul_frame_counter = 0,
                                !.ul_nb_rep_counter = 0]
    ELSE d

JoinFrame(f) == f.kind \in {"accept", "reject"}

on_radio_rx_done(d, f) ==
    LET heard == [d EXCEPT !.demod_ongoing = FALSE]
        ready == IF d.device_class = "C"
                 THEN IF d.continuous_rx2_window_open THEN heard
                      ELSE open_rx2_window(stop(heard, "rx2_closure"))
                 ELSE put_radio_to_sleep(stop(heard, "rx1"))
    IN  CASE JoinFrame(f) /\ d.nwk_joined  -> [dev |-> ready, pending |-> FALSE]
          [] JoinFrame(f) /\ ~d.nwk_joined ->
               [dev |-> handle_join_accept_frame(ready, f), pending |-> FALSE]
          [] OTHER -> handle_data_frame(ready, f)

-----------------------------------------------------------------------------
(* Retrying, joining, completing, disconnecting *)

\* Mutant: one retransmission too many is expected.
continue_sending_process_off_by_one(d) ==
    IF d.ack_timeout_retry_counter > d.max_ack_timeout_retries + 1
    THEN [dev |-> stop(d, "ack"), more |-> FALSE]
    ELSE [dev |-> d, more |-> TRUE]

\* Any retransmission left?  With none, no ACK timeout will come either.
continue_sending_process(d) ==
    IF d.ack_timeout_retry_counter > d.max_ack_timeout_retries
    THEN [dev |-> stop(d, "ack"), more |-> FALSE]
    ELSE [dev |-> d, more |-> TRUE]

continue_joining_process(d, ch) ==
    LET retry == handle_retransmission(d, ch)
    IN  IF d.join_request_trial_counter >= MaxJoinTrials
        THEN [dev |-> d, more |-> FALSE]
        ELSE [dev |-> retry.dev, more |-> retry.status = "CONNECT_IN_PROGRESS"]

\* ch[i] is the outcome of the i-th call of schedule_tx().  failed says that
\* _scheduling_failure_handler is called.  Without a channel the retransmission
\* is attempted twice more.
on_ack_timeout_timer_event(d, ch) ==
    LET first  == handle_retransmission(stop(d, "ack"), ch[1])
        noAck  == [first.dev EXCEPT !.is_node_ack_requested = FALSE, !.ack_received = FALSE]
        second == handle_retransmission(noAck, ch[2])
        third  == handle_retransmission(second.dev, ch[3])
        counted(x) == [x EXCEPT !.ack_timeout_retry_counter = @ + 1]
    IN  IF d.ack_timeout_retry_counter > d.max_ack_timeout_retries
        THEN [dev |-> d, failed |-> FALSE]
        ELSE CASE first.status = "OK" ->
                    [dev |-> counted(first.dev), failed |-> FALSE]
               [] first.status = "NO_CHANNEL" /\ second.status = "LENGTH_ERROR" ->
                    [dev |-> second.dev, failed |-> TRUE]
               [] first.status = "NO_CHANNEL" /\ second.status # "LENGTH_ERROR" ->
                    [dev |-> counted(third.dev), failed |-> FALSE]
               [] first.status \notin {"OK", "NO_CHANNEL"} ->
                    [dev |-> first.dev, failed |-> TRUE]

on_backoff_timer_expiry(d, ch) ==
    LET sched == schedule_tx(stop(d, "backoff"), ch)
    IN  [dev |-> sched.dev, failed |-> sched.status # "OK" /\ d.nwk_joined]

\* Mutant: the uplink counter stands still.
count_uplink_never(d) == d

count_uplink(d) == [d EXCEPT !.ul_frame_counter = @ + 1]

post_process_mcps_req(d) ==
    LET acked == d.req_type = "CONFIRMED" /\ d.ack_received
    IN  count_uplink(
            [d EXCEPT !.conf_status = IF d.req_type = "CONFIRMED" /\ ~acked THEN "ERROR" ELSE "OK",
                      !.is_node_ack_requested = @ /\ ~acked,
                      !.ack_received = @ /\ ~acked,
                      !.is_ack_recvd = @ /\ ~acked])

\* get_prev_QOS_level() then get_QOS_level(), which remembers the level.
QOS_repeats(d) ==
    /\ d.nb_trans > 1
    /\ d.qos_cnt < d.nb_trans
    /\ d.prev_qos_level = d.nb_trans

remember_QOS(d) == [d EXCEPT !.prev_qos_level = d.nb_trans]

reset_mac_parameters(d) ==
    [d EXCEPT !.nwk_joined = FALSE, !.ul_frame_counter = 0, !.dl_frame_counter = 0,
              !.ul_nb_rep_counter = 0, !.max_ack_timeout_retries = 1,
              !.ack_timeout_retry_counter = 1, !.is_node_ack_requested = FALSE,
              !.is_srv_ack_requested = FALSE, !.demod_ongoing = FALSE]

\* prepare_join() for OTAA.
prepare_join(d) == [reset_mac_parameters(d) EXCEPT !.join_request_trial_counter = 0]

\* _ongoing_tx_msg and the closure timer of class C are left as they are.
disconnect(d) ==
    LET stopped == stop(stop(stop(stop(d, "backoff"), "rx1"), "rx2"), "ack")
    IN  [put_radio_to_sleep(stopped) EXCEPT
            !.nwk_joined = FALSE, !.is_node_ack_requested = FALSE,
            !.is_srv_ack_requested = FALSE, !.req_type = "UNCONFIRMED",
            !.conf_status = "ERROR", !.ack_received = FALSE, !.is_ack_recvd = FALSE]

set_device_class(d, class) ==
    LET slept == [init(d, "rx2_closure") EXCEPT !.device_class = class, !.radio = "sleep"]
    IN  IF class = "C" THEN open_rx2_window([slept EXCEPT !.is_node_ack_requested = FALSE])
        ELSE slept
=============================================================================
