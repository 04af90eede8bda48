----------------------------- MODULE LoRaStack -----------------------------
(***************************************************************************)
(* The operations of LoRaWANStack: the state controller, the processors of *)
(* deferred interrupts and the calls of the application, as operators on   *)
(* the device.  LoRaWANStack composes them into the running system.        *)
(*                                                                         *)
(* Not modelled: parameter validation of the API, reading a received       *)
(* message (handle_rx), metadata, and the link check request.              *)
(***************************************************************************)
EXTENDS LoRaMac

set_state(d, s) == [d EXCEPT !.state = s]
set_flags(d, on) == [d EXCEPT !.flags = @ \cup on]
clear_flags(d, off) == [d EXCEPT !.flags = @ \ off]

state_machine_run_to_completion(d) ==
    set_state(d, IF d.device_class = "C" THEN "RECEIVING" ELSE "IDLE")

-----------------------------------------------------------------------------
(* Confirmations and indications *)

\* Mutant: any end but a timeout is a success.
mcps_confirm_handler_always_done(d) ==
    send_event_to_application(d,
        IF d.conf_status = "TX_TIMEOUT" THEN "TX_TIMEOUT" ELSE "TX_DONE")

mcps_confirm_handler(d) ==
    send_event_to_application(d,
        CASE d.conf_status = "OK"         -> "TX_DONE"
          [] d.conf_status = "TX_TIMEOUT" -> "TX_TIMEOUT"
          [] d.conf_status = "ERROR"      -> "TX_ERROR")

schedule_automatic_uplink(d) ==
    post([d EXCEPT !.automatic_uplink_ongoing = TRUE],
         [fn |-> "send_automatic_uplink_message"])

mlme_indication_handler(d) == schedule_automatic_uplink(d)

UplinkWanted(d, f) == IF d.device_class = "C" THEN f.confirmed ELSE f.fpending

mcps_indication_handler(d, f) ==
    LET told == IF f.payload THEN send_event_to_application(d, "RX_DONE") ELSE d
    IN  IF UplinkWanted(d, f) /\ ~d.automatic_uplink_ongoing
        THEN schedule_automatic_uplink(told)
        ELSE told

\* Mutant: the transmission slot is not freed.
end_tx_slot_kept(d) == set_tx_ongoing(d, TRUE)

end_tx(d) == reset_ongoing_tx(set_tx_ongoing(d, FALSE))

\* f is the frame of the pending indication, if MSG_RECVD_FLAG is set.
process_status_check_state(d, f) ==
    LET ended    == end_tx(clear_flags(d, {"TX_DONE", "RETRY_EXHAUSTED"}))
        over     == d.flags \cap {"TX_DONE", "RETRY_EXHAUSTED"} # {}
        reported == CASE ~over -> d
                      [] over /\ ended.automatic_uplink_ongoing ->
                           [ended EXCEPT !.automatic_uplink_ongoing = FALSE]
                      [] OTHER -> mcps_confirm_handler(ended)
    IN  CASE d.state \in {"SENDING", "AWAITING_ACK"} ->
               mcps_confirm_handler(end_tx(clear_flags(d, {"TX_DONE"})))
          [] d.state = "RECEIVING" /\ "MSG_RECVD" \in d.flags ->
               mcps_indication_handler(clear_flags(reported, {"MSG_RECVD"}), f)
          [] d.state = "RECEIVING" /\ "MSG_RECVD" \notin d.flags -> reported
          [] OTHER -> d

NoIndication == [kind |-> "foreign", confirmed |-> FALSE, ack |-> FALSE,
                 fpending |-> FALSE, sticky |-> FALSE, payload |-> FALSE, nb |-> 0]

STATUS_CHECK(d) == process_status_check_state(d, NoIndication)

-----------------------------------------------------------------------------
(* Connecting and disconnecting *)

\* Mutant: the connection stays in progress.
process_connected_state_not_cleared(d) ==
    set_state(send_event_to_application(
                  [d EXCEPT !.flags = @ \cup {"CONNECTED"}, !.session_active = TRUE],
                  "CONNECTED"),
              "IDLE")

process_connected_state(d) ==
    set_state(send_event_to_application(
                  [d EXCEPT !.flags = (@ \cup {"CONNECTED"}) \ {"CONN_IN_PROGRESS"},
                            !.session_active = TRUE], "CONNECTED"),
              "IDLE")

\* Mutant: the failed attempt stays in progress.
join_failed_flag_kept(d) ==
    set_state(send_event_to_application(d, "JOIN_FAILURE"), "IDLE")

join_failed(d) ==
    set_state(send_event_to_application(clear_flags(d, {"CONN_IN_PROGRESS"}), "JOIN_FAILURE"),
              "IDLE")

process_joining_state(d, ch) ==
    LET joining  == set_state(d, "JOINING")
        retry    == continue_joining_process(joining, ch)
    IN  CASE d.state = "CONNECTING" -> send_join_request(joining, ch).dev
          [] d.state = "AWAITING_JOIN_ACCEPT" /\ d.rx_slot # "RX1" ->
               IF retry.more THEN retry.dev ELSE join_failed(retry.dev)
          [] OTHER -> d

process_connecting_state(d, ch) ==
    LET connecting == set_state(d, "CONNECTING")
    IN  IF "USING_OTAA" \in d.flags
        THEN process_joining_state(connecting, ch)
        ELSE process_connected_state([connecting EXCEPT !.nwk_joined = TRUE])

\* Mutant: ABP starts with fresh frame counters too.
connect_reset(d, otaa, ch) ==
    process_connecting_state(
        set_flags(prepare_join(d), {"CONN_IN_PROGRESS"} \cup IF otaa THEN {"USING_OTAA"} ELSE {}),
        ch)

\* connect() once it is not refused.  ABP keeps the frame counters.
connect(d, otaa, ch) ==
    process_connecting_state(
        IF otaa THEN set_flags(prepare_join(d), {"CONN_IN_PROGRESS", "USING_OTAA"})
                ELSE clear_flags(set_flags(d, {"CONN_IN_PROGRESS"}), {"USING_OTAA"}),
        ch)

\* accepted: the Join Accept had the right MIC.
mlme_confirm_handler(d, accepted, ch) ==
    IF accepted THEN process_connected_state(d)
    ELSE process_joining_state(set_state(d, "AWAITING_JOIN_ACCEPT"), ch)

\* Mutant: the control flags survive.
process_shutdown_state_flags_kept(d) ==
    send_event_to_application(
        [disconnect(d) EXCEPT !.session_active = FALSE, !.state = "SHUTDOWN"], "DISCONNECTED")

process_shutdown_state(d) ==
    send_event_to_application(
        [disconnect(d) EXCEPT !.session_active = FALSE, !.state = "SHUTDOWN",
                              !.flags = {}],
        "DISCONNECTED")

-----------------------------------------------------------------------------
(* Sending *)

\* A status other than OK and WOULD_BLOCK is an ERROR.
process_scheduling_state(d, ch) ==
    LET sent == send_ongoing_tx(d, ch)
        sending == set_state(set_tx_ongoing(clear_flags(sent.dev, {"TX_DONE"}), TRUE), "SENDING")
    IN  IF d.state \notin {"IDLE", "RECEIVING"} /\ d.device_class # "C"
        THEN [dev |-> d, status |-> "ERROR"]
        ELSE IF sent.status = "OK" THEN [dev |-> sending, status |-> "OK"]
                                   ELSE [dev |-> sent.dev, status |-> "ERROR"]

\* send() and the automatic uplink; msg stands for the payload.
handle_tx(d, msg, type, ch) ==
    LET counted == [d EXCEPT !.qos_cnt = 1]
    IN  CASE ~d.session_active -> [dev |-> d, status |-> "ERROR"]
          [] d.session_active /\ d.tx_ongoing -> [dev |-> d, status |-> "WOULD_BLOCK"]
          [] d.session_active /\ ~d.tx_ongoing /\ ~d.nwk_joined ->
               [dev |-> counted, status |-> "ERROR"]
          [] OTHER -> process_scheduling_state(prepare_ongoing_tx(counted, msg, type), ch)

AutomaticUplink == 0   \* the empty payload of an automatic uplink

send_automatic_uplink_message(d, ch) ==
    LET sent == handle_tx(d, AutomaticUplink, "CONFIRMED", ch)
    IN  CASE sent.status = "OK"          -> sent.dev
          [] sent.status = "WOULD_BLOCK" -> [sent.dev EXCEPT !.automatic_uplink_ongoing = FALSE]
          [] sent.status = "ERROR"       ->
               send_event_to_application(sent.dev, "AUTOMATIC_UPLINK_ERROR")

stop_sending(d) ==
    LET cleared == clear_tx_pipe(d)
    IN  IF cleared.status = "OK"
        THEN set_state(set_tx_ongoing(clear_flags(cleared.dev, {"TX_DONE"}), FALSE), "IDLE")
        ELSE d

-----------------------------------------------------------------------------
(* Deferred interrupts *)

process_transmission(d) ==
    on_radio_tx_done(
        CASE d.state = "JOINING" -> set_state(d, "AWAITING_JOIN_ACCEPT")
          [] d.state = "SENDING" /\ d.req_type = "CONFIRMED" -> set_state(d, "AWAITING_ACK")
          [] OTHER -> d)

\* In JOINING, mlme_confirm_handler() with LORAMAC_EVENT_INFO_STATUS_TX_TIMEOUT.
process_transmission_timeout(d) ==
    LET silent == clear_flags(on_radio_tx_timeout(d), {"TX_DONE"})
    IN  state_machine_run_to_completion(
            IF d.state = "JOINING"
            THEN send_event_to_application(set_state(silent, "IDLE"), "TX_TIMEOUT")
            ELSE STATUS_CHECK(silent))

handle_scheduling_failure(d) == state_machine_run_to_completion(STATUS_CHECK(d))

\* The deferred state_controller(DEVICE_STATE_SCHEDULING) of a QOS repetition.
repeat_for_QOS(d) ==
    [post(remember_QOS(d), [fn |-> "state_controller_scheduling"]) EXCEPT !.qos_cnt = @ + 1]

post_process_tx_with_reception(d) ==
    LET done   == set_flags(clear_flags(d, {"RETRY_EXHAUSTED"}), {"TX_DONE"})
        left   == continue_sending_process(d)
        failed == set_flags(clear_flags(left.dev, {"TX_DONE"}), {"RETRY_EXHAUSTED"})
    IN  CASE d.req_type = "CONFIRMED" /\ d.is_ack_recvd ->
               STATUS_CHECK(post_process_mcps_req(done))
          [] d.req_type = "CONFIRMED" /\ ~d.is_ack_recvd ->
               IF ~left.more /\ d.rx_slot # "RX1"
               THEN STATUS_CHECK(post_process_mcps_req(failed))
               ELSE left.dev
          [] d.req_type # "CONFIRMED" /\ QOS_repeats(d) ->
               repeat_for_QOS(clear_flags(d, {"TX_DONE"}))
          [] OTHER ->
               STATUS_CHECK(set_flags(post_process_mcps_req(remember_QOS(d)), {"TX_DONE"}))

\* Also the closure handler of the RX2 window of class C.
post_process_tx_no_reception(d) ==
    LET left == continue_sending_process(d)
        end(x) == state_machine_run_to_completion(STATUS_CHECK(post_process_mcps_req(x)))
        done == set_flags(remember_QOS(d), {"TX_DONE"})
    IN  CASE d.req_type = "CONFIRMED" /\ left.more ->
               clear_flags(left.dev, {"TX_DONE", "RETRY_EXHAUSTED"})
          [] d.req_type = "CONFIRMED" /\ ~left.more ->
               end(set_flags(clear_flags(left.dev, {"TX_DONE"}), {"RETRY_EXHAUSTED"}))
          [] d.req_type # "CONFIRMED" /\ QOS_repeats(d) ->
               state_machine_run_to_completion(repeat_for_QOS(set_flags(d, {"TX_DONE"})))
          [] OTHER -> end(done)

\* process_reception() once the network is joined and the frame is no Join Accept
\* that was waited for; pending is _mcps_indication.pending.
finish_reception(d, f, pending) ==
    LET post_processed == post_process_tx_with_reception(d)
        indicated == IF pending
                     THEN process_status_check_state(set_flags(post_processed, {"MSG_RECVD"}), f)
                     ELSE post_processed
        completed == IF "TX_DONE" \in indicated.flags
                     THEN state_machine_run_to_completion(indicated) ELSE indicated
    IN  IF completed.mlme_ind_pending /\ ~completed.automatic_uplink_ongoing
        THEN mlme_indication_handler([completed EXCEPT !.mlme_ind_pending = FALSE])
        ELSE completed

\* Mutant: a frame heard before the join keeps the buffer.
release_rx_payload_when_joined(d) == [d EXCEPT !.rx_payload_in_use = @ /\ ~d.nwk_joined]

release_rx_payload(d) == [d EXCEPT !.rx_payload_in_use = FALSE]

process_reception(d, f, ch) ==
    LET receiving == clear_flags(set_state(d, "RECEIVING"),
                                 {"MSG_RECVD", "TX_DONE", "RETRY_EXHAUSTED"})
        heard == on_radio_rx_done(receiving, f)
        handled == CASE JoinFrame(f) /\ ~d.nwk_joined ->
                          mlme_confirm_handler(heard.dev, f.kind = "accept", ch)
                     [] ~JoinFrame(f) /\ ~d.nwk_joined -> heard.dev
                     [] d.nwk_joined -> finish_reception(heard.dev, f, heard.pending)
    IN  release_rx_payload(handled)

\* Mutant: an empty RX1 window ends the transmission.
process_reception_timeout_any_slot(d, ch) ==
    IF d.nwk_joined THEN post_process_tx_no_reception(on_radio_rx_timeout(d))
    ELSE process_joining_state(on_radio_rx_timeout(d), ch)

process_reception_timeout(d, ch) ==
    LET quiet == on_radio_rx_timeout(d)
    IN  CASE d.rx_slot # "RX2"                   -> quiet
          [] d.rx_slot = "RX2" /\ ~d.nwk_joined -> process_joining_state(quiet, ch)
          [] d.rx_slot = "RX2" /\ d.nwk_joined  -> post_process_tx_no_reception(quiet)

\* on_ack_timeout_timer_event() and on_backoff_timer_expiry(), with the
\* _scheduling_failure_handler they may call.
retry_or_fail(result) ==
    IF result.failed THEN handle_scheduling_failure(result.dev) ELSE result.dev
=============================================================================
