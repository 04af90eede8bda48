----------------------------- MODULE LoRaDevice -----------------------------
(***************************************************************************)
(* The data that the LoRaWAN stack, its MAC layer, its timers, the radio   *)
(* and the deferred-call queue of the LoRa task share, and the operations  *)
(* on timers and on the queue that every layer uses.                       *)
(*                                                                         *)
(* The layers call each other synchronously inside one handler, so the     *)
(* device is one record, and a C++ member function is an operator from a   *)
(* device to a device (a function that also returns a status returns       *)
(* [dev |-> ..., status |-> ...]).  A field has the name of the member it  *)
(* stands for, without its underscore.                                     *)
(***************************************************************************)
EXTENDS Integers, Sequences, FiniteSets

CONSTANTS
    QueueCap,      \* events the memory of ev_queue can hold
    MaxJoinTrials, \* max_join_request_trials
    NumRetry,      \* _num_retry, set by set_confirmed_msg_retry()
    MaxNbTrans     \* largest nb_trans a LinkADRReq sets

ASSUME BoundsAssumption ==
    /\ QueueCap \in Nat \ {0}
    /\ MaxJoinTrials \in Nat \ {0}
    /\ NumRetry \in Nat
    /\ MaxNbTrans \in Nat \ {0}

-----------------------------------------------------------------------------
(* Types *)

DeviceStates == {"NOT_INITIALIZED", "IDLE", "CONNECTING", "JOINING",
                 "AWAITING_JOIN_ACCEPT", "CONNECTED", "SCHEDULING", "SENDING",
                 "AWAITING_ACK", "RECEIVING", "STATUS_CHECK", "SHUTDOWN"}

CtrlFlags == {"CONNECTED", "CONN_IN_PROGRESS", "USING_OTAA", "TX_DONE",
              "RETRY_EXHAUSTED", "MSG_RECVD"}

MessageTypes == {"UNCONFIRMED", "CONFIRMED", "PROPRIETARY"}

\* The values of mcps_confirmation.status that mcps_confirm_handler() tells apart.
ConfirmStatuses == {"OK", "TX_TIMEOUT", "ERROR"}

AppEvents == {"CONNECTED", "DISCONNECTED", "TX_DONE", "TX_TIMEOUT", "TX_ERROR",
              "RX_DONE", "JOIN_FAILURE", "AUTOMATIC_UPLINK_ERROR"}

Timers == {"backoff", "rx1", "rx2", "rx2_closure", "ack"}

RadioModes == {"sleep", "standby", "tx", "rx", "rx_continuous"}

\* A received frame, by what the MAC does with it.  "accept" and "reject" are
\* Join Accepts with a right and a wrong MIC; "foreign" is a frame of another
\* address or a wrong MIC; "first" is the downlink with counter 0, "data" one
\* with a later counter, "repeat" has the counter of the downlink taken last.  nb
\* is the NbTrans of a LinkADRReq it carries, 0 for none; sticky says that it
\* carries a command whose answer is repeated until a downlink arrives.
Frames == [kind : {"accept", "reject", "foreign", "first", "data", "repeat"},
           confirmed : BOOLEAN, ack : BOOLEAN, fpending : BOOLEAN,
           sticky : BOOLEAN, payload : BOOLEAN, nb : 0 .. MaxNbTrans]

\* The frame in tx_buffer: what it carries, its counter, its ACK bit.
TxBuffers == [join : BOOLEAN, msg : Nat, ul : Nat, ack : BOOLEAN]

\* The calls posted to ev_queue.  "cancelled" is an event whose callback
\* equeue_cancel() has cleared; "timer" is the callback of an expired timer, and
\* live says that timer_id still names it.
Calls == [fn : {"process_transmission", "process_transmission_timeout",
                "state_controller_scheduling", "send_automatic_uplink_message",
                "cancelled"}]
    \cup [fn : {"process_reception"}, frame : Frames]
    \cup [fn : {"process_reception_timeout"}, is_timeout : BOOLEAN]
    \cup [fn : {"event"}, event : AppEvents]
    \cup [fn : {"timer"}, timer : Timers, live : BOOLEAN]

Devices ==
    [\* LoRaWANStack
     state : DeviceStates, flags : SUBSET CtrlFlags, session_active : BOOLEAN,
     automatic_uplink_ongoing : BOOLEAN, rx_payload_in_use : BOOLEAN,
     qos_cnt : Nat,
     \* LoRaMac; dl_frame_counter is 1 for every counter other than 0
     device_class : {"A", "C"}, nwk_joined : BOOLEAN, can_cancel_tx : BOOLEAN,
     continuous_rx2_window_open : BOOLEAN, demod_ongoing : BOOLEAN,
     rx_slot : {"RX1", "RX2", "CLASS_C"}, join_request_trial_counter : Nat,
     ul_frame_counter : Nat, dl_frame_counter : {0, 1}, nb_trans : Nat,
     prev_qos_level : Nat, ul_nb_rep_counter : Nat,
     is_node_ack_requested : BOOLEAN, is_srv_ack_requested : BOOLEAN,
     ack_timeout_retry_counter : Nat, max_ack_timeout_retries : Nat,
     \* _ongoing_tx_msg and tx_buffer
     tx_ongoing : BOOLEAN, tx_type : MessageTypes, tx_msg : Nat,
     nb_trials : Nat, tx_buffer : TxBuffers,
     \* _mcps_confirmation, _mcps_indication, _mlme_indication
     req_type : MessageTypes, conf_status : ConfirmStatuses,
     ack_received : BOOLEAN, is_ack_recvd : BOOLEAN,
     mlme_ind_pending : BOOLEAN,
     \* LoRaWANTimer, ev_queue, SX126X
     armed : SUBSET Timers, orphans : SUBSET Timers, due : Seq(Calls),
     radio : RadioModes]

NoTxBuffer == [join |-> FALSE, msg |-> 0, ul |-> 0, ack |-> FALSE]

-----------------------------------------------------------------------------
(* The event queue: call(), call_in() and cancel() *)

Room(d) == Cardinality(d.armed) + Cardinality(d.orphans) + Len(d.due) < QueueCap

\* _queue->call(): with no memory left it returns 0 and the call is lost; the
\* assertion on its result stops nothing.
post(d, call) ==
    IF Room(d) THEN [d EXCEPT !.due = Append(@, call)] ELSE d

send_event_to_application(d, e) == post(d, [fn |-> "event", event |-> e])

LiveCall(t) == [fn |-> "timer", timer |-> t, live |-> TRUE]
StaleCall(t) == [fn |-> "timer", timer |-> t, live |-> FALSE]
CancelledCall == [fn |-> "cancelled"]

InDue(d, call) == \E i \in DOMAIN d.due : d.due[i] = call

ReplaceDue(d, old, new) ==
    [i \in DOMAIN d.due |-> IF d.due[i] = old THEN new ELSE d.due[i]]

\* LoRaWANTimeHandler::stop(): cancels the event that timer_id names, which may
\* be waiting in the queue already, and forgets it.
stop(d, t) ==
    [d EXCEPT !.armed = @ \ {t}, !.due = ReplaceDue(d, LiveCall(t), CancelledCall)]

\* LoRaWANTimeHandler::init(): timer_id is 0.  An event that timer_id named until
\* now stays queued and can no longer be cancelled: an orphan (one orphan of each
\* timer is kept track of).
init(d, t) ==
    [d EXCEPT !.orphans = IF t \in d.armed THEN @ \cup {t} ELSE @,
              !.armed = @ \ {t},
              !.due = ReplaceDue(d, LiveCall(t), StaleCall(t))]

\* LoRaWANTimeHandler::start(): posts a delayed call and overwrites timer_id, of a
\* timer that runs too.
start(d, t) ==
    LET forgotten == init(d, t)
    IN  IF Room(forgotten) THEN [forgotten EXCEPT !.armed = @ \cup {t}]
        ELSE forgotten

\* timer_id != 0
TimerIdSet(d, t) == t \in d.armed \/ InDue(d, LiveCall(t))
=============================================================================
