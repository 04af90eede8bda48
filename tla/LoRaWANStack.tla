---------------------------- MODULE LoRaWANStack ----------------------------
(***************************************************************************)
(* The running device.  Three parties act on it:                           *)
(*   - the LoRa task, which dispatches the calls of ev_queue one at a time *)
(*     and runs the application, whose API calls it makes between them;    *)
(*   - the radio, whose interrupts (RadioTask, of a higher priority) post  *)
(*     calls and return;                                                   *)
(*   - the clock, which makes delayed calls due.                           *)
(* The network decides which frames arrive, the duty cycle which channels  *)
(* are free.                                                               *)
(***************************************************************************)
EXTENDS LoRaStack

CONSTANTS
    Downlinks,     \* the frames that may arrive
    Outcomes,      \* what the channel selection may answer
    SendTypes,     \* the message types the application sends
    AppCalls,      \* the other calls the application makes
    Patient,       \* the application disconnects, reinitializes and changes the class
                   \* between transactions only, and cancels only what it sent
    RadioFaults,   \* "tx_timeout": the radio may fail to transmit;
                   \* "crc_error": a frame may arrive damaged
    NetworkAcks,   \* the network acknowledges a confirmed uplink in every downlink
                   \* that answers it
    Overrun,       \* a window's timer may expire before the previous window and
                   \* the calls it posted are over (a long frame, a slow callback)
    MaxMessages,   \* bound: messages the application sends
    MaxUplinks     \* bound: uplink counter up to which frames arrive

ASSUME EnvironmentAssumption ==
    /\ Downlinks \subseteq Frames
    /\ Outcomes \subseteq ChannelOutcomes
    /\ SendTypes \subseteq MessageTypes
    /\ AppCalls \subseteq {"otaa", "abp", "stop_sending", "shutdown", "initialize",
                           "class_a", "class_c"}
    /\ RadioFaults \subseteq {"tx_timeout", "crc_error"}
    /\ Patient \in BOOLEAN /\ NetworkAcks \in BOOLEAN /\ Overrun \in BOOLEAN
    /\ MaxMessages \in Nat
    /\ MaxUplinks \in Nat

VARIABLES
    dev,       \* the device
    messages,  \* messages the application has submitted so far: the next one's name
    owed,      \* messages accepted by send() whose report has not reached the
               \* application
    aired,     \* the data frames sent in this session: [msg, ul]
    downlink   \* the last downlink of this session the radio took: "none",
               \* "first" (its counter is 0) or "data"

vars == <<dev, messages, owed, aired, downlink>>

NewDevice ==
    [state |-> "NOT_INITIALIZED", flags |-> {}, session_active |-> FALSE,
     automatic_uplink_ongoing |-> FALSE, rx_payload_in_use |-> FALSE, qos_cnt |-> 1,
     device_class |-> "A", nwk_joined |-> FALSE, can_cancel_tx |-> TRUE,
     continuous_rx2_window_open |-> FALSE, demod_ongoing |-> FALSE, rx_slot |-> "RX1",
     join_request_trial_counter |-> 0, ul_frame_counter |-> 0, dl_frame_counter |-> 0,
     nb_trans |-> 1, prev_qos_level |-> 1, ul_nb_rep_counter |-> 0,
     is_node_ack_requested |-> FALSE, is_srv_ack_requested |-> FALSE,
     ack_timeout_retry_counter |-> 1, max_ack_timeout_retries |-> 1,
     tx_ongoing |-> FALSE, tx_type |-> "UNCONFIRMED", tx_msg |-> 0, nb_trials |-> 0,
     tx_buffer |-> NoTxBuffer, req_type |-> "UNCONFIRMED", conf_status |-> "ERROR",
     ack_received |-> FALSE, is_ack_recvd |-> FALSE, mlme_ind_pending |-> FALSE,
     armed |-> {}, orphans |-> {}, due |-> <<>>, radio |-> "sleep"]

Init ==
    /\ dev = NewDevice
    /\ messages = 0
    /\ owed = 0
    /\ aired = {}
    /\ downlink = "none"

-----------------------------------------------------------------------------
(* What a step of the device does to the history: a transmission that starts *)
(* is on the air, a join starts a new session with new keys.                 *)

Airing(d) ==
    IF d.radio = "tx" /\ ~d.tx_buffer.join /\ d.tx_type # "PROPRIETARY"
    THEN {[msg |-> d.tx_buffer.msg, ul |-> d.tx_buffer.ul]} ELSE {}

Step(d) ==
    /\ dev' = d
    /\ IF d.nwk_joined /\ ~dev.nwk_joined /\ "USING_OTAA" \in d.flags
       THEN aired' = {} /\ downlink' = "none"
       ELSE aired' = aired \cup Airing(d) /\ UNCHANGED downlink

-----------------------------------------------------------------------------
(* The LoRa task: equeue_dispatch() takes the first call that is due *)

Called(fn) == dev.due # <<>> /\ Head(dev.due).fn = fn
Popped == [dev EXCEPT !.due = Tail(@)]

ProcessTransmission ==
    /\ Called("process_transmission")
    /\ Step(process_transmission(Popped))
    /\ UNCHANGED <<messages, owed>>

ProcessTransmissionTimeout ==
    /\ Called("process_transmission_timeout")
    /\ Step(process_transmission_timeout(Popped))
    /\ UNCHANGED <<messages, owed>>

ProcessReception ==
    /\ Called("process_reception")
    /\ \E ch \in Outcomes : Step(process_reception(Popped, Head(dev.due).frame, ch))
    /\ UNCHANGED <<messages, owed>>

ProcessReceptionTimeout ==
    /\ Called("process_reception_timeout")
    /\ \E ch \in Outcomes : Step(process_reception_timeout(Popped, ch))
    /\ UNCHANGED <<messages, owed>>

RepeatForQOS ==
    /\ Called("state_controller_scheduling")
    /\ \E ch \in Outcomes : Step(process_scheduling_state(Popped, ch).dev)
    /\ UNCHANGED <<messages, owed>>

SendAutomaticUplink ==
    /\ Called("send_automatic_uplink_message")
    /\ \E ch \in Outcomes : Step(send_automatic_uplink_message(Popped, ch))
    /\ UNCHANGED <<messages, owed>>

SkipCancelled ==
    /\ Called("cancelled")
    /\ Step(Popped)
    /\ UNCHANGED <<messages, owed>>

Reports == {"TX_DONE", "TX_TIMEOUT", "TX_ERROR"}

\* lora_event_handler() hears of the event; what it then calls is a step of the
\* application.
EventHandler ==
    /\ Called("event")
    /\ Step(Popped)
    /\ owed' = IF Head(dev.due).event \in Reports THEN owed - 1 ELSE owed
    /\ UNCHANGED messages

-----------------------------------------------------------------------------
(* The LoRa task: the callbacks of the timers *)

TimerCalled(t) == Called("timer") /\ Head(dev.due).timer = t

BackoffExpired(ch) ==
    /\ TimerCalled("backoff")
    /\ Step(retry_or_fail(on_backoff_timer_expiry(Popped, ch)))
    /\ UNCHANGED <<messages, owed>>

OpenRx1 ==
    /\ TimerCalled("rx1")
    /\ Step(open_rx1_window(Popped))
    /\ UNCHANGED <<messages, owed>>

OpenRx2 ==
    /\ TimerCalled("rx2")
    /\ Step(open_rx2_window(Popped))
    /\ UNCHANGED <<messages, owed>>

Rx2Closure ==
    /\ TimerCalled("rx2_closure")
    /\ Step(post_process_tx_no_reception(Popped))
    /\ UNCHANGED <<messages, owed>>

\* The channel selection of the first attempt, and of the two that follow one
\* without a channel.
AckTimeout(ch) ==
    /\ TimerCalled("ack")
    /\ Step(retry_or_fail(on_ack_timeout_timer_event(Popped, ch)))
    /\ UNCHANGED <<messages, owed>>

-----------------------------------------------------------------------------
(* The LoRa task: API calls of the application *)

Initialized == dev.state # "NOT_INITIALIZED"

\* The application has heard of everything the stack told it.
Heard == \A i \in DOMAIN dev.due : dev.due[i].fn # "event"

\* Nothing is being sent or joined, and no window is open or will be.
Idle ==
    /\ ~dev.tx_ongoing /\ "CONN_IN_PROGRESS" \notin dev.flags
    /\ dev.armed = {} /\ dev.due = <<>> /\ dev.radio \in {"sleep", "standby", "rx_continuous"}

\* initialize_mac_layer(): the state becomes IDLE; the first time, the MAC layer
\* is initialized too, which leaves NewDevice as it is.
Initialize ==
    /\ Initialized => "initialize" \in AppCalls /\ Heard /\ (Patient => Idle)
    /\ Step(set_state(dev, "IDLE"))
    /\ UNCHANGED <<messages, owed>>

Connect(otaa) ==
    /\ Initialized /\ Heard
    /\ (IF otaa THEN "otaa" ELSE "abp") \in AppCalls
    /\ dev.flags \cap {"CONN_IN_PROGRESS", "CONNECTED"} = {}
    /\ \E ch \in Outcomes : Step(connect(dev, otaa, ch))
    /\ UNCHANGED <<messages, owed>>

\* send() that is refused changes no more than qos_cnt and is not modelled when
\* it would be refused with WOULD_BLOCK.
Send(type) ==
    /\ Initialized /\ messages < MaxMessages /\ ~dev.tx_ongoing
    /\ \E ch \in Outcomes :
         LET sent == handle_tx(dev, messages + 1, type, ch)
         IN  /\ Step(sent.dev)
             /\ owed' = IF sent.status = "OK" THEN owed + 1 ELSE owed
             /\ messages' = IF sent.status = "OK" THEN messages + 1 ELSE messages

StopSending ==
    /\ Initialized /\ "stop_sending" \in AppCalls
    /\ Patient => dev.tx_ongoing /\ dev.tx_msg # AutomaticUplink
    /\ clear_tx_pipe(dev).status = "OK"
    /\ Step(stop_sending(dev))
    /\ owed' = IF dev.tx_ongoing /\ dev.tx_msg # AutomaticUplink THEN owed - 1 ELSE owed
    /\ UNCHANGED messages

Shutdown ==
    /\ Initialized /\ dev.state # "SHUTDOWN" /\ "shutdown" \in AppCalls
    /\ Heard /\ (Patient => Idle)
    /\ Step(process_shutdown_state(dev))
    /\ UNCHANGED <<messages, owed>>

SetDeviceClass(c) ==
    /\ Initialized /\ dev.device_class # c
    /\ Heard /\ (Patient => Idle /\ dev.session_active)
    /\ (IF c = "A" THEN "class_a" ELSE "class_c") \in AppCalls
    /\ Step(set_device_class(dev, c))
    /\ UNCHANGED <<messages, owed>>

-----------------------------------------------------------------------------
(* The radio *)

Listening == dev.radio \in {"rx", "rx_continuous"}

\* A single reception leaves the radio in standby; a continuous one goes on.
AfterReception(d) == [d EXCEPT !.radio = IF @ = "rx" THEN "standby" ELSE @]

ReceptionDue(d) ==
    \E i \in DOMAIN d.due : d.due[i].fn \in {"process_reception", "process_reception_timeout"}

TxDone ==
    /\ dev.radio = "tx"
    /\ Step(post([dev EXCEPT !.radio = "standby"], [fn |-> "process_transmission"]))
    /\ UNCHANGED <<messages, owed>>

TxTimeout ==
    /\ "tx_timeout" \in RadioFaults
    /\ dev.radio = "tx"
    /\ Step(post([dev EXCEPT !.radio = "standby"], [fn |-> "process_transmission_timeout"]))
    /\ UNCHANGED <<messages, owed>>

\* What the network may send now: a Join Accept answers a Join Request, a downlink
\* comes within a session, its counter is used once and repeated only afterwards.
Arrives(f) ==
    /\ JoinFrame(f) => /\ ~dev.nwk_joined /\ dev.tx_buffer.join
                       /\ dev.join_request_trial_counter > 0 /\ "backoff" \notin dev.armed
    /\ f.kind \in {"first", "data", "repeat"} => dev.nwk_joined
    /\ f.kind = "first" => downlink = "none"
    /\ f.kind = "repeat" => downlink # "none"
    /\ NetworkAcks /\ dev.is_node_ack_requested /\ f.kind \in {"first", "data", "repeat"} => f.ack
    /\ dev.ul_frame_counter < MaxUplinks

\* rx_interrupt_handler(): a frame that comes while the previous one is in the
\* buffer is dropped without a word.
RxDone(f) ==
    /\ Listening /\ Arrives(f)
    /\ Overrun \/ ~ReceptionDue(dev)
    /\ IF dev.rx_payload_in_use
       THEN dev' = AfterReception(dev) /\ UNCHANGED downlink
       ELSE /\ dev' = post([AfterReception(dev) EXCEPT !.rx_payload_in_use = TRUE],
                           [fn |-> "process_reception", frame |-> f])
            /\ downlink' = IF f.kind \in {"first", "data"} THEN f.kind ELSE downlink
    /\ UNCHANGED <<messages, owed, aired>>

RxError ==
    /\ "crc_error" \in RadioFaults
    /\ Listening
    /\ Overrun \/ ~ReceptionDue(dev)
    /\ Step(post(AfterReception(dev), [fn |-> "process_reception_timeout", is_timeout |-> FALSE]))
    /\ UNCHANGED <<messages, owed>>

RxTimeout ==
    /\ dev.radio = "rx"
    /\ Step(post(AfterReception(dev), [fn |-> "process_reception_timeout", is_timeout |-> TRUE]))
    /\ UNCHANGED <<messages, owed>>

-----------------------------------------------------------------------------
(* The clock *)

\* The timers that expire before t when they are armed together.
Before(t) ==
    CASE t = "rx2"         -> {"rx1"}
      [] t = "rx2_closure" -> {"rx1", "rx2"}
      [] t = "ack"         -> {"rx1", "rx2", "rx2_closure"}
      [] OTHER             -> {}

\* The window before this one is over and what it posted has run.
Settled(d) ==
    /\ d.radio # "rx"
    /\ ~ReceptionDue(d)
    /\ \A i \in DOMAIN d.due : d.due[i].fn # "timer"

Expire(t) ==
    /\ t \in dev.armed
    /\ Before(t) \cap dev.armed = {}
    /\ Overrun \/ t \in {"backoff", "rx1"} \/ Settled(dev)
    /\ Step([dev EXCEPT !.armed = @ \ {t}, !.due = Append(@, LiveCall(t))])
    /\ UNCHANGED <<messages, owed>>

ExpireOrphan(t) ==
    /\ t \in dev.orphans
    /\ Step([dev EXCEPT !.orphans = @ \ {t}, !.due = Append(@, StaleCall(t))])
    /\ UNCHANGED <<messages, owed>>

-----------------------------------------------------------------------------

Dispatch ==
    \/ ProcessTransmission \/ ProcessTransmissionTimeout
    \/ ProcessReception \/ ProcessReceptionTimeout
    \/ RepeatForQOS \/ SendAutomaticUplink
    \/ SkipCancelled \/ EventHandler
    \/ OpenRx1 \/ OpenRx2 \/ Rx2Closure
    \/ \E ch \in Outcomes : BackoffExpired(ch)
    \/ \E ch \in [1 .. 3 -> Outcomes] : AckTimeout(ch)

Application ==
    \/ Initialize
    \/ \E otaa \in BOOLEAN : Connect(otaa)
    \/ \E type \in SendTypes : Send(type)
    \/ StopSending
    \/ Shutdown
    \/ \E c \in {"A", "C"} : SetDeviceClass(c)

Radio ==
    \/ TxDone \/ TxTimeout
    \/ \E f \in Downlinks : RxDone(f)
    \/ RxError \/ RxTimeout

Clock == \E t \in Timers : Expire(t) \/ ExpireOrphan(t)

Next == Dispatch \/ Application \/ Radio \/ Clock

Spec == Init /\ [][Next]_vars

\* The scheduler runs the LoRa task when a call is due, time passes, a
\* transmission and a single reception end, and the duty cycle does not forbid
\* transmission for ever.  The first and the last are WF_vars(Dispatch) and
\* SF_vars(BackoffExpired("OK")) with their ENABLED written out, which TLC takes
\* a hundred times longer to find.
Fairness ==
    /\ []<>(dev.due = <<>>) \/ []<><<Dispatch>>_vars
    /\ \A t \in Timers : SF_vars(Expire(t))
    /\ WF_vars(TxDone)
    /\ WF_vars(RxTimeout)
    /\ <>[]~TimerCalled("backoff") \/ []<><<BackoffExpired("OK")>>_vars

FairSpec == Init /\ [][Next]_vars /\ Fairness
=============================================================================
