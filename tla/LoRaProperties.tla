--------------------------- MODULE LoRaProperties ---------------------------
(***************************************************************************)
(* What makes the running device correct.                                  *)
(***************************************************************************)
EXTENDS LoRaWANStack

\* Every variable has its type: in particular no handler leaves a state, a
\* confirmation or a posted call outside what the others are written for.
TypeOK ==
    /\ dev \in Devices
    /\ messages \in Nat
    /\ owed \in Int
    /\ aired \subseteq [msg : Nat, ul : Nat]
    /\ downlink \in {"none", "first", "data"}

-----------------------------------------------------------------------------
(* Sessions *)

\* The stack's flag, its session record and the MAC's join state are three copies
\* of one fact, updated by different functions in different files; between two
\* handlers they agree, and a connection is never both up and in progress.
SessionConsistent ==
    /\ dev.session_active <=> "CONNECTED" \in dev.flags
    /\ dev.nwk_joined <=> "CONNECTED" \in dev.flags
    /\ ~({"CONNECTED", "CONN_IN_PROGRESS"} \subseteq dev.flags)

-----------------------------------------------------------------------------
(* Transactions *)

InProgress ==
    \/ dev.radio \in {"tx", "rx"}
    \/ dev.armed # {}
    \/ \E i \in DOMAIN dev.due : dev.due[i].fn \notin {"event", "cancelled"}

\* A transmission that is not over always has something left that will end it: the
\* radio is busy, a timer runs, or a call waits.  With nothing left send() answers
\* WOULD_BLOCK until the device is reset.
TransmissionUnderway == dev.tx_ongoing => InProgress

\* So does a join; with nothing left connect() answers BUSY until a reset.
JoinUnderway == "CONN_IN_PROGRESS" \in dev.flags => InProgress

\* Nothing takes the radio from a frame on the air: a transmission ends by its own
\* interrupt, or because the application shuts down or changes the class.
TransmissionUndisturbed ==
    [][dev.radio = "tx" /\ dev'.radio \notin {"tx", "standby"} =>
         dev'.state = "SHUTDOWN" \/ dev'.device_class # dev.device_class]_vars

\* No timer is started while it runs: its old event could not be cancelled any
\* more and would open a window, or retransmit, out of turn.
NoOrphans == dev.orphans = {}

EventsDue(events) ==
    Cardinality({i \in DOMAIN dev.due :
                   dev.due[i].fn = "event" /\ dev.due[i].event \in events})

\* Every message send() accepts is reported to the application exactly once, and
\* an automatic uplink never: what is owed is the message in progress and the
\* reports on their way.
ReportedOnce ==
    owed = EventsDue(Reports) + (IF dev.tx_ongoing /\ dev.tx_msg # AutomaticUplink THEN 1 ELSE 0)

Posted(e) == EventsDue({e})' > EventsDue({e})

\* TX_DONE for a confirmed message means that the network acknowledged it: it is
\* posted by the handler of a frame that carries the acknowledgement.
DoneMeansAcknowledged ==
    [][Posted("TX_DONE") /\ dev.tx_ongoing /\ dev.tx_type = "CONFIRMED" =>
         Called("process_reception") /\ Head(dev.due).frame.ack]_vars

\* In one session an uplink counter is used for one message only: its
\* retransmissions and repetitions.
CountersUnique ==
    \A a, b \in aired : a.ul = b.ul => a.msg = b.msg

\* The acknowledgement of a confirmed downlink is not forgotten: it ends by a frame
\* that carries it, by a later downlink that wants none, or with the session.
AcknowledgementKept ==
    [][dev.is_srv_ack_requested /\ ~dev'.is_srv_ack_requested =>
         \/ dev'.radio = "tx" /\ dev'.tx_buffer.ack
         \/ Called("process_reception")
         \/ ~dev'.nwk_joined]_vars

\* rx_payload is held exactly while the call that frees it waits.
RxBufferFreed ==
    dev.rx_payload_in_use <=> \E i \in DOMAIN dev.due : dev.due[i].fn = "process_reception"

\* A downlink that repeats the counter of the one taken last is acknowledged but
\* not handed to the application a second time.
DeliveredOnce ==
    [][Called("process_reception") /\ Head(dev.due).frame.kind = "repeat" =>
         ~Posted("RX_DONE")]_vars

-----------------------------------------------------------------------------
(* Liveness *)

\* A transmission ends.
TransmissionEnds == dev.tx_ongoing ~> ~dev.tx_ongoing

\* A connection attempt succeeds or fails.
JoinEnds == "CONN_IN_PROGRESS" \in dev.flags ~> "CONN_IN_PROGRESS" \notin dev.flags

-----------------------------------------------------------------------------
(* Refinement *)

\* The device implements the service that LoRaWANInterface promises: the stack's
\* flags are the link, tx_ongoing is the message being sent, the events in the
\* queue are the answers and reports on their way.
Service == INSTANCE LinkService WITH
    link <- CASE "CONNECTED" \in dev.flags        -> "up"
              [] "CONN_IN_PROGRESS" \in dev.flags -> "joining"
              [] OTHER                            -> "down",
    busy <- dev.tx_ongoing,
    answers <- EventsDue({"CONNECTED", "JOIN_FAILURE", "DISCONNECTED"}),
    reports <- EventsDue(Reports),
    counter <- dev.ul_frame_counter

ImplementsService == Service!Spec
=============================================================================
