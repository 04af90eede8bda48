---------------------------- MODULE TrafficProofs ----------------------------
(***************************************************************************)
(* What holds of messages and downlinks, whichever way the handlers        *)
(* interleave: the reception buffer is held while its call waits, a        *)
(* repeated downlink is not delivered again, TX_DONE means acknowledged,   *)
(* and an uplink counter belongs to one message.                           *)
(*                                                                         *)
(* Most operators of the device concern none of this.  Three relations     *)
(* between a device and its successor say so: Carries, of the queue and    *)
(* the reception buffer; Works, of the message and its confirmation as     *)
(* well; Passes, of the frame on the air too.                              *)
(***************************************************************************)
EXTENDS LoRaProofs, FiniteSetTheorems

\* The calls that handlers post themselves, when they tell the application of the
\* events E only.
Posts(E) == [fn : {"state_controller_scheduling", "send_automatic_uplink_message"}]
       \cup [fn : {"event"}, event : E]

\* A call in the queue stays what it is, unless it is a timer's.
CarriedOver(old, new) ==
    \/ new = old
    \/ old.fn = "timer" /\ new.fn = "cancelled"
    \/ old.fn = "timer" /\ new.fn = "timer" /\ new.timer = old.timer

\* The queue q is p, timers cancelled, and behind it what handlers post.
Continues(p, q, E) ==
    /\ Len(p) <= Len(q)
    /\ \A i \in 1 .. Len(p) : CarriedOver(p[i], q[i])
    /\ \A i \in 1 .. Len(q) : i > Len(p) => q[i] \in Posts(E)

\* The calls that wait are carried over and the reception buffer is left alone.
Carries(d, e, E) ==
    /\ e \in Devices
    /\ e.rx_payload_in_use = d.rx_payload_in_use
    /\ Continues(d.due, e.due, E)

\* Nor does the message change, or the downlink taken last, or what is confirmed:
\* the message may end, and an acknowledgement be forgotten.
Works(d, e, E) ==
    /\ Carries(d, e, E)
    /\ e.nwk_joined = d.nwk_joined
    /\ e.dl_frame_counter = d.dl_frame_counter
    /\ e.tx_type = d.tx_type
    /\ e.tx_msg = d.tx_msg
    /\ e.req_type = d.req_type
    /\ e.ack_received => d.ack_received
    /\ e.tx_ongoing => d.tx_ongoing

RetryTimers == {"backoff", "ack"}

\* Nothing is sent and no timer started that sends.
Still(d, e) ==
    /\ e.radio = "tx" => d.radio = "tx"
    /\ (e.armed \cup e.orphans) \cap RetryTimers \subseteq d.armed \cup d.orphans

\* The frame of the message and the counter stay.
SameFrame(d, e) ==
    /\ e.tx_ongoing = d.tx_ongoing
    /\ e.ul_frame_counter = d.ul_frame_counter
    /\ e.tx_buffer = d.tx_buffer

\* An operation that has nothing to do with messages.
Passes(d, e, E) == Works(d, e, E) /\ SameFrame(d, e) /\ Still(d, e)

-----------------------------------------------------------------------------
(* The relations *)

\* A queue continues itself.
LEMMA ContinuesReflexive ==
    ASSUME NEW p \in Seq(Calls), NEW E
    PROVE  Continues(p, p, E)
BY DEF Continues, CarriedOver

\* Two continuations make one.
LEMMA ContinuesTransitive ==
    ASSUME NEW p \in Seq(Calls), NEW q \in Seq(Calls), NEW r \in Seq(Calls), NEW E,
           Continues(p, q, E), Continues(q, r, E)
    PROVE  Continues(p, r, E)
<1>1. Len(p) \in Nat /\ Len(q) \in Nat /\ Len(r) \in Nat /\ Len(p) <= Len(q) /\ Len(q) <= Len(r)
  BY DEF Continues
<1>2. ASSUME NEW i \in 1 .. Len(p)
      PROVE  CarriedOver(p[i], r[i])
  <2>1. i \in 1 .. Len(q)
    BY <1>1
  <2>2. CarriedOver(p[i], q[i]) /\ CarriedOver(q[i], r[i])
    BY <2>1 DEF Continues
  <2> QED
    BY <2>2 DEF CarriedOver
<1>3. ASSUME NEW i \in 1 .. Len(r), i > Len(p)
      PROVE  r[i] \in Posts(E)
  <2>1. CASE i > Len(q)
    BY <2>1 DEF Continues
  <2>2. CASE i <= Len(q)
    <3>1. i \in 1 .. Len(q)
      BY <1>1, <2>2
    <3>2. q[i] \in Posts(E) /\ CarriedOver(q[i], r[i])
      BY <1>3, <3>1 DEF Continues
    <3>3. q[i].fn # "timer"
      BY <3>2 DEF Posts
    <3> QED
      BY <3>2, <3>3 DEF CarriedOver
  <2> QED
    BY <1>1, <2>1, <2>2
<1> QED
  BY <1>1, <1>2, <1>3 DEF Continues

\* What carries over E carries over more.
LEMMA ContinuesMore ==
    ASSUME NEW p, NEW q, NEW E, NEW F, E \subseteq F, Continues(p, q, E)
    PROVE  Continues(p, q, F)
<1>1. Posts(E) \subseteq Posts(F)
  BY DEF Posts
<1> QED
  BY <1>1 DEF Continues

\* A device carries and works over to itself, and two steps make one.
LEMMA PassesReflexive ==
    ASSUME NEW d \in Devices, NEW E
    PROVE  Passes(d, d, E)
<1>1. d.due \in Seq(Calls)
  BY DEF Devices
<1> QED
  BY <1>1, ContinuesReflexive DEF Works, Carries, Passes, SameFrame, Still

\* One operation after another carries the calls that wait.
LEMMA CarriesTransitive ==
    ASSUME NEW c \in Devices, NEW d, NEW e, NEW E, Carries(c, d, E), Carries(d, e, E)
    PROVE  Carries(c, e, E)
<1>1. c.due \in Seq(Calls) /\ d.due \in Seq(Calls) /\ e.due \in Seq(Calls)
  BY DEF Carries, Devices
<1> QED
  BY <1>1, ContinuesTransitive DEF Carries

\* One operation after another works on the message.
LEMMA WorksTransitive ==
    ASSUME NEW c \in Devices, NEW d, NEW e, NEW E, Works(c, d, E), Works(d, e, E)
    PROVE  Works(c, e, E)
BY CarriesTransitive DEF Works

\* One operation after another passes the message by.
LEMMA PassesTransitive ==
    ASSUME NEW c \in Devices, NEW d, NEW e, NEW E, Passes(c, d, E), Passes(d, e, E)
    PROVE  Passes(c, e, E)
BY WorksTransitive DEF Passes, SameFrame, Still

\* e differs from d in what the relations do not mention.
Beside(d, e) ==
    /\ e \in Devices
    /\ e.due = d.due /\ e.armed = d.armed /\ e.orphans = d.orphans
    /\ e.radio = "tx" => d.radio = "tx"
    /\ e.rx_payload_in_use = d.rx_payload_in_use
    /\ e.nwk_joined = d.nwk_joined
    /\ e.dl_frame_counter = d.dl_frame_counter
    /\ e.ul_frame_counter = d.ul_frame_counter
    /\ e.tx_type = d.tx_type /\ e.tx_msg = d.tx_msg /\ e.tx_ongoing = d.tx_ongoing
    /\ e.tx_buffer = d.tx_buffer
    /\ e.req_type = d.req_type
    /\ e.ack_received => d.ack_received

\* A change of other fields passes the message by.
LEMMA BesidePasses ==
    ASSUME NEW d \in Devices, NEW e, Beside(d, e), NEW E
    PROVE  Passes(d, e, E)
<1>1. d.due \in Seq(Calls)
  BY DEF Devices
<1> QED
  BY <1>1, ContinuesReflexive DEF Beside, Works, Carries, Passes, SameFrame, Still

-----------------------------------------------------------------------------
(* Timers and the queue *)

\* Replacing a call of a timer carries the queue over.
LEMMA ReplaceDueContinues ==
    ASSUME NEW d \in Devices, NEW t \in Timers, NEW new \in {CancelledCall, StaleCall(t)}, NEW E
    PROVE  Continues(d.due, ReplaceDue(d, LiveCall(t), new), E)
<1> DEFINE due == ReplaceDue(d, LiveCall(t), new)
<1>1. d.due \in Seq(Calls) /\ new \in Calls /\ LiveCall(t) \in Calls
  BY TimerCallTypes DEF Devices
<1>2. due \in Seq(Calls) /\ Len(due) = Len(d.due)
  BY <1>1 DEF ReplaceDue
<1>3. ASSUME NEW i \in 1 .. Len(d.due)
      PROVE  CarriedOver(d.due[i], due[i])
  <2>1. due[i] = IF d.due[i] = LiveCall(t) THEN new ELSE d.due[i]
    BY <1>1 DEF ReplaceDue
  <2>2. /\ LiveCall(t).fn = "timer" /\ LiveCall(t).timer = t
        /\ CancelledCall.fn = "cancelled"
        /\ StaleCall(t).fn = "timer" /\ StaleCall(t).timer = t
    BY DEF LiveCall, CancelledCall, StaleCall
  <2> QED
    BY <2>1, <2>2 DEF CarriedOver
<1> QED
  BY <1>1, <1>2, <1>3 DEF Continues

\* With another queue the device is the same otherwise.
LEMMA DueChanges ==
    ASSUME NEW d \in Devices, NEW due
    PROVE  LET e == [d EXCEPT !.due = due]
           IN  /\ e.due = due
               /\ e.armed = d.armed /\ e.orphans = d.orphans /\ e.radio = d.radio
               /\ e.rx_payload_in_use = d.rx_payload_in_use
               /\ e.nwk_joined = d.nwk_joined
               /\ e.dl_frame_counter = d.dl_frame_counter
               /\ e.ul_frame_counter = d.ul_frame_counter
               /\ e.tx_type = d.tx_type /\ e.tx_msg = d.tx_msg
               /\ e.tx_ongoing = d.tx_ongoing /\ e.tx_buffer = d.tx_buffer
               /\ e.req_type = d.req_type /\ e.ack_received = d.ack_received
BY SMTT(60) DEF Devices

\* Posting a call, or losing it.
LEMMA PostPasses ==
    ASSUME NEW d \in Devices, NEW E, E \subseteq AppEvents, NEW call \in Posts(E)
    PROVE  Passes(d, post(d, call), E)
<1>1. call \in Calls
  BY DEF Posts, Calls
<1>2. post(d, call) \in Devices
  BY <1>1, PostKeeps DEF Keeps
<1>3. d.due \in Seq(Calls) /\ Append(d.due, call) \in Seq(Calls)
  BY <1>1 DEF Devices
<1>4. Continues(d.due, Append(d.due, call), E)
  BY <1>1, <1>3 DEF Continues, CarriedOver
<1>5. CASE ~Room(d)
  BY <1>5, PassesReflexive DEF post
<1>6. CASE Room(d)
  <2>1. post(d, call) = [d EXCEPT !.due = Append(d.due, call)]
    BY <1>6 DEF post
  <2> DEFINE e == [d EXCEPT !.due = Append(d.due, call)]
  <2>2. /\ e.due = Append(d.due, call)
        /\ e.armed = d.armed /\ e.orphans = d.orphans /\ e.radio = d.radio
        /\ e.rx_payload_in_use = d.rx_payload_in_use
        /\ e.nwk_joined = d.nwk_joined
        /\ e.dl_frame_counter = d.dl_frame_counter
        /\ e.ul_frame_counter = d.ul_frame_counter
        /\ e.tx_type = d.tx_type /\ e.tx_msg = d.tx_msg
        /\ e.tx_ongoing = d.tx_ongoing /\ e.tx_buffer = d.tx_buffer
        /\ e.req_type = d.req_type /\ e.ack_received = d.ack_received
    BY DueChanges
  <2>3. e \in Devices /\ Continues(d.due, e.due, E)
    BY <1>2, <1>4, <2>1, <2>2
  <2> HIDE DEF e
  <2>4. Passes(d, e, E)
    BY <2>2, <2>3 DEF Works, Carries, Passes, SameFrame, Still
  <2> QED
    BY <2>1, <2>4 DEF e
<1> QED
  BY <1>5, <1>6

\* Telling the application.
LEMMA SendEventPasses ==
    ASSUME NEW d \in Devices, NEW E, E \subseteq AppEvents, NEW ev \in E
    PROVE  Passes(d, send_event_to_application(d, ev), E)
<1>1. [fn |-> "event", event |-> ev] \in Posts(E)
  BY DEF Posts
<1> QED
  BY <1>1, PostPasses DEF send_event_to_application

\* Stopping a timer.
LEMMA StopPasses ==
    ASSUME NEW d \in Devices, NEW t \in Timers, NEW E
    PROVE  Passes(d, stop(d, t), E)
<1>1. stop(d, t) \in Devices
  BY StopKeeps DEF Keeps
<1>2. Continues(d.due, ReplaceDue(d, LiveCall(t), CancelledCall), E)
  BY ReplaceDueContinues
<1> QED
  BY <1>1, <1>2 DEF stop, Works, Carries, Passes, SameFrame, Still, Devices

\* Forgetting the event of a timer.
LEMMA InitPasses ==
    ASSUME NEW d \in Devices, NEW t \in Timers, NEW E
    PROVE  Passes(d, init(d, t), E) /\ init(d, t).radio = d.radio
<1> DEFINE orphans == IF t \in d.armed THEN d.orphans \cup {t} ELSE d.orphans
           due == ReplaceDue(d, LiveCall(t), StaleCall(t))
           forgotten == [d EXCEPT !.orphans = orphans, !.armed = d.armed \ {t}, !.due = due]
<1>1. init(d, t) = forgotten
  BY DEF init, Devices
<1>2. forgotten \in Devices
  BY <1>1, InitKeeps DEF Keeps
<1>3. Continues(d.due, due, E)
  BY ReplaceDueContinues
<1>4. orphans \subseteq d.orphans \cup d.armed
  OBVIOUS
<1> HIDE DEF orphans, due
<1>5. Passes(d, forgotten, E) /\ forgotten.radio = d.radio
  BY <1>2, <1>3, <1>4 DEF Works, Carries, Passes, SameFrame, Still, Devices
<1> QED
  BY <1>1, <1>5

\* Starting a timer; one that does not send leaves all still.
LEMMA StartWorks ==
    ASSUME NEW d \in Devices, NEW t \in Timers, NEW E
    PROVE  /\ Works(d, start(d, t), E) /\ SameFrame(d, start(d, t))
           /\ start(d, t).radio = d.radio
           /\ t \notin RetryTimers => Passes(d, start(d, t), E)
<1> DEFINE forgotten == init(d, t)
           started == [forgotten EXCEPT !.armed = @ \cup {t}]
<1>1. Passes(d, forgotten, E) /\ forgotten.radio = d.radio
  BY InitPasses
<1>2. start(d, t) \in {forgotten, started}
  BY Zenon DEF start
<1>3. start(d, t) \in Devices /\ forgotten \in Devices
  BY StartKeeps, InitKeeps DEF Keeps
<1> HIDE DEF forgotten
<1>4. CASE start(d, t) = started
  <2>1. started \in Devices
    BY <1>3, <1>4
  <2>2. /\ started.due = forgotten.due
        /\ started.radio = forgotten.radio
        /\ started.armed = forgotten.armed \cup {t}
        /\ started.orphans = forgotten.orphans
        /\ started.rx_payload_in_use = forgotten.rx_payload_in_use
        /\ started.nwk_joined = forgotten.nwk_joined
        /\ started.dl_frame_counter = forgotten.dl_frame_counter
        /\ started.tx_type = forgotten.tx_type
        /\ started.tx_msg = forgotten.tx_msg
        /\ started.req_type = forgotten.req_type
        /\ started.ack_received = forgotten.ack_received
        /\ started.tx_ongoing = forgotten.tx_ongoing
        /\ started.ul_frame_counter = forgotten.ul_frame_counter
        /\ started.tx_buffer = forgotten.tx_buffer
    BY <1>3 DEF Devices
  <2> HIDE DEF started
  <2> QED
    BY <1>1, <1>4, <2>1, <2>2 DEF Works, Carries, Passes, SameFrame, Still, RetryTimers
<1>5. CASE start(d, t) = forgotten
  BY <1>1, <1>5 DEF Passes
<1> QED
  BY <1>2, <1>4, <1>5

-----------------------------------------------------------------------------
(* Sending a frame *)

\* Scheduling a frame leaves the message and its frame as they are; with a channel,
\* now or after a wait, it succeeds.
LEMMA ScheduleTxWorks ==
    ASSUME NEW d \in Devices, NEW ch, NEW E
    PROVE  /\ Works(d, schedule_tx(d, ch).dev, E)
           /\ SameFrame(d, schedule_tx(d, ch).dev)
           /\ ch \in {"OK", "RESTRICTED"} => schedule_tx(d, ch).status = "OK"
<1> DEFINE wanted == [d EXCEPT !.can_cancel_tx = TRUE]
           granted == [d EXCEPT !.is_srv_ack_requested = FALSE, !.can_cancel_tx = FALSE]
           refused == [d EXCEPT !.conf_status = "ERROR"]
           sent == send_frame_on_channel(granted)
           waiting == start(wanted, "backoff")
<1>1. schedule_tx(d, ch).dev \in {d, refused, waiting, sent}
  BY Zenon DEF schedule_tx, wait_for_duty_cycle, refused, granted, waiting, wanted
<1>2. ch \in {"OK", "RESTRICTED"} => schedule_tx(d, ch).status = "OK"
  BY Zenon DEF schedule_tx
<1>3. wanted \in Devices /\ granted \in Devices /\ refused \in Devices
  BY ZenonT(120) DEF Devices, ConfirmStatuses
<1>4. Beside(d, wanted) /\ Beside(d, refused) /\ Beside(d, granted)
  BY <1>3 DEF Beside, Devices
<1> HIDE DEF wanted, refused, granted
<1>5. Passes(d, refused, E) /\ Passes(d, wanted, E) /\ Passes(d, granted, E) /\ Passes(d, d, E)
  BY <1>4, BesidePasses, PassesReflexive
<1>6. Works(d, waiting, E) /\ SameFrame(d, waiting)
  <2>1. Works(wanted, waiting, E) /\ SameFrame(wanted, waiting)
    BY <1>3, StartWorks DEF Timers
  <2> HIDE DEF waiting
  <2> QED
    BY <1>5, <2>1, WorksTransitive DEF Passes, SameFrame
<1>7. Works(d, sent, E) /\ SameFrame(d, sent)
  <2>1. sent \in Devices
    BY <1>3, SendFrameOnChannelKeeps DEF Keeps
  <2>2. Works(granted, sent, E) /\ SameFrame(granted, sent)
    <3> DEFINE trials == IF granted.nwk_joined THEN granted.join_request_trial_counter
                         ELSE granted.join_request_trial_counter + 1
    <3>1. granted.due \in Seq(Calls)
      BY <1>3 DEF Devices
    <3>2. sent = [granted EXCEPT !.conf_status = "ERROR",
                                 !.join_request_trial_counter = trials, !.radio = "tx"]
      BY <1>3 DEF send_frame_on_channel, Devices
    <3> HIDE DEF trials, sent
    <3>3. /\ sent.due = granted.due
          /\ sent.rx_payload_in_use = granted.rx_payload_in_use
          /\ sent.nwk_joined = granted.nwk_joined
          /\ sent.dl_frame_counter = granted.dl_frame_counter
          /\ sent.ul_frame_counter = granted.ul_frame_counter
          /\ sent.tx_type = granted.tx_type /\ sent.tx_msg = granted.tx_msg
          /\ sent.tx_ongoing = granted.tx_ongoing /\ sent.tx_buffer = granted.tx_buffer
          /\ sent.req_type = granted.req_type /\ sent.ack_received = granted.ack_received
      BY <1>3, <3>2 DEF Devices
    <3>4. Continues(granted.due, sent.due, E)
      BY <3>1, <3>3, ContinuesReflexive
    <3> QED
      BY <2>1, <3>3, <3>4 DEF Works, Carries, SameFrame
  <2> HIDE DEF sent
  <2> QED
    BY <1>5, <2>2, WorksTransitive DEF Passes, SameFrame
<1> HIDE DEF waiting, sent
<1> QED
  BY <1>1, <1>2, <1>5, <1>6, <1>7 DEF Passes

JoinRequest == [NoTxBuffer EXCEPT !.join = TRUE]

\* A Join Request takes the place of whatever was in the buffer.
LEMMA SendJoinRequestWorks ==
    ASSUME NEW d \in Devices, NEW ch, NEW E
    PROVE  LET e == send_join_request(d, ch).dev
           IN  /\ Works(d, e, E)
               /\ e.tx_ongoing = d.tx_ongoing
               /\ e.ul_frame_counter = d.ul_frame_counter
               /\ e.tx_buffer.join
<1> DEFINE framed == [d EXCEPT !.is_node_ack_requested = FALSE, !.tx_buffer = JoinRequest]
           e == schedule_tx(framed, ch).dev
<1>1. JoinRequest \in TxBuffers /\ JoinRequest.join
  BY DEF JoinRequest, NoTxBuffer, TxBuffers
<1>2. send_join_request(d, ch).dev = e
  BY DEF send_join_request, JoinRequest
<1>3. framed \in Devices
  BY ZenonT(120), <1>1 DEF Devices
<1>4. d.due \in Seq(Calls)
  BY DEF Devices
<1>5. /\ Works(d, framed, E)
      /\ framed.tx_ongoing = d.tx_ongoing
      /\ framed.ul_frame_counter = d.ul_frame_counter
      /\ framed.tx_buffer = JoinRequest
  BY <1>3, <1>4, ContinuesReflexive DEF Works, Carries, Devices
<1> HIDE DEF framed
<1>6. Works(framed, e, E) /\ SameFrame(framed, e)
  BY <1>3, ScheduleTxWorks
<1> HIDE DEF e
<1> QED
  BY <1>1, <1>2, <1>5, <1>6, WorksTransitive DEF SameFrame

\* A retransmission of either kind.
LEMMA HandleRetransmissionWorks ==
    ASSUME NEW d \in Devices, NEW ch, NEW E
    PROVE  LET r == handle_retransmission(d, ch)
           IN  /\ Works(d, r.dev, E)
               /\ r.dev.tx_ongoing = d.tx_ongoing
               /\ r.dev.ul_frame_counter = d.ul_frame_counter
               /\ d.nwk_joined => r.dev.tx_buffer = d.tx_buffer
               /\ ~d.nwk_joined => r.dev.tx_buffer.join
               /\ d.nwk_joined /\ ch \in {"OK", "RESTRICTED"} => r.status = "OK"
<1>1. CASE d.nwk_joined
  BY <1>1, ScheduleTxWorks DEF handle_retransmission, SameFrame
<1>2. CASE ~d.nwk_joined
  BY <1>2, SendJoinRequestWorks DEF handle_retransmission
<1> QED
  BY <1>1, <1>2


\* The buffer holds the frame of the message, under the next counter.
Framed(d) ==
    /\ ~d.tx_buffer.join
    /\ d.tx_buffer.msg = d.tx_msg
    /\ d.tx_buffer.ul = d.ul_frame_counter

\* The session and its counters stay.
SameNumbers(d, e) ==
    /\ e.nwk_joined = d.nwk_joined
    /\ e.dl_frame_counter = d.dl_frame_counter
    /\ e.ul_frame_counter = d.ul_frame_counter

SameMessage(d, e) == e.tx_type = d.tx_type /\ e.tx_msg = d.tx_msg

\* No frame is built or sent.
Untouched(d, e) == e.tx_buffer = d.tx_buffer /\ Still(d, e)

\* Outside a session only a proprietary frame is built.
Framable(d) == d.nwk_joined \/ d.tx_type = "PROPRIETARY"

\* A frame is prepared with the next counter, or nothing changes.
LEMMA PrepareFrameWorks ==
    ASSUME NEW d \in Devices, NEW E
    PROVE  LET r == prepare_frame(d)
           IN  /\ Works(d, r.dev, E)
               /\ r.dev.tx_ongoing = d.tx_ongoing
               /\ r.dev.ul_frame_counter = d.ul_frame_counter
               /\ Framable(d)  => r.status = "OK" /\ Framed(r.dev)
               /\ ~Framable(d) => r.status # "OK" /\ Untouched(d, r.dev)
<1> DEFINE confirmed == (d.tx_type = "CONFIRMED")
           wanted == [d EXCEPT !.is_node_ack_requested = confirmed]
           frame == [join |-> FALSE, msg |-> d.tx_msg, ul |-> d.ul_frame_counter,
                     ack |-> AckBit(d)]
           framed == [wanted EXCEPT !.tx_buffer = frame]
<1>1. /\ Framable(d) => prepare_frame(d) = [dev |-> framed, status |-> "OK"]
      /\ ~Framable(d) => prepare_frame(d) = [dev |-> wanted, status |-> "NO_NETWORK_JOINED"]
  BY Zenon DEF prepare_frame, Framable
<1>a. confirmed \in BOOLEAN
  OBVIOUS
<1> HIDE DEF confirmed
<1>2. wanted \in Devices
  BY ZenonT(120), <1>a DEF Devices
<1>3. prepare_frame(d).dev \in Devices
  BY PrepareFrameKeeps DEF Keeps
<1>4. Beside(d, wanted)
  BY <1>2 DEF Beside, Devices
<1>5. frame.join = FALSE /\ frame.msg = d.tx_msg /\ frame.ul = d.ul_frame_counter
  OBVIOUS
<1> HIDE DEF wanted, frame
<1>6. Passes(d, wanted, E)
  BY <1>4, BesidePasses
<1>7. CASE Framable(d)
  <2>1. prepare_frame(d).dev = framed /\ framed \in Devices
    BY <1>1, <1>3, <1>7
  <2>2. /\ framed.due = wanted.due
        /\ framed.rx_payload_in_use = wanted.rx_payload_in_use
        /\ framed.nwk_joined = wanted.nwk_joined
        /\ framed.dl_frame_counter = wanted.dl_frame_counter
        /\ framed.ul_frame_counter = wanted.ul_frame_counter
        /\ framed.tx_type = wanted.tx_type /\ framed.tx_msg = wanted.tx_msg
        /\ framed.tx_ongoing = wanted.tx_ongoing /\ framed.tx_buffer = frame
        /\ framed.req_type = wanted.req_type /\ framed.ack_received = wanted.ack_received
    BY <1>2 DEF Devices
  <2>3. wanted.due \in Seq(Calls) /\ d.tx_msg = wanted.tx_msg
    BY <1>2, <1>4 DEF Beside, Devices
  <2>4. Works(wanted, framed, E)
    BY <2>1, <2>2, <2>3, ContinuesReflexive DEF Works, Carries
  <2> HIDE DEF framed
  <2>5. Works(d, framed, E)
    BY <1>6, <2>4, WorksTransitive DEF Passes
  <2> QED
    BY <1>1, <1>4, <1>5, <1>7, <2>1, <2>2, <2>3, <2>5 DEF Framed, Beside
<1>8. CASE ~Framable(d)
  BY <1>1, <1>6, <1>8 DEF Passes, SameFrame, Untouched
<1> QED
  BY <1>7, <1>8

\* send() of the MAC builds the frame anew and forgets the last confirmation.
LEMMA SendOngoingTxWorks ==
    ASSUME NEW d \in Devices, NEW ch, NEW E
    PROVE  LET r == send_ongoing_tx(d, ch)
           IN  /\ Carries(d, r.dev, E)
               /\ SameNumbers(d, r.dev) /\ SameMessage(d, r.dev)
               /\ r.dev.tx_ongoing = d.tx_ongoing
               /\ ~r.dev.ack_received
               /\ r.dev.req_type = IF r.status = "OK" THEN d.tx_type ELSE "UNCONFIRMED"
               /\ Framable(d)  => Framed(r.dev)
               /\ ~Framable(d) => r.status # "OK" /\ Untouched(d, r.dev)
               /\ Framable(d) /\ ch \in {"OK", "RESTRICTED"} => r.status = "OK"
<1> DEFINE retries == IF d.tx_type = "CONFIRMED" THEN d.nb_trials ELSE 1
           reset == [d EXCEPT !.req_type = "UNCONFIRMED", !.conf_status = "ERROR",
                              !.ack_received = FALSE, !.ack_timeout_retry_counter = 1,
                              !.max_ack_timeout_retries = retries]
           prep  == prepare_frame(reset)
           sched == schedule_tx(prep.dev, ch)
           sent  == [sched.dev EXCEPT !.req_type = d.tx_type]
           r == send_ongoing_tx(d, ch)
<1>1. r = CASE prep.status # "OK" -> prep
            [] prep.status = "OK" /\ sched.status # "OK" -> sched
            [] OTHER -> [dev |-> sent, status |-> "OK"]
  BY Zenon DEF send_ongoing_tx
<1>2. r.dev \in Devices
  BY SendOngoingTxKeeps DEF Keeps
<1>3. retries \in Nat
  BY DEF Devices
<1> HIDE DEF r, retries
<1>4. reset \in Devices
  BY ZenonT(120), <1>3 DEF Devices, MessageTypes, ConfirmStatuses
<1>5. /\ reset.due = d.due /\ reset.armed = d.armed /\ reset.orphans = d.orphans
      /\ reset.radio = d.radio
      /\ reset.rx_payload_in_use = d.rx_payload_in_use
      /\ SameNumbers(d, reset) /\ SameMessage(d, reset) /\ SameFrame(d, reset)
      /\ reset.req_type = "UNCONFIRMED" /\ ~reset.ack_received
  BY DEF SameNumbers, SameMessage, SameFrame, Devices
<1> HIDE DEF reset
<1>6. Framable(reset) <=> Framable(d)
  BY <1>5 DEF Framable, SameNumbers, SameMessage
<1>7. /\ Works(reset, prep.dev, E)
      /\ prep.dev.tx_ongoing = reset.tx_ongoing
      /\ prep.dev.ul_frame_counter = reset.ul_frame_counter
      /\ Framable(reset)  => prep.status = "OK" /\ Framed(prep.dev)
      /\ ~Framable(reset) => prep.status # "OK" /\ Untouched(reset, prep.dev)
  BY <1>4, PrepareFrameWorks
<1>8. prep.dev \in Devices
  BY <1>7 DEF Works, Carries
<1> HIDE DEF prep
<1>9. /\ Works(prep.dev, sched.dev, E) /\ SameFrame(prep.dev, sched.dev)
      /\ ch \in {"OK", "RESTRICTED"} => sched.status = "OK"
  BY <1>8, ScheduleTxWorks
<1> HIDE DEF sched
<1>10. Works(reset, sched.dev, E)
  BY <1>4, <1>7, <1>9, WorksTransitive
<1>11. d.due \in Seq(Calls)
  BY DEF Devices
<1>12. ASSUME ~Framable(d)
       PROVE  /\ r.dev = prep.dev /\ r.status # "OK"
              /\ Untouched(d, prep.dev)
  <2>1. prep.status # "OK" /\ Untouched(reset, prep.dev)
    BY <1>6, <1>7, <1>12
  <2>2. r = prep
    BY <1>1, <2>1
  <2> QED
    BY <1>5, <2>1, <2>2 DEF Untouched, Still, SameFrame
<1>13. ASSUME Framable(d), sched.status # "OK"
       PROVE  r = sched /\ Framed(sched.dev)
  BY <1>1, <1>6, <1>7, <1>9, <1>13 DEF Framed, SameFrame, Works
<1>14. ASSUME Framable(d), sched.status = "OK"
       PROVE  /\ r.dev = sent /\ r.status = "OK" /\ sent.req_type = d.tx_type
              /\ Framed(sent)
              /\ sent.due = sched.dev.due
              /\ sent.rx_payload_in_use = sched.dev.rx_payload_in_use
              /\ SameNumbers(sched.dev, sent) /\ SameMessage(sched.dev, sent)
              /\ SameFrame(sched.dev, sent) /\ sent.ack_received = sched.dev.ack_received
  <2>1. r.dev = sent /\ r.status = "OK"
    BY <1>1, <1>6, <1>7, <1>14
  <2>2. sched.dev \in Devices
    BY <1>9 DEF Works, Carries
  <2>3. /\ sent.req_type = d.tx_type
        /\ sent.due = sched.dev.due
        /\ sent.rx_payload_in_use = sched.dev.rx_payload_in_use
        /\ SameNumbers(sched.dev, sent) /\ SameMessage(sched.dev, sent)
        /\ SameFrame(sched.dev, sent) /\ sent.ack_received = sched.dev.ack_received
    BY <2>2 DEF Devices, SameNumbers, SameMessage, SameFrame
  <2> HIDE DEF sent
  <2>4. Framed(sent)
    BY <1>6, <1>7, <1>9, <1>14, <2>3 DEF Framed, SameFrame, SameMessage, Works
  <2> QED
    BY <2>1, <2>3, <2>4
<1> HIDE DEF sent
<1>15. CASE ~Framable(d)
  BY <1>2, <1>5, <1>7, <1>12, <1>15
  DEF Works, Carries, SameNumbers, SameMessage, SameFrame, r
<1>16. CASE Framable(d) /\ sched.status # "OK"
  BY <1>2, <1>5, <1>7, <1>9, <1>10, <1>13, <1>16
  DEF Works, Carries, SameNumbers, SameMessage, SameFrame, r
<1>17. CASE Framable(d) /\ sched.status = "OK"
  BY <1>2, <1>5, <1>7, <1>9, <1>10, <1>14, <1>17
  DEF Works, Carries, SameNumbers, SameMessage, SameFrame, r
<1> QED
  BY <1>15, <1>16, <1>17


-----------------------------------------------------------------------------
(* States, flags and the transmission slot *)

\* States and flags are not about messages.
LEMMA SetStatePasses ==
    ASSUME NEW d \in Devices, NEW s \in DeviceStates, NEW E
    PROVE  Passes(d, set_state(d, s), E)
<1>1. set_state(d, s) \in Devices
  BY SetStateKeeps DEF Keeps
<1>2. Beside(d, set_state(d, s))
  BY <1>1 DEF set_state, Beside, Devices
<1> QED
  BY <1>2, BesidePasses

\* The control flags of the stack.
LEMMA FlagsPass ==
    ASSUME NEW d \in Devices, NEW S \in SUBSET CtrlFlags, NEW E
    PROVE  /\ Passes(d, clear_flags(d, S), E)
           /\ Passes(d, set_flags(d, S), E)
<1> DEFINE off == d.flags \ S
           on == d.flags \cup S
<1>1. off \in SUBSET CtrlFlags /\ on \in SUBSET CtrlFlags
  BY DEF Devices
<1>2. clear_flags(d, S) = [d EXCEPT !.flags = off] /\ set_flags(d, S) = [d EXCEPT !.flags = on]
  BY DEF clear_flags, set_flags
<1> HIDE DEF off, on
<1>3. [d EXCEPT !.flags = off] \in Devices /\ [d EXCEPT !.flags = on] \in Devices
  BY ZenonT(120), <1>1 DEF Devices
<1>4. Beside(d, [d EXCEPT !.flags = off]) /\ Beside(d, [d EXCEPT !.flags = on])
  BY <1>3 DEF Beside, Devices
<1> QED
  BY <1>2, <1>4, BesidePasses

\* The radio is put to sleep.
LEMMA PutRadioToSleepPasses ==
    ASSUME NEW d \in Devices, NEW E
    PROVE  Passes(d, put_radio_to_sleep(d), E)
<1>1. put_radio_to_sleep(d) \in Devices
  BY PutRadioToSleepKeeps DEF Keeps
<1>2. Beside(d, put_radio_to_sleep(d))
  BY <1>1 DEF put_radio_to_sleep, Beside, Devices
<1> QED
  BY <1>2, BesidePasses

\* The state machine of the stack runs to completion.
LEMMA RunToCompletionPasses ==
    ASSUME NEW d \in Devices, NEW E
    PROVE  Passes(d, state_machine_run_to_completion(d), E)
<1>1. (IF d.device_class = "C" THEN "RECEIVING" ELSE "IDLE") \in DeviceStates
  BY DEF DeviceStates
<1> QED
  BY <1>1, SetStatePasses DEF state_machine_run_to_completion

\* The link's quality of service is noted.
LEMMA RememberQOSPasses ==
    ASSUME NEW d \in Devices, NEW E
    PROVE  Passes(d, remember_QOS(d), E)
<1>1. remember_QOS(d) \in Devices
  BY RememberQOSKeeps DEF Keeps
<1>2. Beside(d, remember_QOS(d))
  BY <1>1 DEF remember_QOS, Beside, Devices
<1> QED
  BY <1>2, BesidePasses

\* Taking the slot changes who has it, no more.
LEMMA SetTxOngoingCarries ==
    ASSUME NEW d \in Devices, NEW ongoing \in BOOLEAN, NEW E
    PROVE  LET e == set_tx_ongoing(d, ongoing)
           IN  /\ Carries(d, e, E) /\ SameNumbers(d, e) /\ SameMessage(d, e)
               /\ Untouched(d, e)
               /\ e.req_type = d.req_type /\ e.ack_received = d.ack_received
               /\ e.tx_ongoing = ongoing
<1>1. set_tx_ongoing(d, ongoing) \in Devices
  BY SetTxOngoingKeeps DEF Keeps
<1>2. d.due \in Seq(Calls)
  BY DEF Devices
<1> QED
  BY <1>1, <1>2, ContinuesReflexive
  DEF set_tx_ongoing, Carries, SameNumbers, SameMessage, Untouched, Still, Devices

\* A transmission that gives the slot up is over.
LEMMA EndTxWorks ==
    ASSUME NEW d \in Devices, NEW E
    PROVE  LET e == end_tx(d)
           IN  /\ Works(d, e, E) /\ Untouched(d, e)
               /\ e.ul_frame_counter = d.ul_frame_counter
               /\ ~e.tx_ongoing
               /\ e.conf_status = d.conf_status
               /\ e.flags = d.flags /\ e.state = d.state
<1>1. end_tx(d) \in Devices
  BY EndTxKeeps DEF Keeps
<1>2. d.due \in Seq(Calls)
  BY DEF Devices
<1> QED
  BY <1>1, <1>2, ContinuesReflexive
  DEF end_tx, set_tx_ongoing, reset_ongoing_tx, Works, Carries, Untouched, Still, Devices

-----------------------------------------------------------------------------
(* Sending a message *)

\* Scheduling does nothing, or it builds a frame, or there is no session for one.
LEMMA ProcessSchedulingStateWorks ==
    ASSUME NEW d \in Devices, NEW ch, NEW E
    PROVE  LET r == process_scheduling_state(d, ch)
           IN  /\ Carries(d, r.dev, E)
               /\ SameNumbers(d, r.dev) /\ SameMessage(d, r.dev)
               /\ r.dev.ack_received => d.ack_received
               /\ r.status \in {"OK", "ERROR"}
               /\ r.dev.tx_ongoing = (r.status = "OK" \/ d.tx_ongoing)
               /\ \/ r.dev = d /\ r.status = "ERROR"
                  \/ /\ Framable(d) /\ Framed(r.dev) /\ ~r.dev.ack_received
                     /\ r.dev.req_type = IF r.status = "OK" THEN d.tx_type ELSE "UNCONFIRMED"
                     /\ ch \in {"OK", "RESTRICTED"} => r.status = "OK"
                  \/ /\ ~Framable(d) /\ Untouched(d, r.dev) /\ r.status = "ERROR"
                     /\ r.dev.req_type = "UNCONFIRMED"
<1> DEFINE sent == send_ongoing_tx(d, ch)
           cleared == clear_flags(sent.dev, {"TX_DONE"})
           taken == set_tx_ongoing(cleared, TRUE)
           sending == set_state(taken, "SENDING")
           r == process_scheduling_state(d, ch)
<1>1. \/ r = [dev |-> d, status |-> "ERROR"]
      \/ sent.status = "OK" /\ r = [dev |-> sending, status |-> "OK"]
      \/ sent.status # "OK" /\ r = [dev |-> sent.dev, status |-> "ERROR"]
  BY Zenon DEF process_scheduling_state
<1>2. /\ Carries(d, sent.dev, E)
      /\ SameNumbers(d, sent.dev) /\ SameMessage(d, sent.dev)
      /\ sent.dev.tx_ongoing = d.tx_ongoing
      /\ ~sent.dev.ack_received
      /\ sent.dev.req_type = IF sent.status = "OK" THEN d.tx_type ELSE "UNCONFIRMED"
      /\ Framable(d)  => Framed(sent.dev)
      /\ ~Framable(d) => sent.status # "OK" /\ Untouched(d, sent.dev)
      /\ Framable(d) /\ ch \in {"OK", "RESTRICTED"} => sent.status = "OK"
  BY SendOngoingTxWorks
<1>3. sent.dev \in Devices /\ d.tx_ongoing \in BOOLEAN
  BY <1>2 DEF Carries, Devices
<1> HIDE DEF sent, r
<1>4. Passes(sent.dev, cleared, E)
  BY <1>3, FlagsPass DEF CtrlFlags
<1>5. cleared \in Devices
  BY <1>4 DEF Passes, Works, Carries
<1> HIDE DEF cleared
<1>6. /\ Carries(cleared, taken, E) /\ SameNumbers(cleared, taken) /\ SameMessage(cleared, taken)
      /\ Untouched(cleared, taken)
      /\ taken.req_type = cleared.req_type /\ taken.ack_received = cleared.ack_received
      /\ taken.tx_ongoing = TRUE
  BY <1>5, SetTxOngoingCarries
<1>7. taken \in Devices
  BY <1>6 DEF Carries
<1> HIDE DEF taken
<1>8. Passes(taken, sending, E)
  BY <1>7, SetStatePasses DEF DeviceStates
<1> HIDE DEF sending
<1>9. /\ SameNumbers(sent.dev, sending) /\ SameMessage(sent.dev, sending)
      /\ sending.tx_buffer = sent.dev.tx_buffer
      /\ sending.req_type = sent.dev.req_type
      /\ sending.ack_received => sent.dev.ack_received
      /\ sending.tx_ongoing = TRUE
  BY <1>4, <1>6, <1>8
  DEF Passes, Works, SameFrame, SameNumbers, SameMessage, Untouched
<1>10. Carries(d, sending, E)
  <2>1. Carries(d, cleared, E)
    BY <1>2, <1>4, CarriesTransitive DEF Passes, Works
  <2>2. Carries(d, taken, E)
    BY <1>6, <2>1, CarriesTransitive
  <2> QED
    BY <1>8, <2>2, CarriesTransitive DEF Passes, Works
<1>11. CASE r = [dev |-> d, status |-> "ERROR"]
  BY <1>3, <1>11, PassesReflexive DEF Passes, Works, SameNumbers, SameMessage, r
<1>12. CASE sent.status = "OK" /\ r = [dev |-> sending, status |-> "OK"]
  <2>1. Framable(d) /\ Framed(sending)
    BY <1>2, <1>9, <1>12 DEF Framed, SameNumbers, SameMessage
  <2>2. SameNumbers(d, sending) /\ SameMessage(d, sending)
    BY <1>2, <1>9 DEF SameNumbers, SameMessage
  <2>3. r.dev = sending /\ r.status = "OK"
    BY <1>12
  <2> QED
    BY <1>2, <1>3, <1>9, <1>10, <1>12, <2>1, <2>2, <2>3 DEF r
<1>13. CASE sent.status # "OK" /\ r = [dev |-> sent.dev, status |-> "ERROR"]
  <2>1. r.dev = sent.dev /\ r.status = "ERROR"
    BY <1>13
  <2> QED
    BY <1>2, <1>3, <1>13, <2>1 DEF r
<1> QED
  BY <1>1, <1>11, <1>12, <1>13


\* What becomes of a message of the given type: it is refused before anything is
\* changed, or by the state, or its frame is built.
Submitted(d, e, type, ch, E) ==
    /\ Carries(d, e, E)
    /\ SameNumbers(d, e)
    /\ e.ack_received => d.ack_received
    /\ \/ Passes(d, e, E)
       \/ /\ d.nwk_joined /\ ~d.tx_ongoing /\ ~e.tx_ongoing
          /\ Untouched(d, e)
          /\ e.tx_type = type /\ e.req_type = d.req_type
       \/ /\ d.nwk_joined /\ ~d.tx_ongoing
          /\ Framed(e)
          /\ e.tx_type = type /\ ~e.ack_received
          /\ e.req_type = IF e.tx_ongoing THEN type ELSE "UNCONFIRMED"
          /\ ch \in {"OK", "RESTRICTED"} => e.tx_ongoing

\* What passes afterwards does not change it.
LEMMA SubmittedPasses ==
    ASSUME NEW d \in Devices, NEW e, NEW g, NEW type, NEW ch, NEW E,
           Submitted(d, e, type, ch, E), Passes(e, g, E)
    PROVE  Submitted(d, g, type, ch, E)
<1>1. Carries(d, g, E)
  BY CarriesTransitive DEF Submitted, Passes, Works
<1>2. /\ SameNumbers(d, g)
      /\ g.ack_received => d.ack_received
      /\ g.tx_ongoing = e.tx_ongoing /\ g.req_type = e.req_type /\ g.tx_type = e.tx_type
      /\ g.ack_received => e.ack_received
  BY DEF Submitted, Passes, Works, SameFrame, SameNumbers
<1>3. CASE Passes(d, e, E)
  BY <1>1, <1>2, <1>3, PassesTransitive DEF Submitted
<1>4. CASE Untouched(d, e)
  <2>1. Untouched(d, g)
    BY <1>4 DEF Passes, SameFrame, Untouched, Still
  <2>2. Framed(e) => Framed(g)
    BY DEF Framed, Passes, Works, SameFrame
  <2> QED
    BY <1>1, <1>2, <1>3, <2>1, <2>2 DEF Submitted
<1>5. CASE Framed(e)
  <2>1. Framed(g)
    BY <1>5 DEF Framed, Passes, Works, SameFrame
  <2> QED
    BY <1>1, <1>2, <1>3, <1>4, <2>1 DEF Submitted
<1> QED
  BY <1>3, <1>4, <1>5 DEF Submitted

\* send() takes a message, or refuses it.
LEMMA HandleTxSubmits ==
    ASSUME NEW d \in Devices, NEW msg \in Nat, NEW type \in MessageTypes, NEW ch, NEW E
    PROVE  LET r == handle_tx(d, msg, type, ch)
           IN  /\ Submitted(d, r.dev, type, ch, E)
               /\ r.status \in {"OK", "WOULD_BLOCK", "ERROR"}
<1> DEFINE counted == [d EXCEPT !.qos_cnt = 1]
           stored == prepare_ongoing_tx(counted, msg, type)
           sched == process_scheduling_state(stored, ch)
           r == handle_tx(d, msg, type, ch)
<1>1. \/ r \in {[dev |-> d, status |-> "ERROR"], [dev |-> d, status |-> "WOULD_BLOCK"],
                [dev |-> counted, status |-> "ERROR"]}
      \/ d.nwk_joined /\ ~d.tx_ongoing /\ r = sched
  BY Zenon DEF handle_tx
<1>2. counted \in Devices
  BY ZenonT(120) DEF Devices
<1>3. Beside(d, counted)
  BY <1>2 DEF Beside, Devices
<1> HIDE DEF counted, r
<1>4. Passes(d, counted, E)
  BY <1>3, BesidePasses
<1>5. stored \in Devices
  BY <1>2, PrepareOngoingTxKeeps DEF Keeps
<1>6. /\ stored.due = counted.due
      /\ stored.rx_payload_in_use = counted.rx_payload_in_use
      /\ SameNumbers(counted, stored) /\ SameFrame(counted, stored) /\ Still(counted, stored)
      /\ stored.tx_type = type /\ stored.tx_msg = msg
      /\ stored.req_type = counted.req_type /\ stored.ack_received = counted.ack_received
  BY <1>2 DEF prepare_ongoing_tx, SameNumbers, SameFrame, Still, Devices
<1>7. Carries(d, stored, E)
  <2>1. counted.due \in Seq(Calls)
    BY <1>2 DEF Devices
  <2>2. Carries(counted, stored, E)
    BY <1>5, <1>6, <2>1, ContinuesReflexive DEF Carries
  <2> QED
    BY <1>4, <2>2, CarriesTransitive DEF Passes, Works
<1> HIDE DEF stored
<1>8. /\ Carries(stored, sched.dev, E)
      /\ SameNumbers(stored, sched.dev) /\ SameMessage(stored, sched.dev)
      /\ sched.dev.ack_received => stored.ack_received
      /\ sched.status \in {"OK", "ERROR"}
      /\ sched.dev.tx_ongoing = (sched.status = "OK" \/ stored.tx_ongoing)
      /\ \/ sched.dev = stored /\ sched.status = "ERROR"
         \/ /\ Framable(stored) /\ Framed(sched.dev) /\ ~sched.dev.ack_received
            /\ sched.dev.req_type = IF sched.status = "OK" THEN stored.tx_type ELSE "UNCONFIRMED"
            /\ ch \in {"OK", "RESTRICTED"} => sched.status = "OK"
         \/ /\ ~Framable(stored) /\ Untouched(stored, sched.dev) /\ sched.status = "ERROR"
            /\ sched.dev.req_type = "UNCONFIRMED"
  BY <1>5, ProcessSchedulingStateWorks
<1> HIDE DEF sched
<1>9. CASE r \in {[dev |-> d, status |-> "ERROR"], [dev |-> d, status |-> "WOULD_BLOCK"],
                  [dev |-> counted, status |-> "ERROR"]}
  <2>1. r.dev \in {d, counted} /\ r.status \in {"OK", "WOULD_BLOCK", "ERROR"}
    BY <1>9
  <2>2. Passes(d, r.dev, E)
    BY <1>4, <2>1, PassesReflexive
  <2> QED
    BY <2>1, <2>2 DEF Submitted, Passes, Works, SameNumbers, SameFrame, r
<1>10. CASE d.nwk_joined /\ ~d.tx_ongoing /\ r = sched
  <2>1. Carries(d, sched.dev, E)
    BY <1>7, <1>8, CarriesTransitive
  <2>2. SameNumbers(d, sched.dev) /\ (sched.dev.ack_received => d.ack_received)
    BY <1>4, <1>6, <1>8 DEF SameNumbers, Passes, Works, SameFrame
  <2>3. ~stored.tx_ongoing /\ Framable(stored)
    BY <1>4, <1>6, <1>10 DEF Passes, SameFrame, Works, SameNumbers, Framable
  <2>4. CASE sched.dev = stored
    <3>1. Untouched(d, stored) /\ stored.req_type = d.req_type
      BY <1>4, <1>6 DEF Passes, Works, SameFrame, Still, Untouched
    <3> QED
      BY <1>6, <1>10, <2>1, <2>2, <2>3, <2>4, <3>1, <1>8 DEF Submitted, r
  <2>5. CASE sched.dev # stored
    <3>1. Framed(sched.dev) /\ sched.dev.tx_type = type /\ ~sched.dev.ack_received
      BY <1>6, <1>8, <2>3, <2>5 DEF SameMessage
    <3>2. sched.dev.req_type = IF sched.dev.tx_ongoing THEN type ELSE "UNCONFIRMED"
      BY <1>6, <1>8, <2>3, <2>5
    <3>3. ch \in {"OK", "RESTRICTED"} => sched.dev.tx_ongoing
      BY <1>8, <2>3, <2>5
    <3> QED
      BY <1>10, <2>1, <2>2, <3>1, <3>2, <3>3, <1>8 DEF Submitted, r
  <2> QED
    BY <2>4, <2>5
<1> QED
  BY <1>1, <1>9, <1>10

\* The automatic uplink is a confirmed message; if it fails, the application is told.
LEMMA SendAutomaticUplinkSubmits ==
    ASSUME NEW d \in Devices, NEW ch, NEW E, E \subseteq AppEvents,
           "AUTOMATIC_UPLINK_ERROR" \in E
    PROVE  Submitted(d, send_automatic_uplink_message(d, ch), "CONFIRMED", ch, E)
<1> DEFINE sent == handle_tx(d, AutomaticUplink, "CONFIRMED", ch)
           over == [sent.dev EXCEPT !.automatic_uplink_ongoing = FALSE]
           told == send_event_to_application(sent.dev, "AUTOMATIC_UPLINK_ERROR")
<1>1. AutomaticUplink \in Nat /\ "CONFIRMED" \in MessageTypes
  BY DEF AutomaticUplink, MessageTypes
<1>2. Submitted(d, sent.dev, "CONFIRMED", ch, E) /\ sent.status \in {"OK", "WOULD_BLOCK", "ERROR"}
  BY <1>1, HandleTxSubmits
<1>3. send_automatic_uplink_message(d, ch) \in {sent.dev, over, told}
  <2>1. /\ sent.status = "OK" => send_automatic_uplink_message(d, ch) = sent.dev
        /\ sent.status = "WOULD_BLOCK" => send_automatic_uplink_message(d, ch) = over
        /\ sent.status = "ERROR" => send_automatic_uplink_message(d, ch) = told
    BY SMT DEF send_automatic_uplink_message
  <2> QED
    BY <1>2, <2>1
<1>4. sent.dev \in Devices
  BY <1>2 DEF Submitted, Carries
<1> HIDE DEF sent
<1>5. Passes(sent.dev, over, E)
  <2>1. over \in Devices
    BY ZenonT(120), <1>4 DEF Devices
  <2>2. Beside(sent.dev, over)
    BY <1>4, <2>1 DEF Beside, Devices
  <2> QED
    BY <1>4, <2>2, BesidePasses
<1>6. Passes(sent.dev, told, E)
  BY <1>4, SendEventPasses
<1> HIDE DEF over, told
<1> QED
  BY <1>2, <1>3, <1>5, <1>6, SubmittedPasses


-----------------------------------------------------------------------------
(* The receive windows *)

\* A reception window is opened.
LEMMA OpenWindowPasses ==
    ASSUME NEW d \in Devices, NEW E
    PROVE  /\ Passes(d, open_rx1_window(d), E)
           /\ Passes(d, open_rx2_window(d), E)
<1>1. Passes(d, open_rx1_window(d), E)
  <2> DEFINE stopped == stop(d, "rx1")
             opened == [stopped EXCEPT !.demod_ongoing = TRUE,
                                       !.continuous_rx2_window_open = FALSE,
                                       !.rx_slot = "RX1", !.radio = "rx"]
  <2>1. open_rx1_window(d) = opened /\ opened \in Devices /\ stopped \in Devices
    <3>1. open_rx1_window(d) = opened
      BY DEF open_rx1_window
    <3> QED
      BY <3>1, OpenWindowKeeps, StopKeeps DEF Keeps, Timers
  <2>2. Passes(d, stopped, E)
    BY StopPasses DEF Timers
  <2> HIDE DEF stopped
  <2>3. Beside(stopped, opened)
    BY <2>1 DEF Beside, Devices
  <2> HIDE DEF opened
  <2> QED
    BY <2>1, <2>2, <2>3, BesidePasses, PassesTransitive
<1>2. Passes(d, open_rx2_window(d), E)
  <2> DEFINE stopped == stop(d, "rx2")
             slot == IF d.device_class = "C" THEN "CLASS_C" ELSE "RX2"
             mode == IF d.device_class = "C" THEN "rx_continuous" ELSE "rx"
             opened == [stopped EXCEPT !.continuous_rx2_window_open = TRUE,
                                       !.rx_slot = slot, !.radio = mode]
  <2>1. open_rx2_window(d) \in {d, opened} /\ mode # "tx"
    BY Zenon DEF open_rx2_window
  <2>2. stopped \in Devices /\ open_rx2_window(d) \in Devices
    BY OpenWindowKeeps, StopKeeps DEF Keeps, Timers
  <2>3. Passes(d, stopped, E)
    BY StopPasses DEF Timers
  <2> HIDE DEF stopped, slot, mode
  <2>4. CASE open_rx2_window(d) = opened
    <3>1. opened \in Devices
      BY <2>2, <2>4
    <3>2. Beside(stopped, opened)
      BY <2>1, <2>2, <3>1 DEF Beside, Devices
    <3> HIDE DEF opened
    <3> QED
      BY <2>2, <2>3, <2>4, <3>2, BesidePasses, PassesTransitive
  <2>5. CASE open_rx2_window(d) = d
    BY <2>5, PassesReflexive
  <2> QED
    BY <2>1, <2>4, <2>5
<1> QED
  BY <1>1, <1>2

\* The radio rests after a transmission.
LEMMA RestRadioPasses ==
    ASSUME NEW d \in Devices, NEW E
    PROVE  Passes(d, rest_radio(d), E)
BY OpenWindowPasses, PutRadioToSleepPasses DEF rest_radio

\* The windows open after a transmission; the ACK timer may send again.
LEMMA OnRadioTxDoneWorks ==
    ASSUME NEW d \in Devices, NEW E
    PROVE  Works(d, on_radio_tx_done(d), E) /\ SameFrame(d, on_radio_tx_done(d))
<1> DEFINE rest == rest_radio(d)
           count == IF d.req_type = "UNCONFIRMED" /\ d.nb_trans > 1
                    THEN rest.ul_nb_rep_counter + 1 ELSE rest.ul_nb_rep_counter
           counted == [rest EXCEPT !.ul_nb_rep_counter = count]
           rx1 == start(counted, "rx1")
           rx2 == start(rx1, "rx2")
           closure == start_closure(rx2)
           ack == start(closure, "ack")
<1>1. on_radio_tx_done(d) \in {closure, ack}
  <2>1. counted = [rest EXCEPT !.ul_nb_rep_counter =
                     IF d.req_type = "UNCONFIRMED" /\ d.nb_trans > 1 THEN @ + 1 ELSE @]
    OBVIOUS
  <2> QED
    BY <2>1, Zenon DEF on_radio_tx_done
<1>2. Passes(d, rest, E) /\ rest \in Devices
  BY RestRadioPasses DEF Passes, Works, Carries
<1> HIDE DEF rest
<1>3. count \in Nat
  <2>1. rest.ul_nb_rep_counter \in Nat
    BY <1>2 DEF Devices
  <2> QED
    BY <2>1
<1> HIDE DEF count
<1>4. counted \in Devices
  BY ZenonT(120), <1>2, <1>3 DEF Devices
<1>5. Beside(rest, counted)
  BY <1>2, <1>4 DEF Beside, Devices
<1> HIDE DEF counted
<1>6. Passes(d, counted, E)
  BY <1>2, <1>5, BesidePasses, PassesTransitive
<1>7. Works(d, rx1, E) /\ SameFrame(d, rx1) /\ rx1 \in Devices
  <2>1. Works(counted, rx1, E) /\ SameFrame(counted, rx1)
    BY <1>4, StartWorks DEF Timers
  <2> QED
    BY <1>6, <2>1, WorksTransitive DEF Passes, SameFrame, Works, Carries
<1> HIDE DEF rx1
<1>8. Works(d, rx2, E) /\ SameFrame(d, rx2) /\ rx2 \in Devices
  <2>1. Works(rx1, rx2, E) /\ SameFrame(rx1, rx2)
    BY <1>7, StartWorks DEF Timers
  <2> QED
    BY <1>7, <2>1, WorksTransitive DEF SameFrame, Works, Carries
<1> HIDE DEF rx2
<1>9. Works(d, closure, E) /\ SameFrame(d, closure) /\ closure \in Devices
  <2>1. closure \in {rx2, start(rx2, "rx2_closure")}
    BY DEF start_closure
  <2>2. Works(rx2, start(rx2, "rx2_closure"), E) /\ SameFrame(rx2, start(rx2, "rx2_closure"))
    BY <1>8, StartWorks DEF Timers
  <2> QED
    BY <1>8, <2>1, <2>2, WorksTransitive DEF SameFrame, Works, Carries
<1> HIDE DEF closure
<1>10. Works(d, ack, E) /\ SameFrame(d, ack)
  <2>1. Works(closure, ack, E) /\ SameFrame(closure, ack)
    BY <1>9, StartWorks DEF Timers
  <2> QED
    BY <1>9, <2>1, WorksTransitive DEF SameFrame
<1> QED
  BY <1>1, <1>9, <1>10

\* Four timers stopped one after the other.
LEMMA StopsPass ==
    ASSUME NEW d \in Devices, NEW s \in Timers, NEW t \in Timers, NEW u \in Timers,
           NEW v \in Timers, NEW E
    PROVE  /\ Passes(d, stop(stop(stop(stop(d, s), t), u), v), E)
           /\ stop(stop(stop(stop(d, s), t), u), v) \in Devices
<1> DEFINE one == stop(d, s)
           two == stop(one, t)
           three == stop(two, u)
<1>1. Passes(d, one, E) /\ one \in Devices
  BY StopPasses DEF Passes, Works, Carries
<1> HIDE DEF one
<1>2. Passes(d, two, E) /\ two \in Devices
  BY <1>1, StopPasses, PassesTransitive DEF Passes, Works, Carries
<1> HIDE DEF two
<1>3. Passes(d, three, E) /\ three \in Devices
  BY <1>1, <1>2, StopPasses, PassesTransitive DEF Passes, Works, Carries
<1> HIDE DEF three
<1>4. Passes(d, stop(three, v), E) /\ stop(three, v) \in Devices
  BY <1>3, StopPasses, PassesTransitive DEF Passes, Works, Carries
<1> QED
  BY <1>4 DEF three, two, one

\* A transmission the radio gives up: what it was asked for is timed out.
LEMMA OnRadioTxTimeoutPasses ==
    ASSUME NEW d \in Devices, NEW E
    PROVE  /\ Passes(d, on_radio_tx_timeout(d), E)
           /\ on_radio_tx_timeout(d).conf_status = "TX_TIMEOUT"
<1> DEFINE stopped == stop(stop(stop(stop(d, "rx1"), "rx2"), "rx2_closure"), "ack")
           rest == rest_radio(stopped)
           failed == [rest EXCEPT !.conf_status = "TX_TIMEOUT", !.ack_received = FALSE]
<1>1. on_radio_tx_timeout(d) = failed /\ failed \in Devices
  <2>1. on_radio_tx_timeout(d) = failed
    BY DEF on_radio_tx_timeout
  <2> QED
    BY <2>1, OnRadioTxTimeoutKeeps DEF Keeps
<1>2. Passes(d, stopped, E) /\ stopped \in Devices
  BY StopsPass DEF Timers
<1> HIDE DEF stopped
<1>3. Passes(d, rest, E) /\ rest \in Devices
  BY <1>2, RestRadioPasses, PassesTransitive DEF Passes, Works, Carries
<1> HIDE DEF rest
<1>4. Beside(rest, failed) /\ failed.conf_status = "TX_TIMEOUT"
  BY <1>1, <1>3 DEF Beside, Devices
<1> HIDE DEF failed
<1> QED
  BY <1>1, <1>3, <1>4, BesidePasses, PassesTransitive

\* An empty window.
LEMMA OnRadioRxTimeoutPasses ==
    ASSUME NEW d \in Devices, NEW E
    PROVE  Passes(d, on_radio_rx_timeout(d), E)
<1> DEFINE mode == IF d.device_class = "A" THEN "sleep" ELSE d.radio
           status == IF d.is_node_ack_requested THEN "ERROR" ELSE d.conf_status
           quiet == [d EXCEPT !.demod_ongoing = FALSE, !.radio = mode, !.conf_status = status]
<1>1. on_radio_rx_timeout(d) \in {quiet, stop(quiet, "rx2")}
  BY DEF on_radio_rx_timeout
<1>2. mode \in RadioModes /\ status \in ConfirmStatuses /\ (mode = "tx" => d.radio = "tx")
  BY DEF Devices, RadioModes, ConfirmStatuses
<1> HIDE DEF mode, status
<1>3. quiet \in Devices
  BY ZenonT(120), <1>2 DEF Devices
<1>4. Beside(d, quiet)
  BY <1>2, <1>3 DEF Beside, Devices
<1> HIDE DEF quiet
<1>5. Passes(d, quiet, E)
  BY <1>4, BesidePasses
<1>6. Passes(d, stop(quiet, "rx2"), E)
  BY <1>3, <1>5, StopPasses, PassesTransitive DEF Timers
<1> QED
  BY <1>1, <1>5, <1>6


-----------------------------------------------------------------------------
(* Retrying *)

\* The MAC goes on with a message that waits for its retry.
LEMMA ContinueSendingProcessPasses ==
    ASSUME NEW d \in Devices, NEW E
    PROVE  Passes(d, continue_sending_process(d).dev, E)
BY StopPasses, PassesReflexive DEF continue_sending_process, Timers

\* What a retry may do: the message stays, and its frame, outside a session replaced
\* by a Join Request.
Retried(d, e, E) ==
    /\ Works(d, e, E)
    /\ e.tx_ongoing = d.tx_ongoing
    /\ e.ul_frame_counter = d.ul_frame_counter
    /\ d.nwk_joined => e.tx_buffer = d.tx_buffer
    /\ ~d.nwk_joined => e.tx_buffer.join \/ Untouched(d, e)

\* A retry after what passes, and after a retry.
LEMMA RetriedTransitive ==
    ASSUME NEW c \in Devices, NEW d, NEW e, NEW E,
           Passes(c, d, E) \/ Retried(c, d, E), Retried(d, e, E)
    PROVE  Retried(c, e, E)
<1>1. Works(c, d, E) /\ Works(d, e, E)
  BY DEF Passes, Retried
<1>2. Works(c, e, E)
  BY <1>1, WorksTransitive
<1> QED
  BY <1>1, <1>2 DEF Retried, Passes, SameFrame, Works, Untouched, Still

\* What passes the message by is a retry that sends nothing.
LEMMA PassesRetried ==
    ASSUME NEW d, NEW e, NEW E, Passes(d, e, E)
    PROVE  Retried(d, e, E)
BY DEF Passes, SameFrame, Retried, Untouched

\* The frame is sent again, or refused, after a missing acknowledgement.
LEMMA HandleRetransmissionRetries ==
    ASSUME NEW d \in Devices, NEW ch, NEW E
    PROVE  /\ Retried(d, handle_retransmission(d, ch).dev, E)
           /\ d.nwk_joined /\ ch \in {"OK", "RESTRICTED"}
                => handle_retransmission(d, ch).status = "OK"
BY HandleRetransmissionWorks DEF Retried

\* The join request is sent again, or refused.
LEMMA ContinueJoiningProcessRetries ==
    ASSUME NEW d \in Devices, NEW ch, NEW E
    PROVE  Retried(d, continue_joining_process(d, ch).dev, E)
BY HandleRetransmissionRetries, PassesReflexive, PassesRetried DEF continue_joining_process

\* The retransmission of a frame whose wait is over fails for want of a channel only.
LEMMA OnBackoffTimerExpiryRetries ==
    ASSUME NEW d \in Devices, NEW ch, NEW E
    PROVE  LET r == on_backoff_timer_expiry(d, ch)
           IN  /\ Works(d, r.dev, E) /\ SameFrame(d, r.dev)
               /\ ch \in {"OK", "RESTRICTED"} => ~r.failed
<1> DEFINE stopped == stop(d, "backoff")
           sched == schedule_tx(stopped, ch)
<1>1. /\ on_backoff_timer_expiry(d, ch).dev = sched.dev
      /\ sched.status = "OK" => ~on_backoff_timer_expiry(d, ch).failed
  BY DEF on_backoff_timer_expiry
<1>2. Passes(d, stopped, E) /\ stopped \in Devices
  BY StopPasses DEF Passes, Works, Carries, Timers
<1> HIDE DEF stopped
<1>3. /\ Works(stopped, sched.dev, E) /\ SameFrame(stopped, sched.dev)
      /\ ch \in {"OK", "RESTRICTED"} => sched.status = "OK"
  BY <1>2, ScheduleTxWorks
<1> HIDE DEF sched
<1> QED
  BY <1>1, <1>2, <1>3, WorksTransitive DEF Passes, SameFrame

\* So does the retransmission of a frame that was not acknowledged.
LEMMA OnAckTimeoutRetries ==
    ASSUME NEW d \in Devices, NEW ch, NEW E
    PROVE  LET r == on_ack_timeout_timer_event(d, ch)
           IN  /\ Retried(d, r.dev, E)
               /\ d.nwk_joined /\ ch[1] \in {"OK", "RESTRICTED"} => ~r.failed
<1> DEFINE stopped == stop(d, "ack")
           first == handle_retransmission(stopped, ch[1])
           noAck == [first.dev EXCEPT !.is_node_ack_requested = FALSE, !.ack_received = FALSE]
           second == handle_retransmission(noAck, ch[2])
           third == handle_retransmission(second.dev, ch[3])
           counted(x) == [x EXCEPT !.ack_timeout_retry_counter = @ + 1]
           r == on_ack_timeout_timer_event(d, ch)
<1>1. /\ r.dev \in {d, first.dev, second.dev, counted(first.dev), counted(third.dev)}
      /\ first.status = "OK" => ~r.failed
  <2>1. CASE d.ack_timeout_retry_counter > d.max_ack_timeout_retries
    BY <2>1 DEF on_ack_timeout_timer_event
  <2>2. CASE ~(d.ack_timeout_retry_counter > d.max_ack_timeout_retries)
    <3>1. CASE first.status = "OK"
      <4>1. r = [dev |-> counted(first.dev), failed |-> FALSE]
        BY Zenon, <2>2, <3>1 DEF on_ack_timeout_timer_event
      <4> QED
        BY <4>1
    <3>2. CASE first.status # "OK"
      <4>1. r \in {[dev |-> second.dev, failed |-> TRUE], [dev |-> counted(third.dev), failed |-> FALSE],
                   [dev |-> first.dev, failed |-> TRUE]}
        BY SMT, <2>2, <3>2 DEF on_ack_timeout_timer_event
      <4> QED
        BY <3>2, <4>1
    <3> QED
      BY <3>1, <3>2
  <2> QED
    BY <2>1, <2>2
<1> HIDE DEF r
<1>2. Passes(d, stopped, E) /\ stopped \in Devices
  BY StopPasses DEF Passes, Works, Carries, Timers
<1> HIDE DEF stopped
<1>3. /\ Retried(stopped, first.dev, E)
      /\ stopped.nwk_joined /\ ch[1] \in {"OK", "RESTRICTED"} => first.status = "OK"
  BY <1>2, HandleRetransmissionRetries
<1> HIDE DEF first
<1>4. Retried(d, first.dev, E) /\ first.dev \in Devices
  BY <1>2, <1>3, RetriedTransitive DEF Retried, Works, Carries
<1>5. d.nwk_joined /\ ch[1] \in {"OK", "RESTRICTED"} => first.status = "OK"
  BY <1>2, <1>3 DEF Passes, Works
<1>6. noAck \in Devices
  BY ZenonT(120), <1>4 DEF Devices
<1>7. Retried(d, noAck, E)
  <2>1. Beside(first.dev, noAck)
    BY <1>4, <1>6 DEF Beside, Devices
  <2> HIDE DEF noAck
  <2>2. Retried(first.dev, noAck, E)
    BY <1>4, <2>1, BesidePasses, PassesRetried
  <2> QED
    BY <1>4, <2>2, RetriedTransitive
<1> HIDE DEF noAck
<1>8. Retried(d, second.dev, E) /\ second.dev \in Devices
  <2>1. Retried(noAck, second.dev, E)
    BY <1>6, HandleRetransmissionRetries
  <2> HIDE DEF second
  <2>2. Retried(d, second.dev, E)
    BY <1>6, <1>7, <2>1, RetriedTransitive
  <2> QED
    BY <2>2 DEF Retried, Works, Carries
<1> HIDE DEF second
<1>9. Retried(d, third.dev, E) /\ third.dev \in Devices
  <2>1. Retried(second.dev, third.dev, E)
    BY <1>8, HandleRetransmissionRetries
  <2> HIDE DEF third
  <2>2. Retried(d, third.dev, E)
    BY <1>8, <2>1, RetriedTransitive
  <2> QED
    BY <2>2 DEF Retried, Works, Carries
<1> HIDE DEF third
<1>10. ASSUME NEW x \in Devices, Retried(d, x, E)
       PROVE  Retried(d, counted(x), E)
  <2> DEFINE next == x.ack_timeout_retry_counter + 1
             updated == [x EXCEPT !.ack_timeout_retry_counter = next]
  <2>1. next \in Nat
    <3>1. x.ack_timeout_retry_counter \in Nat
      BY DEF Devices
    <3> QED
      BY <3>1
  <2>2. counted(x) = updated
    OBVIOUS
  <2> HIDE DEF next, counted
  <2>3. updated \in Devices
    BY ZenonT(120), <2>1 DEF Devices
  <2>4. Beside(x, updated)
    BY <2>3 DEF Beside, Devices
  <2> HIDE DEF updated
  <2>5. Retried(x, updated, E)
    BY <2>4, BesidePasses, PassesRetried
  <2> QED
    BY <1>10, <2>2, <2>5, RetriedTransitive
<1> HIDE DEF counted
<1>11. Retried(d, d, E)
  BY PassesReflexive, PassesRetried
<1> QED
  BY <1>1, <1>4, <1>5, <1>8, <1>9, <1>10, <1>11 DEF r

-----------------------------------------------------------------------------
(* Completing *)

\* The event that tells of a confirmation.
ReportOf(d) ==
    CASE d.conf_status = "OK"         -> "TX_DONE"
      [] d.conf_status = "TX_TIMEOUT" -> "TX_TIMEOUT"
      [] d.conf_status = "ERROR"      -> "TX_ERROR"

\* TX_DONE is reported of a confirmation that says OK only.
LEMMA ReportOfType ==
    ASSUME NEW d \in Devices
    PROVE  /\ ReportOf(d) \in {"TX_DONE", "TX_TIMEOUT", "TX_ERROR"}
           /\ ReportOf(d) = "TX_DONE" => d.conf_status = "OK"
BY DEF ReportOf, Devices, ConfirmStatuses

\* The state and the flags stay.
SameControl(d, e) == e.state = d.state /\ e.flags = d.flags

\* The report of a message to the application.
LEMMA McpsConfirmHandlerPasses ==
    ASSUME NEW d \in Devices, NEW E, E \subseteq AppEvents, ReportOf(d) \in E
    PROVE  /\ Passes(d, mcps_confirm_handler(d), E)
           /\ SameControl(d, mcps_confirm_handler(d))
<1>1. mcps_confirm_handler(d) = send_event_to_application(d, ReportOf(d))
  BY DEF mcps_confirm_handler, ReportOf
<1>2. SameControl(d, send_event_to_application(d, ReportOf(d)))
  BY DEF SameControl, send_event_to_application, post, Devices
<1> QED
  BY <1>1, <1>2, SendEventPasses

\* The transmission ends, and its frame and counter are left to whoever counts it.
Ended(d, e, E) ==
    /\ Works(d, e, E)
    /\ Untouched(d, e)
    /\ e.ul_frame_counter = d.ul_frame_counter

\* What passes the message by does not end it.
LEMMA PassesEnded ==
    ASSUME NEW d, NEW e, NEW E, Passes(d, e, E)
    PROVE  Ended(d, e, E)
BY DEF Passes, SameFrame, Ended, Untouched

\* One operation after another ends the message.
LEMMA EndedTransitive ==
    ASSUME NEW c \in Devices, NEW d, NEW e, NEW E, Ended(c, d, E), Ended(d, e, E)
    PROVE  Ended(c, e, E)
BY WorksTransitive DEF Ended, Untouched, Still

\* The transmission is counted, and may have ended.
Counted(d, e, E) ==
    /\ Works(d, e, E)
    /\ Untouched(d, e)
    /\ e.ul_frame_counter = d.ul_frame_counter + 1

\* The transmission goes on, or is counted.
Concluded(d, e, E) == Passes(d, e, E) \/ Counted(d, e, E)

\* After a message is concluded, an operation passes it by.
LEMMA ConcludedPasses ==
    ASSUME NEW c \in Devices, NEW d, NEW e, NEW E, Concluded(c, d, E), Passes(d, e, E)
    PROVE  Concluded(c, e, E)
<1>1. CASE Passes(c, d, E)
  BY <1>1, PassesTransitive DEF Concluded
<1>2. CASE Counted(c, d, E)
  <2>1. Works(c, e, E)
    BY <1>2, WorksTransitive DEF Counted, Passes
  <2> QED
    BY <1>2, <2>1 DEF Counted, Concluded, Passes, SameFrame, Untouched, Still
<1> QED
  BY <1>1, <1>2 DEF Concluded

\* An operation passes a message by before it is concluded.
LEMMA PassesConcluded ==
    ASSUME NEW c \in Devices, NEW d, NEW e, NEW E, Passes(c, d, E), Concluded(d, e, E)
    PROVE  Concluded(c, e, E)
<1>1. CASE Passes(d, e, E)
  BY <1>1, PassesTransitive DEF Concluded
<1>2. CASE Counted(d, e, E)
  <2>1. Works(c, e, E)
    BY <1>2, WorksTransitive DEF Counted, Passes
  <2> QED
    BY <1>2, <2>1 DEF Counted, Concluded, Passes, SameFrame, Untouched, Still
<1> QED
  BY <1>1, <1>2 DEF Concluded

\* A message is counted, then ended.
LEMMA CountedEnded ==
    ASSUME NEW c \in Devices, NEW d, NEW e, NEW E, Counted(c, d, E), Ended(d, e, E)
    PROVE  Concluded(c, e, E)
<1>1. Works(c, e, E)
  BY WorksTransitive DEF Counted, Ended
<1> QED
  BY <1>1 DEF Counted, Concluded, Ended, Untouched, Still

\* The message is counted; a confirmed one succeeds if it was acknowledged, which
\* is then forgotten.
LEMMA PostProcessMcpsReqCounts ==
    ASSUME NEW d \in Devices, NEW E
    PROVE  LET e == post_process_mcps_req(d)
           IN  /\ Counted(d, e, E) /\ SameControl(d, e)
               /\ e.conf_status = IF d.req_type = "CONFIRMED" /\ ~d.ack_received
                                  THEN "ERROR" ELSE "OK"
               /\ d.req_type = "CONFIRMED" => ~e.ack_received
<1> DEFINE acked == d.req_type = "CONFIRMED" /\ d.ack_received
           status == IF d.req_type = "CONFIRMED" /\ ~acked THEN "ERROR" ELSE "OK"
           requested == d.is_node_ack_requested /\ ~acked
           received == d.ack_received /\ ~acked
           recvd == d.is_ack_recvd /\ ~acked
           next == d.ul_frame_counter + 1
           processed == [d EXCEPT !.conf_status = status,
                                  !.is_node_ack_requested = requested,
                                  !.ack_received = received, !.is_ack_recvd = recvd]
           counted == [processed EXCEPT !.ul_frame_counter = next]
<1>1. post_process_mcps_req(d) = counted
  <2>1. post_process_mcps_req(d) = count_uplink(processed)
    BY DEF post_process_mcps_req
  <2>2. processed.ul_frame_counter = d.ul_frame_counter
    BY DEF Devices
  <2> HIDE DEF processed
  <2> QED
    BY <2>1, <2>2 DEF count_uplink
<1>2. counted \in Devices
  BY <1>1, PostProcessMcpsReqKeeps DEF Keeps
<1>3. /\ received => d.ack_received
      /\ d.req_type = "CONFIRMED" => ~received
      /\ status = IF d.req_type = "CONFIRMED" /\ ~d.ack_received THEN "ERROR" ELSE "OK"
      /\ received \in BOOLEAN /\ d.due \in Seq(Calls)
  BY DEF Devices
<1> HIDE DEF acked, status, requested, received, recvd
<1>4. /\ counted.due = d.due /\ counted.rx_payload_in_use = d.rx_payload_in_use
      /\ counted.nwk_joined = d.nwk_joined
      /\ counted.dl_frame_counter = d.dl_frame_counter
      /\ counted.tx_type = d.tx_type /\ counted.tx_msg = d.tx_msg
      /\ counted.req_type = d.req_type /\ counted.ack_received = received
      /\ counted.tx_ongoing = d.tx_ongoing /\ counted.ul_frame_counter = next
      /\ counted.conf_status = status
      /\ SameControl(d, counted) /\ Untouched(d, counted)
  BY DEF SameControl, Untouched, Still, Devices
<1> HIDE DEF counted
<1>5. Counted(d, counted, E)
  BY <1>2, <1>3, <1>4, ContinuesReflexive DEF Counted, Works, Carries
<1> QED
  BY <1>1, <1>3, <1>4, <1>5

\* An automatic uplink is posted, not sent.
LEMMA ScheduleAutomaticUplinkPasses ==
    ASSUME NEW d \in Devices, NEW E, E \subseteq AppEvents
    PROVE  Passes(d, schedule_automatic_uplink(d), E)
<1> DEFINE wanted == [d EXCEPT !.automatic_uplink_ongoing = TRUE]
           call == [fn |-> "send_automatic_uplink_message"]
<1>1. wanted \in Devices
  BY ZenonT(120) DEF Devices
<1>2. Beside(d, wanted)
  BY <1>1 DEF Beside, Devices
<1>3. call \in Posts(E)
  BY DEF Posts
<1> HIDE DEF wanted, call
<1>4. Passes(d, wanted, E)
  BY <1>2, BesidePasses
<1>5. Passes(wanted, post(wanted, call), E)
  BY <1>1, <1>3, PostPasses
<1>6. Passes(d, post(wanted, call), E)
  BY <1>4, <1>5, PassesTransitive
<1> QED
  BY <1>6 DEF schedule_automatic_uplink, wanted, call

\* A downlink is handed to the application.
LEMMA McpsIndicationHandlerPasses ==
    ASSUME NEW d \in Devices, NEW f, NEW E, E \subseteq AppEvents, f.payload => "RX_DONE" \in E
    PROVE  Passes(d, mcps_indication_handler(d, f), E)
<1> DEFINE told == IF f.payload THEN send_event_to_application(d, "RX_DONE") ELSE d
<1>1. Passes(d, told, E) /\ told \in Devices
  BY SendEventPasses, PassesReflexive DEF Passes, Works, Carries
<1>2. mcps_indication_handler(d, f) \in {told, schedule_automatic_uplink(told)}
  BY DEF mcps_indication_handler
<1> HIDE DEF told
<1>3. Passes(d, schedule_automatic_uplink(told), E)
  BY <1>1, ScheduleAutomaticUplinkPasses, PassesTransitive
<1> QED
  BY <1>1, <1>2, <1>3

TxFlags == {"TX_DONE", "RETRY_EXHAUSTED"}

\* The flags are cleared and the message ends.
LEMMA FlagsEnd ==
    ASSUME NEW d \in Devices, NEW S \in SUBSET CtrlFlags, NEW E
    PROVE  LET e == end_tx(clear_flags(d, S))
           IN  /\ Ended(d, e, E)
               /\ e.conf_status = d.conf_status /\ e.state = d.state /\ e.flags = d.flags \ S
<1> DEFINE cleared == clear_flags(d, S)
<1>1. Passes(d, cleared, E) /\ cleared \in Devices
  BY FlagsPass DEF Passes, Works, Carries
<1>2. cleared.conf_status = d.conf_status /\ cleared.state = d.state /\ cleared.flags = d.flags \ S
  BY DEF clear_flags, Devices
<1> HIDE DEF cleared
<1>3. /\ Ended(cleared, end_tx(cleared), E)
      /\ end_tx(cleared).conf_status = cleared.conf_status
      /\ end_tx(cleared).flags = cleared.flags /\ end_tx(cleared).state = cleared.state
  BY <1>1, EndTxWorks DEF Ended
<1>4. Ended(d, end_tx(cleared), E)
  BY <1>1, <1>3, PassesEnded, EndedTransitive
<1> QED
  BY <1>2, <1>3, <1>4 DEF cleared

\* The status check ends a transmission and reports what is confirmed; the flags of
\* a reception that ends one are cleared.
LEMMA StatusCheckEnds ==
    ASSUME NEW d \in Devices, NEW E, E \subseteq AppEvents, ReportOf(d) \in E
    PROVE  LET e == STATUS_CHECK(d)
           IN  /\ Ended(d, e, E)
               /\ d.state = "RECEIVING"
                    => e.state = "RECEIVING" /\ e.flags \cap TxFlags = {}
<1> DEFINE ended == end_tx(clear_flags(d, TxFlags))
           uplinked == [ended EXCEPT !.automatic_uplink_ongoing = FALSE]
           over == d.flags \cap TxFlags # {}
           reported == CASE ~over -> d
                         [] over /\ ended.automatic_uplink_ongoing -> uplinked
                         [] OTHER -> mcps_confirm_handler(ended)
           heard == clear_flags(reported, {"MSG_RECVD"})
           sent == end_tx(clear_flags(d, {"TX_DONE"}))
           e == STATUS_CHECK(d)
<1>1. /\ e \in {mcps_confirm_handler(sent), mcps_indication_handler(heard, NoIndication),
                reported, d}
      /\ d.state = "RECEIVING" => e \in {mcps_indication_handler(heard, NoIndication), reported}
  <2>1. CASE d.state \in {"SENDING", "AWAITING_ACK"}
    BY Zenon, <2>1 DEF STATUS_CHECK, process_status_check_state, TxFlags
  <2>2. CASE d.state = "RECEIVING"
    BY Zenon, <2>2 DEF STATUS_CHECK, process_status_check_state, TxFlags
  <2>3. CASE d.state \notin {"SENDING", "AWAITING_ACK", "RECEIVING"}
    BY Zenon, <2>3 DEF STATUS_CHECK, process_status_check_state, TxFlags
  <2> QED
    BY <2>1, <2>2, <2>3
<1>2. TxFlags \in SUBSET CtrlFlags /\ {"TX_DONE"} \in SUBSET CtrlFlags
  BY DEF TxFlags, CtrlFlags
<1>3. /\ Ended(d, ended, E) /\ ended \in Devices
      /\ ended.conf_status = d.conf_status /\ ended.state = d.state
      /\ ended.flags = d.flags \ TxFlags
  BY <1>2, FlagsEnd DEF Ended, Works, Carries
<1>4. /\ Ended(d, sent, E) /\ sent \in Devices
      /\ sent.conf_status = d.conf_status
  BY <1>2, FlagsEnd DEF Ended, Works, Carries
<1> HIDE DEF ended, sent, e
<1>5. Ended(d, uplinked, E) /\ SameControl(ended, uplinked)
  <2>1. uplinked \in Devices
    BY ZenonT(120), <1>3 DEF Devices
  <2>2. Beside(ended, uplinked) /\ SameControl(ended, uplinked)
    BY <1>3, <2>1 DEF Beside, SameControl, Devices
  <2> HIDE DEF uplinked
  <2>3. Ended(ended, uplinked, E)
    BY <1>3, <2>2, BesidePasses, PassesEnded
  <2> QED
    BY <1>3, <2>2, <2>3, EndedTransitive
<1> HIDE DEF uplinked
<1>6. Ended(d, mcps_confirm_handler(ended), E) /\ SameControl(ended, mcps_confirm_handler(ended))
  <2>1. ReportOf(ended) = ReportOf(d)
    BY <1>3 DEF ReportOf
  <2>2. Passes(ended, mcps_confirm_handler(ended), E)
        /\ SameControl(ended, mcps_confirm_handler(ended))
    BY <1>3, <2>1, McpsConfirmHandlerPasses
  <2>3. Ended(ended, mcps_confirm_handler(ended), E)
    BY <2>2, PassesEnded
  <2> QED
    BY <1>3, <2>2, <2>3, EndedTransitive
<1>7. Ended(d, mcps_confirm_handler(sent), E)
  <2>1. ReportOf(sent) = ReportOf(d)
    BY <1>4 DEF ReportOf
  <2>2. Passes(sent, mcps_confirm_handler(sent), E)
    BY <1>4, <2>1, McpsConfirmHandlerPasses
  <2>3. Ended(sent, mcps_confirm_handler(sent), E)
    BY <2>2, PassesEnded
  <2> QED
    BY <1>4, <2>3, EndedTransitive
<1>8. Ended(d, d, E)
  BY PassesReflexive, PassesEnded
<1>9. /\ Ended(d, reported, E) /\ reported \in Devices
      /\ reported.state = d.state /\ reported.flags \cap TxFlags = {}
  <2>1. \/ d.flags \cap TxFlags = {} /\ reported = d
        \/ reported \in {uplinked, mcps_confirm_handler(ended)}
    BY Zenon
  <2> HIDE DEF reported
  <2>2. CASE d.flags \cap TxFlags = {} /\ reported = d
    BY <1>8, <2>2
  <2>3. CASE reported \in {uplinked, mcps_confirm_handler(ended)}
    BY <1>3, <1>5, <1>6, <2>3 DEF SameControl, Ended, Works, Carries
  <2> QED
    BY <2>1, <2>2, <2>3
<1> HIDE DEF reported
<1>10. /\ Ended(d, heard, E) /\ heard.state = d.state /\ heard.flags \cap TxFlags = {}
  <2>1. Passes(reported, heard, E)
    BY <1>9, FlagsPass DEF CtrlFlags
  <2>2. Ended(d, heard, E)
    BY <1>9, <2>1, PassesEnded, EndedTransitive
  <2>3. heard.state = reported.state /\ heard.flags \subseteq reported.flags
    BY <1>9 DEF clear_flags, Devices
  <2> QED
    BY <1>9, <2>2, <2>3
<1> HIDE DEF heard
<1>11. mcps_indication_handler(heard, NoIndication) = heard
  BY DEF mcps_indication_handler, NoIndication, UplinkWanted
<1> QED
  BY <1>1, <1>7, <1>8, <1>9, <1>10, <1>11 DEF e

\* A frame that ends no transmission is indicated only.
LEMMA IndicationPasses ==
    ASSUME NEW d \in Devices, NEW f, NEW E, E \subseteq AppEvents, f.payload => "RX_DONE" \in E,
           d.state = "RECEIVING", d.flags \cap TxFlags = {}
    PROVE  Passes(d, process_status_check_state(d, f), E)
<1> DEFINE heard == clear_flags(d, {"MSG_RECVD"})
<1>1. process_status_check_state(d, f) \in {mcps_indication_handler(heard, f), d}
  BY Zenon DEF process_status_check_state, TxFlags
<1>2. Passes(d, heard, E) /\ heard \in Devices
  BY FlagsPass DEF CtrlFlags, Passes, Works, Carries
<1> HIDE DEF heard
<1>3. Passes(heard, mcps_indication_handler(heard, f), E)
  BY <1>2, McpsIndicationHandlerPasses
<1> QED
  BY <1>1, <1>2, <1>3, PassesReflexive, PassesTransitive

\* What a concluded transmission may tell the application.
MayConfirm(d, E) ==
    /\ E \subseteq AppEvents
    /\ "TX_ERROR" \in E
    /\ (d.req_type = "CONFIRMED" /\ ~d.ack_received) \/ "TX_DONE" \in E

\* Counting, and what the status check will report of it.
LEMMA CompletionCounts ==
    ASSUME NEW d \in Devices, NEW x, NEW E, Passes(d, x, E), MayConfirm(d, E)
    PROVE  LET y == post_process_mcps_req(x)
           IN  /\ Counted(d, y, E) /\ y \in Devices
               /\ ReportOf(y) \in E
               /\ SameControl(x, y)
               /\ d.req_type = "CONFIRMED" => ~y.ack_received
<1> DEFINE y == post_process_mcps_req(x)
<1>1. x \in Devices /\ x.req_type = d.req_type /\ (x.ack_received => d.ack_received)
  BY DEF Passes, Works, Carries
<1>2. /\ Counted(x, y, E) /\ SameControl(x, y)
      /\ y.conf_status = IF x.req_type = "CONFIRMED" /\ ~x.ack_received THEN "ERROR" ELSE "OK"
      /\ x.req_type = "CONFIRMED" => ~y.ack_received
  BY <1>1, PostProcessMcpsReqCounts
<1> HIDE DEF y
<1>3. Counted(d, y, E)
  <2>1. Works(d, y, E)
    BY <1>2, WorksTransitive DEF Counted, Passes
  <2> QED
    BY <1>2, <2>1 DEF Counted, Passes, SameFrame, Untouched, Still
<1>4. ReportOf(y) \in E
  BY <1>1, <1>2 DEF ReportOf, MayConfirm
<1> QED
  BY <1>1, <1>2, <1>3, <1>4 DEF Counted, Works, Carries, y

\* The status check after it.
LEMMA CompletionConcludes ==
    ASSUME NEW d \in Devices, NEW y, NEW E, E \subseteq AppEvents,
           Counted(d, y, E), ReportOf(y) \in E
    PROVE  LET e == STATUS_CHECK(y)
           IN  /\ Concluded(d, e, E) /\ e \in Devices
               /\ y.state = "RECEIVING" => e.state = "RECEIVING" /\ e.flags \cap TxFlags = {}
               /\ e.ack_received => y.ack_received
<1>1. y \in Devices
  BY DEF Counted, Works, Carries
<1>2. /\ Ended(y, STATUS_CHECK(y), E)
      /\ y.state = "RECEIVING" => /\ STATUS_CHECK(y).state = "RECEIVING"
                                  /\ STATUS_CHECK(y).flags \cap TxFlags = {}
  BY <1>1, StatusCheckEnds
<1>3. Concluded(d, STATUS_CHECK(y), E)
  BY <1>2, CountedEnded
<1> QED
  BY <1>2, <1>3 DEF Ended, Works, Carries

\* A repetition is posted, not sent.
LEMMA RepeatForQOSPasses ==
    ASSUME NEW d \in Devices, NEW E, E \subseteq AppEvents
    PROVE  Passes(d, repeat_for_QOS(d), E) /\ SameControl(d, repeat_for_QOS(d))
<1> DEFINE remembered == remember_QOS(d)
           call == [fn |-> "state_controller_scheduling"]
           posted == post(remembered, call)
           next == posted.qos_cnt + 1
           again == [posted EXCEPT !.qos_cnt = next]
<1>1. repeat_for_QOS(d) = again /\ again \in Devices
  <2>1. repeat_for_QOS(d) = again
    BY DEF repeat_for_QOS
  <2> QED
    BY <2>1, RepeatForQOSKeeps DEF Keeps
<1>2. Passes(d, remembered, E) /\ remembered \in Devices /\ SameControl(d, remembered)
  <2>1. Passes(d, remembered, E)
    BY RememberQOSPasses
  <2> QED
    BY <2>1 DEF Passes, Works, Carries, SameControl, remember_QOS, Devices
<1>3. call \in Posts(E)
  BY DEF Posts
<1> HIDE DEF remembered, call
<1>4. Passes(remembered, posted, E) /\ posted \in Devices
  BY <1>2, <1>3, PostPasses DEF Passes, Works, Carries
<1>5. SameControl(remembered, posted)
  BY <1>2 DEF SameControl, post, Devices
<1> HIDE DEF posted, next
<1>6. Beside(posted, again) /\ SameControl(posted, again)
  BY <1>1, <1>4 DEF Beside, SameControl, Devices
<1> HIDE DEF again
<1>7. Passes(posted, again, E)
  BY <1>4, <1>6, BesidePasses
<1>8. Passes(d, again, E)
  BY <1>2, <1>4, <1>7, PassesTransitive
<1> QED
  BY <1>1, <1>2, <1>5, <1>6, <1>8 DEF SameControl

\* Changing flags around a pass.
LEMMA ExchangeFlagsPasses ==
    ASSUME NEW d \in Devices, NEW off \in SUBSET CtrlFlags, NEW on \in SUBSET CtrlFlags, NEW E
    PROVE  LET e == set_flags(clear_flags(d, off), on)
           IN  Passes(d, e, E) /\ e \in Devices /\ e.state = d.state
<1> DEFINE cleared == clear_flags(d, off)
           e == set_flags(cleared, on)
<1>1. Passes(d, cleared, E) /\ cleared \in Devices /\ cleared.state = d.state
  <2>1. cleared.state = d.state
    BY DEF clear_flags, Devices
  <2> QED
    BY <2>1, FlagsPass DEF Passes, Works, Carries
<1> HIDE DEF cleared
<1>2. Passes(cleared, e, E) /\ e.state = cleared.state
  <2>1. e.state = cleared.state
    BY <1>1 DEF set_flags, Devices
  <2> QED
    BY <1>1, <2>1, FlagsPass
<1> HIDE DEF e
<1>3. Passes(d, e, E) /\ e \in Devices /\ e.state = d.state
  BY <1>1, <1>2, PassesTransitive DEF Passes, Works, Carries
<1> QED
  BY <1>3 DEF e, cleared

\* Going on with a message leaves the control of the stack alone.
LEMMA ContinueSendingProcessControls ==
    ASSUME NEW d \in Devices
    PROVE  SameControl(d, continue_sending_process(d).dev)
BY DEF continue_sending_process, stop, SameControl, Devices

\* A frame goes by, or ends the transmission, and no transmission flag stays.
LEMMA PostProcessTxWithReceptionConcludes ==
    ASSUME NEW d \in Devices, NEW E, MayConfirm(d, E),
           d.state = "RECEIVING", d.flags \cap TxFlags = {}
    PROVE  LET e == post_process_tx_with_reception(d)
           IN  /\ Concluded(d, e, E) /\ e \in Devices
               /\ e.state = "RECEIVING" /\ e.flags \cap TxFlags = {}
               /\ d.req_type = "CONFIRMED" /\ (d.ack_received => d.is_ack_recvd)
                    => ~e.ack_received
<1> DEFINE done == set_flags(clear_flags(d, {"RETRY_EXHAUSTED"}), {"TX_DONE"})
           left == continue_sending_process(d).dev
           failed == set_flags(clear_flags(left, {"TX_DONE"}), {"RETRY_EXHAUSTED"})
           again == clear_flags(d, {"TX_DONE"})
           remembered == remember_QOS(d)
           counted == post_process_mcps_req(remembered)
           over == set_flags(counted, {"TX_DONE"})
           e == post_process_tx_with_reception(d)
           Good(x) == /\ Concluded(d, x, E) /\ x \in Devices
                      /\ x.state = "RECEIVING" /\ x.flags \cap TxFlags = {}
<1>1. \/ d.req_type = "CONFIRMED" /\ e \in {STATUS_CHECK(post_process_mcps_req(done)),
                                            STATUS_CHECK(post_process_mcps_req(failed))}
      \/ d.req_type = "CONFIRMED" /\ ~d.is_ack_recvd /\ e = left
      \/ d.req_type # "CONFIRMED" /\ e \in {repeat_for_QOS(again), STATUS_CHECK(over)}
  BY Zenon DEF post_process_tx_with_reception
<1> HIDE DEF e
<1>a. E \subseteq AppEvents /\ {"TX_DONE"} \in SUBSET CtrlFlags
      /\ {"RETRY_EXHAUSTED"} \in SUBSET CtrlFlags
  BY DEF MayConfirm, CtrlFlags
<1>b. ASSUME NEW x, Passes(d, x, E), x.state = "RECEIVING"
      PROVE  /\ Good(STATUS_CHECK(post_process_mcps_req(x)))
             /\ d.req_type = "CONFIRMED" => ~STATUS_CHECK(post_process_mcps_req(x)).ack_received
  <2> DEFINE y == post_process_mcps_req(x)
  <2>1. /\ Counted(d, y, E) /\ ReportOf(y) \in E /\ SameControl(x, y)
        /\ d.req_type = "CONFIRMED" => ~y.ack_received
    BY <1>b, CompletionCounts
  <2> HIDE DEF y
  <2>2. /\ Concluded(d, STATUS_CHECK(y), E) /\ STATUS_CHECK(y) \in Devices
        /\ y.state = "RECEIVING" => /\ STATUS_CHECK(y).state = "RECEIVING"
                                    /\ STATUS_CHECK(y).flags \cap TxFlags = {}
        /\ STATUS_CHECK(y).ack_received => y.ack_received
    BY <1>a, <2>1, CompletionConcludes
  <2> QED
    BY <1>b, <2>1, <2>2 DEF SameControl, y
<1>2. Passes(d, done, E) /\ done.state = d.state
  BY <1>a, ExchangeFlagsPasses
<1>3. Passes(d, left, E) /\ SameControl(d, left) /\ left \in Devices
  BY ContinueSendingProcessPasses, ContinueSendingProcessControls DEF Passes, Works, Carries
<1> HIDE DEF done, left
<1>4. Passes(d, failed, E) /\ failed.state = d.state
  <2>1. Passes(left, failed, E) /\ failed.state = left.state
    BY <1>3, <1>a, ExchangeFlagsPasses
  <2> QED
    BY <1>3, <2>1, PassesTransitive DEF SameControl
<1> HIDE DEF failed
<1>5. Good(STATUS_CHECK(over))
  <2>1. Passes(d, remembered, E) /\ remembered.state = d.state
    BY RememberQOSPasses DEF remember_QOS, Devices
  <2> HIDE DEF remembered
  <2>2. Counted(d, counted, E) /\ counted \in Devices /\ ReportOf(counted) \in E
        /\ SameControl(remembered, counted)
    BY <2>1, CompletionCounts
  <2> HIDE DEF counted
  <2>3. /\ Passes(counted, over, E) /\ over.state = counted.state
        /\ over.conf_status = counted.conf_status
    <3>1. over.state = counted.state /\ over.conf_status = counted.conf_status
      BY <2>2 DEF set_flags, Devices
    <3> QED
      BY <1>a, <2>2, <3>1, FlagsPass
  <2> HIDE DEF over
  <2>4. Counted(d, over, E) /\ ReportOf(over) \in E
    <3>1. Works(d, over, E)
      BY <2>2, <2>3, WorksTransitive DEF Counted, Passes
    <3> QED
      BY <2>2, <2>3, <3>1 DEF Counted, Passes, SameFrame, Untouched, Still, ReportOf
  <2> QED
    BY <1>a, <2>1, <2>2, <2>3, <2>4, CompletionConcludes DEF SameControl
<1>6. Good(repeat_for_QOS(again))
  <2>1. Passes(d, again, E) /\ again \in Devices
    BY <1>a, FlagsPass DEF Passes, Works, Carries
  <2>2. again.state = d.state /\ again.flags \subseteq d.flags
    BY DEF clear_flags, Devices
  <2> HIDE DEF again
  <2>3. Passes(again, repeat_for_QOS(again), E) /\ SameControl(again, repeat_for_QOS(again))
    BY <1>a, <2>1, RepeatForQOSPasses
  <2>4. Passes(d, repeat_for_QOS(again), E)
    BY <2>1, <2>3, PassesTransitive
  <2> QED
    BY <2>2, <2>3, <2>4 DEF SameControl, Concluded, Passes, Works, Carries
<1>7. Good(left) /\ (left.ack_received => d.ack_received)
  BY <1>3 DEF SameControl, Concluded, Passes, Works
<1> HIDE DEF Good
<1>8. Good(e)
  BY <1>1, <1>2, <1>4, <1>5, <1>6, <1>7, <1>b
<1>9. d.req_type = "CONFIRMED" /\ (d.ack_received => d.is_ack_recvd) => ~e.ack_received
  BY <1>1, <1>2, <1>4, <1>7, <1>b
<1> QED
  BY <1>8, <1>9 DEF Good, e

\* Silence ends the transmission, or does not.
LEMMA PostProcessTxNoReceptionConcludes ==
    ASSUME NEW d \in Devices, NEW E, MayConfirm(d, E)
    PROVE  Concluded(d, post_process_tx_no_reception(d), E)
<1> DEFINE end(x) == state_machine_run_to_completion(STATUS_CHECK(post_process_mcps_req(x)))
           left == continue_sending_process(d).dev
           more == clear_flags(left, {"TX_DONE", "RETRY_EXHAUSTED"})
           failed == set_flags(clear_flags(left, {"TX_DONE"}), {"RETRY_EXHAUSTED"})
           again == set_flags(d, {"TX_DONE"})
           repeated == repeat_for_QOS(again)
           remembered == remember_QOS(d)
           done == set_flags(remembered, {"TX_DONE"})
<1>1. post_process_tx_no_reception(d) \in
        {more, end(failed), state_machine_run_to_completion(repeated), end(done)}
  BY Zenon DEF post_process_tx_no_reception
<1>a. /\ E \subseteq AppEvents /\ {"TX_DONE"} \in SUBSET CtrlFlags
      /\ {"RETRY_EXHAUSTED"} \in SUBSET CtrlFlags
      /\ {"TX_DONE", "RETRY_EXHAUSTED"} \in SUBSET CtrlFlags
  BY DEF MayConfirm, CtrlFlags
<1>2. /\ Passes(d, left, E) /\ left \in Devices
      /\ Passes(d, remembered, E) /\ remembered \in Devices
  BY ContinueSendingProcessPasses, RememberQOSPasses DEF Passes, Works, Carries
<1> HIDE DEF left, remembered
<1>3. Passes(d, more, E)
  BY <1>a, <1>2, FlagsPass, PassesTransitive
<1>4. Passes(d, failed, E)
  BY <1>a, <1>2, ExchangeFlagsPasses, PassesTransitive
<1>5. Passes(d, done, E)
  BY <1>a, <1>2, FlagsPass, PassesTransitive
<1>6. Passes(d, repeated, E) /\ repeated \in Devices
  <2>1. Passes(d, again, E) /\ again \in Devices
    BY <1>a, FlagsPass DEF Passes, Works, Carries
  <2> HIDE DEF again
  <2> QED
    BY <1>a, <2>1, RepeatForQOSPasses, PassesTransitive DEF Passes, Works, Carries
<1> HIDE DEF more, failed, done, repeated
<1>7. Passes(d, state_machine_run_to_completion(repeated), E)
  BY <1>6, RunToCompletionPasses, PassesTransitive
<1>8. ASSUME NEW x, Passes(d, x, E)
      PROVE  Concluded(d, end(x), E)
  <2> DEFINE y == post_process_mcps_req(x)
             checked == STATUS_CHECK(y)
  <2>1. Counted(d, y, E) /\ ReportOf(y) \in E
    BY <1>8, CompletionCounts
  <2> HIDE DEF y
  <2>2. Concluded(d, checked, E) /\ checked \in Devices
    BY <1>a, <2>1, CompletionConcludes
  <2> HIDE DEF checked
  <2>3. Concluded(d, state_machine_run_to_completion(checked), E)
    BY <2>2, RunToCompletionPasses, ConcludedPasses
  <2> QED
    BY <2>3 DEF checked, y
<1> HIDE DEF end
<1> QED
  BY <1>1, <1>3, <1>4, <1>5, <1>7, <1>8 DEF Concluded


-----------------------------------------------------------------------------
(* Reception *)

\* Work on a frame of the session: whatever it indicates, the transmission goes on
\* or is counted.
LEMMA FinishReceptionConcludes ==
    ASSUME NEW d \in Devices, NEW f, NEW pending \in BOOLEAN, NEW E, MayConfirm(d, E),
           d.state = "RECEIVING", d.flags \cap TxFlags = {},
           pending /\ f.payload => "RX_DONE" \in E
    PROVE  LET e == finish_reception(d, f, pending)
           IN  /\ Concluded(d, e, E)
               /\ d.req_type = "CONFIRMED" /\ (d.ack_received => d.is_ack_recvd)
                    => ~e.ack_received
<1> DEFINE post_processed == post_process_tx_with_reception(d)
           received == set_flags(post_processed, {"MSG_RECVD"})
           told == process_status_check_state(received, f)
           indicated == IF pending THEN told ELSE post_processed
           completed == IF "TX_DONE" \in indicated.flags
                        THEN state_machine_run_to_completion(indicated) ELSE indicated
           handled == [completed EXCEPT !.mlme_ind_pending = FALSE]
           e == finish_reception(d, f, pending)
           quiet == d.req_type = "CONFIRMED" /\ (d.ack_received => d.is_ack_recvd)
           Good(x) == Concluded(d, x, E) /\ x \in Devices /\ (quiet => ~x.ack_received)
<1>1. e \in {mlme_indication_handler(handled), completed}
  BY Zenon DEF finish_reception
<1> HIDE DEF e
<1>a. E \subseteq AppEvents
  BY DEF MayConfirm
<1>b. ASSUME NEW x, NEW y, Good(x), Passes(x, y, E)
      PROVE  Good(y)
  <2>1. Concluded(d, y, E)
    BY <1>b, ConcludedPasses
  <2> QED
    BY <1>b, <2>1 DEF Passes, Works, Carries
<1>2. /\ Concluded(d, post_processed, E) /\ post_processed \in Devices
      /\ post_processed.state = "RECEIVING" /\ post_processed.flags \cap TxFlags = {}
      /\ quiet => ~post_processed.ack_received
  BY PostProcessTxWithReceptionConcludes
<1> HIDE DEF post_processed, quiet
<1>3. Good(post_processed)
  BY <1>2
<1>4. /\ Passes(post_processed, received, E) /\ received \in Devices
      /\ received.state = "RECEIVING" /\ received.flags \cap TxFlags = {}
  <2>1. received.state = post_processed.state
        /\ received.flags = post_processed.flags \cup {"MSG_RECVD"}
    BY <1>2 DEF set_flags, Devices
  <2>2. Passes(post_processed, received, E)
    BY <1>2, FlagsPass DEF CtrlFlags
  <2> QED
    BY <1>2, <2>1, <2>2 DEF Passes, Works, Carries, TxFlags
<1> HIDE DEF received
<1>5. pending => Passes(received, told, E)
  BY <1>a, <1>4, IndicationPasses
<1> HIDE DEF told, Good
<1>6. Good(indicated)
  <2>1. CASE pending
    <3>1. Good(received)
      BY <1>3, <1>4, <1>b
    <3>2. Good(told)
      BY <1>5, <1>b, <2>1, <3>1
    <3> QED
      BY <2>1, <3>2
  <2>2. CASE ~pending
    BY <1>3, <2>2
  <2> QED
    BY <2>1, <2>2
<1> HIDE DEF indicated
<1>7. Good(completed)
  <2>1. indicated \in Devices
    BY <1>6 DEF Good
  <2>2. Passes(indicated, state_machine_run_to_completion(indicated), E)
    BY <2>1, RunToCompletionPasses
  <2>3. Good(state_machine_run_to_completion(indicated))
    BY <1>6, <1>b, <2>2
  <2> QED
    BY <1>6, <2>3
<1> HIDE DEF completed
<1>8. Good(mlme_indication_handler(handled))
  <2>1. completed \in Devices
    BY <1>7 DEF Good
  <2>2. handled \in Devices
    BY ZenonT(120), <2>1 DEF Devices
  <2>3. Beside(completed, handled)
    BY <2>1, <2>2 DEF Beside, Devices
  <2> HIDE DEF handled
  <2>4. Passes(completed, handled, E)
    BY <2>1, <2>3, BesidePasses
  <2>5. Passes(handled, mlme_indication_handler(handled), E)
    BY <1>a, <2>2, ScheduleAutomaticUplinkPasses DEF mlme_indication_handler
  <2>6. Good(handled)
    BY <1>7, <1>b, <2>4
  <2> QED
    BY <1>b, <2>5, <2>6
<1>9. Good(e)
  BY <1>1, <1>7, <1>8
<1> QED
  BY <1>9 DEF Good, e, quiet

\* The reception windows are closed.
LEMMA StopRxWindowsPasses ==
    ASSUME NEW d \in Devices, NEW E
    PROVE  Passes(d, stop_rx_windows(d), E) /\ SameControl(d, stop_rx_windows(d))
<1> DEFINE one == stop(d, "rx2")
           two == stop(stop(d, "rx1"), "rx2")
           Good(x) == Passes(d, x, E) /\ x \in Devices /\ SameControl(d, x)
<1>1. stop_rx_windows(d) \in {one, two, stop(one, "rx2_closure"), stop(two, "rx2_closure")}
  BY Zenon DEF stop_rx_windows
<1>2. ASSUME NEW x, NEW t \in Timers, Good(x)
      PROVE  Good(stop(x, t))
  <2>1. Passes(x, stop(x, t), E)
    BY <1>2, StopPasses
  <2>2. SameControl(x, stop(x, t))
    BY <1>2 DEF stop, SameControl, Devices
  <2> QED
    BY <1>2, <2>1, <2>2, PassesTransitive DEF SameControl, Passes, Works, Carries
<1>3. Good(d)
  BY PassesReflexive DEF SameControl
<1> HIDE DEF Good
<1>4. Good(one) /\ Good(two)
  BY <1>2, <1>3 DEF Timers
<1> HIDE DEF one, two
<1>5. Good(stop(one, "rx2_closure")) /\ Good(stop(two, "rx2_closure"))
  BY <1>2, <1>4 DEF Timers
<1>6. Good(stop_rx_windows(d))
  BY <1>1, <1>4, <1>5
<1> QED
  BY <1>6 DEF Good

\* What hearing a frame leaves alone: the message, its frame, the states.
Hears(d, e, E) ==
    /\ Carries(d, e, E)
    /\ SameMessage(d, e)
    /\ e.req_type = d.req_type
    /\ e.tx_ongoing = d.tx_ongoing
    /\ Untouched(d, e)
    /\ SameControl(d, e)

\* One operation after another of a reception.
LEMMA HearsTransitive ==
    ASSUME NEW c \in Devices, NEW d, NEW e, NEW E, Hears(c, d, E), Hears(d, e, E)
    PROVE  Hears(c, e, E)
BY CarriesTransitive DEF Hears, SameMessage, Untouched, Still, SameControl

\* What passes the message by is part of a reception.
LEMMA PassesHears ==
    ASSUME NEW d, NEW e, NEW E, Passes(d, e, E), SameControl(d, e)
    PROVE  Hears(d, e, E)
BY DEF Passes, Works, SameFrame, Hears, SameMessage, Untouched

\* The frame is a downlink of the session that was not taken before.
Taken(d, f) == f.kind # "foreign" /\ ~Discarded(d, f)

\* A data frame moves the downlink counter if it is taken, and acknowledges if it says
\* so.
LEMMA HandleDataFrameHears ==
    ASSUME NEW d \in Devices, NEW f \in Frames, NEW E
    PROVE  LET r == handle_data_frame(d, f)
           IN  /\ Hears(d, r.dev, E)
               /\ r.dev.nwk_joined = d.nwk_joined
               /\ r.dev.ul_frame_counter = d.ul_frame_counter
               /\ r.dev.dl_frame_counter = IF Taken(d, f) THEN DownlinkCounter(d, f)
                                                          ELSE d.dl_frame_counter
               /\ r.pending \in BOOLEAN /\ (r.pending => Taken(d, f))
               /\ r.dev.ack_received => \/ d.ack_received /\ f.kind = "foreign"
                                        \/ f.ack /\ r.dev.is_ack_recvd
<1> DEFINE addressed == [d EXCEPT !.ack_received = FALSE, !.is_ack_recvd = FALSE,
                                  !.conf_status = "OK",
                                  !.is_srv_ack_requested = f.confirmed]
           acked == d.is_node_ack_requested /\ f.ack
           quiet == stop_rx_windows(addressed)
           counter == DownlinkCounter(d, f)
           trans == IF f.nb > 0 THEN f.nb ELSE quiet.nb_trans
           uplink == quiet.mlme_ind_pending \/ f.sticky
           taken == [quiet EXCEPT
                       !.dl_frame_counter = counter,
                       !.ack_received = acked, !.is_ack_recvd = acked,
                       !.nb_trans = trans, !.mlme_ind_pending = uplink]
           r == handle_data_frame(d, f)
<1>1. \/ f.kind = "foreign" /\ r = [dev |-> d, pending |-> FALSE]
      \/ f.kind # "foreign" /\ Discarded(d, f) /\ r = [dev |-> addressed, pending |-> FALSE]
      \/ /\ Taken(d, f)
         /\ \/ r = [dev |-> taken, pending |-> TRUE]
            \/ r = [dev |-> stop(taken, "ack"), pending |-> TRUE]
  <2>1. CASE f.kind = "foreign"
    <3>1. ~Discarded(d, f)
      BY <2>1 DEF Discarded
    <3> QED
      BY Zenon, <2>1, <3>1 DEF handle_data_frame, Discarded
  <2>2. CASE f.kind # "foreign" /\ Discarded(d, f)
    BY Zenon, <2>2 DEF handle_data_frame
  <2>3. CASE Taken(d, f)
    BY Zenon, <2>3 DEF handle_data_frame, Taken
  <2> QED
    BY <2>1, <2>2, <2>3 DEF Taken
<1> HIDE DEF r
<1>2. f.confirmed \in BOOLEAN /\ f.ack \in BOOLEAN /\ f.sticky \in BOOLEAN /\ f.nb \in Nat
  BY BoundsAssumption DEF Frames
<1>3. addressed \in Devices
  BY ZenonT(120), <1>2 DEF Devices, ConfirmStatuses
<1>4. Beside(d, addressed) /\ SameControl(d, addressed) /\ ~addressed.ack_received
  BY <1>3 DEF Beside, SameControl, Devices
<1> HIDE DEF addressed
<1>5. Passes(d, addressed, E)
  BY <1>4, BesidePasses
<1>6. Passes(d, quiet, E) /\ SameControl(d, quiet) /\ quiet \in Devices
  <2>1. Passes(addressed, quiet, E) /\ SameControl(addressed, quiet)
    BY <1>3, StopRxWindowsPasses
  <2> HIDE DEF quiet
  <2> QED
    BY <1>4, <1>5, <2>1, PassesTransitive DEF SameControl, Passes, Works, Carries
<1> HIDE DEF quiet
<1>7. counter \in {0, 1}
  BY DEF DownlinkCounter, Devices
<1>8. trans \in Nat
  <2>1. quiet.nb_trans \in Nat
    BY <1>6 DEF Devices
  <2> QED
    BY <1>2, <2>1
<1>9. acked \in BOOLEAN /\ uplink \in BOOLEAN /\ (acked => f.ack)
  OBVIOUS
<1> HIDE DEF acked, trans, uplink, counter
<1>10. taken \in Devices
  BY ZenonT(120), <1>6, <1>7, <1>8, <1>9 DEF Devices
<1>11. /\ taken.due = quiet.due /\ taken.rx_payload_in_use = quiet.rx_payload_in_use
       /\ SameMessage(quiet, taken) /\ taken.req_type = quiet.req_type
       /\ taken.tx_ongoing = quiet.tx_ongoing /\ Untouched(quiet, taken)
       /\ SameControl(quiet, taken) /\ taken.nwk_joined = quiet.nwk_joined
       /\ taken.ul_frame_counter = quiet.ul_frame_counter
       /\ taken.dl_frame_counter = counter
       /\ taken.ack_received = acked /\ taken.is_ack_recvd = acked
       /\ quiet.due \in Seq(Calls)
  BY <1>6 DEF SameMessage, Untouched, Still, SameControl, Devices
<1> HIDE DEF taken
<1>12. Hears(d, taken, E)
  <2>1. Hears(quiet, taken, E)
    BY <1>10, <1>11, ContinuesReflexive DEF Hears, Carries
  <2> QED
    BY <1>6, <2>1, PassesHears, HearsTransitive
<1>13. /\ Hears(d, stop(taken, "ack"), E)
       /\ stop(taken, "ack").nwk_joined = taken.nwk_joined
       /\ stop(taken, "ack").ul_frame_counter = taken.ul_frame_counter
       /\ stop(taken, "ack").dl_frame_counter = taken.dl_frame_counter
       /\ stop(taken, "ack").ack_received = taken.ack_received
       /\ stop(taken, "ack").is_ack_recvd = taken.is_ack_recvd
  <2> DEFINE stopped == stop(taken, "ack")
  <2>1. Passes(taken, stopped, E)
    BY <1>10, StopPasses DEF Timers
  <2>2. /\ SameControl(taken, stopped)
        /\ stopped.nwk_joined = taken.nwk_joined
        /\ stopped.ul_frame_counter = taken.ul_frame_counter
        /\ stopped.dl_frame_counter = taken.dl_frame_counter
        /\ stopped.ack_received = taken.ack_received
        /\ stopped.is_ack_recvd = taken.is_ack_recvd
    BY <1>10 DEF stop, SameControl, Devices
  <2> HIDE DEF stopped
  <2>3. Hears(d, stopped, E)
    BY <1>12, <2>1, <2>2, PassesHears, HearsTransitive
  <2> QED
    BY <2>2, <2>3 DEF stopped
<1>14. CASE f.kind = "foreign" /\ r = [dev |-> d, pending |-> FALSE]
  <2>1. r.dev = d /\ r.pending = FALSE /\ ~Taken(d, f)
    BY <1>14 DEF Taken
  <2>2. Hears(d, d, E)
    BY PassesReflexive, PassesHears DEF SameControl
  <2> QED
    BY <1>14, <2>1, <2>2 DEF r
<1>15. CASE f.kind # "foreign" /\ Discarded(d, f) /\ r = [dev |-> addressed, pending |-> FALSE]
  <2>1. r.dev = addressed /\ r.pending = FALSE /\ ~Taken(d, f)
    BY <1>15 DEF Taken
  <2>2. Hears(d, addressed, E)
    BY <1>4, <1>5, PassesHears
  <2> QED
    BY <1>4, <2>1, <2>2 DEF Beside, r
<1>16. CASE Taken(d, f) /\ r \in {[dev |-> taken, pending |-> TRUE],
                                  [dev |-> stop(taken, "ack"), pending |-> TRUE]}
  <2>1. r.pending = TRUE
    BY <1>16
  <2>2. quiet.nwk_joined = d.nwk_joined /\ quiet.ul_frame_counter = d.ul_frame_counter
    BY <1>6 DEF Passes, Works, SameFrame
  <2>3. /\ Hears(d, r.dev, E) /\ r.dev.nwk_joined = taken.nwk_joined
        /\ r.dev.ul_frame_counter = taken.ul_frame_counter
        /\ r.dev.dl_frame_counter = taken.dl_frame_counter
        /\ r.dev.ack_received = taken.ack_received
        /\ r.dev.is_ack_recvd = taken.is_ack_recvd
    BY <1>12, <1>13, <1>16
  <2> QED
    BY <1>9, <1>11, <1>16, <2>1, <2>2, <2>3 DEF counter, r
<1> QED
  BY <1>1, <1>14, <1>15, <1>16


\* A Join Accept joins, and starts the uplink counter anew.
LEMMA HandleJoinAcceptFrameHears ==
    ASSUME NEW d \in Devices, NEW f, NEW E
    PROVE  LET e == handle_join_accept_frame(d, f)
           IN  /\ Hears(d, e, E)
               /\ f.kind # "accept" => e = d
               /\ f.kind = "accept" => e.nwk_joined
               /\ e.dl_frame_counter = d.dl_frame_counter
               /\ e.ack_received = d.ack_received
<1> DEFINE stopped == stop(d, "rx2")
           joined == [stopped EXCEPT !.nwk_joined = TRUE, !.ul_frame_counter = 0,
                                     !.ul_nb_rep_counter = 0]
<1>1. handle_join_accept_frame(d, f) = IF f.kind = "accept" THEN joined ELSE d
  BY DEF handle_join_accept_frame
<1>2. Hears(d, stopped, E) /\ stopped \in Devices
      /\ stopped.dl_frame_counter = d.dl_frame_counter
      /\ stopped.ack_received = d.ack_received
  <2>1. Passes(d, stopped, E)
    BY StopPasses DEF Timers
  <2>2. SameControl(d, stopped) /\ stopped.ack_received = d.ack_received
    BY DEF stop, SameControl, Devices
  <2> HIDE DEF stopped
  <2> QED
    BY <2>1, <2>2, PassesHears DEF Passes, Works, Carries
<1> HIDE DEF stopped
<1>3. joined \in Devices
  BY ZenonT(120), <1>2 DEF Devices
<1>4. /\ joined.due = stopped.due /\ joined.rx_payload_in_use = stopped.rx_payload_in_use
      /\ SameMessage(stopped, joined) /\ joined.req_type = stopped.req_type
      /\ joined.tx_ongoing = stopped.tx_ongoing /\ Untouched(stopped, joined)
      /\ SameControl(stopped, joined) /\ joined.nwk_joined
      /\ joined.dl_frame_counter = stopped.dl_frame_counter
      /\ joined.ack_received = stopped.ack_received
      /\ stopped.due \in Seq(Calls)
  BY <1>2 DEF SameMessage, Untouched, Still, SameControl, Devices
<1> HIDE DEF joined
<1>5. Hears(stopped, joined, E)
  BY <1>3, <1>4, ContinuesReflexive DEF Hears, Carries
<1>6. Hears(d, joined, E)
  BY <1>2, <1>5, HearsTransitive
<1>7. Hears(d, d, E)
  BY PassesReflexive, PassesHears DEF SameControl
<1> QED
  BY <1>1, <1>2, <1>4, <1>6, <1>7

\* A received frame: within a session it moves the downlink counter if it is taken and
\* acknowledges if it says so; outside one it joins if it is a Join Accept.
LEMMA OnRadioRxDoneHears ==
    ASSUME NEW d \in Devices, NEW f \in Frames, NEW E
    PROVE  LET r == on_radio_rx_done(d, f)
           IN  /\ Hears(d, r.dev, E)
               /\ d.nwk_joined \/ f.kind # "accept"
                    => /\ r.dev.nwk_joined = d.nwk_joined
                       /\ r.dev.ul_frame_counter = d.ul_frame_counter
               /\ r.dev.dl_frame_counter =
                    IF ~JoinFrame(f) /\ Taken(d, f) THEN DownlinkCounter(d, f)
                                                    ELSE d.dl_frame_counter
               /\ r.pending \in BOOLEAN /\ (r.pending => Taken(d, f))
               /\ r.dev.ack_received => d.ack_received \/ (f.ack /\ r.dev.is_ack_recvd)
               /\ f.kind \in {"first", "data", "repeat"} /\ r.dev.ack_received
                    => r.dev.is_ack_recvd
<1> DEFINE heard == [d EXCEPT !.demod_ongoing = FALSE]
           closed == stop(heard, "rx2_closure")
           first == stop(heard, "rx1")
           ready == IF d.device_class = "C"
                    THEN IF d.continuous_rx2_window_open THEN heard
                         ELSE open_rx2_window(closed)
                    ELSE put_radio_to_sleep(first)
           r == on_radio_rx_done(d, f)
<1>1. /\ JoinFrame(f) /\ d.nwk_joined => r = [dev |-> ready, pending |-> FALSE]
      /\ JoinFrame(f) /\ ~d.nwk_joined
           => r = [dev |-> handle_join_accept_frame(ready, f), pending |-> FALSE]
      /\ ~JoinFrame(f) => r = handle_data_frame(ready, f)
  BY Zenon DEF on_radio_rx_done
<1> HIDE DEF r
<1> DEFINE Good(x) == Passes(d, x, E) /\ x \in Devices /\ SameControl(d, x)
<1>2. Good(heard)
  <2>1. heard \in Devices
    BY ZenonT(120) DEF Devices
  <2>2. Beside(d, heard) /\ SameControl(d, heard)
    BY <2>1 DEF Beside, SameControl, Devices
  <2> QED
    BY <2>1, <2>2, BesidePasses
<1> HIDE DEF heard
<1>3. ASSUME NEW t \in Timers
      PROVE  Good(stop(heard, t))
  <2>1. Passes(heard, stop(heard, t), E)
    BY <1>2, StopPasses
  <2>2. SameControl(heard, stop(heard, t))
    BY <1>2 DEF stop, SameControl, Devices
  <2> HIDE DEF ready
  <2> QED
    BY <1>2, <2>1, <2>2, PassesTransitive DEF SameControl, Passes, Works, Carries
<1>4. Good(closed) /\ Good(first)
  BY <1>3 DEF Timers
<1> HIDE DEF closed, first
<1>5. Good(open_rx2_window(closed))
  <2>1. Passes(closed, open_rx2_window(closed), E)
    BY <1>4, OpenWindowPasses
  <2>2. SameControl(closed, open_rx2_window(closed))
    BY <1>4 DEF open_rx2_window, stop, SameControl, Devices
  <2> QED
    BY <1>4, <2>1, <2>2, PassesTransitive DEF SameControl, Passes, Works, Carries
<1>6. Good(put_radio_to_sleep(first))
  <2>1. Passes(first, put_radio_to_sleep(first), E)
    BY <1>4, PutRadioToSleepPasses
  <2>2. SameControl(first, put_radio_to_sleep(first))
    BY <1>4 DEF put_radio_to_sleep, SameControl, Devices
  <2> QED
    BY <1>4, <2>1, <2>2, PassesTransitive DEF SameControl, Passes, Works, Carries
<1>7. Good(ready)
  BY <1>2, <1>5, <1>6
<1> HIDE DEF ready
<1>8. /\ Hears(d, ready, E) /\ ready \in Devices
      /\ ready.nwk_joined = d.nwk_joined
      /\ ready.ul_frame_counter = d.ul_frame_counter
      /\ ready.dl_frame_counter = d.dl_frame_counter
      /\ ready.ack_received => d.ack_received
  BY <1>7, PassesHears DEF Passes, Works, SameFrame
<1> HIDE DEF Good
<1>9. /\ Taken(ready, f) <=> Taken(d, f)
      /\ DownlinkCounter(ready, f) = DownlinkCounter(d, f)
  BY <1>8 DEF Taken, Discarded, DownlinkCounter
<1>10. CASE JoinFrame(f) /\ d.nwk_joined
  <2>1. r.dev = ready /\ r.pending = FALSE
    BY <1>1, <1>10
  <2> QED
    BY <1>8, <1>10, <2>1 DEF JoinFrame, r
<1>11. CASE JoinFrame(f) /\ ~d.nwk_joined
  <2> DEFINE answered == handle_join_accept_frame(ready, f)
  <2>1. r.dev = answered /\ r.pending = FALSE
    BY <1>1, <1>11
  <2>2. /\ Hears(ready, answered, E)
        /\ f.kind # "accept" => answered = ready
        /\ answered.dl_frame_counter = ready.dl_frame_counter
        /\ answered.ack_received = ready.ack_received
    BY <1>8, HandleJoinAcceptFrameHears
  <2> HIDE DEF answered
  <2>3. Hears(d, answered, E)
    BY <1>8, <2>2, HearsTransitive
  <2> QED
    BY <1>8, <1>11, <2>1, <2>2, <2>3 DEF JoinFrame, r
<1>12. CASE ~JoinFrame(f)
  <2> DEFINE answered == handle_data_frame(ready, f)
  <2>1. r = answered
    BY <1>1, <1>12
  <2>2. /\ Hears(ready, answered.dev, E)
        /\ answered.dev.nwk_joined = ready.nwk_joined
        /\ answered.dev.ul_frame_counter = ready.ul_frame_counter
        /\ answered.dev.dl_frame_counter = IF Taken(ready, f) THEN DownlinkCounter(ready, f)
                                           ELSE ready.dl_frame_counter
        /\ answered.pending \in BOOLEAN /\ (answered.pending => Taken(ready, f))
        /\ answered.dev.ack_received => \/ ready.ack_received /\ f.kind = "foreign"
                                        \/ f.ack /\ answered.dev.is_ack_recvd
    BY <1>8, HandleDataFrameHears
  <2> HIDE DEF answered
  <2>3. Hears(d, answered.dev, E)
    BY <1>8, <2>2, HearsTransitive
  <2> QED
    BY <1>8, <1>9, <1>12, <2>1, <2>2, <2>3 DEF r
<1> QED
  BY <1>10, <1>11, <1>12

\* Giving the buffer back.
LEMMA ReleaseRxPayloadFrees ==
    ASSUME NEW d \in Devices
    PROVE  LET e == release_rx_payload(d)
           IN  /\ e \in Devices /\ ~e.rx_payload_in_use
               /\ e.due = d.due /\ e.nwk_joined = d.nwk_joined
               /\ e.dl_frame_counter = d.dl_frame_counter
               /\ e.ul_frame_counter = d.ul_frame_counter
               /\ SameMessage(d, e) /\ e.req_type = d.req_type
               /\ e.ack_received = d.ack_received /\ e.tx_ongoing = d.tx_ongoing
               /\ Untouched(d, e)
<1>1. release_rx_payload(d) \in Devices
  BY ReleaseRxPayloadKeeps DEF Keeps
<1> QED
  BY <1>1 DEF release_rx_payload, SameMessage, Untouched, Still, Devices

\* The device that begins to work on a frame.
Receiving(d) ==
    clear_flags(set_state(d, "RECEIVING"), {"MSG_RECVD", "TX_DONE", "RETRY_EXHAUSTED"})

\* The stack turns to RECEIVING.
LEMMA ReceivingPasses ==
    ASSUME NEW d \in Devices, NEW E
    PROVE  /\ Passes(d, Receiving(d), E) /\ Receiving(d) \in Devices
           /\ Receiving(d).state = "RECEIVING" /\ Receiving(d).flags \cap TxFlags = {}
<1> DEFINE active == set_state(d, "RECEIVING")
           cleared == clear_flags(active, {"MSG_RECVD", "TX_DONE", "RETRY_EXHAUSTED"})
<1>1. Passes(d, active, E) /\ active \in Devices
  BY SetStatePasses DEF DeviceStates, Passes, Works, Carries
<1>2. active.state = "RECEIVING"
  BY DEF set_state, Devices
<1> HIDE DEF active
<1>3. Passes(active, cleared, E)
  BY <1>1, FlagsPass DEF CtrlFlags
<1>4. cleared.state = active.state /\ cleared.flags \cap TxFlags = {}
  BY <1>1 DEF clear_flags, TxFlags, Devices
<1> HIDE DEF cleared
<1>5. Passes(d, cleared, E) /\ cleared \in Devices
  BY <1>1, <1>3, PassesTransitive DEF Passes, Works, Carries
<1> QED
  BY <1>2, <1>4, <1>5 DEF Receiving, cleared, active

\* What the work on a frame may tell the application.
MayTell(d, f, E) ==
    /\ E \subseteq AppEvents
    /\ "TX_ERROR" \in E
    /\ (d.req_type = "CONFIRMED" /\ ~d.ack_received /\ ~f.ack) \/ "TX_DONE" \in E
    /\ "RX_DONE" \in E \/ ~Taken(d, f)

\* What it does to the device within a session.
Received(d, e, f, E) ==
    /\ e \in Devices /\ ~e.rx_payload_in_use
    /\ Continues(d.due, e.due, E)
    /\ e.nwk_joined
    /\ SameMessage(d, e) /\ e.req_type = d.req_type
    /\ Untouched(d, e)
    /\ e.tx_ongoing => d.tx_ongoing
    /\ \/ e.ul_frame_counter = d.ul_frame_counter /\ e.tx_ongoing = d.tx_ongoing
       \/ e.ul_frame_counter = d.ul_frame_counter + 1
    /\ e.dl_frame_counter = IF ~JoinFrame(f) /\ Taken(d, f) THEN DownlinkCounter(d, f)
                                                            ELSE d.dl_frame_counter
    /\ d.req_type = "CONFIRMED" /\ ~d.ack_received => ~e.ack_received

\* A frame is received in a session.
LEMMA ReceptionInSession ==
    ASSUME NEW d \in Devices, d.nwk_joined, NEW f \in Frames, NEW ch, NEW E, MayTell(d, f, E)
    PROVE  Received(d, process_reception(d, f, ch), f, E)
<1> DEFINE receiving == Receiving(d)
           heard == on_radio_rx_done(receiving, f)
           finished == finish_reception(heard.dev, f, heard.pending)
           released == release_rx_payload(finished)
<1>1. process_reception(d, f, ch) = released
  BY Zenon DEF process_reception, Receiving
<1>2. /\ Passes(d, receiving, E) /\ receiving \in Devices
      /\ receiving.state = "RECEIVING" /\ receiving.flags \cap TxFlags = {}
  BY ReceivingPasses
<1> HIDE DEF receiving
<1>3. /\ receiving.nwk_joined = d.nwk_joined /\ receiving.ul_frame_counter = d.ul_frame_counter
      /\ receiving.dl_frame_counter = d.dl_frame_counter
      /\ SameMessage(d, receiving) /\ receiving.req_type = d.req_type
      /\ receiving.ack_received => d.ack_received
      /\ receiving.tx_ongoing = d.tx_ongoing /\ Untouched(d, receiving)
  BY <1>2 DEF Passes, Works, SameFrame, SameMessage, Untouched
<1>4. /\ Taken(receiving, f) <=> Taken(d, f)
      /\ DownlinkCounter(receiving, f) = DownlinkCounter(d, f)
  BY <1>3 DEF Taken, Discarded, DownlinkCounter
<1>5. /\ Hears(receiving, heard.dev, E)
      /\ heard.dev.nwk_joined = receiving.nwk_joined
      /\ heard.dev.ul_frame_counter = receiving.ul_frame_counter
      /\ heard.dev.dl_frame_counter =
           IF ~JoinFrame(f) /\ Taken(receiving, f) THEN DownlinkCounter(receiving, f)
                                                   ELSE receiving.dl_frame_counter
      /\ heard.pending \in BOOLEAN /\ (heard.pending => Taken(receiving, f))
      /\ heard.dev.ack_received => receiving.ack_received \/ (f.ack /\ heard.dev.is_ack_recvd)
  BY <1>2, <1>3, OnRadioRxDoneHears
<1> HIDE DEF heard
<1>6. /\ heard.dev \in Devices
      /\ heard.dev.state = "RECEIVING" /\ heard.dev.flags \cap TxFlags = {}
      /\ heard.dev.req_type = d.req_type /\ heard.dev.tx_ongoing = d.tx_ongoing
  BY <1>2, <1>3, <1>5 DEF Hears, Carries, SameControl
<1>7. MayConfirm(heard.dev, E)
  BY <1>3, <1>5, <1>6 DEF MayTell, MayConfirm
<1>8. heard.pending /\ f.payload => "RX_DONE" \in E
  BY <1>4, <1>5 DEF MayTell
<1>9. /\ Concluded(heard.dev, finished, E)
      /\ heard.dev.req_type = "CONFIRMED" /\ (heard.dev.ack_received => heard.dev.is_ack_recvd)
           => ~finished.ack_received
  BY <1>5, <1>6, <1>7, <1>8, FinishReceptionConcludes
<1> HIDE DEF finished
<1>10. /\ Works(heard.dev, finished, E) /\ Untouched(heard.dev, finished)
       /\ \/ /\ finished.ul_frame_counter = heard.dev.ul_frame_counter
             /\ finished.tx_ongoing = heard.dev.tx_ongoing
          \/ finished.ul_frame_counter = heard.dev.ul_frame_counter + 1
  BY <1>9 DEF Concluded, Passes, Counted, SameFrame, Untouched
<1>11. finished \in Devices
  BY <1>10 DEF Works, Carries
<1>12. /\ released \in Devices /\ ~released.rx_payload_in_use
       /\ released.due = finished.due /\ released.nwk_joined = finished.nwk_joined
       /\ released.dl_frame_counter = finished.dl_frame_counter
       /\ released.ul_frame_counter = finished.ul_frame_counter
       /\ SameMessage(finished, released) /\ released.req_type = finished.req_type
       /\ released.ack_received = finished.ack_received
       /\ released.tx_ongoing = finished.tx_ongoing
       /\ Untouched(finished, released)
  BY <1>11, ReleaseRxPayloadFrees
<1> HIDE DEF released
<1>13. Carries(d, finished, E)
  <2>1. Carries(d, heard.dev, E)
    BY <1>2, <1>5, CarriesTransitive DEF Passes, Works, Hears
  <2> QED
    BY <1>10, <2>1, CarriesTransitive DEF Works
<1>14. Untouched(d, released)
  BY <1>3, <1>5, <1>10, <1>12 DEF Hears, Untouched, Still
<1>15. SameMessage(d, released) /\ released.req_type = d.req_type
  BY <1>3, <1>5, <1>10, <1>12 DEF Hears, SameMessage, Works
<1>16. released.dl_frame_counter = IF ~JoinFrame(f) /\ Taken(d, f) THEN DownlinkCounter(d, f)
                                                                   ELSE d.dl_frame_counter
  BY <1>3, <1>4, <1>5, <1>10, <1>12 DEF Works
<1>17. d.req_type = "CONFIRMED" /\ ~d.ack_received => ~released.ack_received
  BY <1>3, <1>5, <1>6, <1>9, <1>12
<1>18. released.tx_ongoing => d.tx_ongoing
  BY <1>6, <1>10, <1>12 DEF Works
<1>19. \/ released.ul_frame_counter = d.ul_frame_counter /\ released.tx_ongoing = d.tx_ongoing
       \/ released.ul_frame_counter = d.ul_frame_counter + 1
  BY <1>3, <1>5, <1>6, <1>10, <1>12
<1>20. released.nwk_joined /\ Continues(d.due, released.due, E)
  BY <1>3, <1>5, <1>10, <1>12, <1>13 DEF Works, Carries
<1>21. Received(d, released, f, E)
  BY <1>12, <1>14, <1>15, <1>16, <1>17, <1>18, <1>19, <1>20 DEF Received
<1> QED
  BY <1>1, <1>21

-----------------------------------------------------------------------------
(* Joining *)

\* What happens outside a session: nothing is sent but Join Requests.
Outside(d, e, E) ==
    /\ e \in Devices
    /\ Continues(d.due, e.due, E)
    /\ SameMessage(d, e) /\ e.req_type = d.req_type
    /\ e.tx_ongoing => d.tx_ongoing
    /\ e.tx_buffer.join \/ Untouched(d, e)

\* A retry while there is no session is one of a join request.
LEMMA RetriedOutside ==
    ASSUME NEW d, NEW e, NEW E, ~d.nwk_joined, Retried(d, e, E)
    PROVE  Outside(d, e, E)
BY DEF Retried, Works, Carries, Outside, SameMessage

\* A step outside a session before and after which the message is left alone.
LEMMA OutsideTransitive ==
    ASSUME NEW c \in Devices, NEW d, NEW e, NEW E, d \in Devices,
           Outside(c, d, E), Outside(d, e, E)
    PROVE  Outside(c, e, E)
<1>1. c.due \in Seq(Calls) /\ d.due \in Seq(Calls) /\ e.due \in Seq(Calls)
  BY DEF Outside, Devices
<1>2. Continues(c.due, e.due, E)
  BY <1>1, ContinuesTransitive DEF Outside
<1> QED
  BY <1>2 DEF Outside, SameMessage, Untouched, Still

\* A failed join is told.
LEMMA JoinFailedPasses ==
    ASSUME NEW d \in Devices, NEW E, E \subseteq AppEvents, "JOIN_FAILURE" \in E
    PROVE  Passes(d, join_failed(d), E)
<1> DEFINE given_up == clear_flags(d, {"CONN_IN_PROGRESS"})
           told == send_event_to_application(given_up, "JOIN_FAILURE")
<1>1. Passes(d, given_up, E) /\ given_up \in Devices
  BY FlagsPass DEF CtrlFlags, Passes, Works, Carries
<1> HIDE DEF given_up
<1>2. Passes(d, told, E) /\ told \in Devices
  BY <1>1, SendEventPasses, PassesTransitive DEF Passes, Works, Carries
<1> HIDE DEF told
<1>3. Passes(d, set_state(told, "IDLE"), E)
  BY <1>2, SetStatePasses, PassesTransitive DEF DeviceStates
<1> QED
  BY <1>3 DEF join_failed, told, given_up

\* Joining sends a Join Request, retries, or fails.
LEMMA ProcessJoiningStateRetries ==
    ASSUME NEW d \in Devices, ~d.nwk_joined, NEW ch, NEW E, E \subseteq AppEvents,
           "JOIN_FAILURE" \in E
    PROVE  Retried(d, process_joining_state(d, ch), E)
<1> DEFINE joining == set_state(d, "JOINING")
           retry == continue_joining_process(joining, ch).dev
           request == send_join_request(joining, ch).dev
<1>1. process_joining_state(d, ch) \in {request, retry, join_failed(retry), d}
  BY Zenon DEF process_joining_state
<1>2. Passes(d, joining, E) /\ joining \in Devices /\ ~joining.nwk_joined
  BY SetStatePasses DEF DeviceStates, Passes, Works, Carries
<1> HIDE DEF joining
<1>3. Retried(joining, request, E)
  BY <1>2, SendJoinRequestWorks DEF Retried
<1>4. Retried(joining, retry, E)
  BY <1>2, ContinueJoiningProcessRetries
<1> HIDE DEF request, retry
<1>5. Retried(d, request, E) /\ Retried(d, retry, E)
  BY <1>2, <1>3, <1>4, RetriedTransitive
<1>6. Retried(d, join_failed(retry), E)
  <2>1. retry \in Devices
    BY <1>4 DEF Retried, Works, Carries
  <2>2. Retried(retry, join_failed(retry), E)
    BY <2>1, JoinFailedPasses, PassesRetried
  <2> QED
    BY <1>5, <2>2, RetriedTransitive
<1>7. Retried(d, d, E)
  BY PassesReflexive, PassesRetried
<1> QED
  BY <1>1, <1>5, <1>6, <1>7

\* A connection that is up is told.
LEMMA ProcessConnectedStatePasses ==
    ASSUME NEW d \in Devices, NEW E, E \subseteq AppEvents, "CONNECTED" \in E
    PROVE  Passes(d, process_connected_state(d), E)
<1> DEFINE flags == (d.flags \cup {"CONNECTED"}) \ {"CONN_IN_PROGRESS"}
           up == [d EXCEPT !.flags = flags, !.session_active = TRUE]
           told == send_event_to_application(up, "CONNECTED")
<1>1. process_connected_state(d) = set_state(told, "IDLE")
  BY DEF process_connected_state
<1>2. flags \in SUBSET CtrlFlags
  BY DEF Devices, CtrlFlags
<1> HIDE DEF flags
<1>3. up \in Devices
  BY ZenonT(120), <1>2 DEF Devices
<1>4. Beside(d, up)
  BY <1>3 DEF Beside, Devices
<1> HIDE DEF up
<1>5. Passes(d, up, E)
  BY <1>4, BesidePasses
<1>6. Passes(d, told, E) /\ told \in Devices
  BY <1>3, <1>5, SendEventPasses, PassesTransitive DEF Passes, Works, Carries
<1> HIDE DEF told
<1>7. Passes(d, set_state(told, "IDLE"), E)
  BY <1>6, SetStatePasses, PassesTransitive DEF DeviceStates
<1> QED
  BY <1>1, <1>7

\* What a join may tell the application.
JoinEvents == {"CONNECTED", "JOIN_FAILURE"}

\* A frame heard outside a session joins, retries, or is of no consequence.
LEMMA ReceptionOutside ==
    ASSUME NEW d \in Devices, ~d.nwk_joined, NEW f \in Frames, NEW ch
    PROVE  LET e == process_reception(d, f, ch)
           IN  /\ Outside(d, e, JoinEvents) /\ ~e.rx_payload_in_use
               /\ e.nwk_joined => f.kind = "accept"
<1> DEFINE E == JoinEvents
           receiving == Receiving(d)
           heard == on_radio_rx_done(receiving, f)
           connected == process_connected_state(heard.dev)
           waiting == set_state(heard.dev, "AWAITING_JOIN_ACCEPT")
           retried == process_joining_state(waiting, ch)
           e == process_reception(d, f, ch)
<1>1. /\ f.kind = "accept" => e = release_rx_payload(connected)
      /\ f.kind # "accept" => e \in {release_rx_payload(retried), release_rx_payload(heard.dev)}
  <2>1. CASE JoinFrame(f)
    BY Zenon, <2>1 DEF process_reception, mlme_confirm_handler, Receiving
  <2>2. CASE ~JoinFrame(f)
    <3>1. e = release_rx_payload(heard.dev)
      BY Zenon, <2>2 DEF process_reception, Receiving
    <3>2. f.kind # "accept"
      BY <2>2 DEF JoinFrame
    <3> QED
      BY <3>1, <3>2
  <2> QED
    BY <2>1, <2>2
<1> HIDE DEF e
<1>2. Passes(d, receiving, E) /\ receiving \in Devices
  BY ReceivingPasses
<1> HIDE DEF receiving
<1>3. /\ Hears(receiving, heard.dev, E)
      /\ f.kind # "accept" => heard.dev.nwk_joined = receiving.nwk_joined
  BY <1>2, OnRadioRxDoneHears
<1> HIDE DEF heard
<1>4. /\ Outside(d, heard.dev, E) /\ heard.dev \in Devices
      /\ f.kind # "accept" => ~heard.dev.nwk_joined
  <2>1. Outside(d, receiving, E)
    BY <1>2, PassesRetried, RetriedOutside
  <2>2. Outside(receiving, heard.dev, E)
    BY <1>3 DEF Hears, Outside, Carries
  <2>3. Outside(d, heard.dev, E)
    BY <1>2, <2>1, <2>2, OutsideTransitive
  <2> QED
    BY <1>2, <1>3, <2>3 DEF Outside, Passes, Works
<1>a. E \subseteq AppEvents /\ "CONNECTED" \in E /\ "JOIN_FAILURE" \in E
  BY DEF JoinEvents, AppEvents
<1> HIDE DEF E
<1>5. Outside(d, connected, E)
  <2>1. Passes(heard.dev, connected, E)
    BY <1>4, <1>a, ProcessConnectedStatePasses
  <2>2. Outside(heard.dev, connected, E)
    BY <2>1 DEF Passes, Works, Carries, SameFrame, Outside, SameMessage, Untouched
  <2> QED
    BY <1>4, <2>2, OutsideTransitive
<1>6. f.kind # "accept" => Outside(d, retried, E) /\ ~retried.nwk_joined
  <2> SUFFICES ASSUME f.kind # "accept" PROVE Outside(d, retried, E) /\ ~retried.nwk_joined
    OBVIOUS
  <2>1. Passes(heard.dev, waiting, E) /\ waiting \in Devices /\ ~waiting.nwk_joined
    BY <1>4, SetStatePasses DEF DeviceStates, Passes, Works, Carries
  <2> HIDE DEF waiting
  <2>2. Retried(waiting, retried, E)
    BY <1>a, <2>1, ProcessJoiningStateRetries
  <2>3. Retried(heard.dev, retried, E)
    BY <1>4, <2>1, <2>2, RetriedTransitive
  <2>4. Outside(heard.dev, retried, E)
    BY <1>4, <2>3, RetriedOutside
  <2>5. Outside(d, retried, E)
    BY <1>4, <2>4, OutsideTransitive
  <2> QED
    BY <1>4, <2>3, <2>5 DEF Retried, Works
<1> HIDE DEF connected, retried, waiting
<1>7. ASSUME NEW x, Outside(d, x, E)
      PROVE  /\ Outside(d, release_rx_payload(x), E)
             /\ ~release_rx_payload(x).rx_payload_in_use
             /\ release_rx_payload(x).nwk_joined = x.nwk_joined
  <2> DEFINE y == release_rx_payload(x)
  <2>1. /\ y \in Devices /\ ~y.rx_payload_in_use
        /\ y.due = x.due /\ y.nwk_joined = x.nwk_joined
        /\ SameMessage(x, y) /\ y.req_type = x.req_type
        /\ y.tx_ongoing = x.tx_ongoing
        /\ Untouched(x, y)
    BY <1>7, ReleaseRxPayloadFrees DEF Outside
  <2> HIDE DEF y
  <2>2. Outside(d, y, E)
    BY <1>7, <2>1 DEF Outside, SameMessage, Untouched, Still
  <2> QED
    BY <2>1, <2>2 DEF y
<1>8. CASE f.kind = "accept"
  BY <1>1, <1>5, <1>7, <1>8 DEF e, E
<1>9. CASE f.kind # "accept"
  BY <1>1, <1>4, <1>6, <1>7, <1>9 DEF e, E
<1> QED
  BY <1>8, <1>9


\* connect() starts a join, or is connected at once.
LEMMA ConnectOutside ==
    ASSUME NEW d \in Devices, ~d.nwk_joined, NEW otaa \in BOOLEAN, NEW ch
    PROVE  LET e == connect(d, otaa, ch)
           IN  /\ Outside(d, e, JoinEvents) /\ e.rx_payload_in_use = d.rx_payload_in_use
               /\ otaa => ~e.nwk_joined
<1> DEFINE E == JoinEvents
<1>a. E \subseteq AppEvents /\ "CONNECTED" \in E /\ "JOIN_FAILURE" \in E
  BY DEF JoinEvents, AppEvents
<1>b. d.due \in Seq(Calls)
  BY DEF Devices
<1> HIDE DEF E
<1>1. CASE otaa
  <2> DEFINE reset == prepare_join(d)
             begun == set_flags(reset, {"CONN_IN_PROGRESS", "USING_OTAA"})
             connecting == set_state(begun, "CONNECTING")
             joining == process_joining_state(connecting, ch)
  <2>1. reset \in Devices /\ ~reset.nwk_joined
    BY PrepareJoinLeaves
  <2>2. /\ reset.due = d.due /\ SameMessage(d, reset) /\ reset.req_type = d.req_type
        /\ reset.tx_ongoing = d.tx_ongoing /\ Untouched(d, reset)
        /\ reset.rx_payload_in_use = d.rx_payload_in_use
    <3> DEFINE params == reset_mac_parameters(d)
    <3>1. params \in Devices
      BY ZenonT(120) DEF reset_mac_parameters, Devices
    <3>2. /\ params.due = d.due /\ SameMessage(d, params) /\ params.req_type = d.req_type
          /\ params.tx_ongoing = d.tx_ongoing /\ Untouched(d, params)
          /\ params.rx_payload_in_use = d.rx_payload_in_use
      BY DEF reset_mac_parameters, SameMessage, Untouched, Still, Devices
    <3>3. reset = [params EXCEPT !.join_request_trial_counter = 0]
      BY DEF prepare_join
    <3> HIDE DEF params, reset
    <3>4. /\ reset.due = params.due /\ SameMessage(params, reset)
          /\ reset.req_type = params.req_type
          /\ reset.tx_ongoing = params.tx_ongoing /\ Untouched(params, reset)
          /\ reset.rx_payload_in_use = params.rx_payload_in_use
      BY <3>1, <3>3 DEF SameMessage, Untouched, Still, Devices
    <3> QED
      BY <3>2, <3>4 DEF SameMessage, Untouched, Still
  <2>3. Outside(d, reset, E)
    BY <1>b, <2>1, <2>2, ContinuesReflexive DEF Outside
  <2> HIDE DEF reset
  <2>4. Passes(reset, begun, E) /\ begun \in Devices /\ "USING_OTAA" \in begun.flags
    <3>1. "USING_OTAA" \in begun.flags
      BY <2>1 DEF set_flags, Devices
    <3> QED
      BY <2>1, <3>1, FlagsPass DEF CtrlFlags, Passes, Works, Carries
  <2>5. process_connecting_state(begun, ch) = joining
    BY <2>4 DEF process_connecting_state
  <2>6. connect(d, otaa, ch) = process_connecting_state(begun, ch)
    BY <1>1 DEF connect, reset
  <2> HIDE DEF begun
  <2>7. Passes(begun, connecting, E)
    BY <2>4, SetStatePasses DEF DeviceStates
  <2>8. Passes(reset, connecting, E) /\ connecting \in Devices /\ ~connecting.nwk_joined
    BY <2>1, <2>4, <2>7, PassesTransitive DEF Passes, Works, Carries
  <2> HIDE DEF connecting
  <2>9. Retried(connecting, joining, E)
    BY <1>a, <2>8, ProcessJoiningStateRetries
  <2> HIDE DEF joining
  <2>10. Retried(reset, joining, E)
    BY <2>1, <2>8, <2>9, RetriedTransitive
  <2>11. Outside(d, joining, E)
    BY <2>1, <2>3, <2>10, RetriedOutside, OutsideTransitive
  <2> QED
    BY <2>1, <2>2, <2>5, <2>6, <2>10, <2>11 DEF Retried, Works, Carries, E
<1>2. CASE ~otaa
  <2> DEFINE on == set_flags(d, {"CONN_IN_PROGRESS"})
             begun == clear_flags(on, {"USING_OTAA"})
             connecting == set_state(begun, "CONNECTING")
             joined == [connecting EXCEPT !.nwk_joined = TRUE]
             connected == process_connected_state(joined)
  <2>1. Passes(d, on, E) /\ on \in Devices
    BY FlagsPass DEF CtrlFlags, Passes, Works, Carries
  <2> HIDE DEF on
  <2>2. Passes(on, begun, E) /\ begun \in Devices /\ "USING_OTAA" \notin begun.flags
    <3>1. "USING_OTAA" \notin begun.flags
      BY <2>1 DEF clear_flags, Devices
    <3> QED
      BY <2>1, <3>1, FlagsPass DEF CtrlFlags, Passes, Works, Carries
  <2>3. connect(d, otaa, ch) = connected
    <3>1. connect(d, otaa, ch) = process_connecting_state(begun, ch)
      BY <1>2 DEF connect, on
    <3> QED
      BY <2>2, <3>1 DEF process_connecting_state
  <2> HIDE DEF begun
  <2>4. Passes(begun, connecting, E) /\ connecting \in Devices
    BY <2>2, SetStatePasses DEF DeviceStates, Passes, Works, Carries
  <2>5. Passes(d, connecting, E)
    BY <2>1, <2>2, <2>4, PassesTransitive
  <2> HIDE DEF connecting
  <2>6. joined \in Devices
    BY ZenonT(120), <2>4 DEF Devices
  <2>7. /\ joined.due = connecting.due /\ SameMessage(connecting, joined)
        /\ joined.req_type = connecting.req_type
        /\ joined.tx_ongoing = connecting.tx_ongoing /\ Untouched(connecting, joined)
        /\ joined.rx_payload_in_use = connecting.rx_payload_in_use
        /\ connecting.due \in Seq(Calls)
    BY <2>4 DEF SameMessage, Untouched, Still, Devices
  <2> HIDE DEF joined
  <2>8. Passes(joined, connected, E)
    BY <1>a, <2>6, ProcessConnectedStatePasses
  <2> HIDE DEF connected
  <2>9. Outside(d, connecting, E)
    BY <2>5 DEF Passes, Works, Carries, SameFrame, Outside, SameMessage, Untouched
  <2>10. Outside(connecting, joined, E)
    BY <2>6, <2>7, ContinuesReflexive DEF Outside
  <2>11. Outside(joined, connected, E)
    BY <2>8 DEF Passes, Works, Carries, SameFrame, Outside, SameMessage, Untouched
  <2>12. Outside(d, connected, E)
    BY <2>4, <2>6, <2>9, <2>10, <2>11, OutsideTransitive
  <2>13. connected.rx_payload_in_use = d.rx_payload_in_use
    BY <2>5, <2>7, <2>8 DEF Passes, Works, Carries
  <2> QED
    BY <1>2, <2>3, <2>12, <2>13 DEF E
<1> QED
  BY <1>1, <1>2

-----------------------------------------------------------------------------
(* The rest of the application's calls, and the deferred interrupts *)

\* The session ends; what is being sent and its frame stay.
LEMMA ProcessShutdownStateParts ==
    ASSUME NEW d \in Devices, NEW E, E \subseteq AppEvents, "DISCONNECTED" \in E
    PROVE  LET e == process_shutdown_state(d)
           IN  /\ Carries(d, e, E) /\ ~e.nwk_joined
               /\ e.dl_frame_counter = d.dl_frame_counter
               /\ SameMessage(d, e) /\ e.tx_ongoing = d.tx_ongoing
               /\ e.req_type = "UNCONFIRMED" /\ ~e.ack_received
<1> DEFINE stopped == stop(stop(stop(stop(d, "backoff"), "rx1"), "rx2"), "ack")
           asleep == put_radio_to_sleep(stopped)
           left == [asleep EXCEPT
                      !.nwk_joined = FALSE, !.is_node_ack_requested = FALSE,
                      !.is_srv_ack_requested = FALSE, !.req_type = "UNCONFIRMED",
                      !.conf_status = "ERROR", !.ack_received = FALSE, !.is_ack_recvd = FALSE]
           down == [left EXCEPT !.session_active = FALSE, !.state = "SHUTDOWN", !.flags = {}]
           told == send_event_to_application(down, "DISCONNECTED")
<1>1. process_shutdown_state(d) = told
  BY DEF process_shutdown_state, disconnect
<1>a. left \in Devices
  <2>1. left = disconnect(d)
    BY DEF disconnect
  <2> HIDE DEF left
  <2> QED
    BY <2>1, DisconnectLeaves
<1>2. Passes(d, stopped, E) /\ stopped \in Devices
  BY StopsPass DEF Timers
<1> HIDE DEF stopped
<1>3. Passes(d, asleep, E) /\ asleep \in Devices
  BY <1>2, PutRadioToSleepPasses, PassesTransitive DEF Passes, Works, Carries
<1> HIDE DEF asleep
<1>4. left \in Devices
  BY <1>a
<1>5. /\ left.due = asleep.due /\ left.rx_payload_in_use = asleep.rx_payload_in_use
      /\ left.nwk_joined = FALSE /\ left.dl_frame_counter = asleep.dl_frame_counter
      /\ SameMessage(asleep, left) /\ left.tx_ongoing = asleep.tx_ongoing
      /\ left.req_type = "UNCONFIRMED" /\ left.ack_received = FALSE
      /\ asleep.due \in Seq(Calls)
  BY <1>3 DEF SameMessage, Devices
<1> HIDE DEF left
<1>6. down \in Devices
  BY ZenonT(120), <1>4 DEF Devices, DeviceStates
<1>7. Beside(left, down)
  BY <1>4, <1>6 DEF Beside, Devices
<1> HIDE DEF down
<1>8. Passes(left, told, E)
  <2>1. Passes(left, down, E)
    BY <1>4, <1>7, BesidePasses
  <2>2. Passes(down, told, E)
    BY <1>6, SendEventPasses
  <2> QED
    BY <1>4, <2>1, <2>2, PassesTransitive
<1> HIDE DEF told
<1>9. Carries(asleep, left, E)
  BY <1>4, <1>5, ContinuesReflexive DEF Carries
<1>10. Carries(d, told, E)
  <2>1. Carries(d, left, E)
    BY <1>3, <1>9, CarriesTransitive DEF Passes, Works
  <2> QED
    BY <1>8, <2>1, CarriesTransitive DEF Passes, Works
<1> QED
  BY <1>1, <1>3, <1>5, <1>8, <1>10 DEF Passes, Works, SameFrame, SameMessage

\* The class of the device is set.
LEMMA SetDeviceClassPasses ==
    ASSUME NEW d \in Devices, NEW class \in {"A", "C"}, NEW E
    PROVE  Passes(d, set_device_class(d, class), E)
<1> DEFINE closed == init(d, "rx2_closure")
           slept == [closed EXCEPT !.device_class = class, !.radio = "sleep"]
           silent == [slept EXCEPT !.is_node_ack_requested = FALSE]
<1>1. set_device_class(d, class) \in {slept, open_rx2_window(silent)}
  BY Zenon DEF set_device_class
<1>2. Passes(d, closed, E) /\ closed \in Devices
  BY InitPasses DEF Timers, Passes, Works, Carries
<1> HIDE DEF closed
<1>3. slept \in Devices
  BY ZenonT(120), <1>2 DEF Devices, RadioModes
<1>4. Beside(closed, slept)
  BY <1>2, <1>3 DEF Beside, Devices
<1> HIDE DEF slept
<1>5. Passes(d, slept, E)
  BY <1>2, <1>4, BesidePasses, PassesTransitive
<1>6. silent \in Devices
  BY ZenonT(120), <1>3 DEF Devices
<1>7. Beside(slept, silent)
  BY <1>3, <1>6 DEF Beside, Devices
<1> HIDE DEF silent
<1>8. Passes(d, silent, E)
  BY <1>3, <1>5, <1>7, BesidePasses, PassesTransitive
<1>9. Passes(d, open_rx2_window(silent), E)
  BY <1>6, <1>8, OpenWindowPasses, PassesTransitive
<1> QED
  BY <1>1, <1>5, <1>9

\* Cancelling gives the slot up.
LEMMA StopSendingCarries ==
    ASSUME NEW d \in Devices, NEW E
    PROVE  LET e == stop_sending(d)
           IN  /\ Carries(d, e, E) /\ SameNumbers(d, e) /\ SameMessage(d, e)
               /\ e.req_type = d.req_type /\ (e.ack_received => d.ack_received)
               /\ e.tx_ongoing => d.tx_ongoing
<1> DEFINE Good(x) == /\ Carries(d, x, E) /\ SameNumbers(d, x) /\ SameMessage(d, x)
                      /\ x.req_type = d.req_type /\ (x.ack_received => d.ack_received)
                      /\ x.tx_ongoing => d.tx_ongoing
           stopped == stop(stop(d, "backoff"), "ack")
           emptied == [stopped EXCEPT !.tx_buffer = NoTxBuffer]
           dropped == reset_ongoing_tx(emptied)
           cleared == clear_tx_pipe(d).dev
           done == clear_flags(cleared, {"TX_DONE"})
           ended == set_tx_ongoing(done, FALSE)
           e == stop_sending(d)
<1>a. ASSUME NEW x, NEW y, Good(x), Passes(x, y, E)
      PROVE  Good(y) /\ y \in Devices
  <2>1. Carries(d, y, E)
    BY <1>a, CarriesTransitive DEF Passes, Works
  <2> QED
    BY <1>a, <2>1 DEF Passes, Works, Carries, SameFrame, SameNumbers, SameMessage
<1>1. e \in {d, set_state(ended, "IDLE")}
  BY Zenon DEF stop_sending
<1>2. cleared \in {d, dropped}
  BY Zenon DEF clear_tx_pipe, drop_ongoing_tx
<1>3. Passes(d, stopped, E) /\ stopped \in Devices
  <2> DEFINE one == stop(d, "backoff")
  <2>1. Passes(d, one, E) /\ one \in Devices
    BY StopPasses DEF Timers, Passes, Works, Carries
  <2> HIDE DEF one
  <2>2. Passes(one, stop(one, "ack"), E)
    BY <2>1, StopPasses DEF Timers
  <2>3. Passes(d, stop(one, "ack"), E)
    BY <2>1, <2>2, PassesTransitive
  <2> QED
    BY <2>3 DEF one, Passes, Works, Carries
<1> HIDE DEF stopped
<1>4. emptied \in Devices
  BY ZenonT(120), <1>3 DEF Devices, NoTxBuffer, TxBuffers
<1>5. dropped \in Devices
  BY ZenonT(120), <1>4 DEF reset_ongoing_tx, Devices
<1>6. /\ dropped.due = stopped.due /\ dropped.rx_payload_in_use = stopped.rx_payload_in_use
      /\ SameNumbers(stopped, dropped) /\ SameMessage(stopped, dropped)
      /\ dropped.req_type = stopped.req_type /\ dropped.ack_received = stopped.ack_received
      /\ dropped.tx_ongoing = FALSE /\ stopped.due \in Seq(Calls)
  BY <1>3 DEF reset_ongoing_tx, SameNumbers, SameMessage, Devices
<1> HIDE DEF dropped
<1>7. Good(dropped)
  <2>1. Carries(stopped, dropped, E)
    BY <1>5, <1>6, ContinuesReflexive DEF Carries
  <2>2. Carries(d, dropped, E)
    BY <1>3, <2>1, CarriesTransitive DEF Passes, Works
  <2> QED
    BY <1>3, <1>6, <2>2 DEF Passes, Works, SameFrame, SameNumbers, SameMessage
<1>8. Good(d) /\ d \in Devices
  BY PassesReflexive DEF Passes, Works, SameNumbers, SameMessage
<1>9. Good(cleared) /\ cleared \in Devices
  BY <1>2, <1>5, <1>7, <1>8
<1> HIDE DEF cleared
<1>10. Good(done) /\ done \in Devices
  <2>1. Passes(cleared, done, E)
    BY <1>9, FlagsPass DEF CtrlFlags
  <2> HIDE DEF Good, done
  <2> QED
    BY <1>9, <1>a, <2>1
<1> HIDE DEF done
<1>11. Good(ended) /\ ended \in Devices
  <2>1. /\ Carries(done, ended, E) /\ SameNumbers(done, ended) /\ SameMessage(done, ended)
        /\ ended.req_type = done.req_type /\ ended.ack_received = done.ack_received
        /\ ended.tx_ongoing = FALSE
    BY <1>10, SetTxOngoingCarries
  <2> HIDE DEF ended
  <2>2. Carries(d, ended, E)
    BY <1>10, <2>1, CarriesTransitive
  <2> QED
    BY <1>10, <2>1, <2>2 DEF Carries, SameNumbers, SameMessage
<1> HIDE DEF ended
<1>12. Good(set_state(ended, "IDLE"))
  <2>1. Passes(ended, set_state(ended, "IDLE"), E)
    BY <1>11, SetStatePasses DEF DeviceStates
  <2> HIDE DEF Good
  <2> QED
    BY <1>11, <1>a, <2>1
<1>13. Good(e)
  BY <1>1, <1>8, <1>12
<1> QED
  BY <1>13

\* A transmission over, the windows open.
LEMMA ProcessTransmissionWorks ==
    ASSUME NEW d \in Devices, NEW E
    PROVE  Works(d, process_transmission(d), E) /\ SameFrame(d, process_transmission(d))
<1> DEFINE next == CASE d.state = "JOINING" -> set_state(d, "AWAITING_JOIN_ACCEPT")
                     [] d.state = "SENDING" /\ d.req_type = "CONFIRMED" ->
                          set_state(d, "AWAITING_ACK")
                     [] OTHER -> d
<1>1. process_transmission(d) = on_radio_tx_done(next)
  BY DEF process_transmission
<1>2. next \in {d, set_state(d, "AWAITING_JOIN_ACCEPT"), set_state(d, "AWAITING_ACK")}
  BY Zenon
<1>3. Passes(d, next, E) /\ next \in Devices
  BY <1>2, SetStatePasses, PassesReflexive DEF DeviceStates, Passes, Works, Carries
<1> HIDE DEF next
<1>4. Works(next, on_radio_tx_done(next), E) /\ SameFrame(next, on_radio_tx_done(next))
  BY <1>3, OnRadioTxDoneWorks
<1> QED
  BY <1>1, <1>3, <1>4, WorksTransitive DEF Passes, SameFrame

\* A transmission that times out ends, and is reported as that.
LEMMA ProcessTransmissionTimeoutEnds ==
    ASSUME NEW d \in Devices, NEW E, E \subseteq AppEvents, "TX_TIMEOUT" \in E
    PROVE  Ended(d, process_transmission_timeout(d), E)
<1> DEFINE failed == on_radio_tx_timeout(d)
           silent == clear_flags(failed, {"TX_DONE"})
           idle == set_state(silent, "IDLE")
           told == send_event_to_application(idle, "TX_TIMEOUT")
           checked == STATUS_CHECK(silent)
<1>1. process_transmission_timeout(d) \in
        {state_machine_run_to_completion(told), state_machine_run_to_completion(checked)}
  BY Zenon DEF process_transmission_timeout
<1>2. Passes(d, failed, E) /\ failed \in Devices /\ failed.conf_status = "TX_TIMEOUT"
  BY OnRadioTxTimeoutPasses DEF Passes, Works, Carries
<1> HIDE DEF failed
<1>3. Passes(d, silent, E) /\ silent \in Devices /\ ReportOf(silent) = "TX_TIMEOUT"
  <2>1. silent.conf_status = "TX_TIMEOUT"
    BY <1>2 DEF clear_flags, Devices
  <2>2. Passes(failed, silent, E)
    BY <1>2, FlagsPass DEF CtrlFlags
  <2> HIDE DEF silent
  <2> QED
    BY <1>2, <2>1, <2>2, PassesTransitive DEF Passes, Works, Carries, ReportOf
<1> HIDE DEF silent
<1>4. Passes(d, idle, E) /\ idle \in Devices
  <2>1. Passes(silent, idle, E)
    BY <1>3, SetStatePasses DEF DeviceStates
  <2> HIDE DEF idle
  <2> QED
    BY <1>3, <2>1, PassesTransitive DEF Passes, Works, Carries
<1> HIDE DEF idle
<1>5. Ended(d, told, E) /\ told \in Devices
  <2>1. Passes(idle, told, E)
    BY <1>4, SendEventPasses
  <2> HIDE DEF told
  <2>2. Passes(d, told, E)
    BY <1>4, <2>1, PassesTransitive
  <2> QED
    BY <2>2, PassesEnded DEF Passes, Works, Carries
<1>6. Ended(d, checked, E) /\ checked \in Devices
  <2>1. Ended(silent, checked, E)
    BY <1>3, StatusCheckEnds
  <2> HIDE DEF checked
  <2> QED
    BY <1>3, <2>1, PassesEnded, EndedTransitive DEF Ended, Works, Carries
<1> HIDE DEF told, checked
<1>7. ASSUME NEW x \in Devices, Ended(d, x, E)
      PROVE  Ended(d, state_machine_run_to_completion(x), E)
  BY <1>7, RunToCompletionPasses, PassesEnded, EndedTransitive
<1> QED
  BY <1>1, <1>5, <1>6, <1>7

\* A message that could not be scheduled is given up.
LEMMA HandleSchedulingFailureEnds ==
    ASSUME NEW d \in Devices, NEW E, E \subseteq AppEvents, ReportOf(d) \in E
    PROVE  Ended(d, handle_scheduling_failure(d), E)
<1> DEFINE checked == STATUS_CHECK(d)
<1>1. Ended(d, checked, E) /\ checked \in Devices
  BY StatusCheckEnds DEF Ended, Works, Carries
<1> HIDE DEF checked
<1>2. Ended(d, state_machine_run_to_completion(checked), E)
  BY <1>1, RunToCompletionPasses, PassesEnded, EndedTransitive
<1> QED
  BY <1>2 DEF handle_scheduling_failure, checked

\* An empty window ends what it was opened for, or does not.
LEMMA ReceptionTimeoutConcludes ==
    ASSUME NEW d \in Devices, NEW ch, NEW E, MayConfirm(d, E)
    PROVE  /\ d.nwk_joined => Concluded(d, process_reception_timeout(d, ch), E)
           /\ ~d.nwk_joined => Retried(d, process_reception_timeout(d, ch), JoinEvents)
<1> DEFINE quiet == on_radio_rx_timeout(d)
           e == process_reception_timeout(d, ch)
<1>1. \/ e = quiet
      \/ ~d.nwk_joined /\ e = process_joining_state(quiet, ch)
      \/ d.nwk_joined /\ e = post_process_tx_no_reception(quiet)
  BY Zenon DEF process_reception_timeout
<1> HIDE DEF e
<1>2. Passes(d, quiet, E) /\ Passes(d, quiet, JoinEvents)
  BY OnRadioRxTimeoutPasses
<1> HIDE DEF quiet
<1>3. /\ quiet \in Devices /\ quiet.nwk_joined = d.nwk_joined
      /\ quiet.req_type = d.req_type /\ (quiet.ack_received => d.ack_received)
  BY <1>2 DEF Passes, Works, Carries
<1>4. CASE e = quiet
  BY <1>2, <1>4, PassesRetried DEF Concluded, e
<1>5. CASE ~d.nwk_joined /\ e = process_joining_state(quiet, ch)
  <2>1. Retried(quiet, e, JoinEvents)
    BY <1>3, <1>5, ProcessJoiningStateRetries DEF JoinEvents, AppEvents
  <2> QED
    BY <1>2, <1>5, <2>1, RetriedTransitive DEF e
<1>6. CASE d.nwk_joined /\ e = post_process_tx_no_reception(quiet)
  <2>1. MayConfirm(quiet, E)
    BY <1>3 DEF MayConfirm
  <2>2. Concluded(quiet, e, E)
    BY <1>3, <1>6, <2>1, PostProcessTxNoReceptionConcludes
  <2> QED
    BY <1>2, <1>6, <2>2, PassesConcluded DEF e
<1> QED
  BY <1>1, <1>4, <1>5, <1>6

-----------------------------------------------------------------------------
(* Calls that wait *)

\* q is p, timers cancelled, and behind it calls of C.
Extends(p, q, C) ==
    /\ Len(p) <= Len(q)
    /\ \A i \in 1 .. Len(p) : CarriedOver(p[i], q[i])
    /\ \A i \in 1 .. Len(q) : i > Len(p) => q[i] \in C

\* The receptions that wait to be processed.
Waiting(due) == {i \in 1 .. Len(due) : due[i].fn = "process_reception"}

SameWaiting(p, q) ==
    /\ Waiting(q) = Waiting(p)
    /\ \A i \in Waiting(p) : q[i] = p[i]

\* The events of S on their way to the application.
EventsIn(due, S) == {i \in 1 .. Len(due) : due[i].fn = "event" /\ due[i].event \in S}

\* What is neither a reception nor a timer's call stays where it is.
LEMMA ExtendsKeeps ==
    ASSUME NEW p \in Seq(Calls), NEW q \in Seq(Calls), NEW C, Extends(p, q, C),
           NEW i \in 1 .. Len(q)
    PROVE  \/ i \in 1 .. Len(p) /\ q[i] = p[i]
           \/ i \in 1 .. Len(p) /\ p[i].fn = "timer" /\ q[i].fn \in {"timer", "cancelled"}
           \/ i > Len(p) /\ q[i] \in C
<1>1. Len(p) \in Nat /\ Len(q) \in Nat
  OBVIOUS
<1>2. CASE i > Len(p)
  BY <1>2 DEF Extends
<1>3. CASE i \in 1 .. Len(p)
  BY <1>3 DEF Extends, CarriedOver
<1> QED
  BY <1>1, <1>2, <1>3

\* The receptions that wait go on waiting, unless one is added.
LEMMA ExtendsWaiting ==
    ASSUME NEW p \in Seq(Calls), NEW q \in Seq(Calls), NEW C, Extends(p, q, C),
           \A c \in C : c.fn # "process_reception"
    PROVE  SameWaiting(p, q)
<1>1. 1 .. Len(p) \subseteq 1 .. Len(q)
  BY DEF Extends
<1>2. ASSUME NEW i \in 1 .. Len(q)
      PROVE  /\ i \in Waiting(q) <=> i \in Waiting(p)
             /\ i \in Waiting(p) => q[i] = p[i]
  BY ExtendsKeeps DEF Waiting
<1>3. Waiting(p) \subseteq 1 .. Len(q) /\ Waiting(q) \subseteq 1 .. Len(q)
  BY <1>1 DEF Waiting
<1> QED
  BY <1>2, <1>3 DEF SameWaiting

\* The events on their way stay, and none of S is added unless C has one.
LEMMA ExtendsEvents ==
    ASSUME NEW p \in Seq(Calls), NEW q \in Seq(Calls), NEW C, Extends(p, q, C), NEW S,
           \A c \in C : c.fn = "event" => c.event \notin S
    PROVE  EventsIn(q, S) = EventsIn(p, S)
<1>1. 1 .. Len(p) \subseteq 1 .. Len(q)
  BY DEF Extends
<1>2. ASSUME NEW i \in 1 .. Len(q)
      PROVE  i \in EventsIn(q, S) <=> i \in EventsIn(p, S)
  BY ExtendsKeeps DEF EventsIn
<1>3. EventsIn(p, S) \subseteq 1 .. Len(q) /\ EventsIn(q, S) \subseteq 1 .. Len(q)
  BY <1>1 DEF EventsIn
<1> QED
  BY <1>2, <1>3

\* What handlers post is no reception, and of the events E only.
LEMMA ContinuesExtends ==
    ASSUME NEW p, NEW q, NEW E, Continues(p, q, E)
    PROVE  /\ Extends(p, q, Posts(E))
           /\ \A c \in Posts(E) : /\ c.fn # "process_reception"
                                  /\ c.fn = "event" => c.event \in E
BY DEF Continues, Extends, Posts

\* A call added at the end.
LEMMA AppendExtends ==
    ASSUME NEW p \in Seq(Calls), NEW c \in Calls
    PROVE  Extends(p, Append(p, c), {c})
<1>1. Len(Append(p, c)) = Len(p) + 1 /\ Len(p) \in Nat
  OBVIOUS
<1>2. \A i \in 1 .. Len(p) : Append(p, c)[i] = p[i]
  OBVIOUS
<1>3. \A i \in 1 .. Len(p) + 1 : i > Len(p) => Append(p, c)[i] = c
  OBVIOUS
<1> QED
  BY <1>1, <1>2, <1>3 DEF Extends, CarriedOver

\* A queue extends itself.
LEMMA ExtendsReflexive ==
    ASSUME NEW p \in Seq(Calls), NEW C
    PROVE  Extends(p, p, C)
BY DEF Extends, CarriedOver

\* The events of a queue can be counted.
LEMMA EventsFinite ==
    ASSUME NEW p \in Seq(Calls), NEW S
    PROVE  IsFiniteSet(EventsIn(p, S)) /\ Cardinality(EventsIn(p, S)) \in Nat
<1>1. Len(p) \in Int /\ 1 \in Int
  OBVIOUS
<1>2. IsFiniteSet(1 .. Len(p))
  BY <1>1, FS_Interval
<1>3. EventsIn(p, S) \in SUBSET (1 .. Len(p))
  BY DEF EventsIn
<1> QED
  BY <1>2, <1>3, FS_Subset, FS_CardinalityType

\* Without its first call the queue holds what it held, one place further on.
LEMMA TailShifts ==
    ASSUME NEW p \in Seq(Calls), p # <<>>
    PROVE  /\ Tail(p) \in Seq(Calls) /\ Head(p) = p[1] /\ Len(Tail(p)) = Len(p) - 1
           /\ Len(p) \in Nat /\ Len(p) > 0
           /\ \A i \in 1 .. Len(p) - 1 : Tail(p)[i] = p[i + 1]
OBVIOUS

\* A queue without its first call has no more events.
LEMMA TailEvents ==
    ASSUME NEW p \in Seq(Calls), p # <<>>, NEW S
    PROVE  Cardinality(EventsIn(Tail(p), S)) <= Cardinality(EventsIn(p, S))
<1> DEFINE after == EventsIn(Tail(p), S)
           before == EventsIn(p, S)
           place == [i \in after |-> i + 1]
<1>1. IsFiniteSet(before)
  BY EventsFinite
<1>2. ASSUME NEW i \in after
      PROVE  i \in Nat /\ i + 1 \in before
  BY TailShifts DEF EventsIn
<1>3. place \in [after -> before]
  BY <1>2
<1>4. \A i, j \in after : place[i] = place[j] => i = j
  BY <1>2
<1>5. place \in Injection(after, before)
  BY <1>3, <1>4 DEF Injection, IsInjective
<1> HIDE DEF after, before, place
<1>6. Cardinality(after) <= Cardinality(before)
  BY <1>1, <1>5, FS_Injection
<1> QED
  BY <1>6 DEF after, before

\* The number of events, as the properties count it.
LEMMA EventsDueIs ==
    ASSUME dev.due \in Seq(Calls), NEW S
    PROVE  EventsDue(S) = Cardinality(EventsIn(dev.due, S))
<1>1. DOMAIN dev.due = 1 .. Len(dev.due)
  OBVIOUS
<1> QED
  BY <1>1 DEF EventsDue, EventsIn

\* A step whose handler tells the application of the events E posts no other.
LEMMA PostsOnly ==
    ASSUME dev.due \in Seq(Calls), dev'.due \in Seq(Calls), NEW C, NEW e,
           \/ Extends(dev.due, dev'.due, C)
           \/ dev.due # <<>> /\ Extends(Tail(dev.due), dev'.due, C),
           \A c \in C : c.fn = "event" => c.event # e
    PROVE  ~Posted(e)
<1> DEFINE p == dev.due
           q == dev'.due
<1>1. EventsDue({e}) = Cardinality(EventsIn(p, {e}))
  BY EventsDueIs
<1>2. EventsDue({e})' = Cardinality(EventsIn(q, {e}))
  <2>1. DOMAIN q = 1 .. Len(q)
    OBVIOUS
  <2> QED
    BY <2>1 DEF EventsDue, EventsIn
<1>3. Cardinality(EventsIn(p, {e})) \in Nat
  BY EventsFinite
<1>4. \A c \in C : c.fn = "event" => c.event \notin {e}
  OBVIOUS
<1>5. CASE Extends(p, q, C)
  <2>1. EventsIn(q, {e}) = EventsIn(p, {e})
    BY <1>4, <1>5, ExtendsEvents
  <2> QED
    BY <1>1, <1>2, <1>3, <2>1 DEF Posted
<1>6. CASE p # <<>> /\ Extends(Tail(p), q, C)
  <2>a. Tail(p) \in Seq(Calls)
    BY <1>6, TailShifts
  <2>1. EventsIn(q, {e}) = EventsIn(Tail(p), {e})
    <3> DEFINE t == Tail(p)
    <3>1. t \in Seq(Calls) /\ q \in Seq(Calls) /\ Extends(t, q, C)
      BY <1>6, <2>a
    <3> HIDE DEF p, q, t
    <3>2. EventsIn(q, {e}) = EventsIn(t, {e})
      BY <1>4, <3>1, ExtendsEvents
    <3> QED
      BY <3>2 DEF t
  <2>2. Cardinality(EventsIn(Tail(p), {e})) <= Cardinality(EventsIn(p, {e}))
    BY <1>6, TailEvents
  <2>3. Cardinality(EventsIn(Tail(p), {e})) \in Nat
    BY <2>a, EventsFinite
  <2> QED
    BY <1>1, <1>2, <1>3, <2>1, <2>2, <2>3 DEF Posted
<1> QED
  BY <1>5, <1>6

-----------------------------------------------------------------------------
(* Each step *)

\* Without its first call the device is the device.
LEMMA PoppedIs ==
    ASSUME SessionInv, dev.due # <<>>
    PROVE  /\ dev \in Devices /\ Popped \in Devices
           /\ dev.due \in Seq(Calls) /\ Tail(dev.due) \in Seq(Calls) /\ Head(dev.due) \in Calls
           /\ Popped.due = Tail(dev.due)
           /\ Popped.rx_payload_in_use = dev.rx_payload_in_use
           /\ SameNumbers(dev, Popped) /\ SameMessage(dev, Popped) /\ Untouched(dev, Popped)
           /\ Popped.armed = dev.armed /\ Popped.orphans = dev.orphans
           /\ Popped.radio = dev.radio
           /\ Popped.tx_ongoing = dev.tx_ongoing /\ Popped.req_type = dev.req_type
           /\ Popped.ack_received = dev.ack_received
<1>1. dev \in Devices /\ Popped \in Devices /\ Head(dev.due) \in Calls
  BY PoppedSound DEF SessionInv, Sound
<1>2. dev.due \in Seq(Calls)
  BY <1>1 DEF Devices
<1>3. Tail(dev.due) \in Seq(Calls)
  BY <1>2, TailShifts
<1> DEFINE e == [dev EXCEPT !.due = Tail(dev.due)]
<1>4. Popped = e
  BY DEF Popped
<1>5. /\ e.due = Tail(dev.due)
      /\ e.armed = dev.armed /\ e.orphans = dev.orphans /\ e.radio = dev.radio
      /\ e.rx_payload_in_use = dev.rx_payload_in_use
      /\ e.nwk_joined = dev.nwk_joined
      /\ e.dl_frame_counter = dev.dl_frame_counter
      /\ e.ul_frame_counter = dev.ul_frame_counter
      /\ e.tx_type = dev.tx_type /\ e.tx_msg = dev.tx_msg
      /\ e.tx_ongoing = dev.tx_ongoing /\ e.tx_buffer = dev.tx_buffer
      /\ e.req_type = dev.req_type /\ e.ack_received = dev.ack_received
  BY <1>1, DueChanges
<1> HIDE DEF e
<1> QED
  BY <1>1, <1>2, <1>3, <1>4, <1>5 DEF SameNumbers, SameMessage, Untouched, Still

\* The failure handler of the scheduler leaves the message alone, and runs only
\* after a failure.
LEMMA RetryOrFailWorks ==
    ASSUME NEW d \in Devices, NEW r, Works(d, r.dev, AppEvents)
    PROVE  /\ Works(d, retry_or_fail(r), AppEvents)
           /\ ~r.failed => retry_or_fail(r) = r.dev
<1> DEFINE x == r.dev
<1>1. retry_or_fail(r) \in {x, handle_scheduling_failure(x)}
  BY Zenon DEF retry_or_fail
<1>2. ~r.failed => retry_or_fail(r) = r.dev
  BY Zenon DEF retry_or_fail
<1>3. x \in Devices /\ Works(d, x, AppEvents)
  BY DEF Works, Carries
<1> HIDE DEF x
<1>4. ReportOf(x) \in AppEvents
  BY <1>3, ReportOfType DEF AppEvents
<1>5. Works(x, handle_scheduling_failure(x), AppEvents)
  BY <1>3, <1>4, HandleSchedulingFailureEnds DEF Ended
<1>6. Works(d, handle_scheduling_failure(x), AppEvents)
  BY <1>3, <1>5, WorksTransitive
<1> QED
  BY <1>1, <1>2, <1>3, <1>6

\* Whatever a handler may tell the application of, it may.
LEMMA MayAll ==
    ASSUME NEW d, NEW f
    PROVE  MayConfirm(d, AppEvents) /\ MayTell(d, f, AppEvents)
BY DEF MayConfirm, MayTell, AppEvents

\* An operation after which the queue is carried over, the reception buffer held
\* as before, and the session the same, with the downlink taken last.
Bears(d, e, E) ==
    /\ Carries(d, e, E)
    /\ e.nwk_joined = d.nwk_joined
    /\ e.dl_frame_counter = d.dl_frame_counter

\* What works bears.
LEMMA WorksBears ==
    ASSUME NEW d, NEW e, NEW E, Works(d, e, E)
    PROVE  Bears(d, e, E)
BY DEF Works, Bears

\* So does an end of the window.
LEMMA ConcludedWorks ==
    ASSUME NEW d, NEW e, NEW E, Concluded(d, e, E)
    PROVE  Works(d, e, E)
BY DEF Concluded, Counted, Passes

\* Every handler but that of a reception bears.
LEMMA DispatchBears ==
    ASSUME SessionInv, Dispatch, ~Called("process_reception")
    PROVE  /\ dev.due # <<>> /\ Head(dev.due).fn # "process_reception"
           /\ Bears(Popped, dev', AppEvents)
<1>a. dev.due # <<>>
  BY DEF Dispatch, ProcessTransmission, ProcessTransmissionTimeout, ProcessReception,
         ProcessReceptionTimeout, RepeatForQOS, SendAutomaticUplink, SkipCancelled,
         EventHandler, OpenRx1, OpenRx2, Rx2Closure, BackoffExpired, AckTimeout,
         Called, TimerCalled
<1>b. Head(dev.due).fn # "process_reception"
  BY <1>a DEF Called
<1>c. Popped \in Devices
  BY <1>a, PoppedIs
<1>d. AppEvents \subseteq AppEvents /\ "TX_TIMEOUT" \in AppEvents
      /\ "AUTOMATIC_UPLINK_ERROR" \in AppEvents /\ JoinEvents \subseteq AppEvents
  BY DEF AppEvents, JoinEvents
<1> SUFFICES Bears(Popped, dev', AppEvents)
  BY <1>a, <1>b
<1>1. CASE ProcessTransmission
  BY <1>c, <1>1, ProcessTransmissionWorks, WorksBears DEF ProcessTransmission, Step
<1>2. CASE ProcessTransmissionTimeout
  BY <1>c, <1>d, <1>2, ProcessTransmissionTimeoutEnds, WorksBears
  DEF ProcessTransmissionTimeout, Step, Ended
<1>4. CASE ProcessReceptionTimeout
  <2>1. PICK ch \in Outcomes : dev' = process_reception_timeout(Popped, ch)
    BY <1>4 DEF ProcessReceptionTimeout, Step
  <2>2. CASE Popped.nwk_joined
    <3>1. Concluded(Popped, process_reception_timeout(Popped, ch), AppEvents)
      BY <1>c, <2>2, MayAll, ReceptionTimeoutConcludes
    <3> QED
      BY <2>1, <3>1, ConcludedWorks, WorksBears
  <2>3. CASE ~Popped.nwk_joined
    <3>1. Retried(Popped, process_reception_timeout(Popped, ch), JoinEvents)
      BY <1>c, <2>3, MayAll, ReceptionTimeoutConcludes
    <3> QED
      BY <1>d, <2>1, <3>1, ContinuesMore DEF Retried, Works, Carries, Bears
  <2> QED
    BY <2>2, <2>3
<1>5. CASE RepeatForQOS
  <2>1. PICK ch \in Outcomes : dev' = process_scheduling_state(Popped, ch).dev
    BY <1>5 DEF RepeatForQOS, Step
  <2> QED
    BY <1>c, <2>1, ProcessSchedulingStateWorks DEF Bears, SameNumbers
<1>6. CASE SendAutomaticUplink
  <2>1. PICK ch \in Outcomes : dev' = send_automatic_uplink_message(Popped, ch)
    BY <1>6 DEF SendAutomaticUplink, Step
  <2>2. Submitted(Popped, dev', "CONFIRMED", ch, AppEvents)
    BY <1>c, <1>d, <2>1, SendAutomaticUplinkSubmits
  <2> QED
    BY <2>2 DEF Submitted, Bears, SameNumbers
<1>7. CASE SkipCancelled \/ EventHandler
  <2>1. dev' = Popped
    BY <1>7 DEF SkipCancelled, EventHandler, Step
  <2> QED
    BY <1>c, <2>1, PassesReflexive, WorksBears DEF Passes
<1>9. CASE OpenRx1
  BY <1>c, <1>9, OpenWindowPasses, WorksBears DEF OpenRx1, Step, Passes
<1>10. CASE OpenRx2
  BY <1>c, <1>10, OpenWindowPasses, WorksBears DEF OpenRx2, Step, Passes
<1>11. CASE Rx2Closure
  BY <1>c, <1>11, MayAll, PostProcessTxNoReceptionConcludes, ConcludedWorks, WorksBears
  DEF Rx2Closure, Step
<1>12. ASSUME NEW ch \in Outcomes, BackoffExpired(ch)
       PROVE  Bears(Popped, dev', AppEvents)
  <2> DEFINE r == on_backoff_timer_expiry(Popped, ch)
  <2>1. Works(Popped, r.dev, AppEvents)
    BY <1>c, OnBackoffTimerExpiryRetries
  <2>2. dev' = retry_or_fail(r)
    BY <1>12 DEF BackoffExpired, Step
  <2> HIDE DEF r
  <2> QED
    BY <1>c, <2>1, <2>2, RetryOrFailWorks, WorksBears
<1>13. ASSUME NEW ch \in [1 .. 3 -> Outcomes], AckTimeout(ch)
       PROVE  Bears(Popped, dev', AppEvents)
  <2> DEFINE r == on_ack_timeout_timer_event(Popped, ch)
  <2>1. Works(Popped, r.dev, AppEvents)
    BY <1>c, OnAckTimeoutRetries DEF Retried
  <2>2. dev' = retry_or_fail(r)
    BY <1>13 DEF AckTimeout, Step
  <2> HIDE DEF r
  <2> QED
    BY <1>c, <2>1, <2>2, RetryOrFailWorks, WorksBears
<1>14. ~ProcessReception
  BY DEF ProcessReception
<1> QED
  BY <1>a, <1>b, <1>1, <1>2, <1>4, <1>5, <1>6, <1>7, <1>9, <1>10, <1>11, <1>12, <1>13, <1>14
  DEF Dispatch

\* What an API call may tell the application of.
CallEvents == JoinEvents \cup {"DISCONNECTED"}

\* What the application calls bears, but for a connection, which the device has not
\* when it asks for one, and its end.
LEMMA ApplicationBears ==
    ASSUME SessionInv, Application
    PROVE  \/ Bears(dev, dev', CallEvents)
           \/ /\ ~dev.nwk_joined /\ Outside(dev, dev', JoinEvents)
              /\ dev'.rx_payload_in_use = dev.rx_payload_in_use
           \/ Shutdown /\ Carries(dev, dev', CallEvents)
<1>a. dev \in Devices /\ messages + 1 \in Nat
  BY DEF SessionInv, Sound, HistoryOK
<1>1. CASE Initialize
  BY <1>a, <1>1, SetStatePasses, WorksBears DEF Initialize, Step, Passes, DeviceStates
<1>2. ASSUME NEW otaa \in BOOLEAN, Connect(otaa)
      PROVE  /\ ~dev.nwk_joined /\ Outside(dev, dev', JoinEvents)
             /\ dev'.rx_payload_in_use = dev.rx_payload_in_use
  <2>1. PICK ch \in Outcomes : dev' = connect(dev, otaa, ch)
    BY <1>2 DEF Connect, Step
  <2>2. ~dev.nwk_joined
    BY <1>2, SessionInvIs DEF Connect, SessionConsistent
  <2> QED
    BY <1>a, <2>1, <2>2, ConnectOutside
<1>3. ASSUME NEW type \in SendTypes, Send(type)
      PROVE  Bears(dev, dev', CallEvents)
  <2>1. PICK ch \in Outcomes : dev' = handle_tx(dev, messages + 1, type, ch).dev
    BY <1>3 DEF Send, Step
  <2>2. type \in MessageTypes
    BY EnvironmentAssumption
  <2>3. Submitted(dev, dev', type, ch, CallEvents)
    BY <1>a, <2>1, <2>2, HandleTxSubmits
  <2> QED
    BY <2>3 DEF Submitted, Bears, SameNumbers
<1>4. CASE StopSending
  BY <1>a, <1>4, StopSendingCarries DEF StopSending, Step, Bears, SameNumbers
<1>5. CASE Shutdown
  BY <1>a, <1>5, ProcessShutdownStateParts DEF Shutdown, Step, CallEvents, JoinEvents, AppEvents
<1>6. ASSUME NEW c \in {"A", "C"}, SetDeviceClass(c)
      PROVE  Bears(dev, dev', CallEvents)
  BY <1>a, <1>6, SetDeviceClassPasses, WorksBears DEF SetDeviceClass, Step, Passes
<1> QED
  BY <1>1, <1>2, <1>3, <1>4, <1>5, <1>6 DEF Application

\* The message, its frame, its confirmation and the session stay.
SameWork(d, e) ==
    /\ SameNumbers(d, e) /\ SameMessage(d, e)
    /\ e.tx_buffer = d.tx_buffer /\ e.tx_ongoing = d.tx_ongoing
    /\ e.req_type = d.req_type /\ e.ack_received = d.ack_received

\* An interrupt or a timer adds the call c, or loses it.
Strikes(d, e, c) ==
    /\ e \in Devices
    /\ SameWork(d, e)
    /\ e.rx_payload_in_use = d.rx_payload_in_use
    /\ e.due \in {d.due, Append(d.due, c)}

\* Posting is one such step, and touches nothing else; with room nothing is lost.
LEMMA PostStrikes ==
    ASSUME NEW d \in Devices, NEW c \in Calls
    PROVE  LET e == post(d, c)
           IN  /\ Strikes(d, e, c)
               /\ e.radio = d.radio /\ e.armed = d.armed /\ e.orphans = d.orphans
               /\ Room(d) => e.due = Append(d.due, c)
<1>1. post(d, c) \in Devices
  BY PostKeeps DEF Keeps
<1> DEFINE e == [d EXCEPT !.due = Append(d.due, c)]
<1>2. post(d, c) = IF Room(d) THEN e ELSE d
  BY DEF post
<1>3. /\ e.due = Append(d.due, c)
      /\ e.armed = d.armed /\ e.orphans = d.orphans /\ e.radio = d.radio
      /\ e.rx_payload_in_use = d.rx_payload_in_use
      /\ e.nwk_joined = d.nwk_joined
      /\ e.dl_frame_counter = d.dl_frame_counter
      /\ e.ul_frame_counter = d.ul_frame_counter
      /\ e.tx_type = d.tx_type /\ e.tx_msg = d.tx_msg
      /\ e.tx_ongoing = d.tx_ongoing /\ e.tx_buffer = d.tx_buffer
      /\ e.req_type = d.req_type /\ e.ack_received = d.ack_received
  BY DueChanges
<1> HIDE DEF e
<1> QED
  BY <1>1, <1>2, <1>3 DEF Strikes, SameWork, SameNumbers, SameMessage

\* A change of the radio's mode touches nothing else.
LEMMA ModeChanges ==
    ASSUME NEW d \in Devices, NEW mode \in RadioModes
    PROVE  LET e == [d EXCEPT !.radio = mode]
           IN  /\ e \in Devices /\ SameWork(d, e) /\ e.radio = mode
               /\ e.due = d.due /\ e.armed = d.armed /\ e.orphans = d.orphans
               /\ e.rx_payload_in_use = d.rx_payload_in_use
<1> DEFINE e == [d EXCEPT !.radio = mode]
<1>1. e \in Devices
  BY ZenonT(120) DEF Devices
<1> QED
  BY <1>1 DEF SameWork, SameNumbers, SameMessage, Devices

\* After a reception the radio does not send.
LEMMA AfterReceptionIs ==
    ASSUME NEW d \in Devices, d.radio # "tx"
    PROVE  LET e == AfterReception(d)
           IN  /\ e \in Devices /\ SameWork(d, e) /\ e.radio # "tx"
               /\ e.due = d.due /\ e.armed = d.armed /\ e.orphans = d.orphans
               /\ e.rx_payload_in_use = d.rx_payload_in_use
<1> DEFINE mode == IF d.radio = "rx" THEN "standby" ELSE d.radio
<1>1. mode \in RadioModes /\ mode # "tx"
  BY DEF Devices, RadioModes
<1>2. AfterReception(d) = [d EXCEPT !.radio = mode]
  BY DEF AfterReception
<1> HIDE DEF mode
<1> QED
  BY <1>1, <1>2, ModeChanges

\* The calls of the radio's interrupts, but for a frame received.
Sent == [fn |-> "process_transmission"]
NotSent == [fn |-> "process_transmission_timeout"]
NothingHeard == [fn : {"process_reception_timeout"}, is_timeout : BOOLEAN]
RadioCalls == {Sent, NotSent} \cup NothingHeard

\* Those interrupts.
LEMMA RadioStrikes ==
    ASSUME SessionInv, TxDone \/ TxTimeout \/ RxError \/ RxTimeout
    PROVE  /\ dev'.radio # "tx"
           /\ dev'.armed = dev.armed /\ dev'.orphans = dev.orphans
           /\ \/ dev.radio = "tx" /\ Strikes(dev, dev', Sent)
              \/ TxTimeout /\ dev.radio = "tx" /\ Strikes(dev, dev', NotSent)
              \/ dev.radio # "tx" /\ \E c \in NothingHeard : Strikes(dev, dev', c)
<1>a. dev \in Devices /\ dev.due \in Seq(Calls)
  BY DEF SessionInv, Sound, Devices
<1> DEFINE standby == [dev EXCEPT !.radio = "standby"]
           received == AfterReception(dev)
<1>1. /\ standby \in Devices /\ SameWork(dev, standby) /\ standby.radio = "standby"
      /\ standby.due = dev.due /\ standby.armed = dev.armed /\ standby.orphans = dev.orphans
      /\ standby.rx_payload_in_use = dev.rx_payload_in_use
  BY <1>a, ModeChanges DEF RadioModes
<1>2. dev.radio # "tx" =>
        /\ received \in Devices /\ SameWork(dev, received) /\ received.radio # "tx"
        /\ received.due = dev.due /\ received.armed = dev.armed
        /\ received.orphans = dev.orphans
        /\ received.rx_payload_in_use = dev.rx_payload_in_use
  BY <1>a, AfterReceptionIs
<1>3. RadioCalls \subseteq Calls
  BY DEF RadioCalls, Sent, NotSent, NothingHeard, Calls
<1>4. ASSUME NEW d \in Devices, NEW c \in RadioCalls, dev' = post(d, c), d.radio # "tx",
             SameWork(dev, d), d.due = dev.due, d.armed = dev.armed,
             d.orphans = dev.orphans, d.rx_payload_in_use = dev.rx_payload_in_use
      PROVE  /\ Strikes(dev, dev', c) /\ dev'.radio # "tx"
             /\ dev'.armed = dev.armed /\ dev'.orphans = dev.orphans
  <2>1. c \in Calls
    BY <1>3
  <2>2. Strikes(d, dev', c) /\ dev'.radio = d.radio /\ dev'.armed = d.armed
        /\ dev'.orphans = d.orphans
    BY <1>4, <2>1, PostStrikes
  <2> QED
    BY <1>4, <2>2 DEF Strikes, SameWork, SameNumbers, SameMessage
<1> HIDE DEF standby, received
<1>5. CASE TxDone
  <2>1. dev.radio = "tx" /\ dev' = post(standby, Sent)
    BY <1>5 DEF TxDone, Step, standby, Sent
  <2> QED
    BY <1>1, <1>4, <2>1 DEF RadioCalls
<1>6. CASE TxTimeout
  <2>1. dev.radio = "tx" /\ dev' = post(standby, NotSent)
    BY <1>6 DEF TxTimeout, Step, standby, NotSent
  <2> QED
    BY <1>1, <1>4, <1>6, <2>1 DEF RadioCalls
<1>7. CASE RxError \/ RxTimeout
  <2>1. dev.radio # "tx"
    BY <1>7 DEF RxError, RxTimeout, Listening
  <2>2. PICK c \in NothingHeard : dev' = post(received, c)
    BY <1>7 DEF RxError, RxTimeout, Step, received, NothingHeard
  <2> QED
    BY <1>2, <1>4, <2>1, <2>2 DEF RadioCalls
<1> QED
  BY <1>5, <1>6, <1>7

\* A timer that expires.
LEMMA ClockStrikes ==
    ASSUME SessionInv, NEW t \in Timers, Expire(t) \/ ExpireOrphan(t)
    PROVE  /\ t \in dev.armed \cup dev.orphans
           /\ dev'.radio = dev.radio
           /\ dev'.armed \subseteq dev.armed /\ dev'.orphans \subseteq dev.orphans
           /\ \E c \in {LiveCall(t), StaleCall(t)} :
                Strikes(dev, dev', c) /\ dev'.due = Append(dev.due, c)
<1>a. dev \in Devices /\ dev.due \in Seq(Calls)
  BY DEF SessionInv, Sound, Devices
<1>1. ASSUME NEW armed, NEW orphans, NEW c \in {LiveCall(t), StaleCall(t)},
             armed \subseteq dev.armed, orphans \subseteq dev.orphans,
             dev' = [dev EXCEPT !.armed = armed, !.orphans = orphans,
                                !.due = Append(dev.due, c)]
      PROVE  /\ dev'.radio = dev.radio
             /\ dev'.armed \subseteq dev.armed /\ dev'.orphans \subseteq dev.orphans
             /\ Strikes(dev, dev', c) /\ dev'.due = Append(dev.due, c)
  <2>1. armed \in SUBSET Timers /\ orphans \in SUBSET Timers
    BY <1>a, <1>1 DEF Devices
  <2>2. Append(dev.due, c) \in Seq(Calls)
    BY <1>a, TimerCallTypes
  <2> DEFINE e == [dev EXCEPT !.armed = armed, !.orphans = orphans,
                              !.due = Append(dev.due, c)]
  <2>3. e \in Devices
    BY ZenonT(120), <1>a, <2>1, <2>2 DEF Devices
  <2>4. /\ SameWork(dev, e) /\ e.radio = dev.radio /\ e.armed = armed /\ e.orphans = orphans
        /\ e.due = Append(dev.due, c) /\ e.rx_payload_in_use = dev.rx_payload_in_use
    BY <1>a DEF SameWork, SameNumbers, SameMessage, Devices
  <2>5. dev' = e
    BY <1>1
  <2> HIDE DEF e
  <2> QED
    BY <1>1, <2>3, <2>4, <2>5 DEF Strikes
<1>2. CASE Expire(t)
  <2>1. dev' = [dev EXCEPT !.armed = dev.armed \ {t}, !.orphans = dev.orphans,
                           !.due = Append(dev.due, LiveCall(t))]
    BY <1>a, <1>2 DEF Expire, Step, Devices
  <2>2. t \in dev.armed
    BY <1>2 DEF Expire
  <2> QED
    BY <1>1, <2>1, <2>2
<1>3. CASE ExpireOrphan(t)
  <2>1. dev' = [dev EXCEPT !.armed = dev.armed, !.orphans = dev.orphans \ {t},
                           !.due = Append(dev.due, StaleCall(t))]
    BY <1>a, <1>3 DEF ExpireOrphan, Step, Devices
  <2>2. t \in dev.orphans
    BY <1>3 DEF ExpireOrphan
  <2> QED
    BY <1>1, <2>1, <2>2
<1> QED
  BY <1>2, <1>3

\* A frame arrives: it takes the buffer and is posted, or lost with the buffer
\* taken, or it finds the buffer taken and is dropped.
LEMMA RxDoneIs ==
    ASSUME SessionInv, NEW f \in Downlinks, RxDone(f)
    PROVE  /\ dev' \in Devices /\ SameWork(dev, dev') /\ dev.radio # "tx" /\ dev'.radio # "tx"
           /\ dev'.armed = dev.armed /\ dev'.orphans = dev.orphans
           /\ dev'.due \in {dev.due,
                            Append(dev.due, [fn |-> "process_reception", frame |-> f])}
           /\ dev.rx_payload_in_use =>
                dev'.rx_payload_in_use /\ dev'.due = dev.due /\ downlink' = downlink
           /\ ~dev.rx_payload_in_use =>
                /\ dev'.rx_payload_in_use
                /\ downlink' = IF f.kind \in {"first", "data"} THEN f.kind ELSE downlink
                /\ Room(dev) =>
                     dev'.due = Append(dev.due, [fn |-> "process_reception", frame |-> f])
<1> DEFINE after == AfterReception(dev)
           held == [after EXCEPT !.rx_payload_in_use = TRUE]
           call == [fn |-> "process_reception", frame |-> f]
<1>a. dev \in Devices /\ dev.radio # "tx"
  BY DEF SessionInv, Sound, RxDone, Listening
<1>1. /\ after \in Devices /\ SameWork(dev, after) /\ after.radio # "tx"
      /\ after.due = dev.due /\ after.armed = dev.armed /\ after.orphans = dev.orphans
      /\ after.rx_payload_in_use = dev.rx_payload_in_use
  BY <1>a, AfterReceptionIs
<1>b. call \in Calls
  BY EnvironmentAssumption DEF Calls
<1>2. IF dev.rx_payload_in_use
      THEN dev' = after /\ downlink' = downlink
      ELSE /\ dev' = post(held, call)
           /\ downlink' = IF f.kind \in {"first", "data"} THEN f.kind ELSE downlink
  BY DEF RxDone
<1> HIDE DEF after, call
<1>3. held \in Devices
  BY ZenonT(120), <1>1 DEF Devices
<1>4. /\ SameWork(after, held) /\ held.radio = after.radio /\ held.due = after.due
      /\ held.armed = after.armed /\ held.orphans = after.orphans /\ held.rx_payload_in_use
  BY <1>1 DEF SameWork, SameNumbers, SameMessage, Devices
<1> HIDE DEF held
<1>5. /\ Strikes(held, post(held, call), call)
      /\ post(held, call).radio = held.radio
      /\ post(held, call).armed = held.armed /\ post(held, call).orphans = held.orphans
      /\ Room(held) => post(held, call).due = Append(held.due, call)
  BY <1>3, <1>b, PostStrikes
<1>6. Room(held) <=> Room(dev)
  BY <1>1, <1>4 DEF Room
<1>7. CASE dev.rx_payload_in_use
  BY <1>a, <1>1, <1>2, <1>7
<1>8. CASE ~dev.rx_payload_in_use
  <2>1. SameWork(dev, dev')
    BY <1>1, <1>2, <1>4, <1>5, <1>8 DEF Strikes, SameWork, SameNumbers, SameMessage
  <2>2. dev' \in Devices /\ dev'.rx_payload_in_use /\ dev'.due \in {dev.due, Append(dev.due, call)}
    BY <1>1, <1>2, <1>4, <1>5, <1>8 DEF Strikes
  <2> QED
    BY <1>a, <1>1, <1>2, <1>4, <1>5, <1>6, <1>8, <2>1, <2>2 DEF call
<1> QED
  BY <1>7, <1>8

\* What a step leaves of the receptions that wait, p being the queue without the
\* call it takes.
Goes(p) ==
    /\ dev'.due \in Seq(Calls)
    /\ SameWaiting(p, dev'.due)
    /\ dev'.rx_payload_in_use = dev.rx_payload_in_use
    /\ \/ /\ dev'.nwk_joined = dev.nwk_joined
          /\ dev'.dl_frame_counter = dev.dl_frame_counter
          /\ downlink' = downlink
       \/ ~dev.nwk_joined /\ downlink' \in {downlink, "none"}
       \/ Shutdown

\* Only a frame that arrives and the handler it is for concern the buffer.
LEMMA StepGoes ==
    ASSUME SessionInv, [Next]_vars
    PROVE  \/ Goes(dev.due)
           \/ /\ dev.due # <<>> /\ Head(dev.due).fn # "process_reception"
              /\ Goes(Tail(dev.due))
           \/ ProcessReception
           \/ \E f \in Downlinks : RxDone(f)
<1>a. dev \in Devices /\ dev.due \in Seq(Calls)
  BY DEF SessionInv, Sound, Devices
<1>b. ASSUME NEW p \in Seq(Calls), NEW E, Continues(p, dev'.due, E), dev' \in Devices
      PROVE  dev'.due \in Seq(Calls) /\ SameWaiting(p, dev'.due)
  <2>1. dev'.due \in Seq(Calls)
    BY <1>b DEF Devices
  <2> QED
    BY <1>b, <2>1, ContinuesExtends, ExtendsWaiting
<1>c. ASSUME NEW c \in Calls, c.fn # "process_reception", Strikes(dev, dev', c),
             downlink' = downlink
      PROVE  Goes(dev.due)
  <2>1. dev'.due \in Seq(Calls) /\ Extends(dev.due, dev'.due, {c})
    <3>1. dev'.due \in {dev.due, Append(dev.due, c)}
      BY <1>c DEF Strikes
    <3>2. Extends(dev.due, dev.due, {c}) /\ Extends(dev.due, Append(dev.due, c), {c})
      BY <1>a, <1>c, AppendExtends, ExtendsReflexive
    <3>3. Append(dev.due, c) \in Seq(Calls)
      BY <1>a, <1>c
    <3> QED
      BY <1>a, <3>1, <3>2, <3>3
  <2>2. SameWaiting(dev.due, dev'.due)
    BY <1>a, <1>c, <2>1, ExtendsWaiting
  <2> QED
    BY <1>c, <2>1, <2>2 DEF Goes, Strikes, SameWork, SameNumbers
<1>1. CASE Dispatch
  <2>1. ProcessReception \/ ~Called("process_reception")
    BY <1>1 DEF Dispatch, ProcessTransmission, ProcessTransmissionTimeout,
         ProcessReceptionTimeout, RepeatForQOS, SendAutomaticUplink, SkipCancelled,
         EventHandler, OpenRx1, OpenRx2, Rx2Closure, BackoffExpired, AckTimeout,
         Called, TimerCalled
  <2>2. CASE ~Called("process_reception")
    <3>1. /\ dev.due # <<>> /\ Head(dev.due).fn # "process_reception"
          /\ Bears(Popped, dev', AppEvents)
      BY <1>1, <2>2, DispatchBears
    <3>2. /\ Popped.due = Tail(dev.due) /\ Tail(dev.due) \in Seq(Calls)
          /\ Popped.rx_payload_in_use = dev.rx_payload_in_use /\ SameNumbers(dev, Popped)
      BY <3>1, PoppedIs
    <3>3. \E d : Step(d)
      BY <1>1 DEF Dispatch, ProcessTransmission, ProcessTransmissionTimeout, ProcessReception,
         ProcessReceptionTimeout, RepeatForQOS, SendAutomaticUplink, SkipCancelled,
         EventHandler, OpenRx1, OpenRx2, Rx2Closure, BackoffExpired, AckTimeout
    <3>4. /\ dev'.nwk_joined = dev.nwk_joined
          /\ dev'.dl_frame_counter = dev.dl_frame_counter
          /\ dev'.rx_payload_in_use = dev.rx_payload_in_use
          /\ dev' \in Devices /\ Continues(Tail(dev.due), dev'.due, AppEvents)
      BY <3>1, <3>2 DEF Bears, Carries, SameNumbers
    <3>5. downlink' = downlink
      BY <3>3, <3>4 DEF Step
    <3>6. Goes(Tail(dev.due))
      BY <1>b, <3>2, <3>4, <3>5 DEF Goes
    <3> QED
      BY <3>1, <3>6
  <2> QED
    BY <2>1, <2>2
<1>2. CASE Application
  <2>1. PICK d : Step(d)
    BY <1>2 DEF Application, Initialize, Connect, Send, StopSending, Shutdown, SetDeviceClass
  <2>2. downlink' \in {downlink, "none"}
        /\ (dev'.nwk_joined = dev.nwk_joined => downlink' = downlink)
    BY <2>1 DEF Step
  <2>3. CASE Bears(dev, dev', CallEvents)
    <3>1. Continues(dev.due, dev'.due, CallEvents) /\ dev' \in Devices
      BY <2>3 DEF Bears, Carries
    <3> QED
      BY <1>a, <1>b, <2>2, <2>3, <3>1 DEF Goes, Bears, Carries
  <2>4. CASE ~dev.nwk_joined /\ Outside(dev, dev', JoinEvents)
             /\ dev'.rx_payload_in_use = dev.rx_payload_in_use
    <3>1. Continues(dev.due, dev'.due, JoinEvents) /\ dev' \in Devices
      BY <2>4 DEF Outside
    <3> QED
      BY <1>a, <1>b, <2>2, <2>4, <3>1 DEF Goes
  <2>5. CASE Shutdown /\ Carries(dev, dev', CallEvents)
    BY <1>a, <1>b, <2>5 DEF Goes, Carries
  <2> QED
    BY <1>2, <2>3, <2>4, <2>5, ApplicationBears
<1>3. CASE TxDone \/ TxTimeout \/ RxError \/ RxTimeout
  <2>1. PICK c \in RadioCalls : Strikes(dev, dev', c)
    BY <1>3, RadioStrikes DEF RadioCalls
  <2>2. c \in Calls /\ c.fn # "process_reception"
    BY DEF RadioCalls, Sent, NotSent, NothingHeard, Calls
  <2>3. \E d : Step(d)
    BY <1>3 DEF TxDone, TxTimeout, RxError, RxTimeout
  <2>4. downlink' = downlink
    BY <2>1, <2>3 DEF Step, Strikes, SameWork, SameNumbers
  <2> QED
    BY <1>c, <2>1, <2>2, <2>4
<1>4. CASE Clock
  <2>1. PICK t \in Timers : Expire(t) \/ ExpireOrphan(t)
    BY <1>4 DEF Clock
  <2>2. PICK c \in {LiveCall(t), StaleCall(t)} : Strikes(dev, dev', c)
    BY <2>1, ClockStrikes
  <2>3. c \in Calls /\ c.fn # "process_reception"
    <3>1. LiveCall(t) \in Calls /\ StaleCall(t) \in Calls
      BY TimerCallTypes
    <3>2. LiveCall(t).fn = "timer" /\ StaleCall(t).fn = "timer"
      BY DEF LiveCall, StaleCall
    <3> QED
      BY <3>1, <3>2
  <2>4. \E d : Step(d)
    BY <2>1 DEF Expire, ExpireOrphan
  <2>5. downlink' = downlink
    BY <2>2, <2>4 DEF Step, Strikes, SameWork, SameNumbers
  <2> QED
    BY <1>c, <2>2, <2>3, <2>5
<1>5. CASE UNCHANGED vars
  BY <1>5, <1>a DEF vars, Goes, SameWaiting
<1> QED
  BY <1>1, <1>2, <1>3, <1>4, <1>5 DEF Next, Radio

\* Outside the handlers the application is told of its own calls only.
LEMMA QuietSteps ==
    ASSUME SessionInv, [Next]_vars, ~Dispatch, NEW e, e \notin CallEvents
    PROVE  ~Posted(e)
<1>a. dev \in Devices /\ dev.due \in Seq(Calls)
  BY DEF SessionInv, Sound, Devices
<1>b. ASSUME NEW E, E \subseteq CallEvents, dev' \in Devices, Continues(dev.due, dev'.due, E)
      PROVE  ~Posted(e)
  <2>1. dev'.due \in Seq(Calls)
    BY <1>b DEF Devices
  <2>2. /\ Extends(dev.due, dev'.due, Posts(E))
        /\ \A c \in Posts(E) : c.fn = "event" => c.event # e
    BY <1>b, ContinuesExtends
  <2> QED
    BY <1>a, <2>1, <2>2, PostsOnly
<1>c. ASSUME NEW c \in Calls, c.fn # "event", Strikes(dev, dev', c)
      PROVE  ~Posted(e)
  <2>1. dev'.due \in {dev.due, Append(dev.due, c)}
    BY <1>c DEF Strikes
  <2>2. Extends(dev.due, dev.due, {c}) /\ Extends(dev.due, Append(dev.due, c), {c})
    BY <1>a, AppendExtends, ExtendsReflexive
  <2>a. Append(dev.due, c) \in Seq(Calls)
    BY <1>a
  <2>3. Extends(dev.due, dev'.due, {c}) /\ dev'.due \in Seq(Calls)
    BY <1>a, <2>1, <2>2, <2>a
  <2> QED
    BY <1>a, <1>c, <2>3, PostsOnly
<1>1. CASE Application
  <2>1. \/ Bears(dev, dev', CallEvents)
        \/ Outside(dev, dev', JoinEvents)
        \/ Carries(dev, dev', CallEvents)
    BY <1>1, ApplicationBears
  <2>2. JoinEvents \subseteq CallEvents
    BY DEF CallEvents
  <2> QED
    BY <1>b, <2>1, <2>2 DEF Bears, Carries, Outside
<1>2. CASE TxDone \/ TxTimeout \/ RxError \/ RxTimeout
  <2>1. PICK c \in RadioCalls : Strikes(dev, dev', c)
    BY <1>2, RadioStrikes DEF RadioCalls
  <2>2. c \in Calls /\ c.fn # "event"
    BY DEF RadioCalls, Sent, NotSent, NothingHeard, Calls
  <2> QED
    BY <1>c, <2>1, <2>2
<1>3. ASSUME NEW f \in Downlinks, RxDone(f)
      PROVE  ~Posted(e)
  <2> DEFINE call == [fn |-> "process_reception", frame |-> f]
  <2>1. dev' \in Devices /\ dev'.due \in {dev.due, Append(dev.due, call)}
    BY <1>3, RxDoneIs
  <2>2. call \in Calls /\ call.fn # "event"
    BY EnvironmentAssumption DEF Calls
  <2> HIDE DEF call
  <2>3. Extends(dev.due, dev.due, {call}) /\ Extends(dev.due, Append(dev.due, call), {call})
    BY <1>a, <2>2, AppendExtends, ExtendsReflexive
  <2>a. Append(dev.due, call) \in Seq(Calls)
    BY <1>a, <2>2
  <2>4. Extends(dev.due, dev'.due, {call}) /\ dev'.due \in Seq(Calls)
    BY <1>a, <2>1, <2>3, <2>a
  <2> QED
    BY <1>a, <2>2, <2>4, PostsOnly
<1>4. CASE Clock
  <2>1. PICK t \in Timers : Expire(t) \/ ExpireOrphan(t)
    BY <1>4 DEF Clock
  <2>2. PICK c \in {LiveCall(t), StaleCall(t)} : Strikes(dev, dev', c)
    BY <2>1, ClockStrikes
  <2>3. LiveCall(t) \in Calls /\ StaleCall(t) \in Calls
    BY TimerCallTypes
  <2>4. LiveCall(t).fn = "timer" /\ StaleCall(t).fn = "timer"
    BY DEF LiveCall, StaleCall
  <2> QED
    BY <1>c, <2>2, <2>3, <2>4
<1>5. CASE UNCHANGED vars
  <2>1. Extends(dev.due, dev'.due, {}) /\ dev'.due \in Seq(Calls)
    BY <1>a, <1>5, ExtendsReflexive DEF vars
  <2> QED
    BY <1>a, <2>1, PostsOnly
<1> QED
  BY <1>1, <1>2, <1>3, <1>4, <1>5 DEF Next, Radio

\* A handler tells the application of what it may.
LEMMA HandlerPosts ==
    ASSUME SessionInv, dev.due # <<>>, NEW E, dev' \in Devices,
           Continues(Tail(dev.due), dev'.due, E), NEW e, e \notin E
    PROVE  ~Posted(e)
<1>1. dev.due \in Seq(Calls) /\ dev'.due \in Seq(Calls)
  BY DEF SessionInv, Sound, Devices
<1>2. /\ Extends(Tail(dev.due), dev'.due, Posts(E))
      /\ \A c \in Posts(E) : c.fn = "event" => c.event # e
  BY ContinuesExtends
<1> QED
  BY <1>1, <1>2, PostsOnly

-----------------------------------------------------------------------------
(* The reception buffer *)

\* The buffer is held while a reception waits, and there is one buffer.
BufferOK(due, used) ==
    /\ Waiting(due) # {} => used
    /\ \A i, j \in Waiting(due) : i = j

BufferInv == BufferOK(dev.due, dev.rx_payload_in_use)

\* Taking the first call from the queue moves the others forward.
LEMMA TailWaiting ==
    ASSUME NEW p \in Seq(Calls), p # <<>>
    PROVE  /\ \A i \in Waiting(Tail(p)) : i + 1 \in Waiting(p) /\ Tail(p)[i] = p[i + 1]
           /\ Head(p).fn = "process_reception" => 1 \in Waiting(p) /\ p[1] = Head(p)
           /\ Head(p).fn # "process_reception" /\ Waiting(p) # {} => Waiting(Tail(p)) # {}
<1>1. /\ Head(p) = p[1] /\ Len(Tail(p)) = Len(p) - 1 /\ Len(p) \in Nat /\ Len(p) > 0
      /\ \A i \in 1 .. Len(p) - 1 : Tail(p)[i] = p[i + 1]
  BY TailShifts
<1>2. ASSUME NEW i \in Waiting(Tail(p))
      PROVE  i + 1 \in Waiting(p) /\ Tail(p)[i] = p[i + 1]
  <2>1. i \in 1 .. Len(p) - 1 /\ Tail(p)[i].fn = "process_reception"
    BY <1>1 DEF Waiting
  <2>2. Tail(p)[i] = p[i + 1] /\ i + 1 \in 1 .. Len(p)
    BY <1>1, <2>1
  <2> QED
    BY <2>1, <2>2 DEF Waiting
<1>3. Head(p).fn = "process_reception" => 1 \in Waiting(p) /\ p[1] = Head(p)
  BY <1>1 DEF Waiting
<1>4. ASSUME Head(p).fn # "process_reception", NEW j \in Waiting(p)
      PROVE  Waiting(Tail(p)) # {}
  <2>1. j \in 1 .. Len(p) /\ j # 1 /\ p[j].fn = "process_reception"
    BY <1>1, <1>4 DEF Waiting
  <2>2. j - 1 \in 1 .. Len(p) - 1 /\ (j - 1) + 1 = j
    BY <1>1, <2>1
  <2>3. Tail(p)[j - 1] = p[j]
    BY <1>1, <2>2
  <2>4. j - 1 \in Waiting(Tail(p))
    BY <1>1, <2>1, <2>2, <2>3 DEF Waiting
  <2> QED
    BY <2>4
<1> QED
  BY <1>2, <1>3, <1>4

\* So what holds of the buffer holds without the first call, and of two receptions
\* none is left when one is taken.
LEMMA TailBuffer ==
    ASSUME NEW p \in Seq(Calls), p # <<>>, NEW used, BufferOK(p, used)
    PROVE  /\ BufferOK(Tail(p), used)
           /\ Head(p).fn = "process_reception" => Waiting(Tail(p)) = {}
<1>1. ASSUME NEW i \in Waiting(Tail(p)), NEW j \in Waiting(Tail(p))
      PROVE  i = j
  <2>1. i + 1 \in Waiting(p) /\ j + 1 \in Waiting(p)
    BY TailWaiting
  <2>2. i + 1 = j + 1 /\ i \in Int /\ j \in Int
    BY <2>1 DEF BufferOK, Waiting
  <2> QED
    BY <2>2
<1>2. Waiting(Tail(p)) # {} => used
  BY TailWaiting DEF BufferOK
<1>3. ASSUME Head(p).fn = "process_reception", NEW i \in Waiting(Tail(p))
      PROVE  FALSE
  <2>1. i + 1 \in Waiting(p) /\ 1 \in Waiting(p) /\ i \in Nat /\ i > 0
    BY <1>3, TailWaiting DEF Waiting
  <2>2. i + 1 = 1
    BY <2>1 DEF BufferOK
  <2> QED
    BY <2>1, <2>2
<1> QED
  BY <1>1, <1>2, <1>3 DEF BufferOK

\* The handler of a reception frees the buffer and adds no reception.
LEMMA ReceptionIs ==
    ASSUME SessionInv, ProcessReception
    PROVE  /\ dev.due # <<>> /\ Head(dev.due).fn = "process_reception"
           /\ Head(dev.due).frame \in Frames
           /\ dev'.due \in Seq(Calls) /\ ~dev'.rx_payload_in_use
           /\ SameWaiting(Tail(dev.due), dev'.due)
           /\ dev.nwk_joined =>
                \A E : MayTell(Popped, Head(dev.due).frame, E) =>
                         Received(Popped, dev', Head(dev.due).frame, E)
           /\ ~dev.nwk_joined => Outside(Popped, dev', JoinEvents)
<1> DEFINE f == Head(dev.due).frame
<1>1. dev.due # <<>> /\ Head(dev.due).fn = "process_reception"
  BY DEF ProcessReception, Called
<1>2. /\ Popped \in Devices /\ Head(dev.due) \in Calls /\ Popped.due = Tail(dev.due)
      /\ Tail(dev.due) \in Seq(Calls) /\ Popped.nwk_joined = dev.nwk_joined
  BY <1>1, PoppedIs DEF SameNumbers
<1>3. f \in Frames
  BY <1>1, <1>2 DEF Calls
<1>4. PICK ch \in Outcomes : dev' = process_reception(Popped, f, ch)
  BY DEF ProcessReception, Step
<1> HIDE DEF f
<1>5. ASSUME dev.nwk_joined, NEW E, MayTell(Popped, f, E)
      PROVE  Received(Popped, dev', f, E)
  BY <1>2, <1>3, <1>4, <1>5, ReceptionInSession
<1>6. ASSUME ~dev.nwk_joined
      PROVE  Outside(Popped, dev', JoinEvents) /\ ~dev'.rx_payload_in_use
  BY <1>2, <1>3, <1>4, <1>6, ReceptionOutside
<1>7. PICK E : Continues(Tail(dev.due), dev'.due, E) /\ dev' \in Devices
               /\ ~dev'.rx_payload_in_use
  <2>1. CASE dev.nwk_joined
    BY <1>2, <1>5, <2>1, MayAll DEF Received
  <2>2. CASE ~dev.nwk_joined
    BY <1>2, <1>6, <2>2 DEF Outside
  <2> QED
    BY <2>1, <2>2
<1>8. dev'.due \in Seq(Calls)
  BY <1>7 DEF Devices
<1>9. SameWaiting(Tail(dev.due), dev'.due)
  BY <1>2, <1>7, <1>8, ContinuesExtends, ExtendsWaiting
<1> QED
  BY <1>1, <1>3, <1>5, <1>6, <1>7, <1>8, <1>9 DEF f

\* No interleaving of frames and handlers holds two receptions at once.
LEMMA BufferNext ==
    ASSUME SessionInv, BufferInv, [Next]_vars
    PROVE  BufferInv'
<1>a. dev \in Devices /\ dev.due \in Seq(Calls)
  BY DEF SessionInv, Sound, Devices
<1>b. ASSUME NEW p, BufferOK(p, dev.rx_payload_in_use), Goes(p)
      PROVE  BufferInv'
  BY <1>b DEF Goes, SameWaiting, BufferInv, BufferOK
<1>1. CASE Goes(dev.due)
  BY <1>b, <1>1 DEF BufferInv
<1>2. CASE dev.due # <<>> /\ Goes(Tail(dev.due))
  BY <1>a, <1>b, <1>2, TailBuffer DEF BufferInv
<1>3. CASE ProcessReception
  <2>1. /\ dev.due # <<>> /\ Head(dev.due).fn = "process_reception"
        /\ SameWaiting(Tail(dev.due), dev'.due)
    BY <1>3, ReceptionIs
  <2>2. Waiting(Tail(dev.due)) = {}
    BY <1>a, <2>1, TailBuffer DEF BufferInv
  <2> QED
    BY <2>1, <2>2 DEF SameWaiting, BufferInv, BufferOK
<1>4. ASSUME NEW f \in Downlinks, RxDone(f)
      PROVE  BufferInv'
  <2> DEFINE call == [fn |-> "process_reception", frame |-> f]
  <2>1. /\ dev'.due \in {dev.due, Append(dev.due, call)}
        /\ dev.rx_payload_in_use => dev'.rx_payload_in_use /\ dev'.due = dev.due
        /\ ~dev.rx_payload_in_use => dev'.rx_payload_in_use
    BY <1>4, RxDoneIs
  <2> HIDE DEF call
  <2>2. CASE dev'.due = dev.due
    BY <2>1, <2>2 DEF BufferInv, BufferOK
  <2>3. CASE ~dev.rx_payload_in_use /\ dev'.due = Append(dev.due, call)
    <3>1. Waiting(dev.due) = {}
      BY <2>3 DEF BufferInv, BufferOK
    <3>2. Waiting(dev'.due) \subseteq {Len(dev.due) + 1}
      BY <1>a, <2>3, <3>1 DEF Waiting
    <3> QED
      BY <2>1, <2>3, <3>2 DEF BufferInv, BufferOK
  <2> QED
    BY <2>1, <2>2, <2>3
<1> QED
  BY <1>1, <1>2, <1>3, <1>4, StepGoes

\* A new device holds none.
LEMMA BufferInit == Init => BufferInv
BY DEF Init, NewDevice, BufferInv, BufferOK, Waiting

\* The buffer of a downlink is held as long as the call that processes it waits,
\* whatever is lost and however often windows overlap: no frame overwrites another.
THEOREM BufferHeld == Spec => []BufferInv
<1>1. SessionInv /\ BufferInv /\ [Next]_vars => BufferInv'
  BY BufferNext
<1> QED
  BY <1>1, BufferInit, SessionInvHolds, PTL DEF Spec

\* The buffer is held exactly while a reception waits.
FreedInv == BufferInv /\ (dev.rx_payload_in_use => Waiting(dev.due) # {})

\* That is the property.
LEMMA FreedInvIs ==
    ASSUME SessionInv, FreedInv
    PROVE  RxBufferFreed
<1>1. DOMAIN dev.due = 1 .. Len(dev.due)
  BY DEF SessionInv, Sound, Devices
<1> QED
  BY <1>1 DEF FreedInv, BufferInv, BufferOK, Waiting, RxBufferFreed

\* While the queue has memory when a frame arrives, the call that frees the buffer is not
\* lost.
LEMMA FreedNext ==
    ASSUME SessionInv, FreedInv, [Next]_vars, \A f \in Downlinks : RxDone(f) => Room(dev)
    PROVE  FreedInv'
<1>a. dev \in Devices /\ dev.due \in Seq(Calls) /\ BufferInv
  BY DEF SessionInv, Sound, Devices, FreedInv
<1>b. BufferInv'
  BY <1>a, BufferNext
<1>1. CASE Goes(dev.due)
  BY <1>b, <1>1 DEF FreedInv, Goes, SameWaiting
<1>2. CASE /\ dev.due # <<>> /\ Head(dev.due).fn # "process_reception"
           /\ Goes(Tail(dev.due))
  <2>1. Waiting(dev.due) # {} => Waiting(Tail(dev.due)) # {}
    BY <1>a, <1>2, TailWaiting
  <2> QED
    BY <1>b, <1>2, <2>1 DEF FreedInv, Goes, SameWaiting
<1>3. CASE ProcessReception
  BY <1>b, <1>3, ReceptionIs DEF FreedInv
<1>4. ASSUME NEW f \in Downlinks, RxDone(f)
      PROVE  FreedInv'
  <2> DEFINE call == [fn |-> "process_reception", frame |-> f]
  <2>1. /\ dev.rx_payload_in_use => dev'.rx_payload_in_use /\ dev'.due = dev.due
        /\ ~dev.rx_payload_in_use => dev'.due = Append(dev.due, call)
    BY <1>4, RxDoneIs
  <2>2. call.fn = "process_reception"
    OBVIOUS
  <2> HIDE DEF call
  <2>3. CASE dev.rx_payload_in_use
    BY <1>b, <2>1, <2>3 DEF FreedInv
  <2>4. CASE ~dev.rx_payload_in_use
    <3>1. Len(dev.due) + 1 \in Waiting(dev'.due)
      BY <1>a, <2>1, <2>2, <2>4 DEF Waiting
    <3> QED
      BY <1>b, <3>1 DEF FreedInv
  <2> QED
    BY <2>3, <2>4
<1> QED
  BY <1>1, <1>2, <1>3, <1>4, <1>a, StepGoes

\* A new device holds no buffer.
LEMMA FreedInit == Init => FreedInv
BY BufferInit DEF Init, NewDevice, FreedInv, Waiting

\* The buffer of a downlink is freed: as long as the memory of the queue does not run
\* out, it is held exactly while the call that frees it waits.  (Without memory the
\* call is lost, and the device hears nothing any more.)
THEOREM RxBufferIsFreed == Spec /\ []Room(dev) => []RxBufferFreed
<1>1. SessionInv /\ FreedInv /\ Room(dev) /\ [Next]_vars => FreedInv'
  BY FreedNext
<1>2. SessionInv /\ FreedInv => RxBufferFreed
  BY FreedInvIs
<1> QED
  BY <1>1, <1>2, FreedInit, SessionInvHolds, PTL DEF Spec

-----------------------------------------------------------------------------
(* Repeated downlinks *)

\* The network does not repeat a downlink with counter 0, which the device cannot
\* tell from a new one, and the device stays in one session.
SingleSession ==
    /\ \A f \in Downlinks : f.kind # "first"
    /\ "shutdown" \notin AppCalls

\* A downlink the network counts on was taken, or holds the buffer and is the next
\* to be taken; a repetition that waits finds its counter taken.
DeliverInv ==
    /\ ~dev.nwk_joined => downlink = "none"
    /\ downlink # "first"
    /\ downlink = "data" =>
         \/ dev.dl_frame_counter = 1
         \/ /\ dev.rx_payload_in_use
            /\ \A i \in Waiting(dev.due) : dev.due[i].frame.kind = "data"
    /\ \A i \in Waiting(dev.due) :
         /\ dev.due[i].frame \in Downlinks
         /\ dev.due[i].frame.kind = "repeat" => dev.nwk_joined /\ dev.dl_frame_counter = 1

\* What holds of the receptions that wait does so without the first call.
LEMMA DeliverGoes ==
    ASSUME SingleSession, SessionInv, DeliverInv, NEW p \in Seq(Calls), Goes(p),
           \A i \in Waiting(p) : \E j \in Waiting(dev.due) : p[i] = dev.due[j]
    PROVE  DeliverInv'
<1>1. ~Shutdown
  BY DEF Shutdown, SingleSession
<1>2. \A i \in Waiting(dev'.due) : \E j \in Waiting(dev.due) : dev'.due[i] = dev.due[j]
  BY DEF Goes, SameWaiting
<1>3. dev'.rx_payload_in_use = dev.rx_payload_in_use
  BY DEF Goes
<1>4. CASE /\ dev'.nwk_joined = dev.nwk_joined
           /\ dev'.dl_frame_counter = dev.dl_frame_counter
           /\ downlink' = downlink
  BY <1>2, <1>3, <1>4 DEF DeliverInv
<1>5. CASE ~dev.nwk_joined /\ downlink' \in {downlink, "none"}
  <2>1. downlink' = "none"
    BY <1>5 DEF DeliverInv
  <2>2. \A i \in Waiting(dev'.due) :
          dev'.due[i].frame \in Downlinks /\ dev'.due[i].frame.kind # "repeat"
    BY <1>2, <1>5 DEF DeliverInv
  <2> QED
    BY <2>1, <2>2 DEF DeliverInv
<1> QED
  BY <1>1, <1>4, <1>5 DEF Goes

\* Each step keeps it.
LEMMA DeliverNext ==
    ASSUME SingleSession, SessionInv, BufferInv, DeliverInv, [Next]_vars
    PROVE  DeliverInv'
<1>a. dev \in Devices /\ dev.due \in Seq(Calls)
  BY DEF SessionInv, Sound, Devices
<1>1. CASE Goes(dev.due)
  BY <1>a, <1>1, DeliverGoes
<1>2. CASE dev.due # <<>> /\ Goes(Tail(dev.due))
  <2>1. Tail(dev.due) \in Seq(Calls)
    BY <1>a, <1>2, TailShifts
  <2>2. \A i \in Waiting(Tail(dev.due)) :
          \E j \in Waiting(dev.due) : Tail(dev.due)[i] = dev.due[j]
    BY <1>a, <1>2, TailWaiting
  <2> QED
    BY <1>2, <2>1, <2>2, DeliverGoes
<1>3. CASE ProcessReception
  <2> DEFINE f == Head(dev.due).frame
  <2>1. /\ dev.due # <<>> /\ Head(dev.due).fn = "process_reception" /\ f \in Frames
        /\ SameWaiting(Tail(dev.due), dev'.due)
    BY <1>3, ReceptionIs
  <2>2. Waiting(Tail(dev.due)) = {}
    BY <1>a, <2>1, TailBuffer DEF BufferInv
  <2>3. Waiting(dev'.due) = {}
    BY <2>1, <2>2 DEF SameWaiting
  <2>4. 1 \in Waiting(dev.due) /\ dev.due[1].frame = f
    BY <1>a, <2>1, TailWaiting
  <2>5. Popped.dl_frame_counter = dev.dl_frame_counter
    BY <2>1, PoppedIs DEF SameNumbers
  <2> HIDE DEF f
  <2>6. CASE dev.nwk_joined
    <3>1. Received(Popped, dev', f, AppEvents)
      BY <1>3, <2>6, ReceptionIs, MayAll DEF f
    <3>2. dev'.nwk_joined
      BY <3>1 DEF Received
    <3>3. downlink' = downlink
      BY <1>3, <2>6 DEF ProcessReception, Step
    <3>4. ASSUME downlink = "data"
          PROVE  dev'.dl_frame_counter = 1
      <4>1. dev.dl_frame_counter = 1 \/ f.kind = "data"
        BY <2>4, <3>4 DEF DeliverInv
      <4>2. dev'.dl_frame_counter \in {0, 1}
        BY <3>1 DEF Received, Devices
      <4>3. f.kind = "data" => ~JoinFrame(f) /\ Taken(Popped, f) /\ DownlinkCounter(Popped, f) = 1
        BY DEF JoinFrame, Taken, Discarded, DownlinkCounter
      <4>4. f.kind # "first"
        BY <2>4 DEF DeliverInv, SingleSession
      <4> QED
        BY <2>5, <3>1, <4>1, <4>3, <4>4 DEF Received, DownlinkCounter
    <3> QED
      BY <2>3, <3>2, <3>3, <3>4 DEF DeliverInv
  <2>7. CASE ~dev.nwk_joined
    <3>1. downlink' = "none"
      BY <1>3, <2>7 DEF DeliverInv, ProcessReception, Step
    <3> QED
      BY <2>3, <3>1 DEF DeliverInv
  <2> QED
    BY <2>6, <2>7
<1>4. ASSUME NEW f \in Downlinks, RxDone(f)
      PROVE  DeliverInv'
  <2> DEFINE call == [fn |-> "process_reception", frame |-> f]
  <2>1. /\ SameWork(dev, dev') /\ dev'.due \in {dev.due, Append(dev.due, call)}
        /\ dev.rx_payload_in_use =>
             dev'.rx_payload_in_use /\ dev'.due = dev.due /\ downlink' = downlink
        /\ ~dev.rx_payload_in_use =>
             /\ dev'.rx_payload_in_use
             /\ downlink' = IF f.kind \in {"first", "data"} THEN f.kind ELSE downlink
    BY <1>4, RxDoneIs
  <2>2. dev'.nwk_joined = dev.nwk_joined /\ dev'.dl_frame_counter = dev.dl_frame_counter
    BY <2>1 DEF SameWork, SameNumbers
  <2>3. call.fn = "process_reception" /\ call.frame = f
    OBVIOUS
  <2>4. /\ f.kind \in {"data", "repeat"} => dev.nwk_joined
        /\ f.kind = "repeat" => downlink # "none"
        /\ f.kind # "first"
    BY <1>4 DEF RxDone, Arrives, SingleSession
  <2> HIDE DEF call
  <2>5. CASE dev.rx_payload_in_use
    BY <2>1, <2>2, <2>5 DEF DeliverInv
  <2>6. CASE ~dev.rx_payload_in_use
    <3>1. Waiting(dev.due) = {}
      BY <2>6 DEF BufferInv, BufferOK
    <3>2. \A i \in Waiting(dev'.due) : dev'.due[i] = call
      BY <1>a, <2>1, <3>1 DEF Waiting
    <3>3. downlink' = IF f.kind = "data" THEN "data" ELSE downlink
      BY <2>1, <2>4, <2>6
    <3>4. downlink = "data" => dev.dl_frame_counter = 1
      BY <2>6 DEF DeliverInv
    <3>5. downlink \in {"none", "first", "data"} /\ downlink # "first"
      BY DEF SessionInv, HistoryOK, DeliverInv
    <3>6. f.kind = "repeat" => dev.nwk_joined /\ dev.dl_frame_counter = 1
      BY <2>4, <3>4, <3>5
    <3>7. ~dev.nwk_joined => downlink' = "none"
      BY <2>4, <3>3 DEF DeliverInv
    <3>8. downlink' = "data" =>
            \/ dev'.dl_frame_counter = 1
            \/ /\ dev'.rx_payload_in_use
               /\ \A i \in Waiting(dev'.due) : dev'.due[i].frame.kind = "data"
      BY <2>1, <2>2, <2>3, <2>6, <3>2, <3>3, <3>4
    <3>9. \A i \in Waiting(dev'.due) :
            /\ dev'.due[i].frame \in Downlinks
            /\ dev'.due[i].frame.kind = "repeat" => dev'.nwk_joined /\ dev'.dl_frame_counter = 1
      BY <2>2, <2>3, <3>2, <3>6
    <3>10. downlink' # "first"
      BY <3>3, <3>5
    <3> QED
      BY <2>2, <3>7, <3>8, <3>9, <3>10 DEF DeliverInv
  <2> QED
    BY <2>5, <2>6
<1> QED
  BY <1>1, <1>2, <1>3, <1>4, StepGoes

\* A new device has heard nothing.
LEMMA DeliverInit == Init => DeliverInv
BY DEF Init, NewDevice, DeliverInv, Waiting

\* The handler of a repeated downlink does not tell the application of it.
LEMMA RepeatUntold ==
    ASSUME SingleSession, SessionInv, BufferInv, DeliverInv, [Next]_vars,
           Called("process_reception"), Head(dev.due).frame.kind = "repeat"
    PROVE  ~Posted("RX_DONE")
<1> DEFINE f == Head(dev.due).frame
           E == AppEvents \ {"RX_DONE"}
<1>1. CASE ~Dispatch
  BY <1>1, QuietSteps DEF CallEvents, JoinEvents
<1>2. CASE Dispatch
  <2>1. ProcessReception
    BY <1>2 DEF Dispatch, ProcessTransmission, ProcessTransmissionTimeout,
         ProcessReceptionTimeout, RepeatForQOS, SendAutomaticUplink, SkipCancelled,
         EventHandler, OpenRx1, OpenRx2, Rx2Closure, BackoffExpired, AckTimeout,
         Called, TimerCalled
  <2>2. dev.due # <<>> /\ Head(dev.due).fn = "process_reception" /\ dev.due \in Seq(Calls)
    BY <2>1, ReceptionIs DEF SessionInv, Sound, Devices
  <2>3. 1 \in Waiting(dev.due) /\ dev.due[1].frame = f
    BY <2>2, TailWaiting
  <2>4. dev.nwk_joined /\ dev.dl_frame_counter = 1
    BY <2>3 DEF DeliverInv
  <2>5. Popped.dl_frame_counter = 1 /\ Popped.due = Tail(dev.due)
    BY <2>2, <2>4, PoppedIs DEF SameNumbers
  <2>6. ~Taken(Popped, f)
    BY <2>5 DEF Taken, Discarded
  <2>7. MayTell(Popped, f, E)
    BY <2>6 DEF MayTell, AppEvents
  <2>8. Received(Popped, dev', f, E)
    BY <2>1, <2>4, <2>7, ReceptionIs
  <2> QED
    BY <2>2, <2>5, <2>8, HandlerPosts DEF Received
<1> QED
  BY <1>1, <1>2

\* A downlink that repeats the counter of the one taken last is not handed to the
\* application a second time, whatever is lost between the radio and the handler.
THEOREM EachDeliveredOnce == SingleSession /\ Spec => DeliveredOnce
<1> SUFFICES ASSUME SingleSession PROVE Spec => DeliveredOnce
  OBVIOUS
<1> DEFINE Untold == Called("process_reception") /\ Head(dev.due).frame.kind = "repeat"
                       => ~Posted("RX_DONE")
<1>1. SessionInv /\ BufferInv /\ DeliverInv /\ [Next]_vars => DeliverInv'
  BY DeliverNext
<1>2. SessionInv /\ BufferInv /\ DeliverInv /\ [Next]_vars => Untold
  BY RepeatUntold
<1>3. SessionInv /\ BufferInv /\ DeliverInv /\ [Next]_vars => [Untold]_vars
  BY <1>2
<1>4. [][Untold]_vars => DeliveredOnce
  BY PTL DEF DeliveredOnce
<1> HIDE DEF Untold
<1> QED
  BY <1>1, <1>3, <1>4, DeliverInit, BufferHeld, SessionInvHolds, PTL DEF Spec

-----------------------------------------------------------------------------
(* Acknowledged messages *)

\* Every transmission finds a channel, now or after a wait, and the application does
\* not disconnect in the middle of one.
Steady ==
    /\ Outcomes \subseteq {"OK", "RESTRICTED"}
    /\ Patient \/ "shutdown" \notin AppCalls

\* A confirmed message in progress is what the confirmation is about, and the
\* acknowledgement of the last one is used up.
MessageOK(d) ==
    /\ d.tx_ongoing /\ d.tx_type = "CONFIRMED" => d.nwk_joined /\ d.req_type = "CONFIRMED"
    /\ d.req_type = "CONFIRMED" => d.nwk_joined /\ ~d.ack_received

MessageInv == MessageOK(dev)

\* What works keeps it.
LEMMA WorksMessage ==
    ASSUME NEW d, NEW e, NEW E, Works(d, e, E), MessageOK(d)
    PROVE  MessageOK(e)
BY DEF Works, MessageOK

\* What a handler may tell the application of: not of a confirmed message that is
\* done.
Told(d) ==
    IF d.tx_ongoing /\ d.tx_type = "CONFIRMED" THEN AppEvents \ {"TX_DONE"} ELSE AppEvents

\* A message without an acknowledgement is not done.
LEMMA ToldMayConfirm ==
    ASSUME NEW d \in Devices, MessageOK(d)
    PROVE  /\ MayConfirm(d, Told(d))
           /\ Told(d) \subseteq AppEvents
           /\ {"TX_TIMEOUT", "AUTOMATIC_UPLINK_ERROR"} \subseteq Told(d)
           /\ JoinEvents \subseteq Told(d)
           /\ \A f : ~f.ack => MayTell(d, f, Told(d))
BY DEF MayConfirm, MayTell, Told, MessageOK, AppEvents, JoinEvents

\* Every handler keeps the invariant, and tells of no confirmed message that it is
\* done, but that of a reception with the acknowledgement.  A message of its own is
\* a confirmed one.
LEMMA DispatchMessage ==
    ASSUME Steady, SessionInv, MessageInv, Dispatch
    PROVE  /\ dev.due # <<>> /\ dev' \in Devices
           /\ MessageOK(dev') /\ dev'.tx_type \in {dev.tx_type, "CONFIRMED"}
           /\ ~(Called("process_reception") /\ Head(dev.due).frame.ack)
                => Continues(Tail(dev.due), dev'.due, Told(dev))
<1>a. dev.due # <<>>
  BY DEF Dispatch, ProcessTransmission, ProcessTransmissionTimeout, ProcessReception,
         ProcessReceptionTimeout, RepeatForQOS, SendAutomaticUplink, SkipCancelled,
         EventHandler, OpenRx1, OpenRx2, Rx2Closure, BackoffExpired, AckTimeout,
         Called, TimerCalled
<1>b. Popped \in Devices /\ Popped.due = Tail(dev.due) /\ MessageOK(Popped)
      /\ Told(Popped) = Told(dev) /\ Popped.nwk_joined = dev.nwk_joined
      /\ Popped.tx_type = dev.tx_type
  BY <1>a, PoppedIs DEF MessageInv, MessageOK, Told, SameNumbers, SameMessage
<1> DEFINE p == Popped
           E == Told(p)
<1>c. /\ MayConfirm(p, E) /\ E \subseteq AppEvents
      /\ "TX_TIMEOUT" \in E /\ "AUTOMATIC_UPLINK_ERROR" \in E /\ JoinEvents \subseteq E
      /\ \A f : ~f.ack => MayTell(p, f, E)
  BY <1>b, ToldMayConfirm
<1>d. /\ p \in Devices /\ MessageOK(p) /\ p.due = Tail(dev.due) /\ E = Told(dev)
      /\ p.tx_type = dev.tx_type
  BY <1>b
<1> HIDE DEF p, E
<1> DEFINE Kept == /\ dev' \in Devices /\ MessageOK(dev') /\ Continues(p.due, dev'.due, E)
                   /\ dev'.tx_type \in {dev.tx_type, "CONFIRMED"}
<1>e. ASSUME NEW e, dev' = e, Works(p, e, E)
      PROVE  Kept
  <2>1. MessageOK(e)
    BY <1>d, <1>e, WorksMessage
  <2> QED
    BY <1>d, <1>e, <2>1 DEF Works, Carries
<1>1. CASE ProcessTransmission
  <2>1. Works(p, process_transmission(p), E)
    BY <1>d, ProcessTransmissionWorks
  <2>2. dev' = process_transmission(p)
    BY <1>1 DEF ProcessTransmission, Step, p
  <2> QED
    BY <1>a, <1>d, <1>e, <2>1, <2>2
<1>2. CASE ProcessTransmissionTimeout
  <2>1. Works(p, process_transmission_timeout(p), E)
    BY <1>c, <1>d, ProcessTransmissionTimeoutEnds DEF Ended
  <2>2. dev' = process_transmission_timeout(p)
    BY <1>2 DEF ProcessTransmissionTimeout, Step, p
  <2> QED
    BY <1>a, <1>d, <1>e, <2>1, <2>2
<1>3. CASE ProcessReception
  <2> DEFINE f == Head(dev.due).frame
  <2>0. dev' \in Devices
    <3>1. CASE dev.nwk_joined
      <4>1. Received(Popped, dev', f, AppEvents)
        BY <1>3, <3>1, ReceptionIs, MayAll
      <4> QED
        BY <4>1 DEF Received
    <3>2. CASE ~dev.nwk_joined
      BY <1>3, <3>2, ReceptionIs DEF Outside
    <3> QED
      BY <3>1, <3>2
  <2>1. CASE p.nwk_joined
    <3>1. dev.nwk_joined
      BY <1>b, <2>1 DEF p
    <3>2. Received(p, dev', f, AppEvents)
      BY <1>3, <3>1, ReceptionIs, MayAll DEF p
    <3>3. MessageOK(dev')
      BY <1>d, <3>2 DEF Received, SameMessage, MessageOK
    <3>4. ~f.ack => Received(p, dev', f, E)
      BY <1>3, <1>c, <3>1, ReceptionIs DEF p
    <3>5. ~f.ack => Continues(p.due, dev'.due, E)
      BY <3>4 DEF Received
    <3>6. Called("process_reception") /\ dev'.tx_type = p.tx_type
      BY <1>3, <3>2 DEF ProcessReception, Received, SameMessage
    <3> QED
      BY <1>a, <1>d, <2>0, <3>3, <3>5, <3>6
  <2>2. CASE ~p.nwk_joined
    <3>1. Outside(p, dev', JoinEvents)
      BY <1>3, <1>b, <2>2, ReceptionIs DEF p
    <3>2. MessageOK(dev')
      BY <1>d, <2>2, <3>1 DEF Outside, SameMessage, MessageOK
    <3>3. Continues(p.due, dev'.due, E) /\ dev'.tx_type = p.tx_type
      BY <1>c, <3>1, ContinuesMore DEF Outside, SameMessage
    <3> QED
      BY <1>a, <1>d, <2>0, <3>2, <3>3
  <2> QED
    BY <2>1, <2>2
<1>4. CASE ProcessReceptionTimeout
  <2>1. PICK ch \in Outcomes : dev' = process_reception_timeout(p, ch)
    BY <1>4 DEF ProcessReceptionTimeout, Step, p
  <2>2. CASE p.nwk_joined
    <3>1. Works(p, process_reception_timeout(p, ch), E)
      BY <1>c, <1>d, <2>2, ReceptionTimeoutConcludes, ConcludedWorks
    <3> QED
      BY <1>a, <1>d, <1>e, <2>1, <3>1
  <2>3. CASE ~p.nwk_joined
    <3>1. Retried(p, process_reception_timeout(p, ch), JoinEvents)
      BY <1>c, <1>d, <2>3, ReceptionTimeoutConcludes
    <3>2. Works(p, process_reception_timeout(p, ch), E)
      BY <1>c, <3>1, ContinuesMore DEF Retried, Works, Carries
    <3> QED
      BY <1>a, <1>d, <1>e, <2>1, <3>2
  <2> QED
    BY <2>2, <2>3
<1>5. CASE RepeatForQOS
  <2>1. PICK ch \in Outcomes : dev' = process_scheduling_state(p, ch).dev
    BY <1>5 DEF RepeatForQOS, Step, p
  <2> DEFINE r == process_scheduling_state(p, ch)
  <2>2. ch \in {"OK", "RESTRICTED"}
    BY DEF Steady
  <2>3. /\ Carries(p, r.dev, E)
        /\ SameNumbers(p, r.dev) /\ SameMessage(p, r.dev)
        /\ r.status \in {"OK", "ERROR"}
        /\ r.dev.tx_ongoing = (r.status = "OK" \/ p.tx_ongoing)
        /\ \/ r.dev = p /\ r.status = "ERROR"
           \/ /\ Framable(p) /\ Framed(r.dev) /\ ~r.dev.ack_received
              /\ r.dev.req_type = IF r.status = "OK" THEN p.tx_type ELSE "UNCONFIRMED"
              /\ ch \in {"OK", "RESTRICTED"} => r.status = "OK"
           \/ /\ ~Framable(p) /\ Untouched(p, r.dev) /\ r.status = "ERROR"
              /\ r.dev.req_type = "UNCONFIRMED"
    BY <1>d, ProcessSchedulingStateWorks
  <2>4. dev' = r.dev
    BY <2>1
  <2> HIDE DEF r
  <2>5. MessageOK(r.dev)
    <3>1. CASE r.dev = p
      BY <1>d, <3>1
    <3>2. CASE Framable(p) /\ ~r.dev.ack_received /\ r.dev.req_type = p.tx_type
      BY <1>d, <2>3, <3>2 DEF MessageOK, Framable, SameNumbers, SameMessage
    <3>3. CASE ~Framable(p) /\ r.status = "ERROR" /\ r.dev.req_type = "UNCONFIRMED"
      BY <1>d, <2>3, <3>3 DEF MessageOK, Framable, SameNumbers, SameMessage
    <3> QED
      BY <2>2, <2>3, <3>1, <3>2, <3>3
  <2> QED
    BY <1>a, <1>d, <2>3, <2>4, <2>5 DEF Carries, SameMessage
<1>6. CASE SendAutomaticUplink
  <2>1. PICK ch \in Outcomes : dev' = send_automatic_uplink_message(p, ch)
    BY <1>6 DEF SendAutomaticUplink, Step, p
  <2>2. Submitted(p, dev', "CONFIRMED", ch, E)
    BY <1>c, <1>d, <2>1, SendAutomaticUplinkSubmits
  <2>3. MessageOK(dev')
    <3>1. CASE Passes(p, dev', E)
      BY <1>d, <3>1, WorksMessage DEF Passes
    <3>2. CASE ~Passes(p, dev', E)
      BY <1>d, <2>2, <3>2 DEF Submitted, SameNumbers, MessageOK
    <3> QED
      BY <3>1, <3>2
  <2> QED
    BY <1>a, <1>d, <2>2, <2>3 DEF Submitted, Carries, Passes, Works
<1>7. CASE SkipCancelled \/ EventHandler
  <2>1. dev' = p
    BY <1>7 DEF SkipCancelled, EventHandler, Step, p
  <2>2. Works(p, p, E)
    BY <1>d, PassesReflexive DEF Passes
  <2> QED
    BY <1>a, <1>d, <1>e, <2>1, <2>2
<1>9. CASE OpenRx1
  <2>1. Works(p, open_rx1_window(p), E) /\ dev' = open_rx1_window(p)
    BY <1>d, <1>9, OpenWindowPasses DEF OpenRx1, Step, Passes, p
  <2> QED
    BY <1>a, <1>d, <1>e, <2>1
<1>10. CASE OpenRx2
  <2>1. Works(p, open_rx2_window(p), E) /\ dev' = open_rx2_window(p)
    BY <1>d, <1>10, OpenWindowPasses DEF OpenRx2, Step, Passes, p
  <2> QED
    BY <1>a, <1>d, <1>e, <2>1
<1>11. CASE Rx2Closure
  <2>1. Works(p, post_process_tx_no_reception(p), E)
    BY <1>c, <1>d, PostProcessTxNoReceptionConcludes, ConcludedWorks
  <2>2. dev' = post_process_tx_no_reception(p)
    BY <1>11 DEF Rx2Closure, Step, p
  <2> QED
    BY <1>a, <1>d, <1>e, <2>1, <2>2
<1>12. ASSUME NEW ch \in Outcomes, BackoffExpired(ch)
       PROVE  Kept
  <2> DEFINE r == on_backoff_timer_expiry(p, ch)
  <2>1. Works(p, r.dev, E) /\ Works(p, r.dev, AppEvents) /\ ~r.failed
    BY <1>d, OnBackoffTimerExpiryRetries DEF Steady
  <2>2. dev' = retry_or_fail(r)
    BY <1>12 DEF BackoffExpired, Step, p
  <2> HIDE DEF r
  <2>3. dev' = r.dev
    BY <1>d, <2>1, <2>2, RetryOrFailWorks
  <2> QED
    BY <1>e, <2>1, <2>3
<1>13. ASSUME NEW ch \in [1 .. 3 -> Outcomes], AckTimeout(ch)
       PROVE  Kept
  <2> DEFINE r == on_ack_timeout_timer_event(p, ch)
  <2>1. ch[1] \in {"OK", "RESTRICTED"}
    <3>1. 1 \in 1 .. 3
      OBVIOUS
    <3>2. ch[1] \in Outcomes
      BY <3>1
    <3> QED
      BY <3>2 DEF Steady
  <2>2. /\ Works(p, r.dev, E) /\ Works(p, r.dev, AppEvents)
        /\ p.nwk_joined => ~r.failed
    BY <1>d, <2>1, OnAckTimeoutRetries DEF Retried
  <2>3. dev' = retry_or_fail(r)
    BY <1>13 DEF AckTimeout, Step, p
  <2> HIDE DEF r
  <2>4. CASE ~r.failed
    <3>1. dev' = r.dev
      BY <1>d, <2>2, <2>3, <2>4, RetryOrFailWorks
    <3> QED
      BY <1>e, <2>2, <3>1
  <2>5. CASE ~p.nwk_joined
    <3>1. E = AppEvents
      BY <1>d, <2>5 DEF E, Told, MessageOK
    <3>2. Works(p, retry_or_fail(r), E)
      BY <1>d, <2>2, <3>1, RetryOrFailWorks
    <3> QED
      BY <1>e, <2>3, <3>2
  <2> QED
    BY <2>2, <2>4, <2>5
<1> QED
  BY <1>a, <1>d, <1>1, <1>2, <1>3, <1>4, <1>5, <1>6, <1>7, <1>9, <1>10, <1>11, <1>12, <1>13
  DEF Dispatch

\* So do the other steps; a message of the application is of a type that it sends.
LEMMA MessageNext ==
    ASSUME Steady, SessionInv, MessageInv, [Next]_vars
    PROVE  MessageInv' /\ dev'.tx_type \in {dev.tx_type, "CONFIRMED"} \cup SendTypes
<1>a. dev \in Devices /\ messages + 1 \in Nat /\ MessageOK(dev)
  BY DEF SessionInv, Sound, HistoryOK, MessageInv
<1> DEFINE Kept == MessageOK(dev') /\ dev'.tx_type \in {dev.tx_type, "CONFIRMED"} \cup SendTypes
<1> SUFFICES Kept
  BY DEF MessageInv, MessageOK
<1>b. ASSUME NEW e, dev' = e, NEW E, Works(dev, e, E)
      PROVE  Kept
  BY <1>a, <1>b, WorksMessage DEF Works
<1>c. ASSUME SameWork(dev, dev')
      PROVE  Kept
  BY <1>a, <1>c DEF SameWork, SameNumbers, SameMessage, MessageOK
<1>1. CASE Dispatch
  BY <1>1, DispatchMessage
<1>2. CASE Initialize
  <2>1. Works(dev, set_state(dev, "IDLE"), AppEvents) /\ dev' = set_state(dev, "IDLE")
    BY <1>a, <1>2, SetStatePasses DEF Initialize, Step, Passes, DeviceStates
  <2> QED
    BY <1>b, <2>1
<1>3. ASSUME NEW otaa \in BOOLEAN, Connect(otaa)
      PROVE  Kept
  <2>1. PICK ch \in Outcomes : dev' = connect(dev, otaa, ch)
    BY <1>3 DEF Connect, Step
  <2>2. ~dev.nwk_joined
    BY <1>3, SessionInvIs DEF Connect, SessionConsistent
  <2>3. Outside(dev, dev', JoinEvents)
    BY <1>a, <2>1, <2>2, ConnectOutside
  <2> QED
    BY <1>a, <2>2, <2>3 DEF Outside, SameMessage, MessageOK
<1>4. ASSUME NEW type \in SendTypes, Send(type)
      PROVE  Kept
  <2>1. PICK ch \in Outcomes : dev' = handle_tx(dev, messages + 1, type, ch).dev
    BY <1>4 DEF Send, Step
  <2>2. type \in MessageTypes
    BY EnvironmentAssumption
  <2>3. Submitted(dev, dev', type, ch, AppEvents)
    BY <1>a, <2>1, <2>2, HandleTxSubmits
  <2>4. CASE Passes(dev, dev', AppEvents)
    BY <1>b, <2>4 DEF Passes
  <2>5. CASE ~Passes(dev, dev', AppEvents)
    BY <1>a, <2>3, <2>5 DEF Submitted, SameNumbers, MessageOK
  <2> QED
    BY <2>4, <2>5
<1>5. CASE StopSending
  <2>1. /\ SameNumbers(dev, dev') /\ SameMessage(dev, dev')
        /\ dev'.req_type = dev.req_type /\ (dev'.ack_received => dev.ack_received)
        /\ dev'.tx_ongoing => dev.tx_ongoing
    BY <1>a, <1>5, StopSendingCarries DEF StopSending, Step
  <2> QED
    BY <1>a, <2>1 DEF SameNumbers, SameMessage, MessageOK
<1>6. CASE Shutdown
  <2>1. ~dev.tx_ongoing
    BY <1>6 DEF Shutdown, Idle, Steady
  <2>2. /\ dev'.tx_ongoing = dev.tx_ongoing /\ dev'.req_type = "UNCONFIRMED"
        /\ dev'.tx_type = dev.tx_type
    BY <1>a, <1>6, ProcessShutdownStateParts DEF Shutdown, Step, AppEvents, SameMessage
  <2> QED
    BY <2>1, <2>2 DEF MessageOK
<1>7. ASSUME NEW c \in {"A", "C"}, SetDeviceClass(c)
      PROVE  Kept
  <2>1. Works(dev, set_device_class(dev, c), AppEvents) /\ dev' = set_device_class(dev, c)
    BY <1>a, <1>7, SetDeviceClassPasses DEF SetDeviceClass, Step, Passes
  <2> QED
    BY <1>b, <2>1
<1>8. CASE TxDone \/ TxTimeout \/ RxError \/ RxTimeout
  <2>1. PICK c \in RadioCalls : Strikes(dev, dev', c)
    BY <1>8, RadioStrikes DEF RadioCalls
  <2> QED
    BY <1>c, <2>1 DEF Strikes
<1>9. ASSUME NEW f \in Downlinks, RxDone(f)
      PROVE  Kept
  BY <1>c, <1>9, RxDoneIs
<1>10. CASE Clock
  <2>1. PICK t \in Timers : Expire(t) \/ ExpireOrphan(t)
    BY <1>10 DEF Clock
  <2>2. PICK c \in {LiveCall(t), StaleCall(t)} : Strikes(dev, dev', c)
    BY <2>1, ClockStrikes
  <2> QED
    BY <1>c, <2>2 DEF Strikes
<1>11. CASE UNCHANGED vars
  BY <1>a, <1>11 DEF vars
<1> QED
  BY <1>1, <1>2, <1>3, <1>4, <1>5, <1>6, <1>7, <1>8, <1>9, <1>10, <1>11
  DEF Next, Application, Radio

\* A new device has no message.
LEMMA MessageInit == Init => MessageInv
BY DEF Init, NewDevice, MessageInv, MessageOK

\* Without the acknowledgement the application is not told that a confirmed message
\* is done.
LEMMA UnacknowledgedUntold ==
    ASSUME Steady, SessionInv, MessageInv, [Next]_vars,
           Posted("TX_DONE"), dev.tx_ongoing, dev.tx_type = "CONFIRMED"
    PROVE  Called("process_reception") /\ Head(dev.due).frame.ack
<1>1. Dispatch
  BY QuietSteps DEF CallEvents, JoinEvents
<1>2. CASE ~(Called("process_reception") /\ Head(dev.due).frame.ack)
  <2>1. /\ dev.due # <<>> /\ dev' \in Devices
        /\ Continues(Tail(dev.due), dev'.due, Told(dev))
    BY <1>1, <1>2, DispatchMessage
  <2>2. "TX_DONE" \notin Told(dev)
    BY DEF Told
  <2>3. ~Posted("TX_DONE")
    BY <2>1, <2>2, HandlerPosts
  <2> QED
    BY <2>3
<1> QED
  BY <1>2

\* TX_DONE for a confirmed message is posted by the handler of a frame that carries
\* the acknowledgement, however its retransmissions, its windows and the automatic
\* uplink interleave.
THEOREM DoneIsAcknowledged == Steady /\ Spec => DoneMeansAcknowledged
<1> SUFFICES ASSUME Steady PROVE Spec => DoneMeansAcknowledged
  OBVIOUS
<1> DEFINE Acknowledged ==
             Posted("TX_DONE") /\ dev.tx_ongoing /\ dev.tx_type = "CONFIRMED" =>
               Called("process_reception") /\ Head(dev.due).frame.ack
<1>1. SessionInv /\ MessageInv /\ [Next]_vars => MessageInv'
  BY MessageNext
<1>2. SessionInv /\ MessageInv /\ [Next]_vars => Acknowledged
  BY UnacknowledgedUntold
<1>3. SessionInv /\ MessageInv /\ [Next]_vars => [Acknowledged]_vars
  BY <1>2
<1>4. [][Acknowledged]_vars => DoneMeansAcknowledged
  BY PTL DEF DoneMeansAcknowledged
<1> HIDE DEF Acknowledged
<1> QED
  BY <1>1, <1>3, <1>4, MessageInit, SessionInvHolds, PTL DEF Spec

-----------------------------------------------------------------------------
(* Uplink counters *)

\* Every transmission finds a channel and is carried out, and the application neither
\* cancels one nor disconnects.
Uninterrupted ==
    /\ Outcomes \subseteq {"OK", "RESTRICTED"}
    /\ AppCalls \cap {"shutdown", "stop_sending"} = {}
    /\ "tx_timeout" \notin RadioFaults

\* The calls after which the frame in the buffer may be on the air again.
Loud == {c \in Calls : \/ c.fn = "process_transmission"
                       \/ c.fn = "timer" /\ c.timer \in RetryTimers}

Failed == {[fn |-> "process_transmission_timeout"]}

Free(due, S) == \A i \in 1 .. Len(due) : due[i] \notin S

\* Nothing will send the frame in the buffer.
Silent(d) ==
    /\ d.radio # "tx"
    /\ (d.armed \cup d.orphans) \cap RetryTimers = {}
    /\ Free(d.due, Loud)

\* Only the message in progress is on the air with the counter of the device, and the
\* frame in the buffer is either its frame or an older one, or will not be sent.
CounterOK(d, A) ==
    /\ ~d.nwk_joined =>
         /\ A = {} /\ ~d.tx_ongoing /\ ~Framable(d)
         /\ d.tx_buffer.join \/ (d.tx_buffer.ul = 0 /\ Silent(d))
    /\ d.nwk_joined =>
         /\ \A a, b \in A : a.ul = b.ul => a.msg = b.msg
         /\ \A a \in A :
              /\ a.ul <= d.ul_frame_counter
              /\ a.ul = d.ul_frame_counter => d.tx_ongoing /\ a.msg = d.tx_msg
         /\ ~d.tx_buffer.join =>
              /\ d.tx_buffer.ul <= d.ul_frame_counter
              /\ \A a \in A : a.ul = d.tx_buffer.ul => a.msg = d.tx_buffer.msg
              /\ d.tx_buffer.ul = d.ul_frame_counter =>
                   Silent(d) \/ (d.tx_ongoing /\ d.tx_buffer.msg = d.tx_msg)

CounterInv == CounterOK(dev, aired) /\ Free(dev.due, Failed)

\* What a step does within a session: the frame stays and silence is kept, or the
\* message is counted, or its frame is built.
Advances(d, e) ==
    \/ /\ e.tx_ongoing = d.tx_ongoing
       /\ d.tx_ongoing => e.tx_msg = d.tx_msg
       /\ e.ul_frame_counter = d.ul_frame_counter
       /\ e.tx_buffer = d.tx_buffer
       /\ Silent(d) => Silent(e)
    \/ /\ e.ul_frame_counter = d.ul_frame_counter + 1
       /\ e.tx_buffer = d.tx_buffer
    \/ /\ e.ul_frame_counter = d.ul_frame_counter
       /\ e.tx_ongoing /\ Framed(e)
       /\ d.tx_ongoing => e.tx_msg = d.tx_msg

\* What a step does outside: nothing is sent but Join Requests.
Idles(d, e) ==
    /\ e.tx_ongoing => d.tx_ongoing
    /\ e.tx_type = d.tx_type
    /\ e.tx_buffer.join \/ (e.tx_buffer = d.tx_buffer /\ (Silent(d) => Silent(e)))

\* A frame that is sent again is one that is not silent, or an old one.
LEMMA AdvanceCounts ==
    ASSUME NEW d \in Devices, NEW e \in Devices, NEW A \in SUBSET [msg : Nat, ul : Nat],
           d.nwk_joined, e.nwk_joined, CounterOK(d, A), Advances(d, e)
    PROVE  CounterOK(e, A \cup Airing(e))
<1> DEFINE sent == [msg |-> e.tx_buffer.msg, ul |-> e.tx_buffer.ul]
           B == A \cup Airing(e)
<1>1. /\ d.ul_frame_counter \in Nat /\ e.ul_frame_counter \in Nat
      /\ d.tx_buffer \in TxBuffers /\ e.tx_buffer \in TxBuffers
  BY DEF Devices
<1>2. d.tx_buffer.ul \in Nat /\ e.tx_buffer.ul \in Nat
  BY <1>1 DEF TxBuffers
<1>3. /\ \A b \in B : b \in A \/ (b = sent /\ ~e.tx_buffer.join /\ ~Silent(e))
      /\ sent.ul = e.tx_buffer.ul /\ sent.msg = e.tx_buffer.msg
  BY DEF Airing, Silent
<1>4. \A a \in A : a.ul \in Nat
  OBVIOUS
<1> DEFINE Old == /\ \A a, b \in A : a.ul = b.ul => a.msg = b.msg
                  /\ \A a \in A :
                       /\ a.ul <= d.ul_frame_counter
                       /\ a.ul = d.ul_frame_counter => d.tx_ongoing /\ a.msg = d.tx_msg
           OldFrame == ~d.tx_buffer.join =>
                       /\ d.tx_buffer.ul <= d.ul_frame_counter
                       /\ \A a \in A : a.ul = d.tx_buffer.ul => a.msg = d.tx_buffer.msg
                       /\ d.tx_buffer.ul = d.ul_frame_counter =>
                            Silent(d) \/ (d.tx_ongoing /\ d.tx_buffer.msg = d.tx_msg)
           Frame == ~e.tx_buffer.join =>
                       /\ e.tx_buffer.ul <= e.ul_frame_counter
                       /\ \A a \in A : a.ul = e.tx_buffer.ul => a.msg = e.tx_buffer.msg
                       /\ e.tx_buffer.ul = e.ul_frame_counter =>
                            Silent(e) \/ (e.tx_ongoing /\ e.tx_buffer.msg = e.tx_msg)
           Numbers == \A a \in A :
                       /\ a.ul <= e.ul_frame_counter
                       /\ a.ul = e.ul_frame_counter => e.tx_ongoing /\ a.msg = e.tx_msg
<1>5. Old /\ OldFrame
  BY DEF CounterOK
<1>6. Frame /\ Numbers
  <2>1. CASE /\ e.tx_ongoing = d.tx_ongoing
             /\ d.tx_ongoing => e.tx_msg = d.tx_msg
             /\ e.ul_frame_counter = d.ul_frame_counter
             /\ e.tx_buffer = d.tx_buffer
             /\ Silent(d) => Silent(e)
    BY <1>5, <2>1
  <2>2. CASE /\ e.ul_frame_counter = d.ul_frame_counter + 1
             /\ e.tx_buffer = d.tx_buffer
    BY <1>1, <1>2, <1>4, <1>5, <2>2
  <2>3. CASE /\ e.ul_frame_counter = d.ul_frame_counter
             /\ e.tx_ongoing /\ Framed(e)
             /\ d.tx_ongoing => e.tx_msg = d.tx_msg
    BY <1>1, <1>2, <1>4, <1>5, <2>3 DEF Framed
  <2> QED
    BY <2>1, <2>2, <2>3 DEF Advances
<1> HIDE DEF sent, B, OldFrame
<1>7. \A a, b \in B : a.ul = b.ul => a.msg = b.msg
  BY <1>3, <1>5, <1>6
<1>8. \A a \in B :
        /\ a.ul <= e.ul_frame_counter
        /\ a.ul = e.ul_frame_counter => e.tx_ongoing /\ a.msg = e.tx_msg
  BY <1>3, <1>6
<1>9. ~e.tx_buffer.join => \A a \in B : a.ul = e.tx_buffer.ul => a.msg = e.tx_buffer.msg
  BY <1>3, <1>6
<1> QED
  BY <1>6, <1>7, <1>8, <1>9 DEF CounterOK, B

\* Outside a session there is nothing on the air, nor when one begins.
LEMMA IdleCounts ==
    ASSUME NEW d \in Devices, NEW e \in Devices, NEW A,
           ~d.nwk_joined, CounterOK(d, A), Idles(d, e)
    PROVE  A = {} /\ Airing(e) = {} /\ CounterOK(e, {})
<1>1. /\ A = {} /\ ~e.tx_ongoing /\ ~(~e.nwk_joined /\ Framable(e))
      /\ e.tx_buffer.join \/ (e.tx_buffer.ul = 0 /\ Silent(e))
  BY DEF CounterOK, Idles, Framable
<1>2. e.ul_frame_counter \in Nat
  BY DEF Devices
<1>3. Airing(e) = {}
  BY <1>1 DEF Airing, Silent
<1> QED
  BY <1>1, <1>2, <1>3 DEF CounterOK

\* Calls of a kind that is carried over to itself do not appear by themselves.
LEMMA ExtendsFree ==
    ASSUME NEW p \in Seq(Calls), NEW q \in Seq(Calls), NEW C, Extends(p, q, C),
           NEW S \in {Loud, Failed}, Free(p, S), C \cap S = {}
    PROVE  Free(q, S)
<1> SUFFICES ASSUME NEW i \in 1 .. Len(q), q[i] \in S
             PROVE  FALSE
  BY DEF Free
<1>1. CASE i \in 1 .. Len(p)
  <2>1. p[i] \in Calls /\ q[i] \in Calls /\ CarriedOver(p[i], q[i])
    BY <1>1 DEF Extends
  <2>2. p[i] \notin S
    BY <1>1 DEF Free
  <2>3. p[i].fn = "timer" /\ q[i].fn = "timer" /\ q[i].timer = p[i].timer
    BY <2>1, <2>2 DEF CarriedOver, Loud, Failed
  <2> QED
    BY <2>1, <2>2, <2>3 DEF Loud, Failed
<1>2. CASE i > Len(p)
  BY <1>2 DEF Extends
<1> QED
  BY <1>1, <1>2

\* The first call taken, the others are what they were.
LEMMA TailFree ==
    ASSUME NEW p \in Seq(Calls), p # <<>>, NEW S, Free(p, S)
    PROVE  Free(Tail(p), S) /\ Head(p) \notin S
<1>1. /\ Head(p) = p[1] /\ Len(Tail(p)) = Len(p) - 1 /\ Len(p) \in Nat /\ Len(p) > 0
      /\ \A i \in 1 .. Len(p) - 1 : Tail(p)[i] = p[i + 1]
  BY TailShifts
<1>2. \A i \in 1 .. Len(p) - 1 : i + 1 \in 1 .. Len(p)
  BY <1>1
<1> QED
  BY <1>1, <1>2 DEF Free

\* What handlers post is neither.
LEMMA PostsFree ==
    ASSUME NEW E
    PROVE  Posts(E) \cap Loud = {} /\ Posts(E) \cap Failed = {}
BY DEF Posts, Loud, Failed

\* Silence is kept where nothing is sent and no timer started that sends.
LEMMA StillSilent ==
    ASSUME NEW d \in Devices, NEW e \in Devices, NEW E, Continues(d.due, e.due, E), Still(d, e),
           Silent(d)
    PROVE  Silent(e)
<1>1. d.due \in Seq(Calls) /\ e.due \in Seq(Calls)
  BY DEF Devices
<1>2. Free(e.due, Loud)
  <2>1. Extends(d.due, e.due, Posts(E))
    BY ContinuesExtends
  <2> QED
    BY <1>1, <2>1, PostsFree, ExtendsFree DEF Silent
<1> QED
  BY <1>2 DEF Silent, Still

\* Most relations between a device and its successor are steps of this kind.
LEMMA PassesMoves ==
    ASSUME NEW d \in Devices, NEW e, NEW E, Passes(d, e, E)
    PROVE  Advances(d, e) /\ Idles(d, e)
<1>1. e \in Devices /\ Continues(d.due, e.due, E) /\ Still(d, e)
  BY DEF Passes, Works, Carries
<1>2. Silent(d) => Silent(e)
  BY <1>1, StillSilent
<1> QED
  BY <1>2 DEF Passes, Works, SameFrame, Advances, Idles

\* A message that goes on or is counted.
LEMMA ConcludedMoves ==
    ASSUME NEW d \in Devices, NEW e, NEW E, Concluded(d, e, E)
    PROVE  Advances(d, e) /\ Idles(d, e)
<1>1. CASE Passes(d, e, E)
  BY <1>1, PassesMoves
<1>2. CASE Counted(d, e, E)
  <2>1. e \in Devices /\ Continues(d.due, e.due, E) /\ Still(d, e)
    BY <1>2 DEF Counted, Works, Carries, Untouched
  <2>2. Silent(d) => Silent(e)
    BY <2>1, StillSilent
  <2> QED
    BY <1>2, <2>2 DEF Counted, Works, Untouched, Advances, Idles
<1> QED
  BY <1>1, <1>2 DEF Concluded

\* A reception within a session.
LEMMA ReceivedMoves ==
    ASSUME NEW d \in Devices, NEW e, NEW f, NEW E, Received(d, e, f, E)
    PROVE  Advances(d, e)
<1>1. e \in Devices /\ Continues(d.due, e.due, E) /\ Still(d, e)
  BY DEF Received, Untouched
<1>2. Silent(d) => Silent(e)
  BY <1>1, StillSilent
<1> QED
  BY <1>2 DEF Received, SameMessage, Untouched, Advances

\* What happens outside a session.
LEMMA OutsideMoves ==
    ASSUME NEW d \in Devices, NEW e, NEW E, Outside(d, e, E)
    PROVE  Idles(d, e)
<1>1. e \in Devices /\ Continues(d.due, e.due, E)
  BY DEF Outside
<1>2. Untouched(d, e) /\ Silent(d) => Silent(e)
  BY <1>1, StillSilent DEF Untouched
<1> QED
  BY <1>2 DEF Outside, SameMessage, Untouched, Idles

\* A message that is submitted, when every transmission finds a channel.
LEMMA SubmittedMoves ==
    ASSUME NEW d \in Devices, NEW e, NEW type, NEW ch \in {"OK", "RESTRICTED"}, NEW E,
           Submitted(d, e, type, ch, E)
    PROVE  /\ d.nwk_joined => Advances(d, e)
           /\ ~d.nwk_joined => Idles(d, e)
<1>1. CASE Passes(d, e, E)
  BY <1>1, PassesMoves
<1>2. CASE d.nwk_joined /\ ~d.tx_ongoing /\ ~e.tx_ongoing /\ Untouched(d, e)
  <2>1. e \in Devices /\ Continues(d.due, e.due, E) /\ Still(d, e)
    BY <1>2 DEF Submitted, Carries, Untouched
  <2>2. Silent(d) => Silent(e)
    BY <2>1, StillSilent
  <2>3. d.tx_ongoing \in BOOLEAN /\ e.tx_ongoing \in BOOLEAN
    BY <2>1 DEF Devices
  <2> QED
    BY <1>2, <2>2, <2>3 DEF Submitted, SameNumbers, Untouched, Advances
<1>3. CASE d.nwk_joined /\ ~d.tx_ongoing /\ Framed(e) /\ e.tx_ongoing
  BY <1>3 DEF Submitted, SameNumbers, Advances
<1> QED
  BY <1>1, <1>2, <1>3 DEF Submitted

\* A frame that is sent again was not silent.
LEMMA RetriedMoves ==
    ASSUME NEW d \in Devices, ~Silent(d), NEW p, NEW e, NEW E,
           SameNumbers(d, p), SameMessage(d, p), p.tx_buffer = d.tx_buffer,
           p.tx_ongoing = d.tx_ongoing,
           Retried(p, e, E) \/ (Works(p, e, E) /\ SameFrame(p, e))
    PROVE  /\ d.nwk_joined => Advances(d, e)
           /\ ~d.nwk_joined => Idles(d, e)
BY DEF Retried, Works, SameFrame, SameNumbers, SameMessage, Untouched, Advances, Idles

\* The call that is taken makes no noise by being taken.
LEMMA PoppedMoves ==
    ASSUME SessionInv, dev.due # <<>>, NEW e
    PROVE  /\ Advances(Popped, e) => Advances(dev, e)
           /\ Idles(Popped, e) => Idles(dev, e)
<1>1. Silent(dev) => Silent(Popped)
  BY PoppedIs, TailFree DEF Silent
<1> DEFINE p == Popped
<1>2. /\ p.tx_ongoing = dev.tx_ongoing /\ p.tx_msg = dev.tx_msg /\ p.tx_type = dev.tx_type
      /\ p.ul_frame_counter = dev.ul_frame_counter /\ p.tx_buffer = dev.tx_buffer
  BY PoppedIs DEF SameNumbers, SameMessage, Untouched
<1>3. Silent(dev) => Silent(p)
  BY <1>1
<1> HIDE DEF p
<1>4. /\ Advances(p, e) => Advances(dev, e)
      /\ Idles(p, e) => Idles(dev, e)
  BY <1>2, <1>3 DEF Advances, Idles
<1> QED
  BY <1>4 DEF p

\* What a step does to the frames on the air.
History ==
    \/ aired' = aired \cup Airing(dev')
    \/ ~dev.nwk_joined /\ aired' = {}

\* A step of the device.
LEMMA StepHistory ==
    ASSUME NEW d, Step(d)
    PROVE  dev' = d /\ History
BY DEF Step, History


\* Every handler goes on with the message in progress, counts it, or builds its frame;
\* outside a session it sends Join Requests.
LEMMA DispatchMoves ==
    ASSUME Uninterrupted, SessionInv, CounterInv, Dispatch
    PROVE  /\ dev' \in Devices
           /\ dev.nwk_joined => dev'.nwk_joined /\ Advances(dev, dev')
           /\ ~dev.nwk_joined => Idles(dev, dev')
<1>a. dev.due # <<>>
  BY DEF Dispatch, ProcessTransmission, ProcessTransmissionTimeout, ProcessReception,
         ProcessReceptionTimeout, RepeatForQOS, SendAutomaticUplink, SkipCancelled,
         EventHandler, OpenRx1, OpenRx2, Rx2Closure, BackoffExpired, AckTimeout,
         Called, TimerCalled
<1>b. /\ dev \in Devices /\ Popped \in Devices
      /\ dev.due \in Seq(Calls) /\ Head(dev.due) \in Calls
      /\ SameNumbers(dev, Popped) /\ SameMessage(dev, Popped)
      /\ Popped.tx_buffer = dev.tx_buffer /\ Popped.tx_ongoing = dev.tx_ongoing
  BY <1>a, PoppedIs DEF Untouched
<1>c. /\ MayConfirm(Popped, AppEvents)
      /\ {"TX_TIMEOUT", "AUTOMATIC_UPLINK_ERROR"} \subseteq AppEvents
      /\ \A f : MayTell(Popped, f, AppEvents)
  BY MayAll DEF AppEvents
<1>d. Head(dev.due) \in Loud => ~Silent(dev)
  BY <1>a, <1>b, TailFree DEF Silent
<1>e. Head(dev.due) \notin Failed
  BY <1>a, <1>b, TailFree DEF CounterInv
<1> DEFINE p == Popped
           E == AppEvents
<1>f. /\ p \in Devices /\ p.nwk_joined = dev.nwk_joined
      /\ SameNumbers(dev, p) /\ SameMessage(dev, p)
      /\ p.tx_buffer = dev.tx_buffer /\ p.tx_ongoing = dev.tx_ongoing
      /\ MayConfirm(p, E) /\ E \subseteq AppEvents
      /\ "TX_TIMEOUT" \in E /\ "AUTOMATIC_UPLINK_ERROR" \in E
  BY <1>b, <1>c DEF SameNumbers
<1>g. /\ Advances(p, dev') => Advances(dev, dev')
      /\ Idles(p, dev') => Idles(dev, dev')
  BY <1>a, PoppedMoves
<1>h. ~dev.nwk_joined => ~Framable(p)
  BY <1>f DEF CounterInv, CounterOK, Framable, SameMessage
<1> HIDE DEF p, E
<1> DEFINE Kept == /\ dev' \in Devices
                   /\ dev.nwk_joined => dev'.nwk_joined /\ Advances(dev, dev')
                   /\ ~dev.nwk_joined => Idles(dev, dev')
<1>i. ASSUME Passes(p, dev', E) \/ Concluded(p, dev', E)
      PROVE  Kept
  <2>1. Concluded(p, dev', E)
    BY <1>i DEF Concluded
  <2>2. Advances(p, dev') /\ Idles(p, dev')
    BY <1>f, <2>1, ConcludedMoves
  <2>3. Works(p, dev', E)
    BY <1>f, <2>1, ConcludedWorks
  <2> QED
    BY <1>f, <1>g, <2>2, <2>3 DEF Works, Carries
<1>j. ASSUME Head(dev.due) \in Loud,
             Retried(p, dev', E) \/ (Works(p, dev', E) /\ SameFrame(p, dev'))
      PROVE  Kept
  <2>1. /\ dev.nwk_joined => Advances(dev, dev')
        /\ ~dev.nwk_joined => Idles(dev, dev')
    BY <1>b, <1>d, <1>f, <1>j, RetriedMoves
  <2>2. Works(p, dev', E)
    BY <1>j DEF Retried
  <2> QED
    BY <1>f, <2>1, <2>2 DEF Works, Carries
<1>1. CASE ProcessTransmission
  <2>1. dev' = process_transmission(p)
    BY <1>1 DEF ProcessTransmission, Step, p
  <2>2. Works(p, process_transmission(p), E) /\ SameFrame(p, process_transmission(p))
    BY <1>f, ProcessTransmissionWorks
  <2>3. Head(dev.due) \in Loud
    BY <1>1, <1>b DEF ProcessTransmission, Called, Loud
  <2> QED
    BY <1>j, <2>1, <2>2, <2>3
<1>2. CASE ProcessTransmissionTimeout
  <2>1. Head(dev.due) \in Failed
    BY <1>2, <1>b DEF ProcessTransmissionTimeout, Called, Failed, Calls
  <2> QED
    BY <1>e, <2>1
<1>3. CASE ProcessReception
  <2>1. CASE dev.nwk_joined
    <3>1. Received(p, dev', Head(dev.due).frame, AppEvents)
      BY <1>3, <1>c, <2>1, ReceptionIs DEF p
    <3>2. Advances(p, dev')
      BY <1>f, <3>1, ReceivedMoves
    <3> QED
      BY <1>g, <2>1, <3>1, <3>2 DEF Received
  <2>2. CASE ~dev.nwk_joined
    <3>1. Outside(p, dev', JoinEvents)
      BY <1>3, <2>2, ReceptionIs DEF p
    <3>2. Idles(p, dev')
      BY <1>f, <3>1, OutsideMoves
    <3> QED
      BY <1>g, <2>2, <3>1, <3>2 DEF Outside
  <2> QED
    BY <2>1, <2>2
<1>4. CASE ProcessReceptionTimeout
  <2>1. PICK ch \in Outcomes : dev' = process_reception_timeout(p, ch)
    BY <1>4 DEF ProcessReceptionTimeout, Step, p
  <2>2. CASE p.nwk_joined
    <3>1. Concluded(p, dev', E)
      BY <1>f, <2>1, <2>2, ReceptionTimeoutConcludes
    <3> QED
      BY <1>i, <3>1
  <2>3. CASE ~p.nwk_joined
    <3>1. Retried(p, dev', JoinEvents)
      BY <1>f, <2>1, <2>3, ReceptionTimeoutConcludes
    <3>2. Outside(p, dev', JoinEvents)
      BY <2>3, <3>1, RetriedOutside
    <3>3. Idles(p, dev')
      BY <1>f, <3>2, OutsideMoves
    <3> QED
      BY <1>f, <1>g, <2>3, <3>2, <3>3 DEF Outside
  <2> QED
    BY <2>2, <2>3
<1>5. CASE RepeatForQOS
  <2>1. PICK ch \in Outcomes : dev' = process_scheduling_state(p, ch).dev
    BY <1>5 DEF RepeatForQOS, Step, p
  <2> DEFINE r == process_scheduling_state(p, ch)
  <2>2. ch \in {"OK", "RESTRICTED"}
    BY DEF Uninterrupted
  <2>3. /\ Carries(p, r.dev, E)
        /\ SameNumbers(p, r.dev) /\ SameMessage(p, r.dev)
        /\ r.dev.tx_ongoing = (r.status = "OK" \/ p.tx_ongoing)
        /\ \/ r.dev = p
           \/ Framable(p) /\ Framed(r.dev) /\ r.status = "OK"
           \/ ~Framable(p) /\ Untouched(p, r.dev) /\ r.status = "ERROR"
    BY <1>f, <2>2, ProcessSchedulingStateWorks
  <2>4. dev' = r.dev
    BY <2>1
  <2> HIDE DEF r
  <2>5. CASE r.dev = p
    BY <1>f, <1>i, <2>4, <2>5, PassesReflexive
  <2>6. CASE Framable(p) /\ Framed(r.dev) /\ r.status = "OK"
    <3>1. Advances(p, dev')
      BY <2>3, <2>4, <2>6 DEF Advances, SameNumbers, SameMessage
    <3> QED
      BY <1>f, <1>g, <1>h, <2>3, <2>4, <2>6, <3>1 DEF SameNumbers, Carries
  <2>7. CASE ~Framable(p) /\ Untouched(p, r.dev) /\ r.status = "ERROR"
    <3>1. Silent(p) => Silent(dev')
      BY <1>f, <2>3, <2>4, <2>7, StillSilent DEF Carries, Untouched
    <3>2. p.tx_ongoing \in BOOLEAN /\ dev'.tx_ongoing = p.tx_ongoing
      BY <1>f, <2>3, <2>4, <2>7 DEF Devices
    <3>3. Idles(p, dev')
      BY <2>3, <2>4, <2>7, <3>1, <3>2 DEF Idles, SameMessage, Untouched
    <3> QED
      BY <1>f, <1>g, <2>3, <2>4, <2>7, <3>3 DEF Framable, Carries
  <2> QED
    BY <2>3, <2>5, <2>6, <2>7
<1>6. CASE SendAutomaticUplink
  <2>1. PICK ch \in Outcomes : dev' = send_automatic_uplink_message(p, ch)
    BY <1>6 DEF SendAutomaticUplink, Step, p
  <2>2. ch \in {"OK", "RESTRICTED"}
    BY DEF Uninterrupted
  <2>3. Submitted(p, dev', "CONFIRMED", ch, E)
    BY <1>f, <2>1, SendAutomaticUplinkSubmits
  <2>4. /\ p.nwk_joined => Advances(p, dev')
        /\ ~p.nwk_joined => Idles(p, dev')
    BY <1>f, <2>2, <2>3, SubmittedMoves
  <2> QED
    BY <1>f, <1>g, <2>3, <2>4 DEF Submitted, SameNumbers, Carries
<1>7. CASE SkipCancelled \/ EventHandler
  <2>1. dev' = p
    BY <1>7 DEF SkipCancelled, EventHandler, Step, p
  <2> QED
    BY <1>f, <1>i, <2>1, PassesReflexive
<1>8. CASE OpenRx1
  <2>1. Passes(p, open_rx1_window(p), E) /\ dev' = open_rx1_window(p)
    BY <1>f, <1>8, OpenWindowPasses DEF OpenRx1, Step, p
  <2> QED
    BY <1>i, <2>1
<1>9. CASE OpenRx2
  <2>1. Passes(p, open_rx2_window(p), E) /\ dev' = open_rx2_window(p)
    BY <1>f, <1>9, OpenWindowPasses DEF OpenRx2, Step, p
  <2> QED
    BY <1>i, <2>1
<1>10. CASE Rx2Closure
  <2>1. Concluded(p, post_process_tx_no_reception(p), E)
    BY <1>f, PostProcessTxNoReceptionConcludes
  <2>2. dev' = post_process_tx_no_reception(p)
    BY <1>10 DEF Rx2Closure, Step, p
  <2> QED
    BY <1>i, <2>1, <2>2
<1>11. ASSUME NEW ch \in Outcomes, BackoffExpired(ch)
       PROVE  Kept
  <2> DEFINE r == on_backoff_timer_expiry(p, ch)
  <2>1. Works(p, r.dev, E) /\ Works(p, r.dev, AppEvents) /\ SameFrame(p, r.dev) /\ ~r.failed
    BY <1>f, OnBackoffTimerExpiryRetries DEF Uninterrupted
  <2>2. dev' = retry_or_fail(r)
    BY <1>11 DEF BackoffExpired, Step, p
  <2> HIDE DEF r
  <2>3. dev' = r.dev
    BY <1>f, <2>1, <2>2, RetryOrFailWorks
  <2>4. Head(dev.due) \in Loud
    BY <1>11, <1>b DEF BackoffExpired, TimerCalled, Called, Loud, RetryTimers
  <2> QED
    BY <1>j, <2>1, <2>3, <2>4
<1>12. ASSUME NEW ch \in [1 .. 3 -> Outcomes], AckTimeout(ch)
       PROVE  Kept
  <2> DEFINE r == on_ack_timeout_timer_event(p, ch)
  <2>1. ch[1] \in {"OK", "RESTRICTED"}
    <3>1. 1 \in 1 .. 3
      OBVIOUS
    <3>2. ch[1] \in Outcomes
      BY <3>1
    <3> QED
      BY <3>2 DEF Uninterrupted
  <2>2. /\ Retried(p, r.dev, E) /\ Retried(p, r.dev, AppEvents)
        /\ p.nwk_joined => ~r.failed
    BY <1>f, <2>1, OnAckTimeoutRetries
  <2>3. dev' = retry_or_fail(r)
    BY <1>12 DEF AckTimeout, Step, p
  <2>4. Head(dev.due) \in Loud
    BY <1>12, <1>b DEF AckTimeout, TimerCalled, Called, Loud, RetryTimers
  <2> HIDE DEF r
  <2>5. CASE ~r.failed
    <3>1. dev' = r.dev
      BY <1>f, <2>2, <2>3, <2>5, RetryOrFailWorks DEF Retried
    <3> QED
      BY <1>j, <2>2, <2>4, <3>1
  <2>6. CASE r.failed /\ ~p.nwk_joined
    <3>1. dev' = handle_scheduling_failure(r.dev)
      BY <2>3, <2>6 DEF retry_or_fail
    <3>2. r.dev \in Devices
      BY <2>2 DEF Retried, Works, Carries
    <3>3. Ended(r.dev, dev', AppEvents)
      <4>1. ReportOf(r.dev) \in AppEvents
        BY <3>2, ReportOfType DEF AppEvents
      <4> QED
        BY <3>1, <3>2, <4>1, HandleSchedulingFailureEnds
    <3>4. Works(r.dev, dev', AppEvents) /\ Untouched(r.dev, dev')
      BY <3>3 DEF Ended
    <3>5. Works(p, dev', AppEvents)
      BY <1>f, <2>2, <3>2, <3>4, WorksTransitive DEF Retried
    <3>6. dev'.tx_buffer.join \/ dev'.tx_buffer = p.tx_buffer
      BY <2>2, <2>6, <3>4 DEF Retried, Untouched
    <3>7. Idles(dev, dev')
      BY <1>d, <1>f, <2>4, <3>5, <3>6 DEF Works, Idles, SameMessage
    <3> QED
      BY <1>f, <2>6, <3>5, <3>7 DEF Works, Carries
  <2> QED
    BY <2>2, <2>5, <2>6
<1> QED
  BY <1>1, <1>2, <1>3, <1>4, <1>5, <1>6, <1>7, <1>8, <1>9, <1>10, <1>11, <1>12
  DEF Dispatch


\* What a radio interrupt or a timer changes is not the message: the call that it adds
\* makes no noise unless there was some.
LEMMA StruckMoves ==
    ASSUME NEW d \in Devices, NEW e \in Devices, SameWork(d, e),
           NEW c \in Calls, e.due \in {d.due, Append(d.due, c)}, e.radio # "tx",
           Silent(d) => c \notin Loud,
           (e.armed \cup e.orphans) \cap RetryTimers \subseteq d.armed \cup d.orphans
    PROVE  Advances(d, e) /\ Idles(d, e)
<1>1. d.due \in Seq(Calls) /\ e.due \in Seq(Calls)
  BY DEF Devices
<1>2. ASSUME Silent(d)
      PROVE  Free(e.due, Loud)
  <2>1. Free(d.due, Loud) /\ {c} \cap Loud = {}
    BY <1>2 DEF Silent
  <2>2. Extends(d.due, Append(d.due, c), {c})
    BY <1>1, AppendExtends
  <2>3. CASE e.due = Append(d.due, c)
    BY <1>1, <2>1, <2>2, <2>3, ExtendsFree
  <2> QED
    BY <2>1, <2>3
<1>3. Silent(d) => Silent(e)
  BY <1>2 DEF Silent
<1> QED
  BY <1>3 DEF SameWork, SameNumbers, SameMessage, Advances, Idles

\* So do the other steps.
LEMMA StepMoves ==
    ASSUME Uninterrupted, SessionInv, CounterInv, [Next]_vars
    PROVE  /\ dev' \in Devices
           /\ dev.nwk_joined => dev'.nwk_joined /\ Advances(dev, dev')
           /\ ~dev.nwk_joined => Idles(dev, dev')
<1>a. dev \in Devices /\ messages + 1 \in Nat
  BY DEF SessionInv, Sound, HistoryOK
<1> DEFINE Kept == /\ dev' \in Devices
                   /\ dev.nwk_joined => dev'.nwk_joined /\ Advances(dev, dev')
                   /\ ~dev.nwk_joined => Idles(dev, dev')
<1>b. ASSUME Passes(dev, dev', AppEvents)
      PROVE  Kept
  BY <1>a, <1>b, PassesMoves DEF Passes, Works, Carries
<1>c. ASSUME dev' \in Devices, SameWork(dev, dev'), NEW c \in Calls,
             dev'.due \in {dev.due, Append(dev.due, c)}, dev'.radio # "tx",
             Silent(dev) => c \notin Loud,
             (dev'.armed \cup dev'.orphans) \cap RetryTimers \subseteq dev.armed \cup dev.orphans
      PROVE  Kept
  <2>1. Advances(dev, dev') /\ Idles(dev, dev')
    BY <1>a, <1>c, StruckMoves
  <2> QED
    BY <1>c, <2>1 DEF SameWork, SameNumbers
<1>1. CASE Dispatch
  BY <1>1, DispatchMoves
<1>2. CASE Initialize
  <2>1. Passes(dev, set_state(dev, "IDLE"), AppEvents) /\ dev' = set_state(dev, "IDLE")
    BY <1>a, <1>2, SetStatePasses DEF Initialize, Step, DeviceStates
  <2> QED
    BY <1>b, <2>1
<1>3. ASSUME NEW otaa \in BOOLEAN, Connect(otaa)
      PROVE  Kept
  <2>1. PICK ch \in Outcomes : dev' = connect(dev, otaa, ch)
    BY <1>3 DEF Connect, Step
  <2>2. ~dev.nwk_joined
    BY <1>3, SessionInvIs DEF Connect, SessionConsistent
  <2>3. Outside(dev, dev', JoinEvents)
    BY <1>a, <2>1, <2>2, ConnectOutside
  <2>4. Idles(dev, dev')
    BY <1>a, <2>3, OutsideMoves
  <2> QED
    BY <2>2, <2>3, <2>4 DEF Outside
<1>4. ASSUME NEW type \in SendTypes, Send(type)
      PROVE  Kept
  <2>1. PICK ch \in Outcomes : dev' = handle_tx(dev, messages + 1, type, ch).dev
    BY <1>4 DEF Send, Step
  <2>2. type \in MessageTypes /\ ch \in {"OK", "RESTRICTED"}
    BY EnvironmentAssumption DEF Uninterrupted
  <2>3. Submitted(dev, dev', type, ch, AppEvents)
    BY <1>a, <2>1, <2>2, HandleTxSubmits
  <2>4. /\ dev.nwk_joined => Advances(dev, dev')
        /\ ~dev.nwk_joined => Idles(dev, dev')
    BY <1>a, <2>2, <2>3, SubmittedMoves
  <2> QED
    BY <1>a, <2>3, <2>4 DEF Submitted, SameNumbers, Carries
<1>5. ~StopSending /\ ~Shutdown
  BY DEF StopSending, Shutdown, Uninterrupted
<1>6. ASSUME NEW c \in {"A", "C"}, SetDeviceClass(c)
      PROVE  Kept
  <2>1. Passes(dev, set_device_class(dev, c), AppEvents) /\ dev' = set_device_class(dev, c)
    BY <1>a, <1>6, SetDeviceClassPasses DEF SetDeviceClass, Step
  <2> QED
    BY <1>b, <2>1
<1>7. CASE TxDone \/ TxTimeout \/ RxError \/ RxTimeout
  <2>1. ~TxTimeout
    BY DEF TxTimeout, Uninterrupted
  <2>2. PICK c \in {Sent} \cup NothingHeard :
          /\ Strikes(dev, dev', c)
          /\ dev.radio = "tx" \/ c \in NothingHeard
    BY <1>7, <2>1, RadioStrikes
  <2>3. dev'.radio # "tx" /\ dev'.armed = dev.armed /\ dev'.orphans = dev.orphans
    BY <1>7, RadioStrikes
  <2>4. c \in Calls
    BY DEF Sent, NothingHeard, Calls
  <2>5. c \in NothingHeard => c \notin Loud
    BY DEF NothingHeard, Loud
  <2>6. Silent(dev) => c \notin Loud
    BY <2>2, <2>5 DEF Silent
  <2> QED
    BY <1>c, <2>2, <2>3, <2>4, <2>6 DEF Strikes
<1>8. ASSUME NEW f \in Downlinks, RxDone(f)
      PROVE  Kept
  <2> DEFINE c == [fn |-> "process_reception", frame |-> f]
  <2>1. /\ dev' \in Devices /\ SameWork(dev, dev') /\ dev'.radio # "tx"
        /\ dev'.armed = dev.armed /\ dev'.orphans = dev.orphans
        /\ dev'.due \in {dev.due, Append(dev.due, c)}
    BY <1>8, RxDoneIs
  <2>2. c \in Calls /\ c \notin Loud
    BY EnvironmentAssumption DEF Calls, Loud
  <2> HIDE DEF c
  <2> QED
    BY <1>c, <2>1, <2>2
<1>9. CASE Clock
  <2>1. PICK t \in Timers : Expire(t) \/ ExpireOrphan(t)
    BY <1>9 DEF Clock
  <2>2. /\ t \in dev.armed \cup dev.orphans
        /\ dev'.radio = dev.radio
        /\ dev'.armed \subseteq dev.armed /\ dev'.orphans \subseteq dev.orphans
    BY <2>1, ClockStrikes
  <2>3. PICK c \in {LiveCall(t), StaleCall(t)} :
          Strikes(dev, dev', c) /\ dev'.due = Append(dev.due, c)
    BY <2>1, ClockStrikes
  <2>4. c \in Calls /\ c.fn = "timer" /\ c.timer = t
    <3>1. LiveCall(t) \in Calls /\ StaleCall(t) \in Calls
      BY DEF LiveCall, StaleCall, Calls
    <3>2. /\ LiveCall(t).fn = "timer" /\ LiveCall(t).timer = t
          /\ StaleCall(t).fn = "timer" /\ StaleCall(t).timer = t
      BY DEF LiveCall, StaleCall
    <3> QED
      BY <2>3, <3>1, <3>2
  <2>5. Silent(dev) => c \notin Loud
    BY <2>2, <2>4 DEF Silent, Loud
  <2>6. Silent(dev) => Silent(dev')
    <3>1. dev.due \in Seq(Calls) /\ dev'.due \in Seq(Calls)
      BY <1>a, <2>3 DEF Devices, Strikes
    <3>2. Extends(dev.due, dev'.due, {c})
      BY <2>3, <2>4, <3>1, AppendExtends
    <3>3. Silent(dev) => Free(dev'.due, Loud)
      BY <2>5, <3>1, <3>2, ExtendsFree DEF Silent
    <3> QED
      BY <2>2, <3>3 DEF Silent
  <2> QED
    BY <2>3, <2>6 DEF Strikes, SameWork, SameNumbers, SameMessage, Advances, Idles
<1>10. CASE UNCHANGED vars
  BY <1>a, <1>b, <1>10, PassesReflexive DEF vars
<1> QED
  BY <1>1, <1>2, <1>3, <1>4, <1>5, <1>6, <1>7, <1>8, <1>9, <1>10
  DEF Next, Application, Radio


\* No transmission that failed is on its way to be reported.
LEMMA FailedNext ==
    ASSUME Uninterrupted, SessionInv, CounterInv, [Next]_vars
    PROVE  Free(dev'.due, Failed)
<1>a. dev \in Devices /\ Free(dev.due, Failed)
  BY DEF SessionInv, Sound, CounterInv
<1>b. dev.due \in Seq(Calls)
  BY <1>a DEF Devices
<1>c. ASSUME NEW p \in Seq(Calls), Free(p, Failed), dev'.due \in Seq(Calls),
             NEW E, Continues(p, dev'.due, E)
      PROVE  Free(dev'.due, Failed)
  <2>1. Extends(p, dev'.due, Posts(E))
    BY <1>c, ContinuesExtends
  <2> QED
    BY <1>c, <2>1, PostsFree, ExtendsFree
<1>d. ASSUME NEW c \in Calls, c \notin Failed, dev'.due \in {dev.due, Append(dev.due, c)}
      PROVE  Free(dev'.due, Failed)
  <2>1. Extends(dev.due, Append(dev.due, c), {c}) /\ Append(dev.due, c) \in Seq(Calls)
    BY <1>b, AppendExtends
  <2>2. Free(Append(dev.due, c), Failed)
    <3>1. {c} \cap Failed = {}
      BY <1>d
    <3> QED
      BY <1>a, <1>b, <2>1, <3>1, ExtendsFree
  <2> QED
    BY <1>a, <1>d, <2>2
<1>1. CASE Dispatch /\ ~Called("process_reception")
  <2>1. dev.due # <<>> /\ Bears(Popped, dev', AppEvents)
    BY <1>1, DispatchBears
  <2>2. /\ Popped.due = Tail(dev.due) /\ Tail(dev.due) \in Seq(Calls)
        /\ Free(Tail(dev.due), Failed)
    BY <1>a, <2>1, PoppedIs, TailFree
  <2>3. dev'.due \in Seq(Calls)
    BY <2>1 DEF Bears, Carries, Devices
  <2> QED
    BY <1>c, <2>1, <2>2, <2>3 DEF Bears, Carries
<1>2. CASE ProcessReception
  <2>1. /\ dev.due # <<>> /\ dev'.due \in Seq(Calls)
        /\ \E E : Continues(Popped.due, dev'.due, E)
    BY <1>2, ReceptionIs, MayAll DEF Received, Outside
  <2>2. /\ Popped.due = Tail(dev.due) /\ Tail(dev.due) \in Seq(Calls)
        /\ Free(Tail(dev.due), Failed)
    BY <1>a, <2>1, PoppedIs, TailFree
  <2> QED
    BY <1>c, <2>1, <2>2
<1>3. CASE Application
  <2>1. \E E : Continues(dev.due, dev'.due, E) /\ dev' \in Devices
    BY <1>3, ApplicationBears DEF Bears, Carries, Outside
  <2>2. dev'.due \in Seq(Calls)
    BY <2>1 DEF Devices
  <2> QED
    BY <1>a, <1>b, <1>c, <2>1, <2>2
<1>4. CASE TxDone \/ TxTimeout \/ RxError \/ RxTimeout
  <2>1. PICK c \in {Sent} \cup NothingHeard : Strikes(dev, dev', c)
    BY <1>4, RadioStrikes DEF TxTimeout, Uninterrupted
  <2>2. c \in Calls /\ c \notin Failed
    BY DEF Sent, NothingHeard, Calls, Failed
  <2> QED
    BY <1>d, <2>1, <2>2 DEF Strikes
<1>5. ASSUME NEW f \in Downlinks, RxDone(f)
      PROVE  Free(dev'.due, Failed)
  <2> DEFINE c == [fn |-> "process_reception", frame |-> f]
  <2>1. dev'.due \in {dev.due, Append(dev.due, c)}
    BY <1>5, RxDoneIs
  <2>2. c \in Calls /\ c \notin Failed
    BY EnvironmentAssumption DEF Calls, Failed
  <2> HIDE DEF c
  <2> QED
    BY <1>d, <2>1, <2>2
<1>6. CASE Clock
  <2>1. PICK t \in Timers : Expire(t) \/ ExpireOrphan(t)
    BY <1>6 DEF Clock
  <2>2. PICK c \in {LiveCall(t), StaleCall(t)} : dev'.due = Append(dev.due, c)
    BY <2>1, ClockStrikes
  <2>3. c \in Calls /\ c \notin Failed
    <3>1. LiveCall(t) \in Calls /\ StaleCall(t) \in Calls
      BY DEF LiveCall, StaleCall, Calls
    <3>2. LiveCall(t).fn = "timer" /\ StaleCall(t).fn = "timer"
      BY DEF LiveCall, StaleCall
    <3> QED
      BY <2>2, <3>1, <3>2 DEF Failed
  <2> QED
    BY <1>d, <2>2, <2>3
<1>7. CASE UNCHANGED vars
  BY <1>a, <1>7 DEF vars
<1>8. Dispatch /\ Called("process_reception") => ProcessReception
  BY DEF Dispatch, ProcessTransmission, ProcessTransmissionTimeout, ProcessReception,
         ProcessReceptionTimeout, RepeatForQOS, SendAutomaticUplink, SkipCancelled,
         EventHandler, OpenRx1, OpenRx2, Rx2Closure, BackoffExpired, AckTimeout,
         Called, TimerCalled
<1> QED
  BY <1>1, <1>2, <1>3, <1>4, <1>5, <1>6, <1>7, <1>8 DEF Next, Radio

\* Every step puts on the air what the device then sends, or begins a session.
LEMMA NextHistory ==
    ASSUME SessionInv, [Next]_vars
    PROVE  \/ History
           \/ aired' = aired /\ Airing(dev') = {}
           \/ UNCHANGED vars
<1>1. ASSUME NEW f \in Downlinks, RxDone(f)
      PROVE  aired' = aired /\ Airing(dev') = {}
  <2>1. dev'.radio # "tx"
    BY <1>1, RxDoneIs
  <2> QED
    BY <1>1, <2>1 DEF RxDone, Airing
<1>2. (Dispatch \/ Application \/ TxDone \/ TxTimeout \/ RxError \/ RxTimeout \/ Clock)
         => \E d : Step(d)
  <2>1. Dispatch => \E d : Step(d)
    BY DEF Dispatch, ProcessTransmission, ProcessTransmissionTimeout, ProcessReception,
           ProcessReceptionTimeout, RepeatForQOS, SendAutomaticUplink, SkipCancelled,
           EventHandler, OpenRx1, OpenRx2, Rx2Closure, BackoffExpired, AckTimeout
  <2>2. Application => \E d : Step(d)
    BY DEF Application, Initialize, Connect, Send, StopSending, Shutdown, SetDeviceClass
  <2>3. TxDone \/ TxTimeout \/ RxError \/ RxTimeout => \E d : Step(d)
    BY DEF TxDone, TxTimeout, RxError, RxTimeout
  <2>4. Clock => \E d : Step(d)
    BY DEF Clock, Expire, ExpireOrphan
  <2> QED
    BY <2>1, <2>2, <2>3, <2>4
<1> QED
  BY <1>1, <1>2, StepHistory DEF Next, Radio

\* Every step keeps the invariant.
LEMMA CounterNext ==
    ASSUME Uninterrupted, SessionInv, CounterInv, [Next]_vars
    PROVE  CounterInv'
<1>1. /\ dev \in Devices /\ dev' \in Devices
      /\ dev.nwk_joined => dev'.nwk_joined /\ Advances(dev, dev')
      /\ ~dev.nwk_joined => Idles(dev, dev')
  BY StepMoves DEF SessionInv, Sound
<1>2. aired \in SUBSET [msg : Nat, ul : Nat] /\ CounterOK(dev, aired)
  BY DEF SessionInv, HistoryOK, CounterInv
<1>3. Free(dev'.due, Failed)
  BY FailedNext
<1>4. \/ aired' = aired \cup Airing(dev')
      \/ ~dev.nwk_joined /\ aired' = {}
      \/ UNCHANGED vars
  BY NextHistory DEF History
<1>5. CounterOK(dev', aired')
  <2>1. CASE UNCHANGED vars
    BY <1>2, <2>1 DEF vars
  <2>2. CASE dev.nwk_joined /\ aired' = aired \cup Airing(dev')
    <3>1. CounterOK(dev', aired \cup Airing(dev'))
      BY <1>1, <1>2, <2>2, AdvanceCounts
    <3> QED
      BY <2>2, <3>1
  <2>3. CASE ~dev.nwk_joined
    <3>1. aired = {} /\ Airing(dev') = {} /\ CounterOK(dev', {})
      BY <1>1, <1>2, <2>3, IdleCounts
    <3>2. CASE aired' = {}
      BY <3>1, <3>2
    <3> QED
      BY <1>4, <2>1, <3>1, <3>2
  <2> QED
    BY <1>4, <2>1, <2>2, <2>3
<1> QED
  BY <1>3, <1>5 DEF CounterInv, CounterOK, Free, Framable, Silent, Failed, Loud

\* A new device has sent nothing.
LEMMA CounterInit == Init => CounterInv
BY DEF Init, NewDevice, NoTxBuffer, CounterInv, CounterOK, Framable, Silent, Free

\* Two frames with one counter are of one message.
LEMMA CounterUnique == CounterInv => CountersUnique
BY DEF CounterInv, CounterOK, CountersUnique

\* An uplink counter is spent on one message and its retransmissions: the next message
\* is built when the last one has been counted, and a frame that is older is no longer
\* sent with the counter of the device.
THEOREM CountersAreUnique == Uninterrupted /\ Spec => []CountersUnique
<1> SUFFICES ASSUME Uninterrupted PROVE Spec => []CountersUnique
  OBVIOUS
<1>1. SessionInv /\ CounterInv /\ [Next]_vars => CounterInv'
  BY CounterNext
<1> QED
  BY <1>1, CounterInit, CounterUnique, SessionInvHolds, PTL DEF Spec

=============================================================================
